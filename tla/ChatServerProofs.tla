--------------------------- MODULE ChatServerProofs ---------------------------
(****************************************************************************)
(* Theorems about ChatServer, for any number of workers, any initial        *)
(* capacity of at least two and any set of datagrams: the type invariant,   *)
(* that every buffer has exactly one holder, that tokens and tasks balance, *)
(* that a worker is only handed a null task by the shutdown, and that the   *)
(* server implements the abstract work queue.                               *)
(****************************************************************************)
EXTENDS ChatServer, SequenceFacts, FiniteSetTheorems

(****************************************************************************)
(* What each method of the buffer pool does to the set of buffers the pool  *)
(* holds.  Every lemma also keeps the pool's type and its rule that no      *)
(* buffer is held twice.                                                    *)
(****************************************************************************)

PoolOK == PoolTypeOK /\ PoolHoldsOnce

\* enlarge_capacity adds at least one buffer: the pool starts with two or more.
LEMMA EnlargedIsLarger ==
  ASSUME PoolTypeOK
  PROVE  Enlarged \in Nat /\ Enlarged > capacity
BY PoolAssumption DEF PoolTypeOK, Enlarged

\* What a stack holds after lo+1..hi were pushed on it, hi last.
LEMMA PushedFacts ==
  ASSUME NEW lo \in Nat, NEW hi \in Nat, lo <= hi
  PROVE  /\ Pushed(lo, hi) \in Seq(1..hi)
         /\ Range(Pushed(lo, hi)) = (lo + 1)..hi
         /\ IsInjective(Pushed(lo, hi))
<1> DEFINE p == Pushed(lo, hi)
<1>1. /\ p \in Seq(1..hi)
      /\ DOMAIN p = 1..(hi - lo)
      /\ \A i \in 1..(hi - lo) : p[i] = hi + 1 - i
  BY DEF Pushed
<1> HIDE DEF p
<1>2. ASSUME NEW x \in (lo + 1)..hi
      PROVE  \E i \in 1..(hi - lo) : p[i] = x
  <2>1. hi + 1 - x \in 1..(hi - lo) /\ p[hi + 1 - x] = x
    BY <1>1
  <2> QED BY <2>1
<1>3. ASSUME NEW i \in 1..(hi - lo)
      PROVE  p[i] \in (lo + 1)..hi
  BY <1>1
<1>4. Range(p) = (lo + 1)..hi
  BY <1>1, <1>2, <1>3 DEF Range
<1>5. IsInjective(p)
  BY <1>1 DEF IsInjective
<1> QED BY <1>1, <1>4, <1>5 DEF p

\* The pool only holds buffers it has made.
LEMMA InPoolIsBuffer ==
  ASSUME PoolTypeOK, NEW b, InPool(b)
  PROVE  b \in 1..capacity
BY RangeOfSeq DEF PoolTypeOK, InPool

\* The constructor's pool holds every buffer, all of them free.
LEMMA PoolInitOK ==
  ASSUME PoolInit
  PROVE  /\ PoolOK
         /\ used_stack_ = <<>> /\ Len(used_stack_) = 0
         /\ \A b \in 1..capacity : InPool(b)
<1>1. /\ free_stack_ \in Seq(1..capacity)
      /\ Range(free_stack_) = 1..capacity
      /\ IsInjective(free_stack_)
  BY PushedFacts, PoolAssumption DEF PoolInit
<1>2. used_stack_ = <<>> /\ Len(used_stack_) = 0 /\ Range(used_stack_) = {}
  BY DEF PoolInit, Range
<1>3. PoolTypeOK
  BY <1>1, <1>2, PoolAssumption DEF PoolInit, PoolTypeOK
<1>4. IsInjective(used_stack_)
  BY <1>2 DEF IsInjective
<1> QED BY <1>1, <1>2, <1>3, <1>4 DEF PoolOK, PoolHoldsOnce, InPool

\* get_empty_buffer hands out a buffer the pool then no longer holds.
LEMMA GetFreeBufferTakes ==
  ASSUME PoolOK, NEW b, GetFreeBuffer(b)
  PROVE  /\ PoolOK'
         /\ b \in 1..capacity
         /\ InPool(b)
         /\ \A c : InPool(c)' <=> InPool(c) /\ c # b
<1>1. /\ b \in 1..capacity
      /\ free_stack_' \in Seq(1..capacity)
      /\ Range(free_stack_) = {b} \cup Range(free_stack_')
      /\ IsInjective(free_stack_') /\ b \notin Range(free_stack_')
  BY TailFacts DEF PoolOK, PoolTypeOK, PoolHoldsOnce, GetFreeBuffer
<1>2. UNCHANGED <<used_stack_, capacity, contents>>
  BY DEF GetFreeBuffer
<1> QED BY <1>1, <1>2 DEF PoolOK, PoolTypeOK, PoolHoldsOnce, InPool

\* An enlarged pool holds its new buffers, except the one it hands out.
LEMMA GetNewBufferTakes ==
  ASSUME PoolOK, NEW b, GetNewBuffer(b)
  PROVE  /\ PoolOK'
         /\ capacity' > capacity
         /\ b \in 1..capacity' /\ b \notin 1..capacity
         /\ \A c : InPool(c)' <=>
                     (InPool(c) \/ c \in (capacity + 1)..capacity') /\ c # b
         /\ \A c \in 1..capacity : contents'[c] = contents[c]
<1>1. /\ capacity \in Nat /\ Enlarged \in Nat /\ Enlarged > capacity
      /\ capacity' = Enlarged /\ b = Enlarged
      /\ free_stack_ = <<>> /\ UNCHANGED used_stack_
      /\ free_stack_' = Pushed(capacity, Enlarged - 1)
  BY EnlargedIsLarger DEF PoolOK, PoolTypeOK, GetNewBuffer
<1>2. /\ free_stack_' \in Seq(1..(Enlarged - 1))
      /\ Range(free_stack_') = (capacity + 1)..(Enlarged - 1)
      /\ IsInjective(free_stack_')
  <2>1. Enlarged - 1 \in Nat /\ capacity <= Enlarged - 1
    BY <1>1
  <2>2. /\ Pushed(capacity, Enlarged - 1) \in Seq(1..(Enlarged - 1))
        /\ Range(Pushed(capacity, Enlarged - 1)) = (capacity + 1)..(Enlarged - 1)
        /\ IsInjective(Pushed(capacity, Enlarged - 1))
    BY <1>1, <2>1, PushedFacts
  <2> QED BY <1>1, <2>2
<1>3. used_stack_ \in Seq(1..capacity) /\ Range(used_stack_) \in SUBSET (1..capacity)
  BY RangeOfSeq DEF PoolOK, PoolTypeOK
<1>4. Range(free_stack_) = {}
  BY <1>1 DEF Range
<1>5. contents' = [c \in 1..Enlarged |->
                     IF c <= capacity THEN contents[c] ELSE Zeroed]
  BY DEF GetNewBuffer
<1>6. PoolTypeOK'
  <2>1. free_stack_' \in Seq(1..Enlarged) /\ used_stack_' \in Seq(1..Enlarged)
    <3>1. 1..(Enlarged - 1) \subseteq 1..Enlarged /\ 1..capacity \subseteq 1..Enlarged
      BY <1>1
    <3> QED BY <1>1, <1>2, <1>3, <3>1, SeqMonotonic
  <2>2. contents' \in [1..Enlarged -> Datagrams \cup {Zeroed}]
    BY <1>1, <1>5 DEF PoolOK, PoolTypeOK
  <2>3. capacity' \in Nat /\ capacity' >= InitialCapacity
    BY <1>1, PoolAssumption DEF PoolOK, PoolTypeOK
  <2> QED BY <1>1, <2>1, <2>2, <2>3 DEF PoolTypeOK
<1>7. PoolHoldsOnce'
  <2>1. ((capacity + 1)..(Enlarged - 1)) \cap (1..capacity) = {}
    BY <1>1
  <2> QED BY <1>1, <1>2, <1>3, <2>1 DEF PoolOK, PoolHoldsOnce
<1>8. ASSUME NEW c
      PROVE  InPool(c)' <=> (InPool(c) \/ c \in (capacity + 1)..capacity') /\ c # b
  <2>1. InPool(c) <=> c \in Range(used_stack_)
    BY <1>4 DEF InPool
  <2>2. InPool(c)' <=> c \in (capacity + 1)..(Enlarged - 1) \/ c \in Range(used_stack_)
    BY <1>1, <1>2 DEF InPool
  <2>3. c \in (capacity + 1)..(Enlarged - 1)
          <=> c \in (capacity + 1)..capacity' /\ c # b
    BY <1>1
  <2>4. c \in Range(used_stack_) => c # b
    BY <1>1, <1>3
  <2> QED BY <2>1, <2>2, <2>3, <2>4
<1>9. /\ capacity' > capacity /\ b \in 1..capacity' /\ b \notin 1..capacity
      /\ \A c \in 1..capacity : contents'[c] = contents[c]
  BY <1>1, <1>5
<1> QED BY <1>6, <1>7, <1>8, <1>9 DEF PoolOK

\* recycle_buffer adds the buffer to the pool, provided the pool did not hold it.
LEMMA RecycleBufferAdds ==
  ASSUME PoolOK, NEW b \in 1..capacity, ~InPool(b), RecycleBuffer(b)
  PROVE  /\ PoolOK'
         /\ \A c : InPool(c)' <=> InPool(c) \/ c = b
<1>1. b \notin Range(free_stack_) /\ b \notin Range(used_stack_)
  BY DEF InPool
<1>2. /\ free_stack_' \in Seq(1..capacity)
      /\ Range(free_stack_') = Range(free_stack_) \cup {b}
      /\ IsInjective(free_stack_')
  BY <1>1, PushFacts DEF PoolOK, PoolTypeOK, PoolHoldsOnce, RecycleBuffer
<1>3. UNCHANGED <<used_stack_, capacity, contents>>
  BY DEF RecycleBuffer
<1> QED BY <1>1, <1>2, <1>3 DEF PoolOK, PoolTypeOK, PoolHoldsOnce, InPool

\* save_task_buffer likewise, at the end of the queue.
LEMMA SaveTaskBufferAdds ==
  ASSUME PoolOK, NEW b \in 1..capacity, ~InPool(b), SaveTaskBuffer(b)
  PROVE  /\ PoolOK'
         /\ \A c : InPool(c)' <=> InPool(c) \/ c = b
         /\ Len(used_stack_) \in Nat
         /\ Len(used_stack_') = Len(used_stack_) + 1
         /\ Range(used_stack_') = Range(used_stack_) \cup {b}
         /\ \A i \in 1..Len(used_stack_) : used_stack_'[i] = used_stack_[i]
         /\ used_stack_'[Len(used_stack_) + 1] = b
<1>1. b \notin Range(free_stack_) /\ b \notin Range(used_stack_)
  BY DEF InPool
<1>2. /\ used_stack_' \in Seq(1..capacity)
      /\ Range(used_stack_') = Range(used_stack_) \cup {b}
      /\ IsInjective(used_stack_')
      /\ Len(used_stack_) \in Nat
      /\ Len(used_stack_') = Len(used_stack_) + 1
      /\ \A i \in 1..Len(used_stack_) : used_stack_'[i] = used_stack_[i]
      /\ used_stack_'[Len(used_stack_) + 1] = b
  BY <1>1, AppendFacts DEF PoolOK, PoolTypeOK, PoolHoldsOnce, SaveTaskBuffer
<1>3. UNCHANGED <<free_stack_, capacity, contents>>
  BY DEF SaveTaskBuffer
<1> QED BY <1>1, <1>2, <1>3 DEF PoolOK, PoolTypeOK, PoolHoldsOnce, InPool

\* get_task_buffer takes the oldest buffer out of the pool.
LEMMA GetTaskBufferTakes ==
  ASSUME PoolOK, NEW b, GetTaskBuffer(b)
  PROVE  /\ PoolOK'
         /\ b \in 1..capacity
         /\ InPool(b)
         /\ \A c : InPool(c)' <=> InPool(c) /\ c # b
         /\ b = used_stack_[1]
         /\ Range(used_stack_) = {b} \cup Range(used_stack_')
         /\ b \notin Range(used_stack_')
         /\ \A i \in 1..Len(used_stack_') : used_stack_'[i] = used_stack_[i + 1]
         /\ Len(used_stack_) \in Nat \ {0}
         /\ Len(used_stack_') = Len(used_stack_) - 1
<1>1. /\ b \in 1..capacity
      /\ used_stack_' \in Seq(1..capacity)
      /\ Range(used_stack_) = {b} \cup Range(used_stack_')
      /\ IsInjective(used_stack_') /\ b \notin Range(used_stack_')
      /\ Len(used_stack_) \in Nat \ {0}
      /\ Len(used_stack_') = Len(used_stack_) - 1
      /\ b = used_stack_[1]
      /\ \A i \in 1..Len(used_stack_') : used_stack_'[i] = used_stack_[i + 1]
  BY TailFacts DEF PoolOK, PoolTypeOK, PoolHoldsOnce, GetTaskBuffer
<1>2. UNCHANGED <<free_stack_, capacity, contents>>
  BY DEF GetTaskBuffer
<1> QED BY <1>1, <1>2 DEF PoolOK, PoolTypeOK, PoolHoldsOnce, InPool

\* recvfrom changes what is in a buffer and not who holds it.
LEMMA FillBufferKeeps ==
  ASSUME PoolOK, NEW b \in 1..capacity, NEW d \in Datagrams, FillBuffer(b, d)
  PROVE  /\ PoolOK'
         /\ \A c : InPool(c)' <=> InPool(c)
         /\ contents'[b] = d
         /\ \A c \in 1..capacity : c # b => contents'[c] = contents[c]
BY DEF PoolOK, PoolTypeOK, PoolHoldsOnce, InPool, FillBuffer

-----------------------------------------------------------------------------
(* The chat server.                                                         *)

\* The program counters at which a worker owns a buffer.
Busy == {"serve", "send", "erase", "recycle"}

\* Who holds a buffer can be told from the program counters.
Holding == /\ mtask # NoBuffer <=> mpc \in {"recv", "save"}
           /\ \A w \in Workers : wtask[w] # NoBuffer <=> wpc[w] \in Busy

\* A buffer that is queued or handled holds a datagram, and an address that was
\* looked up is one.
Received == /\ mpc = "save" => contents[mtask] \in Datagrams
            /\ \A b \in Range(used_stack_) : contents[b] \in Datagrams
            /\ \A w \in Workers : wpc[w] \in Busy => contents[wtask[w]] \in Datagrams
            /\ \A w \in Workers : wpc[w] = "send" => target[w] \in Addrs

\* The destructor only posts once main has left its loop.
Closing == posted > 0 => mpc \in {"posting", "done"}

\* The inductive invariant.  OneHolder is what makes Received survive recvfrom,
\* and TokensBalance what makes NullOnlyAtShutdown true.
IInv == /\ TypeOK
        /\ OneHolder
        /\ Holding
        /\ Received
        /\ Closing
        /\ TokensBalance
        /\ NullOnlyAtShutdown

-----------------------------------------------------------------------------
(* The number of workers that hold a token.                                 *)

\* The workers between their token and their task are finitely many.
LEMMA ClaimantsAreFinite ==
  IsFiniteSet(Claimants) /\ Cardinality(Claimants) \in Nat
BY FS_Subset, FS_CardinalityType, ServerAssumption DEF Claimants

\* A worker that takes a token adds one ...
LEMMA ClaimantEnters ==
  ASSUME NEW w \in Workers, wpc \in [Workers -> WorkerPC], wpc[w] # "take",
         Goto(w, "take")
  PROVE  Cardinality(Claimants') = Cardinality(Claimants) + 1
<1>1. Claimants' = Claimants \cup {w} /\ w \notin Claimants
  BY DEF Claimants, Goto
<1> QED BY <1>1, ClaimantsAreFinite, FS_AddElement

\* ... one that has asked the pool takes one away ...
LEMMA ClaimantLeaves ==
  ASSUME NEW w \in Workers, NEW to, wpc \in [Workers -> WorkerPC],
         wpc[w] = "take", to # "take", Goto(w, to)
  PROVE  Cardinality(Claimants') = Cardinality(Claimants) - 1
<1>1. Claimants' = Claimants \ {w} /\ w \in Claimants
  BY DEF Claimants, Goto
<1> QED BY <1>1, ClaimantsAreFinite, FS_RemoveElement

\* ... and no other step of a worker changes it.
LEMMA ClaimantsStay ==
  ASSUME NEW w \in Workers, NEW to, wpc \in [Workers -> WorkerPC],
         wpc[w] # "take", to # "take", Goto(w, to)
  PROVE  Claimants' = Claimants
BY DEF Claimants, Goto

\* A worker about to take a task counts: at least one token is out.
LEMMA SomeClaimant ==
  ASSUME NEW w \in Workers, wpc[w] = "take"
  PROVE  Cardinality(Claimants) > 0
<1>1. Claimants # {}
  BY DEF Claimants
<1> QED BY <1>1, ClaimantsAreFinite, FS_EmptySet

-----------------------------------------------------------------------------
(* Steps that leave the buffers with their holders.                         *)

\* A step that touches neither the pool nor anyone's buffer leaves every buffer with
\* its holder.
LEMMA HoldersStay ==
  ASSUME OneHolder, UNCHANGED <<poolVars, mtask, wtask>>
  PROVE  OneHolder'
BY DEF OneHolder, PoolHoldsOnce, InPool, poolVars

\* The inductive invariant contains what the lemmas on BufferPool assume.
LEMMA PoolIsOK ==
  ASSUME IInv
  PROVE  PoolOK
BY DEF IInv, TypeOK, OneHolder, PoolOK

\* A worker that goes on with its buffer: what the handlers have in common.
LEMMA WorkerGoesOn ==
  ASSUME IInv, NEW w \in Workers, NEW to \in WorkerPC,
         wpc[w] \notin {"take", "crashed"}, to \notin {"take", "crashed", "send"},
         wpc[w] \in Busy <=> to \in Busy,
         Goto(w, to),
         UNCHANGED <<poolVars, mainVars, sem, wtask>>,
         target' = target \/ target' = [target EXCEPT ![w] = Unregistered]
  PROVE  OneHolder' /\ Holding' /\ Received' /\ Closing' /\ TokensBalance'
         /\ NullOnlyAtShutdown'
<1>1. OneHolder'
  BY HoldersStay DEF IInv, mainVars
<1>2. Holding'
  BY DEF IInv, TypeOK, Holding, Goto, mainVars
<1>3. Received'
  BY DEF IInv, TypeOK, Received, Goto, mainVars, poolVars
<1>4. Closing'
  BY DEF IInv, Closing, mainVars
<1>5. Claimants' = Claimants
  BY ClaimantsStay DEF IInv, TypeOK
<1>6. Crashed' <=> Crashed
  BY DEF IInv, TypeOK, Crashed, Goto
<1>7. TokensBalance'
  BY <1>5, <1>6 DEF IInv, TokensBalance, Owed, mainVars, poolVars
<1>8. NullOnlyAtShutdown'
  BY DEF IInv, TypeOK, NullOnlyAtShutdown, Goto, mainVars
<1> QED BY <1>1, <1>2, <1>3, <1>4, <1>7, <1>8

-----------------------------------------------------------------------------
(* The steps of main.                                                       *)

\* Main's loop test keeps the inductive invariant.
LEMMA MainTestKeeps == ASSUME IInv, MainTest PROVE IInv'
<1> USE DEF MainTest, workerVars, historyVars
<1>1. TypeOK'
  BY DEF IInv, TypeOK, PoolTypeOK, MainPC, poolVars
<1>2. OneHolder' BY HoldersStay DEF IInv
<1>3. Holding' /\ Received' BY DEF IInv, Holding, Received, poolVars
<1>4. Closing' BY DEF IInv, Closing
<1>5. TokensBalance' /\ NullOnlyAtShutdown'
  BY DEF IInv, TokensBalance, NullOnlyAtShutdown, Claimants, Owed, Crashed, poolVars
<1> QED BY <1>1, <1>2, <1>3, <1>4, <1>5 DEF IInv

\* Get_empty_buffer in main keeps the inductive invariant.
LEMMA MainGetKeeps == ASSUME IInv, MainGet PROVE IInv'
<1> USE DEF MainGet, workerVars, historyVars
<1>1. PICK b : GetEmptyBuffer(b) /\ mtask' = b
  OBVIOUS
<1>2. mtask = NoBuffer /\ mpc = "get" /\ mpc' = "recv"
  BY DEF IInv, Holding
<1>3. UNCHANGED <<running_state, sem, posted, wpc, wtask, target, client_book, net,
                  replies, accepted, handled, used_stack_>>
  BY <1>1 DEF GetEmptyBuffer, GetFreeBuffer, GetNewBuffer
<1>4. /\ PoolOK'
      /\ capacity' \in Nat /\ capacity' >= capacity
      /\ b \in 1..capacity' /\ ~InPool(b)'
      /\ \A c \in 1..capacity : contents'[c] = contents[c]
      /\ \A w \in Workers : wtask[w] # b
      /\ \A c \in 1..capacity' : c # b =>
            (InPool(c)' <=> InPool(c) \/ c \notin 1..capacity)
  <2>1. CASE GetFreeBuffer(b)
    <3>1. capacity' = capacity /\ contents' = contents
      BY <2>1 DEF GetFreeBuffer
    <3>2. b \in 1..capacity /\ InPool(b)
      BY <2>1, PoolIsOK, GetFreeBufferTakes
    <3>3. \A w \in Workers : wtask[w] # b
      BY <3>2 DEF IInv, OneHolder, NoBuffer
    <3> QED BY <2>1, <3>1, <3>2, <3>3, PoolIsOK, GetFreeBufferTakes
              DEF PoolOK, PoolTypeOK
  <2>2. CASE GetNewBuffer(b)
    <3>1. /\ PoolOK' /\ capacity' > capacity
          /\ b \in 1..capacity' /\ b \notin 1..capacity
          /\ \A c : InPool(c)' <=>
                      (InPool(c) \/ c \in (capacity + 1)..capacity') /\ c # b
          /\ \A c \in 1..capacity : contents'[c] = contents[c]
      BY <2>2, PoolIsOK, GetNewBufferTakes
    <3>2. capacity \in Nat /\ capacity' \in Nat
      BY <3>1 DEF PoolOK, PoolTypeOK, IInv, TypeOK
    <3>3. \A w \in Workers : wtask[w] # b
      BY <3>1, <3>2 DEF IInv, TypeOK
    <3>4. \A c \in 1..capacity' :
             c \in (capacity + 1)..capacity' <=> c \notin 1..capacity
      BY <3>1, <3>2
    <3> QED BY <3>1, <3>2, <3>3, <3>4
  <2> QED BY <1>1, <2>1, <2>2 DEF GetEmptyBuffer
<1>5. capacity \in Nat
  BY DEF IInv, TypeOK, PoolTypeOK
<1>6. TypeOK'
  BY <1>1, <1>2, <1>3, <1>4, <1>5 DEF IInv, TypeOK, PoolOK, MainPC
<1>7. OneHolder'
  <2>1. ASSUME NEW w \in Workers, wtask[w] # NoBuffer
        PROVE  ~InPool(wtask[w])' /\ wtask[w] # b
    <3>1. wtask[w] \in 1..capacity /\ ~InPool(wtask[w])
      BY <1>5, <2>1 DEF IInv, TypeOK, OneHolder, NoBuffer
    <3>2. wtask[w] \in 1..capacity'
      BY <1>4, <1>5, <3>1
    <3> QED BY <1>4, <3>1, <3>2
  <2>2. ASSUME NEW c \in 1..capacity', c # b, ~InPool(c)'
        PROVE  \E w \in Workers : wtask[w] = c
    <3>1. c \in 1..capacity /\ ~InPool(c)
      BY <1>4, <2>2
    <3> QED BY <1>2, <3>1 DEF IInv, OneHolder, NoBuffer
  <2> QED BY <1>1, <1>3, <1>4, <2>1, <2>2 DEF IInv, OneHolder, PoolOK
<1>8. Holding'
  BY <1>1, <1>2, <1>3, <1>4 DEF IInv, Holding, NoBuffer
<1>9. Received'
  <2>1. \A c \in Range(used_stack_) : c \in 1..capacity
    BY InPoolIsBuffer DEF IInv, TypeOK, InPool
  <2>2. \A w \in Workers : wpc[w] \in Busy => wtask[w] \in 1..capacity
    BY <1>5 DEF IInv, TypeOK, Holding, NoBuffer
  <2> QED BY <1>2, <1>3, <1>4, <2>1, <2>2 DEF IInv, Received
<1>10. Closing' /\ TokensBalance' /\ NullOnlyAtShutdown'
  BY <1>2, <1>3 DEF IInv, Closing, TokensBalance, NullOnlyAtShutdown, Claimants,
                    Owed, Crashed
<1> QED BY <1>6, <1>7, <1>8, <1>9, <1>10 DEF IInv

\* Recvfrom into the buffer keeps the inductive invariant.
LEMMA MainReceiveKeeps == ASSUME IInv, MainReceive PROVE IInv'
<1> USE DEF MainReceive, workerVars, historyVars
<1>1. PICK d \in net : FillBuffer(mtask, d) /\ net' = net \ {d}
  OBVIOUS
<1>2. /\ mtask \in 1..capacity /\ ~InPool(mtask) /\ d \in Datagrams
      /\ \A w \in Workers : wtask[w] # mtask
  BY DEF IInv, TypeOK, PoolTypeOK, Holding, OneHolder, NoBuffer
<1>3. /\ PoolOK'
      /\ \A c : InPool(c)' <=> InPool(c)
      /\ contents'[mtask] = d
      /\ \A c \in 1..capacity : c # mtask => contents'[c] = contents[c]
  BY <1>1, <1>2, PoolIsOK, FillBufferKeeps
<1>4. UNCHANGED <<free_stack_, used_stack_, capacity>>
  BY <1>1 DEF FillBuffer
<1>5. TypeOK'
  BY <1>1, <1>3, <1>4 DEF IInv, TypeOK, PoolOK, MainPC
<1>6. OneHolder'
  BY <1>3, <1>4 DEF IInv, OneHolder, PoolOK
<1>7. Holding'
  BY DEF IInv, Holding
<1>8. Received'
  <2>1. \A c \in Range(used_stack_) : c \in 1..capacity /\ c # mtask
    BY <1>2, InPoolIsBuffer DEF IInv, TypeOK, InPool
  <2>2. \A w \in Workers : wpc[w] \in Busy => wtask[w] \in 1..capacity
    BY DEF IInv, TypeOK, PoolTypeOK, Holding, NoBuffer
  <2> QED BY <1>2, <1>3, <1>4, <2>1, <2>2 DEF IInv, Received
<1>9. Closing' /\ TokensBalance' /\ NullOnlyAtShutdown'
  BY <1>4 DEF IInv, Closing, TokensBalance, NullOnlyAtShutdown, Claimants, Owed,
              Crashed
<1> QED BY <1>5, <1>6, <1>7, <1>8, <1>9 DEF IInv

\* The error path of recvfrom keeps the inductive invariant.
LEMMA MainReceiveFailsKeeps == ASSUME IInv, MainReceiveFails PROVE IInv'
<1> USE DEF MainReceiveFails, workerVars, historyVars
<1>1. /\ mtask \in 1..capacity /\ ~InPool(mtask)
      /\ \A w \in Workers : wtask[w] # mtask
  BY DEF IInv, TypeOK, PoolTypeOK, Holding, OneHolder, NoBuffer
<1>2. PoolOK' /\ \A c : InPool(c)' <=> InPool(c) \/ c = mtask
  BY <1>1, PoolIsOK, RecycleBufferAdds
<1>3. UNCHANGED <<used_stack_, capacity, contents>>
  BY DEF RecycleBuffer
<1>4. TypeOK'
  BY <1>2, <1>3 DEF IInv, TypeOK, PoolOK, PoolTypeOK, MainPC, NoBuffer
<1>5. OneHolder'
  BY <1>1, <1>2, <1>3 DEF IInv, OneHolder, PoolOK, NoBuffer
<1>6. Holding' /\ Received'
  BY <1>3 DEF IInv, Holding, Received
<1>7. Closing' /\ TokensBalance' /\ NullOnlyAtShutdown'
  BY <1>3 DEF IInv, Closing, TokensBalance, NullOnlyAtShutdown, Claimants, Owed,
              Crashed
<1> QED BY <1>4, <1>5, <1>6, <1>7 DEF IInv

\* Save_task_buffer in add_task keeps the inductive invariant.
LEMMA MainSaveKeeps == ASSUME IInv, MainSave PROVE IInv'
<1> USE DEF MainSave, workerVars
<1>1. /\ mtask \in 1..capacity /\ ~InPool(mtask) /\ contents[mtask] \in Datagrams
      /\ \A w \in Workers : wtask[w] # mtask
  BY DEF IInv, TypeOK, PoolTypeOK, Holding, OneHolder, Received, NoBuffer
<1>2. /\ PoolOK' /\ \A c : InPool(c)' <=> InPool(c) \/ c = mtask
      /\ Len(used_stack_) \in Nat /\ Len(used_stack_') = Len(used_stack_) + 1
      /\ Range(used_stack_') = Range(used_stack_) \cup {mtask}
  BY <1>1, PoolIsOK, SaveTaskBufferAdds
<1>3. UNCHANGED <<free_stack_, capacity, contents>>
  BY DEF SaveTaskBuffer
<1>4. TypeOK'
  <2>1. capacity \in Nat /\ PoolTypeOK'
    BY <1>2 DEF IInv, TypeOK, PoolTypeOK, PoolOK
  <2>2. accepted' \in SUBSET Datagrams
    BY <1>1 DEF IInv, TypeOK
  <2>3. mtask' \in 0..capacity'
    BY <1>3, <2>1 DEF NoBuffer
  <2> QED BY <1>3, <2>1, <2>2, <2>3 DEF IInv, TypeOK, MainPC
<1>5. OneHolder'
  BY <1>1, <1>2, <1>3 DEF IInv, OneHolder, PoolOK, NoBuffer
<1>6. Holding' /\ Received'
  BY <1>1, <1>2, <1>3 DEF IInv, Holding, Received
<1>7. Closing' /\ NullOnlyAtShutdown'
  BY DEF IInv, Closing, NullOnlyAtShutdown
<1>8. TokensBalance'
  <2>1. Claimants' = Claimants /\ (Crashed' <=> Crashed) /\ Owed = 0 /\ Owed' = 1
    BY DEF Claimants, Crashed, Owed
  <2>2. sem \in Nat /\ posted \in Nat /\ Cardinality(Claimants) \in Nat
    BY ClaimantsAreFinite, FS_CardinalityType, ServerAssumption DEF IInv, TypeOK
  <2> QED BY <1>2, <2>1, <2>2 DEF IInv, TokensBalance
<1> QED BY <1>4, <1>5, <1>6, <1>7, <1>8 DEF IInv

\* Sem_post in add_task keeps the inductive invariant.
LEMMA MainPostKeeps == ASSUME IInv, MainPost PROVE IInv'
<1> USE DEF MainPost, workerVars, historyVars
<1>1. TypeOK'
  BY DEF IInv, TypeOK, PoolTypeOK, MainPC, poolVars
<1>2. OneHolder' BY HoldersStay DEF IInv
<1>3. Holding' /\ Received' BY DEF IInv, Holding, Received, poolVars
<1>4. Closing' /\ NullOnlyAtShutdown' BY DEF IInv, Closing, NullOnlyAtShutdown
<1>5. TokensBalance'
  <2>1. Claimants' = Claimants /\ (Crashed' <=> Crashed) /\ Owed = 1 /\ Owed' = 0
    BY DEF Claimants, Crashed, Owed
  <2>2. sem \in Nat /\ Cardinality(Claimants) \in Nat
    BY ClaimantsAreFinite DEF IInv, TypeOK
  <2> QED BY <2>1, <2>2 DEF IInv, TokensBalance, poolVars
<1> QED BY <1>1, <1>2, <1>3, <1>4, <1>5 DEF IInv

\* Closing the socket keeps the inductive invariant.
LEMMA CloseSocketKeeps == ASSUME IInv, CloseSocket PROVE IInv'
<1> USE DEF CloseSocket, workerVars, historyVars
<1>1. TypeOK'
  BY DEF IInv, TypeOK, PoolTypeOK, MainPC, poolVars
<1>2. OneHolder' BY HoldersStay DEF IInv
<1>3. Holding' /\ Received' BY DEF IInv, Holding, Received, poolVars
<1>4. Closing' BY DEF IInv, Closing
<1>5. TokensBalance' /\ NullOnlyAtShutdown'
  BY DEF IInv, TokensBalance, NullOnlyAtShutdown, Claimants, Owed, Crashed, poolVars
<1> QED BY <1>1, <1>2, <1>3, <1>4, <1>5 DEF IInv

\* A post of the destructor keeps the inductive invariant.
LEMMA DtorPostKeeps == ASSUME IInv, DtorPost PROVE IInv'
<1> USE DEF DtorPost, workerVars, historyVars
<1>0. Cardinality(Workers) \in Nat
  BY FS_CardinalityType, ServerAssumption
<1>1. TypeOK'
  BY <1>0 DEF IInv, TypeOK, PoolTypeOK, MainPC, poolVars
<1>2. OneHolder' BY HoldersStay DEF IInv
<1>3. Holding' /\ Received' BY DEF IInv, Holding, Received, poolVars
<1>4. Closing' /\ NullOnlyAtShutdown'
  BY <1>0 DEF IInv, TypeOK, Closing, NullOnlyAtShutdown
<1>5. TokensBalance'
  <2>1. Claimants' = Claimants /\ (Crashed' <=> Crashed) /\ Owed = 0 /\ Owed' = 0
    BY DEF Claimants, Crashed, Owed
  <2>2. /\ sem \in Nat /\ posted \in Nat /\ Cardinality(Claimants) \in Nat
        /\ Len(used_stack_) \in Nat
    BY <1>0, ClaimantsAreFinite, LenProperties DEF IInv, TypeOK, PoolTypeOK
  <2> QED BY <2>1, <2>2 DEF IInv, TokensBalance, poolVars
<1> QED BY <1>1, <1>2, <1>3, <1>4, <1>5 DEF IInv

\* The joins of the destructor keeps the inductive invariant.
LEMMA DtorJoinKeeps == ASSUME IInv, DtorJoin PROVE IInv'
<1> USE DEF DtorJoin, workerVars, historyVars
<1>1. TypeOK'
  BY DEF IInv, TypeOK, PoolTypeOK, MainPC, poolVars
<1>2. OneHolder' BY HoldersStay DEF IInv
<1>3. Holding' /\ Received' BY DEF IInv, Holding, Received, poolVars
<1>4. Closing' BY DEF IInv, Closing
<1>5. TokensBalance' /\ NullOnlyAtShutdown'
  BY DEF IInv, TokensBalance, NullOnlyAtShutdown, Claimants, Owed, Crashed, poolVars
<1> QED BY <1>1, <1>2, <1>3, <1>4, <1>5 DEF IInv

-----------------------------------------------------------------------------
(* The steps of the workers.                                                *)

\* A worker's loop test keeps the inductive invariant.
LEMMA WorkerTestKeeps ==
  ASSUME IInv, NEW w \in Workers, WorkerTest(w) PROVE IInv'
<1> USE DEF WorkerTest
<1>1. TypeOK'
  BY DEF IInv, TypeOK, PoolTypeOK, WorkerPC, Goto, poolVars, mainVars, historyVars
<1>2. PICK to \in {"wait", "exited"} : Goto(w, to)
  OBVIOUS
<1> QED BY <1>1, <1>2, WorkerGoesOn DEF IInv, WorkerPC, Busy

\* Sem_wait in a worker keeps the inductive invariant.
LEMMA SemWaitKeeps ==
  ASSUME IInv, NEW w \in Workers, SemWait(w) PROVE IInv'
<1> USE DEF SemWait
<1>1. TypeOK'
  BY DEF IInv, TypeOK, PoolTypeOK, WorkerPC, Goto, poolVars, mainVars, historyVars
<1>2. OneHolder' BY HoldersStay DEF IInv, mainVars
<1>3. Holding' /\ Received'
  BY DEF IInv, TypeOK, Holding, Received, Busy, Goto, mainVars, poolVars
<1>4. Closing' /\ NullOnlyAtShutdown'
  BY DEF IInv, TypeOK, Closing, NullOnlyAtShutdown, Goto, mainVars
<1>5. TokensBalance'
  <2>1. Cardinality(Claimants') = Cardinality(Claimants) + 1
    BY ClaimantEnters DEF IInv, TypeOK
  <2>2. (Crashed' <=> Crashed) /\ Owed' = Owed
    BY DEF IInv, TypeOK, Crashed, Goto, Owed, mainVars
  <2>3. /\ sem \in Nat /\ posted \in Nat /\ Owed \in Nat
        /\ Len(used_stack_) \in Nat /\ Cardinality(Claimants) \in Nat
    BY ClaimantsAreFinite, FS_CardinalityType, ServerAssumption, LenProperties
       DEF IInv, TypeOK, PoolTypeOK, Owed
  <2> QED BY <2>1, <2>2, <2>3 DEF IInv, TokensBalance, poolVars, mainVars
<1> QED BY <1>1, <1>2, <1>3, <1>4, <1>5 DEF IInv

\* Get_task_buffer in a worker keeps the inductive invariant.
LEMMA TakeTaskKeeps ==
  ASSUME IInv, NEW w \in Workers, TakeTask(w) PROVE IInv'
<1> USE DEF TakeTask
<1>1. PICK b : GetTaskBuffer(b) /\ wtask' = [wtask EXCEPT ![w] = b]
  OBVIOUS
<1>2. /\ PoolOK'
      /\ b \in 1..capacity /\ InPool(b) /\ b \in Range(used_stack_)
      /\ \A c : InPool(c)' <=> InPool(c) /\ c # b
      /\ Len(used_stack_) \in Nat \ {0}
      /\ Len(used_stack_') = Len(used_stack_) - 1
  BY <1>1, PoolIsOK, GetTaskBufferTakes
<1>3. /\ UNCHANGED <<free_stack_, capacity, contents>>
      /\ Range(used_stack_') \subseteq Range(used_stack_)
  BY <1>1, TailFacts DEF GetTaskBuffer, IInv, TypeOK, PoolTypeOK
<1>4. wtask[w] = NoBuffer
  BY DEF IInv, Holding, Busy
<1>5. TypeOK'
  <2>1. wtask' \in [Workers -> 0..capacity']
    BY <1>1, <1>2, <1>3 DEF IInv, TypeOK
  <2>2. wpc' \in [Workers -> WorkerPC]
    BY DEF IInv, TypeOK, WorkerPC, Goto
  <2> QED BY <1>2, <1>3, <2>1, <2>2 DEF IInv, TypeOK, PoolOK, mainVars, historyVars
<1>6. OneHolder'
  <2>1. \A v \in Workers : wtask'[v] = IF v = w THEN b ELSE wtask[v]
    BY <1>1 DEF IInv, TypeOK
  <2>2. mtask # b /\ \A v \in Workers : wtask[v] # b
    BY <1>2 DEF IInv, OneHolder, NoBuffer
  <2>3. mtask' # NoBuffer => ~InPool(mtask)'
    BY <1>2 DEF IInv, OneHolder, mainVars
  <2>4. \A v \in Workers :
           wtask'[v] # NoBuffer => ~InPool(wtask[v])' /\ wtask'[v] # mtask'
    BY <1>2, <2>1, <2>2 DEF IInv, OneHolder, mainVars
  <2>5. \A u, v \in Workers : wtask'[v] # NoBuffer /\ wtask'[v] = wtask'[u] => v = u
    BY <2>1, <2>2 DEF IInv, OneHolder
  <2>6. \A c \in 1..capacity' :
           InPool(c)' \/ mtask' = c \/ \E v \in Workers : wtask'[v] = c
    BY <1>2, <1>3, <1>4, <2>1 DEF IInv, OneHolder, mainVars, NoBuffer
  <2> QED BY <1>2, <2>3, <2>4, <2>5, <2>6 DEF OneHolder, PoolOK
<1>7. Holding'
  BY <1>1, <1>2 DEF IInv, TypeOK, Holding, Busy, Goto, mainVars, NoBuffer
<1>8. Received'
  BY <1>1, <1>2, <1>3 DEF IInv, TypeOK, Received, Busy, Goto, mainVars
<1>9. Closing' /\ NullOnlyAtShutdown'
  BY DEF IInv, TypeOK, Closing, NullOnlyAtShutdown, Goto, mainVars
<1>10. TokensBalance'
  <2>1. Cardinality(Claimants') = Cardinality(Claimants) - 1
    BY ClaimantLeaves DEF IInv, TypeOK
  <2>2. (Crashed' <=> Crashed) /\ Owed' = Owed
    BY DEF IInv, TypeOK, Crashed, Goto, Owed, mainVars
  <2>3. /\ sem \in Nat /\ posted \in Nat /\ Owed \in Nat
        /\ Cardinality(Claimants) \in Nat
    BY ClaimantsAreFinite, FS_CardinalityType, ServerAssumption
       DEF IInv, TypeOK, Owed
  <2>4. TokensBalance /\ sem' = sem /\ posted' = posted
    BY DEF IInv, mainVars
  <2>5. ASSUME ~Crashed'
        PROVE  sem' + Cardinality(Claimants') + Owed' = Len(used_stack_') + posted'
    <3>1. sem + Cardinality(Claimants) + Owed = Len(used_stack_) + posted
      BY <2>2, <2>4, <2>5 DEF TokensBalance
    <3> HIDE DEF TakeTask
    <3> QED BY <1>2, <2>1, <2>2, <2>3, <2>4, <3>1
  <2> HIDE DEF TakeTask
  <2> QED BY <2>5 DEF TokensBalance
<1> QED BY <1>5, <1>6, <1>7, <1>8, <1>9, <1>10 DEF IInv

\* The step that kills the process: with an empty queue and a token in hand, the
\* balance says that the destructor has posted.
LEMMA TakeNullKeeps ==
  ASSUME IInv, ~Crashed, NEW w \in Workers, TakeNull(w) PROVE IInv'
<1> USE DEF TakeNull
<1>1. TypeOK'
  BY DEF IInv, TypeOK, PoolTypeOK, WorkerPC, Goto, poolVars, mainVars, historyVars
<1>2. OneHolder' BY HoldersStay DEF IInv, mainVars
<1>3. Holding' /\ Received'
  BY DEF IInv, TypeOK, Holding, Received, Busy, Goto, mainVars, poolVars
<1>4. Closing'
  BY DEF IInv, Closing, mainVars
<1>5. Crashed'
  BY DEF IInv, TypeOK, Crashed, Goto
<1>6. posted > 0
  <2>1. /\ Cardinality(Claimants) \in Nat /\ Cardinality(Claimants) > 0
        /\ sem \in Nat /\ posted \in Nat /\ Owed \in Nat /\ Len(used_stack_) = 0
    BY SomeClaimant, ClaimantsAreFinite, FS_CardinalityType, ServerAssumption
       DEF IInv, TypeOK, Owed
  <2> QED BY <2>1 DEF IInv, TokensBalance
<1>7. TokensBalance' /\ NullOnlyAtShutdown'
  BY <1>5, <1>6 DEF TokensBalance, NullOnlyAtShutdown, mainVars
<1> QED BY <1>1, <1>2, <1>3, <1>4, <1>7 DEF IInv

\* What a worker in a handler works on, and the answer it sends, are well typed.
LEMMA JobIsDatagram ==
  ASSUME IInv, NEW w \in Workers, wpc[w] \in Busy
  PROVE  Job(w) \in Datagrams /\ Job(w).type \in Types /\ Job(w).name \in Names
         /\ Job(w).addr \in Addrs
BY ServerAssumption DEF IInv, Received, Job

\* A reply to a known address keeps replies in their type.
LEMMA ReplyIsTyped ==
  ASSUME IInv, NEW w \in Workers, wpc[w] \in Busy, NEW to \in Addrs,
         NEW kind \in {"unknown", "text", "exit"}, Reply(w, to, kind)
  PROVE  replies' \in SUBSET [to : Addrs, kind : {"unknown", "text", "exit"},
                              re : Datagrams]
BY JobIsDatagram DEF IInv, TypeOK, Reply

\* Reg_handler keeps the inductive invariant.
LEMMA RegHandlerKeeps ==
  ASSUME IInv, NEW w \in Workers, RegHandler(w) PROVE IInv'
<1> USE DEF RegHandler, HandlerReturns, Serving
<1>1. TypeOK'
  BY JobIsDatagram DEF IInv, TypeOK, PoolTypeOK, WorkerPC, Goto, poolVars, mainVars,
     historyVars, Busy
<1> QED BY <1>1, WorkerGoesOn DEF IInv, WorkerPC, Busy

\* Msg_handler for an unknown name keeps the inductive invariant.
LEMMA MsgUnknownKeeps ==
  ASSUME IInv, NEW w \in Workers, MsgUnknown(w) PROVE IInv'
<1> USE DEF MsgUnknown, HandlerReturns, Serving
<1>1. TypeOK'
  BY JobIsDatagram, ReplyIsTyped DEF IInv, TypeOK, PoolTypeOK, WorkerPC, Goto,
     poolVars, mainVars, historyVars, Busy
<1> QED BY <1>1, WorkerGoesOn DEF IInv, WorkerPC, Busy

\* The lookup of msg_handler keeps the inductive invariant.
LEMMA MsgLookupKeeps ==
  ASSUME IInv, NEW w \in Workers, MsgLookup(w) PROVE IInv'
<1> USE DEF MsgLookup, Serving
<1>1. client_book[Job(w).name] \in Addrs
  BY JobIsDatagram DEF IInv, TypeOK, Busy
<1>2. TypeOK'
  BY <1>1 DEF IInv, TypeOK, PoolTypeOK, WorkerPC, Goto, poolVars, mainVars,
     historyVars
<1>3. OneHolder' BY HoldersStay DEF IInv, mainVars
<1>4. Holding' /\ Received'
  BY <1>1 DEF IInv, TypeOK, Holding, Received, Busy, Goto, mainVars, poolVars
<1>5. Closing' /\ NullOnlyAtShutdown'
  BY DEF IInv, TypeOK, Closing, NullOnlyAtShutdown, Goto, mainVars
<1>6. TokensBalance'
  <2>1. Claimants' = Claimants
    BY ClaimantsStay DEF IInv, TypeOK
  <2>2. (Crashed' <=> Crashed) /\ Owed' = Owed
    BY DEF IInv, TypeOK, Crashed, Goto, Owed, mainVars
  <2> QED BY <2>1, <2>2 DEF IInv, TokensBalance, poolVars, mainVars
<1> QED BY <1>2, <1>3, <1>4, <1>5, <1>6 DEF IInv

\* The sendto of msg_handler keeps the inductive invariant.
LEMMA MsgSendKeeps ==
  ASSUME IInv, NEW w \in Workers, MsgSend(w) PROVE IInv'
<1> USE DEF MsgSend, HandlerReturns
<1>1. target[w] \in Addrs
  BY DEF IInv, Received
<1>2. TypeOK'
  BY <1>1, JobIsDatagram, ReplyIsTyped DEF IInv, TypeOK, PoolTypeOK, WorkerPC, Goto,
     poolVars, mainVars, historyVars, Busy
<1> QED BY <1>2, WorkerGoesOn DEF IInv, WorkerPC, Busy

\* The answer of exit_handler keeps the inductive invariant.
LEMMA ExitReplyKeeps ==
  ASSUME IInv, NEW w \in Workers, ExitReply(w) PROVE IInv'
<1> USE DEF ExitReply, Serving
<1>1. TypeOK'
  BY JobIsDatagram, ReplyIsTyped DEF IInv, TypeOK, PoolTypeOK, WorkerPC, Goto,
     poolVars, mainVars, historyVars, Busy
<1> QED BY <1>1, WorkerGoesOn DEF IInv, WorkerPC, Busy

\* The erase of exit_handler keeps the inductive invariant.
LEMMA ExitEraseKeeps ==
  ASSUME IInv, NEW w \in Workers, ExitErase(w) PROVE IInv'
<1> USE DEF ExitErase, HandlerReturns
<1>1. TypeOK'
  BY JobIsDatagram DEF IInv, TypeOK, PoolTypeOK, WorkerPC, Goto, poolVars, mainVars,
     historyVars, Busy
<1> QED BY <1>1, WorkerGoesOn DEF IInv, WorkerPC, Busy

\* The shared_ptr's deleter keeps the inductive invariant.
LEMMA RecycleKeeps ==
  ASSUME IInv, NEW w \in Workers, Recycle(w) PROVE IInv'
<1> USE DEF Recycle
<1> DEFINE b == wtask[w]
<1>1. /\ b \in 1..capacity /\ ~InPool(b) /\ b # mtask
      /\ \A v \in Workers : v # w => wtask[v] # b
  BY DEF IInv, TypeOK, PoolTypeOK, Holding, OneHolder, Busy, NoBuffer
<1>2. PoolOK' /\ \A c : InPool(c)' <=> InPool(c) \/ c = b
  BY <1>1, PoolIsOK, RecycleBufferAdds
<1>3. UNCHANGED <<used_stack_, capacity, contents>>
  BY DEF RecycleBuffer
<1>4. \A v \in Workers : wtask'[v] = IF v = w THEN NoBuffer ELSE wtask[v]
  BY DEF IInv, TypeOK
<1>5. TypeOK'
  <2>1. wtask' \in [Workers -> 0..capacity']
    BY <1>3 DEF IInv, TypeOK, PoolTypeOK, NoBuffer
  <2>2. wpc' \in [Workers -> WorkerPC]
    BY DEF IInv, TypeOK, WorkerPC, Goto
  <2> QED BY <1>2, <1>3, <2>1, <2>2 DEF IInv, TypeOK, PoolOK, mainVars, historyVars
<1>6. OneHolder'
  <2>1. mtask' # NoBuffer => ~InPool(mtask)'
    BY <1>1, <1>2 DEF IInv, OneHolder, mainVars
  <2>2. \A v \in Workers :
           wtask'[v] # NoBuffer => ~InPool(wtask[v])' /\ wtask'[v] # mtask'
    BY <1>1, <1>2, <1>4 DEF IInv, OneHolder, mainVars
  <2>3. \A u, v \in Workers : wtask'[v] # NoBuffer /\ wtask'[v] = wtask'[u] => v = u
    BY <1>4 DEF IInv, OneHolder
  <2>4. \A c \in 1..capacity' :
           InPool(c)' \/ mtask' = c \/ \E v \in Workers : wtask'[v] = c
    BY <1>2, <1>3, <1>4 DEF IInv, OneHolder, mainVars
  <2> QED BY <1>2, <2>1, <2>2, <2>3, <2>4 DEF OneHolder, PoolOK
<1>7. Holding'
  BY <1>4 DEF IInv, TypeOK, Holding, Busy, Goto, mainVars
<1>8. Received'
  BY <1>3, <1>4 DEF IInv, TypeOK, Received, Busy, Goto, mainVars
<1>9. Closing' /\ NullOnlyAtShutdown'
  BY DEF IInv, TypeOK, Closing, NullOnlyAtShutdown, Goto, mainVars
<1>10. TokensBalance'
  <2>1. Claimants' = Claimants
    BY ClaimantsStay DEF IInv, TypeOK
  <2>2. (Crashed' <=> Crashed) /\ Owed' = Owed
    BY DEF IInv, TypeOK, Crashed, Goto, Owed, mainVars
  <2> QED BY <1>3, <2>1, <2>2 DEF IInv, TokensBalance, mainVars
<1> QED BY <1>5, <1>6, <1>7, <1>8, <1>9, <1>10 DEF IInv

-----------------------------------------------------------------------------
\* The signal handler keeps the inductive invariant: it only clears running_state.
LEMMA SignalKeeps == ASSUME IInv, Signal PROVE IInv'
<1> USE DEF Signal, mainVars, workerVars, historyVars
<1>1. TypeOK'
  BY DEF IInv, TypeOK, PoolTypeOK, poolVars
<1>2. OneHolder' BY HoldersStay DEF IInv
<1>3. Holding' /\ Received' /\ Closing'
  BY DEF IInv, Holding, Received, Closing, poolVars
<1>4. TokensBalance' /\ NullOnlyAtShutdown'
  BY DEF IInv, TokensBalance, NullOnlyAtShutdown, Claimants, Owed, Crashed, poolVars
<1> QED BY <1>1, <1>2, <1>3, <1>4 DEF IInv

\* A step that changes nothing keeps the inductive invariant.
LEMMA StutterKeeps == ASSUME IInv, UNCHANGED vars PROVE IInv'
<1> USE DEF vars
<1>1. TypeOK'
  BY DEF IInv, TypeOK, PoolTypeOK
<1>2. OneHolder' BY HoldersStay DEF IInv, poolVars
<1>3. Holding' /\ Received' /\ Closing'
  BY DEF IInv, Holding, Received, Closing
<1>4. TokensBalance' /\ NullOnlyAtShutdown'
  BY DEF IInv, TokensBalance, NullOnlyAtShutdown, Claimants, Owed, Crashed
<1> QED BY <1>1, <1>2, <1>3, <1>4 DEF IInv

\* The inductive invariant holds when main enters its loop.
LEMMA InitIInv ==
  ASSUME ServerInit, net \subseteq Datagrams
  PROVE  IInv
<1> USE DEF ServerInit
<1>1. /\ PoolOK /\ used_stack_ = <<>> /\ Len(used_stack_) = 0
      /\ Range(used_stack_) = {} /\ \A b \in 1..capacity : InPool(b)
  BY PoolInitOK DEF Range
<1>2. Cardinality(Workers) \in Nat
  BY FS_CardinalityType, ServerAssumption
<1>3. TypeOK
  BY <1>1, <1>2 DEF TypeOK, PoolOK, PoolTypeOK, MainPC, WorkerPC, NoBuffer
<1>4. OneHolder
  BY <1>1 DEF OneHolder, PoolOK, NoBuffer
<1>5. Holding /\ Received /\ Closing
  BY <1>1 DEF Holding, Received, Closing, Busy, NoBuffer
<1>6. Claimants = {}
  BY DEF Claimants
<1>7. TokensBalance /\ NullOnlyAtShutdown
  BY <1>1, <1>6, FS_EmptySet DEF TokensBalance, NullOnlyAtShutdown, Owed
<1> QED BY <1>3, <1>4, <1>5, <1>7 DEF IInv

\* Every step of the server keeps the inductive invariant.
LEMMA NextKeepsIInv == IInv /\ [Next]_vars => IInv'
<1> SUFFICES ASSUME IInv, [Next]_vars PROVE IInv'
  OBVIOUS
<1>1. CASE ~Crashed /\ Main
  BY <1>1, MainTestKeeps, MainGetKeeps, MainReceiveKeeps, MainReceiveFailsKeeps,
     MainSaveKeeps, MainPostKeeps, CloseSocketKeeps, DtorPostKeeps, DtorJoinKeeps
     DEF Main
<1>2. CASE ~Crashed /\ Signal
  BY <1>2, SignalKeeps
<1>3. ASSUME ~Crashed, NEW w \in Workers, Worker(w) PROVE IInv'
  BY <1>3, WorkerTestKeeps, SemWaitKeeps, TakeTaskKeeps, TakeNullKeeps,
     RegHandlerKeeps, MsgUnknownKeeps, MsgLookupKeeps, MsgSendKeeps, ExitReplyKeeps,
     ExitEraseKeeps, RecycleKeeps DEF Worker
<1>4. CASE UNCHANGED vars
  BY <1>4, StutterKeeps
<1> QED BY <1>1, <1>2, <1>3, <1>4 DEF Next, ServerNext, Ended

\* The inductive invariant holds in every state the server can reach.
THEOREM InductiveInvariant == Spec => []IInv
<1>1. Init => IInv
  BY InitIInv DEF Init
<1> QED BY <1>1, NextKeepsIInv, PTL DEF Spec

\* Every variable keeps its type; in particular what is sent back answers a
\* datagram that was received and goes to a client's address.
THEOREM TypeCorrect == Spec => []TypeOK
BY InductiveInvariant, PTL DEF IInv

\* Every buffer has exactly one holder (BufferPool and the shared_ptr deleter).
THEOREM BuffersHaveOneHolder == Spec => []OneHolder
BY InductiveInvariant, PTL DEF IInv

\* Tokens and queued tasks balance (add_task, worker_routine, ~ChatServer).
THEOREM TokensAreBalanced == Spec => []TokensBalance
BY InductiveInvariant, PTL DEF IInv

\* A worker meets the null task only because of the destructor's posts.
THEOREM NullTaskOnlyAtShutdown == Spec => []NullOnlyAtShutdown
BY InductiveInvariant, PTL DEF IInv

-----------------------------------------------------------------------------
(* The chat server implements the abstract work queue: every datagram main  *)
(* queues is handled once, oldest first, with the contents it arrived with. *)
(* The buffer invariant above keeps the contents apart; what is added here  *)
(* is that no datagram is under way twice.                                  *)
\* The worker runs a handler.
Active(w) == wpc[w] \in {"serve", "send", "erase"}

\* Each datagram is in one place: on the network, with main, in one queue entry,
\* in one handler, or handled.
UnderWayOnce ==
    /\ net \cap accepted = {}
    /\ handled \subseteq accepted
    /\ mpc = "save" => contents[mtask] \notin net \cup accepted
    /\ \A b \in Range(used_stack_) : contents[b] \in accepted \ handled
    /\ \A a, b \in Range(used_stack_) : contents[a] = contents[b] => a = b
    /\ \A w \in Workers : Active(w) => Job(w) \in accepted \ handled
    /\ \A v, w \in Workers :
          Active(v) /\ Active(w) /\ Job(v) = Job(w) => v = w
    /\ \A w \in Workers, b \in Range(used_stack_) :
          Active(w) => Job(w) # contents[b]

-----------------------------------------------------------------------------
(* Frames: what the abstract state depends on.                              *)

\* What the invariant says of who holds which buffer, in the form used below.
LEMMA HoldersAreBuffers ==
  ASSUME IInv
  PROVE  /\ \A b \in Range(used_stack_) :
               /\ b \in 1..capacity
               /\ mpc = "recv" => b # mtask
               /\ \A w \in Workers : Active(w) => wtask[w] # b
         /\ \A w \in Workers : Active(w) =>
               /\ wtask[w] \in 1..capacity
               /\ mpc \in {"recv", "save"} => wtask[w] # mtask
         /\ \A v, w \in Workers : Active(v) /\ wtask[v] = wtask[w] => v = w
<1>1. \A b \in Range(used_stack_) : b \in 1..capacity /\ InPool(b)
  BY InPoolIsBuffer DEF IInv, TypeOK, InPool
<1>2. \A w \in Workers : Active(w) =>
         wtask[w] # NoBuffer /\ wtask[w] \in 1..capacity
  BY DEF IInv, TypeOK, PoolTypeOK, Holding, Busy, Active, NoBuffer
<1> QED BY <1>1, <1>2 DEF IInv, OneHolder, Holding

\* A step that leaves the queue, the contents of its buffers and those of the
\* active workers alone leaves the abstract queue alone.
LEMMA AbstractStutter ==
  ASSUME IInv,
         UNCHANGED <<used_stack_, accepted, handled>>,
         \A b \in Range(used_stack_) : contents'[b] = contents[b],
         \A w \in Workers : Active(w)' <=> Active(w),
         \A w \in Workers : Active(w) => Job(w)' = Job(w)
  PROVE  UNCHANGED WQ!vars
<1>1. \A i \in 1..Len(used_stack_) : used_stack_[i] \in Range(used_stack_)
  BY LenProperties DEF IInv, TypeOK, PoolTypeOK, Range
<1>2. Waiting' = Waiting
  BY <1>1 DEF Waiting
<1>3. Running' = Running
  BY DEF Running, Active
<1> QED BY <1>2, <1>3 DEF WQ!vars

\* The same frame keeps UnderWayOnce, if main's datagram is as fresh as before.
LEMMA OnceStays ==
  ASSUME IInv, UnderWayOnce,
         UNCHANGED <<used_stack_, accepted, handled>>,
         net' \subseteq net,
         mpc' = "save" => contents'[mtask'] \notin net' \cup accepted',
         \A b \in Range(used_stack_) : contents'[b] = contents[b],
         \A w \in Workers : Active(w)' <=> Active(w),
         \A w \in Workers : Active(w) => Job(w)' = Job(w)
  PROVE  UnderWayOnce'
BY DEF UnderWayOnce

\* A handler that returns finishes its datagram.
LEMMA HandlerFinishes ==
  ASSUME IInv, UnderWayOnce, NEW w \in Workers, Active(w),
         HandlerReturns(w),
         UNCHANGED <<poolVars, mtask, mpc, wtask, net>>
  PROVE  UnderWayOnce' /\ WQ!Finish(w)
<1> USE DEF HandlerReturns, poolVars
<1>1. wpc' = [wpc EXCEPT ![w] = "recycle"] /\ wpc \in [Workers -> WorkerPC]
  BY DEF Goto, IInv, TypeOK
<1>2. /\ ~Active(w)'
      /\ \A v \in Workers : v # w => (Active(v)' <=> Active(v))
      /\ \A v \in Workers : Job(v)' = Job(v)
  BY <1>1 DEF Active, Job
<1>3. Job(w) \in Datagrams /\ Job(w) # Zeroed
  BY JobIsDatagram, PoolAssumption DEF Active, Busy
<1>4. UnderWayOnce'
  BY <1>2 DEF UnderWayOnce
<1>5. Running[w] = Job(w) /\ Running' = [Running EXCEPT ![w] = Zeroed]
  <2>1. \A v \in Workers : Running'[v] = IF v = w THEN Zeroed ELSE Running[v]
    BY <1>2 DEF Running, Active
  <2> QED BY <2>1 DEF Running, Active
<1>6. Waiting' = Waiting
  BY DEF Waiting
<1>7. Job(w) \notin handled
  BY DEF UnderWayOnce
<1> QED BY <1>3, <1>4, <1>5, <1>6, <1>7 DEF WQ!Finish

-----------------------------------------------------------------------------
(* The steps that are steps of the abstract queue.                          *)

\* main's save_task_buffer is the abstract Submit of the datagram in the buffer.
LEMMA SaveSubmits ==
  ASSUME IInv, UnderWayOnce, MainSave
  PROVE  UnderWayOnce' /\ WQ!Submit(contents[mtask])
<1> USE DEF MainSave, workerVars
<1>1. /\ mtask \in 1..capacity /\ contents[mtask] \in Datagrams /\ ~InPool(mtask)
      /\ \A w \in Workers : Active(w) => wtask[w] # mtask
  BY HoldersAreBuffers
     DEF IInv, TypeOK, PoolTypeOK, Holding, OneHolder, Received, NoBuffer
<1>2. /\ used_stack_ \in Seq(1..capacity)
      /\ used_stack_' = Append(used_stack_, mtask)
      /\ UNCHANGED <<contents, capacity>>
  BY DEF IInv, TypeOK, PoolTypeOK, SaveTaskBuffer
<1>3. /\ Len(used_stack_) \in Nat
      /\ Len(used_stack_') = Len(used_stack_) + 1
      /\ \A i \in 1..Len(used_stack_) : used_stack_'[i] = used_stack_[i]
      /\ used_stack_'[Len(used_stack_) + 1] = mtask
      /\ Range(used_stack_') = Range(used_stack_) \cup {mtask}
  BY <1>1, PoolIsOK, SaveTaskBufferAdds
<1>4. \A w \in Workers : (Active(w)' <=> Active(w)) /\ Job(w)' = Job(w)
  BY <1>2 DEF Active, Job
<1>5. UnderWayOnce'
  BY <1>1, <1>2, <1>3, <1>4 DEF UnderWayOnce
<1>6. contents[mtask] \notin accepted
  BY DEF UnderWayOnce
<1>7. Running' = Running
  BY <1>4 DEF Running, Active
<1>8. Waiting' = Append(Waiting, contents[mtask])
  <2> DEFINE S == Datagrams \cup {Zeroed}
  <2>1. \A i \in 1..Len(used_stack_) : contents[used_stack_[i]] \in S
    BY <1>2, ElementOfSeq DEF IInv, TypeOK, PoolTypeOK
  <2>2. Waiting \in Seq(S) /\ Len(Waiting) = Len(used_stack_)
    BY <1>3, <2>1 DEF Waiting
  <2>3. Waiting' \in Seq(S) /\ Len(Waiting') = Len(used_stack_) + 1
    <3>1. \A i \in 1..(Len(used_stack_) + 1) : contents[used_stack_'[i]] \in S
      BY <1>1, <1>3, <2>1
    <3>2. Waiting' = [i \in 1..(Len(used_stack_) + 1) |-> contents[used_stack_'[i]]]
      BY <1>2, <1>3 DEF Waiting
    <3> QED BY <1>3, <3>1, <3>2
  <2> DEFINE W == Append(Waiting, contents[mtask])
  <2>4. /\ W \in Seq(S) /\ Len(W) = Len(used_stack_) + 1
        /\ \A i \in 1..Len(used_stack_) : W[i] = Waiting[i]
        /\ W[Len(used_stack_) + 1] = contents[mtask]
    BY <1>1, <2>2, AppendProperties
  <2> HIDE DEF W, S
  <2>5. ASSUME NEW i \in 1..(Len(used_stack_) + 1)
        PROVE  Waiting'[i] = W[i]
    <3>1. Waiting'[i] = contents[used_stack_'[i]]
      BY <1>2, <1>3 DEF Waiting
    <3>2. CASE i \in 1..Len(used_stack_)
      <4>1. Waiting[i] = contents[used_stack_[i]]
        BY <3>2 DEF Waiting
      <4>2. used_stack_'[i] = used_stack_[i] /\ W[i] = Waiting[i]
        BY <1>3, <2>4, <3>2
      <4> QED BY ONLY <3>1, <4>1, <4>2
    <3>3. CASE i = Len(used_stack_) + 1
      BY ONLY <1>3, <2>4, <3>1, <3>3
    <3> QED BY <1>3, <3>2, <3>3
  <2>6. Waiting' = W
    BY <2>3, <2>4, <2>5, SeqEqual
  <2> QED BY <2>6 DEF W
<1> QED BY <1>5, <1>6, <1>7, <1>8 DEF WQ!Submit

\* A worker's get_task_buffer is the abstract Take.
LEMMA TakeTakes ==
  ASSUME IInv, UnderWayOnce, NEW w \in Workers, TakeTask(w)
  PROVE  UnderWayOnce' /\ WQ!Take(w)
<1> USE DEF TakeTask, mainVars, historyVars
<1>1. PICK b : GetTaskBuffer(b) /\ wtask' = [wtask EXCEPT ![w] = b]
  OBVIOUS
<1>2. /\ used_stack_ \in Seq(1..capacity) /\ used_stack_ # <<>>
      /\ b = Head(used_stack_) /\ used_stack_' = Tail(used_stack_)
      /\ IsInjective(used_stack_)
      /\ UNCHANGED <<contents, capacity>>
  BY <1>1 DEF IInv, TypeOK, PoolTypeOK, OneHolder, PoolHoldsOnce, GetTaskBuffer
<1>3. /\ b = used_stack_[1] /\ b \in 1..capacity
      /\ Len(used_stack_) \in Nat \ {0}
      /\ Len(used_stack_') = Len(used_stack_) - 1
      /\ \A i \in 1..Len(used_stack_') : used_stack_'[i] = used_stack_[i + 1]
      /\ Range(used_stack_) = {b} \cup Range(used_stack_')
      /\ b \notin Range(used_stack_')
  BY <1>1, PoolIsOK, GetTaskBufferTakes
<1>4. /\ wpc' = [wpc EXCEPT ![w] = "serve"] /\ wpc \in [Workers -> WorkerPC]
      /\ wtask \in [Workers -> 0..capacity]
  BY DEF IInv, TypeOK, Goto
<1>5. /\ ~Active(w) /\ Active(w)' /\ Job(w)' = contents[b]
      /\ \A v \in Workers : v # w => (Active(v)' <=> Active(v)) /\ Job(v)' = Job(v)
  BY <1>1, <1>2, <1>4 DEF Active, Job
<1>6. UnderWayOnce'
  BY <1>2, <1>3, <1>5 DEF UnderWayOnce
<1>7. Running[w] = Zeroed /\ Running' = [Running EXCEPT ![w] = contents[b]]
  <2>1. \A v \in Workers : Running'[v] = IF v = w THEN contents[b] ELSE Running[v]
    BY <1>5 DEF Running, Active
  <2> QED BY <1>5, <2>1 DEF Running, Active
<1>8. /\ Waiting # <<>> /\ Head(Waiting) = contents[b]
      /\ Waiting' = Tail(Waiting)
  <2> DEFINE S == Datagrams \cup {Zeroed}
  <2>1. \A i \in 1..Len(used_stack_) : contents[used_stack_[i]] \in S
    BY <1>2, ElementOfSeq DEF IInv, TypeOK, PoolTypeOK
  <2>2. /\ Waiting \in Seq(S) /\ Len(Waiting) = Len(used_stack_)
        /\ \A i \in 1..Len(used_stack_) : Waiting[i] = contents[used_stack_[i]]
    BY <1>3, <2>1 DEF Waiting
  <2> HIDE DEF S
  <2>3. Waiting # <<>>
    <3>1. Len(Waiting) # 0
      BY <1>3, <2>2
    <3> QED BY <3>1, EmptySeq
  <2>4. /\ Tail(Waiting) \in Seq(S) /\ Len(Tail(Waiting)) = Len(used_stack_) - 1
        /\ Head(Waiting) = Waiting[1]
        /\ \A i \in 1..(Len(used_stack_) - 1) : Tail(Waiting)[i] = Waiting[i + 1]
    BY <2>2, <2>3, TailFacts
  <2>5. \A i \in 1..(Len(used_stack_) - 1) :
           i + 1 \in 1..Len(used_stack_)
    BY <1>3
  <2>6. /\ Waiting' = [i \in 1..(Len(used_stack_) - 1) |-> contents[used_stack_[i + 1]]]
    BY <1>2, <1>3 DEF Waiting
  <2>7. Waiting' \in Seq(S) /\ Len(Waiting') = Len(used_stack_) - 1
    BY <1>3, <2>1, <2>5, <2>6
  <2>8. \A i \in 1..(Len(used_stack_) - 1) : Waiting'[i] = Tail(Waiting)[i]
    BY <2>2, <2>4, <2>5, <2>6
  <2>9. Waiting' = Tail(Waiting)
    BY <2>4, <2>7, <2>8, SeqEqual
  <2> QED BY <1>3, <2>2, <2>3, <2>4, <2>9
<1> QED BY <1>6, <1>7, <1>8 DEF WQ!Take

-----------------------------------------------------------------------------
(* The steps of main and of the workers that the abstract queue does not    *)
(* see.                                                                     *)

\* Every other step of main leaves the abstract queue as it is.
LEMMA MainStutters ==
  ASSUME IInv, UnderWayOnce, Main, ~MainSave
  PROVE  UnderWayOnce' /\ UNCHANGED WQ!vars
<1>1. ASSUME UNCHANGED <<contents, used_stack_, wpc, wtask, net, accepted, handled>>,
             mpc' # "save"
      PROVE  UnderWayOnce' /\ UNCHANGED WQ!vars
  BY <1>1, OnceStays, AbstractStutter DEF Active, Job
<1> USE DEF workerVars, historyVars, poolVars
<1>2. CASE MainTest
  BY <1>1, <1>2 DEF MainTest
<1>3. CASE MainGet
  <2>1. PICK b : GetEmptyBuffer(b)
    BY <1>3 DEF MainGet
  <2>2. /\ UNCHANGED <<used_stack_, wpc, wtask, net, accepted, handled>>
        /\ mpc' = "recv"
    BY <1>3, <2>1 DEF MainGet, GetEmptyBuffer, GetFreeBuffer, GetNewBuffer
  <2>3. \A c \in 1..capacity : contents'[c] = contents[c]
    BY <2>1, PoolIsOK, GetNewBufferTakes DEF GetEmptyBuffer, GetFreeBuffer
  <2>4. /\ \A c \in Range(used_stack_) : contents'[c] = contents[c]
        /\ \A w \in Workers : Active(w)' <=> Active(w)
        /\ \A w \in Workers : Active(w) => Job(w)' = Job(w)
    BY <2>2, <2>3, HoldersAreBuffers DEF Active, Job
  <2> QED BY <2>2, <2>4, OnceStays, AbstractStutter
<1>4. CASE MainReceive
  <2>1. PICK d \in net : FillBuffer(mtask, d) /\ net' = net \ {d}
    BY <1>4 DEF MainReceive
  <2>2. mtask \in 1..capacity /\ d \in Datagrams
    BY <1>4 DEF MainReceive, IInv, TypeOK, PoolTypeOK, Holding, NoBuffer
  <2>3. /\ contents'[mtask] = d
        /\ \A c \in 1..capacity : c # mtask => contents'[c] = contents[c]
    BY <2>1, <2>2, PoolIsOK, FillBufferKeeps
  <2>4. /\ UNCHANGED <<used_stack_, wpc, wtask, mtask, accepted, handled>>
        /\ mpc = "recv"
    BY <1>4, <2>1 DEF MainReceive, FillBuffer
  <2>5. /\ \A c \in Range(used_stack_) : contents'[c] = contents[c]
        /\ \A w \in Workers : Active(w)' <=> Active(w)
        /\ \A w \in Workers : Active(w) => Job(w)' = Job(w)
    BY <2>3, <2>4, HoldersAreBuffers DEF Active, Job
  <2>6. contents'[mtask'] \notin net' \cup accepted'
    BY <2>1, <2>3, <2>4 DEF UnderWayOnce
  <2> QED BY <2>1, <2>4, <2>5, <2>6, OnceStays, AbstractStutter
<1>5. CASE MainReceiveFails
  BY <1>1, <1>5 DEF MainReceiveFails, RecycleBuffer
<1>6. CASE MainPost
  BY <1>1, <1>6 DEF MainPost
<1>7. CASE CloseSocket
  BY <1>1, <1>7 DEF CloseSocket
<1>8. CASE DtorPost
  BY <1>1, <1>8 DEF DtorPost, IInv, TypeOK
<1>9. CASE DtorJoin
  BY <1>1, <1>9 DEF DtorJoin
<1> QED BY <1>2, <1>3, <1>4, <1>5, <1>6, <1>7, <1>8, <1>9 DEF Main

\* A worker that moves on without entering or leaving a handler.
LEMMA WorkerStutters ==
  ASSUME IInv, UnderWayOnce, NEW w \in Workers, NEW to, Goto(w, to),
         Active(w) <=> to \in {"serve", "send", "erase"},
         UNCHANGED <<contents, used_stack_, mpc, mtask, net, accepted, handled>>,
         \A v \in Workers : Active(v) => wtask'[v] = wtask[v]
  PROVE  UnderWayOnce' /\ UNCHANGED WQ!vars
<1>1. \A v \in Workers : Active(v)' <=> Active(v)
  BY DEF Active, Goto, IInv, TypeOK
<1>2. \A v \in Workers : Active(v) => Job(v)' = Job(v)
  BY DEF Job
<1>3. mpc' = "save" => contents'[mtask'] \notin net' \cup accepted'
  BY DEF UnderWayOnce
<1> QED BY <1>1, <1>2, <1>3, OnceStays, AbstractStutter

\* Every step of a worker is Take, Finish or no step of the abstract queue.
LEMMA WorkerImplements ==
  ASSUME IInv, UnderWayOnce, NEW w \in Workers, Worker(w)
  PROVE  UnderWayOnce' /\ (WQ!Take(w) \/ WQ!Finish(w) \/ UNCHANGED WQ!vars)
<1> USE DEF mainVars, historyVars, poolVars
<1>1. CASE WorkerTest(w)
  BY <1>1, WorkerStutters DEF WorkerTest, Active
<1>2. CASE SemWait(w)
  BY <1>2, WorkerStutters DEF SemWait, Active
<1>3. CASE TakeTask(w)
  BY <1>3, TakeTakes
<1>4. CASE TakeNull(w)
  BY <1>4, WorkerStutters DEF TakeNull, Active
<1>5. CASE RegHandler(w)
  BY <1>5, HandlerFinishes DEF RegHandler, Serving, Active
<1>6. CASE MsgUnknown(w)
  BY <1>6, HandlerFinishes DEF MsgUnknown, Serving, Active
<1>7. CASE MsgLookup(w)
  BY <1>7, WorkerStutters DEF MsgLookup, Serving, Active
<1>8. CASE MsgSend(w)
  BY <1>8, HandlerFinishes DEF MsgSend, Active
<1>9. CASE ExitReply(w)
  BY <1>9, WorkerStutters DEF ExitReply, Serving, Active
<1>10. CASE ExitErase(w)
  BY <1>10, HandlerFinishes DEF ExitErase, Active
<1>11. CASE Recycle(w)
  <2>1. \A v \in Workers : Active(v) => wtask'[v] = wtask[v]
    BY <1>11 DEF Recycle, Active, IInv, TypeOK
  <2> QED BY <1>11, <2>1, WorkerStutters DEF Recycle, RecycleBuffer, Active
<1> QED BY <1>1, <1>2, <1>3, <1>4, <1>5, <1>6, <1>7, <1>8, <1>9, <1>10, <1>11
        DEF Worker

-----------------------------------------------------------------------------
\* The initial states map to initial states of the abstract queue.
LEMMA InitRefines ==
  ASSUME ServerInit, net \subseteq Datagrams
  PROVE  UnderWayOnce /\ WQ!Init
<1> USE DEF ServerInit
<1>1. used_stack_ = <<>> /\ Len(used_stack_) = 0 /\ Range(used_stack_) = {}
  BY PoolInitOK DEF Range
<1>2. UnderWayOnce
  BY <1>1 DEF UnderWayOnce, Active
<1>3. Waiting = <<>>
  BY <1>1 DEF Waiting
<1>4. Running = [w \in Workers |-> Zeroed]
  BY DEF Running
<1> QED BY <1>2, <1>3, <1>4 DEF WQ!Init

\* Every step of the server maps to a step of the abstract queue or to none.
LEMMA NextRefines ==
  IInv /\ UnderWayOnce /\ [Next]_vars => UnderWayOnce' /\ [WQ!Next]_(WQ!vars)
<1> SUFFICES ASSUME IInv, UnderWayOnce, [Next]_vars
             PROVE  UnderWayOnce' /\ [WQ!Next]_(WQ!vars)
  OBVIOUS
<1>1. CASE MainSave
  <2>1. contents[mtask] \in Datagrams
    BY <1>1 DEF IInv, Received, MainSave
  <2> QED BY <1>1, <2>1, SaveSubmits DEF WQ!Next
<1>2. CASE Main /\ ~MainSave
  BY <1>2, MainStutters
<1>3. ASSUME NEW w \in Workers, Worker(w)
      PROVE  UnderWayOnce' /\ [WQ!Next]_(WQ!vars)
  BY <1>3, WorkerImplements DEF WQ!Next
<1>4. CASE Signal
  <2>1. UNCHANGED <<contents, used_stack_, wpc, wtask, mpc, mtask, net, accepted,
                    handled>>
    BY <1>4 DEF Signal, poolVars, mainVars, workerVars, historyVars
  <2>2. mpc' = "save" => contents'[mtask'] \notin net' \cup accepted'
    BY <2>1 DEF UnderWayOnce
  <2> QED BY <2>1, <2>2, OnceStays, AbstractStutter DEF Active, Job
<1>5. CASE UNCHANGED vars
  <2>1. mpc' = "save" => contents'[mtask'] \notin net' \cup accepted'
    BY <1>5 DEF UnderWayOnce, vars
  <2> QED BY <1>5, <2>1, OnceStays, AbstractStutter DEF vars, Active, Job
<1> QED BY <1>1, <1>2, <1>3, <1>4, <1>5 DEF Next, ServerNext, Ended

\* The server, its pool and its semaphore implement the abstract work queue:
\* add_task hands a datagram over, a worker takes the oldest one and handles it
\* once, and the buffer it is in is nobody else's meanwhile.
THEOREM ServerImplementsWorkQueue == Spec => ImplementsWorkQueue
<1>1. Init => WQ!Init /\ UnderWayOnce
  BY InitRefines DEF Init
<1>2. IInv /\ UnderWayOnce /\ [Next]_vars => UnderWayOnce' /\ [WQ!Next]_(WQ!vars)
  BY NextRefines
<1> QED BY <1>1, <1>2, InductiveInvariant, PTL
        DEF Spec, ImplementsWorkQueue, WQ!Spec

-----------------------------------------------------------------------------
(* The server as a part of a larger system: what it needs of a step that is *)
(* not its own, and what a step of its own does to the datagrams.           *)

\* What only the server changes.
innerVars == <<poolVars, running_state, mainVars, sem, workerVars, client_book,
               historyVars>>

\* The datagrams on the network, in main's buffer and those that were queued.
Sent == net \cup accepted \cup (IF mpc = "save" THEN {contents[mtask]} ELSE {})

\* The handlers: the steps that touch the book, the addresses looked up, the
\* replies or the datagrams handled.
Handles(w) == \/ RegHandler(w) \/ MsgUnknown(w) \/ MsgLookup(w) \/ MsgSend(w)
              \/ ExitReply(w) \/ ExitErase(w)

\* The server has no stake in the network beyond the type of what is on it ...
LEMMA NetworkMoves ==
  ASSUME IInv, UNCHANGED innerVars, net' \subseteq Datagrams,
         replies' \subseteq replies
  PROVE  IInv'
<1> USE DEF innerVars, mainVars, workerVars, historyVars
<1>1. TypeOK'
  BY DEF IInv, TypeOK, PoolTypeOK, poolVars
<1>2. OneHolder' BY HoldersStay DEF IInv
<1>3. Holding' /\ Received' /\ Closing'
  BY DEF IInv, Holding, Received, Closing, poolVars
<1>4. TokensBalance' /\ NullOnlyAtShutdown'
  BY DEF IInv, TokensBalance, NullOnlyAtShutdown, Claimants, Owed, Crashed, poolVars
<1> QED BY <1>1, <1>2, <1>3, <1>4 DEF IInv

\* ... and that a datagram is sent once.
LEMMA NetworkMovesOnce ==
  ASSUME IInv, UnderWayOnce, UNCHANGED innerVars,
         \A d \in net' : d \in net \/ d \notin Sent
  PROVE  UnderWayOnce'
<1> USE DEF innerVars, mainVars, workerVars, historyVars, poolVars
<1>1. net' \cap accepted = {}
  BY DEF UnderWayOnce, Sent
<1>2. mpc = "save" => contents[mtask] \notin net' \cup accepted
  BY DEF UnderWayOnce, Sent
<1> QED BY <1>1, <1>2 DEF UnderWayOnce, Active, Job

\* Main and the workers keep both invariants.
LEMMA ServerKeeps ==
  ASSUME IInv, UnderWayOnce, ServerNext
  PROVE  IInv' /\ UnderWayOnce'
BY NextKeepsIInv, NextRefines DEF Next

\* The server sends no datagrams, and forgets none that was queued or handled.
LEMMA SentOnlyShrinks ==
  ASSUME IInv, UnderWayOnce, NEW w, Main \/ (w \in Workers /\ Worker(w))
  PROVE  /\ Sent' \subseteq Sent
         /\ accepted \subseteq accepted' /\ handled \subseteq handled'
<1> USE DEF Sent, mainVars, historyVars, poolVars
<1>1. CASE MainReceive
  <2>1. PICK d \in net : FillBuffer(mtask, d) /\ net' = net \ {d}
    BY <1>1 DEF MainReceive
  <2>2. mtask \in 1..capacity
    BY <1>1 DEF MainReceive, IInv, TypeOK, PoolTypeOK, Holding, NoBuffer
  <2>3. contents'[mtask] = d /\ mtask' = mtask /\ UNCHANGED <<accepted, handled>>
    BY <1>1, <2>1, <2>2, PoolIsOK, FillBufferKeeps DEF MainReceive, IInv, TypeOK
  <2> QED BY <1>1, <2>1, <2>3 DEF MainReceive
<1>2. CASE MainSave
  BY <1>2 DEF MainSave, SaveTaskBuffer
<1>3. CASE Main /\ ~MainReceive /\ ~MainSave
  <2>1. UNCHANGED <<accepted, handled>> /\ net' = net /\ mpc' # "save"
    BY <1>3 DEF Main, MainTest, MainGet, MainReceiveFails, MainPost, CloseSocket,
                DtorPost, DtorJoin
  <2> QED BY <2>1
<1>4. CASE w \in Workers /\ Worker(w)
  <2>1. /\ UNCHANGED <<contents, mpc, mtask, net, accepted>>
        /\ handled \subseteq handled'
    BY <1>4 DEF Worker, WorkerTest, SemWait, TakeTask, GetTaskBuffer, TakeNull,
       RegHandler, MsgUnknown, MsgLookup, MsgSend, ExitReply, ExitErase, Recycle,
       RecycleBuffer, HandlerReturns
  <2> QED BY <2>1
<1> QED BY <1>1, <1>2, <1>3, <1>4

\* The buffer of a running handler is received into by nobody and given to nobody.
LEMMA JobsStay ==
  ASSUME IInv, NEW w, Main \/ (w \in Workers /\ Worker(w)),
         NEW v \in Workers, Active(v), Active(v)'
  PROVE  Job(v)' = Job(v)
<1> USE DEF mainVars, workerVars, historyVars, poolVars
<1>1. CASE MainGet
  <2>1. PICK b : GetEmptyBuffer(b)
    BY <1>1 DEF MainGet
  <2>2. \A c \in 1..capacity : contents'[c] = contents[c]
    BY <2>1, PoolIsOK, GetNewBufferTakes DEF GetEmptyBuffer, GetFreeBuffer
  <2> QED BY <1>1, <2>2, HoldersAreBuffers DEF MainGet, Job
<1>2. CASE MainReceive
  <2>1. PICK d \in net : FillBuffer(mtask, d)
    BY <1>2 DEF MainReceive
  <2>2. mtask \in 1..capacity /\ d \in Datagrams
    BY <1>2, <2>1 DEF MainReceive, IInv, TypeOK, PoolTypeOK, Holding, NoBuffer
  <2>3. \A c \in 1..capacity : c # mtask => contents'[c] = contents[c]
    BY <2>1, <2>2, PoolIsOK, FillBufferKeeps
  <2> QED BY <1>2, <2>3, HoldersAreBuffers DEF MainReceive, Job
<1>3. CASE Main /\ ~MainGet /\ ~MainReceive
  BY <1>3 DEF Main, MainTest, MainReceiveFails, MainSave, MainPost, CloseSocket,
              DtorPost, DtorJoin, RecycleBuffer, SaveTaskBuffer, Job
<1>4. CASE w \in Workers /\ (TakeTask(w) \/ Recycle(w))
  <2>1. v # w
    BY <1>4 DEF TakeTask, Recycle, Goto, Active, IInv, TypeOK
  <2>2. wtask'[v] = wtask[v] /\ contents' = contents
    BY <1>4, <2>1 DEF TakeTask, GetTaskBuffer, Recycle, RecycleBuffer, IInv, TypeOK
  <2> QED BY <2>2 DEF Job
<1>5. CASE Worker(w) /\ ~TakeTask(w) /\ ~Recycle(w)
  BY <1>5 DEF Worker, WorkerTest, SemWait, TakeNull, RegHandler, MsgUnknown,
              MsgLookup, MsgSend, ExitReply, ExitErase, Job
<1> QED BY <1>1, <1>2, <1>3, <1>4, <1>5

\* Main, and a worker outside its handlers, leave the book and the replies alone,
\* and no worker comes to send or to strike out.
LEMMA OthersLeaveTheBook ==
  ASSUME IInv, NEW w, Main \/ (w \in Workers /\ Worker(w) /\ ~Handles(w))
  PROVE  /\ UNCHANGED <<client_book, target, replies, handled>>
         /\ \A v \in Workers : wpc'[v] \in {"send", "erase"} => wpc'[v] = wpc[v]
<1> USE DEF mainVars, workerVars, historyVars, poolVars
<1>1. CASE Main
  BY <1>1 DEF Main, MainTest, MainGet, MainReceive, MainReceiveFails, MainSave,
              MainPost, CloseSocket, DtorPost, DtorJoin
<1>2. CASE w \in Workers /\ Worker(w) /\ ~Handles(w)
  <2>1. PICK to \in WorkerPC \ {"send", "erase"} : Goto(w, to)
    BY <1>2 DEF Worker, Handles, WorkerTest, SemWait, TakeTask, TakeNull, Recycle,
                WorkerPC
  <2>2. \A v \in Workers : wpc'[v] = IF v = w THEN to ELSE wpc[v]
    BY <2>1 DEF Goto, IInv, TypeOK
  <2>3. UNCHANGED <<client_book, target, replies, handled>>
    BY <1>2 DEF Worker, Handles, WorkerTest, SemWait, TakeTask, TakeNull, Recycle
  <2> QED BY <2>2, <2>3
<1> QED BY <1>1, <1>2
================================================================================

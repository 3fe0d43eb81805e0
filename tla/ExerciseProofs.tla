---------------------------- MODULE ExerciseProofs ----------------------------
(****************************************************************************)
(* Three exercises that know nothing of each other.                         *)
(* The treasury, for any number of threads: the account is never overdrawn, *)
(* every entry of the ledger is the line of one transaction, and the        *)
(* balance is what the ledger adds up to, with what is on its way there.    *)
(* The palace, for any number of consorts and of seats: the lounge is never *)
(* overfull, and nobody sleeps on a condition variable whose condition      *)
(* already holds without a broadcast on its way.                            *)
(* The file log API, for any texts and cards and for any number of calls,   *)
(* of streams left open and of starts: what is written is in the files, or  *)
(* late but not lost; and a caller who leaves a cell for the terminator     *)
(* reads it back, within its buffer.                                        *)
(****************************************************************************)
EXTENDS FamilyTreasury, HaremPalace, LogApi, SequenceFacts

PC == {"begin", "lock", "write", "log", "push", "rest", "signal", "asleep", "audit", "read"}

\* Whoever is between the read and the write of the balance has the mutex, has
\* read what the balance still is, and does not take more than there is.
AccountInv == /\ balance \in Nat
              /\ amount \in [Spenders -> Int] /\ seen \in [Spenders -> Int]
              /\ \A t \in Spenders : tpc[t] = "write" =>
                    mutex = t /\ seen[t] = balance /\ balance + amount[t] >= 0

\* The shared stream is empty but for the line of the one thread that has the
\* write lock.
LedgerInv == /\ log_stream \in Seq(Int) /\ logs \in Seq(Seq(Int))
             /\ writers = {} => log_stream = <<>>
             /\ \A t \in Spenders : tpc[t] = "push" => writers = {t} /\ Len(log_stream) = 1
             /\ log_index \in [Auditors -> Nat]
             /\ EntriesAreWhole

IInv == /\ tpc \in [Spenders \cup Auditors -> PC]
        /\ AccountInv /\ LedgerInv

-----------------------------------------------------------------------------
\* Nobody has done anything yet.
LEMMA InitIInv == TreasuryInit => IInv
<1> SUFFICES ASSUME TreasuryInit PROVE IInv
  OBVIOUS
<1>1. tpc \in [Spenders \cup Auditors -> PC] /\ \A t \in Spenders : tpc[t] = "begin"
  BY DEF TreasuryInit, PC
<1>2. AccountInv
  BY <1>1 DEF TreasuryInit, AccountInv
<1>3. <<>> \in Seq(Int) /\ <<>> \in Seq(Seq(Int)) /\ DOMAIN <<>> = {}
  OBVIOUS
<1>4. LedgerInv
  BY <1>1, <1>3 DEF TreasuryInit, LedgerInv, EntriesAreWhole
<1> QED BY <1>1, <1>2, <1>4 DEF IInv

\* A step of one thread that reads and changes neither account nor stream and
\* does not go to where it would.
LEMMA AsideKeeps ==
  ASSUME IInv, NEW t \in Spenders \cup Auditors, NEW to \in PC \ {"write", "push"},
         tpc' = [tpc EXCEPT ![t] = to],
         UNCHANGED <<balance, mutex, log_stream, logs, writers, log_index, amount, seen>>
  PROVE  IInv'
<1>1. tpc' \in [Spenders \cup Auditors -> PC]
  BY DEF IInv
<1>2. \A u \in Spenders : tpc'[u] \in {"write", "push"} => tpc'[u] = tpc[u]
  BY DEF IInv
<1>3. AccountInv'
  BY <1>2 DEF IInv, AccountInv
<1>4. LedgerInv'
  BY <1>2 DEF IInv, LedgerInv, EntriesAreWhole
<1> QED BY <1>1, <1>3, <1>4 DEF IInv

-----------------------------------------------------------------------------
(* The steps of a transaction.                                              *)

\* The balance is read with the mutex, and there is enough.
LEMMA ReadBalanceKeeps ==
  ASSUME IInv, NEW t \in Spenders, NEW a \in Int,
         tpc[t] = "lock", tpc' = [tpc EXCEPT ![t] = "write"],
         mutex = Nobody, mutex' = t,
         amount' = [amount EXCEPT ![t] = a], balance + a >= 0,
         seen' = [seen EXCEPT ![t] = balance],
         UNCHANGED <<balance, ledgerVars>>
  PROVE  IInv'
<1>1. \A u \in Spenders : tpc[u] # "write"
  BY TreasuryAssumption DEF IInv, AccountInv, Spenders
<1>2. tpc' \in [Spenders \cup Auditors -> PC]
  BY DEF IInv, PC
<1>3. \A u \in Spenders : /\ tpc'[u] = "write" => u = t
                          /\ tpc'[u] = "push" => tpc[u] = "push"
  BY <1>1 DEF IInv
<1>4. AccountInv'
  BY <1>3 DEF IInv, AccountInv
<1>5. LedgerInv'
  BY <1>3 DEF IInv, LedgerInv, EntriesAreWhole, ledgerVars, lockVars
<1> QED BY <1>2, <1>4, <1>5 DEF IInv

\* It is written back.
LEMMA WriteBalanceKeeps ==
  ASSUME IInv, NEW t \in Spenders, WriteBalance(t)
  PROVE  IInv'
<1>1. /\ tpc[t] = "write" /\ tpc' = [tpc EXCEPT ![t] = "log"]
      /\ balance' = seen[t] + amount[t] /\ UNCHANGED <<ledgerVars, ownVars>>
  BY DEF WriteBalance, From
<1>2. \A u \in Spenders : tpc'[u] # "write" /\ (tpc'[u] = "push" => tpc[u] = "push")
  BY <1>1 DEF IInv, AccountInv
<1>3. tpc' \in [Spenders \cup Auditors -> PC]
  BY <1>1 DEF IInv, PC
<1>4. balance' \in Nat
  BY <1>1 DEF IInv, AccountInv
<1>5. AccountInv'
  BY <1>1, <1>2, <1>4 DEF IInv, AccountInv, ownVars
<1>6. LedgerInv'
  BY <1>1, <1>2 DEF IInv, LedgerInv, EntriesAreWhole, ledgerVars, lockVars
<1> QED BY <1>3, <1>5, <1>6 DEF IInv

\* The line goes into an empty stream ...
LEMMA WriteLockKeeps ==
  ASSUME IInv, NEW t \in Spenders, WriteLock(t)
  PROVE  IInv'
<1>1. /\ tpc[t] = "log" /\ tpc' = [tpc EXCEPT ![t] = "push"]
      /\ writers = {} /\ writers' = writers \cup {t} /\ log_stream' = Append(log_stream, amount[t])
      /\ UNCHANGED <<accountVars, logs, log_index, ownVars>>
  BY DEF WriteLock, From
<1>2. log_stream = <<>> /\ amount[t] \in Int /\ \A u \in Spenders : tpc[u] # "push"
  BY <1>1 DEF IInv, LedgerInv, AccountInv
<1>3. log_stream' \in Seq(Int) /\ Len(log_stream') = 1
  BY <1>1, <1>2
<1>4. \A u \in Spenders : /\ tpc'[u] = "push" => u = t
                          /\ tpc'[u] = "write" => tpc[u] = "write"
  BY <1>1, <1>2 DEF IInv
<1>5. tpc' \in [Spenders \cup Auditors -> PC]
  BY <1>1 DEF IInv, PC
<1>6. AccountInv'
  BY <1>1, <1>4 DEF IInv, AccountInv, accountVars, ownVars
<1>7. LedgerInv'
  BY <1>1, <1>3, <1>4 DEF IInv, LedgerInv, EntriesAreWhole
<1> QED BY <1>5, <1>6, <1>7 DEF IInv

\* ... and leaves it as an entry of its own.
LEMMA PushLogKeeps ==
  ASSUME IInv, NEW t \in Spenders, PushLog(t)
  PROVE  IInv'
<1>1. PICK to \in {"rest", "begin"} : tpc[t] = "push" /\ tpc' = [tpc EXCEPT ![t] = to]
  BY DEF PushLog, From
<1>2. /\ logs' = Append(logs, log_stream) /\ log_stream' = <<>> /\ writers' = writers \ {t}
      /\ UNCHANGED <<accountVars, log_index, ownVars>>
  BY DEF PushLog
<1>3. writers = {t} /\ Len(log_stream) = 1 /\ log_stream \in Seq(Int) /\ logs \in Seq(Seq(Int))
  BY <1>1 DEF IInv, LedgerInv
<1>4. \A u \in Spenders : /\ tpc'[u] # "push"
                          /\ tpc'[u] = "write" => tpc[u] = "write"
  BY <1>1, <1>3 DEF IInv, LedgerInv
<1>5. EntriesAreWhole'
  <2>1. /\ DOMAIN logs' = DOMAIN logs \cup {Len(logs) + 1}
        /\ \A k \in DOMAIN logs : logs'[k] = logs[k]
        /\ logs'[Len(logs) + 1] = log_stream
    BY <1>2, <1>3, AppendProperties, LenProperties
  <2> QED BY <1>3, <2>1 DEF IInv, LedgerInv, EntriesAreWhole
<1>6. tpc' \in [Spenders \cup Auditors -> PC]
  BY <1>1 DEF IInv, PC
<1>7. AccountInv'
  BY <1>2, <1>4 DEF IInv, AccountInv, accountVars, ownVars
<1>8. log_stream' \in Seq(Int) /\ logs' \in Seq(Seq(Int))
  BY <1>2, <1>3
<1>9. LedgerInv'
  BY <1>2, <1>4, <1>5, <1>8 DEF IInv, LedgerInv
<1> QED BY <1>6, <1>7, <1>9 DEF IInv

\* The three of them.
LEMMA TransactionKeeps ==
  ASSUME IInv, NEW t \in Spenders, Transaction(t)
  PROVE  IInv'
BY WriteBalanceKeeps, WriteLockKeeps, PushLogKeeps DEF Transaction

-----------------------------------------------------------------------------
(* The threads.                                                             *)

\* The earner; a signal sends a sleeper to the mutex, and nowhere further.
LEMMA HusbandKeeps ==
  ASSUME IInv, HusbandStep
  PROVE  IInv'
<1>1. Husband \in Spenders /\ Husband \in Spenders \cup Auditors
  BY DEF Spenders
<1>2. CASE StartWork \/ Rest
  <2>1. PICK to \in {"lock", "signal"} : tpc' = [tpc EXCEPT ![Husband] = to]
    BY <1>2 DEF StartWork, Rest, From
  <2>2. UNCHANGED <<balance, mutex, log_stream, logs, writers, log_index, amount, seen>>
    BY <1>2 DEF StartWork, Rest, ledgerVars, lockVars, ownVars
  <2> QED BY <1>1, <2>1, <2>2, AsideKeeps DEF PC
<1>3. CASE Signal
  <2>1. UNCHANGED <<balance, mutex, log_stream, logs, writers, log_index, amount, seen>>
    BY <1>3 DEF Signal, accountVars, ledgerVars, lockVars, ownVars
  <2>2. CASE tpc' = [tpc EXCEPT ![Husband] = "begin"]
    BY <1>1, <2>1, <2>2, AsideKeeps DEF PC
  <2>3. CASE \E w \in asleep : tpc' = [tpc EXCEPT ![Husband] = "begin", ![w] = "lock"]
    <3>1. PICK w \in asleep : tpc' = [tpc EXCEPT ![Husband] = "begin", ![w] = "lock"]
      BY <2>3
    <3>2. tpc' \in [Spenders \cup Auditors -> PC]
      BY <3>1 DEF IInv, PC
    <3>3. \A u \in Spenders : tpc'[u] \in {"write", "push"} => tpc'[u] = tpc[u]
      BY <3>1 DEF IInv
    <3>4. AccountInv'
      BY <2>1, <3>3 DEF IInv, AccountInv
    <3>5. LedgerInv'
      BY <2>1, <3>3 DEF IInv, LedgerInv, EntriesAreWhole
    <3> QED BY <3>2, <3>4, <3>5 DEF IInv
  <2> QED BY <1>3, <2>2, <2>3 DEF Signal
<1>4. ASSUME NEW j \in Incomes, LockToPay(j) PROVE IInv'
  <2>1. j \in Int /\ balance + j >= 0
    BY TreasuryAssumption DEF IInv, AccountInv
  <2> QED BY <1>1, <1>4, <2>1, ReadBalanceKeeps DEF LockToPay, From
<1> QED BY <1>1, <1>2, <1>3, <1>4, TransactionKeeps DEF HusbandStep

\* A shopper, woken or not.
LEMMA WifeKeeps ==
  ASSUME IInv, NEW w \in Wives, WifeStep(w) \/ WakeUnasked(w)
  PROVE  IInv'
<1>1. w \in Spenders /\ w \in Spenders \cup Auditors
  BY DEF Spenders
<1>2. ASSUME NEW p \in Prices, Wish(w, p) PROVE IInv'
  <2>1. /\ tpc[w] = "begin" /\ tpc' = [tpc EXCEPT ![w] = "lock"]
        /\ amount' = [amount EXCEPT ![w] = -p]
        /\ UNCHANGED <<accountVars, ledgerVars, seen>>
    BY <1>2 DEF Wish, From
  <2>2. -p \in Int
    BY TreasuryAssumption
  <2>3. \A u \in Spenders :
           tpc'[u] \in {"write", "push"} => tpc'[u] = tpc[u] /\ amount'[u] = amount[u]
    BY <1>1, <2>1 DEF IInv, AccountInv
  <2>4. tpc' \in [Spenders \cup Auditors -> PC]
    BY <2>1 DEF IInv, PC
  <2>5. AccountInv'
    BY <2>1, <2>2, <2>3 DEF IInv, AccountInv, accountVars
  <2>6. LedgerInv'
    BY <2>1, <2>3 DEF IInv, LedgerInv, EntriesAreWhole, ledgerVars, lockVars
  <2> QED BY <2>4, <2>5, <2>6 DEF IInv
<1>3. CASE LockToBuy(w)
  <2>1. amount[w] \in Int /\ balance + amount[w] >= 0
        /\ amount = [amount EXCEPT ![w] = amount[w]]
    BY <1>1, <1>3 DEF LockToBuy, IInv, AccountInv
  <2> QED BY <1>1, <1>3, <2>1, ReadBalanceKeeps DEF LockToBuy, From
<1>4. CASE WaitForMoney(w) \/ WakeUnasked(w)
  <2>1. PICK to \in {"asleep", "lock"} : tpc' = [tpc EXCEPT ![w] = to]
    BY <1>4 DEF WaitForMoney, WakeUnasked, From
  <2>2. UNCHANGED <<balance, mutex, log_stream, logs, writers, log_index, amount, seen>>
    BY <1>4 DEF WaitForMoney, WakeUnasked, accountVars, ledgerVars, lockVars, ownVars
  <2> QED BY <1>1, <2>1, <2>2, AsideKeeps DEF PC
<1> QED BY <1>1, <1>2, <1>3, <1>4, TransactionKeeps DEF WifeStep

\* An auditor, who at most takes entries off the front of what is kept.
LEMMA AuditorKeeps ==
  ASSUME IInv, NEW a \in Auditors, AuditorStep(a)
  PROVE  IInv'
<1>1. CASE Look(a) \/ NothingNew(a) \/ ReadLock(a) \/ ReadUnlock(a)
  <2>1. PICK to \in {"audit", "begin", "read"} : tpc' = [tpc EXCEPT ![a] = to]
    BY <1>1 DEF Look, NothingNew, ReadLock, ReadUnlock, From
  <2>2. UNCHANGED <<balance, mutex, log_stream, logs, writers, log_index, amount, seen>>
    BY <1>1 DEF Look, NothingNew, ReadLock, ReadUnlock, accountVars, ledgerVars, lockVars,
                ownVars
  <2> QED BY <2>1, <2>2, AsideKeeps DEF PC
<1>2. CASE ReadEntry(a)
  <2>1. UNCHANGED <<accountVars, log_stream, lockVars, ownVars, tpc>>
        /\ (logs' = logs \/ logs' = Tail(logs))
    BY <1>2 DEF ReadEntry
  <2>2. logs' \in Seq(Seq(Int)) /\ EntriesAreWhole'
    <3>1. CASE logs' = logs
      BY <3>1 DEF IInv, LedgerInv, EntriesAreWhole
    <3>2. CASE logs' = Tail(logs) /\ logs # <<>>
      <4>1. logs \in Seq(Seq(Int)) /\ Len(logs) \in Nat
        BY LenProperties DEF IInv, LedgerInv
      <4>2. /\ logs' \in Seq(Seq(Int)) /\ DOMAIN logs' = 1 .. Len(logs) - 1
            /\ DOMAIN logs = 1 .. Len(logs)
        BY <3>2, <4>1, HeadTailProperties, LenProperties
      <4>3. \A k \in DOMAIN logs' : logs'[k] = logs[k + 1] /\ k + 1 \in DOMAIN logs
        BY <3>2, <4>1, <4>2, HeadTailProperties
      <4> QED BY <4>2, <4>3 DEF IInv, LedgerInv, EntriesAreWhole
    <3>3. logs # <<>>
      BY <1>2 DEF ReadEntry, IInv, LedgerInv
    <3> QED BY <2>1, <3>1, <3>2, <3>3
  <2>3. log_index' \in [Auditors -> Nat]
    <3> DEFINE read == [log_index EXCEPT ![a] = @ + 1]
    <3>1. read \in [Auditors -> Nat]
      BY DEF IInv, LedgerInv
    <3>2. \/ log_index' = read
          \/ (\A b \in Auditors : read[b] > 0) /\ log_index' = [b \in Auditors |-> read[b] - 1]
      BY <1>2 DEF ReadEntry
    <3> QED BY <3>1, <3>2
  <2>4. AccountInv'
    BY <2>1 DEF IInv, AccountInv, accountVars, ownVars
  <2>5. LedgerInv'
    BY <2>1, <2>2, <2>3 DEF IInv, LedgerInv, lockVars
  <2> QED BY <2>1, <2>4, <2>5 DEF IInv
<1> QED BY <1>1, <1>2 DEF AuditorStep

\* The invariant holds throughout.
LEMMA IInvHolds == TreasurySpec => []IInv
<1>1. IInv /\ [TreasuryNext]_treasuryVars => IInv'
  <2> SUFFICES ASSUME IInv, [TreasuryNext]_treasuryVars PROVE IInv'
    OBVIOUS
  <2>1. CASE UNCHANGED treasuryVars
    BY <2>1 DEF treasuryVars, accountVars, ledgerVars, lockVars, ownVars, IInv, AccountInv,
                LedgerInv, EntriesAreWhole
  <2> QED BY <2>1, HusbandKeeps, WifeKeeps, AuditorKeeps DEF TreasuryNext
<1> QED BY <1>1, InitIInv, PTL DEF TreasurySpec

-----------------------------------------------------------------------------
\* The balance, signed in the code and compared with unsigned prices, is never
\* negative (FamilyTreasury.cpp lines 103 and 108).
THEOREM NeverOverdrawn == TreasurySpec => [](balance \in Nat)
<1>1. IInv => balance \in Nat
  BY DEF IInv, AccountInv
<1> QED BY <1>1, IInvHolds, PTL

\* Nobody writes to the global stream between another's line and its push
\* (FamilyTreasury.cpp lines 24-30).
THEOREM EveryEntryIsWhole == TreasurySpec => []EntriesAreWhole
<1>1. IInv => EntriesAreWhole
  BY DEF IInv, LedgerInv
<1> QED BY <1>1, IInvHolds, PTL

-----------------------------------------------------------------------------
(* The money.                                                               *)

\* The threads whose amount is in the balance and not in the ledger yet.
Late == {t \in Spenders : tpc[t] \in {"log", "push"}}

\* The sums of the entries.
Sums(entries) == [k \in DOMAIN entries |-> SumOf(entries[k])]

\* The types IInv says nothing of.
MoneyTypes == /\ mutex \in Spenders \cup {Nobody}
              /\ status \in {"IDLE", "WORKING", "RESTING"}
              /\ audited \in Int
              /\ writers \subseteq Spenders /\ readers \subseteq Auditors

\* What the lock admits besides LedgerInv: the line in the stream is the writer's
\* amount, there is room for it, nobody reads meanwhile, and no auditor has read
\* more entries than there are.
RoomInv == /\ \A a \in Auditors : tpc[a] = "read" => a \in readers
           /\ readers # {} => writers = {}
           /\ Len(logs) <= MaxUnread
           /\ \A t \in Spenders :
                 tpc[t] = "push" => Len(logs) < MaxUnread /\ log_stream = <<amount[t]>>
           /\ \A a \in Auditors : log_index[a] <= Len(logs)

\* Only finitely many transactions are under way, and the books are right.
BooksInv == IsFiniteSet(Late) /\ MoneyIsConserved

\* What MoneyInv needs beside IInv.
MInv == MoneyTypes /\ RoomInv /\ BooksInv

\* The ledger's folds are sums over positions, and so is what is under way over
\* the threads.
LEMMA FoldsAreSums ==
  /\ \A s : SumOf(s) = Total(s, DOMAIN s)
  /\ Unwritten = Total(amount, Late)
<1>1. \A s : SumOf(s) = Total(s, DOMAIN s)
  BY DEF SumOf, FoldSeq, FoldFunction, FoldFunctionOnSet, Total, MapThenFoldSet
<1>2. Unwritten = Total(amount, Late)
  BY DEF Unwritten, MapThenSumSet, Total, MapThenFoldSet, Late
<1> QED BY <1>1, <1>2

\* An entry has a sum; one line's sum is its amount; another entry is added.
LEMMA SumOfEntries ==
  /\ \A s \in Seq(Int) : SumOf(s) \in Int
  /\ \A x \in Int : SumOf(<<x>>) = x
  /\ SumOf(<<>>) = 0
  /\ \A s \in Seq(Int), x \in Int : SumOf(Append(s, x)) = SumOf(s) + x
  /\ \A s \in Seq(Int) : s # <<>> => SumOf(s) = s[1] + SumOf(Tail(s))
<1>1. ASSUME NEW s \in Seq(Int)
      PROVE  /\ Len(s) \in Nat /\ DOMAIN s = 1 .. Len(s) /\ IsFiniteSet(1 .. Len(s))
             /\ \A j \in 1 .. Len(s) : s[j] \in Int
             /\ SumOf(s) = Total(s, 1 .. Len(s))
             /\ SumOf(s) \in Int
  <2>1. Len(s) \in Nat /\ DOMAIN s = 1 .. Len(s) /\ \A j \in 1 .. Len(s) : s[j] \in Int
    BY LenProperties, ElementOfSeq
  <2>2. IsFiniteSet(1 .. Len(s))
    BY <2>1, FS_Interval
  <2>3. SumOf(s) = Total(s, 1 .. Len(s))
    BY <2>1, FoldsAreSums
  <2>4. Total(s, 1 .. Len(s)) \in Int
    BY <2>1, <2>2, TotalFacts
  <2> QED BY <2>1, <2>2, <2>3, <2>4
<1>2. ASSUME NEW s \in Seq(Int), NEW x \in Int
      PROVE  SumOf(Append(s, x)) = SumOf(s) + x
  <2> DEFINE t == Append(s, x)
             n == Len(s)
  <2>1. /\ t \in Seq(Int) /\ n \in Nat /\ Len(t) = n + 1
        /\ \A j \in 1 .. n : t[j] = s[j]
        /\ t[n + 1] = x
    BY AppendFacts
  <2> HIDE DEF t
  <2>2. SumOf(t) = Total(t, 1 .. n + 1) /\ \A j \in 1 .. n + 1 : t[j] \in Int
    BY <1>1, <2>1
  <2>3. Total(t, 1 .. n + 1) = t[n + 1] + Total(t, 1 .. n) /\ Total(t, 1 .. n) \in Int
    <3> HIDE DEF n
    <3> QED BY <2>1, <2>2, TotalOfNext
  <2>4. Total(t, 1 .. n) = Total(s, 1 .. n)
    <3>1. IsFiniteSet(1 .. n) /\ \A j \in 1 .. n : s[j] \in Int
      BY <1>1
    <3> HIDE DEF n
    <3> QED BY <2>1, <3>1, TotalOfSame
  <2>5. SumOf(s) = Total(s, 1 .. n)
    BY <1>1
  <2> HIDE DEF n
  <2> QED BY <2>1, <2>2, <2>3, <2>4, <2>5 DEF t
<1>3. SumOf(<<>>) = 0
  <2>1. <<>> \in Seq(Int) /\ 1 .. Len(<<>>) = {}
    OBVIOUS
  <2>2. Total(<<>>, {}) = 0
    BY TotalFacts, FS_EmptySet
  <2> QED BY <1>1, <2>1, <2>2
<1>4. ASSUME NEW x \in Int PROVE SumOf(<<x>>) = x
  <2> DEFINE nothing == <<>>
  <2>1. nothing \in Seq(Int) /\ <<x>> = Append(nothing, x)
    OBVIOUS
  <2>2. SumOf(nothing) = 0
    BY <1>3
  <2> HIDE DEF nothing
  <2>3. SumOf(Append(nothing, x)) = x
    BY <1>2, <2>1, <2>2
  <2> QED BY <2>1, <2>3
<1>5. ASSUME NEW s \in Seq(Int), s # <<>>
      PROVE  SumOf(s) = s[1] + SumOf(Tail(s))
  <2> DEFINE t == Tail(s)
             m == Len(t)
  <2>1. /\ t \in Seq(Int) /\ m \in Nat /\ Len(s) = m + 1
        /\ \A j \in 1 .. m : t[j] = s[j + 1]
    <3>1. /\ Tail(s) \in Seq(Int) /\ Len(s) \in Nat \ {0} /\ Len(Tail(s)) = Len(s) - 1
          /\ \A j \in 1 .. Len(Tail(s)) : Tail(s)[j] = s[j + 1]
      BY <1>5, TailFacts
    <3>2. Len(Tail(s)) \in Nat
      BY <3>1
    <3> QED BY <3>1, <3>2
  <2> HIDE DEF t
  <2>2. SumOf(s) = Total(s, 1 .. m + 1) /\ \A j \in 1 .. m + 1 : s[j] \in Int
    BY <1>1, <2>1
  <2>3. SumOf(t) = Total(t, 1 .. m)
    BY <1>1, <2>1
  <2>4. Total(s, 1 .. m + 1) = s[1] + Total(t, 1 .. m)
    <3> HIDE DEF m
    <3> QED BY <2>1, <2>2, TotalShifted
  <2> QED BY <2>2, <2>3, <2>4 DEF t
<1> QED BY <1>1, <1>2, <1>3, <1>4, <1>5

\* So it is with the sums of a ledger's entries.
LEMMA SumsFacts ==
  ASSUME NEW l \in Seq(Seq(Int))
  PROVE  /\ Sums(l) \in Seq(Int) /\ SumOf(Sums(l)) \in Int
         /\ \A e \in Seq(Int) : SumOf(Sums(Append(l, e))) = SumOf(Sums(l)) + SumOf(e)
         /\ l # <<>> => SumOf(Sums(l)) = SumOf(Head(l)) + SumOf(Sums(Tail(l)))
<1>1. ASSUME NEW k \in Seq(Seq(Int))
      PROVE  /\ Len(k) \in Nat /\ DOMAIN k = 1 .. Len(k)
             /\ \A j \in 1 .. Len(k) : k[j] \in Seq(Int)
             /\ Sums(k) \in Seq(Int) /\ Len(Sums(k)) = Len(k)
             /\ \A j \in 1 .. Len(k) : Sums(k)[j] = SumOf(k[j])
  <2>1. Len(k) \in Nat /\ DOMAIN k = 1 .. Len(k) /\ \A j \in 1 .. Len(k) : k[j] \in Seq(Int)
    BY LenProperties, ElementOfSeq
  <2>2. \A j \in 1 .. Len(k) : SumOf(k[j]) \in Int
    BY <2>1, SumOfEntries
  <2>3. Sums(k) = [j \in 1 .. Len(k) |-> SumOf(k[j])]
    BY <2>1 DEF Sums
  <2>4. Sums(k) \in Seq(Int) /\ Len(Sums(k)) = Len(k)
    BY <2>1, <2>2, <2>3, IsASeq
  <2> QED BY <2>1, <2>3, <2>4
<1>2. ASSUME NEW e \in Seq(Int)
      PROVE  SumOf(Sums(Append(l, e))) = SumOf(Sums(l)) + SumOf(e)
  <2> DEFINE k == Append(l, e)
  <2>1. /\ k \in Seq(Seq(Int)) /\ Len(k) = Len(l) + 1
        /\ \A j \in 1 .. Len(l) : k[j] = l[j]
        /\ k[Len(l) + 1] = e
    BY AppendFacts
  <2> HIDE DEF k
  <2>2. SumOf(e) \in Int
    BY SumOfEntries
  <2>3. /\ Append(Sums(l), SumOf(e)) \in Seq(Int)
        /\ Len(Append(Sums(l), SumOf(e))) = Len(l) + 1
        /\ \A j \in 1 .. Len(l) : Append(Sums(l), SumOf(e))[j] = Sums(l)[j]
        /\ Append(Sums(l), SumOf(e))[Len(l) + 1] = SumOf(e)
    BY <1>1, <2>2, AppendFacts
  <2>4. \A j \in 1 .. Len(l) + 1 : Sums(k)[j] = Append(Sums(l), SumOf(e))[j]
    <3> SUFFICES ASSUME NEW j \in 1 .. Len(l) + 1
                 PROVE  Sums(k)[j] = Append(Sums(l), SumOf(e))[j]
      OBVIOUS
    <3>1. j \in 1 .. Len(l) \/ j = Len(l) + 1
      BY <1>1
    <3>2. Sums(k)[j] = SumOf(k[j])
      BY <1>1, <2>1
    <3> QED BY <1>1, <2>1, <2>3, <3>1, <3>2
  <2>5. Sums(k) = Append(Sums(l), SumOf(e))
    BY <1>1, <2>1, <2>3, <2>4, SeqEqual
  <2> QED BY <1>1, <2>2, <2>5, SumOfEntries DEF k
<1>3. ASSUME l # <<>>
      PROVE  SumOf(Sums(l)) = SumOf(Head(l)) + SumOf(Sums(Tail(l)))
  <2> DEFINE t == Tail(l)
  <2>1. /\ t \in Seq(Seq(Int)) /\ Head(l) = l[1] /\ Len(l) \in Nat \ {0} /\ Len(t) = Len(l) - 1
        /\ \A j \in 1 .. Len(t) : t[j] = l[j + 1]
    BY <1>3, TailFacts
  <2> HIDE DEF t
  <2>2. Sums(l) # <<>>
    BY <1>1, <2>1, EmptySeq
  <2>3. /\ Tail(Sums(l)) \in Seq(Int) /\ Len(Tail(Sums(l))) = Len(l) - 1
        /\ \A j \in 1 .. Len(t) : Tail(Sums(l))[j] = Sums(l)[j + 1]
    BY <1>1, <2>1, <2>2, TailFacts
  <2>4. \A j \in 1 .. Len(t) : Tail(Sums(l))[j] = Sums(t)[j]
    <3> SUFFICES ASSUME NEW j \in 1 .. Len(t) PROVE Tail(Sums(l))[j] = Sums(t)[j]
      OBVIOUS
    <3>1. j + 1 \in 1 .. Len(l)
      BY <2>1
    <3>2. Sums(l)[j + 1] = SumOf(l[j + 1])
      BY <1>1, <3>1
    <3>3. Sums(t)[j] = SumOf(t[j])
      BY <1>1, <2>1
    <3> QED BY <2>1, <2>3, <3>2, <3>3
  <2>5. Tail(Sums(l)) = Sums(t)
    BY <1>1, <2>1, <2>3, <2>4, SeqEqual
  <2>6. Sums(l)[1] = SumOf(Head(l))
    BY <1>1, <2>1
  <2> QED BY <1>1, <2>2, <2>5, <2>6, SumOfEntries DEF t
<1> QED BY <1>1, <1>2, <1>3, SumOfEntries

-----------------------------------------------------------------------------
\* A transaction comes under way, and arrives; between, only its amount counts.
LEMMA LateFacts ==
  ASSUME IInv, IsFiniteSet(Late)
  PROVE  /\ Unwritten \in Int
         /\ \A t \in Late : Unwritten = amount[t] + Total(amount, Late \ {t})
         /\ \A t \in Spenders \ Late : Total(amount, Late \cup {t}) = amount[t] + Unwritten
<1>1. \A t \in Spenders : amount[t] \in Int
  BY DEF IInv, AccountInv
<1>2. Late \subseteq Spenders
  BY DEF Late
<1>3. Unwritten \in Int
  BY <1>1, <1>2, TotalFacts, FoldsAreSums
<1>4. \A t \in Late : Unwritten = amount[t] + Total(amount, Late \ {t})
  BY <1>1, <1>2, TotalRemove, FoldsAreSums
<1>5. ASSUME NEW t \in Spenders \ Late
      PROVE  Total(amount, Late \cup {t}) = amount[t] + Unwritten
  <2> DEFINE L == Late \cup {t}
  <2>1. IsFiniteSet(L)
    BY FS_AddElement
  <2>2. t \in L /\ L \ {t} = Late /\ \A x \in L : amount[x] \in Int
    BY <1>1, <1>2
  <2> HIDE DEF L
  <2>3. Total(amount, L) = amount[t] + Total(amount, L \ {t})
    BY <2>1, <2>2, TotalRemove
  <2> QED BY <2>2, <2>3, FoldsAreSums DEF L
<1> QED BY <1>3, <1>4, <1>5

\* The books do not change when nobody enters or leaves the way to the ledger, and
\* the amounts on it stay what they are.
LEMMA BooksStay ==
  ASSUME IInv, BooksInv, Late' = Late, \A t \in Late : amount'[t] = amount[t],
         UNCHANGED <<balance, audited, logs>>
  PROVE  BooksInv'
<1>1. \A t \in Late : amount[t] \in Int
  BY DEF IInv, AccountInv, Late
<1>2. Total(amount', Late) = Total(amount, Late)
  BY <1>1, TotalOfSame DEF BooksInv
<1>3. Unwritten' = Total(amount', Late')
  BY DEF Unwritten, MapThenSumSet, Total, MapThenFoldSet, Late
<1>4. Unwritten' = Unwritten
  BY <1>2, <1>3, FoldsAreSums
<1> QED BY <1>4 DEF BooksInv, MoneyIsConserved

\* Whoever moves before and after the transactions changes no books.
LEMMA QuietKeeps ==
  ASSUME IInv, MInv,
         \A u \in Spenders : tpc'[u] = tpc[u] \/ {tpc[u], tpc'[u]} \cap {"log", "push"} = {},
         \A a \in Auditors : tpc'[a] = tpc[a],
         \A u \in Late : amount'[u] = amount[u],
         UNCHANGED <<balance, ledgerVars>>,
         mutex' \in Spenders \cup {Nobody}, status' \in {"IDLE", "WORKING", "RESTING"}
  PROVE  MInv'
<1>1. Late' = Late
  BY DEF Late
<1>2. BooksInv'
  BY <1>1, BooksStay DEF MInv, ledgerVars
<1>3. MoneyTypes'
  BY DEF MInv, MoneyTypes, ledgerVars, lockVars
<1>4. RoomInv'
  <2>1. \A t \in Spenders : tpc'[t] = "push" => tpc[t] = "push" /\ amount'[t] = amount[t]
    BY DEF Late
  <2>2. UNCHANGED <<readers, writers, logs, log_stream, log_index>>
    BY DEF ledgerVars, lockVars
  <2> QED BY <2>1, <2>2 DEF MInv, RoomInv
<1> QED BY <1>2, <1>3, <1>4 DEF MInv

\* What the balance becomes is under way from then on.
LEMMA WriteBalanceBooks ==
  ASSUME IInv, MInv, NEW t \in Spenders, WriteBalance(t)
  PROVE  MInv'
<1>1. /\ tpc[t] = "write" /\ tpc' = [tpc EXCEPT ![t] = "log"]
      /\ balance' = seen[t] + amount[t] /\ mutex' = Nobody
      /\ UNCHANGED <<status, ledgerVars, ownVars>>
  BY DEF WriteBalance, From
<1>2. seen[t] = balance /\ balance \in Int /\ amount[t] \in Int
  BY <1>1 DEF IInv, AccountInv
<1>3. Late' = Late \cup {t} /\ t \in Spenders \ Late /\ amount' = amount
  BY <1>1 DEF IInv, Late, ownVars
<1>4. IsFiniteSet(Late')
  BY <1>3, FS_AddElement DEF MInv, BooksInv
<1>5. Unwritten' = amount[t] + Unwritten /\ Unwritten \in Int
  <2>1. Unwritten' = Total(amount', Late')
    BY DEF Unwritten, MapThenSumSet, Total, MapThenFoldSet, Late
  <2> QED BY <1>3, <2>1, LateFacts DEF MInv, BooksInv
<1>6. audited \in Int /\ SumOf(Sums(logs)) \in Int
  BY SumsFacts DEF MInv, MoneyTypes, IInv, LedgerInv
<1>7. UNCHANGED <<audited, logs>>
  BY <1>1 DEF ledgerVars
<1>8. MoneyIsConserved'
  <2>1. balance = audited + SumOf(Sums(logs)) + Unwritten
    BY DEF MInv, BooksInv, MoneyIsConserved, Sums
  <2>2. balance' = audited + SumOf(Sums(logs)) + (amount[t] + Unwritten)
    BY <1>1, <1>2, <1>5, <1>6, <2>1
  <2> QED BY <1>5, <1>7, <2>2 DEF MoneyIsConserved, Sums
<1>9. MoneyTypes'
  BY <1>1 DEF MInv, MoneyTypes, ledgerVars, lockVars
<1>10. RoomInv'
  <2>1. /\ \A u \in Spenders : tpc'[u] = "push" => tpc[u] = "push"
        /\ \A a \in Auditors : tpc'[a] = "read" => tpc[a] = "read"
    BY <1>1 DEF IInv
  <2>2. UNCHANGED <<readers, writers, logs, log_stream, log_index, amount>>
    BY <1>1 DEF ledgerVars, lockVars, ownVars
  <2> QED BY <2>1, <2>2 DEF MInv, RoomInv
<1> QED BY <1>4, <1>8, <1>9, <1>10 DEF MInv, BooksInv

\* The line in the stream is the amount.
LEMMA WriteLockBooks ==
  ASSUME IInv, MInv, NEW t \in Spenders, WriteLock(t)
  PROVE  MInv'
<1>1. /\ tpc[t] = "log" /\ tpc' = [tpc EXCEPT ![t] = "push"]
      /\ writers = {} /\ readers = {} /\ Len(logs) < MaxUnread
      /\ writers' = writers \cup {t} /\ log_stream' = Append(log_stream, amount[t])
      /\ UNCHANGED <<accountVars, logs, audited, readers, log_index, ownVars>>
  BY DEF WriteLock, From
<1>2. log_stream = <<>> /\ \A u \in Spenders : tpc[u] # "push"
  BY <1>1 DEF IInv, LedgerInv
<1>3. log_stream' = <<amount[t]>>
  BY <1>1, <1>2
<1>4. Late' = Late
  BY <1>1 DEF IInv, Late
<1>5. BooksInv'
  BY <1>1, <1>4, BooksStay DEF MInv, accountVars, ownVars
<1>6. MoneyTypes'
  BY <1>1 DEF MInv, MoneyTypes, accountVars
<1>7. RoomInv'
  <2>1. /\ \A u \in Spenders : tpc'[u] = "push" => u = t
        /\ \A a \in Auditors : tpc'[a] = "read" => tpc[a] = "read"
    BY <1>1, <1>2 DEF IInv
  <2>2. UNCHANGED <<readers, logs, log_index, amount>>
    BY <1>1 DEF ownVars
  <2> QED BY <1>1, <1>3, <2>1, <2>2 DEF MInv, RoomInv
<1> QED BY <1>5, <1>6, <1>7 DEF MInv

\* The entry is worth the amount that is no longer under way.
LEMMA PushLogBooks ==
  ASSUME IInv, MInv, NEW t \in Spenders, PushLog(t)
  PROVE  MInv'
<1>1. PICK to \in {"rest", "begin"} : tpc[t] = "push" /\ tpc' = [tpc EXCEPT ![t] = to]
  BY DEF PushLog, From
<1>2. /\ logs' = Append(logs, log_stream) /\ log_stream' = <<>> /\ writers' = writers \ {t}
      /\ UNCHANGED <<accountVars, audited, readers, log_index, ownVars>>
  BY DEF PushLog
<1>3. /\ Len(logs) < MaxUnread /\ log_stream = <<amount[t]>> /\ writers = {t}
      /\ logs \in Seq(Seq(Int)) /\ log_stream \in Seq(Int) /\ amount[t] \in Int
      /\ Len(logs) \in Nat
  BY <1>1, LenProperties DEF IInv, LedgerInv, AccountInv, MInv, RoomInv
<1>4. /\ Late' = Late \ {t} /\ t \in Late /\ amount' = amount
  BY <1>1, <1>2 DEF IInv, Late, ownVars
<1>5. IsFiniteSet(Late')
  BY <1>4, FS_RemoveElement DEF MInv, BooksInv
<1>6. Unwritten = amount[t] + Unwritten' /\ Unwritten' \in Int
  <2>1. Unwritten' = Total(amount', Late')
    BY DEF Unwritten, MapThenSumSet, Total, MapThenFoldSet, Late
  <2>2. \A u \in Late \ {t} : amount[u] \in Int
    BY DEF IInv, AccountInv, Late
  <2>3. Total(amount, Late \ {t}) \in Int
    BY <1>4, <1>5, <2>2, TotalFacts
  <2> QED BY <1>4, <2>1, <2>3, LateFacts DEF MInv, BooksInv
<1>7. /\ SumOf(Sums(logs')) = SumOf(Sums(logs)) + amount[t]
      /\ audited \in Int /\ SumOf(Sums(logs)) \in Int
  BY <1>2, <1>3, SumsFacts, SumOfEntries DEF MInv, MoneyTypes
<1>8. MoneyIsConserved'
  <2>1. balance = audited + SumOf(Sums(logs)) + Unwritten
    BY DEF MInv, BooksInv, MoneyIsConserved, Sums
  <2>2. balance = audited + SumOf(Sums(logs')) + Unwritten'
    BY <1>3, <1>6, <1>7, <2>1
  <2> QED BY <1>2, <2>2 DEF MoneyIsConserved, Sums, accountVars
<1>9. MoneyTypes'
  BY <1>2 DEF MInv, MoneyTypes, accountVars
<1>10. RoomInv'
  <2>1. /\ \A u \in Spenders : tpc'[u] # "push"
        /\ \A a \in Auditors : tpc'[a] = "read" => tpc[a] = "read"
    BY <1>1, <1>3 DEF IInv, LedgerInv
  <2>2. Len(logs') = Len(logs) + 1 /\ \A a \in Auditors : log_index[a] \in Nat
    BY <1>2, <1>3, AppendProperties DEF IInv, LedgerInv
  <2>3. Len(logs') <= MaxUnread
    BY <1>3, <2>2, TreasuryAssumption
  <2>4. \A a \in Auditors : log_index'[a] <= Len(logs')
    BY <1>2, <1>3, <2>2 DEF MInv, RoomInv
  <2> QED BY <1>2, <1>3, <2>1, <2>3, <2>4 DEF MInv, RoomInv
<1> QED BY <1>5, <1>8, <1>9, <1>10 DEF MInv, BooksInv

\* The earner.
LEMMA HusbandBooks ==
  ASSUME IInv, MInv, HusbandStep
  PROVE  MInv'
<1>1. Husband \in Spenders /\ Husband \notin Auditors /\ \A w \in Wives : w \in Spenders \ Auditors
  BY TreasuryAssumption DEF Spenders
<1>2. mutex \in Spenders \cup {Nobody} /\ status \in {"IDLE", "WORKING", "RESTING"}
  BY DEF MInv, MoneyTypes
<1>3. CASE StartWork \/ Rest
  BY <1>1, <1>2, <1>3, QuietKeeps DEF StartWork, Rest, From, IInv, ownVars
<1>4. CASE Signal
  <2>1. UNCHANGED <<accountVars, ledgerVars, ownVars>>
    BY <1>4 DEF Signal
  <2>2. CASE tpc' = [tpc EXCEPT ![Husband] = "begin"]
    BY <1>1, <1>2, <1>4, <2>1, <2>2, QuietKeeps DEF Signal, IInv, accountVars, ownVars
  <2>3. ASSUME NEW w \in asleep, tpc' = [tpc EXCEPT ![Husband] = "begin", ![w] = "lock"]
        PROVE  MInv'
    <3>1. w \in Wives /\ tpc[w] = "asleep"
      BY DEF asleep
    <3> QED BY <1>1, <1>2, <1>4, <2>1, <2>3, <3>1, QuietKeeps DEF Signal, IInv, accountVars, ownVars
  <2> QED BY <1>4, <2>2, <2>3 DEF Signal
<1>5. ASSUME NEW j \in Incomes, LockToPay(j) PROVE MInv'
  <2>1. \A u \in Late : amount'[u] = amount[u]
    BY <1>5 DEF LockToPay, From, Late, IInv, AccountInv
  <2> QED BY <1>1, <1>2, <1>5, <2>1, QuietKeeps DEF LockToPay, From, IInv
<1>6. CASE Transaction(Husband)
  BY <1>1, <1>6, WriteBalanceBooks, WriteLockBooks, PushLogBooks DEF Transaction
<1> QED BY <1>3, <1>4, <1>5, <1>6 DEF HusbandStep

\* A shopper: her wish is another amount, but it is not under way yet.
LEMMA WifeBooks ==
  ASSUME IInv, MInv, NEW w \in Wives, WifeStep(w) \/ WakeUnasked(w)
  PROVE  MInv'
<1>1. w \in Spenders /\ w \notin Auditors
  BY TreasuryAssumption DEF Spenders
<1>2. mutex \in Spenders \cup {Nobody} /\ status \in {"IDLE", "WORKING", "RESTING"}
  BY DEF MInv, MoneyTypes
<1>3. ASSUME NEW p \in Prices, Wish(w, p) PROVE MInv'
  <2>1. \A u \in Late : amount'[u] = amount[u]
    BY <1>3 DEF Wish, From, Late, IInv, AccountInv
  <2> QED BY <1>1, <1>2, <1>3, <2>1, QuietKeeps DEF Wish, From, IInv, accountVars
<1>4. CASE LockToBuy(w)
  BY <1>1, <1>2, <1>4, QuietKeeps DEF LockToBuy, From, IInv
<1>5. CASE WaitForMoney(w) \/ WakeUnasked(w)
  BY <1>1, <1>2, <1>5, QuietKeeps DEF WaitForMoney, WakeUnasked, From, IInv, accountVars, ownVars
<1>6. CASE Transaction(w)
  BY <1>1, <1>6, WriteBalanceBooks, WriteLockBooks, PushLogBooks DEF Transaction
<1> QED BY <1>3, <1>4, <1>5, <1>6 DEF WifeStep

\* An auditor moves sums from the entries kept to those that are not.
LEMMA AuditorBooks ==
  ASSUME IInv, MInv, NEW a \in Auditors, AuditorStep(a)
  PROVE  MInv'
<1>1. a \notin Spenders
  BY TreasuryAssumption DEF Spenders
<1>2. CASE Look(a) \/ NothingNew(a) \/ ReadLock(a) \/ ReadUnlock(a)
  <2>1. PICK to \in {"audit", "begin", "read"} : tpc' = [tpc EXCEPT ![a] = to]
    BY <1>2 DEF Look, NothingNew, ReadLock, ReadUnlock, From
  <2>2. UNCHANGED <<accountVars, log_stream, logs, audited, writers, log_index,
                    ownVars>>
    BY <1>2 DEF Look, NothingNew, ReadLock, ReadUnlock, ledgerVars, lockVars
  <2>3. \A t \in Spenders : tpc'[t] = tpc[t]
    BY <1>1, <2>1 DEF IInv
  <2>4. BooksInv'
    BY <2>2, <2>3, BooksStay DEF MInv, Late, accountVars, ownVars
  <2>5. readers' \subseteq Auditors
    BY <1>2 DEF Look, NothingNew, ReadLock, ReadUnlock, ledgerVars, lockVars, MInv, MoneyTypes
  <2>6. MoneyTypes'
    BY <2>2, <2>5 DEF MInv, MoneyTypes, accountVars
  <2>7. /\ \A b \in Auditors : tpc'[b] = "read" => b \in readers'
        /\ readers' # {} => writers' = {}
    <3>1. CASE Look(a) \/ NothingNew(a)
      BY <2>2, <3>1 DEF Look, NothingNew, From, ledgerVars, lockVars, IInv, MInv, RoomInv
    <3>2. CASE ReadLock(a)
      BY <2>2, <3>2 DEF ReadLock, From, IInv, MInv, RoomInv
    <3>3. CASE ReadUnlock(a)
      BY <2>2, <3>3 DEF ReadUnlock, From, IInv, MInv, RoomInv
    <3> QED BY <1>2, <3>1, <3>2, <3>3
  <2>8. RoomInv'
    BY <2>2, <2>3, <2>7 DEF MInv, RoomInv, ownVars
  <2> QED BY <2>4, <2>6, <2>8 DEF MInv
<1>3. CASE ReadEntry(a)
  <2> DEFINE read == [log_index EXCEPT ![a] = @ + 1]
             All  == \A b \in Auditors : read[b] > 0
  <2>1. /\ tpc[a] = "read" /\ log_index[a] < Len(logs)
        /\ UNCHANGED <<accountVars, log_stream, lockVars, ownVars, tpc>>
        /\ \/ /\ All /\ log_index' = [b \in Auditors |-> read[b] - 1]
              /\ audited' = audited + SumOf(Head(logs)) /\ logs' = Tail(logs)
           \/ log_index' = read /\ UNCHANGED <<audited, logs>>
    BY <1>3 DEF ReadEntry
  <2>2. /\ log_index \in [Auditors -> Nat] /\ logs \in Seq(Seq(Int)) /\ Len(logs) \in Nat
        /\ read \in [Auditors -> Nat] /\ \A b \in Auditors : read[b] <= Len(logs)
    <3>1. log_index \in [Auditors -> Nat] /\ logs \in Seq(Seq(Int)) /\ Len(logs) \in Nat
      BY LenProperties DEF IInv, LedgerInv
    <3> QED BY <2>1, <3>1 DEF MInv, RoomInv
  <2>3. a \in readers /\ writers = {} /\ \A t \in Spenders : tpc[t] # "push"
    BY <2>1 DEF MInv, RoomInv, IInv, LedgerInv
  <2>4. Late' = Late /\ amount' = amount /\ Unwritten' = Unwritten /\ balance' = balance
    <3>1. Late' = Late /\ amount' = amount /\ balance' = balance
      BY <2>1 DEF Late, accountVars, ownVars
    <3>2. Unwritten' = Total(amount', Late')
      BY DEF Unwritten, MapThenSumSet, Total, MapThenFoldSet, Late
    <3> QED BY <3>1, <3>2, FoldsAreSums
  <2>5. CASE log_index' = read /\ UNCHANGED <<audited, logs>>
    <3>1. BooksInv'
      BY <2>4, <2>5, BooksStay DEF MInv
    <3>2. MoneyTypes'
      BY <2>1, <2>5 DEF MInv, MoneyTypes, accountVars, lockVars
    <3>3. RoomInv'
      BY <2>1, <2>2, <2>3, <2>5 DEF MInv, RoomInv, lockVars, ownVars
    <3> QED BY <3>1, <3>2, <3>3 DEF MInv
  <2>6. CASE /\ All /\ log_index' = [b \in Auditors |-> read[b] - 1]
             /\ audited' = audited + SumOf(Head(logs)) /\ logs' = Tail(logs)
    <3>1. logs # <<>>
      BY <2>1, <2>2
    <3>2. /\ Head(logs) \in Seq(Int) /\ Len(Tail(logs)) = Len(logs) - 1
          /\ Tail(logs) \in Seq(Seq(Int))
      BY <2>2, <3>1, TailFacts
    <3>3. /\ SumOf(Sums(logs)) = SumOf(Head(logs)) + SumOf(Sums(Tail(logs)))
          /\ SumOf(Head(logs)) \in Int /\ SumOf(Sums(Tail(logs))) \in Int
      BY <2>2, <3>1, <3>2, SumsFacts, SumOfEntries
    <3>4. audited \in Int /\ audited' \in Int
      BY <2>6, <3>3 DEF MInv, MoneyTypes
    <3>5. MoneyIsConserved'
      <4>1. balance = audited + SumOf(Sums(logs)) + Unwritten /\ Unwritten \in Int
        BY LateFacts DEF MInv, BooksInv, MoneyIsConserved, Sums
      <4>2. balance = audited' + SumOf(Sums(Tail(logs))) + Unwritten
        BY <2>6, <3>3, <3>4, <4>1
      <4> QED BY <2>4, <2>6, <4>2 DEF MoneyIsConserved, Sums
    <3>6. MoneyTypes'
      BY <2>1, <3>4 DEF MInv, MoneyTypes, accountVars, lockVars
    <3>7. Len(logs') <= MaxUnread /\ \A b \in Auditors : log_index'[b] <= Len(logs')
      BY <2>2, <2>6, <3>2, TreasuryAssumption DEF MInv, RoomInv
    <3>8. RoomInv'
      BY <2>1, <2>3, <3>7 DEF MInv, RoomInv, lockVars, ownVars
    <3> QED BY <2>4, <3>5, <3>6, <3>8 DEF MInv, BooksInv
  <2> QED BY <2>1, <2>5, <2>6
<1> QED BY <1>2, <1>3 DEF AuditorStep

\* The balance is what the ledger adds up to, with the transactions on their way
\* there, whatever the threads do between the account's lock and the ledger's
\* (FamilyTreasury.cpp lines 20-30 and 102-117), and every variable keeps its type.
THEOREM MoneyAddsUp == TreasurySpec => []MoneyInv
<1>1. TreasuryInit => MInv
  <2> SUFFICES ASSUME TreasuryInit PROVE MInv
    OBVIOUS
  <2>1. Late = {}
    BY DEF TreasuryInit, Late
  <2>2. IsFiniteSet(Late)
    BY <2>1, FS_EmptySet
  <2>3. Unwritten = 0
    BY <2>1, FoldsAreSums, TotalFacts, FS_EmptySet
  <2>4. SumOf([k \in DOMAIN logs |-> SumOf(logs[k])]) = 0
    <3>1. [k \in DOMAIN logs |-> SumOf(logs[k])] = <<>>
      BY DEF TreasuryInit
    <3> QED BY <3>1, SumOfEntries
  <2>5. BooksInv
    BY <2>2, <2>3, <2>4 DEF TreasuryInit, BooksInv, MoneyIsConserved
  <2>6. MoneyTypes
    BY DEF TreasuryInit, MoneyTypes
  <2>7. RoomInv
    BY TreasuryAssumption DEF TreasuryInit, RoomInv
  <2> QED BY <2>5, <2>6, <2>7 DEF MInv
<1>2. IInv /\ MInv /\ [TreasuryNext]_treasuryVars => MInv'
  <2> SUFFICES ASSUME IInv, MInv, [TreasuryNext]_treasuryVars PROVE MInv'
    OBVIOUS
  <2>1. CASE UNCHANGED treasuryVars
    <3>1. UNCHANGED <<tpc, accountVars, ledgerVars, ownVars>>
      BY <2>1 DEF treasuryVars
    <3> QED BY <3>1, QuietKeeps DEF accountVars, ownVars, MInv, MoneyTypes
  <2> QED BY <2>1, HusbandBooks, WifeBooks, AuditorBooks DEF TreasuryNext
<1>3. IInv /\ MInv => MoneyInv
  <2> SUFFICES ASSUME IInv, MInv PROVE MoneyInv
    OBVIOUS
  <2>1. Len(logs) \in Nat
    BY LenProperties DEF IInv, LedgerInv
  <2>2. log_index \in [Auditors -> 0 .. MaxUnread]
    BY <2>1, TreasuryAssumption DEF IInv, LedgerInv, MInv, RoomInv
  <2>3. TypeOK
    BY <2>2 DEF TypeOK, IInv, PC, AccountInv, LedgerInv, MInv, MoneyTypes
  <2> QED BY <2>3 DEF MoneyInv, MInv, BooksInv
<1> QED BY <1>1, <1>2, <1>3, IInvHolds, PTL DEF TreasurySpec

-----------------------------------------------------------------------------
(* The palace.                                                              *)

\* The two properties hold up each other once queue and set agree: a consort who
\* finds herself in the set is then still queued, and will be called.
PalaceInv == PalaceTypeOK /\ NobodyIsForgotten /\ ready = pq

\* The queue can be counted; one more consort is one more at most, one less does
\* not make it longer.
LEMMA QueueIsCounted ==
  ASSUME PalaceTypeOK
  PROVE  /\ IsFiniteSet(pq) /\ Cardinality(pq) \in Nat /\ Seats \in Nat
         /\ \A c \in Consorts : Cardinality(pq \cup {c}) \in {Cardinality(pq), Cardinality(pq) + 1}
         /\ \A c \in Consorts : Cardinality(pq \ {c}) <= Cardinality(pq)
<1>1. IsFiniteSet(pq) /\ Cardinality(pq) \in Nat /\ Seats \in Nat
  BY PalaceAssumption, FS_Subset, FS_CardinalityType DEF PalaceTypeOK
<1>2. ASSUME NEW c \in Consorts
      PROVE  Cardinality(pq \cup {c}) \in {Cardinality(pq), Cardinality(pq) + 1}
  <2>1. CASE c \in pq
    <3>1. pq \cup {c} = pq
      BY <2>1
    <3> QED BY <3>1
  <2>2. CASE c \notin pq
    BY <1>1, <2>2, FS_AddElement
  <2> QED BY <2>1, <2>2
<1>3. ASSUME NEW c \in Consorts PROVE Cardinality(pq \ {c}) <= Cardinality(pq)
  BY <1>1, FS_RemoveElement
<1> QED BY <1>1, <1>2, <1>3

\* Before anybody has come.
LEMMA PalaceOpens ==
  ASSUME PalaceInit
  PROVE  PalaceInv
<1>1. Cardinality(pq) = 0
  BY FS_EmptySet DEF PalaceInit
<1>2. PalaceTypeOK
  BY <1>1, PalaceAssumption DEF PalaceInit, PalaceTypeOK
<1>3. NoSeat = {} /\ Seated = {}
  BY DEF PalaceInit, NoSeat, Seated
<1> QED BY <1>2, <1>3 DEF PalaceInit, PalaceInv, NobodyIsForgotten

\* A consort's step.  She only takes a seat when one is free, and then nobody can
\* be standing by unless the broadcast is still to come.
LEMMA ConcubineKeeps ==
  ASSUME PalaceInv, NEW c \in Consorts, ConcubineStep(c)
  PROVE  PalaceInv'
<1> USE DEF PalaceInv
<1>1. CASE SitDown(c)
  <2>1. /\ cpc' = [cpc EXCEPT ![c] = "seated"] /\ pq' = pq \cup {c} /\ ready' = ready \cup {c}
        /\ cpc[c] \in {"dress", "retry"} /\ Cardinality(pq) < Seats
        /\ lord' \in {"look", lord} /\ lord' # "asleep" /\ UNCHANGED <<glamor, consort>>
    BY <1>1 DEF SitDown, PalaceTypeOK
  <2>2. PalaceTypeOK'
    <3>1. Cardinality(pq') <= Seats
      BY <2>1, QueueIsCounted
    <3> QED BY <2>1, <3>1 DEF PalaceTypeOK
  <2>3. NoSeat' = NoSeat /\ Seated' = Seated \cup {c}
    BY <2>1 DEF NoSeat, Seated, PalaceTypeOK
  <2>4. ASSUME lord' # "broadcast" PROVE NoSeat' = {} /\ Seated' \subseteq pq' \cap ready'
    <3>1. lord # "broadcast"
      BY <1>1, <2>4 DEF SitDown
    <3>2. NoSeat = {}
      BY <2>1, <3>1, QueueIsCounted DEF NobodyIsForgotten
    <3> QED BY <2>1, <2>3, <3>1, <3>2 DEF NobodyIsForgotten
  <2> QED BY <2>1, <2>2, <2>4 DEF NobodyIsForgotten
<1>2. CASE StandBy(c)
  <2>1. /\ cpc' = [cpc EXCEPT ![c] = "noSeat"] /\ Cardinality(pq) >= Seats
        /\ UNCHANGED <<glamor, pq, ready, lord, consort>>
    BY <1>2 DEF StandBy
  <2>2. PalaceTypeOK'
    BY <2>1 DEF PalaceTypeOK
  <2>3. Cardinality(pq) = Seats
    BY <2>1, QueueIsCounted DEF PalaceTypeOK
  <2>4. Seated' \subseteq Seated
    BY <2>1 DEF Seated, PalaceTypeOK
  <2>5. lord = "asleep" => pq = {}
    BY DEF NobodyIsForgotten
  <2>6. lord # "broadcast" => Seated \subseteq pq \cap ready
    BY DEF NobodyIsForgotten
  <2> QED BY <2>1, <2>2, <2>3, <2>4, <2>5, <2>6 DEF NobodyIsForgotten
<1>3. CASE NotYet(c)
  <2>1. /\ cpc' = [cpc EXCEPT ![c] = "seated"] /\ c \in ready
        /\ UNCHANGED <<glamor, pq, ready, lord, consort>>
    BY <1>3 DEF NotYet
  <2>2. PalaceTypeOK'
    BY <2>1 DEF PalaceTypeOK
  <2>3. NoSeat' \subseteq NoSeat /\ Seated' \subseteq Seated \cup {c}
    BY <2>1 DEF NoSeat, Seated, PalaceTypeOK
  <2> QED BY <2>1, <2>2, <2>3 DEF NobodyIsForgotten
<1>4. CASE Leave(c) \/ Rested(c)
  <2>1. PICK to \in {"rest", "dress"} : cpc' = [cpc EXCEPT ![c] = to]
    BY <1>4 DEF Leave, Rested
  <2>2. UNCHANGED <<glamor, pq, ready, lord, consort>>
    BY <1>4 DEF Leave, Rested
  <2>3. PalaceTypeOK'
    BY <2>1, <2>2 DEF PalaceTypeOK
  <2>4. NoSeat' \subseteq NoSeat /\ Seated' \subseteq Seated
    BY <2>1 DEF NoSeat, Seated, PalaceTypeOK
  <2> QED BY <2>2, <2>3, <2>4 DEF NobodyIsForgotten
<1> QED BY <1>1, <1>2, <1>3, <1>4 DEF ConcubineStep

\* The lord's step.  He frees a seat before he broadcasts: in between, and only
\* then, somebody may sleep who should not.
LEMMA LordKeeps ==
  ASSUME PalaceInv, LordStep
  PROVE  PalaceInv'
<1> USE DEF PalaceInv
<1>1. CASE LordSleeps
  BY <1>1 DEF LordSleeps, PalaceTypeOK, NobodyIsForgotten, NoSeat, Seated
<1>2. ASSUME NEW c \in Consorts, LordPicks(c) PROVE PalaceInv'
  <2>1. /\ pq' = pq \ {c} /\ ready' = ready \ {c} /\ consort' = c
        /\ lord' = "broadcast" /\ UNCHANGED <<glamor, cpc>>
    BY <1>2 DEF LordPicks
  <2>2. Cardinality(pq') <= Seats
    <3>1. Cardinality(pq') \in Nat
      BY <2>1, QueueIsCounted, FS_RemoveElement, FS_CardinalityType
    <3> QED BY <2>1, <3>1, QueueIsCounted DEF PalaceTypeOK
  <2> QED BY <2>1, <2>2 DEF PalaceTypeOK, NobodyIsForgotten
<1>3. CASE Broadcast
  <2>1. /\ cpc' = [c \in Consorts |-> IF c \in NoSeat \cup Seated
                                      THEN Awake(c) ELSE cpc[c]]
        /\ lord' = "attend" /\ UNCHANGED <<glamor, pq, ready, consort>>
    BY <1>3 DEF Broadcast
  <2>2. \A c \in Consorts : cpc'[c] \in {"dress", "retry", "called", "rest"}
    BY <2>1 DEF NoSeat, Seated, Awake, PalaceTypeOK
  <2>3. NoSeat' = {} /\ Seated' = {}
    BY <2>2 DEF NoSeat, Seated
  <2>4. PalaceTypeOK'
    BY <2>1, <2>2 DEF PalaceTypeOK
  <2> QED BY <2>1, <2>3, <2>4 DEF NobodyIsForgotten
<1>4. CASE Attend
  BY <1>4 DEF Attend, PalaceTypeOK, NobodyIsForgotten, NoSeat, Seated
<1> QED BY <1>1, <1>2, <1>3, <1>4 DEF LordStep

\* Waking up without a signal.
LEMMA WakeUnaskedKeeps ==
  ASSUME PalaceInv, WokenUnasked
  PROVE  PalaceInv'
<1> USE DEF PalaceInv
<1>1. ASSUME NEW c \in NoSeat \cup Seated, cpc' = [cpc EXCEPT ![c] = Awake(c)],
             UNCHANGED <<glamor, pq, ready, lord, consort>>
      PROVE PalaceInv'
  <2>1. c \in Consorts /\ Awake(c) \in {"retry", "called"}
    BY DEF NoSeat, Seated, Awake
  <2>2. PalaceTypeOK'
    BY <1>1, <2>1 DEF PalaceTypeOK
  <2>3. NoSeat' \subseteq NoSeat /\ Seated' \subseteq Seated
    BY <1>1, <2>1 DEF NoSeat, Seated, PalaceTypeOK
  <2> QED BY <1>1, <2>2, <2>3 DEF NobodyIsForgotten
<1>2. CASE lord = "asleep" /\ lord' = "look" /\ UNCHANGED <<glamor, pq, ready, cpc, consort>>
  BY <1>2 DEF PalaceTypeOK, NobodyIsForgotten, NoSeat, Seated
<1> QED BY <1>1, <1>2 DEF WokenUnasked

\* The invariant holds throughout.
LEMMA PalaceInvHolds ==
  PalaceSpec => []PalaceInv
<1>0. PalaceInit => PalaceInv
  BY PalaceOpens
<1>1. PalaceInv /\ [PalaceNext]_palaceVars => PalaceInv'
  <2> SUFFICES ASSUME PalaceInv, [PalaceNext]_palaceVars PROVE PalaceInv'
    OBVIOUS
  <2>1. CASE UNCHANGED palaceVars
    BY <2>1 DEF palaceVars, PalaceInv, PalaceTypeOK, NobodyIsForgotten, NoSeat, Seated
  <2> QED BY <2>1, ConcubineKeeps, LordKeeps, WakeUnaskedKeeps DEF PalaceNext
<1> QED BY <1>0, <1>1, PTL DEF PalaceSpec

\* All who stand by are woken for one seat, and still the queue is never longer
\* than there are seats (HaremPalace.cpp lines 68-71).
THEOREM LoungeIsNeverOverfull ==
  PalaceSpec => []PalaceTypeOK
<1>1. PalaceInv => PalaceTypeOK
  BY DEF PalaceInv
<1> QED BY <1>1, PalaceInvHolds, PTL

\* Whoever sleeps does so with reason, or a broadcast is on its way: the lord may
\* broadcast after he has released the mutex, on the one condition variable all
\* consorts share (HaremPalace.cpp lines 44-45 and 68-83).
THEOREM NobodySleepsForgotten ==
  PalaceSpec => []NobodyIsForgotten
<1>1. PalaceInv => NobodyIsForgotten
  BY DEF PalaceInv
<1> QED BY <1>1, PalaceInvHolds, PTL

-----------------------------------------------------------------------------
(* The file log API.                                                        *)

\* What files and buffers are made of.
Elements == Characters \cup Nat

Modes == {"INPUT_CHAR", "READ_CHAR", "COVER_WRITE", "ALTER_WRITE", "INPUT_STRING", "READ_STRING",
          "INPUT_FORMAT", "READ_FORMAT", "INPUT_BINARY", "READ_BINARY"}
CardModes == {"INPUT_FORMAT", "INPUT_BINARY"}

\* A stream that is open.
Streams == [kind : {"a", "r", "w", "r+"}, name : Names, mode : Modes, pos : Nat,
            pend : Seq(Elements)]

\* What a call asks for, once the size is known.
CallTyped == /\ data \in [mode : Modes \cup {""}, content : Seq(Elements), offset : Nat, size : Nat]
             /\ data.mode \in Reading => data.content = <<>>
             /\ data.mode \in CardModes => data.content \in Seq(Nat) /\ data.size = Len(data.content)

LogTyped == /\ file \in [Names -> Seq(Elements) \cup {Absent}]
            /\ file["GirlsInfo.txt"] \in Seq(Nat) \cup {Absent}
            /\ meant \in [Names -> Seq(Elements)]
            /\ stream = NULL \/ stream \in Streams
            /\ leaked \in Seq(Streams)
            /\ pc \in {"idle", "run", "exit", "gone"} /\ late \in {"no", "tail", "mixed"}
            /\ i \in Nat /\ at \in Nat /\ buffer \in Seq(Elements)

\* A stream is what its mode makes it, and holds text only if the mode does not flush.
Fits(st) == /\ st.kind = fopenMode[st.mode] /\ st.name = NameOf(st.mode)
            /\ st.mode # "ALTER_WRITE" => st.pos = 0
            /\ st.mode \in CardModes => st.pend \in Seq(Nat)
            /\ st.mode \in Buffered \/ st.pend = <<>>

\* Whose stream it is, and what is left open; of a text that is written character by
\* character three are held at most.
StreamsFit == /\ stream # NULL => /\ Fits(stream) /\ stream.mode = data.mode
                                  /\ stream.pos = Seek(data)
              /\ \A k \in 1 .. Len(leaked) : Fits(leaked[k]) /\ leaked[k].mode \in Buffered
              /\ pc \in {"exit", "gone"} => stream = NULL
              /\ pc = "gone" \/ late = "no" => leaked = <<>>
              /\ pc = "run" /\ stream.mode = "INPUT_BINARY" => stream.pend = <<>>
              /\ stream.mode = "INPUT_CHAR" => /\ i <= Len(data.content)
                                               /\ Len(stream.pend) = IF i = 0 THEN 0 ELSE (i + 3) % 4

LogInv == CallTyped /\ LogTyped /\ StreamsFit

\* What the call that runs has still to hand to its stream.
ToCome == IF pc # "run" THEN <<>>
          ELSE IF data.mode = "INPUT_CHAR" THEN SubSeq(data.content, i + 1, Len(data.content))
          ELSE data.content

\* What the open stream holds, and what it will be handed.
InHand == stream.pend \o ToCome

\* As long as nothing has been left behind each file is, or will be, what it should.
NothingIsLate ==
    late = "no" => \A f \in Names : meant[f] = IF stream.name = f
                                               THEN Flushed(stream, InHand)[f]
                                               ELSE Held(f)

\* How many elements of a sequence are in C; those of them that wait in streams for
\* the letter.
CountIn(s, C)  == Cardinality({k \in DOMAIN s : s[k] \in C})
LeftIn(ls, C)  == [k \in DOMAIN ls |-> IF ls[k].name = Letter THEN CountIn(ls[k].pend, C) ELSE 0]
StillOpen(C)   == IF stream.name = Letter THEN CountIn(InHand, C) ELSE 0

\* Once something has been left behind and texts are only appended, nothing is lost.
NothingIsLost ==
    late = "tail" =>
        /\ stream # NULL => stream.mode \notin {"COVER_WRITE", "ALTER_WRITE", "INPUT_BINARY"}
        /\ \A C \in SUBSET Elements :
              CountIn(meant[Letter], C) = CountIn(Held(Letter), C) + StillOpen(C)
                                          + Total(LeftIn(leaked, C), 1 .. Len(leaked))

SavedInv == LogInv /\ NothingIsLate /\ NothingIsLost

\* The buffer of a call that reads has a cell more than the file has elements, if the
\* caller leaves one for the terminator.
RoomToSpare == stream # NULL /\ data.mode \in Reading => data.size > Len(text)

\* What the n-th element of a text adds to the lines: a line, when it is one's last.
Piece(s, n) == IF n \in LineEnds(s) THEN UpToNul(LineUpTo(s, n)) ELSE <<>>

\* The lines up to i, each up to its NUL, are in the buffer; the cell behind them is the
\* terminator's.
LinesRead ==
    stream # NULL /\ data.mode = "READ_STRING" /\ pc \in {"idle", "run"} =>
        LET lines == LinesUpTo(text)[i] IN
        /\ i <= Len(text) /\ i \in {0} \cup LineEnds(text)
        /\ at <= i /\ at = Len(lines)
        /\ at <= Len(buffer) /\ Len(buffer) <= data.size
        /\ \A k \in 1 .. at : buffer[k] = lines[k] /\ lines[k] # NUL
        /\ Len(buffer) > at => buffer[at + 1] = NUL
        /\ pc = "idle" => i = Len(text)

CallerKeeps == /\ pc = "idle" /\ data.mode \in Reading => Len(buffer) <= data.size
               /\ pc = "run" /\ stream = NULL => buffer = <<>>

ReadInv == LogInv /\ RoomToSpare /\ LinesRead /\ CallerKeeps /\ ReadsBack

-----------------------------------------------------------------------------
(* What is written over what.                                               *)

\* The larger of two numbers.
LEMMA LargerOfTwo ==
  ASSUME NEW a \in Nat, NEW b \in Nat
  PROVE  Max({a, b}) = IF a > b THEN a ELSE b
<1> DEFINE m == IF a > b THEN a ELSE b
<1>1. m \in {a, b} /\ \A y \in {a, b} : m >= y
  OBVIOUS
<1>2. \A x \in {a, b} : (\A y \in {a, b} : x >= y) => x = m
  OBVIOUS
<1> HIDE DEF m
<1>3. Max({a, b}) = m
  BY <1>1, <1>2 DEF Max
<1> QED BY <1>3 DEF m

\* A cell that is skipped holds an element, too.
LEMMA NulIsAnElement == NUL \in Elements
BY LogAssumption DEF Elements

\* Writing over a sequence: which cell holds what afterwards.
LEMMA OverFacts ==
  ASSUME NEW s \in Seq(Elements), NEW p \in Nat, NEW t \in Seq(Elements)
  PROVE  /\ Over(s, p, t) \in Seq(Elements)
         /\ t = <<>> => Over(s, p, t) = s
         /\ t # <<>> =>
              /\ Len(Over(s, p, t)) = IF Len(s) > p + Len(t) THEN Len(s) ELSE p + Len(t)
              /\ \A k \in 1 .. Len(Over(s, p, t)) :
                    Over(s, p, t)[k] = IF k > p /\ k <= p + Len(t) THEN t[k - p]
                                       ELSE IF k <= Len(s) THEN s[k] ELSE NUL
<1>0. Len(s) \in Nat /\ Len(t) \in Nat
  BY LenProperties
<1> DEFINE m == IF Len(s) > p + Len(t) THEN Len(s) ELSE p + Len(t)
           e(k) == IF k > p /\ k <= p + Len(t) THEN t[k - p] ELSE IF k <= Len(s) THEN s[k] ELSE NUL
           o == [k \in 1 .. m |-> e(k)]
<1>1. m \in Nat
  BY <1>0
<1>2. ASSUME NEW k \in 1 .. m PROVE e(k) \in Elements
  <2>1. CASE k > p /\ k <= p + Len(t)
    <3>1. k - p \in 1 .. Len(t)
      BY <1>0, <1>1, <2>1
    <3>2. t[k - p] \in Elements
      BY <3>1, ElementOfSeq
    <3> QED BY <2>1, <3>2
  <2>2. CASE ~(k > p /\ k <= p + Len(t)) /\ k <= Len(s)
    <3>1. k \in 1 .. Len(s)
      BY <1>0, <1>1, <2>2
    <3>2. s[k] \in Elements
      BY <3>1, ElementOfSeq
    <3> QED BY <2>2, <3>2
  <2>3. CASE ~(k > p /\ k <= p + Len(t)) /\ ~(k <= Len(s))
    BY <2>3, NulIsAnElement
  <2> QED BY <2>1, <2>2, <2>3
<1>3. o \in Seq(Elements) /\ Len(o) = m /\ \A k \in 1 .. m : o[k] = e(k)
  <2> HIDE DEF e, m
  <2>1. o \in [1 .. m -> Elements]
    BY <1>2
  <2>2. o \in Seq(Elements) /\ Len(o) = m
    BY <1>1, <2>1
  <2> QED BY <2>2
<1>4. t # <<>> => Over(s, p, t) = o
  BY <1>0, LargerOfTwo DEF Over
<1>5. t = <<>> => Over(s, p, t) = s
  BY DEF Over
<1> HIDE DEF o
<1> QED BY <1>3, <1>4, <1>5

\* A text written into an empty file is the file.
LEMMA OverNothing ==
  ASSUME NEW t \in Seq(Elements)
  PROVE  Over(<<>>, 0, t) = t
<1>1. CASE t = <<>>
  BY <1>1, OverFacts
<1>2. CASE t # <<>>
  <2>0. PICK s : s = <<>>
    OBVIOUS
  <2>1. s \in Seq(Elements) /\ Len(s) = 0 /\ Len(t) \in Nat
    BY <2>0, LenProperties, EmptySeq
  <2> DEFINE o == Over(s, 0, t)
  <2>2. /\ o \in Seq(Elements)
        /\ Len(o) = IF Len(s) > 0 + Len(t) THEN Len(s) ELSE 0 + Len(t)
        /\ \A k \in 1 .. Len(o) : o[k] = IF k > 0 /\ k <= 0 + Len(t) THEN t[k - 0]
                                         ELSE IF k <= Len(s) THEN s[k] ELSE NUL
    <3>1. 0 \in Nat
      OBVIOUS
    <3> QED BY <1>2, <2>1, <3>1, OverFacts
  <2> HIDE DEF o
  <2>3. Len(o) = Len(t) /\ \A k \in 1 .. Len(o) : o[k] = t[k]
    BY <2>1, <2>2
  <2>4. o = t
    BY <2>2, <2>3, SeqEqual
  <2> QED BY <2>0, <2>4 DEF o
<1> QED BY <1>1, <1>2

-----------------------------------------------------------------------------
(* Types, and what each stream is.                                          *)

\* Numbers are elements.
LEMMA CardsAreElements == \A s \in Seq(Nat) : s \in Seq(Elements)
BY SeqMonotonic DEF Elements

\* What may be asked for.
LEMMA RequestsTyped ==
  ASSUME NEW d \in Requests
  PROVE  /\ d \in [mode : Modes, content : Seq(Elements), offset : Nat, size : Nat]
         /\ d.mode \in Reading => d.content = <<>> /\ d.size \in Spares
         /\ d.mode \in CardModes => d.content \in Seq(Nat) /\ d.size = Len(d.content)
         /\ d.mode # "ALTER_WRITE" => d.offset = 0
<1> DEFINE OK(r) == /\ r \in [mode : Modes, content : Seq(Elements), offset : Nat, size : Nat]
                    /\ r.mode \in Reading => r.content = <<>> /\ r.size \in Spares
                    /\ r.mode \in CardModes => r.content \in Seq(Nat) /\ r.size = Len(r.content)
                    /\ r.mode # "ALTER_WRITE" => r.offset = 0
<1>1. \A t \in Texts : t \in Seq(Elements)
  BY LogAssumption, SeqMonotonic DEF Elements
<1>2. \A g \in Girls : g \in Seq(Elements) /\ g \in Seq(Nat) /\ Len(g) \in Nat
  BY LogAssumption, CardsAreElements, LenProperties
<1>3. <<>> \in Seq(Elements)
  BY EmptySeq
<1>4. ASSUME NEW m \in {"INPUT_CHAR", "COVER_WRITE", "INPUT_STRING"}, NEW t \in Texts
      PROVE  OK(Request(m, t, 0, 0))
  BY <1>1 DEF Request, Modes, CardModes, Reading
<1>5. ASSUME NEW t \in Texts, NEW o \in Offsets
      PROVE  OK(Request("ALTER_WRITE", t, o, 0))
  BY <1>1, LogAssumption DEF Request, Modes, CardModes, Reading
<1>6. ASSUME NEW m \in {"INPUT_FORMAT", "INPUT_BINARY"}, NEW g \in Girls
      PROVE  OK(Request(m, g, 0, Len(g)))
  BY <1>2 DEF Request, Modes, CardModes, Reading
<1>7. ASSUME NEW m \in Reading, NEW n \in Spares
      PROVE  OK(Request(m, <<>>, 0, n))
  BY <1>3, LogAssumption DEF Request, Modes, CardModes, Reading
<1> HIDE DEF OK
<1>8. OK(d)
  BY <1>4, <1>5, <1>6, <1>7 DEF Requests
<1> QED BY <1>8 DEF OK

\* What is in a file.
LEMMA HeldTyped ==
  ASSUME LogTyped
  PROVE  /\ \A f \in Names : Held(f) \in Seq(Elements)
         /\ Held("GirlsInfo.txt") \in Seq(Nat)
<1> QED BY EmptySeq DEF LogTyped, Held

\* Text handed to a stream: the other files are not touched.
LEMMA FlushedFacts ==
  ASSUME LogTyped, NEW st \in Streams, Fits(st), NEW t \in Seq(Elements)
  PROVE  /\ Flushed(st, t) \in [Names -> Seq(Elements) \cup {Absent}]
         /\ \A f \in Names : f # st.name => Flushed(st, t)[f] = file[f]
         /\ Flushed(st, t)[st.name] = IF st.kind = "a" THEN Held(st.name) \o t
                                      ELSE Over(Held(st.name), st.pos, t)
         /\ Flushed(st, t)[st.name] \in Seq(Elements)
         /\ (st.mode = "INPUT_FORMAT" => t \in Seq(Nat)) /\ (st.mode = "READ_FORMAT" => t = <<>>)
              => Flushed(st, t)["GirlsInfo.txt"] \in Seq(Nat) \cup {Absent}
<1> DEFINE n == st.name
           new == IF st.kind = "a" THEN Held(n) \o t ELSE Over(Held(n), st.pos, t)
<1>1. n \in Names /\ st.pos \in Nat /\ Held(n) \in Seq(Elements)
  BY HeldTyped DEF Streams
<1>2. new \in Seq(Elements)
  BY <1>1, OverFacts, ConcatProperties
<1>3. Flushed(st, t) = [file EXCEPT ![n] = new]
  BY DEF Flushed
<1>4. ASSUME n = "GirlsInfo.txt", st.mode = "INPUT_FORMAT" => t \in Seq(Nat),
             st.mode = "READ_FORMAT" => t = <<>>
      PROVE  new \in Seq(Nat)
  <2>1. st.mode \in {"INPUT_FORMAT", "READ_FORMAT"}
    BY <1>4 DEF Fits, NameOf, Letter, Streams, Modes
  <2>2. CASE st.mode = "INPUT_FORMAT"
    <3>1. st.kind = "a"
      BY <2>2 DEF Fits, fopenMode
    <3> QED BY <1>4, <2>2, <3>1, HeldTyped, ConcatProperties
  <2>3. CASE st.mode = "READ_FORMAT"
    <3>1. st.kind = "r"
      BY <2>3 DEF Fits, fopenMode
    <3> QED BY <1>1, <1>4, <2>3, <3>1, HeldTyped, OverFacts
  <2> QED BY <2>1, <2>2, <2>3
<1> HIDE DEF new
<1>5. ASSUME st.mode = "INPUT_FORMAT" => t \in Seq(Nat), st.mode = "READ_FORMAT" => t = <<>>
      PROVE  Flushed(st, t)["GirlsInfo.txt"] \in Seq(Nat) \cup {Absent}
  BY <1>1, <1>2, <1>3, <1>4, <1>5 DEF LogTyped, Names
<1> QED BY <1>1, <1>2, <1>3, <1>5 DEF LogTyped, new

\* No stream.
LEMMA NoStream == /\ NULL.mode = "" /\ NULL.name = "" /\ NULL.pend = <<>> /\ NULL.kind = "NULL"
                  /\ NULL \notin Streams /\ "" \notin Names /\ "" \notin Modes
BY DEF NULL, Streams, Names, Letter, Modes

\* The function of a mode runs on a stream of that mode.
LEMMA RunningFacts ==
  ASSUME LogInv, NEW mode, Running(mode)
  PROVE  /\ pc = "run" /\ data.mode = mode /\ stream \in Streams /\ stream # NULL
         /\ Fits(stream) /\ stream.mode = mode /\ stream.pos = Seek(data)
         /\ mode \in Modes /\ stream.name = NameOf(mode) /\ stream.name \in Names
         /\ stream.kind = fopenMode[mode]
BY DEF LogInv, LogTyped, StreamsFit, Running, Fits, Streams

\* What an action that leaves the files, the streams and the caller's side alone keeps.
LEMMA OnlyTheBuffer ==
  ASSUME LogInv, pc = "run", pc' = "idle", UNCHANGED <<file, stream, i, at, callerVars>>,
         buffer' \in Seq(Elements)
  PROVE  LogInv'
<1> USE DEF callerVars
<1>1. CallTyped'
  BY DEF LogInv, CallTyped
<1>2. LogTyped'
  BY DEF LogInv, LogTyped
<1>3. StreamsFit'
  BY DEF LogInv, StreamsFit, Fits, Seek
<1> QED BY <1>1, <1>2, <1>3 DEF LogInv

\* What is left behind is a stream that held text.
LEMMA LeftBehindFacts ==
  ASSUME LogInv
  PROVE  /\ leaked \o LeftBehind \in Seq(Streams)
         /\ \A k \in 1 .. Len(leaked \o LeftBehind) :
               Fits((leaked \o LeftBehind)[k]) /\ (leaked \o LeftBehind)[k].mode \in Buffered
         /\ LeftBehind = <<>> => leaked \o LeftBehind = leaked
         /\ LeftBehind # <<>> => /\ stream \in Streams /\ stream.mode \in Buffered
                                 /\ LeftBehind = <<stream>>
                                 /\ leaked \o LeftBehind = Append(leaked, stream)
<1>0. leaked \in Seq(Streams) /\ \A k \in 1 .. Len(leaked) : Fits(leaked[k]) /\ leaked[k].mode \in Buffered
  BY DEF LogInv, LogTyped, StreamsFit
<1>1. CASE stream.pend = <<>>
  <2>1. LeftBehind = <<>> /\ leaked \o LeftBehind = leaked
    BY <1>0, <1>1, ConcatEmptySeq DEF LeftBehind
  <2> QED BY <1>0, <2>1
<1>2. CASE stream.pend # <<>>
  <2>1. stream \in Streams /\ Fits(stream) /\ stream.mode \in Buffered
    BY <1>2, NoStream DEF LogInv, LogTyped, StreamsFit, Fits
  <2>2. LeftBehind = <<stream>> /\ LeftBehind # <<>>
    BY <1>2 DEF LeftBehind
  <2>3. leaked \o <<stream>> = Append(leaked, stream)
    BY <1>0, <2>1
  <2> DEFINE ls == Append(leaked, stream)
  <2>4. /\ ls \in Seq(Streams) /\ Len(ls) = Len(leaked) + 1 /\ Len(leaked) \in Nat
        /\ \A k \in 1 .. Len(leaked) : ls[k] = leaked[k]
        /\ ls[Len(leaked) + 1] = stream
    BY <1>0, <2>1, AppendFacts
  <2> HIDE DEF ls
  <2>5. \A k \in 1 .. Len(ls) : k \in 1 .. Len(leaked) \/ k = Len(leaked) + 1
    BY <2>4
  <2>6. \A k \in 1 .. Len(ls) : Fits(ls[k]) /\ ls[k].mode \in Buffered
    BY <1>0, <2>1, <2>4, <2>5
  <2> QED BY <2>1, <2>2, <2>3, <2>4, <2>6 DEF ls
<1> QED BY <1>1, <1>2

\* A call: its stream is the one of its mode.
LEMMA CallKeepsTypes ==
  ASSUME LogInv, logModuleExecute
  PROVE  LogInv'
<1> PICK d \in Requests :
        LET f == NameOf(d.mode)  kind == fopenMode[d.mode]
            fails == kind \in {"r", "r+"} /\ file[f] = Absent
        IN /\ pc = "idle"
           /\ data' = IF d.mode \in Reading THEN [d EXCEPT !.size = @ + Len(Held(f))] ELSE d
           /\ stream' = IF fails THEN NULL
                        ELSE [kind |-> kind, name |-> f, mode |-> d.mode, pos |-> Seek(d),
                              pend |-> <<>>]
           /\ leaked' = leaked \o LeftBehind
           /\ file' = [file EXCEPT ![f] = IF fails THEN Absent
                                          ELSE IF kind = "w" THEN <<>> ELSE Held(f)]
           /\ meant' = IF fails THEN meant
                       ELSE [meant EXCEPT ![f] = Meant(d, @)]
           /\ late' = LET l == IF LeftBehind # <<>> /\ stream.mode \in Buffered /\ late = "no"
                               THEN "tail" ELSE late
                      IN IF l = "tail" /\ d.mode \in {"COVER_WRITE", "ALTER_WRITE", "INPUT_BINARY"}
                         THEN "mixed" ELSE l
           /\ pc' = "run" /\ i' = 0 /\ at' = 0 /\ buffer' = <<>>
  BY DEF logModuleExecute
<1> DEFINE f == NameOf(d.mode)
           kind == fopenMode[d.mode]
           fails == kind \in {"r", "r+"} /\ file[f] = Absent
<1>1. /\ d \in [mode : Modes, content : Seq(Elements), offset : Nat, size : Nat]
      /\ d.mode \in Reading => d.content = <<>> /\ d.size \in Spares
      /\ d.mode \in CardModes => d.content \in Seq(Nat) /\ d.size = Len(d.content)
      /\ d.mode # "ALTER_WRITE" => d.offset = 0
  BY RequestsTyped
<1>2. f \in Names /\ kind \in {"a", "r", "w", "r+"}
  BY <1>1 DEF NameOf, Names, fopenMode, Modes
<1>3. Held(f) \in Seq(Elements) /\ Len(Held(f)) \in Nat
  BY <1>2, HeldTyped, LenProperties DEF LogInv
<1>4. CallTyped' /\ data'.mode = d.mode /\ data'.content = d.content /\ Seek(d)' = Seek(d)
      /\ data'.offset = d.offset
  <2>1. data' \in [mode : Modes, content : Seq(Elements), offset : Nat, size : Nat]
        /\ data'.mode = d.mode /\ data'.content = d.content /\ data'.offset = d.offset
        /\ (d.mode \notin Reading => data'.size = d.size)
    <3> DEFINE n == Len(Held(f))
    <3>1. n \in Nat
      BY <1>3
    <3>2. data' = IF d.mode \in Reading THEN [d EXCEPT !.size = @ + n] ELSE d
      OBVIOUS
    <3> HIDE DEF n, f
    <3>3. CASE d.mode \in Reading
      <4>1. data' = [d EXCEPT !.size = d.size + n] /\ d.size + n \in Nat
        BY <1>1, <3>1, <3>2, <3>3
      <4> QED BY <1>1, <3>3, <4>1
    <3>4. CASE d.mode \notin Reading
      BY <1>1, <3>2, <3>4
    <3> QED BY <3>3, <3>4
  <2>2. CardModes \cap Reading = {}
    BY DEF CardModes, Reading
  <2> QED BY <1>1, <2>1, <2>2 DEF CallTyped, Seek
<1>5. stream' = NULL \/ (stream' \in Streams /\ Fits(stream') /\ stream'.mode = d.mode
                         /\ stream'.pos = Seek(d) /\ stream'.pend = <<>>)
  <2>1. CASE fails
    BY <2>1
  <2>2. CASE ~fails
    <3>1. stream' = [kind |-> kind, name |-> f, mode |-> d.mode, pos |-> Seek(d), pend |-> <<>>]
      BY <2>2
    <3>2. Seek(d) \in Nat /\ (d.mode # "ALTER_WRITE" => Seek(d) = 0)
      BY <1>1 DEF Seek
    <3>3. <<>> \in Seq(Elements) /\ <<>> \in Seq(Nat)
      BY EmptySeq
    <3>4. d.mode \in Modes
      BY <1>1
    <3> HIDE DEF f, kind
    <3>5. PICK e : e = <<>>
      OBVIOUS
    <3>6. stream' \in Streams
      <4> DEFINE p == Seek(d)
                 m == d.mode
      <4>1. stream' = [kind |-> kind, name |-> f, mode |-> m, pos |-> p, pend |-> e]
        BY <3>1, <3>5
      <4>2. p \in Nat /\ e \in Seq(Elements) /\ m \in Modes
        BY <3>2, <3>3, <3>4, <3>5
      <4> HIDE DEF p, m
      <4> QED BY <1>2, <4>1, <4>2 DEF Streams
    <3>7. /\ stream'.kind = kind /\ stream'.name = f /\ stream'.mode = d.mode
          /\ stream'.pos = Seek(d) /\ stream'.pend = <<>>
      BY <3>1
    <3>8. Fits(stream')
      BY <3>2, <3>3, <3>7 DEF Fits, f, kind
    <3> QED BY <3>6, <3>7, <3>8
  <2> QED BY <2>1, <2>2
<1>6. LogTyped'
  <2>1. file' \in [Names -> Seq(Elements) \cup {Absent}]
        /\ file'["GirlsInfo.txt"] \in Seq(Nat) \cup {Absent}
    <3>1. \A g \in Names : g # f => file'[g] = file[g]
      BY <1>2 DEF LogInv, LogTyped
    <3>2. file'[f] \in {Absent, <<>>, Held(f)}
      BY <1>2 DEF LogInv, LogTyped
    <3>3. file' \in [Names -> Seq(Elements) \cup {Absent}]
      BY <1>2, <1>3, EmptySeq DEF LogInv, LogTyped
    <3>4. f = "GirlsInfo.txt" => file'[f] \in Seq(Nat) \cup {Absent}
      BY <3>2, HeldTyped, EmptySeq DEF LogInv
    <3> QED BY <3>1, <3>3, <3>4 DEF LogInv, LogTyped, Names
  <2>2. meant' \in [Names -> Seq(Elements)]
    <3>1. meant[f] \in Seq(Elements)
      BY <1>2 DEF LogInv, LogTyped
    <3>2. Meant(d, meant[f]) \in Seq(Elements)
      BY <1>1, <3>1, OverFacts, ConcatProperties DEF Meant
    <3> QED BY <1>2, <3>2 DEF LogInv, LogTyped
  <2>3. leaked' \in Seq(Streams)
    BY LeftBehindFacts
  <2>4. late' \in {"no", "tail", "mixed"}
    BY DEF LogInv, LogTyped
  <2>5. buffer' \in Seq(Elements) /\ i' \in Nat /\ at' \in Nat
    BY EmptySeq
  <2> QED BY <1>5, <2>1, <2>2, <2>3, <2>4, <2>5 DEF LogTyped
<1>7. StreamsFit'
  <2>1. stream' # NULL => Fits(stream') /\ stream'.mode = data'.mode /\ stream'.pos = Seek(data')
    BY <1>4, <1>5 DEF Seek
  <2>2. \A k \in 1 .. Len(leaked') : Fits(leaked'[k]) /\ leaked'[k].mode \in Buffered
    BY LeftBehindFacts
  <2>3. late' = "no" => leaked' = <<>>
    BY LeftBehindFacts DEF LogInv, StreamsFit
  <2>4. stream'.mode = "INPUT_CHAR" => i' <= Len(data'.content) /\ Len(stream'.pend) = 0
    <3>1. Len(data'.content) \in Nat
      BY <1>1, <1>4, LenProperties
    <3>2. stream'.pend = <<>>
      BY <1>5, NoStream
    <3>3. Len(<<>>) = 0
      OBVIOUS
    <3> QED BY <3>1, <3>2, <3>3
  <2>5. Fits(stream)' <=> Fits(stream')
    BY DEF Fits
  <2>6. \A k : Fits(leaked[k])' <=> Fits(leaked'[k])
    BY DEF Fits
  <2>7. Seek(data)' = Seek(data')
    BY DEF Seek
  <2>8. stream'.mode = "INPUT_BINARY" => stream'.pend = <<>>
    BY <1>5, NoStream
  <2>9. pc' = "run"
    OBVIOUS
  <2> QED BY <2>1, <2>2, <2>3, <2>4, <2>5, <2>6, <2>7, <2>8, <2>9 DEF StreamsFit
<1> QED BY <1>4, <1>6, <1>7 DEF LogInv

\* Another text in a stream.
LEMMA RefilledFacts ==
  ASSUME NEW st \in Streams, Fits(st), NEW t \in Seq(Elements),
         st.mode \in Buffered \/ t = <<>>, st.mode \in CardModes => t \in Seq(Nat)
  PROVE  LET new == [st EXCEPT !.pend = t]
         IN /\ new \in Streams /\ Fits(new) /\ new # NULL
            /\ new.kind = st.kind /\ new.name = st.name /\ new.mode = st.mode
            /\ new.pos = st.pos /\ new.pend = t
<1> DEFINE new == [st EXCEPT !.pend = t]
<1>1. /\ new \in Streams
      /\ new.kind = st.kind /\ new.name = st.name /\ new.mode = st.mode
      /\ new.pos = st.pos /\ new.pend = t
  BY DEF Streams
<1> HIDE DEF new
<1>2. Fits(new)
  BY <1>1 DEF Fits
<1>3. new # NULL
  BY <1>1, NoStream
<1> QED BY <1>1, <1>2, <1>3 DEF new

\* Every fourth character empties the stream.
LEMMA EveryFourth ==
  ASSUME NEW n \in Nat
  PROVE  /\ n % 4 = 0 => (n + 1 + 3) % 4 = 0
         /\ n % 4 # 0 => (n + 1 + 3) % 4 = ((n + 3) % 4) + 1
         /\ (n + 3) % 4 \in 0 .. 3
OBVIOUS

\* A character.
LEMMA CharKeepsTypes ==
  ASSUME LogInv, writeCharInfoToFile
  PROVE  LogInv'
<1>0. Running("INPUT_CHAR") /\ UNCHANGED <<at, buffer, leaked, data, calls, meant, late>>
  BY DEF writeCharInfoToFile, callerVars
<1>1. /\ pc = "run" /\ data.mode = "INPUT_CHAR" /\ stream \in Streams /\ stream # NULL
      /\ Fits(stream) /\ stream.mode = "INPUT_CHAR" /\ stream.pos = Seek(data)
      /\ stream.kind = "a" /\ stream.name = Letter
  BY <1>0, RunningFacts DEF fopenMode, NameOf
<1>2. data.content \in Seq(Elements) /\ Len(data.content) \in Nat /\ i \in Nat
      /\ i <= Len(data.content) /\ Len(stream.pend) = IF i = 0 THEN 0 ELSE (i + 3) % 4
  BY <1>1, LenProperties DEF LogInv, CallTyped, LogTyped, StreamsFit
<1>c. CallTyped'
  BY <1>0 DEF LogInv, CallTyped
<1>3. CASE i = Len(data.content)
  <2>1. pc' = "idle" /\ UNCHANGED <<file, stream, i>>
    BY <1>3 DEF writeCharInfoToFile, Return
  <2>2. LogTyped' /\ StreamsFit'
    BY <1>0, <1>1, <2>1 DEF LogInv, LogTyped, StreamsFit, Fits, Seek
  <2> QED BY <1>c, <2>2 DEF LogInv
<1>4. CASE i # Len(data.content)
  <2> DEFINE t == Append(stream.pend, data.content[i + 1])
  <2>1. i' = i + 1 /\ pc' = pc
        /\ IF i % 4 = 0 THEN file' = Flushed(stream, t) /\ stream' = [stream EXCEPT !.pend = <<>>]
           ELSE UNCHANGED file /\ stream' = [stream EXCEPT !.pend = t]
    BY <1>4 DEF writeCharInfoToFile
  <2>2. i + 1 \in 1 .. Len(data.content) /\ data.content[i + 1] \in Elements
    BY <1>2, <1>4, ElementOfSeq
  <2>3. t \in Seq(Elements) /\ Len(t) = Len(stream.pend) + 1 /\ Len(stream.pend) \in Nat
    BY <1>1, <2>2, AppendFacts DEF Streams
  <2> HIDE DEF t
  <2>4. "INPUT_CHAR" \in Buffered /\ "INPUT_CHAR" \notin CardModes /\ <<>> \in Seq(Elements)
    BY EmptySeq DEF Buffered, CardModes
  <2>5. \E new \in {<<>>, t} : /\ stream' = [stream EXCEPT !.pend = new]
                               /\ i % 4 = 0 => new = <<>>
                               /\ i % 4 # 0 => new = t
    BY <2>1
  <2>6. PICK new \in Seq(Elements) : /\ stream' = [stream EXCEPT !.pend = new]
                                     /\ i % 4 = 0 => new = <<>>
                                     /\ i % 4 # 0 => new = t
    BY <2>3, <2>4, <2>5
  <2>7. /\ stream' \in Streams /\ Fits(stream') /\ stream' # NULL
        /\ stream'.kind = stream.kind /\ stream'.name = stream.name /\ stream'.mode = stream.mode
        /\ stream'.pos = stream.pos /\ stream'.pend = new
    BY <1>1, <2>4, <2>6, RefilledFacts
  <2>8. Len(new) = (i' + 3) % 4 /\ i' # 0 /\ i' <= Len(data.content) /\ i' \in Nat
    <3>1. i % 4 = 0 => Len(new) = 0
      BY <2>6
    <3>2. i % 4 # 0 => i # 0
      OBVIOUS
    <3>3. CASE i % 4 = 0
      <4>1. (i' + 3) % 4 = 0 /\ Len(new) = 0
        BY <1>2, <2>1, <3>1, <3>3, EveryFourth
      <4> QED BY <1>2, <2>1, <2>2, <4>1
    <3>4. CASE i % 4 # 0
      <4>1. (i' + 3) % 4 = ((i + 3) % 4) + 1 /\ i # 0
        BY <1>2, <2>1, <3>4, EveryFourth
      <4>2. Len(new) = (i' + 3) % 4
        BY <1>2, <2>3, <2>6, <3>4, <4>1
      <4> QED BY <1>2, <2>1, <2>2, <4>2
    <3> QED BY <3>3, <3>4
  <2>9. /\ file' \in [Names -> Seq(Elements) \cup {Absent}]
        /\ file'["GirlsInfo.txt"] \in Seq(Nat) \cup {Absent}
    <3>1. Flushed(stream, t) \in [Names -> Seq(Elements) \cup {Absent}]
          /\ Flushed(stream, t)["GirlsInfo.txt"] \in Seq(Nat) \cup {Absent}
      BY <1>1, <2>3, FlushedFacts DEF LogInv
    <3> QED BY <2>1, <3>1 DEF LogInv, LogTyped
  <2>10. LogTyped'
    BY <1>0, <2>1, <2>7, <2>8, <2>9 DEF LogInv, LogTyped
  <2>11. StreamsFit'
    <3>1. Fits(stream)' /\ stream'.pos = Seek(data)' /\ stream'.mode = data'.mode
      BY <1>0, <1>1, <2>7 DEF Fits, Seek
    <3>2. \A k \in 1 .. Len(leaked') : Fits(leaked[k])' /\ leaked'[k].mode \in Buffered
      BY <1>0 DEF LogInv, StreamsFit, Fits
    <3>3. pc' = "run"
      BY <1>1, <2>1
    <3> QED BY <1>0, <1>1, <2>7, <2>8, <3>1, <3>2, <3>3 DEF LogInv, StreamsFit
  <2> QED BY <1>c, <2>10, <2>11 DEF LogInv
<1> QED BY <1>3, <1>4

\* A text that is written at once.
LEMMA FlushKeepsTypes ==
  ASSUME LogInv, writeFlushed
  PROVE  LogInv'
<1>1. PICK mode \in {"COVER_WRITE", "INPUT_STRING", "ALTER_WRITE", "INPUT_FORMAT"} : Running(mode)
  BY DEF writeFlushed
<1>2. file' = Flushed(stream, data.content) /\ pc' = "idle" /\ pc = "run"
      /\ UNCHANGED <<stream, i, at, buffer, leaked, data, calls, meant, late>>
  BY <1>1 DEF writeFlushed, Return, callerVars, Running
<1>3. stream \in Streams /\ Fits(stream) /\ stream.mode = mode /\ data.mode = mode
      /\ data.content \in Seq(Elements) /\ (mode = "INPUT_FORMAT" => data.content \in Seq(Nat))
  BY <1>1, RunningFacts DEF LogInv, CallTyped, CardModes
<1>4. /\ file' \in [Names -> Seq(Elements) \cup {Absent}]
      /\ file'["GirlsInfo.txt"] \in Seq(Nat) \cup {Absent}
  BY <1>2, <1>3, FlushedFacts DEF LogInv
<1>5. CallTyped' /\ LogTyped'
  BY <1>2, <1>4 DEF LogInv, CallTyped, LogTyped
<1>6. StreamsFit'
  BY <1>2 DEF LogInv, StreamsFit, Fits, Seek
<1> QED BY <1>5, <1>6 DEF LogInv

\* The cards that stay in the stream.
LEMMA CardsKeepTypes ==
  ASSUME LogInv, writeBianryInfoIntoFile
  PROVE  LogInv'
<1>0. Running("INPUT_BINARY")
  BY DEF writeBianryInfoIntoFile
<1>1. stream' = [stream EXCEPT !.pend = data.content] /\ pc' = "idle" /\ pc = "run"
      /\ UNCHANGED <<file, i, at, buffer, leaked, data, calls, meant, late>>
  BY <1>0 DEF writeBianryInfoIntoFile, Return, callerVars, Running
<1>2. stream \in Streams /\ Fits(stream) /\ stream.mode = "INPUT_BINARY"
      /\ data.mode = "INPUT_BINARY" /\ stream.pos = Seek(data)
  BY <1>0, RunningFacts
<1>3. data.content \in Seq(Elements) /\ data.content \in Seq(Nat) /\ "INPUT_BINARY" \in Buffered
  BY <1>2 DEF LogInv, CallTyped, CardModes, Buffered
<1>4. /\ stream' \in Streams /\ Fits(stream') /\ stream' # NULL
      /\ stream'.kind = stream.kind /\ stream'.name = stream.name /\ stream'.mode = stream.mode
      /\ stream'.pos = stream.pos /\ stream'.pend = data.content
  BY <1>1, <1>2, <1>3, RefilledFacts
<1>5. CallTyped' /\ LogTyped'
  BY <1>1, <1>4 DEF LogInv, CallTyped, LogTyped
<1>6. StreamsFit'
  <2>1. Fits(stream)' /\ stream'.pos = Seek(data)' /\ stream'.mode = data'.mode
    BY <1>1, <1>2, <1>4 DEF Fits, Seek
  <2>2. \A k \in 1 .. Len(leaked') : Fits(leaked[k])' /\ leaked'[k].mode \in Buffered
    BY <1>1 DEF LogInv, StreamsFit, Fits
  <2> QED BY <1>1, <1>2, <1>4, <2>1, <2>2 DEF LogInv, StreamsFit
<1> QED BY <1>5, <1>6 DEF LogInv

-----------------------------------------------------------------------------
(* What is read.                                                            *)

\* A set of integers that is bounded below has a least element.
LEMMA LeastExists ==
  ASSUME NEW S \in SUBSET Int, S # {}, NEW b \in Int, \A x \in S : x >= b
  PROVE  /\ Min(S) \in S
         /\ \A x \in S : Min(S) <= x
<1> DEFINE T == {n \in Nat : (\E x \in S : x <= b + n) => \E x \in S : \A y \in S : x <= y}
<1>1. 0 \in T
  OBVIOUS
<1>2. ASSUME NEW n \in Nat, n \in T
      PROVE  n + 1 \in T
  <2> SUFFICES ASSUME NEW x \in S, x <= b + n + 1, ~ \E z \in S : z <= b + n
               PROVE  \E z \in S : \A y \in S : z <= y
    BY <1>2
  <2>1. \A y \in S : x <= y
    OBVIOUS
  <2> QED BY <2>1
<1>3. Nat \subseteq T
  <2> HIDE DEF T
  <2> QED BY <1>1, <1>2, NatSetInduction
<1>4. PICK x \in S : TRUE
  OBVIOUS
<1>5. x - b \in Nat /\ x <= b + (x - b)
  OBVIOUS
<1>6. \E z \in S : \A y \in S : z <= y
  BY <1>3, <1>4, <1>5
<1> QED BY <1>6 DEF Min

\* A line ends where the room, the text or the line does: at the first of these.
LEMMA LeastOfLine ==
  ASSUME NEW a \in Int, NEW b \in Nat, NEW E \in SUBSET (1 .. b)
  PROVE  /\ Min({a, b} \cup E) \in {a, b} \cup E /\ Min({a, b} \cup E) \in Int
         /\ Min({a, b} \cup E) <= a /\ Min({a, b} \cup E) <= b
         /\ \A x \in E : Min({a, b} \cup E) <= x
<1> DEFINE S == {a, b} \cup E
<1>1. S \in SUBSET Int /\ S # {} /\ a \in S /\ b \in S
  OBVIOUS
<1>2. \A x \in S : x = a \/ x >= 0
  OBVIOUS
<1>3. E \subseteq S
  OBVIOUS
<1> HIDE DEF S
<1>4. \E c \in Int : \A x \in S : x >= c
  <2>1. CASE a >= 0
    BY <1>1, <1>2, <2>1
  <2>2. CASE a < 0
    BY <1>1, <1>2, <2>2
  <2> QED BY <2>1, <2>2
<1>5. Min(S) \in S /\ \A x \in S : Min(S) <= x
  BY <1>1, <1>4, LeastExists
<1> QED BY <1>1, <1>3, <1>5 DEF S

\* The smaller of two numbers.
LEMMA SmallerOfTwo ==
  ASSUME NEW a \in Int, NEW b \in Int
  PROVE  Min({a, b}) = IF a < b THEN a ELSE b
<1> DEFINE m == IF a < b THEN a ELSE b
<1>1. m \in {a, b} /\ \A y \in {a, b} : m <= y
  OBVIOUS
<1>2. \A x \in {a, b} : (\A y \in {a, b} : x <= y) => x = m
  OBVIOUS
<1> HIDE DEF m
<1>3. Min({a, b}) = m
  BY <1>1, <1>2 DEF Min
<1> QED BY <1>3 DEF m

\* A part of a sequence.
LEMMA PartFacts ==
  ASSUME NEW S, NEW s \in Seq(S), NEW a \in Nat, a >= 1, NEW b \in Int, b <= Len(s)
  PROVE  /\ SubSeq(s, a, b) \in Seq(S)
         /\ Len(SubSeq(s, a, b)) = IF a <= b THEN b - a + 1 ELSE 0
         /\ \A k \in 1 .. Len(SubSeq(s, a, b)) : SubSeq(s, a, b)[k] = s[a + k - 1]
<1>1. Len(s) \in Nat /\ \A k \in 1 .. Len(s) : s[k] \in S
  BY LenProperties, ElementOfSeq
<1>2. \A k \in a .. b : s[k] \in S
  BY <1>1
<1>3. /\ SubSeq(s, a, b) \in Seq(S)
      /\ Len(SubSeq(s, a, b)) = IF a <= b THEN b - a + 1 ELSE 0
      /\ \A k \in 1 .. b - a + 1 : SubSeq(s, a, b)[k] = s[a + k - 1]
  BY <1>2, SubSeqProperties
<1>4. \A k \in 1 .. Len(SubSeq(s, a, b)) : k \in 1 .. b - a + 1
  BY <1>3
<1> QED BY <1>3, <1>4

\* What is read first.
LEMMA FirstOfFacts ==
  ASSUME NEW S, NEW s \in Seq(S), NEW n \in Int
  PROVE  /\ FirstOf(s, n) \in Seq(S)
         /\ Len(FirstOf(s, n)) = IF n < 0 THEN 0 ELSE IF n < Len(s) THEN n ELSE Len(s)
         /\ \A k \in 1 .. Len(FirstOf(s, n)) : FirstOf(s, n)[k] = s[k]
         /\ n >= Len(s) => FirstOf(s, n) = s
<1>1. Len(s) \in Nat
  BY LenProperties
<1> DEFINE m == IF n < Len(s) THEN n ELSE Len(s)
<1>2. Min({Len(s), n}) = m
  BY <1>1, SmallerOfTwo
<1>3. m \in Int /\ m <= Len(s)
  BY <1>1
<1>4. FirstOf(s, n) = SubSeq(s, 1, m)
  BY <1>2 DEF FirstOf
<1>5. /\ FirstOf(s, n) \in Seq(S)
      /\ Len(FirstOf(s, n)) = IF 1 <= m THEN m - 1 + 1 ELSE 0
      /\ \A k \in 1 .. Len(FirstOf(s, n)) : FirstOf(s, n)[k] = s[1 + k - 1]
  <2> HIDE DEF m
  <2> QED BY <1>3, <1>4, PartFacts
<1>6. Len(FirstOf(s, n)) = IF n < 0 THEN 0 ELSE IF n < Len(s) THEN n ELSE Len(s)
  BY <1>1, <1>5
<1>7. \A k \in 1 .. Len(FirstOf(s, n)) : FirstOf(s, n)[k] = s[k]
  BY <1>1, <1>5, <1>6
<1>8. n >= Len(s) => FirstOf(s, n) = s
  <2> SUFFICES ASSUME n >= Len(s) PROVE FirstOf(s, n) = s
    OBVIOUS
  <2>1. Len(FirstOf(s, n)) = Len(s)
    BY <1>1, <1>6
  <2> QED BY <1>5, <1>7, <2>1, SeqEqual
<1> QED BY <1>5, <1>6, <1>7, <1>8

\* A sequence with a member left out.
LEMMA RemoveFacts ==
  ASSUME NEW S, NEW s \in Seq(S), NEW p \in 1 .. Len(s)
  PROVE  /\ RemoveAt(s, p) \in Seq(S)
         /\ Len(s) \in Nat /\ Len(RemoveAt(s, p)) = Len(s) - 1
         /\ \A k \in 1 .. Len(s) - 1 : RemoveAt(s, p)[k] = IF k < p THEN s[k] ELSE s[k + 1]
<1>0. Len(s) \in Nat
  BY LenProperties
<1> DEFINE l == SubSeq(s, 1, p - 1)
           r == SubSeq(s, p + 1, Len(s))
<1>1. /\ l \in Seq(S) /\ Len(l) = p - 1
      /\ \A k \in 1 .. Len(l) : l[k] = s[1 + k - 1]
  BY <1>0, PartFacts
<1>2. /\ r \in Seq(S) /\ Len(r) = Len(s) - p
      /\ \A k \in 1 .. Len(r) : r[k] = s[(p + 1) + k - 1]
  BY <1>0, PartFacts
<1> HIDE DEF l, r
<1>3. /\ l \o r \in Seq(S) /\ Len(l \o r) = Len(l) + Len(r)
      /\ \A k \in 1 .. Len(l) + Len(r) : (l \o r)[k] = IF k <= Len(l) THEN l[k] ELSE r[k - Len(l)]
  BY <1>1, <1>2, ConcatProperties
<1>4. RemoveAt(s, p) = l \o r
  BY DEF RemoveAt, l, r
<1> DEFINE q == l \o r
<1>5. q \in Seq(S) /\ Len(q) = Len(s) - 1
  BY <1>0, <1>1, <1>2, <1>3
<1>6. ASSUME NEW k \in 1 .. Len(s) - 1
      PROVE  q[k] = IF k < p THEN s[k] ELSE s[k + 1]
  <2>1. CASE k < p
    BY <1>0, <1>1, <1>2, <1>3, <2>1
  <2>2. CASE ~(k < p)
    <3>1. k - Len(l) \in 1 .. Len(r) /\ q[k] = r[k - Len(l)]
      BY <1>0, <1>1, <1>2, <1>3, <2>2
    <3>2. (p + 1) + (k - Len(l)) - 1 = k + 1
      BY <1>0, <1>1, <2>2
    <3> QED BY <1>2, <2>2, <3>1, <3>2
  <2> QED BY <2>1, <2>2
<1> HIDE DEF q
<1> QED BY <1>0, <1>4, <1>5, <1>6 DEF q

\* A text is as long as it is up to its first NUL.
LEMMA StrlenFacts ==
  ASSUME NEW S, NEW s \in Seq(S)
  PROVE  /\ strlen(s) \in 0 .. Len(s) /\ Len(s) \in Nat
         /\ \A k \in 1 .. strlen(s) : s[k] # NUL
         /\ strlen(s) # Len(s) => s[strlen(s) + 1] = NUL
<1> DEFINE T == {Len(s)} \cup {k - 1 : k \in {j \in DOMAIN s : s[j] = NUL}}
<1>1. Len(s) \in Nat /\ DOMAIN s = 1 .. Len(s)
  BY LenProperties
<1>2. /\ T \in SUBSET Int /\ T # {}
      /\ \A x \in T : x >= 0 /\ x <= Len(s)
      /\ \A k \in 1 .. Len(s) : s[k] = NUL => k - 1 \in T
      /\ \A x \in T : x # Len(s) => x + 1 \in 1 .. Len(s) /\ s[x + 1] = NUL
  BY <1>1
<1> HIDE DEF T
<1>3. Min(T) \in T /\ \A x \in T : Min(T) <= x
  <2>1. 0 \in Int /\ \A x \in T : x >= 0
    BY <1>2
  <2> QED BY <1>2, <2>1, LeastExists
<1>4. strlen(s) = Min(T)
  BY DEF strlen, T
<1> DEFINE m == Min(T)
<1> HIDE DEF m
<1>5. m \in T /\ (\A x \in T : m <= x) /\ strlen(s) = m
  BY <1>3, <1>4 DEF m
<1>6. m \in 0 .. Len(s)
  <2>1. m \in Int /\ m >= 0 /\ m <= Len(s)
    BY <1>2, <1>5
  <2> QED BY <1>1, <2>1
<1>7. ASSUME NEW k \in 1 .. m PROVE s[k] # NUL
  <2>1. k \in 1 .. Len(s)
    BY <1>1, <1>6
  <2>2. k - 1 \in T => m <= k - 1
    BY <1>5
  <2>3. ~(m <= k - 1)
    BY <1>6
  <2> QED BY <1>2, <2>1, <2>2, <2>3
<1> QED BY <1>1, <1>2, <1>5, <1>6, <1>7

\* A line of a text, and how much of it comes before a NUL.
LEMMA LineFacts ==
  ASSUME LogInv, stream \in Streams, NEW n \in Int
  PROVE  /\ Line(n) \in Seq(Elements) /\ Len(Line(n)) \in Nat
         /\ strlen(Line(n)) \in 0 .. Len(Line(n))
<1> DEFINE rest == SubSeq(text, i + 1, Len(text))
           ends == {k \in DOMAIN rest : rest[k] = EOL}
<1>1. text \in Seq(Elements) /\ i \in Nat /\ Len(text) \in Nat
  BY HeldTyped, LenProperties DEF LogInv, LogTyped, Streams, text
<1>2. rest \in Seq(Elements)
  <2>1. i + 1 \in Nat /\ i + 1 >= 1 /\ Len(text) <= Len(text)
    BY <1>1
  <2> QED BY <1>1, <2>1, PartFacts
<1> HIDE DEF rest
<1>3. Len(rest) \in Nat /\ DOMAIN rest = 1 .. Len(rest)
  BY <1>2, LenProperties
<1>e. ends \subseteq 1 .. Len(rest)
  BY <1>3
<1> HIDE DEF ends
<1> DEFINE S == {n - 1, Len(rest)} \cup ends
<1>4. n - 1 \in Int /\ Len(rest) \in Nat /\ ends \in SUBSET (1 .. Len(rest))
  BY <1>3, <1>e
<1>5. Min({n - 1, Len(rest)} \cup ends) \in Int
  BY <1>4, LeastOfLine
<1>6. Min(S) \in Int
  BY <1>5
<1> HIDE DEF S
<1>7. Line(n) = FirstOf(rest, Min(S))
  BY DEF Line, rest, S, ends
<1>8. Line(n) \in Seq(Elements)
  BY <1>2, <1>6, <1>7, FirstOfFacts
<1> QED BY <1>8, StrlenFacts, LenProperties

\* The letter is read character by character.
LEMMA ReadCharKeepsTypes ==
  ASSUME LogInv, readCharInfoFromFile
  PROVE  LogInv'
<1>1. Running("READ_CHAR")
  BY DEF readCharInfoFromFile, Read
<1>2. /\ buffer' = Over(FirstOf(text, data.size), EndOfText, <<NUL>>)
      /\ pc = "run" /\ pc' = "idle" /\ UNCHANGED <<file, stream, i, at, callerVars>>
  BY <1>1 DEF readCharInfoFromFile, Read, Return, Running
<1>3. text \in Seq(Elements) /\ Len(text) \in Nat /\ data.size \in Nat
  BY <1>1, RunningFacts, HeldTyped, LenProperties DEF LogInv, CallTyped, text
<1>4. EndOfText \in Nat /\ FirstOf(text, data.size) \in Seq(Elements)
  BY <1>3, FirstOfFacts DEF EndOfText
<1>5. <<NUL>> \in Seq(Elements)
  BY NulIsAnElement
<1>6. buffer' \in Seq(Elements)
  BY <1>2, <1>4, <1>5, OverFacts
<1> QED BY <1>2, <1>6, OnlyTheBuffer

\* Cards are read as they are.
LEMMA ReadBinaryKeepsTypes ==
  ASSUME LogInv, readBinaryInfoFromFile
  PROVE  LogInv'
<1>1. Running("READ_BINARY")
  BY DEF readBinaryInfoFromFile, Read
<1>2. /\ buffer' = FirstOf(text, data.size * data.size)
      /\ pc = "run" /\ pc' = "idle" /\ UNCHANGED <<file, stream, i, at, callerVars>>
  BY <1>1 DEF readBinaryInfoFromFile, Read, Return, Running
<1>3. text \in Seq(Elements) /\ data.size \in Nat
  BY <1>1, RunningFacts, HeldTyped DEF LogInv, CallTyped, text
<1>n. data.size * data.size \in Int
  BY <1>3
<1>4. buffer' \in Seq(Elements)
  BY <1>2, <1>3, <1>n, FirstOfFacts
<1> QED BY <1>2, <1>4, OnlyTheBuffer

\* Cards are read as they were printed.
LEMMA ReadFormatKeepsTypes ==
  ASSUME LogInv, readFormatStringInfoFromFile
  PROVE  LogInv'
<1>1. Running("READ_FORMAT")
  BY DEF readFormatStringInfoFromFile, Read
<1> DEFINE Stops(k) == k > Len(text) \/ \E j \in 1 .. Min({k - 1, Len(text)}) : text[j] > 99
           card(k) == IF Stops(k) THEN 0 ELSE Digits2(text[k])
<1>2. /\ buffer' = [k \in 1 .. data.size |-> card(k)]
      /\ pc = "run" /\ pc' = "idle" /\ UNCHANGED <<file, stream, i, at, callerVars>>
  BY <1>1 DEF readFormatStringInfoFromFile, Read, Return, Running
<1>3. text \in Seq(Nat) /\ Len(text) \in Nat /\ data.size \in Nat
  <2>1. stream.name = NameOf("READ_FORMAT") /\ data.size \in Nat
    BY <1>1, RunningFacts DEF LogInv, CallTyped
  <2>2. text \in Seq(Nat)
    BY <2>1, HeldTyped DEF LogInv, text, NameOf
  <2> QED BY <2>1, <2>2, LenProperties
<1>4. ASSUME NEW k \in 1 .. data.size PROVE card(k) \in Nat
  <2>1. CASE Stops(k)
    BY <2>1
  <2>2. CASE ~Stops(k)
    <3>1. k \in 1 .. Len(text)
      BY <1>3, <2>2
    <3>2. text[k] \in Nat
      BY <1>3, <3>1, ElementOfSeq
    <3>3. Digits2(text[k]) \in Nat
      BY <3>2 DEF Digits2
    <3> QED BY <2>2, <3>3
  <2> QED BY <2>1, <2>2
<1> HIDE DEF card
<1>5. [k \in 1 .. data.size |-> card(k)] \in Seq(Nat)
  BY <1>3, <1>4
<1>6. buffer' \in Seq(Elements)
  BY <1>2, <1>5, CardsAreElements
<1> QED BY <1>2, <1>6, OnlyTheBuffer

\* A round of the reader of lines.
LEMMA ReadLineKeepsTypes ==
  ASSUME LogInv, readStringInfoFromFile
  PROVE  LogInv'
<1> DEFINE n == data.size - at
           line == Line(n)
<1>1. Running("READ_STRING")
  BY DEF readStringInfoFromFile
<1>2. pc = "run" /\ stream \in Streams /\ stream.mode = "READ_STRING" /\ data.size \in Nat
      /\ at \in Nat /\ i \in Nat /\ buffer \in Seq(Elements)
  BY <1>1, RunningFacts DEF LogInv, LogTyped, CallTyped
<1>3. UNCHANGED <<file, stream, callerVars>>
      /\ IF n > 1 /\ i = Len(text) THEN pc' = "idle" /\ UNCHANGED <<i, at, buffer>>
         ELSE /\ buffer' = Over(buffer, at, Append(line, NUL))
              /\ i' = i + Len(line) /\ at' = at + strlen(line)
              /\ UNCHANGED pc
  BY DEF readStringInfoFromFile, Return
<1>4. CASE n > 1 /\ i = Len(text)
  BY <1>2, <1>3, <1>4, OnlyTheBuffer
<1>5. CASE ~(n > 1 /\ i = Len(text))
  <2>1. n \in Int
    BY <1>2
  <2> HIDE DEF n
  <2>2. line \in Seq(Elements) /\ Len(line) \in Nat /\ strlen(line) \in Nat
    <3>1. Line(n) \in Seq(Elements) /\ Len(Line(n)) \in Nat /\ strlen(Line(n)) \in 0 .. Len(Line(n))
      BY <1>2, <2>1, LineFacts
    <3> QED BY <3>1 DEF line
  <2> HIDE DEF line
  <2>3. Append(line, NUL) \in Seq(Elements)
    BY <2>2, NulIsAnElement, AppendFacts
  <2>4. buffer' \in Seq(Elements) /\ i' \in Nat /\ at' \in Nat
    <3>1. /\ buffer' = Over(buffer, at, Append(line, NUL))
          /\ i' = i + Len(line) /\ at' = at + strlen(line)
      BY <1>3, <1>5 DEF n
    <3>2. buffer' \in Seq(Elements)
      BY <1>2, <2>3, <3>1, OverFacts
    <3> QED BY <1>2, <2>2, <3>1, <3>2
  <2>5. CallTyped' /\ LogTyped'
    BY <1>3, <1>5, <2>4 DEF LogInv, CallTyped, LogTyped, callerVars
  <2>6. StreamsFit'
    BY <1>2, <1>3, <1>5 DEF LogInv, StreamsFit, Fits, Seek, callerVars
  <2> QED BY <2>5, <2>6 DEF LogInv
<1> QED BY <1>4, <1>5

\* The stream is closed: what it holds is written.
LEMMA FreeKeepsTypes ==
  ASSUME LogInv, FileOperDataFree
  PROVE  LogInv'
<1>1. stream \in Streams /\ Fits(stream) /\ stream.pend \in Seq(Elements)
  BY DEF FileOperDataFree, LogInv, LogTyped, StreamsFit, Streams
<1>2. /\ stream.mode = "INPUT_FORMAT" => stream.pend \in Seq(Nat)
      /\ stream.mode = "READ_FORMAT" => stream.pend = <<>>
  BY <1>1 DEF Fits, CardModes, Buffered
<1>3. /\ Flushed(stream, stream.pend) \in [Names -> Seq(Elements) \cup {Absent}]
      /\ Flushed(stream, stream.pend)["GirlsInfo.txt"] \in Seq(Nat) \cup {Absent}
  BY <1>1, <1>2, FlushedFacts DEF LogInv
<1>4. CallTyped' /\ LogTyped'
  BY <1>3, EmptySeq DEF LogInv, CallTyped, LogTyped, FileOperDataFree
<1>5. StreamsFit'
  BY NoStream DEF LogInv, StreamsFit, Fits, FileOperDataFree
<1> QED BY <1>4, <1>5 DEF LogInv

\* A stream that was left open is flushed when the process ends.
LEMMA ExitFlushes ==
  ASSUME LogInv, NEW k \in DOMAIN leaked, pc = "exit"
  PROVE  /\ leaked[k] \in Streams /\ Fits(leaked[k]) /\ leaked[k].mode \in Buffered
         /\ leaked[k].pend \in Seq(Elements) /\ k \in 1 .. Len(leaked)
         /\ Flushed(leaked[k], leaked[k].pend) \in [Names -> Seq(Elements) \cup {Absent}]
         /\ Flushed(leaked[k], leaked[k].pend)["GirlsInfo.txt"] \in Seq(Nat) \cup {Absent}
<1>1. leaked \in Seq(Streams) /\ k \in 1 .. Len(leaked)
  BY LenProperties DEF LogInv, LogTyped
<1>2. leaked[k] \in Streams /\ Fits(leaked[k]) /\ leaked[k].mode \in Buffered
  BY <1>1, ElementOfSeq DEF LogInv, StreamsFit
<1>3. leaked[k].pend \in Seq(Elements) /\ leaked[k].mode \notin {"INPUT_FORMAT", "READ_FORMAT"}
  BY <1>2 DEF Streams, Buffered
<1> QED BY <1>1, <1>2, <1>3, FlushedFacts DEF LogInv

\* The end of the process.
LEMMA ExitKeepsTypes ==
  ASSUME LogInv, Exit
  PROVE  LogInv'
<1>1. stream = NULL /\ UNCHANGED <<stream, data, i, at, buffer, calls, meant, late>>
  BY DEF Exit
<1>2. CASE UNCHANGED <<file, leaked>> /\ pc' \in {"exit", "gone"} /\ (pc' = "gone" => leaked = <<>>)
  BY <1>1, <1>2, NoStream DEF LogInv, CallTyped, LogTyped, StreamsFit, Fits
<1>3. ASSUME pc = "exit", pc' = "exit",
             NEW k \in DOMAIN leaked, file' = Flushed(leaked[k], leaked[k].pend),
             leaked' = RemoveAt(leaked, k)
      PROVE  LogInv'
  <2>0. leaked \in Seq(Streams) /\ k \in 1 .. Len(leaked)
    BY LenProperties DEF LogInv, LogTyped
  <2>1. /\ leaked' \in Seq(Streams) /\ Len(leaked) \in Nat /\ Len(leaked') = Len(leaked) - 1
        /\ \A j \in 1 .. Len(leaked) - 1 : leaked'[j] = IF j < k THEN leaked[j] ELSE leaked[j + 1]
    BY <1>3, <2>0, RemoveFacts
  <2>2. \A j \in 1 .. Len(leaked') : Fits(leaked'[j]) /\ leaked'[j].mode \in Buffered
    <3> SUFFICES ASSUME NEW j \in 1 .. Len(leaked')
                 PROVE  Fits(leaked'[j]) /\ leaked'[j].mode \in Buffered
      OBVIOUS
    <3>1. \E h \in 1 .. Len(leaked) : leaked'[j] = leaked[h]
      BY <2>0, <2>1
    <3> QED BY <3>1 DEF LogInv, StreamsFit
  <2>3. late' # "no"
    BY <1>1, <2>0, <2>1 DEF LogInv, StreamsFit
  <2>4. LogTyped'
    BY <1>1, <1>3, <2>1, ExitFlushes DEF LogInv, LogTyped
  <2>5. StreamsFit'
    BY <1>1, <1>3, <2>2, <2>3, NoStream DEF LogInv, StreamsFit, Fits
  <2> QED BY <1>1, <2>4, <2>5 DEF LogInv, CallTyped
<1> QED BY <1>2, <1>3 DEF Exit

\* The program is started again.
LEMMA StartKeepsTypes ==
  ASSUME LogInv, StartAgain
  PROVE  LogInv'
BY EmptySeq, NoStream DEF StartAgain, LogInv, CallTyped, LogTyped, StreamsFit, Fits, Seek

\* At the start.
LEMMA LogStarts ==
  ASSUME Init
  PROVE  LogInv
<1>1. <<>> \in Seq(Elements) /\ <<>> \in Seq(Streams) /\ Len(<<>>) = 0
  BY EmptySeq
<1>2. data = Request("", <<>>, 0, 0) /\ "" \notin Reading \cup CardModes
  BY DEF Init, Reading, CardModes
<1>3. data.mode = "" /\ data.content = <<>> /\ data.offset = 0 /\ data.size = 0
      /\ data = [mode |-> "", content |-> <<>>, offset |-> 0, size |-> 0]
  BY <1>2 DEF Request
<1>4. CallTyped
  <2>1. PICK e : e = <<>>
    OBVIOUS
  <2>2. data = [mode |-> "", content |-> e, offset |-> 0, size |-> 0] /\ e \in Seq(Elements)
    BY <1>1, <1>3, <2>1
  <2>3. data \in [mode : Modes \cup {""}, content : Seq(Elements), offset : Nat, size : Nat]
    BY <2>2
  <2> QED BY <1>2, <1>3, <2>3 DEF CallTyped
<1>5. LogTyped
  BY <1>1 DEF Init, LogTyped, Names
<1>6. StreamsFit
  <2>1. stream = NULL /\ leaked = <<>> /\ stream.mode = "" /\ pc = "idle"
    BY NoStream DEF Init
  <2>2. 1 .. Len(leaked) = {}
    <3>1. Len(leaked) = 0
      BY <1>1, <2>1
    <3> QED BY <3>1
  <2> QED BY <2>1, <2>2 DEF StreamsFit
<1> QED BY <1>4, <1>5, <1>6 DEF LogInv

\* At every step.
LEMMA LogStep ==
  ASSUME LogInv, [Next]_vars
  PROVE  LogInv'
<1>1. CASE UNCHANGED vars
  <2>1. CallTyped' /\ LogTyped'
    BY <1>1 DEF vars, LogInv, CallTyped, LogTyped
  <2>2. StreamsFit'
    BY <1>1 DEF vars, LogInv, StreamsFit, Fits, Seek
  <2> QED BY <2>1, <2>2 DEF LogInv
<1>2. CASE EarlyReturn
  <2>1. buffer' \in Seq(Elements) /\ pc = "run" /\ pc' = "idle"
        /\ UNCHANGED <<file, stream, i, at, callerVars>>
    BY <1>2 DEF EarlyReturn, LogInv, LogTyped, Return
  <2> QED BY <2>1, OnlyTheBuffer
<1> QED BY <1>1, <1>2, CallKeepsTypes, CharKeepsTypes, FlushKeepsTypes, CardsKeepTypes,
           ReadCharKeepsTypes, ReadLineKeepsTypes, ReadFormatKeepsTypes, ReadBinaryKeepsTypes,
           FreeKeepsTypes, ExitKeepsTypes, StartKeepsTypes DEF Next, Functions

\* The files, the streams and the calls stay what they are; of a text that is written
\* character by character three characters are held at most (LogApi's lines 143-152).
LEMMA LogIsTyped == Spec => []LogInv
BY LogStarts, LogStep, PTL DEF Spec

-----------------------------------------------------------------------------
(* Counting.                                                                *)

\* One after another: what is counted adds up.
LEMMA CountInConcat ==
  ASSUME NEW S, NEW s \in Seq(S), NEW t \in Seq(S), NEW C
  PROVE  /\ CountIn(s, C) \in Nat /\ CountIn(t, C) \in Nat
         /\ CountIn(s \o t, C) = CountIn(s, C) + CountIn(t, C)
<1> DEFINE m == Len(s)
           n == Len(t)
           u == s \o t
           A == {k \in DOMAIN s : s[k] \in C}
           B == {k \in DOMAIN t : t[k] \in C}
           D == {k \in DOMAIN u : u[k] \in C}
           E == {k \in (m + 1) .. (m + n) : t[k - m] \in C}
<1>1. m \in Nat /\ n \in Nat /\ DOMAIN s = 1 .. m /\ DOMAIN t = 1 .. n
  BY LenProperties
<1>2. u \in Seq(S) /\ Len(u) = m + n
      /\ \A k \in 1 .. m + n : u[k] = IF k <= m THEN s[k] ELSE t[k - m]
  BY ConcatProperties
<1>3. DOMAIN u = 1 .. m + n
  BY <1>2, LenProperties
<1> HIDE DEF m, n, u
<1>4. IsFiniteSet(1 .. m) /\ IsFiniteSet(1 .. n) /\ IsFiniteSet((m + 1) .. (m + n))
  BY <1>1, FS_Interval
<1>5. IsFiniteSet(A) /\ IsFiniteSet(B) /\ IsFiniteSet(E)
  <2>1. A \subseteq 1 .. m /\ B \subseteq 1 .. n /\ E \subseteq (m + 1) .. (m + n)
    BY <1>1
  <2> HIDE DEF A, B, E
  <2> QED BY <1>4, <2>1, FS_Subset
<1>6. D = A \cup E /\ A \cap E = {}
  <2>1. ASSUME NEW k \in D PROVE k \in A \cup E
    BY <1>1, <1>2, <1>3
  <2>2. ASSUME NEW k \in A PROVE k \in D /\ k \notin E
    BY <1>1, <1>2, <1>3
  <2>3. ASSUME NEW k \in E PROVE k \in D
    <3>1. k \in 1 .. m + n /\ ~(k <= m)
      BY <1>1
    <3> QED BY <1>2, <1>3, <3>1
  <2> HIDE DEF A, D, E
  <2> QED BY <2>1, <2>2, <2>3
<1>7. Cardinality(E) = Cardinality(B)
  <2> DEFINE g == [k \in B |-> k + m]
  <2>1. \A k \in B : k + m \in E
    BY <1>1
  <2>2. \A j \in E : \E k \in B : j = k + m
    <3> SUFFICES ASSUME NEW j \in E PROVE \E k \in B : j = k + m
      OBVIOUS
    <3>1. j - m \in B /\ j = (j - m) + m
      BY <1>1
    <3> QED BY <3>1
  <2>3. \A k \in B, j \in B : k + m = j + m => k = j
    BY <1>1
  <2> HIDE DEF B, E
  <2>4. g \in Bijection(B, E)
    BY <2>1, <2>2, <2>3 DEF Bijection, Injection, Surjection, IsInjective
  <2>5. ExistsBijection(B, E)
    BY <2>4 DEF ExistsBijection
  <2> QED BY <1>5, <2>5, FS_Bijection
<1>8. Cardinality(D) = Cardinality(A) + Cardinality(E)
  <2> HIDE DEF A, D, E
  <2>1. Cardinality(A \cup E) = Cardinality(A) + Cardinality(E) - Cardinality(A \cap E)
    BY <1>5, FS_Union
  <2>2. Cardinality(A \cap E) = 0
    BY <1>6, FS_EmptySet
  <2>3. Cardinality(A) \in Nat /\ Cardinality(E) \in Nat
    BY <1>5, FS_CardinalityType
  <2> QED BY <1>6, <2>1, <2>2, <2>3
<1>9. Cardinality(A) \in Nat /\ Cardinality(B) \in Nat
  BY <1>5, FS_CardinalityType
<1>10. CountIn(s, C) = Cardinality(A) /\ CountIn(t, C) = Cardinality(B) /\ CountIn(u, C) = Cardinality(D)
  BY DEF CountIn
<1> HIDE DEF A, B, D, E
<1> QED BY <1>7, <1>8, <1>9, <1>10 DEF u

\* In an empty sequence there is nothing to count.
LEMMA CountInNone == \A C : CountIn(<<>>, C) = 0
<1> SUFFICES ASSUME NEW C PROVE CountIn(<<>>, C) = 0
  OBVIOUS
<1>1. PICK e : e = <<>>
  OBVIOUS
<1>2. e \in Seq({}) /\ Len(e) = 0
  BY <1>1, EmptySeq
<1>3. {k \in DOMAIN e : e[k] \in C} = {}
  BY <1>2, LenProperties
<1> QED BY <1>1, <1>3, FS_EmptySet DEF CountIn

\* A sum with one of its terms left out.
LEMMA TotalWithout ==
  ASSUME NEW m \in Nat, NEW f, \A k \in 1 .. m + 1 : f[k] \in Int,
         NEW p \in 1 .. m + 1, NEW h, \A k \in 1 .. m : h[k] = IF k < p THEN f[k] ELSE f[k + 1]
  PROVE  Total(f, 1 .. m + 1) = f[p] + Total(h, 1 .. m)
<1> DEFINE T == {n \in Nat : n <= m /\ p <= n + 1 => Total(f, 1 .. n + 1) = f[p] + Total(h, 1 .. n)}
<1>0. \A n \in Nat : IsFiniteSet(1 .. n)
  BY FS_Interval
<1>1. \A k \in 1 .. m : h[k] \in Int
  <2> SUFFICES ASSUME NEW k \in 1 .. m PROVE h[k] \in Int
    OBVIOUS
  <2>1. k \in 1 .. m + 1 /\ k + 1 \in 1 .. m + 1
    OBVIOUS
  <2> QED BY <2>1
<1>2. ASSUME NEW n \in Nat, n <= m, p = n + 1
      PROVE  Total(f, 1 .. n + 1) = f[p] + Total(h, 1 .. n)
  <2>1. \A k \in 1 .. n + 1 : f[k] \in Int
    BY <1>2
  <2>2. Total(f, 1 .. n + 1) = f[n + 1] + Total(f, 1 .. n)
    BY <2>1, TotalOfNext
  <2>3. \A k \in 1 .. n : h[k] = f[k] /\ f[k] \in Int
    <3> SUFFICES ASSUME NEW k \in 1 .. n PROVE h[k] = f[k] /\ f[k] \in Int
      OBVIOUS
    <3>1. k \in 1 .. m /\ k < p /\ k \in 1 .. n + 1
      BY <1>2
    <3> QED BY <2>1, <3>1
  <2>4. Total(h, 1 .. n) = Total(f, 1 .. n)
    BY <1>0, <2>3, TotalOfSame
  <2> QED BY <1>2, <2>2, <2>4
<1>3. 0 \in T
  <2>1. p <= 0 + 1 => p = 0 + 1
    OBVIOUS
  <2> QED BY <1>2, <2>1
<1>4. ASSUME NEW n \in Nat, n \in T
      PROVE  n + 1 \in T
  <2> SUFFICES ASSUME n + 1 <= m, p <= (n + 1) + 1
               PROVE  Total(f, 1 .. (n + 1) + 1) = f[p] + Total(h, 1 .. n + 1)
    OBVIOUS
  <2>1. CASE p = (n + 1) + 1
    BY <1>2, <2>1
  <2>2. CASE p # (n + 1) + 1
    <3>1. Total(f, 1 .. n + 1) = f[p] + Total(h, 1 .. n)
      BY <1>4, <2>2
    <3>2. (\A k \in 1 .. (n + 1) + 1 : f[k] \in Int) /\ \A k \in 1 .. n + 1 : h[k] \in Int
      BY <1>1
    <3>3. Total(f, 1 .. (n + 1) + 1) = f[(n + 1) + 1] + Total(f, 1 .. n + 1)
      <4>1. n + 1 \in Nat
        OBVIOUS
      <4> QED BY <3>2, <4>1, TotalOfNext
    <3>4. Total(h, 1 .. n + 1) = h[n + 1] + Total(h, 1 .. n) /\ Total(h, 1 .. n) \in Int
      BY <3>2, TotalOfNext
    <3>5. h[n + 1] = f[(n + 1) + 1]
      BY <2>2
    <3>6. h[n + 1] \in Int /\ f[p] \in Int
      BY <3>2
    <3> QED BY <3>1, <3>3, <3>4, <3>5, <3>6
  <2> QED BY <2>1, <2>2
<1>5. Nat \subseteq T
  <2> HIDE DEF T
  <2> QED BY <1>3, <1>4, NatSetInduction
<1> QED BY <1>5

\* What waits in the streams that were left open.
LEMMA LeftInFacts ==
  ASSUME NEW ls \in Seq(Streams), NEW C
  PROVE  /\ Len(ls) \in Nat /\ DOMAIN ls = 1 .. Len(ls)
         /\ \A k \in 1 .. Len(ls) :
               /\ ls[k] \in Streams /\ LeftIn(ls, C)[k] \in Nat
               /\ LeftIn(ls, C)[k] = IF ls[k].name = Letter THEN CountIn(ls[k].pend, C) ELSE 0
         /\ Total(LeftIn(ls, C), 1 .. Len(ls)) \in Int
<1>1. Len(ls) \in Nat /\ DOMAIN ls = 1 .. Len(ls) /\ \A k \in 1 .. Len(ls) : ls[k] \in Streams
  BY LenProperties, ElementOfSeq
<1>2. ASSUME NEW k \in 1 .. Len(ls)
      PROVE  /\ LeftIn(ls, C)[k] = IF ls[k].name = Letter THEN CountIn(ls[k].pend, C) ELSE 0
             /\ LeftIn(ls, C)[k] \in Nat
  <2>1. LeftIn(ls, C)[k] = IF ls[k].name = Letter THEN CountIn(ls[k].pend, C) ELSE 0
    BY <1>1 DEF LeftIn
  <2>2. ls[k].pend \in Seq(Elements)
    BY <1>1 DEF Streams
  <2>3. CountIn(ls[k].pend, C) \in Nat
    BY <2>2, CountInConcat
  <2> QED BY <2>1, <2>3
<1>3. Total(LeftIn(ls, C), 1 .. Len(ls)) \in Int
  <2> DEFINE f == LeftIn(ls, C)
             n == Len(ls)
  <2>1. \A k \in 1 .. n : f[k] \in Int
    BY <1>2
  <2>3. n \in Nat
    BY <1>1
  <2>4. IsFiniteSet(1 .. n)
    BY <2>3, FS_Interval
  <2> HIDE DEF f, n
  <2>2. Total(f, 1 .. n) \in Int
    BY <2>1, <2>4, TotalFacts
  <2> QED BY <2>2 DEF f, n
<1> QED BY <1>1, <1>2, <1>3

\* One more stream is left open.
LEMMA LeftInAppend ==
  ASSUME NEW ls \in Seq(Streams), NEW st \in Streams, NEW C
  PROVE  Total(LeftIn(Append(ls, st), C), 1 .. Len(Append(ls, st)))
            = Total(LeftIn(ls, C), 1 .. Len(ls))
              + IF st.name = Letter THEN CountIn(st.pend, C) ELSE 0
<1> DEFINE new == Append(ls, st)
           f == LeftIn(new, C)
           n == Len(ls)
<1>1. /\ new \in Seq(Streams) /\ n \in Nat /\ Len(new) = n + 1
      /\ (\A k \in 1 .. n : new[k] = ls[k]) /\ new[n + 1] = st
  BY AppendFacts
<1> HIDE DEF new
<1>2. \A k \in 1 .. n + 1 :
         f[k] \in Nat /\ f[k] = IF new[k].name = Letter THEN CountIn(new[k].pend, C) ELSE 0
  BY <1>1, LeftInFacts
<1>3. \A k \in 1 .. n :
         LeftIn(ls, C)[k] \in Nat
         /\ LeftIn(ls, C)[k] = IF ls[k].name = Letter THEN CountIn(ls[k].pend, C) ELSE 0
  BY LeftInFacts
<1> HIDE DEF f, n
<1>4. Total(f, 1 .. n + 1) = f[n + 1] + Total(f, 1 .. n) /\ Total(f, 1 .. n) \in Int
  <2>1. n \in Nat /\ \A k \in 1 .. n + 1 : f[k] \in Int
    BY <1>1, <1>2
  <2> QED BY <2>1, TotalOfNext
<1>5. Total(f, 1 .. n) = Total(LeftIn(ls, C), 1 .. n)
  <2>1. \A k \in 1 .. n : f[k] = LeftIn(ls, C)[k] /\ LeftIn(ls, C)[k] \in Int
    <3> SUFFICES ASSUME NEW k \in 1 .. n PROVE f[k] = LeftIn(ls, C)[k] /\ LeftIn(ls, C)[k] \in Int
      OBVIOUS
    <3>1. k \in 1 .. n + 1 /\ new[k] = ls[k]
      BY <1>1
    <3> QED BY <1>2, <1>3, <3>1
  <2>2. IsFiniteSet(1 .. n)
    BY <1>1, FS_Interval
  <2> QED BY <2>1, <2>2, TotalOfSame
<1>6. f[n + 1] \in Nat /\ f[n + 1] = IF st.name = Letter THEN CountIn(st.pend, C) ELSE 0
  BY <1>1, <1>2
<1> QED BY <1>1, <1>4, <1>5, <1>6 DEF f, n, new

\* One of them is flushed.
LEMMA LeftInRemove ==
  ASSUME NEW ls \in Seq(Streams), NEW p \in 1 .. Len(ls), NEW C
  PROVE  Total(LeftIn(ls, C), 1 .. Len(ls))
            = (IF ls[p].name = Letter THEN CountIn(ls[p].pend, C) ELSE 0)
              + Total(LeftIn(RemoveAt(ls, p), C), 1 .. Len(RemoveAt(ls, p)))
<1> DEFINE new == RemoveAt(ls, p)
           f == LeftIn(ls, C)
           h == LeftIn(new, C)
           n == Len(ls) - 1
<1>1. /\ new \in Seq(Streams) /\ Len(ls) \in Nat /\ Len(new) = n
      /\ \A k \in 1 .. n : new[k] = IF k < p THEN ls[k] ELSE ls[k + 1]
  BY RemoveFacts
<1>2. n \in Nat /\ Len(ls) = n + 1 /\ p \in 1 .. n + 1
  BY <1>1
<1> HIDE DEF new, n
<1>3. \A k \in 1 .. n + 1 :
         f[k] \in Nat /\ f[k] = IF ls[k].name = Letter THEN CountIn(ls[k].pend, C) ELSE 0
  BY <1>2, LeftInFacts
<1>4. \A k \in 1 .. n : h[k] = IF new[k].name = Letter THEN CountIn(new[k].pend, C) ELSE 0
  BY <1>1, LeftInFacts
<1> HIDE DEF f, h
<1>5. ASSUME NEW k \in 1 .. n PROVE h[k] = IF k < p THEN f[k] ELSE f[k + 1]
  <2>1. k \in 1 .. n + 1 /\ k + 1 \in 1 .. n + 1
    BY <1>2
  <2>2. CASE k < p
    BY <1>1, <1>3, <1>4, <2>1, <2>2
  <2>3. CASE ~(k < p)
    BY <1>1, <1>3, <1>4, <2>1, <2>3
  <2> QED BY <2>2, <2>3
<1>6. Total(f, 1 .. n + 1) = f[p] + Total(h, 1 .. n)
  BY <1>2, <1>3, <1>5, TotalWithout
<1> QED BY <1>1, <1>2, <1>3, <1>6 DEF f, h, new

-----------------------------------------------------------------------------
(* What was asked to be written is there, or is on its way.                 *)

\* What is in hand.
LEMMA InHandFacts ==
  ASSUME LogInv
  PROVE  /\ ToCome \in Seq(Elements) /\ stream.pend \in Seq(Elements)
         /\ InHand \in Seq(Elements)
         /\ pc # "run" => InHand = stream.pend
         /\ ToCome = <<>> => InHand = stream.pend
         /\ stream.pend = <<>> => InHand = ToCome
<1>1. data.content \in Seq(Elements) /\ Len(data.content) \in Nat /\ i \in Nat
  BY LenProperties DEF LogInv, CallTyped, LogTyped
<1>2. SubSeq(data.content, i + 1, Len(data.content)) \in Seq(Elements)
  <2>1. i + 1 \in Nat /\ i + 1 >= 1 /\ Len(data.content) \in Int /\ Len(data.content) <= Len(data.content)
    BY <1>1
  <2> QED BY <1>1, <2>1, PartFacts
<1>3. ToCome \in Seq(Elements)
  BY <1>1, <1>2, EmptySeq DEF ToCome
<1>4. stream.pend \in Seq(Elements)
  BY NoStream, EmptySeq DEF LogInv, LogTyped, Streams
<1>5. pc # "run" => ToCome = <<>>
  BY DEF ToCome
<1> QED BY <1>3, <1>4, <1>5, ConcatProperties, ConcatEmptySeq DEF InHand

\* What a call that reads hands to its stream: nothing.
LEMMA NothingToHand ==
  ASSUME LogInv, data.content = <<>>
  PROVE  ToCome = <<>>
<1>1. PICK e : e = <<>>
  OBVIOUS
<1>2. e \in Seq(Elements) /\ Len(e) = 0 /\ i \in Nat
  BY <1>1, EmptySeq DEF LogInv, LogTyped
<1>3. SubSeq(e, i + 1, Len(e)) = <<>>
  <2>1. i + 1 \in Int /\ Len(e) \in Int /\ Len(e) < i + 1
    BY <1>2
  <2> QED BY <2>1, SubSeqEmpty
<1> QED BY <1>1, <1>3 DEF ToCome

\* The end of the text that is written character by character.
LEMMA LastCharacters ==
  ASSUME LogInv, pc = "run", data.mode = "INPUT_CHAR"
  PROVE  /\ i = Len(data.content) => ToCome = <<>>
         /\ i + 1 <= Len(data.content) =>
               ToCome = <<data.content[i + 1]>> \o SubSeq(data.content, i + 2, Len(data.content))
<1> DEFINE s == data.content
<1>1. s \in Seq(Elements) /\ Len(s) \in Nat /\ i \in Nat
  BY LenProperties DEF LogInv, CallTyped, LogTyped
<1>2. ToCome = SubSeq(s, i + 1, Len(s))
  BY DEF ToCome
<1> HIDE DEF s
<1>3. ASSUME i = Len(s) PROVE SubSeq(s, i + 1, Len(s)) = <<>>
  <2>1. i + 1 \in Int /\ Len(s) \in Int /\ Len(s) < i + 1
    BY <1>1, <1>3
  <2> QED BY <2>1, SubSeqEmpty
<1>4. ASSUME i + 1 <= Len(s)
      PROVE  SubSeq(s, i + 1, Len(s)) = <<s[i + 1]>> \o SubSeq(s, i + 2, Len(s))
  <2>1. i + 1 \in 1 .. Len(s) /\ Len(s) \in (i + 1) .. Len(s) /\ (i + 1) + 1 = i + 2
    BY <1>1, <1>4
  <2>2. SubSeq(s, i + 1, Len(s)) = <<s[i + 1]>> \o SubSeq(s, (i + 1) + 1, Len(s))
    BY <1>1, <2>1, SubSeqRecursiveFirst
  <2> QED BY <2>1, <2>2
<1> QED BY <1>2, <1>3, <1>4 DEF s

\* What is flushed depends on where the stream writes and on what the file holds.
LEMMA SameFlush ==
  ASSUME LogTyped, NEW st, NEW t, NEW f \in Names
  PROVE  /\ f # st.name => Flushed(st, t)[f] = file[f]
         /\ f = st.name => Flushed(st, t)[f] = IF st.kind = "a" THEN Held(f) \o t
                                               ELSE Over(Held(f), st.pos, t)
BY DEF LogTyped, Flushed

\* Nothing flushed, nothing changed.
LEMMA FlushNothing ==
  ASSUME LogInv, NEW st \in Streams
  PROVE  Flushed(st, <<>>)[st.name] = Held(st.name)
<1>1. st.name \in Names /\ Held(st.name) \in Seq(Elements) /\ st.pos \in Nat
  BY HeldTyped DEF LogInv, Streams
<1>2. Flushed(st, <<>>)[st.name] = IF st.kind = "a" THEN Held(st.name) \o <<>>
                                   ELSE Over(Held(st.name), st.pos, <<>>)
  BY <1>1, SameFlush DEF LogInv
<1> QED BY <1>1, <1>2, ConcatEmptySeq DEF Over

\* A file that exists holds what it holds.
LEMMA FileIsHeld ==
  ASSUME LogTyped
  PROVE  /\ \A f \in Names : file[f] # Absent => Held(f) = file[f]
         /\ \A s \in Seq(Elements) : s # Absent
<1>1. \A s \in Seq(Elements) : s # Absent
  BY LogAssumption DEF Elements
<1> QED BY <1>1 DEF Held

\* A step that leaves the files and what is in hand alone keeps both facts.
LEMMA SameInHand ==
  ASSUME SavedInv, UNCHANGED <<file, meant, late, leaked, InHand>>,
         stream'.name = stream.name, stream'.kind = stream.kind,
         stream'.pos = stream.pos, stream'.mode = stream.mode,
         stream' # NULL => stream # NULL
  PROVE  NothingIsLate' /\ NothingIsLost'
<1>1. \A f \in Names : Flushed(stream, InHand)'[f] = Flushed(stream, InHand)[f] /\ Held(f)' = Held(f)
  BY DEF Flushed, Held
<1>2. NothingIsLate'
  BY <1>1 DEF SavedInv, NothingIsLate
<1>3. Held(Letter)' = Held(Letter)
  BY DEF Held
<1>4. \A C : StillOpen(C)' = StillOpen(C) /\ LeftIn(leaked, C)' = LeftIn(leaked, C)
  BY DEF StillOpen, LeftIn, CountIn
<1>5. NothingIsLost'
  BY <1>3, <1>4 DEF SavedInv, NothingIsLost, CountIn
<1> QED BY <1>2, <1>5

\* The same of what is in hand after a step.
LEMMA InHandNext ==
  ASSUME LogInv'
  PROVE  /\ (ToCome \in Seq(Elements))' /\ (stream.pend \in Seq(Elements))'
         /\ (InHand \in Seq(Elements))'
         /\ (pc # "run" => InHand = stream.pend)'
         /\ (ToCome = <<>> => InHand = stream.pend)'
         /\ (stream.pend = <<>> => InHand = ToCome)'
BY InHandFacts, PTL

\* The same of a file after a step.
LEMMA HeldNext ==
  ASSUME LogInv'
  PROVE  (\A f \in Names : Held(f) \in Seq(Elements))'
<1>1. LogTyped'
  BY DEF LogInv
<1> QED BY <1>1, HeldTyped, PTL

\* What a call does: the stream of its mode has the whole text to come.
LEMMA CallFacts ==
  ASSUME LogInv, logModuleExecute
  PROVE  \E d \in Requests :
            LET f == NameOf(d.mode)  kind == fopenMode[d.mode]
            IN /\ d.mode \in Modes /\ d.content \in Seq(Elements) /\ d.offset \in Nat
               /\ f \in Names /\ (d.mode \in Reading => d.content = <<>>)
               /\ pc = "idle" /\ leaked' = leaked \o LeftBehind
               /\ late' = LET l == IF LeftBehind # <<>> /\ stream.mode \in Buffered /\ late = "no"
                                   THEN "tail" ELSE late
                          IN IF l = "tail" /\ d.mode \in {"COVER_WRITE", "ALTER_WRITE", "INPUT_BINARY"}
                             THEN "mixed" ELSE l
               /\ \A g \in Names : g # f => Held(g)' = Held(g) /\ meant'[g] = meant[g]
               /\ \/ /\ stream' = NULL /\ meant'[f] = meant[f]
                     /\ Held(f)' = Held(f)
                  \/ /\ stream' \in Streams /\ stream' # NULL
                     /\ stream'.kind = kind /\ stream'.name = f /\ stream'.mode = d.mode
                     /\ stream'.pos = Seek(d) /\ InHand' = d.content
                     /\ Held(f)' = IF kind = "w" THEN <<>> ELSE Held(f)
                     /\ meant'[f] = Meant(d, meant[f])
<1> PICK d \in Requests :
        LET f == NameOf(d.mode)  kind == fopenMode[d.mode]
            fails == kind \in {"r", "r+"} /\ file[f] = Absent
        IN /\ pc = "idle"
           /\ data' = IF d.mode \in Reading THEN [d EXCEPT !.size = @ + Len(Held(f))] ELSE d
           /\ stream' = IF fails THEN NULL
                        ELSE [kind |-> kind, name |-> f, mode |-> d.mode, pos |-> Seek(d),
                              pend |-> <<>>]
           /\ leaked' = leaked \o LeftBehind
           /\ file' = [file EXCEPT ![f] = IF fails THEN Absent
                                          ELSE IF kind = "w" THEN <<>> ELSE Held(f)]
           /\ meant' = IF fails THEN meant
                       ELSE [meant EXCEPT ![f] = Meant(d, @)]
           /\ late' = LET l == IF LeftBehind # <<>> /\ stream.mode \in Buffered /\ late = "no"
                               THEN "tail" ELSE late
                      IN IF l = "tail" /\ d.mode \in {"COVER_WRITE", "ALTER_WRITE", "INPUT_BINARY"}
                         THEN "mixed" ELSE l
           /\ pc' = "run" /\ i' = 0 /\ at' = 0 /\ buffer' = <<>>
  BY DEF logModuleExecute
<1> DEFINE f == NameOf(d.mode)
           kind == fopenMode[d.mode]
           fails == kind \in {"r", "r+"} /\ file[f] = Absent
<1>1. /\ d \in [mode : Modes, content : Seq(Elements), offset : Nat, size : Nat]
      /\ d.mode \in Reading => d.content = <<>>
  BY RequestsTyped
<1>2. f \in Names /\ kind \in {"a", "r", "w", "r+"}
  BY <1>1 DEF NameOf, Names, fopenMode, Modes
<1>3. LogInv'
  BY CallKeepsTypes
<1>4. \A g \in Names : g # f => Held(g)' = Held(g) /\ meant'[g] = meant[g]
  BY <1>2 DEF LogInv, LogTyped, Held
<1>5. CASE fails
  <2>1. stream' = NULL /\ meant' = meant /\ file'[f] = Absent /\ file[f] = Absent
    BY <1>2, <1>5 DEF LogInv, LogTyped
  <2>2. Held(f)' = Held(f)
    BY <2>1 DEF Held
  <2> QED BY <1>1, <1>2, <1>4, <2>1, <2>2
<1>6. CASE ~fails
  <2>1. stream' = [kind |-> kind, name |-> f, mode |-> d.mode, pos |-> Seek(d), pend |-> <<>>]
    BY <1>6
  <2>2. /\ stream'.kind = kind /\ stream'.name = f /\ stream'.mode = d.mode
        /\ stream'.pos = Seek(d) /\ stream'.pend = <<>>
    BY <2>1
  <2>3. stream' # NULL /\ stream' \in Streams
    BY <1>1, <1>3, <2>2, NoStream DEF LogInv, LogTyped
  <2>4. data'.content = d.content /\ data'.mode = d.mode
    <3> DEFINE n == d.size + Len(Held(f))
    <3>1. data' = IF d.mode \in Reading THEN [d EXCEPT !.size = n] ELSE d
      OBVIOUS
    <3> HIDE DEF n
    <3> QED BY <1>1, <3>1
  <2>5. ToCome' = d.content
    <3>1. SubSeq(d.content, 1, Len(d.content)) = d.content
      BY <1>1, SubSeqFull
    <3>2. i' + 1 = 1
      OBVIOUS
    <3> QED BY <2>4, <3>1, <3>2 DEF ToCome
  <2>6. InHand' = d.content
    BY <1>3, <2>2, <2>5, InHandNext
  <2>7. Held(f)' = IF kind = "w" THEN <<>> ELSE Held(f)
    <3>1. file'[f] = IF kind = "w" THEN <<>> ELSE Held(f)
      BY <1>2, <1>6 DEF LogInv, LogTyped
    <3>2. file'[f] # Absent
      BY <1>2, <3>1, HeldTyped, FileIsHeld, EmptySeq DEF LogInv
    <3> QED BY <3>1, <3>2 DEF Held
  <2>8. meant'[f] = Meant(d, meant[f])
    BY <1>2, <1>6 DEF LogInv, LogTyped
  <2> QED BY <1>1, <1>2, <1>4, <2>2, <2>3, <2>6, <2>7, <2>8
<1> QED BY <1>5, <1>6

\* A call, when nothing was left behind before and nothing is by it.
LEMMA CallIsNotLate ==
  ASSUME SavedInv, logModuleExecute
  PROVE  NothingIsLate'
<1> SUFFICES ASSUME late' = "no", NEW f \in Names
             PROVE  meant'[f] = IF stream'.name = f THEN Flushed(stream, InHand)'[f] ELSE Held(f)'
  BY DEF NothingIsLate
<1>0. LogInv /\ LogInv'
  BY CallKeepsTypes DEF SavedInv
<1>1. PICK d \in Requests :
        LET g == NameOf(d.mode)  kind == fopenMode[d.mode]
        IN /\ d.mode \in Modes /\ d.content \in Seq(Elements) /\ d.offset \in Nat
           /\ g \in Names /\ (d.mode \in Reading => d.content = <<>>)
           /\ pc = "idle" /\ leaked' = leaked \o LeftBehind
           /\ late' = LET l == IF LeftBehind # <<>> /\ stream.mode \in Buffered /\ late = "no"
                               THEN "tail" ELSE late
                      IN IF l = "tail" /\ d.mode \in {"COVER_WRITE", "ALTER_WRITE", "INPUT_BINARY"}
                         THEN "mixed" ELSE l
           /\ \A h \in Names : h # g => Held(h)' = Held(h) /\ meant'[h] = meant[h]
           /\ \/ /\ stream' = NULL /\ meant'[g] = meant[g]
                 /\ Held(g)' = Held(g)
              \/ /\ stream' \in Streams /\ stream' # NULL
                 /\ stream'.kind = kind /\ stream'.name = g /\ stream'.mode = d.mode
                 /\ stream'.pos = Seek(d) /\ InHand' = d.content
                 /\ Held(g)' = IF kind = "w" THEN <<>> ELSE Held(g)
                 /\ meant'[g] = Meant(d, meant[g])
  BY <1>0, CallFacts
<1> DEFINE g == NameOf(d.mode)
           kind == fopenMode[d.mode]
<1>2. late = "no" /\ LeftBehind = <<>>
  <2>1. late = "no"
    BY <1>1
  <2>2. LeftBehind # <<>> => stream.mode \in Buffered
    BY <1>0, LeftBehindFacts
  <2> QED BY <1>1, <2>1, <2>2
<1>3. \A h \in Names : meant[h] = Held(h)
  <2> SUFFICES ASSUME NEW h \in Names PROVE meant[h] = Held(h)
    OBVIOUS
  <2>1. meant[h] = IF stream.name = h THEN Flushed(stream, InHand)[h] ELSE Held(h)
    BY <1>2 DEF SavedInv, NothingIsLate
  <2>2. CASE stream.name = h
    <3>1. stream \in Streams
      BY <1>0, <2>2, NoStream DEF LogInv, LogTyped
    <3>2. stream.pend = <<>>
      BY <1>2 DEF LeftBehind
    <3>3. InHand = <<>>
      BY <1>0, <1>1, <3>2, InHandFacts
    <3> QED BY <1>0, <2>1, <2>2, <3>1, <3>3, FlushNothing
  <2> QED BY <2>1, <2>2
<1>4. CASE stream' = NULL
  <2>1. stream'.name \notin Names
    BY <1>4, NoStream
  <2>2. Held(f)' = Held(f) /\ meant'[f] = meant[f]
    BY <1>1, <1>4
  <2> QED BY <1>3, <2>1, <2>2
<1>5. CASE stream' # NULL
  <2>1. CASE f # g
    BY <1>1, <1>3, <1>5, <2>1
  <2>2. CASE f = g
    <3>1. /\ stream'.kind = kind /\ stream'.name = f /\ InHand' = d.content
          /\ stream'.pos = Seek(d) /\ meant'[f] = Meant(d, Held(f))
          /\ Held(f)' = IF kind = "w" THEN <<>> ELSE Held(f)
      BY <1>1, <1>3, <1>5, <2>2
    <3>2. Flushed(stream, InHand)'[f] = IF kind = "a" THEN Held(f) \o d.content
                                        ELSE Over(Held(f)', Seek(d), d.content)
      <4>1. file' \in [Names -> Seq(Elements) \cup {Absent}]
        BY <1>0 DEF LogInv, LogTyped
      <4> QED BY <3>1, <4>1 DEF Flushed
    <3>3. Held(f) \in Seq(Elements)
      BY <1>0, HeldTyped DEF LogInv
    <3>4. CASE kind = "a"
      <4>1. d.mode # "ALTER_WRITE"
        BY <3>4 DEF fopenMode
      <4>2. Meant(d, Held(f)) = Held(f) \o d.content
        BY <3>4, <4>1 DEF Meant
      <4> QED BY <3>1, <3>2, <3>4, <4>2
    <3>5. CASE kind = "w"
      <4>1. d.mode # "ALTER_WRITE" /\ Seek(d) = 0
        BY <3>5 DEF Seek, fopenMode
      <4>2. Meant(d, Held(f)) = d.content
        BY <3>5, <4>1 DEF Meant
      <4>3. Over(<<>>, 0, d.content) = d.content
        BY <1>1, OverNothing
      <4> QED BY <3>1, <3>2, <3>5, <4>1, <4>2, <4>3
    <3>6. CASE d.mode = "ALTER_WRITE"
      BY <3>1, <3>2, <3>6 DEF Meant, Seek, fopenMode
    <3>7. CASE d.mode \in Reading
      <4>1. d.content = <<>> /\ kind \in {"r", "r+"} /\ d.mode # "ALTER_WRITE"
        BY <1>1, <3>7 DEF fopenMode, Reading
      <4>2. Flushed(stream, InHand)'[f] = Held(f)
        BY <3>1, <3>2, <4>1 DEF Over
      <4>3. Meant(d, Held(f)) = Held(f)
        BY <4>1 DEF Meant
      <4> QED BY <3>1, <4>2, <4>3
    <3>8. kind \in {"a", "w"} \/ d.mode = "ALTER_WRITE" \/ d.mode \in Reading
      BY <1>1 DEF Modes, Reading, fopenMode
    <3> QED BY <3>4, <3>5, <3>6, <3>7, <3>8
  <2> QED BY <2>1, <2>2
<1> QED BY <1>4, <1>5

\* What is counted, in files and in streams, are natural numbers.
LEMMA CountsTyped ==
  ASSUME LogInv, NEW C
  PROVE  /\ \A f \in Names : CountIn(Held(f), C) \in Nat /\ CountIn(meant[f], C) \in Nat
         /\ CountIn(InHand, C) \in Nat /\ StillOpen(C) \in Nat
         /\ Total(LeftIn(leaked, C), 1 .. Len(leaked)) \in Int
<1>1. \A s \in Seq(Elements) : CountIn(s, C) \in Nat
  BY CountInConcat
<1>2. \A f \in Names : Held(f) \in Seq(Elements) /\ meant[f] \in Seq(Elements)
  BY HeldTyped DEF LogInv, LogTyped
<1>3. InHand \in Seq(Elements) /\ leaked \in Seq(Streams)
  BY InHandFacts DEF LogInv, LogTyped
<1> QED BY <1>1, <1>2, <1>3, LeftInFacts DEF StillOpen

\* A letter that is written to by appending: when a text is about to be left behind, the
\* counts add up.
LEMMA CountsAddUp ==
  ASSUME SavedInv, late = "tail" \/ (late = "no" /\ stream.mode \in Buffered), NEW C \in SUBSET Elements
  PROVE  CountIn(meant[Letter], C) = CountIn(Held(Letter), C) + StillOpen(C)
                                     + Total(LeftIn(leaked, C), 1 .. Len(leaked))
<1>1. CASE late = "tail"
  BY <1>1 DEF SavedInv, NothingIsLost
<1>2. CASE late = "no" /\ stream.mode \in Buffered
  <2>1. leaked = <<>> /\ LogInv
    BY <1>2 DEF SavedInv, LogInv, StreamsFit
  <2>2. Total(LeftIn(leaked, C), 1 .. Len(leaked)) = 0
    <3> DEFINE n == Len(leaked)
    <3>1. n = 0
      BY <2>1
    <3>2. IsFiniteSet(1 .. n) /\ 1 .. n = {}
      BY <3>1, FS_EmptySet
    <3>3. \A x \in 1 .. n : LeftIn(leaked, C)[x] \in Int
      BY <3>2
    <3> HIDE DEF n
    <3>4. Total(LeftIn(leaked, C), 1 .. n) = 0
      BY <3>2, <3>3, TotalFacts
    <3> QED BY <3>4 DEF n
  <2>3. Letter \in Names
    BY DEF Names
  <2>4. meant[Letter] = IF stream.name = Letter THEN Flushed(stream, InHand)[Letter] ELSE Held(Letter)
    BY <1>2, <2>3 DEF SavedInv, NothingIsLate
  <2>5. CASE stream.name # Letter
    <3>1. StillOpen(C) = 0
      BY <2>5 DEF StillOpen
    <3> QED BY <2>1, <2>2, <2>3, <2>4, <2>5, <3>1, CountsTyped
  <2>6. CASE stream.name = Letter
    <3>1. stream \in Streams /\ Fits(stream) /\ stream.mode \in Buffered
      BY <1>2, <2>1, NoStream DEF LogInv, LogTyped, StreamsFit, Buffered
    <3>2. stream.kind = "a"
      BY <2>6, <3>1 DEF Fits, NameOf, fopenMode, Buffered, Letter
    <3>3. meant[Letter] = Held(Letter) \o InHand
      BY <2>1, <2>3, <2>4, <2>6, <3>2, SameFlush DEF LogInv
    <3>4. Held(Letter) \in Seq(Elements) /\ InHand \in Seq(Elements)
      BY <2>1, <2>3, HeldTyped, InHandFacts DEF LogInv
    <3>5. CountIn(meant[Letter], C) = CountIn(Held(Letter), C) + CountIn(InHand, C)
      BY <3>3, <3>4, CountInConcat
    <3>6. StillOpen(C) = CountIn(InHand, C)
      BY <2>6 DEF StillOpen
    <3> QED BY <2>1, <2>2, <2>3, <3>5, <3>6, CountsTyped
  <2> QED BY <2>5, <2>6
<1> QED BY <1>1, <1>2

\* The tail of a text is left behind with its stream: it is counted there.
LEMMA LeftBehindCounts ==
  ASSUME LogInv, pc = "idle", NEW C
  PROVE  Total(LeftIn(leaked \o LeftBehind, C), 1 .. Len(leaked \o LeftBehind))
            = Total(LeftIn(leaked, C), 1 .. Len(leaked)) + StillOpen(C)
<1>0. leaked \in Seq(Streams) /\ InHand = stream.pend
  BY InHandFacts DEF LogInv, LogTyped
<1>1. CASE LeftBehind = <<>>
  <2>1. stream.pend = <<>>
    BY <1>1 DEF LeftBehind
  <2>2. StillOpen(C) = 0
    BY <1>0, <2>1, CountInNone DEF StillOpen
  <2>3. leaked \o LeftBehind = leaked
    BY <1>1, LeftBehindFacts
  <2> QED BY <2>2, <2>3, CountsTyped
<1>2. CASE LeftBehind # <<>>
  <2>1. stream \in Streams /\ leaked \o LeftBehind = Append(leaked, stream)
    BY <1>2, LeftBehindFacts
  <2>2. StillOpen(C) = IF stream.name = Letter THEN CountIn(stream.pend, C) ELSE 0
    BY <1>0 DEF StillOpen
  <2> QED BY <1>0, <2>1, <2>2, LeftInAppend
<1> QED BY <1>1, <1>2

\* A call, when texts are only appended.
LEMMA CallLosesNothing ==
  ASSUME SavedInv, logModuleExecute
  PROVE  NothingIsLost'
<1> SUFFICES ASSUME late' = "tail"
             PROVE  /\ stream' # NULL => stream'.mode \notin {"COVER_WRITE", "ALTER_WRITE", "INPUT_BINARY"}
                    /\ \A C \in SUBSET Elements :
                          CountIn(meant'[Letter], C)
                             = CountIn(Held(Letter)', C) + StillOpen(C)'
                               + Total(LeftIn(leaked', C), 1 .. Len(leaked'))
  BY DEF NothingIsLost, CountIn, LeftIn
<1>0. LogInv /\ LogInv' /\ Letter \in Names
  BY CallKeepsTypes DEF SavedInv, Names
<1>1. PICK d \in Requests :
        LET g == NameOf(d.mode)  kind == fopenMode[d.mode]
        IN /\ d.mode \in Modes /\ d.content \in Seq(Elements) /\ d.offset \in Nat
           /\ g \in Names /\ (d.mode \in Reading => d.content = <<>>)
           /\ pc = "idle" /\ leaked' = leaked \o LeftBehind
           /\ late' = LET l == IF LeftBehind # <<>> /\ stream.mode \in Buffered /\ late = "no"
                               THEN "tail" ELSE late
                      IN IF l = "tail" /\ d.mode \in {"COVER_WRITE", "ALTER_WRITE", "INPUT_BINARY"}
                         THEN "mixed" ELSE l
           /\ \A h \in Names : h # g => Held(h)' = Held(h) /\ meant'[h] = meant[h]
           /\ \/ /\ stream' = NULL /\ meant'[g] = meant[g]
                 /\ Held(g)' = Held(g)
              \/ /\ stream' \in Streams /\ stream' # NULL
                 /\ stream'.kind = kind /\ stream'.name = g /\ stream'.mode = d.mode
                 /\ stream'.pos = Seek(d) /\ InHand' = d.content
                 /\ Held(g)' = IF kind = "w" THEN <<>> ELSE Held(g)
                 /\ meant'[g] = Meant(d, meant[g])
  BY <1>0, CallFacts
<1> DEFINE g == NameOf(d.mode)
           kind == fopenMode[d.mode]
<1>2. d.mode \notin {"COVER_WRITE", "ALTER_WRITE", "INPUT_BINARY"}
      /\ (late = "tail" \/ (late = "no" /\ stream.mode \in Buffered))
  BY <1>1
<1>3. stream' # NULL => stream'.mode = d.mode
  BY <1>1
<1>4. ASSUME NEW C \in SUBSET Elements
      PROVE  CountIn(meant'[Letter], C) = CountIn(Held(Letter)', C) + StillOpen(C)'
                                          + Total(LeftIn(leaked', C), 1 .. Len(leaked'))
  <2>1. CountIn(meant[Letter], C) = CountIn(Held(Letter), C) + StillOpen(C)
                                    + Total(LeftIn(leaked, C), 1 .. Len(leaked))
    BY <1>2, CountsAddUp
  <2>2. Total(LeftIn(leaked', C), 1 .. Len(leaked'))
           = Total(LeftIn(leaked, C), 1 .. Len(leaked)) + StillOpen(C)
    BY <1>0, <1>1, LeftBehindCounts
  <2>3. /\ CountIn(Held(Letter), C) \in Nat /\ CountIn(meant[Letter], C) \in Nat
        /\ StillOpen(C) \in Nat /\ Total(LeftIn(leaked, C), 1 .. Len(leaked)) \in Int
    BY <1>0, CountsTyped
  <2>4. Held(Letter)' = Held(Letter)
    <3>1. kind # "w"
      BY <1>1, <1>2 DEF fopenMode, Modes
    <3> QED BY <1>0, <1>1, <3>1
  <2>5. CASE stream' = NULL \/ g # Letter
    <3>1. stream'.name # Letter
      BY <1>0, <1>1, <2>5, NoStream
    <3>2. StillOpen(C)' = 0
      BY <3>1 DEF StillOpen
    <3>3. meant'[Letter] = meant[Letter]
      BY <1>0, <1>1, <2>5
    <3> QED BY <2>1, <2>2, <2>3, <2>4, <3>2, <3>3
  <2>6. CASE stream' # NULL /\ g = Letter
    <3>1. /\ stream'.name = Letter /\ InHand' = d.content
          /\ meant'[Letter] = Meant(d, meant[Letter]) /\ d.content \in Seq(Elements)
      BY <1>1, <2>6
    <3>2. StillOpen(C)' = CountIn(d.content, C)
      BY <3>1 DEF StillOpen, CountIn
    <3>3. meant[Letter] \in Seq(Elements)
      BY <1>0 DEF LogInv, LogTyped
    <3>4. meant'[Letter] = meant[Letter] \o d.content
      <4>1. CASE kind = "a"
        BY <1>2, <3>1, <4>1 DEF Meant, fopenMode
      <4>2. CASE d.mode \in Reading
        <5>1. Meant(d, meant[Letter]) = meant[Letter]
          BY <1>2, <4>2 DEF Meant, fopenMode, Reading
        <5> QED BY <1>1, <3>1, <3>3, <4>2, <5>1, ConcatEmptySeq
      <4>3. kind = "a" \/ d.mode \in Reading
        BY <1>1, <1>2 DEF Modes, Reading, fopenMode
      <4> QED BY <4>1, <4>2, <4>3
    <3>5. CountIn(meant'[Letter], C) = CountIn(meant[Letter], C) + CountIn(d.content, C)
          /\ CountIn(d.content, C) \in Nat
      BY <3>1, <3>3, <3>4, CountInConcat
    <3> QED BY <2>1, <2>2, <2>3, <2>4, <3>2, <3>5
  <2> QED BY <2>5, <2>6
<1> QED BY <1>2, <1>3, <1>4

\* The same for any stream.
LEMMA NothingFlushed ==
  ASSUME LogInv
  PROVE  \A st \in Streams : Flushed(st, <<>>)[st.name] = Held(st.name)
BY FlushNothing

\* A step that leaves what was left behind alone and loses nothing of the rest.
LEMMA SameCounts ==
  ASSUME SavedInv, LogInv', UNCHANGED <<leaked, meant, late>>,
         stream' = NULL \/ (stream # NULL /\ stream'.mode = stream.mode),
         \A C \in SUBSET Elements : late = "tail" =>
            CountIn(Held(Letter)', C) + StillOpen(C)' = CountIn(Held(Letter), C) + StillOpen(C)
  PROVE  NothingIsLost'
<1> SUFFICES ASSUME late = "tail"
             PROVE  /\ stream' # NULL => stream'.mode \notin {"COVER_WRITE", "ALTER_WRITE", "INPUT_BINARY"}
                    /\ \A C \in SUBSET Elements :
                          CountIn(meant'[Letter], C)
                             = CountIn(Held(Letter)', C) + StillOpen(C)'
                               + Total(LeftIn(leaked', C), 1 .. Len(leaked'))
  BY DEF NothingIsLost, CountIn, LeftIn
<1>1. LogInv /\ Letter \in Names
  BY DEF SavedInv, Names
<1>2. ASSUME NEW C \in SUBSET Elements
      PROVE  CountIn(meant'[Letter], C) = CountIn(Held(Letter)', C) + StillOpen(C)'
                                          + Total(LeftIn(leaked', C), 1 .. Len(leaked'))
  <2>1. CountIn(meant[Letter], C) = CountIn(Held(Letter), C) + StillOpen(C)
                                    + Total(LeftIn(leaked, C), 1 .. Len(leaked))
    BY DEF SavedInv, NothingIsLost
  <2> QED BY <2>1
<1>3. stream # NULL => stream.mode \notin {"COVER_WRITE", "ALTER_WRITE", "INPUT_BINARY"}
  BY DEF SavedInv, NothingIsLost
<1> QED BY <1>2, <1>3

\* All that is in hand is flushed.
LEMMA AllFlushed ==
  ASSUME SavedInv, LogInv', stream \in Streams, file' = Flushed(stream, InHand),
         UNCHANGED <<leaked, meant, late>>,
         (stream' = stream /\ InHand' = <<>>) \/ stream' = NULL
  PROVE  NothingIsLate' /\ NothingIsLost'
<1>1. LogInv /\ stream.name \in Names /\ Fits(stream) /\ stream.mode = data.mode /\ stream # NULL
      /\ InHand \in Seq(Elements) /\ Letter \in Names
  BY NoStream, InHandFacts DEF SavedInv, LogInv, LogTyped, StreamsFit, Streams, Names
<1> PICK n \in Names : n = stream.name
  BY <1>1
<1> DEFINE new == Flushed(stream, InHand)[n]
<1>2. file'[n] = new /\ new \in Seq(Elements) /\ \A f \in Names : f # n => file'[f] = file[f]
  BY <1>1, FlushedFacts DEF LogInv
<1> HIDE DEF new
<1>3. Held(n)' = new /\ \A f \in Names : f # n => Held(f)' = Held(f)
  <2>1. new # Absent
    BY <1>1, <1>2, FileIsHeld DEF LogInv
  <2> QED BY <1>2, <2>1 DEF Held
<1>4. NothingIsLate'
  <2>1. CASE stream' = NULL
    <3>1. stream'.name \notin Names
      BY <2>1, NoStream
    <3> SUFFICES ASSUME late = "no", NEW f \in Names
                 PROVE  meant'[f] = Held(f)'
      BY <3>1 DEF NothingIsLate
    <3>2. meant[f] = IF n = f THEN Flushed(stream, InHand)[f] ELSE Held(f)
      BY DEF SavedInv, NothingIsLate
    <3> QED BY <1>3, <3>2 DEF new
  <2>2. CASE stream' = stream /\ InHand' = <<>>
    <3>1. LogInv' => (\A st \in Streams : Flushed(st, <<>>)[st.name] = Held(st.name))'
      BY NothingFlushed, PTL
    <3>2. Flushed(stream, <<>>)'[n] = Held(n)'
      BY <2>2, <3>1
    <3>3. Flushed(stream, InHand)'[n] = new
      BY <1>3, <2>2, <3>2 DEF Flushed
    <3> QED BY <1>3, <2>2, <3>3 DEF SavedInv, NothingIsLate, new
  <2> QED BY <2>1, <2>2
<1>5. ASSUME NEW C \in SUBSET Elements, late = "tail"
      PROVE  CountIn(Held(Letter)', C) + StillOpen(C)' = CountIn(Held(Letter), C) + StillOpen(C)
  <2>1. StillOpen(C)' = 0
    <3>1. CASE stream' = NULL
      <4>1. stream'.name # Letter
        BY <1>1, <3>1, NoStream
      <4> QED BY <4>1 DEF StillOpen
    <3>2. CASE InHand' = <<>>
      <4>1. CountIn(<<>>, C) = 0
        BY CountInNone
      <4>2. CountIn(InHand, C)' = 0
        BY <3>2, <4>1 DEF CountIn
      <4> QED BY <4>2 DEF StillOpen
    <3> QED BY <3>1, <3>2
  <2>2. CASE n # Letter
    <3>1. StillOpen(C) = 0
      BY <2>2 DEF StillOpen
    <3>2. Held(Letter)' = Held(Letter)
      BY <1>1, <1>3, <2>2
    <3>3. CountIn(Held(Letter)', C) = CountIn(Held(Letter), C)
      BY <3>2
    <3> QED BY <2>1, <3>1, <3>3
  <2>3. CASE n = Letter
    <3>1. Held(Letter)' = Held(Letter) \o InHand
      <4>1. stream.mode \notin {"COVER_WRITE", "ALTER_WRITE", "INPUT_BINARY"} /\ stream.mode \in Modes
        BY <1>1, <1>5 DEF SavedInv, NothingIsLost, Streams
      <4>2. CASE stream.mode \in Reading
        <5>1. stream.pend = <<>> /\ data.content = <<>>
          BY <1>1, <4>2 DEF Fits, Reading, Buffered, LogInv, CallTyped
        <5>2. InHand = <<>>
          BY <1>1, <5>1, NothingToHand, InHandFacts
        <5>3. Flushed(stream, <<>>)[n] = Held(n)
          BY <1>1, FlushNothing
        <5>4. new = Held(Letter)
          BY <2>3, <5>2, <5>3 DEF new
        <5>5. Held(Letter) \in Seq(Elements)
          BY <1>1, HeldTyped DEF LogInv
        <5>6. Held(Letter) \o <<>> = Held(Letter)
          BY <5>5, ConcatEmptySeq
        <5> QED BY <1>3, <2>3, <5>2, <5>4, <5>6
      <4>3. CASE stream.mode \notin Reading
        <5>1. stream.kind = "a"
          BY <1>1, <4>1, <4>3 DEF Fits, fopenMode, Modes, Reading
        <5>2. Flushed(stream, InHand)[Letter] = Held(Letter) \o InHand
          BY <1>1, <2>3, <5>1, SameFlush DEF LogInv
        <5> QED BY <1>3, <2>3, <5>2 DEF new
      <4> QED BY <4>2, <4>3
    <3>2. Held(Letter) \in Seq(Elements)
      BY <1>1, HeldTyped DEF LogInv
    <3>3. CountIn(Held(Letter)', C) = CountIn(Held(Letter), C) + CountIn(InHand, C)
          /\ CountIn(Held(Letter), C) \in Nat /\ CountIn(InHand, C) \in Nat
      BY <1>1, <3>1, <3>2, CountInConcat
    <3>4. StillOpen(C) = CountIn(InHand, C)
      BY <2>3 DEF StillOpen
    <3> QED BY <2>1, <3>3, <3>4
  <2> QED BY <2>2, <2>3
<1>6. NothingIsLost'
  BY <1>1, <1>5, SameCounts
<1> QED BY <1>4, <1>6

\* A character.
LEMMA CharIsSaved ==
  ASSUME SavedInv, writeCharInfoToFile
  PROVE  NothingIsLate' /\ NothingIsLost'
<1>0. LogInv /\ LogInv' /\ Running("INPUT_CHAR") /\ UNCHANGED <<leaked, data, meant, late>>
  BY CharKeepsTypes DEF SavedInv, writeCharInfoToFile, callerVars
<1>1. /\ pc = "run" /\ data.mode = "INPUT_CHAR" /\ stream \in Streams /\ stream # NULL
      /\ Fits(stream) /\ stream.mode = "INPUT_CHAR"
      /\ stream.kind = "a" /\ stream.name = Letter /\ Letter \in Names
  BY <1>0, RunningFacts DEF fopenMode, NameOf
<1>2. i \in Nat /\ i <= Len(data.content) /\ Len(data.content) \in Nat
      /\ data.content \in Seq(Elements) /\ stream.pend \in Seq(Elements)
  BY <1>0, <1>1, LenProperties DEF LogInv, CallTyped, LogTyped, StreamsFit, Streams
<1>3. CASE i = Len(data.content)
  <2>1. pc' = "idle" /\ UNCHANGED <<file, stream, i>>
    BY <1>3 DEF writeCharInfoToFile, Return
  <2>2. InHand = stream.pend /\ InHand' = stream'.pend
    BY <1>0, <1>1, <1>3, <2>1, LastCharacters, InHandFacts, InHandNext
  <2> QED BY <1>0, <2>1, <2>2, SameInHand
<1>4. CASE i # Len(data.content)
  <2> DEFINE c == data.content[i + 1]
             t == Append(stream.pend, c)
             r == SubSeq(data.content, i + 2, Len(data.content))
  <2>1. i' = i + 1 /\ pc' = "run"
        /\ IF i % 4 = 0 THEN file' = Flushed(stream, t) /\ stream' = [stream EXCEPT !.pend = <<>>]
           ELSE UNCHANGED file /\ stream' = [stream EXCEPT !.pend = t]
    BY <1>1, <1>4 DEF writeCharInfoToFile
  <2>2. c \in Elements
    BY <1>2, <1>4, ElementOfSeq
  <2>3. r \in Seq(Elements)
    <3>1. i + 2 \in Nat /\ i + 2 >= 1 /\ Len(data.content) \in Int /\ Len(data.content) <= Len(data.content)
      BY <1>2
    <3> QED BY <1>2, <3>1, PartFacts
  <2>4. ToCome = <<c>> \o r
    BY <1>0, <1>1, <1>2, <1>4, LastCharacters
  <2>5. ToCome' = r
    <3>1. i' + 1 = i + 2
      BY <1>2, <2>1
    <3> QED BY <1>0, <1>1, <2>1, <3>1 DEF ToCome
  <2> HIDE DEF r
  <2>6. t \in Seq(Elements) /\ t = stream.pend \o <<c>> /\ <<c>> \in Seq(Elements)
    <3> HIDE DEF c
    <3>1. <<c>> \in Seq(Elements)
      BY <2>2
    <3> QED BY <1>2, <2>2, <3>1, AppendFacts, AppendIsConcat
  <2>7. InHand = t \o r
    <3> DEFINE s == stream.pend
               u == <<c>>
    <3> HIDE DEF c, t
    <3>2. s \in Seq(Elements) /\ u \in Seq(Elements)
      BY <1>2, <2>6
    <3> HIDE DEF s, u
    <3>3. (s \o u) \o r = s \o (u \o r)
      BY <2>3, <3>2, ConcatAssociative
    <3>1. (stream.pend \o <<c>>) \o r = stream.pend \o (<<c>> \o r)
      BY <3>3 DEF s, u
    <3> QED BY <2>4, <2>6, <3>1 DEF InHand
  <2>t. t \in Seq(Elements)
    BY <2>6
  <2> HIDE DEF t
  <2>8. CASE i % 4 # 0
    <3>1. stream' = [stream EXCEPT !.pend = t] /\ UNCHANGED file
      BY <2>1, <2>8
    <3>2. stream'.pend = t /\ stream'.name = stream.name /\ stream'.kind = stream.kind
          /\ stream'.mode = stream.mode /\ stream'.pos = stream.pos
      BY <1>1, <3>1 DEF Streams
    <3>3. InHand' = InHand
      BY <2>5, <2>7, <3>2 DEF InHand
    <3> QED BY <1>0, <1>1, <3>1, <3>2, <3>3, SameInHand
  <2>9. CASE i % 4 = 0
    <3>1. stream' = [stream EXCEPT !.pend = <<>>] /\ file' = Flushed(stream, t)
      BY <2>1, <2>9
    <3>2. stream'.pend = <<>> /\ stream'.name = stream.name /\ stream'.kind = stream.kind
          /\ stream'.mode = stream.mode /\ stream'.pos = stream.pos
      BY <1>1, <3>1 DEF Streams
    <3>3. InHand' = r
      BY <1>0, <2>5, <3>2, InHandNext
    <3>4. Held(Letter) \in Seq(Elements) /\ Held(Letter) \o t \in Seq(Elements)
      BY <1>0, <1>1, <2>6, HeldTyped, ConcatProperties DEF LogInv
    <3>5. file'[Letter] = Held(Letter) \o t /\ \A f \in Names : f # Letter => file'[f] = file[f]
      BY <1>0, <1>1, <3>1, SameFlush DEF LogInv
    <3>6. Held(Letter)' = Held(Letter) \o t /\ \A f \in Names : f # Letter => Held(f)' = Held(f)
      BY <3>4, <3>5, FileIsHeld, <1>0 DEF Held, LogInv
    <3>7. Flushed(stream, InHand)'[Letter] = Flushed(stream, InHand)[Letter]
      <4>1. Flushed(stream, InHand)[Letter] = Held(Letter) \o (t \o r)
        BY <1>0, <1>1, <2>7, SameFlush DEF LogInv
      <4>2. file' \in [Names -> Seq(Elements) \cup {Absent}]
        BY <1>0 DEF LogInv, LogTyped
      <4>3. Flushed(stream, InHand)'[Letter] = (Held(Letter) \o t) \o r
        BY <1>1, <3>2, <3>3, <3>6, <4>2 DEF Flushed
      <4>4. (Held(Letter) \o t) \o r = Held(Letter) \o (t \o r)
        <5> DEFINE s == Held(Letter)
        <5>1. s \in Seq(Elements)
          BY <3>4
        <5> HIDE DEF s
        <5>2. (s \o t) \o r = s \o (t \o r)
          BY <2>3, <2>t, <5>1, ConcatAssociative
        <5> QED BY <5>2 DEF s
      <4> QED BY <4>1, <4>3, <4>4
    <3>8. NothingIsLate'
      BY <1>0, <1>1, <3>2, <3>6, <3>7 DEF SavedInv, NothingIsLate
    <3>9. ASSUME NEW C
          PROVE  CountIn(Held(Letter)', C) + StillOpen(C)' = CountIn(Held(Letter), C) + StillOpen(C)
      <4>1. StillOpen(C) = CountIn(t \o r, C) /\ StillOpen(C)' = CountIn(r, C)
        BY <1>1, <2>7, <3>2, <3>3 DEF StillOpen, CountIn
      <4>2. CountIn(t \o r, C) = CountIn(t, C) + CountIn(r, C) /\ CountIn(t, C) \in Nat /\ CountIn(r, C) \in Nat
        BY <2>3, <2>6, CountInConcat
      <4>3. CountIn(Held(Letter)', C) = CountIn(Held(Letter), C) + CountIn(t, C)
            /\ CountIn(Held(Letter), C) \in Nat
        <5> DEFINE s == Held(Letter)
        <5>1. s \in Seq(Elements)
          BY <3>4
        <5> HIDE DEF s
        <5>2. CountIn(s \o t, C) = CountIn(s, C) + CountIn(t, C) /\ CountIn(s, C) \in Nat
          BY <2>t, <5>1, CountInConcat
        <5> QED BY <3>6, <5>2 DEF s
      <4> QED BY <4>1, <4>2, <4>3
    <3>10. NothingIsLost'
      <4>1. stream # NULL /\ stream'.mode = stream.mode
        BY <1>1, <3>2
      <4> QED BY <1>0, <3>9, <4>1, SameCounts
    <3> QED BY <3>8, <3>10
  <2> QED BY <2>8, <2>9
<1> QED BY <1>3, <1>4

\* A text that is written at once.
LEMMA FlushIsSaved ==
  ASSUME SavedInv, writeFlushed
  PROVE  NothingIsLate' /\ NothingIsLost'
<1>1. PICK mode \in {"COVER_WRITE", "INPUT_STRING", "ALTER_WRITE", "INPUT_FORMAT"} : Running(mode)
  BY DEF writeFlushed
<1>2. LogInv /\ LogInv' /\ file' = Flushed(stream, data.content) /\ pc' = "idle"
      /\ UNCHANGED <<stream, leaked, data, meant, late>>
  BY <1>1, FlushKeepsTypes DEF SavedInv, writeFlushed, Return, callerVars
<1>3. stream \in Streams /\ Fits(stream) /\ stream.mode = mode /\ data.mode = mode /\ pc = "run"
      /\ stream.pend = <<>> /\ stream.name \in Names
  BY <1>1, <1>2, RunningFacts DEF Fits, Buffered
<1>4. InHand = data.content /\ InHand' = <<>> /\ data.content \in Seq(Elements)
  <2>1. ToCome = data.content
    BY <1>3 DEF ToCome
  <2>2. InHand = ToCome
    BY <1>2, <1>3, InHandFacts
  <2>3. InHand' = stream'.pend
    BY <1>2, InHandNext
  <2> QED BY <1>2, <1>3, <2>1, <2>2, <2>3 DEF LogInv, CallTyped
<1> QED BY <1>2, <1>3, <1>4, AllFlushed

\* The cards that stay in the stream.
LEMMA CardsAreSaved ==
  ASSUME SavedInv, writeBianryInfoIntoFile
  PROVE  NothingIsLate' /\ NothingIsLost'
<1>0. LogInv /\ LogInv' /\ Running("INPUT_BINARY")
  BY CardsKeepTypes DEF SavedInv, writeBianryInfoIntoFile
<1>1. stream' = [stream EXCEPT !.pend = data.content] /\ pc' = "idle" /\ pc = "run"
      /\ UNCHANGED <<file, leaked, data, meant, late>>
  BY <1>0 DEF writeBianryInfoIntoFile, Return, callerVars, Running
<1>2. stream \in Streams /\ stream.mode = "INPUT_BINARY" /\ data.mode = "INPUT_BINARY"
      /\ stream # NULL /\ stream.pend = <<>>
  BY <1>0, <1>1, RunningFacts DEF LogInv, StreamsFit
<1>3. stream'.pend = data.content /\ stream'.name = stream.name /\ stream'.kind = stream.kind
      /\ stream'.mode = stream.mode /\ stream'.pos = stream.pos
  BY <1>1, <1>2 DEF Streams
<1>4. InHand = data.content /\ InHand' = stream'.pend
  BY <1>0, <1>1, <1>2, InHandFacts, InHandNext DEF ToCome
<1> QED BY <1>1, <1>2, <1>3, <1>4, SameInHand

\* A call that hands nothing to its stream.
LEMMA NothingIsHanded ==
  ASSUME SavedInv, LogInv', pc = "run", ToCome = <<>>, ToCome' = <<>>,
         UNCHANGED <<file, stream, leaked, data, meant, late>>
  PROVE  NothingIsLate' /\ NothingIsLost'
<1>1. InHand' = InHand
  BY InHandFacts, InHandNext DEF SavedInv
<1> QED BY <1>1, SameInHand

\* A reading.
LEMMA ReadingSaves ==
  ASSUME SavedInv, LogInv', NEW mode \in Reading, Running(mode),
         UNCHANGED <<file, stream, leaked, data, meant, late>>
  PROVE  NothingIsLate' /\ NothingIsLost'
<1>1. LogInv /\ pc = "run" /\ data.mode = mode /\ data.mode \in Reading
  BY DEF SavedInv, Running
<1>2. data.content = <<>> /\ data.mode # "INPUT_CHAR"
  BY <1>1 DEF LogInv, CallTyped, Reading
<1>3. ToCome = <<>> /\ ToCome' = <<>>
  BY <1>2 DEF ToCome
<1> QED BY <1>1, <1>3, NothingIsHanded

\* A call without a stream, or without room.
LEMMA EarlyReturnSaves ==
  ASSUME SavedInv, LogInv', EarlyReturn
  PROVE  NothingIsLate' /\ NothingIsLost'
<1>1. LogInv /\ pc = "run" /\ pc' = "idle" /\ UNCHANGED <<file, stream, leaked, data, meant, late>>
  BY DEF SavedInv, EarlyReturn, Return, callerVars
<1>2. CASE stream = NULL
  <2>1. stream.name \notin Names /\ stream'.name \notin Names /\ Letter \in Names
    BY <1>1, <1>2, NoStream DEF Names
  <2>2. Held(Letter)' = Held(Letter) /\ \A f \in Names : Held(f)' = Held(f)
    BY <1>1 DEF Held
  <2>3. NothingIsLate'
    BY <1>1, <2>1, <2>2 DEF SavedInv, NothingIsLate
  <2>4. ASSUME NEW C
        PROVE  CountIn(Held(Letter)', C) + StillOpen(C)' = CountIn(Held(Letter), C) + StillOpen(C)
    <3>1. StillOpen(C) = 0 /\ StillOpen(C)' = 0
      BY <2>1 DEF StillOpen
    <3> QED BY <2>2, <3>1
  <2>5. NothingIsLost'
    BY <1>1, <1>2, <2>4, SameCounts
  <2> QED BY <2>3, <2>5
<1>3. CASE stream # NULL
  <2>1. data.size = 0 /\ data.mode \in Reading \cup {"INPUT_FORMAT", "INPUT_BINARY"}
    BY <1>3 DEF EarlyReturn
  <2>2. data.content = <<>>
    <3>1. CASE data.mode \in Reading
      BY <1>1, <3>1 DEF LogInv, CallTyped
    <3>2. CASE data.mode \in CardModes
      <4>1. data.content \in Seq(Nat) /\ Len(data.content) = 0
        BY <1>1, <2>1, <3>2 DEF LogInv, CallTyped
      <4> QED BY <4>1, EmptySeq
    <3> QED BY <2>1, <3>1, <3>2 DEF CardModes
  <2>3. ToCome = <<>> /\ ToCome' = <<>>
    BY <1>1, <2>2, NothingToHand DEF ToCome
  <2> QED BY <1>1, <2>3, NothingIsHanded
<1> QED BY <1>2, <1>3

\* The end of the process.
LEMMA ExitSaves ==
  ASSUME SavedInv, LogInv', Exit
  PROVE  NothingIsLate' /\ NothingIsLost'
<1>0. LogInv /\ stream = NULL /\ UNCHANGED <<stream, data, i, at, buffer, calls, meant, late>>
      /\ Letter \in Names
  BY DEF SavedInv, Exit, Names
<1>1. stream.name \notin Names /\ stream'.name \notin Names
  BY <1>0, NoStream
<1>2. CASE UNCHANGED <<file, leaked>>
  <2>1. \A f \in Names : Held(f)' = Held(f)
    BY <1>2 DEF Held
  <2>2. NothingIsLate'
    BY <1>0, <1>1, <2>1 DEF SavedInv, NothingIsLate
  <2>3. ASSUME NEW C
        PROVE  CountIn(Held(Letter)', C) + StillOpen(C)' = CountIn(Held(Letter), C) + StillOpen(C)
    <3>1. StillOpen(C) = 0 /\ StillOpen(C)' = 0
      BY <1>0, <1>1 DEF StillOpen
    <3> QED BY <1>0, <2>1, <3>1
  <2>4. NothingIsLost'
    BY <1>0, <1>2, <2>3, SameCounts
  <2> QED BY <2>2, <2>4
<1>3. ASSUME pc = "exit",
             NEW k \in DOMAIN leaked, file' = Flushed(leaked[k], leaked[k].pend),
             leaked' = RemoveAt(leaked, k)
      PROVE  NothingIsLate' /\ NothingIsLost'
  <2>1. /\ leaked[k] \in Streams /\ Fits(leaked[k]) /\ leaked[k].mode \in Buffered
        /\ leaked[k].pend \in Seq(Elements) /\ k \in 1 .. Len(leaked)
        /\ leaked \in Seq(Streams) /\ leaked[k].name \in Names
    BY <1>0, <1>3, ExitFlushes DEF LogInv, LogTyped, Streams
  <2>2. late # "no"
    <3>1. Len(leaked) # 0
      BY <2>1, LenProperties
    <3>2. leaked # <<>>
      BY <3>1
    <3> QED BY <1>0, <3>2 DEF LogInv, StreamsFit
  <2>3. NothingIsLate'
    BY <1>0, <2>2 DEF NothingIsLate
  <2> DEFINE st == leaked[k]
             Mine(C) == IF st.name = Letter THEN CountIn(st.pend, C) ELSE 0
  <2>4. ASSUME NEW C
        PROVE  /\ CountIn(Held(Letter)', C) = CountIn(Held(Letter), C) + Mine(C)
               /\ CountIn(Held(Letter), C) \in Nat /\ Mine(C) \in Nat
    <3>1. Held(Letter) \in Seq(Elements) /\ CountIn(Held(Letter), C) \in Nat
          /\ CountIn(st.pend, C) \in Nat
      BY <1>0, <2>1, HeldTyped, CountInConcat DEF LogInv
    <3>2. CASE st.name = Letter
      <4>1. st.kind = "a"
        BY <2>1, <3>2 DEF Fits, NameOf, fopenMode, Buffered, Letter
      <4>2. file'[Letter] = Held(Letter) \o st.pend
        BY <1>0, <1>3, <3>2, <4>1, SameFlush DEF LogInv
      <4>3. Held(Letter) \o st.pend \in Seq(Elements)
        BY <2>1, <3>1, ConcatProperties
      <4>4. Held(Letter)' = Held(Letter) \o st.pend
        BY <1>0, <4>2, <4>3, FileIsHeld DEF Held, LogInv
      <4>5. CountIn(Held(Letter)', C) = CountIn(Held(Letter), C) + CountIn(st.pend, C)
        BY <2>1, <3>1, <4>4, CountInConcat
      <4> QED BY <3>1, <3>2, <4>5
    <3>3. CASE st.name # Letter
      <4>1. file'[Letter] = file[Letter]
        BY <1>0, <1>3, <3>3, SameFlush DEF LogInv
      <4>2. Held(Letter)' = Held(Letter)
        BY <4>1 DEF Held
      <4> QED BY <3>1, <3>3, <4>2
    <3> QED BY <3>2, <3>3
  <2>5. ASSUME NEW C
        PROVE  /\ Total(LeftIn(leaked, C), 1 .. Len(leaked))
                     = Mine(C) + Total(LeftIn(leaked', C), 1 .. Len(leaked'))
               /\ Total(LeftIn(leaked', C), 1 .. Len(leaked')) \in Int
    <3>1. leaked' \in Seq(Streams)
      BY DEF LogInv, LogTyped
    <3> QED BY <1>3, <2>1, <3>1, LeftInRemove, LeftInFacts
  <2> HIDE DEF Mine
  <2>6. \A C : StillOpen(C) = 0 /\ StillOpen(C)' = 0
    BY <1>0, <1>1 DEF StillOpen
  <2>7. NothingIsLost'
    <3> SUFFICES ASSUME late = "tail", NEW C \in SUBSET Elements
                 PROVE  CountIn(meant'[Letter], C)
                           = CountIn(Held(Letter)', C) + StillOpen(C)'
                             + Total(LeftIn(leaked', C), 1 .. Len(leaked'))
      BY <1>0 DEF NothingIsLost, CountIn, LeftIn
    <3>1. CountIn(meant[Letter], C) = CountIn(Held(Letter), C) + StillOpen(C)
                                      + Total(LeftIn(leaked, C), 1 .. Len(leaked))
      BY DEF SavedInv, NothingIsLost
    <3> QED BY <1>0, <2>4, <2>5, <2>6, <3>1
  <2> QED BY <2>3, <2>7
<1> QED BY <1>2, <1>3 DEF Exit

\* All of it: no text is late before one is left behind, and none is lost after that as
\* long as texts are only appended.
LEMMA LogIsSaved == Spec => []SavedInv
<1>1. Init => SavedInv
  <2> SUFFICES ASSUME Init PROVE NothingIsLate /\ NothingIsLost
    BY LogStarts DEF SavedInv
  <2>1. stream.name \notin Names /\ late = "no"
    BY NoStream DEF Init
  <2>2. \A f \in Names : meant[f] = Held(f)
    BY DEF Init, Held
  <2> QED BY <2>1, <2>2 DEF NothingIsLate, NothingIsLost
<1>2. SavedInv /\ [Next]_vars => SavedInv'
  <2> SUFFICES ASSUME SavedInv, [Next]_vars PROVE SavedInv'
    OBVIOUS
  <2>0. LogInv /\ LogInv'
    BY LogStep DEF SavedInv
  <2> SUFFICES NothingIsLate' /\ NothingIsLost'
    BY <2>0 DEF SavedInv
  <2>1. CASE UNCHANGED vars
    <3>1. InHand' = InHand
      BY <2>1 DEF vars, InHand, ToCome
    <3> QED BY <2>1, <3>1, SameInHand DEF vars
  <2>2. CASE logModuleExecute
    BY <2>2, CallIsNotLate, CallLosesNothing
  <2>3. CASE EarlyReturn
    BY <2>0, <2>3, EarlyReturnSaves
  <2>4. CASE readCharInfoFromFile \/ readFormatStringInfoFromFile \/ readBinaryInfoFromFile
             \/ readStringInfoFromFile
    <3>1. \E mode \in Reading : Running(mode) /\ UNCHANGED <<file, stream, leaked, data, meant, late>>
      BY <2>4 DEF readCharInfoFromFile, readFormatStringInfoFromFile, readBinaryInfoFromFile,
                  readStringInfoFromFile, Read, callerVars, Reading
    <3> QED BY <2>0, <3>1, ReadingSaves
  <2>5. CASE FileOperDataFree
    <3>1. stream \in Streams /\ InHand = stream.pend /\ stream' = NULL
          /\ file' = Flushed(stream, stream.pend) /\ UNCHANGED <<leaked, meant, late>>
      BY <2>0, <2>5, InHandFacts DEF FileOperDataFree, LogInv, LogTyped
    <3> QED BY <2>0, <3>1, AllFlushed
  <2>6. CASE StartAgain
    <3>1. pc = "gone" /\ pc' = "idle" /\ UNCHANGED <<file, stream, leaked, meant, late>>
      BY <2>6 DEF StartAgain
    <3>2. InHand' = InHand
      BY <2>0, <3>1, InHandFacts, InHandNext
    <3> QED BY <3>1, <3>2, SameInHand
  <2>7. CASE Exit
    BY <2>0, <2>7, ExitSaves
  <2> QED BY <2>1, <2>2, <2>3, <2>4, <2>5, <2>6, <2>7, CharIsSaved, FlushIsSaved, CardsAreSaved
          DEF Next, Functions
<1> QED BY <1>1, <1>2, PTL DEF Spec

\* A call without a stream wanted a file that is there, and there is none.
Refused == pc = "run" /\ stream = NULL => /\ data.mode \in Modes
                                          /\ fopenMode[data.mode] \in {"r", "r+"}
                                          /\ file[NameOf(data.mode)] = Absent

\* Only fopen leaves a call without a stream.
LEMMA OnlyMissingFilesRefuse == Spec => []Refused
<1>1. Init => Refused
  BY DEF Init, Refused
<1>2. LogInv /\ Refused /\ [Next]_vars => Refused'
  <2> SUFFICES ASSUME LogInv, Refused, [Next]_vars PROVE Refused'
    OBVIOUS
  <2>1. CASE UNCHANGED vars
    BY <2>1 DEF vars, Refused
  <2>2. CASE logModuleExecute
    <3>1. PICK d \in Requests :
            LET f == NameOf(d.mode)  kind == fopenMode[d.mode]
                fails == kind \in {"r", "r+"} /\ file[f] = Absent
            IN /\ data' = IF d.mode \in Reading THEN [d EXCEPT !.size = @ + Len(Held(f))] ELSE d
               /\ stream' = IF fails THEN NULL
                            ELSE [kind |-> kind, name |-> f, mode |-> d.mode, pos |-> Seek(d),
                                  pend |-> <<>>]
               /\ file' = [file EXCEPT ![f] = IF fails THEN Absent
                                              ELSE IF kind = "w" THEN <<>> ELSE Held(f)]
      BY <2>2 DEF logModuleExecute
    <3> DEFINE f == NameOf(d.mode)
               kind == fopenMode[d.mode]
               fails == kind \in {"r", "r+"} /\ file[f] = Absent
    <3>2. d \in [mode : Modes, content : Seq(Elements), offset : Nat, size : Nat]
      BY RequestsTyped
    <3>3. data'.mode = d.mode
      BY <3>1, <3>2
    <3>4. f \in Names /\ kind \in {"a", "r", "w", "r+"}
      BY <3>2 DEF NameOf, Names, fopenMode, Modes
    <3>5. CASE fails
      <4>1. file'[f] = Absent
        BY <3>1, <3>4, <3>5 DEF LogInv, LogTyped
      <4> QED BY <3>2, <3>3, <3>5, <4>1 DEF Refused
    <3>6. CASE ~fails
      <4>1. stream'.kind = kind
        BY <3>1, <3>6
      <4>2. stream' # NULL
        BY <3>4, <4>1, NoStream
      <4> QED BY <4>2 DEF Refused
    <3> QED BY <3>5, <3>6
  <2>3. CASE EarlyReturn \/ FileOperDataFree \/ Exit \/ StartAgain
    BY <2>3 DEF EarlyReturn, Return, FileOperDataFree, Exit, StartAgain, Refused
  <2>4. ASSUME NEW m, Running(m), stream'.kind = stream.kind
        PROVE  Refused'
    <3>1. stream \in Streams /\ stream.kind # "NULL"
      BY <2>4, RunningFacts DEF LogInv, LogTyped, Streams
    <3>2. stream' # NULL
      BY <2>4, <3>1, NoStream
    <3> QED BY <3>2 DEF Refused
  <2>5. CASE writeCharInfoToFile \/ writeBianryInfoIntoFile
    <3>1. \E m : Running(m) /\ stream # NULL
      BY <2>5 DEF writeCharInfoToFile, writeBianryInfoIntoFile, Running
    <3>2. stream \in Streams
      BY <3>1 DEF LogInv, LogTyped
    <3>3. stream'.kind = stream.kind
      BY <2>5, <3>2 DEF writeCharInfoToFile, writeBianryInfoIntoFile, Streams
    <3> QED BY <2>4, <3>1, <3>3
  <2>6. CASE \/ writeFlushed \/ readCharInfoFromFile \/ readStringInfoFromFile
             \/ readFormatStringInfoFromFile \/ readBinaryInfoFromFile
    <3>1. (\E m : Running(m)) /\ stream' = stream
      BY <2>6 DEF writeFlushed, readCharInfoFromFile, readStringInfoFromFile,
                  readFormatStringInfoFromFile, readBinaryInfoFromFile, Read, callerVars
    <3> QED BY <2>4, <3>1
  <2> QED BY <2>1, <2>2, <2>3, <2>5, <2>6 DEF Next, Functions
<1> QED BY <1>1, <1>2, LogIsTyped, PTL DEF Spec

\* Each element once: what is counted of one kind.
LEMMA SameCountsSame ==
  ASSUME NEW s \in Seq(Elements), NEW t \in Seq(Elements),
         \A C \in SUBSET Elements : CountIn(s, C) = CountIn(t, C)
  PROVE  SameCharacters(s, t)
<1>1. \A k \in DOMAIN s : s[k] \in Elements
  BY ElementOfSeq, LenProperties
<1>2. \A k \in DOMAIN s : Occurrences(s, s[k]) = Occurrences(t, s[k])
  <2> SUFFICES ASSUME NEW k \in DOMAIN s PROVE Occurrences(s, s[k]) = Occurrences(t, s[k])
    OBVIOUS
  <2> DEFINE c == s[k]
  <2>1. {c} \in SUBSET Elements
    BY <1>1
  <2> HIDE DEF c
  <2>2. CountIn(s, {c}) = CountIn(t, {c})
    BY <2>1
  <2>3. CountIn(s, {c}) = Occurrences(s, c) /\ CountIn(t, {c}) = Occurrences(t, c)
    <3>1. \A u : {h \in DOMAIN u : u[h] \in {c}} = {h \in DOMAIN u : u[h] = c}
      OBVIOUS
    <3> QED BY <3>1 DEF CountIn, Occurrences
  <2> QED BY <2>2, <2>3 DEF c
<1>3. ASSUME NEW u \in Seq(Elements) PROVE CountIn(u, Elements) = Len(u)
  <2>1. DOMAIN u = 1 .. Len(u) /\ Len(u) \in Nat /\ \A k \in DOMAIN u : u[k] \in Elements
    BY ElementOfSeq, LenProperties
  <2>2. {k \in DOMAIN u : u[k] \in Elements} = 1 .. Len(u)
    BY <2>1
  <2>3. Cardinality(1 .. Len(u)) = Len(u)
    <3> DEFINE n == Len(u)
    <3>1. n \in Nat
      BY <2>1
    <3> HIDE DEF n
    <3>2. Cardinality(1 .. n) = IF 1 > n THEN 0 ELSE n - 1 + 1
      BY <3>1, FS_Interval
    <3>3. Cardinality(1 .. n) = n
      BY <3>1, <3>2
    <3> QED BY <3>3 DEF n
  <2> QED BY <2>2, <2>3 DEF CountIn
<1>4. Len(s) = Len(t)
  BY <1>3
<1> QED BY <1>2, <1>4 DEF SameCharacters

\* What is asked to be written is in the files, in the order of the calls, as long as the
\* caller frees after a mode that does not flush; what is left behind all the same is in
\* the letter in the end, if texts are only appended; and no text is refused but one that
\* is to alter a letter that does not exist.
THEOREM LogSaved == Spec => []Saved
<1>1. SavedInv /\ Refused => Saved
  <2> SUFFICES ASSUME SavedInv, Refused PROVE Saved
    OBVIOUS
  <2>1. LogInv
    BY DEF SavedInv
  <2>2. ASSUME pc = "idle", late = "no", NEW f \in Names
        PROVE  meant[f] = IF stream.name = f THEN Flushed(stream, stream.pend)[f] ELSE Held(f)
    <3>1. InHand = stream.pend
      BY <2>1, <2>2, InHandFacts
    <3> QED BY <2>2, <3>1 DEF SavedInv, NothingIsLate
  <2>3. ASSUME pc = "gone", late = "tail"
        PROVE  SameCharacters(meant[Letter], Held(Letter))
    <3>1. stream.name # Letter /\ leaked = <<>> /\ Letter \in Names
      BY <2>1, <2>3, NoStream DEF LogInv, StreamsFit, Names
    <3>2. meant[Letter] \in Seq(Elements) /\ Held(Letter) \in Seq(Elements)
      BY <2>1, <3>1, HeldTyped DEF LogInv, LogTyped
    <3>3. ASSUME NEW C \in SUBSET Elements
          PROVE  CountIn(meant[Letter], C) = CountIn(Held(Letter), C)
      <4>1. StillOpen(C) = 0
        BY <3>1 DEF StillOpen
      <4>2. Total(LeftIn(leaked, C), 1 .. Len(leaked)) = 0
        <5> DEFINE n == Len(leaked)
        <5>1. n = 0
          BY <3>1
        <5>2. IsFiniteSet(1 .. n) /\ 1 .. n = {}
          BY <5>1, FS_EmptySet
        <5>3. \A x \in 1 .. n : LeftIn(leaked, C)[x] \in Int
          BY <5>2
        <5> HIDE DEF n
        <5>4. Total(LeftIn(leaked, C), 1 .. n) = 0
          BY <5>2, <5>3, TotalFacts
        <5> QED BY <5>4 DEF n
      <4>3. CountIn(Held(Letter), C) \in Nat
        BY <3>2, CountInConcat
      <4> QED BY <2>3, <4>1, <4>2, <4>3 DEF SavedInv, NothingIsLost
    <3> QED BY <3>2, <3>3, SameCountsSame
  <2>4. ASSUME pc = "run", stream = NULL, data.content # <<>>
        PROVE  data.mode = "ALTER_WRITE" /\ file[Letter] = Absent
    <3>1. data.mode \notin Reading
      BY <2>1, <2>4 DEF LogInv, CallTyped
    <3>2. /\ data.mode \in Modes /\ fopenMode[data.mode] \in {"r", "r+"}
          /\ file[NameOf(data.mode)] = Absent
      BY <2>4 DEF Refused
    <3>3. data.mode = "ALTER_WRITE"
      BY <3>1, <3>2 DEF fopenMode, Modes, Reading
    <3> QED BY <3>2, <3>3 DEF NameOf
  <2> QED BY <2>2, <2>3, <2>4 DEF Saved
<1> QED BY <1>1, LogIsSaved, OnlyMissingFilesRefuse, PTL

-----------------------------------------------------------------------------
(* The lines of a text.                                                     *)

\* A set of integers that is bounded above has a greatest element.
LEMMA GreatestExists ==
  ASSUME NEW S \in SUBSET Int, S # {}, NEW b \in Int, \A x \in S : x <= b
  PROVE  /\ Max(S) \in S
         /\ \A x \in S : Max(S) >= x
<1> DEFINE T == {n \in Nat : (\E x \in S : x >= b - n) => \E x \in S : \A y \in S : x >= y}
<1>1. 0 \in T
  OBVIOUS
<1>2. ASSUME NEW n \in Nat, n \in T
      PROVE  n + 1 \in T
  <2> SUFFICES ASSUME NEW x \in S, x >= b - (n + 1), ~ \E z \in S : z >= b - n
               PROVE  \E z \in S : \A y \in S : z >= y
    BY <1>2
  <2>1. \A y \in S : x >= y
    OBVIOUS
  <2> QED BY <2>1
<1>3. Nat \subseteq T
  <2> HIDE DEF T
  <2> QED BY <1>1, <1>2, NatSetInduction
<1>4. PICK x \in S : TRUE
  OBVIOUS
<1>5. b - x \in Nat /\ x >= b - (b - x)
  OBVIOUS
<1>6. \E z \in S : \A y \in S : z >= y
  BY <1>3, <1>4, <1>5
<1> QED BY <1>6 DEF Max

\* A text up to its NUL has no NUL.
LEMMA StrlenIs ==
  ASSUME NEW S, NEW s \in Seq(S), NEW m \in 0 .. Len(s), \A k \in 1 .. m : s[k] # NUL,
         m # Len(s) => s[m + 1] = NUL
  PROVE  strlen(s) = m
<1> DEFINE n == strlen(s)
<1>1. /\ n \in 0 .. Len(s) /\ Len(s) \in Nat
      /\ \A k \in 1 .. n : s[k] # NUL
      /\ n # Len(s) => s[n + 1] = NUL
  BY StrlenFacts
<1> HIDE DEF n
<1>2. ~(n < m)
  <2> SUFFICES ASSUME n < m PROVE FALSE
    OBVIOUS
  <2>1. n # Len(s) /\ n + 1 \in 1 .. m
    BY <1>1
  <2> QED BY <1>1, <2>1
<1>3. ~(m < n)
  <2> SUFFICES ASSUME m < n PROVE FALSE
    OBVIOUS
  <2>1. m # Len(s) /\ m + 1 \in 1 .. n
    BY <1>1
  <2> QED BY <1>1, <2>1
<1> QED BY <1>1, <1>2, <1>3 DEF n

\* What comes before it.
LEMMA UpToNulFacts ==
  ASSUME NEW S, NEW s \in Seq(S)
  PROVE  /\ UpToNul(s) \in Seq(S) /\ Len(UpToNul(s)) = strlen(s)
         /\ \A k \in 1 .. strlen(s) : UpToNul(s)[k] = s[k] /\ s[k] # NUL
<1> DEFINE n == strlen(s)
<1>1. n \in 0 .. Len(s) /\ Len(s) \in Nat /\ \A k \in 1 .. n : s[k] # NUL
  BY StrlenFacts
<1> HIDE DEF n
<1>2. n \in Int /\ n <= Len(s) /\ 1 \in Nat /\ 1 >= 1
  BY <1>1
<1>3. /\ SubSeq(s, 1, n) \in Seq(S)
      /\ Len(SubSeq(s, 1, n)) = IF 1 <= n THEN n - 1 + 1 ELSE 0
      /\ \A k \in 1 .. Len(SubSeq(s, 1, n)) : SubSeq(s, 1, n)[k] = s[1 + k - 1]
  BY <1>2, PartFacts
<1>4. Len(SubSeq(s, 1, n)) = n
  BY <1>1, <1>3
<1>5. \A k \in 1 .. n : SubSeq(s, 1, n)[k] = s[k]
  BY <1>1, <1>3, <1>4
<1> QED BY <1>1, <1>3, <1>4, <1>5 DEF UpToNul, n

\* The line that ends at e begins behind the end before it.
LEMMA LineUpToFacts ==
  ASSUME NEW s \in Seq(Elements), NEW e \in 1 .. Len(s)
  PROVE  LET p == Max({b \in {0} \cup LineEnds(s) : b < e})
         IN /\ p \in {0} \cup LineEnds(s) /\ p \in 0 .. e - 1
            /\ \A b \in {0} \cup LineEnds(s) : b < e => b <= p
            /\ LineUpTo(s, e) = SubSeq(s, p + 1, e) /\ LineUpTo(s, e) \in Seq(Elements)
<1>1. Len(s) \in Nat /\ DOMAIN s = 1 .. Len(s)
  BY LenProperties
<1>2. LineEnds(s) \subseteq 0 .. Len(s)
  BY <1>1 DEF LineEnds
<1> DEFINE ends == {0} \cup LineEnds(s)
           B == {b \in ends : b < e}
           p == Max(B)
<1>3. 0 \in B /\ B \in SUBSET Int /\ \A b \in B : b <= e
  BY <1>1, <1>2
<1>4. p \in B /\ \A b \in B : p >= b
  <2> HIDE DEF B
  <2>1. e \in Int /\ B # {}
    BY <1>1, <1>3
  <2> QED BY <1>3, <2>1, GreatestExists
<1> HIDE DEF p
<1>5. p \in ends /\ p < e /\ \A b \in ends : b < e => b <= p
  BY <1>1, <1>2, <1>4
<1>6. p \in 0 .. e - 1
  BY <1>1, <1>2, <1>5
<1>7. LineUpTo(s, e) = SubSeq(s, p + 1, e)
  BY DEF LineUpTo, p
<1>8. LineUpTo(s, e) \in Seq(Elements)
  <2>1. p + 1 \in Nat /\ p + 1 >= 1 /\ e \in Int /\ e <= Len(s)
    BY <1>1, <1>6
  <2> QED BY <1>7, <2>1, PartFacts
<1> QED BY <1>5, <1>6, <1>7, <1>8 DEF p

\* What an element adds.
LEMMA PieceTyped ==
  ASSUME NEW s \in Seq(Elements), NEW e \in 1 .. Len(s)
  PROVE  Piece(s, e) \in Seq(Elements)
<1>1. LineUpTo(s, e) \in Seq(Elements)
  BY LineUpToFacts
<1>2. UpToNul(LineUpTo(s, e)) \in Seq(Elements)
  BY <1>1, UpToNulFacts
<1> QED BY <1>2, EmptySeq DEF Piece

\* There is a function that puts the lines of a text after one another.
LEMMA LinesExist ==
  ASSUME NEW s \in Seq(Elements)
  PROVE  \E g \in [0 .. Len(s) -> Seq(Elements)] :
            g[0] = <<>> /\ \A n \in 1 .. Len(s) : g[n] = g[n - 1] \o Piece(s, n)
<1>0. Len(s) \in Nat
  BY LenProperties
<1> DEFINE Good(g, m) == g[0] = <<>> /\ \A n \in 1 .. m : g[n] = g[n - 1] \o Piece(s, n)
           T == {m \in Nat : m <= Len(s) => \E g \in [0 .. m -> Seq(Elements)] : Good(g, m)}
<1>1. 0 \in T
  <2> DEFINE g == [n \in 0 .. 0 |-> <<>>]
  <2>1. g \in [0 .. 0 -> Seq(Elements)]
    BY EmptySeq
  <2>2. Good(g, 0)
    OBVIOUS
  <2> QED BY <2>1, <2>2
<1>2. ASSUME NEW m \in Nat, m \in T
      PROVE  m + 1 \in T
  <2> SUFFICES ASSUME m + 1 <= Len(s)
               PROVE  \E h \in [0 .. m + 1 -> Seq(Elements)] : Good(h, m + 1)
    <3> HIDE DEF Good
    <3> QED OBVIOUS
  <2>0. \E g \in [0 .. m -> Seq(Elements)] : Good(g, m)
    <3> HIDE DEF Good
    <3>1. m <= Len(s)
      BY <1>0
    <3> QED BY <1>2, <3>1
  <2>1. PICK g \in [0 .. m -> Seq(Elements)] : Good(g, m)
    BY <2>0
  <2> DEFINE new == g[m] \o Piece(s, m + 1)
             h == [n \in 0 .. m + 1 |-> IF n = m + 1 THEN new ELSE g[n]]
  <2>2. new \in Seq(Elements)
    <3>1. m + 1 \in 1 .. Len(s) /\ g[m] \in Seq(Elements)
      BY <1>0
    <3> QED BY <3>1, PieceTyped, ConcatProperties
  <2> HIDE DEF new
  <2>3. h \in [0 .. m + 1 -> Seq(Elements)]
    BY <2>2
  <2>4. h[m + 1] = new /\ \A n \in 0 .. m : h[n] = g[n]
    OBVIOUS
  <2> HIDE DEF h
  <2>5. h[0] = <<>>
    BY <2>1, <2>4
  <2>6. ASSUME NEW n \in 1 .. m + 1
        PROVE  h[n] = h[n - 1] \o Piece(s, n)
    <3>1. CASE n = m + 1
      <4>1. n - 1 = m /\ h[n - 1] = g[m]
        BY <2>4, <3>1
      <4> QED BY <2>4, <3>1, <4>1 DEF new
    <3>2. CASE n # m + 1
      <4>1. n \in 1 .. m /\ n - 1 \in 0 .. m /\ n \in 0 .. m
        BY <3>2
      <4> QED BY <2>1, <2>4, <4>1
    <3> QED BY <3>1, <3>2
  <2> QED BY <2>3, <2>5, <2>6
<1>3. Nat \subseteq T
  <2> HIDE DEF T
  <2> QED BY <1>1, <1>2, NatSetInduction
<1>4. \E g \in [0 .. Len(s) -> Seq(Elements)] : Good(g, Len(s))
  <2> HIDE DEF Good
  <2> QED BY <1>0, <1>3
<1> QED BY <1>4

\* LinesUpTo is that function.
LEMMA LinesUpToFacts ==
  ASSUME NEW s \in Seq(Elements)
  PROVE  /\ LinesUpTo(s)[0] = <<>>
         /\ \A n \in 1 .. Len(s) : LinesUpTo(s)[n] = LinesUpTo(s)[n - 1] \o Piece(s, n)
<1>0. Len(s) \in Nat
  BY LenProperties
<1> DEFINE F(g) == [n \in 0 .. Len(s) |-> IF n = 0 THEN <<>> ELSE g[n - 1] \o Piece(s, n)]
           lines == CHOOSE g : g = F(g)
<1>1. PICK g \in [0 .. Len(s) -> Seq(Elements)] :
         g[0] = <<>> /\ \A n \in 1 .. Len(s) : g[n] = g[n - 1] \o Piece(s, n)
  BY LinesExist
<1>2. g = F(g)
  <2>1. \A n \in 0 .. Len(s) : n # 0 => n \in 1 .. Len(s)
    BY <1>0
  <2> QED BY <1>1, <2>1
<1>3. lines = F(lines)
  <2> HIDE DEF F
  <2> QED BY <1>2
<1>4. LinesUpTo(s) = lines
  BY DEF LinesUpTo, Piece
<1> HIDE DEF lines
<1>5. lines[0] = <<>>
  BY <1>0, <1>3
<1>6. ASSUME NEW n \in 1 .. Len(s) PROVE lines[n] = lines[n - 1] \o Piece(s, n)
  <2>1. n \in 0 .. Len(s) /\ n # 0
    BY <1>0
  <2> QED BY <1>3, <2>1
<1> QED BY <1>4, <1>5, <1>6

\* The lines are sequences.
LEMMA LinesTyped ==
  ASSUME NEW s \in Seq(Elements)
  PROVE  \A n \in 0 .. Len(s) : LinesUpTo(s)[n] \in Seq(Elements)
<1>0. Len(s) \in Nat
  BY LenProperties
<1> DEFINE lines == LinesUpTo(s)
           T == {n \in Nat : n <= Len(s) => lines[n] \in Seq(Elements)}
<1>1. lines[0] = <<>> /\ \A n \in 1 .. Len(s) : lines[n] = lines[n - 1] \o Piece(s, n)
  BY LinesUpToFacts
<1> HIDE DEF lines
<1>2. 0 \in T
  BY <1>1, EmptySeq
<1>3. ASSUME NEW n \in Nat, n \in T
      PROVE  n + 1 \in T
  <2> SUFFICES ASSUME n + 1 <= Len(s) PROVE lines[n + 1] \in Seq(Elements)
    OBVIOUS
  <2>1. n + 1 \in 1 .. Len(s) /\ (n + 1) - 1 = n /\ lines[n] \in Seq(Elements)
    BY <1>0, <1>3
  <2>2. lines[n + 1] = lines[n] \o Piece(s, n + 1)
    BY <1>1, <2>1
  <2>3. Piece(s, n + 1) \in Seq(Elements)
    BY <2>1, PieceTyped
  <2> QED BY <2>1, <2>2, <2>3, ConcatProperties
<1>4. Nat \subseteq T
  <2> HIDE DEF T
  <2> QED BY <1>2, <1>3, NatSetInduction
<1>5. \A n \in 0 .. Len(s) : lines[n] \in Seq(Elements)
  BY <1>0, <1>4
<1> QED BY <1>5 DEF lines

\* Where no line ends nothing is added.
LEMMA SameLines ==
  ASSUME NEW s \in Seq(Elements), NEW p \in Nat, NEW e \in Nat, p + e <= Len(s),
         \A b \in 1 .. Len(s) : p < b /\ b < p + e => b \notin LineEnds(s)
  PROVE  \A d \in Nat : d < e => LinesUpTo(s)[p + d] = LinesUpTo(s)[p]
<1>0. Len(s) \in Nat
  BY LenProperties
<1> DEFINE lines == LinesUpTo(s)
           T == {d \in Nat : d < e => lines[p + d] = lines[p]}
<1>1. \A n \in 1 .. Len(s) : lines[n] = lines[n - 1] \o Piece(s, n)
  BY LinesUpToFacts
<1>2. \A n \in 0 .. Len(s) : lines[n] \in Seq(Elements)
  BY LinesTyped
<1> HIDE DEF lines
<1>3. 0 \in T
  OBVIOUS
<1>4. ASSUME NEW d \in Nat, d \in T
      PROVE  d + 1 \in T
  <2> SUFFICES ASSUME d + 1 < e PROVE lines[p + (d + 1)] = lines[p]
    OBVIOUS
  <2> DEFINE b == p + (d + 1)
  <2>1. b \in 1 .. Len(s) /\ p < b /\ b < p + e /\ b - 1 = p + d /\ p + d \in 0 .. Len(s)
    BY <1>0
  <2>2. lines[p + d] = lines[p]
    BY <1>4
  <2> HIDE DEF b
  <2>3. b \notin LineEnds(s)
    BY <2>1
  <2>4. Piece(s, b) = <<>>
    BY <2>3 DEF Piece
  <2>5. lines[b] = lines[p + d] \o <<>>
    BY <1>1, <2>1, <2>4
  <2>6. lines[p + d] \in Seq(Elements)
    BY <1>2, <2>1
  <2>7. lines[b] = lines[p]
    BY <2>2, <2>5, <2>6, ConcatEmptySeq
  <2> QED BY <2>7 DEF b
<1>5. Nat \subseteq T
  <2> HIDE DEF T
  <2> QED BY <1>3, <1>4, NatSetInduction
<1>6. \A d \in Nat : d < e => lines[p + d] = lines[p]
  BY <1>5
<1> QED BY <1>6 DEF lines

\* fgets, with room for the rest of the text: the next line, which starts where the one
\* before it ended.
LEMMA NextLine ==
  ASSUME LogInv, stream \in Streams, NEW n \in Int, NEW s \in Seq(Elements), s = text,
         i \in {0} \cup LineEnds(s), i <= Len(s), n - 1 >= Len(s) - i
  PROVE  LET line == Line(n)
         IN /\ line \in Seq(Elements) /\ Len(line) \in Nat /\ i \in Nat
            /\ i + Len(line) <= Len(s) /\ i + Len(line) \in {0} \cup LineEnds(s)
            /\ i < Len(s) => Len(line) > 0
            /\ LinesUpTo(s)[i + Len(line)] = LinesUpTo(s)[i] \o UpToNul(line)
<1>0. Len(s) \in Nat /\ DOMAIN s = 1 .. Len(s) /\ i \in Nat
  BY LenProperties DEF LogInv, LogTyped
<1> DEFINE p == i
           rest == SubSeq(s, p + 1, Len(s))
           ends == {k \in DOMAIN rest : rest[k] = EOL}
           m == Len(s) - p
           e == Min({n - 1, m} \cup ends)
           line == FirstOf(rest, e)
<1>1. rest \in Seq(Elements) /\ Len(rest) = m /\ m \in Nat
      /\ (\A k \in 1 .. m : rest[k] = s[p + k]) /\ DOMAIN rest = 1 .. m
  <2>1. p + 1 \in Nat /\ p + 1 >= 1 /\ Len(s) \in Int /\ Len(s) <= Len(s) /\ m \in Nat
    BY <1>0
  <2>2. /\ rest \in Seq(Elements)
        /\ Len(rest) = IF p + 1 <= Len(s) THEN Len(s) - (p + 1) + 1 ELSE 0
        /\ \A k \in 1 .. Len(rest) : rest[k] = s[(p + 1) + k - 1]
    BY <2>1, PartFacts
  <2>0. p \in Nat
    BY <1>0
  <2> HIDE DEF rest, p
  <2>3. Len(rest) = m
    <3>1. Len(rest) = IF p + 1 <= Len(s) THEN Len(s) - (p + 1) + 1 ELSE 0
      BY <2>2
    <3>2. Len(s) \in Nat /\ p \in Nat /\ p <= Len(s)
      BY <1>0, <2>0, <2>1
    <3> QED BY <3>1, <3>2
  <2>4. \A k \in 1 .. m : rest[k] = s[p + k]
    <3>1. \A k \in 1 .. m : (p + 1) + k - 1 = p + k
      BY <2>0
    <3> QED BY <2>2, <2>3, <3>1
  <2> QED BY <2>1, <2>2, <2>3, <2>4, LenProperties
<1>2. p \in Nat /\ p <= Len(s) /\ p \in {0} \cup LineEnds(s) /\ n - 1 >= m
  BY <1>0
<1>3. Line(n) = line
  BY <1>1 DEF Line
<1> HIDE DEF rest, p
<1>4. ends \in SUBSET (1 .. m)
  BY <1>1
<1>5. n - 1 \in Int /\ m \in Nat
  BY <1>1
<1>6. /\ e \in {n - 1, m} \cup ends /\ e \in Int /\ e <= n - 1 /\ e <= m
      /\ \A x \in ends : e <= x
  <2> HIDE DEF ends, m
  <2> QED BY <1>4, <1>5, LeastOfLine
<1> HIDE DEF e
<1>7. e \in 0 .. m /\ (m > 0 => e > 0)
  <2>1. e = n - 1 \/ e = m \/ e \in 1 .. m
    BY <1>4, <1>6
  <2> HIDE DEF m
  <2> QED BY <1>2, <1>5, <1>6, <2>1
<1>8. line \in Seq(Elements) /\ Len(line) = e /\ \A k \in 1 .. e : line[k] = s[p + k]
  <2>1. /\ line \in Seq(Elements)
        /\ Len(line) = IF e < 0 THEN 0 ELSE IF e < Len(rest) THEN e ELSE Len(rest)
        /\ \A k \in 1 .. Len(line) : line[k] = rest[k]
    BY <1>1, <1>6, FirstOfFacts
  <2> HIDE DEF line, m
  <2>2. Len(line) = e
    BY <1>1, <1>7, <2>1
  <2>3. \A k \in 1 .. e : k \in 1 .. m
    BY <1>1, <1>7
  <2> QED BY <1>1, <2>1, <2>2, <2>3
<1> HIDE DEF line
<1>9. p + e \in 0 .. Len(s) /\ p + e <= Len(s) /\ (p < Len(s) => e > 0)
  BY <1>0, <1>2, <1>7
<1>10. CASE e = 0
  <2>1. line = <<>>
    BY <1>8, <1>10, EmptySeq
  <2>2. UpToNul(line) = <<>>
    <3>1. strlen(line) = 0
      <4>1. strlen(line) \in 0 .. Len(line)
        BY <1>8, StrlenFacts
      <4> QED BY <1>8, <1>10, <4>1
    <3>2. UpToNul(line) \in Seq(Elements) /\ Len(UpToNul(line)) = 0
      BY <1>8, <3>1, UpToNulFacts
    <3> QED BY <3>2, EmptySeq
  <2>3. LinesUpTo(s)[p] \in Seq(Elements)
    BY <1>0, <1>2, LinesTyped
  <2>4. LinesUpTo(s)[p] \o <<>> = LinesUpTo(s)[p] /\ p + 0 = p
    BY <1>2, <2>3, ConcatEmptySeq
  <2> QED BY <1>2, <1>3, <1>8, <1>9, <1>10, <2>2, <2>4 DEF p
<1>11. CASE e > 0
  <2> DEFINE q == p + e
  <2>1. q \in 1 .. Len(s) /\ p < q
    <3>1. e \in Int /\ p \in Nat /\ Len(s) \in Nat /\ p + e <= Len(s)
      BY <1>0, <1>2, <1>6, <1>9
    <3> QED BY <1>11, <3>1
  <2>2. q \in LineEnds(s)
    <3>1. CASE e \in ends
      <4>1. s[q] = EOL
        BY <1>1, <1>4, <3>1
      <4> QED BY <1>0, <2>1, <4>1 DEF LineEnds
    <3>2. CASE e \notin ends
      <4>1. e = m
        <5>1. e = n - 1 \/ e = m
          BY <1>6, <3>2
        <5> HIDE DEF m
        <5> QED BY <1>2, <1>5, <1>6, <5>1
      <4>2. q = Len(s)
        BY <1>0, <1>2, <4>1
      <4> QED BY <4>2 DEF LineEnds
    <3> QED BY <3>1, <3>2
  <2>3. \A b \in 1 .. Len(s) : p < b /\ b < q => b \notin LineEnds(s)
    <3> SUFFICES ASSUME NEW b \in 1 .. Len(s), p < b, b < q, b \in LineEnds(s)
                 PROVE  FALSE
      OBVIOUS
    <3>1. b # Len(s)
      <4>1. e \in Int /\ p \in Nat /\ Len(s) \in Nat /\ p + e <= Len(s)
        BY <1>0, <1>2, <1>6, <1>9
      <4> QED BY <4>1
    <3>2. s[b] = EOL
      BY <3>1 DEF LineEnds
    <3>3. b - p \in 1 .. m /\ p + (b - p) = b /\ b - p < e
      <4>1. b \in Nat /\ p \in Nat /\ e \in Int /\ b <= Len(s) /\ b < p + e
        <5>1. e \in Int /\ p \in Nat /\ Len(s) \in Nat
          BY <1>0, <1>2, <1>6
        <5> QED BY <5>1
      <4> QED BY <1>0, <4>1
    <3>4. b - p \in ends
      BY <1>1, <3>2, <3>3
    <3>5. e <= b - p
      BY <1>6, <3>4
    <3> QED BY <1>6, <3>3, <3>5
  <2>4. LineUpTo(s, q) = line
    <3> DEFINE w == Max({b \in {0} \cup LineEnds(s) : b < q})
    <3>1. /\ w \in {0} \cup LineEnds(s) /\ w \in 0 .. q - 1
          /\ \A b \in {0} \cup LineEnds(s) : b < q => b <= w
          /\ LineUpTo(s, q) = SubSeq(s, w + 1, q) /\ LineUpTo(s, q) \in Seq(Elements)
      <4> HIDE DEF q
      <4> QED BY <2>1, LineUpToFacts
    <3> HIDE DEF w
    <3>2. p <= w
      BY <1>2, <2>1, <3>1
    <3>3. ~(p < w)
      <4> SUFFICES ASSUME p < w PROVE FALSE
        OBVIOUS
      <4>1. w \in 1 .. Len(s) /\ w < q /\ w \in LineEnds(s)
        BY <1>0, <1>2, <2>1, <3>1
      <4> QED BY <2>3, <4>1
    <3>4. w = p
      BY <1>2, <2>1, <3>1, <3>2, <3>3
    <3>5. /\ Len(LineUpTo(s, q)) = IF p + 1 <= q THEN q - (p + 1) + 1 ELSE 0
          /\ \A k \in 1 .. Len(LineUpTo(s, q)) : LineUpTo(s, q)[k] = s[(p + 1) + k - 1]
      <4>1. p + 1 \in Nat /\ p + 1 >= 1 /\ q \in Int /\ q <= Len(s)
        BY <1>0, <1>2, <2>1
      <4> HIDE DEF q
      <4> QED BY <3>1, <3>4, <4>1, PartFacts
    <3>6. Len(LineUpTo(s, q)) = e
      BY <1>2, <1>7, <2>1, <3>5
    <3>7. \A k \in 1 .. e : LineUpTo(s, q)[k] = line[k]
      <4>1. \A k \in 1 .. e : (p + 1) + k - 1 = p + k
        BY <1>2
      <4> HIDE DEF q
      <4> QED BY <1>8, <3>5, <3>6, <4>1
    <3> HIDE DEF q
    <3> QED BY <1>8, <3>1, <3>6, <3>7, SeqEqual
  <2>5. Piece(s, q) = UpToNul(line)
    BY <2>2, <2>4 DEF Piece
  <2>6. LinesUpTo(s)[q] = LinesUpTo(s)[q - 1] \o Piece(s, q)
    <3> HIDE DEF q
    <3> QED BY <2>1, LinesUpToFacts
  <2>7. LinesUpTo(s)[q - 1] = LinesUpTo(s)[p]
    <3>1. e \in Nat /\ e - 1 \in Nat /\ e - 1 < e /\ p + (e - 1) = q - 1
      BY <1>2, <1>7, <1>11
    <3>2. LinesUpTo(s)[p + (e - 1)] = LinesUpTo(s)[p]
      BY <1>2, <1>9, <2>3, <3>1, SameLines
    <3> QED BY <3>1, <3>2
  <2>8. LinesUpTo(s)[p + e] = LinesUpTo(s)[p] \o UpToNul(line)
    BY <2>5, <2>6, <2>7
  <2>9. p + e \in {0} \cup LineEnds(s) /\ p + e <= Len(s) /\ e \in Nat
    BY <1>7, <1>9, <2>2
  <2> QED BY <1>0, <1>3, <1>8, <1>11, <2>8, <2>9 DEF p
<1> QED BY <1>7, <1>10, <1>11

-----------------------------------------------------------------------------
(* What a read leaves with its caller.                                      *)

\* Nothing is read: there is no stream, or it is a call that writes.
LEMMA NotReading ==
  ASSUME LogInv',
         \/ stream' = NULL /\ buffer' = <<>>
         \/ stream' = NULL /\ pc' \in {"exit", "gone"}
         \/ data'.mode \notin Reading /\ (pc' # "run" \/ stream' # NULL)
  PROVE  RoomToSpare' /\ LinesRead' /\ CallerKeeps' /\ ReadsBack'
<1>1. data'.size \in Nat
  BY DEF LogInv, CallTyped
<1>2. RoomToSpare' /\ LinesRead'
  BY DEF RoomToSpare, LinesRead, Reading
<1>3. CallerKeeps'
  <2>1. buffer' = <<>> => Len(buffer') <= data'.size
    <3>1. \A s : s = <<>> => Len(s) = 0
      OBVIOUS
    <3> QED BY <1>1, <3>1
  <2> QED BY <2>1 DEF CallerKeeps
<1>4. ReadsBack'
  <2>1. CASE stream' = NULL
    BY <2>1 DEF ReadsBack
  <2>2. CASE data'.mode \notin Reading
    BY <2>2 DEF ReadsBack, Reading
  <2> QED BY <2>1, <2>2
<1> QED BY <1>2, <1>3, <1>4

\* A call that reads is given room for the file and the terminator.
LEMMA CallLeavesRoom ==
  ASSUME LogInv, 0 \notin Spares, logModuleExecute
  PROVE  RoomToSpare' /\ LinesRead' /\ CallerKeeps' /\ ReadsBack'
<1> PICK d \in Requests :
        LET f == NameOf(d.mode)  kind == fopenMode[d.mode]
            fails == kind \in {"r", "r+"} /\ file[f] = Absent
        IN /\ data' = IF d.mode \in Reading THEN [d EXCEPT !.size = @ + Len(Held(f))] ELSE d
           /\ stream' = IF fails THEN NULL
                        ELSE [kind |-> kind, name |-> f, mode |-> d.mode, pos |-> Seek(d),
                              pend |-> <<>>]
           /\ file' = [file EXCEPT ![f] = IF fails THEN Absent
                                          ELSE IF kind = "w" THEN <<>> ELSE Held(f)]
           /\ pc' = "run" /\ i' = 0 /\ at' = 0 /\ buffer' = <<>>
  BY DEF logModuleExecute
<1> DEFINE f == NameOf(d.mode)
           kind == fopenMode[d.mode]
           fails == kind \in {"r", "r+"} /\ file[f] = Absent
<1>0. LogInv'
  BY CallKeepsTypes
<1>1. /\ d \in [mode : Modes, content : Seq(Elements), offset : Nat, size : Nat]
      /\ d.mode \in Reading => d.size \in Spares
  BY RequestsTyped
<1>2. f \in Names /\ Held(f) \in Seq(Elements) /\ Len(Held(f)) \in Nat
  <2>1. f \in Names
    BY <1>1 DEF NameOf, Names, Modes
  <2> QED BY <2>1, HeldTyped, LenProperties DEF LogInv
<1>3. CASE fails
  BY <1>0, <1>3, NotReading
<1>4. CASE d.mode \notin Reading /\ ~fails
  <2>1. data'.mode \notin Reading
    BY <1>1, <1>4
  <2>2. stream' # NULL
    <3>1. stream'.kind = kind /\ kind # "NULL"
      BY <1>1, <1>4 DEF fopenMode, Modes
    <3> QED BY <3>1, NoStream
  <2> QED BY <1>0, <2>1, <2>2, NotReading
<1>5. CASE d.mode \in Reading /\ ~fails
  <2> DEFINE n == Len(Held(f))
  <2>1. n \in Nat /\ d.size \in Nat \ {0}
    BY <1>1, <1>2, <1>5
  <2>2. data' = [d EXCEPT !.size = d.size + n]
    BY <1>5
  <2> HIDE DEF n
  <2>3. data'.mode = d.mode /\ data'.size = d.size + n
    BY <1>1, <2>2
  <2>4. stream' # NULL /\ stream'.name = f
    <3>1. stream'.kind = kind /\ kind # "NULL" /\ stream'.name = f
      BY <1>1, <1>5 DEF fopenMode, Modes
    <3> QED BY <3>1, NoStream
  <2>5. file'[f] = Held(f) /\ Held(f) # Absent
    <3>1. kind # "w"
      BY <1>5 DEF fopenMode, Reading
    <3> QED BY <1>2, <1>5, <3>1, FileIsHeld DEF LogInv, LogTyped
  <2>6. text' = Held(f)
    BY <2>4, <2>5 DEF text, Held
  <2>7. RoomToSpare'
    BY <2>1, <2>3, <2>6 DEF RoomToSpare, n
  <2>8. CallerKeeps' /\ ReadsBack'
    BY <2>4 DEF CallerKeeps, ReadsBack
  <2>9. LinesRead'
    <3> DEFINE lines == LinesUpTo(Held(f))[0]
    <3>1. lines = <<>>
      BY <1>2, LinesUpToFacts
    <3> HIDE DEF lines
    <3>2. Len(lines) = 0 /\ Len(buffer') = 0
      <4>1. \A s : s = <<>> => Len(s) = 0
        OBVIOUS
      <4> QED BY <3>1, <4>1
    <3>3. data'.size \in Nat /\ Len(text') \in Nat
      BY <1>2, <2>1, <2>3, <2>6
    <3>4. LinesUpTo(text)[i]' = lines
      BY <2>6 DEF lines, LinesUpTo, LineEnds, LineUpTo, UpToNul, strlen
    <3> QED BY <3>2, <3>3, <3>4 DEF LinesRead
  <2> QED BY <2>7, <2>8, <2>9
<1> QED BY <1>3, <1>4, <1>5

\* What a read keeps: the stream, the file and the room.
LEMMA ReadingKeeps ==
  ASSUME LogInv, RoomToSpare, NEW mode \in Reading, Running(mode),
         UNCHANGED <<file, stream, callerVars>>
  PROVE  /\ RoomToSpare' /\ text' = text /\ data' = data /\ data.mode = mode
         /\ text \in Seq(Elements) /\ Len(text) \in Nat /\ data.size \in Nat
         /\ data.size > Len(text) /\ stream # NULL /\ stream \in Streams
<1>1. stream \in Streams /\ data.mode = mode /\ data' = data /\ stream # NULL
  BY RunningFacts DEF callerVars
<1>2. text \in Seq(Elements) /\ Len(text) \in Nat /\ data.size \in Nat
  BY <1>1, HeldTyped, LenProperties DEF LogInv, CallTyped, text, Streams
<1>3. text' = text
  BY DEF text, Held
<1>4. data.size > Len(text)
  BY <1>1 DEF RoomToSpare
<1>5. RoomToSpare'
  BY <1>1, <1>3, <1>4 DEF RoomToSpare
<1> QED BY <1>1, <1>2, <1>3, <1>4, <1>5

\* The letter, with a NUL behind it.
LEMMA LetterIsRead ==
  ASSUME ReadInv, readCharInfoFromFile
  PROVE  RoomToSpare' /\ LinesRead' /\ CallerKeeps' /\ ReadsBack'
<1>1. LogInv /\ RoomToSpare /\ Running("READ_CHAR") /\ "READ_CHAR" \in Reading
      /\ UNCHANGED <<file, stream, callerVars>> /\ pc' = "idle"
      /\ buffer' = Over(FirstOf(text, data.size), EndOfText, <<NUL>>)
  BY DEF ReadInv, readCharInfoFromFile, Read, Return, Reading
<1>2. /\ RoomToSpare' /\ text' = text /\ data' = data /\ data.mode = "READ_CHAR"
      /\ text \in Seq(Elements) /\ Len(text) \in Nat /\ data.size \in Nat
      /\ data.size > Len(text) /\ stream # NULL /\ stream \in Streams
  BY <1>1, ReadingKeeps
<1>3. PICK s \in Seq(Elements) : s = text
  BY <1>2
<1>4. FirstOf(s, data.size) = s
  BY <1>2, <1>3, FirstOfFacts
<1>5. EndOfText = Len(s)
  BY <1>2, <1>3 DEF EndOfText
<1> DEFINE n == Len(s)
           t == Append(s, NUL)
           e == <<NUL>>
<1>6. n \in Nat /\ NUL \in Elements /\ e \in Seq(Elements) /\ Len(e) = 1 /\ e[1] = NUL /\ e # <<>>
  BY <1>2, <1>3, NulIsAnElement
<1>7. /\ t \in Seq(Elements) /\ Len(t) = n + 1
      /\ (\A k \in 1 .. n : t[k] = s[k]) /\ t[n + 1] = NUL
  BY <1>6, AppendFacts
<1>8. Over(s, n, e) = t
  <2> DEFINE o == Over(s, n, e)
  <2> HIDE DEF e, t
  <2>1. /\ o \in Seq(Elements)
        /\ Len(o) = IF n > n + Len(e) THEN n ELSE n + Len(e)
        /\ \A k \in 1 .. Len(o) : o[k] = IF k > n /\ k <= n + Len(e) THEN e[k - n]
                                         ELSE IF k <= n THEN s[k] ELSE NUL
    BY <1>6, OverFacts
  <2> HIDE DEF o, n
  <2>2. Len(o) = n + 1
    BY <1>6, <2>1
  <2>3. \A k \in 1 .. n + 1 : o[k] = t[k]
    <3> SUFFICES ASSUME NEW k \in 1 .. n + 1 PROVE o[k] = t[k]
      OBVIOUS
    <3>1. CASE k <= n
      BY <1>6, <1>7, <2>1, <2>2, <3>1
    <3>2. CASE k > n
      <4>1. k = n + 1 /\ k - n = 1
        BY <1>6, <3>2
      <4> QED BY <1>6, <1>7, <2>1, <2>2, <3>2, <4>1
    <3> QED BY <1>6, <3>1, <3>2
  <2> QED BY <1>7, <2>1, <2>2, <2>3, SeqEqual DEF o
<1>9. buffer' = t
  BY <1>1, <1>3, <1>4, <1>5, <1>8
<1> HIDE DEF n, t, e
<1>10. strlen(t) = strlen(s) /\ strlen(s) \in 0 .. n
  <2> DEFINE m == strlen(s)
  <2>1. m \in 0 .. n /\ (\A k \in 1 .. m : s[k] # NUL) /\ (m # n => s[m + 1] = NUL)
    BY StrlenFacts DEF n
  <2> HIDE DEF m
  <2>2. m \in 0 .. Len(t) /\ \A k \in 1 .. m : t[k] # NUL
    BY <1>6, <1>7, <2>1
  <2>3. t[m + 1] = NUL
    BY <1>6, <1>7, <2>1
  <2>4. strlen(t) = m
    BY <1>7, <2>2, <2>3, StrlenIs
  <2> QED BY <2>1, <2>4 DEF m
<1>11. UpToNul(t) = UpToNul(s)
  <2>1. /\ UpToNul(t) \in Seq(Elements) /\ Len(UpToNul(t)) = strlen(t)
        /\ \A k \in 1 .. strlen(t) : UpToNul(t)[k] = t[k]
    BY <1>7, UpToNulFacts
  <2>2. /\ UpToNul(s) \in Seq(Elements) /\ Len(UpToNul(s)) = strlen(s)
        /\ \A k \in 1 .. strlen(s) : UpToNul(s)[k] = s[k]
    BY UpToNulFacts
  <2>3. \A k \in 1 .. strlen(s) : UpToNul(t)[k] = UpToNul(s)[k]
    BY <1>6, <1>7, <1>10, <2>1, <2>2
  <2> QED BY <1>10, <2>1, <2>2, <2>3, SeqEqual
<1>12. CallerKeeps'
  <2>1. Len(buffer') <= data'.size
    BY <1>2, <1>3, <1>7, <1>9 DEF n
  <2> QED BY <1>1, <2>1 DEF CallerKeeps
<1>13. LinesRead'
  BY <1>2 DEF LinesRead
<1>14. ReadsBack'
  <2>1. UpToNul(buffer)' = UpToNul(text)' /\ buffer' = Append(text', NUL)
    BY <1>2, <1>3, <1>9, <1>11 DEF UpToNul, strlen, t
  <2> QED BY <1>2, <2>1 DEF ReadsBack
<1> QED BY <1>2, <1>12, <1>13, <1>14

\* All the cards.
LEMMA CardsAreRead ==
  ASSUME ReadInv, readBinaryInfoFromFile
  PROVE  RoomToSpare' /\ LinesRead' /\ CallerKeeps' /\ ReadsBack'
<1>1. LogInv /\ RoomToSpare /\ Running("READ_BINARY") /\ "READ_BINARY" \in Reading
      /\ UNCHANGED <<file, stream, callerVars>> /\ pc' = "idle"
      /\ buffer' = FirstOf(text, data.size * data.size)
  BY DEF ReadInv, readBinaryInfoFromFile, Read, Return, Reading
<1>2. /\ RoomToSpare' /\ text' = text /\ data' = data /\ data.mode = "READ_BINARY"
      /\ text \in Seq(Elements) /\ Len(text) \in Nat /\ data.size \in Nat
      /\ data.size > Len(text) /\ stream # NULL
  BY <1>1, ReadingKeeps
<1>3. \A n \in Nat : n > 0 => n * n \in Int /\ n * n >= n
  OBVIOUS
<1>4. data.size * data.size \in Int /\ data.size * data.size >= Len(text)
  BY <1>2, <1>3
<1>5. buffer' = text
  BY <1>1, <1>2, <1>4, FirstOfFacts
<1>6. CallerKeeps'
  BY <1>1, <1>2, <1>5 DEF CallerKeeps
<1>7. LinesRead' /\ ReadsBack'
  BY <1>2, <1>5 DEF LinesRead, ReadsBack
<1> QED BY <1>2, <1>6, <1>7

\* The cards up to the first with three digits.
LEMMA PrintedCardsAreRead ==
  ASSUME ReadInv, readFormatStringInfoFromFile
  PROVE  RoomToSpare' /\ LinesRead' /\ CallerKeeps' /\ ReadsBack'
<1> DEFINE Stops(k) == k > Len(text) \/ \E j \in 1 .. Min({k - 1, Len(text)}) : text[j] > 99
           card(k) == IF Stops(k) THEN 0 ELSE Digits2(text[k])
<1>1. LogInv /\ RoomToSpare /\ Running("READ_FORMAT") /\ "READ_FORMAT" \in Reading
      /\ UNCHANGED <<file, stream, callerVars>> /\ pc' = "idle"
      /\ buffer' = [k \in 1 .. data.size |-> card(k)]
  BY DEF ReadInv, readFormatStringInfoFromFile, Read, Return, Reading
<1>2. /\ RoomToSpare' /\ text' = text /\ data' = data /\ data.mode = "READ_FORMAT"
      /\ text \in Seq(Elements) /\ Len(text) \in Nat /\ data.size \in Nat
      /\ data.size > Len(text) /\ stream # NULL
  BY <1>1, ReadingKeeps
<1>3. text \in Seq(Nat) /\ DOMAIN text = 1 .. Len(text)
  <2>1. stream.name = NameOf("READ_FORMAT")
    BY <1>1, RunningFacts
  <2>2. text \in Seq(Nat)
    BY <1>1, <2>1, HeldTyped DEF LogInv, text, NameOf
  <2> QED BY <2>2, LenProperties
<1>4. ASSUME NEW k \in DOMAIN text, \A j \in 1 .. k : text[j] < 100
      PROVE  buffer'[k] = text[k]
  <2>1. k \in 1 .. Len(text) /\ k \in 1 .. data.size
    BY <1>2, <1>3
  <2>2. \A j \in 1 .. k : text[j] \in Nat
    BY <1>2, <1>3, <2>1, ElementOfSeq
  <2>3. Min({k - 1, Len(text)}) = k - 1
    BY <1>2, <2>1, SmallerOfTwo
  <2>4. ~Stops(k)
    BY <1>2, <1>4, <2>1, <2>2, <2>3
  <2>5. Digits2(text[k]) = text[k]
    BY <1>4, <2>1 DEF Digits2
  <2> HIDE DEF Stops
  <2> QED BY <1>1, <2>1, <2>4, <2>5
<1>5. Len(buffer') = data.size
  <2> HIDE DEF card
  <2>1. \A n \in Nat : Len([k \in 1 .. n |-> card(k)]) = n
    OBVIOUS
  <2> QED BY <1>1, <1>2, <2>1
<1>6. CallerKeeps'
  BY <1>1, <1>2, <1>5 DEF CallerKeeps
<1>7. LinesRead' /\ ReadsBack'
  BY <1>2, <1>4 DEF LinesRead, ReadsBack
<1> QED BY <1>2, <1>6, <1>7

\* Two sequences, one behind the other.
LEMMA InARow ==
  ASSUME NEW s \in Seq(Elements), NEW t \in Seq(Elements)
  PROVE  /\ Len(s \o t) = Len(s) + Len(t)
         /\ \A k \in 1 .. Len(s) + Len(t) : (s \o t)[k] = IF k <= Len(s) THEN s[k] ELSE t[k - Len(s)]
BY ConcatProperties

\* What the cells b are, up to p the lines l, once line is stored at p.
WrittenBehind(b, p, l, line) ==
    LET new == Over(b, p, Append(line, NUL))
        lines == l \o UpToNul(line)
        q == p + strlen(line)
    IN /\ q = Len(lines) /\ q \in Nat /\ Len(new) \in Nat /\ q <= Len(new)
       /\ Len(new) <= Len(b) \/ Len(new) = p + Len(line) + 1
       /\ \A k \in 1 .. q : new[k] = lines[k] /\ lines[k] # NUL
       /\ new[q + 1] = NUL

\* A line more, and its terminator, behind the lines that are in the buffer.
LEMMA LineWritten ==
  ASSUME NEW b \in Seq(Elements), NEW l \in Seq(Elements), NEW line \in Seq(Elements),
         NEW p \in Nat, p = Len(l), p <= Len(b), \A k \in 1 .. p : b[k] = l[k] /\ l[k] # NUL
  PROVE  WrittenBehind(b, p, l, line)
<1> DEFINE n == Len(line)
           m == strlen(line)
           t == Append(line, NUL)
           u == UpToNul(line)
           new == Over(b, p, t)
           lines == l \o u
           q == p + m
<1>1. /\ m \in 0 .. n /\ n \in Nat /\ (\A k \in 1 .. m : line[k] # NUL)
      /\ (m # n => line[m + 1] = NUL)
  BY StrlenFacts
<1>2. /\ t \in Seq(Elements) /\ Len(t) = n + 1 /\ (\A k \in 1 .. n : t[k] = line[k])
      /\ t[n + 1] = NUL
  BY NulIsAnElement, AppendFacts
<1>3. /\ u \in Seq(Elements) /\ Len(u) = m
      /\ \A k \in 1 .. m : u[k] = line[k] /\ line[k] # NUL
  BY UpToNulFacts
<1>4. Len(b) \in Nat
  BY LenProperties
<1> HIDE DEF n, m, t, u
<1>5. t # <<>>
  <2>1. \A s : s = <<>> => Len(s) = 0
    OBVIOUS
  <2> QED BY <1>1, <1>2, <2>1
<1>6. /\ Len(new) = IF Len(b) > p + (n + 1) THEN Len(b) ELSE p + (n + 1)
      /\ \A k \in 1 .. Len(new) : new[k] = IF k > p /\ k <= p + (n + 1) THEN t[k - p]
                                           ELSE IF k <= Len(b) THEN b[k] ELSE NUL
  BY <1>2, <1>5, OverFacts
<1>7. /\ Len(lines) = p + m
      /\ \A k \in 1 .. p + m : lines[k] = IF k <= p THEN l[k] ELSE u[k - p]
  <2>1. /\ Len(l \o u) = Len(l) + Len(u)
        /\ \A k \in 1 .. Len(l) + Len(u) : (l \o u)[k] = IF k <= Len(l) THEN l[k] ELSE u[k - Len(l)]
    BY <1>3, InARow
  <2>2. Len(l) = p /\ Len(u) = m
    BY <1>3
  <2> HIDE DEF m
  <2> QED BY <2>1, <2>2 DEF lines
<1> HIDE DEF new, lines
<1>8. q \in Nat /\ Len(new) \in Nat /\ q + 1 <= Len(new)
      /\ (Len(new) <= Len(b) \/ Len(new) = p + n + 1)
  BY <1>1, <1>4, <1>6
<1>9. ASSUME NEW k \in 1 .. q PROVE new[k] = lines[k] /\ lines[k] # NUL
  <2>0. k \in 1 .. Len(new)
    BY <1>1, <1>8
  <2>1. CASE k <= p
    <3>1. new[k] = b[k]
      BY <1>4, <1>6, <2>0, <2>1
    <3>2. lines[k] = l[k]
      BY <1>7, <2>1
    <3> QED BY <2>1, <3>1, <3>2
  <2>2. CASE k > p
    <3>1. k - p \in 1 .. m /\ k - p \in 1 .. n /\ k <= p + (n + 1)
      BY <1>1, <2>2
    <3>2. new[k] = t[k - p]
      BY <1>6, <2>0, <2>2, <3>1
    <3>3. lines[k] = u[k - p]
      BY <1>7, <2>2
    <3> QED BY <1>2, <1>3, <3>1, <3>2, <3>3
  <2> QED BY <2>1, <2>2
<1>10. new[q + 1] = NUL
  <2>1. q + 1 \in 1 .. Len(new) /\ q + 1 > p /\ q + 1 <= p + (n + 1) /\ (q + 1) - p = m + 1
    BY <1>1, <1>8
  <2>2. new[q + 1] = t[m + 1]
    <3> HIDE DEF q
    <3> QED BY <1>6, <2>1
  <2>3. t[m + 1] = NUL
    <3>1. CASE m = n
      BY <1>2, <3>1
    <3>2. CASE m # n
      <4>1. m + 1 \in 1 .. n
        BY <1>1, <3>2
      <4> QED BY <1>1, <1>2, <3>2, <4>1
    <3> QED BY <3>1, <3>2
  <2> QED BY <2>2, <2>3
<1> QED BY <1>7, <1>8, <1>9, <1>10 DEF new, lines, t, u, m, n, WrittenBehind

\* A round of the reader of lines.
LEMMA LineIsRead ==
  ASSUME ReadInv, readStringInfoFromFile
  PROVE  RoomToSpare' /\ LinesRead' /\ CallerKeeps' /\ ReadsBack'
<1>1. LogInv /\ RoomToSpare /\ Running("READ_STRING") /\ "READ_STRING" \in Reading
      /\ UNCHANGED <<file, stream, callerVars>>
  BY DEF ReadInv, readStringInfoFromFile, Reading
<1>2. /\ RoomToSpare' /\ text' = text /\ data' = data /\ data.mode = "READ_STRING"
      /\ text \in Seq(Elements) /\ Len(text) \in Nat /\ data.size \in Nat
      /\ data.size > Len(text) /\ stream # NULL /\ stream \in Streams /\ stream' = stream
  BY <1>1, ReadingKeeps
<1>3. pc = "run" /\ i \in Nat /\ at \in Nat /\ buffer \in Seq(Elements) /\ Len(buffer) \in Nat
  BY <1>1, LenProperties DEF Running, LogInv, LogTyped
<1>4. PICK s \in Seq(Elements) : s = text
  BY <1>2
<1>5. PICK l \in Seq(Elements) : l = LinesUpTo(s)[i]
  <2>1. i \in 0 .. Len(s)
    BY <1>2, <1>3, <1>4 DEF ReadInv, LinesRead
  <2> QED BY <2>1, LinesTyped
<1>6. /\ i <= Len(s) /\ i \in {0} \cup LineEnds(s)
      /\ at <= i /\ at = Len(l)
      /\ at <= Len(buffer) /\ Len(buffer) <= data.size
      /\ \A k \in 1 .. at : buffer[k] = l[k] /\ l[k] # NUL
      /\ Len(buffer) > at => buffer[at + 1] = NUL
  BY <1>2, <1>3, <1>4, <1>5 DEF ReadInv, LinesRead
<1> DEFINE n == data.size - at
           line == Line(n)
<1>7. IF n > 1 /\ i = Len(text) THEN pc' = "idle" /\ UNCHANGED <<i, at, buffer>>
      ELSE /\ buffer' = Over(buffer, at, Append(line, NUL))
           /\ i' = i + Len(line) /\ at' = at + strlen(line)
           /\ pc' = pc
  BY DEF readStringInfoFromFile, Return
<1>8. CASE n > 1 /\ i = Len(text)
  <2>1. pc' = "idle" /\ i' = i /\ at' = at /\ buffer' = buffer
    BY <1>7, <1>8
  <2>2. LinesUpTo(text)' = LinesUpTo(text) /\ LineEnds(text)' = LineEnds(text)
    BY <1>2 DEF LinesUpTo, LineEnds, LineUpTo, UpToNul, strlen
  <2>3. LinesRead'
    BY <1>2, <1>4, <1>5, <1>6, <1>8, <2>1, <2>2 DEF LinesRead
  <2>4. CallerKeeps'
    BY <1>2, <1>6, <2>1 DEF CallerKeeps
  <2>5. strlen(buffer) = at
    <3>1. at \in 0 .. Len(buffer) /\ \A k \in 1 .. at : buffer[k] # NUL
      BY <1>3, <1>6
    <3>2. at # Len(buffer) => buffer[at + 1] = NUL
      BY <1>3, <1>6
    <3> QED BY <1>3, <3>1, <3>2, StrlenIs
  <2>6. UpToNul(buffer) = l
    <3>1. /\ UpToNul(buffer) \in Seq(Elements) /\ Len(UpToNul(buffer)) = at
          /\ \A k \in 1 .. at : UpToNul(buffer)[k] = buffer[k]
      BY <1>3, <2>5, UpToNulFacts
    <3>2. \A k \in 1 .. at : UpToNul(buffer)[k] = l[k]
      BY <1>6, <3>1
    <3> QED BY <1>6, <3>1, <3>2, SeqEqual
  <2>7. UpToNul(buffer)' = AllLines(text)'
    <3>1. UpToNul(buffer)' = UpToNul(buffer)
      BY <2>1 DEF UpToNul, strlen
    <3>2. AllLines(text)' = LinesUpTo(s)[Len(s)]
      BY <1>2, <1>4, <2>2 DEF AllLines
    <3> QED BY <1>4, <1>5, <1>8, <2>6, <3>1, <3>2
  <2>8. ReadsBack'
    BY <1>2, <2>7 DEF ReadsBack
  <2> QED BY <1>2, <2>3, <2>4, <2>8
<1>9. CASE ~(n > 1 /\ i = Len(text))
  <2>1. /\ buffer' = Over(buffer, at, Append(line, NUL))
        /\ i' = i + Len(line) /\ at' = at + strlen(line) /\ pc' = "run"
    BY <1>3, <1>7, <1>9
  <2>2. n \in Int /\ n - 1 >= Len(s) - i
    BY <1>2, <1>3, <1>4, <1>6
  <2> HIDE DEF n
  <2>3. /\ line \in Seq(Elements) /\ Len(line) \in Nat
        /\ i + Len(line) <= Len(s) /\ i + Len(line) \in {0} \cup LineEnds(s)
        /\ LinesUpTo(s)[i + Len(line)] = LinesUpTo(s)[i] \o UpToNul(line)
    BY <1>1, <1>2, <1>4, <1>6, <2>2, NextLine
  <2> HIDE DEF line
  <2> DEFINE new == Over(buffer, at, Append(line, NUL))
             lines == l \o UpToNul(line)
             q == at + strlen(line)
  <2>4. /\ q = Len(lines) /\ q \in Nat /\ Len(new) \in Nat /\ q <= Len(new)
        /\ Len(new) <= Len(buffer) \/ Len(new) = at + Len(line) + 1
        /\ \A k \in 1 .. q : new[k] = lines[k] /\ lines[k] # NUL
        /\ new[q + 1] = NUL
    <3>1. \A k \in 1 .. at : buffer[k] = l[k] /\ l[k] # NUL
      BY <1>6
    <3>2. PICK b \in Seq(Elements), c \in Seq(Elements), p \in Nat : b = buffer /\ c = line /\ p = at
      BY <1>3, <2>3
    <3>3. /\ b \in Seq(Elements) /\ c \in Seq(Elements) /\ l \in Seq(Elements) /\ p \in Nat
          /\ p = Len(l) /\ p <= Len(b) /\ \A k \in 1 .. p : b[k] = l[k] /\ l[k] # NUL
      BY <1>5, <1>6, <3>1, <3>2
    <3> DEFINE w == Over(b, p, Append(c, NUL))
               ls == l \o UpToNul(c)
    <3>4. WrittenBehind(b, p, l, c)
      BY <3>3, LineWritten
    <3>5. w = new /\ ls = lines /\ p + strlen(c) = q /\ Len(b) = Len(buffer)
          /\ p + Len(c) = at + Len(line)
      BY <3>2
    <3> HIDE DEF w, ls, new, lines, q
    <3> QED BY <3>4, <3>5 DEF WrittenBehind, w, ls
  <2> HIDE DEF new, lines
  <2>5. LinesUpTo(s)[i'] = lines
    BY <1>5, <2>1, <2>3 DEF lines
  <2>6. i' <= Len(s) /\ i' \in {0} \cup LineEnds(s)
    BY <2>1, <2>3
  <2>7. q <= i'
    <3>1. strlen(line) \in 0 .. Len(line)
      BY <2>3, StrlenFacts
    <3> QED BY <1>3, <1>6, <2>1, <2>3, <3>1
  <2>8. Len(new) <= data.size
    <3>1. at + Len(line) + 1 <= Len(s) + 1
      BY <1>3, <1>6, <2>3
    <3> QED BY <1>2, <1>3, <1>4, <1>6, <2>3, <2>4, <3>1
  <2>9. at' = q /\ buffer' = new
    BY <2>1 DEF new
  <2> HIDE DEF q
  <2>10. LinesRead'
    <3>1. LinesUpTo(text)[i]' = lines /\ LineEnds(text)' = LineEnds(s) /\ text' = s
      <4>1. text' = s
        BY <1>2, <1>4
      <4>2. LinesUpTo(text)' = LinesUpTo(s) /\ LineEnds(text)' = LineEnds(s)
        BY <4>1 DEF LinesUpTo, LineEnds, LineUpTo, UpToNul, strlen
      <4>3. LinesUpTo(text)[i]' = LinesUpTo(text)'[i']
        OBVIOUS
      <4> QED BY <2>5, <4>1, <4>2, <4>3
    <3> QED BY <1>2, <2>1, <2>4, <2>6, <2>7, <2>8, <2>9, <3>1 DEF LinesRead
  <2>11. CallerKeeps' /\ ReadsBack'
    BY <1>2, <2>1 DEF CallerKeeps, ReadsBack
  <2> QED BY <1>2, <2>10, <2>11
<1> QED BY <1>8, <1>9

\* All of it, for a caller who leaves a cell for the terminator.
LEMMA LogIsRead == 0 \notin Spares => (Spec => []ReadInv)
<1> SUFFICES ASSUME 0 \notin Spares PROVE Spec => []ReadInv
  OBVIOUS
<1>1. Init => ReadInv
  <2> SUFFICES ASSUME Init PROVE ReadInv
    OBVIOUS
  <2>1. LogInv /\ stream = NULL /\ pc = "idle" /\ data.mode = ""
    BY LogStarts DEF Init, Request
  <2> QED BY <2>1 DEF ReadInv, RoomToSpare, LinesRead, CallerKeeps, ReadsBack, Reading
<1>2. ReadInv /\ [Next]_vars => ReadInv'
  <2> SUFFICES ASSUME ReadInv, [Next]_vars PROVE ReadInv'
    OBVIOUS
  <2>0. LogInv /\ LogInv'
    BY LogStep DEF ReadInv
  <2> SUFFICES RoomToSpare' /\ LinesRead' /\ CallerKeeps' /\ ReadsBack'
    BY <2>0 DEF ReadInv
  <2>1. CASE UNCHANGED vars
    <3>1. text' = text
      BY <2>1 DEF vars, text, Held
    <3>2. RoomToSpare' /\ CallerKeeps'
      BY <2>1, <3>1 DEF vars, ReadInv, RoomToSpare, CallerKeeps
    <3>3. /\ LinesUpTo(text)' = LinesUpTo(text) /\ LineEnds(text)' = LineEnds(text)
          /\ UpToNul(buffer)' = UpToNul(buffer) /\ UpToNul(text)' = UpToNul(text)
          /\ AllLines(text)' = AllLines(text)
      <4>1. buffer' = buffer
        BY <2>1 DEF vars
      <4> QED BY <3>1, <4>1 DEF AllLines, LinesUpTo, LineEnds, LineUpTo, UpToNul, strlen
    <3>4. /\ stream' = stream /\ data' = data /\ pc' = pc /\ i' = i /\ at' = at
          /\ buffer' = buffer
      BY <2>1 DEF vars
    <3>5. LinesRead'
      BY <3>1, <3>3, <3>4 DEF ReadInv, LinesRead
    <3>6. ReadsBack'
      BY <3>1, <3>3, <3>4 DEF ReadInv, ReadsBack
    <3> QED BY <3>2, <3>5, <3>6
  <2>2. CASE EarlyReturn
    <3>1. pc = "run" /\ pc' = "idle" /\ UNCHANGED <<file, stream, buffer, data>>
      BY <2>2 DEF EarlyReturn, Return, callerVars
    <3>2. CASE stream = NULL
      <4>1. stream' = NULL /\ buffer' = <<>>
        BY <3>1, <3>2 DEF ReadInv, CallerKeeps
      <4> QED BY <2>0, <4>1, NotReading
    <3>3. CASE stream # NULL
      <4>1. data.size = 0
        BY <2>2, <3>3 DEF EarlyReturn
      <4>2. Len(text) \in Nat
        <5>1. text \in Seq(Elements)
          BY <2>0, <3>3, HeldTyped DEF LogInv, LogTyped, Streams, text
        <5> QED BY <5>1, LenProperties
      <4>3. data.mode \notin Reading
        BY <3>3, <4>1, <4>2 DEF ReadInv, RoomToSpare
      <4> QED BY <2>0, <3>1, <4>3, NotReading
    <3> QED BY <3>2, <3>3
  <2>3. CASE writeCharInfoToFile \/ writeFlushed \/ writeBianryInfoIntoFile
    <3>1. \E mode \in Modes \ Reading : Running(mode)
      BY <2>3 DEF writeCharInfoToFile, writeFlushed, writeBianryInfoIntoFile, Modes, Reading
    <3>2. data' = data /\ data.mode \notin Reading /\ stream \in Streams
      BY <2>0, <2>3, <3>1, RunningFacts
         DEF writeCharInfoToFile, writeFlushed, writeBianryInfoIntoFile, callerVars
    <3>3. stream' # NULL
      <4>1. stream' = stream \/ \E t : stream' = [stream EXCEPT !.pend = t]
        BY <2>3 DEF writeCharInfoToFile, writeFlushed, writeBianryInfoIntoFile
      <4>2. stream'.kind = stream.kind /\ stream.kind # "NULL"
        BY <3>2, <4>1 DEF Streams
      <4> QED BY <4>2, NoStream
    <3> QED BY <2>0, <3>2, <3>3, NotReading
  <2>4. CASE FileOperDataFree
    BY <2>0, <2>4, NotReading DEF FileOperDataFree
  <2>5. CASE Exit
    <3>1. stream' = NULL /\ pc' \in {"exit", "gone"}
      BY <2>5 DEF Exit
    <3> QED BY <2>0, <3>1, NotReading
  <2>6. CASE StartAgain
    <3>1. stream' = NULL /\ buffer' = <<>>
      BY <2>0, <2>6 DEF StartAgain, LogInv, StreamsFit
    <3> QED BY <2>0, <3>1, NotReading
  <2> QED BY <2>0, <2>1, <2>2, <2>3, <2>4, <2>5, <2>6, CallLeavesRoom, LetterIsRead, CardsAreRead,
             PrintedCardsAreRead, LineIsRead DEF Next, Functions
<1> QED BY <1>1, <1>2, PTL DEF Spec

\* When the caller leaves a cell for the terminator and asks for the cards there are, no
\* read writes behind its buffer; of a text written character by character three
\* characters at most are still in the stream.
THEOREM LogCells == 0 \notin Spares => (Spec => []CellsInv)
<1> SUFFICES ASSUME 0 \notin Spares PROVE Spec => []CellsInv
  OBVIOUS
<1>1. ReadInv => CellsInv
  <2> SUFFICES ASSUME ReadInv PROVE CellsInv
    OBVIOUS
  <2>1. LogInv /\ CallerKeeps
    BY DEF ReadInv
  <2>2. stream.mode \in Buffered \/ stream.pend = <<>>
    BY <2>1, NoStream DEF LogInv, StreamsFit, Fits
  <2>3. stream.mode = "INPUT_CHAR" => Len(stream.pend) <= 3
    <3> SUFFICES ASSUME stream.mode = "INPUT_CHAR" PROVE Len(stream.pend) <= 3
      OBVIOUS
    <3>1. i \in Nat /\ Len(stream.pend) = IF i = 0 THEN 0 ELSE (i + 3) % 4
      BY <2>1 DEF LogInv, LogTyped, StreamsFit
    <3> QED BY <3>1, EveryFourth
  <2> QED BY <2>1, <2>2, <2>3 DEF CellsInv, LogInv, LogTyped, CallerKeeps
<1> QED BY <1>1, LogIsRead, PTL

\* The same caller reads back what the files hold: the letter with its NUL, the lines each
\* up to its own, the cards, and those that were printed up to the first of three digits.
THEOREM LogReadsBack == 0 \notin Spares => (Spec => []ReadsBack)
<1> SUFFICES ASSUME 0 \notin Spares PROVE Spec => []ReadsBack
  OBVIOUS
<1>1. ReadInv => ReadsBack
  BY DEF ReadInv
<1> QED BY <1>1, LogIsRead, PTL
===============================================================================

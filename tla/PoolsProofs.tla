------------------------------ MODULE PoolsProofs ------------------------------
(****************************************************************************)
(* The three pools hand over correctly for any number of threads and tasks: *)
(* no queued task is without a token, front() always finds something before *)
(* a shutdown, and each of the programs implements the abstract work queue. *)
(*                                                                          *)
(* First what every step of the hand-over does, whichever program it        *)
(* belongs to: it keeps the critical sections exclusive and every task in   *)
(* one place, it is a step of the abstract work queue or leaves that queue  *)
(* alone, and it keeps tokens and tasks in balance.  Then the programs.     *)
(****************************************************************************)
EXTENDS Pools, SequenceFacts, FiniteSetTheorems

\* The mutex belongs to whoever is in a critical section, and a worker about to
\* pop has copied the front that is still there.
Sections == /\ \A w \in Workers : wpc[w] \in {"look", "pop"} => mutex = w
            /\ \A w \in Workers : wpc[w] = "pop" =>
                  taskList # <<>> /\ task[w] = Head(taskList)
            /\ \A p \in Producers : ppc[p] = "push" => mutex = p

\* Every task is in one place: with its producer, in the queue, with the worker
\* that runs it, or finished.
Places == /\ IsInjective(taskList)
          /\ Range(taskList) \subseteq Accepted \ finished
          /\ \A w \in Workers : wpc[w] = "run" =>
                task[w] \in Accepted \ (finished \cup Range(taskList))
          /\ \A v, w \in Workers :
                wpc[v] = "run" /\ wpc[w] = "run" /\ task[v] = task[w] => v = w
          /\ finished \subseteq Accepted
          /\ \A p \in Producers : ppc[p] = "push" => offer[p] \in added

QueueOK == QueueTypeOK /\ Sections /\ Places

\* Tokens in the semaphore, taken, and owed.
Tokens == task_sem + Cardinality(Claimants) + Cardinality(Owing)

-----------------------------------------------------------------------------
\* Claimants and producers that owe a token can be counted.
LEMMA CountsAreNumbers ==
  ASSUME QueueOK
  PROVE  /\ IsFiniteSet(Claimants) /\ Cardinality(Claimants) \in Nat
         /\ IsFiniteSet(Owing) /\ Cardinality(Owing) \in Nat
         /\ task_sem \in Nat /\ Len(taskList) \in Nat
<1>1. Claimants \in SUBSET Workers /\ Owing \in SUBSET Producers
  BY DEF Claimants, Owing
<1>2. IsFiniteSet(Claimants) /\ IsFiniteSet(Owing)
  BY <1>1, FS_Subset, SemQueueAssumption
<1>3. task_sem \in Nat /\ Len(taskList) \in Nat
  BY LenProperties DEF QueueOK, QueueTypeOK
<1> QED BY <1>2, <1>3, FS_CardinalityType

\* Without a producer in its critical section every added task is accepted; with
\* one, every other.
LEMMA AcceptedIs ==
  ASSUME QueueOK
  PROVE  /\ mutex \notin Producers => Accepted = added
         /\ \A p \in Producers : ppc[p] = "push" => Accepted = added \ {offer[p]}
BY DEF QueueOK, Sections, Accepted

\* Before anything has happened.
LEMMA InitQueueOK ==
  ASSUME QueueInit, wpc \in [Workers -> {"check", "exited"}]
  PROVE  QueueOK /\ WQ!Init /\ Tokens = 0 /\ Len(taskList) = 0
<1>1. taskList = <<>> /\ Range(taskList) = {} /\ Len(taskList) = 0
  BY DEF QueueInit, Range
<1>2. QueueTypeOK
  BY <1>1 DEF QueueInit, QueueTypeOK, WorkerPC, ProducerPC
<1>3. IsInjective(taskList)
  BY <1>1 DEF IsInjective
<1>4. Accepted = {}
  BY DEF QueueInit, Accepted
<1>5. Sections /\ Places
  BY <1>1, <1>3, <1>4 DEF QueueInit, Sections, Places
<1>6. Running = [w \in Workers |-> NoTask]
  BY DEF Running
<1>7. WQ!Init
  BY <1>1, <1>4, <1>6 DEF QueueInit, WQ!Init
<1>8. Claimants = {} /\ Owing = {}
  BY DEF QueueInit, Claimants, Owing
<1>9. Tokens = 0
  BY <1>8, FS_EmptySet DEF QueueInit, Tokens
<1> QED BY <1>1, <1>2, <1>5, <1>7, <1>9 DEF QueueOK

-----------------------------------------------------------------------------
(* Steps outside the critical sections.                                     *)

\* A step that moves workers about outside the critical sections and outside
\* tasks, and may change the semaphore, keeps everything else.
LEMMA OutsideKeeps ==
  ASSUME QueueOK,
         UNCHANGED <<taskList, mutex, task, callVars, finished>>,
         task_sem' \in Nat,
         wpc' \in [Workers -> WorkerPC],
         \A w \in Workers : wpc'[w] = wpc[w]
                              \/ {wpc[w], wpc'[w]} \cap {"look", "pop", "run"} = {}
  PROVE  QueueOK' /\ UNCHANGED WQ!vars
<1>1. QueueTypeOK'
  BY DEF QueueOK, QueueTypeOK, callVars
<1>2. Accepted' = Accepted
  BY DEF Accepted, callVars
<1>3. Sections'
  BY DEF QueueOK, Sections, callVars
<1>4. Places'
  BY <1>2 DEF QueueOK, Places, callVars
<1>5. Running' = Running
  BY DEF Running
<1> QED BY <1>1, <1>2, <1>3, <1>4, <1>5 DEF QueueOK, WQ!vars

\* If besides nobody claims or gives back a token, the tokens change as the
\* semaphore does.
LEMMA OutsideCounts ==
  ASSUME QueueOK, UNCHANGED ppc,
         \A w \in Workers : wpc'[w] = wpc[w]
                              \/ {wpc[w], wpc'[w]} \cap {"lock", "look", "pop"} = {}
  PROVE  /\ task_sem' = task_sem => Tokens' = Tokens
         /\ task_sem' = task_sem + 1 => Tokens' = Tokens + 1
<1>1. Claimants' = Claimants /\ Owing' = Owing
  BY DEF Claimants, Owing
<1> QED BY <1>1, CountsAreNumbers DEF Tokens

-----------------------------------------------------------------------------
(* The producers' steps.                                                    *)

\* A task that is being added is not in the queue yet, nor anywhere else.
LEMMA AddLockStep ==
  ASSUME QueueOK, NEW p \in Producers, NEW t \in Tasks, AddLock(p, t)
  PROVE  QueueOK' /\ UNCHANGED WQ!vars /\ Tokens' = Tokens /\ UNCHANGED taskList
<1>1. /\ ppc' = [ppc EXCEPT ![p] = "push"] /\ offer' = [offer EXCEPT ![p] = t]
      /\ ppc[p] = "idle" /\ mutex = Nobody /\ mutex' = p
      /\ added' = added \cup {t} /\ t \notin added
      /\ UNCHANGED <<taskList, task_sem, wpc, task, finished>>
  BY DEF AddLock
<1>2. p # Nobody /\ Nobody \notin Workers /\ p \notin Workers
  BY SemQueueAssumption
<1>3. QueueTypeOK'
  BY <1>1 DEF QueueOK, QueueTypeOK, ProducerPC
<1>4. \A q \in Producers : ppc[q] # "push"
  BY <1>1, SemQueueAssumption DEF QueueOK, Sections
<1>5. \A q \in Producers : /\ ppc'[q] = "push" <=> q = p
                           /\ offer'[p] = t
                           /\ ppc[q] = "post" <=> ppc'[q] = "post"
  BY <1>1, <1>4 DEF QueueOK, QueueTypeOK
<1>6. Accepted = added /\ Accepted' = added
  BY <1>1, <1>4, <1>5 DEF Accepted
<1>7. Sections'
  <2>1. \A w \in Workers : wpc[w] \notin {"look", "pop"}
    BY <1>1, <1>2 DEF QueueOK, Sections
  <2> QED BY <1>1, <1>5, <2>1 DEF Sections
<1>8. Places'
  BY <1>1, <1>5, <1>6 DEF QueueOK, Places
<1>9. Running' = Running /\ Claimants' = Claimants
  BY <1>1 DEF Running, Claimants
<1>10. Owing' = Owing
  BY <1>5 DEF Owing
<1> QED BY <1>1, <1>3, <1>6, <1>7, <1>8, <1>9, <1>10 DEF QueueOK, WQ!vars, Tokens

\* The push submits the task, and its producer owes a token for it.
LEMMA AddPushStep ==
  ASSUME QueueOK, NEW p \in Producers, AddPush(p)
  PROVE  QueueOK' /\ WQ!Next /\ Tokens' = Tokens + 1 /\ Len(taskList') = Len(taskList) + 1
<1> DEFINE t == offer[p]
<1>1. /\ ppc[p] = "push" /\ ppc' = [ppc EXCEPT ![p] = "post"]
      /\ mutex' = Nobody /\ taskList' = Append(taskList, t)
      /\ UNCHANGED <<task_sem, wpc, task, offer, added, finished>>
  BY DEF AddPush
<1>2. mutex = p /\ p \notin Workers
  BY <1>1, SemQueueAssumption DEF QueueOK, Sections
<1>3. \A q \in Producers : /\ ppc[q] = "push" <=> q = p
                           /\ ppc'[q] # "push"
                           /\ q # p => ppc'[q] = ppc[q]
  BY <1>1, <1>2 DEF QueueOK, QueueTypeOK, Sections
<1>4. t \in added /\ t \in Tasks
  BY <1>1 DEF QueueOK, Places, QueueTypeOK
<1>5. Accepted = added \ {t} /\ Accepted' = added
  BY <1>1, <1>3, AcceptedIs DEF Accepted
<1>6. /\ taskList' \in Seq(Tasks) /\ Len(taskList') = Len(taskList) + 1
      /\ Range(taskList') = Range(taskList) \cup {t}
      /\ IsInjective(taskList')
  <2>1. t \notin Range(taskList)
    BY <1>5 DEF QueueOK, Places
  <2> QED BY <1>1, <1>4, <2>1, AppendFacts DEF QueueOK, QueueTypeOK, Places
<1>7. QueueTypeOK'
  BY <1>1, <1>6 DEF QueueOK, QueueTypeOK, ProducerPC
<1>8. Sections'
  <2>1. \A w \in Workers : wpc[w] \notin {"look", "pop"}
    BY <1>2 DEF QueueOK, Sections
  <2> QED BY <1>1, <1>3, <2>1 DEF Sections
<1>9. Places'
  <2>1. t \notin finished /\ finished \subseteq added
    BY <1>5 DEF QueueOK, Places
  <2>2. \A w \in Workers : wpc[w] = "run" =>
           task[w] \in added \ (finished \cup Range(taskList) \cup {t})
    BY <1>5 DEF QueueOK, Places
  <2> QED BY <1>1, <1>3, <1>4, <1>5, <1>6, <2>1, <2>2 DEF QueueOK, Places
<1>10. WQ!Submit(t)
  <2>1. Running' = Running
    BY <1>1 DEF Running
  <2> QED BY <1>1, <1>4, <1>5, <2>1 DEF WQ!Submit
<1>11. Tokens' = Tokens + 1
  <2>1. Claimants' = Claimants
    BY <1>1 DEF Claimants
  <2>2. Owing' = Owing \cup {p} /\ p \notin Owing
    BY <1>1, <1>3 DEF Owing, QueueOK, QueueTypeOK
  <2>3. Cardinality(Owing') = Cardinality(Owing) + 1
    BY <2>2, CountsAreNumbers, FS_AddElement
  <2> QED BY <1>1, <2>1, <2>3, CountsAreNumbers DEF Tokens
<1> QED BY <1>4, <1>6, <1>7, <1>8, <1>9, <1>10, <1>11 DEF QueueOK, WQ!Next

\* The owed token is posted.
LEMMA AddPostStep ==
  ASSUME QueueOK, NEW p \in Producers, AddPost(p)
  PROVE  QueueOK' /\ UNCHANGED WQ!vars /\ Tokens' = Tokens /\ UNCHANGED taskList
<1>1. /\ ppc[p] = "post" /\ ppc' = [ppc EXCEPT ![p] = "idle"]
      /\ offer' = [offer EXCEPT ![p] = NoTask] /\ task_sem' = task_sem + 1
      /\ UNCHANGED <<taskList, mutex, wpc, task, added, finished>>
  BY DEF AddPost
<1>2. \A q \in Producers : /\ ppc'[q] = "push" <=> ppc[q] = "push"
                           /\ ppc[q] = "push" => offer'[q] = offer[q]
                           /\ ppc'[q] = "post" <=> ppc[q] = "post" /\ q # p
  BY <1>1 DEF QueueOK, QueueTypeOK
<1>3. QueueTypeOK'
  BY <1>1 DEF QueueOK, QueueTypeOK, ProducerPC
<1>4. Accepted' = Accepted
  BY <1>1, <1>2 DEF Accepted
<1>5. Sections' /\ Places'
  BY <1>1, <1>2, <1>4 DEF QueueOK, Sections, Places
<1>6. Running' = Running /\ Claimants' = Claimants
  BY <1>1 DEF Running, Claimants
<1>7. Owing' = Owing \ {p} /\ p \in Owing
  BY <1>1, <1>2 DEF Owing
<1>8. Cardinality(Owing') = Cardinality(Owing) - 1
  BY <1>7, CountsAreNumbers, FS_RemoveElement
<1>9. Tokens' = Tokens
  BY <1>1, <1>6, <1>8, CountsAreNumbers DEF Tokens
<1> QED BY <1>1, <1>3, <1>4, <1>5, <1>6, <1>9 DEF QueueOK, WQ!vars

-----------------------------------------------------------------------------
(* The workers' steps.                                                      *)

\* A token changes hands.
LEMMA SemWaitStep ==
  ASSUME QueueOK, NEW w \in Workers, SemWait(w)
  PROVE  QueueOK' /\ UNCHANGED WQ!vars /\ Tokens' = Tokens /\ UNCHANGED taskList
<1>1. /\ wpc[w] = "wait" /\ wpc' = [wpc EXCEPT ![w] = "lock"]
      /\ task_sem > 0 /\ task_sem' = task_sem - 1
      /\ UNCHANGED <<taskList, mutex, task, callVars, finished>>
  BY DEF SemWait, At, Goto
<1>2. task_sem' \in Nat /\ wpc' \in [Workers -> WorkerPC]
  BY <1>1 DEF QueueOK, QueueTypeOK, WorkerPC
<1>3. \A v \in Workers : wpc'[v] = wpc[v] \/ (v = w /\ wpc'[v] = "lock")
  BY <1>1 DEF QueueOK, QueueTypeOK
<1>4. QueueOK' /\ UNCHANGED WQ!vars
  BY <1>1, <1>2, <1>3, OutsideKeeps
<1>5. Claimants' = Claimants \cup {w} /\ w \notin Claimants
  BY <1>1, <1>3 DEF Claimants, QueueOK, QueueTypeOK
<1>6. Cardinality(Claimants') = Cardinality(Claimants) + 1
  BY <1>5, CountsAreNumbers, FS_AddElement
<1>7. Owing' = Owing
  BY <1>1 DEF Owing, callVars
<1> QED BY <1>1, <1>4, <1>6, <1>7, CountsAreNumbers DEF Tokens, QueueOK, QueueTypeOK

\* The mutex is free when it is taken, so that nobody is in a critical section.
LEMMA LockQueueStep ==
  ASSUME QueueOK, NEW w \in Workers, LockQueue(w)
  PROVE  QueueOK' /\ UNCHANGED WQ!vars /\ Tokens' = Tokens /\ UNCHANGED taskList
<1>1. /\ wpc[w] = "lock" /\ wpc' = [wpc EXCEPT ![w] = "look"]
      /\ mutex = Nobody /\ mutex' = w
      /\ UNCHANGED <<taskList, task_sem, task, callVars, finished>>
  BY DEF LockQueue, At, Goto
<1>2. \A v \in Workers : /\ v # w => wpc'[v] = wpc[v]
                         /\ wpc'[w] = "look"
  BY <1>1 DEF QueueOK, QueueTypeOK
<1>3. QueueTypeOK'
  BY <1>1 DEF QueueOK, QueueTypeOK, WorkerPC, callVars
<1>4. /\ \A v \in Workers : wpc[v] \notin {"look", "pop"}
      /\ \A p \in Producers : ppc[p] # "push"
  BY <1>1, SemQueueAssumption DEF QueueOK, Sections
<1>5. Sections'
  BY <1>1, <1>2, <1>4 DEF Sections, callVars
<1>6. Accepted' = Accepted
  BY <1>1 DEF Accepted, callVars
<1>7. Places'
  BY <1>1, <1>2, <1>6 DEF QueueOK, Places, callVars
<1>8. Running' = Running
  BY <1>1, <1>2 DEF Running
<1>9. Claimants' = Claimants /\ Owing' = Owing
  BY <1>1, <1>2 DEF Claimants, Owing, callVars
<1> QED BY <1>1, <1>3, <1>5, <1>6, <1>7, <1>8, <1>9 DEF QueueOK, WQ!vars, Tokens

\* A token was spent on an empty queue: only then are there more of them.
LEMMA FoundEmptyStep ==
  ASSUME QueueOK, NEW w \in Workers, FoundEmpty(w)
  PROVE  /\ QueueOK' /\ UNCHANGED WQ!vars /\ UNCHANGED taskList
         /\ Len(taskList) = 0 /\ Tokens > 0 /\ Tokens' = Tokens - 1
<1>1. /\ wpc[w] = "look" /\ wpc' = [wpc EXCEPT ![w] = "check"]
      /\ taskList = <<>> /\ mutex' = Nobody
      /\ UNCHANGED <<taskList, task_sem, task, callVars, finished>>
  BY DEF FoundEmpty, At, Goto
<1>2. mutex = w
  BY <1>1 DEF QueueOK, Sections
<1>3. \A v \in Workers : /\ v # w => wpc'[v] = wpc[v]
                         /\ wpc'[w] = "check"
  BY <1>1 DEF QueueOK, QueueTypeOK
<1>4. QueueTypeOK'
  BY <1>1 DEF QueueOK, QueueTypeOK, WorkerPC, callVars
<1>5. /\ \A v \in Workers : wpc'[v] \notin {"look", "pop"}
      /\ \A p \in Producers : ppc[p] # "push"
  BY <1>2, <1>3, SemQueueAssumption DEF QueueOK, Sections
<1>6. Sections'
  BY <1>1, <1>5 DEF Sections, callVars
<1>7. Accepted' = Accepted
  BY <1>1 DEF Accepted, callVars
<1>8. Places'
  BY <1>1, <1>3, <1>7 DEF QueueOK, Places, callVars
<1>9. Running' = Running
  BY <1>1, <1>3 DEF Running
<1>10. Claimants' = Claimants \ {w} /\ w \in Claimants /\ Owing' = Owing
  BY <1>1, <1>3 DEF Claimants, Owing, callVars
<1>11. Cardinality(Claimants') = Cardinality(Claimants) - 1 /\ Cardinality(Claimants) > 0
  <2>1. /\ IsFiniteSet(Claimants')
        /\ Cardinality(Claimants') = Cardinality(Claimants) - 1
    BY <1>10, CountsAreNumbers, FS_RemoveElement
  <2>2. Cardinality(Claimants') \in Nat
    BY <2>1, FS_CardinalityType
  <2> QED BY <2>1, <2>2, CountsAreNumbers
<1>12. Tokens > 0 /\ Tokens' = Tokens - 1
  BY <1>1, <1>10, <1>11, CountsAreNumbers DEF Tokens
<1> QED BY <1>1, <1>4, <1>6, <1>7, <1>8, <1>9, <1>12 DEF QueueOK, WQ!vars

\* The front is copied.
LEMMA ReadFrontStep ==
  ASSUME QueueOK, NEW w \in Workers, ReadFront(w)
  PROVE  QueueOK' /\ UNCHANGED WQ!vars /\ Tokens' = Tokens /\ UNCHANGED taskList
<1>1. /\ wpc[w] = "look" /\ wpc' = [wpc EXCEPT ![w] = "pop"]
      /\ taskList # <<>> /\ task' = [task EXCEPT ![w] = Head(taskList)]
      /\ UNCHANGED <<taskList, task_sem, mutex, callVars, finished>>
  BY DEF ReadFront, At, Goto
<1>2. Head(taskList) \in Tasks
  BY <1>1, TailFacts DEF QueueOK, QueueTypeOK
<1>3. \A v \in Workers : /\ v # w => wpc'[v] = wpc[v] /\ task'[v] = task[v]
                         /\ wpc'[w] = "pop" /\ task'[w] = Head(taskList)
  BY <1>1 DEF QueueOK, QueueTypeOK
<1>4. QueueTypeOK'
  BY <1>1, <1>2 DEF QueueOK, QueueTypeOK, WorkerPC, callVars
<1>5. Sections'
  BY <1>1, <1>3 DEF QueueOK, Sections, callVars
<1>6. Accepted' = Accepted
  BY <1>1 DEF Accepted, callVars
<1>7. Places'
  <2>1. \A v \in Workers : wpc'[v] = "run" => wpc[v] = "run" /\ task'[v] = task[v]
    BY <1>3
  <2> QED BY <1>1, <1>6, <2>1 DEF QueueOK, Places, callVars
<1>8. Running' = Running
  BY <1>1, <1>3 DEF Running
<1>9. Claimants' = Claimants /\ Owing' = Owing
  BY <1>1, <1>3 DEF Claimants, Owing, callVars
<1> QED BY <1>1, <1>4, <1>5, <1>6, <1>7, <1>8, <1>9 DEF QueueOK, WQ!vars, Tokens

\* The pop makes the copy the task the worker runs, and uses up its token.
LEMMA PopFrontStep ==
  ASSUME QueueOK, NEW w \in Workers, PopFront(w)
  PROVE  QueueOK' /\ WQ!Next /\ Tokens' = Tokens - 1 /\ Len(taskList') = Len(taskList) - 1
<1> DEFINE t == task[w]
<1>1. /\ wpc[w] = "pop" /\ wpc' = [wpc EXCEPT ![w] = "run"]
      /\ taskList' = Tail(taskList) /\ mutex' = Nobody
      /\ UNCHANGED <<task_sem, task, callVars, finished>>
  BY DEF PopFront, At, Goto
<1>2. mutex = w /\ taskList # <<>> /\ t = Head(taskList)
  BY <1>1 DEF QueueOK, Sections
<1>3. /\ t \in Tasks
      /\ taskList' \in Seq(Tasks) /\ Len(taskList') = Len(taskList) - 1
      /\ Range(taskList) = {t} \cup Range(taskList')
      /\ IsInjective(taskList') /\ t \notin Range(taskList')
  BY <1>1, <1>2, TailFacts DEF QueueOK, QueueTypeOK, Places
<1>4. \A v \in Workers : /\ v # w => wpc'[v] = wpc[v]
                         /\ wpc'[w] = "run"
  BY <1>1 DEF QueueOK, QueueTypeOK
<1>5. QueueTypeOK'
  BY <1>1, <1>3 DEF QueueOK, QueueTypeOK, WorkerPC, callVars
<1>6. /\ \A v \in Workers : wpc'[v] \notin {"look", "pop"}
      /\ \A p \in Producers : ppc[p] # "push"
  BY <1>2, <1>4, SemQueueAssumption DEF QueueOK, Sections
<1>7. Sections'
  BY <1>1, <1>6 DEF Sections, callVars
<1>8. Accepted' = Accepted
  BY <1>1 DEF Accepted, callVars
<1>9. Places'
  <2>1. t \in Accepted \ finished
    BY <1>3 DEF QueueOK, Places
  <2>2. \A v \in Workers : wpc[v] = "run" =>
           task[v] \in Accepted \ (finished \cup Range(taskList)) /\ task[v] # t
    BY <1>3 DEF QueueOK, Places
  <2>3. \A v \in Workers : wpc'[v] = "run" =>
           task[v] \in Accepted \ (finished \cup Range(taskList'))
    BY <1>3, <1>4, <2>1, <2>2
  <2>4. \A u, v \in Workers :
           wpc'[u] = "run" /\ wpc'[v] = "run" /\ task[u] = task[v] => u = v
    BY <1>4, <2>2 DEF QueueOK, Places
  <2> QED BY <1>1, <1>3, <1>8, <2>3, <2>4 DEF QueueOK, Places, callVars
<1>10. WQ!Take(w)
  <2>1. Running[w] = NoTask /\ Running' = [Running EXCEPT ![w] = t]
    BY <1>1, <1>4 DEF Running
  <2> QED BY <1>1, <1>2, <1>8, <2>1 DEF WQ!Take
<1>11. Claimants' = Claimants \ {w} /\ w \in Claimants /\ Owing' = Owing
  BY <1>1, <1>4 DEF Claimants, Owing, callVars
<1>12. Cardinality(Claimants') = Cardinality(Claimants) - 1
  BY <1>11, CountsAreNumbers, FS_RemoveElement
<1>13. Tokens' = Tokens - 1
  BY <1>1, <1>11, <1>12, CountsAreNumbers DEF Tokens
<1> QED BY <1>3, <1>5, <1>7, <1>9, <1>10, <1>13 DEF QueueOK, WQ!Next

\* The end of a task.
LEMMA RunTaskStep ==
  ASSUME QueueOK, NEW w \in Workers, RunTask(w)
  PROVE  QueueOK' /\ WQ!Next /\ Tokens' = Tokens /\ UNCHANGED taskList
<1> DEFINE t == task[w]
<1>1. /\ wpc[w] = "run" /\ wpc' = [wpc EXCEPT ![w] = "check"]
      /\ finished' = finished \cup {t} /\ task' = [task EXCEPT ![w] = NoTask]
      /\ UNCHANGED <<taskList, task_sem, mutex, callVars>>
  BY DEF RunTask, At, Goto
<1>2. t \in Accepted \ (finished \cup Range(taskList)) /\ t \in Tasks
  BY <1>1 DEF QueueOK, Places, QueueTypeOK, Accepted
<1>3. \A v \in Workers : /\ v # w => wpc'[v] = wpc[v] /\ task'[v] = task[v]
                         /\ wpc'[w] = "check"
  BY <1>1 DEF QueueOK, QueueTypeOK
<1>4. QueueTypeOK'
  BY <1>1, <1>2 DEF QueueOK, QueueTypeOK, WorkerPC, callVars
<1>5. Sections'
  BY <1>1, <1>3 DEF QueueOK, Sections, callVars
<1>6. Accepted' = Accepted
  BY <1>1 DEF Accepted, callVars
<1>7. Places'
  <2>1. \A v \in Workers : wpc'[v] = "run" =>
           v # w /\ wpc[v] = "run" /\ task'[v] = task[v] /\ task[v] # t
    BY <1>1, <1>3 DEF QueueOK, Places
  <2> QED BY <1>1, <1>2, <1>6, <2>1 DEF QueueOK, Places, callVars
<1>8. WQ!Finish(w)
  <2>1. Running[w] = t /\ Running' = [Running EXCEPT ![w] = NoTask]
    BY <1>1, <1>3 DEF Running
  <2>2. t # NoTask
    BY <1>2, SemQueueAssumption
  <2> QED BY <1>1, <1>2, <1>6, <2>1, <2>2 DEF WQ!Finish
<1>9. Claimants' = Claimants /\ Owing' = Owing
  BY <1>1, <1>3 DEF Claimants, Owing, callVars
<1> QED BY <1>1, <1>4, <1>5, <1>7, <1>8, <1>9 DEF QueueOK, WQ!Next, Tokens

-----------------------------------------------------------------------------
(* All of them.                                                             *)

\* Every queued task has its token, and every token its task.
Balance == Len(taskList) = Tokens

\* What a step of the hand-over does, whoever takes it.
StepOK == /\ QueueOK' /\ [WQ!Next]_(WQ!vars)
          /\ NoTaskStranded => NoTaskStranded'
          /\ Balance => Balance'

\* A step that changes neither tokens nor tasks keeps them as they are.
LEMMA CountsKept ==
  ASSUME QueueOK, QueueOK',
         \/ UNCHANGED taskList /\ Tokens' = Tokens
         \/ Tokens' = Tokens + 1 /\ Len(taskList') = Len(taskList) + 1
         \/ Tokens' = Tokens - 1 /\ Len(taskList') = Len(taskList) - 1
  PROVE  /\ NoTaskStranded => NoTaskStranded'
         /\ Balance => Balance'
<1>1. /\ Tokens \in Nat /\ Len(taskList) \in Nat /\ Len(taskList') \in Nat
  BY CountsAreNumbers, LenProperties DEF Tokens, QueueOK, QueueTypeOK
<1>2. /\ NoTaskStranded <=> Len(taskList) <= Tokens
      /\ NoTaskStranded' <=> Len(taskList') <= Tokens'
  BY DEF NoTaskStranded, Tokens
<1> QED BY <1>1, <1>2 DEF Balance

\* addTask.
LEMMA ProduceStep ==
  ASSUME QueueOK, NEW p \in Producers, Produce(p)
  PROVE  StepOK
<1>1. ASSUME NEW t \in Tasks, AddLock(p, t) PROVE StepOK
  BY <1>1, AddLockStep, CountsKept DEF StepOK
<1>2. CASE AddPush(p)
  BY <1>2, AddPushStep, CountsKept DEF StepOK
<1>3. CASE AddPost(p)
  BY <1>3, AddPostStep, CountsKept DEF StepOK
<1> QED BY <1>1, <1>2, <1>3 DEF Produce

\* The worker's loop, when the front is not asked for before it was tested.
LEMMA DeliverStep ==
  ASSUME QueueOK, NEW w \in Workers,
         \/ SemWait(w)   \/ LockQueue(w)
         \/ ReadFront(w) \/ PopFront(w)  \/ RunTask(w)
  PROVE  StepOK
<1>1. CASE SemWait(w)
  BY <1>1, SemWaitStep, CountsKept DEF StepOK
<1>2. CASE LockQueue(w)
  BY <1>2, LockQueueStep, CountsKept DEF StepOK
<1>3. CASE ReadFront(w)
  BY <1>3, ReadFrontStep, CountsKept DEF StepOK
<1>4. CASE PopFront(w)
  BY <1>4, PopFrontStep, CountsKept DEF StepOK
<1>5. CASE RunTask(w)
  BY <1>5, RunTaskStep, CountsKept DEF StepOK
<1> QED BY <1>1, <1>2, <1>3, <1>4, <1>5

\* The worker's loop.  With tokens and tasks in balance the queue is not found
\* empty.
LEMMA ConsumeStep ==
  ASSUME QueueOK, NEW w \in Workers, Consume(w)
  PROVE  StepOK
<1>1. CASE FoundEmpty(w)
  <2>1. /\ QueueOK' /\ UNCHANGED WQ!vars /\ Len(taskList') = 0 /\ Len(taskList) = 0
        /\ Tokens > 0 /\ Tokens' = Tokens - 1 /\ Tokens \in Nat
    BY <1>1, FoundEmptyStep, CountsAreNumbers DEF Tokens
  <2>2. NoTaskStranded' <=> Len(taskList') <= Tokens'
    BY DEF NoTaskStranded, Tokens
  <2> QED BY <2>1, <2>2 DEF StepOK, Balance
<1> QED BY <1>1, DeliverStep DEF Consume

\* A worker that looks at the queue while tokens and tasks balance finds a task.
LEMMA BalanceMeansTask ==
  ASSUME QueueOK, Balance, NEW w \in Workers, wpc[w] = "look"
  PROVE  taskList # <<>>
<1>1. w \in Claimants
  BY DEF Claimants
<1>2. Cardinality(Claimants) # 0
  BY <1>1, CountsAreNumbers, FS_EmptySet
<1>3. Len(taskList) > 0
  BY <1>2, CountsAreNumbers DEF Balance, Tokens
<1> QED BY <1>3, EmptySeq

-----------------------------------------------------------------------------
(* The three programs.                                                      *)
\* The tokens of the pool balance until its destructor posts; those of the service
\* do not once it has been asleep, which is why it joins its workers before it
\* creates new ones.
IInv == /\ QueueOK /\ NoTaskStranded
        /\ program \in {"pool", "service", "kitchen"}
        /\ program = "pool" => /\ dtor # "alive" => ~running_
                               /\ running_ => Balance
        /\ program = "kitchen" => Balance
        /\ program = "service" =>
              /\ husband_threads_ \in {{}, Workers}
              /\ husband_threads_ = {} => \A w \in Workers : wpc[w] = "exited"

\* What the steps of every program must show.
Kept == QueueOK' /\ NoTaskStranded' /\ [WQ!Next]_(WQ!vars)

-----------------------------------------------------------------------------
\* Whichever program runs, nothing has been handed over when it starts.
LEMMA InitIInv ==
  ASSUME Init
  PROVE  IInv /\ WQ!Init
<1>1. QueueInit /\ wpc \in [Workers -> {"check", "exited"}]
  BY DEF Init, Pool!Init, Service!Init, Kitchen!Init
<1>2. QueueOK /\ WQ!Init /\ Tokens = 0 /\ Len(taskList) = 0
  BY <1>1, InitQueueOK
<1>3. NoTaskStranded /\ Balance
  BY <1>2 DEF NoTaskStranded, Tokens, Balance
<1>4. program = "service" => husband_threads_ = {} /\ \A w \in Workers : wpc[w] = "exited"
  BY DEF Init, Service!Init, Service!Constructed
<1>5. dtor = "alive" /\ program \in {"pool", "service", "kitchen"}
  BY DEF Init, Pool!Constructed
<1> QED BY <1>2, <1>3, <1>4, <1>5 DEF IInv

\* A step of the hand-over that leaves the program's own fields alone.
LEMMA HandOverKeeps ==
  ASSUME IInv, StepOK,
         UNCHANGED <<program, poolVars>>,
         program = "service" =>
            /\ UNCHANGED husband_threads_
            /\ husband_threads_ = {} => \A w \in Workers : wpc'[w] = "exited"
  PROVE  IInv' /\ Kept
BY DEF IInv, StepOK, poolVars, Kept

\* A step outside the critical sections after which there is no token less.
LEMMA OutsideStep ==
  ASSUME IInv,
         UNCHANGED <<taskList, mutex, task, callVars, finished>>,
         task_sem' \in {task_sem, task_sem + 1},
         wpc' \in [Workers -> WorkerPC],
         \A w \in Workers : wpc'[w] = wpc[w]
            \/ {wpc[w], wpc'[w]} \cap {"lock", "look", "pop", "run"} = {}
  PROVE  /\ Kept
         /\ task_sem' = task_sem /\ Balance => Balance'
<1>1. QueueOK' /\ UNCHANGED WQ!vars
  <2>1. task_sem' \in Nat
    BY DEF IInv, QueueOK, QueueTypeOK
  <2> QED BY <2>1, OutsideKeeps DEF IInv
<1>2. /\ task_sem' = task_sem => Tokens' = Tokens
      /\ task_sem' = task_sem + 1 => Tokens' = Tokens + 1
  BY OutsideCounts DEF IInv, callVars
<1>3. /\ NoTaskStranded <=> Len(taskList) <= Tokens
      /\ NoTaskStranded' <=> Len(taskList') <= Tokens'
      /\ Len(taskList) \in Nat /\ Tokens \in Nat
  BY CountsAreNumbers DEF NoTaskStranded, Tokens, IInv
<1> QED BY <1>1, <1>2, <1>3 DEF Kept, IInv, Balance

-----------------------------------------------------------------------------
(* The thread pool.                                                         *)

\* A worker that is neither in the hand-over nor in a task goes from pc to pc.
LEMMA MoveKeeps ==
  ASSUME IInv, NEW w \in Workers, NEW to \in {"wait", "exited"},
         wpc[w] = "check", wpc' = [wpc EXCEPT ![w] = to],
         UNCHANGED <<taskList, task_sem, mutex, task, callVars, finished>>
  PROVE  Kept /\ (Balance => Balance')
<1>1. wpc' \in [Workers -> WorkerPC] /\ task_sem' \in {task_sem, task_sem + 1}
  BY DEF IInv, QueueOK, QueueTypeOK, WorkerPC
<1>2. \A v \in Workers : wpc'[v] = wpc[v] \/ (v = w /\ wpc'[v] = to)
  BY DEF IInv, QueueOK, QueueTypeOK
<1>3. \A v \in Workers : wpc'[v] = wpc[v]
         \/ {wpc[v], wpc'[v]} \cap {"lock", "look", "pop", "run"} = {}
  BY <1>2
<1> QED BY <1>1, <1>3, OutsideStep

\* worker_routine, addTask and the destructor.
LEMMA PoolStep ==
  ASSUME IInv, InPool, Pool!Next
  PROVE  IInv' /\ Kept
<1>1. program = "pool" /\ program' = "pool"
  BY DEF InPool
<1>2. ASSUME NEW w \in Workers, Pool!Worker(w) PROVE IInv' /\ Kept
  <2>1. CASE Pool!KeepRunning(w)
    <3>1. Kept /\ (Balance => Balance')
      BY <2>1, MoveKeeps DEF Pool!KeepRunning, Pool!At, Pool!Goto, Pool!callVars, callVars
    <3> QED BY <1>1, <2>1, <3>1 DEF Pool!KeepRunning, Pool!poolVars, IInv, Kept
  <2>2. CASE Pool!LeaveLoop(w)
    <3>1. Kept /\ (Balance => Balance')
      BY <2>2, MoveKeeps DEF Pool!LeaveLoop, Pool!At, Pool!Goto, Pool!callVars, callVars
    <3> QED BY <1>1, <2>2, <3>1 DEF Pool!LeaveLoop, Pool!poolVars, IInv, Kept
  <2>3. CASE Pool!Consume(w) /\ UNCHANGED Pool!poolVars
    <3>1. Consume(w)
      BY <2>3 DEF Pool!Consume, Pool!SemWait, Pool!LockQueue, Pool!FoundEmpty,
                  Pool!ReadFront, Pool!PopFront, Pool!RunTask, Pool!At, Pool!Goto,
                  Pool!callVars, Consume, SemWait, LockQueue, FoundEmpty,
                  ReadFront, PopFront, RunTask, At, Goto, callVars
    <3> QED BY <1>1, <2>3, <3>1, ConsumeStep, HandOverKeeps
            DEF IInv, Pool!poolVars, poolVars
  <2> QED BY <1>2, <2>1, <2>2, <2>3 DEF Pool!Worker
<1>3. ASSUME NEW p \in Producers, Pool!AddTask(p) PROVE IInv' /\ Kept
  <2>1. Produce(p) /\ UNCHANGED Pool!poolVars
    BY <1>3 DEF Pool!AddTask, Pool!Produce, Pool!AddLock, Pool!AddPush, Pool!AddPost,
                Produce, AddLock, AddPush, AddPost
  <2> QED BY <1>1, <2>1, ProduceStep, HandOverKeeps DEF IInv, Pool!poolVars, poolVars
<1>4. CASE Pool!StopRunning \/ Pool!PostToken \/ Pool!JoinAll \/ Pool!Destroyed
  <2>1. /\ UNCHANGED <<taskList, mutex, wpc, task, callVars, finished>>
        /\ \/ task_sem' = task_sem + 1 /\ dtor = "posting" /\ UNCHANGED running_
           \/ task_sem' = task_sem /\ (running_' => running_)
        /\ dtor' # "alive" => ~running_'
    BY <1>1, <1>4 DEF Pool!StopRunning, Pool!PostToken, Pool!JoinAll, Pool!Destroyed,
       Pool!queueVars, Pool!callVars, Pool!vars, Pool!poolVars, callVars, IInv
  <2>2. wpc' \in [Workers -> WorkerPC] /\ task_sem' \in {task_sem, task_sem + 1}
    BY <2>1 DEF IInv, QueueOK, QueueTypeOK
  <2>3. Kept /\ (task_sem' = task_sem /\ Balance => Balance')
    BY <2>1, <2>2, OutsideStep
  <2> QED BY <1>1, <2>1, <2>3 DEF IInv, Kept
<1> QED BY <1>2, <1>3, <1>4 DEF Pool!Next

-----------------------------------------------------------------------------
(* The chore service.                                                       *)

\* husbandRoutine, and the calls of the service's owner.
LEMMA ServiceStep ==
  ASSUME IInv, InService, Service!Next
  PROVE  IInv' /\ Kept
<1>1. program = "service" /\ program' = "service" /\ UNCHANGED poolVars
  BY DEF InService
<1>2. ASSUME NEW w \in Workers, Service!Worker(w) PROVE IInv' /\ Kept
  <2>1. CASE Service!KeepServing(w) \/ Service!LeaveRoutine(w)
    <3>1. PICK to \in {"wait", "exited"} :
             wpc[w] = "check" /\ wpc' = [wpc EXCEPT ![w] = to]
      BY <2>1 DEF Service!KeepServing, Service!LeaveRoutine, Service!At, Service!Goto
    <3>2. UNCHANGED <<taskList, task_sem, mutex, task, callVars, finished, husband_threads_>>
      BY <2>1 DEF Service!KeepServing, Service!LeaveRoutine, Service!callVars, callVars,
                  Service!serviceVars
    <3>3. Kept
      BY <3>1, <3>2, MoveKeeps
    <3>4. husband_threads_ # {}
      BY <1>1, <3>1 DEF IInv
    <3> QED BY <1>1, <3>2, <3>3, <3>4 DEF IInv, Kept
  <2>2. CASE Service!Consume(w) /\ UNCHANGED Service!serviceVars
    <3>1. Consume(w)
      BY <2>2 DEF Service!Consume, Service!SemWait, Service!LockQueue, Service!FoundEmpty,
                  Service!ReadFront, Service!PopFront, Service!RunTask, Service!At,
                  Service!Goto, Service!callVars, Consume, SemWait, LockQueue,
                  FoundEmpty, ReadFront, PopFront, RunTask, At, Goto, callVars
    <3>2. husband_threads_ # {}
      BY <1>1, <3>1 DEF IInv, Consume, SemWait, LockQueue, FoundEmpty, ReadFront,
                        PopFront, RunTask, At
    <3> QED BY <1>1, <2>2, <3>1, <3>2, ConsumeStep, HandOverKeeps
            DEF IInv, Service!serviceVars
  <2> QED BY <1>2, <2>1, <2>2 DEF Service!Worker
<1>3. CASE Service!AddWifeOrder
  <2>1. Produce(Owner) /\ UNCHANGED Service!serviceVars
    BY <1>3 DEF Service!AddWifeOrder, Service!Produce, Service!AddLock, Service!AddPush,
                Service!AddPost, Produce, AddLock, AddPush, AddPost
  <2>2. UNCHANGED wpc
    BY <2>1 DEF Produce, AddLock, AddPush, AddPost
  <2> QED BY <1>1, <2>1, <2>2, OwnerAssumption, ProduceStep, HandOverKeeps
          DEF IInv, Service!serviceVars
<1>4. CASE Service!OrderHusbandWakeUp
  <2>1. /\ husband_threads_ = {} /\ husband_threads_' = Workers
        /\ wpc' = [w \in Workers |-> "check"]
        /\ UNCHANGED <<taskList, task_sem, mutex, task, callVars, finished>>
    BY <1>4 DEF Service!OrderHusbandWakeUp, Service!callVars, callVars
  <2>2. wpc' \in [Workers -> WorkerPC] /\ \A w \in Workers : wpc[w] = "exited"
    BY <1>1, <2>1 DEF IInv, WorkerPC
  <2>3. Kept
    BY <2>1, <2>2, OutsideStep
  <2> QED BY <1>1, <2>1, <2>3, SemQueueAssumption DEF IInv, Kept
<1>5. CASE Service!OrderHusbandSleep \/ Service!PostSleep \/ Service!JoinHusbands \/ Service!Gone
  <2>1. /\ UNCHANGED <<taskList, mutex, wpc, task, callVars, finished>>
        /\ task_sem' \in {task_sem, task_sem + 1}
        /\ \/ UNCHANGED husband_threads_
           \/ /\ husband_threads_' = {}
              /\ \A w \in husband_threads_ : wpc[w] = "exited"
    BY <1>5 DEF Service!OrderHusbandSleep, Service!PostSleep, Service!JoinHusbands,
       Service!Gone, Service!vars, Service!queueVars, Service!callVars,
       Service!serviceVars, callVars
  <2>2. wpc' \in [Workers -> WorkerPC]
    BY <2>1 DEF IInv, QueueOK, QueueTypeOK
  <2>3. Kept
    BY <2>1, <2>2, OutsideStep
  <2> QED BY <1>1, <2>1, <2>3 DEF IInv, Kept
<1> QED BY <1>2, <1>3, <1>4, <1>5 DEF Service!Next

-----------------------------------------------------------------------------
(* The kitchen.                                                             *)

\* Labels, makeBurger and deliverBurger.
LEMMA KitchenStep ==
  ASSUME IInv, InKitchen, Kitchen!Next
  PROVE  IInv' /\ Kept
<1>1. /\ program = "kitchen" /\ program' = "kitchen" /\ UNCHANGED poolVars
      /\ Balance
  BY DEF InKitchen, IInv
<1>2. ASSUME UNCHANGED queueVars PROVE IInv' /\ Kept
  <2>1. wpc' \in [Workers -> WorkerPC] /\ task_sem' \in {task_sem, task_sem + 1}
    BY <1>2 DEF IInv, QueueOK, QueueTypeOK, queueVars
  <2>2. Kept /\ Balance'
    BY <1>1, <1>2, <2>1, OutsideStep DEF queueVars
  <2> QED BY <1>1, <2>2 DEF IInv, Kept
<1>3. ASSUME NEW t \in Workers \cup Producers, Kitchen!Label(t) PROVE IInv' /\ Kept
  BY <1>2, <1>3 DEF Kitchen!Label, Kitchen!ReadLabel, Kitchen!WriteLabel,
     Kitchen!queueVars, Kitchen!callVars, queueVars, callVars
<1>4. ASSUME NEW c \in Producers, Kitchen!MakeBurger(c) PROVE IInv' /\ Kept
  <2>1. Produce(c)
    BY <1>4 DEF Kitchen!MakeBurger, Kitchen!AddLock, Kitchen!AddPush,
                Kitchen!AddPost, Produce, AddLock, AddPush, AddPost
  <2> QED BY <1>1, <2>1, ProduceStep, HandOverKeeps DEF IInv
<1>5. ASSUME NEW d \in Workers, Kitchen!DeliverBurger(d) PROVE IInv' /\ Kept
  <2>1. CASE Kitchen!NextBurger(d)
    <3>1. Kept /\ Balance'
      BY <1>1, <2>1, MoveKeeps
         DEF Kitchen!NextBurger, Kitchen!At, Kitchen!Goto, Kitchen!callVars, callVars
    <3> QED BY <1>1, <3>1 DEF IInv, Kept
  <2>2. CASE ~Kitchen!NextBurger(d)
    <3>1. \/ SemWait(d)   \/ LockQueue(d)
          \/ ReadFront(d) \/ PopFront(d)  \/ RunTask(d)
      BY <1>5, <2>2 DEF Kitchen!DeliverBurger, Kitchen!SemWait, Kitchen!LockQueue,
         Kitchen!ReadFront, Kitchen!PopFront, Kitchen!RunTask, Kitchen!At, Kitchen!Goto,
         Kitchen!callVars, SemWait, LockQueue, ReadFront, PopFront, RunTask, At,
         Goto, callVars
    <3> QED BY <1>1, <3>1, DeliverStep, HandOverKeeps DEF IInv
  <2> QED BY <2>1, <2>2
<1>6. CASE UNCHANGED Kitchen!vars
  BY <1>2, <1>6 DEF Kitchen!vars, Kitchen!queueVars, Kitchen!callVars, queueVars, callVars
<1> QED BY <1>3, <1>4, <1>5, <1>6 DEF Kitchen!Next, Kitchen!Chef, Kitchen!Drone

-----------------------------------------------------------------------------
\* The invariant holds of every reachable state, and every step is one of the
\* abstract queue.
LEMMA NextKeeps ==
  ASSUME IInv, [Next]_vars
  PROVE  IInv' /\ [WQ!Next]_(WQ!vars)
<1>1. CASE Next
  BY <1>1, PoolStep, ServiceStep, KitchenStep DEF Next, Kept
<1>2. CASE UNCHANGED vars
  <2>1. wpc' \in [Workers -> WorkerPC] /\ task_sem' \in {task_sem, task_sem + 1}
    BY <1>2 DEF IInv, QueueOK, QueueTypeOK, vars, queueVars
  <2>2. Kept /\ (Balance => Balance')
    BY <1>2, <2>1, OutsideStep DEF vars, queueVars
  <2> QED BY <1>2, <2>2 DEF IInv, Kept, vars, queueVars, poolVars, serviceVars
<1> QED BY <1>1, <1>2

\* The strengthened invariant holds throughout.
LEMMA IInvHolds == Spec => []IInv
<1>1. Init => IInv
  BY InitIInv
<1>2. IInv /\ [Next]_vars => IInv'
  BY NextKeeps
<1> QED BY <1>1, <1>2, PTL DEF Spec

\* However many threads add, run and shut down, no task lies in the queue without
\* a token that will fetch it (addTask, worker_routine, the destructor; the
\* service's sleeps; the kitchen).
THEOREM NobodyIsStranded == Spec => []NoTaskStranded
<1>1. IInv => NoTaskStranded
  BY DEF IInv
<1> QED BY <1>1, IInvHolds, PTL

\* The kitchen's untested front() and the pool's before its destructor always
\* find an element (CyberKitchen.h line 86, ThreadPool.h line 74).
THEOREM FrontIsThere == Spec => []TokenMeansTask
<1>1. IInv => TokenMeansTask
  BY BalanceMeansTask DEF IInv, TokenMeansTask, Pool!NoEmptyToken, At
<1> QED BY <1>1, IInvHolds, PTL

\* Tasks are started once, in the order they were queued, whichever of the three
\* programs it is.
THEOREM PoolsImplementWorkQueue == Spec => ImplementsWorkQueue
<1>1. Init => WQ!Init
  BY InitIInv
<1>2. IInv /\ [Next]_vars => [WQ!Next]_(WQ!vars)
  BY NextKeeps
<1> QED BY <1>1, <1>2, IInvHolds, PTL DEF Spec, ImplementsWorkQueue, WQ!Spec

-----------------------------------------------------------------------------
(* What belongs to the programs themselves.                                 *)

\* A thread that holds the spin lock has read the next label and not yet written
\* the one after it; the labels given out are all smaller.
LabelsInv == /\ Kitchen!LabelsDiffer
             /\ \A t \in Kitchen!Threads :
                   /\ spin[Kitchen!trade(t)] = t => id[t] = next_id[Kitchen!trade(t)]
                   /\ Kitchen!Labelled(t) => id[t] < next_id[Kitchen!trade(t)]

\* The burger a chef holds is the one whose number is still in global_id.
SerialsInv == /\ Kitchen!SerialsAreConsecutive
              /\ \A c \in Producers : ppc[c] = "push" => offer[c] = global_id

ProgramInv == /\ PoolsInv
              /\ program = "kitchen" => LabelsInv /\ SerialsInv

\* The instances count as their extending module does.
LEMMA SameCount == /\ Pool!Cardinality(Workers) = Cardinality(Workers)
                   /\ Service!Cardinality(Workers) = Cardinality(Workers)
                   /\ Cardinality(Workers) \in Nat
<1>1. Pool!Cardinality(Workers) = Cardinality(Workers)
  BY DEF Pool!Cardinality, Cardinality
<1>2. Service!Cardinality(Workers) = Cardinality(Workers)
  BY DEF Service!Cardinality, Cardinality
<1> QED BY <1>1, <1>2, SemQueueAssumption, FS_CardinalityType

\* Labels are given out under the spin lock of the trade.
LEMMA LabelStep ==
  ASSUME IInv, Kitchen!TypeOK, LabelsInv, NEW t \in Kitchen!Threads, Kitchen!Label(t)
  PROVE  /\ LabelsInv' /\ UNCHANGED <<queueVars, global_id>>
         /\ next_id' \in [Kitchen!Trades -> Nat]
         /\ spin' \in [Kitchen!Trades -> Kitchen!Threads \cup {Nobody}]
         /\ id' \in [Kitchen!Threads -> Nat \cup {Kitchen!Unlabelled}]
<1> DEFINE k == Kitchen!trade(t)
<1>1. k \in Kitchen!Trades /\ \A u \in Kitchen!Threads : Kitchen!trade(u) \in Kitchen!Trades
  BY DEF Kitchen!trade, Kitchen!Trades
<1>2. t # Nobody /\ Nobody \notin Kitchen!Threads
  BY SemQueueAssumption DEF Kitchen!Threads
<1>3. /\ next_id \in [Kitchen!Trades -> Nat]
      /\ spin \in [Kitchen!Trades -> Kitchen!Threads \cup {Nobody}]
      /\ id \in [Kitchen!Threads -> Nat \cup {Kitchen!Unlabelled}]
  BY DEF Kitchen!TypeOK
<1>4. \A u \in Kitchen!Threads : Kitchen!trade(u)' = Kitchen!trade(u)
  BY DEF Kitchen!trade
<1>5. UNCHANGED <<queueVars, global_id>>
  BY DEF Kitchen!Label, Kitchen!ReadLabel, Kitchen!WriteLabel, Kitchen!queueVars,
         Kitchen!callVars, queueVars, callVars
<1>6. CASE Kitchen!ReadLabel(t)
  <2>1. /\ spin[k] = Nobody /\ id[t] = Kitchen!Unlabelled
        /\ spin' = [spin EXCEPT ![k] = t] /\ id' = [id EXCEPT ![t] = next_id[k]]
        /\ next_id' = next_id
    BY <1>6 DEF Kitchen!ReadLabel
  <2>2. spin'[k] = t /\ id'[t] = next_id[k] /\ next_id[k] \in Nat
    BY <1>1, <1>3, <2>1
  <2>3. ~Kitchen!Labelled(t)'
    BY <2>2 DEF Kitchen!Labelled, Kitchen!trade
  <2>4. ASSUME NEW u \in Kitchen!Threads, u # t
        PROVE  /\ id'[u] = id[u] /\ Kitchen!Labelled(u)' <=> Kitchen!Labelled(u)
               /\ spin'[Kitchen!trade(u)] = u => spin[Kitchen!trade(u)] = u
    BY <1>1, <1>2, <1>3, <2>1, <2>4 DEF Kitchen!Labelled, Kitchen!trade
  <2>5. Kitchen!LabelsDiffer'
    <3> SUFFICES ASSUME NEW u \in Kitchen!Threads, NEW v \in Kitchen!Threads, u # v,
                        Kitchen!trade(u) = Kitchen!trade(v),
                        Kitchen!Labelled(u)', Kitchen!Labelled(v)'
                 PROVE  id'[u] # id'[v]
      BY <1>4 DEF Kitchen!LabelsDiffer, Kitchen!Threads
    <3>1. u # t /\ v # t
      BY <2>3 DEF Kitchen!Labelled
    <3>2. /\ Kitchen!Labelled(u) /\ Kitchen!Labelled(v)
          /\ id'[u] = id[u] /\ id'[v] = id[v]
      BY <1>1, <1>2, <1>3, <2>1, <3>1 DEF Kitchen!Labelled, Kitchen!trade
    <3> QED BY <3>2 DEF LabelsInv, Kitchen!LabelsDiffer
  <2>6. LabelsInv'
    BY <1>4, <2>1, <2>2, <2>3, <2>4, <2>5 DEF LabelsInv, Kitchen!Threads
  <2> QED BY <1>1, <1>3, <1>5, <2>1, <2>2, <2>6 DEF Kitchen!Threads
<1>7. CASE Kitchen!WriteLabel(t)
  <2>1. /\ spin[k] = t /\ id' = id
        /\ spin' = [spin EXCEPT ![k] = Nobody] /\ next_id' = [next_id EXCEPT ![k] = id[t] + 1]
    BY <1>7 DEF Kitchen!WriteLabel
  <2>2. id[t] = next_id[k] /\ next_id[k] \in Nat
    BY <1>1, <1>3, <2>1 DEF LabelsInv
  <2>3. /\ spin'[k] = Nobody /\ next_id'[k] = next_id[k] + 1
        /\ \A j \in Kitchen!Trades : j # k => spin'[j] = spin[j] /\ next_id'[j] = next_id[j]
    BY <1>1, <1>3, <2>1, <2>2
  <2>4. ASSUME NEW u \in Kitchen!Threads, Kitchen!Labelled(u)', u # t
        PROVE  Kitchen!Labelled(u)
    BY <1>1, <1>2, <2>1, <2>3, <2>4 DEF Kitchen!Labelled, Kitchen!trade
  <2>5. ASSUME NEW u \in Kitchen!Threads, Kitchen!Labelled(u)'
        PROVE  id'[u] < next_id'[Kitchen!trade(u)]
    <3>1. CASE u = t
      BY <2>1, <2>2, <2>3, <3>1
    <3>2. CASE u # t
      <4>1. id[u] < next_id[Kitchen!trade(u)] /\ id[u] \in Nat
        BY <1>3, <2>4, <2>5, <3>2 DEF LabelsInv, Kitchen!Labelled
      <4> QED BY <1>1, <1>3, <2>1, <2>3, <4>1
    <3> QED BY <3>1, <3>2
  <2>6. ASSUME NEW u \in Kitchen!Threads, spin'[Kitchen!trade(u)] = u
        PROVE  id'[u] = next_id'[Kitchen!trade(u)]
    BY <1>1, <1>2, <2>1, <2>3, <2>6 DEF LabelsInv
  <2>7. ASSUME NEW u \in Kitchen!Threads, Kitchen!Labelled(u)', u # t, Kitchen!trade(u) = k
        PROVE  id'[u] # id'[t]
    <3>1. id[u] < next_id[k] /\ id[u] \in Nat
      BY <1>3, <2>4, <2>7 DEF LabelsInv, Kitchen!Labelled
    <3> QED BY <2>1, <2>2, <3>1
  <2>8. Kitchen!LabelsDiffer'
    <3> SUFFICES ASSUME NEW u \in Kitchen!Threads, NEW v \in Kitchen!Threads, u # v,
                        Kitchen!trade(u) = Kitchen!trade(v),
                        Kitchen!Labelled(u)', Kitchen!Labelled(v)'
                 PROVE  id'[u] # id'[v]
      BY <1>4 DEF Kitchen!LabelsDiffer, Kitchen!Threads
    <3>1. CASE u = t \/ v = t
      BY <2>7, <3>1
    <3>2. CASE u # t /\ v # t
      BY <2>1, <2>4, <3>2 DEF LabelsInv, Kitchen!LabelsDiffer
    <3> QED BY <3>1, <3>2
  <2>9. LabelsInv'
    BY <1>4, <2>5, <2>6, <2>8 DEF LabelsInv, Kitchen!Threads
  <2> QED BY <1>1, <1>2, <1>3, <1>5, <2>1, <2>2, <2>9 DEF Kitchen!Threads
<1> QED BY <1>6, <1>7 DEF Kitchen!Label

\* A burger gets the number in global_id, which moves on with the push.
LEMMA MakeBurgerStep ==
  ASSUME IInv, Kitchen!TypeOK, SerialsInv, NEW c \in Producers, Kitchen!MakeBurger(c)
  PROVE  SerialsInv' /\ global_id' \in Nat
<1>1. global_id \in Nat /\ taskList \in Seq(Tasks) /\ Len(taskList) \in Nat
  BY LenProperties DEF Kitchen!TypeOK, IInv, QueueOK, QueueTypeOK
<1>2. Accepted = 0 .. global_id - 1
      /\ \A k \in 1 .. Len(taskList) : taskList[k] = global_id - Len(taskList) + k - 1
  BY DEF SerialsInv, Kitchen!SerialsAreConsecutive, Kitchen!Accepted, Accepted
<1>3. CASE Kitchen!AddLock(c, global_id) /\ UNCHANGED global_id
  <2>1. /\ mutex = Nobody /\ added' = added \cup {global_id} /\ global_id \notin added
        /\ offer' = [offer EXCEPT ![c] = global_id] /\ ppc' = [ppc EXCEPT ![c] = "push"]
        /\ UNCHANGED <<taskList, global_id>>
    BY <1>3 DEF Kitchen!AddLock
  <2>2. \A p \in Producers : ppc[p] # "push"
    BY <2>1, SemQueueAssumption DEF IInv, QueueOK, Sections
  <2>3. \A p \in Producers : (ppc'[p] = "push" <=> p = c) /\ offer'[c] = global_id
    BY <2>1, <2>2 DEF IInv, QueueOK, QueueTypeOK
  <2>4. Accepted' = Accepted
    BY <2>1, <2>2, <2>3 DEF Accepted
  <2> QED BY <1>1, <1>2, <2>1, <2>3, <2>4
          DEF SerialsInv, Kitchen!SerialsAreConsecutive, Kitchen!Accepted, Accepted
<1>4. CASE Kitchen!AddPush(c) /\ global_id' = offer[c] + 1
  <2>1. /\ ppc[c] = "push" /\ ppc' = [ppc EXCEPT ![c] = "post"]
        /\ taskList' = Append(taskList, offer[c]) /\ UNCHANGED <<offer, added>>
        /\ offer[c] = global_id /\ global_id' = global_id + 1
    BY <1>4 DEF Kitchen!AddPush, SerialsInv
  <2>2. \A p \in Producers : ppc'[p] # "push" /\ (ppc[p] = "push" <=> p = c)
    BY <2>1 DEF IInv, QueueOK, QueueTypeOK, Sections
  <2>3. Accepted = added \ {global_id} /\ Accepted' = added /\ global_id \in added
    BY <2>1, <2>2 DEF Accepted, IInv, QueueOK, Places
  <2>4. Accepted' = 0 .. global_id' - 1
    <3>1. 0 .. (global_id + 1) - 1 = (0 .. global_id - 1) \cup {global_id}
      BY <1>1
    <3>2. Accepted' = Accepted \cup {global_id}
      BY <2>3
    <3> QED BY <1>2, <2>1, <3>1, <3>2
  <2>5. /\ Len(taskList') = Len(taskList) + 1
        /\ \A k \in 1 .. Len(taskList) : taskList'[k] = taskList[k]
        /\ taskList'[Len(taskList) + 1] = global_id
    BY <1>1, <2>1, AppendProperties
  <2>6. ASSUME NEW k \in 1 .. Len(taskList')
        PROVE  taskList'[k] = global_id' - Len(taskList') + k - 1
    <3>1. CASE k \in 1 .. Len(taskList)
      <4>1. taskList'[k] = global_id - Len(taskList) + k - 1
        BY <1>2, <2>5, <3>1
      <4> QED BY <1>1, <2>1, <2>5, <4>1
    <3>2. CASE k = Len(taskList) + 1
      BY <1>1, <2>1, <2>5, <3>2
    <3> QED BY <1>1, <2>5, <3>1, <3>2
  <2>7. Kitchen!SerialsAreConsecutive'
    BY <2>4, <2>6 DEF Kitchen!SerialsAreConsecutive, Kitchen!Accepted, Accepted
  <2> QED BY <1>1, <2>1, <2>2, <2>7 DEF SerialsInv
<1>5. CASE Kitchen!AddPost(c) /\ UNCHANGED global_id
  <2>1. /\ ppc[c] = "post" /\ ppc' = [ppc EXCEPT ![c] = "idle"]
        /\ offer' = [offer EXCEPT ![c] = NoTask] /\ UNCHANGED <<taskList, added, global_id>>
    BY <1>5 DEF Kitchen!AddPost
  <2>2. \A p \in Producers : /\ ppc'[p] = "push" <=> ppc[p] = "push"
                             /\ ppc[p] = "push" => offer'[p] = offer[p]
    BY <2>1 DEF IInv, QueueOK, QueueTypeOK
  <2>3. Accepted' = Accepted
    BY <2>1, <2>2 DEF Accepted
  <2> QED BY <1>1, <1>2, <2>1, <2>2, <2>3
          DEF SerialsInv, Kitchen!SerialsAreConsecutive, Kitchen!Accepted, Accepted
<1> QED BY <1>3, <1>4, <1>5 DEF Kitchen!MakeBurger

\* A delivery takes the lowest number off the belt, or leaves the belt alone.
LEMMA DeliverBurgerStep ==
  ASSUME IInv, Kitchen!TypeOK, SerialsInv, NEW d \in Workers, Kitchen!DeliverBurger(d)
  PROVE  SerialsInv' /\ UNCHANGED kitchenVars
<1>1. global_id \in Nat /\ taskList \in Seq(Tasks) /\ Len(taskList) \in Nat
  BY LenProperties DEF Kitchen!TypeOK, IInv, QueueOK, QueueTypeOK
<1>2. UNCHANGED <<callVars, kitchenVars>>
  BY DEF Kitchen!DeliverBurger, Kitchen!NextBurger, Kitchen!SemWait, Kitchen!LockQueue,
     Kitchen!ReadFront, Kitchen!PopFront, Kitchen!RunTask, Kitchen!callVars, callVars,
     Kitchen!kitchenVars, Kitchen!labelVars, kitchenVars
<1>3. Accepted' = Accepted
  BY <1>2 DEF Accepted, callVars
<1>4. \A k \in 1 .. Len(taskList) : taskList[k] = global_id - Len(taskList) + k - 1
  BY DEF SerialsInv, Kitchen!SerialsAreConsecutive
<1>5. \A k \in 1 .. Len(taskList') : taskList'[k] = global_id - Len(taskList') + k - 1
  <2>1. CASE taskList' = taskList
    BY <1>4, <2>1
  <2>2. CASE Kitchen!PopFront(d)
    <3>1. taskList' = Tail(taskList) /\ taskList # <<>>
      BY <2>2 DEF Kitchen!PopFront, Kitchen!At, IInv, QueueOK, Sections
    <3>2. /\ Len(taskList') = Len(taskList) - 1 /\ Len(taskList') \in Nat
          /\ \A k \in 1 .. Len(taskList') : taskList'[k] = taskList[k + 1]
      BY <1>1, <3>1, HeadTailProperties, LenProperties
    <3> QED BY <1>1, <1>4, <3>2
  <2> QED BY <2>1, <2>2 DEF Kitchen!DeliverBurger, Kitchen!NextBurger, Kitchen!SemWait,
          Kitchen!LockQueue, Kitchen!ReadFront, Kitchen!RunTask
<1> QED BY <1>2, <1>3, <1>5
        DEF SerialsInv, Kitchen!SerialsAreConsecutive, Kitchen!Accepted, Accepted,
            callVars, kitchenVars

\* Nothing has been labelled or cooked, and nobody has been woken up or posted to.
LEMMA InitProgramInv ==
  ASSUME Init
  PROVE  ProgramInv
<1>1. QueueTypeOK /\ QueueInit /\ IInv
  BY InitIInv DEF Init, IInv, QueueOK
<1>3. program = "pool" => Pool!TypeOK
  BY <1>1, SameCount DEF Init, Pool!Constructed, Pool!TypeOK, Pool!QueueTypeOK, QueueTypeOK,
     Pool!WorkerPC, WorkerPC, Pool!ProducerPC, ProducerPC
<1>4. program = "service" => Service!TypeOK
  BY <1>1, SameCount, OwnerAssumption DEF Init, Service!Constructed, Service!TypeOK,
     Service!QueueTypeOK, QueueTypeOK, Service!WorkerPC, WorkerPC, Service!ProducerPC,
     ProducerPC
<1>5. Kitchen!TypeOK
  BY <1>1 DEF Init, Kitchen!Constructed, Kitchen!TypeOK, Kitchen!QueueTypeOK, QueueTypeOK,
     Kitchen!WorkerPC, WorkerPC, Kitchen!ProducerPC, ProducerPC
<1>6. \A t \in Kitchen!Threads : ~Kitchen!Labelled(t) /\ spin[Kitchen!trade(t)] # t
  BY SemQueueAssumption DEF Init, Kitchen!Constructed, Kitchen!Labelled, Kitchen!Threads,
     Kitchen!trade, Kitchen!Trades
<1>7. LabelsInv
  BY <1>6 DEF LabelsInv, Kitchen!LabelsDiffer
<1>8. Kitchen!Accepted = {} /\ taskList = <<>> /\ global_id = 0
  BY DEF Init, QueueInit, Kitchen!Accepted, Kitchen!Constructed
<1>9. SerialsInv
  BY <1>8 DEF SerialsInv, Kitchen!SerialsAreConsecutive, Init, QueueInit
<1> QED BY <1>3, <1>4, <1>5, <1>7, <1>9 DEF ProgramInv, PoolsInv, LabelsInv, SerialsInv

\* Every step of the programs.
LEMMA NextKeepsProgramInv ==
  ASSUME IInv, ProgramInv, [Next]_vars
  PROVE  ProgramInv'
<1>1. QueueTypeOK'
  BY NextKeeps DEF IInv, QueueOK
<1>3. CASE InPool /\ Pool!Next
  <2>1. program = "pool" /\ program' = "pool" /\ Pool!TypeOK
    BY <1>3 DEF InPool, ProgramInv, PoolsInv
  <2>2. /\ running_' \in BOOLEAN /\ dtor' \in {"alive", "posting", "destroyed"}
        /\ posted' \in 0 .. Cardinality(Workers)
    <3> USE SameCount, <2>1 DEF Pool!TypeOK
    <3>1. CASE Pool!StopRunning
      BY <3>1 DEF Pool!StopRunning
    <3>2. CASE Pool!PostToken
      BY <3>2 DEF Pool!PostToken
    <3>3. CASE Pool!JoinAll
      BY <3>3 DEF Pool!JoinAll
    <3>4. CASE UNCHANGED poolVars
      BY <3>4 DEF poolVars
    <3> QED BY <1>3, <3>1, <3>2, <3>3, <3>4 DEF Pool!Next, Pool!Worker, Pool!KeepRunning,
            Pool!LeaveLoop, Pool!poolVars, poolVars, Pool!AddTask, Pool!Destroyed, Pool!vars
  <2>3. Pool!TypeOK'
    BY <1>1, <2>2, SameCount DEF Pool!TypeOK, Pool!QueueTypeOK, QueueTypeOK, Pool!WorkerPC, WorkerPC,
       Pool!ProducerPC, ProducerPC
  <2> QED BY <2>1, <2>3 DEF ProgramInv, PoolsInv
<1>4. CASE InService /\ Service!Next
  <2>1. program = "service" /\ program' = "service" /\ Service!TypeOK
    BY <1>4 DEF InService, ProgramInv, PoolsInv
  <2>2. MaxNaps \in Nat
    BY OwnerAssumption
  <2>3. /\ husband_wake_status_' \in BOOLEAN /\ husband_threads_' \in SUBSET Workers
        /\ call' \in {"none", "sleep", "dtor", "gone"}
        /\ roused' \in 0 .. Cardinality(Workers) /\ naps' \in 0 .. MaxNaps
    <3> USE SameCount, <2>1, <2>2 DEF Service!TypeOK
    <3>1. CASE Service!OrderHusbandWakeUp
      BY <3>1 DEF Service!OrderHusbandWakeUp
    <3>2. CASE Service!OrderHusbandSleep
      <4>1. /\ call' \in {"sleep", "dtor"} /\ ~husband_wake_status_' /\ roused' = 0
            /\ UNCHANGED <<husband_threads_, naps>>
        BY <3>2 DEF Service!OrderHusbandSleep
      <4>2. husband_wake_status_' \in BOOLEAN
        BY <3>2 DEF Service!OrderHusbandSleep
      <4> QED BY <4>1, <4>2
    <3>3. CASE Service!PostSleep
      BY <3>3 DEF Service!PostSleep, Service!ThreadSlots
    <3>4. CASE Service!JoinHusbands
      BY <3>4 DEF Service!JoinHusbands
    <3>5. CASE UNCHANGED serviceVars
      BY <3>5 DEF serviceVars
    <3> QED BY <1>4, <3>1, <3>2, <3>3, <3>4, <3>5 DEF Service!Next, Service!Worker,
            Service!KeepServing, Service!LeaveRoutine, Service!serviceVars, serviceVars,
            Service!AddWifeOrder, Service!Gone, Service!vars
  <2>4. Service!TypeOK'
    BY <1>1, <2>3, SameCount DEF Service!TypeOK, Service!QueueTypeOK, QueueTypeOK, Service!WorkerPC,
       WorkerPC, Service!ProducerPC, ProducerPC
  <2> QED BY <2>1, <2>4 DEF ProgramInv, PoolsInv
<1>5. CASE InKitchen /\ Kitchen!Next
  <2>1. program = "kitchen" /\ program' = "kitchen" /\ Kitchen!TypeOK /\ LabelsInv /\ SerialsInv
    BY <1>5 DEF InKitchen, ProgramInv, PoolsInv
  <2>2. ASSUME LabelsInv', SerialsInv', global_id' \in Nat,
               next_id' \in [Kitchen!Trades -> Nat],
               spin' \in [Kitchen!Trades -> Kitchen!Threads \cup {Nobody}],
               id' \in [Kitchen!Threads -> Nat \cup {Kitchen!Unlabelled}]
        PROVE  ProgramInv'
    <3>1. Kitchen!TypeOK'
      BY <1>1, <2>2 DEF Kitchen!TypeOK, Kitchen!QueueTypeOK, QueueTypeOK, Kitchen!WorkerPC,
         WorkerPC, Kitchen!ProducerPC, ProducerPC, Kitchen!Trades, Kitchen!Threads,
         Kitchen!Unlabelled
    <3> QED BY <2>1, <2>2, <3>1 DEF ProgramInv, PoolsInv, LabelsInv, SerialsInv
  <2>3. ASSUME UNCHANGED <<next_id, spin, id>>
        PROVE  /\ LabelsInv' /\ next_id' \in [Kitchen!Trades -> Nat]
               /\ spin' \in [Kitchen!Trades -> Kitchen!Threads \cup {Nobody}]
               /\ id' \in [Kitchen!Threads -> Nat \cup {Kitchen!Unlabelled}]
    BY <2>1, <2>3 DEF LabelsInv, Kitchen!LabelsDiffer, Kitchen!Labelled, Kitchen!trade,
       Kitchen!Threads, Kitchen!Unlabelled, Kitchen!TypeOK
  <2>4. ASSUME UNCHANGED <<queueVars, global_id>> PROVE SerialsInv' /\ global_id' \in Nat
    BY <2>1, <2>4 DEF SerialsInv, Kitchen!SerialsAreConsecutive, Kitchen!Accepted, queueVars,
       callVars, Kitchen!TypeOK
  <2>5. ASSUME NEW t \in Workers \cup Producers, Kitchen!Label(t) PROVE ProgramInv'
    BY <2>1, <2>2, <2>4, <2>5, LabelStep DEF Kitchen!Threads
  <2>6. ASSUME NEW c \in Producers, Kitchen!MakeBurger(c) PROVE ProgramInv'
    <3>1. UNCHANGED <<next_id, spin, id>>
      BY <2>6 DEF Kitchen!MakeBurger, Kitchen!labelVars
    <3> QED BY <2>1, <2>2, <2>3, <2>6, <3>1, MakeBurgerStep
  <2>7. ASSUME NEW d \in Workers, Kitchen!DeliverBurger(d) PROVE ProgramInv'
    <3>1. SerialsInv' /\ UNCHANGED kitchenVars
      BY <2>1, <2>7, DeliverBurgerStep
    <3>2. global_id' \in Nat
      BY <2>1, <3>1 DEF kitchenVars, Kitchen!TypeOK
    <3> QED BY <2>2, <2>3, <3>1, <3>2 DEF kitchenVars
  <2>8. CASE UNCHANGED Kitchen!vars
    BY <2>2, <2>3, <2>4, <2>8 DEF Kitchen!vars, Kitchen!queueVars, Kitchen!callVars,
       Kitchen!kitchenVars, Kitchen!labelVars, queueVars, callVars
  <2> QED BY <1>5, <2>5, <2>6, <2>7, <2>8 DEF Kitchen!Next, Kitchen!Chef, Kitchen!Drone
<1>6. CASE UNCHANGED vars
  BY <1>6 DEF ProgramInv, PoolsInv, vars, queueVars, callVars, poolVars, serviceVars,
     kitchenVars, Pool!TypeOK, Pool!QueueTypeOK, Service!TypeOK, Service!QueueTypeOK,
     Kitchen!TypeOK, Kitchen!QueueTypeOK, LabelsInv, SerialsInv, Kitchen!LabelsDiffer,
     Kitchen!Labelled, Kitchen!trade, Kitchen!Threads, Kitchen!SerialsAreConsecutive,
     Kitchen!Accepted, Kitchen!Trades, Kitchen!Unlabelled
<1> QED BY <1>3, <1>4, <1>5, <1>6 DEF Next

\* The counters of the programs stay in range whatever the number of threads; the
\* chefs' shared counter gives out consecutive serial numbers, each once
\* (CyberKitchen.h lines 69-70); no two threads of a trade wear one label
\* (CyberKitchen.cpp lines 28-30 and 43-45).
THEOREM CountersAreSound == Spec => []PoolsInv
<1>1. Init => ProgramInv
  BY InitProgramInv
<1>2. IInv /\ ProgramInv /\ [Next]_vars => ProgramInv'
  BY NextKeepsProgramInv
<1>3. ProgramInv => PoolsInv
  BY DEF ProgramInv
<1> QED BY <1>1, <1>2, <1>3, IInvHolds, PTL DEF Spec

-----------------------------------------------------------------------------
(* What a sleep has done when it returns.                                   *)

\* A task that has reached the queue is in it, with a worker, or finished.
NothingIsLost == Accepted \subseteq Range(taskList) \cup finished \cup {Running[w] : w \in Workers}

\* Only the owner adds orders, and none while a call of sleep is under way; a worker
\* has left the awake service only after that call began and found the queue drained.
NapInv ==
    /\ program # "service" => husband_threads_ = {}
    /\ program = "service" =>
          /\ \A p \in Producers \ {Owner} : ppc[p] = "idle"
          /\ call # "none" => ppc[Owner] = "idle"
          /\ husband_threads_ # {} =>
                /\ husband_wake_status_ <=> call = "none"
                /\ (\E w \in Workers : wpc[w] = "exited") =>
                      ~husband_wake_status_ /\ taskList = <<>>

\* The abstract queue loses nothing.
LEMMA NothingGetsLost ==
  ASSUME QueueOK, QueueOK', NothingIsLost, [WQ!Next]_(WQ!vars)
  PROVE  NothingIsLost'
<1> DEFINE held == {Running[w] : w \in Workers}
<1>1. /\ taskList \in Seq(Tasks) /\ Accepted \subseteq Tasks /\ NoTask \notin Tasks
      /\ Running = [w \in Workers |-> Running[w]]
  BY SemQueueAssumption DEF QueueOK, QueueTypeOK, Accepted, Running
<1>2. ASSUME NEW t \in Tasks, WQ!Submit(t) PROVE NothingIsLost'
  <2>1. /\ Accepted' = Accepted \cup {t} /\ taskList' = Append(taskList, t)
        /\ Running' = Running /\ finished' = finished
    BY <1>2 DEF WQ!Submit
  <2>2. Range(taskList)' = Range(taskList) \cup {t}
    BY <1>1, <2>1, AppendFacts
  <2>3. held' = held
    BY <2>1
  <2> HIDE DEF held
  <2>4. Accepted \subseteq Range(taskList) \cup finished \cup held
    BY DEF NothingIsLost, held
  <2>5. Accepted' \subseteq Range(taskList)' \cup finished' \cup held'
    BY <2>1, <2>2, <2>3, <2>4
  <2> QED BY <2>5 DEF NothingIsLost, held
<1>3. ASSUME NEW w \in Workers, WQ!Take(w) PROVE NothingIsLost'
  <2>1. /\ Running[w] = NoTask /\ taskList # <<>>
        /\ Running' = [Running EXCEPT ![w] = Head(taskList)]
        /\ taskList' = Tail(taskList) /\ Accepted' = Accepted /\ finished' = finished
    BY <1>3 DEF WQ!Take
  <2>2. Range(taskList) = {Head(taskList)} \cup Range(taskList)'
    BY <1>1, <2>1, TailFacts
  <2>3. /\ Running'[w] = Head(taskList)
        /\ \A v \in Workers : v # w => Running'[v] = Running[v]
    BY <1>1, <2>1
  <2>4. ASSUME NEW t \in Accepted PROVE t \in Range(taskList)' \cup finished' \cup held'
    <3>1. CASE t \in Range(taskList) \cup finished
      BY <2>1, <2>2, <2>3, <3>1
    <3>2. CASE t \in held
      <4>1. PICK v \in Workers : t = Running[v]
        BY <3>2
      <4>2. v # w
        BY <1>1, <2>1, <4>1
      <4> QED BY <2>3, <4>1, <4>2
    <3> QED BY <3>1, <3>2 DEF NothingIsLost
  <2> QED BY <2>1, <2>4 DEF NothingIsLost
<1>4. ASSUME NEW w \in Workers, WQ!Finish(w) PROVE NothingIsLost'
  <2>1. /\ Running' = [Running EXCEPT ![w] = NoTask]
        /\ finished' = finished \cup {Running[w]}
        /\ taskList' = taskList /\ Accepted' = Accepted
    BY <1>4 DEF WQ!Finish
  <2>2. \A v \in Workers : v # w => Running'[v] = Running[v]
    BY <1>1, <2>1
  <2>3. Range(taskList)' = Range(taskList)
    BY <2>1
  <2>4. ASSUME NEW t \in Accepted PROVE t \in Range(taskList)' \cup finished' \cup held'
    <3>1. CASE t \in Range(taskList) \cup finished
      BY <2>1, <2>3, <3>1
    <3>2. CASE t \in held
      <4>1. PICK v \in Workers : t = Running[v]
        BY <3>2
      <4> QED BY <2>1, <2>2, <4>1
    <3> QED BY <3>1, <3>2 DEF NothingIsLost
  <2> QED BY <2>1, <2>4 DEF NothingIsLost
<1>5. CASE UNCHANGED WQ!vars
  <2>1. /\ Running' = Running /\ finished' = finished
        /\ taskList' = taskList /\ Accepted' = Accepted
    BY <1>5 DEF WQ!vars
  <2> QED BY <2>1 DEF NothingIsLost
<1> QED BY <1>2, <1>3, <1>4, <1>5 DEF WQ!Next

\* The steps of the service.
LEMMA ServiceNaps ==
  ASSUME IInv, NapInv, InService, Service!Next
  PROVE  NapInv'
<1>1. program = "service" /\ program' = "service" /\ Owner \in Producers
  BY OwnerAssumption DEF InService
<1>2. ASSUME NEW w \in Workers, Service!Worker(w) PROVE NapInv'
  <2>1. UNCHANGED <<ppc, call, husband_threads_, husband_wake_status_>>
    BY <1>2 DEF Service!Worker, Service!KeepServing, Service!LeaveRoutine, Service!Consume,
                Service!SemWait, Service!LockQueue, Service!FoundEmpty, Service!ReadFront,
                Service!PopFront, Service!RunTask, Service!callVars, Service!serviceVars
  <2>2. CASE Service!LeaveRoutine(w)
    <3>1. ~husband_wake_status_ /\ taskList = <<>> /\ taskList' = taskList
      BY <2>2 DEF Service!LeaveRoutine
    <3> QED BY <1>1, <2>1, <3>1 DEF NapInv
  <2>3. CASE ~Service!LeaveRoutine(w)
    <3>1. PICK to \in WorkerPC \ {"exited"} : wpc' = [wpc EXCEPT ![w] = to]
      BY <1>2, <2>3 DEF Service!Worker, Service!KeepServing, Service!Consume, Service!SemWait,
         Service!LockQueue, Service!FoundEmpty, Service!ReadFront, Service!PopFront,
         Service!RunTask, Service!Goto, WorkerPC
    <3>2. \A v \in Workers : wpc'[v] = "exited" => wpc[v] = "exited"
      BY <3>1 DEF IInv, QueueOK, QueueTypeOK
    <3>3. taskList' = taskList \/ taskList # <<>>
      <4>1. \/ taskList' = taskList
            \/ wpc[w] = "pop"
        BY <1>2, <2>3 DEF Service!Worker, Service!KeepServing, Service!Consume, Service!SemWait,
           Service!LockQueue, Service!FoundEmpty, Service!ReadFront, Service!PopFront,
           Service!RunTask, Service!At
      <4> QED BY <4>1 DEF IInv, QueueOK, Sections
    <3> QED BY <1>1, <2>1, <3>2, <3>3 DEF NapInv
  <2> QED BY <2>2, <2>3
<1>3. CASE Service!AddWifeOrder
  <2>1. /\ call = "none" /\ Produce(Owner)
        /\ UNCHANGED <<wpc, call, husband_threads_, husband_wake_status_>>
    BY <1>3 DEF Service!AddWifeOrder, Service!Produce, Service!AddLock, Service!AddPush,
                Service!AddPost, Service!serviceVars, Produce, AddLock, AddPush, AddPost
  <2>2. \A p \in Producers \ {Owner} : ppc'[p] = ppc[p]
    BY <1>1, <2>1 DEF Produce, AddLock, AddPush, AddPost, IInv, QueueOK, QueueTypeOK
  <2>3. husband_threads_ # {} => \A w \in Workers : wpc[w] # "exited"
    BY <1>1, <2>1 DEF NapInv
  <2> QED BY <1>1, <2>1, <2>2, <2>3 DEF NapInv
<1>4. CASE Service!OrderHusbandWakeUp
  <2>1. /\ call = "none" /\ call' = "none" /\ husband_wake_status_' = TRUE
        /\ wpc' = [w \in Workers |-> "check"] /\ ppc' = ppc
    BY <1>4 DEF Service!OrderHusbandWakeUp, Service!Free, Service!callVars
  <2> QED BY <1>1, <2>1 DEF NapInv
<1>5. CASE Service!OrderHusbandSleep
  <2>1. /\ call = "none" /\ ppc[Owner] = "idle" /\ call' # "none" /\ husband_wake_status_' = FALSE
        /\ UNCHANGED <<wpc, ppc, taskList, husband_threads_>>
    BY <1>5 DEF Service!OrderHusbandSleep, Service!Free, Service!queueVars, Service!callVars
  <2>2. husband_threads_ # {} => \A w \in Workers : wpc[w] # "exited"
    BY <1>1, <2>1 DEF NapInv
  <2> QED BY <1>1, <2>1, <2>2 DEF NapInv
<1>6. CASE Service!JoinHusbands
  <2>1. call # "none" /\ ppc' = ppc /\ husband_threads_' = {}
    BY <1>6 DEF Service!JoinHusbands, Service!queueVars, Service!callVars
  <2> QED BY <1>1, <2>1 DEF NapInv
<1>7. CASE Service!PostSleep \/ Service!Gone
  <2>1. UNCHANGED <<wpc, ppc, taskList, call, husband_threads_, husband_wake_status_>>
    BY <1>7 DEF Service!PostSleep, Service!Gone, Service!vars, Service!queueVars,
       Service!callVars, Service!serviceVars
  <2> QED BY <1>1, <2>1 DEF NapInv
<1> QED BY <1>2, <1>3, <1>4, <1>5, <1>6, <1>7 DEF Service!Next

\* Both hold throughout.
LEMMA NapsHold == Spec => [](NapInv /\ NothingIsLost)
<1>1. Init => NapInv /\ NothingIsLost
  <2> SUFFICES ASSUME Init PROVE NapInv /\ NothingIsLost
    OBVIOUS
  <2>1. /\ husband_threads_ = {} /\ call = "none" /\ added = {}
        /\ ppc = [p \in Producers |-> "idle"]
    BY DEF Init, QueueInit, Service!Constructed
  <2> QED BY <2>1 DEF NapInv, NothingIsLost, Accepted
<1>2. IInv /\ NapInv /\ NothingIsLost /\ [Next]_vars => (NapInv /\ NothingIsLost)'
  <2> SUFFICES ASSUME IInv, NapInv, NothingIsLost, [Next]_vars PROVE NapInv' /\ NothingIsLost'
    OBVIOUS
  <2>1. NothingIsLost'
    BY NextKeeps, NothingGetsLost DEF IInv
  <2>2. CASE InService /\ Service!Next
    BY <2>1, <2>2, ServiceNaps
  <2>3. CASE (InPool /\ Pool!Next) \/ (InKitchen /\ Kitchen!Next)
    <3>1. program # "service" /\ program' = program /\ husband_threads_' = husband_threads_
      BY <2>3 DEF InPool, InKitchen, serviceVars
    <3> QED BY <2>1, <3>1 DEF NapInv
  <2>4. CASE UNCHANGED vars
    BY <2>1, <2>4 DEF NapInv, vars, queueVars, callVars, serviceVars
  <2> QED BY <2>2, <2>3, <2>4 DEF Next
<1> QED BY <1>1, <1>2, IInvHolds, PTL DEF Spec

\* orderHusbandSleep joins threads only when every order given before it has been
\* carried out: the first worker to leave found the queue empty, and nobody adds to
\* it any more (HusbandService.h, husbandRoutine and orderHusbandSleep).
THEOREM SleepsDrain == Spec => SleepDrains
<1>1. IInv /\ NapInv /\ NothingIsLost /\ [Next]_vars =>
         [husband_threads_ # {} /\ husband_threads_' = {} => taskList = <<>> /\ finished = added]_vars
  <2> SUFFICES ASSUME IInv, NapInv, NothingIsLost, Next,
                      husband_threads_ # {}, husband_threads_' = {}
               PROVE  taskList = <<>> /\ finished = added
    BY DEF vars, serviceVars
  <2>1. program = "service" /\ husband_threads_ = Workers
    BY DEF NapInv, IInv
  <2>2. Service!JoinHusbands
    BY <2>1, SemQueueAssumption DEF Next, InPool, InKitchen, InService, Service!Next, Service!Worker,
       Service!KeepServing, Service!LeaveRoutine, Service!AddWifeOrder, Service!OrderHusbandWakeUp,
       Service!OrderHusbandSleep, Service!PostSleep, Service!Gone, Service!vars, Service!serviceVars
  <2>3. call # "none" /\ \A w \in Workers : wpc[w] = "exited"
    BY <2>1, <2>2 DEF Service!JoinHusbands
  <2>4. taskList = <<>> /\ \A p \in Producers : ppc[p] # "push"
    BY <2>1, <2>3, SemQueueAssumption DEF NapInv
  <2>5. Accepted = added
    BY <2>4 DEF Accepted
  <2>6. \A w \in Workers : Running[w] \notin added
    BY <2>3, SemQueueAssumption DEF Running, IInv, QueueOK, QueueTypeOK
  <2>7. Range(taskList) = {}
    BY <2>4 DEF Range
  <2>8. added \subseteq finished
    BY <2>5, <2>6, <2>7 DEF NothingIsLost
  <2> QED BY <2>4, <2>5, <2>8 DEF IInv, QueueOK, Places
<1> QED BY <1>1, IInvHolds, NapsHold, PTL DEF Spec, SleepDrains
===============================================================================

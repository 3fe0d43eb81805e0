------------------------------- MODULE SemQueue -------------------------------
(****************************************************************************)
(* The hand-over between producers and a pool of workers that three         *)
(* programs of the repository are built from: a queue guarded by a mutex    *)
(* and counted by a semaphore.  Linux_14_ThreadPool/ThreadPool.h is the     *)
(* text these definitions translate; ThreadPool, HusbandService and         *)
(* CyberKitchen extend them with what is their own.                         *)
(*                                                                          *)
(* A critical section is two steps, so that the mutex does real work: one   *)
(* that acquires it (and, for a worker, one that reads the front), and one  *)
(* that changes the queue and releases it.                                  *)
(****************************************************************************)
EXTENDS Naturals, Sequences, FiniteSets

CONSTANTS Workers,    (* the threads the pool creates                       *)
          Producers,  (* the threads that call addTask                      *)
          Tasks,      (* the tasks, each added at most once: bounds a run   *)
          NoTask,     (* a worker's local variable when it holds none       *)
          Nobody      (* the owner of a free mutex                          *)

ASSUME SemQueueAssumption == /\ IsFiniteSet(Workers) /\ Workers # {}
                             /\ IsFiniteSet(Producers)
                             /\ Workers \cap Producers = {}
                             /\ NoTask \notin Tasks
                             /\ Nobody \notin Workers \cup Producers

VARIABLES taskList,   (* the queue, oldest task first                       *)
          task_sem,   (* value of the semaphore                             *)
          mutex,      (* thread that owns the mutex, or Nobody              *)
          wpc,        (* wpc[w]: where worker w stands in its loop          *)
          task,       (* task[w]: the worker's copy of the front            *)
          ppc,        (* ppc[p]: where producer p stands in addTask         *)
          offer,      (* offer[p]: the argument of that call                *)
          added,      (* history: the tasks addTask was called with         *)
          finished    (* history: the tasks that have been executed         *)

callVars  == <<ppc, offer, added>>
queueVars == <<taskList, task_sem, mutex, wpc, task, callVars, finished>>

WorkerPC   == {"check", "wait", "lock", "look", "pop", "run", "exited"}
ProducerPC == {"idle", "push", "post"}

QueueInit == /\ taskList = <<>> /\ task_sem = 0 /\ mutex = Nobody
             /\ task = [w \in Workers |-> NoTask]
             /\ ppc = [p \in Producers |-> "idle"]
             /\ offer = [p \in Producers |-> NoTask]
             /\ added = {} /\ finished = {}

At(w, pc) == wpc[w] = pc
Goto(w, pc) == wpc' = [wpc EXCEPT ![w] = pc]

-----------------------------------------------------------------------------
(* addTask: lock, push, unlock, then post.                                  *)

\* Mutant: the semaphore is already posted when the producer locks.
AddLockPosts(p, t) == /\ ppc[p] = "idle" /\ t \notin added
                      /\ mutex = Nobody /\ mutex' = p
                      /\ task_sem' = task_sem + 1
                      /\ added' = added \cup {t}
                      /\ offer' = [offer EXCEPT ![p] = t]
                      /\ ppc' = [ppc EXCEPT ![p] = "push"]
                      /\ UNCHANGED <<taskList, wpc, task, finished>>

AddLock(p, t) == /\ ppc[p] = "idle" /\ t \notin added
                 /\ mutex = Nobody /\ mutex' = p
                 /\ added' = added \cup {t}
                 /\ offer' = [offer EXCEPT ![p] = t]
                 /\ ppc' = [ppc EXCEPT ![p] = "push"]
                 /\ UNCHANGED <<taskList, task_sem, wpc, task, finished>>

AddPush(p) == /\ ppc[p] = "push"
              /\ taskList' = Append(taskList, offer[p])
              /\ mutex' = Nobody
              /\ ppc' = [ppc EXCEPT ![p] = "post"]
              /\ UNCHANGED <<task_sem, wpc, task, offer, added, finished>>

\* Mutant: the post is forgotten.
AddPostForgotten(p) == /\ ppc[p] = "post"
                       /\ offer' = [offer EXCEPT ![p] = NoTask]
                       /\ ppc' = [ppc EXCEPT ![p] = "idle"]
                       /\ UNCHANGED <<taskList, task_sem, mutex, wpc, task, added, finished>>

AddPost(p) == /\ ppc[p] = "post"
              /\ task_sem' = task_sem + 1
              /\ offer' = [offer EXCEPT ![p] = NoTask]
              /\ ppc' = [ppc EXCEPT ![p] = "idle"]
              /\ UNCHANGED <<taskList, mutex, wpc, task, added, finished>>

Produce(p) == (\E t \in Tasks : AddLock(p, t)) \/ AddPush(p) \/ AddPost(p)

-----------------------------------------------------------------------------
(* The body of the worker loop, from sem_wait to the end of the task.       *)

SemWait(w) == /\ At(w, "wait") /\ Goto(w, "lock")
              /\ task_sem > 0
              /\ task_sem' = task_sem - 1
              /\ UNCHANGED <<taskList, mutex, task, callVars, finished>>

LockQueue(w) == /\ At(w, "lock") /\ Goto(w, "look")
                /\ mutex = Nobody /\ mutex' = w
                /\ UNCHANGED <<taskList, task_sem, task, callVars, finished>>

\* Mutant: the early return forgets to unlock.
FoundEmptyKeepsLock(w) == /\ At(w, "look") /\ Goto(w, "check")
                          /\ taskList = <<>>
                          /\ UNCHANGED <<taskList, task_sem, mutex, task, callVars, finished>>

\* The token was not backed by a task: unlock and go round the loop again.
FoundEmpty(w) == /\ At(w, "look") /\ Goto(w, "check")
                 /\ taskList = <<>>
                 /\ mutex' = Nobody
                 /\ UNCHANGED <<taskList, task_sem, task, callVars, finished>>

\* Mutant: back() for front().
ReadBack(w) == /\ At(w, "look") /\ Goto(w, "pop")
               /\ taskList # <<>>
               /\ task' = [task EXCEPT ![w] = taskList[Len(taskList)]]
               /\ UNCHANGED <<taskList, task_sem, mutex, callVars, finished>>

ReadFront(w) == /\ At(w, "look") /\ Goto(w, "pop")
                /\ taskList # <<>>
                /\ task' = [task EXCEPT ![w] = Head(taskList)]
                /\ UNCHANGED <<taskList, task_sem, mutex, callVars, finished>>

PopFront(w) == /\ At(w, "pop") /\ Goto(w, "run")
               /\ taskList' = Tail(taskList)
               /\ mutex' = Nobody
               /\ UNCHANGED <<task_sem, task, callVars, finished>>

RunTask(w) == /\ At(w, "run") /\ Goto(w, "check")
              /\ finished' = finished \cup {task[w]}
              /\ task' = [task EXCEPT ![w] = NoTask]
              /\ UNCHANGED <<taskList, task_sem, mutex, callVars>>

Consume(w) == \/ SemWait(w)   \/ LockQueue(w) \/ FoundEmpty(w)
              \/ ReadFront(w) \/ PopFront(w)  \/ RunTask(w)

-----------------------------------------------------------------------------
QueueTypeOK == /\ taskList \in Seq(Tasks)
               /\ task_sem \in Nat
               /\ mutex \in Workers \cup Producers \cup {Nobody}
               /\ wpc \in [Workers -> WorkerPC]
               /\ task \in [Workers -> Tasks \cup {NoTask}]
               /\ ppc \in [Producers -> ProducerPC]
               /\ offer \in [Producers -> Tasks \cup {NoTask}]
               /\ added \in SUBSET Tasks
               /\ finished \in SUBSET Tasks

\* Workers that hold a token and have not yet turned it into a task.
Claimants == {w \in Workers : wpc[w] \in {"lock", "look", "pop"}}

\* Producers whose task is queued and whose token is still to come.
Owing == {p \in Producers : ppc[p] = "post"}

\* Every queued task has a token that will fetch it: one in the semaphore, one
\* a worker already took, or one its producer is about to post.  No order of
\* posts, waits and shutdown posts leaves a task that nobody will wake up for.
NoTaskStranded ==
    Len(taskList) <= task_sem + Cardinality(Claimants) + Cardinality(Owing)

\* The hand-over seen as an abstract work queue: a task is running from the
\* moment it left the queue to the end of its execution.
Running == [w \in Workers |-> IF wpc[w] = "run" THEN task[w] ELSE NoTask]

\* The tasks that reached the queue.
Accepted == added \ {offer[p] : p \in {q \in Producers : ppc[q] = "push"}}

WQ == INSTANCE WorkQueue WITH waiting  <- taskList,
                              running  <- Running,
                              accepted <- Accepted

\* Whatever the interleaving, tasks are started once, in the order they were
\* queued, by the worker that goes on to finish them (taskList, mutex_ and
\* task_sem_ together implement the abstract queue).
ImplementsWorkQueue == WQ!Spec
==============================================================================

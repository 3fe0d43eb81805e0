------------------------------ MODULE ThreadPool ------------------------------
(****************************************************************************)
(* Linux_14_ThreadPool/ThreadPool.h: a pool that runs until its destructor  *)
(* clears running_, posts one token per thread and joins.  Tasks still in   *)
(* the queue at that moment are abandoned.                                  *)
(*                                                                          *)
(* running_ is a plain bool read without a lock.  The loop contains calls   *)
(* the compiler cannot see into, so each test of the loop reads memory and  *)
(* returns the value before or after the destructor's store: the two orders *)
(* of StopRunning and KeepRunning.                                          *)
(****************************************************************************)
EXTENDS SemQueue

VARIABLES running_,   (* the flag the workers test                          *)
          dtor,       (* where the destructor stands                        *)
          posted      (* tokens the destructor has posted                   *)

poolVars == <<running_, dtor, posted>>
vars     == <<queueVars, poolVars>>

Constructed == running_ = TRUE /\ dtor = "alive" /\ posted = 0

Init == QueueInit /\ wpc = [w \in Workers |-> "check"] /\ Constructed

-----------------------------------------------------------------------------
(* The test of worker_routine's loop.                                       *)

KeepRunning(w) == /\ At(w, "check") /\ Goto(w, "wait")
                  /\ running_
                  /\ UNCHANGED <<taskList, task_sem, mutex, task, callVars, finished, poolVars>>

LeaveLoop(w) == /\ At(w, "check") /\ Goto(w, "exited")
                /\ ~running_
                /\ UNCHANGED <<taskList, task_sem, mutex, task, callVars, finished, poolVars>>

-----------------------------------------------------------------------------
(* The destructor.  The object may only be destroyed when no addTask call   *)
(* is in progress or to come: AddTask is closed once dtor leaves "alive".   *)

StopRunning == /\ dtor = "alive"
               /\ \A p \in Producers : ppc[p] = "idle"
               /\ running_' = FALSE
               /\ dtor' = "posting"
               /\ UNCHANGED <<queueVars, posted>>

PostToken == /\ dtor = "posting"
             /\ posted < Cardinality(Workers)
             /\ task_sem' = task_sem + 1
             /\ posted' = posted + 1
             /\ UNCHANGED <<taskList, mutex, wpc, task, callVars, finished, running_, dtor>>

\* Every pthread_join has returned; the semaphore and the mutex are destroyed.
JoinAll == /\ dtor = "posting"
           /\ posted = Cardinality(Workers)
           /\ \A w \in Workers : wpc[w] = "exited"
           /\ dtor' = "destroyed"
           /\ UNCHANGED <<queueVars, running_, posted>>

-----------------------------------------------------------------------------
Worker(w) == \/ KeepRunning(w) \/ LeaveLoop(w)
             \/ Consume(w) /\ UNCHANGED poolVars

AddTask(p) == /\ dtor = "alive"
              /\ Produce(p)
              /\ UNCHANGED poolVars

\* The pool is gone: the only state in which nothing more happens.
Destroyed == dtor = "destroyed" /\ UNCHANGED vars

Next == \/ \E w \in Workers : Worker(w)
        \/ \E p \in Producers : AddTask(p)
        \/ StopRunning \/ PostToken \/ JoinAll \/ Destroyed

Spec == Init /\ [][Next]_vars

-----------------------------------------------------------------------------
TypeOK == /\ QueueTypeOK
          /\ running_ \in BOOLEAN
          /\ dtor \in {"alive", "posting", "destroyed"}
          /\ posted \in 0..Cardinality(Workers)

\* Before the destructor runs no token is ever spent on an empty queue: the
\* "continue" of worker_routine is only reached because of the shutdown posts.
NoEmptyToken == running_ => \A w \in Workers : wpc[w] = "look" => taskList # <<>>
==============================================================================

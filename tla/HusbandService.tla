---------------------------- MODULE HusbandService ----------------------------
(****************************************************************************)
(* Linux_14_ThreadPoolWifeTask: HusbandService.h and the main program of    *)
(* WifeController.cpp.  Same queue as ThreadPool, other promise: the        *)
(* workers go on while the queue is not empty, so that orderHusbandSleep    *)
(* drains it, and the service can be woken up again with the tokens that    *)
(* the last sleep left in the semaphore.                                    *)
(*                                                                          *)
(* One thread owns the service: it adds orders, wakes it and puts it to     *)
(* sleep, one call at a time.  The loop test reads the deque without the    *)
(* mutex; the two pointers it compares are read before or after a push or a *)
(* pop in progress, so it sees the queue before or after that change.       *)
(****************************************************************************)
EXTENDS SemQueue

CONSTANTS Owner,     (* the producer that owns the service                  *)
          MaxNaps    (* bound: how often the service is woken up            *)

VARIABLES husband_wake_status_,  (* the flag the workers test               *)
          husband_threads_,      (* workers whose handle is not 0           *)
          call,      (* what the owner is doing besides addWifeOrder        *)
          roused,    (* tokens posted by the current orderHusbandSleep      *)
          naps       (* how often orderHusbandWakeUp was called             *)

serviceVars == <<husband_wake_status_, husband_threads_, call, roused, naps>>
vars        == <<queueVars, serviceVars>>

\* The constructor leaves husband_wake_status_ uninitialised; no thread reads it
\* before orderHusbandWakeUp has set it.
Constructed == /\ husband_wake_status_ \in BOOLEAN /\ husband_threads_ = {}
               /\ call = "none" /\ roused = 0 /\ naps = 0

Init == QueueInit /\ wpc = [w \in Workers |-> "exited"] /\ Constructed

\* husband_threads_.size(): the vector keeps its entries when they are joined.
ThreadSlots == IF naps = 0 THEN 0 ELSE Cardinality(Workers)

Free == call = "none" /\ ppc[Owner] = "idle"

-----------------------------------------------------------------------------
(* husbandRoutine's loop test.                                              *)

KeepServing(w) == /\ At(w, "check") /\ Goto(w, "wait")
                  /\ husband_wake_status_ \/ taskList # <<>>
                  /\ UNCHANGED <<taskList, task_sem, mutex, task, callVars, finished, serviceVars>>

\* Mutant: the loop test forgets the orders that are still queued.
LeaveRoutineEarly(w) == /\ At(w, "check") /\ Goto(w, "exited")
                        /\ ~husband_wake_status_
                        /\ UNCHANGED <<taskList, task_sem, mutex, task, callVars, finished,
                                       serviceVars>>

LeaveRoutine(w) == /\ At(w, "check") /\ Goto(w, "exited")
                   /\ ~(husband_wake_status_ \/ taskList # <<>>)
                   /\ UNCHANGED <<taskList, task_sem, mutex, task, callVars, finished, serviceVars>>

-----------------------------------------------------------------------------
(* The owner's calls.                                                       *)

\* The program wakes the service only when all its threads have been joined.
OrderHusbandWakeUp == /\ Free
                      /\ husband_threads_ = {}
                      /\ naps < MaxNaps
                      /\ husband_wake_status_' = TRUE
                      /\ husband_threads_' = Workers
                      /\ wpc' = [w \in Workers |-> "check"]
                      /\ naps' = naps + 1
                      /\ UNCHANGED <<taskList, task_sem, mutex, task, callVars, finished, call, roused>>

\* orderHusbandSleep, called by the program ("sleep": the menu's owner puts an
\* awake service to sleep) or by the destructor ("dtor": in either state).
OrderHusbandSleep == /\ Free
                     /\ \/ husband_threads_ # {} /\ call' = "sleep"
                        \/ call' = "dtor"
                     /\ husband_wake_status_' = FALSE
                     /\ roused' = 0
                     /\ UNCHANGED <<queueVars, husband_threads_, naps>>

\* Mutant: the sleepers are not posted to.
PostSleepForgotten == /\ call \in {"sleep", "dtor"}
                      /\ roused < ThreadSlots
                      /\ roused' = roused + 1
                      /\ UNCHANGED <<queueVars, husband_wake_status_, husband_threads_, call, naps>>

PostSleep == /\ call \in {"sleep", "dtor"}
             /\ roused < ThreadSlots
             /\ roused' = roused + 1
             /\ task_sem' = task_sem + 1
             /\ UNCHANGED <<taskList, mutex, wpc, task, callVars, finished,
                            husband_wake_status_, husband_threads_, call, naps>>

\* The joins have returned and the handles are set to 0.  After the destructor's
\* call the semaphore and the mutex are destroyed.
JoinHusbands == /\ call \in {"sleep", "dtor"}
                /\ roused = ThreadSlots
                /\ \A w \in husband_threads_ : wpc[w] = "exited"
                /\ husband_threads_' = {}
                /\ call' = IF call = "dtor" THEN "gone" ELSE "none"
                /\ UNCHANGED <<queueVars, husband_wake_status_, roused, naps>>

AddWifeOrder == /\ call = "none"
                /\ Produce(Owner)
                /\ UNCHANGED serviceVars

-----------------------------------------------------------------------------
Worker(w) == \/ KeepServing(w) \/ LeaveRoutine(w)
             \/ Consume(w) /\ UNCHANGED serviceVars

Gone == call = "gone" /\ UNCHANGED vars

Next == \/ \E w \in Workers : Worker(w)
        \/ AddWifeOrder \/ OrderHusbandWakeUp \/ OrderHusbandSleep
        \/ PostSleep \/ JoinHusbands \/ Gone

Spec == Init /\ [][Next]_vars

-----------------------------------------------------------------------------
TypeOK == /\ QueueTypeOK
          /\ husband_wake_status_ \in BOOLEAN
          /\ husband_threads_ \in SUBSET Workers
          /\ call \in {"none", "sleep", "dtor", "gone"}
          /\ roused \in 0..Cardinality(Workers)
          /\ naps \in 0..MaxNaps
==============================================================================

-------------------------------- MODULE Pools --------------------------------
(****************************************************************************)
(* The three programs that queue behind a semaphore, one at a time: the     *)
(* thread pool, the chore service and the kitchen.  They share no code; they *)
(* share the hand-over of SemQueue, and what a caller may expect of it is   *)
(* stated here once for all of them.  `program` says which of them runs;    *)
(* what belongs to the others keeps its initial value.                      *)
(****************************************************************************)
EXTENDS SemQueue

CONSTANTS Owner, MaxNaps    (* HusbandService's                             *)

ASSUME OwnerAssumption == Owner \in Producers /\ MaxNaps \in Nat

VARIABLES program,
          running_, dtor, posted,
          husband_wake_status_, husband_threads_, call, roused, naps,
          global_id, next_id, spin, id

Pool    == INSTANCE ThreadPool
Service == INSTANCE HusbandService
Kitchen == INSTANCE CyberKitchen

poolVars    == <<running_, dtor, posted>>
serviceVars == <<husband_wake_status_, husband_threads_, call, roused, naps>>
kitchenVars == <<global_id, next_id, spin, id>>
vars        == <<program, queueVars, poolVars, serviceVars, kitchenVars>>

InPool    == program = "pool"    /\ UNCHANGED <<program, serviceVars, kitchenVars>>
InService == program = "service" /\ UNCHANGED <<program, poolVars, kitchenVars>>
InKitchen == program = "kitchen" /\ UNCHANGED <<program, poolVars, serviceVars>>

Init == /\ QueueInit
        /\ Pool!Constructed /\ Service!Constructed /\ Kitchen!Constructed
        /\ \/ program = "pool"    /\ Pool!Init    /\ ~husband_wake_status_
           \/ program = "service" /\ Service!Init
           \/ program = "kitchen" /\ Kitchen!Init /\ ~husband_wake_status_

Next == \/ InPool /\ Pool!Next
        \/ InService /\ Service!Next
        \/ InKitchen /\ Kitchen!Next

Spec == Init /\ [][Next]_vars

Worker(w) == \/ InPool /\ Pool!Worker(w)
             \/ InService /\ Service!Worker(w)
             \/ InKitchen /\ Kitchen!Drone(w)

\* A call of addTask that has begun; the chefs never rest.
Producer(p) == \/ InPool /\ ppc[p] # "idle" /\ Pool!AddTask(p)
               \/ InService /\ ppc[p] # "idle" /\ Service!AddWifeOrder
               \/ InKitchen /\ Kitchen!Chef(p)

Shutdown == \/ InPool /\ (Pool!PostToken \/ Pool!JoinAll)
            \/ InService /\ (Service!PostSleep \/ Service!JoinHusbands)

\* Threads are scheduled and tasks end; a worker that keeps finding the mutex or
\* the semaphore available gets it in the end, and so does a chef.  Whether a pool
\* is ever destroyed or put to sleep, or another task added, is up to its owner.
FairSpec == /\ Spec
            /\ \A w \in Workers : SF_vars(Worker(w))
            /\ \A p \in Producers : WF_vars(Producer(p))
            /\ WF_vars(Shutdown)

-----------------------------------------------------------------------------
\* The counters of each program stay in range; in the kitchen serial numbers
\* are consecutive (CyberKitchen.h lines 69-70) and labels differ.
PoolsInv == /\ program = "pool"    => Pool!TypeOK
            /\ program = "service" => Service!TypeOK
            /\ program = "kitchen" => /\ Kitchen!TypeOK
                                      /\ Kitchen!SerialsAreConsecutive
                                      /\ Kitchen!LabelsDiffer

\* Before a shutdown no token is ever spent on an empty queue: the "continue" of
\* worker_routine (ThreadPool.h line 74) is only reached because of the
\* destructor's posts, and front(), which the kitchen calls untested
\* (CyberKitchen.h line 86), always finds a burger.
TokenMeansTask == /\ program = "pool"    => Pool!NoEmptyToken
                  /\ program = "kitchen" =>
                        \A w \in Workers : At(w, "look") => taskList # <<>>

\* A task that is added is executed: by the pool unless it is shut down first
\* (ThreadPool.h line 43), by the service if it is awake, by the kitchen always.
TaskIsRun ==
    \A t \in Tasks : (t \in added /\ (program = "service" => husband_threads_ # {}))
                        ~> (t \in finished \/ ~running_)

\* Once begun, the destructor of the pool and orderHusbandSleep return: no worker
\* is left in sem_wait, also when the semaphore still holds tokens of an earlier
\* sleep and when orders are waiting.
ShutdownReturns == /\ (dtor = "posting") ~> (dtor = "destroyed")
                   /\ (call \in {"sleep", "dtor"}) ~> (call \in {"none", "gone"})

\* A sleep that joins threads has drained the queue: every order given before it
\* has been carried out when it returns.
SleepDrains == [][husband_threads_ # {} /\ husband_threads_' = {}
                    => taskList = <<>> /\ finished = added]_vars
==============================================================================

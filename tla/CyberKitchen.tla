----------------------------- MODULE CyberKitchen -----------------------------
(****************************************************************************)
(* Linux_13_ThreadSemCommunication: chefs put burgers on a belt, drones     *)
(* take them off.  The hand-over is that of SemQueue, with two differences: *)
(* the item is made inside the critical section, from a static counter all  *)
(* chefs share, and the drones read the front without asking whether there  *)
(* is one.  Nothing ever stops the threads.                                 *)
(*                                                                          *)
(* Chefs are the Producers, drones the Workers, and a burger is its serial  *)
(* number, so that Tasks is 0 .. n-1.  Every ++ is a read and a write.      *)
(****************************************************************************)
EXTENDS SemQueue, Integers

VARIABLES global_id,  (* the next serial number                             *)
          next_id,    (* next_id[k]: chef_id and drone_id                   *)
          spin,       (* spin[k]: who holds the spin lock of a trade        *)
          id          (* id[t]: the label of a thread, once it has one     *)

labelVars   == <<next_id, spin, id>>
kitchenVars == <<global_id, labelVars>>
vars        == <<queueVars, kitchenVars>>

Threads   == Workers \cup Producers
Trades    == {"chef", "drone"}
trade(t)  == IF t \in Producers THEN "chef" ELSE "drone"
Unlabelled == -1

Constructed == /\ global_id = 0
               /\ next_id = [k \in Trades |-> 0]
               /\ spin = [k \in Trades |-> Nobody]
               /\ id = [t \in Threads |-> Unlabelled]

Init == QueueInit /\ wpc = [w \in Workers |-> "check"] /\ Constructed

-----------------------------------------------------------------------------
(* chef_thread and drone_thread: a label of one's own, then the loop.       *)

\* Mutant: the spin lock is not waited for.
ReadLabelUnlocked(t) == /\ id[t] = Unlabelled
                        /\ spin' = [spin EXCEPT ![trade(t)] = t]
                        /\ id' = [id EXCEPT ![t] = next_id[trade(t)]]
                        /\ UNCHANGED <<queueVars, global_id, next_id>>

ReadLabel(t) == /\ id[t] = Unlabelled
                /\ spin[trade(t)] = Nobody
                /\ spin' = [spin EXCEPT ![trade(t)] = t]
                /\ id' = [id EXCEPT ![t] = next_id[trade(t)]]
                /\ UNCHANGED <<queueVars, global_id, next_id>>

WriteLabel(t) == /\ spin[trade(t)] = t
                 /\ next_id' = [next_id EXCEPT ![trade(t)] = id[t] + 1]
                 /\ spin' = [spin EXCEPT ![trade(t)] = Nobody]
                 /\ UNCHANGED <<queueVars, global_id, id>>

Labelled(t) == id[t] # Unlabelled /\ spin[trade(t)] # t

\* makeBurger: the serial number is read under the mutex and written back there.
MakeBurger(c) == /\ Labelled(c)
                 /\ \/ AddLock(c, global_id) /\ global_id \in Tasks /\ UNCHANGED global_id
                    \/ AddPush(c) /\ global_id' = offer[c] + 1
                    \/ AddPost(c) /\ UNCHANGED global_id
                 /\ UNCHANGED labelVars

\* deliverBurger: round the loop, then from sem_wait to the end of the flight.
NextBurger(d) == /\ At(d, "check") /\ Goto(d, "wait")
                 /\ UNCHANGED <<taskList, task_sem, mutex, task, callVars, finished>>

DeliverBurger(d) == /\ Labelled(d)
                    /\ \/ NextBurger(d) \/ SemWait(d) \/ LockQueue(d)
                       \/ ReadFront(d) \/ PopFront(d) \/ RunTask(d)
                    /\ UNCHANGED kitchenVars

-----------------------------------------------------------------------------
Label(t) == ReadLabel(t) \/ WriteLabel(t)
Chef(c)  == Label(c) \/ MakeBurger(c)
Drone(d) == Label(d) \/ DeliverBurger(d)

\* The bound of the run is reached and everything is delivered.
Sold == finished = Tasks /\ \A d \in Workers : At(d, "wait")

Next == \/ \E c \in Producers : Chef(c)
        \/ \E d \in Workers : Drone(d)
        \/ Sold /\ UNCHANGED vars

Spec == Init /\ [][Next]_vars

-----------------------------------------------------------------------------
TypeOK == /\ QueueTypeOK
          /\ global_id \in Nat
          /\ next_id \in [Trades -> Nat]
          /\ spin \in [Trades -> Threads \cup {Nobody}]
          /\ id \in [Threads -> Nat \cup {Unlabelled}]

\* No serial number is missing or given out twice, and the belt carries
\* consecutive ones, although the chefs share one counter (lines 69-70).
SerialsAreConsecutive ==
    /\ Accepted = 0 .. global_id - 1
    /\ \A k \in 1 .. Len(taskList) : taskList[k] = global_id - Len(taskList) + k - 1

\* Two threads of a trade never wear the same label (CyberKitchen.cpp lines
\* 28-30 and 43-45).
LabelsDiffer ==
    \A t, u \in Threads :
        t # u /\ trade(t) = trade(u) /\ Labelled(t) /\ Labelled(u) => id[t] # id[u]
==============================================================================

------------------------------ MODULE WorkQueue ------------------------------
(****************************************************************************)
(* What a pool of worker threads owes its callers, with no lock, semaphore  *)
(* or program counter in sight: work handed over waits in arrival order,    *)
(* each item is started by exactly one idle worker, oldest first, and a     *)
(* worker keeps its item untouched until it has finished it.  The pools of  *)
(* the repository (the thread pool, the chore service, the chat server) are *)
(* shown to implement this specification.                                   *)
(****************************************************************************)
EXTENDS Sequences

CONSTANTS Workers,  (* the worker threads                                   *)
          Tasks,    (* the items of work, each handed over at most once     *)
          NoTask    (* what an idle worker holds, not an item               *)

VARIABLES waiting,  (* items handed over and not yet started, oldest first  *)
          running,  (* running[w]: the item worker w executes, or NoTask    *)
          accepted, (* every item handed over so far                        *)
          finished  (* the items whose execution has ended                  *)

vars == <<waiting, running, accepted, finished>>

Init == /\ waiting = <<>>
        /\ running = [w \in Workers |-> NoTask]
        /\ accepted = {}
        /\ finished = {}

Submit(t) == /\ t \notin accepted
             /\ accepted' = accepted \cup {t}
             /\ waiting' = Append(waiting, t)
             /\ UNCHANGED <<running, finished>>

Take(w) == /\ running[w] = NoTask
           /\ waiting # <<>>
           /\ running' = [running EXCEPT ![w] = Head(waiting)]
           /\ waiting' = Tail(waiting)
           /\ UNCHANGED <<accepted, finished>>

Finish(w) == /\ running[w] # NoTask
             /\ running[w] \notin finished
             /\ finished' = finished \cup {running[w]}
             /\ running' = [running EXCEPT ![w] = NoTask]
             /\ UNCHANGED <<waiting, accepted>>

Next == \/ \E t \in Tasks : Submit(t)
        \/ \E w \in Workers : Take(w) \/ Finish(w)

Spec == Init /\ [][Next]_vars
==============================================================================

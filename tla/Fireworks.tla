------------------------------ MODULE Fireworks ------------------------------
(****************************************************************************)
(* Linux_9_Thread2: two programs that cancel threads.                       *)
(*                                                                          *)
(* birthday_fireworks: detached threads each show a firework of their own;  *)
(* main cancels the music and leaves by pthread_exit, so that the process   *)
(* lives as long as a firework rises.  firework_safety_sys: main cancels a  *)
(* logger, which forbids it while it writes a record, and an engine, which  *)
(* has no place to be cancelled at but pthread_testcancel and the cout      *)
(* after it; then main returns.                                             *)
(*                                                                          *)
(* A cancelled thread ends at its next cancellation point.  A round that    *)
(* prints and changes nothing else is left out, and the times are.          *)
(****************************************************************************)
EXTENDS Naturals

CONSTANTS Sparks,   (* how many fireworks: 32 in the code                   *)
          Period    (* rounds of the engine between two tests: 1e9          *)

VARIABLES show,     (* "birthday" or "safety"                               *)
          main,     (* where main stands                                    *)
          spark,    (* spark[s]: "none", "rise", "shown" or "gone"          *)
          thread,   (* thread[t]: where a thread that can be cancelled is   *)
          pending,  (* threads that were cancelled                          *)
          half,     (* a record was begun and is not complete               *)
          rounds    (* calculateTimes                                       *)

vars == <<show, main, spark, thread, pending, half, rounds>>

Cancelled == IF show = "birthday" THEN {"bgm"} ELSE {"logger", "engine"}

Init == /\ show \in {"birthday", "safety"} /\ main = "start"
        /\ spark = [s \in 1 .. Sparks |-> "none"]
        /\ thread = [t \in {"bgm", "logger", "engine"} |-> "none"]
        /\ pending = {} /\ half = FALSE /\ rounds = 0

Goes(t, now, next) == thread[t] = now /\ thread' = [thread EXCEPT ![t] = next]
MainGoes(now, next) == main = now /\ main' = next
Alive == main # "returned"

-----------------------------------------------------------------------------
(* main                                                                     *)

Create == /\ MainGoes("start", IF show = "birthday" THEN "launch" ELSE "cancel")
          /\ thread' = [t \in DOMAIN thread |-> IF t \notin Cancelled THEN "none"
                                                ELSE IF t = "engine" THEN "test" ELSE "sleep"]
          /\ UNCHANGED <<show, spark, pending, half, rounds>>

Launch == /\ main = "launch"
          /\ LET rest == {s \in DOMAIN spark : spark[s] = "none"} IN
             IF rest = {} THEN main' = "cancel" /\ UNCHANGED spark
             ELSE \E s \in rest : /\ \A r \in rest : s <= r
                                  /\ spark' = [spark EXCEPT ![s] = "rise"] /\ UNCHANGED main
          /\ UNCHANGED <<show, thread, pending, half, rounds>>

Cancel == /\ MainGoes("cancel", "join")
          /\ pending' = Cancelled
          /\ UNCHANGED <<show, spark, thread, half, rounds>>

\* Mutant: main returns where it calls pthread_exit.
JoinAndReturn == /\ MainGoes("join", "returned")
                 /\ \A t \in Cancelled : thread[t] = "gone"
                 /\ UNCHANGED <<show, spark, thread, pending, half, rounds>>

\* The joins, and pthread_exit or the end of main.
Join == /\ MainGoes("join", IF show = "birthday" THEN "exited" ELSE "returned")
        /\ \A t \in Cancelled : thread[t] = "gone"
        /\ UNCHANGED <<show, spark, thread, pending, half, rounds>>

Main == Create \/ Launch \/ Cancel \/ Join

-----------------------------------------------------------------------------
(* The threads.                                                             *)

\* fireToSpark: the firework is shown and then deleted.
fireToSpark(s) == /\ Alive
                  /\ \/ spark[s] = "rise"  /\ spark' = [spark EXCEPT ![s] = "shown"]
                     \/ spark[s] = "shown" /\ spark' = [spark EXCEPT ![s] = "gone"]
                  /\ UNCHANGED <<show, main, thread, pending, half, rounds>>

\* task_blackbox_logger: from the first line of a record to the second.
BeginRecord == /\ Goes("logger", "awake", "record") /\ half' = TRUE
               /\ UNCHANGED <<show, main, spark, pending, rounds>>
EndRecord   == /\ Goes("logger", "record", "sleep") /\ half' = FALSE
               /\ UNCHANGED <<show, main, spark, pending, rounds>>
WakeUp      == /\ Goes("logger", "sleep", "awake") /\ "logger" \notin pending
               /\ UNCHANGED <<show, main, spark, pending, half, rounds>>

\* task_ballistic_engine: counts, and at the end of a period looks up.
Count == /\ thread["engine"] = "count"
         /\ rounds' = (rounds + 1) % Period
         /\ thread' = [thread EXCEPT !["engine"] = IF rounds' = 0 THEN "test" ELSE "count"]
         /\ UNCHANGED <<show, main, spark, pending, half>>
LookUp == /\ Goes("engine", "test", "count") /\ "engine" \notin pending
          /\ UNCHANGED <<show, main, spark, pending, half, rounds>>

\* Mutant: the record is not protected.
PointsUnprotected == [bgm |-> {"sleep"}, logger |-> {"sleep", "record"}, engine |-> {"test"}]

\* Where a thread can be cancelled: usleep and the write behind cout, unless
\* pthread_setcancelstate forbids it, and pthread_testcancel.
CancellationPoints == [bgm |-> {"sleep"}, logger |-> {"sleep"}, engine |-> {"test"}]

ActOnCancel(t) == /\ t \in pending /\ thread[t] \in CancellationPoints[t]
                  /\ thread' = [thread EXCEPT ![t] = "gone"]
                  /\ UNCHANGED <<show, main, spark, pending, half, rounds>>

Music  == ActOnCancel("bgm")
Logger == WakeUp \/ BeginRecord \/ EndRecord \/ ActOnCancel("logger")
Engine == Count \/ LookUp \/ ActOnCancel("engine")

Over == /\ main \in {"exited", "returned"}
        /\ main = "exited" => \A s \in DOMAIN spark : spark[s] = "gone"
        /\ UNCHANGED vars

Next == \/ Main \/ Logger \/ Engine \/ Music \/ Over
        \/ \E s \in DOMAIN spark : fireToSpark(s)

-----------------------------------------------------------------------------
\* No record is cut in half by the cancellation (firework_safety_sys.cpp lines
\* 10-15).
NothingIsCutOff == thread["logger"] = "gone" => ~half

\* The joins return, and every firework is shown and deleted, although main ends
\* before (birthday_fireworks.cpp lines 35 and 42).
ShowEnds == <>(/\ main \in {"exited", "returned"}
               /\ show = "birthday" => \A s \in DOMAIN spark : spark[s] = "gone")
==============================================================================

----------------------------- MODULE PalaceAndLog -----------------------------
(****************************************************************************)
(* Two exercises that know nothing of each other, one at a time: the palace *)
(* and the file log API.  `program` says which of them runs; what belongs   *)
(* to the other keeps its initial value.                                    *)
(****************************************************************************)
EXTENDS HaremPalace, LogApi

VARIABLE program

bothVars == <<program, palaceVars, vars>>

InPalace == program = "palace" /\ UNCHANGED <<program, vars>>
InLog    == program = "log"    /\ UNCHANGED <<program, palaceVars>>

BothInit == /\ PalaceInit /\ Init
            /\ \/ program = "palace"
               \/ program = "log" /\ glamor = [c \in Consorts |-> Min(Glamors)]

BothNext == \/ InPalace /\ PalaceNext
            \/ InLog /\ Next

BothSpec == BothInit /\ [][BothNext]_bothVars

\* Every thread of the palace runs, and a function of the log API that was called
\* goes on; nothing is assumed of who gets the mutex, of spurious wake-ups, or of
\* what the caller of the log API does next.
BothFairSpec ==
    /\ BothSpec
    /\ WF_palaceVars(program = "palace" /\ LordStep)
    /\ \A c \in Consorts : WF_palaceVars(program = "palace" /\ ConcubineStep(c))
    /\ WF_vars(program = "log" /\ Functions)

-----------------------------------------------------------------------------
\* The lord is never left asleep with consorts waiting, nor they with nobody
\* to call them: there is always another visit (HaremPalace.cpp lines 34-49
\* and 67-84).
VisitsGoOn == program = "palace" => []<>(lord = "attend")
===============================================================================

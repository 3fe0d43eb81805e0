------------------------------- MODULE RaceLog -------------------------------
(****************************************************************************)
(* Linux_4_ProcessManage/race_condition.c: parent and child each open one   *)
(* log after the fork, with O_TRUNC and O_APPEND, and write five lines.     *)
(*                                                                          *)
(* Line 94 hands fprintf a string for the stream: undefined.  A process     *)
(* either dies there or goes on.                                            *)
(****************************************************************************)
EXTENDS Naturals, Sequences, FiniteSets

CONSTANT Times      (* 5 in the code *)

Writers == {"parent", "child"}

VARIABLES log,      (* the file: for each line who wrote it                 *)
          did,      (* did[p]: "fork", "open", "write", "done", "died", "reaped" *)
          times,    (* times[p]: the lines p has still to write             *)
          kept      (* history, kept[p]: p's lines since the last O_TRUNC   *)

vars == <<log, did, times, kept>>

Init == /\ log = <<>>
        /\ did = [p \in Writers |-> "fork"]
        /\ times = [p \in Writers |-> Times]
        /\ kept = [p \in Writers |-> 0]

Does(p, now, next) == did[p] = now /\ did' = [did EXCEPT ![p] = next]

Open(p) == /\ Does(p, "fork", "open")
           /\ log' = <<>>
           /\ kept' = [q \in Writers |-> 0]
           /\ UNCHANGED times

GoOn(p) == (Does(p, "open", "write") \/ Does(p, "open", "died")) /\ UNCHANGED <<log, times, kept>>

\* Mutant: without O_APPEND each writes at an offset of its own.
WriteAtOffset(p) ==
    /\ did[p] = "write" /\ times[p] > 0
    /\ LET k == Times - times[p] + 1 IN
       log' = IF k <= Len(log) THEN [log EXCEPT ![k] = p] ELSE Append(log, p)
    /\ times' = [times EXCEPT ![p] = @ - 1]
    /\ kept' = [kept EXCEPT ![p] = @ + 1]
    /\ UNCHANGED did

\* O_APPEND: the line goes to the end, in one piece.
Write(p) == /\ did[p] = "write" /\ times[p] > 0
            /\ log' = Append(log, p)
            /\ times' = [times EXCEPT ![p] = @ - 1]
            /\ kept' = [kept EXCEPT ![p] = @ + 1]
            /\ UNCHANGED did

\* The parent waits for the child, whichever way it ended.
Finish == /\ \/ times["child"] = 0 /\ Does("child", "write", "done")
             \/ /\ times["parent"] = 0 /\ did["child"] \in {"done", "died"}
                /\ Does("parent", "write", "reaped")
          /\ UNCHANGED <<log, times, kept>>

Over == /\ did["parent"] \in {"reaped", "died"} /\ did["child"] \in {"done", "died"}
        /\ UNCHANGED vars

Next == (\E p \in Writers : Open(p) \/ GoOn(p) \/ Write(p)) \/ Finish \/ Over

-----------------------------------------------------------------------------
Lines(p) == Cardinality({k \in DOMAIN log : log[k] = p})

\* What was written after the last of the two truncations is in the log, no line
\* over another, in whatever order the two write; the one that opened last has
\* all of its lines there in the end (lines 89, 99-100 and 107-108).
LinesKept == /\ \A p \in Writers : Lines(p) = kept[p]
             /\ (\A p \in Writers : did[p] \in {"done", "reaped"}) =>
                    \E p \in Writers : Lines(p) = Times
==============================================================================

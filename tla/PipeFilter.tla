------------------------------ MODULE PipeFilter ------------------------------
(****************************************************************************)
(* Linux_5_ProcessCommunication/pipe_filter.c: the child's output comes     *)
(* through a pipe in pieces of any length, the parent cuts it into lines in *)
(* a buffer that grows, and prints those that contain a word.               *)
(*                                                                          *)
(* A character is EOL, one that makes a line match, or another.             *)
(****************************************************************************)
EXTENDS Naturals, Sequences, SequencesExt

CONSTANTS Outputs,  (* what ps may print                                    *)
          PipeRoom, (* characters the pipe holds, and at most read at once  *)
          Size      (* the first size of the buffer, 1024 in the code       *)

EOL == "n"
Hit == "h"

VARIABLES output,   (* history: what the child prints in all                *)
          sent,     (* characters of it that are in the pipe, or were       *)
          ps,       (* "on", "gone", or (exec failed, nothing printed) "failed" *)
          chars,    (* the characters in the pipe                           *)
          part,     (* text: what the last read returned and is not cut yet *)
          room,     (* SIZE                                                 *)
          line,     (* buff[0 .. buffIndex-1]                               *)
          printed,  (* the lines that were printed                          *)
          parent,   (* "start", "read", "wait" or "done"                    *)
          writers   (* who has the pipe open for writing                    *)

vars == <<output, sent, ps, chars, part, room, line, printed, parent, writers>>

Init == /\ output \in Outputs /\ sent = 0 /\ ps = "on" /\ chars = <<>>
        /\ part = <<>> /\ room = Size /\ line = <<>> /\ printed = <<>> /\ parent = "start"
        /\ writers = {"parent", "child"}

\* The child: its end of the pipe is closed when it ends.
Emit == /\ ps = "on"
        /\ \E k \in sent + 1 .. Len(output) :
               /\ Len(chars) + k - sent <= PipeRoom
               /\ chars' = chars \o SubSeq(output, sent + 1, k)
               /\ sent' = k
        /\ UNCHANGED <<output, ps, part, room, line, printed, parent, writers>>

End == /\ ps = "on"
       /\ \/ sent = Len(output) /\ ps' = "gone"
          \/ sent = 0 /\ ps' = "failed"
       /\ writers' = writers \ {"child"}
       /\ UNCHANGED <<output, sent, chars, part, room, line, printed, parent>>

\* Mutant: the parent keeps its end for writing.
KeepWriteEnd == /\ parent = "start" /\ parent' = "read"
                /\ UNCHANGED <<output, sent, ps, chars, part, room, line, printed, writers>>

CloseWriteEnd == /\ parent = "start" /\ parent' = "read"
                 /\ writers' = writers \ {"parent"}
                 /\ UNCHANGED <<output, sent, ps, chars, part, room, line, printed>>

ReadPart == /\ parent = "read" /\ part = <<>>
            /\ chars # <<>>
            /\ part' = chars /\ chars' = <<>>
            /\ UNCHANGED <<output, sent, ps, room, line, printed, parent, writers>>

\* Mutant: a line begins anew with every piece.
TakeAfresh == /\ part # <<>> /\ part' = Tail(part)
              /\ room' = IF Len(line) >= room THEN 2 * room ELSE room
              /\ IF Head(part) # EOL
                 THEN /\ line' = IF Len(part) = 1 THEN <<>> ELSE Append(line, Head(part))
                      /\ UNCHANGED printed
                 ELSE /\ line' = <<>>
                      /\ printed' = IF Contains(line, Hit) THEN Append(printed, line) ELSE printed
              /\ UNCHANGED <<output, sent, ps, chars, parent, writers>>

\* One character: the buffer grows before it or the NUL is stored.
Take == /\ part # <<>> /\ part' = Tail(part)
        /\ room' = IF Len(line) >= room THEN 2 * room ELSE room
        /\ IF Head(part) # EOL
           THEN line' = Append(line, Head(part)) /\ UNCHANGED printed
           ELSE /\ line' = <<>>
                /\ printed' = IF Contains(line, Hit) THEN Append(printed, line) ELSE printed
        /\ UNCHANGED <<output, sent, ps, chars, parent, writers>>

\* read returns 0 when nobody has the pipe open for writing any more.
EndOfPipe == /\ parent = "read" /\ part = <<>> /\ chars = <<>> /\ writers = {}
             /\ parent' = "wait"
             /\ UNCHANGED <<output, sent, ps, chars, part, room, line, printed, writers>>

\* waitpid: the child has ended.
Reap == /\ parent = "wait" /\ ps # "on" /\ parent' = "done"
        /\ UNCHANGED <<output, sent, ps, chars, part, room, line, printed, writers>>

Child  == Emit \/ End
Parent == CloseWriteEnd \/ ReadPart \/ Take \/ EndOfPipe \/ Reap

Next == Child \/ Parent \/ (parent = "done" /\ UNCHANGED vars)

-----------------------------------------------------------------------------
\* The lines of what was printed that contain the word: after every end of line
\* what stands between it and the one before.
Ends == {k \in DOMAIN output : output[k] = EOL}
LineTo(e) == LET before == {k \in Ends : k < e}
                 from == IF before = {} THEN 0 ELSE CHOOSE k \in before : \A j \in before : j <= k
             IN SubSeq(output, from + 1, e - 1)
Hits == {e \in Ends : Contains(LineTo(e), Hit)}
\* The n-th of them is the one with n of them up to it.
Matching == [n \in 1 .. Cardinality(Hits) |->
                LineTo(CHOOSE e \in Hits : Cardinality({d \in Hits : d <= e}) = n)]

\* However the output is cut into pieces, its whole lines are printed that match,
\* and no others, in their order (lines 44-60); the buffer always has a cell for
\* what is stored next (line 46).
LinesAreCut == /\ IsPrefix(printed, Matching)
               /\ parent \in {"wait", "done"} /\ ps = "gone" => printed = Matching
               /\ Len(line) <= room

\* The parent ends: it does not wait for a writer that is itself (line 32), nor for
\* a child that has ended.
FilterEnds == <>(parent = "done")
===============================================================================

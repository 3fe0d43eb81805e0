------------------------------ MODULE MaidStatus ------------------------------
(****************************************************************************)
(* Linux_6_ProcessShareMem: two programs, shm_writer and shm_reader, hold a *)
(* conversation in one struct of shared memory.  useFlag says that somebody *)
(* is at the struct, pid who wrote it last.  There is no lock: the loops    *)
(* poll, and every test and every write of a field is a step.  What         *)
(* switchFlag negates is read with the step before it.                      *)
(*                                                                          *)
(* What is typed is a word or "quit"; command and gesture are one input.    *)
(****************************************************************************)
EXTENDS Naturals

Talkers == {"writer", "reader"}
Inputs  == {"word", "quit"}
Fresh   == "zeroes"

VARIABLES segment, (* the shared memory: "none", "there" or "marked" (RMID) *)
          useFlag, pid, command,  (* the fields of the struct               *)
          pc,      (* where a talker's program stands                       *)
          flag,    (* flag[t]: what t has read of useFlag, to negate it     *)
          races    (* history: "early", the reader came before the writer   *)
                   (* had said anything; "torn", a pid was written between  *)
                   (* the two reads of the other's test                     *)

vars   == <<segment, useFlag, pid, command, pc, flag, races>>
struct == <<useFlag, pid, command>>

\* The kernel gives zeroes: no writer has the pid 0.
Init == /\ segment = "none"
        /\ useFlag = FALSE /\ pid = Fresh /\ command = Fresh
        /\ pc = [t \in Talkers |-> "start"]
        /\ flag = [t \in Talkers |-> FALSE]
        /\ races = {}

From(t, at, to) == pc[t] = at /\ pc' = [pc EXCEPT ![t] = to]

-----------------------------------------------------------------------------
(* main up to the loop: the writer creates the segment, the reader does not.*)

Attach(t) == /\ From(t, "start", "poll")
             /\ IF t = "writer" THEN segment' = "there" /\ UNCHANGED races
                ELSE /\ segment = "there" /\ UNCHANGED segment
                     /\ races' = IF pid = Fresh THEN races \cup {"early"} ELSE races
             /\ UNCHANGED <<struct, flag>>

\* The segment is only waiting for its last user.  A reader that finds none
\* because the writer has not created it yet ends and is started again.
AttachFails == /\ segment = "marked" /\ From("reader", "start", "done")
               /\ UNCHANGED <<segment, struct, flag, races>>

-----------------------------------------------------------------------------
(* The loop, the same in both programs.                                     *)

\* readFlag; then getPid; after 0.1 s again.
ReadFlag(t) == /\ From(t, "poll", "whose")
               /\ ~useFlag
               /\ UNCHANGED <<segment, struct, flag, races>>

\* Mutant: who wrote last is not looked at.
GetPidNot(t) == /\ From(t, "whose", "raise")
                /\ flag' = [flag EXCEPT ![t] = useFlag]
                /\ UNCHANGED <<segment, struct, races>>

\* The other has written: switchFlag begins.
GetPid(t) == /\ \/ pid = t /\ From(t, "whose", "poll") /\ UNCHANGED flag
                \/ pid # t /\ From(t, "whose", "raise") /\ flag' = [flag EXCEPT ![t] = useFlag]
             /\ UNCHANGED <<segment, struct, races>>

RaiseFlag(t) == /\ From(t, "raise", "read")
                /\ useFlag' = ~flag[t]
                /\ UNCHANGED <<segment, pid, command, flag, races>>

\* assertQuit: lower the flag and leave, or show what is there.
ReadCommand(t) == /\ From(t, "read", IF command = "quit" THEN "heard quit" ELSE "write pid")
                  /\ flag' = [flag EXCEPT ![t] = useFlag]
                  /\ UNCHANGED <<segment, struct, races>>

HeardQuit(t) == /\ From(t, "heard quit", "detach")
                /\ useFlag' = ~flag[t]
                /\ UNCHANGED <<segment, pid, command, flag, races>>

\* set: one's own pid, and then, when it has been typed, the rest.
WritePid(t) == /\ From(t, "write pid", "write command")
               /\ pid' = t
               /\ races' = IF \E u \in Talkers \ {t} : pc[u] = "whose" THEN races \cup {"torn"}
                           ELSE races
               /\ UNCHANGED <<segment, useFlag, command, flag>>

WriteCommand(t) == /\ From(t, "write command", "lower")
                   /\ command' \in Inputs
                   /\ flag' = [flag EXCEPT ![t] = useFlag]
                   /\ UNCHANGED <<segment, useFlag, pid, races>>

\* Mutant: the flag stays up.
LowerFlagNot(t) == /\ From(t, "lower", "said")
                   /\ UNCHANGED <<segment, struct, flag, races>>

LowerFlag(t) == /\ From(t, "lower", "said")
                /\ useFlag' = ~flag[t]
                /\ UNCHANGED <<segment, pid, command, flag, races>>

\* The second assertQuit asks the struct, not what was typed.
Said(t) == /\ From(t, "said", IF command = "quit" THEN "detach" ELSE "poll")
           /\ UNCHANGED <<segment, struct, flag, races>>

\* shmdt; the writer marks the segment, which goes with its last user.
Detach(t) == /\ From(t, "detach", "done")
             /\ segment' = IF t = "writer" THEN "marked" ELSE segment
             /\ UNCHANGED <<struct, flag, races>>

Talk(t) == \/ Attach(t)      \/ ReadFlag(t)  \/ GetPid(t)   \/ RaiseFlag(t)
           \/ ReadCommand(t) \/ HeardQuit(t) \/ WritePid(t) \/ WriteCommand(t)
           \/ LowerFlag(t)   \/ Said(t)      \/ Detach(t)   \/ (t = "reader" /\ AttachFails)

Over == (\A t \in Talkers : pc[t] = "done") /\ UNCHANGED vars

\* A race may leave the flag up with nobody at the struct: both poll for ever.
Polling == /\ races # {} /\ useFlag /\ \A t \in Talkers : pc[t] \in {"poll", "done"}
           /\ UNCHANGED vars

Next == (\E t \in Talkers : Talk(t)) \/ Over \/ Polling
Spec == Init /\ [][Next]_vars

-----------------------------------------------------------------------------
(* What is relied on.                                                       *)

AtTheStruct(t) == pc[t] \in {"read", "heard quit", "write pid", "write command", "lower"}

\* The two are never at the struct together: who raises the flag keeps the
\* other out until it is lowered (lines 30-46 of both programs; the comment at
\* line 31: the other has not finished reading, wait).
OneAtATime == ~ (AtTheStruct("writer") /\ AtTheStruct("reader"))

\* The reader's coming early and a pid written between the two reads of a test
\* are the only ways to meet there, and to read what one has said oneself.
OnlyTheTwoRaces ==
    races = {} => /\ OneAtATime
                  /\ \A t \in Talkers : pc[t] \in {"read", "heard quit"} => pid # t

\* Whoever says quit, both programs end, unless one of the races has happened.
QuitEndsBoth == \A t \in Talkers :
    (pc[t] = "said" /\ command = "quit")
        ~> (races # {} \/ \A u \in Talkers : pc[u] = "done")
=============================================================================

------------------------------- MODULE Processes -------------------------------
(****************************************************************************)
(* The small programs of several processes, one at a time: a log with two   *)
(* writers, a pipe, a named pipe, a shared struct, two message queues, a    *)
(* shared page with semaphores, and threads that are cancelled.             *)
(* `program` says which of them runs; what belongs to the others keeps its  *)
(* initial value.                                                           *)
(****************************************************************************)
EXTENDS Naturals, Sequences

CONSTANTS FoodRounds, OrderRounds, Starts,   (* Womb's and Household's      *)
          Times,                             (* RaceLog's                   *)
          Clients, Actions,                  (* MaidFifo's                  *)
          Outputs, PipeRoom, Size,           (* PipeFilter's                *)
          Disturbances, Editions, MaxDay, Blank,  (* Notebook's             *)
          Sparks, Period                     (* Fireworks'                  *)

ASSUME ProcessesAssumption == /\ FoodRounds \in Nat \ {0, 1}
                              /\ {OrderRounds, Starts, Times, PipeRoom, Size, Sparks, Period} \subseteq Nat \ {0}
                              /\ <<>> \in Outputs /\ Outputs \subseteq Seq(STRING)
                              /\ Disturbances \subseteq SUBSET {"writer", "reader"}
                              /\ Editions \in Nat \ {0} /\ MaxDay \in Nat \ {0, 1}
                              /\ Blank \notin 0 .. MaxDay

VARIABLES program,
          queue, dad, dtimes, baby, btimes, womb, stolen,
          exists, darling, i, j, me, qid, darlings, mes, obeyed,
          segment, useFlag, pid, command, pc, flag, races,
          log, did, times, kept,
          fifo, pipe, maid, client, says, heard, merged,
          output, sent, ps, chars, part, room, line, printed, parent, writers,
          interrupted, link, created, sem, id, message, npc, handle, started, day,
          show, main, spark, thread, pending, half, rounds

Womb      == INSTANCE Womb WITH Rounds <- FoodRounds
Household == INSTANCE Household WITH Rounds <- OrderRounds
Talk      == INSTANCE MaidStatus
Race      == INSTANCE RaceLog
Fifo      == INSTANCE MaidFifo
Filter    == INSTANCE PipeFilter
Notebook  == INSTANCE Notebook WITH pc <- npc, Starts <- Editions
Fireworks == INSTANCE Fireworks

wombVars      == <<dad, dtimes, baby, btimes, womb, stolen>>
householdVars == <<exists, darling, i, j, me, qid, darlings, mes, obeyed>>
talkVars      == <<segment, useFlag, pid, command, pc, flag, races>>
raceVars      == <<log, did, times, kept>>
fifoVars      == <<fifo, pipe, maid, client, says, heard, merged>>
filterVars    == <<output, sent, ps, chars, part, room, line, printed, parent, writers>>
notebookVars  == <<interrupted, link, created, sem, id, message, npc, handle, started, day>>
showVars      == <<show, main, spark, thread, pending, half, rounds>>
vars == <<program, queue, wombVars, householdVars, talkVars, raceVars, fifoVars, filterVars,
          notebookVars, showVars>>

Init == /\ Womb!Init /\ Household!Init /\ Talk!Init /\ Race!Init /\ Fifo!Init /\ Filter!Init
        /\ Fireworks!Init
        /\ program \in {"womb", "household", "talk", "race", "fifo", "filter", "notebook", "show"}
        /\ program = "fifo" \/ fifo = "none"
        /\ program = "filter" \/ output = <<>>
        /\ program = "show" \/ show = "birthday"
        /\ IF program = "notebook" THEN Notebook!Init ELSE Notebook!ForkInit

\* The messages, the shared memory and the files: who runs leaves the others alone.
Messages == UNCHANGED <<queue, wombVars, householdVars>>
Memory   == UNCHANGED <<talkVars, notebookVars, showVars>>
Files    == UNCHANGED <<raceVars, fifoVars, filterVars>>
Runs(name) == program = name /\ UNCHANGED program

InWomb      == Runs("womb") /\ UNCHANGED householdVars /\ Memory /\ Files
InHousehold == Runs("household") /\ UNCHANGED wombVars /\ Memory /\ Files
InTalk      == Runs("talk") /\ UNCHANGED <<notebookVars, showVars>> /\ Messages /\ Files
InNotebook  == Runs("notebook") /\ UNCHANGED <<talkVars, showVars>> /\ Messages /\ Files
InShow      == Runs("show") /\ UNCHANGED <<talkVars, notebookVars>> /\ Messages /\ Files
InRace      == Runs("race") /\ UNCHANGED <<fifoVars, filterVars>> /\ Messages /\ Memory
InFifo      == Runs("fifo") /\ UNCHANGED <<raceVars, filterVars>> /\ Messages /\ Memory
InFilter    == Runs("filter") /\ UNCHANGED <<raceVars, fifoVars>> /\ Messages /\ Memory

Next == \/ InWomb /\ Womb!Next
        \/ InHousehold /\ Household!Next
        \/ InTalk /\ Talk!Next
        \/ InRace /\ Race!Next
        \/ InFifo /\ Fifo!Next
        \/ InFilter /\ Filter!Next
        \/ InNotebook /\ Notebook!Next
        \/ InShow /\ Fireworks!Next

Spec == Init /\ [][Next]_vars

\* Processes and threads run, and who is asked at a terminal answers.  Nobody has to start
\* darling, or to write into the named pipe.
FairSpec == /\ Spec
            /\ WF_vars(InWomb /\ Womb!Dad) /\ WF_vars(InWomb /\ Womb!Baby)
            /\ WF_vars(InHousehold /\ Household!Darling)
            /\ WF_vars(InHousehold /\ Household!Me)
            /\ WF_vars(InHousehold /\ Household!ComeHome)
            /\ \A t \in {"writer", "reader"} : WF_vars(InTalk /\ Talk!Talk(t))
            /\ WF_vars(InFifo /\ Fifo!Maid)
            /\ WF_vars(InFilter /\ Filter!Child) /\ WF_vars(InFilter /\ Filter!Parent)
            /\ WF_vars(InNotebook /\ Notebook!WriterStep)
            /\ WF_vars(InNotebook /\ Notebook!ReaderStep)
            /\ WF_vars(InShow /\ Fireworks!Main) /\ WF_vars(InShow /\ Fireworks!Music)
            /\ WF_vars(InShow /\ Fireworks!Logger) /\ WF_vars(InShow /\ Fireworks!Engine)
            /\ \A s \in 1 .. Sparks : WF_vars(InShow /\ Fireworks!fireToSpark(s))

-----------------------------------------------------------------------------
\* What each program relies on at any moment: see the invariants' own comments.
ProcessesInv == CASE program = "womb"      -> Womb!BirthInv
                  [] program = "household" -> Household!OrdersInv
                  [] program = "talk"      -> Talk!OnlyTheTwoRaces
                  [] program = "race"      -> Race!LinesKept
                  [] program = "fifo"      -> Fifo!OnlyExitStops
                  [] program = "filter"    -> Filter!LinesAreCut
                  [] program = "notebook"  -> Notebook!PageInv
                  [] program = "show"      -> Fireworks!NothingIsCutOff

\* The child is born as long as the father has taken no food back (womb.cpp
\* lines 92 and 106).
BornUnlessStolen == program = "womb" => <>(dad = "done" \/ stolen > 0)

\* An answer is heard: darling ends, and the queue is removed (darling.cpp lines
\* 39-55).
AnswerIsHeard == Household!AnswerIsHeard

\* A conversation ends: both talkers when one says quit (shm_writer.cpp lines
\* 36-47), the server of the fifo when the word is read alone (maid_server.c line
\* 46), the filter at the end of its child's output (pipe_filter.c lines 32, 44).  So do
\* the programs that cancel threads (birthday_fireworks.cpp lines 39-42).
ConversationsEnd == /\ Talk!QuitEndsBoth
                    /\ Fifo!ExitStops
                    /\ program = "filter" => Filter!FilterEnds
                    /\ program = "show" => Fireworks!ShowEnds

\* Every day is read, in order, and once, if nobody is interrupted
\* (process_anony_comm.cpp lines 22-46).
DaysAreReadInOrder == Notebook!DaysAreReadInOrder

\* The reading goes on (line 36 of notebook_reader.cpp: while(true)) if nobody is
\* interrupted: a reader interrupted at his turn does not give it back.
ReadingGoesOn == program = "notebook" => Notebook!ReadingGoesOn
===============================================================================

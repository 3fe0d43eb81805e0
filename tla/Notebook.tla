------------------------------- MODULE Notebook -------------------------------
(****************************************************************************)
(* Linux_13_ProcessSemaphoreCommunite: a writer and a reader take turns at  *)
(* one shared page; sem_write holds the writer's turn, sem_read the         *)
(* reader's.  In process_anony_comm.cpp both are created before the fork;   *)
(* in notebook_writer.cpp and notebook_reader.cpp page and semaphores have  *)
(* names, are created by whichever process opens them first, and are        *)
(* unlinked when the writer is interrupted: a name stands for one object    *)
(* after another, numbered here.                                            *)
(*                                                                          *)
(* The page holds the number of the day that is written on it, or Blank.    *)
(* Days are counted modulo MaxDay.                                          *)
(****************************************************************************)
EXTENDS Naturals

CONSTANTS Disturbances, (* sets of processes the user may interrupt         *)
          Starts,      (* bound: how often each process is started          *)
          MaxDay,      (* bound: days are counted modulo this               *)
          Blank

Procs == {"writer", "reader"}
Names == {"page", "sem_write", "sem_read"}

VARIABLES interrupted, (* the processes the user interrupts               *)
          link,    (* link[n]: the object a name stands for, 0 for none     *)
          created, (* created[n]: objects that have had the name            *)
          sem,     (* sem[n][k]: value of the k-th semaphore of a name      *)
          id, message, (* of the k-th page                                  *)
          pc,      (* per process                                           *)
          handle,  (* handle[p][n]: the object p has opened, 0 for none     *)
          started, (* how often p has been started                          *)
          day      (* history: what was read last, of which page            *)

vars == <<interrupted, link, created, sem, id, message, pc, handle, started, day>>

\* Every start of a process opens each name once at most.
Objects == 1 .. 2 * Starts
first == [n \in Names |-> IF n = "sem_write" THEN 1 ELSE 0]
noHandle == [n \in Names |-> 0]
Tomorrow(d) == (d + 1) % MaxDay

\* Fresh objects: the values sem_open is given, pages of zeroes.
Objects0 == /\ sem = [n \in Names |-> [k \in Objects |-> first[n]]]
            /\ id = [k \in Objects |-> 0]
            /\ message = [k \in Objects |-> Blank]
            /\ day = Blank

NamedInit ==
        /\ Objects0
        /\ interrupted \in Disturbances
        /\ link = [n \in Names |-> 0] /\ created = [n \in Names |-> 0]
        /\ pc = [p \in Procs |-> "off"]
        /\ handle = [p \in Procs |-> noHandle]
        /\ started = [p \in Procs |-> 0]

\* process_anony_comm: one page, one pair of semaphores, both processes have them.
ForkInit == /\ Objects0
            /\ interrupted = {}
            /\ link = [n \in Names |-> 1] /\ created = [n \in Names |-> 1]
            /\ pc = [p \in Procs |-> "wait"]
            /\ handle = [p \in Procs |-> [n \in Names |-> 1]]
            /\ started = [p \in Procs |-> Starts]

Init == NamedInit \/ ForkInit

From(p, at, to) == pc[p] = at /\ pc' = [pc EXCEPT ![p] = to]
objectVars == <<sem, id, message, day>>

-----------------------------------------------------------------------------
(* main up to its loop.                                                     *)

Start(p) == /\ From(p, "off", "page")
            /\ started[p] < Starts
            /\ started' = [started EXCEPT ![p] = @ + 1]
            /\ UNCHANGED <<interrupted, link, created, objectVars, handle>>

\* shm_open or sem_open with O_CREAT; the writer then clears the page.
Open(p, n, to) ==
    LET k == IF link[n] = 0 THEN created[n] + 1 ELSE link[n] IN
    /\ From(p, n, to)
    /\ link' = [link EXCEPT ![n] = k]
    /\ created' = [created EXCEPT ![n] = IF link[n] = 0 THEN k ELSE @]
    /\ handle' = [handle EXCEPT ![p][n] = k]
    /\ UNCHANGED <<interrupted, objectVars, started>>

\* The writer's page is cleared without a turn.
ClearPage == LET k == handle["writer"]["page"] IN
             /\ From("writer", "clear", "sem_write")
             /\ id' = [id EXCEPT ![k] = 0]
             /\ message' = [message EXCEPT ![k] = Blank]
             /\ UNCHANGED <<interrupted, link, created, sem, handle, started, day>>

OpenAll(p) == \/ Open(p, "page", IF p = "writer" THEN "clear" ELSE "sem_write")
              \/ Open(p, "sem_write", "sem_read")
              \/ Open(p, "sem_read", "wait")

-----------------------------------------------------------------------------
(* The two loops.                                                           *)

Turn(p)   == IF p = "writer" THEN "sem_write" ELSE "sem_read"
Other(p)  == IF p = "writer" THEN "sem_read" ELSE "sem_write"
Page(p)   == handle[p]["page"]

\* Mutant: the turn is not waited for.
WaitNot(p) == /\ From(p, "wait", "turn")
              /\ UNCHANGED <<interrupted, link, created, objectVars, handle, started>>

Wait(p) == LET k == handle[p][Turn(p)] IN
           /\ From(p, "wait", "turn")
           /\ sem[Turn(p)][k] > 0
           /\ sem' = [sem EXCEPT ![Turn(p)][k] = @ - 1]
           /\ UNCHANGED <<interrupted, link, created, id, message, handle, started, day>>

\* The day is counted, then the page is written; strcpy replaces what is there.
CountDay == /\ From("writer", "turn", "write")
            /\ id' = [id EXCEPT ![Page("writer")] = Tomorrow(@)]
            /\ UNCHANGED <<interrupted, link, created, sem, message, handle, started, day>>

Write == /\ From("writer", "write", "post")
         /\ message' = [message EXCEPT ![Page("writer")] = id[Page("writer")]]
         /\ UNCHANGED <<interrupted, link, created, sem, id, handle, started, day>>

Read == /\ From("reader", "turn", "erase")
        /\ day' = message[Page("reader")]
        /\ UNCHANGED <<interrupted, link, created, sem, id, message, handle, started>>

Erase == /\ From("reader", "erase", "post")
         /\ message' = [message EXCEPT ![Page("reader")] = Blank]
         /\ UNCHANGED <<interrupted, link, created, sem, id, handle, started, day>>

\* Mutant: one's own turn is posted.
PostOwn(p) == LET k == handle[p][Turn(p)] IN
              /\ From(p, "post", "wait")
              /\ sem' = [sem EXCEPT ![Turn(p)][k] = @ + 1]
              /\ UNCHANGED <<interrupted, link, created, id, message, handle, started, day>>

Post(p) == LET k == handle[p][Other(p)] IN
           /\ From(p, "post", "wait")
           /\ sem' = [sem EXCEPT ![Other(p)][k] = @ + 1]
           /\ UNCHANGED <<interrupted, link, created, id, message, handle, started, day>>

-----------------------------------------------------------------------------
(* Ctrl-C.  The writer's handler unlinks the names, one after the other;    *)
(* the reader has no handler and dies where it stands.  Who is interrupted  *)
(* is started again: the last start is not interrupted.                     *)

Running(p) == pc[p] \notin {"off", "unlink sem_write", "unlink sem_read", "unlink page"}

InterruptWriter == /\ "writer" \in interrupted /\ Running("writer")
                   /\ started["writer"] < Starts
                   /\ pc' = [pc EXCEPT !["writer"] = "unlink sem_write"]
                   /\ UNCHANGED <<interrupted, link, created, objectVars, handle, started>>

Unlink(n, at, to) == /\ From("writer", at, to)
                     /\ link' = [link EXCEPT ![n] = 0]
                     /\ handle' = IF to = "off" THEN [handle EXCEPT !["writer"] = noHandle]
                                  ELSE handle
                     /\ UNCHANGED <<interrupted, created, objectVars, started>>

Clean == \/ Unlink("sem_write", "unlink sem_write", "unlink sem_read")
         \/ Unlink("sem_read", "unlink sem_read", "unlink page")
         \/ Unlink("page", "unlink page", "off")

InterruptReader == /\ "reader" \in interrupted /\ Running("reader")
                   /\ started["reader"] < Starts
                   /\ pc' = [pc EXCEPT !["reader"] = "off"]
                   /\ handle' = [handle EXCEPT !["reader"] = noHandle]
                   /\ UNCHANGED <<interrupted, link, created, objectVars, started>>

-----------------------------------------------------------------------------
Loop(p) == \/ Wait(p) \/ Post(p)
           \/ p = "writer" /\ (CountDay \/ Write)
           \/ p = "reader" /\ (Read \/ Erase)

WriterStep == Loop("writer") \/ Start("writer") \/ OpenAll("writer") \/ ClearPage \/ Clean
ReaderStep == Loop("reader") \/ Start("reader") \/ OpenAll("reader")

\* Nobody has a turn: both sleep for ever.
Asleep(p) == pc[p] = "wait" /\ sem[Turn(p)][handle[p][Turn(p)]] = 0
AtAnEnd == (\A p \in Procs : Asleep(p)) /\ UNCHANGED vars

Next == WriterStep \/ ReaderStep \/ InterruptWriter \/ InterruptReader \/ AtAnEnd

-----------------------------------------------------------------------------
(* What is relied on.                                                       *)

TypeOK == /\ interrupted \in Disturbances \cup {{}}
          /\ link \in [Names -> {0} \cup Objects] /\ created \in [Names -> 0 .. 2 * Starts]
          /\ sem \in [Names -> [Objects -> 0 .. 2]]
          /\ id \in [Objects -> 0 .. MaxDay - 1]
          /\ message \in [Objects -> {Blank} \cup 0 .. MaxDay - 1]
          /\ handle \in [Procs -> [Names -> {0} \cup Objects]]
          /\ started \in [Procs -> 0 .. Starts] /\ day \in {Blank} \cup 0 .. MaxDay - 1
          /\ \A p \in Procs : pc[p] \in {"wait", "turn", "write", "erase", "post"} =>
                \A n \in Names : handle[p][n] # 0

\* The page is never written while it is being read: writer and reader are not
\* both between their wait and their post at the same page, although either may
\* be interrupted there and started again (notebook_writer.cpp lines 50-59,
\* notebook_reader.cpp lines 37-42).  It holds as long as the user interrupts
\* one of the two.  A reader started while the writer's handler works opens
\* semaphores of two generations, and hands the new writer a turn too many.
AtThePage(p) == pc[p] \in {"turn", "write", "erase", "post"}
TurnsAreTaken == AtThePage("writer") /\ AtThePage("reader") => Page("writer") # Page("reader")

\* Every day is read, in order, and once: what is read is the day after what
\* was read before (nobody is interrupted).
DaysAreReadInOrder ==
    [][interrupted = {} /\ pc["reader"] = "turn" /\ pc'["reader"] = "erase"
       => day' = IF day = Blank THEN 1 ELSE Tomorrow(day)]_vars

\* The reading goes on (line 36 of notebook_reader.cpp: while(true)) if nobody is
\* interrupted.  A reader interrupted at his turn does not give it back: "clean"
\* of notebook_reader.cpp line 9 is never registered.
ReadingGoesOn == interrupted = {} => []<>(pc["reader"] = "erase")

\* All variables keep their types (no semaphore exceeds the turns there are), and
\* writer and reader take turns at the page.
PageInv == TypeOK /\ TurnsAreTaken
=============================================================================

---------------------------- MODULE NotebookProofs ----------------------------
(****************************************************************************)
(* The notebook, however often its two processes are started and whichever  *)
(* one of them is interrupted: writer and reader are never at the same      *)
(* page.  A semaphore holds one turn at most; of the two semaphores that    *)
(* writer and reader meet at, one is where the turn is, or a process has it.*)
(****************************************************************************)
EXTENDS Notebook, Integers, TLAPS

\* The bounds of the model.
NotebookIsBound == /\ Starts \in Nat \ {0} /\ MaxDay \in Nat \ {0, 1}
                   /\ Blank \notin 0 .. MaxDay
                   /\ Disturbances \subseteq SUBSET {"writer", "reader"}

\* Where a process stands: it opens a name later in this start, or has opened it.
InLoop(at)   == at \in {"wait", "turn", "write", "erase", "post"}
Opens(at, n) == \/ at = "page"
                \/ n # "page" /\ (at = "clear" \/ at = "sem_write")
                \/ n = "sem_read" /\ at = "sem_read"
Has(at, n)   == \/ InLoop(at)
                \/ n = "page" /\ (at = "clear" \/ at = "sem_write" \/ at = "sem_read")
                \/ n = "sem_write" /\ at = "sem_read"
Due(p, n)    == IF Opens(pc[p], n) THEN 1 ELSE 0

Places    == {"off", "page", "clear", "sem_write", "sem_read", "wait", "turn", "write", "erase",
              "post", "unlink sem_write", "unlink sem_read", "unlink page"}
Unlinking == pc["writer"] \in {"unlink sem_read", "unlink page"}

NoteTyped ==
    /\ link \in [Names -> Nat] /\ created \in [Names -> Nat]
    /\ handle \in [Procs -> [Names -> Nat]]
    /\ started \in [Procs -> 0 .. Starts]
    /\ pc \in [Procs -> Places]
    /\ pc["writer"] \in {"off", "page", "clear", "sem_write", "sem_read", "wait", "turn", "write",
                          "post", "unlink sem_write", "unlink sem_read", "unlink page"}
    /\ pc["reader"] \in {"off", "page", "sem_write", "sem_read", "wait", "turn", "erase", "post"}

\* A name stands for the last object created under it, if for any, and each start of a
\* process creates one at most.
NamesStand ==
    \A n \in Names :
        /\ link[n] = 0 \/ link[n] = created[n]
        /\ \A p \in Procs : handle[p][n] <= created[n]
        /\ created[n] + Due("writer", n) + Due("reader", n) <= started["writer"] + started["reader"]

\* What a process has opened: the writer's names still stand for it.  So do the
\* reader's as long as his page does, since the writer unlinks the page last.
HandlesStand ==
    /\ \A n \in Names : /\ Has(pc["reader"], n) => handle["reader"][n] # 0
                        /\ ~Has(pc["reader"], n) => handle["reader"][n] = 0
                        /\ Has(pc["writer"], n) => link[n] # 0 /\ handle["writer"][n] = link[n]
    /\ ~Unlinking /\ handle["reader"]["page"] # 0 /\ handle["reader"]["page"] = link["page"]
         => \A n \in Names : handle["reader"][n] = 0 \/ handle["reader"][n] = link[n]

\* Nothing is created twice if the writer is not interrupted.
WriterStays ==
    "writer" \notin interrupted =>
        /\ \A n \in Names : created[n] <= 1 /\ link[n] = created[n]
        /\ pc["writer"] \notin {"unlink sem_write", "unlink sem_read", "unlink page"}

OneIsLeftAlone == ~("writer" \in interrupted /\ "reader" \in interrupted)

NoteLinks == NoteTyped /\ NamesStand /\ HandlesStand /\ WriterStays /\ OneIsLeftAlone

\* The object a name stands for, or will; the turns an object holds.
Current(n)     == IF link[n] = 0 THEN created[n] + 1 ELSE link[n]
FirstTurns(n)  == IF n = "sem_write" THEN 1 ELSE 0
Turns(s, n, k) == IF k \in Objects THEN s[n][k] ELSE FirstTurns(n)
AtPage(p)      == IF pc[p] \in {"turn", "write", "erase", "post"} THEN 1 ELSE 0

\* The semaphores whoever comes would open, the reader's, and the turns they hold.
NowWrite   == Current("sem_write")
NowRead    == Current("sem_read")
HisWrite   == handle["reader"]["sem_write"]
HisRead    == handle["reader"]["sem_read"]
WriteTurns == Turns(sem, "sem_write", NowWrite)
ReadTurns  == Turns(sem, "sem_read", NowRead)
HisWrites  == Turns(sem, "sem_write", HisWrite)
HisReads   == Turns(sem, "sem_read", HisRead)
Ahead      == WriteTurns + ReadTurns + AtPage("writer")

NoteSems ==
    /\ sem \in [Names -> [Objects -> 0 .. 2]]
    /\ \A n \in Names, k \in Objects : k > created[n] => sem[n][k] = FirstTurns(n)

\* What the reader brings with him, whoever the writer is.
ReaderFits ==
    /\ \A k \in Objects : k # HisWrite \/ HisRead = 0 => sem["sem_write"][k] <= 1
    /\ HisRead # 0 => HisWrites + HisReads + AtPage("reader") <= 2
    /\ HisRead = 0 => ReadTurns <= 1

\* There is one turn between writer and reader who meet at both semaphores.  If they
\* meet at one only, or at none, each may have brought one.
BothFit ==
    /\ HisWrite # NowWrite \/ HisRead = 0 \/ HisRead = NowRead => Ahead <= 1
    /\ HisWrite = NowWrite /\ HisRead = NowRead => Ahead + AtPage("reader") <= 1
    /\ HisWrite = NowWrite /\ HisRead # 0 /\ HisRead # NowRead
         => Ahead + HisReads + AtPage("reader") <= 2
    /\ HisWrite # NowWrite /\ HisRead = NowRead => Ahead + HisWrites + AtPage("reader") <= 2

\* One semaphore of the writer's has no name any more, the other still has.
Halfway  == pc["writer"] = "unlink sem_read"
TurnsFit == ReaderFits /\ (BothFit \/ Halfway)

NoteValues == /\ id \in [Objects -> 0 .. MaxDay - 1]
              /\ message \in [Objects -> {Blank} \cup 0 .. MaxDay - 1]
              /\ day \in {Blank} \cup 0 .. MaxDay - 1

NoteInv == NoteLinks /\ NoteSems /\ TurnsFit /\ NoteValues /\ interrupted \in Disturbances \cup {{}}

\* What is on the page, if nobody is interrupted: the day that was read last, or the
\* next one.
LastDay  == IF day = Blank THEN 0 ELSE day
NextDay  == Tomorrow(LastDay)
Begins   == pc["writer"] \in {"off", "page", "clear", "sem_write", "sem_read"}
ToWrite  == sem["sem_write"][1] = 1
ToRead   == sem["sem_read"][1] = 1
DaysFollow ==
    interrupted = {} =>
        /\ Begins => ToWrite /\ day = Blank /\ id[1] = 0
        /\ ToWrite \/ pc["writer"] = "turn" \/ pc["reader"] = "erase" \/ pc["reader"] = "post"
              => id[1] = LastDay
        /\ pc["writer"] = "write" => id[1] = NextDay
        /\ pc["writer"] = "post" \/ ToRead \/ pc["reader"] = "turn"
              => id[1] = NextDay /\ message[1] = NextDay

\* A step of a loop: only the process and the semaphores, pages or the day change.
LEMMA NoteLoop ==
  ASSUME NoteLinks, NEW p \in Procs, NEW to, InLoop(pc[p]), InLoop(to),
         to \in Places, p = "writer" => to # "erase", p = "reader" => to # "write",
         pc' = [pc EXCEPT ![p] = to], UNCHANGED <<interrupted, link, created, handle, started>>
  PROVE  NoteLinks'
<1>1. NoteTyped'
  BY DEF NoteLinks, NoteTyped, Procs, InLoop
<1>2. \A q \in Procs : InLoop(pc'[q]) <=> InLoop(pc[q])
  BY DEF NoteLinks, NoteTyped
<1>3. \A q \in Procs : ~InLoop(pc[q]) => pc'[q] = pc[q]
  BY DEF NoteLinks, NoteTyped
<1>4. \A q \in Procs, n \in Names : (Has(pc'[q], n) <=> Has(pc[q], n)) /\ Due(q, n)' = Due(q, n)
  BY <1>2, <1>3 DEF Has, Due, Opens, InLoop
<1>5. NamesStand'
  BY <1>4 DEF NoteLinks, NamesStand, Procs
<1>6. Unlinking' <=> Unlinking
  BY <1>2, <1>3 DEF Unlinking, InLoop, Procs
<1>7. HandlesStand'
  BY <1>4, <1>6 DEF NoteLinks, HandlesStand, Procs
<1>8. WriterStays'
  BY <1>2, <1>3 DEF NoteLinks, WriterStays, InLoop, Procs
<1> QED
  BY <1>1, <1>5, <1>7, <1>8 DEF NoteLinks, OneIsLeftAlone

\* A process opens a name: it creates the object if the name stands for none.
NextName(p, n) == IF n = "sem_read" THEN "wait" ELSE IF n = "sem_write" THEN "sem_read"
                  ELSE IF p = "writer" THEN "clear" ELSE "sem_write"

\* A name is opened: it is created if it stands for nothing.
LEMMA NoteOpens ==
  ASSUME NotebookIsBound, NoteLinks, NEW p \in Procs, NEW n \in Names, Open(p, n, NextName(p, n))
  PROVE  /\ NoteLinks'
         /\ link' = [link EXCEPT ![n] = Current(n)]
         /\ handle' = [handle EXCEPT ![p][n] = Current(n)]
         /\ Current(n) \in Nat /\ Current(n) # 0
         /\ created'[n] >= created[n]
         /\ \A m \in Names \ {n} : created'[m] = created[m]
<1> DEFINE k == Current(n)
<1> USE DEF Procs, Names
<1>0. NoteTyped /\ NamesStand /\ HandlesStand /\ WriterStays /\ OneIsLeftAlone
  BY DEF NoteLinks
<1>1. k \in Nat /\ k # 0 /\ created[n] \in Nat /\ link[n] \in Nat
  <2>1. created[n] \in Nat /\ link[n] \in Nat
    BY <1>0 DEF NoteTyped
  <2> QED
    BY <2>1 DEF Current
<1>2. /\ pc[p] = n /\ pc' = [pc EXCEPT ![p] = NextName(p, n)]
      /\ link' = [link EXCEPT ![n] = k]
      /\ created' = [created EXCEPT ![n] = IF link[n] = 0 THEN k ELSE created[n]]
      /\ handle' = [handle EXCEPT ![p][n] = k]
      /\ interrupted' = interrupted /\ started' = started
  BY DEF Open, From, Current
<1>3. created'[n] >= created[n] /\ \A m \in Names \ {n} : created'[m] = created[m]
  <2>1. created \in [Names -> Nat]
    BY <1>0 DEF NoteTyped
  <2>2. link[n] = 0 => k = created[n] + 1
    BY DEF Current
  <2> QED
    BY <2>1, <2>2, <1>1, <1>2
<1>4. k = created'[n] /\ (link[n] # 0 => created'[n] = created[n])
      /\ (link[n] = 0 => created'[n] = created[n] + 1)
  BY <1>0, <1>1, <1>2 DEF NoteTyped, NamesStand, Current
<1>5. NoteTyped'
  <2>1. NextName(p, n) \in Places /\ pc' \in [Procs -> Places]
    <3>1. pc \in [Procs -> Places]
      BY <1>0 DEF NoteTyped
    <3>2. NextName(p, n) \in Places
      BY DEF NextName, Places
    <3> QED
      BY <3>1, <3>2, <1>2
  <2>2. /\ pc'["writer"] \in {"off", "page", "clear", "sem_write", "sem_read", "wait", "turn", "write",
                               "post", "unlink sem_write", "unlink sem_read", "unlink page"}
        /\ pc'["reader"] \in {"off", "page", "sem_write", "sem_read", "wait", "turn", "erase", "post"}
    BY <1>0, <1>2 DEF NoteTyped, NextName
  <2>3. link' \in [Names -> Nat] /\ created' \in [Names -> Nat]
    BY <1>0, <1>1, <1>2 DEF NoteTyped
  <2>4. handle' \in [Procs -> [Names -> Nat]]
    BY <1>0, <1>1, <1>2 DEF NoteTyped
  <2> QED
    BY <2>1, <2>2, <2>3, <2>4, <1>0, <1>2 DEF NoteTyped
<1>6. NamesStand'
  <2> SUFFICES ASSUME NEW m \in Names
               PROVE  /\ link'[m] = 0 \/ link'[m] = created'[m]
                      /\ \A q \in Procs : handle'[q][m] <= created'[m]
                      /\ created'[m] + Due("writer", m)' + Due("reader", m)'
                           <= started'["writer"] + started'["reader"]
    BY DEF NamesStand
  <2>1. CASE m # n
    <3>1. Due("writer", m)' = Due("writer", m) /\ Due("reader", m)' = Due("reader", m)
      BY <2>1, <1>0, <1>2 DEF Due, Opens, NextName, NoteTyped
    <3> QED
      BY <3>1, <2>1, <1>0, <1>2, <1>3 DEF NamesStand, NoteTyped
  <2>2. CASE m = n
    <3>1. Due(p, n)' = 0 /\ Due(p, n) = 1
      BY <1>0, <1>2 DEF Due, Opens, NextName, NoteTyped
    <3>2. \A q \in Procs : q # p => Due(q, n)' = Due(q, n) /\ Due(q, n) \in Nat
      BY <1>0, <1>2 DEF Due, NoteTyped
    <3>3. created[n] + Due("writer", n) + Due("reader", n) <= started["writer"] + started["reader"]
          /\ started["writer"] + started["reader"] \in Nat
      <4>1. started["writer"] \in Nat /\ started["reader"] \in Nat
        <5>1. started \in [Procs -> 0 .. Starts] /\ Starts \in Nat
          BY <1>0 DEF NotebookIsBound, NoteTyped
        <5> QED
          BY <5>1
      <4> QED
        BY <4>1, <1>0 DEF NamesStand
    <3>4. created'[n] + Due("writer", n)' + Due("reader", n)'
                           <= started'["writer"] + started'["reader"]
      <4>1. created'[n] <= created[n] + 1 /\ created'[n] \in Nat
        BY <1>4, <1>1
      <4>2. CASE p = "writer"
        BY <3>1, <3>2, <3>3, <4>1, <4>2, <1>1, <1>2
      <4>3. CASE p = "reader"
        BY <3>1, <3>2, <3>3, <4>1, <4>3, <1>1, <1>2
      <4> QED
        BY <4>2, <4>3
    <3>5. link'[n] = created'[n]
      BY <1>0, <1>2, <1>4 DEF NoteTyped
    <3>6. \A q \in Procs : handle'[q][n] <= created'[n]
      <4> TAKE q \in Procs
      <4>1. handle[q][n] <= created[n] /\ handle[q][n] \in Nat
        BY <1>0 DEF NamesStand, NoteTyped
      <4>2. handle'[q][n] = IF q = p THEN k ELSE handle[q][n]
        BY <1>0, <1>2 DEF NoteTyped
      <4> QED
        BY <4>1, <4>2, <1>1, <1>3, <1>4
    <3> QED
      BY <3>4, <3>5, <3>6, <2>2
  <2> QED
    BY <2>1, <2>2
<1>7. HandlesStand'
  <2>1. ASSUME NEW m \in Names
        PROVE  /\ Has(pc'["reader"], m) => handle'["reader"][m] # 0
               /\ ~Has(pc'["reader"], m) => handle'["reader"][m] = 0
               /\ Has(pc'["writer"], m) => link'[m] # 0 /\ handle'["writer"][m] = link'[m]
    <3>1. \A q \in Procs : Has(pc'[q], m) <=> Has(pc[q], m) \/ (q = p /\ m = n)
      BY <1>0, <1>2 DEF Has, InLoop, NextName, NoteTyped
    <3>2. \A q \in Procs : handle'[q][m] = IF q = p /\ m = n THEN k ELSE handle[q][m]
      BY <1>0, <1>2 DEF NoteTyped
    <3>3. link'[m] = IF m = n THEN k ELSE link[m]
      BY <1>0, <1>2 DEF NoteTyped
    <3>4. link[n] # 0 => k = link[n]
      BY DEF Current
    <3>5. /\ Has(pc["reader"], m) => handle["reader"][m] # 0
          /\ ~Has(pc["reader"], m) => handle["reader"][m] = 0
          /\ Has(pc["writer"], m) => link[m] # 0 /\ handle["writer"][m] = link[m]
      BY <1>0 DEF HandlesStand
    <3>6. ~Has(pc[p], n)
      BY <1>2 DEF Has, InLoop
    <3>7. CASE p = "reader"
      BY <3>1, <3>2, <3>3, <3>4, <3>5, <3>6, <3>7, <1>1
    <3>8. CASE p = "writer"
      BY <3>1, <3>2, <3>3, <3>4, <3>5, <3>6, <3>8, <1>1
    <3> QED
      BY <3>7, <3>8
  <2>2. ASSUME ~Unlinking', handle'["reader"]["page"] # 0,
               handle'["reader"]["page"] = link'["page"], NEW m \in Names
        PROVE  handle'["reader"][m] = 0 \/ handle'["reader"][m] = link'[m]
    <3>1. ~Unlinking
      BY <2>2, <1>0, <1>2 DEF Unlinking, NextName, NoteTyped
    <3>2. /\ \A q \in Procs, l \in Names : handle'[q][l] = IF q = p /\ l = n THEN k ELSE handle[q][l]
          /\ \A l \in Names : link'[l] = IF l = n THEN k ELSE link[l]
      BY <1>0, <1>2 DEF NoteTyped
    <3>3. CASE p = "reader" /\ n = "page"
      <4>1. m # "page" => ~Has(pc["reader"], m)
        BY <3>3, <1>2 DEF Has, InLoop
      <4>2. m # "page" => handle["reader"][m] = 0
        BY <4>1, <1>0 DEF HandlesStand
      <4> QED
        BY <3>2, <3>3, <4>2
    <3>4. CASE p = "writer" /\ n = "page"
      <4>1. handle["reader"]["page"] <= created["page"] /\ handle["reader"]["page"] \in Nat
        BY <1>0 DEF NamesStand, NoteTyped
      <4>2. link["page"] # 0
        BY <4>1, <3>2, <3>4, <2>2, <1>1, <1>4
      <4>3. k = link["page"]
        BY <4>2, <3>4 DEF Current
      <4> QED
        BY <4>2, <4>3, <3>1, <3>2, <3>4, <2>2, <1>0 DEF HandlesStand
    <3>5. CASE n # "page"
      <4>1. \A l \in Names : handle["reader"][l] = 0 \/ handle["reader"][l] = link[l]
        BY <3>1, <3>2, <3>5, <2>2, <1>0 DEF HandlesStand
      <4>2. link[n] # 0 => k = link[n]
        BY DEF Current
      <4> QED
        BY <4>1, <4>2, <3>2
    <3> QED
      BY <3>3, <3>4, <3>5
  <2> QED
    BY <2>1, <2>2 DEF HandlesStand
<1>8. WriterStays'
  <2> SUFFICES ASSUME "writer" \notin interrupted
               PROVE  /\ \A m \in Names : created'[m] <= 1 /\ link'[m] = created'[m]
                      /\ pc'["writer"] \notin {"unlink sem_write", "unlink sem_read", "unlink page"}
    BY <1>2 DEF WriterStays
  <2>1. /\ \A m \in Names : created[m] <= 1 /\ link[m] = created[m]
        /\ pc["writer"] \notin {"unlink sem_write", "unlink sem_read", "unlink page"}
    BY <1>0 DEF WriterStays
  <2>2. pc'["writer"] \notin {"unlink sem_write", "unlink sem_read", "unlink page"}
    BY <2>1, <1>0, <1>2 DEF NextName, NoteTyped
  <2>3. ASSUME NEW m \in Names
        PROVE  created'[m] <= 1 /\ link'[m] = created'[m]
    <3>1. CASE m = n
      <4>1. created[n] = link[n] /\ created[n] <= 1 /\ created'[n] = k /\ link'[n] = k
        BY <2>1, <1>0, <1>2, <1>4 DEF NoteTyped
      <4> QED
        BY <4>1, <3>1, <1>1, <1>4
    <3>2. CASE m # n
      BY <3>2, <2>1, <1>0, <1>2, <1>3 DEF NoteTyped
    <3> QED
      BY <3>1, <3>2
  <2> QED
    BY <2>2, <2>3
<1>9. OneIsLeftAlone'
  BY <1>0, <1>2 DEF OneIsLeftAlone
<1> QED
  BY <1>1, <1>2, <1>3, <1>5, <1>6, <1>7, <1>8, <1>9 DEF NoteLinks

\* The other steps of main: a process starts, the writer clears the page.
LEMMA NoteStarts ==
  ASSUME NotebookIsBound, NoteLinks, NEW p \in Procs, Start(p)
  PROVE  NoteLinks'
<1> USE DEF Procs, Names
<1>0. NoteTyped /\ NamesStand /\ HandlesStand /\ WriterStays /\ OneIsLeftAlone
  BY DEF NoteLinks
<1>1. /\ pc[p] = "off" /\ pc' = [pc EXCEPT ![p] = "page"]
      /\ started' = [started EXCEPT ![p] = started[p] + 1] /\ started[p] < Starts
      /\ UNCHANGED <<interrupted, link, created, handle>>
  BY DEF Start, From
<1>2. \A q \in Procs : started[q] \in Nat /\ started'[q] = IF q = p THEN started[q] + 1 ELSE started[q]
  <2>1. started \in [Procs -> 0 .. Starts] /\ Starts \in Nat
    BY <1>0 DEF NotebookIsBound, NoteTyped
  <2> QED
    BY <2>1, <1>1
<1>3. NoteTyped'
  <2>1. started' \in [Procs -> 0 .. Starts]
    <3>1. started \in [Procs -> 0 .. Starts] /\ Starts \in Nat
      BY <1>0 DEF NotebookIsBound, NoteTyped
    <3> QED
      BY <3>1, <1>1
  <2>2. pc' \in [Procs -> Places]
    BY <1>0, <1>1 DEF NoteTyped, Places
  <2> QED
    BY <2>1, <2>2, <1>0, <1>1 DEF NoteTyped
<1>4. \A q \in Procs : pc'[q] = IF q = p THEN "page" ELSE pc[q]
  BY <1>0, <1>1 DEF NoteTyped
<1>5. \A q \in Procs, n \in Names : Has(pc'[q], n) <=> Has(pc[q], n)
  BY <1>1, <1>4 DEF Has, InLoop
<1>6. NamesStand'
  <2> SUFFICES ASSUME NEW n \in Names
               PROVE  created[n] + Due("writer", n)' + Due("reader", n)'
                           <= started'["writer"] + started'["reader"]
    BY <1>0, <1>1 DEF NamesStand
  <2>1. created[n] + Due("writer", n) + Due("reader", n) <= started["writer"] + started["reader"]
        /\ created[n] \in Nat
    BY <1>0 DEF NamesStand, NoteTyped
  <2>2. Due(p, n) = 0 /\ Due(p, n)' = 1
    BY <1>1, <1>4 DEF Due, Opens
  <2>3. \A q \in Procs : q # p => Due(q, n)' = Due(q, n) /\ Due(q, n) \in Nat
    BY <1>4 DEF Due
  <2>4. CASE p = "writer"
    BY <2>1, <2>2, <2>3, <2>4, <1>2
  <2>5. CASE p = "reader"
    BY <2>1, <2>2, <2>3, <2>5, <1>2
  <2> QED
    BY <2>4, <2>5
<1>7. HandlesStand'
  <2>1. Unlinking' => Unlinking
    BY <1>4 DEF Unlinking
  <2>2. Unlinking => Unlinking'
    BY <1>1, <1>4 DEF Unlinking
  <2> QED
    BY <2>1, <2>2, <1>0, <1>1, <1>5 DEF HandlesStand
<1>8. WriterStays'
  <2>1. pc'["writer"] = "page" \/ pc'["writer"] = pc["writer"]
    BY <1>4
  <2> QED
    BY <2>1, <1>0, <1>1 DEF WriterStays
<1> QED
  BY <1>0, <1>1, <1>3, <1>6, <1>7, <1>8 DEF NoteLinks, OneIsLeftAlone

\* Who made the page writes zeroes on it.
LEMMA NoteClears ==
  ASSUME NoteLinks, ClearPage
  PROVE  NoteLinks'
<1> USE DEF Procs, Names
<1>0. NoteTyped /\ NamesStand /\ HandlesStand /\ WriterStays /\ OneIsLeftAlone
  BY DEF NoteLinks
<1>1. /\ pc["writer"] = "clear" /\ pc' = [pc EXCEPT !["writer"] = "sem_write"]
      /\ UNCHANGED <<interrupted, link, created, handle, started>>
  BY DEF ClearPage, From
<1>2. NoteTyped'
  BY <1>0, <1>1 DEF NoteTyped, Places
<1>3. pc'["writer"] = "sem_write" /\ pc'["reader"] = pc["reader"]
  BY <1>0, <1>1 DEF NoteTyped
<1>4. \A q \in Procs, n \in Names : (Has(pc'[q], n) <=> Has(pc[q], n)) /\ Due(q, n)' = Due(q, n)
  BY <1>1, <1>3 DEF Has, InLoop, Due, Opens
<1>5. NamesStand'
  BY <1>0, <1>1, <1>4 DEF NamesStand
<1>6. HandlesStand'
  BY <1>0, <1>1, <1>3, <1>4 DEF HandlesStand, Unlinking
<1>7. WriterStays'
  BY <1>0, <1>1, <1>3 DEF WriterStays
<1> QED
  BY <1>0, <1>1, <1>2, <1>5, <1>6, <1>7 DEF NoteLinks, OneIsLeftAlone

\* The writer is interrupted, and unlinks the names.
LEMMA NoteUnlinks ==
  ASSUME NotebookIsBound, NoteLinks, InterruptWriter \/ Clean
  PROVE  NoteLinks'
<1> USE DEF Procs, Names
<1>0. NoteTyped /\ NamesStand /\ HandlesStand /\ WriterStays /\ OneIsLeftAlone
  BY DEF NoteLinks
<1>1. \/ /\ pc'["writer"] = "unlink sem_write" /\ UNCHANGED <<link, handle>>
         /\ "writer" \in interrupted /\ ~Unlinking
      \/ /\ pc["writer"] = "unlink sem_write" /\ pc'["writer"] = "unlink sem_read"
         /\ link' = [link EXCEPT !["sem_write"] = 0] /\ UNCHANGED handle
      \/ /\ pc["writer"] = "unlink sem_read" /\ pc'["writer"] = "unlink page"
         /\ link' = [link EXCEPT !["sem_read"] = 0] /\ UNCHANGED handle
      \/ /\ pc["writer"] = "unlink page" /\ pc'["writer"] = "off"
         /\ link' = [link EXCEPT !["page"] = 0]
         /\ handle' = [handle EXCEPT !["writer"] = noHandle]
  BY <1>0 DEF InterruptWriter, Clean, Unlink, From, NoteTyped,
               Running, Unlinking
<1>2. pc'["reader"] = pc["reader"] /\ UNCHANGED <<interrupted, created, started>>
  BY <1>0 DEF InterruptWriter, Clean, Unlink, From, NoteTyped
<1>3. NoteTyped'
  <2>1. pc' \in [Procs -> Places]
    BY <1>0 DEF InterruptWriter, Clean, Unlink, From, NoteTyped, Places
  <2>2. link' \in [Names -> Nat]
    <3>1. link \in [Names -> Nat]
      BY <1>0 DEF NoteTyped
    <3>2. link' = link \/ \E n \in Names : link' = [link EXCEPT ![n] = 0]
      BY <1>1
    <3> QED
      BY <3>1, <3>2
  <2>3. handle' \in [Procs -> [Names -> Nat]]
    <3>1. noHandle \in [Names -> Nat]
      BY DEF noHandle, Names
    <3> QED
      BY <3>1, <1>0, <1>1 DEF NoteTyped
  <2> QED
    BY <2>1, <2>2, <2>3, <1>0, <1>1, <1>2 DEF NoteTyped
<1>4. /\ handle'["reader"] = handle["reader"]
      /\ \A n \in Names : handle'["writer"][n] = handle["writer"][n] \/ handle'["writer"][n] = 0
  <2>1. handle \in [Procs -> [Names -> Nat]]
    BY <1>0 DEF NoteTyped
  <2>2. \A n \in Names : noHandle[n] = 0
    BY DEF noHandle, Names
  <2> QED
    BY <2>1, <2>2, <1>1
<1>5. "writer" \in interrupted
  BY <1>0, <1>1 DEF WriterStays
<1>6. \A n \in Names : link'[n] = link[n] \/ link'[n] = 0
  BY <1>0, <1>1 DEF NoteTyped
<1>7. NamesStand'
  <2> SUFFICES ASSUME NEW n \in Names
               PROVE  /\ link'[n] = 0 \/ link'[n] = created[n]
                      /\ \A p \in Procs : handle'[p][n] <= created[n]
                      /\ created[n] + Due("writer", n)' + Due("reader", n)'
                           <= started["writer"] + started["reader"]
    BY <1>2 DEF NamesStand
  <2>1. link'[n] = 0 \/ link'[n] = created[n]
    BY <1>0, <1>6 DEF NamesStand
  <2>2. \A p \in Procs : handle'[p][n] <= created[n]
    <3>1. created[n] \in Nat /\ \A p \in Procs : handle[p][n] <= created[n]
      BY <1>0 DEF NamesStand, NoteTyped
    <3> QED
      BY <3>1, <1>4
  <2>3. Due("writer", n)' = 0 /\ Due("reader", n)' = Due("reader", n)
        /\ Due("writer", n) \in Nat /\ Due("reader", n) \in Nat
    BY <1>1, <1>2 DEF Due, Opens
  <2>4. created[n] + Due("writer", n) + Due("reader", n) <= started["writer"] + started["reader"]
    BY <1>0 DEF NamesStand
  <2>5. created[n] \in Nat /\ started["writer"] \in Nat /\ started["reader"] \in Nat
    <3>1. created \in [Names -> Nat] /\ started \in [Procs -> 0 .. Starts] /\ Starts \in Nat
      BY <1>0 DEF NotebookIsBound, NoteTyped
    <3> QED
      BY <3>1
  <2>6. created[n] + Due("writer", n)' + Due("reader", n)' <= started["writer"] + started["reader"]
    BY <2>3, <2>4, <2>5
  <2> QED
    BY <2>1, <2>2, <2>6
<1>8. HandlesStand'
  <2>1. \A n \in Names : ~Has(pc'["writer"], n)
    BY <1>1 DEF Has, InLoop
  <2>2. ~Unlinking' /\ handle'["reader"]["page"] # 0 /\ handle'["reader"]["page"] = link'["page"]
        => ~Unlinking /\ link' = link
    <3>1. link \in [Names -> Nat]
      BY <1>0 DEF NoteTyped
    <3> QED
      BY <3>1, <1>1 DEF Unlinking
  <2> QED
    BY <2>1, <2>2, <1>0, <1>2, <1>4 DEF HandlesStand
<1> QED
  BY <1>0, <1>2, <1>3, <1>5, <1>7, <1>8 DEF NoteLinks, OneIsLeftAlone, WriterStays

\* The reader is interrupted.
LEMMA NoteStops ==
  ASSUME NotebookIsBound, NoteLinks, InterruptReader
  PROVE  NoteLinks'
<1> USE DEF Procs, Names
<1>0. NoteTyped /\ NamesStand /\ HandlesStand /\ WriterStays /\ OneIsLeftAlone
  BY DEF NoteLinks
<1>1. /\ pc' = [pc EXCEPT !["reader"] = "off"]
      /\ handle' = [handle EXCEPT !["reader"] = noHandle]
      /\ UNCHANGED <<interrupted, link, created, started>>
  BY DEF InterruptReader
<1>2. NoteTyped'
  <2>1. noHandle \in [Names -> Nat]
    BY DEF noHandle, Names
  <2>2. handle' \in [Procs -> [Names -> Nat]]
    BY <2>1, <1>0, <1>1 DEF NoteTyped
  <2> QED
    BY <2>2, <1>0, <1>1 DEF NoteTyped, Places
<1>3. /\ pc'["reader"] = "off" /\ pc'["writer"] = pc["writer"]
      /\ handle'["writer"] = handle["writer"] /\ \A n \in Names : handle'["reader"][n] = 0
  BY <1>0, <1>1 DEF NoteTyped, noHandle, Names
<1>4. NamesStand'
  <2> SUFFICES ASSUME NEW n \in Names
               PROVE  /\ \A p \in Procs : handle'[p][n] <= created[n]
                      /\ created[n] + Due("writer", n)' + Due("reader", n)'
                           <= started["writer"] + started["reader"]
    BY <1>0, <1>1 DEF NamesStand
  <2>1. \A p \in Procs : handle'[p][n] <= created[n]
    <3>1. created[n] \in Nat /\ \A p \in Procs : handle[p][n] <= created[n]
      BY <1>0 DEF NamesStand, NoteTyped
    <3> QED
      BY <3>1, <1>3
  <2>2. Due("reader", n)' = 0 /\ Due("writer", n)' = Due("writer", n)
        /\ Due("writer", n) \in Nat /\ Due("reader", n) \in Nat
    BY <1>3 DEF Due, Opens
  <2>3. created[n] + Due("writer", n) + Due("reader", n) <= started["writer"] + started["reader"]
    BY <1>0 DEF NamesStand
  <2>4. created[n] \in Nat /\ started["writer"] \in Nat /\ started["reader"] \in Nat
    <3>1. created \in [Names -> Nat] /\ started \in [Procs -> 0 .. Starts] /\ Starts \in Nat
      BY <1>0 DEF NotebookIsBound, NoteTyped
    <3> QED
      BY <3>1
  <2>5. created[n] + Due("writer", n)' + Due("reader", n)' <= started["writer"] + started["reader"]
    BY <2>2, <2>3, <2>4
  <2> QED
    BY <2>1, <2>5
<1>5. HandlesStand'
  BY <1>0, <1>1, <1>3 DEF HandlesStand, Has, InLoop
<1>6. WriterStays'
  BY <1>0, <1>1, <1>3 DEF WriterStays
<1> QED
  BY <1>0, <1>1, <1>2, <1>4, <1>5, <1>6 DEF NoteLinks, OneIsLeftAlone

\* Every object there is has a semaphore and a page.
LEMMA ThereIsRoom ==
  ASSUME NotebookIsBound, NoteLinks
  PROVE  /\ \A n \in Names : /\ created[n] \in Nat /\ created[n] <= 2 * Starts
                             /\ link[n] \in Nat /\ (link[n] # 0 => link[n] \in Objects)
         /\ \A p \in Procs, n \in Names :
               /\ handle[p][n] \in Nat
               /\ handle[p][n] # 0 => handle[p][n] \in Objects /\ handle[p][n] <= created[n]
<1> USE DEF Procs
<1>0. NoteTyped /\ NamesStand
  BY DEF NoteLinks
<1>1. Starts \in Nat /\ started["writer"] \in 0 .. Starts /\ started["reader"] \in 0 .. Starts
  BY <1>0 DEF NotebookIsBound, NoteTyped
<1>2. Objects = 1 .. 2 * Starts
  BY DEF Objects
<1>3. ASSUME NEW n \in Names
      PROVE  created[n] \in Nat /\ created[n] <= 2 * Starts
  <2>1. created[n] \in Nat /\ Due("writer", n) \in Nat /\ Due("reader", n) \in Nat
    BY <1>0 DEF NoteTyped, Due
  <2>2. created[n] + Due("writer", n) + Due("reader", n) <= started["writer"] + started["reader"]
    BY <1>0 DEF NamesStand
  <2> QED
    BY <2>1, <2>2, <1>1
<1>4. ASSUME NEW n \in Names
      PROVE  link[n] \in Nat /\ (link[n] # 0 => link[n] \in Objects)
  <2>1. link[n] \in Nat /\ (link[n] # 0 => link[n] = created[n])
    BY <1>0 DEF NoteTyped, NamesStand
  <2> QED
    BY <2>1, <1>1, <1>2, <1>3
<1>5. ASSUME NEW p \in Procs, NEW n \in Names
      PROVE  /\ handle[p][n] \in Nat
             /\ handle[p][n] # 0 => handle[p][n] \in Objects /\ handle[p][n] <= created[n]
  <2>1. handle[p][n] \in Nat /\ handle[p][n] <= created[n]
    BY <1>0 DEF NoteTyped, NamesStand
  <2> QED
    BY <2>1, <1>1, <1>2, <1>3
<1> QED
  BY <1>3, <1>4, <1>5

\* The numbers the turns are counted with.
LEMMA TurnNumbers ==
  ASSUME NotebookIsBound, NoteLinks, NoteSems
  PROVE  /\ NowWrite \in Nat \ {0} /\ NowRead \in Nat \ {0} /\ HisWrite \in Nat /\ HisRead \in Nat
         /\ WriteTurns \in Nat /\ ReadTurns \in Nat /\ HisWrites \in Nat /\ HisReads \in Nat
         /\ \A p \in Procs : AtPage(p) \in Nat /\ AtPage(p) <= 1
         /\ HisWrite = NowWrite => HisWrites = WriteTurns
         /\ HisRead = NowRead => HisReads = ReadTurns
         /\ HisRead # 0 => /\ HisWrite \in Objects /\ HisRead \in Objects
                           /\ HisWrites = sem["sem_write"][HisWrite]
                           /\ HisReads = sem["sem_read"][HisRead]
         /\ AtPage("reader") = 1 \/ pc["reader"] = "wait" => HisRead # 0
<1> USE DEF Procs
<1>1. \A n \in Names : \A k : Turns(sem, n, k) \in Nat
  <2>1. \A n \in Names, k \in Objects : sem[n][k] \in 0 .. 2
    BY DEF NoteSems
  <2> QED
    BY <2>1 DEF Turns, FirstTurns
<1>2. \A n \in Names : Current(n) \in Nat \ {0}
  <2>1. \A n \in Names : created[n] \in Nat /\ link[n] \in Nat
    BY ThereIsRoom
  <2> QED
    BY <2>1 DEF Current
<1>3. NowWrite \in Nat \ {0} /\ NowRead \in Nat \ {0}
  BY <1>2 DEF NowWrite, NowRead, Names
<1>4. HisWrite \in Nat /\ HisRead \in Nat
  BY ThereIsRoom DEF HisWrite, HisRead, Names
<1>5. WriteTurns \in Nat /\ ReadTurns \in Nat /\ HisWrites \in Nat /\ HisReads \in Nat
  BY <1>1 DEF WriteTurns, ReadTurns, HisWrites, HisReads, Names
<1>6. \A p \in Procs : AtPage(p) \in Nat /\ AtPage(p) <= 1
  BY DEF AtPage
<1>7. /\ HisWrite = NowWrite => HisWrites = WriteTurns
      /\ HisRead = NowRead => HisReads = ReadTurns
  BY DEF WriteTurns, ReadTurns, HisWrites, HisReads
<1>8. HisRead # 0 => HisWrite # 0
  <2>1. HisRead # 0 => Has(pc["reader"], "sem_read")
    BY DEF NoteLinks, HandlesStand, HisRead, Names
  <2>2. Has(pc["reader"], "sem_read") => Has(pc["reader"], "sem_write")
    BY DEF Has
  <2>3. Has(pc["reader"], "sem_write") => HisWrite # 0
    BY DEF NoteLinks, HandlesStand, HisWrite, Names
  <2> QED
    BY <2>1, <2>2, <2>3
<1>9. HisRead # 0 => HisWrite \in Objects /\ HisRead \in Objects
  BY <1>8, ThereIsRoom DEF HisWrite, HisRead, Names
<1>10. HisRead # 0 => /\ HisWrites = sem["sem_write"][HisWrite]
                      /\ HisReads = sem["sem_read"][HisRead]
  BY <1>9 DEF HisWrites, HisReads, Turns
<1>11. AtPage("reader") = 1 \/ pc["reader"] = "wait" => HisRead # 0
  <2>1. AtPage("reader") = 1 \/ pc["reader"] = "wait" => Has(pc["reader"], "sem_read")
    BY DEF AtPage, Has, InLoop
  <2> QED
    BY <2>1 DEF NoteLinks, HandlesStand, HisRead, Names
<1> QED
  BY <1>3, <1>4, <1>5, <1>6, <1>7, <1>9, <1>10, <1>11

\* One semaphore of those there are changes, or none does.
LEMMA OneSemaphore ==
  ASSUME NotebookIsBound, NoteSems, NEW n \in Names, NEW k \in Objects, NEW v \in 0 .. 2,
         sem' = [sem EXCEPT ![n][k] = v], k <= created[n], created \in [Names -> Nat],
         created' = created
  PROVE  /\ NoteSems'
         /\ \A m \in Names : \A l : Turns(sem', m, l) = IF m = n /\ l = k THEN v ELSE Turns(sem, m, l)
<1>1. sem \in [Names -> [Objects -> 0 .. 2]]
  BY DEF NoteSems
<1>2. sem' \in [Names -> [Objects -> 0 .. 2]]
  BY <1>1
<1>3. \A m \in Names, l \in Objects : sem'[m][l] = IF m = n /\ l = k THEN v ELSE sem[m][l]
  BY <1>1
<1>4. \A l : l \in Objects => l \in Nat
  BY DEF NotebookIsBound, Objects
<1>5. \A m \in Names, l \in Objects : l > created[m] => ~(m = n /\ l = k)
  BY <1>4
<1>6. NoteSems'
  BY <1>2, <1>3, <1>5 DEF NoteSems
<1>7. \A m \in Names : \A l : Turns(sem', m, l) = IF m = n /\ l = k THEN v ELSE Turns(sem, m, l)
  BY <1>3 DEF Turns
<1> QED
  BY <1>6, <1>7

\* Semaphores nobody touches stay as they are.
LEMMA SameSemaphores ==
  ASSUME NotebookIsBound, NoteSems, sem' = sem, created \in [Names -> Nat], created' \in [Names -> Nat],
         \A n \in Names : created'[n] >= created[n]
  PROVE  NoteSems'
<1>1. \A l : l \in Objects => l \in Nat
  BY DEF NotebookIsBound, Objects
<1>2. \A m \in Names, l \in Objects : l > created'[m] => l > created[m]
  BY <1>1
<1> QED
  BY <1>2 DEF NoteSems

\* No turn is moved, and nobody who brings one comes to the page.
LEMMA TurnsStay ==
  ASSUME NotebookIsBound, NoteLinks, NoteSems, TurnsFit, sem' = sem, HisWrite' = HisWrite, HisRead' = HisRead,
         NowWrite' = NowWrite, NowRead' = NowRead, AtPage("reader")' = AtPage("reader"),
         AtPage("writer")' <= AtPage("writer"),
         Halfway => Halfway'
  PROVE  TurnsFit'
<1>1. /\ WriteTurns' = WriteTurns /\ ReadTurns' = ReadTurns
      /\ HisWrites' = HisWrites /\ HisReads' = HisReads
  BY DEF WriteTurns, ReadTurns, HisWrites, HisReads
<1>2. /\ WriteTurns \in Nat /\ ReadTurns \in Nat /\ AtPage("writer") \in Nat
      /\ HisWrites \in Nat /\ HisReads \in Nat /\ AtPage("reader") \in Nat
  BY TurnNumbers DEF Procs
<1>3. Ahead' \in Nat /\ Ahead \in Nat /\ Ahead' <= Ahead
  <2>1. AtPage("writer")' \in Nat
    BY DEF AtPage
  <2> QED
    BY <2>1, <1>1, <1>2 DEF Ahead
<1>4. ReaderFits'
  BY <1>1 DEF TurnsFit, ReaderFits
<1>5. BothFit => BothFit'
  BY <1>1, <1>2, <1>3 DEF BothFit
<1> QED
  BY <1>4, <1>5 DEF TurnsFit

\* The reader opens the semaphores.
LEMMA TurnsAreFound ==
  ASSUME NotebookIsBound, NoteLinks, NoteSems, TurnsFit, NEW n \in {"sem_write", "sem_read"},
         Open("reader", n, NextName("reader", n))
  PROVE  TurnsFit'
<1> USE DEF Names, Procs
<1>1. /\ link' = [link EXCEPT ![n] = Current(n)]
      /\ handle' = [handle EXCEPT !["reader"][n] = Current(n)]
      /\ Current(n) \in Nat /\ Current(n) # 0
      /\ \A m \in Names \ {n} : created'[m] = created[m]
  BY NoteOpens
<1>2. link \in [Names -> Nat] /\ handle \in [Procs -> [Names -> Nat]] /\ pc \in [Procs -> Places]
  BY DEF NoteLinks, NoteTyped
<1>3. sem' = sem /\ pc["reader"] = n /\ pc'["writer"] = pc["writer"] /\ Halfway' = Halfway
      /\ pc' = [pc EXCEPT !["reader"] = NextName("reader", n)]
  BY <1>2 DEF Open, From, objectVars, Halfway
<1>4. AtPage("writer")' = AtPage("writer") /\ AtPage("reader") = 0 /\ AtPage("reader")' = 0
  BY <1>2, <1>3 DEF AtPage, NextName
<1>5. NowWrite' = NowWrite /\ NowRead' = NowRead
  BY <1>1, <1>2 DEF NowWrite, NowRead, Current
<1>6. WriteTurns' = WriteTurns /\ ReadTurns' = ReadTurns
  BY <1>3, <1>5 DEF WriteTurns, ReadTurns
<1>7. HisRead = 0
  <2>1. ~Has(pc["reader"], "sem_read")
    BY <1>3 DEF Has, InLoop
  <2> QED
    BY <2>1 DEF NoteLinks, HandlesStand, HisRead
<1>8. /\ WriteTurns \in Nat /\ ReadTurns \in Nat /\ AtPage("writer") \in Nat
      /\ HisWrites \in Nat /\ NowRead # 0
  BY TurnNumbers
<1>9. Ahead' = Ahead /\ Ahead \in Nat
  BY <1>4, <1>6, <1>8 DEF Ahead
<1>10. /\ \A k \in Objects : sem["sem_write"][k] <= 1
       /\ ReadTurns <= 1
       /\ Ahead <= 1 \/ Halfway
  BY <1>7 DEF TurnsFit, ReaderFits, BothFit
<1>11. CASE n = "sem_write"
  <2>1. HisRead' = 0
    BY <1>1, <1>2, <1>7, <1>11 DEF HisRead
  <2>2. ReaderFits'
    BY <2>1, <1>3, <1>6, <1>10 DEF ReaderFits
  <2>3. BothFit' <=> Ahead' <= 1
    BY <2>1, <1>5, <1>8 DEF BothFit
  <2> QED
    BY <2>2, <2>3, <1>3, <1>9, <1>10 DEF TurnsFit
<1>12. CASE n = "sem_read"
  <2>1. HisRead' = NowRead /\ HisWrite' = HisWrite
    BY <1>1, <1>2, <1>12 DEF HisRead, HisWrite, NowRead
  <2>2. HisWrites' = HisWrites /\ HisReads' = ReadTurns
    BY <2>1, <1>3 DEF HisWrites, HisReads, ReadTurns
  <2>3. HisWrites <= 1
    <3>1. Has(pc["reader"], "sem_write")
      BY <1>3, <1>12 DEF Has
    <3>2. HisWrite # 0
      BY <3>1 DEF NoteLinks, HandlesStand, HisWrite
    <3>3. HisWrite \in Objects
      BY <3>2, ThereIsRoom DEF HisWrite
    <3>4. HisWrites = sem["sem_write"][HisWrite]
      BY <3>3 DEF HisWrites, Turns
    <3> QED
      BY <3>3, <3>4, <1>10
  <2>4. ReaderFits'
    <3>1. \A k \in Objects : sem'["sem_write"][k] <= 1
      BY <1>3, <1>10
    <3>2. HisWrites' + HisReads' + AtPage("reader")' <= 2
      <4>1. HisWrites' \in Nat /\ HisWrites' <= 1 /\ HisReads' \in Nat /\ HisReads' <= 1
        BY <2>2, <2>3, <1>8, <1>10
      <4> QED
        BY <4>1, <1>4
    <3> QED
      BY <3>1, <3>2, <2>1, <1>8 DEF ReaderFits
  <2>5. Ahead <= 1 => BothFit'
    <3>1. Ahead <= 1 => Ahead' <= 1 /\ Ahead' + AtPage("reader")' <= 1
                        /\ Ahead' + HisWrites' + AtPage("reader")' <= 2
      BY <2>2, <2>3, <1>4, <1>8, <1>9
    <3> QED
      BY <3>1, <2>1, <1>5 DEF BothFit
  <2> QED
    BY <2>4, <2>5, <1>3, <1>10 DEF TurnsFit
<1> QED
  BY <1>11, <1>12

\* A process waits for its turn.
LEMMA TurnsAreAwaited ==
  ASSUME NotebookIsBound, NoteLinks, NoteSems, TurnsFit, NEW p \in Procs, Wait(p)
  PROVE  NoteSems' /\ TurnsFit'
<1> USE DEF Names, Procs
<1>1. /\ link \in [Names -> Nat] /\ created \in [Names -> Nat] /\ pc \in [Procs -> Places]
      /\ sem \in [Names -> [Objects -> 0 .. 2]]
  BY DEF NoteLinks, NoteTyped, NoteSems
<1>2. /\ pc[p] = "wait" /\ pc' = [pc EXCEPT ![p] = "turn"]
      /\ UNCHANGED <<interrupted, link, created, handle, started>>
  BY DEF Wait, From
<1>3. AtPage(p) = 0 /\ AtPage(p)' = 1 /\ \A q \in Procs : q # p => AtPage(q)' = AtPage(q)
  BY <1>1, <1>2 DEF AtPage
<1>4. /\ HisWrite' = HisWrite /\ HisRead' = HisRead /\ NowWrite' = NowWrite /\ NowRead' = NowRead
  BY <1>2 DEF HisWrite, HisRead, NowWrite, NowRead, Current
<1>5. /\ WriteTurns \in Nat /\ ReadTurns \in Nat /\ AtPage("writer") \in Nat
      /\ HisWrites \in Nat /\ HisReads \in Nat /\ AtPage("reader") \in Nat
      /\ HisWrite = NowWrite => HisWrites = WriteTurns
      /\ HisRead = NowRead => HisReads = ReadTurns
      /\ pc["reader"] = "wait" => HisRead # 0
  BY TurnNumbers
<1>6. Halfway' <=> Halfway
  BY <1>1, <1>2 DEF Halfway
<1>7. CASE p = "reader"
  <2>1. HisRead # 0 /\ HisRead \in Objects /\ HisRead <= created["sem_read"]
    BY <1>2, <1>5, <1>7, ThereIsRoom DEF HisRead
  <2>2. /\ sem["sem_read"][HisRead] > 0
        /\ sem' = [sem EXCEPT !["sem_read"][HisRead] = sem["sem_read"][HisRead] - 1]
    BY <1>7 DEF Wait, Turn, HisRead
  <2>3. sem["sem_read"][HisRead] - 1 \in 0 .. 2
    BY <2>1, <2>2, <1>1
  <2>4. NoteSems' /\ \A m \in Names : \A l : Turns(sem', m, l) =
            IF m = "sem_read" /\ l = HisRead THEN sem["sem_read"][HisRead] - 1 ELSE Turns(sem, m, l)
    <3> DEFINE v == sem["sem_read"][HisRead] - 1
    <3> HIDE DEF v
    <3>1. sem' = [sem EXCEPT !["sem_read"][HisRead] = v] /\ v \in 0 .. 2
      BY <2>2, <2>3 DEF v
    <3>2. "sem_read" \in Names /\ created' = created
      BY <1>2
    <3>3. NoteSems' /\ \A m \in Names : \A l : Turns(sem', m, l) =
            IF m = "sem_read" /\ l = HisRead THEN v ELSE Turns(sem, m, l)
      <4>1. HisRead \in Objects /\ HisRead <= created["sem_read"]
        BY <2>1
      <4>2. created \in [Names -> Nat]
        BY <1>1
      <4> HIDE DEF Names, Procs
      <4> QED
        BY <3>1, <3>2, <4>1, <4>2, OneSemaphore
    <3> QED
      BY <3>3 DEF v
  <2>5. HisReads = sem["sem_read"][HisRead]
    BY <2>1 DEF HisReads, Turns
  <2>6. /\ WriteTurns' = WriteTurns /\ HisWrites' = HisWrites
        /\ HisReads' = HisReads - 1
        /\ HisRead = NowRead => ReadTurns' = ReadTurns - 1
        /\ HisRead # NowRead => ReadTurns' = ReadTurns
    BY <2>4, <2>5, <1>4, <1>5 DEF WriteTurns, ReadTurns, HisWrites, HisReads
  <2>7. sem'["sem_write"] = sem["sem_write"]
    BY <2>2, <1>1
  <2>8. ReaderFits'
    <3>1. HisWrites' + HisReads' + AtPage("reader")' = HisWrites + HisReads + AtPage("reader")
      BY <2>6, <1>3, <1>5, <1>7
    <3> QED
      BY <3>1, <2>1, <2>7, <1>4 DEF TurnsFit, ReaderFits
  <2>9. BothFit => BothFit'
    <3>1. /\ HisRead = NowRead => Ahead' = Ahead - 1
          /\ HisRead # NowRead => Ahead' = Ahead
          /\ Ahead \in Nat
      BY <2>6, <1>3, <1>5, <1>7 DEF Ahead
    <3> QED
      BY <3>1, <2>1, <2>6, <1>3, <1>4, <1>5, <1>7 DEF BothFit
  <2> QED
    BY <2>4, <2>8, <2>9, <1>6 DEF TurnsFit
<1>8. CASE p = "writer"
  <2>1. /\ handle["writer"]["sem_write"] = NowWrite /\ NowWrite \in Objects
        /\ NowWrite <= created["sem_write"]
    <3>1. Has(pc["writer"], "sem_write")
      BY <1>2, <1>8 DEF Has, InLoop
    <3>2. link["sem_write"] # 0 /\ handle["writer"]["sem_write"] = link["sem_write"]
      BY <3>1 DEF NoteLinks, HandlesStand
    <3>3. NowWrite = link["sem_write"]
      BY <3>2 DEF NowWrite, Current
    <3> QED
      BY <3>2, <3>3, ThereIsRoom
  <2>2. /\ sem["sem_write"][NowWrite] > 0
        /\ sem' = [sem EXCEPT !["sem_write"][NowWrite] = sem["sem_write"][NowWrite] - 1]
    BY <2>1, <1>8 DEF Wait, Turn
  <2>3. sem["sem_write"][NowWrite] - 1 \in 0 .. 2
    BY <2>1, <2>2, <1>1
  <2>4. NoteSems' /\ \A m \in Names : \A l : Turns(sem', m, l) =
            IF m = "sem_write" /\ l = NowWrite THEN sem["sem_write"][NowWrite] - 1 ELSE Turns(sem, m, l)
    <3> DEFINE v == sem["sem_write"][NowWrite] - 1
    <3> HIDE DEF v
    <3>1. sem' = [sem EXCEPT !["sem_write"][NowWrite] = v] /\ v \in 0 .. 2
      BY <2>2, <2>3 DEF v
    <3>2. "sem_write" \in Names /\ created' = created
      BY <1>2
    <3>3. NoteSems' /\ \A m \in Names : \A l : Turns(sem', m, l) =
            IF m = "sem_write" /\ l = NowWrite THEN v ELSE Turns(sem, m, l)
      BY <3>1, <3>2, <2>1, <1>1, OneSemaphore
    <3> QED
      BY <3>3 DEF v
  <2>5. WriteTurns = sem["sem_write"][NowWrite]
    BY <2>1 DEF WriteTurns, Turns
  <2>6. /\ ReadTurns' = ReadTurns /\ HisReads' = HisReads
        /\ WriteTurns' = WriteTurns - 1
        /\ HisWrite = NowWrite => HisWrites' = HisWrites - 1
        /\ HisWrite # NowWrite => HisWrites' = HisWrites
    BY <2>4, <2>5, <1>4, <1>5 DEF WriteTurns, ReadTurns, HisWrites, HisReads
  <2>7. Ahead' = Ahead /\ Ahead \in Nat
    BY <2>6, <1>3, <1>5, <1>8 DEF Ahead
  <2>8. ReaderFits'
    <3>1. \A k \in Objects : sem'["sem_write"][k] <= sem["sem_write"][k]
                                      /\ sem'["sem_write"][k] \in Nat /\ sem["sem_write"][k] \in Nat
      <4> TAKE k \in Objects
      <4>1. sem'["sem_write"][k] = IF k = NowWrite THEN sem["sem_write"][k] - 1 ELSE sem["sem_write"][k]
        BY <2>2, <1>1
      <4>2. sem["sem_write"][k] \in 0 .. 2
        BY <1>1
      <4>3. k = NowWrite => sem["sem_write"][k] > 0
        BY <2>2
      <4> QED
        BY <4>1, <4>2, <4>3
    <3>2. /\ HisWrites' <= HisWrites /\ HisWrites' \in Int
          /\ AtPage("reader")' = AtPage("reader")
      BY <2>6, <1>3, <1>5, <1>8
    <3>3. \A k \in Objects : k # HisWrite \/ HisRead = 0 => sem'["sem_write"][k] <= 1
      <4>1. \A k \in Objects : k # HisWrite \/ HisRead = 0 => sem["sem_write"][k] <= 1
        BY DEF TurnsFit, ReaderFits
      <4> QED
        BY <3>1, <4>1
    <3>4. HisRead # 0 => HisWrites' + HisReads' + AtPage("reader")' <= 2
      <4>1. HisRead # 0 => HisWrites + HisReads + AtPage("reader") <= 2
        BY DEF TurnsFit, ReaderFits
      <4>2. HisWrites' + HisReads' + AtPage("reader")' <= HisWrites + HisReads + AtPage("reader")
        BY <3>2, <2>6, <1>5
      <4>3. /\ HisWrites' + HisReads' + AtPage("reader")' \in Int
            /\ HisWrites + HisReads + AtPage("reader") \in Int
        BY <3>2, <2>6, <1>5
      <4> QED
        BY <4>1, <4>2, <4>3
    <3> QED
      BY <3>3, <3>4, <2>6, <1>4 DEF TurnsFit, ReaderFits
  <2>9. BothFit => BothFit'
    BY <2>6, <2>7, <1>3, <1>4, <1>5, <1>8 DEF BothFit
  <2> QED
    BY <2>4, <2>8, <2>9, <1>6 DEF TurnsFit
<1> QED
  BY <1>7, <1>8

\* The reader posts the writer's turn.
LEMMA ReaderPosts ==
  ASSUME NotebookIsBound, NoteLinks, NoteSems, TurnsFit, Post("reader")
  PROVE  NoteSems' /\ TurnsFit'
<1>1. /\ link \in [Names -> Nat] /\ created \in [Names -> Nat] /\ pc \in [Procs -> Places]
      /\ sem \in [Names -> [Objects -> 0 .. 2]]
  BY DEF NoteLinks, NoteTyped, NoteSems
<1>2. /\ pc["reader"] = "post" /\ pc' = [pc EXCEPT !["reader"] = "wait"]
      /\ UNCHANGED <<interrupted, link, created, handle, started>>
  BY DEF Post, From
<1>3. /\ AtPage("reader") = 1 /\ AtPage("reader")' = 0 /\ AtPage("writer")' = AtPage("writer")
      /\ Halfway' <=> Halfway
  BY <1>1, <1>2 DEF AtPage, Halfway, Procs
<1>4. /\ HisWrite' = HisWrite /\ HisRead' = HisRead /\ NowWrite' = NowWrite /\ NowRead' = NowRead
  BY <1>2 DEF HisWrite, HisRead, NowWrite, NowRead, Current
<1>5. /\ WriteTurns \in Nat /\ ReadTurns \in Nat /\ AtPage("writer") \in Nat
      /\ HisWrites \in Nat /\ HisReads \in Nat /\ AtPage("reader") \in Nat
      /\ HisWrite = NowWrite => HisWrites = WriteTurns
      /\ HisRead = NowRead => HisReads = ReadTurns
  BY TurnNumbers DEF Procs
<1>6. HisRead # 0 /\ HisWrite \in Objects /\ HisWrites = sem["sem_write"][HisWrite]
  BY <1>3, TurnNumbers
<1>7. HisWrite <= created["sem_write"]
  BY <1>6, ThereIsRoom DEF HisWrite, Names, Procs, NoteLinks, NamesStand
<1>8. HisWrites + HisReads + AtPage("reader") <= 2
  BY <1>6 DEF TurnsFit, ReaderFits
<1>9. sem["sem_write"][HisWrite] + 1 \in 0 .. 2
  <2>1. HisWrites <= 1
    BY <1>3, <1>5, <1>8
  <2> QED
    BY <2>1, <1>5, <1>6
<1>10. sem' = [sem EXCEPT !["sem_write"][HisWrite] = sem["sem_write"][HisWrite] + 1]
  BY DEF Post, Other, HisWrite
<1>11. NoteSems' /\ \A m \in Names : \A l : Turns(sem', m, l) =
            IF m = "sem_write" /\ l = HisWrite THEN sem["sem_write"][HisWrite] + 1 ELSE Turns(sem, m, l)
  <2> DEFINE v == sem["sem_write"][HisWrite] + 1
  <2> HIDE DEF v
  <2>1. sem' = [sem EXCEPT !["sem_write"][HisWrite] = v] /\ v \in 0 .. 2
    BY <1>9, <1>10 DEF v
  <2>2. "sem_write" \in Names /\ created' = created /\ created \in [Names -> Nat]
    BY <1>1, <1>2 DEF Names
  <2>3. HisWrite \in Objects /\ HisWrite <= created["sem_write"]
    BY <1>6, <1>7
  <2>4. NoteSems' /\ \A m \in Names : \A l : Turns(sem', m, l) =
            IF m = "sem_write" /\ l = HisWrite THEN v ELSE Turns(sem, m, l)
    BY <2>1, <2>2, <2>3, OneSemaphore
  <2> QED
    BY <2>4 DEF v
<1>12. /\ ReadTurns' = ReadTurns /\ HisReads' = HisReads
       /\ HisWrites' = HisWrites + 1
       /\ HisWrite = NowWrite => WriteTurns' = WriteTurns + 1
       /\ HisWrite # NowWrite => WriteTurns' = WriteTurns
  BY <1>11, <1>4, <1>5, <1>6 DEF WriteTurns, ReadTurns, HisWrites, HisReads, Names
<1>13. \A k \in Objects : k # HisWrite => sem'["sem_write"][k] = sem["sem_write"][k]
  BY <1>1, <1>6, <1>10 DEF Names
<1>14. ReaderFits'
  <2>1. HisWrites' + HisReads' + AtPage("reader")' = HisWrites + HisReads + AtPage("reader")
    BY <1>3, <1>5, <1>12
  <2> QED
    BY <2>1, <1>4, <1>6, <1>13 DEF TurnsFit, ReaderFits
<1>15. BothFit => BothFit'
  <2>1. /\ HisWrite = NowWrite => Ahead' = Ahead + 1
        /\ HisWrite # NowWrite => Ahead' = Ahead
        /\ Ahead \in Nat
    BY <1>3, <1>5, <1>12 DEF Ahead
  <2> QED
    BY <2>1, <1>3, <1>4, <1>5, <1>6, <1>12 DEF BothFit
<1> QED
  BY <1>3, <1>11, <1>14, <1>15 DEF TurnsFit

\* The writer posts the reader's turn.
LEMMA WriterPosts ==
  ASSUME NotebookIsBound, NoteLinks, NoteSems, TurnsFit, Post("writer")
  PROVE  NoteSems' /\ TurnsFit'
<1>1. /\ link \in [Names -> Nat] /\ created \in [Names -> Nat] /\ pc \in [Procs -> Places]
      /\ sem \in [Names -> [Objects -> 0 .. 2]]
  BY DEF NoteLinks, NoteTyped, NoteSems
<1>2. /\ pc["writer"] = "post" /\ pc' = [pc EXCEPT !["writer"] = "wait"]
      /\ UNCHANGED <<interrupted, link, created, handle, started>>
  BY DEF Post, From
<1>3. /\ AtPage("writer") = 1 /\ AtPage("writer")' = 0 /\ AtPage("reader")' = AtPage("reader")
      /\ ~Halfway /\ ~Halfway'
  BY <1>1, <1>2 DEF AtPage, Halfway, Procs
<1>4. /\ HisWrite' = HisWrite /\ HisRead' = HisRead /\ NowWrite' = NowWrite /\ NowRead' = NowRead
  BY <1>2 DEF HisWrite, HisRead, NowWrite, NowRead, Current
<1>5. /\ WriteTurns \in Nat /\ ReadTurns \in Nat /\ AtPage("writer") \in Nat
      /\ HisWrites \in Nat /\ HisReads \in Nat /\ AtPage("reader") \in Nat
      /\ HisWrite = NowWrite => HisWrites = WriteTurns
      /\ HisRead = NowRead => HisReads = ReadTurns
  BY TurnNumbers DEF Procs
<1>6. /\ handle["writer"]["sem_read"] = NowRead /\ NowRead \in Objects
      /\ NowRead <= created["sem_read"] /\ ReadTurns = sem["sem_read"][NowRead]
  <2>1. Has(pc["writer"], "sem_read")
    BY <1>2 DEF Has, InLoop
  <2>2. link["sem_read"] # 0 /\ handle["writer"]["sem_read"] = link["sem_read"]
    BY <2>1 DEF NoteLinks, HandlesStand, Names
  <2>3. NowRead = link["sem_read"]
    BY <2>2 DEF NowRead, Current
  <2>4. NowRead \in Objects /\ NowRead <= created["sem_read"]
    BY <2>2, <2>3, ThereIsRoom DEF Names, Procs
  <2> QED
    BY <2>2, <2>3, <2>4 DEF ReadTurns, Turns
<1>7. BothFit
  BY <1>3 DEF TurnsFit
<1>8. Ahead = WriteTurns + ReadTurns + AtPage("writer") /\ Ahead \in Nat
  BY <1>5 DEF Ahead
<1>9. ReadTurns <= 1
  <2>1. CASE HisWrite # NowWrite \/ HisRead = 0 \/ HisRead = NowRead
    <3>1. Ahead <= 1
      BY <2>1, <1>7 DEF BothFit
    <3> QED
      BY <3>1, <1>3, <1>5, <1>8
  <2>2. CASE HisWrite = NowWrite /\ HisRead # 0 /\ HisRead # NowRead
    <3>1. Ahead + HisReads + AtPage("reader") <= 2
      BY <2>2, <1>7 DEF BothFit
    <3> QED
      BY <3>1, <1>3, <1>5, <1>8
  <2> QED
    BY <2>1, <2>2
<1>10. sem' = [sem EXCEPT !["sem_read"][NowRead] = sem["sem_read"][NowRead] + 1]
  BY <1>6 DEF Post, Other
<1>11. NoteSems' /\ \A m \in Names : \A l : Turns(sem', m, l) =
            IF m = "sem_read" /\ l = NowRead THEN sem["sem_read"][NowRead] + 1 ELSE Turns(sem, m, l)
  <2> DEFINE v == sem["sem_read"][NowRead] + 1
  <2>0. sem["sem_read"][NowRead] + 1 \in 0 .. 2
    BY <1>5, <1>6, <1>9
  <2> HIDE DEF v
  <2>1. sem' = [sem EXCEPT !["sem_read"][NowRead] = v] /\ v \in 0 .. 2
    BY <2>0, <1>10 DEF v
  <2>2. "sem_read" \in Names /\ created' = created /\ created \in [Names -> Nat]
    BY <1>1, <1>2 DEF Names
  <2>3. NowRead \in Objects /\ NowRead <= created["sem_read"]
    BY <1>6
  <2>4. NoteSems' /\ \A m \in Names : \A l : Turns(sem', m, l) =
            IF m = "sem_read" /\ l = NowRead THEN v ELSE Turns(sem, m, l)
    BY <2>1, <2>2, <2>3, OneSemaphore
  <2> QED
    BY <2>4 DEF v
<1>12. /\ WriteTurns' = WriteTurns /\ HisWrites' = HisWrites
       /\ ReadTurns' = ReadTurns + 1
       /\ HisRead = NowRead => HisReads' = HisReads + 1
       /\ HisRead # NowRead => HisReads' = HisReads
  BY <1>11, <1>4, <1>5, <1>6 DEF WriteTurns, ReadTurns, HisWrites, HisReads, Names
<1>13. sem'["sem_write"] = sem["sem_write"]
  BY <1>1, <1>10 DEF Names
<1>14. Ahead' = Ahead
  BY <1>3, <1>5, <1>12 DEF Ahead
<1>15. ReaderFits'
  <2>1. \A k \in Objects : k # HisWrite \/ HisRead = 0 => sem'["sem_write"][k] <= 1
    BY <1>13 DEF TurnsFit, ReaderFits
  <2>2. ASSUME HisRead = 0
        PROVE  ReadTurns' <= 1
    <3>1. Ahead <= 1
      BY <2>2, <1>7 DEF BothFit
    <3> QED
      BY <3>1, <1>3, <1>5, <1>8, <1>12
  <2>3. ASSUME HisRead # 0
        PROVE  HisWrites' + HisReads' + AtPage("reader")' <= 2
    <3>1. CASE HisRead # NowRead
      <4>1. HisWrites + HisReads + AtPage("reader") <= 2
        BY <2>3 DEF TurnsFit, ReaderFits
      <4> QED
        BY <4>1, <3>1, <1>3, <1>5, <1>12
    <3>2. CASE HisRead = NowRead /\ HisWrite = NowWrite
      <4>1. Ahead + AtPage("reader") <= 1
        BY <3>2, <1>7 DEF BothFit
      <4>2. WriteTurns = HisWrites /\ ReadTurns = HisReads
        BY <3>2, <1>5
      <4>3. HisWrites + HisReads + AtPage("reader") <= 0
        BY <4>1, <4>2, <1>3, <1>5, <1>8
      <4> QED
        BY <4>3, <3>2, <1>3, <1>5, <1>12
    <3>3. CASE HisRead = NowRead /\ HisWrite # NowWrite
      <4>1. Ahead + HisWrites + AtPage("reader") <= 2
        BY <3>3, <1>7 DEF BothFit
      <4>2. ReadTurns = HisReads
        BY <3>3, <1>5
      <4>3. HisWrites + HisReads + AtPage("reader") <= 1
        BY <4>1, <4>2, <1>3, <1>5, <1>8
      <4> QED
        BY <4>3, <3>3, <1>3, <1>5, <1>12
    <3> QED
      BY <3>1, <3>2, <3>3
  <2> QED
    BY <2>1, <2>2, <2>3, <1>4 DEF ReaderFits
<1>16. BothFit'
  <2>1. CASE HisRead = NowRead
    BY <2>1, <1>3, <1>4, <1>5, <1>7, <1>8, <1>12, <1>14 DEF BothFit
  <2>2. CASE HisRead # NowRead
    BY <2>2, <1>3, <1>4, <1>5, <1>7, <1>8, <1>12, <1>14 DEF BothFit
  <2> QED
    BY <2>1, <2>2
<1> QED
  BY <1>11, <1>15, <1>16 DEF TurnsFit

\* The writer unlinks the semaphores: whoever comes opens fresh ones.
UnlinkWrite == Unlink("sem_write", "unlink sem_write", "unlink sem_read")
UnlinkRead  == Unlink("sem_read", "unlink sem_read", "unlink page")

\* The writer's semaphore loses its name.
LEMMA WriteIsUnlinked ==
  ASSUME NotebookIsBound, NoteLinks, NoteSems, TurnsFit, UnlinkWrite
  PROVE  TurnsFit'
<1>1. /\ link \in [Names -> Nat] /\ created \in [Names -> Nat] /\ pc \in [Procs -> Places]
      /\ sem \in [Names -> [Objects -> 0 .. 2]]
  BY DEF NoteLinks, NoteTyped, NoteSems
<1>2. sem' = sem /\ handle' = handle /\ created' = created /\ pc'["reader"] = pc["reader"]
  BY <1>1 DEF UnlinkWrite, Unlink, From, objectVars, Procs
<1>3. HisWrite' = HisWrite /\ HisRead' = HisRead /\ HisWrites' = HisWrites /\ HisReads' = HisReads
      /\ AtPage("reader")' = AtPage("reader")
  BY <1>2 DEF HisWrite, HisRead, HisWrites, HisReads, AtPage
<1>4. /\ WriteTurns \in Nat /\ ReadTurns \in Nat /\ HisWrites \in Nat /\ HisReads \in Nat
      /\ AtPage("reader") \in Nat /\ HisRead \in Nat
      /\ HisWrite = NowWrite => HisWrites = WriteTurns
  BY TurnNumbers DEF Procs
<1>5. pc'["writer"] = "unlink sem_read" /\ link' = [link EXCEPT !["sem_write"] = 0]
  BY <1>1 DEF UnlinkWrite, Unlink, From, Procs
<1>6. NowRead' = NowRead
  BY <1>5, <1>1, <1>2 DEF NowRead, Current, Names
<1>7. ReadTurns' = ReadTurns
  BY <1>6, <1>2 DEF ReadTurns
<1>8. ReaderFits'
  BY <1>7, <1>2, <1>3 DEF TurnsFit, ReaderFits
<1> QED
  BY <1>5, <1>8 DEF TurnsFit, Halfway

\* The writer's turn may be there already, and the reader may have kept the old one.
LEMMA ReadIsUnlinked ==
  ASSUME NotebookIsBound, NoteLinks, NoteSems, TurnsFit, UnlinkRead
  PROVE  TurnsFit'
<1>1. /\ link \in [Names -> Nat] /\ created \in [Names -> Nat] /\ pc \in [Procs -> Places]
      /\ sem \in [Names -> [Objects -> 0 .. 2]]
  BY DEF NoteLinks, NoteTyped, NoteSems
<1>2. sem' = sem /\ handle' = handle /\ created' = created /\ pc'["reader"] = pc["reader"]
  BY <1>1 DEF UnlinkRead, Unlink, From, objectVars, Procs
<1>3. HisWrite' = HisWrite /\ HisRead' = HisRead /\ HisWrites' = HisWrites /\ HisReads' = HisReads
      /\ AtPage("reader")' = AtPage("reader")
  BY <1>2 DEF HisWrite, HisRead, HisWrites, HisReads, AtPage
<1>4. /\ WriteTurns \in Nat /\ ReadTurns \in Nat /\ HisWrites \in Nat /\ HisReads \in Nat
      /\ AtPage("reader") \in Nat /\ HisRead \in Nat
      /\ HisWrite = NowWrite => HisWrites = WriteTurns
  BY TurnNumbers DEF Procs
<1>5. AtPage("writer")' = 0 /\ link' = [link EXCEPT !["sem_read"] = 0]
  <2>1. pc'["writer"] = "unlink page" /\ link' = [link EXCEPT !["sem_read"] = 0]
    BY <1>1 DEF UnlinkRead, Unlink, From, Procs
  <2> QED
    BY <2>1 DEF AtPage
<1>6. /\ NowWrite' = NowWrite
      /\ NowRead' \in Nat /\ NowRead' > created["sem_read"] /\ created["sem_read"] \in Nat
  BY <1>5, <1>1, <1>2 DEF NowWrite, NowRead, Current, Names
<1>7. WriteTurns' = WriteTurns
  BY <1>6, <1>2 DEF WriteTurns
<1>8. ReadTurns' \in Nat /\ ReadTurns' <= 0
  <2>1. NowRead' \in Objects => sem["sem_read"][NowRead'] = FirstTurns("sem_read")
    BY <1>6 DEF NoteSems, Names
  <2>2. ReadTurns' = FirstTurns("sem_read")
    BY <2>1, <1>2 DEF ReadTurns, Turns
  <2> QED
    BY <2>2 DEF FirstTurns
<1>10. Ahead' = WriteTurns
  BY <1>4, <1>5, <1>7, <1>8 DEF Ahead
<1>11. HisRead # NowRead'
  <2>1. HisRead <= created["sem_read"]
    BY DEF NoteLinks, NamesStand, HisRead, Names, Procs
  <2> QED
    BY <2>1, <1>6, <1>4
<1>12. ReaderFits'
  <2>1. ReadTurns' <= 1
    BY <1>8
  <2> QED
    BY <2>1, <1>2, <1>3 DEF TurnsFit, ReaderFits
<1>13. ASSUME HisWrite # NowWrite \/ HisRead = 0
       PROVE  WriteTurns <= 1
  <2>1. CASE NowWrite \in Objects
    <3>1. WriteTurns = sem["sem_write"][NowWrite]
      BY <2>1 DEF WriteTurns, Turns
    <3> QED
      BY <3>1, <2>1, <1>13 DEF TurnsFit, ReaderFits
  <2>2. CASE NowWrite \notin Objects
    <3>1. WriteTurns = FirstTurns("sem_write")
      BY <2>2 DEF WriteTurns, Turns
    <3> QED
      BY <3>1 DEF FirstTurns
  <2> QED
    BY <2>1, <2>2
<1>14. ASSUME HisWrite = NowWrite, HisRead # 0
       PROVE  WriteTurns + HisReads + AtPage("reader") <= 2
  <2>1. HisWrites + HisReads + AtPage("reader") <= 2
    BY <1>14 DEF TurnsFit, ReaderFits
  <2>2. HisWrites = WriteTurns
    BY <1>14, <1>4
  <2> QED
    BY <2>1, <2>2
<1>15. BothFit'
  BY <1>6, <1>10, <1>11, <1>13, <1>14, <1>3 DEF BothFit
<1> QED
  BY <1>12, <1>15 DEF TurnsFit

\* The reader is interrupted: the writer is not, and he brings no turn with him.
LEMMA ReaderLeaves ==
  ASSUME NotebookIsBound, NoteLinks, NoteSems, TurnsFit, InterruptReader
  PROVE  TurnsFit'
<1> USE DEF Names, Procs
<1>1. /\ link \in [Names -> Nat] /\ created \in [Names -> Nat] /\ pc \in [Procs -> Places]
      /\ sem \in [Names -> [Objects -> 0 .. 2]] /\ handle \in [Procs -> [Names -> Nat]]
  BY DEF NoteLinks, NoteTyped, NoteSems
<1>2. /\ pc' = [pc EXCEPT !["reader"] = "off"]
      /\ handle' = [handle EXCEPT !["reader"] = noHandle]
      /\ "reader" \in interrupted
      /\ sem' = sem /\ link' = link /\ created' = created
  BY DEF InterruptReader, objectVars
<1>3. HisRead' = 0 /\ HisWrite' = 0
  BY <1>1, <1>2 DEF HisRead, HisWrite, noHandle, Names
<1>4. NowWrite' = NowWrite /\ NowRead' = NowRead
  BY <1>2 DEF NowWrite, NowRead, Current
<1>5. WriteTurns' = WriteTurns /\ ReadTurns' = ReadTurns /\ AtPage("writer")' = AtPage("writer")
  BY <1>1, <1>2, <1>4 DEF WriteTurns, ReadTurns, AtPage
<1>6. Ahead' = Ahead
  BY <1>5 DEF Ahead
<1>7. /\ \A n \in Names : created[n] <= 1 /\ link[n] = created[n]
      /\ ~Halfway
  BY <1>2 DEF NoteLinks, OneIsLeftAlone, WriterStays, Halfway
<1>8. BothFit
  BY <1>7 DEF TurnsFit
<1>9. /\ WriteTurns \in Nat /\ ReadTurns \in Nat /\ AtPage("writer") \in Nat /\ AtPage("reader") \in Nat
      /\ HisWrite \in Nat /\ HisRead \in Nat
      /\ HisWrite = NowWrite => HisWrites = WriteTurns
      /\ HisRead # 0 => HisWrite \in Objects /\ HisRead \in Objects
      /\ HisRead # 0 => HisWrites = sem["sem_write"][HisWrite]
  BY TurnNumbers
<1>10. ASSUME HisRead # 0
       PROVE  HisWrite = NowWrite /\ HisRead = NowRead
  <2>1. \A n \in Names : handle["reader"][n] # 0 => handle["reader"][n] = link[n]
    <3> TAKE n \in Names
    <3>1. handle["reader"][n] \in Nat /\ handle["reader"][n] <= created[n] /\ created[n] \in Nat
      BY <1>1 DEF NoteLinks, NamesStand
    <3>2. created[n] <= 1 /\ link[n] = created[n]
      BY <1>7
    <3> QED
      BY <3>1, <3>2
  <2>2. HisWrite # 0
    BY <1>9, <1>10 DEF NotebookIsBound, Objects
  <2>3. HisWrite = link["sem_write"] /\ HisRead = link["sem_read"]
    BY <2>1, <2>2, <1>10 DEF HisWrite, HisRead
  <2> QED
    BY <2>2, <2>3, <1>10 DEF NowWrite, NowRead, Current
<1>11. Ahead <= 1
  BY <1>8, <1>10 DEF BothFit
<1>12. WriteTurns <= 1 /\ ReadTurns <= 1
  BY <1>9, <1>11 DEF Ahead
<1>13. \A k \in Objects : sem["sem_write"][k] <= 1
  <2> TAKE k \in Objects
  <2>1. CASE k # HisWrite \/ HisRead = 0
    BY <2>1 DEF TurnsFit, ReaderFits
  <2>2. CASE k = HisWrite /\ HisRead # 0
    <3>1. sem["sem_write"][k] = WriteTurns
      BY <2>2, <1>9, <1>10
    <3> QED
      BY <3>1, <1>12
  <2> QED
    BY <2>1, <2>2
<1>14. ReaderFits'
  BY <1>2, <1>3, <1>5, <1>12, <1>13 DEF ReaderFits
<1>15. BothFit'
  <2>1. NowRead # 0
    BY TurnNumbers
  <2> QED
    BY <2>1, <1>3, <1>4, <1>6, <1>11 DEF BothFit
<1> QED
  BY <1>14, <1>15 DEF TurnsFit

\* The steps there are.
UnlinkPage == Unlink("page", "unlink page", "off")
\* Every step is one of these.
LEMMA NoteActions ==
  ASSUME [Next]_vars
  PROVE  \/ \E p \in Procs : \/ Wait(p) \/ Post(p) \/ Start(p)
                             \/ \E n \in Names : Open(p, n, NextName(p, n))
         \/ CountDay \/ Write \/ Read \/ Erase
         \/ ClearPage \/ InterruptWriter \/ InterruptReader
         \/ UnlinkWrite \/ UnlinkRead \/ UnlinkPage
         \/ UNCHANGED vars
<1>1. ASSUME NEW p \in Procs, OpenAll(p)
      PROVE  \E n \in Names : Open(p, n, NextName(p, n))
  <2>1. /\ NextName(p, "page") = IF p = "writer" THEN "clear" ELSE "sem_write"
        /\ NextName(p, "sem_write") = "sem_read" /\ NextName(p, "sem_read") = "wait"
    BY DEF NextName
  <2> QED
    BY <1>1, <2>1 DEF OpenAll, Names
<1>2. Clean => UnlinkWrite \/ UnlinkRead \/ UnlinkPage
  BY DEF Clean, UnlinkWrite, UnlinkRead, UnlinkPage
<1>3. AtAnEnd => UNCHANGED vars
  BY DEF AtAnEnd, vars, vars
<1> QED
  BY <1>1, <1>2, <1>3 DEF Next, WriterStep, ReaderStep, Loop, Procs

\* The steps of the loops that move no turn.
AtWork == CountDay \/ Write \/ Read \/ Erase

\* They keep the invariant.
LEMMA NoteWorks ==
  ASSUME NotebookIsBound, NoteLinks, NoteSems, TurnsFit, AtWork
  PROVE  NoteLinks' /\ NoteSems' /\ TurnsFit'
<1>1. /\ created \in [Names -> Nat] /\ pc \in [Procs -> Places]
  BY DEF NoteLinks, NoteTyped
<1>2. UNCHANGED <<interrupted, link, created, handle, started, sem>>
  BY DEF AtWork, CountDay, Write, Read, Erase
<1>3. \/ pc["writer"] = "turn" /\ pc' = [pc EXCEPT !["writer"] = "write"]
      \/ pc["writer"] = "write" /\ pc' = [pc EXCEPT !["writer"] = "post"]
      \/ pc["reader"] = "turn" /\ pc' = [pc EXCEPT !["reader"] = "erase"]
      \/ pc["reader"] = "erase" /\ pc' = [pc EXCEPT !["reader"] = "post"]
  BY DEF AtWork, CountDay, Write, Read, Erase, From
<1>4. NoteLinks'
  BY <1>2, <1>3, NoteLoop DEF InLoop, Procs, Places
<1>5. NoteSems'
  BY <1>1, <1>2, SameSemaphores
<1>6. AtPage("writer")' = AtPage("writer") /\ AtPage("reader")' = AtPage("reader")
      /\ (Halfway => Halfway')
  BY <1>1, <1>3 DEF AtPage, Halfway, Procs
<1>7. /\ HisWrite' = HisWrite /\ HisRead' = HisRead /\ NowWrite' = NowWrite /\ NowRead' = NowRead
  BY <1>2 DEF HisWrite, HisRead, NowWrite, NowRead, Current
<1>8. AtPage("writer")' <= AtPage("writer")
  BY <1>6, TurnNumbers DEF Procs
<1>9. TurnsFit'
  BY <1>2, <1>6, <1>7, <1>8, TurnsStay
<1> QED
  BY <1>4, <1>5, <1>9

\* The steps of main that move no turn.
AtStart == \/ \E p \in Procs : Start(p) \/ Open(p, "page", NextName(p, "page"))
           \/ \E n \in {"sem_write", "sem_read"} : Open("writer", n, NextName("writer", n))
           \/ ClearPage \/ InterruptWriter \/ UnlinkPage

\* They keep the turns.
LEMMA MainMovesNoTurn ==
  ASSUME NotebookIsBound, NoteLinks, NoteSems, TurnsFit, AtStart
  PROVE  TurnsFit'
<1> USE DEF Procs
<1>1. /\ link \in [Names -> Nat] /\ created \in [Names -> Nat] /\ pc \in [Procs -> Places]
      /\ handle \in [Procs -> [Names -> Nat]]
  BY DEF NoteLinks, NoteTyped
<1>2. sem' = sem
  BY DEF AtStart, Start, Open, ClearPage, InterruptWriter,
         UnlinkPage, Unlink, objectVars
<1>3. AtPage("reader")' = AtPage("reader")
  BY <1>1 DEF AtStart, Start, Open, ClearPage, InterruptWriter,
         UnlinkPage, Unlink, From, NextName, AtPage
<1>4. AtPage("writer")' = 0 \/ AtPage("writer")' = AtPage("writer")
  BY <1>1 DEF AtStart, Start, Open, ClearPage, InterruptWriter,
         UnlinkPage, Unlink, From, NextName, AtPage
<1>5. AtPage("writer")' <= AtPage("writer")
  <2>1. AtPage("writer") \in Nat
    BY TurnNumbers
  <2> QED
    BY <2>1, <1>4
<1>6. Halfway => Halfway'
  BY <1>1 DEF AtStart, Start, Open, ClearPage, InterruptWriter,
         UnlinkPage, Unlink, From, NextName, Halfway, Running
<1>7. HisWrite' = HisWrite /\ HisRead' = HisRead
  <2>1. \/ handle' = handle
        \/ handle' = [handle EXCEPT !["writer"] = noHandle]
        \/ \E p \in Procs, k \in {Current("page")} : handle' = [handle EXCEPT ![p]["page"] = k]
        \/ \E n \in Names : \E k \in {Current(n)} : handle' = [handle EXCEPT !["writer"][n] = k]
    BY DEF AtStart, Start, Open, ClearPage, InterruptWriter,
           UnlinkPage, Unlink, Current, Names
  <2> QED
    BY <2>1, <1>1 DEF HisWrite, HisRead, Names
<1>8. NowWrite' = NowWrite /\ NowRead' = NowRead
  <2>1. CASE \E p \in Procs, n \in Names : Open(p, n, NextName(p, n))
    <3>1. PICK p \in Procs, n \in Names : Open(p, n, NextName(p, n))
      BY <2>1
    <3>2. /\ link' = [link EXCEPT ![n] = Current(n)]
          /\ Current(n) \in Nat /\ Current(n) # 0
          /\ \A m \in Names \ {n} : created'[m] = created[m]
      BY <3>1, NoteOpens
    <3>3. \A m \in Names : Current(m)' = Current(m)
      BY <3>2, <1>1 DEF Current
    <3> QED
      BY <3>3 DEF NowWrite, NowRead, Names
  <2>2. CASE (\E p \in Procs : Start(p)) \/ ClearPage \/ InterruptWriter
    <3>1. link' = link /\ created' = created
      BY <2>2 DEF Start, ClearPage, InterruptWriter
    <3> QED
      BY <3>1 DEF NowWrite, NowRead, Current
  <2>3. CASE UnlinkPage
    <3>1. link' = [link EXCEPT !["page"] = 0] /\ created' = created
      BY <2>3 DEF UnlinkPage, Unlink
    <3> QED
      BY <3>1, <1>1 DEF NowWrite, NowRead, Current, Names
  <2> QED
    BY <2>1, <2>2, <2>3 DEF AtStart, Names
<1> QED
  BY <1>2, <1>3, <1>5, <1>6, <1>7, <1>8, TurnsStay

\* What is written on the pages.
LEMMA NoteKeepsValues ==
  ASSUME NotebookIsBound, NoteLinks, NoteValues, [Next]_vars
  PROVE  NoteValues'
<1> USE DEF Procs
<1>1. /\ id \in [Objects -> 0 .. MaxDay - 1]
      /\ message \in [Objects -> {Blank} \cup 0 .. MaxDay - 1]
      /\ day \in {Blank} \cup 0 .. MaxDay - 1
  BY DEF NoteValues
<1>2. MaxDay \in Nat /\ MaxDay > 1
  BY DEF NotebookIsBound
<1>3. \A d \in 0 .. MaxDay - 1 : Tomorrow(d) \in 0 .. MaxDay - 1
  BY <1>2 DEF Tomorrow
<1>4. \A p \in Procs : InLoop(pc[p]) => Page(p) \in Objects
  <2> SUFFICES ASSUME NEW p \in Procs, InLoop(pc[p])
               PROVE  Page(p) \in Objects
    OBVIOUS
  <2>1. Has(pc[p], "page")
    BY DEF Has
  <2>2. handle[p]["page"] # 0
    BY <2>1 DEF NoteLinks, HandlesStand, Names
  <2> QED
    BY <2>2, ThereIsRoom DEF Page, Names
<1>5. CASE CountDay
  <2>1. id' = [id EXCEPT ![Page("writer")] = Tomorrow(id[Page("writer")])]
        /\ message' = message /\ day' = day /\ Page("writer") \in Objects
    BY <1>4, <1>5 DEF CountDay, From, InLoop
  <2>2. id' \in [Objects -> 0 .. MaxDay - 1]
    BY <2>1, <1>1, <1>3
  <2> QED
    BY <2>1, <2>2, <1>1 DEF NoteValues
<1>6. CASE Write
  <2>1. message' = [message EXCEPT ![Page("writer")] = id[Page("writer")]]
        /\ id' = id /\ day' = day /\ Page("writer") \in Objects
    BY <1>4, <1>6 DEF Write, From, InLoop
  <2>2. message' \in [Objects -> {Blank} \cup 0 .. MaxDay - 1]
    BY <2>1, <1>1
  <2> QED
    BY <2>1, <2>2, <1>1 DEF NoteValues
<1>7. CASE Read
  <2>1. day' = message[Page("reader")] /\ Page("reader") \in Objects
        /\ id' = id /\ message' = message
    BY <1>4, <1>7 DEF Read, From, InLoop
  <2> QED
    BY <2>1, <1>1 DEF NoteValues
<1>8. CASE Erase
  <2>1. message' = [message EXCEPT ![Page("reader")] = Blank] /\ id' = id /\ day' = day
    BY <1>8 DEF Erase
  <2>2. message' \in [Objects -> {Blank} \cup 0 .. MaxDay - 1]
    BY <2>1, <1>1
  <2> QED
    BY <2>1, <2>2, <1>1 DEF NoteValues
<1>9. CASE ClearPage
  <2>1. PICK k : id' = [id EXCEPT ![k] = 0] /\ message' = [message EXCEPT ![k] = Blank] /\ day' = day
    BY <1>9 DEF ClearPage
  <2>2. message' \in [Objects -> {Blank} \cup 0 .. MaxDay - 1]
    BY <2>1, <1>1
  <2>3. id' \in [Objects -> 0 .. MaxDay - 1]
    <3>1. 0 \in 0 .. MaxDay - 1
      BY <1>2
    <3> QED
      BY <2>1, <3>1, <1>1
  <2> QED
    BY <2>1, <2>2, <2>3, <1>1 DEF NoteValues
<1>10. CASE UNCHANGED <<id, message, day>>
  BY <1>1, <1>10 DEF NoteValues
<1>11. ASSUME NEW p \in Procs,
              Wait(p) \/ Post(p) \/ Start(p)
              \/ \E n \in Names : Open(p, n, NextName(p, n))
       PROVE  UNCHANGED <<id, message, day>>
  BY <1>11 DEF Wait, Post, Start, Open, objectVars
<1>12. \/ InterruptWriter \/ InterruptReader
       \/ UnlinkWrite \/ UnlinkRead \/ UnlinkPage \/ UNCHANGED vars
       => UNCHANGED <<id, message, day>>
  BY DEF InterruptWriter, InterruptReader, UnlinkWrite, UnlinkRead, UnlinkPage,
         Unlink, objectVars, vars
<1> QED
  BY <1>5, <1>6, <1>7, <1>8, <1>9, <1>10, <1>11, <1>12, NoteActions

\* Who may be interrupted is settled at the beginning.
LEMMA WhoIsInterrupted ==
  ASSUME [Next]_vars
  PROVE  interrupted' = interrupted
BY NoteActions DEF Wait, Post, Start, Open, CountDay,
   Write, Read, Erase, ClearPage, InterruptWriter,
   InterruptReader, UnlinkWrite, UnlinkRead, UnlinkPage, Unlink, vars

\* The steps of the notebook keep the invariant.
LEMMA NoteSteps ==
  ASSUME NotebookIsBound, NoteInv, [Next]_vars
  PROVE  NoteInv'
<1>0. NoteLinks /\ NoteSems /\ TurnsFit /\ NoteValues /\ interrupted \in Disturbances \cup {{}}
  BY DEF NoteInv
<1>1. created \in [Names -> Nat]
  BY <1>0 DEF NoteLinks, NoteTyped
<1>2. NoteValues'
  BY <1>0, NoteKeepsValues
<1>3. interrupted' = interrupted
  BY WhoIsInterrupted
<1> SUFFICES NoteLinks' /\ NoteSems' /\ TurnsFit'
  BY <1>0, <1>2, <1>3 DEF NoteInv
<1>4. ASSUME NEW p \in Procs, Wait(p)
      PROVE  NoteLinks' /\ NoteSems' /\ TurnsFit'
  <2>1. NoteLinks'
    <3>1. pc[p] = "wait" /\ pc' = [pc EXCEPT ![p] = "turn"]
          /\ UNCHANGED <<interrupted, link, created, handle, started>>
      BY <1>4 DEF Wait, From
    <3> QED
      BY <3>1, <1>0, NoteLoop DEF InLoop, Places
  <2> QED
    BY <2>1, <1>0, <1>4, TurnsAreAwaited
<1>5. ASSUME NEW p \in Procs, Post(p)
      PROVE  NoteLinks' /\ NoteSems' /\ TurnsFit'
  <2>1. NoteLinks'
    <3>1. pc[p] = "post" /\ pc' = [pc EXCEPT ![p] = "wait"]
          /\ UNCHANGED <<interrupted, link, created, handle, started>>
      BY <1>5 DEF Post, From
    <3> QED
      BY <3>1, <1>0, NoteLoop DEF InLoop, Places
  <2>2. p = "writer" \/ p = "reader"
    BY DEF Procs
  <2> QED
    BY <2>1, <2>2, <1>0, <1>5, WriterPosts, ReaderPosts
<1>6. CASE AtWork
  BY <1>0, <1>6, NoteWorks
<1>7. ASSUME NoteLinks', sem' = sem,
             created' = created \/ \E p \in Procs, n \in Names : Open(p, n, NextName(p, n))
      PROVE  NoteSems'
  <2>1. created' \in [Names -> Nat]
    BY <1>7 DEF NoteLinks, NoteTyped
  <2>2. CASE created' = created
    BY <2>1, <2>2, <1>0, <1>1, <1>7, SameSemaphores
  <2>3. ASSUME NEW p \in Procs, NEW n \in Names, Open(p, n, NextName(p, n))
        PROVE  NoteSems'
    <3>1. created'[n] >= created[n] /\ \A m \in Names \ {n} : created'[m] = created[m]
      BY <2>3, <1>0, NoteOpens
    <3>2. \A m \in Names : created'[m] >= created[m]
      BY <3>1, <2>1, <1>1
    <3> QED
      BY <3>2, <2>1, <1>0, <1>1, <1>7, SameSemaphores
  <2> QED
    BY <2>2, <2>3, <1>7
<1>8. ASSUME NEW p \in Procs, Start(p)
      PROVE  NoteLinks' /\ NoteSems' /\ TurnsFit'
  <2>1. NoteLinks' /\ TurnsFit'
    BY <1>0, <1>8, NoteStarts, MainMovesNoTurn DEF AtStart
  <2>2. sem' = sem /\ created' = created
    BY <1>8 DEF Start, objectVars
  <2> QED
    BY <2>1, <2>2, <1>7
<1>9. ASSUME NEW p \in Procs, NEW n \in Names, Open(p, n, NextName(p, n))
      PROVE  NoteLinks' /\ NoteSems' /\ TurnsFit'
  <2>1. NoteLinks'
    BY <1>0, <1>9, NoteOpens
  <2>2. sem' = sem
    BY <1>9 DEF Open, objectVars
  <2>3. CASE p = "reader" /\ n # "page"
    <3>1. n \in {"sem_write", "sem_read"} /\ Open("reader", n, NextName("reader", n))
      BY <2>3, <1>9 DEF Names
    <3> QED
      BY <3>1, <2>1, <2>2, <1>0, <1>7, <1>9, TurnsAreFound
  <2>4. CASE p = "writer" \/ n = "page"
    <3>1. AtStart
      BY <2>4, <1>9 DEF AtStart, Names
    <3> QED
      BY <3>1, <2>1, <2>2, <1>0, <1>7, <1>9, MainMovesNoTurn
  <2> QED
    BY <2>3, <2>4 DEF Procs
<1>10. CASE ClearPage
  <2>1. NoteLinks' /\ TurnsFit'
    BY <1>0, <1>10, NoteClears, MainMovesNoTurn DEF AtStart
  <2>2. sem' = sem /\ created' = created
    BY <1>10 DEF ClearPage
  <2> QED
    BY <2>1, <2>2, <1>7
<1>11. CASE InterruptWriter \/ UnlinkPage
  <2>1. NoteLinks' /\ TurnsFit'
    BY <1>0, <1>11, NoteUnlinks, MainMovesNoTurn DEF AtStart, UnlinkPage, Clean
  <2>2. sem' = sem /\ created' = created
    BY <1>11 DEF InterruptWriter, UnlinkPage, Unlink, objectVars
  <2> QED
    BY <2>1, <2>2, <1>7
<1>12. CASE UnlinkWrite \/ UnlinkRead
  <2>1. NoteLinks'
    BY <1>0, <1>12, NoteUnlinks DEF UnlinkWrite, UnlinkRead, Clean
  <2>2. TurnsFit'
    BY <1>0, <1>12, WriteIsUnlinked, ReadIsUnlinked
  <2>3. sem' = sem /\ created' = created
    BY <1>12 DEF UnlinkWrite, UnlinkRead, Unlink, objectVars
  <2> QED
    BY <2>1, <2>2, <2>3, <1>7
<1>13. CASE InterruptReader
  <2>1. NoteLinks' /\ TurnsFit'
    BY <1>0, <1>13, NoteStops, ReaderLeaves
  <2>2. sem' = sem /\ created' = created
    BY <1>13 DEF InterruptReader, objectVars
  <2> QED
    BY <2>1, <2>2, <1>7
<1>14. CASE UNCHANGED vars
  <2> USE <1>14 DEF vars
  <2>1. NoteLinks'
    BY <1>0 DEF NoteLinks, NoteTyped, NamesStand, HandlesStand, WriterStays, OneIsLeftAlone, Due,
                Unlinking
  <2>2. NoteSems'
    BY <1>0 DEF NoteSems
  <2>3. TurnsFit'
    BY <1>0 DEF TurnsFit, ReaderFits, BothFit, Halfway, Ahead, WriteTurns, ReadTurns, HisWrites,
                HisReads, NowWrite, NowRead, HisWrite, HisRead, Current, AtPage
  <2> QED
    BY <2>1, <2>2, <2>3
<1> QED
  BY <1>4, <1>5, <1>6, <1>8, <1>9, <1>10, <1>11, <1>12, <1>13, <1>14, NoteActions DEF AtWork

\* Writer and reader are not at the same page.
LEMMA TurnsKeepApart ==
  ASSUME NotebookIsBound, NoteInv
  PROVE  TurnsAreTaken
<1> SUFFICES ASSUME AtThePage("writer"), AtThePage("reader"),
                    Page("writer") = Page("reader")
             PROVE  FALSE
  BY DEF TurnsAreTaken
<1>0. NoteLinks /\ NoteSems /\ TurnsFit
  BY DEF NoteInv
<1>1. AtPage("writer") = 1 /\ AtPage("reader") = 1 /\ ~Halfway /\ ~Unlinking
  BY DEF AtPage, AtThePage, Halfway, Unlinking
<1>2. \A p \in Procs, n \in Names : Has(pc[p], n)
  BY DEF AtThePage, Has, InLoop, Procs
<1>3. /\ \A n \in Names : /\ handle["reader"][n] # 0 /\ link[n] # 0
                          /\ handle["writer"][n] = link[n]
      /\ handle["reader"]["page"] = link["page"]
  BY <1>0, <1>2 DEF NoteLinks, HandlesStand, Page, Names, Procs
<1>4. \A n \in Names : handle["reader"][n] = link[n]
  BY <1>0, <1>1, <1>3 DEF NoteLinks, HandlesStand, Names
<1>5. HisWrite = NowWrite /\ HisRead = NowRead
  BY <1>3, <1>4 DEF HisWrite, HisRead, NowWrite, NowRead, Current, Names
<1>6. Ahead + AtPage("reader") <= 1
  BY <1>0, <1>1, <1>5 DEF TurnsFit, BothFit
<1>7. WriteTurns \in Nat /\ ReadTurns \in Nat
  BY <1>0, TurnNumbers
<1> QED
  BY <1>1, <1>6, <1>7 DEF Ahead

\* What writer and reader rely on follows.
LEMMA NoteHolds ==
  ASSUME NotebookIsBound, NoteInv
  PROVE  PageInv
<1>0. NoteLinks /\ NoteSems /\ NoteValues /\ interrupted \in Disturbances \cup {{}}
  BY DEF NoteInv
<1>1. Names = Names /\ Procs = Procs
  BY DEF Names, Procs, Names, Procs
<1>2. /\ link \in [Names -> Nat] /\ created \in [Names -> Nat]
      /\ handle \in [Procs -> [Names -> Nat]] /\ started \in [Procs -> 0 .. Starts]
  BY <1>0 DEF NoteLinks, NoteTyped
<1>3. link \in [Names -> {0} \cup Objects]
  <2>1. \A n \in Names : link[n] = 0 \/ link[n] \in Objects
    BY <1>0, ThereIsRoom
  <2> QED
    BY <2>1, <1>2
<1>4. created \in [Names -> 0 .. 2 * Starts]
  <2>1. \A n \in Names : created[n] \in Nat /\ created[n] <= 2 * Starts
    BY <1>0, ThereIsRoom
  <2>2. \A n \in Names : created[n] \in 0 .. 2 * Starts
    BY <2>1 DEF NotebookIsBound
  <2> QED
    BY <2>2, <1>2
<1>5. handle \in [Procs -> [Names -> {0} \cup Objects]]
  <2>1. \A p \in Procs, n \in Names : handle[p][n] = 0 \/ handle[p][n] \in Objects
    BY <1>0, ThereIsRoom
  <2>2. \A p \in Procs : handle[p] \in [Names -> {0} \cup Objects]
    BY <2>1, <1>2
  <2> QED
    BY <2>2, <1>2
<1>6. \A p \in Procs : InLoop(pc[p]) => \A n \in Names : handle[p][n] # 0
  <2>1. \A p \in Procs, n \in Names : InLoop(pc[p]) => Has(pc[p], n)
    BY DEF Has
  <2> QED
    BY <2>1, <1>0 DEF NoteLinks, HandlesStand, Procs
<1>7. TypeOK
  BY <1>0, <1>1, <1>2, <1>3, <1>4, <1>5, <1>6 DEF TypeOK, NoteSems, NoteValues, InLoop
<1> QED
  BY <1>7, TurnsKeepApart DEF PageInv

\* Nobody is interrupted: there is one object of each name, and one turn.
LEMMA OneTurn ==
  ASSUME NotebookIsBound, NoteInv, interrupted = {}
  PROVE  /\ 1 \in Objects
         /\ sem["sem_write"][1] \in Nat /\ sem["sem_read"][1] \in Nat
         /\ sem["sem_write"][1] + sem["sem_read"][1] + AtPage("writer") + AtPage("reader") <= 1
         /\ \A p \in Procs, n \in Names : Has(pc[p], n) => handle[p][n] = 1
         /\ \A n \in Names : Current(n) = 1
         /\ pc["writer"] \in {"off", "page", "clear", "sem_write", "sem_read", "wait", "turn", "write", "post"}
<1> USE DEF Procs, Names
<1>0. NoteLinks /\ NoteSems /\ TurnsFit
  BY DEF NoteInv
<1>1. 1 \in Objects
  BY DEF NotebookIsBound, Objects
<1>2. /\ \A n \in Names : created[n] <= 1 /\ link[n] = created[n] /\ created[n] \in Nat
      /\ pc["writer"] \in {"off", "page", "clear", "sem_write", "sem_read", "wait", "turn", "write", "post"}
  BY <1>0 DEF NoteLinks, NoteTyped, WriterStays
<1>3. ~Halfway
  BY <1>2 DEF Halfway
<1>4. \A n \in Names : Current(n) = 1
  <2> TAKE n \in Names
  <2>1. link[n] = 0 \/ link[n] = 1
    BY <1>2
  <2>2. link[n] = created[n]
    BY <1>2
  <2> QED
    BY <2>1, <2>2 DEF Current
<1>5. ASSUME NEW p \in Procs, NEW n \in Names, Has(pc[p], n)
      PROVE  handle[p][n] = 1
  <2>1. handle[p][n] # 0
    BY <1>0, <1>5 DEF NoteLinks, HandlesStand
  <2>2. handle[p][n] \in Nat /\ handle[p][n] <= created[n]
    BY <1>0 DEF NoteLinks, NoteTyped, NamesStand
  <2> QED
    BY <2>1, <2>2, <1>2
<1>6. NowWrite = 1 /\ NowRead = 1
  BY <1>4 DEF NowWrite, NowRead
<1>7. WriteTurns = sem["sem_write"][1] /\ ReadTurns = sem["sem_read"][1]
  BY <1>1, <1>6 DEF WriteTurns, ReadTurns, Turns
<1>8. /\ WriteTurns \in Nat /\ ReadTurns \in Nat /\ AtPage("writer") \in Nat
      /\ AtPage("reader") \in Nat /\ AtPage("reader") <= 1
      /\ AtPage("reader") = 1 => HisRead # 0
  BY <1>0, TurnNumbers
<1>9. BothFit
  BY <1>0, <1>3 DEF TurnsFit
<1>10. Ahead + AtPage("reader") <= 1
  <2>1. CASE HisRead = 0
    <3>1. Ahead <= 1
      BY <2>1, <1>9 DEF BothFit
    <3>2. AtPage("reader") = 0
      BY <2>1, <1>8
    <3>3. Ahead \in Nat
      BY <1>8 DEF Ahead
    <3> QED
      BY <3>1, <3>2, <3>3
  <2>2. CASE HisRead # 0
    <3>1. Has(pc["reader"], "sem_read")
      BY <2>2, <1>0 DEF NoteLinks, HandlesStand, HisRead
    <3>2. Has(pc["reader"], "sem_write")
      BY <3>1 DEF Has
    <3>3. HisRead = 1 /\ HisWrite = 1
      BY <3>1, <3>2, <1>5 DEF HisRead, HisWrite
    <3> QED
      BY <3>3, <1>6, <1>9 DEF BothFit
  <2> QED
    BY <2>1, <2>2
<1>11. sem["sem_write"][1] + sem["sem_read"][1] + AtPage("writer") + AtPage("reader") <= 1
  BY <1>7, <1>8, <1>10 DEF Ahead
<1> QED
  BY <1>1, <1>2, <1>4, <1>5, <1>7, <1>8, <1>11

\* One turn is at one place only.
LEMMA OneOfFour ==
  \A a, b, c, d \in Nat :
    a + b + c + d <= 1 => /\ a = 1 => b = 0 /\ c = 0 /\ d = 0
                          /\ b = 1 => a = 0 /\ c = 0 /\ d = 0
                          /\ c = 1 => a = 0 /\ b = 0 /\ d = 0
                          /\ d = 1 => a = 0 /\ b = 0 /\ c = 0
                          /\ a > 0 => a = 1
                          /\ b > 0 => b = 1
OBVIOUS

\* Nobody is interrupted: writer and reader are at their own places of the loop one
\* after the other.
LEMMA OneAtATime ==
  ASSUME NotebookIsBound, NoteInv, interrupted = {}
  PROVE  /\ ToWrite => ~ToRead /\ AtPage("writer") = 0 /\ AtPage("reader") = 0
         /\ ToRead => ~ToWrite /\ AtPage("writer") = 0 /\ AtPage("reader") = 0
         /\ AtPage("writer") = 1 => ~ToWrite /\ ~ToRead /\ AtPage("reader") = 0
         /\ AtPage("reader") = 1 => ~ToWrite /\ ~ToRead /\ AtPage("writer") = 0
         /\ sem["sem_write"][1] > 0 => ToWrite
         /\ sem["sem_read"][1] > 0 => ToRead
<1>1. AtPage("writer") \in Nat /\ AtPage("reader") \in Nat
  BY DEF AtPage
<1>2. /\ sem["sem_write"][1] \in Nat /\ sem["sem_read"][1] \in Nat
      /\ sem["sem_write"][1] + sem["sem_read"][1] + AtPage("writer") + AtPage("reader") <= 1
  BY OneTurn
<1>3. PICK a \in Nat, b \in Nat, c \in Nat, d \in Nat :
         /\ a = sem["sem_write"][1] /\ b = sem["sem_read"][1]
         /\ c = AtPage("writer") /\ d = AtPage("reader") /\ a + b + c + d <= 1
  BY <1>1, <1>2
<1>4. /\ ToWrite <=> a = 1
      /\ ToRead <=> b = 1
  BY <1>3 DEF ToWrite, ToRead
<1>5. a + b + c + d <= 1
  BY <1>3
<1>6. /\ a = 1 => b = 0 /\ c = 0 /\ d = 0
      /\ b = 1 => a = 0 /\ c = 0 /\ d = 0
      /\ c = 1 => a = 0 /\ b = 0 /\ d = 0
      /\ d = 1 => a = 0 /\ b = 0 /\ c = 0
      /\ (a > 0 => a = 1) /\ (b > 0 => b = 1)
  BY <1>5, OneOfFour
<1>7. /\ ToWrite => ~ToRead /\ c = 0 /\ d = 0
      /\ ToRead => ~ToWrite /\ c = 0 /\ d = 0
      /\ c = 1 => ~ToWrite /\ ~ToRead /\ d = 0
      /\ d = 1 => ~ToWrite /\ ~ToRead /\ c = 0
      /\ (a > 0 => ToWrite) /\ (b > 0 => ToRead)
  BY <1>4, <1>6
<1> QED
  BY <1>3, <1>7

\* The days of the steps of a loop.
LEMMA DaysOfTheLoop ==
  ASSUME NotebookIsBound, NoteInv, interrupted = {}, DaysFollow, NEW p \in Procs,
         Wait(p) \/ Post(p)
  PROVE  DaysFollow'
<1> USE DEF Procs, Names
<1>0. pc \in [Procs -> Places] /\ sem \in [Names -> [Objects -> 0 .. 2]]
  BY DEF NoteInv, NoteLinks, NoteTyped, NoteSems
<1>1. UNCHANGED <<interrupted, id, message, day>>
  BY DEF Wait, Post
<1>2. LastDay' = LastDay /\ NextDay' = NextDay
  BY <1>1 DEF LastDay, NextDay, Tomorrow
<1>3. \A n \in Names : Has(pc[p], n)
  BY DEF Has, InLoop, Wait, Post, From
<1>4. \A n \in Names : handle[p][n] = 1
  BY <1>3, OneTurn
<1>5. 1 \in Objects
  BY OneTurn
<1>6. CASE Wait("writer") /\ p = "writer"
  <2>1. pc["writer"] = "wait" /\ pc'["writer"] = "turn" /\ pc'["reader"] = pc["reader"]
    BY <1>0, <1>6 DEF Wait, From
  <2>2. sem["sem_write"][1] > 0 /\ sem' = [sem EXCEPT !["sem_write"][1] = sem["sem_write"][1] - 1]
    BY <1>4, <1>6 DEF Wait, Turn
  <2>3. ToWrite /\ ~ToRead /\ AtPage("reader") = 0
    BY <2>2, OneAtATime
  <2>4. sem'["sem_write"][1] = 0 /\ sem'["sem_read"] = sem["sem_read"]
    BY <2>2, <2>3, <1>0, <1>5 DEF ToWrite
  <2>5. ~ToWrite' /\ ~ToRead'
    BY <2>3, <2>4 DEF ToWrite, ToRead
  <2>6. pc["reader"] # "turn" /\ pc["reader"] # "erase" /\ pc["reader"] # "post"
    BY <2>3 DEF AtPage
  <2>7. id[1] = LastDay
    BY <2>3 DEF DaysFollow
  <2> QED
    BY <2>1, <2>5, <2>6, <2>7, <1>1, <1>2 DEF DaysFollow, Begins
<1>7. CASE Wait("reader") /\ p = "reader"
  <2>1. pc["reader"] = "wait" /\ pc'["reader"] = "turn" /\ pc'["writer"] = pc["writer"]
    BY <1>0, <1>7 DEF Wait, From
  <2>2. sem["sem_read"][1] > 0 /\ sem' = [sem EXCEPT !["sem_read"][1] = sem["sem_read"][1] - 1]
    BY <1>4, <1>7 DEF Wait, Turn
  <2>3. ToRead /\ ~ToWrite /\ AtPage("writer") = 0
    BY <2>2, OneAtATime
  <2>4. sem'["sem_write"] = sem["sem_write"]
    BY <2>2, <1>0
  <2>5. ~ToWrite'
    BY <2>3, <2>4 DEF ToWrite
  <2>6. pc["writer"] # "turn" /\ pc["writer"] # "write" /\ pc["writer"] # "post"
    BY <2>3 DEF AtPage
  <2>7. id[1] = NextDay /\ message[1] = NextDay /\ ~Begins
    BY <2>3 DEF DaysFollow
  <2> QED
    BY <2>1, <2>5, <2>6, <2>7, <1>1, <1>2 DEF DaysFollow, Begins
<1>8. CASE Post("writer") /\ p = "writer"
  <2>1. pc["writer"] = "post" /\ pc'["writer"] = "wait" /\ pc'["reader"] = pc["reader"]
    BY <1>0, <1>8 DEF Post, From
  <2>2. sem' = [sem EXCEPT !["sem_read"][1] = sem["sem_read"][1] + 1]
    BY <1>4, <1>8 DEF Post, Other
  <2>3. ~ToWrite /\ AtPage("reader") = 0
    BY <2>1, OneAtATime DEF AtPage
  <2>4. sem'["sem_write"] = sem["sem_write"]
    BY <2>2, <1>0
  <2>5. ~ToWrite'
    BY <2>3, <2>4 DEF ToWrite
  <2>6. pc["reader"] # "turn" /\ pc["reader"] # "erase" /\ pc["reader"] # "post"
    BY <2>3 DEF AtPage
  <2>7. id[1] = NextDay /\ message[1] = NextDay
    BY <2>1 DEF DaysFollow
  <2> QED
    BY <2>1, <2>5, <2>6, <2>7, <1>1, <1>2 DEF DaysFollow, Begins
<1>9. CASE Post("reader") /\ p = "reader"
  <2>1. pc["reader"] = "post" /\ pc'["reader"] = "wait" /\ pc'["writer"] = pc["writer"]
    BY <1>0, <1>9 DEF Post, From
  <2>2. sem' = [sem EXCEPT !["sem_write"][1] = sem["sem_write"][1] + 1]
    BY <1>4, <1>9 DEF Post, Other
  <2>3. ~ToWrite /\ ~ToRead /\ AtPage("writer") = 0
    BY <2>1, OneAtATime DEF AtPage
  <2>4. sem'["sem_read"] = sem["sem_read"]
    BY <2>2, <1>0
  <2>5. ~ToRead'
    BY <2>3, <2>4 DEF ToRead
  <2>6. pc["writer"] # "turn" /\ pc["writer"] # "write" /\ pc["writer"] # "post"
    BY <2>3 DEF AtPage
  <2>7. id[1] = LastDay
    BY <2>1 DEF DaysFollow
  <2>8. ~Begins
    BY <2>3 DEF DaysFollow
  <2> QED
    BY <2>1, <2>5, <2>6, <2>7, <2>8, <1>1, <1>2 DEF DaysFollow, Begins
<1> QED
  BY <1>6, <1>7, <1>8, <1>9

\* The days of the steps at the page.
LEMMA DaysOfTheWork ==
  ASSUME NotebookIsBound, NoteInv, interrupted = {}, DaysFollow, AtWork
  PROVE  DaysFollow'
<1> USE DEF Procs, Names
<1>0. /\ pc \in [Procs -> Places] /\ id \in [Objects -> 0 .. MaxDay - 1]
      /\ message \in [Objects -> {Blank} \cup 0 .. MaxDay - 1]
  BY DEF NoteInv, NoteLinks, NoteTyped, NoteValues
<1>1. UNCHANGED <<interrupted, sem>>
  BY DEF AtWork, CountDay, Write, Read, Erase
<1>2. (ToWrite' <=> ToWrite) /\ (ToRead' <=> ToRead)
  BY <1>1 DEF ToWrite, ToRead
<1>3. \A p \in Procs : InLoop(pc[p]) => Page(p) = 1
  <2>1. \A p \in Procs : InLoop(pc[p]) => Has(pc[p], "page")
    BY DEF Has
  <2> QED
    BY <2>1, OneTurn DEF Page
<1>4. 1 \in Objects
  BY OneTurn
<1>5. CASE CountDay
  <2>1. pc["writer"] = "turn" /\ pc'["writer"] = "write" /\ pc'["reader"] = pc["reader"]
    BY <1>0, <1>5 DEF CountDay, From
  <2>2. id' = [id EXCEPT ![1] = Tomorrow(id[1])] /\ day' = day
    BY <2>1, <1>3, <1>5 DEF CountDay, InLoop
  <2>3. LastDay' = LastDay /\ NextDay' = NextDay
    BY <2>2 DEF LastDay, NextDay, Tomorrow
  <2>4. id'[1] = NextDay
    <3>1. id[1] = LastDay
      BY <2>1 DEF DaysFollow
    <3> QED
      BY <3>1, <2>2, <1>0, <1>4 DEF NextDay
  <2>5. ~ToWrite /\ ~ToRead /\ AtPage("reader") = 0
    BY <2>1, OneAtATime DEF AtPage
  <2>6. pc["reader"] # "turn" /\ pc["reader"] # "erase" /\ pc["reader"] # "post"
    BY <2>5 DEF AtPage
  <2> QED
    BY <2>1, <2>3, <2>4, <2>5, <2>6, <1>2 DEF DaysFollow, Begins
<1>6. CASE Write
  <2>1. pc["writer"] = "write" /\ pc'["writer"] = "post" /\ pc'["reader"] = pc["reader"]
    BY <1>0, <1>6 DEF Write, From
  <2>2. message' = [message EXCEPT ![1] = id[1]] /\ id' = id /\ day' = day
    BY <2>1, <1>3, <1>6 DEF Write, InLoop
  <2>3. LastDay' = LastDay /\ NextDay' = NextDay
    BY <2>2 DEF LastDay, NextDay, Tomorrow
  <2>4. id'[1] = NextDay /\ message'[1] = NextDay
    <3>1. id[1] = NextDay
      BY <2>1 DEF DaysFollow
    <3> QED
      BY <3>1, <2>2, <1>0, <1>4
  <2>5. ~ToWrite /\ ~ToRead /\ AtPage("reader") = 0
    BY <2>1, OneAtATime DEF AtPage
  <2>6. pc["reader"] # "turn" /\ pc["reader"] # "erase" /\ pc["reader"] # "post"
    BY <2>5 DEF AtPage
  <2> QED
    BY <2>1, <2>3, <2>4, <2>5, <2>6, <1>2 DEF DaysFollow, Begins
<1>7. CASE Read
  <2>1. pc["reader"] = "turn" /\ pc'["reader"] = "erase" /\ pc'["writer"] = pc["writer"]
    BY <1>0, <1>7 DEF Read, From
  <2>2. day' = message[1] /\ id' = id /\ message' = message
    BY <2>1, <1>3, <1>7 DEF Read, InLoop
  <2>3. id[1] = NextDay /\ message[1] = NextDay
    BY <2>1 DEF DaysFollow
  <2>4. id'[1] = LastDay'
    <3>1. id[1] # Blank
      <4>1. id[1] \in 0 .. MaxDay - 1
        BY <1>0, <1>4
      <4> QED
        BY <4>1 DEF NotebookIsBound
    <3> QED
      BY <3>1, <2>2, <2>3 DEF LastDay
  <2>5. ~ToWrite /\ ~ToRead /\ AtPage("writer") = 0
    BY <2>1, OneAtATime DEF AtPage
  <2>6. pc["writer"] # "turn" /\ pc["writer"] # "write" /\ pc["writer"] # "post" /\ ~Begins
    BY <2>5 DEF AtPage, DaysFollow
  <2> QED
    BY <2>1, <2>4, <2>5, <2>6, <1>2 DEF DaysFollow, Begins
<1>8. CASE Erase
  <2>1. pc["reader"] = "erase" /\ pc'["reader"] = "post" /\ pc'["writer"] = pc["writer"]
    BY <1>0, <1>8 DEF Erase, From
  <2>2. day' = day /\ id' = id
    BY <1>8 DEF Erase
  <2>3. id'[1] = LastDay'
    <3>1. id[1] = LastDay
      BY <2>1 DEF DaysFollow
    <3> QED
      BY <3>1, <2>2 DEF LastDay
  <2>5. ~ToWrite /\ ~ToRead /\ AtPage("writer") = 0
    BY <2>1, OneAtATime DEF AtPage
  <2>6. pc["writer"] # "turn" /\ pc["writer"] # "write" /\ pc["writer"] # "post" /\ ~Begins
    BY <2>5 DEF AtPage, DaysFollow
  <2> QED
    BY <2>1, <2>3, <2>5, <2>6, <1>2 DEF DaysFollow, Begins
<1> QED
  BY <1>5, <1>6, <1>7, <1>8 DEF AtWork

\* The days of the steps of main.
LEMMA DaysOfMain ==
  ASSUME NotebookIsBound, NoteInv, interrupted = {}, DaysFollow, NEW p \in Procs,
         Start(p) \/ (\E n \in Names : Open(p, n, NextName(p, n)))
         \/ ClearPage
  PROVE  DaysFollow'
<1> USE DEF Procs, Names
<1>0. /\ pc \in [Procs -> Places] /\ id \in [Objects -> 0 .. MaxDay - 1]
  BY DEF NoteInv, NoteLinks, NoteTyped, NoteValues
<1>1. UNCHANGED <<interrupted, sem, day>>
  BY DEF Start, Open, ClearPage, objectVars
<1>2. /\ ToWrite' <=> ToWrite
      /\ ToRead' <=> ToRead
      /\ LastDay' = LastDay /\ NextDay' = NextDay
  BY <1>1 DEF ToWrite, ToRead, LastDay, NextDay, Tomorrow
<1>3. /\ pc'["reader"] \in {"turn", "erase", "post"} => pc'["reader"] = pc["reader"]
      /\ pc'["writer"] \in {"turn", "write", "post"} => pc'["writer"] = pc["writer"]
      /\ Begins' => Begins
  BY <1>0 DEF Start, Open, ClearPage, From, NextName, Begins
<1>4. CASE UNCHANGED <<id, message>>
  BY <1>1, <1>2, <1>3, <1>4 DEF DaysFollow
<1>5. CASE ClearPage
  <2>1. pc["writer"] = "clear" /\ Begins
    BY <1>5 DEF ClearPage, From, Begins
  <2>2. ToWrite /\ day = Blank /\ id[1] = 0
    BY <2>1 DEF DaysFollow
  <2>3. ~ToRead /\ AtPage("reader") = 0 /\ AtPage("writer") = 0
    BY <2>2, OneAtATime
  <2>4. pc["reader"] # "turn" /\ pc["writer"] # "write" /\ pc["writer"] # "post"
    BY <2>3 DEF AtPage
  <2>5. id'[1] = 0
    <3>1. PICK k : id' = [id EXCEPT ![k] = 0]
      BY <1>5 DEF ClearPage
    <3>2. 1 \in Objects
      BY OneTurn
    <3> QED
      BY <3>1, <3>2, <2>2, <1>0
  <2>6. LastDay = 0
    BY <2>2 DEF LastDay
  <2> QED
    BY <2>2, <2>3, <2>4, <2>5, <2>6, <1>1, <1>2, <1>3 DEF DaysFollow
<1>6. Start(p) \/ (\E n \in Names : Open(p, n, NextName(p, n)))
      => UNCHANGED <<id, message>>
  BY DEF Start, Open, objectVars
<1> QED
  BY <1>4, <1>5, <1>6

\* The days follow each other, whatever the step.
LEMMA DaysSteps ==
  ASSUME NotebookIsBound, NoteInv, DaysFollow, [Next]_vars
  PROVE  DaysFollow'
<1>1. interrupted' = interrupted
  BY WhoIsInterrupted
<1> SUFFICES ASSUME interrupted = {}
             PROVE  DaysFollow'
  BY <1>1 DEF DaysFollow
<1>2. ~InterruptWriter /\ ~InterruptReader
  BY DEF InterruptWriter, InterruptReader
<1>3. ~UnlinkWrite /\ ~UnlinkRead /\ ~UnlinkPage
  BY OneTurn DEF UnlinkWrite, UnlinkRead, UnlinkPage, Unlink, From
<1>4. UNCHANGED vars => DaysFollow'
  BY DEF vars, DaysFollow, Begins, ToWrite, ToRead, LastDay, NextDay, Tomorrow
<1>5. "writer" \in Procs
  BY DEF Procs
<1> QED
  BY <1>2, <1>3, <1>4, <1>5, NoteActions, DaysOfTheLoop, DaysOfTheWork, DaysOfMain DEF AtWork

\* What is read is the day after what was read before.
LEMMA DaysInOrder ==
  ASSUME NotebookIsBound, NoteInv, DaysFollow, Next, interrupted = {}, pc["reader"] = "turn",
         pc'["reader"] = "erase"
  PROVE  day' = IF day = Blank THEN 1 ELSE Tomorrow(day)
<1>1. pc \in [Procs -> Places]
  BY DEF NoteInv, NoteLinks, NoteTyped
<1>2. Read
  BY <1>1, NoteActions DEF Wait, Post, Start, Open,
     CountDay, Write, Erase, ClearPage,
     InterruptWriter, InterruptReader, UnlinkWrite, UnlinkRead, UnlinkPage,
     Unlink, vars, From, NextName, Procs
<1>3. Has("turn", "page")
  BY DEF Has, InLoop
<1>4. Page("reader") = 1
  BY <1>3, OneTurn DEF Page, Procs, Names
<1>5. day' = NextDay
  BY <1>2, <1>4 DEF Read, DaysFollow
<1>6. Tomorrow(0) = 1
  BY DEF NotebookIsBound, Tomorrow
<1> QED
  BY <1>5, <1>6 DEF NextDay, LastDay

\* Where the notebook begins.
LEMMA NoteBegins ==
  ASSUME NotebookIsBound, Init, OneIsLeftAlone
  PROVE  NoteInv /\ DaysFollow
<1> USE DEF Names, Procs, Names, Procs
<1>1. Starts \in Nat /\ Starts > 0 /\ MaxDay \in Nat /\ MaxDay > 1
  BY DEF NotebookIsBound
<1>2. 1 \in Objects
  BY <1>1 DEF Objects
<1>3. /\ sem = [n \in Names |-> [k \in Objects |-> first[n]]]
      /\ id = [k \in Objects |-> 0] /\ message = [k \in Objects |-> Blank]
      /\ day = Blank
  BY DEF Init, NamedInit, ForkInit, Objects0
<1>4. \A n \in Names : first[n] = FirstTurns(n)
  BY DEF first, FirstTurns
<1>5. \A n \in Names, k \in Objects : sem[n][k] = FirstTurns(n)
  BY <1>3, <1>4
<1>6. \A n \in Names : \A k : Turns(sem, n, k) = FirstTurns(n)
  BY <1>5 DEF Turns
<1>7. NoteSems
  <2>1. \A n \in Names : FirstTurns(n) \in 0 .. 2
    BY DEF FirstTurns
  <2>2. sem \in [Names -> [Objects -> 0 .. 2]]
    BY <2>1, <1>3, <1>4
  <2> QED
    BY <2>2, <1>5 DEF NoteSems
<1>8. NoteValues
  <2>1. 0 \in 0 .. MaxDay - 1
    BY <1>1
  <2> QED
    BY <2>1, <1>3 DEF NoteValues
<1>9. interrupted \in Disturbances \cup {{}}
  BY DEF Init, NamedInit, ForkInit
<1>10. /\ \A n \in Names : FirstTurns(n) = IF n = "sem_write" THEN 1 ELSE 0
       /\ AtPage("writer") = 0 /\ AtPage("reader") = 0
  BY DEF Init, NamedInit, ForkInit, AtPage, FirstTurns
<1>11. /\ WriteTurns = 1 /\ ReadTurns = 0 /\ HisWrites = 1 /\ HisReads = 0
  BY <1>6, <1>10 DEF WriteTurns, ReadTurns, HisWrites, HisReads
<1>12. TurnsFit
  <2>1. \A k \in Objects : sem["sem_write"][k] = 1
    BY <1>5, <1>10
  <2>2. ReaderFits
    BY <2>1, <1>10, <1>11 DEF ReaderFits
  <2>3. Ahead = 1
    BY <1>10, <1>11 DEF Ahead
  <2>4. HisWrite = NowWrite \/ HisRead # NowRead
    <3>1. CASE NamedInit
      <4>1. HisRead = 0 /\ NowRead = 1
        BY <3>1 DEF NamedInit, noHandle, HisRead, NowRead, Current
      <4> QED
        BY <4>1
    <3>2. CASE ForkInit
      BY <3>2 DEF ForkInit, HisWrite, NowWrite, Current
    <3> QED
      BY <3>1, <3>2 DEF Init
  <2>5. BothFit
    BY <2>3, <2>4, <1>10, <1>11 DEF BothFit
  <2> QED
    BY <2>2, <2>5 DEF TurnsFit
<1>13. NoteLinks
  <2>1. CASE NamedInit
    <3>1. /\ link = [n \in Names |-> 0] /\ created = [n \in Names |-> 0]
          /\ pc = [p \in Procs |-> "off"] /\ handle = [p \in Procs |-> [n \in Names |-> 0]]
          /\ started = [p \in Procs |-> 0]
      BY <2>1 DEF NamedInit, noHandle
    <3>2. NoteTyped
      <4>1. started \in [Procs -> 0 .. Starts] /\ pc \in [Procs -> Places]
        BY <3>1, <1>1 DEF Places
      <4> QED
        BY <4>1, <3>1 DEF NoteTyped
    <3>3. NamesStand
      <4>1. \A p \in Procs, n \in Names : Due(p, n) = 0
        BY <3>1 DEF Due, Opens
      <4>2. 0 + 0 + 0 <= 0 + 0
        OBVIOUS
      <4> QED
        BY <4>1, <4>2, <3>1 DEF NamesStand
    <3>4. HandlesStand
      BY <3>1 DEF HandlesStand, Has, InLoop
    <3>5. WriterStays
      BY <3>1 DEF WriterStays
    <3> QED
      BY <3>2, <3>3, <3>4, <3>5 DEF NoteLinks
  <2>2. CASE ForkInit
    <3>1. /\ link = [n \in Names |-> 1] /\ created = [n \in Names |-> 1]
          /\ pc = [p \in Procs |-> "wait"] /\ handle = [p \in Procs |-> [n \in Names |-> 1]]
          /\ started = [p \in Procs |-> Starts]
      BY <2>2 DEF ForkInit
    <3>2. NoteTyped
      <4>1. started \in [Procs -> 0 .. Starts] /\ pc \in [Procs -> Places]
        BY <3>1, <1>1 DEF Places
      <4> QED
        BY <4>1, <3>1 DEF NoteTyped
    <3>3. NamesStand
      <4>1. \A p \in Procs, n \in Names : Due(p, n) = 0
        BY <3>1 DEF Due, Opens
      <4>2. 1 + 0 + 0 <= Starts + Starts
        BY <1>1
      <4> QED
        BY <4>1, <4>2, <3>1 DEF NamesStand
    <3>4. HandlesStand
      BY <3>1 DEF HandlesStand, Has, InLoop
    <3>5. WriterStays
      BY <3>1 DEF WriterStays
    <3> QED
      BY <3>2, <3>3, <3>4, <3>5 DEF NoteLinks
  <2> QED
    BY <2>1, <2>2 DEF Init
<1>14. DaysFollow
  <2>1. ToWrite /\ ~ToRead /\ id[1] = 0 /\ LastDay = 0
    BY <1>2, <1>3, <1>5, <1>10 DEF ToWrite, ToRead, LastDay
  <2>2. pc["writer"] \notin {"turn", "write", "post"} /\ pc["reader"] \notin {"turn", "erase", "post"}
    BY <1>10 DEF AtPage
  <2> QED
    BY <2>1, <2>2, <1>3 DEF DaysFollow
<1> QED
  BY <1>7, <1>8, <1>9, <1>12, <1>13, <1>14 DEF NoteInv

-----------------------------------------------------------------------------
(* What the programs rely on.                                               *)

NotebookInv == /\ interrupted \in Disturbances \cup {{}}
               /\ OneIsLeftAlone => NoteInv /\ DaysFollow

\* It holds at the beginning.
LEMMA NotebookBegins ==
  ASSUME NotebookIsBound, Init
  PROVE  NotebookInv
<1>1. interrupted \in Disturbances \cup {{}}
  BY DEF Init, NamedInit, ForkInit
<1> QED
  BY <1>1, NoteBegins DEF NotebookInv

\* Every step keeps it.
LEMMA NotebookGoesOn ==
  ASSUME NotebookIsBound, NotebookInv, [Next]_vars
  PROVE  NotebookInv'
<1>1. interrupted' = interrupted
  BY WhoIsInterrupted
<1>2. OneIsLeftAlone' => OneIsLeftAlone
  BY <1>1 DEF OneIsLeftAlone
<1> QED
  BY <1>1, <1>2, NoteSteps, DaysSteps DEF NotebookInv

\* At most one of the two is interrupted.
LEMMA NotebookHolds ==
  ASSUME NotebookIsBound, NotebookInv, {"writer", "reader"} \notin Disturbances
  PROVE  PageInv
<1>1. OneIsLeftAlone
  <2>1. interrupted # {"writer", "reader"}
    BY DEF NotebookInv
  <2>2. interrupted \subseteq {"writer", "reader"}
    BY DEF NotebookInv, NotebookIsBound
  <2> QED
    BY <2>1, <2>2 DEF OneIsLeftAlone
<1> QED
  BY <1>1, NoteHolds DEF NotebookInv

\* What is read is the day after.
LEMMA NotebookReadsOn ==
  ASSUME NotebookIsBound, NotebookInv, Next, interrupted = {},
         pc["reader"] = "turn", pc'["reader"] = "erase"
  PROVE  day' = IF day = Blank THEN 1 ELSE Tomorrow(day)
<1>1. NoteInv /\ DaysFollow
  BY DEF NotebookInv, OneIsLeftAlone
<1> QED
  BY <1>1, DaysInOrder
===============================================================================

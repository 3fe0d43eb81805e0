---------------------------- MODULE ProcessesProofs ----------------------------
(****************************************************************************)
(* For any number of rounds, orders, lines, clients, sparks and starts: what*)
(* each of the small programs relies on holds at any moment.  Each program  *)
(* has an invariant of its own, which its own steps keep.                   *)
(****************************************************************************)
EXTENDS Processes, SequenceFacts

-----------------------------------------------------------------------------
(* The shared struct.                                                       *)

InZone(t) == pc[t] \in {"raise", "read", "heard quit", "write pid", "write command", "lower"}
Spoke(t)  == pc[t] \in {"write command", "lower"}
Partner(t) == IF t = "writer" THEN "reader" ELSE "writer"

TalkTypes ==
    /\ segment \in {"none", "there", "marked"}
    /\ useFlag \in BOOLEAN /\ flag \in [Talk!Talkers -> BOOLEAN]
    /\ pid \in Talk!Talkers \cup {Talk!Fresh} /\ command \in Talk!Inputs \cup {Talk!Fresh}
    /\ pc \in [Talk!Talkers -> {"start", "poll", "whose", "raise", "read", "heard quit", "write pid",
                                "write command", "lower", "said", "detach", "done"}]

\* Before the writer has said anything he is alone.
AloneAtFirst ==
    pid = Talk!Fresh => /\ pc["reader"] = "start" /\ command = Talk!Fresh
                        /\ segment # "marked"
                        /\ pc["writer"] \in {"start", "poll", "whose", "raise", "read", "write pid"}

\* Whose turn it is: from the second test on the flag is one's own, and the other
\* wrote last until one has written oneself.
TurnsAreKept ==
    \A t \in Talk!Talkers :
        /\ InZone(t) => ~InZone(Partner(t)) /\ (pid = t <=> Spoke(t))
        /\ pc[t] = "whose" => ~Spoke(Partner(t))
        /\ pc[t] = "whose" /\ pid # t => ~useFlag
        /\ pc[t] = "raise" => ~flag[t] /\ ~useFlag
        /\ Talk!AtTheStruct(t) => useFlag
        /\ pc[t] \in {"heard quit", "lower"} => flag[t]

TalkInv == TalkTypes /\ (races = {} => AloneAtFirst /\ TurnsAreKept)

\* The steps of the two talkers keep it.
LEMMA TalkSteps ==
  ASSUME TalkInv, [Talk!Next]_talkVars
  PROVE  TalkInv'
<1> USE DEF Talk!Talkers, Talk!Fresh, Talk!Inputs, Partner, TalkTypes
<1>1. CASE Talk!Over \/ Talk!Polling \/ UNCHANGED talkVars
  <2>1. UNCHANGED <<segment, useFlag, pid, command, pc, flag, races>>
    BY <1>1 DEF Talk!Over, Talk!Polling, Talk!vars, talkVars
  <2> QED
    BY <2>1 DEF TalkInv, AloneAtFirst, TurnsAreKept, InZone, Spoke, Talk!AtTheStruct
<1>2. ASSUME NEW t \in Talk!Talkers, Talk!Talk(t)
      PROVE  TalkInv'
  <2>1. TalkTypes'
    <3>1. TalkTypes
      BY DEF TalkInv
    <3>2. CASE Talk!Attach(t) \/ Talk!Detach(t)
      BY <3>1, <3>2 DEF Talk!Attach, Talk!Detach, Talk!From, Talk!struct
    <3>3. CASE Talk!AttachFails
      BY <3>1, <3>3 DEF Talk!AttachFails, Talk!From, Talk!struct
    <3>4. CASE Talk!ReadFlag(t) \/ Talk!GetPid(t)
      <4>1. CASE Talk!ReadFlag(t)
        BY <3>1, <4>1 DEF Talk!ReadFlag, Talk!From, Talk!struct
      <4>2. CASE Talk!GetPid(t)
        <5>1. UNCHANGED <<segment, useFlag, pid, command>>
          BY <4>2 DEF Talk!GetPid, Talk!struct
        <5>2. \E to \in {"poll", "raise"} : pc' = [pc EXCEPT ![t] = to]
          BY <4>2 DEF Talk!GetPid, Talk!From
        <5>3. flag' \in [Talk!Talkers -> BOOLEAN]
          BY <3>1, <4>2 DEF Talk!GetPid
        <5> QED BY <3>1, <5>1, <5>2, <5>3
      <4> QED BY <3>4, <4>1, <4>2
    <3>5. CASE Talk!RaiseFlag(t) \/ Talk!HeardQuit(t) \/ Talk!LowerFlag(t)
      BY <3>1, <3>5 DEF Talk!RaiseFlag, Talk!HeardQuit, Talk!LowerFlag, Talk!From
    <3>6. CASE Talk!ReadCommand(t) \/ Talk!Said(t)
      <4>1. CASE Talk!ReadCommand(t)
        BY <3>1, <4>1 DEF Talk!ReadCommand, Talk!From, Talk!struct
      <4>2. CASE Talk!Said(t)
        BY <3>1, <4>2 DEF Talk!Said, Talk!From, Talk!struct
      <4> QED BY <3>6, <4>1, <4>2
    <3>7. CASE Talk!WritePid(t) \/ Talk!WriteCommand(t)
      <4>1. CASE Talk!WritePid(t)
        BY <3>1, <4>1 DEF Talk!WritePid, Talk!From, Talk!struct
      <4>2. CASE Talk!WriteCommand(t)
        BY <3>1, <4>2 DEF Talk!WriteCommand, Talk!From, Talk!struct
      <4> QED BY <3>7, <4>1, <4>2
    <3> QED BY <1>2, <3>2, <3>3, <3>4, <3>5, <3>6, <3>7 DEF Talk!Talk
  <2>2. ASSUME races' = {}
        PROVE  races = {}
    BY <1>2, <2>2 DEF Talk!Talk, Talk!Attach, Talk!AttachFails, Talk!ReadFlag, Talk!GetPid, Talk!RaiseFlag,
                Talk!ReadCommand, Talk!HeardQuit, Talk!WritePid, Talk!WriteCommand, Talk!LowerFlag,
                Talk!Said, Talk!Detach
  <2>3. ASSUME races' = {}
        PROVE  AloneAtFirst' /\ TurnsAreKept'
    <3>1. TalkTypes /\ AloneAtFirst /\ TurnsAreKept
      BY <2>2, <2>3 DEF TalkInv
    <3> USE DEF Talk!From, Talk!struct, AloneAtFirst, TurnsAreKept, InZone, Spoke, Talk!AtTheStruct
    <3>2. CASE Talk!Attach(t)
      <4>1. pc[t] = "start" /\ pc' = [pc EXCEPT ![t] = "poll"] /\ UNCHANGED <<useFlag, pid, command, flag>>
        BY <3>2 DEF Talk!Attach
      <4>2. segment' # "marked" /\ (t = "reader" => pid # Talk!Fresh)
        BY <2>3, <3>1, <3>2 DEF Talk!Attach
      <4>3. AloneAtFirst'
        BY <3>1, <4>1, <4>2
      <4>4. TurnsAreKept'
        BY <3>1, <4>1
      <4> QED BY <4>3, <4>4
    <3>3. CASE t = "reader" /\ Talk!AttachFails
      BY <3>1, <3>3 DEF Talk!AttachFails
    <3>4. CASE Talk!ReadFlag(t)
      BY <3>1, <3>4 DEF Talk!ReadFlag
    <3>5. CASE Talk!GetPid(t)
      <4>1. CASE pid = t
        BY <3>1, <3>5, <4>1 DEF Talk!GetPid
      <4>2. CASE pid # t
        <5>1. ~InZone(Partner(t))
          BY <3>1, <3>5, <4>2 DEF Talk!GetPid
        <5>2. pc[t] = "whose" /\ pc' = [pc EXCEPT ![t] = "raise"] /\ ~useFlag /\ flag' = [flag EXCEPT ![t] = FALSE]
          BY <3>1, <3>5, <4>2 DEF Talk!GetPid
        <5>3. UNCHANGED <<segment, useFlag, pid, command>>
          BY <3>5 DEF Talk!GetPid
        <5>4. AloneAtFirst'
          BY <3>1, <5>2, <5>3
        <5> QED BY <3>1, <4>2, <5>1, <5>2, <5>3, <5>4
      <4> QED BY <4>1, <4>2
    <3>6. CASE Talk!RaiseFlag(t)
      BY <3>1, <3>6 DEF Talk!RaiseFlag
    <3>7. CASE Talk!ReadCommand(t)
      BY <3>1, <3>7 DEF Talk!ReadCommand
    <3>8. CASE Talk!HeardQuit(t)
      BY <3>1, <3>8 DEF Talk!HeardQuit
    <3>9. CASE Talk!WritePid(t)
      BY <2>3, <3>1, <3>9 DEF Talk!WritePid
    <3>10. CASE Talk!WriteCommand(t)
      BY <3>1, <3>10 DEF Talk!WriteCommand
    <3>11. CASE Talk!LowerFlag(t)
      BY <3>1, <3>11 DEF Talk!LowerFlag
    <3>12. CASE Talk!Said(t)
      BY <3>1, <3>12 DEF Talk!Said
    <3>13. CASE Talk!Detach(t)
      BY <3>1, <3>13 DEF Talk!Detach
    <3> QED BY <1>2, <3>2, <3>3, <3>4, <3>5, <3>6, <3>7, <3>8, <3>9, <3>10, <3>11, <3>12, <3>13 DEF Talk!Talk
  <2> QED BY <2>1, <2>3 DEF TalkInv
<1> QED BY <1>1, <1>2 DEF Talk!Next

\* What the two rely on follows.
LEMMA TalkHolds == TalkInv => Talk!OnlyTheTwoRaces
BY DEF TalkInv, TurnsAreKept, InZone, Spoke, Partner, Talk!OnlyTheTwoRaces, Talk!OneAtATime,
       Talk!AtTheStruct, Talk!Talkers

-----------------------------------------------------------------------------
(* The fifo of the maid, and the fireworks.                                 *)

\* A read that returns the word alone ends the server, and nothing else does.
LEMMA FifoSteps ==
  ASSUME Fifo!OnlyExitStops, Fifo!Next
  PROVE  Fifo!OnlyExitStops'
BY DEF Fifo!OnlyExitStops, Fifo!Next, Fifo!Maid, Fifo!MakeFifo, Fifo!ReadPipe, Fifo!OpenFifo, Fifo!Say,
       Fifo!Leave, Fifo!Waiting, Fifo!vars, Fifo!Exit

Threads == {"bgm", "logger", "engine"}

\* A record is begun and not complete exactly while the logger is between its two
\* lines, where it cannot be cancelled.
ShowInv == /\ show \in {"birthday", "safety"}
           /\ DOMAIN thread = Threads
           /\ half <=> thread["logger"] = "record"
           /\ half \in BOOLEAN
           /\ main = "start" => \A t \in Threads : thread[t] = "none"

\* The steps of main and of the threads keep it.
LEMMA ShowSteps ==
  ASSUME ShowInv, Fireworks!Next
  PROVE  ShowInv'
<1> USE DEF ShowInv, Threads
<1>1. CASE Fireworks!Main
  BY <1>1 DEF Fireworks!Main, Fireworks!Create, Fireworks!Launch, Fireworks!Cancel, Fireworks!Join,
              Fireworks!MainGoes, Fireworks!Cancelled
<1>2. CASE Fireworks!Logger
  <2>1. CASE Fireworks!WakeUp
    BY <2>1 DEF Fireworks!WakeUp, Fireworks!Goes
  <2>2. CASE Fireworks!BeginRecord
    BY <2>2 DEF Fireworks!BeginRecord, Fireworks!Goes
  <2>3. CASE Fireworks!EndRecord
    BY <2>3 DEF Fireworks!EndRecord, Fireworks!Goes
  <2>4. CASE Fireworks!ActOnCancel("logger")
    BY <2>4 DEF Fireworks!ActOnCancel, Fireworks!CancellationPoints
  <2> QED BY <1>2, <2>1, <2>2, <2>3, <2>4 DEF Fireworks!Logger
<1>3. CASE Fireworks!Engine
  BY <1>3 DEF Fireworks!Engine, Fireworks!Count, Fireworks!LookUp,
              Fireworks!ActOnCancel, Fireworks!CancellationPoints, Fireworks!Goes
<1>4. CASE Fireworks!Music
  BY <1>4 DEF Fireworks!Music, Fireworks!ActOnCancel, Fireworks!CancellationPoints
<1>5. CASE Fireworks!Over \/ \E s \in DOMAIN spark : Fireworks!fireToSpark(s)
  BY <1>5 DEF Fireworks!Over, Fireworks!fireToSpark, Fireworks!vars
<1> QED BY <1>1, <1>2, <1>3, <1>4, <1>5 DEF Fireworks!Next

\* No record is cut off.
LEMMA ShowHolds == ShowInv => Fireworks!NothingIsCutOff
BY DEF ShowInv, Fireworks!NothingIsCutOff

-----------------------------------------------------------------------------
(* The log with two writers.                                                *)

\* How often p stands in a sequence.
TimesIn(s, p) == Cardinality({k \in DOMAIN s : s[k] = p})

\* A line at the end counts for the one who wrote it.
LEMMA AppendCounts ==
  ASSUME NEW S, NEW s \in Seq(S), NEW e \in S, NEW p
  PROVE  /\ TimesIn(s, p) \in Nat
         /\ TimesIn(Append(s, e), p) = IF e = p THEN TimesIn(s, p) + 1 ELSE TimesIn(s, p)
         /\ TimesIn(<<>>, p) = 0
<1> DEFINE A == {k \in DOMAIN s : s[k] = p}
           B == {k \in DOMAIN Append(s, e) : Append(s, e)[k] = p}
<1>1. /\ Len(s) \in Nat /\ DOMAIN s = 1 .. Len(s) /\ DOMAIN Append(s, e) = 1 .. Len(s) + 1
      /\ \A k \in 1 .. Len(s) : Append(s, e)[k] = s[k]
      /\ Append(s, e)[Len(s) + 1] = e
  OBVIOUS
<1> HIDE DEF B
<1>2. IsFiniteSet(A) /\ Cardinality(A) \in Nat
  <2>1. IsFiniteSet(1 .. Len(s)) /\ A \subseteq 1 .. Len(s)
    BY <1>1, FS_Interval
  <2> QED BY <2>1, FS_Subset, FS_CardinalityType
<1> HIDE DEF A
<1>5. TimesIn(s, p) = Cardinality(A) /\ TimesIn(Append(s, e), p) = Cardinality(B)
  BY DEF A, B, TimesIn
<1>6. TimesIn(<<>>, p) = 0
  <2>1. {k \in DOMAIN <<>> : <<>>[k] = p} = {}
    OBVIOUS
  <2> QED BY <2>1, FS_EmptySet DEF TimesIn
<1>3. CASE e = p
  <2>1. B = A \cup {Len(s) + 1} /\ Len(s) + 1 \notin A
    BY <1>1, <1>3 DEF A, B
  <2>2. Cardinality(B) = Cardinality(A) + 1
    BY <1>2, <2>1, FS_AddElement
  <2> QED BY <1>2, <1>3, <1>5, <1>6, <2>2
<1>4. CASE e # p
  <2>1. B = A
    BY <1>1, <1>4 DEF A, B
  <2> QED BY <1>2, <1>4, <1>5, <1>6, <2>1
<1> QED BY <1>3, <1>4

\* The log holds what was written since the last truncation; whoever truncated it
\* last has had nothing taken from him.
RaceInv ==
    /\ log \in Seq(Race!Writers)
    /\ did \in [Race!Writers -> {"fork", "open", "write", "done", "died", "reaped"}]
    /\ times \in [Race!Writers -> 0 .. Times] /\ kept \in [Race!Writers -> Nat]
    /\ \A p \in Race!Writers :
          /\ kept[p] = TimesIn(log, p)
          /\ did[p] \in {"fork", "open"} => times[p] = Times
          /\ did[p] \in {"done", "reaped"} => times[p] = 0
    /\ \E p \in Race!Writers : kept[p] = Times - times[p]

\* The steps of the two processes keep it.
LEMMA RaceSteps ==
  ASSUME Times \in Nat, RaceInv, Race!Next
  PROVE  RaceInv'
<1> USE DEF RaceInv
<1>1. ASSUME NEW p \in Race!Writers, Race!Open(p)
      PROVE  RaceInv'
  <2>1. /\ log' = <<>> /\ kept' = [q \in Race!Writers |-> 0] /\ times' = times
        /\ did[p] = "fork" /\ did' = [did EXCEPT ![p] = "open"]
    BY <1>1 DEF Race!Open, Race!Does
  <2>2. \A q \in Race!Writers : kept'[q] = TimesIn(log', q)
    BY <2>1, AppendCounts
  <2>3. kept'[p] = Times - times'[p]
    BY <2>1
  <2> QED BY <2>1, <2>2, <2>3
<1>2. ASSUME NEW p \in Race!Writers, Race!GoOn(p)
      PROVE  RaceInv'
  BY <1>2 DEF Race!GoOn, Race!Does
<1>3. ASSUME NEW p \in Race!Writers, Race!Write(p)
      PROVE  RaceInv'
  <2>1. /\ log' = Append(log, p) /\ did' = did /\ did[p] = "write" /\ times[p] > 0
        /\ times' = [times EXCEPT ![p] = @ - 1] /\ kept' = [kept EXCEPT ![p] = @ + 1]
    BY <1>3 DEF Race!Write
  <2>2. \A q \in Race!Writers : kept'[q] = TimesIn(log', q)
    BY <2>1, AppendCounts
  <2>3. \A q \in Race!Writers : /\ times'[q] = IF q = p THEN times[q] - 1 ELSE times[q]
                                /\ kept'[q] = IF q = p THEN kept[q] + 1 ELSE kept[q]
    BY <2>1
  <2>4. PICK q \in Race!Writers : kept[q] = Times - times[q]
    OBVIOUS
  <2>5. kept'[q] = Times - times'[q]
    <3>1. times[q] \in Nat /\ kept[q] \in Nat
      OBVIOUS
    <3>2. times[q] - 1 \in Int /\ Times - (times[q] - 1) = (Times - times[q]) + 1
      BY <3>1
    <3>3. CASE q = p
      BY <2>3, <2>4, <3>2, <3>3
    <3>4. CASE q # p
      BY <2>3, <2>4, <3>4
    <3> QED BY <3>3, <3>4
  <2>6. /\ times' \in [Race!Writers -> 0 .. Times] /\ kept' \in [Race!Writers -> Nat]
        /\ log' \in Seq(Race!Writers)
    BY <2>1
  <2> QED BY <2>1, <2>2, <2>3, <2>5, <2>6
<1>4. CASE Race!Finish
  <2>1. UNCHANGED <<log, times, kept>>
    BY <1>4 DEF Race!Finish
  <2>2. PICK p \in Race!Writers, now \in {"done", "reaped"} :
            times[p] = 0 /\ did[p] = "write" /\ did' = [did EXCEPT ![p] = now]
    BY <1>4 DEF Race!Finish, Race!Does, Race!Writers
  <2> QED BY <2>1, <2>2
<1>5. CASE Race!Over
  BY <1>5 DEF Race!Over, Race!vars
<1> QED BY <1>1, <1>2, <1>3, <1>4, <1>5 DEF Race!Next

\* Nothing is lost after the second truncation.
LEMMA RaceHolds ==
  ASSUME Times \in Nat, RaceInv
  PROVE  Race!LinesKept
<1>1. \A p : Race!Lines(p) = TimesIn(log, p)
  BY DEF Race!Lines, TimesIn, Race!Cardinality, Cardinality, Race!IsFiniteSet, IsFiniteSet
<1>2. PICK p \in Race!Writers : kept[p] = Times - times[p]
  BY DEF RaceInv
<1>3. ASSUME \A q \in Race!Writers : did[q] \in {"done", "reaped"}
      PROVE  kept[p] = Times
  <2>1. did[p] \in {"done", "reaped"}
    BY <1>3
  <2>2. times[p] = 0
    BY <2>1 DEF RaceInv
  <2> QED BY <1>2, <2>2
<1> QED BY <1>1, <1>2, <1>3 DEF RaceInv, Race!LinesKept
-----------------------------------------------------------------------------
(* Message queues.                                                          *)

First(C)   == CHOOSE x \in C : \A y \in C : x <= y
Rest(q, m) == SubSeq(q, 1, m - 1) \o SubSeq(q, m + 1, Len(q))

\* A set of positions that is not empty has a first.
LEMMA FirstFacts ==
  ASSUME NEW C \in SUBSET Nat, C # {}
  PROVE  First(C) \in C /\ \A y \in C : First(C) <= y
<1> DEFINE Less == {ss \in Nat \X Nat : ss[1] < ss[2]}
<1>1. IsWellFoundedOn(Less, Nat)
  BY NatLessThanWellFounded DEF OpToRel
<1>2. PICK x \in C : \A y \in C : <<y, x>> \notin Less
  <2> HIDE DEF Less
  <2> QED BY <1>1, WFMin
<1>3. ASSUME NEW y \in C
      PROVE  x <= y
  <2>1. x \in Nat /\ y \in Nat /\ <<y, x>> \notin Less
    BY <1>2
  <2>2. <<y, x>> \in Nat \X Nat => ~(y < x)
    BY <2>1
  <2> QED BY <2>1, <2>2
<1> QED BY <1>2, <1>3 DEF First

\* What is left when the m-th message is taken.
LEMMA RestFacts ==
  ASSUME NEW M, NEW q \in Seq(M), NEW m \in 1 .. Len(q)
  PROVE  /\ Rest(q, m) \in Seq(M) /\ q[m] \in M
         /\ Len(q) \in Nat /\ Len(Rest(q, m)) = Len(q) - 1
         /\ \A k \in 1 .. Len(q) - 1 : Rest(q, m)[k] = IF k < m THEN q[k] ELSE q[k + 1]
<1>1. Len(q) \in Nat /\ m \in Nat /\ m >= 1 /\ m <= Len(q) /\ q[m] \in M
  OBVIOUS
<1>2. PICK a : a = SubSeq(q, 1, m - 1)
  OBVIOUS
<1>3. PICK b : b = SubSeq(q, m + 1, Len(q))
  OBVIOUS
<1>4. a \in Seq(M) /\ Len(a) = m - 1 /\ \A k \in 1 .. m - 1 : a[k] = q[k]
  BY <1>1, <1>2
<1>5. b \in Seq(M) /\ Len(b) = Len(q) - m /\ \A k \in 1 .. Len(q) - m : b[k] = q[k + m]
  <2>1. b \in Seq(M) /\ Len(b) = Len(q) - m
    BY <1>1, <1>3
  <2>2. ASSUME NEW k \in 1 .. Len(q) - m
        PROVE  b[k] = q[k + m]
    <3>1. b[k] = q[(m + 1) + k - 1]
      BY <1>1, <1>3
    <3>2. (m + 1) + k - 1 = k + m
      BY <1>1
    <3> QED BY <3>1, <3>2
  <2> QED BY <2>1, <2>2
<1>6. /\ a \o b \in Seq(M) /\ Len(a \o b) = Len(q) - 1
      /\ \A k \in 1 .. Len(q) - 1 : (a \o b)[k] = IF k <= Len(a) THEN a[k] ELSE b[k - Len(a)]
  <2>1. a \o b \in Seq(M) /\ Len(a \o b) = Len(a) + Len(b)
    <3>1. a \in Seq(M) /\ b \in Seq(M)
      BY <1>4, <1>5
    <3> QED BY <3>1
  <2>2. Len(a) + Len(b) = Len(q) - 1
    <3>1. (m - 1) + (Len(q) - m) = Len(q) - 1
      BY <1>1
    <3> QED BY <1>4, <1>5, <3>1
  <2>3. ASSUME NEW k \in 1 .. Len(a) + Len(b)
        PROVE  (a \o b)[k] = IF k <= Len(a) THEN a[k] ELSE b[k - Len(a)]
    BY <1>4, <1>5
  <2> QED BY <2>1, <2>2, <2>3
<1>7. ASSUME NEW k \in 1 .. Len(q) - 1
      PROVE  (a \o b)[k] = IF k < m THEN q[k] ELSE q[k + 1]
  <2>1. CASE k < m
    BY <1>1, <1>4, <1>6, <2>1
  <2>2. CASE ~(k < m)
    <3>1. k - Len(a) \in 1 .. Len(q) - m /\ k - Len(a) + m = k + 1 /\ ~(k <= Len(a))
      BY <1>1, <1>4, <2>2
    <3> QED BY <1>5, <1>6, <2>2, <3>1
  <2> QED BY <2>1, <2>2
<1> QED BY <1>1, <1>2, <1>3, <1>6, <1>7 DEF Rest

\* msgrcv takes the first message of the type that is wanted.
LEMMA WombReceives ==
  ASSUME NEW M, NEW q \in Seq(M), NEW type \in Int, Womb!IsThere(q, type)
  PROVE  \E m \in 1 .. Len(q) :
            /\ Womb!Oldest(q, type) = q[m] /\ Womb!Without(q, type) = Rest(q, m)
            /\ q[m].signType \in Womb!Wanted(q, type)
            /\ \A k \in 1 .. m - 1 : q[k].signType \notin Womb!Wanted(q, type)
<1>1. PICK C : C = Womb!Candidates(q, type)
  OBVIOUS
<1>2. /\ C = {k \in 1 .. Len(q) : q[k].signType \in Womb!Wanted(q, type)}
      /\ C # {}
  BY <1>1 DEF Womb!IsThere, Womb!Candidates
<1>3. C \in SUBSET Nat /\ Len(q) \in Nat
  BY <1>2
<1>4. PICK m \in C : m = First(C) /\ \A k \in C : m <= k
  BY <1>2, <1>3, FirstFacts
<1>5. Womb!Oldest(q, type) = q[m] /\ Womb!Without(q, type) = Rest(q, m)
  BY <1>1, <1>4 DEF Womb!Oldest, Womb!Without, Womb!Min, Womb!RemoveAt, First, Rest
<1>6. \A k \in 1 .. m - 1 : k \notin C /\ k \in 1 .. Len(q)
  BY <1>2, <1>3, <1>4
<1> QED BY <1>2, <1>4, <1>5, <1>6

-----------------------------------------------------------------------------
(* The umbilical cord.                                                      *)

WombTypes == {1, 99, 128}
WombMsg   == [signType : WombTypes, text : {1}]

\* How many messages of a type a queue of at most two holds.
At(q, n, t) == IF n <= Len(q) /\ q[n].signType = t THEN 1 ELSE 0
Of(q, t)    == At(q, 1, t) + At(q, 2, t)

Kicking == IF baby = "kick" THEN 1 ELSE 0
Given   == IF dad = "feed" THEN dtimes - 1 ELSE IF dad = "listen" THEN dtimes ELSE FoodRounds - 1

WombTyped ==
    /\ queue \in Seq(WombMsg) /\ womb \in [{"dad", "baby"} -> {0, 1, 99, 128}]
    /\ dad \in {"feed", "listen", "waitpid", "done"} /\ dtimes \in 1 .. FoodRounds
    /\ baby \in {"eat", "kick", "come out", "born"} /\ btimes \in 1 .. FoodRounds
    /\ stolen \in Nat

\* The father listens after each message he sends, and his child answers each one it
\* takes: two messages wait at most.
TwoWait == /\ Len(queue) + Kicking <= 2
           /\ dad = "feed" => Len(queue) + Kicking <= 1
           /\ dad = "listen" => dtimes < FoodRounds
           /\ baby = "kick" => btimes < FoodRounds

\* All the food is in the queue, eaten, or taken back by the father.
FoodAddsUp == Of(queue, 1) + stolen + (btimes - 1) + Kicking = Given

\* The message of type 99 comes after the food, so that who has received it finds no
\* food any more.
Told == womb["baby"] = 99
BirthIsLast ==
    /\ Of(queue, 99) <= 1
    /\ dad = "feed" \/ dad = "listen" => Of(queue, 99) = 0 /\ ~Told
    /\ Told => Of(queue, 1) = 0 /\ Of(queue, 99) = 0 /\ (baby = "come out" \/ baby = "born")
    /\ baby = "come out" /\ ~Told => btimes = FoodRounds
    /\ baby = "born" => Told /\ btimes = FoodRounds /\ stolen = 0

WombInv == WombTyped /\ TwoWait /\ FoodAddsUp /\ BirthIsLast

\* A message more, and a message less.
LEMMA OfFacts ==
  ASSUME NEW q \in Seq(WombMsg), NEW t \in WombTypes, Len(q) <= 2
  PROVE  /\ Len(q) \in Nat /\ Of(q, t) \in 0 .. 2 /\ Of(q, t) <= Len(q)
         /\ (Of(q, t) = 0) <=> (\A k \in 1 .. Len(q) : q[k].signType # t)
         /\ \A m \in WombMsg : Len(q) <= 1 => Of(Append(q, m), t) = Of(q, t) + (IF m.signType = t THEN 1 ELSE 0)
         /\ \A m \in 1 .. Len(q) : Of(Rest(q, m), t) = Of(q, t) - (IF q[m].signType = t THEN 1 ELSE 0)
<1>1. Len(q) \in Nat /\ (Len(q) = 0 \/ Len(q) = 1 \/ Len(q) = 2)
  <2>1. PICK n : n = Len(q)
    OBVIOUS
  <2>2. n \in Nat /\ n <= 2
    BY <2>1
  <2>3. n = 0 \/ n = 1 \/ n = 2
    BY <2>2
  <2> QED BY <2>1, <2>2, <2>3
<1>2. /\ At(q, 1, t) \in {0, 1} /\ At(q, 2, t) \in {0, 1}
      /\ Of(q, t) = At(q, 1, t) + At(q, 2, t)
  BY DEF At, Of
<1>3. /\ At(q, 1, t) = 1 <=> 1 <= Len(q) /\ q[1].signType = t
      /\ At(q, 2, t) = 1 <=> 2 <= Len(q) /\ q[2].signType = t
  BY DEF At
<1>4. Of(q, t) \in 0 .. 2 /\ Of(q, t) <= Len(q)
  BY <1>1, <1>2, <1>3
<1>5. (Of(q, t) = 0) <=> (\A k \in 1 .. Len(q) : q[k].signType # t)
  <2>1. (Of(q, t) = 0) <=> At(q, 1, t) # 1 /\ At(q, 2, t) # 1
    BY <1>2
  <2>2. \A k \in 1 .. Len(q) : k = 1 \/ k = 2
    BY <1>1
  <2>3. 1 <= Len(q) => 1 \in 1 .. Len(q)
    BY <1>1
  <2>4. 2 <= Len(q) => 2 \in 1 .. Len(q)
    BY <1>1
  <2>5. ASSUME \A k \in 1 .. Len(q) : q[k].signType # t
        PROVE  At(q, 1, t) # 1 /\ At(q, 2, t) # 1
    BY <1>3, <2>3, <2>4, <2>5
  <2>6. ASSUME At(q, 1, t) # 1, At(q, 2, t) # 1, NEW k \in 1 .. Len(q)
        PROVE  q[k].signType # t
    <3>1. CASE k = 1
      BY <1>1, <1>3, <2>6, <3>1
    <3>2. CASE k = 2
      BY <1>1, <1>3, <2>6, <3>2
    <3> QED BY <2>2, <3>1, <3>2
  <2> QED BY <2>1, <2>5, <2>6
<1>6. ASSUME NEW m \in WombMsg, Len(q) <= 1
      PROVE  Of(Append(q, m), t) = Of(q, t) + (IF m.signType = t THEN 1 ELSE 0)
  <2>1. PICK r : r = Append(q, m)
    OBVIOUS
  <2>2. Len(r) = Len(q) + 1 /\ r[Len(q) + 1] = m /\ \A k \in 1 .. Len(q) : r[k] = q[k]
    BY <1>6, <2>1
  <2>3. Of(r, t) = At(r, 1, t) + At(r, 2, t)
    BY DEF Of
  <2>4. CASE Len(q) = 0
    <3>1. At(q, 1, t) = 0 /\ At(q, 2, t) = 0 /\ At(r, 2, t) = 0
      BY <2>2, <2>4 DEF At
    <3>2. At(r, 1, t) = IF m.signType = t THEN 1 ELSE 0
      BY <2>2, <2>4 DEF At
    <3> QED BY <1>2, <2>1, <2>3, <3>1, <3>2
  <2>5. CASE Len(q) = 1
    <3>1. At(q, 2, t) = 0
      BY <2>5 DEF At
    <3>2. At(r, 1, t) = At(q, 1, t)
      BY <2>2, <2>5 DEF At
    <3>3. At(r, 2, t) = IF m.signType = t THEN 1 ELSE 0
      BY <2>2, <2>5 DEF At
    <3> QED BY <1>2, <2>1, <2>3, <3>1, <3>2, <3>3
  <2> QED BY <1>1, <1>6, <2>4, <2>5
<1>7. ASSUME NEW m \in 1 .. Len(q)
      PROVE  Of(Rest(q, m), t) = Of(q, t) - (IF q[m].signType = t THEN 1 ELSE 0)
  <2>1. PICK r : r = Rest(q, m)
    OBVIOUS
  <2>2. /\ Len(r) = Len(q) - 1
        /\ \A k \in 1 .. Len(q) - 1 : r[k] = IF k < m THEN q[k] ELSE q[k + 1]
    BY <2>1, RestFacts
  <2>3. Of(r, t) = At(r, 1, t) + At(r, 2, t)
    BY DEF Of
  <2>4. CASE Len(q) = 1
    <3>1. At(q, 2, t) = 0 /\ At(r, 1, t) = 0 /\ At(r, 2, t) = 0 /\ m = 1
      BY <2>2, <2>4 DEF At
    <3>2. At(q, 1, t) = IF q[m].signType = t THEN 1 ELSE 0
      BY <2>4, <3>1 DEF At
    <3> QED BY <1>2, <2>1, <2>3, <3>1, <3>2
  <2>5. CASE Len(q) = 2 /\ m = 1
    <3>1. Len(r) = 1 /\ r[1] = q[2]
      BY <2>2, <2>5
    <3>2. At(r, 2, t) = 0 /\ At(r, 1, t) = At(q, 2, t)
      BY <2>5, <3>1 DEF At
    <3>3. At(q, 1, t) = IF q[m].signType = t THEN 1 ELSE 0
      BY <2>5 DEF At
    <3> QED BY <1>2, <2>1, <2>3, <3>2, <3>3
  <2>6. CASE Len(q) = 2 /\ m = 2
    <3>1. Len(r) = 1 /\ r[1] = q[1]
      BY <2>2, <2>6
    <3>2. At(r, 2, t) = 0 /\ At(r, 1, t) = At(q, 1, t)
      BY <2>6, <3>1 DEF At
    <3>3. At(q, 2, t) = IF q[m].signType = t THEN 1 ELSE 0
      BY <2>6 DEF At
    <3> QED BY <1>2, <2>1, <2>3, <3>2, <3>3
  <2> QED BY <1>1, <2>4, <2>5, <2>6
<1> QED BY <1>1, <1>4, <1>5, <1>6, <1>7

\* The numbers of which the invariant speaks.
LEMMA WombNumbers ==
  ASSUME FoodRounds \in Nat \ {0, 1}, WombTyped, Len(queue) <= 2
  PROVE  /\ Len(queue) \in Nat /\ Of(queue, 1) \in Nat /\ Of(queue, 99) \in Nat
         /\ Of(queue, 1) <= Len(queue) /\ Of(queue, 99) <= Len(queue)
         /\ dtimes \in Nat /\ dtimes >= 1 /\ dtimes <= FoodRounds
         /\ btimes \in Nat /\ btimes >= 1 /\ btimes <= FoodRounds
         /\ stolen \in Nat
         /\ Kicking \in {0, 1} /\ (baby = "kick" <=> Kicking = 1)
<1>1. /\ Len(queue) \in Nat /\ Of(queue, 1) \in 0 .. 2 /\ Of(queue, 99) \in 0 .. 2
      /\ Of(queue, 1) <= Len(queue) /\ Of(queue, 99) <= Len(queue)
  BY OfFacts DEF WombTyped, WombTypes
<1>2. Kicking \in {0, 1} /\ (baby = "kick" <=> Kicking = 1)
  BY DEF Kicking
<1>3. dtimes \in 1 .. FoodRounds /\ btimes \in 1 .. FoodRounds /\ stolen \in Nat
  BY DEF WombTyped
<1> QED BY <1>1, <1>2, <1>3

\* No more than two messages wait.
LEMMA TwoAtMost ==
  ASSUME WombTyped, TwoWait
  PROVE  Len(queue) \in Nat /\ Len(queue) <= 2
<1>1. Kicking \in {0, 1}
  BY DEF Kicking
<1>2. PICK n : n = Len(queue)
  OBVIOUS
<1>3. n \in Nat
  <2>1. queue \in Seq(WombMsg)
    BY DEF WombTyped
  <2>2. Len(queue) \in Nat
    BY <2>1
  <2> QED BY <1>2, <2>2
<1>4. n + Kicking <= 2
  BY <1>2 DEF TwoWait
<1> QED BY <1>1, <1>2, <1>3, <1>4

\* What Send does.
LEMMA WombGives ==
  ASSUME queue \in Seq(WombMsg), NEW type \in WombTypes, Womb!Send(type), Len(queue) <= 1
  PROVE  /\ queue' \in Seq(WombMsg) /\ Len(queue') = Len(queue) + 1
         /\ \A u \in WombTypes : Of(queue', u) = Of(queue, u) + (IF type = u THEN 1 ELSE 0)
<1>1. PICK m : m = Womb!Message(type, Womb!Food)
  OBVIOUS
<1>2. m \in WombMsg /\ m.signType = type
  BY <1>1 DEF Womb!Message, WombMsg, Womb!Food
<1>3. queue' = Append(queue, m)
  BY <1>1 DEF Womb!Send
<1>4. Len(queue) <= 2
  <2>1. Len(queue) \in Nat
    OBVIOUS
  <2> QED BY <2>1
<1> QED BY <1>2, <1>3, <1>4, OfFacts

\* What Receive does: the message of the lowest type that is wanted goes.
LEMMA WombTakes ==
  ASSUME WombTyped, TwoWait, NEW p \in {"dad", "baby"}, NEW most \in {99, 128}, Womb!Receive(p, -most)
  PROVE  /\ queue' \in Seq(WombMsg) /\ Len(queue') = Len(queue) - 1
         /\ womb' = [womb EXCEPT ![p] = womb'[p]]
         /\ womb'[p] \in WombTypes /\ womb'[p] <= most
         /\ womb'[p] # 1 => Of(queue, 1) = 0
         /\ \A t \in WombTypes : Of(queue', t) = Of(queue, t) - (IF womb'[p] = t THEN 1 ELSE 0)
<1>1. Len(queue) \in Nat /\ Len(queue) <= 2
  BY TwoAtMost
<1>2. -most \in Int /\ queue \in Seq(WombMsg) /\ Womb!IsThere(queue, -most)
  <2>1. most \in Int
    OBVIOUS
  <2>2. -most \in Int
    BY <2>1
  <2> QED BY <2>2 DEF Womb!Receive, WombTyped
<1>3. PICK m \in 1 .. Len(queue) :
        /\ Womb!Oldest(queue, -most) = queue[m] /\ Womb!Without(queue, -most) = Rest(queue, m)
        /\ queue[m].signType \in Womb!Wanted(queue, -most)
  BY <1>2, WombReceives
<1>4. queue[m] \in WombMsg /\ queue[m].signType \in WombTypes
  <2>1. queue[m] \in WombMsg
    BY <1>2, RestFacts
  <2> QED BY <2>1 DEF WombMsg
<1>5. /\ queue' = Rest(queue, m) /\ womb' = [womb EXCEPT ![p] = queue[m].signType]
      /\ womb'[p] = queue[m].signType
  <2>1. womb \in [{"dad", "baby"} -> {0, 1, 99, 128}]
    BY DEF WombTyped
  <2>2. queue' = Rest(queue, m) /\ womb' = [womb EXCEPT ![p] = queue[m].signType]
    BY <1>3 DEF Womb!Receive
  <2> QED BY <2>1, <2>2
<1>6. PICK low : low = {t \in Womb!Types(queue) : t <= most}
  OBVIOUS
<1>7. queue[m].signType \in IF low = {} THEN {} ELSE {First(low)}
  <2>1. ~(-most > 0) /\ -(-most) = most
    OBVIOUS
  <2> QED BY <1>3, <1>6, <2>1 DEF Womb!Wanted, Womb!Min, First
<1>8. \A k \in 1 .. Len(queue) : queue[k].signType \in Womb!Types(queue)
  BY <1>2 DEF Womb!Types
<1>9. low \in SUBSET Nat
  <2>1. ASSUME NEW k \in DOMAIN queue
        PROVE  queue[k].signType \in Nat
    <3>1. queue[k] \in WombMsg
      BY <1>2, <2>1
    <3> QED BY <3>1 DEF WombMsg, WombTypes
  <2> QED BY <1>6, <2>1 DEF Womb!Types
<1>10. queue[m].signType \in low /\ \A t \in low : queue[m].signType <= t
  BY <1>7, <1>9, FirstFacts
<1>11. queue[m].signType # 1 => Of(queue, 1) = 0
  <2>1. ASSUME NEW k \in 1 .. Len(queue), queue[k].signType = 1
        PROVE  queue[m].signType = 1
    <3>1. 1 \in low
      BY <1>6, <1>8, <2>1
    <3>2. queue[m].signType <= 1
      BY <1>10, <3>1
    <3> QED BY <1>4, <3>2 DEF WombTypes
  <2> QED BY <1>1, <1>2, <2>1, OfFacts DEF WombTypes
<1>12. queue[m].signType <= most
  BY <1>6, <1>10
<1>13. queue' \in Seq(WombMsg) /\ Len(queue') = Len(queue) - 1
  BY <1>2, <1>5, RestFacts
<1>14. \A t \in WombTypes : Of(queue', t) = Of(queue, t) - (IF womb'[p] = t THEN 1 ELSE 0)
  BY <1>1, <1>2, <1>5, OfFacts
<1> QED BY <1>4, <1>5, <1>11, <1>12, <1>13, <1>14

\* Nothing at all is in the queue when the father finds nothing.
LEMMA NothingThere ==
  ASSUME WombTyped, ~Womb!IsThere(queue, -128)
  PROVE  Len(queue) = 0
<1>1. SUFFICES ASSUME Len(queue) # 0 PROVE FALSE
  OBVIOUS
<1>2. queue \in Seq(WombMsg) /\ 1 \in DOMAIN queue /\ queue[1] \in WombMsg
  <2>1. PICK n : n = Len(queue)
    OBVIOUS
  <2>2. queue \in Seq(WombMsg)
    BY DEF WombTyped
  <2>3. n \in Nat /\ n # 0
    BY <1>1, <2>1, <2>2
  <2>4. 1 \in 1 .. n
    BY <2>3
  <2> QED BY <2>1, <2>2, <2>4
<1>3. PICK low : low = {t \in Womb!Types(queue) : t <= 128}
  OBVIOUS
<1>4. low \in SUBSET Nat /\ queue[1].signType \in low
  <2>1. ASSUME NEW k \in DOMAIN queue
        PROVE  queue[k].signType \in WombTypes
    <3>1. queue[k] \in WombMsg
      BY <1>2, <2>1
    <3> QED BY <3>1 DEF WombMsg
  <2>2. queue[1].signType <= 128
    BY <1>2, <2>1 DEF WombTypes
  <2>3. low \in SUBSET Nat
    BY <1>3, <2>1 DEF Womb!Types, WombTypes
  <2>4. queue[1].signType \in Womb!Types(queue)
    BY <1>2 DEF Womb!Types
  <2> QED BY <1>3, <2>2, <2>3, <2>4
<1>5. First(low) \in low
  BY <1>4, FirstFacts
<1>6. Womb!Wanted(queue, -128) = {First(low)}
  <2>1. \A n \in Nat : ~(-n > 0) /\ -(-n) = n
    OBVIOUS
  <2>2. ~(-128 > 0) /\ -(-128) = 128
    BY <2>1
  <2> QED BY <1>3, <1>4, <2>2 DEF Womb!Wanted, Womb!Min, First
<1>7. \E k \in DOMAIN queue : queue[k].signType = First(low)
  BY <1>3, <1>5 DEF Womb!Types
<1> QED BY <1>6, <1>7 DEF Womb!IsThere, Womb!Candidates

\* The steps of father and child keep it.
LEMMA WombSteps ==
  ASSUME FoodRounds \in Nat \ {0, 1}, WombInv, Womb!Next
  PROVE  WombInv'
<1> USE DEF Womb!Food, Womb!Kick, Womb!Birth
<1>0. WombTyped /\ TwoWait /\ FoodAddsUp /\ BirthIsLast /\ Len(queue) <= 2
  BY TwoAtMost DEF WombInv
<1>11. queue \in Seq(WombMsg)
  BY <1>0 DEF WombTyped
<1>12. womb \in [{"dad", "baby"} -> {0, 1, 99, 128}]
  BY <1>0 DEF WombTyped
<1>1. /\ Len(queue) \in Nat /\ Of(queue, 1) \in Nat /\ Of(queue, 99) \in Nat
      /\ Of(queue, 1) <= Len(queue) /\ Of(queue, 99) <= Len(queue)
      /\ dtimes \in Nat /\ dtimes >= 1 /\ dtimes <= FoodRounds
      /\ btimes \in Nat /\ btimes >= 1 /\ btimes <= FoodRounds
      /\ stolen \in Nat
      /\ Kicking \in {0, 1} /\ (baby = "kick" <=> Kicking = 1)
  BY <1>0, WombNumbers
<1>2. CASE Womb!Feed
  <2>1. /\ dad = "feed" /\ dtimes < FoodRounds /\ dad' = "listen" /\ Womb!Send(1)
        /\ UNCHANGED <<dtimes, baby, btimes, womb, stolen>>
    BY <1>2 DEF Womb!Feed
  <2>2. Kicking' = Kicking /\ Given = dtimes - 1 /\ Given' = dtimes
    BY <2>1 DEF Kicking, Given
  <2>3. Len(queue) + Kicking <= 1
    BY <1>0, <2>1 DEF TwoWait
  <2>4. Len(queue) <= 1
    BY <1>1, <2>3
  <2>5. /\ queue' \in Seq(WombMsg) /\ Len(queue') = Len(queue) + 1
        /\ Of(queue', 1) = Of(queue, 1) + 1 /\ Of(queue', 99) = Of(queue, 99) + 0
    BY <1>11, <2>1, <2>4, WombGives DEF WombTypes
  <2>6. WombTyped'
    BY <1>0, <2>1, <2>5 DEF WombTyped
  <2>7. TwoWait'
    BY <1>0, <1>1, <2>1, <2>2, <2>3, <2>5 DEF TwoWait
  <2>8. FoodAddsUp'
    BY <1>0, <1>1, <2>1, <2>2, <2>5 DEF FoodAddsUp
  <2>9. BirthIsLast'
    <3>1. Of(queue, 99) = 0 /\ ~Told
      BY <1>0, <2>1 DEF BirthIsLast
    <3>2. Of(queue', 99) = 0 /\ ~Told'
      BY <2>1, <2>5, <3>1 DEF Told
    <3> QED BY <1>0, <2>1, <3>1, <3>2 DEF BirthIsLast
  <2> QED BY <2>6, <2>7, <2>8, <2>9 DEF WombInv
<1>3. CASE Womb!Listen
  <2>1. /\ dad = "listen" /\ dtimes' = dtimes + 1 /\ dad' = "feed" /\ UNCHANGED <<baby, btimes>>
    BY <1>3 DEF Womb!Listen
  <2>2. Kicking' = Kicking /\ Given = dtimes /\ Given' = dtimes
    <3>1. Given' = dtimes' - 1
      BY <2>1 DEF Given
    <3> QED BY <1>1, <2>1, <3>1 DEF Kicking, Given
  <2>3. dtimes < FoodRounds /\ Of(queue, 99) = 0 /\ ~Told
    BY <1>0, <2>1 DEF TwoWait, BirthIsLast
  <2>4. dtimes' \in 1 .. FoodRounds
    BY <1>1, <2>1, <2>3
  <2>5. CASE ~Womb!IsThere(queue, -128) /\ UNCHANGED <<queue, womb, stolen>>
    <3>1. Len(queue) = 0
      BY <1>0, <2>5, NothingThere
    <3>2. WombTyped'
      BY <1>0, <2>1, <2>4, <2>5 DEF WombTyped
    <3>3. TwoWait'
      BY <1>0, <1>1, <2>1, <2>2, <2>5, <3>1 DEF TwoWait
    <3>4. FoodAddsUp' /\ BirthIsLast'
      <4>1. ~Told'
        BY <2>3, <2>5 DEF Told
      <4> QED BY <1>0, <2>1, <2>2, <2>3, <2>5, <4>1 DEF FoodAddsUp, BirthIsLast
    <3> QED BY <3>2, <3>3, <3>4 DEF WombInv
  <2>6. CASE /\ Womb!Receive("dad", -128)
             /\ stolen' = IF womb'["dad"] = 1 THEN stolen + 1 ELSE stolen
    <3>1. /\ queue' \in Seq(WombMsg) /\ Len(queue') = Len(queue) - 1
          /\ womb' = [womb EXCEPT !["dad"] = womb'["dad"]] /\ womb'["dad"] \in WombTypes
          /\ \A t \in WombTypes : Of(queue', t) = Of(queue, t) - (IF womb'["dad"] = t THEN 1 ELSE 0)
      BY <1>0, <2>6, WombTakes
    <3>2. womb' \in [{"dad", "baby"} -> {0, 1, 99, 128}] /\ womb'["baby"] = womb["baby"]
      BY <1>12, <3>1 DEF WombTypes
    <3>3. Len(queue') <= 2 /\ Len(queue') \in Nat
      BY <1>0, <1>1, <3>1
    <3>4. Of(queue', 99) \in Nat /\ Of(queue', 1) \in Nat
      BY <3>1, <3>3, OfFacts DEF WombTypes
    <3>5. Of(queue', 99) = 0
      <4>1. CASE womb'["dad"] = 99
        <5>1. Of(queue', 99) = 0 - 1
          BY <2>3, <3>1, <4>1 DEF WombTypes
        <5> QED BY <3>4, <5>1
      <4>2. CASE womb'["dad"] # 99
        <5>1. Of(queue', 99) = 0 - 0
          BY <2>3, <3>1, <4>2 DEF WombTypes
        <5> QED BY <5>1
      <4> QED BY <4>1, <4>2
    <3>6. stolen' \in Nat /\ Of(queue', 1) + stolen' = Of(queue, 1) + stolen
      <4>1. CASE womb'["dad"] = 1
        <5>1. Of(queue', 1) = Of(queue, 1) - 1 /\ stolen' = stolen + 1
          BY <2>6, <3>1, <4>1 DEF WombTypes
        <5> QED BY <1>1, <5>1
      <4>2. CASE womb'["dad"] # 1
        <5>1. Of(queue', 1) = Of(queue, 1) - 0 /\ stolen' = stolen
          BY <2>6, <3>1, <4>2 DEF WombTypes
        <5> QED BY <1>1, <5>1
      <4> QED BY <4>1, <4>2
    <3>7. WombTyped'
      BY <1>0, <2>1, <2>4, <3>1, <3>2, <3>6 DEF WombTyped
    <3>8. TwoWait'
      BY <1>0, <1>1, <2>1, <2>2, <3>1 DEF TwoWait
    <3>9. FoodAddsUp'
      <4>1. (Of(queue', 1) + stolen') + (btimes - 1) + Kicking
              = (Of(queue, 1) + stolen) + (btimes - 1) + Kicking
        BY <3>6
      <4> QED BY <1>0, <2>1, <2>2, <4>1 DEF FoodAddsUp
    <3>10. BirthIsLast'
      <4>1. ~Told'
        BY <2>3, <3>2 DEF Told
      <4> QED BY <4>1, <1>0, <2>1, <2>3, <3>2, <3>5 DEF BirthIsLast
    <3> QED BY <3>7, <3>8, <3>9, <3>10 DEF WombInv
  <2> QED BY <1>3, <2>5, <2>6 DEF Womb!Listen
<1>4. CASE Womb!Deliver
  <2>1. /\ dad = "feed" /\ dtimes = FoodRounds /\ dad' = "waitpid" /\ Womb!Send(99)
        /\ UNCHANGED <<dtimes, baby, btimes, womb, stolen>>
    BY <1>4 DEF Womb!Deliver
  <2>2. Kicking' = Kicking /\ Given' = Given
    BY <2>1 DEF Kicking, Given
  <2>3. Len(queue) + Kicking <= 1 /\ Of(queue, 99) = 0 /\ ~Told
    BY <1>0, <2>1 DEF TwoWait, BirthIsLast
  <2>4. Len(queue) <= 1
    BY <1>1, <2>3
  <2>5. /\ queue' \in Seq(WombMsg) /\ Len(queue') = Len(queue) + 1
        /\ Of(queue', 1) = Of(queue, 1) + 0 /\ Of(queue', 99) = Of(queue, 99) + 1
    BY <1>11, <2>1, <2>4, WombGives DEF WombTypes
  <2>6. WombTyped'
    BY <1>0, <2>1, <2>5 DEF WombTyped
  <2>7. TwoWait'
    BY <1>0, <1>1, <2>1, <2>2, <2>3, <2>5 DEF TwoWait
  <2>8. FoodAddsUp'
    BY <1>0, <1>1, <2>1, <2>2, <2>5 DEF FoodAddsUp
  <2>9. BirthIsLast'
    <3>1. Of(queue', 99) <= 1 /\ ~Told'
      BY <2>1, <2>3, <2>5 DEF Told
    <3> QED BY <1>0, <2>1, <2>3, <3>1 DEF BirthIsLast
  <2> QED BY <2>6, <2>7, <2>8, <2>9 DEF WombInv
<1>5. CASE Womb!Finish
  <2>1. /\ dad = "waitpid" /\ baby = "born" /\ dad' = "done" /\ queue' = <<>>
        /\ UNCHANGED <<dtimes, baby, btimes, womb, stolen>>
    BY <1>5 DEF Womb!Finish
  <2>2. Kicking' = Kicking /\ Given' = Given /\ Kicking = 0
    BY <2>1 DEF Kicking, Given
  <2>3. queue' \in Seq(WombMsg) /\ Len(queue') = 0
    BY <2>1
  <2>4. Of(queue', 1) = 0 /\ Of(queue', 99) = 0
    <3>1. \A t \in WombTypes, k \in {1, 2} : At(queue', k, t) = 0
      BY <2>3 DEF At
    <3> QED BY <3>1 DEF Of, WombTypes
  <2>5. Told /\ Told' /\ Of(queue, 1) = 0
    <3>1. Told /\ Of(queue, 1) = 0
      BY <1>0, <2>1 DEF BirthIsLast
    <3> QED BY <2>1, <3>1 DEF Told
  <2>6. WombTyped'
    BY <1>0, <2>1, <2>3 DEF WombTyped
  <2>7. TwoWait'
    BY <2>1, <2>2, <2>3 DEF TwoWait
  <2>8. FoodAddsUp'
    BY <1>0, <2>1, <2>2, <2>4, <2>5 DEF FoodAddsUp
  <2>9. BirthIsLast'
    BY <1>0, <2>1, <2>4, <2>5 DEF BirthIsLast
  <2> QED BY <2>6, <2>7, <2>8, <2>9 DEF WombInv
<1>6. CASE Womb!Eat
  <2>1. /\ baby = "eat" /\ btimes < FoodRounds /\ Womb!Receive("baby", -99)
        /\ baby' = IF womb'["baby"] = 99 THEN "come out" ELSE "kick"
        /\ UNCHANGED <<dad, dtimes, btimes, stolen>>
    BY <1>6 DEF Womb!Eat
  <2>2. /\ queue' \in Seq(WombMsg) /\ Len(queue') = Len(queue) - 1
        /\ womb' = [womb EXCEPT !["baby"] = womb'["baby"]]
        /\ womb'["baby"] \in WombTypes /\ womb'["baby"] <= 99
        /\ womb'["baby"] # 1 => Of(queue, 1) = 0
        /\ \A t \in WombTypes : Of(queue', t) = Of(queue, t) - (IF womb'["baby"] = t THEN 1 ELSE 0)
    BY <1>0, <2>1, WombTakes
  <2>3. womb'["baby"] = 1 \/ womb'["baby"] = 99
    BY <2>2 DEF WombTypes
  <2>4. womb' \in [{"dad", "baby"} -> {0, 1, 99, 128}]
    BY <1>12, <2>2 DEF WombTypes
  <2>5. Len(queue') <= 2 /\ Len(queue') \in Nat
    BY <1>0, <1>1, <2>2
  <2>6. Of(queue', 99) \in Nat /\ Of(queue', 1) \in Nat
    BY <2>2, <2>5, OfFacts DEF WombTypes
  <2>7. Given' = Given /\ Kicking = 0
    BY <2>1 DEF Given, Kicking
  <2>8. WombTyped'
    <3>1. baby' \in {"eat", "kick", "come out", "born"}
      BY <2>1
    <3> QED BY <1>0, <2>1, <2>2, <2>4, <3>1 DEF WombTyped
  <2>9. CASE womb'["baby"] = 1
    <3>1. Of(queue', 1) = Of(queue, 1) - 1 /\ Of(queue', 99) = Of(queue, 99) - 0
      BY <2>2, <2>9 DEF WombTypes
    <3>2. baby' = "kick" /\ Kicking' = 1
      BY <2>1, <2>9 DEF Kicking
    <3>3. TwoWait'
      BY <1>0, <1>1, <2>1, <2>2, <2>7, <3>2 DEF TwoWait
    <3>4. FoodAddsUp'
      BY <1>0, <1>1, <2>1, <2>7, <3>1, <3>2 DEF FoodAddsUp
    <3>5. BirthIsLast'
      <4>1. ~Told'
        BY <2>9 DEF Told
      <4>2. Of(queue', 99) = Of(queue, 99)
        BY <1>1, <3>1
      <4> QED BY <1>0, <2>1, <3>2, <4>1, <4>2 DEF BirthIsLast
    <3> QED BY <2>8, <3>3, <3>4, <3>5 DEF WombInv
  <2>10. CASE womb'["baby"] = 99
    <3>1. Of(queue', 1) = Of(queue, 1) - 0 /\ Of(queue', 99) = Of(queue, 99) - 1 /\ Of(queue, 1) = 0
      BY <2>2, <2>10 DEF WombTypes
    <3>2. baby' = "come out" /\ Kicking' = 0
      BY <2>1, <2>10 DEF Kicking
    <3>3. Of(queue', 99) = 0 /\ Of(queue, 99) # 0 /\ Of(queue', 1) = 0 /\ Of(queue', 99) <= 1
      <4>1. Of(queue, 99) <= 1
        BY <1>0 DEF BirthIsLast
      <4> QED BY <1>1, <2>6, <3>1, <4>1
    <3>4. TwoWait'
      <4>1. Len(queue') + 0 <= Len(queue) + 0
        BY <1>1, <2>2
      <4>2. Len(queue) + 0 <= 2 /\ (dad = "feed" => Len(queue) + 0 <= 1)
        BY <1>0, <2>7 DEF TwoWait
      <4>3. Len(queue') + 0 <= 2 /\ (dad = "feed" => Len(queue') + 0 <= 1)
        BY <1>1, <2>5, <4>1, <4>2
      <4> QED BY <1>0, <2>1, <3>2, <4>3 DEF TwoWait
    <3>5. FoodAddsUp'
      BY <1>0, <1>1, <2>1, <2>7, <3>1, <3>2, <3>3 DEF FoodAddsUp
    <3>6. BirthIsLast'
      <4>1. dad # "feed" /\ dad # "listen"
        BY <1>0, <3>3 DEF BirthIsLast
      <4>2. Told'
        BY <2>10 DEF Told
      <4> QED BY <2>1, <3>2, <3>3, <4>1, <4>2 DEF BirthIsLast
    <3> QED BY <2>8, <3>4, <3>5, <3>6 DEF WombInv
  <2> QED BY <2>3, <2>9, <2>10
<1>7. CASE Womb!Fed
  <2>1. /\ baby = "eat" /\ btimes = FoodRounds /\ baby' = "come out"
        /\ UNCHANGED <<queue, dad, dtimes, btimes, womb, stolen>>
    BY <1>7 DEF Womb!Fed
  <2>2. Kicking' = 0 /\ Kicking = 0 /\ Given' = Given
    BY <2>1 DEF Kicking, Given
  <2>3. WombTyped' /\ TwoWait'
    BY <1>0, <2>1, <2>2 DEF WombTyped, TwoWait
  <2>4. FoodAddsUp' /\ BirthIsLast'
    <3>1. Told' <=> Told
      BY <2>1 DEF Told
    <3> QED BY <1>0, <2>1, <2>2, <3>1 DEF FoodAddsUp, BirthIsLast
  <2> QED BY <2>3, <2>4 DEF WombInv
<1>8. CASE Womb!KickDad
  <2>1. /\ baby = "kick" /\ Womb!Send(128) /\ btimes' = btimes + 1 /\ baby' = "eat"
        /\ UNCHANGED <<dad, dtimes, womb, stolen>>
    BY <1>8 DEF Womb!KickDad
  <2>2. Kicking = 1 /\ Kicking' = 0 /\ Given' = Given
    BY <2>1 DEF Kicking, Given
  <2>3. Len(queue) + 1 <= 2 /\ (dad = "feed" => Len(queue) + 1 <= 1) /\ btimes < FoodRounds
    BY <1>0, <2>1, <2>2 DEF TwoWait
  <2>4. Len(queue) <= 1
    BY <1>1, <2>3
  <2>5. /\ queue' \in Seq(WombMsg) /\ Len(queue') = Len(queue) + 1
        /\ Of(queue', 1) = Of(queue, 1) + 0 /\ Of(queue', 99) = Of(queue, 99) + 0
    BY <1>11, <2>1, <2>4, WombGives DEF WombTypes
  <2>6. WombTyped'
    <3>1. btimes' \in 1 .. FoodRounds
      BY <1>1, <2>1, <2>3
    <3> QED BY <1>0, <2>1, <2>5, <3>1 DEF WombTyped
  <2>7. TwoWait'
    <3>1. Len(queue') + 0 = Len(queue) + 1
      BY <1>1, <2>5
    <3> QED BY <1>0, <2>1, <2>2, <2>3, <3>1 DEF TwoWait
  <2>8. FoodAddsUp'
    <3>1. Of(queue', 1) + stolen' + (btimes' - 1) + 0 = Of(queue, 1) + stolen + (btimes - 1) + 1
      BY <1>1, <2>1, <2>5
    <3> QED BY <1>0, <2>2, <3>1 DEF FoodAddsUp
  <2>9. BirthIsLast'
    <3>1. Told' <=> Told
      BY <2>1 DEF Told
    <3>2. Of(queue', 1) = Of(queue, 1) /\ Of(queue', 99) = Of(queue, 99)
      BY <1>1, <2>5
    <3> QED BY <1>0, <2>1, <3>1, <3>2 DEF BirthIsLast
  <2> QED BY <2>6, <2>7, <2>8, <2>9 DEF WombInv
<1>9. CASE Womb!ComeOut
  <2>1. /\ baby = "come out" /\ Womb!Receive("baby", -99) /\ baby' = "born"
        /\ UNCHANGED <<dad, dtimes, btimes, stolen>>
    BY <1>9 DEF Womb!ComeOut
  <2>2. /\ queue' \in Seq(WombMsg) /\ Len(queue') = Len(queue) - 1
        /\ womb' = [womb EXCEPT !["baby"] = womb'["baby"]]
        /\ womb'["baby"] \in WombTypes /\ womb'["baby"] <= 99
        /\ womb'["baby"] # 1 => Of(queue, 1) = 0
        /\ \A t \in WombTypes : Of(queue', t) = Of(queue, t) - (IF womb'["baby"] = t THEN 1 ELSE 0)
    BY <1>0, <2>1, WombTakes
  <2>3. womb'["baby"] = 1 \/ womb'["baby"] = 99
    BY <2>2 DEF WombTypes
  <2>4. Len(queue') <= 2 /\ Len(queue') \in Nat
    BY <1>0, <1>1, <2>2
  <2>5. Of(queue', 99) \in Nat /\ Of(queue', 1) \in Nat
    BY <2>2, <2>4, OfFacts DEF WombTypes
  <2>6. ~Told
    <3>1. SUFFICES ASSUME Of(queue, 1) = 0, Of(queue, 99) = 0
          PROVE  FALSE
      BY <1>0 DEF BirthIsLast
    <3>2. womb'["baby"] = 1 => Of(queue', 1) = 0 - 1
      BY <2>2, <3>1 DEF WombTypes
    <3>3. womb'["baby"] = 99 => Of(queue', 99) = 0 - 1
      BY <2>2, <3>1 DEF WombTypes
    <3> QED BY <2>3, <2>5, <3>2, <3>3
  <2>7. btimes = FoodRounds /\ Kicking = 0 /\ Kicking' = 0 /\ Given' = Given
    BY <1>0, <2>1, <2>6 DEF BirthIsLast, Kicking, Given
  <2>8. Of(queue, 1) = 0 /\ stolen = 0
    <3>1. Given <= FoodRounds - 1
      <4>1. dad = "listen" => dtimes <= FoodRounds - 1
        BY <1>0, <1>1 DEF TwoWait
      <4>2. dtimes - 1 <= FoodRounds - 1 /\ FoodRounds - 1 <= FoodRounds - 1
        BY <1>1
      <4> QED BY <4>1, <4>2 DEF Given
    <3>2. Given = Of(queue, 1) + stolen + (FoodRounds - 1)
      BY <1>0, <1>1, <2>7 DEF FoodAddsUp
    <3> QED BY <1>1, <3>1, <3>2
  <2>9. womb'["baby"] = 99 /\ Of(queue', 1) = 0
    <3>1. womb'["baby"] = 1 => Of(queue', 1) = 0 - 1
      BY <2>2, <2>8 DEF WombTypes
    <3>2. womb'["baby"] = 99 => Of(queue', 1) = 0 - 0
      BY <2>2, <2>8 DEF WombTypes
    <3> QED BY <2>3, <2>5, <3>1, <3>2
  <2>10. Of(queue', 99) = 0 /\ Of(queue', 99) <= 1
    <3>1. Of(queue', 99) = Of(queue, 99) - 1
      BY <2>2, <2>9 DEF WombTypes
    <3>2. Of(queue, 99) <= 1
      BY <1>0 DEF BirthIsLast
    <3> QED BY <1>1, <2>5, <3>1, <3>2
  <2>11. dad # "feed" /\ dad # "listen"
    <3>1. dad = "feed" \/ dad = "listen" => Of(queue, 99) = 0
      BY <1>0 DEF BirthIsLast
    <3>2. Of(queue', 99) = Of(queue, 99) - 1
      BY <2>2, <2>9 DEF WombTypes
    <3> QED BY <2>10, <3>1, <3>2
  <2>12. WombTyped'
    <3>1. womb' \in [{"dad", "baby"} -> {0, 1, 99, 128}]
      BY <1>12, <2>2 DEF WombTypes
    <3> QED BY <1>0, <2>1, <2>2, <3>1 DEF WombTyped
  <2>13. TwoWait'
    <3>1. Len(queue') + 0 <= 2
      BY <2>4
    <3> QED BY <2>1, <2>7, <2>11, <3>1 DEF TwoWait
  <2>14. FoodAddsUp'
    BY <1>0, <2>1, <2>7, <2>8, <2>9 DEF FoodAddsUp
  <2>15. BirthIsLast'
    <3>1. Told'
      BY <2>9 DEF Told
    <3> QED BY <2>1, <2>7, <2>8, <2>9, <2>10, <2>11, <3>1 DEF BirthIsLast
  <2> QED BY <2>12, <2>13, <2>14, <2>15 DEF WombInv
<1>10. CASE Womb!Done \/ Womb!Starved
  <2>1. UNCHANGED <<queue, dad, dtimes, baby, btimes, womb, stolen>>
    BY <1>10 DEF Womb!Done, Womb!Starved, Womb!vars
  <2>2. Kicking' = Kicking /\ Given' = Given
    BY <2>1 DEF Kicking, Given
  <2>3. WombTyped' /\ TwoWait'
    BY <1>0, <2>1, <2>2 DEF WombTyped, TwoWait
  <2>4. FoodAddsUp' /\ BirthIsLast'
    <3>1. Told' <=> Told
      BY <2>1 DEF Told
    <3> QED BY <1>0, <2>1, <2>2, <3>1 DEF FoodAddsUp, BirthIsLast
  <2> QED BY <2>3, <2>4 DEF WombInv
<1> QED BY <1>2, <1>3, <1>4, <1>5, <1>6, <1>7, <1>8, <1>9, <1>10 DEF Womb!Next, Womb!Dad, Womb!Baby

\* Who is born is born of the message of type 99.
LEMMA WombHolds ==
  ASSUME FoodRounds \in Nat \ {0, 1}, WombInv
  PROVE  Womb!BirthInv
<1> USE DEF Womb!Food, Womb!Kick, Womb!Birth
<1>0. WombTyped /\ TwoWait /\ FoodAddsUp /\ BirthIsLast /\ Len(queue) <= 2
  BY TwoAtMost DEF WombInv
<1>11. queue \in Seq(WombMsg)
  BY <1>0 DEF WombTyped
<1>12. womb \in [{"dad", "baby"} -> {0, 1, 99, 128}]
  BY <1>0 DEF WombTyped
<1>1. /\ Len(queue) \in Nat /\ Of(queue, 1) \in Nat
      /\ dtimes \in Nat /\ dtimes <= FoodRounds
      /\ btimes \in Nat /\ btimes >= 1 /\ btimes <= FoodRounds
      /\ stolen \in Nat /\ Kicking \in {0, 1}
  BY <1>0, WombNumbers
<1>2. \A k \in DOMAIN queue : queue[k].signType \in {1, 128, 99}
  <2>1. ASSUME NEW k \in DOMAIN queue
        PROVE  queue[k].signType \in {1, 128, 99}
    <3>1. queue[k] \in WombMsg
      BY <1>11, <2>1
    <3> QED BY <3>1 DEF WombMsg, WombTypes
  <2> QED BY <2>1
<1>3. stolen \in 0 .. FoodRounds /\ Len(queue) <= FoodRounds
  <2>1. Given <= FoodRounds
    <3>1. dtimes - 1 <= FoodRounds /\ FoodRounds - 1 <= FoodRounds
      BY <1>1
    <3> QED BY <1>1, <3>1 DEF Given
  <2>2. stolen <= Given
    BY <1>0, <1>1 DEF FoodAddsUp
  <2>3. FoodRounds \in Nat /\ FoodRounds >= 2 /\ Given \in Int
    BY <1>1 DEF Given
  <2> QED BY <1>0, <1>1, <2>1, <2>2, <2>3
<1>4. \A p \in {"dad", "baby"} : womb[p] \in {0, 1, 128, 99}
  BY <1>12
<1>5. Womb!TypeOK
  BY <1>0, <1>2, <1>3, <1>4 DEF WombTyped, Womb!TypeOK, Womb!QueueHolds
<1>6. Womb!BornOfBirth
  BY <1>0 DEF BirthIsLast, Told, Womb!BornOfBirth
<1> QED BY <1>5, <1>6 DEF Womb!BirthInv

-----------------------------------------------------------------------------
(* Orders and answers.                                                      *)

\* Both programs' queues are read in the same way.
LEMMA HouseholdReceives ==
  ASSUME NEW M, NEW q \in Seq(M), NEW type \in Int, Household!IsThere(q, type)
  PROVE  \E m \in 1 .. Len(q) :
            /\ Household!Oldest(q, type) = q[m] /\ Household!Without(q, type) = Rest(q, m)
            /\ q[m].signType \in Household!Wanted(q, type)
            /\ \A k \in 1 .. m - 1 : q[k].signType \notin Household!Wanted(q, type)
<1>1. Household!Wanted(q, type) = Womb!Wanted(q, type)
  BY DEF Household!Wanted, Womb!Wanted, Household!Types, Womb!Types, Household!Min, Womb!Min
<1>2. Household!Candidates(q, type) = Womb!Candidates(q, type)
  BY <1>1 DEF Household!Candidates, Womb!Candidates
<1>3. /\ Womb!IsThere(q, type)
      /\ Household!Oldest(q, type) = Womb!Oldest(q, type)
      /\ Household!Without(q, type) = Womb!Without(q, type)
  BY <1>2 DEF Household!IsThere, Womb!IsThere, Household!Oldest, Womb!Oldest, Household!Without,
              Womb!Without, Household!Min, Womb!Min, Household!RemoveAt, Womb!RemoveAt
<1> QED BY <1>1, <1>3, WombReceives

OrderMsg == [signType : {1, 2, 3, 6}, text : Nat]

\* What was said of a priority comes before what is said of it now.
Older(a, b)  == a.signType = b.signType /\ a.signType # 6 => a.text < b.text
InOrder(s)   == \A k, l \in 1 .. Len(s) : k < l => Older(s[k], s[l])
AllOlder(s, x) == \A k \in 1 .. Len(s) : Older(s[k], x)

\* What is left is still in order, and what is added last may be the newest.
LEMMA OrderFacts ==
  ASSUME NEW s \in Seq(OrderMsg), InOrder(s)
  PROVE  /\ \A m \in 1 .. Len(s) : InOrder(Rest(s, m))
         /\ \A x \in OrderMsg : AllOlder(s, x) => InOrder(Append(s, x))
<1>1. ASSUME NEW m \in 1 .. Len(s)
      PROVE  InOrder(Rest(s, m))
  <2>1. PICK r : r = Rest(s, m)
    OBVIOUS
  <2>2. PICK n \in Nat : n = Len(s)
    OBVIOUS
  <2>3. /\ Len(r) = n - 1
        /\ \A k \in 1 .. n - 1 : r[k] = IF k < m THEN s[k] ELSE s[k + 1]
    BY <2>1, <2>2, RestFacts
  <2>4. ASSUME NEW k \in 1 .. n - 1
        PROVE  \E a \in 1 .. n : r[k] = s[a] /\ a = (IF k < m THEN k ELSE k + 1)
    <3>1. k \in 1 .. n /\ k + 1 \in 1 .. n
      BY <2>2
    <3> QED BY <2>3, <3>1
  <2>5. ASSUME NEW k \in 1 .. n - 1, NEW l \in 1 .. n - 1, k < l
        PROVE  Older(r[k], r[l])
    <3>1. PICK a \in 1 .. n : r[k] = s[a] /\ a = (IF k < m THEN k ELSE k + 1)
      BY <2>4
    <3>2. PICK b \in 1 .. n : r[l] = s[b] /\ b = (IF l < m THEN l ELSE l + 1)
      BY <2>4
    <3>3. a < b
      <4>1. m \in Nat /\ k \in Nat /\ l \in Nat
        BY <2>2
      <4> QED BY <2>5, <3>1, <3>2, <4>1
    <3> QED BY <2>2, <3>1, <3>2, <3>3 DEF InOrder
  <2> QED BY <2>1, <2>3, <2>5 DEF InOrder
<1>2. ASSUME NEW x \in OrderMsg, AllOlder(s, x)
      PROVE  InOrder(Append(s, x))
  <2>1. PICK r : r = Append(s, x)
    OBVIOUS
  <2>2. PICK n \in Nat : n = Len(s)
    OBVIOUS
  <2>3. Len(r) = n + 1 /\ r[n + 1] = x /\ \A k \in 1 .. n : r[k] = s[k]
    BY <2>1, <2>2
  <2>4. ASSUME NEW k \in 1 .. n + 1, NEW l \in 1 .. n + 1, k < l
        PROVE  Older(r[k], r[l])
    <3>1. k \in 1 .. n /\ r[k] = s[k]
      BY <2>2, <2>3, <2>4
    <3>2. CASE l = n + 1
      BY <1>2, <2>2, <2>3, <3>1, <3>2 DEF AllOlder
    <3>3. CASE l # n + 1
      <4>1. l \in 1 .. n
        BY <2>2, <3>3
      <4> QED BY <2>2, <2>3, <2>4, <3>1, <4>1 DEF InOrder
    <3> QED BY <3>2, <3>3
  <2> QED BY <2>1, <2>3, <2>4 DEF InOrder
<1> QED BY <1>1, <1>2

\* The same of what is older than all of it.
LEMMA AllOlderFacts ==
  ASSUME NEW s \in Seq(OrderMsg), NEW x
  PROVE  /\ AllOlder(s, x) => \A m \in 1 .. Len(s) : AllOlder(Rest(s, m), x)
         /\ \A y \in OrderMsg : AllOlder(s, x) /\ Older(y, x) => AllOlder(Append(s, y), x)
<1>1. ASSUME AllOlder(s, x), NEW m \in 1 .. Len(s)
      PROVE  AllOlder(Rest(s, m), x)
  <2>1. PICK r : r = Rest(s, m)
    OBVIOUS
  <2>2. PICK n \in Nat : n = Len(s)
    OBVIOUS
  <2>3. /\ Len(r) = n - 1
        /\ \A k \in 1 .. n - 1 : r[k] = IF k < m THEN s[k] ELSE s[k + 1]
    BY <2>1, <2>2, RestFacts
  <2>4. ASSUME NEW k \in 1 .. n - 1
        PROVE  Older(r[k], x)
    <3>1. k \in 1 .. n /\ k + 1 \in 1 .. n
      BY <2>2
    <3>2. r[k] = s[k] \/ r[k] = s[k + 1]
      BY <2>3
    <3> QED BY <1>1, <2>2, <3>1, <3>2 DEF AllOlder
  <2> QED BY <2>1, <2>3, <2>4 DEF AllOlder
<1>2. ASSUME NEW y \in OrderMsg, AllOlder(s, x), Older(y, x)
      PROVE  AllOlder(Append(s, y), x)
  <2>1. PICK r : r = Append(s, y)
    OBVIOUS
  <2>2. PICK n \in Nat : n = Len(s)
    OBVIOUS
  <2>3. Len(r) = n + 1 /\ r[n + 1] = y /\ \A k \in 1 .. n : r[k] = s[k]
    BY <2>1, <2>2
  <2>4. ASSUME NEW k \in 1 .. n + 1
        PROVE  Older(r[k], x)
    <3>1. CASE k = n + 1
      BY <1>2, <2>3, <3>1
    <3>2. CASE k # n + 1
      <4>1. k \in 1 .. n
        BY <2>2, <3>2
      <4> QED BY <1>2, <2>2, <2>3, <4>1 DEF AllOlder
    <3> QED BY <3>1, <3>2
  <2> QED BY <2>1, <2>3, <2>4 DEF AllOlder
<1> QED BY <1>1, <1>2

\* What has been sent when the b-th order of the a-th round comes next.
WasSent(m, a, b)  == m.signType # 6 => m.text < IF m.signType < b THEN a + 1 ELSE a
AllSent(s, a, b)  == \A k \in 1 .. Len(s) : WasSent(s[k], a, b)
AllNewer(s, q)    == \A k \in 1 .. Len(q) : AllOlder(s, q[k])

\* The order that comes next is newer than what has been sent, and is sent then.
LEMMA SentFacts ==
  ASSUME NEW m \in OrderMsg, NEW a \in Nat, NEW b \in 1 .. 3, WasSent(m, a, b),
         NEW x \in OrderMsg, x.signType = b, x.text = a
  PROVE  /\ Older(m, x)
         /\ b < 3 => WasSent(m, a, b + 1) /\ WasSent(x, a, b + 1)
         /\ b = 3 => WasSent(m, a + 1, 1) /\ WasSent(x, a + 1, 1)
<1>1. m.text \in Nat /\ m.signType \in Nat /\ b \in Nat
      /\ (m.signType = 1 \/ m.signType = 2 \/ m.signType = 3 \/ m.signType = 6)
      /\ (b = 1 \/ b = 2 \/ b = 3)
  BY DEF OrderMsg
<1>2. Older(m, x)
  BY <1>1 DEF Older, WasSent
<1>3. ASSUME b < 3
      PROVE  WasSent(m, a, b + 1) /\ WasSent(x, a, b + 1)
  <2>1. WasSent(m, a, b + 1)
    BY <1>1, <1>3 DEF WasSent
  <2>2. WasSent(x, a, b + 1)
    BY <1>1, <1>3 DEF WasSent
  <2> QED BY <2>1, <2>2
<1>4. ASSUME b = 3
      PROVE  WasSent(m, a + 1, 1) /\ WasSent(x, a + 1, 1)
  <2>1. WasSent(m, a + 1, 1)
    <3>1. m.signType # 6 => m.text < a + 1
      BY <1>1, <1>4 DEF WasSent
    <3>2. ~(m.signType < 1)
      BY <1>1
    <3> QED BY <3>1, <3>2 DEF WasSent
  <2>2. WasSent(x, a + 1, 1)
    BY <1>1, <1>4 DEF WasSent
  <2> QED BY <2>1, <2>2
<1> QED BY <1>2, <1>3, <1>4

\* What holds of all messages still does when one is added, or taken.
LEMMA AllSentFacts ==
  ASSUME NEW s \in Seq(OrderMsg), NEW a \in Nat, NEW b \in 1 .. 3, AllSent(s, a, b)
  PROVE  /\ \A m \in 1 .. Len(s) : AllSent(Rest(s, m), a, b)
         /\ \A y \in OrderMsg : WasSent(y, a, b) => AllSent(Append(s, y), a, b)
<1>1. PICK n \in Nat : n = Len(s)
  OBVIOUS
<1>2. ASSUME NEW m \in 1 .. Len(s)
      PROVE  AllSent(Rest(s, m), a, b)
  <2>1. PICK r : r = Rest(s, m)
    OBVIOUS
  <2>2. /\ Len(r) = n - 1
        /\ \A k \in 1 .. n - 1 : r[k] = IF k < m THEN s[k] ELSE s[k + 1]
    BY <1>1, <2>1, RestFacts
  <2>3. ASSUME NEW k \in 1 .. n - 1
        PROVE  WasSent(r[k], a, b)
    <3>1. k \in 1 .. n /\ k + 1 \in 1 .. n
      BY <1>1
    <3>2. r[k] = s[k] \/ r[k] = s[k + 1]
      BY <2>2
    <3> QED BY <1>1, <3>1, <3>2 DEF AllSent
  <2> QED BY <2>1, <2>2, <2>3 DEF AllSent
<1>3. ASSUME NEW y \in OrderMsg, WasSent(y, a, b)
      PROVE  AllSent(Append(s, y), a, b)
  <2>1. PICK r : r = Append(s, y)
    OBVIOUS
  <2>2. Len(r) = n + 1 /\ r[n + 1] = y /\ \A k \in 1 .. n : r[k] = s[k]
    BY <1>1, <2>1
  <2>3. ASSUME NEW k \in 1 .. n + 1
        PROVE  WasSent(r[k], a, b)
    <3>1. CASE k = n + 1
      BY <1>3, <2>2, <3>1
    <3>2. CASE k # n + 1
      <4>1. k \in 1 .. n
        BY <1>1, <3>2
      <4> QED BY <1>1, <2>2, <4>1 DEF AllSent
    <3> QED BY <3>1, <3>2
  <2> QED BY <2>1, <2>2, <2>3 DEF AllSent
<1> QED BY <1>2, <1>3

\* So does that all of a queue is newer than what was taken from it, if what is taken
\* is the first of its priority.
LEMMA NewerFacts ==
  ASSUME NEW s \in Seq(OrderMsg), NEW q \in Seq(OrderMsg), AllNewer(s, q)
  PROVE  /\ \A m \in 1 .. Len(q) : AllNewer(s, Rest(q, m))
         /\ \A y \in OrderMsg : AllOlder(s, y) => AllNewer(s, Append(q, y))
         /\ \A m \in 1 .. Len(q) :
              InOrder(q) /\ (\A k \in 1 .. m - 1 : q[k].signType # q[m].signType)
                => AllNewer(Append(s, q[m]), Rest(q, m))
<1>1. PICK n \in Nat : n = Len(q)
  OBVIOUS
<1>2. ASSUME NEW m \in 1 .. n, NEW k \in 1 .. n - 1
      PROVE  \/ k < m /\ k \in 1 .. n /\ k \in 1 .. m - 1 /\ Rest(q, m)[k] = q[k]
             \/ m < k + 1 /\ k + 1 \in 1 .. n /\ Rest(q, m)[k] = q[k + 1]
  <2>1. Rest(q, m)[k] = IF k < m THEN q[k] ELSE q[k + 1]
    BY <1>1, RestFacts
  <2>2. k \in Nat /\ m \in Nat /\ k \in 1 .. n /\ k + 1 \in 1 .. n
    BY <1>1
  <2>3. CASE k < m
    BY <2>1, <2>2, <2>3
  <2>4. CASE ~(k < m)
    BY <2>1, <2>2, <2>4
  <2> QED BY <2>3, <2>4
<1>3. \A m \in 1 .. n : Len(Rest(q, m)) = n - 1
  BY <1>1, RestFacts
<1>4. ASSUME NEW m \in 1 .. n
      PROVE  AllNewer(s, Rest(q, m))
  <2>1. ASSUME NEW k \in 1 .. n - 1
        PROVE  AllOlder(s, Rest(q, m)[k])
    BY <1>1, <1>2 DEF AllNewer
  <2> QED BY <1>3, <2>1 DEF AllNewer
<1>5. ASSUME NEW y \in OrderMsg, AllOlder(s, y)
      PROVE  AllNewer(s, Append(q, y))
  <2>1. PICK r : r = Append(q, y)
    OBVIOUS
  <2>2. Len(r) = n + 1 /\ r[n + 1] = y /\ \A k \in 1 .. n : r[k] = q[k]
    BY <1>1, <2>1
  <2>3. ASSUME NEW k \in 1 .. n + 1
        PROVE  AllOlder(s, r[k])
    <3>1. CASE k = n + 1
      BY <1>5, <2>2, <3>1
    <3>2. CASE k # n + 1
      <4>1. k \in 1 .. n
        BY <1>1, <3>2
      <4> QED BY <1>1, <2>2, <4>1 DEF AllNewer
    <3> QED BY <3>1, <3>2
  <2> QED BY <2>1, <2>2, <2>3 DEF AllNewer
<1>6. ASSUME NEW m \in 1 .. n, InOrder(q), \A k \in 1 .. m - 1 : q[k].signType # q[m].signType
      PROVE  AllNewer(Append(s, q[m]), Rest(q, m))
  <2>1. q[m] \in OrderMsg
    BY <1>1
  <2>2. ASSUME NEW k \in 1 .. n - 1
        PROVE  AllOlder(Append(s, q[m]), Rest(q, m)[k])
    <3>1. AllOlder(s, Rest(q, m)[k])
      BY <1>1, <1>2 DEF AllNewer
    <3>2. Older(q[m], Rest(q, m)[k])
      <4>1. CASE k \in 1 .. m - 1 /\ Rest(q, m)[k] = q[k]
        BY <1>6, <4>1 DEF Older
      <4>2. CASE m < k + 1 /\ k + 1 \in 1 .. n /\ Rest(q, m)[k] = q[k + 1]
        BY <1>1, <1>6, <4>2 DEF InOrder
      <4> QED BY <1>2, <4>1, <4>2
    <3> QED BY <2>1, <3>1, <3>2, AllOlderFacts
  <2> QED BY <1>3, <2>2 DEF AllNewer
<1> QED BY <1>1, <1>4, <1>5, <1>6

HouseTyped ==
    /\ exists \in BOOLEAN /\ queue \in Seq(OrderMsg) /\ obeyed \in Seq(OrderMsg)
    /\ darling \in {"off", "order", "wait", "remove"} /\ me \in {"off", "obey", "answer"}
    /\ i \in 1 .. OrderRounds /\ j \in 1 .. 3
    /\ darlings \in 0 .. Starts /\ mes \in 0 .. Starts /\ qid \in 0 .. darlings
    /\ \A k \in 1 .. Len(obeyed) : obeyed[k].signType # 6

\* The queue is there as long as darling runs, and she starts with an empty one.
HouseOpen == /\ ~exists => queue = <<>>
             /\ darling = "off" => ~exists
             /\ darling # "off" => exists

\* The orders in the queue, and those obeyed, are in order; what me still finds in his
\* queue is newer than what he has taken from it, and darling's next order newer than
\* both.
HouseLine ==
    /\ InOrder(queue) /\ InOrder(obeyed)
    /\ darling = "order" => AllSent(queue, i, j)
    /\ me = "obey" /\ Household!Found => AllNewer(obeyed, queue)
    /\ me = "obey" /\ Household!Found /\ darling = "order" => AllSent(obeyed, i, j)

HouseInv == HouseTyped /\ HouseOpen /\ HouseLine

\* What me receives is the oldest order of the highest priority that is there.
LEMMA OrderIsTaken ==
  ASSUME queue \in Seq(OrderMsg), Household!IsThere(queue, -3)
  PROVE  \E m \in 1 .. Len(queue) :
            /\ Household!Oldest(queue, -3) = queue[m]
            /\ Household!Without(queue, -3) = Rest(queue, m)
            /\ queue[m].signType # 6
            /\ \A k \in 1 .. m - 1 : queue[k].signType # queue[m].signType
<1>1. -3 \in Int
  OBVIOUS
<1>2. PICK m \in 1 .. Len(queue) :
        /\ Household!Oldest(queue, -3) = queue[m] /\ Household!Without(queue, -3) = Rest(queue, m)
        /\ queue[m].signType \in Household!Wanted(queue, -3)
        /\ \A k \in 1 .. m - 1 : queue[k].signType \notin Household!Wanted(queue, -3)
  BY <1>1, HouseholdReceives
<1>3. \A k \in 1 .. m - 1 : queue[k].signType # queue[m].signType
  BY <1>2
<1>4. PICK low : low = {t \in Household!Types(queue) : t <= 3}
  OBVIOUS
<1>5. queue[m].signType \in IF low = {} THEN {} ELSE {First(low)}
  <2>1. \A n \in Nat : ~(-n > 0) /\ -(-n) = n
    OBVIOUS
  <2>2. ~(-3 > 0) /\ -(-3) = 3
    BY <2>1
  <2> QED BY <1>2, <1>4, <2>2 DEF Household!Wanted, Household!Min, First
<1>6. low \in SUBSET Nat
  <2>1. ASSUME NEW k \in DOMAIN queue
        PROVE  queue[k].signType \in Nat
    <3>1. queue[k] \in OrderMsg
      BY <2>1
    <3> QED BY <3>1 DEF OrderMsg
  <2> QED BY <1>4, <2>1 DEF Household!Types
<1>7. queue[m].signType \in low
  BY <1>5, <1>6, FirstFacts
<1>8. queue[m].signType # 6
  <2>1. queue[m].signType <= 3
    BY <1>4, <1>7
  <2>2. ~(6 <= 3)
    OBVIOUS
  <2> QED BY <2>1, <2>2
<1> QED BY <1>2, <1>3, <1>8

\* The steps of both keep it.
LEMMA HouseSteps ==
  ASSUME OrderRounds \in Nat \ {0}, Starts \in Nat \ {0}, HouseInv, Household!Next
  PROVE  HouseInv'
<1> USE DEF Household!darlingVars, Household!meVars
<1>1. HouseTyped /\ HouseOpen /\ HouseLine
  BY DEF HouseInv
<1>2. /\ queue \in Seq(OrderMsg) /\ obeyed \in Seq(OrderMsg)
      /\ \A k \in 1 .. Len(obeyed) : obeyed[k].signType # 6
  BY <1>1 DEF HouseTyped
<1>3. i \in 1 .. OrderRounds /\ j \in 1 .. 3
  BY <1>1 DEF HouseTyped
<1>4. darlings \in 0 .. Starts /\ mes \in 0 .. Starts /\ qid \in 0 .. darlings
  BY <1>1 DEF HouseTyped
<1>5. InOrder(queue) /\ InOrder(obeyed)
  BY <1>1 DEF HouseLine
<1>6. CASE Household!Marry
  <2>1. /\ darling = "off" /\ darlings < Starts /\ darlings' = darlings + 1
        /\ exists' = TRUE /\ darling' = "order" /\ i' = 1 /\ j' = 1
        /\ UNCHANGED <<queue, me, qid, mes, obeyed>>
    BY <1>6 DEF Household!Marry
  <2>2. darlings' \in 0 .. Starts /\ qid' \in 0 .. darlings' /\ qid # darlings'
    BY <1>4, <2>1
  <2>3. i' \in 1 .. OrderRounds /\ j' \in 1 .. 3
    BY <2>1
  <2>4. HouseTyped'
    BY <1>1, <2>1, <2>2, <2>3 DEF HouseTyped
  <2>5. HouseOpen'
    BY <1>1, <2>1 DEF HouseOpen
  <2>6. ~Household!Found'
    BY <2>1, <2>2 DEF Household!Found
  <2>7. queue = <<>>
    BY <1>1, <2>1 DEF HouseOpen
  <2>8. AllSent(queue', i', j')
    BY <2>1, <2>7 DEF AllSent
  <2>9. HouseLine'
    BY <1>5, <2>1, <2>6, <2>8 DEF HouseLine
  <2> QED BY <2>4, <2>5, <2>9 DEF HouseInv
<1>7. CASE Household!Order
  <2>1. PICK x : x = Household!Message(j, i)
    OBVIOUS
  <2>2. /\ darling = "order" /\ queue' = Append(queue, x)
        /\ j < 3 => j' = j + 1 /\ i' = i /\ darling' = "order"
        /\ ~(j < 3) => /\ j' = 1
                       /\ i < OrderRounds => i' = i + 1 /\ darling' = "order"
                       /\ ~(i < OrderRounds) => i' = 1 /\ darling' = "wait"
        /\ UNCHANGED <<exists, darlings, me, qid, mes, obeyed>>
    BY <1>7, <2>1 DEF Household!Order
  <2>3. x \in OrderMsg /\ x.signType = j /\ x.text = i
    <3>1. j \in {1, 2, 3, 6} /\ i \in Nat
      BY <1>3
    <3> QED BY <2>1, <3>1 DEF Household!Message, OrderMsg
  <2>4. queue' \in Seq(OrderMsg) /\ i' \in 1 .. OrderRounds /\ j' \in 1 .. 3
        /\ (darling' = "order" \/ darling' = "wait")
    <3>1. queue' \in Seq(OrderMsg)
      BY <1>2, <2>2, <2>3
    <3>2. CASE j < 3
      BY <1>3, <2>2, <3>1, <3>2
    <3>3. CASE ~(j < 3) /\ i < OrderRounds
      BY <1>3, <2>2, <3>1, <3>3
    <3>4. CASE ~(j < 3) /\ ~(i < OrderRounds)
      BY <1>3, <2>2, <3>1, <3>4
    <3> QED BY <3>2, <3>3, <3>4
  <2>5. HouseTyped'
    BY <1>1, <2>2, <2>4 DEF HouseTyped
  <2>6. HouseOpen'
    <3>1. exists /\ exists' /\ darling' # "off"
      BY <1>1, <2>2, <2>4 DEF HouseOpen
    <3> QED BY <3>1 DEF HouseOpen
  <2>7. AllSent(queue, i, j)
    BY <1>1, <2>2 DEF HouseLine
  <2>8. ASSUME NEW m \in OrderMsg, WasSent(m, i, j)
        PROVE  /\ Older(m, x)
               /\ darling' = "order" => WasSent(m, i', j') /\ WasSent(x, i', j')
    <3>1. i \in Nat /\ j \in 1 .. 3 /\ (j = 3 \/ j < 3)
      BY <1>3
    <3>2. /\ Older(m, x)
          /\ j < 3 => WasSent(m, i, j + 1) /\ WasSent(x, i, j + 1)
          /\ j = 3 => WasSent(m, i + 1, 1) /\ WasSent(x, i + 1, 1)
      BY <2>3, <2>8, <3>1, SentFacts
    <3>3. j = 3 => ~(j < 3)
      BY <1>3
    <3>4. darling' = "order" /\ j = 3 => i' = i + 1 /\ j' = 1
      BY <2>2, <3>3
    <3> QED BY <2>2, <3>1, <3>2, <3>4
  <2>9. ASSUME NEW s \in Seq(OrderMsg), AllSent(s, i, j)
        PROVE  AllOlder(s, x) /\ (darling' = "order" => AllSent(s, i', j'))
    <3>1. \A k \in 1 .. Len(s) : s[k] \in OrderMsg /\ WasSent(s[k], i, j)
      BY <2>9 DEF AllSent
    <3> QED BY <2>8, <3>1 DEF AllOlder, AllSent
  <2>10. AllOlder(queue, x) /\ (darling' = "order" => AllSent(queue, i', j'))
    BY <1>2, <2>7, <2>9
  <2>11. InOrder(queue')
    BY <1>2, <1>5, <2>2, <2>3, <2>10, OrderFacts
  <2>12. darling' = "order" => AllSent(queue', i', j')
    <3>1. SUFFICES ASSUME darling' = "order" PROVE AllSent(queue', i', j')
      OBVIOUS
    <3>2. WasSent(x, i', j')
      <4>1. WasSent([signType |-> 6, text |-> 0], i, j) /\ [signType |-> 6, text |-> 0] \in OrderMsg
        BY DEF WasSent, OrderMsg
      <4> QED BY <2>8, <3>1, <4>1
    <3>3. i' \in Nat
      BY <2>4
    <3> QED BY <1>2, <2>2, <2>3, <2>4, <2>10, <3>1, <3>2, <3>3, AllSentFacts
  <2>13. Household!Found' <=> Household!Found
    BY <2>2 DEF Household!Found
  <2>14. ASSUME me = "obey", Household!Found
         PROVE  AllNewer(obeyed, queue') /\ (darling' = "order" => AllSent(obeyed, i', j'))
    <3>1. AllNewer(obeyed, queue) /\ AllSent(obeyed, i, j)
      BY <1>1, <2>2, <2>14 DEF HouseLine
    <3>2. AllOlder(obeyed, x) /\ (darling' = "order" => AllSent(obeyed, i', j'))
      BY <1>2, <2>9, <3>1
    <3> QED BY <1>2, <2>2, <2>3, <3>1, <3>2, NewerFacts
  <2>15. HouseLine'
    BY <1>5, <2>2, <2>11, <2>12, <2>13, <2>14 DEF HouseLine
  <2> QED BY <2>5, <2>6, <2>15 DEF HouseInv
<1>8. CASE Household!HearAnswer
  <2>1. /\ darling = "wait" /\ Household!IsThere(queue, 6) /\ queue' = Household!Without(queue, 6)
        /\ darling' = "remove"
        /\ UNCHANGED <<exists, i, j, darlings, me, qid, mes, obeyed>>
    BY <1>8 DEF Household!HearAnswer, Household!Answer
  <2>2. PICK m \in 1 .. Len(queue) : queue' = Rest(queue, m)
    BY <1>2, <2>1, HouseholdReceives
  <2>3. queue' \in Seq(OrderMsg)
    BY <1>2, <2>2, RestFacts
  <2>4. HouseTyped'
    BY <1>1, <2>1, <2>3 DEF HouseTyped
  <2>5. HouseOpen'
    <3>1. exists /\ exists'
      BY <1>1, <2>1 DEF HouseOpen
    <3> QED BY <2>1, <3>1 DEF HouseOpen
  <2>6. InOrder(queue')
    BY <1>2, <1>5, <2>2, OrderFacts
  <2>7. Household!Found' <=> Household!Found
    BY <2>1 DEF Household!Found
  <2>8. me = "obey" /\ Household!Found => AllNewer(obeyed, queue')
    BY <1>1, <1>2, <2>2, NewerFacts DEF HouseLine
  <2>9. HouseLine'
    BY <1>5, <2>1, <2>6, <2>7, <2>8 DEF HouseLine
  <2> QED BY <2>4, <2>5, <2>9 DEF HouseInv
<1>9. CASE Household!RemoveQueue
  <2>1. /\ darling = "remove" /\ exists' = FALSE /\ queue' = <<>> /\ darling' = "off"
        /\ UNCHANGED <<i, j, darlings, me, qid, mes, obeyed>>
    BY <1>9 DEF Household!RemoveQueue
  <2>2. HouseTyped'
    <3>1. queue' \in Seq(OrderMsg)
      BY <2>1
    <3>2. exists' \in BOOLEAN /\ darling' \in {"off", "order", "wait", "remove"}
      BY <2>1
    <3> QED BY <1>1, <2>1, <3>1, <3>2 DEF HouseTyped
  <2>3. HouseOpen' /\ ~Household!Found'
    BY <2>1 DEF HouseOpen, Household!Found
  <2>4. InOrder(queue')
    BY <2>1 DEF InOrder
  <2>5. HouseLine'
    BY <1>5, <2>1, <2>3, <2>4 DEF HouseLine
  <2> QED BY <2>2, <2>3, <2>5 DEF HouseInv
<1>10. CASE Household!ComeHome
  <2>1. /\ me = "off" /\ mes < Starts /\ mes' = mes + 1 /\ qid' = darlings /\ me' = "obey"
        /\ obeyed' = <<>> /\ UNCHANGED <<exists, queue, darling, i, j, darlings>>
    BY <1>10 DEF Household!ComeHome
  <2>2. mes' \in 0 .. Starts /\ qid' \in 0 .. darlings'
    BY <1>4, <2>1
  <2>3. obeyed' \in Seq(OrderMsg) /\ Len(obeyed') = 0
    BY <2>1
  <2>4. HouseTyped'
    BY <1>1, <2>1, <2>2, <2>3 DEF HouseTyped
  <2>5. HouseOpen'
    BY <1>1, <2>1 DEF HouseOpen
  <2>6. /\ InOrder(obeyed') /\ AllSent(obeyed', i', j') /\ \A x : AllOlder(obeyed', x)
    BY <2>3 DEF InOrder, AllSent, AllOlder
  <2>7. AllNewer(obeyed', queue')
    BY <2>6 DEF AllNewer
  <2>8. HouseLine'
    BY <1>1, <1>5, <2>1, <2>6, <2>7 DEF HouseLine
  <2> QED BY <2>4, <2>5, <2>8 DEF HouseInv
<1>11. CASE Household!Obey
  <2>1. /\ me = "obey" /\ Household!Found /\ Household!IsThere(queue, -3)
        /\ obeyed' = Append(obeyed, Household!Oldest(queue, -3))
        /\ queue' = Household!Without(queue, -3)
        /\ UNCHANGED <<exists, me, qid, mes, darling, i, j, darlings>>
    BY <1>11 DEF Household!Obey
  <2>2. PICK m \in 1 .. Len(queue) :
          /\ Household!Oldest(queue, -3) = queue[m]
          /\ Household!Without(queue, -3) = Rest(queue, m)
          /\ queue[m].signType # 6
          /\ \A k \in 1 .. m - 1 : queue[k].signType # queue[m].signType
    BY <1>2, <2>1, OrderIsTaken
  <2>3. obeyed' = Append(obeyed, queue[m]) /\ queue' = Rest(queue, m) /\ queue[m] \in OrderMsg
    BY <1>2, <2>1, <2>2, RestFacts
  <2>4. queue' \in Seq(OrderMsg) /\ obeyed' \in Seq(OrderMsg)
    BY <1>2, <2>3, RestFacts
  <2>5. \A k \in 1 .. Len(obeyed') : obeyed'[k].signType # 6
    <3>1. PICK n \in Nat : n = Len(obeyed)
      BY <1>2
    <3>2. Len(obeyed') = n + 1 /\ obeyed'[n + 1] = queue[m] /\ \A k \in 1 .. n : obeyed'[k] = obeyed[k]
      BY <1>2, <2>3, <3>1
    <3>3. ASSUME NEW k \in 1 .. n + 1
          PROVE  obeyed'[k].signType # 6
      <4>1. CASE k = n + 1
        BY <2>2, <3>2, <4>1
      <4>2. CASE k # n + 1
        <5>1. k \in 1 .. n
          BY <3>1, <4>2
        <5> QED BY <1>2, <3>1, <3>2, <5>1
      <4> QED BY <4>1, <4>2
    <3> QED BY <3>2, <3>3
  <2>6. HouseTyped'
    BY <1>1, <2>1, <2>4, <2>5 DEF HouseTyped
  <2>7. HouseOpen'
    <3>1. exists /\ exists'
      BY <2>1 DEF Household!Found
    <3> QED BY <1>1, <2>1, <3>1 DEF HouseOpen
  <2>8. AllNewer(obeyed, queue) /\ (darling = "order" => AllSent(obeyed, i, j) /\ AllSent(queue, i, j))
    BY <1>1, <2>1 DEF HouseLine
  <2>9. InOrder(queue')
    BY <1>2, <1>5, <2>3, OrderFacts
  <2>10. InOrder(obeyed')
    <3>1. AllOlder(obeyed, queue[m])
      BY <2>8 DEF AllNewer
    <3> QED BY <1>2, <1>5, <2>3, <3>1, OrderFacts
  <2>11. AllNewer(obeyed', queue')
    BY <1>2, <1>5, <2>2, <2>3, <2>8, NewerFacts
  <2>12. darling = "order" => AllSent(queue', i, j) /\ AllSent(obeyed', i, j)
    <3>1. SUFFICES ASSUME darling = "order" PROVE AllSent(queue', i, j) /\ AllSent(obeyed', i, j)
      OBVIOUS
    <3>2. WasSent(queue[m], i, j)
      BY <2>8, <3>1 DEF AllSent
    <3>3. i \in Nat
      BY <1>3
    <3>4. AllSent(queue', i, j)
      BY <1>2, <1>3, <2>3, <2>8, <3>1, <3>3, AllSentFacts
    <3>5. AllSent(obeyed', i, j)
      BY <1>2, <1>3, <2>3, <2>8, <3>1, <3>2, <3>3, AllSentFacts
    <3> QED BY <3>4, <3>5
  <2>13. HouseLine'
    BY <2>1, <2>9, <2>10, <2>11, <2>12 DEF HouseLine
  <2> QED BY <2>6, <2>7, <2>13 DEF HouseInv
<1>12. CASE Household!SayAllReceived
  <2>1. /\ me' = "answer"
        /\ UNCHANGED <<exists, queue, qid, mes, obeyed, darling, i, j, darlings>>
    BY <1>12 DEF Household!SayAllReceived
  <2>2. HouseTyped' /\ HouseOpen' /\ HouseLine'
    BY <1>1, <2>1 DEF HouseTyped, HouseOpen, HouseLine
  <2> QED BY <2>2 DEF HouseInv
<1>13. CASE Household!Reply
  <2>1. PICK y : y = Household!Message(6, 1)
    OBVIOUS
  <2>2. /\ me' = "off"
        /\ queue' = IF Household!Found THEN Append(queue, y) ELSE queue
        /\ UNCHANGED <<exists, qid, mes, obeyed, darling, i, j, darlings>>
    BY <1>13, <2>1 DEF Household!Reply, Household!Answer
  <2>3. y \in OrderMsg /\ y.signType = 6
    BY <2>1 DEF Household!Message, OrderMsg
  <2>4. /\ queue' \in Seq(OrderMsg) /\ InOrder(queue')
        /\ AllSent(queue, i, j) => AllSent(queue', i, j)
        /\ ~exists => queue' = queue
    <3>1. CASE Household!Found
      <4>1. queue' = Append(queue, y) /\ exists
        BY <2>2, <3>1 DEF Household!Found
      <4>2. AllOlder(queue, y) /\ WasSent(y, i, j)
        BY <2>3 DEF AllOlder, Older, WasSent
      <4>3. i \in Nat
        BY <1>3
      <4>4. queue' \in Seq(OrderMsg)
        BY <1>2, <2>3, <4>1
      <4>5. InOrder(queue')
        BY <1>2, <1>5, <2>3, <4>1, <4>2, OrderFacts
      <4>6. AllSent(queue, i, j) => AllSent(queue', i, j)
        BY <1>2, <1>3, <2>3, <4>1, <4>2, <4>3, AllSentFacts
      <4> QED BY <4>1, <4>4, <4>5, <4>6
    <3>2. CASE ~Household!Found
      BY <1>2, <1>5, <2>2, <3>2
    <3> QED BY <3>1, <3>2
  <2>5. HouseTyped'
    BY <1>1, <2>2, <2>4 DEF HouseTyped
  <2>6. HouseOpen'
    BY <1>1, <2>2, <2>4 DEF HouseOpen
  <2>7. HouseLine'
    BY <1>1, <1>5, <2>2, <2>4 DEF HouseLine
  <2> QED BY <2>5, <2>6, <2>7 DEF HouseInv
<1>14. CASE Household!Over
  <2>1. UNCHANGED <<exists, queue, darling, i, j, me, qid, darlings, mes, obeyed>>
    BY <1>14 DEF Household!Over, Household!vars
  <2>2. HouseTyped' /\ HouseOpen' /\ HouseLine'
    BY <1>1, <2>1 DEF HouseTyped, HouseOpen, HouseLine, Household!Found
  <2> QED BY <2>2 DEF HouseInv
<1> QED BY <1>6, <1>7, <1>8, <1>9, <1>10, <1>11, <1>12, <1>13, <1>14
        DEF Household!Next, Household!Darling, Household!Me

\* Orders keep their order.
LEMMA HouseHolds ==
  ASSUME HouseInv
  PROVE  Household!OrdersInv
<1>1. HouseTyped /\ HouseOpen /\ InOrder(obeyed)
  BY DEF HouseInv, HouseLine
<1>2. ASSUME NEW k \in 1 .. Len(obeyed)
      PROVE  obeyed[k].signType \in 1 .. 3 /\ obeyed[k].signType # 6
  <2>1. obeyed[k] \in OrderMsg /\ obeyed[k].signType # 6
    BY <1>1 DEF HouseTyped
  <2> QED BY <2>1 DEF OrderMsg
<1>3. DOMAIN obeyed = 1 .. Len(obeyed)
  BY <1>1 DEF HouseTyped
<1>4. Household!TypeOK
  BY <1>1, <1>2, <1>3 DEF HouseTyped, HouseOpen, Household!TypeOK, Household!Priorities
<1>5. Household!OrdersKeepTheirOrder
  BY <1>1, <1>2, <1>3 DEF InOrder, Older, Household!OrdersKeepTheirOrder
<1> QED BY <1>4, <1>5 DEF Household!OrdersInv

-----------------------------------------------------------------------------
(* The pipe filter.                                                         *)

Text == Seq(STRING)
HitsTo(p) == {e \in Filter!Hits : e <= p}

FilterTyped ==
    /\ output \in Text /\ chars \in Text /\ part \in Text /\ line \in Text /\ printed \in Seq(Text)
    /\ sent \in 0 .. Len(output) /\ room \in Nat \ {0} /\ Len(line) <= room
    /\ ps \in {"on", "gone", "failed"} /\ parent \in {"start", "read", "wait", "done"}

\* When all is over nothing is left; the child has the pipe open until it ends.
FilterOver == /\ ps = "gone" => sent = Len(output)
              /\ ps = "on" => "child" \in writers
              /\ parent \in {"wait", "done"} => part = <<>> /\ chars = <<>> /\ ps # "on"

\* p characters have been cut: what follows them is what was read, then what is in
\* the pipe.
FlowsFrom(p) == /\ p + Len(part) + Len(chars) = sent
                /\ \A k \in 1 .. Len(part) : part[k] = output[p + k]
                /\ \A k \in 1 .. Len(chars) : chars[k] = output[p + Len(part) + k]

\* The buffer holds what stands after the last end of line.
LineAt(p) == \E from \in 0 .. p : /\ from = 0 \/ from \in Filter!Ends
                                  /\ \A k \in Filter!Ends : k <= p => k <= from
                                  /\ line = SubSeq(output, from + 1, p)

\* The lines so far that match have been printed, each in its place.
PrintedAt(p) ==
    /\ Len(printed) = Cardinality(HitsTo(p))
    /\ \A n \in 1 .. Len(printed) :
          \E e \in HitsTo(p) : Cardinality(HitsTo(e)) = n /\ printed[n] = Filter!LineTo(e)

FilterInv == /\ FilterTyped /\ FilterOver
             /\ \E p \in 0 .. Len(output) : FlowsFrom(p) /\ LineAt(p) /\ PrintedAt(p)

\* What is asked of the output remains while the output does.
LEMMA SameOutput ==
  ASSUME output' = output
  PROVE  /\ Filter!Ends' = Filter!Ends /\ Filter!Hits' = Filter!Hits
         /\ \A e : Filter!LineTo(e)' = Filter!LineTo(e)
<1>1. Filter!Ends' = Filter!Ends
  BY DEF Filter!Ends
<1>2. \A e : Filter!LineTo(e)' = Filter!LineTo(e)
  BY <1>1 DEF Filter!LineTo
<1>3. Filter!Hits' = Filter!Hits
  BY <1>1, <1>2 DEF Filter!Hits
<1> QED BY <1>1, <1>2, <1>3

\* So do the buffer's and the printed lines' places.
LEMMA SameLines ==
  ASSUME output' = output, line' = line, printed' = printed, NEW p, LineAt(p), PrintedAt(p)
  PROVE  LineAt(p)' /\ PrintedAt(p)'
<1>1. LineAt(p)'
  BY SameOutput DEF LineAt
<1>2. \A e : HitsTo(e)' = HitsTo(e)
  BY SameOutput DEF HitsTo
<1>3. PrintedAt(p)'
  BY <1>2, SameOutput DEF PrintedAt
<1> QED BY <1>1, <1>3

\* The lines that match are numbered from one, in their order.
LEMMA HitsFacts ==
  ASSUME output \in Text
  PROVE  /\ Filter!Ends \in SUBSET Nat /\ Filter!Hits \in SUBSET Filter!Ends
         /\ Filter!Hits \in SUBSET (1 .. Len(output)) /\ IsFiniteSet(Filter!Hits)
         /\ \A p : IsFiniteSet(HitsTo(p)) /\ Cardinality(HitsTo(p)) \in Nat
         /\ \A e, d \in Filter!Hits : e < d => Cardinality(HitsTo(e)) < Cardinality(HitsTo(d))
<1>1. Len(output) \in Nat /\ DOMAIN output = 1 .. Len(output)
  BY DEF Text
<1>2. Filter!Ends \in SUBSET (1 .. Len(output)) /\ Filter!Hits \in SUBSET Filter!Ends
  BY <1>1 DEF Filter!Ends, Filter!Hits
<1>3. IsFiniteSet(Filter!Hits)
  <2>1. IsFiniteSet(1 .. Len(output))
    BY <1>1, FS_Interval
  <2> QED BY <1>2, <2>1, FS_Subset
<1>4. ASSUME NEW p
      PROVE  IsFiniteSet(HitsTo(p)) /\ Cardinality(HitsTo(p)) \in Nat
  <2>1. HitsTo(p) \in SUBSET Filter!Hits
    BY DEF HitsTo
  <2> QED BY <1>3, <2>1, FS_Subset, FS_CardinalityType
<1>5. ASSUME NEW e \in Filter!Hits, NEW d \in Filter!Hits, e < d
      PROVE  Cardinality(HitsTo(e)) < Cardinality(HitsTo(d))
  <2>1. e \in Nat /\ d \in Nat
    BY <1>1, <1>2
  <2>2. HitsTo(e) \in SUBSET HitsTo(d)
    <3>1. \A k \in Filter!Hits : k \in Nat
      BY <1>1, <1>2
    <3>2. ASSUME NEW k \in Filter!Hits, k <= e
          PROVE  k <= d
      BY <1>5, <2>1, <3>1, <3>2
    <3> QED BY <3>2 DEF HitsTo
  <2>3. d \in HitsTo(d) /\ d \notin HitsTo(e)
    BY <1>5, <2>1 DEF HitsTo
  <2>4. Cardinality(HitsTo(e)) <= Cardinality(HitsTo(d)) /\ Cardinality(HitsTo(e)) # Cardinality(HitsTo(d))
    BY <1>4, <2>2, <2>3, FS_Subset
  <2> QED BY <1>4, <2>4
<1>6. Filter!Ends \in SUBSET Nat
  BY <1>1, <1>2
<1> QED BY <1>2, <1>3, <1>4, <1>5, <1>6

\* The line that ends where an end of line stands is what the buffer holds.
LEMMA LineEnds ==
  ASSUME output \in Text, NEW p \in Nat, LineAt(p)
  PROVE  Filter!LineTo(p + 1) = line
<1>1. PICK from \in 0 .. p : /\ from = 0 \/ from \in Filter!Ends
                             /\ \A k \in Filter!Ends : k <= p => k <= from
                             /\ line = SubSeq(output, from + 1, p)
  BY DEF LineAt
<1>2. PICK before : before = {k \in Filter!Ends : k < p + 1}
  OBVIOUS
<1>3. PICK start : start = IF before = {} THEN 0
                           ELSE CHOOSE k \in before : \A l \in before : l <= k
  OBVIOUS
<1>4. Filter!LineTo(p + 1) = SubSeq(output, start + 1, (p + 1) - 1)
  BY <1>2, <1>3 DEF Filter!LineTo
<1>5. (p + 1) - 1 = p
  OBVIOUS
<1>6. \A k \in Filter!Ends : k \in Nat /\ k # 0
  BY HitsFacts DEF Filter!Ends, Text
<1>7. start = from
  <2>1. \A k \in before : k \in Nat /\ k # 0 /\ k <= from
    BY <1>1, <1>2, <1>6
  <2>2. CASE from \in Filter!Ends
    <3>1. from \in before
      BY <1>1, <1>2, <2>2
    <3>2. \A k \in before : (\A l \in before : l <= k) => k = from
      BY <1>1, <2>1, <3>1
    <3> QED BY <1>3, <2>1, <3>1, <3>2
  <2>3. CASE from \notin Filter!Ends
    <3>1. from = 0
      BY <1>1, <2>3
    <3>2. before = {}
      BY <2>1, <3>1
    <3> QED BY <1>3, <3>1, <3>2
  <2> QED BY <2>2, <2>3
<1> QED BY <1>1, <1>4, <1>5, <1>7

\* A part of the text, and the one that is longer by a character.
LEMMA SubSeqAppends ==
  ASSUME NEW s \in Text, NEW m \in Nat, NEW n \in Nat, n + 1 <= Len(s), m >= 1
  PROVE  /\ m <= n + 1 => SubSeq(s, m, n + 1) = Append(SubSeq(s, m, n), s[n + 1])
         /\ m > n => SubSeq(s, m, n) = <<>>
<1>1. ASSUME m <= n + 1
      PROVE  SubSeq(s, m, n + 1) = Append(SubSeq(s, m, n), s[n + 1])
  <2>1. PICK a : a = SubSeq(s, m, n)
    OBVIOUS
  <2>2. PICK b : b = SubSeq(s, m, n + 1)
    OBVIOUS
  <2>3. s \in Seq(STRING) /\ Len(s) \in Nat
    BY DEF Text
  <2>4. a \in Seq(STRING) /\ Len(a) = n - m + 1 /\ \A k \in 1 .. n - m + 1 : a[k] = s[m + k - 1]
    BY <1>1, <2>1, <2>3
  <2>5. b \in Seq(STRING) /\ Len(b) = n - m + 2 /\ \A k \in 1 .. n - m + 2 : b[k] = s[m + k - 1]
    BY <1>1, <2>2, <2>3
  <2>6. s[n + 1] \in STRING
    BY <2>3
  <2>7. PICK c : c = Append(a, s[n + 1])
    OBVIOUS
  <2>8. c \in Seq(STRING) /\ Len(c) = n - m + 2 /\ c[n - m + 2] = s[n + 1]
        /\ \A k \in 1 .. n - m + 1 : c[k] = a[k]
    <3>1. Len(a) + 1 = n - m + 2
      BY <2>4
    <3>2. a \in Seq(STRING) /\ Len(a) \in Nat
      BY <2>4
    <3>3. /\ c \in Seq(STRING) /\ Len(c) = Len(a) + 1 /\ c[Len(a) + 1] = s[n + 1]
          /\ \A k \in 1 .. Len(a) : c[k] = a[k]
      BY <2>6, <2>7, <3>2
    <3> QED BY <2>4, <3>1, <3>3
  <2>9. ASSUME NEW k \in 1 .. n - m + 2
        PROVE  c[k] = b[k]
    <3>1. CASE k = n - m + 2
      <4>1. m + k - 1 = n + 1
        BY <3>1
      <4> QED BY <2>5, <2>8, <3>1, <4>1
    <3>2. CASE k # n - m + 2
      <4>1. k \in 1 .. n - m + 1
        BY <3>2
      <4> QED BY <2>4, <2>5, <2>8, <4>1
    <3> QED BY <3>1, <3>2
  <2>10. b = c
    BY <2>5, <2>8, <2>9, SeqEqual
  <2> QED BY <2>1, <2>2, <2>7, <2>10
<1>2. ASSUME m > n
      PROVE  SubSeq(s, m, n) = <<>>
  BY <1>2 DEF Text
<1> QED BY <1>1, <1>2

\* One character.
LEMMA TakeKeeps ==
  ASSUME FilterInv, Filter!Take
  PROVE  FilterInv'
<1>1. /\ part # <<>> /\ part' = Tail(part)
      /\ room' = IF Len(line) >= room THEN 2 * room ELSE room
      /\ UNCHANGED <<output, sent, ps, chars, parent, writers>>
  BY DEF Filter!Take
<1>2. /\ Head(part) # "n" => line' = Append(line, Head(part)) /\ printed' = printed
      /\ Head(part) = "n" => /\ line' = <<>>
                             /\ Filter!Contains(line, "h") => printed' = Append(printed, line)
                             /\ ~Filter!Contains(line, "h") => printed' = printed
  BY DEF Filter!Take, Filter!EOL, Filter!Hit
<1>3. FilterTyped /\ FilterOver
  BY DEF FilterInv
<1>4. PICK p \in 0 .. Len(output) : FlowsFrom(p) /\ LineAt(p) /\ PrintedAt(p)
  BY DEF FilterInv
<1>5. /\ output \in Text /\ chars \in Text /\ part \in Text /\ line \in Text /\ printed \in Seq(Text)
      /\ sent \in 0 .. Len(output)
  BY <1>3 DEF FilterTyped
<1>6. /\ Len(part) \in Nat \ {0} /\ Head(part) = part[1] /\ Head(part) \in STRING
      /\ Tail(part) \in Text /\ Len(Tail(part)) = Len(part) - 1
      /\ \A k \in 1 .. Len(Tail(part)) : Tail(part)[k] = part[k + 1]
  BY <1>1, <1>5, TailFacts DEF Text
<1>7. /\ p \in Nat /\ Len(output) \in Nat /\ Len(chars) \in Nat
      /\ p + 1 \in 1 .. Len(output) /\ p + 1 \in 0 .. Len(output)
  <2>1. p \in Nat /\ Len(output) \in Nat /\ Len(chars) \in Nat
    BY <1>5 DEF Text
  <2>2. p + Len(part) + Len(chars) = sent
    BY <1>4 DEF FlowsFrom
  <2> QED BY <1>5, <1>6, <2>1, <2>2
<1>8. Head(part) = output[p + 1]
  BY <1>4, <1>6 DEF FlowsFrom
<1>9. FlowsFrom(p + 1)'
  <2>1. (p + 1) + Len(part') + Len(chars') = sent'
    <3>1. p + Len(part) + Len(chars) = sent
      BY <1>4 DEF FlowsFrom
    <3> QED BY <1>1, <1>6, <1>7, <3>1
  <2>2. ASSUME NEW k \in 1 .. Len(part')
        PROVE  part'[k] = output'[(p + 1) + k]
    <3>1. k \in 1 .. Len(Tail(part)) /\ k + 1 \in 1 .. Len(part)
      BY <1>1, <1>6
    <3>2. part[k + 1] = output[p + (k + 1)]
      BY <1>4, <3>1 DEF FlowsFrom
    <3>3. p + (k + 1) = (p + 1) + k
      BY <1>7
    <3> QED BY <1>1, <1>6, <3>1, <3>2, <3>3
  <2>3. ASSUME NEW k \in 1 .. Len(chars')
        PROVE  chars'[k] = output'[(p + 1) + Len(part') + k]
    <3>1. chars[k] = output[p + Len(part) + k]
      BY <1>1, <1>4, <2>3 DEF FlowsFrom
    <3>2. (p + 1) + Len(part') + k = p + Len(part) + k
      BY <1>1, <1>6, <1>7
    <3> QED BY <1>1, <3>1, <3>2
  <2> QED BY <2>1, <2>2, <2>3 DEF FlowsFrom
<1>10. (p + 1 \in Filter!Ends) <=> Head(part) = "n"
  BY <1>5, <1>7, <1>8 DEF Filter!Ends, Filter!EOL, Text
<1>11. Filter!Ends \in SUBSET Nat /\ Filter!Hits \in SUBSET Filter!Ends
  BY <1>5, HitsFacts
<1>12. Filter!LineTo(p + 1) = line
  BY <1>4, <1>5, <1>7, LineEnds
<1>13. p + 1 \in Filter!Hits <=> (Head(part) = "n" /\ Filter!Contains(line, "h"))
  BY <1>10, <1>12 DEF Filter!Hits, Filter!Hit
<1>14. HitsTo(p + 1) = IF p + 1 \in Filter!Hits THEN HitsTo(p) \cup {p + 1} ELSE HitsTo(p)
  <2>1. \A e \in Filter!Hits : e \in Nat /\ (e <= p + 1 <=> (e <= p \/ e = p + 1))
    BY <1>7, <1>11
  <2> QED BY <1>7, <2>1 DEF HitsTo
<1>15. LineAt(p + 1)'
  <2>1. PICK from \in 0 .. p : /\ from = 0 \/ from \in Filter!Ends
                               /\ \A k \in Filter!Ends : k <= p => k <= from
                               /\ line = SubSeq(output, from + 1, p)
    BY <1>4 DEF LineAt
  <2>2. CASE Head(part) # "n"
    <3>1. line' = SubSeq(output, from + 1, p + 1)
      <4>1. line' = Append(SubSeq(output, from + 1, p), output[p + 1])
        BY <1>2, <1>8, <2>1, <2>2
      <4>2. from + 1 \in Nat /\ from + 1 >= 1 /\ from + 1 <= p + 1
        BY <1>7
      <4>3. SubSeq(output, from + 1, p + 1) = Append(SubSeq(output, from + 1, p), output[p + 1])
        BY <1>5, <1>7, <4>2, SubSeqAppends
      <4> QED BY <4>1, <4>3
    <3>2. \A k \in Filter!Ends : k <= p + 1 => k <= from
      BY <1>7, <1>10, <1>11, <2>1, <2>2
    <3>3. from \in 0 .. p + 1
      BY <1>7
    <3> QED BY <1>1, <2>1, <3>1, <3>2, <3>3, SameOutput DEF LineAt
  <2>3. CASE Head(part) = "n"
    <3>1. p + 1 \in Filter!Ends /\ p + 1 \in 0 .. p + 1
      BY <1>7, <1>10, <2>3
    <3>2. line' = SubSeq(output, (p + 1) + 1, p + 1)
      <4>1. line' = <<>>
        BY <1>2, <2>3
      <4>2. SubSeq(output, (p + 1) + 1, p + 1) = <<>>
        BY <1>5, <1>7, SubSeqAppends
      <4> QED BY <4>1, <4>2
    <3> QED BY <1>1, <3>1, <3>2, SameOutput DEF LineAt
  <2> QED BY <2>2, <2>3
<1>16. PrintedAt(p + 1)' /\ printed' \in Seq(Text)
  <2>1. \A e : HitsTo(e)' = HitsTo(e)
    BY <1>1, SameOutput DEF HitsTo
  <2>2. \A e : Filter!LineTo(e)' = Filter!LineTo(e)
    BY <1>1, SameOutput
  <2>3. PICK n \in Nat : n = Len(printed) /\ n = Cardinality(HitsTo(p))
    BY <1>4, <1>5 DEF PrintedAt
  <2>4. \A k \in 1 .. n : \E e \in HitsTo(p) : Cardinality(HitsTo(e)) = k /\ printed[k] = Filter!LineTo(e)
    BY <1>4, <2>3 DEF PrintedAt
  <2>5. CASE p + 1 \notin Filter!Hits
    <3>1. printed' = printed
      BY <1>2, <1>13, <2>5
    <3>2. HitsTo(p + 1) = HitsTo(p)
      BY <1>14, <2>5
    <3> QED BY <1>5, <2>1, <2>2, <2>3, <2>4, <3>1, <3>2 DEF PrintedAt
  <2>6. CASE p + 1 \in Filter!Hits
    <3>1. printed' = Append(printed, line)
      BY <1>2, <1>13, <2>6
    <3>2. /\ printed' \in Seq(Text) /\ Len(printed') = n + 1 /\ printed'[n + 1] = line
          /\ \A k \in 1 .. n : printed'[k] = printed[k]
      <4>1. line \in Text /\ printed \in Seq(Text)
        BY <1>5
      <4>2. /\ Append(printed, line) \in Seq(Text) /\ Len(Append(printed, line)) = Len(printed) + 1
            /\ Append(printed, line)[Len(printed) + 1] = line
            /\ \A k \in 1 .. Len(printed) : Append(printed, line)[k] = printed[k]
        BY <4>1
      <4> QED BY <2>3, <3>1, <4>2
    <3>3. HitsTo(p + 1) = HitsTo(p) \cup {p + 1} /\ p + 1 \notin HitsTo(p)
      BY <1>7, <1>14, <2>6 DEF HitsTo
    <3>4. Cardinality(HitsTo(p + 1)) = n + 1
      BY <1>5, <2>3, <3>3, HitsFacts, FS_AddElement
    <3>5. ASSUME NEW k \in 1 .. n + 1
          PROVE  \E e \in HitsTo(p + 1) : Cardinality(HitsTo(e)) = k /\ printed'[k] = Filter!LineTo(e)
      <4>1. CASE k = n + 1
        BY <1>12, <3>2, <3>3, <3>4, <4>1
      <4>2. CASE k # n + 1
        <5>1. k \in 1 .. n
          BY <2>3, <4>2
        <5> QED BY <2>4, <3>2, <3>3, <5>1
      <4> QED BY <4>1, <4>2
    <3> QED BY <2>1, <2>2, <3>2, <3>4, <3>5 DEF PrintedAt
  <2> QED BY <2>5, <2>6
<1>17. FilterTyped'
  <2>1. line' \in Text
    <3>1. CASE Head(part) # "n"
      <4>1. line \in Seq(STRING) /\ Head(part) \in STRING /\ line' = Append(line, Head(part))
        BY <1>2, <1>5, <1>6, <3>1 DEF Text
      <4>2. line' \in Seq(STRING)
        BY <4>1
      <4> QED BY <4>2 DEF Text
    <3>2. CASE Head(part) = "n"
      <4>1. line' = <<>> /\ <<>> \in Seq(STRING)
        BY <1>2, <3>2
      <4> QED BY <4>1 DEF Text
    <3> QED BY <3>1, <3>2
  <2>2. room' \in Nat \ {0} /\ Len(line') <= room'
    <3>1. PICK n : n = Len(line)
      OBVIOUS
    <3>2. n \in Nat /\ room \in Nat \ {0} /\ n <= room
      BY <1>3, <1>5, <3>1 DEF FilterTyped, Text
    <3>3. room' \in Nat \ {0} /\ n + 1 <= room'
      <4>1. CASE n >= room
        BY <1>1, <3>1, <3>2, <4>1
      <4>2. CASE ~(n >= room)
        BY <1>1, <3>1, <3>2, <4>2
      <4> QED BY <4>1, <4>2
    <3>4. Len(line') = n + 1 \/ Len(line') = 0
      <4>1. CASE Head(part) # "n"
        BY <1>2, <1>5, <1>6, <3>1, <4>1 DEF Text
      <4>2. CASE Head(part) = "n"
        BY <1>2, <4>2
      <4> QED BY <4>1, <4>2
    <3> QED BY <3>2, <3>3, <3>4
  <2> QED BY <1>1, <1>3, <1>6, <1>16, <2>1, <2>2 DEF FilterTyped
<1>18. FilterOver'
  BY <1>1, <1>3 DEF FilterOver
<1> QED BY <1>1, <1>7, <1>9, <1>15, <1>16, <1>17, <1>18 DEF FilterInv

\* The steps of child and parent keep it.
LEMMA FilterSteps ==
  ASSUME FilterInv, Filter!Next
  PROVE  FilterInv'
<1>1. FilterTyped /\ FilterOver
  BY DEF FilterInv
<1>2. PICK p \in 0 .. Len(output) : FlowsFrom(p) /\ LineAt(p) /\ PrintedAt(p)
  BY DEF FilterInv
<1>3. /\ output \in Text /\ chars \in Text /\ part \in Text
      /\ sent \in 0 .. Len(output)
  BY <1>1 DEF FilterTyped
<1>4. /\ p \in Nat /\ Len(output) \in Nat /\ Len(chars) \in Nat /\ Len(part) \in Nat /\ sent \in Nat
      /\ p + Len(part) + Len(chars) = sent
  BY <1>2, <1>3 DEF Text, FlowsFrom
<1>5. ASSUME UNCHANGED <<output, line, room, printed>>, FlowsFrom(p)', FilterOver',
             chars' \in Text, part' \in Text, sent' \in 0 .. Len(output),
             ps' \in {"on", "gone", "failed"}, parent' \in {"start", "read", "wait", "done"}
      PROVE  FilterInv'
  <2>1. LineAt(p)' /\ PrintedAt(p)'
    BY <1>2, <1>5, SameLines
  <2>2. FilterTyped'
    BY <1>1, <1>5 DEF FilterTyped
  <2> QED BY <1>5, <2>1, <2>2 DEF FilterInv
<1>6. CASE Filter!Emit
  <2>1. PICK k \in sent + 1 .. Len(output) :
          /\ chars' = chars \o SubSeq(output, sent + 1, k) /\ sent' = k /\ ps = "on"
          /\ UNCHANGED <<output, ps, part, room, line, printed, parent, writers>>
    BY <1>6 DEF Filter!Emit
  <2>2. PICK more : more = SubSeq(output, sent + 1, k)
    OBVIOUS
  <2>3. /\ k \in Nat /\ k > sent
        /\ more \in Text /\ Len(more) = k - sent
        /\ \A n \in 1 .. k - sent : more[n] = output[sent + n]
    <3>1. k \in Nat /\ sent + 1 \in Nat /\ sent + 1 <= k /\ k <= Len(output)
      BY <1>4
    <3>2. more \in Seq(STRING) /\ Len(more) = k - (sent + 1) + 1
      BY <1>3, <1>4, <2>2, <3>1 DEF Text
    <3>3. k - (sent + 1) + 1 = k - sent
      BY <1>4, <3>1
    <3>4. ASSUME NEW n \in 1 .. k - sent
          PROVE  more[n] = output[sent + n]
      <4>1. more[n] = output[(sent + 1) + n - 1]
        BY <1>3, <1>4, <2>2, <3>1, <3>3 DEF Text
      <4>2. (sent + 1) + n - 1 = sent + n
        BY <1>4
      <4> QED BY <4>1, <4>2
    <3> QED BY <1>4, <3>1, <3>2, <3>3, <3>4 DEF Text
  <2>4. /\ chars' \in Text /\ Len(chars') = Len(chars) + (k - sent)
        /\ \A n \in 1 .. Len(chars') : chars'[n] = IF n <= Len(chars) THEN chars[n] ELSE more[n - Len(chars)]
    <3>1. chars \in Seq(STRING) /\ more \in Seq(STRING)
      BY <1>3, <2>3 DEF Text
    <3>2. /\ chars \o more \in Seq(STRING) /\ Len(chars \o more) = Len(chars) + Len(more)
          /\ \A n \in 1 .. Len(chars) + Len(more) :
                (chars \o more)[n] = IF n <= Len(chars) THEN chars[n] ELSE more[n - Len(chars)]
      BY <3>1
    <3> QED BY <2>1, <2>2, <2>3, <3>2 DEF Text
  <2>5. PICK lc \in Nat, lp \in Nat : lc = Len(chars) /\ lp = Len(part)
    BY <1>4
  <2>10. p \in Nat /\ k \in Nat /\ sent \in Nat /\ k > sent
    BY <1>4, <2>3
  <2>6. ASSUME NEW n \in 1 .. Len(chars')
        PROVE  chars'[n] = output[p + Len(part) + n]
    <3>1. CASE n <= Len(chars)
      <4>1. n \in 1 .. Len(chars)
        BY <1>4, <2>3, <2>4, <3>1
      <4> QED BY <1>2, <2>4, <3>1, <4>1 DEF FlowsFrom
    <3>2. CASE ~(n <= Len(chars))
      <4>1. n - Len(chars) \in 1 .. k - sent /\ sent + (n - Len(chars)) = p + Len(part) + n
        <5>1. n \in 1 .. lc + (k - sent) /\ ~(n <= lc) /\ p + lp + lc = sent
          BY <1>4, <2>4, <2>5, <3>2
        <5>2. n - lc \in 1 .. k - sent /\ sent + (n - lc) = p + lp + n
          BY <2>10, <5>1
        <5> QED BY <2>5, <5>2
      <4>2. chars'[n] = more[n - Len(chars)]
        BY <2>4, <3>2
      <4> QED BY <2>3, <4>1, <4>2
    <3> QED BY <3>1, <3>2
  <2>7. p + Len(part') + Len(chars') = sent'
    <3>1. p + lp + lc = sent /\ Len(part') = lp /\ Len(chars') = lc + (k - sent)
      BY <1>4, <2>1, <2>4, <2>5
    <3>2. p + lp + (lc + (k - sent)) = k
      BY <2>10, <3>1
    <3> QED BY <2>1, <3>1, <3>2
  <2>8. FlowsFrom(p)'
    BY <1>2, <2>1, <2>6, <2>7 DEF FlowsFrom
  <2>9. FilterOver' /\ sent' \in 0 .. Len(output)
    BY <1>1, <1>4, <2>1, <2>3 DEF FilterOver
  <2> QED BY <1>1, <1>3, <1>5, <2>1, <2>4, <2>8, <2>9 DEF FilterTyped
<1>7. CASE Filter!End
  <2>1. /\ ps = "on" /\ UNCHANGED <<output, sent, chars, part, room, line, printed, parent>>
        /\ ps' = "failed" \/ (ps' = "gone" /\ sent = Len(output))
    BY <1>7 DEF Filter!End
  <2>2. FlowsFrom(p)'
    BY <1>2, <2>1 DEF FlowsFrom
  <2>3. FilterOver'
    BY <1>1, <2>1 DEF FilterOver
  <2> QED BY <1>1, <1>3, <1>5, <2>1, <2>2, <2>3 DEF FilterTyped
<1>8. CASE Filter!ReadPart
  <2>1. /\ parent = "read" /\ part = <<>> /\ part' = chars /\ chars' = <<>>
        /\ UNCHANGED <<output, sent, ps, room, line, printed, parent, writers>>
    BY <1>8 DEF Filter!ReadPart
  <2>2. Len(part) = 0 /\ Len(chars') = 0 /\ chars' \in Text
    <3>1. chars' \in Seq(STRING)
      BY <2>1
    <3> QED BY <2>1, <3>1 DEF Text
  <2>3. p + Len(part') + Len(chars') = sent'
    BY <1>4, <2>1, <2>2
  <2>4. ASSUME NEW n \in 1 .. Len(part')
        PROVE  part'[n] = output'[p + n]
    <3>1. chars[n] = output[p + Len(part) + n]
      BY <1>2, <2>1 DEF FlowsFrom
    <3>2. p + Len(part) + n = p + n
      BY <1>4, <2>2
    <3> QED BY <2>1, <3>1, <3>2
  <2>5. FlowsFrom(p)'
    BY <2>2, <2>3, <2>4 DEF FlowsFrom
  <2>6. FilterOver'
    BY <1>1, <2>1 DEF FilterOver
  <2> QED BY <1>1, <1>3, <1>5, <2>1, <2>2, <2>5, <2>6 DEF FilterTyped
<1>9. CASE Filter!Take
  BY <1>9, TakeKeeps
<1>10. CASE Filter!CloseWriteEnd \/ Filter!EndOfPipe \/ Filter!Reap
  <2>1. /\ parent' \in {"start", "read", "wait", "done"}
        /\ parent' \in {"wait", "done"} => part = <<>> /\ chars = <<>> /\ ps # "on"
        /\ UNCHANGED <<output, sent, ps, chars, part, room, line, printed>>
        /\ ps = "on" => "child" \in writers'
    <3>1. CASE Filter!EndOfPipe
      BY <1>1, <3>1 DEF Filter!EndOfPipe, FilterOver
    <3>3. CASE Filter!CloseWriteEnd
      BY <1>1, <3>3 DEF Filter!CloseWriteEnd, FilterOver
    <3>2. CASE Filter!Reap
      BY <1>1, <3>2 DEF Filter!Reap, FilterOver
    <3> QED BY <1>10, <3>1, <3>2, <3>3
  <2>2. FlowsFrom(p)'
    BY <1>2, <2>1 DEF FlowsFrom
  <2>3. FilterOver'
    BY <1>1, <2>1 DEF FilterOver
  <2> QED BY <1>1, <1>3, <1>5, <2>1, <2>2, <2>3 DEF FilterTyped
<1>11. CASE UNCHANGED Filter!vars
  <2>1. UNCHANGED <<output, sent, ps, chars, part, room, line, printed, parent, writers>>
    BY <1>11 DEF Filter!vars
  <2>2. FlowsFrom(p)'
    BY <1>2, <2>1 DEF FlowsFrom
  <2>3. FilterOver'
    BY <1>1, <2>1 DEF FilterOver
  <2> QED BY <1>1, <1>3, <1>5, <2>1, <2>2, <2>3 DEF FilterTyped
<1> QED BY <1>6, <1>7, <1>8, <1>9, <1>10, <1>11 DEF Filter!Next, Filter!Child, Filter!Parent

\* What is printed are the lines that match.
LEMMA FilterHolds ==
  ASSUME FilterInv
  PROVE  Filter!LinesAreCut
<1>1. FilterTyped /\ FilterOver
  BY DEF FilterInv
<1>2. PICK p \in 0 .. Len(output) : FlowsFrom(p) /\ LineAt(p) /\ PrintedAt(p)
  BY DEF FilterInv
<1>3. output \in Text /\ printed \in Seq(Text) /\ sent \in 0 .. Len(output)
  BY <1>1 DEF FilterTyped
<1>4. PICK n \in Nat : n = Len(printed) /\ n = Cardinality(HitsTo(p))
  BY <1>2, <1>3 DEF PrintedAt
<1>5. PICK c \in Nat : c = Cardinality(Filter!Hits)
  BY <1>3, HitsFacts, FS_CardinalityType
<1>6. n <= c
  <2>1. HitsTo(p) \in SUBSET Filter!Hits
    BY DEF HitsTo
  <2> QED BY <1>3, <1>4, <1>5, <2>1, HitsFacts, FS_Subset
<1>7. Filter!Matching = [k \in 1 .. Cardinality(Filter!Hits) |->
                          Filter!LineTo(CHOOSE e \in Filter!Hits : Cardinality(HitsTo(e)) = k)]
  BY DEF Filter!Matching, HitsTo, Filter!Cardinality, Cardinality, Filter!IsFiniteSet, IsFiniteSet
<1>8. Filter!Matching = [k \in 1 .. c |->
                          Filter!LineTo(CHOOSE e \in Filter!Hits : Cardinality(HitsTo(e)) = k)]
  BY <1>5, <1>7
<1>9. ASSUME NEW k \in 1 .. n
      PROVE  Filter!Matching[k] = printed[k]
  <2>1. PICK e \in HitsTo(p) : Cardinality(HitsTo(e)) = k /\ printed[k] = Filter!LineTo(e)
    BY <1>2, <1>4 DEF PrintedAt
  <2>2. e \in Filter!Hits
    BY DEF HitsTo
  <2>3. \A d \in Filter!Hits : Cardinality(HitsTo(d)) = k => d = e
    <3>1. \A d \in Filter!Hits : d \in Nat
      BY <1>3, HitsFacts
    <3>2. ASSUME NEW d \in Filter!Hits, Cardinality(HitsTo(d)) = k
          PROVE  ~(d < e) /\ ~(e < d)
      BY <1>3, <2>1, <2>2, <3>2, HitsFacts
    <3> QED BY <2>2, <3>1, <3>2
  <2>4. (CHOOSE d \in Filter!Hits : Cardinality(HitsTo(d)) = k) = e
    BY <2>1, <2>2, <2>3
  <2>5. k \in 1 .. c
    BY <1>6
  <2> QED BY <1>8, <2>1, <2>4, <2>5
<1>10. PICK m : m = Filter!Matching
  OBVIOUS
<1>11. m \in Seq({m[k] : k \in 1 .. c}) /\ Len(m) = c
  <2>1. m \in [1 .. c -> {m[k] : k \in 1 .. c}]
    BY <1>8, <1>10
  <2> QED BY <2>1
<1>12. Filter!IsPrefix(printed, m)
  <2>1. SubSeq(printed, 1, n) = [k \in 1 .. n |-> printed[k]]
    BY <1>3, <1>4
  <2>2. SubSeq(m, 1, n) = [k \in 1 .. n |-> m[k]]
    BY <1>6, <1>11
  <2>3. SubSeq(printed, 1, n) = SubSeq(m, 1, n)
    BY <1>9, <1>10, <2>1, <2>2
  <2> QED BY <1>4, <1>6, <1>11, <2>3 DEF Filter!IsPrefix
<1>13. ASSUME parent \in {"wait", "done"}, ps = "gone"
      PROVE  printed = m
  <2>1. sent = Len(output) /\ part = <<>> /\ chars = <<>>
    BY <1>1, <1>13 DEF FilterOver
  <2>2. p = Len(output)
    <3>1. Len(part) = 0 /\ Len(chars) = 0
      BY <2>1
    <3>2. p + Len(part) + Len(chars) = sent
      BY <1>2 DEF FlowsFrom
    <3>3. p \in Nat
      BY <1>3 DEF Text
    <3> QED BY <2>1, <3>1, <3>2, <3>3
  <2>3. HitsTo(p) = Filter!Hits
    <3>1. \A e \in Filter!Hits : e <= Len(output)
      BY <1>3, HitsFacts
    <3> QED BY <2>2, <3>1 DEF HitsTo
  <2>4. n = c
    BY <1>4, <1>5, <2>3
  <2>5. printed = [k \in 1 .. n |-> printed[k]]
    <3>1. printed \in [1 .. n -> Text]
      BY <1>3, <1>4, LenProperties
    <3> QED BY <3>1
  <2>6. m = [k \in 1 .. n |-> m[k]]
    BY <1>8, <1>10, <2>4
  <2> QED BY <1>9, <1>10, <2>5, <2>6
<1>14. Len(line) <= room
  BY <1>1 DEF FilterTyped
<1> QED BY <1>10, <1>12, <1>13, <1>14 DEF Filter!LinesAreCut

-----------------------------------------------------------------------------
(* All programs.                                                            *)

\* Where the programs begin.
LEMMA TalkBegins == Talk!Init => TalkInv
BY DEF Talk!Init, TalkInv, TalkTypes, AloneAtFirst, TurnsAreKept, InZone, Spoke, Partner, Talk!AtTheStruct,
       Talk!Talkers, Talk!Fresh, Talk!Inputs

\* At the fifo nobody has come.
LEMMA FifoBegins == Fifo!Init => Fifo!OnlyExitStops
BY DEF Fifo!Init, Fifo!OnlyExitStops

\* The show has not begun.
LEMMA ShowBegins == Fireworks!Init => ShowInv
BY DEF Fireworks!Init, ShowInv, Threads

\* Nothing is logged yet.
LEMMA RaceBegins ==
  ASSUME Race!Init
  PROVE  RaceInv
<1>1. /\ log = <<>> /\ did = [p \in Race!Writers |-> "fork"]
      /\ times = [p \in Race!Writers |-> Times] /\ kept = [p \in Race!Writers |-> 0]
  BY DEF Race!Init
<1>2. Times \in Nat
  BY ProcessesAssumption
<1>3. \A p : TimesIn(<<>>, p) = 0
  <2>1. <<>> \in Seq({0}) /\ 0 \in {0}
    OBVIOUS
  <2> QED
    BY <2>1, AppendCounts
<1>4. /\ log \in Seq(Race!Writers)
      /\ did \in [Race!Writers -> {"fork", "open", "write", "done", "died", "reaped"}]
  BY <1>1
<1>5. times \in [Race!Writers -> 0 .. Times] /\ kept \in [Race!Writers -> Nat]
  BY <1>1, <1>2
<1>6. \A p \in Race!Writers : kept[p] = TimesIn(log, p) /\ times[p] = Times /\ did[p] = "fork"
  BY <1>1, <1>3
<1>7. \E p \in Race!Writers : kept[p] = Times - times[p]
  <2>1. "parent" \in Race!Writers /\ Times - Times = 0
    BY <1>2 DEF Race!Writers
  <2> QED
    BY <2>1, <1>1
<1> QED
  BY <1>4, <1>5, <1>6, <1>7 DEF RaceInv

\* No food is on its way.
LEMMA WombBegins ==
  ASSUME Womb!Init
  PROVE  WombInv
<1>1. /\ queue = <<>> /\ Len(queue) = 0 /\ dad = "feed" /\ dtimes = 1 /\ baby = "eat" /\ btimes = 1
      /\ womb = [p \in {"dad", "baby"} |-> 0] /\ stolen = 0
  BY DEF Womb!Init
<1>2. 1 \in 1 .. FoodRounds
  BY ProcessesAssumption
<1>3. WombTyped
  <2>1. queue \in Seq(WombMsg)
    BY <1>1
  <2> QED
    BY <2>1, <1>1, <1>2 DEF WombTyped
<1>4. Kicking = 0 /\ Given = 0
  BY <1>1 DEF Kicking, Given
<1>5. TwoWait
  BY <1>1, <1>4 DEF TwoWait
<1>6. \A t \in WombTypes : Of(queue, t) = 0
  BY <1>1 DEF Of, At
<1>7. FoodAddsUp
  BY <1>1, <1>4, <1>6 DEF FoodAddsUp, WombTypes
<1>8. ~Told
  BY <1>1 DEF Told
<1>9. BirthIsLast
  BY <1>1, <1>6, <1>8 DEF BirthIsLast, WombTypes
<1> QED
  BY <1>3, <1>5, <1>7, <1>9 DEF WombInv

\* There is no queue yet.
LEMMA HouseBegins ==
  ASSUME Household!Init
  PROVE  HouseInv
<1>1. /\ exists = FALSE /\ queue = <<>> /\ Len(queue) = 0 /\ darling = "off" /\ i = 1 /\ j = 1 /\ darlings = 0
      /\ me = "off" /\ qid = 0 /\ mes = 0 /\ obeyed = <<>> /\ Len(obeyed) = 0
  BY DEF Household!Init
<1>2. 1 \in 1 .. OrderRounds /\ 1 \in 1 .. 3 /\ 0 \in 0 .. Starts /\ 0 \in 0 .. 0
  BY ProcessesAssumption
<1>3. queue \in Seq(OrderMsg) /\ obeyed \in Seq(OrderMsg)
  BY <1>1
<1>4. 1 .. Len(obeyed) = {} /\ 1 .. Len(queue) = {}
  BY <1>1
<1>5. HouseTyped
  BY <1>1, <1>2, <1>3, <1>4 DEF HouseTyped
<1>6. HouseOpen
  BY <1>1 DEF HouseOpen
<1>7. HouseLine
  BY <1>1, <1>4 DEF HouseLine, InOrder
<1> QED
  BY <1>5, <1>6, <1>7 DEF HouseInv

\* Nothing is written to the pipe.
LEMMA FilterBegins ==
  ASSUME Filter!Init
  PROVE  FilterInv
<1>1. /\ output \in Outputs /\ sent = 0 /\ ps = "on" /\ chars = <<>>
      /\ part = <<>> /\ room = Size /\ line = <<>> /\ printed = <<>> /\ parent = "start"
      /\ writers = {"parent", "child"}
  BY DEF Filter!Init
<1>2. output \in Text /\ Size \in Nat \ {0}
  BY <1>1, ProcessesAssumption DEF Text
<1>3. Len(output) \in Nat /\ DOMAIN output = 1 .. Len(output)
  BY <1>2 DEF Text
<1>4. Len(part) = 0 /\ Len(chars) = 0 /\ Len(line) = 0 /\ Len(printed) = 0
  BY <1>1
<1>5. /\ chars \in Text /\ part \in Text /\ line \in Text /\ printed \in Seq(Text)
  BY <1>1 DEF Text
<1>6. FilterTyped
  <2>1. 0 \in 0 .. Len(output) /\ 0 <= Size
    BY <1>2, <1>3
  <2> QED
    BY <2>1, <1>1, <1>2, <1>4, <1>5 DEF FilterTyped
<1>7. FilterOver
  BY <1>1 DEF FilterOver
<1>8. FlowsFrom(0)
  BY <1>1, <1>4 DEF FlowsFrom
<1>9. LineAt(0)
  <2>1. SubSeq(output, 0 + 1, 0) = <<>>
    BY <1>2, <1>3 DEF Text
  <2>2. \A k \in Filter!Ends : ~(k <= 0)
    BY <1>3 DEF Filter!Ends
  <2>3. 0 \in 0 .. 0
    OBVIOUS
  <2> QED
    BY <2>1, <2>2, <2>3, <1>1 DEF LineAt
<1>10. PrintedAt(0)
  <2>1. HitsTo(0) = {}
    BY <1>3 DEF HitsTo, Filter!Hits, Filter!Ends
  <2>2. Cardinality(HitsTo(0)) = 0
    BY <2>1, FS_EmptySet
  <2> QED
    BY <2>2, <1>4 DEF PrintedAt
<1> QED
  BY <1>3, <1>6, <1>7, <1>8, <1>9, <1>10 DEF FilterInv

\* The notebook, as its own proofs know it.
Pages == INSTANCE NotebookProofs WITH pc <- npc, Starts <- Editions

\* Its bounds are those of Processes.
LEMMA PagesAreBound == Pages!NotebookIsBound
BY ProcessesAssumption DEF Pages!NotebookIsBound

\* Both descriptions of it are the same.
LEMMA SamePages ==
  /\ Notebook!Init <=> Pages!Init
  /\ Notebook!Next <=> Pages!Next
  /\ Notebook!PageInv <=> Pages!PageInv
  /\ \A d : Notebook!Tomorrow(d) = Pages!Tomorrow(d)
<1>1. Notebook!Init <=> Pages!Init
  BY DEF Notebook!Init, Pages!Init, Notebook!NamedInit, Pages!NamedInit, Notebook!ForkInit,
         Pages!ForkInit, Notebook!Procs, Pages!Procs, Notebook!Names, Pages!Names,
         Notebook!noHandle, Pages!noHandle, Notebook!Objects0, Pages!Objects0, Notebook!Objects,
         Pages!Objects, Notebook!first, Pages!first
<1>2. Notebook!Next <=> Pages!Next
  BY DEF Notebook!Next, Pages!Next, Notebook!InterruptWriter, Pages!InterruptWriter,
         Notebook!InterruptReader, Pages!InterruptReader, Notebook!WriterStep, Pages!WriterStep,
         Notebook!ReaderStep, Pages!ReaderStep, Notebook!AtAnEnd, Pages!AtAnEnd,
         Notebook!objectVars, Pages!objectVars, Notebook!Running, Pages!Running,
         Notebook!noHandle, Pages!noHandle, Notebook!Start, Pages!Start, Notebook!ClearPage,
         Pages!ClearPage, Notebook!OpenAll, Pages!OpenAll, Notebook!Clean, Pages!Clean,
         Notebook!Loop, Pages!Loop, Notebook!Procs, Pages!Procs, Notebook!vars, Pages!vars,
         Notebook!Asleep, Pages!Asleep, Notebook!Names, Pages!Names, Notebook!From, Pages!From,
         Notebook!Open, Pages!Open, Notebook!Unlink, Pages!Unlink, Notebook!Wait, Pages!Wait,
         Notebook!CountDay, Pages!CountDay, Notebook!Write, Pages!Write, Notebook!Read,
         Pages!Read, Notebook!Erase, Pages!Erase, Notebook!Post, Pages!Post, Notebook!Turn,
         Pages!Turn, Notebook!Tomorrow, Pages!Tomorrow, Notebook!Page, Pages!Page, Notebook!Other,
         Pages!Other
<1>3. Notebook!PageInv <=> Pages!PageInv
  BY DEF Notebook!PageInv, Pages!PageInv, Notebook!TypeOK, Pages!TypeOK, Notebook!TurnsAreTaken,
         Pages!TurnsAreTaken, Notebook!Procs, Pages!Procs, Notebook!Names, Pages!Names,
         Notebook!Objects, Pages!Objects, Notebook!Page, Pages!Page, Notebook!AtThePage,
         Pages!AtThePage
<1>4. \A d : Notebook!Tomorrow(d) = Pages!Tomorrow(d)
  BY DEF Notebook!Tomorrow, Pages!Tomorrow
<1> QED
  BY <1>1, <1>2, <1>3, <1>4

\* The program that runs keeps what its steps keep; the others do not run.
ProgramsInv ==
    /\ program \in {"womb", "household", "talk", "race", "fifo", "filter", "notebook", "show"}
    /\ program = "talk" => TalkInv
    /\ program = "fifo" => Fifo!OnlyExitStops
    /\ program = "show" => ShowInv
    /\ program = "race" => RaceInv
    /\ program = "womb" => WombInv
    /\ program = "household" => HouseInv
    /\ program = "filter" => FilterInv
    /\ program = "notebook" => Pages!NotebookInv

\* It holds at the beginning.
LEMMA ProgramsBegin ==
  ASSUME Init
  PROVE  ProgramsInv
<1>1. /\ Womb!Init /\ Household!Init /\ Talk!Init /\ Race!Init /\ Fifo!Init /\ Filter!Init
      /\ Fireworks!Init
      /\ program = "notebook" => Notebook!Init
      /\ program \in {"womb", "household", "talk", "race", "fifo", "filter", "notebook", "show"}
  BY DEF Init
<1>2. Notebook!Init => Pages!NotebookInv
  BY PagesAreBound, SamePages, Pages!NotebookBegins
<1> QED
  BY <1>1, <1>2, TalkBegins, FifoBegins, ShowBegins, RaceBegins, WombBegins, HouseBegins, FilterBegins
     DEF ProgramsInv

\* Every step of the program that runs keeps it.
LEMMA ProgramsGoOn ==
  ASSUME ProgramsInv, Next
  PROVE  ProgramsInv'
<1>1. /\ Times \in Nat /\ FoodRounds \in Nat \ {0, 1}
      /\ OrderRounds \in Nat \ {0} /\ Starts \in Nat \ {0}
  BY ProcessesAssumption
<1>2. CASE InWomb /\ Womb!Next
  <2>1. program = "womb" /\ program' = "womb"
    BY <1>2 DEF InWomb, Runs
  <2> QED
    BY <1>1, <1>2, <2>1, WombSteps DEF ProgramsInv
<1>3. CASE InHousehold /\ Household!Next
  <2>1. program = "household" /\ program' = "household"
    BY <1>3 DEF InHousehold, Runs
  <2> QED
    BY <1>1, <1>3, <2>1, HouseSteps DEF ProgramsInv
<1>4. CASE InTalk /\ Talk!Next
  <2>1. program = "talk" /\ program' = "talk"
    BY <1>4 DEF InTalk, Runs
  <2> QED
    BY <1>4, <2>1, TalkSteps DEF ProgramsInv
<1>5. CASE InRace /\ Race!Next
  <2>1. program = "race" /\ program' = "race"
    BY <1>5 DEF InRace, Runs
  <2> QED
    BY <1>1, <1>5, <2>1, RaceSteps DEF ProgramsInv
<1>6. CASE InFifo /\ Fifo!Next
  <2>1. program = "fifo" /\ program' = "fifo"
    BY <1>6 DEF InFifo, Runs
  <2> QED
    BY <1>6, <2>1, FifoSteps DEF ProgramsInv
<1>7. CASE InFilter /\ Filter!Next
  <2>1. program = "filter" /\ program' = "filter"
    BY <1>7 DEF InFilter, Runs
  <2> QED
    BY <1>7, <2>1, FilterSteps DEF ProgramsInv
<1>8. CASE InNotebook /\ Notebook!Next
  <2>1. program = "notebook" /\ program' = "notebook"
    BY <1>8 DEF InNotebook, Runs
  <2> QED
    BY <1>8, <2>1, PagesAreBound, SamePages, Pages!NotebookGoesOn DEF ProgramsInv
<1>9. CASE InShow /\ Fireworks!Next
  <2>1. program = "show" /\ program' = "show"
    BY <1>9 DEF InShow, Runs
  <2> QED
    BY <1>9, <2>1, ShowSteps DEF ProgramsInv
<1> QED
  BY <1>2, <1>3, <1>4, <1>5, <1>6, <1>7, <1>8, <1>9 DEF Next

\* Nothing moves, before the birth.
LEMMA WombRests ==
  ASSUME WombInv, queue' = queue, UNCHANGED wombVars
  PROVE  WombInv'
<1>1. /\ queue' = queue /\ dad' = dad /\ dtimes' = dtimes /\ baby' = baby /\ btimes' = btimes
      /\ womb' = womb /\ stolen' = stolen
  BY DEF wombVars
<1>2. Kicking' = Kicking
  BY <1>1 DEF Kicking
<1>3. Given' = Given
  BY <1>1 DEF Given
<1>4. Told' <=> Told
  BY <1>1 DEF Told
<1>5. WombTyped'
  BY <1>1 DEF WombInv, WombTyped
<1>6. TwoWait'
  BY <1>1, <1>2 DEF WombInv, TwoWait
<1>7. FoodAddsUp'
  BY <1>1, <1>2, <1>3 DEF WombInv, FoodAddsUp
<1>8. BirthIsLast'
  BY <1>1, <1>2, <1>4 DEF WombInv, BirthIsLast
<1> QED
  BY <1>5, <1>6, <1>7, <1>8 DEF WombInv

\* Nothing moves.
LEMMA ProgramsRest ==
  ASSUME ProgramsInv, UNCHANGED vars
  PROVE  ProgramsInv'
<1>1. /\ program' = program /\ queue' = queue
      /\ UNCHANGED wombVars /\ UNCHANGED householdVars /\ UNCHANGED talkVars /\ UNCHANGED raceVars
      /\ UNCHANGED fifoVars /\ UNCHANGED filterVars /\ UNCHANGED notebookVars /\ UNCHANGED showVars
  BY DEF vars
<1>2. TalkInv => TalkInv'
  BY <1>1, TalkSteps
<1>3. Fifo!OnlyExitStops => Fifo!OnlyExitStops'
  BY <1>1 DEF fifoVars, Fifo!OnlyExitStops
<1>4. ShowInv => ShowInv'
  BY <1>1 DEF showVars, ShowInv
<1>5. RaceInv => RaceInv'
  BY <1>1 DEF raceVars, RaceInv
<1>6. WombInv => WombInv'
  BY <1>1, WombRests
<1>7. HouseInv => HouseInv'
  BY <1>1 DEF householdVars, HouseInv, HouseTyped, HouseOpen, HouseLine, Household!Found
<1>8. FilterInv => FilterInv'
  <2>1. /\ UNCHANGED <<output, sent, ps, chars, part, room, line, printed, parent, writers>>
    BY <1>1 DEF filterVars
  <2>2. Filter!Ends' = Filter!Ends /\ Filter!Hits' = Filter!Hits
        /\ \A e : Filter!LineTo(e)' = Filter!LineTo(e)
    BY <2>1, SameOutput
  <2>3. \A p : HitsTo(p)' = HitsTo(p)
    BY <2>2 DEF HitsTo
  <2>4. \A p : FlowsFrom(p) => FlowsFrom(p)'
    BY <2>1 DEF FlowsFrom
  <2>5. \A p : LineAt(p) => LineAt(p)'
    BY <2>1, <2>2 DEF LineAt
  <2>6. \A p : PrintedAt(p) => PrintedAt(p)'
    BY <2>1, <2>2, <2>3 DEF PrintedAt
  <2>7. FilterTyped => FilterTyped'
    BY <2>1 DEF FilterTyped
  <2>8. FilterOver => FilterOver'
    BY <2>1 DEF FilterOver
  <2> QED
    BY <2>1, <2>4, <2>5, <2>6, <2>7, <2>8 DEF FilterInv
<1>9. Pages!NotebookInv => Pages!NotebookInv'
  <2>1. UNCHANGED Pages!vars
    BY <1>1 DEF notebookVars, Pages!vars
  <2> QED
    BY <2>1, PagesAreBound, Pages!NotebookGoesOn
<1> QED
  BY <1>1, <1>2, <1>3, <1>4, <1>5, <1>6, <1>7, <1>8, <1>9 DEF ProgramsInv

\* What each program relies on follows.
LEMMA ProgramsHold ==
  ASSUME ProgramsInv, {"writer", "reader"} \notin Disturbances
  PROVE  ProcessesInv
<1>1. /\ Times \in Nat /\ FoodRounds \in Nat \ {0, 1}
  BY ProcessesAssumption
<1>2. CASE program = "womb"
  BY <1>1, <1>2, WombHolds DEF ProgramsInv, ProcessesInv
<1>3. CASE program = "household"
  BY <1>3, HouseHolds DEF ProgramsInv, ProcessesInv
<1>4. CASE program = "talk"
  BY <1>4, TalkHolds DEF ProgramsInv, ProcessesInv
<1>5. CASE program = "race"
  BY <1>1, <1>5, RaceHolds DEF ProgramsInv, ProcessesInv
<1>6. CASE program = "fifo"
  BY <1>6 DEF ProgramsInv, ProcessesInv
<1>7. CASE program = "filter"
  BY <1>7, FilterHolds DEF ProgramsInv, ProcessesInv
<1>8. CASE program = "notebook"
  BY <1>8, PagesAreBound, SamePages, Pages!NotebookHolds DEF ProgramsInv, ProcessesInv
<1>9. CASE program = "show"
  BY <1>9, ShowHolds DEF ProgramsInv, ProcessesInv
<1> QED
  BY <1>2, <1>3, <1>4, <1>5, <1>6, <1>7, <1>8, <1>9 DEF ProgramsInv

\* What is read is the day after, whichever program runs.
LEMMA ProgramsReadOn ==
  ASSUME ProgramsInv, Next
  PROVE  interrupted = {} /\ npc["reader"] = "turn" /\ npc'["reader"] = "erase"
           => day' = IF day = Blank THEN 1 ELSE Notebook!Tomorrow(day)
<1>1. CASE InNotebook /\ Notebook!Next
  <2>1. Pages!NotebookInv
    BY <1>1 DEF InNotebook, Runs, ProgramsInv
  <2> QED
    BY <1>1, <2>1, PagesAreBound, SamePages, Pages!NotebookReadsOn
<1>2. CASE npc' = npc
  BY <1>2
<1>3. Next => (InNotebook /\ Notebook!Next) \/ npc' = npc
  BY DEF Next, InWomb, InHousehold, InTalk, InRace, InFifo, InFilter, InShow, Memory, notebookVars
<1> QED
  BY <1>1, <1>2, <1>3

\* What each of the small programs relies on holds at any moment, for any number of
\* rounds, orders, clients, sparks and starts, and any output of the filtered program
\* (Processes!ProcessesInv); writer and reader of the notebook are not both interrupted.
THEOREM ProgramsAreSafe ==
  ASSUME {"writer", "reader"} \notin Disturbances
  PROVE  Spec => []ProcessesInv
<1>1. Init => ProgramsInv
  BY ProgramsBegin
<1>2. ProgramsInv /\ [Next]_vars => ProgramsInv'
  BY ProgramsGoOn, ProgramsRest
<1>3. ProgramsInv => ProcessesInv
  BY ProgramsHold
<1> QED
  BY <1>1, <1>2, <1>3, PTL DEF Spec

\* Every day of the notebook is read, in order and once, if nobody is interrupted
\* (Processes!DaysAreReadInOrder).
THEOREM DaysAreNotSkipped == Spec => DaysAreReadInOrder
<1>1. Init => ProgramsInv
  BY ProgramsBegin
<1>2. ProgramsInv /\ [Next]_vars => ProgramsInv'
  BY ProgramsGoOn, ProgramsRest
<1>3. ProgramsInv /\ [Next]_vars =>
        [interrupted = {} /\ npc["reader"] = "turn" /\ npc'["reader"] = "erase"
         => day' = IF day = Blank THEN 1 ELSE Notebook!Tomorrow(day)]_Notebook!vars
  <2> SUFFICES ASSUME ProgramsInv, [Next]_vars
               PROVE  interrupted = {} /\ npc["reader"] = "turn" /\ npc'["reader"] = "erase"
                        => day' = IF day = Blank THEN 1 ELSE Notebook!Tomorrow(day)
    OBVIOUS
  <2>1. UNCHANGED vars => npc' = npc
    BY DEF vars, notebookVars
  <2> QED
    BY <2>1, ProgramsReadOn
<1> QED
  BY <1>1, <1>2, <1>3, PTL DEF Spec, DaysAreReadInOrder, Notebook!DaysAreReadInOrder

===============================================================================

------------------------------ MODULE Household ------------------------------
(****************************************************************************)
(* Linux_7_ProcessMsgQueue/darling.cpp and me.cpp: one program sends orders *)
(* of three priorities and waits for an answer, the other, started by hand, *)
(* takes what is there, most urgent first, and answers.  The queue outlives *)
(* both: it is found by its key, and removed by darling after the answer.   *)
(*                                                                          *)
(* Each program sleeps between its calls, so that any interleaving of them  *)
(* can happen.  An order is its place among the orders of its priority.     *)
(****************************************************************************)
EXTENDS MsgQueue

CONSTANTS Rounds,   (* orders of each priority, 3 in the code               *)
          Starts    (* bound: how often each program is started             *)

Priorities == 1 .. 3
Answer == 6

VARIABLES exists, queue,  (* the queue the key finds, if there is one       *)
          darling, i, j,  (* where darling stands; her loops' counters      *)
          me, qid,        (* where me stands, and the queue it has found    *)
          darlings, mes,  (* how often each has been started                *)
          obeyed          (* history: what the last start of me has taken   *)

vars == <<exists, queue, darling, i, j, me, qid, darlings, mes, obeyed>>
darlingVars == <<darling, i, j, darlings>>
meVars == <<me, qid, mes, obeyed>>

Init == /\ exists = FALSE /\ queue = <<>>
        /\ darling = "off" /\ i = 1 /\ j = 1 /\ darlings = 0
        /\ me = "off" /\ qid = 0 /\ mes = 0 /\ obeyed = <<>>

-----------------------------------------------------------------------------
(* darling: msgget with IPC_CREAT, the orders, the answer, IPC_RMID.        *)

Marry == /\ darling = "off" /\ darlings < Starts
         /\ darlings' = darlings + 1
         /\ exists' = TRUE
         /\ darling' = "order" /\ i' = 1 /\ j' = 1
         /\ UNCHANGED <<queue, meVars>>

\* Mutant: the orders of a priority are sent last first.
OrderBackwards == /\ darling = "order"
                  /\ queue' = Append(queue, Message(j, Rounds + 1 - i))
                  /\ IF j < 3 THEN j' = j + 1 /\ UNCHANGED <<i, darling>>
                     ELSE /\ j' = 1
                          /\ IF i < Rounds THEN i' = i + 1 /\ UNCHANGED darling
                             ELSE i' = 1 /\ darling' = "wait"
                  /\ UNCHANGED <<exists, darlings, meVars>>

Order == /\ darling = "order"
         /\ queue' = Append(queue, Message(j, i))
         /\ IF j < 3 THEN j' = j + 1 /\ UNCHANGED <<i, darling>>
            ELSE /\ j' = 1
                 /\ IF i < Rounds THEN i' = i + 1 /\ UNCHANGED darling
                    ELSE i' = 1 /\ darling' = "wait"
         /\ UNCHANGED <<exists, darlings, meVars>>

HearAnswer == /\ darling = "wait"
              /\ IsThere(queue, Answer)
              /\ queue' = Without(queue, Answer)
              /\ darling' = "remove"
              /\ UNCHANGED <<exists, i, j, darlings, meVars>>

\* What is still in the queue goes with it.
RemoveQueue == /\ darling = "remove"
               /\ exists' = FALSE /\ queue' = <<>>
               /\ darling' = "off"
               /\ UNCHANGED <<i, j, darlings, meVars>>

-----------------------------------------------------------------------------
(* me: msgget without IPC_CREAT, then what is there.                        *)

\* The queue me has found is still there: every start of darling makes another.
Found == exists /\ qid = darlings

\* Without a queue the program ends at once: nothing has happened.
ComeHome == /\ me = "off" /\ mes < Starts
            /\ exists
            /\ mes' = mes + 1 /\ qid' = darlings
            /\ me' = "obey" /\ obeyed' = <<>>
            /\ UNCHANGED <<exists, queue, darlingVars>>

Obey == /\ me = "obey"
        /\ Found /\ IsThere(queue, -3)
        /\ obeyed' = Append(obeyed, Oldest(queue, -3))
        /\ queue' = Without(queue, -3)
        /\ UNCHANGED <<exists, me, qid, mes, darlingVars>>

\* IPC_NOWAIT: nothing is there now, or the queue is gone.
SayAllReceived == /\ me = "obey"
                  /\ ~(Found /\ IsThere(queue, -3))
                  /\ me' = "answer"
                  /\ UNCHANGED <<exists, queue, qid, mes, obeyed, darlingVars>>

\* Mutant: the answer is sent with the type that comes next.
ReplyFour == /\ me = "answer"
             /\ queue' = IF Found THEN Append(queue, Message(4, 1)) ELSE queue
             /\ me' = "off"
             /\ UNCHANGED <<exists, qid, mes, obeyed, darlingVars>>

\* To a queue that is gone nothing is sent.
Reply == /\ me = "answer"
         /\ queue' = IF Found THEN Append(queue, Message(Answer, 1)) ELSE queue
         /\ me' = "off"
         /\ UNCHANGED <<exists, qid, mes, obeyed, darlingVars>>

-----------------------------------------------------------------------------
Darling == Order \/ HearAnswer \/ RemoveQueue
Me == Obey \/ SayAllReceived \/ Reply

\* Nobody is started any more, and darling may wait for an answer for ever.
Over == /\ me = "off" /\ mes = Starts
        /\ \/ darling = "off" /\ darlings = Starts
           \/ darling = "wait" /\ ~IsThere(queue, Answer)
        /\ UNCHANGED vars

Next == Marry \/ Darling \/ ComeHome \/ Me \/ Over

-----------------------------------------------------------------------------
(* What is relied on.                                                       *)

\* What me takes has a priority: it indexes a list of three (me.cpp line 31),
\* and answers are in the same queue.
TypeOK == /\ exists \in BOOLEAN /\ (~exists => queue = <<>>)
          /\ darling \in {"off", "order", "wait", "remove"}
          /\ i \in 1 .. Rounds /\ j \in Priorities
          /\ me \in {"off", "obey", "answer"} /\ qid \in 0 .. darlings
          /\ darlings \in 0 .. Starts /\ mes \in 0 .. Starts
          /\ \A k \in DOMAIN obeyed : obeyed[k].signType \in Priorities

\* Orders of one priority are obeyed in the order they were given in, whatever
\* is sent while me goes on (darling.cpp lines 25-37, me.cpp line 30).
OrdersKeepTheirOrder ==
    \A k, l \in DOMAIN obeyed :
        k < l /\ obeyed[k].signType = obeyed[l].signType => obeyed[k].text < obeyed[l].text

\* An answer is heard: darling ends, and the queue is removed.
AnswerIsHeard == (me = "answer" /\ Found) ~> ~exists

\* Only orders are obeyed, with a priority that indexes the list of three
\* (me.cpp line 31), and in the order they were given in.
OrdersInv == TypeOK /\ OrdersKeepTheirOrder
=============================================================================

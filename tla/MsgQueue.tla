------------------------------- MODULE MsgQueue -------------------------------
(* A System V message queue as the programs of Linux_7_ProcessMsgQueue use  *)
(* it: a sequence of messages, received by type.                            *)
EXTENDS Integers, Sequences, SequencesExt, FiniteSetsExt

Message(type, text) == [signType |-> type, text |-> text]

Types(queue) == {queue[k].signType : k \in DOMAIN queue}

\* What msgrcv(..., type, ...) asks for: messages of a type, or, of a negative
\* one, those of the lowest type up to its absolute value.
Wanted(queue, type) ==
    LET low == {t \in Types(queue) : t <= -type} IN
    IF type > 0 THEN {type} ELSE IF low = {} THEN {} ELSE {Min(low)}

\* Positions of messages msgrcv would take; it takes the first.
Candidates(queue, type) == {k \in DOMAIN queue : queue[k].signType \in Wanted(queue, type)}

IsThere(queue, type) == Candidates(queue, type) # {}
Oldest(queue, type)  == queue[Min(Candidates(queue, type))]
Without(queue, type) == RemoveAt(queue, Min(Candidates(queue, type)))
=============================================================================

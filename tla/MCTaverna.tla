------------------------------ MODULE MCTaverna ------------------------------
(* Taverna with three descriptors, so that a closed one is given out again.  On   *)
(* some evenings three visitors come and one has to wait for one of two waiters;  *)
(* on some a patient visitor is joined by v4, who types on without waiting and    *)
(* may hang up; on two of them v3 may stop reading.                               *)
EXTENDS Taverna, TLC

CONSTANTS w1, w2, w3, v1, v2, v3, v4, v5

MCWaiters  == {w1, w2, w3}
MCVisitors == {v1, v2, v3, v4, v5}
MCClubs    == {7, 8}

Room(id) == [kind |-> "room", id |-> id]
Exit     == [kind |-> "exit", id |-> 0]
Text     == [kind |-> "text", id |-> 0]
Return   == [kind |-> "empty", id |-> 0]

Evening(waiters, who, what) ==
    [free |-> waiters, order |-> who,
     lines |-> [v \in MCVisitors |-> IF v \in DOMAIN what THEN what[v] ELSE <<>>]]

\* Two visitors meet in room 7, the third types room 0.
MCCrowd ==
    {Evening({w1, w2}, who, v1 :> <<Room(7), Exit>> @@ v2 :> <<Room(7), Exit>> @@ v3 :> <<Room(0)>>) :
        who \in {<<v1, v2, v3>>, <<v1, v3, v2>>, <<v3, v1, v2>>}}

\* v1 talks in room 7, and v4 comes there, or goes elsewhere, or hesitates at the
\* door, or leaves at once.
MCStranger ==
    {Evening({w1, w2}, who, v1 :> <<Room(7), Text, Exit>> @@ v4 :> what) :
        who \in {<<v1, v4>>, <<v4, v1>>},
        what \in {<<Room(7), Exit>>, <<Room(8), Exit>>, <<Text, Return>>, <<Exit>>}}

\* v3 may stop reading in room 7: where v1 leaves and v2 comes, and v5 goes elsewhere;
\* or where every free waiter is, so that v5 has to wait.
MCDreamer ==
    {Evening({w1, w2, w3}, <<v3, v1, v2, v5>>,
             v3 :> <<Room(7)>> @@ v1 :> <<Room(7), Exit>> @@ v2 :> <<Room(7)>> @@ v5 :> <<Room(0)>>),
     Evening({w1, w2}, <<v3, v1, v5>>,
             v3 :> <<Room(7), Exit>> @@ v1 :> <<Room(7), Exit>> @@ v5 :> <<Room(0)>>)}

MCEvenings == MCCrowd \cup MCStranger \cup MCDreamer

MCPatient   == {v1, v2, v3, v5}
MCHangingUp == {v4}
MCDreaming  == {v3}
=============================================================================

----------------------------- MODULE MCChatSystem -----------------------------
(* ChatSystem with two users, one or two workers and a pool of two buffers, which *)
(* grows when datagrams are handled while others are received.                    *)
EXTENDS ChatSystem, TLC

CONSTANTS w1, w2, c1, c2, alice, bob

MCWorkers   == {w1, w2}
MCOneWorker == {w1}
MCClients  == {c1, c2}
MCUserName == [c \in MCClients |-> IF c = c1 THEN alice ELSE bob]
MCNames    == {alice, bob, Garbled, NoName}

Text(to, at, len) == [kind |-> "text", to |-> to, at |-> at, len |-> len]
Word(len)         == [kind |-> "word", to |-> NoName, at |-> 0, len |-> len]
Exit              == [kind |-> "exit", to |-> NoName, at |-> 0, len |-> 4]

\* What stress_test.sh types, a text and then exit, at one client, while the other
\* is registered and stays.
MCStressScript == [c \in MCClients |->
                     IF c = c1 THEN <<Text(bob, 3, 8), Exit>> ELSE <<>>]

\* A slip of the keyboard: a word with no addressee, then exit, typed again when
\* nothing happens.
MCSlipScript == [c \in MCClients |->
                   IF c = c1 THEN <<Word(2), Exit, Exit>>
                             ELSE <<>>]

\* The workers are interchangeable in the safety runs.
MCSymmetry == Permutations(MCWorkers)
==============================================================================

--------------------------------- MODULE Womb ---------------------------------
(****************************************************************************)
(* Linux_7_ProcessMsgQueue/womb.cpp: a father feeds his child through a     *)
(* message queue that both use in both directions, and ends with a message  *)
(* of type 99, on which the child is born.  Interrupted and failing system  *)
(* calls are left out: the program installs no handler, and the queue is    *)
(* large enough (QueueHolds).                                               *)
(****************************************************************************)
EXTENDS MsgQueue

CONSTANT Rounds     (* 99 in the code: times runs from 1 to Rounds - 1      *)

Food == 1
Kick == 128
Birth == 99

VARIABLES queue,
          dad, dtimes,   (* where the father stands, his "times"            *)
          baby, btimes,  (* the same of the child                           *)
          womb,          (* womb[p]: type of the last message p received, 0 *)
          stolen         (* history: food the father took back              *)

vars == <<queue, dad, dtimes, baby, btimes, womb, stolen>>

Init == /\ queue = <<>>
        /\ dad = "feed" /\ dtimes = 1 /\ baby = "eat" /\ btimes = 1
        /\ womb = [p \in {"dad", "baby"} |-> 0]
        /\ stolen = 0

Send(type) == queue' = Append(queue, Message(type, Food))

Receive(p, type) == /\ IsThere(queue, type)
                    /\ queue' = Without(queue, type)
                    /\ womb' = [womb EXCEPT ![p] = Oldest(queue, type).signType]

-----------------------------------------------------------------------------
(* The father.                                                              *)

Feed == /\ dad = "feed" /\ dtimes < Rounds
        /\ Send(Food)
        /\ dad' = "listen"
        /\ UNCHANGED <<dtimes, baby, btimes, womb, stolen>>

\* IPC_NOWAIT: a message of the lowest type, whoever sent it, or none.
Listen == /\ dad = "listen"
          /\ dtimes' = dtimes + 1 /\ dad' = "feed"
          /\ \/ ~IsThere(queue, -Kick) /\ UNCHANGED <<queue, womb, stolen>>
             \/ /\ Receive("dad", -Kick)
                /\ stolen' = IF womb'["dad"] = Food THEN stolen + 1 ELSE stolen
          /\ UNCHANGED <<baby, btimes>>

\* Mutant: the message of type 99 is not sent.
DeliverNot == /\ dad = "feed" /\ dtimes = Rounds
              /\ dad' = "waitpid"
              /\ UNCHANGED <<queue, dtimes, baby, btimes, womb, stolen>>

Deliver == /\ dad = "feed" /\ dtimes = Rounds
           /\ Send(Birth)
           /\ dad' = "waitpid"
           /\ UNCHANGED <<dtimes, baby, btimes, womb, stolen>>

\* The queue is removed.
Finish == /\ dad = "waitpid" /\ baby = "born"
          /\ dad' = "done" /\ queue' = <<>>
          /\ UNCHANGED <<dtimes, baby, btimes, womb, stolen>>

-----------------------------------------------------------------------------
(* The child.                                                               *)

Eat == /\ baby = "eat" /\ btimes < Rounds
       /\ Receive("baby", -Birth)
       /\ baby' = IF womb'["baby"] = Birth THEN "come out" ELSE "kick"
       /\ UNCHANGED <<dad, dtimes, btimes, stolen>>

Fed == /\ baby = "eat" /\ btimes = Rounds
       /\ baby' = "come out"
       /\ UNCHANGED <<queue, dad, dtimes, btimes, womb, stolen>>

KickDad == /\ baby = "kick"
           /\ Send(Kick)
           /\ btimes' = btimes + 1 /\ baby' = "eat"
           /\ UNCHANGED <<dad, dtimes, womb, stolen>>

\* Mutant: the message after the loop is not waited for.
ComeOutAtOnce == /\ baby = "come out"
                 /\ baby' = "born"
                 /\ UNCHANGED <<queue, dad, dtimes, btimes, womb, stolen>>

\* The receive after the loop, which it enters with or without the message.
ComeOut == /\ baby = "come out"
           /\ Receive("baby", -Birth)
           /\ baby' = "born"
           /\ UNCHANGED <<dad, dtimes, btimes, stolen>>

-----------------------------------------------------------------------------
Dad  == Feed \/ Listen \/ Deliver \/ Finish
Baby == Eat \/ Fed \/ KickDad \/ ComeOut

Done == dad = "done" /\ UNCHANGED vars

\* The father has taken food back, and the child waits for more than will come.
Starved == dad = "waitpid" /\ stolen > 0 /\ ~IsThere(queue, -Birth) /\ UNCHANGED vars

Next == Dad \/ Baby \/ Done \/ Starved

-----------------------------------------------------------------------------
(* What is relied on.                                                       *)

\* The queue never holds more than Rounds messages: with Rounds = 99 and 128
\* bytes each it stays below the default limit, and msgsnd never blocks.
QueueHolds == Len(queue) <= Rounds

TypeOK == /\ dad \in {"feed", "listen", "waitpid", "done"} /\ dtimes \in 1 .. Rounds
          /\ baby \in {"eat", "kick", "come out", "born"} /\ btimes \in 1 .. Rounds
          /\ \A k \in DOMAIN queue : queue[k].signType \in {Food, Kick, Birth}
          /\ \A p \in {"dad", "baby"} : womb[p] \in {0, Food, Kick, Birth}
          /\ stolen \in 0 .. Rounds
          /\ QueueHolds

\* The child is born of the message of type 99, after all the food: the message
\* received after the loop is never one of the food (lines 55-80).
BornOfBirth == baby = "born" => womb["baby"] = Birth /\ btimes = Rounds /\ stolen = 0

\* All variables keep their types, the queue holds no more than it is taken to
\* hold, and whoever is born is born of the message of type 99.
BirthInv == TypeOK /\ BornOfBirth
=============================================================================

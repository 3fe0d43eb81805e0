----------------------------- MODULE HaremPalace -----------------------------
(****************************************************************************)
(* Linux_12_ThreadCond_HaremOverload: consorts wait for one of a few seats, *)
(* then for their turn; one lord serves the seated one of highest glamor.   *)
(*                                                                          *)
(* Seat waiters and turn waiters sleep on the same condition variable,      *)
(* g_lounge_cond, the lord on g_lord_cond.  From the moment a thread has    *)
(* g_lounge_mutex to the moment it unlocks or waits nobody else touches the *)
(* lounge, so that each such stretch is one step.  The priority queue is a  *)
(* set: which of several equally glamorous consorts is on top is left open. *)
(*                                                                          *)
(* What a specification usually calls Init, Next or TypeOK bears the name   *)
(* of the palace, so that one module can extend this one and another.       *)
(****************************************************************************)
EXTENDS Naturals, FiniteSets

CONSTANTS Consorts,   (* threads of the_concubine                           *)
          Glamors,    (* what glamor may be                                 *)
          Seats,      (* MAX_LOUNGE_SEATS                                   *)
          NoConsort

ASSUME PalaceAssumption == /\ IsFiniteSet(Consorts) /\ Glamors \subseteq Nat
                           /\ Seats \in Nat \ {0} /\ NoConsort \notin Consorts

VARIABLES glamor,     (* glamor[c], chosen when the thread starts           *)
          pq,         (* g_harm_pq                                          *)
          ready,      (* g_ready_concubines_set                             *)
          cpc,        (* where a consort's thread stands                    *)
          lord,       (* where the lord's thread stands                     *)
          consort     (* the lord's local variable                          *)

palaceVars == <<glamor, pq, ready, cpc, lord, consort>>

PalaceInit == /\ glamor \in [Consorts -> Glamors]
              /\ pq = {} /\ ready = {}
              /\ cpc = [c \in Consorts |-> "dress"]
              /\ lord = "look" /\ consort = NoConsort

\* A consort's thread sleeps on g_lounge_cond, waiting for a seat or its turn.
NoSeat == {c \in Consorts : cpc[c] = "noSeat"}
Seated == {c \in Consorts : cpc[c] = "seated"}

\* cpc of a thread that pthread_cond_wait returns to.
Awake(c) == IF cpc[c] = "noSeat" THEN "retry" ELSE "called"

-----------------------------------------------------------------------------
(* the_concubine                                                            *)

\* Mutant: if for while, one who is woken takes a seat without a second look.
SitDownUntested(c) == /\ \/ cpc[c] = "dress" /\ Cardinality(pq) < Seats
                         \/ cpc[c] = "retry"
                      /\ pq' = pq \cup {c}
                      /\ ready' = ready \cup {c}
                      /\ lord' = IF lord = "asleep" THEN "look" ELSE lord
                      /\ cpc' = [cpc EXCEPT ![c] = "seated"]
                      /\ UNCHANGED <<glamor, consort>>

\* Mutant: the lord is not signalled.
SitDownQuietly(c) == /\ cpc[c] \in {"dress", "retry"}
                     /\ Cardinality(pq) < Seats
                     /\ pq' = pq \cup {c}
                     /\ ready' = ready \cup {c}
                     /\ cpc' = [cpc EXCEPT ![c] = "seated"]
                     /\ UNCHANGED <<glamor, lord, consort>>

\* There is a seat: she joins queue and set, signals the lord and, being in the
\* set, waits.  Whether she says that she cuts in is left out.
SitDown(c) == /\ cpc[c] \in {"dress", "retry"}
              /\ Cardinality(pq) < Seats
              /\ pq' = pq \cup {c}
              /\ ready' = ready \cup {c}
              /\ lord' = IF lord = "asleep" THEN "look" ELSE lord
              /\ cpc' = [cpc EXCEPT ![c] = "seated"]
              /\ UNCHANGED <<glamor, consort>>

StandBy(c) == /\ cpc[c] \in {"dress", "retry"}
              /\ Cardinality(pq) >= Seats
              /\ cpc' = [cpc EXCEPT ![c] = "noSeat"]
              /\ UNCHANGED <<glamor, pq, ready, lord, consort>>

\* Woken, she is still in the set and waits on ...
NotYet(c) == /\ cpc[c] = "called"
             /\ c \in ready
             /\ cpc' = [cpc EXCEPT ![c] = "seated"]
             /\ UNCHANGED <<glamor, pq, ready, lord, consort>>

\* ... or she is not: the lounge is left.
Leave(c) == /\ cpc[c] = "called"
            /\ c \notin ready
            /\ cpc' = [cpc EXCEPT ![c] = "rest"]
            /\ UNCHANGED <<glamor, pq, ready, lord, consort>>

Rested(c) == /\ cpc[c] = "rest"
             /\ cpc' = [cpc EXCEPT ![c] = "dress"]
             /\ UNCHANGED <<glamor, pq, ready, lord, consort>>

-----------------------------------------------------------------------------
(* the_lord                                                                 *)

LordSleeps == /\ lord = "look"
              /\ pq = {}
              /\ lord' = "asleep"
              /\ UNCHANGED <<glamor, pq, ready, cpc, consort>>

Top == {c \in pq : \A d \in pq : glamor[d] <= glamor[c]}

\* top, pop, erase and unlock.
LordPicks(c) == /\ lord = "look"
                /\ c \in Top
                /\ pq' = pq \ {c}
                /\ ready' = ready \ {c}
                /\ consort' = c
                /\ lord' = "broadcast"
                /\ UNCHANGED <<glamor, cpc>>

\* Mutant: one is woken for all.
SignalLounge == /\ lord = "broadcast"
                /\ \/ NoSeat \cup Seated = {} /\ UNCHANGED cpc
                   \/ \E c \in NoSeat \cup Seated : cpc' = [cpc EXCEPT ![c] = Awake(c)]
                /\ lord' = "attend"
                /\ UNCHANGED <<glamor, pq, ready, consort>>

Broadcast == /\ lord = "broadcast"
             /\ cpc' = [c \in Consorts |-> IF c \in NoSeat \cup Seated THEN Awake(c) ELSE cpc[c]]
             /\ lord' = "attend"
             /\ UNCHANGED <<glamor, pq, ready, consort>>

\* The visit and the pause after it.
Attend == /\ lord = "attend"
          /\ lord' = "look"
          /\ consort' = NoConsort
          /\ UNCHANGED <<glamor, pq, ready, cpc>>

-----------------------------------------------------------------------------
\* pthread_cond_wait may return without a signal.
WokenUnasked == \/ \E c \in NoSeat \cup Seated :
                     /\ cpc' = [cpc EXCEPT ![c] = Awake(c)]
                     /\ UNCHANGED <<glamor, pq, ready, lord, consort>>
                \/ /\ lord = "asleep" /\ lord' = "look"
                   /\ UNCHANGED <<glamor, pq, ready, cpc, consort>>

ConcubineStep(c) == SitDown(c) \/ StandBy(c) \/ NotYet(c) \/ Leave(c) \/ Rested(c)

LordStep == LordSleeps \/ (\E c \in Consorts : LordPicks(c)) \/ Broadcast \/ Attend

PalaceNext == LordStep \/ (\E c \in Consorts : ConcubineStep(c)) \/ WokenUnasked

PalaceSpec == PalaceInit /\ [][PalaceNext]_palaceVars

-----------------------------------------------------------------------------
(* What is relied on.                                                       *)

\* There are never more consorts in the queue than seats, although all who
\* stand by are woken for one seat (HaremPalace.cpp lines 68-71).
PalaceTypeOK == /\ glamor \in [Consorts -> Glamors]
                /\ pq \subseteq Consorts /\ Cardinality(pq) <= Seats
                /\ ready \subseteq Consorts
                /\ cpc \in [Consorts -> {"dress", "noSeat", "retry", "seated", "called", "rest"}]
                /\ lord \in {"look", "asleep", "broadcast", "attend"}
                /\ consort \in Consorts \cup {NoConsort}

\* Nobody sleeps on a condition that already holds, unless the broadcast that
\* ends the sleep is still to come: who stands by does so for want of a seat,
\* who is seated is queued, and the lord sleeps on an empty queue (one
\* variable, g_lounge_cond, serves two conditions, and it is broadcast after
\* the mutex is released: lines 44-45, 68-83).
NobodyIsForgotten ==
    /\ lord # "broadcast" => /\ NoSeat # {} => Cardinality(pq) = Seats
                             /\ Seated \subseteq pq \cap ready
    /\ lord = "asleep" => pq = {}
=============================================================================

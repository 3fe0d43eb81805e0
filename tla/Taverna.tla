------------------------------- MODULE Taverna -------------------------------
(****************************************************************************)
(* The tavern: the server and the visitors of TavernaVisitor.cpp.  A        *)
(* visitor's program sends each line that is typed, and stops sending after *)
(* "exit"; its other thread prints what arrives and only ends when the      *)
(* server closes the connection.  Both must end before the program does.    *)
(****************************************************************************)
EXTENDS TavernaServer

CONSTANTS Evenings,   (* [lines, order, free]: what each visitor types, who *)
                      (* comes when, and which waiters are not with other   *)
                      (* visitors all evening                               *)
          Patient,    (* visitors who type when the line before was read    *)
          HangingUp,  (* visitors whose program may be killed               *)
          Dreaming    (* visitors whose program may stop reading            *)

ASSUME TavernaAssumption ==
    /\ \A evening \in Evenings : /\ evening.free \subseteq Waiters
                                 /\ evening.order \in Seq(Visitors) /\ IsInjective(evening.order)
                                 /\ \A v \in Visitors : evening.lines[v] \in Seq(Lines)
    /\ Patient \cup HangingUp \cup Dreaming \subseteq Visitors

VARIABLES script,   (* script[v]: the lines visitor v will type             *)
          typed     (* typed[v]: how many lines visitor v has typed         *)

vars == <<serverVars, script, typed>>

Init == \E evening \in Evenings :
            /\ script = evening.lines
            /\ typed = [v \in Visitors |-> 0]
            /\ ServerInit(evening.order, evening.free)

\* The send thread has left its loop.
SaidExit(v) == typed[v] > 0 /\ script[v][typed[v]].kind = "exit"

\* The server has closed the connection: the receive thread reads end of file.
Closed(v) == vfd[v] \in Fds /\ fd_owner[vfd[v]] # v

Prompted(v) == \E m \in heard[v] : m.kind = "prompt"

TypeLine(v) ==
    /\ v \notin gone
    /\ typed[v] < Len(script[v])
    /\ ~SaidExit(v) /\ ~Closed(v)
    /\ v \in Patient => Prompted(v) /\ stream[v] = <<>>
    /\ typed' = [typed EXCEPT ![v] = @ + 1]
    /\ stream' = [stream EXCEPT ![v] = Append(@, script[v][typed[v] + 1])]
    /\ UNCHANGED <<clubVars, connVars, queueVars, mutex_, mapVars, mainVars, club_id,
                   read_upto, waiterVars, dismissed, script>>

HangUp(v) ==
    /\ v \in HangingUp \ gone
    /\ script[v] # <<>> /\ ~Closed(v)
    /\ gone' = gone \cup {v}
    /\ UNCHANGED <<clubVars, fd_owner, clogged, reset, heard, crashed, queueVars, mutex_,
                   mapVars, mainVars, club_id, lineVars, waiterVars, dismissed,
                   script, typed>>

\* His terminal takes no more output, while others in the room talk on.
StopReading(v) ==
    /\ v \in Dreaming \ clogged
    /\ \E r \in Rooms : vfd[v] \in Members(r) /\ ~Closed(v)
    /\ clogged' = clogged \cup {v}
    /\ UNCHANGED <<clubVars, fd_owner, gone, reset, heard, crashed, queueVars, mutex_,
                   mapVars, mainVars, club_id, lineVars, waiterVars, dismissed,
                   script, typed>>

ServerStep == /\ Main \/ \E w \in Waiters : Waiter(w)
              /\ UNCHANGED <<script, typed>>

\* The server waits for visitors and for what they type, or for one who does not
\* read; or it has crashed.
Resting(w) == \/ wpc[w] = "busy"
              \/ wpc[w] = "wait" /\ sem_ = 0
              \/ /\ wpc[w] \in {"ask", "recv"}
                 /\ stream[visitor[w]] = <<>> /\ visitor[w] \notin gone
              \/ HeldUp(w)
              \/ wpc[w] \in {"pop", "check"} /\ HallShut
Quiet == \/ crashed # "no"
         \/ /\ \/ mpc = "accept" /\ (calling = <<>> \/ \A fd \in Fds : fd_owner[fd] # NoVisitor)
               \/ mpc = "push" /\ HallShut
            /\ \A w \in Waiters : Resting(w)

Next == \/ /\ crashed = "no"
           /\ ServerStep \/ \E v \in Visitors : TypeLine(v) \/ HangUp(v) \/ StopReading(v)
        \/ Quiet /\ UNCHANGED vars

Spec == Init /\ [][Next]_vars

\* What every step of a waiter changes some of, as main's change mpc.
progress == <<wpc, unwritten, stream, crashed>>

\* Threads are scheduled, and visitors go on typing; who has stopped reading need
\* not go on.
Fairness == /\ WF_mpc(crashed = "no" /\ Main)
            /\ \A w \in Waiters : WF_progress(crashed = "no" /\ Waiter(w))
            /\ \A v \in Visitors : WF_typed(crashed = "no" /\ TypeLine(v))

FairSpec == Spec /\ Fairness

-----------------------------------------------------------------------------
TypeOK == /\ ServerTypeOK
          /\ \E evening \in Evenings : script = evening.lines
          /\ typed \in [Visitors -> Nat]
          /\ \A v \in Visitors : typed[v] <= Len(script[v])

\* While a waiter writes to the members of a room the list does not change: those
\* still to be written to are members, and no second waiter is in the loop.
LoopIsStable ==
    crashed = "no" =>
      \A w \in Waiters :
         wpc[w] \in {"greet", "talk"} /\ Usable(room[w]) =>
            /\ ToSet(unwritten[w]) \subseteq Members(room[w])
            /\ club_mutex[room[w]] = w

\* An empty room is not left behind: somebody is about to enter it, or has just
\* left it and will clear it away, if nobody hangs up.
RoomsAreCleared ==
    crashed = "no" /\ gone = {} =>
      \A c \in Clubs :
         chat_room_map[c] \in Rooms /\ Members(chat_room_map[c]) = {} =>
            \E w \in Waiters :
               /\ visitor[w] # NoVisitor /\ club_id[visitor[w]] = c
               /\ wpc[w] \in {"join", "add", "greet", "close", "check", "count",
                              "erase"}

\* Visitors who keep to rooms of their own never meet a null or destroyed room: it
\* takes a second visitor to the same number.
CrashTakesTwo ==
    crashed \in {"null", "freed"} =>
      \E u, v \in Visitors : u # v /\ club_id[u] = club_id[v] /\ club_id[u] # 0

\* What is said in a room is heard in that room only: no descriptor stays on a
\* list after its connection was closed and the number given to somebody else.
\* It holds until a visitor is gone without exit: nobody strikes him out.
HeardInTheRoom ==
    gone = {} =>
      \A v \in Visitors : \A m \in heard[v] :
         m.kind \in {"welcome", "text", "farewell"} => club_id[m.by] = club_id[v]

\* The hand-over from main to the waiters.
Running == [w \in Waiters |-> visitor[w]]

WQ == INSTANCE WorkQueue WITH Workers  <- Waiters,
                              Tasks    <- Visitors,
                              NoTask   <- NoVisitor,
                              waiting  <- visitor_queue_,
                              running  <- Running,
                              accepted <- accepted,
                              finished <- dismissed

\* Visitors are served once each, in the order they came, by one waiter.
ImplementsWorkQueue == WQ!Spec

\* Again and again, everybody let in so far has been asked for his room number, although visitors
\* outnumber the waiters: those who leave make room.  A member who does not read
\* (TavernaClub.h line 73) prevents it when every free waiter comes to his room, or
\* when one is about to check it, with mutex_ (TavernaSever.h line 35); a room with
\* no such waiter prevents nothing elsewhere.
Prevented == HallShut \/ \A w \in Waiters : wpc[w] = "busy" \/ HeldUp(w)
VisitorIsAsked ==
    []<>(\A v \in accepted : Prompted(v) \/ v \in gone \/ crashed # "no" \/ Prevented)

\* Who types exit in a room gets rid of the server: the connection is closed,
\* which is what ends the visitor's program, unless a member of the room does not
\* read.  At the door, where exit is offered too, and for those who type on without
\* waiting the code does not ensure it.
ExitEndsVisit ==
    []<>(\A v \in Patient : SaidExit(v) /\ club_id[v] # 0 =>
             Closed(v) \/ crashed # "no" \/ \E w \in Waiters : visitor[w] = v /\ HeldUp(w))

\* A room a waiter joins or checks is there ("a new user has joined").
RoomIsThere == crashed \notin {"null", "freed"}

\* All variables keep their types, and the list a waiter walks does not change
\* under him (the loops of TavernaClub.h, lines 36, 59 and 69, hold the mutex).
RoomInv == TypeOK /\ LoopIsStable
=============================================================================

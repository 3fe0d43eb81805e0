---------------------------- MODULE TavernaServer ----------------------------
(****************************************************************************)
(* Linux_16_CyberpunkTaverna/Sever: TavernaSever.h and CyberpunkTaverna.cpp.*)
(* main accepts connections and queues them; a waiter takes one, asks for a *)
(* room number, and stays with the visitor until he leaves.  main never     *)
(* leaves its loop, so running_state_ stays true and ~TavernaServer never   *)
(* runs.                                                                    *)
(*                                                                          *)
(* chat_room_map is searched and extended without mutex_, and emptied under *)
(* it.  The map owns the rooms: a room that is erased is destroyed, whoever *)
(* still works in it.  Using a null or destroyed room ends the process here *)
(* ("null", "freed"); find, emplace, operator[] and erase are taken to be   *)
(* atomic, though two threads in unordered_map at once is a race too.       *)
(****************************************************************************)
EXTENDS TavernaClub

CONSTANTS Clubs    (* the room numbers visitors ask for                     *)

ASSUME ClubsAssumption == Clubs \subseteq Nat \ {0}

\* A line a visitor types: a number, the word exit, a text or just Return.
Lines == [kind : {"room", "exit", "text", "empty"}, id : Clubs \cup {0}]

\* The values chat_room_map has besides a room: no entry, or a null pointer.
Absent == 0
Null   == MaxRooms + 1

VARIABLES visitor_queue_, mutex_, sem_, chat_room_map,
          calling,   (* the backlog of the listening socket                 *)
          mpc,       (* where main stands                                   *)
          arriving,  (* main's v                                            *)
          vfd,       (* Visitor::fd: 0 before accept and when it failed     *)
          club_id,   (* Visitor::club_id                                    *)
          stream,    (* stream[v]: lines typed by v and not yet read        *)
          read_upto, (* read_upto[v]: how many lines have been read         *)
          wpc,       (* where a waiter stands                               *)
          visitor,   (* the waiter's v                                      *)
          room,      (* the room the waiter's call is in                    *)
          saying,    (* the kind of message of that call                    *)
          made,      (* room objects made so far                            *)
          accepted,  (* history: visitors that were queued                  *)
          dismissed  (* history: visitors their waiter has done with        *)

mainVars   == <<calling, mpc, arriving, vfd>>
lineVars   == <<stream, read_upto>>
waiterVars == <<wpc, visitor, room, saying>>
mapVars    == <<chat_room_map, made>>
queueVars  == <<visitor_queue_, sem_, accepted>>
serverVars == <<clubVars, connVars, queueVars, mutex_, mapVars, mainVars, club_id,
                lineVars, waiterVars, dismissed>>

\* `callers` come this evening, in this order; waiters not in `free` are with other visitors.
ServerInit(callers, free) ==
    /\ ClubInit
    /\ visitor_queue_ = <<>> /\ mutex_ = Nobody /\ sem_ = 0
    /\ chat_room_map = [c \in Clubs |-> Absent] /\ made = 0
    /\ calling = callers /\ mpc = "accept" /\ arriving = NoVisitor
    /\ vfd = [v \in Visitors |-> 0] /\ club_id = [v \in Visitors |-> 0]
    /\ stream = [v \in Visitors |-> <<>>] /\ read_upto = [v \in Visitors |-> 0]
    /\ wpc = [w \in Waiters |-> IF w \in free THEN "wait" ELSE "busy"]
    /\ visitor = [w \in Waiters |-> NoVisitor]
    /\ room = [w \in Waiters |-> Null] /\ saying = [w \in Waiters |-> "prompt"]
    /\ accepted = {} /\ dismissed = {}

\* What ends the process.
Crash(why) == crashed' = why /\ UNCHANGED <<fd_owner, gone, reset, clogged, heard>>

-----------------------------------------------------------------------------
(* main and welcome_visitor                                                 *)

MainGoes(now, next) == mpc = now /\ mpc' = next

\* The kernel gives out the lowest free descriptor.
LowestFree(fd) == /\ fd_owner[fd] = NoVisitor
                  /\ \A k \in 1..(fd - 1) : fd_owner[k] # NoVisitor

Accept == /\ MainGoes("accept", "push")
          /\ calling # <<>> /\ calling' = Tail(calling) /\ arriving' = Head(calling)
          /\ \E fd \in Fds : /\ LowestFree(fd)
                             /\ vfd' = [vfd EXCEPT ![Head(calling)] = fd]
                             /\ fd_owner' = [fd_owner EXCEPT ![fd] = Head(calling)]
          /\ UNCHANGED <<stream, queueVars>>

\* accept fails, because the caller is gone again, and what he typed is lost: a
\* Visitor with descriptor -1 is queued all the same.
AcceptFails == /\ MainGoes("accept", "push")
               /\ calling # <<>> /\ calling' = Tail(calling) /\ arriving' = Head(calling)
               /\ Head(calling) \in gone
               /\ stream' = [stream EXCEPT ![Head(calling)] = <<>>]
               /\ UNCHANGED <<vfd, fd_owner, queueVars>>

\* Mutants: push_front for push_back, and no sem_post.
QueuedInFront(v) == <<v>> \o visitor_queue_
NotPosted == sem_

Queued(v) == Append(visitor_queue_, v)
Posted == sem_ + 1

Push == /\ MainGoes("push", "post")
        /\ mutex_ = Nobody
        /\ visitor_queue_' = Queued(arriving)
        /\ accepted' = accepted \cup {arriving}
        /\ UNCHANGED <<sem_, calling, arriving, vfd, stream, fd_owner>>

Post == /\ MainGoes("post", "accept")
        /\ sem_' = Posted
        /\ arriving' = NoVisitor
        /\ UNCHANGED <<visitor_queue_, accepted, calling, vfd, stream, fd_owner>>

Main == /\ Accept \/ AcceptFails \/ Push \/ Post
        /\ UNCHANGED <<clubVars, gone, reset, clogged, heard, crashed, mutex_, mapVars,
                       club_id, read_upto, waiterVars, dismissed>>

-----------------------------------------------------------------------------
(* waiter_routine, up to the room number.                                   *)

Goes(w, now, next) == wpc[w] = now /\ wpc' = [wpc EXCEPT ![w] = next]
Fd(w) == vfd[visitor[w]]
Msg(w, kind) == [kind |-> kind, by |-> visitor[w], no |-> read_upto[visitor[w]]]
Silent == UNCHANGED connVars

\* read returns what has arrived, one line or several in one piece.
Read(v, n) == /\ n \in 1..Len(stream[v])
              /\ stream' = [stream EXCEPT ![v] = SubSeq(@, n + 1, Len(@))]
              /\ read_upto' = [read_upto EXCEPT ![v] = @ + n]

Is(v, n, kind) == n = 1 /\ stream[v][1].kind = kind

\* Back to the top of the loop.
Dismiss(w) == /\ dismissed' = dismissed \cup {visitor[w]}
              /\ visitor' = [visitor EXCEPT ![w] = NoVisitor]
              /\ room' = [room EXCEPT ![w] = Null]
              /\ saying' = [saying EXCEPT ![w] = "prompt"]
Keep(w) == UNCHANGED <<dismissed, visitor, room, saying>>

SemWait(w) == /\ Goes(w, "wait", "pop")
              /\ sem_ > 0 /\ sem_' = sem_ - 1
              /\ Keep(w) /\ Silent
              /\ UNCHANGED <<visitor_queue_, club_id, lineVars>>

\* The empty queue sends the waiter back; without the destructor no token comes
\* without a visitor.
PopVisitor(w) ==
    /\ mutex_ = Nobody
    /\ \/ /\ visitor_queue_ = <<>> /\ Goes(w, "pop", "wait")
          /\ UNCHANGED <<visitor_queue_, visitor>>
       \/ /\ visitor_queue_ # <<>> /\ Goes(w, "pop", "prompt")
          /\ visitor' = [visitor EXCEPT ![w] = Head(visitor_queue_)]
          /\ visitor_queue_' = Tail(visitor_queue_)
    /\ Silent
    /\ UNCHANGED <<sem_, club_id, lineVars, room, saying, dismissed>>

Prompt(w) == /\ Goes(w, "prompt", "ask")
             /\ WriteTo(Fd(w), Msg(w, "prompt"))
             /\ Keep(w)
             /\ UNCHANGED <<visitor_queue_, sem_, club_id, lineVars>>

\* get_club_id returns 0, and the visitor is left alone with his connection: for
\* room 0, "exit", and when nothing more is to be read.
AskedForNothing(w) ==
    LET v == visitor[w] IN
    /\ Goes(w, "ask", "wait") /\ Dismiss(w)
    /\ \/ /\ v \in gone /\ stream[v] = <<>> /\ Silent /\ UNCHANGED lineVars
       \/ \E n \in 1..Len(stream[v]) :
             /\ Read(v, n)
             /\ \/ Is(v, n, "room") /\ stream[v][1].id = 0 /\ Silent
                \/ Is(v, n, "exit") /\ WriteTo(Fd(w), Msg(w, "thanks"))
    /\ UNCHANGED club_id

\* A room number; just Return, which is "all digits", so that stoul throws and
\* nobody catches; or anything else, and he is asked again.
AskedForRoom(w) ==
    LET v == visitor[w] IN
    /\ \E n \in 1..Len(stream[v]) :
          /\ Read(v, n)
          /\ \/ /\ Goes(w, "ask", "find") /\ Is(v, n, "room") /\ stream[v][1].id # 0
                /\ club_id' = [club_id EXCEPT ![v] = stream[v][1].id] /\ Silent
             \/ /\ Goes(w, "ask", "ask") /\ Is(v, n, "empty")
                /\ Crash("throw") /\ UNCHANGED club_id
             \/ /\ Goes(w, "ask", "ask")
                /\ \A kind \in {"room", "exit", "empty"} : ~Is(v, n, kind)
                /\ WriteTo(Fd(w), Msg(w, "error")) /\ UNCHANGED club_id
    /\ Keep(w)

Ask(w) == /\ wpc[w] = "ask"
          /\ AskedForNothing(w) \/ AskedForRoom(w)
          /\ UNCHANGED <<visitor_queue_, sem_>>

AtTheDoor(w) == /\ SemWait(w) \/ PopVisitor(w) \/ Prompt(w) \/ Ask(w)
                /\ UNCHANGED <<clubVars, accepted, mutex_, mapVars, mainVars>>

-----------------------------------------------------------------------------
(* waiter_routine and check_club_using on chat_room_map.                    *)

Club(w) == club_id[visitor[w]]

FindRoom(w) ==
    /\ Goes(w, "find", IF chat_room_map[Club(w)] = Absent THEN "emplace" ELSE "join")
    /\ Keep(w) /\ Silent /\ UNCHANGED <<mutex_, mapVars>>

\* Mutants: the room that is made does not get into the map; it is not erased.
NotEmplaced(c) == chat_room_map
NotErased(c) == chat_room_map

Emplaced(c) == [chat_room_map EXCEPT ![c] = made + 1]
Erased(c) == [chat_room_map EXCEPT ![c] = Absent]

\* emplace does nothing when somebody else has made the room meanwhile.
EmplaceRoom(w) ==
    /\ Goes(w, "emplace", "join")
    /\ \/ chat_room_map[Club(w)] # Absent /\ UNCHANGED mapVars
       \/ /\ chat_room_map[Club(w)] = Absent /\ made < MaxRooms
          /\ made' = made + 1 /\ chat_room_map' = Emplaced(Club(w))
    /\ Keep(w) /\ Silent /\ UNCHANGED mutex_

\* chat_room_map[club_id], before add_member and before receive_msg, makes a null
\* entry when there is none.
LookUp(w) == LET found == chat_room_map[Club(w)]
                 got   == IF found = Absent THEN Null ELSE found
             IN  /\ Goes(w, "join", "add") \/ Goes(w, "get", "recv")
                 /\ chat_room_map' = [chat_room_map EXCEPT ![Club(w)] = got]
                 /\ room' = [room EXCEPT ![w] = got]
                 /\ Silent /\ UNCHANGED <<mutex_, made, visitor, saying, dismissed>>

\* chat_room_map[club_id]-> on an entry that is null, or missing and made null,
\* ends the process.
CheckClub(w) == /\ mutex_ = Nobody
                /\ \/ /\ Goes(w, "check", "count") /\ chat_room_map[Club(w)] \in Rooms
                      /\ mutex_' = w /\ Silent
                   \/ /\ Goes(w, "check", "check") /\ chat_room_map[Club(w)] \notin Rooms
                      /\ Crash("null") /\ UNCHANGED mutex_
                /\ Keep(w) /\ UNCHANGED mapVars

\* get_member_count takes the room's mutex while mutex_ is held.
CountMembers(w) ==
    LET r == chat_room_map[Club(w)] IN
    /\ wpc[w] = "count" /\ club_mutex[r] = Nobody
    /\ \/ Goes(w, "count", "erase") /\ Members(r) = {} /\ Keep(w) /\ UNCHANGED mutex_
       \/ Goes(w, "count", "wait") /\ Members(r) # {} /\ Dismiss(w) /\ mutex_' = Nobody
    /\ Silent /\ UNCHANGED mapVars

EraseRoom(w) == /\ Goes(w, "erase", "wait") /\ Dismiss(w) /\ mutex_' = Nobody
                /\ chat_room_map' = Erased(Club(w))
                /\ Silent /\ UNCHANGED made

OnTheMap(w) == /\ \/ FindRoom(w) \/ EmplaceRoom(w) \/ LookUp(w)
                  \/ CheckClub(w) \/ CountMembers(w) \/ EraseRoom(w)
               /\ UNCHANGED <<clubVars, queueVars, mainVars, club_id, lineVars>>

-----------------------------------------------------------------------------
(* add_member and receive_msg, in a room.                                   *)

\* The room exists as long as the map holds it.
Usable(r) == r \in Rooms /\ \E c \in Clubs : chat_room_map[c] = r
Here(w, now, next) == Goes(w, now, next) /\ Usable(room[w])

\* A room that is null or destroyed, or in which chat_members[fd] makes a null
\* address because another room's member is served in it.
UseOfNothing(w) ==
    /\ wpc[w] \in {"add", "greet", "speak", "talk"}
    /\ Usable(room[w]) => wpc[w] = "speak" /\ Fd(w) \notin Members(room[w])
    /\ Crash(IF room[w] \in Rooms /\ ~Usable(room[w]) THEN "freed" ELSE "null")
    /\ UNCHANGED <<wpc, saying, clubVars, lineVars>>

\* add_member takes the mutex and welcomes the new member to all the others.
AddMember(w) == /\ Here(w, "add", "greet")
                /\ LockClub(w, room[w], Members(room[w]))
                /\ saying' = [saying EXCEPT ![w] = "welcome"]
                /\ Silent /\ UNCHANGED lineVars

\* The body of the loops over chat_members.
WriteNext(w) == /\ Here(w, "greet", "greet") \/ Here(w, "talk", "talk")
                /\ WriteMember(w, Msg(w, saying[w]))
                /\ UNCHANGED <<saying, lineVars>>

MemberAdded(w) == /\ Here(w, "greet", "get")
                  /\ EnterClub(w, room[w], Fd(w), visitor[w])
                  /\ Silent /\ UNCHANGED <<saying, lineVars>>

\* receive_msg reads: exit by itself leads to so_long_member, all else to send_msg.
ReceiveMsg(w) ==
    /\ Goes(w, "recv", "speak")
    /\ \E n \in 1..Len(stream[visitor[w]]) :
          /\ Read(visitor[w], n)
          /\ saying' = [saying EXCEPT ![w] =
                          IF Is(visitor[w], n, "exit") THEN "farewell" ELSE "text"]
    /\ Silent /\ UNCHANGED clubVars

\* read returns 0, and the loop ends without so_long_member; or -1, which is
\* positive as an unsigned length: buf[recv_len - 1] is far outside of buf.
ReceiveEnd(w) ==
    /\ wpc[w] = "recv" /\ stream[visitor[w]] = <<>> /\ visitor[w] \in gone
    /\ \/ Goes(w, "recv", "close") /\ visitor[w] \notin reset /\ Silent
       \/ Goes(w, "recv", "recv") /\ visitor[w] \in reset /\ Crash("bounds")
    /\ UNCHANGED <<clubVars, saying, lineVars>>

\* send_msg and so_long_member take the mutex and address everybody else.
Speak(w) == /\ Here(w, "speak", "talk") /\ Fd(w) \in Members(room[w])
            /\ LockClub(w, room[w], Members(room[w]) \ {Fd(w)})
            /\ Silent /\ UNCHANGED <<saying, lineVars>>

Spoken(w) == /\ \/ /\ Here(w, "talk", "recv") /\ saying[w] = "text"
                   /\ StaySeated(w, room[w])
                \/ /\ Here(w, "talk", "close") /\ saying[w] = "farewell"
                   /\ LeaveClub(w, room[w], Fd(w))
             /\ Silent /\ UNCHANGED <<saying, lineVars>>

\* Mutant: the descriptor stays open.
LeftOpen(fd) == fd_owner

ClosedFd(fd) == [fd_owner EXCEPT ![fd] = NoVisitor]

CloseFd(w) == /\ Goes(w, "close", "check")
              /\ fd_owner' = ClosedFd(Fd(w))
              /\ UNCHANGED <<clubVars, gone, reset, clogged, heard, crashed, saying, lineVars>>

InTheRoom(w) ==
    /\ \/ UseOfNothing(w) \/ AddMember(w) \/ WriteNext(w) \/ MemberAdded(w)
       \/ ReceiveMsg(w) \/ ReceiveEnd(w) \/ Speak(w) \/ Spoken(w) \/ CloseFd(w)
    /\ UNCHANGED <<queueVars, mutex_, mapVars, mainVars, club_id, visitor, room, dismissed>>

Waiter(w) == AtTheDoor(w) \/ OnTheMap(w) \/ InTheRoom(w)

-----------------------------------------------------------------------------
(* Held up by a member who does not read.                                   *)

\* A waiter cannot finish a write, and has the room's mutex; or he needs it.
Stuck(w) == unwritten[w] # <<>> /\ fd_owner[Head(unwritten[w])] \in clogged \ gone
Shut(r) == r \in Rooms /\ club_mutex[r] # Nobody /\ Stuck(club_mutex[r])
HeldUp(w) == \/ Stuck(w)
             \/ wpc[w] \in {"add", "speak"} /\ Shut(room[w])
             \/ wpc[w] = "count" /\ Shut(chat_room_map[Club(w)])

\* Main and all other waiters need mutex_.
HallShut == mutex_ # Nobody /\ HeldUp(mutex_)

WaiterPC == {"busy", "wait", "pop", "prompt", "ask", "find", "emplace", "join", "add", "greet",
             "get", "recv", "speak", "talk", "close", "check", "count", "erase"}

HallTypeOK == /\ visitor_queue_ \in Seq(Visitors) /\ sem_ \in Nat
              /\ mutex_ \in Waiters \cup {Nobody}
              /\ chat_room_map \in [Clubs -> 0..Null] /\ made \in 0..MaxRooms
              /\ accepted \in SUBSET Visitors /\ dismissed \in SUBSET Visitors
              /\ calling \in Seq(Visitors) /\ arriving \in Visitors \cup {NoVisitor}
              /\ mpc \in {"accept", "push", "post"}

VisitorTypeOK == /\ vfd \in [Visitors -> 0..MaxFd] /\ club_id \in [Visitors -> Clubs \cup {0}]
                 /\ stream \in [Visitors -> Seq(Lines)] /\ read_upto \in [Visitors -> Nat]

WaiterTypeOK == /\ wpc \in [Waiters -> WaiterPC]
                /\ visitor \in [Waiters -> Visitors \cup {NoVisitor}]
                /\ room \in [Waiters -> 1..Null]
                /\ saying \in [Waiters -> Kinds]

ServerTypeOK == ClubTypeOK /\ ConnTypeOK /\ HallTypeOK /\ VisitorTypeOK /\ WaiterTypeOK
=============================================================================

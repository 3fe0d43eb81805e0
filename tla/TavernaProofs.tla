----------------------------- MODULE TavernaProofs -----------------------------
(****************************************************************************)
(* For any number of waiters, visitors, descriptors and room numbers: the   *)
(* variables of the tavern keep their types, the list of members does not   *)
(* change under a loop that writes to it, it takes two visitors of one room *)
(* to meet a room that is not there, an empty room is cleared, and what is  *)
(* said in a room is heard in that room only.                               *)
(****************************************************************************)
EXTENDS Taverna, SequenceFacts, FiniteSetTheorems

Idle    == {"busy", "wait", "pop"}
Inside  == {"add", "greet", "get", "recv", "speak", "talk", "close", "check", "count", "erase"}
Heading == {"find", "emplace", "join"}

\* Main has a visitor between accept and sem_post.  A waiter who is not idle serves
\* somebody, and beyond the door that visitor has given a room number.
Served == /\ mpc # "accept" => arriving \in Visitors
          /\ \A w \in Waiters : /\ wpc[w] \notin Idle => visitor[w] \in Visitors
                                /\ wpc[w] \in Heading \cup Inside => Club(w) \in Clubs

\* What chat_room_map[club_id] evaluates to.
Found(w) == IF chat_room_map[Club(w)] = Absent THEN Null ELSE chat_room_map[Club(w)]

-----------------------------------------------------------------------------
(* Types.                                                                   *)

\* The members of a room, in any order, are a sequence of descriptors.
LEMMA OrderFacts ==
  ASSUME NEW S \in SUBSET Fds, NEW order \in SetToSeqs(S)
  PROVE  order \in Seq(Fds) /\ ToSet(order) \subseteq S
<1>1. Cardinality(S) \in Nat
  <2>1. IsFiniteSet(Fds)
    BY ClubAssumption, FS_Interval DEF Fds
  <2>2. IsFiniteSet(S)
    BY <2>1, FS_Subset
  <2> QED BY <2>2, FS_CardinalityType
<1>2. order \in [1..Cardinality(S) -> S]
  BY DEF SetToSeqs
<1> QED BY <1>1, <1>2 DEF ToSet

\* The elements left to do are among those there were.
LEMMA TailSet ==
  ASSUME NEW S, NEW s \in Seq(S), s # <<>>
  PROVE  Tail(s) \in Seq(S) /\ ToSet(Tail(s)) \subseteq ToSet(s) /\ Head(s) \in S
BY DEF ToSet

\* What is left of a stream after a read.
LEMMA ReadFacts ==
  ASSUME NEW S, NEW s \in Seq(S), NEW n \in 1..Len(s)
  PROVE  SubSeq(s, n + 1, Len(s)) \in Seq(S) /\ s[1] \in S /\ s # <<>>
OBVIOUS

\* read takes lines off the stream of one visitor.
LEMMA ReadKeeps ==
  ASSUME VisitorTypeOK, NEW v \in Visitors, NEW n \in 1..Len(stream[v]), Read(v, n)
  PROVE  /\ stream' \in [Visitors -> Seq(Lines)] /\ read_upto' \in [Visitors -> Nat]
         /\ stream[v] # <<>> /\ stream[v][1] \in Lines
<1>1. stream[v] \in Seq(Lines)
  BY DEF VisitorTypeOK
<1>2. Len(stream[v]) \in Nat /\ n \in Nat
  BY <1>1
<1>3. SubSeq(stream[v], n + 1, Len(stream[v])) \in Seq(Lines) /\ stream[v][1] \in Lines /\ stream[v] # <<>>
  BY <1>1, ReadFacts
<1>4. stream' = [stream EXCEPT ![v] = SubSeq(stream[v], n + 1, Len(stream[v]))]
  BY DEF Read
<1>5. read_upto' = [read_upto EXCEPT ![v] = read_upto[v] + n]
  BY DEF Read
<1>6. stream' \in [Visitors -> Seq(Lines)]
  BY <1>3, <1>4 DEF VisitorTypeOK
<1>7. read_upto' \in [Visitors -> Nat]
  BY <1>2, <1>5 DEF VisitorTypeOK
<1> QED BY <1>3, <1>6, <1>7

\* write keeps the types of the connections.
LEMMA WriteToKeeps ==
  ASSUME ConnTypeOK, NEW fd, NEW m \in Message, WriteTo(fd, m)
  PROVE  ConnTypeOK'
BY DEF ConnTypeOK, WriteTo, BadDescriptor, Heard, Unheard, BrokenPipe

\* So does what ends the process.
LEMMA CrashKeeps ==
  ASSUME ConnTypeOK, NEW why \in {"no", "null", "freed", "pipe", "bounds", "throw"}, Crash(why)
  PROVE  ConnTypeOK'
BY DEF ConnTypeOK, Crash

\* A waiter goes from one step to another, with the visitor, or without him.
LEMMA KeepKeeps ==
  ASSUME WaiterTypeOK, NEW w \in Waiters, NEW now, NEW next \in WaiterPC, Goes(w, now, next), Keep(w)
  PROVE  /\ WaiterTypeOK'
         /\ wpc[w] = now /\ wpc' = [wpc EXCEPT ![w] = next]
         /\ UNCHANGED <<dismissed, visitor, room, saying>>
BY DEF Goes, Keep, WaiterTypeOK

\* Back at the top of the loop he has none.
LEMMA DismissKeeps ==
  ASSUME WaiterTypeOK, NEW w \in Waiters, NEW now, Goes(w, now, "wait"), Dismiss(w)
  PROVE  WaiterTypeOK'
<1>1. Null \in 1..Null
  BY ClubAssumption DEF Null
<1> QED BY <1>1 DEF Goes, Dismiss, WaiterTypeOK, WaiterPC, Kinds

\* What a waiter says is a message.
LEMMA MsgIsMessage ==
  ASSUME VisitorTypeOK, NEW w \in Waiters, visitor[w] \in Visitors, NEW kind \in Kinds
  PROVE  Msg(w, kind) \in Message
BY DEF VisitorTypeOK, Msg, Message

TypeInv == TypeOK /\ Served

\* Main's steps.
LEMMA MainTypes ==
  ASSUME TypeInv, Main
  PROVE  ServerTypeOK' /\ Served'
<1> USE DEF TypeInv, TypeOK, ServerTypeOK
<1>1. ClubTypeOK' /\ WaiterTypeOK'
  BY DEF Main, ClubTypeOK, WaiterTypeOK, clubVars, waiterVars
<1>2. UNCHANGED <<gone, reset, clogged, heard, crashed, mutex_, chat_room_map, made, club_id,
                  read_upto, dismissed, wpc, visitor>>
  BY DEF Main, mapVars, waiterVars
<1>3. \A w \in Waiters : /\ wpc'[w] \notin Idle => visitor'[w] \in Visitors
                         /\ wpc'[w] \in Heading \cup Inside => club_id'[visitor'[w]] \in Clubs
  BY <1>2 DEF TypeInv, Served, Club
<1>4. CASE Accept
  <2>1. Head(calling) \in Visitors /\ Tail(calling) \in Seq(Visitors)
    BY <1>4, TailFacts DEF Accept, HallTypeOK
  <2>2. PICK fd \in Fds : /\ vfd' = [vfd EXCEPT ![Head(calling)] = fd]
                          /\ fd_owner' = [fd_owner EXCEPT ![fd] = Head(calling)]
    BY <1>4 DEF Accept
  <2>3. ConnTypeOK'
    BY <1>2, <2>1, <2>2 DEF ConnTypeOK
  <2>4. VisitorTypeOK'
    BY <1>2, <1>4, <2>1, <2>2, ClubAssumption DEF Accept, VisitorTypeOK, Fds
  <2>5. HallTypeOK' /\ Served'
    BY <1>2, <1>3, <1>4, <2>1 DEF Accept, MainGoes, HallTypeOK, Served, Club, queueVars
  <2> QED BY <1>1, <2>3, <2>4, <2>5
<1>5. CASE AcceptFails
  <2>1. Head(calling) \in Visitors /\ Tail(calling) \in Seq(Visitors)
    BY <1>5, TailFacts DEF AcceptFails, HallTypeOK
  <2>2. ConnTypeOK'
    BY <1>2, <1>5 DEF AcceptFails, ConnTypeOK
  <2>3. VisitorTypeOK'
    BY <1>2, <1>5, <2>1 DEF AcceptFails, VisitorTypeOK
  <2>4. HallTypeOK' /\ Served'
    BY <1>2, <1>3, <1>5, <2>1 DEF AcceptFails, MainGoes, HallTypeOK, Served, Club, queueVars
  <2> QED BY <1>1, <2>2, <2>3, <2>4
<1>6. CASE Push
  <2>1. arriving \in Visitors
    BY <1>6 DEF Push, MainGoes, TypeInv, Served
  <2>2. ConnTypeOK' /\ VisitorTypeOK'
    BY <1>2, <1>6 DEF Push, ConnTypeOK, VisitorTypeOK
  <2>3. HallTypeOK' /\ Served'
    BY <1>2, <1>3, <1>6, <2>1, AppendFacts DEF Push, Queued, MainGoes, HallTypeOK, Served, Club
  <2> QED BY <1>1, <2>2, <2>3
<1>7. CASE Post
  <2>1. ConnTypeOK' /\ VisitorTypeOK'
    BY <1>2, <1>7 DEF Post, ConnTypeOK, VisitorTypeOK
  <2>2. HallTypeOK' /\ Served'
    BY <1>2, <1>3, <1>7 DEF Post, Posted, MainGoes, HallTypeOK, Served, Club
  <2> QED BY <1>1, <2>1, <2>2
<1> QED BY <1>4, <1>5, <1>6, <1>7 DEF Main

\* A waiter's steps at the door.
LEMMA DoorTypes ==
  ASSUME TypeInv, NEW w \in Waiters, AtTheDoor(w)
  PROVE  ServerTypeOK' /\ Served'
<1> USE DEF TypeInv, TypeOK, ServerTypeOK, Served, AtTheDoor, clubVars, mapVars, mainVars,
            Club, Idle, Heading, Inside
<1>1. ClubTypeOK'
  BY DEF ClubTypeOK
<1>2. CASE SemWait(w)
  BY <1>1, <1>2 DEF SemWait, Goes, Keep, Silent, connVars, lineVars, ConnTypeOK, HallTypeOK,
                    VisitorTypeOK, WaiterTypeOK, WaiterPC
<1>3. CASE PopVisitor(w)
  <2>1. CASE visitor_queue_ = <<>> /\ Goes(w, "pop", "wait") /\ UNCHANGED <<visitor_queue_, visitor>>
    BY <1>1, <1>3, <2>1 DEF PopVisitor, Goes, Silent, connVars, lineVars, ConnTypeOK, HallTypeOK,
                            VisitorTypeOK, WaiterTypeOK, WaiterPC
  <2>2. CASE visitor_queue_ # <<>> /\ Goes(w, "pop", "prompt")
    <3>1. Head(visitor_queue_) \in Visitors /\ Tail(visitor_queue_) \in Seq(Visitors)
      BY <2>2, TailFacts DEF HallTypeOK
    <3> QED BY <1>1, <1>3, <2>2, <3>1 DEF PopVisitor, Goes, Silent, connVars, lineVars, ConnTypeOK,
                            HallTypeOK, VisitorTypeOK, WaiterTypeOK, WaiterPC
  <2> QED BY <1>3, <2>1, <2>2 DEF PopVisitor
<1>4. CASE Prompt(w)
  <2>1. ConnTypeOK'
    BY <1>4, WriteToKeeps, MsgIsMessage DEF Prompt, Goes, Kinds
  <2> QED BY <1>1, <1>4, <2>1 DEF Prompt, Goes, Keep, lineVars, HallTypeOK, VisitorTypeOK,
                                  WaiterTypeOK, WaiterPC
<1>5. CASE Ask(w) /\ AskedForNothing(w)
  <2> DEFINE v == visitor[w]
  <2>1. v \in Visitors
    BY <1>5 DEF Ask
  <2>2. VisitorTypeOK'
    <3>1. CASE UNCHANGED lineVars
      BY <1>5, <3>1 DEF AskedForNothing, lineVars, VisitorTypeOK
    <3>2. CASE \E n \in 1..Len(stream[v]) : Read(v, n)
      BY <1>5, <2>1, <3>2, ReadKeeps DEF AskedForNothing, VisitorTypeOK
    <3> QED BY <1>5, <3>1, <3>2 DEF AskedForNothing
  <2>3. ConnTypeOK'
    BY <1>5, <2>1, WriteToKeeps, MsgIsMessage DEF AskedForNothing, Silent, connVars, ConnTypeOK, Kinds
  <2>4. /\ Goes(w, "ask", "wait") /\ Dismiss(w)
        /\ UNCHANGED <<visitor_queue_, sem_, mutex_, accepted, chat_room_map, made, calling,
                       mpc, arriving, club_id>>
    BY <1>5 DEF Ask, AskedForNothing
  <2>5. WaiterTypeOK' /\ HallTypeOK'
    <3>1. dismissed' \in SUBSET Visitors
      BY <2>1, <2>4 DEF Dismiss, HallTypeOK
    <3> QED BY <2>4, <3>1, DismissKeeps DEF HallTypeOK
  <2>6. Served'
    BY <2>4 DEF Goes, Dismiss, WaiterTypeOK
  <2> QED BY <1>1, <2>2, <2>3, <2>5, <2>6
<1>6. CASE Ask(w) /\ AskedForRoom(w)
  <2> DEFINE v == visitor[w]
  <2>1. v \in Visitors
    BY <1>6 DEF Ask
  <2>2. PICK n \in 1..Len(stream[v]) :
          /\ Read(v, n)
          /\ \/ /\ Goes(w, "ask", "find") /\ Is(v, n, "room") /\ stream[v][1].id # 0
                /\ club_id' = [club_id EXCEPT ![v] = stream[v][1].id] /\ Silent
             \/ /\ Goes(w, "ask", "ask") /\ Is(v, n, "empty")
                /\ Crash("throw") /\ UNCHANGED club_id
             \/ /\ Goes(w, "ask", "ask")
                /\ \A kind \in {"room", "exit", "empty"} : ~Is(v, n, kind)
                /\ WriteTo(Fd(w), Msg(w, "error")) /\ UNCHANGED club_id
    BY <1>6 DEF AskedForRoom
  <2>3. UNCHANGED vfd
    BY <1>6 DEF mainVars
  <2>4. /\ stream' \in [Visitors -> Seq(Lines)] /\ read_upto' \in [Visitors -> Nat]
        /\ stream[v][1] \in Lines
    BY <2>1, <2>2, ReadKeeps
  <2>5. ConnTypeOK'
    BY <2>1, <2>2, WriteToKeeps, CrashKeeps, MsgIsMessage DEF Silent, connVars, ConnTypeOK, Kinds
  <2>6. VisitorTypeOK' /\ \A u \in Visitors : club_id[u] \in Clubs => club_id'[u] \in Clubs
    BY <2>1, <2>2, <2>3, <2>4 DEF VisitorTypeOK, Lines
  <2>7. WaiterTypeOK' /\ HallTypeOK'
    BY <1>6, <2>2 DEF Ask, AskedForRoom, Goes, Keep, WaiterTypeOK, WaiterPC, HallTypeOK
  <2>8. wpc'[w] = "find" => club_id'[v] \in Clubs
    BY <2>1, <2>2, <2>4 DEF Goes, Lines, VisitorTypeOK, WaiterTypeOK
  <2>9. Served'
    BY <1>6, <2>1, <2>2, <2>6, <2>8 DEF AskedForRoom, Goes, Keep, WaiterTypeOK
  <2> QED BY <1>1, <2>5, <2>6, <2>7, <2>9
<1> QED BY <1>2, <1>3, <1>4, <1>5, <1>6 DEF Ask

\* A waiter's steps on the map of rooms.
LEMMA MapTypes ==
  ASSUME TypeInv, NEW w \in Waiters, OnTheMap(w)
  PROVE  ServerTypeOK' /\ Served'
<1> USE DEF TypeInv, TypeOK, ServerTypeOK
<1>1. UNCHANGED <<clubVars, queueVars, mainVars, club_id, lineVars>>
  BY DEF OnTheMap
<1>2. ClubTypeOK' /\ VisitorTypeOK'
  BY <1>1 DEF ClubTypeOK, VisitorTypeOK, clubVars, mainVars, lineVars
<1>3. wpc[w] \in Heading \cup Inside
  BY DEF OnTheMap, FindRoom, EmplaceRoom, LookUp, CheckClub, CountMembers, EraseRoom, Goes,
         Heading, Inside
<1>4. visitor[w] \in Visitors /\ Club(w) \in Clubs
  BY <1>3 DEF Served, Heading, Inside, Idle
<1>5. MaxRooms \in Nat /\ Null = MaxRooms + 1 /\ Absent = 0
  BY ClubAssumption DEF Null, Absent
<1>6. ConnTypeOK'
  BY CrashKeeps DEF OnTheMap, FindRoom, EmplaceRoom, LookUp, CheckClub, CountMembers, EraseRoom,
                    Silent, connVars, ConnTypeOK
<1>7. HallTypeOK'
  <2>1. chat_room_map' \in [Clubs -> 0..Null] /\ made' \in 0..MaxRooms
    <3>1. CASE UNCHANGED mapVars
      BY <3>1 DEF mapVars, HallTypeOK
    <3>2. CASE EmplaceRoom(w) /\ ~UNCHANGED mapVars
      <4>1. made < MaxRooms /\ made' = made + 1 /\ chat_room_map' = Emplaced(Club(w))
        BY <3>2 DEF EmplaceRoom
      <4>2. made + 1 \in 0..Null /\ made + 1 \in 0..MaxRooms
        BY <1>5, <4>1 DEF HallTypeOK
      <4> QED BY <1>4, <4>1, <4>2 DEF Emplaced, HallTypeOK
    <3>3. CASE LookUp(w)
      <4>1. /\ chat_room_map' = [chat_room_map EXCEPT ![Club(w)] = Found(w)]
            /\ made' = made
        BY <3>3 DEF LookUp, Found
      <4>2. Found(w) \in 0..Null
        BY <1>4, <1>5 DEF Found, HallTypeOK
      <4> QED BY <1>4, <4>1, <4>2 DEF HallTypeOK
    <3>4. CASE EraseRoom(w)
      BY <1>4, <1>5, <3>4 DEF EraseRoom, Erased, HallTypeOK
    <3> QED BY <3>1, <3>2, <3>3, <3>4 DEF OnTheMap, FindRoom, CheckClub, CountMembers
  <2>2. mutex_' \in Waiters \cup {Nobody}
    BY DEF OnTheMap, FindRoom, EmplaceRoom, LookUp, CheckClub, CountMembers, EraseRoom, HallTypeOK
  <2>3. dismissed' \in SUBSET Visitors
    BY <1>4 DEF OnTheMap, FindRoom, EmplaceRoom, LookUp, CheckClub, CountMembers, EraseRoom,
                Keep, Dismiss, HallTypeOK
  <2> QED BY <1>1, <2>1, <2>2, <2>3 DEF HallTypeOK, queueVars, mainVars
<1>8. WaiterTypeOK' /\ Served'
  <2>1. CASE FindRoom(w) \/ EmplaceRoom(w) \/ LookUp(w)
    <3>1. \E next \in Heading \cup Inside : wpc' = [wpc EXCEPT ![w] = next]
      BY <2>1 DEF FindRoom, EmplaceRoom, LookUp, Goes, Heading, Inside
    <3>2. visitor' = visitor /\ saying' = saying /\ room' \in [Waiters -> 1..Null]
      BY <1>4, <1>5, <2>1 DEF FindRoom, EmplaceRoom, LookUp, Keep, WaiterTypeOK, HallTypeOK
    <3> QED BY <1>1, <1>4, <3>1, <3>2
            DEF WaiterTypeOK, WaiterPC, Served, Club, Heading, Inside, Idle, mainVars
  <2>2. CASE CheckClub(w) \/ (CountMembers(w) /\ wpc'[w] = "erase")
    <3>1. \E next \in Inside : wpc' = [wpc EXCEPT ![w] = next]
      BY <2>2 DEF CheckClub, CountMembers, Goes, WaiterTypeOK, Inside
    <3>2. UNCHANGED <<visitor, room, saying>>
      BY <2>2 DEF CheckClub, CountMembers, Goes, Keep, WaiterTypeOK
    <3> QED BY <1>1, <1>4, <3>1, <3>2
            DEF WaiterTypeOK, WaiterPC, Served, Club, Heading, Inside, Idle, mainVars
  <2>3. CASE EraseRoom(w) \/ (CountMembers(w) /\ wpc'[w] # "erase")
    <3>1. Dismiss(w) /\ \E now \in {"count", "erase"} : Goes(w, now, "wait")
      BY <2>3 DEF EraseRoom, CountMembers, Goes, WaiterTypeOK
    <3> QED BY <1>1, <3>1, DismissKeeps
            DEF Goes, Dismiss, WaiterTypeOK, Served, Club, Heading, Inside, Idle, mainVars
  <2> QED BY <2>1, <2>2, <2>3 DEF OnTheMap
<1> QED BY <1>2, <1>6, <1>7, <1>8

\* A waiter's steps in a room.
LEMMA RoomTypes ==
  ASSUME TypeInv, NEW w \in Waiters, InTheRoom(w)
  PROVE  ServerTypeOK' /\ Served'
<1> USE DEF TypeInv, TypeOK, ServerTypeOK
<1>1. UNCHANGED <<queueVars, mutex_, mapVars, mainVars, club_id, visitor, room, dismissed>>
  BY DEF InTheRoom
<1>2. HallTypeOK'
  BY <1>1 DEF HallTypeOK, queueVars, mapVars, mainVars
<1>3. wpc[w] \in Inside
  BY DEF InTheRoom, UseOfNothing, AddMember, WriteNext, MemberAdded, ReceiveMsg, ReceiveEnd,
         Speak, Spoken, CloseFd, Here, Goes, Inside
<1>4. visitor[w] \in Visitors /\ Club(w) \in Clubs
  BY <1>3 DEF Served, Heading, Inside, Idle
<1>5. \E next \in Inside : wpc' = [wpc EXCEPT ![w] = next]
  BY <1>3 DEF InTheRoom, UseOfNothing, AddMember, WriteNext, MemberAdded, ReceiveMsg, ReceiveEnd,
         Speak, Spoken, CloseFd, Here, Goes, WaiterTypeOK, Inside
<1>6. saying' \in [Waiters -> Kinds]
  BY DEF InTheRoom, UseOfNothing, AddMember, WriteNext, MemberAdded, ReceiveMsg, ReceiveEnd,
         Speak, Spoken, CloseFd, WaiterTypeOK, Kinds
<1>7. WaiterTypeOK' /\ Served'
  BY <1>1, <1>4, <1>5, <1>6 DEF WaiterTypeOK, WaiterPC, Served, Club, Heading, Inside, Idle, mainVars
<1>8. VisitorTypeOK'
  <2>1. CASE UNCHANGED lineVars
    BY <1>1, <2>1 DEF VisitorTypeOK, mainVars, lineVars
  <2>2. CASE ReceiveMsg(w)
    BY <1>1, <1>4, <2>2, ReadKeeps DEF ReceiveMsg, VisitorTypeOK, mainVars
  <2> QED BY <2>1, <2>2 DEF InTheRoom, UseOfNothing, AddMember, WriteNext, MemberAdded, ReceiveEnd,
         Speak, Spoken, CloseFd
<1>9. ConnTypeOK'
  <2>1. CASE Silent
    BY <2>1 DEF Silent, connVars, ConnTypeOK
  <2>2. CASE UseOfNothing(w) \/ (ReceiveEnd(w) /\ ~Silent)
    BY <2>2, CrashKeeps DEF UseOfNothing, ReceiveEnd
  <2>3. CASE WriteNext(w)
    BY <1>4, <2>3, WriteToKeeps, MsgIsMessage DEF WriteNext, WriteMember, WaiterTypeOK
  <2>4. CASE CloseFd(w)
    BY <2>4 DEF CloseFd, ClosedFd, ConnTypeOK
  <2> QED BY <2>1, <2>2, <2>3, <2>4 DEF InTheRoom, AddMember, MemberAdded, ReceiveMsg, Speak, Spoken
<1>10. ClubTypeOK'
  <2>1. CASE UNCHANGED clubVars
    BY <2>1 DEF ClubTypeOK, clubVars
  <2>2. CASE AddMember(w) \/ Speak(w)
    <3>1. PICK S \in SUBSET Fds : LockClub(w, room[w], S)
      BY <2>2 DEF AddMember, Speak, Members
    <3>2. PICK order \in SetToSeqs(S) : unwritten' = [unwritten EXCEPT ![w] = order]
      BY <3>1 DEF LockClub, ToWrite
    <3>3. order \in Seq(Fds)
      BY <3>2, OrderFacts
    <3> QED BY <3>1, <3>2, <3>3 DEF LockClub, ClubTypeOK
  <2>3. CASE WriteNext(w)
    BY <2>3, TailSet DEF WriteNext, WriteMember, ClubTypeOK
  <2>4. CASE MemberAdded(w)
    BY <1>4, <2>4 DEF MemberAdded, EnterClub, UnlockClub, ClubTypeOK
  <2>5. CASE Spoken(w)
    <3>1. room[w] \in Rooms
      BY <2>5 DEF Spoken, Here, Usable
    <3>2. CASE LeaveClub(w, room[w], Fd(w))
      <4>1. [chat_members[room[w]] EXCEPT ![Fd(w)] = NoVisitor] \in [Fds -> Visitors \cup {NoVisitor}]
        BY <3>1 DEF ClubTypeOK
      <4> QED BY <3>1, <3>2, <4>1 DEF LeaveClub, UnlockClub, ClubTypeOK
    <3>3. CASE StaySeated(w, room[w])
      BY <3>3 DEF StaySeated, UnlockClub, ClubTypeOK
    <3> QED BY <2>5, <3>2, <3>3 DEF Spoken
  <2> QED BY <2>1, <2>2, <2>3, <2>4, <2>5 DEF InTheRoom, UseOfNothing, ReceiveMsg, ReceiveEnd, CloseFd
<1> QED BY <1>2, <1>7, <1>8, <1>9, <1>10

\* The door is open and nobody is there.
LEMMA InitTypes == Init => TypeInv
<1> SUFFICES ASSUME Init PROVE TypeInv
  OBVIOUS
<1>1. PICK evening \in Evenings : /\ script = evening.lines
                                  /\ typed = [v \in Visitors |-> 0]
                                 /\ ServerInit(evening.order, evening.free)
  BY DEF Init
<1>2. /\ MaxFd \in Nat /\ MaxRooms \in Nat /\ Null \in 1..Null /\ Absent \in 0..Null
      /\ evening.order \in Seq(Visitors)
      /\ \A v \in Visitors : evening.lines[v] \in Seq(Lines)
  BY ClubAssumption, TavernaAssumption DEF Null, Absent
<1>3. ClubTypeOK /\ ConnTypeOK
  BY <1>1 DEF ServerInit, ClubInit, ClubTypeOK, ConnTypeOK
<1>4. HallTypeOK /\ VisitorTypeOK
  BY <1>1, <1>2 DEF ServerInit, HallTypeOK, VisitorTypeOK
<1>5. WaiterTypeOK
  BY <1>1, <1>2 DEF ServerInit, WaiterTypeOK, WaiterPC, Kinds
<1>6. Served
  BY <1>1 DEF ServerInit, Served, Idle, Heading, Inside
<1>7. typed \in [Visitors -> Nat] /\ \A v \in Visitors : typed[v] <= Len(script[v])
  BY <1>1, <1>2
<1> QED BY <1>1, <1>3, <1>4, <1>5, <1>6, <1>7 DEF TypeInv, TypeOK, ServerTypeOK

\* What is not the server's doing.
VisitorStep == \E v \in Visitors : TypeLine(v) \/ HangUp(v) \/ StopReading(v)

\* The visitors' steps change neither the waiters nor the rooms.
LEMMA VisitorTypes ==
  ASSUME TypeInv, VisitorStep
  PROVE  TypeInv'
<1> USE DEF TypeInv, TypeOK, ServerTypeOK
<1>1. PICK v \in Visitors : TypeLine(v) \/ HangUp(v) \/ StopReading(v)
  BY DEF VisitorStep
<1>2. UNCHANGED <<clubVars, queueVars, mutex_, mapVars, mainVars, club_id, read_upto, waiterVars,
                  dismissed, script>>
  BY <1>1 DEF TypeLine, HangUp, StopReading, lineVars
<1>3. ClubTypeOK' /\ HallTypeOK' /\ WaiterTypeOK' /\ Served'
  BY <1>2 DEF ClubTypeOK, HallTypeOK, WaiterTypeOK, Served, Club, clubVars, queueVars, mapVars,
              mainVars, waiterVars
<1>4. CASE TypeLine(v)
  <2>1. typed[v] \in Nat /\ typed[v] < Len(script[v]) /\ typed' = [typed EXCEPT ![v] = typed[v] + 1]
        /\ stream' = [stream EXCEPT ![v] = Append(stream[v], script[v][typed[v] + 1])]
    BY <1>4 DEF TypeLine
  <2>2. script[v] \in Seq(Lines)
    BY TavernaAssumption
  <2>3. script[v][typed[v] + 1] \in Lines
    BY <2>1, <2>2
  <2>4. stream[v] \in Seq(Lines)
    BY DEF VisitorTypeOK
  <2>5. Append(stream[v], script[v][typed[v] + 1]) \in Seq(Lines)
    BY <2>3, <2>4, AppendFacts
  <2>6. VisitorTypeOK'
    BY <1>2, <2>1, <2>5 DEF VisitorTypeOK, mainVars
  <2>7. ConnTypeOK'
    BY <1>4 DEF TypeLine, connVars, ConnTypeOK
  <2>8. typed' \in [Visitors -> Nat] /\ \A u \in Visitors : typed'[u] <= Len(script'[u])
    BY <1>2, <2>1, <2>2
  <2> QED BY <1>2, <1>3, <2>6, <2>7, <2>8
<1>5. CASE HangUp(v) \/ StopReading(v)
  <2>1. VisitorTypeOK' /\ typed' = typed
    BY <1>2, <1>5 DEF HangUp, StopReading, VisitorTypeOK, lineVars, mainVars
  <2>2. ConnTypeOK'
    BY <1>5 DEF HangUp, StopReading, ConnTypeOK
  <2> QED BY <1>2, <1>3, <2>1, <2>2
<1> QED BY <1>1, <1>4, <1>5

\* Every step keeps the types.
LEMMA NextTypes == TypeInv /\ [Next]_vars => TypeInv'
<1> SUFFICES ASSUME TypeInv, [Next]_vars PROVE TypeInv'
  OBVIOUS
<1>1. CASE ServerStep
  <2>1. ServerTypeOK' /\ Served'
    BY <1>1, MainTypes, DoorTypes, MapTypes, RoomTypes DEF ServerStep, Waiter
  <2> QED BY <1>1, <2>1 DEF ServerStep, TypeInv, TypeOK
<1>2. CASE VisitorStep
  BY <1>2, VisitorTypes
<1>3. CASE UNCHANGED vars
  BY <1>3 DEF vars, serverVars, clubVars, connVars, queueVars, mapVars, mainVars, lineVars,
              waiterVars, TypeInv, TypeOK, ServerTypeOK, ClubTypeOK, ConnTypeOK, HallTypeOK,
              VisitorTypeOK, WaiterTypeOK, Served, Club
<1> QED BY <1>1, <1>2, <1>3 DEF Next, VisitorStep

\* All variables keep their types, and a waiter beyond the door has a visitor with a
\* number (welcome_visitor and waiter_routine).
THEOREM TypesAreKept == Spec => []TypeInv
<1>1. Init => TypeInv
  BY InitTypes
<1>2. TypeInv /\ [Next]_vars => TypeInv'
  BY NextTypes
<1> QED BY <1>1, <1>2, PTL DEF Spec

-----------------------------------------------------------------------------
(* The loops over chat_members.                                             *)

\* A waiter in a loop has the room's mutex, and those he has still to write to are
\* members.  The room itself may be erased meanwhile.
LoopInv == \A w \in Waiters : wpc[w] \in {"greet", "talk"} =>
              /\ room[w] \in Rooms /\ club_mutex[room[w]] = w
              /\ ToSet(unwritten[w]) \subseteq Members(room[w])

\* What happens outside the loops leaves them alone.
LEMMA LoopsStay ==
  ASSUME LoopInv, UNCHANGED clubVars,
         \A w \in Waiters : wpc'[w] \in {"greet", "talk"} => wpc[w] = wpc'[w] /\ room'[w] = room[w]
  PROVE  LoopInv'
BY DEF LoopInv, clubVars, Members

\* A waiter's steps in a room: whoever changes the list of members has the mutex.
LEMMA RoomLoops ==
  ASSUME TypeInv, LoopInv, NEW w \in Waiters, InTheRoom(w)
  PROVE  LoopInv'
<1> USE DEF TypeInv, TypeOK, ServerTypeOK
<1>1. UNCHANGED room
  BY DEF InTheRoom
<1>2. CASE AddMember(w) \/ Speak(w)
  <2>1. /\ room[w] \in Rooms /\ wpc[w] \notin {"greet", "talk"}
        /\ \E next \in {"greet", "talk"} : wpc' = [wpc EXCEPT ![w] = next]
    BY <1>2 DEF AddMember, Speak, Here, Goes, Usable
  <2>2. PICK S \in SUBSET Members(room[w]) : LockClub(w, room[w], S)
    BY <1>2 DEF AddMember, Speak
  <2>3. PICK order \in SetToSeqs(S) : unwritten' = [unwritten EXCEPT ![w] = order]
    BY <2>2 DEF LockClub, ToWrite
  <2>4. ToSet(order) \subseteq Members(room[w])
    BY <2>2, <2>3, OrderFacts DEF Members
  <2>5. UNCHANGED chat_members /\ club_mutex[room[w]] = Nobody
        /\ club_mutex' = [club_mutex EXCEPT ![room[w]] = w]
    BY <2>2 DEF LockClub
  <2>6. Nobody \notin Waiters
    BY ClubAssumption
  <2>7. Members(room[w])' = Members(room[w])
    BY <1>1, <2>5 DEF Members
  <2>8. club_mutex'[room[w]] = w /\ unwritten'[w] = order
    BY <2>1, <2>3, <2>5 DEF ClubTypeOK
  <2>9. ASSUME NEW u \in Waiters, u # w, wpc'[u] \in {"greet", "talk"}
        PROVE  /\ room[u] \in Rooms /\ club_mutex'[room[u]] = u
               /\ ToSet(unwritten'[u]) \subseteq Members(room[u])'
    BY <1>1, <2>1, <2>3, <2>5, <2>6, <2>9 DEF LoopInv, WaiterTypeOK, ClubTypeOK, Members
  <2> QED BY <1>1, <2>1, <2>4, <2>7, <2>8, <2>9 DEF LoopInv
<1>3. CASE WriteNext(w)
  <2>1. UNCHANGED <<chat_members, club_mutex, wpc>>
        /\ unwritten[w] # <<>> /\ unwritten' = [unwritten EXCEPT ![w] = Tail(unwritten[w])]
    BY <1>3 DEF WriteNext, WriteMember, Here, Goes, WaiterTypeOK
  <2>2. ToSet(Tail(unwritten[w])) \subseteq ToSet(unwritten[w])
    BY <2>1, TailSet DEF ClubTypeOK
  <2> QED BY <1>1, <2>1, <2>2 DEF LoopInv, ClubTypeOK, Members
<1>4. CASE MemberAdded(w) \/ Spoken(w)
  <2>1. /\ wpc[w] \in {"greet", "talk"} /\ wpc'[w] \notin {"greet", "talk"}
        /\ \A u \in Waiters : u # w => wpc'[u] = wpc[u]
    BY <1>4 DEF MemberAdded, Spoken, Here, Goes, WaiterTypeOK
  <2>2. /\ UNCHANGED unwritten /\ club_mutex' = [club_mutex EXCEPT ![room[w]] = Nobody]
        /\ \A r \in Rooms : r # room[w] => chat_members'[r] = chat_members[r]
    BY <1>4 DEF MemberAdded, Spoken, EnterClub, LeaveClub, StaySeated, UnlockClub, ClubTypeOK
  <2>3. ASSUME NEW u \in Waiters, u # w, wpc'[u] \in {"greet", "talk"}
        PROVE  /\ room[u] \in Rooms /\ club_mutex'[room[u]] = u
               /\ ToSet(unwritten'[u]) \subseteq Members(room[u])'
    <3>1. /\ room[u] \in Rooms /\ club_mutex[room[u]] = u /\ room[w] # room[u]
          /\ ToSet(unwritten[u]) \subseteq Members(room[u])
      BY <2>1, <2>3 DEF LoopInv
    <3> QED BY <1>1, <2>2, <3>1 DEF Members, ClubTypeOK
  <2> QED BY <1>1, <2>1, <2>3 DEF LoopInv
<1>5. CASE UseOfNothing(w) \/ ReceiveMsg(w) \/ ReceiveEnd(w) \/ CloseFd(w)
  BY <1>1, <1>5, LoopsStay DEF UseOfNothing, ReceiveMsg, ReceiveEnd, CloseFd, Goes, WaiterTypeOK
<1> QED BY <1>2, <1>3, <1>4, <1>5 DEF InTheRoom

\* Every step keeps the loops' lists.
LEMMA NextLoops == TypeInv /\ LoopInv /\ [Next]_vars => LoopInv'
<1> SUFFICES ASSUME TypeInv, LoopInv, [Next]_vars PROVE LoopInv'
  OBVIOUS
<1>1. CASE Main
  BY <1>1, LoopsStay DEF Main, waiterVars
<1>2. ASSUME NEW w \in Waiters, AtTheDoor(w) PROVE LoopInv'
  <2>1. UNCHANGED clubVars
    BY <1>2 DEF AtTheDoor
  <2>2. \A u \in Waiters : wpc'[u] \in {"greet", "talk"} => wpc[u] = wpc'[u] /\ room'[u] = room[u]
    BY <1>2 DEF AtTheDoor, SemWait, PopVisitor, Prompt, Ask, AskedForNothing, AskedForRoom, Goes,
                Keep, Dismiss, TypeInv, TypeOK, ServerTypeOK, WaiterTypeOK
  <2> QED BY <2>1, <2>2, LoopsStay
<1>3. ASSUME NEW w \in Waiters, OnTheMap(w) PROVE LoopInv'
  <2>1. UNCHANGED clubVars
    BY <1>3 DEF OnTheMap
  <2>2. \A u \in Waiters : wpc'[u] \in {"greet", "talk"} => wpc[u] = wpc'[u] /\ room'[u] = room[u]
    BY <1>3 DEF OnTheMap, FindRoom, EmplaceRoom, LookUp, CheckClub, CountMembers, EraseRoom, Goes,
                Keep, Dismiss, TypeInv, TypeOK, ServerTypeOK, WaiterTypeOK
  <2> QED BY <2>1, <2>2, LoopsStay
<1>4. ASSUME NEW w \in Waiters, InTheRoom(w) PROVE LoopInv'
  BY <1>4, RoomLoops
<1>5. CASE VisitorStep
  BY <1>5, LoopsStay DEF VisitorStep, TypeLine, HangUp, StopReading, waiterVars
<1>6. CASE UNCHANGED vars
  BY <1>6, LoopsStay DEF vars, serverVars, waiterVars
<1> QED BY <1>1, <1>2, <1>3, <1>4, <1>5, <1>6 DEF Next, ServerStep, Waiter, VisitorStep

\* All variables keep their types, and the list a waiter walks in add_member, send_msg
\* and so_long_member (TavernaClub.h, lines 36, 59 and 69) does not change under him.
THEOREM ListsAreStable == Spec => []RoomInv
<1>1. Init => LoopInv
  BY DEF Init, ServerInit, LoopInv
<1>2. TypeInv /\ LoopInv /\ [Next]_vars => LoopInv'
  BY NextLoops
<1>3. TypeInv /\ LoopInv => RoomInv
  BY DEF TypeInv, LoopInv, RoomInv, LoopIsStable
<1> QED BY <1>1, <1>2, <1>3, TypesAreKept, PTL DEF Spec

-----------------------------------------------------------------------------
(* Where the visitors are.                                                  *)

\* Visitors main holds between accept and push_back, or who wait in the queue.
Held   == IF mpc = "push" THEN {arriving} ELSE {}
InHall == Range(visitor_queue_) \cup Held

\* A visitor is in one place: outside, in the hall, or with one waiter.
GuestInv == /\ IsInjective(calling) /\ IsInjective(visitor_queue_)
            /\ mpc = "push" => arriving \notin Range(visitor_queue_)
            /\ Range(calling) \cap InHall = {}
            /\ \A w \in Waiters : visitor[w] \notin Range(calling) \cup InHall
            /\ \A u, w \in Waiters : visitor[u] = visitor[w] /\ u # w => visitor[w] = NoVisitor

\* When accept has failed nothing will ever be read from the visitor.
Connected(v) == vfd[v] \in Fds \/ (v \in gone /\ stream[v] = <<>>)

\* Up to the door a visitor has no room number; beyond it he has a connection.
DoorInv == /\ \A v \in Range(calling) \cup InHall : club_id[v] = 0
           /\ \A v \in InHall : Connected(v)
           /\ \A w \in Waiters :
                 /\ wpc[w] \in {"prompt", "ask"} => club_id[visitor[w]] = 0 /\ Connected(visitor[w])
                 /\ wpc[w] \in Heading \cup Inside => vfd[visitor[w]] \in Fds

HallInv == GuestInv /\ DoorInv

\* Visitors, all of them.
LEMMA HallTypes ==
  ASSUME TypeInv
  PROVE  Range(calling) \subseteq Visitors /\ InHall \subseteq Visitors
<1>1. Range(calling) \subseteq Visitors /\ Range(visitor_queue_) \subseteq Visitors
  BY DEF TypeInv, TypeOK, ServerTypeOK, HallTypeOK, Range
<1>2. Held \subseteq Visitors
  BY DEF Held, TypeInv, Served
<1> QED BY <1>1, <1>2 DEF InHall

\* Main takes the first from outside into the hall and lines him up there.
LEMMA MainHall ==
  ASSUME TypeInv, HallInv, Main
  PROVE  HallInv'
<1> USE DEF HallInv
<1>1. UNCHANGED <<gone, club_id, wpc, visitor>>
  BY DEF Main, waiterVars
<1>2. CASE Accept \/ AcceptFails
  <2>0. PICK h : h = Head(calling)
    OBVIOUS
  <2>1. /\ mpc = "accept" /\ mpc' = "push" /\ calling # <<>> /\ calling' = Tail(calling)
        /\ arriving' = h /\ visitor_queue_' = visitor_queue_
    BY <1>2, <2>0 DEF Accept, AcceptFails, MainGoes, queueVars
  <2>2. /\ Range(calling) = {h} \cup Range(calling') /\ h \notin Range(calling')
        /\ IsInjective(calling') /\ h \in Visitors
    BY <2>0, <2>1, TailFacts DEF GuestInv, TypeInv, TypeOK, ServerTypeOK, HallTypeOK
  <2>3. InHall = Range(visitor_queue_) /\ InHall' = InHall \cup {h}
    BY <2>1 DEF InHall, Held
  <2>4. GuestInv'
    BY <1>1, <2>1, <2>2, <2>3 DEF GuestInv
  <2>5. /\ Connected(h)'
        /\ \A v \in Visitors : v # h => (Connected(v)' <=> Connected(v)) /\ vfd'[v] = vfd[v]
    <3>1. CASE Accept
      <4>1. PICK fd \in Fds : vfd' = [vfd EXCEPT ![h] = fd]
        BY <2>0, <3>1 DEF Accept
      <4>2. stream' = stream
        BY <3>1 DEF Accept
      <4> QED BY <1>1, <2>2, <4>1, <4>2 DEF Connected, TypeInv, TypeOK, ServerTypeOK, VisitorTypeOK
    <3>2. CASE AcceptFails
      <4>1. vfd' = vfd /\ h \in gone /\ stream' = [stream EXCEPT ![h] = <<>>]
        BY <2>0, <3>2 DEF AcceptFails
      <4> QED BY <1>1, <2>2, <4>1 DEF Connected, TypeInv, TypeOK, ServerTypeOK, VisitorTypeOK
    <3> QED BY <1>2, <3>1, <3>2
  <2>6. \A w \in Waiters : wpc[w] \notin Idle => visitor[w] \in Visitors /\ visitor[w] # h
    BY <2>2 DEF TypeInv, Served, GuestInv
  <2>7. DoorInv'
    <3>1. \A v \in InHall : v \in Visitors /\ v # h
      BY <2>2, HallTypes DEF GuestInv
    <3>2. /\ \A v \in Range(calling') \cup InHall' : club_id'[v] = 0
          /\ \A v \in InHall' : Connected(v)'
      BY <1>1, <2>2, <2>3, <2>5, <3>1 DEF DoorInv
    <3>3. \A w \in Waiters :
             /\ wpc'[w] \in {"prompt", "ask"} => club_id'[visitor'[w]] = 0 /\ Connected(visitor[w])'
             /\ wpc'[w] \in Heading \cup Inside => vfd'[visitor'[w]] \in Fds
      BY <1>1, <2>5, <2>6 DEF DoorInv, Idle, Heading, Inside, Connected
    <3> QED BY <3>2, <3>3 DEF DoorInv
  <2> QED BY <2>4, <2>7
<1>3. CASE Push \/ Post
  <2>1. UNCHANGED <<calling, vfd, stream>>
    BY <1>3 DEF Push, Post
  <2>2. InHall' = InHall /\ IsInjective(visitor_queue_') /\ mpc' # "push"
    <3>1. CASE Push
      <4>1. arriving \in Visitors /\ mpc = "push" /\ mpc' = "post"
        BY <3>1 DEF Push, MainGoes, TypeInv, Served
      <4>2. Range(visitor_queue_') = Range(visitor_queue_) \cup {arriving} /\ IsInjective(visitor_queue_')
        BY <3>1, <4>1, AppendFacts
           DEF Push, Queued, GuestInv, TypeInv, TypeOK, ServerTypeOK, HallTypeOK
      <4> QED BY <4>1, <4>2 DEF InHall, Held
    <3>2. CASE Post
      BY <3>2 DEF Post, MainGoes, InHall, Held, GuestInv
    <3> QED BY <1>3, <3>1, <3>2
  <2>3. GuestInv'
    BY <1>1, <2>1, <2>2 DEF GuestInv
  <2>4. DoorInv'
    BY <1>1, <2>1, <2>2 DEF DoorInv, Connected
  <2> QED BY <2>3, <2>4
<1> QED BY <1>2, <1>3 DEF Main

\* A waiter goes on with his visitor, or leaves him: nobody else is affected.
LEMMA VisitKeeps ==
  ASSUME TypeInv, HallInv, NEW w \in Waiters, visitor[w] \in Visitors,
         UNCHANGED <<calling, visitor_queue_, mpc, arriving, vfd, gone>>,
         visitor' = visitor \/ (visitor' = [visitor EXCEPT ![w] = NoVisitor] /\ wpc'[w] \in Idle),
         \A u \in Waiters : u # w => wpc'[u] = wpc[u],
         \A v \in Visitors : v # visitor[w] => stream'[v] = stream[v] /\ club_id'[v] = club_id[v],
         wpc'[w] \in {"prompt", "ask"} =>
            club_id'[visitor[w]] = 0
            /\ (vfd[visitor[w]] \in Fds \/ (visitor[w] \in gone /\ stream'[visitor[w]] = <<>>)),
         wpc'[w] \in Heading \cup Inside => vfd[visitor[w]] \in Fds
  PROVE  HallInv'
<1> USE DEF HallInv
<1>1. InHall' = InHall
  BY DEF InHall, Held
<1>2. NoVisitor \notin Visitors /\ Range(calling) \subseteq Visitors /\ InHall \subseteq Visitors
  BY HallTypes, ClubAssumption
<1>3. \A u \in Waiters : visitor'[u] = visitor[u] \/ (u = w /\ visitor'[u] = NoVisitor /\ wpc'[w] \in Idle)
  BY DEF TypeInv, TypeOK, ServerTypeOK, WaiterTypeOK
<1>4. GuestInv'
  BY <1>1, <1>2, <1>3 DEF GuestInv
<1>5. \A v \in Range(calling) \cup InHall : v \in Visitors /\ v # visitor[w]
  BY <1>2 DEF GuestInv
<1>6. \A v \in Range(calling) \cup InHall : club_id'[v] = 0
  BY <1>5 DEF DoorInv
<1>7. \A v \in InHall : Connected(v)'
  BY <1>5 DEF DoorInv, Connected
<1>8. ASSUME NEW u \in Waiters
      PROVE  /\ wpc'[u] \in {"prompt", "ask"} => club_id'[visitor'[u]] = 0 /\ Connected(visitor[u])'
             /\ wpc'[u] \in Heading \cup Inside => vfd'[visitor'[u]] \in Fds
  <2>1. CASE u = w
    BY <1>3, <2>1 DEF Connected, Idle, Heading, Inside
  <2>2. CASE u # w
    <3>1. wpc[u] \notin Idle => visitor[u] \in Visitors /\ visitor[u] # visitor[w]
      BY <1>2, <2>2 DEF TypeInv, Served, GuestInv
    <3> QED BY <1>3, <2>2, <3>1 DEF DoorInv, Connected, Idle, Heading, Inside
  <2> QED BY <2>1, <2>2
<1>9. DoorInv'
  BY <1>1, <1>6, <1>7, <1>8 DEF DoorInv
<1> QED BY <1>4, <1>9

\* read takes lines of one visitor only.
LEMMA ReadOne ==
  ASSUME TypeInv, NEW v \in Visitors, NEW n, Read(v, n)
  PROVE  \A u \in Visitors : u # v => stream'[u] = stream[u]
BY DEF Read, TypeInv, TypeOK, ServerTypeOK, VisitorTypeOK

\* A waiter takes the first of the queue, and asks him for his room.
LEMMA DoorHall ==
  ASSUME TypeInv, HallInv, NEW w \in Waiters, AtTheDoor(w)
  PROVE  HallInv'
<1>1. UNCHANGED <<calling, mpc, arriving, vfd, gone>>
  BY DEF AtTheDoor, mainVars, SemWait, PopVisitor, Prompt, Ask, AskedForNothing, AskedForRoom, Silent,
         connVars, WriteTo, Crash
<1>2. CASE SemWait(w) \/ (PopVisitor(w) /\ UNCHANGED visitor_queue_)
  <2>1. UNCHANGED <<visitor_queue_, visitor, club_id, stream>>
    BY <1>2, TailFacts DEF SemWait, PopVisitor, Keep, lineVars, TypeInv, TypeOK, ServerTypeOK, HallTypeOK
  <2>2. \A u \in Waiters : wpc'[u] \notin Idle => wpc'[u] = wpc[u]
    BY <1>2 DEF SemWait, PopVisitor, Goes, Idle, TypeInv, TypeOK, ServerTypeOK, WaiterTypeOK
  <2> QED BY <1>1, <2>1, <2>2
          DEF HallInv, GuestInv, DoorInv, InHall, Held, Connected, Idle, Heading, Inside
<1>3. CASE PopVisitor(w) /\ ~UNCHANGED visitor_queue_
  <2>1. /\ visitor_queue_ # <<>> /\ visitor_queue_' = Tail(visitor_queue_) /\ Goes(w, "pop", "prompt")
        /\ visitor' = [visitor EXCEPT ![w] = Head(visitor_queue_)] /\ UNCHANGED <<club_id, stream>>
    BY <1>3 DEF PopVisitor, lineVars
  <2>2. PICK h : h = Head(visitor_queue_)
    OBVIOUS
  <2>3. /\ Range(visitor_queue_) = {h} \cup Range(visitor_queue_') /\ h \notin Range(visitor_queue_')
        /\ IsInjective(visitor_queue_') /\ h \in Visitors
    BY <2>1, <2>2, TailFacts DEF HallInv, GuestInv, TypeInv, TypeOK, ServerTypeOK, HallTypeOK
  <2>4. InHall = InHall' \cup {h} /\ h \notin InHall'
    BY <1>1, <2>3 DEF InHall, Held, HallInv, GuestInv
  <2>5. \A u \in Waiters : /\ visitor'[u] = IF u = w THEN h ELSE visitor[u]
                           /\ visitor[u] # h
                          /\ wpc'[u] = IF u = w THEN "prompt" ELSE wpc[u]
    BY <2>1, <2>2, <2>4 DEF Goes, HallInv, GuestInv, TypeInv, TypeOK, ServerTypeOK, WaiterTypeOK
  <2>6. GuestInv'
    BY <1>1, <2>3, <2>4, <2>5 DEF HallInv, GuestInv
  <2>7. DoorInv'
    BY <1>1, <2>1, <2>4, <2>5 DEF HallInv, DoorInv, Connected, Heading, Inside
  <2> QED BY <2>6, <2>7 DEF HallInv
<1>4. CASE Prompt(w)
  <2>1. /\ visitor[w] \in Visitors /\ UNCHANGED <<visitor_queue_, visitor, club_id, stream>>
        /\ wpc[w] = "prompt" /\ wpc' = [wpc EXCEPT ![w] = "ask"]
    BY <1>4 DEF Prompt, Goes, Keep, lineVars, TypeInv, Served, Idle
  <2>2. club_id[visitor[w]] = 0 /\ Connected(visitor[w])
    BY <2>1 DEF HallInv, DoorInv
  <2>3. wpc'[w] = "ask" /\ \A u \in Waiters : u # w => wpc'[u] = wpc[u]
    BY <2>1 DEF TypeInv, TypeOK, ServerTypeOK, WaiterTypeOK
  <2> QED BY <1>1, <2>1, <2>2, <2>3, VisitKeeps DEF Connected, Heading, Inside
<1>5. CASE Ask(w)
  <2>1. wpc[w] = "ask" /\ visitor[w] \in Visitors /\ UNCHANGED visitor_queue_
    BY <1>5 DEF Ask, TypeInv, Served, Idle
  <2>2. PICK v : v = visitor[w]
    OBVIOUS
  <2>3. club_id[v] = 0 /\ Connected(v)
    BY <2>1, <2>2 DEF HallInv, DoorInv
  <2>4. \A u \in Visitors : u # v => stream'[u] = stream[u]
    BY <1>5, <2>1, <2>2, ReadOne DEF Ask, AskedForNothing, AskedForRoom, lineVars
  <2>5. CASE AskedForNothing(w)
    <3>1. /\ visitor' = [visitor EXCEPT ![w] = NoVisitor] /\ wpc' = [wpc EXCEPT ![w] = "wait"]
          /\ UNCHANGED club_id
      BY <2>5 DEF AskedForNothing, Goes, Dismiss
    <3>2. wpc'[w] = "wait" /\ \A u \in Waiters : u # w => wpc'[u] = wpc[u]
      BY <3>1 DEF TypeInv, TypeOK, ServerTypeOK, WaiterTypeOK
    <3> QED BY <1>1, <2>1, <2>2, <2>4, <3>1, <3>2, VisitKeeps DEF Idle, Heading, Inside
  <2>6. CASE AskedForRoom(w)
    <3>1. PICK n \in 1..Len(stream[v]) : Read(v, n)
      BY <2>2, <2>6 DEF AskedForRoom
    <3>2. stream[v] # <<>>
      BY <2>1, <2>2, <3>1, ReadKeeps DEF TypeInv, TypeOK, ServerTypeOK
    <3>3. vfd[v] \in Fds
      BY <2>3, <3>2 DEF Connected
    <3>4. /\ visitor' = visitor
          /\ \/ wpc' = [wpc EXCEPT ![w] = "find"] /\ \E c : club_id' = [club_id EXCEPT ![v] = c]
             \/ wpc' = [wpc EXCEPT ![w] = "ask"] /\ club_id' = club_id
      BY <2>2, <2>6 DEF AskedForRoom, Keep, Goes
    <3>5. \A u \in Visitors : u # v => club_id'[u] = club_id[u]
      BY <3>4 DEF TypeInv, TypeOK, ServerTypeOK, VisitorTypeOK
    <3>6. /\ \A u \in Waiters : u # w => wpc'[u] = wpc[u]
          /\ wpc'[w] \in {"find", "ask"} /\ (wpc'[w] = "ask" => club_id'[v] = 0)
      BY <2>3, <3>4 DEF TypeInv, TypeOK, ServerTypeOK, WaiterTypeOK
    <3> QED BY <1>1, <2>1, <2>2, <2>4, <3>3, <3>4, <3>5, <3>6, VisitKeeps DEF Heading, Inside
  <2> QED BY <1>5, <2>5, <2>6 DEF Ask
<1> QED BY <1>2, <1>3, <1>4, <1>5 DEF AtTheDoor

\* Beyond the door a waiter stays with his visitor until he has done with him.
LEMMA VisitHall ==
  ASSUME TypeInv, HallInv, NEW w \in Waiters, OnTheMap(w) \/ InTheRoom(w)
  PROVE  HallInv'
<1>1. UNCHANGED <<calling, mpc, arriving, vfd, visitor_queue_, club_id>>
  BY DEF OnTheMap, InTheRoom, mainVars, queueVars
<1>2. wpc[w] \in Heading \cup Inside
  BY DEF OnTheMap, FindRoom, EmplaceRoom, LookUp, CheckClub, CountMembers, EraseRoom, InTheRoom,
         UseOfNothing, AddMember, WriteNext, MemberAdded, ReceiveMsg, ReceiveEnd, Speak, Spoken,
         CloseFd, Here, Goes, Heading, Inside
<1>3. visitor[w] \in Visitors /\ vfd[visitor[w]] \in Fds
  BY <1>2 DEF TypeInv, Served, Idle, Heading, Inside, HallInv, DoorInv
<1>4. CASE OnTheMap(w)
  <2>1. UNCHANGED <<gone, stream>>
    BY <1>4 DEF OnTheMap, FindRoom, EmplaceRoom, LookUp, CheckClub, CountMembers, EraseRoom, Silent,
                connVars, Crash, lineVars
  <2>2. /\ \A u \in Waiters : u # w => wpc'[u] = wpc[u]
        /\ \/ visitor' = visitor /\ wpc'[w] \in Heading \cup Inside
           \/ visitor' = [visitor EXCEPT ![w] = NoVisitor] /\ wpc'[w] = "wait"
    BY <1>4 DEF OnTheMap, FindRoom, EmplaceRoom, LookUp, CheckClub, CountMembers, EraseRoom, Goes, Keep,
                Dismiss, Heading, Inside, TypeInv, TypeOK, ServerTypeOK, WaiterTypeOK
  <2> QED BY <1>1, <1>3, <2>1, <2>2, VisitKeeps DEF Idle, Heading, Inside
<1>5. CASE InTheRoom(w)
  <2>1. UNCHANGED <<gone, visitor>>
    BY <1>5 DEF InTheRoom, UseOfNothing, AddMember, WriteNext, MemberAdded, ReceiveMsg, ReceiveEnd, Speak,
                Spoken, CloseFd, Silent, connVars, Crash, WriteMember, WriteTo
  <2>2. /\ \A u \in Waiters : u # w => wpc'[u] = wpc[u]
        /\ wpc'[w] \in Inside
    BY <1>5 DEF InTheRoom, UseOfNothing, AddMember, WriteNext, MemberAdded, ReceiveMsg, ReceiveEnd, Speak,
                Spoken, CloseFd, Here, Goes, Inside, TypeInv, TypeOK, ServerTypeOK, WaiterTypeOK
  <2>3. \A v \in Visitors : v # visitor[w] => stream'[v] = stream[v]
    <3>1. CASE ReceiveMsg(w)
      BY <1>3, <3>1, ReadOne DEF ReceiveMsg
    <3> QED BY <1>5, <3>1 DEF InTheRoom, UseOfNothing, AddMember, WriteNext, MemberAdded, ReceiveEnd,
                Speak, Spoken, CloseFd, lineVars
  <2> QED BY <1>1, <1>3, <2>1, <2>2, <2>3, VisitKeeps DEF Heading, Inside
<1> QED BY <1>4, <1>5

\* Who is gone types no more, so one without a connection stays without a line.
LEMMA VisitorHall ==
  ASSUME TypeInv, HallInv, VisitorStep
  PROVE  HallInv'
<1>1. UNCHANGED <<calling, mpc, arriving, vfd, visitor_queue_, club_id, wpc, visitor>>
  BY DEF VisitorStep, TypeLine, HangUp, StopReading, mainVars, queueVars, waiterVars
<1>2. \A v : Connected(v) => Connected(v)'
  BY DEF VisitorStep, TypeLine, HangUp, StopReading, mainVars, connVars, lineVars, Connected,
         TypeInv, TypeOK, ServerTypeOK, VisitorTypeOK, ConnTypeOK
<1>3. GuestInv' /\ InHall' = InHall
  BY <1>1 DEF HallInv, GuestInv, InHall, Held
<1>4. DoorInv'
  BY <1>1, <1>2, <1>3 DEF HallInv, DoorInv, Connected
<1> QED BY <1>3, <1>4 DEF HallInv

\* Every visitor is in one place: the backlog, main's hands, visitor_queue_ or with one
\* waiter; he has no room number before the door and a connection behind it.
THEOREM VisitorsHavePlaces == Spec => []HallInv
<1>1. Init => HallInv
  <2> SUFFICES ASSUME Init PROVE HallInv
    OBVIOUS
  <2>1. PICK evening \in Evenings : ServerInit(evening.order, evening.free)
    BY DEF Init
  <2>2. evening.order \in Seq(Visitors) /\ IsInjective(evening.order)
    BY TavernaAssumption
  <2>3. Range(visitor_queue_) = {} /\ IsInjective(visitor_queue_) /\ InHall = {}
    BY <2>1 DEF ServerInit, InHall, Held, Range, IsInjective
  <2>4. Range(calling) \subseteq Visitors
    BY <2>1, <2>2 DEF ServerInit, Range
  <2>5. GuestInv
    BY <2>1, <2>2, <2>3, <2>4, ClubAssumption DEF ServerInit, GuestInv
  <2>6. DoorInv
    BY <2>1, <2>3, <2>4 DEF ServerInit, DoorInv, Heading, Inside
  <2> QED BY <2>5, <2>6 DEF HallInv
<1>2. TypeInv /\ HallInv /\ [Next]_vars => HallInv'
  <2> SUFFICES ASSUME TypeInv, HallInv, [Next]_vars PROVE HallInv'
    OBVIOUS
  <2>1. CASE ServerStep
    BY <2>1, MainHall, DoorHall, VisitHall DEF ServerStep, Waiter
  <2>2. CASE VisitorStep
    BY <2>2, VisitorHall
  <2>3. CASE UNCHANGED vars
    BY <2>3 DEF vars, serverVars, connVars, queueVars, mainVars, lineVars, waiterVars, HallInv, GuestInv,
                DoorInv, InHall, Held, Connected
  <2> QED BY <2>1, <2>2, <2>3 DEF Next, VisitorStep
<1> QED BY <1>1, <1>2, TypesAreKept, PTL DEF Spec

-----------------------------------------------------------------------------
(* Who meets a room that is not there.                                      *)

\* The map gives a number to each room, one; a waiter's room is that of his visitor,
\* as long as the map holds it; and somebody has asked for each number in the map.
MapInv == /\ \A c \in Clubs : chat_room_map[c] \in Rooms => chat_room_map[c] <= made
          /\ \A c, d \in Clubs : chat_room_map[c] = chat_room_map[d] /\ chat_room_map[c] \in Rooms => c = d
          /\ \A w \in Waiters : room[w] \in Rooms =>
                /\ room[w] <= made /\ wpc[w] \in Inside
                /\ \A c \in Clubs : chat_room_map[c] = room[w] => Club(w) = c
          /\ \A c \in Clubs : chat_room_map[c] # Absent => \E v \in Visitors : club_id[v] = c

\* Nobody else has asked for the room of this visitor.
Alone(v) == \A u \in Visitors \ {v} : club_id[u] # club_id[v]

\* The waiter of such a visitor finds everything as he left it.
Undisturbed(w) ==
    wpc[w] \in Heading \cup Inside /\ Alone(visitor[w]) =>
       /\ wpc[w] \in {"find", "emplace"} => chat_room_map[Club(w)] = Absent
       /\ wpc[w] \in {"join"} \cup Inside => chat_room_map[Club(w)] \in Rooms
       /\ wpc[w] \in {"add", "greet", "get", "recv", "speak", "talk"} => room[w] = chat_room_map[Club(w)]
       /\ wpc[w] \in {"get", "recv", "speak", "talk"} => Fd(w) \in Members(room[w])

AloneInv == MapInv /\ \A w \in Waiters : Undisturbed(w)

\* What a waiter does in the room of his visitor and with its number does not concern
\* a visitor who is alone in another.
LEMMA OthersUndisturbed ==
  ASSUME TypeInv, HallInv, AloneInv,
         NEW w \in Waiters, wpc[w] \in Heading \cup Inside, NEW u \in Waiters, u # w,
         UNCHANGED <<wpc[u], visitor[u], room[u], club_id, vfd>>,
         \A c \in Clubs : c # Club(w) => chat_room_map'[c] = chat_room_map[c],
         \A r \in Rooms : r # room[w] => chat_members'[r] = chat_members[r]
  PROVE  Undisturbed(u)'
<1>1. SUFFICES ASSUME wpc[u] \in Heading \cup Inside, Alone(visitor[u])
               PROVE  Undisturbed(u)'
  BY DEF Undisturbed, Alone
<1>2. /\ visitor[w] \in Visitors /\ visitor[u] \in Visitors /\ visitor[w] # visitor[u]
      /\ Club(w) \in Clubs /\ Club(u) \in Clubs
  BY <1>1, ClubAssumption DEF TypeInv, Served, HallInv, GuestInv, Idle, Heading, Inside
<1>3. Club(w) # Club(u)
  BY <1>1, <1>2 DEF Alone, Club
<1>4. chat_room_map'[Club(u)] = chat_room_map[Club(u)] /\ Club(u)' = Club(u) /\ Fd(u)' = Fd(u)
  BY <1>2, <1>3 DEF Club, Fd
<1>5. ASSUME wpc[u] \in {"get", "recv", "speak", "talk"}
      PROVE  Members(room[u])' = Members(room[u])
  <2>1. room[u] = chat_room_map[Club(u)] /\ room[u] \in Rooms
    BY <1>1, <1>5 DEF AloneInv, Undisturbed, Inside
  <2>2. room[u] # room[w]
    BY <1>2, <1>3, <2>1 DEF AloneInv, MapInv
  <2> QED BY <2>1, <2>2 DEF Members
<1> QED BY <1>1, <1>4, <1>5 DEF AloneInv, Undisturbed, Inside

\* A waiter with a lone visitor uses no null or destroyed room.
LEMMA CrashesTakeTwo ==
  ASSUME TypeInv, AloneInv, NEW w \in Waiters,
         UseOfNothing(w) \/ (CheckClub(w) /\ chat_room_map[Club(w)] \notin Rooms)
  PROVE  ~Alone(visitor[w]) /\ Club(w) \in Clubs /\ visitor[w] \in Visitors
<1>1. wpc[w] \in Inside
  BY DEF UseOfNothing, CheckClub, Goes, Inside
<1>2. Club(w) \in Clubs /\ visitor[w] \in Visitors
  BY <1>1 DEF TypeInv, Served, Idle, Heading, Inside
<1>3. ASSUME Alone(visitor[w]) PROVE FALSE
  <2>1. chat_room_map[Club(w)] \in Rooms
    BY <1>1, <1>3 DEF AloneInv, Undisturbed
  <2>2. UseOfNothing(w)
    BY <2>1
  <2>3. room[w] = chat_room_map[Club(w)]
    BY <1>1, <1>3, <2>2 DEF AloneInv, Undisturbed, UseOfNothing
  <2>4. Usable(room[w])
    BY <1>2, <2>1, <2>3 DEF Usable
  <2> QED BY <1>1, <1>3, <2>2, <2>4 DEF AloneInv, Undisturbed, UseOfNothing
<1> QED BY <1>2, <1>3

\* What is left of the map and the rooms when a waiter changes only his visitor.
LEMMA DoorAlone ==
  ASSUME TypeInv, HallInv, AloneInv, NEW w \in Waiters, AtTheDoor(w)
  PROVE  AloneInv'
<1> USE DEF TypeInv, TypeOK, ServerTypeOK
<1>1. UNCHANGED <<chat_members, chat_room_map, made, vfd>>
  BY DEF AtTheDoor, clubVars, mapVars, mainVars
<1>2. /\ wpc[w] \in {"wait", "pop", "prompt", "ask"} /\ wpc'[w] \notin Inside
      /\ wpc'[w] \in Heading => wpc'[w] = "find" /\ Ask(w) /\ AskedForRoom(w)
      /\ \A u \in Waiters : u # w => /\ wpc'[u] = wpc[u] /\ visitor'[u] = visitor[u]
                                     /\ room'[u] = room[u]
  BY DEF AtTheDoor, SemWait, PopVisitor, Prompt, Ask, AskedForNothing, AskedForRoom, Goes, Keep, Dismiss,
         Heading, Inside, WaiterTypeOK
<1>3. room[w] \notin Rooms /\ room'[w] \notin Rooms
  <2>1. room[w] \notin Rooms
    BY <1>2 DEF AloneInv, MapInv, Inside
  <2>2. room'[w] \in {room[w], Null}
    BY DEF AtTheDoor, SemWait, PopVisitor, Prompt, Ask, AskedForNothing, AskedForRoom, Keep, Dismiss,
           WaiterTypeOK
  <2>3. Null \notin Rooms
    BY ClubAssumption DEF Null, Rooms
  <2> QED BY <2>1, <2>2, <2>3
<1>4. PICK v : v = visitor[w]
  OBVIOUS
<1>5. \/ UNCHANGED club_id
      \/ /\ wpc[w] = "ask" /\ visitor' = visitor
         /\ \E c \in Clubs : club_id' = [club_id EXCEPT ![v] = c]
  <2>1. CASE Ask(w) /\ AskedForRoom(w) /\ ~UNCHANGED club_id
    <3>1. PICK n \in 1..Len(stream[v]) : Read(v, n) /\ stream[v][1].id # 0
                                       /\ club_id' = [club_id EXCEPT ![v] = stream[v][1].id]
      BY <1>4, <2>1 DEF AskedForRoom
    <3>2. v \in Visitors
      BY <1>4, <2>1 DEF Ask, Served, Idle
    <3>3. stream[v][1].id \in Clubs
      BY <3>1, <3>2, ReadKeeps DEF Lines
    <3> QED BY <2>1, <3>1, <3>3 DEF Ask, AskedForRoom, Keep
  <2> QED BY <2>1 DEF AtTheDoor, SemWait, PopVisitor, Prompt, Ask, AskedForNothing
<1>6. wpc[w] = "ask" => v \in Visitors /\ club_id[v] = 0 /\ \A u \in Waiters : u # w => visitor[u] # v
  BY <1>4, ClubAssumption DEF Served, Idle, HallInv, GuestInv, DoorInv
<1>7. 0 \notin Clubs
  BY ClubsAssumption
<1>8. MapInv'
  <2>1. \A u \in Waiters : room'[u] \in Rooms =>
           u # w /\ room'[u] = room[u] /\ room[u] \in Rooms /\ wpc'[u] = wpc[u] /\ Club(u)' = Club(u)
    <3> SUFFICES ASSUME NEW u \in Waiters, room'[u] \in Rooms
                 PROVE  /\ u # w /\ room'[u] = room[u] /\ room[u] \in Rooms /\ wpc'[u] = wpc[u]
                        /\ Club(u)' = Club(u)
      OBVIOUS
    <3>1. u # w /\ room'[u] = room[u] /\ wpc'[u] = wpc[u] /\ visitor'[u] = visitor[u] /\ wpc[u] \in Inside
      BY <1>2, <1>3 DEF AloneInv, MapInv
    <3>2. visitor[u] \in Visitors
      BY <3>1 DEF Served, Idle, Inside
    <3>3. club_id'[visitor[u]] = club_id[visitor[u]]
      BY <1>5, <1>6, <3>1, <3>2 DEF VisitorTypeOK
    <3> QED BY <3>1, <3>3 DEF Club
  <2>2. \A c \in Clubs : (\E u \in Visitors : club_id[u] = c) => \E u \in Visitors : club_id'[u] = c
    BY <1>5, <1>6, <1>7 DEF VisitorTypeOK
  <2>3. \A u \in Waiters : room'[u] \in Rooms =>
           /\ room'[u] <= made' /\ wpc'[u] \in Inside
           /\ \A c \in Clubs : chat_room_map'[c] = room'[u] => Club(u)' = c
    BY <1>1, <2>1 DEF AloneInv, MapInv
  <2> QED BY <1>1, <2>2, <2>3 DEF AloneInv, MapInv
<1>9. ASSUME NEW u \in Waiters, u # w PROVE Undisturbed(u)'
  <2>1. SUFFICES ASSUME wpc[u] \in Heading \cup Inside, Alone(visitor[u])'
                 PROVE  Undisturbed(u)'
    BY <1>2, <1>9 DEF Undisturbed
  <2>2. visitor[u] \in Visitors /\ club_id[visitor[u]] \in Clubs /\ visitor'[u] = visitor[u]
    BY <1>2, <1>9, <2>1 DEF Served, Idle, Heading, Inside, Club
  <2>3. club_id'[visitor[u]] = club_id[visitor[u]] /\ Alone(visitor[u])
    BY <1>5, <1>6, <1>7, <1>9, <2>1, <2>2 DEF Alone, VisitorTypeOK
  <2> QED BY <1>1, <1>2, <1>9, <2>1, <2>2, <2>3
          DEF AloneInv, Undisturbed, Club, Fd, Members
<1>10. Undisturbed(w)'
  <2>1. SUFFICES ASSUME wpc'[w] = "find", Alone(visitor[w])', Ask(w), AskedForRoom(w)
                 PROVE  chat_room_map'[Club(w)'] = Absent
    BY <1>2 DEF Undisturbed, Heading, Inside
  <2>2. visitor' = visitor /\ wpc[w] = "ask"
    BY <2>1 DEF Ask, AskedForRoom, Keep
  <2>3. club_id'[v] \in Clubs
    <3>1. Served' /\ visitor'[w] = v
      BY <1>4, <2>2, DoorTypes
    <3> QED BY <2>1, <3>1 DEF Served, Heading, Club
  <2>4. \A u \in Visitors : club_id[u] # club_id'[v]
    BY <1>4, <1>5, <1>6, <1>7, <2>1, <2>2, <2>3 DEF Alone, VisitorTypeOK
  <2> QED BY <1>1, <1>4, <2>2, <2>3, <2>4 DEF AloneInv, MapInv, Club
<1> QED BY <1>8, <1>9, <1>10 DEF AloneInv

\* On the map a waiter changes the entry of his own number.
LEMMA MapAlone ==
  ASSUME TypeInv, HallInv, AloneInv, NEW w \in Waiters, OnTheMap(w)
  PROVE  AloneInv'
<1> USE DEF TypeInv, TypeOK, ServerTypeOK
<1>1. UNCHANGED <<chat_members, club_id, vfd>>
  BY DEF OnTheMap, clubVars, mainVars
<1>2. wpc[w] \in Heading \cup Inside
  BY DEF OnTheMap, FindRoom, EmplaceRoom, LookUp, CheckClub, CountMembers, EraseRoom, Goes,
         Heading, Inside
<1>3. visitor[w] \in Visitors /\ Club(w) \in Clubs
  BY <1>2 DEF Served, Heading, Inside, Idle
<1>4. /\ Null \notin Rooms /\ Absent \notin Rooms /\ Null # Absent
      /\ made \in Nat /\ (made < MaxRooms => made + 1 \in Rooms)
      /\ \A r \in Rooms : r \in Nat
  BY ClubAssumption DEF Null, Absent, Rooms, HallTypeOK
<1>5. \A u \in Waiters : u # w => /\ wpc'[u] = wpc[u] /\ visitor'[u] = visitor[u]
                               /\ room'[u] = room[u]
  BY DEF OnTheMap, FindRoom, EmplaceRoom, LookUp, CheckClub, CountMembers, EraseRoom, Goes, Keep, Dismiss,
         WaiterTypeOK
<1>6. \A c \in Clubs : c # Club(w) => chat_room_map'[c] = chat_room_map[c]
  BY <1>3 DEF OnTheMap, FindRoom, EmplaceRoom, LookUp, CheckClub, CountMembers, EraseRoom, Emplaced, Erased,
              mapVars, HallTypeOK
<1>7. ASSUME NEW u \in Waiters, u # w PROVE Undisturbed(u)'
  BY <1>1, <1>2, <1>5, <1>6, <1>7, OthersUndisturbed
<1>8. \/ /\ chat_room_map'[Club(w)] = chat_room_map[Club(w)] /\ made' = made
      \/ /\ EmplaceRoom(w) /\ chat_room_map[Club(w)] = Absent /\ made < MaxRooms
         /\ made' = made + 1 /\ chat_room_map'[Club(w)] = made + 1
      \/ /\ LookUp(w) /\ made' = made
         /\ chat_room_map[Club(w)] = Absent /\ chat_room_map'[Club(w)] = Null
      \/ /\ EraseRoom(w) /\ made' = made /\ chat_room_map'[Club(w)] = Absent
  BY <1>3 DEF OnTheMap, FindRoom, EmplaceRoom, LookUp, CheckClub, CountMembers, EraseRoom, Emplaced, Erased,
              mapVars, HallTypeOK
<1>9. /\ \/ visitor'[w] = visitor[w] /\ wpc'[w] \in Heading \cup Inside
         \/ room'[w] = Null /\ wpc'[w] = "wait"
      /\ room'[w] \in Rooms => /\ room'[w] = room[w] \/ room'[w] = chat_room_map'[Club(w)]
                               /\ visitor'[w] = visitor[w] /\ wpc'[w] \in Inside
  <2>1. CASE FindRoom(w) \/ EmplaceRoom(w)
    <3>1. wpc[w] \in Heading /\ wpc'[w] \in Heading /\ room' = room /\ visitor' = visitor
      BY <2>1 DEF FindRoom, EmplaceRoom, Goes, Keep, Heading, WaiterTypeOK
    <3>2. room[w] \notin Rooms
      BY <3>1 DEF AloneInv, MapInv, Heading, Inside
    <3> QED BY <3>1, <3>2
  <2>2. CASE LookUp(w)
    <3>1. visitor' = visitor /\ wpc'[w] \in Inside /\ room'[w] = chat_room_map'[Club(w)]
      BY <1>3, <2>2 DEF LookUp, Goes, Inside, WaiterTypeOK, HallTypeOK
    <3> QED BY <3>1
  <2>3. CASE CheckClub(w) \/ (CountMembers(w) /\ wpc'[w] = "erase")
    <3>1. visitor' = visitor /\ wpc'[w] \in Inside /\ room' = room
      BY <2>3 DEF CheckClub, CountMembers, Goes, Keep, Inside, WaiterTypeOK
    <3> QED BY <3>1
  <2>4. CASE EraseRoom(w) \/ (CountMembers(w) /\ wpc'[w] # "erase")
    <3>1. room'[w] = Null /\ wpc'[w] = "wait"
      BY <2>4 DEF EraseRoom, CountMembers, Goes, Dismiss, WaiterTypeOK
    <3> QED BY <1>4, <3>1
  <2> QED BY <2>1, <2>2, <2>3, <2>4 DEF OnTheMap
<1>10. MapInv'
  <2>1. \A c \in Clubs : chat_room_map'[c] \in Rooms =>
           chat_room_map'[c] <= made' /\ (chat_room_map'[c] = chat_room_map[c] \/ chat_room_map'[c] = made + 1)
    BY <1>4, <1>6, <1>8 DEF AloneInv, MapInv
  <2>2. \A c, d \in Clubs :
           chat_room_map'[c] = chat_room_map'[d] /\ chat_room_map'[c] \in Rooms => c = d
    BY <1>4, <1>6, <1>8 DEF AloneInv, MapInv
  <2>3. \A c \in Clubs : chat_room_map'[c] # Absent => \E v \in Visitors : club_id'[v] = c
    BY <1>1, <1>3, <1>6 DEF AloneInv, MapInv, Club
  <2>4. ASSUME NEW u \in Waiters, room'[u] \in Rooms
        PROVE  /\ room'[u] <= made' /\ wpc'[u] \in Inside
               /\ \A c \in Clubs : chat_room_map'[c] = room'[u] => Club(u)' = c
    <3>1. wpc'[u] \in Inside /\ Club(u)' = Club(u)
      <4>1. CASE u = w
        BY <1>1, <1>9, <2>4, <4>1 DEF Club
      <4>2. CASE u # w
        BY <1>1, <1>5, <2>4, <4>2 DEF Club, AloneInv, MapInv
      <4> QED BY <4>1, <4>2
    <3>2. CASE room'[u] = room[u]
      <4>1. /\ room[u] <= made /\ made' \in {made, made + 1} /\ room[u] # made + 1
            /\ \A c \in Clubs : chat_room_map[c] = room[u] => Club(u) = c
        BY <1>4, <1>8, <2>4, <3>2 DEF AloneInv, MapInv
      <4>2. \A c \in Clubs : chat_room_map'[c] = room'[u] => chat_room_map[c] = room[u]
        BY <2>1, <2>4, <3>2, <4>1
      <4> QED BY <1>4, <2>4, <3>1, <3>2, <4>1, <4>2
    <3>3. CASE u = w /\ room'[w] = chat_room_map'[Club(w)]
      BY <1>3, <2>1, <2>2, <2>4, <3>1, <3>3
    <3> QED BY <1>5, <1>9, <2>4, <3>2, <3>3
  <2> QED BY <2>1, <2>2, <2>3, <2>4 DEF MapInv
<1>11. Undisturbed(w)'
  <2>1. SUFFICES ASSUME wpc'[w] \in Heading \cup Inside, Alone(visitor[w])'
                 PROVE  Undisturbed(w)'
    BY DEF Undisturbed
  <2>2. visitor'[w] = visitor[w] /\ Alone(visitor[w]) /\ Club(w)' = Club(w) /\ Fd(w)' = Fd(w)
    BY <1>1, <1>9, <2>1 DEF Alone, Club, Fd, Heading, Inside
  <2>3. Undisturbed(w) /\ \A r : Members(r)' = Members(r)
    BY <1>1 DEF AloneInv, Members
  <2>4. CASE FindRoom(w) \/ EmplaceRoom(w)
    BY <1>2, <1>4, <1>8, <2>2, <2>3, <2>4
       DEF FindRoom, EmplaceRoom, Goes, mapVars, Undisturbed, Heading, Inside, WaiterTypeOK
  <2>5. CASE LookUp(w)
    <3>1. chat_room_map[Club(w)] \in Rooms
      BY <1>2, <2>2, <2>3, <2>5 DEF LookUp, Goes, Undisturbed, Inside
    <3>2. room'[w] = chat_room_map[Club(w)] /\ chat_room_map'[Club(w)] = chat_room_map[Club(w)]
      BY <1>3, <1>4, <2>5, <3>1 DEF LookUp, WaiterTypeOK, HallTypeOK
    <3>3. \/ wpc[w] = "join" /\ wpc'[w] = "add"
          \/ wpc[w] = "get" /\ wpc'[w] = "recv"
      BY <2>5 DEF LookUp, Goes, WaiterTypeOK
    <3>4. wpc[w] = "get" => room[w] = chat_room_map[Club(w)] /\ Fd(w) \in Members(room[w])
      BY <2>2, <2>3 DEF Undisturbed, Inside
    <3> QED BY <2>2, <2>3, <3>1, <3>2, <3>3, <3>4 DEF Undisturbed
  <2>6. CASE CheckClub(w) \/ CountMembers(w)
    BY <1>2, <2>1, <2>2, <2>3, <2>6
       DEF CheckClub, CountMembers, Goes, mapVars, Undisturbed, Heading, Inside, WaiterTypeOK
  <2>7. CASE EraseRoom(w)
    BY <2>1, <2>7 DEF EraseRoom, Goes, Heading, Inside, WaiterTypeOK
  <2> QED BY <2>4, <2>5, <2>6, <2>7 DEF OnTheMap
<1> QED BY <1>7, <1>10, <1>11 DEF AloneInv

\* In a room a waiter changes the list of that room.
LEMMA RoomAlone ==
  ASSUME TypeInv, HallInv, AloneInv, NEW w \in Waiters, InTheRoom(w)
  PROVE  AloneInv'
<1> USE DEF TypeInv, TypeOK, ServerTypeOK
<1>1. UNCHANGED <<chat_room_map, made, club_id, vfd, visitor, room>>
  BY DEF InTheRoom, mapVars, mainVars
<1>2. wpc[w] \in Inside
  BY DEF InTheRoom, UseOfNothing, AddMember, WriteNext, MemberAdded, ReceiveMsg, ReceiveEnd,
         Speak, Spoken, CloseFd, Here, Goes, Inside
<1>3. wpc'[w] \in Inside /\ \A u \in Waiters : u # w => wpc'[u] = wpc[u]
  BY DEF InTheRoom, UseOfNothing, AddMember, WriteNext, MemberAdded, ReceiveMsg, ReceiveEnd,
         Speak, Spoken, CloseFd, Here, Goes, WaiterTypeOK, Inside
<1>4. \A r \in Rooms : r # room[w] => chat_members'[r] = chat_members[r]
  <2>1. CASE UNCHANGED chat_members
    BY <2>1
  <2>2. CASE MemberAdded(w) \/ Spoken(w)
    BY <2>2 DEF MemberAdded, Spoken, EnterClub, LeaveClub, StaySeated, ClubTypeOK
  <2> QED BY <2>1, <2>2 DEF InTheRoom, UseOfNothing, AddMember, WriteNext, ReceiveMsg, ReceiveEnd,
         Speak, CloseFd, LockClub, WriteMember, clubVars
<1>5. MapInv'
  BY <1>1, <1>3 DEF AloneInv, MapInv, Club
<1>6. ASSUME NEW u \in Waiters, u # w PROVE Undisturbed(u)'
  BY <1>1, <1>2, <1>3, <1>4, <1>6, OthersUndisturbed
<1>7. Undisturbed(w)'
  <2>1. SUFFICES ASSUME Alone(visitor[w])
                 PROVE  Undisturbed(w)'
    BY <1>1 DEF Undisturbed, Alone
  <2>2. /\ Club(w)' = Club(w) /\ Fd(w)' = Fd(w) /\ visitor[w] \in Visitors
        /\ chat_room_map[Club(w)] \in Rooms /\ vfd[visitor[w]] \in Fds
    BY <1>1, <1>2, <2>1
       DEF Club, Fd, Served, Idle, Heading, Inside, HallInv, DoorInv, AloneInv, Undisturbed
  <2>3. /\ wpc[w] \in {"add", "greet", "get", "recv", "speak", "talk"} => room[w] = chat_room_map[Club(w)]
        /\ wpc[w] \in {"get", "recv", "speak", "talk"} => Fd(w) \in Members(room[w])
    BY <1>2, <2>1 DEF AloneInv, Undisturbed
  <2>4. CASE UNCHANGED chat_members
    <3>1. \/ wpc'[w] = "close" \/ wpc'[w] = "check" \/ wpc'[w] = wpc[w]
          \/ wpc[w] = "add" /\ wpc'[w] = "greet"
          \/ wpc[w] \in {"recv", "speak", "talk"} /\ wpc'[w] \in {"recv", "speak", "talk"}
          \/ MemberAdded(w)
      BY DEF InTheRoom, UseOfNothing, AddMember, WriteNext, ReceiveMsg, ReceiveEnd,
         Speak, Spoken, CloseFd, Here, Goes, WaiterTypeOK
    <3>2. CASE MemberAdded(w)
      <4>1. wpc[w] = "greet" /\ wpc'[w] = "get" /\ Fd(w) \in Fds
        BY <2>2, <3>2 DEF MemberAdded, Here, Goes, WaiterTypeOK, Fd
      <4>2. room[w] \in Rooms
        BY <2>2, <2>3, <4>1
      <4>3. Fd(w) \in Members(room[w])
        BY <2>2, <2>4, <3>2, <4>1, <4>2, ClubAssumption DEF MemberAdded, EnterClub, Members, ClubTypeOK
      <4> QED BY <1>1, <2>2, <2>3, <2>4, <4>1, <4>3 DEF Undisturbed, Members
    <3> QED BY <1>1, <1>3, <2>2, <2>3, <2>4, <3>1, <3>2 DEF Undisturbed, Members, Inside
  <2>5. CASE MemberAdded(w)
    <3>1. wpc[w] = "greet" /\ wpc'[w] = "get" /\ Fd(w) \in Fds
      BY <2>2, <2>5 DEF MemberAdded, Here, Goes, WaiterTypeOK, Fd
    <3>2. room[w] \in Rooms /\ room[w] = chat_room_map[Club(w)]
      BY <2>2, <2>3, <3>1
    <3>3. chat_members'[room[w]][Fd(w)] # NoVisitor
      BY <2>2, <2>5, <3>1, <3>2, ClubAssumption DEF MemberAdded, EnterClub, Members, ClubTypeOK
    <3> QED BY <1>1, <2>2, <3>1, <3>2, <3>3 DEF Undisturbed, Members
  <2>6. CASE Spoken(w) /\ wpc'[w] = "close"
    BY <1>1, <2>2, <2>6 DEF Undisturbed
  <2>7. CASE Spoken(w) /\ wpc'[w] # "close"
    BY <2>4, <2>7 DEF Spoken, StaySeated, Here, Goes, WaiterTypeOK
  <2> QED BY <2>4, <2>5, <2>6, <2>7 DEF InTheRoom, UseOfNothing, AddMember, WriteNext, ReceiveMsg,
         ReceiveEnd, Speak, CloseFd, LockClub, WriteMember, clubVars
<1> QED BY <1>5, <1>6, <1>7 DEF AloneInv

\* Main and the visitors leave rooms and map as they are; a descriptor is only given
\* to somebody outside.
LEMMA OutsideAlone ==
  ASSUME TypeInv, HallInv, AloneInv, Main \/ VisitorStep
  PROVE  AloneInv'
<1>1. UNCHANGED <<chat_members, chat_room_map, made, club_id, wpc, visitor, room>>
  BY DEF Main, VisitorStep, TypeLine, HangUp, StopReading, clubVars, mapVars, waiterVars
<1>2. ASSUME NEW w \in Waiters, wpc[w] \in Heading \cup Inside
      PROVE  vfd'[visitor[w]] = vfd[visitor[w]]
  <2>1. visitor[w] \in Visitors /\ visitor[w] \notin Range(calling)
    BY <1>2 DEF TypeInv, Served, HallInv, GuestInv, Idle, Heading, Inside
  <2>2. CASE Accept
    <3>1. PICK fd : vfd' = [vfd EXCEPT ![Head(calling)] = fd]
      BY <2>2 DEF Accept
    <3>2. Head(calling) \in Range(calling)
      BY <2>2, TailFacts DEF Accept, TypeInv, TypeOK, ServerTypeOK, HallTypeOK
    <3> QED BY <2>1, <3>1, <3>2 DEF TypeInv, TypeOK, ServerTypeOK, VisitorTypeOK
  <2>3. CASE ~Accept
    BY <2>3 DEF Main, AcceptFails, Push, Post, VisitorStep, TypeLine, HangUp, StopReading, mainVars
  <2> QED BY <2>2, <2>3
<1>3. MapInv'
  BY <1>1 DEF AloneInv, MapInv, Club
<1>4. ASSUME NEW w \in Waiters PROVE Undisturbed(w)'
  BY <1>1, <1>2 DEF AloneInv, Undisturbed, Alone, Club, Fd, Members
<1> QED BY <1>3, <1>4 DEF AloneInv

\* Only these two steps end the process on a room.
LEMMA RoomCrash ==
  ASSUME crashed = "no", NEW w \in Waiters, Waiter(w), crashed' \in {"null", "freed"}
  PROVE  /\ UNCHANGED club_id
         /\ UseOfNothing(w) \/ (CheckClub(w) /\ chat_room_map[Club(w)] \notin Rooms)
BY DEF Waiter, AtTheDoor, SemWait, PopVisitor, Prompt, Ask, AskedForNothing, AskedForRoom, OnTheMap, FindRoom,
       EmplaceRoom, LookUp, CheckClub, CountMembers, EraseRoom, InTheRoom, AddMember, WriteNext, MemberAdded,
       ReceiveMsg, ReceiveEnd, Speak, Spoken, CloseFd, Silent, connVars, Crash, WriteMember, WriteTo,
       BadDescriptor, Heard, Unheard, BrokenPipe

\* The map, the rooms, and what a lone visitor's waiter finds.
THEOREM RoomsAreFound == Spec => []AloneInv
<1>1. Init => AloneInv
  <2> SUFFICES ASSUME Init PROVE AloneInv
    OBVIOUS
  <2>1. PICK evening \in Evenings : ServerInit(evening.order, evening.free)
    BY DEF Init
  <2>2. Absent \notin Rooms /\ Null \notin Rooms
    BY ClubAssumption DEF Absent, Null, Rooms
  <2>3. MapInv
    BY <2>1, <2>2 DEF ServerInit, MapInv
  <2>4. \A w \in Waiters : wpc[w] \notin Heading \cup Inside
    BY <2>1 DEF ServerInit, Heading, Inside
  <2> QED BY <2>3, <2>4 DEF AloneInv, Undisturbed
<1>2. TypeInv /\ HallInv /\ AloneInv /\ [Next]_vars => AloneInv'
  <2> SUFFICES ASSUME TypeInv, HallInv, AloneInv, [Next]_vars
               PROVE  AloneInv'
    OBVIOUS
  <2>1. CASE ServerStep
    BY <2>1, OutsideAlone, DoorAlone, MapAlone, RoomAlone DEF ServerStep, Waiter
  <2>2. CASE VisitorStep
    BY <2>2, OutsideAlone
  <2>3. CASE UNCHANGED vars
    BY <2>3 DEF vars, serverVars, clubVars, mapVars, mainVars, waiterVars, AloneInv, MapInv, Undisturbed,
                Alone, Club, Fd, Members
  <2> QED BY <2>1, <2>2, <2>3 DEF Next, VisitorStep
<1> QED BY <1>1, <1>2, TypesAreKept, VisitorsHavePlaces, PTL DEF Spec

\* A room a waiter joins or checks is there unless a second visitor has asked for the
\* same number (TavernaSever.h, lines 26, 35 and 59).
THEOREM NullRoomTakesTwo == Spec => []CrashTakesTwo
<1>1. Init => CrashTakesTwo
  BY DEF Init, ServerInit, ClubInit, CrashTakesTwo
<1>2. TypeInv /\ AloneInv /\ CrashTakesTwo /\ [Next]_vars => CrashTakesTwo'
  <2> SUFFICES ASSUME TypeInv, AloneInv, CrashTakesTwo, [Next]_vars
               PROVE  CrashTakesTwo'
    OBVIOUS
  <2>1. CASE crashed = "no" /\ (Main \/ VisitorStep)
    <3>1. crashed' = "no"
      BY <2>1 DEF Main, VisitorStep, TypeLine, HangUp, StopReading, connVars
    <3> QED BY <3>1 DEF CrashTakesTwo
  <2>2. ASSUME crashed = "no", NEW w \in Waiters, Waiter(w), crashed' \in {"null", "freed"}
        PROVE  \E u, v \in Visitors : u # v /\ club_id'[u] = club_id'[v] /\ club_id'[u] # 0
    <3>1. /\ ~Alone(visitor[w]) /\ Club(w) \in Clubs /\ visitor[w] \in Visitors
          /\ UNCHANGED club_id
      BY <2>2, RoomCrash, CrashesTakeTwo
    <3>2. PICK u \in Visitors \ {visitor[w]} : club_id[u] = club_id[visitor[w]]
      BY <3>1 DEF Alone
    <3> QED BY <3>1, <3>2, ClubsAssumption DEF Club
  <2>3. CASE UNCHANGED vars
    BY <2>3 DEF vars, serverVars, connVars, CrashTakesTwo
  <2> QED BY <2>1, <2>2, <2>3 DEF CrashTakesTwo, Next, ServerStep, VisitorStep
<1> QED BY <1>1, <1>2, TypesAreKept, RoomsAreFound, PTL DEF Spec

-----------------------------------------------------------------------------
(* Empty rooms are cleared.                                                 *)

\* A waiter who is about to enter a room, or who has left it and will look after it.
Entering  == {"join", "add", "greet"}
Leaving   == {"close", "check", "count", "erase"}
Minding(w, c) == visitor[w] # NoVisitor /\ Club(w) = c /\ wpc[w] \in Entering \cup Leaving

\* As long as nobody hangs up somebody minds each empty room.  Whether the process has
\* crashed does not matter: it stands still then.
ClearInv == gone = {} =>
    \A c \in Clubs : chat_room_map[c] \in Rooms /\ Members(chat_room_map[c]) = {} =>
        \E w \in Waiters : Minding(w, c)

\* Steps at the door touch neither a waiter who minds a room nor any room.
LEMMA DoorClears ==
  ASSUME TypeInv, HallInv, ClearInv, NEW w \in Waiters, AtTheDoor(w)
  PROVE  ClearInv'
<1> USE DEF TypeInv, TypeOK, ServerTypeOK
<1>1. UNCHANGED <<chat_members, chat_room_map>>
  BY DEF AtTheDoor, clubVars, mapVars
<1>2. gone' = gone
  BY DEF AtTheDoor, SemWait, PopVisitor, Prompt, Ask, AskedForNothing, AskedForRoom, Silent,
         connVars, WriteTo, Crash
<1>3. /\ wpc[w] \in {"wait", "pop", "prompt", "ask"}
      /\ \A u \in Waiters : u # w => /\ wpc'[u] = wpc[u] /\ visitor'[u] = visitor[u]
  BY DEF AtTheDoor, SemWait, PopVisitor, Prompt, Ask, AskedForNothing, AskedForRoom, Goes, Keep, Dismiss,
         WaiterTypeOK
<1>4. \/ UNCHANGED club_id
      \/ wpc[w] = "ask" /\ \E c : club_id' = [club_id EXCEPT ![visitor[w]] = c]
  BY DEF AtTheDoor, SemWait, PopVisitor, Prompt, Ask, AskedForNothing, AskedForRoom
<1>5. ASSUME NEW u \in Waiters, NEW c \in Clubs, Minding(u, c) PROVE Minding(u, c)'
  <2>1. u # w /\ visitor[u] \in Visitors /\ visitor'[u] = visitor[u] /\ wpc'[u] = wpc[u]
    BY <1>3, <1>5 DEF Minding, Entering, Leaving, Served, Idle
  <2>2. visitor[u] # visitor[w]
    BY <2>1, ClubAssumption DEF HallInv, GuestInv
  <2>3. club_id'[visitor[u]] = club_id[visitor[u]]
    BY <1>4, <2>1, <2>2 DEF VisitorTypeOK
  <2> QED BY <1>5, <2>1, <2>3 DEF Minding, Club
<1> QED BY <1>1, <1>2, <1>5 DEF ClearInv, Members

\* On the map: a room is made by who will enter it, and only left empty when it is
\* erased.
LEMMA MapClears ==
  ASSUME TypeInv, ClearInv, NEW w \in Waiters, OnTheMap(w)
  PROVE  ClearInv'
<1> USE DEF TypeInv, TypeOK, ServerTypeOK
<1>1. UNCHANGED <<chat_members, club_id, gone>>
  BY DEF OnTheMap, FindRoom, EmplaceRoom, LookUp, CheckClub, CountMembers, EraseRoom, Silent,
         connVars, Crash, clubVars
<1>2. wpc[w] \in Heading \cup Inside
  BY DEF OnTheMap, FindRoom, EmplaceRoom, LookUp, CheckClub, CountMembers, EraseRoom, Goes,
         Heading, Inside
<1>3. visitor[w] \in Visitors /\ visitor[w] # NoVisitor /\ Club(w) \in Clubs
  BY <1>2, ClubAssumption DEF Served, Heading, Inside, Idle
<1>0. PICK d \in Clubs : d = Club(w)
  BY <1>3
<1>4. \A u \in Waiters : u # w => wpc'[u] = wpc[u] /\ visitor'[u] = visitor[u]
  BY DEF OnTheMap, FindRoom, EmplaceRoom, LookUp, CheckClub, CountMembers, EraseRoom, Goes, Keep, Dismiss,
         WaiterTypeOK
<1>5. \A u \in Waiters, c \in Clubs : u # w /\ Minding(u, c) => Minding(u, c)'
  BY <1>1, <1>4 DEF Minding, Club
<1>6. \A c \in Clubs : c # d => chat_room_map'[c] = chat_room_map[c] /\ ~Minding(w, c)
  BY <1>0, <1>3 DEF OnTheMap, FindRoom, EmplaceRoom, LookUp, CheckClub, CountMembers, EraseRoom, Emplaced, Erased,
              mapVars, HallTypeOK, Minding
<1>7. \A r : Members(r)' = Members(r)
  BY <1>1 DEF Members
<1>8. ASSUME gone = {}, chat_room_map'[d] \in Rooms, Members(chat_room_map[d])' = {}
      PROVE  \E u \in Waiters : Minding(u, d)'
  <2>1. CASE FindRoom(w)
    <3>1. chat_room_map' = chat_room_map /\ wpc[w] = "find"
      BY <2>1 DEF FindRoom, Goes, mapVars
    <3>2. PICK u \in Waiters : Minding(u, d)
      BY <1>0, <1>3, <1>1, <1>8, <3>1 DEF ClearInv, Members
    <3> QED BY <1>0, <1>3, <1>5, <3>1, <3>2 DEF Minding, Entering, Leaving
  <2>2. CASE EmplaceRoom(w) \/ LookUp(w) \/ CheckClub(w)
    <3>1. CASE wpc'[w] \in Entering \cup Leaving /\ visitor' = visitor
      BY <1>0, <1>1, <1>3, <3>1 DEF Minding, Club
    <3>2. CASE LookUp(w) /\ wpc[w] = "get"
      <4>1. chat_room_map'[d] = chat_room_map[d]
        BY <1>0, <1>3, <1>8, <3>2, ClubAssumption DEF LookUp, HallTypeOK, Null, Rooms
      <4>2. PICK u \in Waiters : Minding(u, d)
        BY <1>0, <1>3, <1>1, <1>8, <4>1 DEF ClearInv, Members
      <4> QED BY <1>0, <1>3, <1>5, <3>2, <4>2 DEF Minding, Entering, Leaving
    <3>3. \/ wpc'[w] \in Entering \cup Leaving /\ visitor' = visitor
          \/ LookUp(w) /\ wpc[w] = "get"
      BY <2>2 DEF EmplaceRoom, LookUp, CheckClub, Goes, Keep, Entering, Leaving, WaiterTypeOK
    <3> QED BY <3>1, <3>2, <3>3
  <2>3. CASE CountMembers(w)
    <3>1. chat_room_map' = chat_room_map
      BY <2>3 DEF CountMembers, mapVars
    <3>2. wpc'[w] = "erase" /\ visitor' = visitor
      BY <1>0, <1>1, <1>8, <2>3, <3>1 DEF Members, CountMembers, Goes, Keep, WaiterTypeOK
    <3> QED BY <1>0, <1>1, <1>3, <3>2 DEF Minding, Club, Leaving
  <2>4. CASE EraseRoom(w)
    BY <1>0, <1>3, <1>8, <2>4 DEF EraseRoom, Erased, Absent, Rooms, HallTypeOK
  <2> QED BY <2>1, <2>2, <2>3, <2>4 DEF OnTheMap
<1>9. ASSUME gone = {}, NEW c \in Clubs, c # d, chat_room_map'[c] \in Rooms,
             Members(chat_room_map[c])' = {}
      PROVE  \E u \in Waiters : Minding(u, c)'
  BY <1>1, <1>5, <1>6, <1>7, <1>9 DEF ClearInv
<1> QED BY <1>1, <1>7, <1>8, <1>9 DEF ClearInv

\* In a room: who enters it fills it, who leaves it last is there to look after it.
LEMMA RoomClears ==
  ASSUME TypeInv, HallInv, AloneInv, ClearInv, NEW w \in Waiters, InTheRoom(w)
  PROVE  ClearInv'
<1> USE DEF TypeInv, TypeOK, ServerTypeOK
<1>1. UNCHANGED <<chat_room_map, club_id, visitor, room, gone>>
  BY DEF InTheRoom, UseOfNothing, AddMember, WriteNext, MemberAdded, ReceiveMsg, ReceiveEnd, Speak,
         Spoken, CloseFd, Silent, connVars, Crash, WriteMember, WriteTo, mapVars
<1>2. wpc[w] \in Inside /\ \A u \in Waiters : u # w => wpc'[u] = wpc[u]
  BY DEF InTheRoom, UseOfNothing, AddMember, WriteNext, MemberAdded, ReceiveMsg, ReceiveEnd,
         Speak, Spoken, CloseFd, Here, Goes, WaiterTypeOK, Inside
<1>3. visitor[w] \in Visitors /\ visitor[w] # NoVisitor /\ Club(w) \in Clubs /\ Fd(w) \in Fds
  BY <1>2, ClubAssumption DEF Served, Heading, Inside, Idle, HallInv, DoorInv, Fd
<1>0. PICK d \in Clubs : d = Club(w)
  BY <1>3
<1>4. \A u \in Waiters, c \in Clubs :
         Minding(u, c) /\ (u # w \/ wpc'[w] \in Entering \cup Leaving) => Minding(u, c)'
  BY <1>1, <1>2 DEF Minding, Club
<1>5. CASE MemberAdded(w)
  <2>1. Usable(room[w]) /\ room[w] = chat_room_map[d] /\ room[w] \in Rooms
    <3>1. Usable(room[w])
      BY <1>0, <1>5 DEF MemberAdded, Here
    <3> QED BY <1>0, <3>1 DEF Usable, AloneInv, MapInv
  <2>2. chat_members'[room[w]][Fd(w)] # NoVisitor
    BY <1>0, <1>3, <1>5, <2>1 DEF MemberAdded, EnterClub, Members, ClubTypeOK
  <2>3. Members(chat_room_map[d])' # {}
    BY <1>0, <1>1, <1>3, <2>1, <2>2 DEF Members
  <2>4. \A c \in Clubs : c # d /\ chat_room_map[c] \in Rooms =>
           Members(chat_room_map[c])' = Members(chat_room_map[c])
    BY <1>0, <1>1, <1>5, <2>1 DEF MemberAdded, EnterClub, Members, ClubTypeOK, AloneInv, MapInv
  <2>5. ASSUME gone = {}, NEW c \in Clubs, chat_room_map'[c] \in Rooms, Members(chat_room_map[c])' = {}
        PROVE  \E u \in Waiters : Minding(u, c)'
    <3>1. c # d
      BY <1>0, <2>3, <2>5
    <3>2. PICK u \in Waiters : Minding(u, c)
      BY <1>0, <1>1, <2>4, <2>5, <3>1 DEF ClearInv
    <3>3. u # w
      BY <1>0, <3>1, <3>2 DEF Minding
    <3> QED BY <1>0, <1>4, <3>2, <3>3
  <2> QED BY <1>0, <1>1, <2>5 DEF ClearInv
<1>6. CASE Spoken(w) /\ wpc'[w] = "close"
  <2>1. \A r \in Rooms : r # room[w] => chat_members'[r] = chat_members[r]
    BY <1>0, <1>6 DEF Spoken, LeaveClub, StaySeated, ClubTypeOK
  <2>2. \A c \in Clubs : chat_room_map[c] = room[w] /\ room[w] \in Rooms => d = c
    BY <1>0 DEF AloneInv, MapInv
  <2>3. ASSUME gone = {}, NEW c \in Clubs, chat_room_map'[c] \in Rooms, Members(chat_room_map[c])' = {}
        PROVE  \E u \in Waiters : Minding(u, c)'
    <3>1. CASE c = d
      BY <1>0, <1>1, <1>3, <1>6, <3>1 DEF Minding, Club, Leaving
    <3>2. CASE c # d
      <4>1. Members(chat_room_map[c])' = Members(chat_room_map[c])
        BY <1>0, <1>1, <2>1, <2>2, <2>3, <3>2 DEF Members
      <4>2. PICK u \in Waiters : Minding(u, c)
        BY <1>0, <1>1, <2>3, <4>1 DEF ClearInv
      <4> QED BY <1>0, <1>4, <1>6, <4>2 DEF Leaving
    <3> QED BY <3>1, <3>2
  <2> QED BY <1>0, <1>1, <2>3 DEF ClearInv
<1>7. ASSUME ~MemberAdded(w), ~(Spoken(w) /\ wpc'[w] = "close")
      PROVE  ClearInv'
  <2>1. UNCHANGED chat_members
    BY <1>0, <1>7 DEF InTheRoom, UseOfNothing, AddMember, WriteNext, ReceiveMsg, ReceiveEnd, Speak,
         Spoken, StaySeated, CloseFd, LockClub, WriteMember, clubVars, Here, Goes, WaiterTypeOK
  <2>2. wpc[w] \in Entering \cup Leaving => wpc'[w] \in Entering \cup Leaving
    BY <1>0, <1>7 DEF InTheRoom, UseOfNothing, AddMember, WriteNext, ReceiveMsg, ReceiveEnd, Speak,
         Spoken, CloseFd, Here, Goes, WaiterTypeOK, Entering, Leaving
  <2>3. \A u \in Waiters, c \in Clubs : Minding(u, c) => Minding(u, c)'
    BY <1>0, <1>4, <2>2 DEF Minding
  <2> QED BY <1>0, <1>1, <2>1, <2>3 DEF ClearInv, Members
<1> QED BY <1>0, <1>5, <1>6, <1>7

\* An empty room is not left in the map while nobody hangs up (TavernaSever.h, lines 32
\* to 39).
THEOREM EmptyRoomsAreCleared == Spec => []RoomsAreCleared
<1>1. Init => ClearInv
  <2> SUFFICES ASSUME Init PROVE ClearInv
    OBVIOUS
  <2>1. \A c \in Clubs : chat_room_map[c] = Absent
    BY DEF Init, ServerInit
  <2>2. Absent \notin Rooms
    BY ClubAssumption DEF Absent, Rooms
  <2> QED BY <2>1, <2>2 DEF ClearInv
<1>2. TypeInv /\ HallInv /\ AloneInv /\ ClearInv /\ [Next]_vars => ClearInv'
  <2> SUFFICES ASSUME TypeInv, HallInv, AloneInv, ClearInv, [Next]_vars
               PROVE  ClearInv'
    OBVIOUS
  <2>1. CASE Main \/ VisitorStep
    <3>1. UNCHANGED <<chat_members, chat_room_map, club_id, wpc, visitor>> /\ gone \subseteq gone'
      BY <2>1 DEF Main, VisitorStep, TypeLine, HangUp, StopReading, clubVars, mapVars, waiterVars, connVars
    <3> QED BY <3>1 DEF ClearInv, Minding, Club, Members
  <2>2. ASSUME NEW w \in Waiters, Waiter(w) PROVE ClearInv'
    BY <2>2, DoorClears, MapClears, RoomClears DEF Waiter
  <2>3. CASE UNCHANGED vars
    BY <2>3 DEF vars, serverVars, clubVars, connVars, mapVars, waiterVars, ClearInv, Minding, Club, Members
  <2> QED BY <2>1, <2>2, <2>3 DEF Next, ServerStep, VisitorStep
<1>3. ClearInv => RoomsAreCleared
  BY DEF ClearInv, RoomsAreCleared, Minding, Club, Entering, Leaving
<1> QED BY <1>1, <1>2, <1>3, TypesAreKept, VisitorsHavePlaces, RoomsAreFound, PTL DEF Spec
-----------------------------------------------------------------------------
(* What is said in a room is heard in it.                                   *)

\* Steps at which a waiter's visitor is a member of his room, and those at which the
\* visitor's connection is open.
Seated   == {"get", "recv", "speak", "talk"}
Visiting == {"prompt", "ask", "add", "greet", "close"} \cup Heading \cup Seated

\* As long as nobody hangs up, a descriptor stands for the visitor it was given to
\* until his waiter closes it.
Owns(v) == vfd[v] \in Fds /\ fd_owner[vfd[v]] = v
OwnInv  == gone = {} => /\ \A v \in InHall : Owns(v)
                        /\ \A w \in Waiters : wpc[w] \in Visiting => Owns(visitor[w])

\* A room is empty before it is made.  As long as nobody hangs up, each of its members
\* is served by a waiter in that room.
SeatInv == /\ \A r \in Rooms : r > made => Members(r) = {}
           /\ gone = {} =>
                \A c \in Clubs : chat_room_map[c] \in Rooms =>
                   \A fd \in Members(chat_room_map[c]) :
                      \E w \in Waiters : wpc[w] \in Seated /\ Club(w) = c /\ Fd(w) = fd

\* Who hears what is said in a room has asked for its number.
HeardInv == gone = {} =>
    \A v \in Visitors : \A m \in heard[v] : m.kind \in {"welcome", "text", "farewell"} =>
        club_id[v] \in Clubs /\ club_id[m.by] = club_id[v]

\* Nobody takes up a visitor, and no descriptor is closed or given out.
LEMMA OwnersStay ==
  ASSUME OwnInv, UNCHANGED <<vfd, fd_owner, visitor_queue_, mpc, arriving>>, gone \subseteq gone',
         \A u \in Waiters : wpc'[u] \in Visiting => wpc[u] \in Visiting /\ visitor'[u] = visitor[u]
  PROVE  OwnInv'
BY DEF OwnInv, Owns, InHall, Held

\* A caller gets a descriptor nobody has.
LEMMA MainOwns ==
  ASSUME TypeInv, HallInv, OwnInv, Main
  PROVE  OwnInv'
<1> USE DEF TypeInv, TypeOK, ServerTypeOK
<1>1. UNCHANGED <<gone, wpc, visitor>>
  BY DEF Main, waiterVars
<1>2. SUFFICES ASSUME gone = {}
               PROVE  /\ \A v \in InHall' : Owns(v)'
                      /\ \A w \in Waiters : wpc[w] \in Visiting => Owns(visitor[w])'
  BY <1>1 DEF OwnInv, Owns
<1>3. CASE Accept
  <2>0. PICK h : h = Head(calling)
    OBVIOUS
  <2>1. PICK fd \in Fds : /\ LowestFree(fd) /\ vfd' = [vfd EXCEPT ![h] = fd]
                          /\ fd_owner' = [fd_owner EXCEPT ![fd] = h]
    BY <1>3, <2>0 DEF Accept
  <2>2. h \in Range(calling) /\ h \in Visitors
    BY <1>3, <2>0, TailFacts, HallTypes DEF Accept, HallTypeOK
  <2>3. InHall' = InHall \cup {h}
    BY <1>3, <2>0 DEF Accept, MainGoes, queueVars, InHall, Held
  <2>4. Owns(h)'
    BY <2>1, <2>2 DEF Owns, ConnTypeOK, VisitorTypeOK
  <2>5. ASSUME NEW v \in Visitors, v # h, Owns(v) PROVE Owns(v)'
    BY <2>1, <2>5, ClubAssumption DEF Owns, LowestFree, ConnTypeOK, VisitorTypeOK
  <2>6. \A v \in InHall : v \in Visitors /\ v # h
    BY <2>2, HallTypes DEF HallInv, GuestInv
  <2>7. \A w \in Waiters : wpc[w] \in Visiting => visitor[w] \in Visitors /\ visitor[w] # h
    BY <2>2 DEF HallInv, GuestInv, Served, Visiting, Seated, Heading, Idle
  <2> QED BY <1>1, <1>2, <2>3, <2>4, <2>5, <2>6, <2>7 DEF OwnInv
<1>4. CASE AcceptFails
  BY <1>2, <1>4 DEF AcceptFails
<1>5. CASE Push \/ Post
  <2>1. UNCHANGED <<vfd, fd_owner>>
    BY <1>5 DEF Push, Post
  <2>2. InHall' = InHall
    <3>1. CASE Push
      <4>1. arriving \in Visitors /\ mpc = "push" /\ mpc' = "post"
        BY <3>1 DEF Push, MainGoes, Served
      <4>2. Range(visitor_queue_') = Range(visitor_queue_) \cup {arriving}
        BY <3>1, <4>1, AppendFacts DEF Push, Queued, HallInv, GuestInv, HallTypeOK
      <4> QED BY <4>1, <4>2 DEF InHall, Held
    <3>2. CASE Post
      BY <3>2 DEF Post, MainGoes, InHall, Held
    <3> QED BY <1>5, <3>1, <3>2
  <2> QED BY <1>1, <1>2, <2>1, <2>2 DEF OwnInv, Owns
<1> QED BY <1>3, <1>4, <1>5 DEF Main

\* A waiter closes the descriptor of his own visitor.
LEMMA WaiterOwns ==
  ASSUME TypeInv, HallInv, OwnInv, NEW w \in Waiters, Waiter(w)
  PROVE  OwnInv'
<1> USE DEF TypeInv, TypeOK, ServerTypeOK
<1>1. UNCHANGED <<vfd, mpc, arriving, gone>>
  BY DEF Waiter, AtTheDoor, SemWait, PopVisitor, Prompt, Ask, AskedForNothing, AskedForRoom, OnTheMap,
         FindRoom, EmplaceRoom, LookUp, CheckClub, CountMembers, EraseRoom, InTheRoom, UseOfNothing, AddMember,
         WriteNext, MemberAdded, ReceiveMsg, ReceiveEnd, Speak, Spoken, CloseFd, Silent, connVars, mainVars,
         Crash, WriteMember, WriteTo
<1>2. CASE PopVisitor(w)
  <2>1. UNCHANGED fd_owner
    BY <1>2 DEF PopVisitor, Silent, connVars
  <2>2. CASE visitor_queue_ = <<>>
    <3>1. UNCHANGED <<visitor_queue_, visitor>> /\ Goes(w, "pop", "wait")
      BY <1>2, <2>2 DEF PopVisitor
    <3> QED BY <1>1, <2>1, <3>1, OwnersStay DEF Goes, WaiterTypeOK, Visiting, Seated, Heading
  <2>3. CASE visitor_queue_ # <<>>
    <3>0. PICK h : h = Head(visitor_queue_)
      OBVIOUS
    <3>1. /\ visitor_queue_' = Tail(visitor_queue_) /\ Goes(w, "pop", "prompt")
          /\ visitor' = [visitor EXCEPT ![w] = h]
      BY <1>2, <2>3, <3>0 DEF PopVisitor
    <3>2. Range(visitor_queue_) = {h} \cup Range(visitor_queue_') /\ h \in Visitors
      BY <2>3, <3>0, <3>1, TailFacts DEF HallInv, GuestInv, HallTypeOK
    <3>3. InHall = InHall' \cup {h}
      BY <1>1, <3>2 DEF InHall, Held
    <3>4. \A u \in Waiters : visitor'[u] = IF u = w THEN h ELSE visitor[u]
      BY <3>1, <3>2 DEF WaiterTypeOK
    <3>5. \A u \in Waiters : u # w => wpc'[u] = wpc[u]
      BY <3>1 DEF Goes, WaiterTypeOK
    <3> QED BY <1>1, <2>1, <3>3, <3>4, <3>5 DEF OwnInv, Owns
  <2> QED BY <2>2, <2>3
<1>3. CASE CloseFd(w) /\ InTheRoom(w)
  <2>0. PICK v : v = visitor[w]
    OBVIOUS
  <2>1. /\ UNCHANGED <<visitor, visitor_queue_>> /\ wpc[w] = "close"
        /\ fd_owner' = [fd_owner EXCEPT ![vfd[v]] = NoVisitor]
        /\ \A u \in Waiters : wpc'[u] = IF u = w THEN "check" ELSE wpc[u]
    BY <1>3, <2>0 DEF CloseFd, InTheRoom, queueVars, Goes, ClosedFd, Fd, WaiterTypeOK
  <2>2. v \in Visitors /\ v \notin InHall /\ \A u \in Waiters : u # w => visitor[u] # v
    BY <2>0, <2>1, ClubAssumption DEF Served, Idle, HallInv, GuestInv
  <2>3. ASSUME NEW u, u # v, Owns(u), gone = {} PROVE Owns(u)'
    <3>1. fd_owner[vfd[v]] = v
      BY <2>0, <2>1, <2>3 DEF OwnInv, Owns, Visiting
    <3> QED BY <1>1, <2>1, <2>3, <3>1 DEF Owns, ConnTypeOK
  <2>4. InHall' = InHall
    BY <1>1, <2>1 DEF InHall, Held
  <2> QED BY <1>1, <2>1, <2>2, <2>3, <2>4 DEF OwnInv, Visiting, Seated, Heading
<1>4. CASE ~PopVisitor(w) /\ ~CloseFd(w)
  <2>1. UNCHANGED <<fd_owner, visitor_queue_>>
    BY <1>4 DEF Waiter, AtTheDoor, SemWait, Prompt, Ask, AskedForNothing, AskedForRoom, OnTheMap,
         FindRoom, EmplaceRoom, LookUp, CheckClub, CountMembers, EraseRoom, InTheRoom, UseOfNothing, AddMember,
         WriteNext, MemberAdded, ReceiveMsg, ReceiveEnd, Speak, Spoken, Silent, connVars, queueVars,
         Crash, WriteMember, WriteTo
  <2>2. CASE AtTheDoor(w)
    BY <1>1, <1>4, <2>1, <2>2, OwnersStay
       DEF AtTheDoor, SemWait, Prompt, Ask, AskedForNothing, AskedForRoom, Goes, Keep, Dismiss, WaiterTypeOK,
           Visiting, Seated, Heading
  <2>3. CASE OnTheMap(w)
    BY <1>1, <2>1, <2>3, OwnersStay
       DEF OnTheMap, FindRoom, EmplaceRoom, LookUp, CheckClub, CountMembers, EraseRoom, Goes, Keep, Dismiss,
           WaiterTypeOK, Visiting, Seated, Heading
  <2>4. CASE InTheRoom(w)
    BY <1>1, <1>4, <2>1, <2>4, OwnersStay
       DEF InTheRoom, UseOfNothing, AddMember, WriteNext, MemberAdded, ReceiveMsg, ReceiveEnd, Speak, Spoken,
           Here, Goes, WaiterTypeOK, Visiting, Seated, Heading
  <2> QED BY <2>2, <2>3, <2>4 DEF Waiter
<1>5. CloseFd(w) => InTheRoom(w)
  BY DEF Waiter, AtTheDoor, SemWait, PopVisitor, Prompt, Ask, OnTheMap, FindRoom, EmplaceRoom, LookUp, CheckClub,
         CountMembers, EraseRoom, CloseFd, Goes
<1> QED BY <1>2, <1>3, <1>4, <1>5

\* Each visitor's descriptor is his own while he is served.
LEMMA DescriptorsAreOwned == Spec => []OwnInv
<1>1. Init => OwnInv
  BY DEF Init, ServerInit, OwnInv, InHall, Held, Range, Visiting, Seated, Heading
<1>2. TypeInv /\ HallInv /\ OwnInv /\ [Next]_vars => OwnInv'
  <2> SUFFICES ASSUME TypeInv, HallInv, OwnInv, [Next]_vars
               PROVE  OwnInv'
    OBVIOUS
  <2>1. CASE VisitorStep
    <3>1. /\ UNCHANGED <<vfd, fd_owner, visitor_queue_, mpc, arriving, wpc, visitor>>
          /\ gone \subseteq gone'
      BY <2>1 DEF VisitorStep, TypeLine, HangUp, StopReading, connVars, queueVars, mainVars, waiterVars
    <3> QED BY <3>1, OwnersStay
  <2>2. CASE UNCHANGED vars
    BY <2>2, OwnersStay DEF vars, serverVars, connVars, queueVars, mainVars, waiterVars
  <2> QED BY <2>1, <2>2, MainOwns, WaiterOwns DEF Next, ServerStep, VisitorStep
<1> QED BY <1>1, <1>2, TypesAreKept, VisitorsHavePlaces, PTL DEF Spec

\* Whoever is served in a room stays so, and neither rooms nor map change but for rooms
\* that are made.
LEMMA SeatsStay ==
  ASSUME TypeInv, SeatInv, UNCHANGED chat_members, gone \subseteq gone', made' >= made, made' \in Nat,
         \A c \in Clubs : chat_room_map'[c] \in Rooms =>
            chat_room_map'[c] = chat_room_map[c] \/ chat_room_map'[c] > made,
         \A u \in Waiters : gone' = {} /\ wpc[u] \in Seated =>
            wpc'[u] \in Seated /\ Club(u)' = Club(u) /\ Fd(u)' = Fd(u)
  PROVE  SeatInv'
<1>1. \A r : Members(r)' = Members(r)
  BY DEF Members
<1>2. made \in Nat /\ Rooms \subseteq Nat
  BY ClubAssumption DEF TypeInv, TypeOK, ServerTypeOK, HallTypeOK, Rooms
<1>3. ASSUME NEW r \in Rooms, r > made' PROVE Members(r)' = {}
  <2>1. r > made
    BY <1>2, <1>3
  <2> QED BY <1>1, <2>1 DEF SeatInv
<1>4. ASSUME gone' = {}, NEW c \in Clubs, chat_room_map'[c] \in Rooms,
             NEW fd \in Members(chat_room_map[c])'
      PROVE  \E u \in Waiters : wpc'[u] \in Seated /\ Club(u)' = c /\ Fd(u)' = fd
  <2>1. fd \in Members(chat_room_map'[c])
    BY <1>1, <1>4 DEF Members
  <2>2. chat_room_map'[c] = chat_room_map[c]
    BY <1>4, <2>1 DEF SeatInv
  <2>3. PICK u \in Waiters : wpc[u] \in Seated /\ Club(u) = c /\ Fd(u) = fd
    BY <1>4, <2>1, <2>2 DEF SeatInv
  <2> QED BY <1>4, <2>3
<1> QED BY <1>3, <1>4 DEF SeatInv

\* Main and the visitors do not concern who is served.
LEMMA OutsideSeats ==
  ASSUME TypeInv, HallInv, SeatInv, Main \/ VisitorStep
  PROVE  SeatInv'
<1>1. /\ UNCHANGED <<chat_members, chat_room_map, made, club_id, wpc, visitor>>
      /\ gone \subseteq gone'
  BY DEF Main, VisitorStep, TypeLine, HangUp, StopReading, clubVars, mapVars, waiterVars, connVars
<1>2. ASSUME NEW w \in Waiters, wpc[w] \in Seated
      PROVE  vfd'[visitor[w]] = vfd[visitor[w]]
  <2>1. visitor[w] \in Visitors /\ visitor[w] \notin Range(calling)
    BY <1>2 DEF TypeInv, Served, HallInv, GuestInv, Idle, Seated
  <2>2. CASE Accept
    <3>1. PICK fd : vfd' = [vfd EXCEPT ![Head(calling)] = fd]
      BY <2>2 DEF Accept
    <3>2. Head(calling) \in Range(calling)
      BY <2>2, TailFacts DEF Accept, TypeInv, TypeOK, ServerTypeOK, HallTypeOK
    <3> QED BY <2>1, <3>1, <3>2 DEF TypeInv, TypeOK, ServerTypeOK, VisitorTypeOK
  <2>3. CASE ~Accept
    BY <2>3 DEF Main, AcceptFails, Push, Post, VisitorStep, TypeLine, HangUp, StopReading, mainVars
  <2> QED BY <2>2, <2>3
<1>3. made \in Nat
  BY ClubAssumption DEF TypeInv, TypeOK, ServerTypeOK, HallTypeOK
<1> QED BY <1>1, <1>2, <1>3, SeatsStay DEF Club, Fd

\* Nor do the waiters at the door.
LEMMA DoorSeats ==
  ASSUME TypeInv, HallInv, SeatInv, NEW w \in Waiters, AtTheDoor(w)
  PROVE  SeatInv'
<1> USE DEF TypeInv, TypeOK, ServerTypeOK
<1>1. UNCHANGED <<chat_members, chat_room_map, made, vfd, gone>>
  BY DEF AtTheDoor, SemWait, PopVisitor, Prompt, Ask, AskedForNothing, AskedForRoom, Silent,
         connVars, WriteTo, Crash, clubVars, mapVars, mainVars
<1>2. /\ wpc[w] \in {"wait", "pop", "prompt", "ask"}
      /\ \A u \in Waiters : u # w => /\ wpc'[u] = wpc[u] /\ visitor'[u] = visitor[u]
  BY DEF AtTheDoor, SemWait, PopVisitor, Prompt, Ask, AskedForNothing, AskedForRoom, Goes, Keep, Dismiss,
         WaiterTypeOK
<1>3. \/ UNCHANGED club_id
      \/ wpc[w] = "ask" /\ \E c : club_id' = [club_id EXCEPT ![visitor[w]] = c]
  BY DEF AtTheDoor, SemWait, PopVisitor, Prompt, Ask, AskedForNothing, AskedForRoom
<1>4. ASSUME NEW u \in Waiters, wpc[u] \in Seated
      PROVE  wpc'[u] \in Seated /\ Club(u)' = Club(u) /\ Fd(u)' = Fd(u)
  <2>1. u # w /\ visitor[u] \in Visitors /\ visitor'[u] = visitor[u] /\ wpc'[u] = wpc[u]
    BY <1>2, <1>4 DEF Seated, Served, Idle
  <2>2. visitor[u] # visitor[w]
    BY <2>1, ClubAssumption DEF HallInv, GuestInv
  <2>3. club_id'[visitor[u]] = club_id[visitor[u]]
    BY <1>3, <2>1, <2>2 DEF VisitorTypeOK
  <2> QED BY <1>1, <1>4, <2>1, <2>3 DEF Club, Fd
<1>5. made \in Nat
  BY ClubAssumption DEF HallTypeOK
<1> QED BY <1>1, <1>4, <1>5, SeatsStay

\* On the map a waiter makes at most a room that nobody is in.
LEMMA MapSeats ==
  ASSUME TypeInv, SeatInv, NEW w \in Waiters, OnTheMap(w)
  PROVE  SeatInv'
<1> USE DEF TypeInv, TypeOK, ServerTypeOK
<1>1. UNCHANGED <<chat_members, club_id, vfd, gone>>
  BY DEF OnTheMap, FindRoom, EmplaceRoom, LookUp, CheckClub, CountMembers, EraseRoom, Silent,
         connVars, Crash, clubVars, mainVars
<1>2. ASSUME NEW u \in Waiters, wpc[u] \in Seated
      PROVE  wpc'[u] \in Seated /\ visitor'[u] = visitor[u]
  BY <1>2 DEF OnTheMap, FindRoom, EmplaceRoom, LookUp, CheckClub, CountMembers, EraseRoom, Goes, Keep, Dismiss,
         WaiterTypeOK, Seated
<1>3. made \in Nat /\ made' \in Nat /\ made' >= made
  BY ClubAssumption DEF OnTheMap, FindRoom, EmplaceRoom, LookUp, CheckClub, CountMembers, EraseRoom,
         mapVars, HallTypeOK
<1>4. ASSUME NEW c \in Clubs, chat_room_map'[c] \in Rooms
      PROVE  chat_room_map'[c] = chat_room_map[c] \/ chat_room_map'[c] > made
  <2>1. Null \notin Rooms /\ Absent \notin Rooms
    BY ClubAssumption DEF Null, Absent, Rooms
  <2>2. CASE EmplaceRoom(w)
    BY <1>3, <2>2 DEF EmplaceRoom, Emplaced, mapVars, HallTypeOK
  <2>3. CASE LookUp(w)
    BY <1>4, <2>1, <2>3 DEF LookUp, HallTypeOK
  <2>4. CASE EraseRoom(w)
    BY <1>4, <2>1, <2>4 DEF EraseRoom, Erased, HallTypeOK
  <2>5. CASE FindRoom(w) \/ CheckClub(w) \/ CountMembers(w)
    BY <2>5 DEF FindRoom, CheckClub, CountMembers, mapVars
  <2> QED BY <2>2, <2>3, <2>4, <2>5 DEF OnTheMap
<1> QED BY <1>1, <1>2, <1>3, <1>4, SeatsStay DEF Club, Fd

\* In a room: who enters is served there, and who leaves strikes out himself.
LEMMA RoomSeats ==
  ASSUME TypeInv, HallInv, AloneInv, SeatInv, NEW w \in Waiters, InTheRoom(w)
  PROVE  SeatInv'
<1> USE DEF TypeInv, TypeOK, ServerTypeOK
<1>1. UNCHANGED <<chat_room_map, made, club_id, vfd, visitor, room, gone>>
  BY DEF InTheRoom, UseOfNothing, AddMember, WriteNext, MemberAdded, ReceiveMsg, ReceiveEnd, Speak,
         Spoken, CloseFd, Silent, connVars, Crash, WriteMember, WriteTo, mapVars, mainVars
<1>2. wpc[w] \in Inside /\ \A u \in Waiters : u # w => wpc'[u] = wpc[u]
  BY DEF InTheRoom, UseOfNothing, AddMember, WriteNext, MemberAdded, ReceiveMsg, ReceiveEnd,
         Speak, Spoken, CloseFd, Here, Goes, WaiterTypeOK, Inside
<1>3. visitor[w] \in Visitors /\ Club(w) \in Clubs /\ Fd(w) \in Fds
  BY <1>2 DEF Served, Inside, Idle, HallInv, DoorInv, Fd
<1>4. \A u \in Waiters : Club(u)' = Club(u) /\ Fd(u)' = Fd(u)
  BY <1>1 DEF Club, Fd
<1>5. made \in Nat
  BY ClubAssumption DEF HallTypeOK
<1>6. CASE MemberAdded(w) \/ (Spoken(w) /\ wpc'[w] = "close")
  <2>1. Usable(room[w]) /\ room[w] \in Rooms /\ room[w] = chat_room_map[Club(w)] /\ room[w] <= made
    <3>1. Usable(room[w])
      BY <1>6 DEF MemberAdded, Spoken, Here
    <3> QED BY <1>3, <3>1 DEF Usable, AloneInv, MapInv
  <2>2. PICK d \in Clubs : d = Club(w)
    BY <1>3
  <2>3. \A r \in Rooms : r # room[w] => Members(r)' = Members(r)
    BY <1>6 DEF MemberAdded, Spoken, EnterClub, LeaveClub, StaySeated, ClubTypeOK, Members
  <2>4. \A r \in Rooms : r > made' => Members(r)' = {}
    BY <1>1, <1>5, <2>1, <2>3, ClubAssumption DEF SeatInv, Rooms
  <2>5. ASSUME NEW fd \in Members(room[w])'
        PROVE  \/ fd \in Members(room[w]) /\ (Spoken(w) => fd # Fd(w))
               \/ MemberAdded(w) /\ fd = Fd(w)
    <3>1. CASE MemberAdded(w)
      BY <1>1, <2>1, <2>5, <3>1 DEF MemberAdded, EnterClub, ClubTypeOK, Members, Spoken, Here, Goes
    <3>2. CASE Spoken(w) /\ wpc'[w] = "close"
      <4>1. chat_members' = [chat_members EXCEPT ![room[w]][Fd(w)] = NoVisitor]
        BY <1>2, <3>2 DEF Spoken, Here, Goes, WaiterTypeOK, LeaveClub
      <4> QED BY <1>1, <1>3, <2>1, <2>5, <3>2, <4>1 DEF ClubTypeOK, Members
    <3> QED BY <1>6, <3>1, <3>2
  <2>6. ASSUME gone' = {}, NEW c \in Clubs, chat_room_map'[c] \in Rooms,
               NEW fd \in Members(chat_room_map[c])'
        PROVE  \E u \in Waiters : wpc'[u] \in Seated /\ Club(u)' = c /\ Fd(u)' = fd
    <3>1. CASE c # d
      <4>1. fd \in Members(chat_room_map[c])
        BY <1>1, <2>1, <2>2, <2>3, <2>6, <3>1 DEF AloneInv, MapInv
      <4>2. PICK u \in Waiters : wpc[u] \in Seated /\ Club(u) = c /\ Fd(u) = fd
        BY <1>1, <2>6, <4>1 DEF SeatInv
      <4> QED BY <1>2, <1>4, <2>2, <3>1, <4>2
    <3>2. CASE c = d /\ MemberAdded(w) /\ fd = Fd(w)
      <4>1. wpc'[w] = "get"
        BY <3>2 DEF MemberAdded, Here, Goes, WaiterTypeOK
      <4> QED BY <1>4, <2>2, <3>2, <4>1 DEF Seated
    <3>3. CASE c = d /\ fd \in Members(room[w]) /\ (Spoken(w) => fd # Fd(w))
      <4>1. PICK u \in Waiters : wpc[u] \in Seated /\ Club(u) = c /\ Fd(u) = fd
        BY <1>1, <2>1, <2>2, <2>6, <3>3 DEF SeatInv
      <4>2. u # w
        BY <1>6, <3>3, <4>1 DEF MemberAdded, Here, Goes, Seated
      <4> QED BY <1>2, <1>4, <4>1, <4>2
    <3>4. c = d => fd \in Members(room[w])'
      BY <1>1, <2>1, <2>2, <2>6
    <3> QED BY <2>5, <3>1, <3>2, <3>3, <3>4
  <2> QED BY <2>4, <2>6 DEF SeatInv
<1>7. ASSUME ~MemberAdded(w), ~(Spoken(w) /\ wpc'[w] = "close")
      PROVE  SeatInv'
  <2>1. UNCHANGED chat_members
    BY <1>7 DEF InTheRoom, UseOfNothing, AddMember, WriteNext, ReceiveMsg, ReceiveEnd, Speak,
         Spoken, StaySeated, CloseFd, LockClub, WriteMember, clubVars, Here, Goes, WaiterTypeOK
  <2>2. gone' = {} /\ wpc[w] \in Seated => wpc'[w] \in Seated
    BY <1>1, <1>7 DEF InTheRoom, UseOfNothing, AddMember, WriteNext, ReceiveMsg, ReceiveEnd, Speak,
         Spoken, CloseFd, Here, Goes, WaiterTypeOK, Seated
  <2> QED BY <1>1, <1>2, <1>4, <1>5, <2>1, <2>2, SeatsStay
<1> QED BY <1>6, <1>7

\* Each member of a room in the map is served in it.
LEMMA MembersAreServed == Spec => []SeatInv
<1>1. Init => SeatInv
  <2> SUFFICES ASSUME Init PROVE SeatInv
    OBVIOUS
  <2>1. \A r \in Rooms : Members(r) = {}
    BY DEF Init, ServerInit, ClubInit, Members
  <2> QED BY <2>1 DEF SeatInv
<1>2. TypeInv /\ HallInv /\ AloneInv /\ SeatInv /\ [Next]_vars => SeatInv'
  <2> SUFFICES ASSUME TypeInv, HallInv, AloneInv, SeatInv, [Next]_vars
               PROVE  SeatInv'
    OBVIOUS
  <2>1. CASE Main \/ VisitorStep
    BY <2>1, OutsideSeats
  <2>2. ASSUME NEW w \in Waiters, Waiter(w) PROVE SeatInv'
    BY <2>2, DoorSeats, MapSeats, RoomSeats DEF Waiter
  <2>3. CASE UNCHANGED vars
    BY <2>3 DEF vars, serverVars, clubVars, connVars, mapVars, mainVars, waiterVars, SeatInv, Club, Fd, Members
  <2> QED BY <2>1, <2>2, <2>3 DEF Next, ServerStep, VisitorStep
<1> QED BY <1>1, <1>2, TypesAreKept, VisitorsHavePlaces, RoomsAreFound, PTL DEF Spec

\* A waiter in a loop writes to a member of his visitor's room.
LEMMA RoomHeard ==
  ASSUME TypeInv, HallInv, LoopInv, AloneInv, OwnInv, SeatInv, HeardInv, NEW w \in Waiters, WriteNext(w),
         gone = {}, NEW v \in Visitors, NEW m \in heard'[v], m \notin heard[v]
  PROVE  club_id[v] \in Clubs /\ club_id[m.by] = club_id[v]
<1> USE DEF TypeInv, TypeOK, ServerTypeOK
<1>1. /\ wpc[w] \in {"greet", "talk"} /\ Usable(room[w]) /\ unwritten[w] # <<>>
      /\ WriteTo(Head(unwritten[w]), Msg(w, saying[w]))
  BY DEF WriteNext, Here, Goes, WriteMember
<1>2. PICK fd : fd = Head(unwritten[w])
  OBVIOUS
<1>3. fd \in Members(room[w])
  <2>1. unwritten[w] \in Seq(Fds)
    BY DEF ClubTypeOK
  <2>2. fd \in ToSet(unwritten[w])
    BY <1>1, <1>2, <2>1 DEF ToSet
  <2> QED BY <1>1, <2>2 DEF LoopInv
<1>4. PICK c \in Clubs : chat_room_map[c] = room[w] /\ Club(w) = c
  BY <1>1 DEF Usable, AloneInv, MapInv
<1>5. PICK u \in Waiters : wpc[u] \in Seated /\ Club(u) = c /\ Fd(u) = fd
  BY <1>1, <1>3, <1>4 DEF SeatInv, Usable
<1>6. fd_owner[fd] = visitor[u]
  BY <1>5 DEF OwnInv, Owns, Visiting, Fd
<1>7. \A a \in Visitors : a # fd_owner[fd] => heard'[a] = heard[a]
  BY <1>1, <1>2 DEF WriteTo, BadDescriptor, Heard, Unheard, BrokenPipe, ConnTypeOK
<1>8. v = visitor[u]
  BY <1>6, <1>7
<1>9. m = Msg(w, saying[w])
  <2>1. heard'[v] \subseteq heard[v] \cup {Msg(w, saying[w])}
    BY <1>1 DEF WriteTo, BadDescriptor, Heard, Unheard, BrokenPipe, ConnTypeOK
  <2> QED BY <2>1
<1> QED BY <1>4, <1>5, <1>8, <1>9 DEF Msg, Club

\* What is written at the door is not said in a room, and who gets his number there
\* has not been in one.
LEMMA DoorHeard ==
  ASSUME TypeInv, HallInv, HeardInv, NEW w \in Waiters, AtTheDoor(w), gone = {},
         NEW v \in Visitors, NEW m \in heard'[v], m.kind \in {"welcome", "text", "farewell"}
  PROVE  club_id'[v] \in Clubs /\ club_id'[m.by] = club_id'[v]
<1> USE DEF TypeInv, TypeOK, ServerTypeOK
<1>1. m \in heard[v]
  <2>1. CASE heard' = heard
    BY <2>1
  <2>2. ASSUME NEW kind \in {"prompt", "thanks", "error"}, WriteTo(Fd(w), Msg(w, kind))
        PROVE  m \in heard[v]
    <3>1. heard'[v] \subseteq heard[v] \cup {Msg(w, kind)}
      BY <2>2 DEF WriteTo, BadDescriptor, Heard, Unheard, BrokenPipe, ConnTypeOK
    <3>2. Msg(w, kind).kind = kind
      BY DEF Msg
    <3> QED BY <3>1, <3>2
  <2> QED BY <2>1, <2>2 DEF AtTheDoor, SemWait, PopVisitor, Prompt, Ask, AskedForNothing, AskedForRoom, Silent,
                connVars, Crash
<1>2. club_id[v] \in Clubs /\ club_id[m.by] = club_id[v] /\ m.by \in Visitors
  BY <1>1 DEF HeardInv, ConnTypeOK, Message
<1>3. \/ UNCHANGED club_id
      \/ wpc[w] = "ask" /\ \E c : club_id' = [club_id EXCEPT ![visitor[w]] = c]
  BY DEF AtTheDoor, SemWait, PopVisitor, Prompt, Ask, AskedForNothing, AskedForRoom
<1>4. CASE wpc[w] = "ask"
  <2>1. club_id[visitor[w]] = 0
    BY <1>4 DEF HallInv, DoorInv
  <2>2. v # visitor[w] /\ m.by # visitor[w]
    BY <1>2, <2>1, ClubsAssumption
  <2> QED BY <1>2, <1>3, <2>2 DEF VisitorTypeOK
<1> QED BY <1>2, <1>3, <1>4

\* What is said in a room is heard by those who have asked for it only, while nobody
\* hangs up: no member is left on the list when his descriptor is given to somebody
\* else (TavernaClub.h, lines 57 to 66 and TavernaSever.h, lines 53 to 66).
THEOREM RoomsKeepToThemselves == Spec => []HeardInTheRoom
<1>1. Init => HeardInv
  BY DEF Init, ServerInit, ClubInit, HeardInv
<1>2. /\ TypeInv /\ HallInv /\ LoopInv /\ AloneInv /\ OwnInv /\ SeatInv /\ HeardInv
      /\ [Next]_vars
      => HeardInv'
  <2> SUFFICES ASSUME TypeInv, HallInv, LoopInv, AloneInv, OwnInv, SeatInv, HeardInv, [Next]_vars,
                      gone' = {}, NEW v \in Visitors, NEW m \in heard'[v],
                      m.kind \in {"welcome", "text", "farewell"}
               PROVE  club_id'[v] \in Clubs /\ club_id'[m.by] = club_id'[v]
    BY DEF HeardInv
  <2>1. CASE UNCHANGED <<heard, club_id>> /\ gone = {}
    BY <2>1 DEF HeardInv
  <2>2. gone = {}
    <3>1. CASE Main \/ VisitorStep \/ UNCHANGED vars
      BY <3>1 DEF Main, VisitorStep, TypeLine, HangUp, StopReading, connVars, vars, serverVars
    <3>2. ASSUME NEW w \in Waiters, Waiter(w) PROVE gone' = gone
      BY <3>2 DEF Waiter, AtTheDoor, SemWait, PopVisitor, Prompt, Ask, AskedForNothing, AskedForRoom, OnTheMap,
         FindRoom, EmplaceRoom, LookUp, CheckClub, CountMembers, EraseRoom, InTheRoom, UseOfNothing, AddMember,
         WriteNext, MemberAdded, ReceiveMsg, ReceiveEnd, Speak, Spoken, CloseFd, Silent, connVars, Crash,
         WriteMember, WriteTo
    <3> QED BY <3>1, <3>2 DEF Next, ServerStep, VisitorStep
  <2>3. CASE Main \/ VisitorStep
    <3>1. UNCHANGED <<heard, club_id>>
      BY <2>3 DEF Main, VisitorStep, TypeLine, HangUp, StopReading, connVars
    <3> QED BY <2>1, <2>2, <3>1
  <2>4. ASSUME NEW w \in Waiters, AtTheDoor(w)
        PROVE  club_id'[v] \in Clubs /\ club_id'[m.by] = club_id'[v]
    BY <2>2, <2>4, DoorHeard
  <2>5. ASSUME NEW w \in Waiters, OnTheMap(w)
        PROVE  club_id'[v] \in Clubs /\ club_id'[m.by] = club_id'[v]
    <3>1. UNCHANGED <<heard, club_id>>
      BY <2>5 DEF OnTheMap, FindRoom, EmplaceRoom, LookUp, CheckClub, CountMembers, EraseRoom, Silent,
                  connVars, Crash
    <3> QED BY <2>1, <2>2, <3>1
  <2>6. ASSUME NEW w \in Waiters, InTheRoom(w)
        PROVE  club_id'[v] \in Clubs /\ club_id'[m.by] = club_id'[v]
    <3>1. UNCHANGED club_id
      BY <2>6 DEF InTheRoom
    <3>2. CASE WriteNext(w)
      BY <2>2, <3>1, <3>2, RoomHeard DEF HeardInv
    <3>3. CASE ~WriteNext(w)
      <4>1. UNCHANGED heard
        BY <2>6, <3>3 DEF InTheRoom, UseOfNothing, AddMember, MemberAdded, ReceiveMsg, ReceiveEnd, Speak,
                Spoken, CloseFd, Silent, connVars, Crash
      <4> QED BY <2>1, <2>2, <3>1, <4>1
    <3> QED BY <3>2, <3>3
  <2>7. CASE UNCHANGED vars
    BY <2>1, <2>2, <2>7 DEF vars, serverVars, connVars
  <2> QED BY <2>3, <2>4, <2>5, <2>6, <2>7 DEF Next, ServerStep, Waiter, VisitorStep
<1>3. Init => LoopInv
  BY DEF Init, ServerInit, LoopInv
<1>4. TypeInv /\ LoopInv /\ [Next]_vars => LoopInv'
  BY NextLoops
<1>5. HeardInv => HeardInTheRoom
  BY DEF HeardInv, HeardInTheRoom
<1> QED BY <1>1, <1>2, <1>3, <1>4, <1>5, TypesAreKept, VisitorsHavePlaces, RoomsAreFound, DescriptorsAreOwned,
           MembersAreServed, PTL DEF Spec

-----------------------------------------------------------------------------
(* The hand-over of the visitors.                                           *)

\* Who has been queued stays counted; he is dismissed once, by the waiter who has
\* him; and an idle waiter has nobody.
OnceInv ==
    /\ dismissed \subseteq accepted
    /\ Range(visitor_queue_) \subseteq accepted \ dismissed
    /\ (Range(calling) \cup Held) \cap accepted = {}
    /\ \A w \in Waiters : /\ visitor[w] \in Visitors => visitor[w] \in accepted \ dismissed
                          /\ wpc[w] \in Idle => visitor[w] = NoVisitor

\* A step that hands nobody over.
LEMMA NobodyMoves ==
  ASSUME OnceInv,
         UNCHANGED <<visitor_queue_, visitor, accepted, dismissed>>,
         Range(calling') \cup Held' \subseteq Range(calling) \cup Held,
         \A w \in Waiters : wpc'[w] \in Idle => wpc[w] \in Idle
  PROVE  OnceInv' /\ UNCHANGED WQ!vars
<1>1. OnceInv'
  BY DEF OnceInv
<1>2. UNCHANGED WQ!vars
  BY DEF WQ!vars, Running
<1> QED BY <1>1, <1>2

\* Main takes a visitor in, and hands him over with push_back.
LEMMA MainOnce ==
  ASSUME TypeInv, HallInv, OnceInv, Main
  PROVE  OnceInv' /\ [WQ!Next]_(WQ!vars)
<1> USE DEF TypeInv, TypeOK, ServerTypeOK
<1>1. UNCHANGED <<visitor, wpc, dismissed>>
  BY DEF Main, waiterVars
<1>2. CASE Accept \/ AcceptFails
  <2>1. /\ mpc = "accept" /\ mpc' = "push" /\ calling # <<>> /\ calling' = Tail(calling)
        /\ arriving' = Head(calling) /\ UNCHANGED <<visitor_queue_, accepted>>
    BY <1>2 DEF Accept, AcceptFails, MainGoes, queueVars
  <2>2. Range(calling) = {Head(calling)} \cup Range(calling')
    BY <2>1, TailFacts DEF HallTypeOK
  <2>3. Range(calling') \cup Held' \subseteq Range(calling) \cup Held
    BY <2>1, <2>2 DEF Held
  <2> QED BY <1>1, <2>1, <2>3, NobodyMoves
<1>3. CASE Push
  <2>1. /\ mpc = "push" /\ mpc' = "post" /\ arriving \in Visitors
        /\ visitor_queue_' = Append(visitor_queue_, arriving)
        /\ accepted' = accepted \cup {arriving} /\ UNCHANGED calling
    BY <1>3 DEF Push, Queued, MainGoes, Served
  <2>2. arriving \in Held /\ Held' = {} /\ arriving \notin Range(calling)
    BY <2>1 DEF Held, HallInv, GuestInv, InHall
  <2>3. arriving \notin accepted
    BY <2>2 DEF OnceInv
  <2>4. Range(visitor_queue_') = Range(visitor_queue_) \cup {arriving}
    BY <2>1, AppendFacts DEF HallTypeOK
  <2>5. OnceInv'
    BY <1>1, <2>1, <2>2, <2>3, <2>4 DEF OnceInv
  <2>6. WQ!Submit(arriving)
    BY <1>1, <2>1, <2>3 DEF WQ!Submit, Running
  <2> QED BY <2>1, <2>5, <2>6 DEF WQ!Next
<1>4. CASE Post
  <2>1. mpc' = "accept" /\ UNCHANGED <<visitor_queue_, accepted, calling>>
    BY <1>4 DEF Post, MainGoes
  <2> QED BY <1>1, <2>1, NobodyMoves DEF Held
<1> QED BY <1>2, <1>3, <1>4 DEF Main

\* A waiter who goes back to the top of his loop has finished with his visitor.
LEMMA DismissOnce ==
  ASSUME TypeInv, HallInv, OnceInv, NEW w \in Waiters, visitor[w] \in Visitors, NEW now,
         Goes(w, now, "wait"), Dismiss(w),
         UNCHANGED <<calling, mpc, arriving, visitor_queue_, accepted>>
  PROVE  OnceInv' /\ WQ!Next
<1>1. /\ \A u \in Waiters : /\ visitor'[u] = IF u = w THEN NoVisitor ELSE visitor[u]
                            /\ u # w => wpc'[u] = wpc[u]
      /\ dismissed' = dismissed \cup {visitor[w]}
  BY DEF Goes, Dismiss, WaiterTypeOK, TypeInv, TypeOK, ServerTypeOK
<1>2. NoVisitor \notin Visitors
  BY ClubAssumption
<1>3. visitor[w] \notin Range(visitor_queue_) /\ \A u \in Waiters : u # w => visitor[u] # visitor[w]
  BY <1>2 DEF HallInv, GuestInv, InHall
<1>4. OnceInv'
  <2>1. Held' = Held
    BY DEF Held
  <2>2. /\ dismissed' \subseteq accepted'
        /\ Range(visitor_queue_') \subseteq accepted' \ dismissed'
        /\ (Range(calling') \cup Held') \cap accepted' = {}
    BY <1>1, <1>3, <2>1 DEF OnceInv
  <2>3. ASSUME NEW u \in Waiters
        PROVE  /\ visitor'[u] \in Visitors => visitor'[u] \in accepted' \ dismissed'
               /\ wpc'[u] \in Idle => visitor'[u] = NoVisitor
    <3>1. CASE u = w
      BY <1>1, <1>2, <3>1
    <3>2. CASE u # w
      <4>1. visitor'[u] = visitor[u] /\ wpc'[u] = wpc[u] /\ visitor[u] # visitor[w]
        BY <1>1, <1>3, <3>2
      <4> QED BY <1>1, <4>1 DEF OnceInv
    <3> QED BY <3>1, <3>2
  <2> QED BY <2>2, <2>3 DEF OnceInv
<1>5. visitor[w] # NoVisitor /\ visitor[w] \notin dismissed
  BY <1>2 DEF OnceInv
<1>6. Running[w] = visitor[w] /\ Running' = [Running EXCEPT ![w] = NoVisitor]
  BY <1>1 DEF Running
<1>7. dismissed' = dismissed \cup {Running[w]} /\ Running[w] # NoVisitor /\ Running[w] \notin dismissed
  BY <1>1, <1>5, <1>6
<1>8. WQ!Finish(w)
  BY <1>6, <1>7 DEF WQ!Finish
<1> QED BY <1>4, <1>8 DEF WQ!Next

\* A waiter at the door takes the first of the queue, or sends his visitor away.
LEMMA DoorOnce ==
  ASSUME TypeInv, HallInv, OnceInv, NEW w \in Waiters, AtTheDoor(w)
  PROVE  OnceInv' /\ [WQ!Next]_(WQ!vars)
<1> USE DEF TypeInv, TypeOK, ServerTypeOK
<1>1. UNCHANGED <<calling, mpc, arriving, accepted>>
  BY DEF AtTheDoor, mainVars
<1>2. Range(calling') \cup Held' \subseteq Range(calling) \cup Held
  BY <1>1 DEF Held
<1>3. CASE SemWait(w) \/ (PopVisitor(w) /\ visitor_queue_ = <<>>) \/ Prompt(w) \/ (Ask(w) /\ AskedForRoom(w))
  <2>1. UNCHANGED <<visitor_queue_, visitor, dismissed>>
    BY <1>3 DEF SemWait, PopVisitor, Prompt, Ask, AskedForRoom, Keep
  <2>2. \A u \in Waiters : wpc'[u] \in Idle => wpc[u] \in Idle
    BY <1>3 DEF SemWait, PopVisitor, Prompt, Ask, AskedForRoom, Goes, WaiterTypeOK, Idle
  <2> QED BY <1>1, <1>2, <2>1, <2>2, NobodyMoves
<1>4. CASE PopVisitor(w) /\ visitor_queue_ # <<>>
  <2>1. /\ wpc[w] = "pop" /\ wpc' = [wpc EXCEPT ![w] = "prompt"]
        /\ visitor' = [visitor EXCEPT ![w] = Head(visitor_queue_)]
        /\ visitor_queue_' = Tail(visitor_queue_) /\ UNCHANGED dismissed
    BY <1>4 DEF PopVisitor, Goes
  <2>2. PICK h : h = Head(visitor_queue_)
    OBVIOUS
  <2>3. Range(visitor_queue_) = {h} \cup Range(visitor_queue_')
    BY <1>4, <2>1, <2>2, TailFacts DEF HallTypeOK
  <2>4. visitor[w] = NoVisitor
    BY <2>1 DEF OnceInv, Idle
  <2>5. \A u \in Waiters : /\ visitor'[u] = IF u = w THEN h ELSE visitor[u]
                           /\ wpc'[u] = IF u = w THEN "prompt" ELSE wpc[u]
    BY <2>1, <2>2 DEF WaiterTypeOK
  <2>6. Held' = Held /\ "prompt" \notin Idle
    BY <1>1 DEF Held, Idle
  <2>7. OnceInv'
    BY <1>1, <2>1, <2>3, <2>5, <2>6 DEF OnceInv
  <2>8. Running[w] = NoVisitor /\ Running' = [Running EXCEPT ![w] = h]
    BY <2>4, <2>5 DEF Running
  <2>9. WQ!Take(w)
    BY <1>1, <1>4, <2>1, <2>2, <2>8 DEF WQ!Take
  <2> QED BY <2>7, <2>9 DEF WQ!Next
<1>5. CASE Ask(w) /\ AskedForNothing(w)
  <2>1. Goes(w, "ask", "wait") /\ Dismiss(w) /\ UNCHANGED visitor_queue_
    BY <1>5 DEF Ask, AskedForNothing
  <2>2. visitor[w] \in Visitors
    BY <2>1 DEF Goes, Served, Idle
  <2> QED BY <1>1, <2>1, <2>2, DismissOnce
<1> QED BY <1>3, <1>4, <1>5 DEF AtTheDoor, Ask

\* On the map he keeps his visitor, or has cleared up after him.
LEMMA MapOnce ==
  ASSUME TypeInv, HallInv, OnceInv, NEW w \in Waiters, OnTheMap(w)
  PROVE  OnceInv' /\ [WQ!Next]_(WQ!vars)
<1> USE DEF TypeInv, TypeOK, ServerTypeOK
<1>1. UNCHANGED <<calling, mpc, arriving, accepted, visitor_queue_>>
  BY DEF OnTheMap, mainVars, queueVars
<1>2. visitor[w] \in Visitors
  BY DEF OnTheMap, FindRoom, EmplaceRoom, LookUp, CheckClub, CountMembers, EraseRoom, Goes, Served, Idle
<1>3. CASE \E now \in {"count", "erase"} : Goes(w, now, "wait") /\ Dismiss(w)
  BY <1>1, <1>2, <1>3, DismissOnce
<1>4. CASE /\ UNCHANGED <<visitor, dismissed>>
           /\ \E next \in Heading \cup Inside : wpc' = [wpc EXCEPT ![w] = next]
  <2>1. \A u \in Waiters : wpc'[u] \in Idle => wpc[u] \in Idle
    BY <1>4 DEF WaiterTypeOK, Idle, Heading, Inside
  <2> QED BY <1>1, <1>4, <2>1, NobodyMoves DEF Held
<1> QED BY <1>3, <1>4 DEF OnTheMap, FindRoom, EmplaceRoom, LookUp, CheckClub, CountMembers, EraseRoom, Goes,
           Keep, Heading, Inside

\* A room keeps its visitor until he leaves it.
LEMMA RoomOnce ==
  ASSUME TypeInv, OnceInv, NEW w \in Waiters, InTheRoom(w)
  PROVE  OnceInv' /\ UNCHANGED WQ!vars
<1>1. UNCHANGED <<calling, mpc, arriving, accepted, visitor_queue_, visitor, dismissed>>
  BY DEF InTheRoom, queueVars, mainVars
<1>2. \A u \in Waiters : wpc'[u] \in Idle => wpc[u] \in Idle
  BY DEF InTheRoom, UseOfNothing, AddMember, WriteNext, MemberAdded, ReceiveMsg, ReceiveEnd, Speak,
         Spoken, CloseFd, Here, Goes, Idle, TypeInv, TypeOK, ServerTypeOK, WaiterTypeOK
<1> QED BY <1>1, <1>2, NobodyMoves DEF Held

\* Visitors are served once each, in the order they came, each by one waiter who has
\* nobody else meanwhile: welcome_visitor and waiter_routine, with visitor_queue_ and
\* sem_ (TavernaSever.h, lines 41 to 51 and 89 to 94), are a pool of workers.
THEOREM TavernImplementsWorkQueue == Spec => ImplementsWorkQueue
<1>1. Init => OnceInv /\ WQ!Init
  <2> SUFFICES ASSUME Init PROVE OnceInv /\ WQ!Init
    OBVIOUS
  <2>1. PICK evening \in Evenings : ServerInit(evening.order, evening.free)
    BY DEF Init
  <2>2. /\ Range(visitor_queue_) = {} /\ accepted = {} /\ dismissed = {} /\ NoVisitor \notin Visitors
        /\ \A w \in Waiters : visitor[w] = NoVisitor
    BY <2>1, ClubAssumption DEF ServerInit, Range
  <2>3. OnceInv
    BY <2>2 DEF OnceInv
  <2>4. WQ!Init
    BY <2>1, <2>2 DEF ServerInit, WQ!Init, Running
  <2> QED BY <2>3, <2>4
<1>2. TypeInv /\ HallInv /\ OnceInv /\ [Next]_vars => OnceInv' /\ [WQ!Next]_(WQ!vars)
  <2> SUFFICES ASSUME TypeInv, HallInv, OnceInv, [Next]_vars
               PROVE  OnceInv' /\ [WQ!Next]_(WQ!vars)
    OBVIOUS
  <2>1. CASE Main
    BY <2>1, MainOnce
  <2>2. ASSUME NEW w \in Waiters, Waiter(w)
        PROVE  OnceInv' /\ [WQ!Next]_(WQ!vars)
    BY <2>2, DoorOnce, MapOnce, RoomOnce DEF Waiter
  <2>3. CASE VisitorStep \/ UNCHANGED vars
    <3>1. UNCHANGED <<calling, mpc, arriving, accepted, visitor_queue_, visitor, wpc, dismissed>>
      BY <2>3 DEF VisitorStep, TypeLine, HangUp, StopReading, vars, serverVars, mainVars, queueVars, waiterVars
    <3> QED BY <3>1, NobodyMoves DEF Held
  <2> QED BY <2>1, <2>2, <2>3 DEF Next, ServerStep, VisitorStep
<1> QED BY <1>1, <1>2, TypesAreKept, VisitorsHavePlaces, PTL DEF Spec, ImplementsWorkQueue, WQ!Spec
=============================================================================

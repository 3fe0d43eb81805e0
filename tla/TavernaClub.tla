----------------------------- MODULE TavernaClub -----------------------------
(****************************************************************************)
(* Linux_16_CyberpunkTaverna/Sever/TavernaClub.h: a chat room is the set of *)
(* descriptors of its members, each with the address it was added with.     *)
(* What is said in it is written to one member after the other while the    *)
(* room's mutex is held: taking the mutex, each write, and the change of    *)
(* the member list with the unlock are steps of their own.                  *)
(*                                                                          *)
(* A descriptor is a number the kernel gives to a connection and may give   *)
(* again once it is closed.  Writing to a connection whose peer is gone is  *)
(* answered by a reset; writing to it again raises SIGPIPE, which the       *)
(* server does not handle.  Writing to a member who does not read blocks    *)
(* once the buffers on the way are full ("clogged").                        *)
(****************************************************************************)
EXTENDS Naturals, Sequences, FiniteSets, SequencesExt

CONSTANTS Waiters,    (* the server's threads                               *)
          Visitors,   (* the connections, by the user who makes them        *)
          NoVisitor,
          Nobody,     (* the owner of a free mutex                          *)
          MaxFd,      (* bound: descriptors the process may have open       *)
          MaxRooms    (* bound: room objects that are ever made             *)

ASSUME ClubAssumption == /\ Nobody \notin Waiters
                         /\ NoVisitor \notin Visitors
                         /\ MaxFd \in Nat /\ MaxRooms \in Nat

Fds   == 1..MaxFd
Rooms == 1..MaxRooms

\* What can be written to a visitor: `by` says it, in the line `no` of what he typed.
Kinds   == {"prompt", "error", "thanks", "welcome", "text", "farewell"}
Message == [kind : Kinds, by : Visitors, no : Nat]

VARIABLES chat_members,  (* chat_members[r][fd]: whose address, or NoVisitor *)
          club_mutex,    (* club_mutex[r]: the waiter that holds it         *)
          unwritten,     (* unwritten[w]: members w's loop has still to do, *)
                         (* in any order: that of an unordered_map          *)
          fd_owner,      (* the connection a descriptor stands for          *)
          gone,          (* visitors that hung up                           *)
          clogged,       (* visitors who have stopped reading, buffers full  *)
          reset,         (* of these, the ones whose reset has arrived      *)
          heard,         (* heard[v]: what was written to visitor v         *)
          crashed        (* what ended the server process, or "no"          *)

clubVars == <<chat_members, club_mutex, unwritten>>
connVars == <<fd_owner, gone, clogged, reset, heard, crashed>>

ClubInit == /\ chat_members = [r \in Rooms |-> [fd \in Fds |-> NoVisitor]]
            /\ club_mutex = [r \in Rooms |-> Nobody]
            /\ unwritten = [w \in Waiters |-> <<>>]
            /\ fd_owner = [fd \in Fds |-> NoVisitor]
            /\ gone = {} /\ clogged = {} /\ reset = {}
            /\ heard = [v \in Visitors |-> {}]
            /\ crashed = "no"

Members(r) == {fd \in Fds : chat_members[r][fd] # NoVisitor}

-----------------------------------------------------------------------------
(* write(fd, ...)                                                           *)

Heard(v, m) == /\ v \notin gone /\ v \notin clogged
               /\ heard' = [heard EXCEPT ![v] = @ \cup {m}]
               /\ UNCHANGED <<reset, crashed>>

Unheard(v) == /\ v \in gone /\ v \notin reset
              /\ reset' = reset \cup {v}
              /\ UNCHANGED <<heard, crashed>>

BrokenPipe(v) == /\ v \in reset
                 /\ crashed' = "pipe"
                 /\ UNCHANGED <<heard, reset>>

\* Nobody hears what is written to a closed descriptor: write returns -1.
BadDescriptor(fd) == /\ fd \in Fds => fd_owner[fd] = NoVisitor
                     /\ UNCHANGED <<heard, reset, crashed>>

WriteTo(fd, m) == /\ \/ BadDescriptor(fd)
                     \/ /\ fd \in Fds
                        /\ \E v \in Visitors :
                              /\ fd_owner[fd] = v
                              /\ Heard(v, m) \/ Unheard(v) \/ BrokenPipe(v)
                  /\ UNCHANGED <<fd_owner, gone, clogged>>

-----------------------------------------------------------------------------
(* What add_member, send_msg and so_long_member are made of.                *)

ToWrite(w, audience) == \E order \in SetToSeqs(audience) :
                            unwritten' = [unwritten EXCEPT ![w] = order]

\* Mutant: the loop runs without the mutex.
LockClubNot(w, r, audience) == /\ ToWrite(w, audience)
                               /\ UNCHANGED <<chat_members, club_mutex>>

LockClub(w, r, audience) == /\ club_mutex[r] = Nobody
                            /\ club_mutex' = [club_mutex EXCEPT ![r] = w]
                            /\ ToWrite(w, audience)
                            /\ UNCHANGED chat_members

WriteMember(w, m) == /\ unwritten[w] # <<>>
                     /\ WriteTo(Head(unwritten[w]), m)
                     /\ unwritten' = [unwritten EXCEPT ![w] = Tail(@)]
                     /\ UNCHANGED <<chat_members, club_mutex>>

UnlockClub(w, r) == /\ unwritten[w] = <<>>
                    /\ club_mutex' = [club_mutex EXCEPT ![r] = Nobody]
                    /\ UNCHANGED unwritten

\* emplace leaves an entry that is there already as it is.
EnterClub(w, r, fd, v) ==
    /\ UnlockClub(w, r)
    /\ chat_members' = IF fd \in Members(r) THEN chat_members
                       ELSE [chat_members EXCEPT ![r][fd] = v]

\* Mutant: the member is not struck off the list.
LeaveClubOnList(w, r, fd) == UnlockClub(w, r) /\ UNCHANGED chat_members

LeaveClub(w, r, fd) ==
    /\ UnlockClub(w, r)
    /\ chat_members' = [chat_members EXCEPT ![r][fd] = NoVisitor]

StaySeated(w, r) == UnlockClub(w, r) /\ UNCHANGED chat_members

-----------------------------------------------------------------------------
ClubTypeOK == /\ chat_members \in [Rooms -> [Fds -> Visitors \cup {NoVisitor}]]
              /\ club_mutex \in [Rooms -> Waiters \cup {Nobody}]
              /\ unwritten \in [Waiters -> Seq(Fds)]

ConnTypeOK == /\ fd_owner \in [Fds -> Visitors \cup {NoVisitor}]
              /\ gone \in SUBSET Visitors /\ clogged \in SUBSET Visitors
              /\ reset \in SUBSET gone
              /\ heard \in [Visitors -> SUBSET Message]
              /\ crashed \in {"no", "null", "freed", "pipe", "bounds", "throw"}
=============================================================================

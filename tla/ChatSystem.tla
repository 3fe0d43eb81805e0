------------------------------ MODULE ChatSystem ------------------------------
(****************************************************************************)
(* Chat clients and the chat server together, over a network that reorders  *)
(* and, if Lossy, loses datagrams.                                          *)
(*                                                                          *)
(* Paced is the discipline of stress_test.sh, which sleeps after each line  *)
(* "so that the server has finished with the registration": the next line   *)
(* is typed when nothing the client sent is still under way.                *)
(****************************************************************************)
EXTENDS Naturals, Sequences, FiniteSets

CONSTANTS Workers, InitialCapacity, Zeroed, Names, Unregistered,
          Clients, UserName, NoName, Garbled, Script, BufSize,
          Paced,          (* lines are typed with pauses between them       *)
          Lossy,          (* the network loses datagrams, sendto fails      *)
          Interruptible   (* the clients that may get a signal              *)

VARIABLES free_stack_, used_stack_, capacity, contents, running_state, mpc, mtask,
          sem, posted, wpc, wtask, target, client_book, accepted, handled,
          client_running, spc, rpc, client_user_name, line, str_size, buf_clear,
          rejected, shown, net, replies

\* What the clients can send: a datagram carries the number of the line it was
\* typed in, and 0 if it registers the user.
Datagrams == [type : {"REG", "MSG", "EXIT"}, name : Names, addr : Clients,
              no : UNION {0..Len(Script[c]) : c \in Clients}]

Server == INSTANCE ChatServer WITH Addrs <- Clients
Client == INSTANCE ChatClient WITH running_state <- client_running

ASSUME SystemAssumption ==
    /\ Client!LinesAreTyped
    /\ Script \in [Clients -> Seq([kind : {"text", "exit", "word"}, to : Names,
                                   at : Nat, len : Nat])]
    /\ UserName \in [Clients -> Names] /\ NoName \in Names /\ Garbled \in Names
    /\ Interruptible \subseteq Clients
    /\ IsFiniteSet(Workers)
    /\ InitialCapacity \in Nat /\ InitialCapacity >= 2
    /\ Zeroed \notin Datagrams /\ Unregistered \notin Clients

serverVars == <<free_stack_, used_stack_, capacity, contents, running_state, mpc,
                mtask, sem, posted, wpc, wtask, target, client_book, accepted,
                handled>>
clientVars == <<client_running, spc, rpc, client_user_name, line, str_size,
                buf_clear, rejected, shown>>

vars == <<serverVars, clientVars, net, replies>>

Init == Client!Init /\ Server!ServerInit

\* Datagrams of client c the server may still act on.
UnderWay(c) ==
    \/ \E d \in net : d.addr = c
    \/ mpc = "save" /\ contents[mtask].addr = c
    \/ \E d \in accepted \ handled : d.addr = c

Lose == /\ Lossy
        /\ \/ \E d \in net : net' = net \ {d} /\ UNCHANGED replies
           \/ \E r \in replies : replies' = replies \ {r} /\ UNCHANGED net
        /\ UNCHANGED <<serverVars, clientVars>>

ServerStep == /\ ~Server!Crashed
              /\ Server!Main \/ \E w \in Workers : Server!Worker(w)
              /\ UNCHANGED clientVars

Registers(c) == /\ Client!RegUsers(c) \/ (Lossy /\ Client!RegFails(c))
                /\ UNCHANGED serverVars

Types(c) == /\ Paced => ~UnderWay(c)
            /\ Client!ReadLine(c)
            /\ UNCHANGED serverVars

Hears(c) == Client!Receive(c) /\ UNCHANGED serverVars

Interrupted(c) == /\ c \in Interruptible
                  /\ Client!Interrupt(c)
                  /\ UNCHANGED serverVars

\* The server waits for datagrams; every client has left or waits in vain.
Quiet == /\ mpc = "recv" /\ net = {} /\ accepted = handled
         /\ \A w \in Workers : wpc[w] = "wait"
         /\ \A c \in Clients : /\ spc[c] = "exited" \/ line[c] = Len(Script[c])
                               /\ rpc[c] # "start"
                               /\ rpc[c] = "recv" => \A r \in replies : r.to # c

Next == \/ ServerStep
        \/ Lose
        \/ \E c \in Clients : Registers(c) \/ Types(c) \/ Hears(c) \/ Interrupted(c)
        \/ Quiet /\ UNCHANGED vars

Spec == Init /\ [][Next]_vars

\* The threads of the processes are scheduled and the user goes on typing.  With
\* Lossy false a datagram that is sent is received: recvfrom may fail, but not
\* every time.
Fairness ==
    /\ WF_vars(mpc # "recv" /\ Server!Main /\ UNCHANGED clientVars)
    /\ SF_vars(Server!MainReceive /\ UNCHANGED clientVars)
    /\ \A w \in Workers :
          SF_vars(~Server!Crashed /\ Server!Worker(w) /\ UNCHANGED clientVars)
    /\ \A c \in Clients : /\ WF_vars(Registers(c))
                          /\ SF_vars(Types(c))
                          /\ WF_vars(Hears(c))

FairSpec == Spec /\ Fairness

-----------------------------------------------------------------------------
\* The client has been told that the server has closed the connection.
ToldExit(c) == \E r \in shown[c] : r.kind = "exit"

\* A user who left through "exit" is not left behind in the book: once nothing of
\* his is under way no message can be sent to the address he has given up.
NoGhostUser ==
    \A c \in Clients :
       ToldExit(c) /\ ~UnderWay(c) => client_book[UserName[c]] = Unregistered

\* A text is only shown to the user it names.
OnlyTheAddressee ==
    \A c \in Clients : \A r \in shown[c] : r.kind = "text" => r.re.name = UserName[c]

\* The last two lines typed were "exit".
SaidExit(c) == /\ line[c] > 1
               /\ \A i \in {line[c] - 1, line[c]} : Script[c][i].kind = "exit"

\* A client whose user has typed "exit", and typed it again if the first was
\* rejected for want of room in str, ends: the word is understood the second
\* time, the EXIT is answered, and the answer ends the thread that waits for it
\* (unless a signal has cut the exchange short).
ClientsLeave ==
    \A c \in Clients :
       (client_running[c] /\ (spc[c] = "exited" \/ SaidExit(c)))
          ~> (Client!Ended(c) \/ ~client_running[c])
==============================================================================

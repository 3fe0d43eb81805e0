--------------------------- MODULE ChatSystemProofs ---------------------------
(****************************************************************************)
(* Theorems about ChatSystem, for any number of clients and workers and any *)
(* scripts: a text is only shown to the user it names, and, when the users  *)
(* wait between their lines, nobody who left through "exit" stays behind in *)
(* the book of the server.                                                  *)
(*                                                                          *)
(* The proofs see the server through the lemmas of ChatServerProofs: a      *)
(* buffer has one holder and a datagram is in one place, so what a handler  *)
(* reads is what a client sent.  What is added here is what the clients     *)
(* send and what the book and the answers have to do with it.               *)
(****************************************************************************)
EXTENDS ChatSystem, TLAPS

SP == INSTANCE ChatServerProofs WITH Addrs <- Clients

(****************************************************************************)
(* The inductive invariant.                                                 *)
(****************************************************************************)

ClientsTyped == /\ line \in [Clients -> Nat]
                /\ \A c \in Clients : line[c] <= Len(Script[c])
                /\ spc \in [Clients -> {"register", "read", "exited"}]
                /\ client_user_name \in [Clients -> Names]
                /\ str_size \in [Clients -> Nat]
                /\ buf_clear \in [Clients -> BOOLEAN]
                /\ DOMAIN shown = Clients

\* A datagram has the number of a line its client has typed, and a registration,
\* which comes before the first line, has number 0.
Numbered ==
    /\ \A d \in SP!Sent : d.no <= line[d.addr] /\ (d.type = "REG" <=> d.no = 0)
    /\ \A c \in Clients :
          spc[c] = "register" => line[c] = 0 /\ \A d \in SP!Sent : d.addr # c

\* Nobody registers or stands in the book under another's name.
NamesAreOwn ==
    /\ \A d \in SP!Sent : d.type = "REG" => d.name = UserName[d.addr]
    /\ \A n \in Names :
          client_book[n] # Unregistered => n = UserName[client_book[n]]

\* A worker that sends does so for a text to the owner of the address it has
\* looked up, and one that strikes out does so for an "exit".
HandlersAgree ==
    \A w \in Workers :
       /\ wpc[w] = "send" => /\ SP!Job(w).type = "MSG"
                             /\ SP!Job(w).name = UserName[target[w]]
       /\ wpc[w] = "erase" => SP!Job(w).type = "EXIT"

\* What an answer says of the datagram it answers.
Answers(r) == /\ r.kind = "text" => r.re.name = UserName[r.to]
              /\ r.kind = "exit" => /\ r.re.type = "EXIT" /\ r.re.addr = r.to
                                    /\ r.re \in accepted

AnswersAgree == /\ \A r \in replies : Answers(r)
                /\ \A c \in Clients : \A r \in shown[c] : r.to = c /\ Answers(r)

SystemInv == /\ SP!IInv /\ SP!UnderWayOnce
             /\ ClientsTyped /\ Numbered
             /\ NamesAreOwn /\ HandlersAgree /\ AnswersAgree

-----------------------------------------------------------------------------
(* What is added for users who wait: stress_test.sh pauses after each line, *)
(* its users have names of their own, and the first line of a user who      *)
(* types "exit" is a text, after which buf is clear.                        *)

UsersWait ==
    /\ Paced
    /\ \A b, c \in Clients : UserName[b] = UserName[c] => b = c
    /\ \A c \in Clients : \A i \in 1..Len(Script[c]) :
          Script[c][i].kind = "exit" => Script[c][1].kind = "text"

\* What is under way was sent with the last line.
LastLineUnderWay == \A d \in SP!Sent \ handled : d.no = line[d.addr]

\* "exit" is sent under the name the user registered, if he registered.
ExitsAreNamed ==
    /\ \A d \in SP!Sent : d.type = "EXIT" => d.name = client_user_name[d.addr]
    /\ \A d \in SP!Sent : d.type = "REG" =>
          client_user_name[d.addr] = UserName[d.addr]
    /\ \A c \in Clients : client_book[UserName[c]] = c =>
          client_user_name[c] = UserName[c]

\* The first line is read into all of str, and a text clears buf.
FirstTextClears ==
    \A c \in Clients :
       /\ line[c] = 0 => str_size[c] = BufSize
       /\ line[c] > 0 /\ Script[c][1].kind = "text" => buf_clear[c]

\* Once an "exit" is handled the name is out of the book, and stays out.
ExitsAreFinal ==
    \A d \in handled : d.type = "EXIT" => client_book[UserName[d.addr]] = Unregistered

WaitInv == /\ SystemInv
           /\ LastLineUnderWay /\ ExitsAreNamed /\ FirstTextClears /\ ExitsAreFinal

(****************************************************************************)
(* The server in the system.                                                *)
(****************************************************************************)

\* What the clients send meets what the lemmas on the server assume.
LEMMA ServerIsGiven ==
  /\ InitialCapacity \in Nat /\ InitialCapacity >= 2 /\ Zeroed \notin Datagrams
  /\ SP!IsFiniteSet(Workers) /\ Unregistered \notin Clients
  /\ \A d \in Datagrams : d.type \in SP!Types /\ d.name \in Names /\ d.addr \in Clients
BY SystemAssumption DEF Datagrams, SP!Types, IsFiniteSet, SP!IsFiniteSet

\* The server gets no signal here.
ServerRuns == ~SP!Crashed /\ (SP!Main \/ \E w \in Workers : SP!Worker(w))

\* The server of the system is the one the lemmas are about.
LEMMA SameServer ==
  ASSUME ServerStep
  PROVE  ServerRuns /\ UNCHANGED clientVars
<1>1. Server!Main => SP!Main
  BY DEF Server!Main, SP!Main, Server!MainTest, SP!MainTest, Server!MainGet, SP!MainGet,
         Server!GetEmptyBuffer, SP!GetEmptyBuffer, Server!GetFreeBuffer,
         SP!GetFreeBuffer, Server!GetNewBuffer, SP!GetNewBuffer, Server!Enlarged,
         SP!Enlarged, Server!Pushed, SP!Pushed, Server!MainReceive, SP!MainReceive,
         Server!FillBuffer, SP!FillBuffer, Server!MainReceiveFails, SP!MainReceiveFails,
         Server!RecycleBuffer, SP!RecycleBuffer, Server!NoBuffer, SP!NoBuffer,
         Server!MainSave, SP!MainSave, Server!SaveTaskBuffer, SP!SaveTaskBuffer,
         Server!MainPost, SP!MainPost, Server!CloseSocket, SP!CloseSocket,
         Server!DtorPost, SP!DtorPost, Server!DtorJoin, SP!DtorJoin, Server!Cardinality,
         SP!Cardinality, Server!poolVars, SP!poolVars, Server!mainVars, SP!mainVars,
         Server!workerVars, SP!workerVars, Server!historyVars, SP!historyVars
<1>2. ASSUME NEW w \in Workers, Server!Worker(w)
      PROVE  SP!Worker(w)
  BY <1>2 DEF Server!Worker, SP!Worker, Server!Goto, SP!Goto, Server!WorkerTest,
         SP!WorkerTest, Server!SemWait, SP!SemWait, Server!TakeTask, SP!TakeTask,
         Server!GetTaskBuffer, SP!GetTaskBuffer, Server!TakeNull, SP!TakeNull,
         Server!Serving, SP!Serving, Server!Job, SP!Job, Server!SocketOpen,
         SP!SocketOpen, Server!Reply, SP!Reply, Server!HandlerReturns, SP!HandlerReturns,
         Server!RegHandler, SP!RegHandler, Server!MsgUnknown, SP!MsgUnknown,
         Server!MsgLookup, SP!MsgLookup, Server!MsgSend, SP!MsgSend, Server!ExitReply,
         SP!ExitReply, Server!ExitErase, SP!ExitErase, Server!Recycle, SP!Recycle,
         Server!RecycleBuffer, SP!RecycleBuffer, Server!NoBuffer, SP!NoBuffer,
         Server!poolVars, SP!poolVars, Server!mainVars, SP!mainVars, Server!workerVars,
         SP!workerVars, Server!historyVars, SP!historyVars
<1>3. ~Server!Crashed => ~SP!Crashed
  BY DEF Server!Crashed, SP!Crashed
<1> QED BY <1>1, <1>2, <1>3 DEF ServerStep, ServerRuns

(****************************************************************************)
(* The steps of the clients and of the network.                             *)
(****************************************************************************)

\* A step that puts no new datagram on the network leaves the server as it is.
LEMMA SendsNothing ==
  ASSUME SystemInv, UNCHANGED serverVars, net' \subseteq net, replies' \subseteq replies
  PROVE  SP!IInv' /\ SP!UnderWayOnce' /\ SP!Sent' \subseteq SP!Sent
<1>1. UNCHANGED SP!innerVars
  BY DEF serverVars, SP!innerVars, SP!poolVars, SP!mainVars, SP!workerVars,
         SP!historyVars
<1>2. net \subseteq Datagrams
  BY DEF SystemInv, SP!IInv, SP!TypeOK
<1>3. SP!IInv'
  BY <1>1, <1>2, ServerIsGiven, SP!NetworkMoves DEF SystemInv
<1>4. SP!UnderWayOnce'
  BY <1>1, ServerIsGiven, SP!NetworkMovesOnce DEF SystemInv
<1> QED BY <1>3, <1>4 DEF SP!Sent, serverVars

\* A step that sends a new datagram adds it to those the server may come to see.
LEMMA SendsOne ==
  ASSUME SystemInv, UNCHANGED serverVars, UNCHANGED replies,
         NEW d \in Datagrams, d \notin SP!Sent, net' = net \cup {d}
  PROVE  SP!IInv' /\ SP!UnderWayOnce' /\ SP!Sent' = SP!Sent \cup {d}
<1>1. UNCHANGED SP!innerVars
  BY DEF serverVars, SP!innerVars, SP!poolVars, SP!mainVars, SP!workerVars,
         SP!historyVars
<1>2. net' \subseteq Datagrams
  BY DEF SystemInv, SP!IInv, SP!TypeOK
<1>3. SP!IInv'
  BY <1>1, <1>2, ServerIsGiven, SP!NetworkMoves DEF SystemInv
<1>4. SP!UnderWayOnce'
  BY <1>1, ServerIsGiven, SP!NetworkMovesOnce DEF SystemInv
<1> QED BY <1>3, <1>4 DEF SP!Sent, serverVars

\* The datagrams have the fields of a datagram.
LEMMA SentIsTyped ==
  ASSUME SystemInv
  PROVE  /\ SP!Sent \subseteq Datagrams
         /\ \A d \in SP!Sent : /\ d.type \in {"REG", "MSG", "EXIT"} /\ d.name \in Names
                               /\ d.addr \in Clients /\ d.no \in Nat
<1>1. mpc = "save" => contents[mtask] \in Datagrams
  BY DEF SystemInv, SP!IInv, SP!Received
<1>2. SP!Sent \subseteq Datagrams
  BY <1>1 DEF SP!Sent, SystemInv, SP!IInv, SP!TypeOK
<1>3. \A c \in Clients : Len(Script[c]) \in Nat
  BY SystemAssumption
<1> QED BY <1>2, <1>3 DEF Datagrams

\* The lines of a script are what LinesAreTyped says.
LEMMA LineIsTyped ==
  ASSUME NEW c \in Clients, NEW i \in 1..Len(Script[c])
  PROVE  /\ Script[c][i].kind \in {"text", "exit", "word"} /\ Script[c][i].to \in Names
         /\ Script[c][i].len \in Nat /\ Script[c][i].at \in Nat
         /\ Script[c][i].len < BufSize /\ Script[c][i].at <= Script[c][i].len
         /\ BufSize \in Nat
<1> DEFINE L == [kind : {"text", "exit", "word"}, to : Names, at : Nat, len : Nat]
<1>1. Script[c] \in Seq(L)
  BY SystemAssumption
<1> HIDE DEF L
<1>2. Script[c][i] \in L
  BY <1>1
<1>3. /\ Script[c][i].kind \in {"text", "exit", "word"} /\ Script[c][i].to \in Names
      /\ Script[c][i].len \in Nat /\ Script[c][i].at \in Nat
  BY <1>2 DEF L
<1>4. /\ BufSize \in Nat /\ Script[c][i].len < BufSize
      /\ Script[c][i].at \in 0..Script[c][i].len
  BY SystemAssumption DEF Client!LinesAreTyped
<1> QED BY <1>3, <1>4

\* A client that registers.
LEMMA RegUsersKeeps ==
  ASSUME SystemInv, NEW c \in Clients, Client!RegUsers(c), UNCHANGED serverVars
  PROVE  /\ SystemInv'
         /\ SP!Sent' = SP!Sent \cup
              {[type |-> "REG", name |-> UserName[c], addr |-> c, no |-> 0]}
<1> DEFINE d == [type |-> "REG", name |-> UserName[c], addr |-> c, no |-> 0]
<1>1. /\ spc[c] = "register" /\ line[c] = 0
      /\ \A e \in SP!Sent : e.addr # c
  BY DEF Client!RegUsers, SystemInv, Numbered
<1>2. d \in Datagrams /\ d \notin SP!Sent
  <2>1. Len(Script[c]) \in Nat /\ 0 \in 0..Len(Script[c])
    BY SystemAssumption
  <2> QED BY <1>1, <2>1, SystemAssumption DEF Datagrams
<1>3. net' = net \cup {d} /\ UNCHANGED replies
  BY <1>1 DEF Client!RegUsers, Client!Send
<1>4. SP!IInv' /\ SP!UnderWayOnce' /\ SP!Sent' = SP!Sent \cup {d}
  BY <1>2, <1>3, SendsOne
<1>5. d.type = "REG" /\ d.name = UserName[c] /\ d.addr = c /\ d.no = 0
  OBVIOUS
<1> HIDE DEF d
<1>6. ClientsTyped'
  BY SystemAssumption
     DEF SystemInv, ClientsTyped, Client!RegUsers, Client!recvVars, Client!LoopOrExit
<1>7. Numbered'
  <2>1. /\ line' = line /\ \A b \in Clients : spc'[b] = "register" =>
                                spc[b] = "register" /\ b # c
    BY DEF Client!RegUsers, Client!LoopOrExit, SystemInv, ClientsTyped
  <2> QED BY <1>1, <1>4, <1>5, <2>1 DEF SystemInv, Numbered
<1>8. NamesAreOwn' /\ HandlersAgree'
  BY <1>4, <1>5 DEF SystemInv, NamesAreOwn, HandlersAgree, serverVars, SP!Job
<1>9. AnswersAgree'
  BY <1>3 DEF SystemInv, AnswersAgree, Answers, serverVars, Client!RegUsers,
              Client!recvVars
<1> QED BY <1>4, <1>6, <1>7, <1>8, <1>9 DEF SystemInv, d

\* A client that sends what was typed: the number of the line is a new one.
LEMMA SendsLine ==
  ASSUME SystemInv, NEW c \in Clients, Client!ReadNext(c), UNCHANGED serverVars,
         NEW type \in {"MSG", "EXIT"}, NEW n \in Names, Client!Send(c, type, n),
         NEW x \in {"read", "exited"}, spc' = [spc EXCEPT ![c] = x],
         UNCHANGED <<client_user_name, shown, replies>>,
         str_size' \in [Clients -> Nat], buf_clear' \in [Clients -> BOOLEAN]
  PROVE  /\ SystemInv'
         /\ SP!Sent' = SP!Sent \cup
              {[type |-> type, name |-> n, addr |-> c, no |-> line[c] + 1]}
<1> DEFINE d == [type |-> type, name |-> n, addr |-> c, no |-> line[c] + 1]
<1>1. /\ line[c] \in Nat /\ line[c] + 1 \in 1..Len(Script[c]) /\ Len(Script[c]) \in Nat
      /\ line' = [line EXCEPT ![c] = line[c] + 1] /\ line'[c] = line[c] + 1
      /\ \A b \in Clients : line'[b] \in Nat /\ line[b] <= line'[b]
                            /\ (b # c => line'[b] = line[b])
      /\ line' \in [Clients -> Nat]
  BY SystemAssumption DEF SystemInv, ClientsTyped, Client!ReadNext
<1>2. d \in Datagrams
  <2>1. line[c] + 1 \in UNION {0..Len(Script[b]) : b \in Clients}
    BY <1>1
  <2> QED BY <2>1 DEF Datagrams
<1>3. net' = net \cup {d}
  BY <1>1 DEF Client!Send
<1>4. d.type \in {"MSG", "EXIT"} /\ d.addr = c /\ d.no = line[c] + 1
  OBVIOUS
<1> HIDE DEF d
<1>5. d \notin SP!Sent
  BY <1>1, <1>4 DEF SystemInv, Numbered
<1>6. SP!IInv' /\ SP!UnderWayOnce' /\ SP!Sent' = SP!Sent \cup {d}
  BY <1>2, <1>3, <1>5, SendsOne
<1>7. /\ spc' \in [Clients -> {"register", "read", "exited"}] /\ spc'[c] # "register"
      /\ \A b \in Clients : b # c => spc'[b] = spc[b]
  BY DEF SystemInv, ClientsTyped
<1>8. ClientsTyped'
  <2>1. \A b \in Clients : line'[b] <= Len(Script[b])
    BY <1>1 DEF SystemInv, ClientsTyped
  <2> QED BY <1>1, <1>7, <2>1 DEF SystemInv, ClientsTyped
<1>9. Numbered'
  <2>1. ASSUME NEW e \in SP!Sent'
        PROVE  e.no <= line'[e.addr] /\ (e.type = "REG" <=> e.no = 0)
    <3>1. CASE e = d
      <4>1. e.no = line'[e.addr] /\ e.no # 0 /\ e.type # "REG" /\ e.no \in Nat
        BY <1>1, <1>4, <3>1
      <4> QED BY <4>1
    <3>2. CASE e \in SP!Sent
      <4>1. /\ e.no <= line[e.addr] /\ (e.type = "REG" <=> e.no = 0)
            /\ e.addr \in Clients /\ e.no \in Nat /\ line[e.addr] \in Nat
        BY <3>2, SentIsTyped DEF SystemInv, Numbered, ClientsTyped
      <4> QED BY <1>1, <4>1
    <3> QED BY <1>6, <3>1, <3>2
  <2>2. ASSUME NEW b \in Clients, spc'[b] = "register"
        PROVE  line'[b] = 0 /\ \A e \in SP!Sent' : e.addr # b
    <3>1. b # c /\ spc[b] = "register"
      BY <1>7, <2>2
    <3>2. line[b] = 0 /\ \A e \in SP!Sent : e.addr # b
      BY <3>1 DEF SystemInv, Numbered
    <3> QED BY <1>1, <1>4, <1>6, <3>1, <3>2
  <2> QED BY <2>1, <2>2 DEF Numbered
<1>10. NamesAreOwn' /\ HandlersAgree'
  BY <1>4, <1>6 DEF SystemInv, NamesAreOwn, HandlersAgree, serverVars, SP!Job
<1>11. AnswersAgree'
  BY DEF SystemInv, AnswersAgree, Answers, serverVars
<1> QED BY <1>6, <1>8, <1>9, <1>10, <1>11 DEF SystemInv, d

\* The names a client sends are names, and str keeps a size.
LEMMA SendExitKeeps ==
  ASSUME SystemInv, NEW c \in Clients, Client!SendExit(c), UNCHANGED serverVars
  PROVE  /\ SystemInv'
         /\ \E n \in Client!Copied(c, client_user_name[c]) :
               SP!Sent' = SP!Sent \cup
                 {[type |-> "EXIT", name |-> n, addr |-> c, no |-> line[c] + 1]}
<1>1. PICK n \in Client!Copied(c, client_user_name[c]) : Client!Send(c, "EXIT", n)
  BY DEF Client!SendExit
<1>2. n \in Names
  BY SystemAssumption DEF Client!Copied, SystemInv, ClientsTyped
<1>3. /\ Client!ReadNext(c) /\ spc' = [spc EXCEPT ![c] = "exited"]
      /\ UNCHANGED <<client_user_name, shown, replies, str_size, buf_clear>>
  BY DEF Client!SendExit, Client!recvVars
<1>4. str_size' \in [Clients -> Nat] /\ buf_clear' \in [Clients -> BOOLEAN]
  BY <1>3 DEF SystemInv, ClientsTyped
<1> QED BY <1>1, <1>2, <1>3, <1>4, SendsLine

\* A text is sent under the name it is for, or under what buf made of it.
LEMMA SendTextKeeps ==
  ASSUME SystemInv, NEW c \in Clients, Client!SendText(c), UNCHANGED serverVars
  PROVE  /\ SystemInv'
         /\ \E n \in Names :
               SP!Sent' = SP!Sent \cup
                 {[type |-> "MSG", name |-> n, addr |-> c, no |-> line[c] + 1]}
<1>1. PICK n \in Client!Copied(c, Client!Typed(c).to) : Client!Send(c, "MSG", n)
  BY DEF Client!SendText
<1>2. Client!ReadNext(c) /\ UNCHANGED <<client_user_name, shown, replies>>
  BY DEF Client!SendText, Client!recvVars
<1>3. line'[c] \in 1..Len(Script[c])
  BY <1>2, SystemAssumption DEF Client!ReadNext, SystemInv, ClientsTyped
<1>4. Client!Typed(c).to \in Names /\ BufSize \in Nat
  BY <1>3, LineIsTyped DEF Client!Typed
<1>5. n \in Names
  BY <1>4, SystemAssumption DEF Client!Copied
<1>6. PICK x \in {"read", "exited"} : spc' = [spc EXCEPT ![c] = x]
  BY DEF Client!SendText, Client!LoopOrExit
<1>7. str_size' \in [Clients -> Nat] /\ buf_clear' \in [Clients -> BOOLEAN]
  BY <1>4 DEF SystemInv, ClientsTyped, Client!SendText
<1> QED BY <1>1, <1>2, <1>5, <1>6, <1>7, SendsLine

\* A step that sends nothing and shows only what was on its way.
LEMMA SilentKeeps ==
  ASSUME SystemInv, UNCHANGED serverVars, net' \subseteq net, replies' \subseteq replies,
         ClientsTyped', \A c \in Clients : line[c] <= line'[c],
         \A c \in Clients :
            spc'[c] = "register" => spc[c] = "register" /\ line'[c] = line[c],
         \A c \in Clients : \A r \in shown'[c] :
            r \in shown[c] \/ (r \in replies /\ r.to = c)
  PROVE  SystemInv' /\ SP!Sent' \subseteq SP!Sent
<1>1. SP!IInv' /\ SP!UnderWayOnce' /\ SP!Sent' \subseteq SP!Sent
  BY SendsNothing
<1>2. Numbered'
  <2>1. ASSUME NEW d \in SP!Sent'
        PROVE  d.no <= line'[d.addr] /\ (d.type = "REG" <=> d.no = 0)
    <3>1. /\ d.no <= line[d.addr] /\ (d.type = "REG" <=> d.no = 0)
          /\ d.addr \in Clients /\ d.no \in Nat
      BY <1>1, SentIsTyped DEF SystemInv, Numbered
    <3>2. line[d.addr] \in Nat /\ line'[d.addr] \in Nat /\ line[d.addr] <= line'[d.addr]
      BY <3>1 DEF SystemInv, ClientsTyped
    <3> QED BY <3>1, <3>2
  <2> QED BY <1>1, <2>1 DEF SystemInv, Numbered
<1>3. NamesAreOwn' /\ HandlersAgree'
  BY <1>1 DEF SystemInv, NamesAreOwn, HandlersAgree, serverVars, SP!Job
<1>4. AnswersAgree'
  BY DEF SystemInv, AnswersAgree, Answers, serverVars
<1> QED BY <1>1, <1>2, <1>3, <1>4 DEF SystemInv

\* A registration that is not sent.
LEMMA RegFailsKeeps ==
  ASSUME SystemInv, NEW c \in Clients, Client!RegFails(c), UNCHANGED serverVars
  PROVE  SystemInv' /\ SP!Sent' \subseteq SP!Sent
<1> USE DEF Client!RegFails, Client!recvVars, Client!LoopOrExit
<1>1. ClientsTyped'
  BY DEF SystemInv, ClientsTyped
<1>2. \A b \in Clients : spc'[b] = "register" => spc[b] = "register"
  BY DEF SystemInv, ClientsTyped
<1>3. \A b \in Clients : line[b] <= line'[b]
  BY DEF SystemInv, ClientsTyped
<1> QED BY <1>1, <1>2, <1>3, SilentKeeps

\* A line that is only reported.
LEMMA RejectKeeps ==
  ASSUME SystemInv, NEW c \in Clients, Client!Reject(c), UNCHANGED serverVars
  PROVE  SystemInv' /\ SP!Sent' \subseteq SP!Sent
<1>1. /\ spc[c] = "read" /\ line[c] \in Nat /\ Len(Script[c]) \in Nat
      /\ line[c] < Len(Script[c]) /\ line' = [line EXCEPT ![c] = line[c] + 1]
      /\ line \in [Clients -> Nat]
  BY SystemAssumption
     DEF Client!Reject, Client!ReadNext, SystemInv, ClientsTyped
<1>2. /\ line' \in [Clients -> Nat] /\ line'[c] \in 1..Len(Script[c])
      /\ \A b \in Clients : line[b] <= line'[b] /\ (b # c => line'[b] = line[b])
  BY <1>1
<1>3. Client!Typed(c).len \in Nat
  BY <1>2, LineIsTyped DEF Client!Typed
<1>4. /\ spc' \in [Clients -> {"register", "read", "exited"}]
      /\ \A b \in Clients : spc'[b] = "register" => spc[b] = "register" /\ b # c
  BY <1>1 DEF Client!Reject, Client!LoopOrExit, SystemInv, ClientsTyped
<1>5. UNCHANGED <<client_user_name, buf_clear, shown, net, replies>>
  BY DEF Client!Reject, Client!recvVars
<1>6. str_size' \in [Clients -> Nat]
  BY <1>3 DEF Client!Reject, SystemInv, ClientsTyped
<1>7. \A b \in Clients : line'[b] <= Len(Script[b])
  BY <1>1, <1>2 DEF SystemInv, ClientsTyped
<1>8. ClientsTyped'
  BY <1>2, <1>4, <1>5, <1>6, <1>7 DEF SystemInv, ClientsTyped
<1> QED BY <1>2, <1>4, <1>5, <1>8, SilentKeeps

\* The receive thread shows what came to its address and answers nothing.
LEMMA ReceiveKeeps ==
  ASSUME SystemInv, NEW c \in Clients, Client!Receive(c), UNCHANGED serverVars
  PROVE  SystemInv' /\ SP!Sent' \subseteq SP!Sent
<1>1. /\ UNCHANGED <<spc, client_user_name, line, str_size, buf_clear, net>>
      /\ replies' \subseteq replies
      /\ shown' = shown \/ \E r \in replies :
            r.to = c /\ shown' = [shown EXCEPT ![c] = @ \cup {r}]
  BY DEF Client!Receive, Client!StartReceiving, Client!ShowText,
         Client!ServerSaysExit, Client!sendVars
<1>2. DOMAIN shown = Clients
  BY DEF SystemInv, ClientsTyped
<1>3. /\ DOMAIN shown' = Clients
      /\ \A b \in Clients : \A r \in shown'[b] :
            r \in shown[b] \/ (r \in replies /\ r.to = b)
  BY <1>1, <1>2
<1>4. ClientsTyped' /\ \A b \in Clients : line[b] <= line'[b]
  BY <1>1, <1>3 DEF SystemInv, ClientsTyped
<1> QED BY <1>1, <1>3, <1>4, SilentKeeps

\* A datagram that is lost, a signal, and nothing at all.
LEMMA OthersKeep ==
  ASSUME SystemInv, UNCHANGED serverVars, net' \subseteq net, replies' \subseteq replies,
         UNCHANGED <<spc, client_user_name, line, str_size, buf_clear, shown>>
  PROVE  SystemInv' /\ SP!Sent' \subseteq SP!Sent
<1>1. ClientsTyped' /\ \A c \in Clients : line[c] <= line'[c]
  BY DEF SystemInv, ClientsTyped
<1> QED BY <1>1, SilentKeeps

(****************************************************************************)
(* The steps of the server.                                                 *)
(****************************************************************************)

\* A step of main, or of a worker outside its handlers.
LEMMA ServerMovesKeep ==
  ASSUME SystemInv, ServerRuns, UNCHANGED clientVars, NEW w,
         SP!Main \/ (w \in Workers /\ SP!Worker(w) /\ ~SP!Handles(w))
  PROVE  /\ SystemInv' /\ SP!Sent' \subseteq SP!Sent
         /\ UNCHANGED <<client_book, handled>>
<1>1. SP!IInv /\ SP!UnderWayOnce
  BY DEF SystemInv
<1>2. SP!IInv' /\ SP!UnderWayOnce'
  BY <1>1, ServerIsGiven, SP!ServerKeeps DEF ServerRuns, SP!ServerNext
<1>3. SP!Sent' \subseteq SP!Sent /\ accepted \subseteq accepted'
  BY <1>1, ServerIsGiven, SP!SentOnlyShrinks
<1>4. /\ UNCHANGED <<client_book, target, replies, handled>>
      /\ \A v \in Workers : wpc'[v] \in {"send", "erase"} => wpc'[v] = wpc[v]
  BY <1>1, ServerIsGiven, SP!OthersLeaveTheBook
<1>5. \A v \in Workers : wpc'[v] \in {"send", "erase"} => SP!Job(v)' = SP!Job(v)
  <2>1. ASSUME NEW v \in Workers, wpc'[v] \in {"send", "erase"}
        PROVE  SP!Job(v)' = SP!Job(v)
    <3>1. SP!Active(v) /\ SP!Active(v)'
      BY <1>4, <2>1 DEF SP!Active
    <3> QED BY <1>1, <3>1, ServerIsGiven, SP!JobsStay
  <2> QED BY <2>1
<1>6. ClientsTyped' /\ Numbered' /\ NamesAreOwn'
  BY <1>3, <1>4 DEF SystemInv, ClientsTyped, Numbered, NamesAreOwn, clientVars
<1>7. HandlersAgree'
  BY <1>4, <1>5 DEF SystemInv, HandlersAgree
<1>8. AnswersAgree'
  BY <1>3, <1>4 DEF SystemInv, AnswersAgree, Answers, clientVars
<1> QED BY <1>2, <1>3, <1>4, <1>6, <1>7, <1>8 DEF SystemInv

\* A handler works on a datagram that was queued and not handled before, and moves
\* no datagram.
LEMMA HandlerFrame ==
  ASSUME SystemInv, NEW w \in Workers, SP!Handles(w)
  PROVE  /\ SP!Job(w) \in SP!Sent \cap accepted /\ SP!Job(w) \notin handled
         /\ SP!Job(w) \in Datagrams
         /\ SP!Job(w).name \in Names /\ SP!Job(w).addr \in Clients
         /\ SP!Sent' = SP!Sent /\ accepted' = accepted
         /\ \A v \in Workers : SP!Job(v)' = SP!Job(v)
         /\ \A v \in Workers \ {w} : wpc'[v] = wpc[v]
         /\ wpc'[w] \in {"send", "erase", "recycle"}
<1>1. SP!Active(w)
  BY DEF SP!Handles, SP!RegHandler, SP!MsgUnknown, SP!MsgLookup, SP!MsgSend,
         SP!ExitReply, SP!ExitErase, SP!Serving, SP!Active
<1>2. SP!Job(w) \in accepted /\ SP!Job(w) \notin handled
  BY <1>1 DEF SystemInv, SP!UnderWayOnce
<1>3. SP!Job(w) \in SP!Sent
  BY <1>2 DEF SP!Sent
<1>4. UNCHANGED <<contents, wtask, mpc, mtask, net, accepted>>
  BY DEF SP!Handles, SP!RegHandler, SP!MsgUnknown, SP!MsgLookup, SP!MsgSend,
         SP!ExitReply, SP!ExitErase, SP!HandlerReturns, SP!poolVars, SP!mainVars,
         SP!historyVars
<1>5. PICK to \in {"send", "erase", "recycle"} : wpc' = [wpc EXCEPT ![w] = to]
  BY DEF SP!Handles, SP!RegHandler, SP!MsgUnknown, SP!MsgLookup, SP!MsgSend,
         SP!ExitReply, SP!ExitErase, SP!HandlerReturns, SP!Goto
<1>6. DOMAIN wpc = Workers
  BY DEF SystemInv, SP!IInv, SP!TypeOK
<1>7. /\ \A v \in Workers \ {w} : wpc'[v] = wpc[v]
      /\ wpc'[w] \in {"send", "erase", "recycle"}
  BY <1>5, <1>6
<1>8. /\ SP!Job(w) \in Datagrams /\ SP!Job(w).name \in Names
      /\ SP!Job(w).addr \in Clients
  BY <1>3, SentIsTyped
<1> QED BY <1>2, <1>3, <1>4, <1>7, <1>8 DEF SP!Sent, SP!Job

\* A handler that answers keeps the rest of the invariant, if its answer is right.
LEMMA HandlerKeeps ==
  ASSUME SystemInv, ServerRuns, UNCHANGED clientVars, NEW w \in Workers,
         SP!Handles(w), NamesAreOwn', HandlersAgree', \A r \in replies' : Answers(r)
  PROVE  SystemInv'
<1>1. SP!IInv' /\ SP!UnderWayOnce'
  BY ServerIsGiven, SP!ServerKeeps DEF SystemInv, ServerRuns, SP!ServerNext
<1>2. SP!Sent' = SP!Sent /\ accepted' = accepted
  BY HandlerFrame
<1>3. ClientsTyped' /\ Numbered'
  BY <1>2 DEF SystemInv, ClientsTyped, Numbered, clientVars
<1>4. AnswersAgree'
  BY <1>2 DEF SystemInv, AnswersAgree, Answers, clientVars
<1> QED BY <1>1, <1>3, <1>4 DEF SystemInv

\* reg_handler: the book gets the name of the datagram, which is its sender's.
LEMMA RegHandlerAgrees ==
  ASSUME SystemInv, ServerRuns, UNCHANGED clientVars, NEW w \in Workers,
         SP!RegHandler(w)
  PROVE  SystemInv'
<1>1. SP!Handles(w)
  BY DEF SP!Handles
<1>2. /\ SP!Job(w) \in SP!Sent /\ SP!Job(w).type = "REG" /\ SP!Job(w).name \in Names
      /\ SP!Job(w).name = UserName[SP!Job(w).addr]
  BY <1>1, HandlerFrame DEF SP!RegHandler, SP!Serving, SystemInv, NamesAreOwn
<1>3. /\ client_book' = [client_book EXCEPT ![SP!Job(w).name] = SP!Job(w).addr]
      /\ UNCHANGED <<replies, target>>
  BY DEF SP!RegHandler, SP!workerVars
<1>4. \A n \in Names : client_book'[n] =
                          IF n = SP!Job(w).name THEN SP!Job(w).addr ELSE client_book[n]
  BY <1>3 DEF SystemInv, SP!IInv, SP!TypeOK
<1>5. NamesAreOwn'
  BY <1>1, <1>2, <1>4, HandlerFrame DEF SystemInv, NamesAreOwn
<1>6. DOMAIN wpc = Workers /\ wpc' = [wpc EXCEPT ![w] = "recycle"]
  BY DEF SP!RegHandler, SP!HandlerReturns, SP!Goto, SystemInv, SP!IInv, SP!TypeOK
<1>7. HandlersAgree'
  BY <1>1, <1>3, <1>6, HandlerFrame DEF SystemInv, HandlersAgree
<1>8. \A r \in replies' : Answers(r)
  BY <1>3 DEF SystemInv, AnswersAgree
<1> QED BY <1>1, <1>5, <1>7, <1>8, HandlerKeeps

\* msg_handler for an absent name.
LEMMA MsgUnknownAgrees ==
  ASSUME SystemInv, ServerRuns, UNCHANGED clientVars, NEW w \in Workers,
         SP!MsgUnknown(w)
  PROVE  SystemInv'
<1>1. SP!Handles(w)
  BY DEF SP!Handles
<1>2. UNCHANGED <<client_book, target>>
  BY DEF SP!MsgUnknown, SP!workerVars
<1>3. NamesAreOwn'
  BY <1>1, <1>2, HandlerFrame DEF SystemInv, NamesAreOwn
<1>4. DOMAIN wpc = Workers /\ wpc' = [wpc EXCEPT ![w] = "recycle"]
  BY DEF SP!MsgUnknown, SP!HandlerReturns, SP!Goto, SystemInv, SP!IInv, SP!TypeOK
<1>5. HandlersAgree'
  BY <1>1, <1>2, <1>4, HandlerFrame DEF SystemInv, HandlersAgree
<1>6. \A r \in replies' : r \in replies \/ r.kind = "unknown"
  BY DEF SP!MsgUnknown, SP!Reply
<1>7. \A r \in replies' : Answers(r)
  BY <1>6 DEF SystemInv, AnswersAgree, Answers
<1> QED BY <1>1, <1>3, <1>5, <1>7, HandlerKeeps

\* msg_handler's look in the book: the address it takes is that of the user named.
LEMMA MsgLookupAgrees ==
  ASSUME SystemInv, ServerRuns, UNCHANGED clientVars, NEW w \in Workers,
         SP!MsgLookup(w)
  PROVE  SystemInv'
<1>1. SP!Handles(w)
  BY DEF SP!Handles
<1>2. /\ UNCHANGED <<client_book, replies>> /\ SP!Job(w).type = "MSG"
      /\ client_book[SP!Job(w).name] # Unregistered
      /\ target' = [target EXCEPT ![w] = client_book[SP!Job(w).name]]
  BY DEF SP!MsgLookup, SP!Serving
<1>3. NamesAreOwn'
  BY <1>1, <1>2, HandlerFrame DEF SystemInv, NamesAreOwn
<1>4. /\ DOMAIN wpc = Workers /\ wpc' = [wpc EXCEPT ![w] = "send"]
      /\ DOMAIN target = Workers
  BY DEF SP!MsgLookup, SP!Goto, SystemInv, SP!IInv, SP!TypeOK
<1>5. SP!Job(w).name = UserName[target'[w]]
  BY <1>1, <1>2, <1>4, HandlerFrame DEF SystemInv, NamesAreOwn
<1>6. HandlersAgree'
  <2>1. \A v \in Workers : SP!Job(v)' = SP!Job(v)
    BY <1>1, HandlerFrame
  <2>2. \A v \in Workers \ {w} : wpc'[v] = wpc[v] /\ target'[v] = target[v]
    BY <1>2, <1>4
  <2>3. wpc'[w] = "send"
    BY <1>4
  <2> QED BY <1>2, <1>5, <2>1, <2>2, <2>3 DEF SystemInv, HandlersAgree
<1>7. \A r \in replies' : Answers(r)
  BY <1>2 DEF SystemInv, AnswersAgree
<1> QED BY <1>1, <1>3, <1>6, <1>7, HandlerKeeps

\* msg_handler's send: the text goes where the user it names was.
LEMMA MsgSendAgrees ==
  ASSUME SystemInv, ServerRuns, UNCHANGED clientVars, NEW w \in Workers,
         SP!MsgSend(w)
  PROVE  SystemInv'
<1>1. SP!Handles(w)
  BY DEF SP!Handles
<1>2. UNCHANGED client_book /\ wpc[w] = "send"
  BY DEF SP!MsgSend
<1>3. NamesAreOwn'
  BY <1>1, <1>2, HandlerFrame DEF SystemInv, NamesAreOwn
<1>4. /\ DOMAIN wpc = Workers /\ wpc' = [wpc EXCEPT ![w] = "recycle"]
      /\ DOMAIN target = Workers /\ target' = [target EXCEPT ![w] = Unregistered]
  BY DEF SP!MsgSend, SP!HandlerReturns, SP!Goto, SystemInv, SP!IInv, SP!TypeOK
<1>5. HandlersAgree'
  BY <1>1, <1>4, HandlerFrame DEF SystemInv, HandlersAgree
<1>6. \A r \in replies' :
         \/ r \in replies
         \/ r.kind = "text" /\ r.to = target[w] /\ r.re = SP!Job(w)
  BY DEF SP!MsgSend, SP!Reply
<1>7. SP!Job(w).name = UserName[target[w]]
  BY <1>2 DEF SystemInv, HandlersAgree
<1>8. \A r \in replies' : Answers(r)
  BY <1>6, <1>7 DEF SystemInv, AnswersAgree, Answers
<1> QED BY <1>1, <1>3, <1>5, <1>8, HandlerKeeps

\* exit_handler's answer goes to the client that sent the "exit".
LEMMA ExitReplyAgrees ==
  ASSUME SystemInv, ServerRuns, UNCHANGED clientVars, NEW w \in Workers,
         SP!ExitReply(w)
  PROVE  SystemInv'
<1>1. SP!Handles(w)
  BY DEF SP!Handles
<1>2. UNCHANGED <<client_book, target>> /\ SP!Job(w).type = "EXIT"
  BY DEF SP!ExitReply, SP!Serving
<1>3. NamesAreOwn'
  BY <1>1, <1>2, HandlerFrame DEF SystemInv, NamesAreOwn
<1>4. DOMAIN wpc = Workers /\ wpc' = [wpc EXCEPT ![w] = "erase"]
  BY DEF SP!ExitReply, SP!Goto, SystemInv, SP!IInv, SP!TypeOK
<1>5. HandlersAgree'
  BY <1>1, <1>2, <1>4, HandlerFrame DEF SystemInv, HandlersAgree
<1>6. \A r \in replies' :
         \/ r \in replies
         \/ r.kind = "exit" /\ r.to = SP!Job(w).addr /\ r.re = SP!Job(w)
  BY DEF SP!ExitReply, SP!Reply
<1>7. SP!Job(w) \in accepted
  BY <1>1, HandlerFrame
<1>8. \A r \in replies' : Answers(r)
  BY <1>2, <1>6, <1>7 DEF SystemInv, AnswersAgree, Answers
<1> QED BY <1>1, <1>3, <1>5, <1>8, HandlerKeeps

\* exit_handler strikes a name out: the entries that stay are as right as before.
LEMMA ExitEraseAgrees ==
  ASSUME SystemInv, ServerRuns, UNCHANGED clientVars, NEW w \in Workers,
         SP!ExitErase(w)
  PROVE  SystemInv'
<1>1. SP!Handles(w)
  BY DEF SP!Handles
<1>2. /\ client_book' = [client_book EXCEPT ![SP!Job(w).name] = Unregistered]
      /\ UNCHANGED <<replies, target>>
  BY DEF SP!ExitErase, SP!workerVars
<1>3. \A n \in Names : client_book'[n] # Unregistered => client_book'[n] = client_book[n]
  BY <1>2 DEF SystemInv, SP!IInv, SP!TypeOK
<1>4. NamesAreOwn'
  BY <1>1, <1>3, HandlerFrame DEF SystemInv, NamesAreOwn
<1>5. DOMAIN wpc = Workers /\ wpc' = [wpc EXCEPT ![w] = "recycle"]
  BY DEF SP!ExitErase, SP!HandlerReturns, SP!Goto, SystemInv, SP!IInv, SP!TypeOK
<1>6. HandlersAgree'
  BY <1>1, <1>2, <1>5, HandlerFrame DEF SystemInv, HandlersAgree
<1>7. \A r \in replies' : Answers(r)
  BY <1>2 DEF SystemInv, AnswersAgree
<1> QED BY <1>1, <1>4, <1>6, <1>7, HandlerKeeps

(****************************************************************************)
(* The invariant of the system.                                             *)
(****************************************************************************)

\* The processes start with nothing sent, nobody in the book and no answers.
LEMMA SystemBegins == Init => SystemInv
<1> SUFFICES ASSUME Init PROVE SystemInv
  OBVIOUS
<1>1. Client!Init /\ SP!ServerInit
  BY DEF Init, Server!ServerInit, SP!ServerInit, Server!PoolInit, SP!PoolInit,
         Server!Pushed, SP!Pushed, Server!NoBuffer, SP!NoBuffer
<1>2. net = {} /\ replies = {} /\ accepted = {} /\ mpc = "test"
  BY <1>1 DEF Client!Init, SP!ServerInit
<1>3. SP!IInv /\ SP!UnderWayOnce
  <2>1. net \subseteq Datagrams
    BY <1>2
  <2>2. SP!IInv
    BY <1>1, <2>1, ServerIsGiven, SP!InitIInv
  <2>3. SP!UnderWayOnce
    BY <1>1, <2>1, ServerIsGiven, SP!InitRefines
  <2> QED BY <2>2, <2>3
<1>4. SP!Sent = {}
  BY <1>2 DEF SP!Sent
<1>5. ClientsTyped
  <2>1. BufSize \in Nat /\ NoName \in Names /\ \A c \in Clients : Len(Script[c]) \in Nat
    BY SystemAssumption DEF Client!LinesAreTyped
  <2> QED BY <1>1, <2>1 DEF Client!Init, ClientsTyped
<1>6. Numbered
  BY <1>1, <1>4 DEF Client!Init, Numbered
<1>7. NamesAreOwn /\ HandlersAgree
  BY <1>1, <1>4 DEF SP!ServerInit, NamesAreOwn, HandlersAgree
<1>8. AnswersAgree
  BY <1>1, <1>2 DEF Client!Init, AnswersAgree
<1> QED BY <1>3, <1>5, <1>6, <1>7, <1>8 DEF SystemInv

\* What a step of the system is, as the lemmas above take it.
LEMMA SystemSteps ==
  ASSUME [Next]_vars
  PROVE  \/ ServerRuns /\ UNCHANGED clientVars
         \/ \E c \in Clients : /\ UNCHANGED serverVars
                               /\ \/ Client!RegUsers(c) \/ Client!RegFails(c)
                                  \/ /\ Paced => ~UnderWay(c)
                                     /\ \/ Client!SendExit(c) \/ Client!SendText(c)
                                        \/ Client!Reject(c)
                                  \/ Client!Receive(c)
         \/ /\ UNCHANGED serverVars /\ net' \subseteq net /\ replies' \subseteq replies
            /\ UNCHANGED <<spc, client_user_name, line, str_size, buf_clear, shown>>
<1>1. CASE ServerStep
  BY <1>1, SameServer
<1>2. CASE Lose
  BY <1>2 DEF Lose, clientVars
<1>3. ASSUME NEW c \in Clients, Registers(c) \/ Types(c) \/ Hears(c)
      PROVE  /\ UNCHANGED serverVars
             /\ \/ Client!RegUsers(c) \/ Client!RegFails(c)
                \/ /\ Paced => ~UnderWay(c)
                   /\ Client!SendExit(c) \/ Client!SendText(c) \/ Client!Reject(c)
                \/ Client!Receive(c)
  BY <1>3 DEF Registers, Types, Hears, Client!ReadLine
<1>4. ASSUME NEW c \in Clients, Interrupted(c)
      PROVE  /\ UNCHANGED serverVars /\ net' = net /\ replies' = replies
             /\ UNCHANGED <<spc, client_user_name, line, str_size, buf_clear, shown>>
  BY <1>4 DEF Interrupted, Client!Interrupt, Client!sendVars, Client!recvVars
<1>5. CASE UNCHANGED vars
  BY <1>5 DEF vars, clientVars
<1> QED BY <1>1, <1>2, <1>3, <1>4, <1>5 DEF Next

\* What a step of the server is, as the lemmas above take it.
LEMMA ServerSteps ==
  ASSUME SystemInv, ServerRuns, UNCHANGED clientVars
  PROVE  \/ \E w : SP!Main \/ (w \in Workers /\ SP!Worker(w) /\ ~SP!Handles(w))
         \/ \E w \in Workers : SP!Handles(w)
BY DEF ServerRuns

\* Every step keeps the invariant.
LEMMA SystemGoesOn == SystemInv /\ [Next]_vars => SystemInv'
<1> SUFFICES ASSUME SystemInv, [Next]_vars PROVE SystemInv'
  OBVIOUS
<1>1. CASE ServerRuns /\ UNCHANGED clientVars
  <2>1. ASSUME NEW w \in Workers, SP!Handles(w)
        PROVE  SystemInv'
    BY <1>1, <2>1, RegHandlerAgrees, MsgUnknownAgrees, MsgLookupAgrees,
       MsgSendAgrees, ExitReplyAgrees, ExitEraseAgrees DEF SP!Handles
  <2> QED BY <1>1, <2>1, ServerSteps, ServerMovesKeep
<1>2. ASSUME NEW c \in Clients, UNCHANGED serverVars,
             \/ Client!RegUsers(c) \/ Client!RegFails(c)
             \/ Client!SendExit(c) \/ Client!SendText(c) \/ Client!Reject(c)
             \/ Client!Receive(c)
      PROVE  SystemInv'
  BY <1>2, RegUsersKeeps, RegFailsKeeps, SendExitKeeps, SendTextKeeps, RejectKeeps,
     ReceiveKeeps
<1> QED BY <1>1, <1>2, SystemSteps, OthersKeep

\* The invariant holds in every state the system reaches.
THEOREM SystemIsSafe == Spec => []SystemInv
BY SystemBegins, SystemGoesOn, PTL DEF Spec

\* A text is only shown to the user it names: whatever is lost or overtaken, by
\* however many workers, no handler reads another's buffer and no name in the book
\* leads to another's address (reg_handler, msg_handler, recv_msg).
THEOREM TextsReachTheAddressee == Spec => []OnlyTheAddressee
<1>1. SystemInv => OnlyTheAddressee
  BY DEF SystemInv, AnswersAgree, Answers, OnlyTheAddressee
<1> QED BY <1>1, SystemIsSafe, PTL

(****************************************************************************)
(* Users who wait.                                                          *)
(****************************************************************************)

\* A step that sends nothing and leaves the lines, the names and the book alone.
LEMMA WaitStays ==
  ASSUME WaitInv, SystemInv', SP!Sent' \subseteq SP!Sent,
         UNCHANGED <<handled, client_book, client_user_name, line, str_size, buf_clear>>
  PROVE  WaitInv'
BY DEF WaitInv, LastLineUnderWay, ExitsAreNamed, FirstTextClears, ExitsAreFinal

\* When nothing of a client is under way, all it has sent is lost or handled.
LEMMA NothingUnderWay ==
  ASSUME NEW c \in Clients, ~UnderWay(c)
  PROVE  \A d \in SP!Sent \ handled : d.addr # c
BY DEF UnderWay, SP!Sent

\* The registration is the first thing a client sends.
LEMMA RegUsersWaits ==
  ASSUME WaitInv, NEW c \in Clients, Client!RegUsers(c), UNCHANGED serverVars
  PROVE  WaitInv'
<1> DEFINE d == [type |-> "REG", name |-> UserName[c], addr |-> c, no |-> 0]
<1>1. SystemInv' /\ SP!Sent' = SP!Sent \cup {d}
  BY RegUsersKeeps DEF WaitInv
<1>2. d.type = "REG" /\ d.addr = c /\ d.no = 0
  OBVIOUS
<1> HIDE DEF d
<1>3. /\ line[c] = 0 /\ \A e \in SP!Sent : e.addr # c
  BY DEF Client!RegUsers, WaitInv, SystemInv, Numbered
<1>4. /\ UNCHANGED <<handled, client_book, line, str_size, buf_clear>>
      /\ client_user_name' = [client_user_name EXCEPT ![c] = UserName[c]]
      /\ DOMAIN client_user_name = Clients
  BY DEF Client!RegUsers, serverVars, WaitInv, SystemInv, ClientsTyped
<1>5. /\ client_user_name'[c] = UserName[c]
      /\ \A b \in Clients : b # c => client_user_name'[b] = client_user_name[b]
  BY <1>4
<1>6. LastLineUnderWay'
  BY <1>1, <1>2, <1>3, <1>4 DEF WaitInv, LastLineUnderWay
<1>7. \A e \in SP!Sent : client_user_name'[e.addr] = client_user_name[e.addr]
  BY <1>3, <1>5, SentIsTyped DEF WaitInv
<1>8. ExitsAreNamed'
  BY <1>1, <1>2, <1>4, <1>5, <1>7 DEF WaitInv, ExitsAreNamed
<1>9. FirstTextClears' /\ ExitsAreFinal'
  BY <1>4 DEF WaitInv, FirstTextClears, ExitsAreFinal
<1> QED BY <1>1, <1>6, <1>8, <1>9 DEF WaitInv

\* A line that is typed while nothing of the client is under way.
LEMMA NextLineWaits ==
  ASSUME WaitInv, NEW c \in Clients, ~UnderWay(c), Client!ReadNext(c),
         SystemInv', UNCHANGED <<handled, client_book, client_user_name>>,
         \A d \in SP!Sent' : \/ d \in SP!Sent
                             \/ /\ d.addr = c /\ d.no = line[c] + 1 /\ d.type # "REG"
                                /\ d.type = "EXIT" => d.name = client_user_name[c],
         \A b \in Clients \ {c} :
            str_size'[b] = str_size[b] /\ buf_clear'[b] = buf_clear[b],
         Script[c][1].kind = "text" => buf_clear'[c]
  PROVE  WaitInv'
<1>1. /\ line[c] \in Nat /\ line'[c] = line[c] + 1 /\ line'[c] # 0
      /\ \A b \in Clients : b # c => line'[b] = line[b]
  BY DEF Client!ReadNext, WaitInv, SystemInv, ClientsTyped
<1>2. \A d \in SP!Sent \ handled : d.addr \in Clients /\ d.addr # c
  BY NothingUnderWay, SentIsTyped DEF WaitInv
<1>3. LastLineUnderWay'
  BY <1>1, <1>2 DEF WaitInv, LastLineUnderWay
<1>4. ExitsAreNamed'
  BY DEF WaitInv, ExitsAreNamed
<1>5. FirstTextClears'
  BY <1>1 DEF WaitInv, FirstTextClears
<1>6. ExitsAreFinal'
  BY DEF WaitInv, ExitsAreFinal
<1> QED BY <1>3, <1>4, <1>5, <1>6 DEF WaitInv

\* The line a client reads first, and any later one.
LEMMA LineRead ==
  ASSUME WaitInv, NEW c \in Clients, Client!ReadNext(c)
  PROVE  /\ Client!Typed(c) = Script[c][line[c] + 1]
         /\ line[c] \in Nat /\ line[c] + 1 \in 1..Len(Script[c])
         /\ line[c] = 0 => Client!Typed(c) = Script[c][1] /\ str_size[c] = BufSize
         /\ line[c] # 0 /\ Script[c][1].kind = "text" => buf_clear[c]
<1>1. /\ line[c] \in Nat /\ line'[c] = line[c] + 1 /\ line[c] + 1 \in 1..Len(Script[c])
  BY SystemAssumption DEF Client!ReadNext, WaitInv, SystemInv, ClientsTyped
<1> QED BY <1>1 DEF Client!Typed, WaitInv, FirstTextClears

\* "exit", when buf is clear, is sent under the name the user registered.
LEMMA SendExitWaits ==
  ASSUME UsersWait, WaitInv, NEW c \in Clients, ~UnderWay(c), Client!SendExit(c),
         UNCHANGED serverVars
  PROVE  WaitInv'
<1>1. Client!ReadNext(c) /\ Client!Typed(c).kind = "exit"
  BY DEF Client!SendExit
<1>2. Script[c][1].kind = "text" /\ buf_clear[c]
  BY <1>1, LineRead DEF UsersWait
<1>3. PICK n \in Client!Copied(c, client_user_name[c]) :
         SP!Sent' = SP!Sent \cup
           {[type |-> "EXIT", name |-> n, addr |-> c, no |-> line[c] + 1]}
  BY SendExitKeeps DEF WaitInv
<1>4. n = client_user_name[c]
  BY <1>2 DEF Client!Copied
<1>5. SystemInv'
  BY SendExitKeeps DEF WaitInv
<1>6. UNCHANGED <<handled, client_book, client_user_name, str_size, buf_clear>>
  BY DEF Client!SendExit, serverVars
<1> QED BY <1>1, <1>2, <1>3, <1>4, <1>5, <1>6, NextLineWaits

\* A text clears buf.
LEMMA SendTextWaits ==
  ASSUME UsersWait, WaitInv, NEW c \in Clients, ~UnderWay(c), Client!SendText(c),
         UNCHANGED serverVars
  PROVE  WaitInv'
<1>1. Client!ReadNext(c)
  BY DEF Client!SendText
<1>2. PICK n \in Names :
         SP!Sent' = SP!Sent \cup
           {[type |-> "MSG", name |-> n, addr |-> c, no |-> line[c] + 1]}
  BY SendTextKeeps DEF WaitInv
<1>3. SystemInv'
  BY SendTextKeeps DEF WaitInv
<1>4. UNCHANGED <<handled, client_book, client_user_name>>
  BY DEF Client!SendText, serverVars
<1>5. /\ str_size' = [str_size EXCEPT ![c] = BufSize]
      /\ buf_clear' = [buf_clear EXCEPT ![c] = TRUE]
      /\ DOMAIN str_size = Clients /\ DOMAIN buf_clear = Clients
  BY DEF Client!SendText, WaitInv, SystemInv, ClientsTyped
<1>6. /\ \A b \in Clients \ {c} : str_size'[b] = str_size[b] /\ buf_clear'[b] = buf_clear[b]
      /\ buf_clear'[c]
  BY <1>5
<1> QED BY <1>1, <1>2, <1>3, <1>4, <1>6, NextLineWaits

\* The first line is not rejected if it is a text: str still has all its room.
LEMMA RejectWaits ==
  ASSUME UsersWait, WaitInv, NEW c \in Clients, ~UnderWay(c), Client!Reject(c),
         UNCHANGED serverVars
  PROVE  WaitInv'
<1>1. Client!ReadNext(c)
  BY DEF Client!Reject
<1>2. SystemInv' /\ SP!Sent' \subseteq SP!Sent
  BY RejectKeeps DEF WaitInv
<1>3. UNCHANGED <<handled, client_book, client_user_name, buf_clear>>
  BY DEF Client!Reject, serverVars
<1>4. \A b \in Clients \ {c} : str_size'[b] = str_size[b]
  BY DEF Client!Reject, WaitInv, SystemInv, ClientsTyped
<1>5. Script[c][1].kind = "text" => line[c] # 0
  <2>1. ASSUME Script[c][1].kind = "text", line[c] = 0 PROVE FALSE
    <3>1. /\ Client!Typed(c) = Script[c][1] /\ str_size[c] = BufSize
          /\ 1 \in 1..Len(Script[c])
      BY <1>1, <2>1, LineRead
    <3>2. Client!Typed(c).at < str_size[c]
      <4>1. /\ Script[c][1].at \in Nat /\ Script[c][1].len \in Nat /\ BufSize \in Nat
            /\ Script[c][1].at <= Script[c][1].len /\ Script[c][1].len < BufSize
        BY <3>1, LineIsTyped
      <4>2. Script[c][1].at < BufSize
        BY <4>1
      <4> QED BY <3>1, <4>2
    <3> QED BY <2>1, <3>1, <3>2 DEF Client!Reject, Client!Readable
  <2> QED BY <2>1
<1>6. Script[c][1].kind = "text" => buf_clear'[c]
  BY <1>1, <1>3, <1>5, LineRead
<1> QED BY <1>1, <1>2, <1>3, <1>4, <1>6, NextLineWaits

\* A handler that does not strike out.
LEMMA HandlerWaits ==
  ASSUME WaitInv, NEW w \in Workers, SP!Handles(w), SystemInv', UNCHANGED clientVars,
         handled' \subseteq handled \cup {SP!Job(w)},
         handled \subseteq handled',
         \A c \in Clients :
            client_book'[UserName[c]] = c => client_user_name[c] = UserName[c],
         ExitsAreFinal'
  PROVE  WaitInv'
<1>1. SP!Sent' = SP!Sent
  BY HandlerFrame DEF WaitInv
<1>2. UNCHANGED <<line, client_user_name, str_size, buf_clear>>
  BY DEF clientVars
<1>3. LastLineUnderWay' /\ ExitsAreNamed' /\ FirstTextClears'
  BY <1>1, <1>2 DEF WaitInv, LastLineUnderWay, ExitsAreNamed, FirstTextClears
<1> QED BY <1>3 DEF WaitInv

\* A late registration cannot bring back a user who left: he had typed no line when
\* it was under way.
LEMMA RegHandlerWaits ==
  ASSUME UsersWait, WaitInv, NEW w \in Workers, SP!RegHandler(w), SystemInv',
         UNCHANGED clientVars
  PROVE  WaitInv'
<1> DEFINE j == SP!Job(w)
<1>1. SP!Handles(w)
  BY DEF SP!Handles
<1>2. /\ j \in SP!Sent /\ j \in accepted /\ j \notin handled
      /\ j.name \in Names /\ j.addr \in Clients
  BY <1>1, HandlerFrame DEF WaitInv
<1>3. /\ j.type = "REG" /\ handled' = handled \cup {j}
      /\ client_book' = [client_book EXCEPT ![j.name] = j.addr]
  BY DEF SP!RegHandler, SP!Serving, SP!HandlerReturns
<1> HIDE DEF j
<1>4. j.name = UserName[j.addr] /\ j.no = 0
  BY <1>2, <1>3 DEF WaitInv, SystemInv, NamesAreOwn, Numbered
<1>5. line[j.addr] = 0
  BY <1>2, <1>4 DEF WaitInv, LastLineUnderWay
<1>6. client_user_name[j.addr] = UserName[j.addr]
  BY <1>2, <1>3 DEF WaitInv, ExitsAreNamed
<1>7. \A c \in Clients : /\ UserName[c] \in Names
                         /\ UserName[c] = j.name <=> c = j.addr
  BY <1>2, <1>4, SystemAssumption DEF UsersWait
<1>8. \A c \in Clients :
         client_book'[UserName[c]] = IF c = j.addr THEN c ELSE client_book[UserName[c]]
  BY <1>3, <1>7 DEF WaitInv, SystemInv, SP!IInv, SP!TypeOK
<1>9. \A c \in Clients :
         client_book'[UserName[c]] = c => client_user_name[c] = UserName[c]
  BY <1>6, <1>8 DEF WaitInv, ExitsAreNamed
<1>10. \A d \in handled : d.type = "EXIT" => d.addr \in Clients /\ d.addr # j.addr
  <2>1. handled \subseteq SP!Sent
    BY DEF WaitInv, SystemInv, SP!UnderWayOnce, SP!Sent
  <2>2. ASSUME NEW d \in handled, d.type = "EXIT", d.addr = j.addr
        PROVE  FALSE
    <3>1. d.no \in Nat /\ d.no <= line[d.addr] /\ d.no # 0
      BY <2>1, <2>2, SentIsTyped DEF WaitInv, SystemInv, Numbered
    <3> QED BY <1>5, <2>2, <3>1
  <2> QED BY <2>1, <2>2, SentIsTyped DEF WaitInv
<1>11. ExitsAreFinal'
  BY <1>3, <1>8, <1>10 DEF WaitInv, ExitsAreFinal
<1> QED BY <1>1, <1>3, <1>9, <1>11, HandlerWaits DEF j

\* The handlers that leave the book alone handle no "exit" to its end.
LEMMA AnswersWait ==
  ASSUME UsersWait, WaitInv, NEW w \in Workers,
         SP!MsgUnknown(w) \/ SP!MsgLookup(w) \/ SP!MsgSend(w) \/ SP!ExitReply(w),
         SystemInv', UNCHANGED clientVars
  PROVE  WaitInv'
<1>1. SP!Handles(w) /\ client_book' = client_book
  BY DEF SP!Handles, SP!MsgUnknown, SP!MsgLookup, SP!MsgSend, SP!ExitReply
<1>2. \/ handled' = handled
      \/ handled' = handled \cup {SP!Job(w)} /\ SP!Job(w).type = "MSG"
  <2>1. CASE SP!MsgUnknown(w)
    BY <2>1 DEF SP!MsgUnknown, SP!Serving, SP!HandlerReturns
  <2>2. CASE SP!MsgSend(w)
    BY <2>2 DEF SP!MsgSend, SP!HandlerReturns, WaitInv, SystemInv, HandlersAgree
  <2>3. CASE SP!MsgLookup(w) \/ SP!ExitReply(w)
    BY <2>3 DEF SP!MsgLookup, SP!ExitReply, SP!historyVars
  <2> QED BY <2>1, <2>2, <2>3
<1>3. ExitsAreFinal'
  BY <1>1, <1>2 DEF WaitInv, ExitsAreFinal
<1>4. \A c \in Clients :
         client_book'[UserName[c]] = c => client_user_name[c] = UserName[c]
  BY <1>1 DEF WaitInv, ExitsAreNamed
<1> QED BY <1>1, <1>2, <1>3, <1>4, HandlerWaits

\* exit_handler strikes out the user who left, if he is in the book at all.
LEMMA ExitEraseWaits ==
  ASSUME UsersWait, WaitInv, NEW w \in Workers, SP!ExitErase(w), SystemInv',
         UNCHANGED clientVars
  PROVE  WaitInv'
<1> DEFINE j == SP!Job(w)
<1>1. SP!Handles(w)
  BY DEF SP!Handles
<1>2. j \in SP!Sent /\ j.name \in Names /\ j.addr \in Clients
  BY <1>1, HandlerFrame DEF WaitInv
<1>3. /\ j.type = "EXIT" /\ handled' = handled \cup {j}
      /\ client_book' = [client_book EXCEPT ![j.name] = Unregistered]
  BY DEF SP!ExitErase, SP!HandlerReturns, WaitInv, SystemInv, HandlersAgree
<1> HIDE DEF j
<1>4. \A c \in Clients : /\ UserName[c] \in Names
                         /\ client_book[UserName[c]] \in Clients \cup {Unregistered}
  BY SystemAssumption DEF WaitInv, SystemInv, SP!IInv, SP!TypeOK
<1>5. \A c \in Clients :
         client_book'[UserName[c]] = IF UserName[c] = j.name THEN Unregistered
                                     ELSE client_book[UserName[c]]
  BY <1>3, <1>4 DEF WaitInv, SystemInv, SP!IInv, SP!TypeOK
<1>6. j.name = client_user_name[j.addr]
  BY <1>2, <1>3 DEF WaitInv, ExitsAreNamed
<1>7. client_book'[UserName[j.addr]] = Unregistered
  <2>1. CASE j.name = UserName[j.addr]
    BY <1>2, <1>5, <2>1
  <2>2. CASE j.name # UserName[j.addr]
    <3>1. client_book[UserName[j.addr]] # j.addr
      BY <1>2, <1>6, <2>2 DEF WaitInv, ExitsAreNamed
    <3>2. ASSUME client_book[UserName[j.addr]] # Unregistered PROVE FALSE
      <4> DEFINE b == client_book[UserName[j.addr]]
      <4>1. b \in Clients /\ UserName[j.addr] = UserName[b]
        BY <1>2, <1>4, <3>2 DEF WaitInv, SystemInv, NamesAreOwn
      <4> QED BY <1>2, <3>1, <4>1 DEF UsersWait
    <3> QED BY <1>2, <1>5, <3>2
  <2> QED BY <2>1, <2>2
<1>8. \A d \in handled : d.addr \in Clients
  <2>1. handled \subseteq SP!Sent
    BY DEF WaitInv, SystemInv, SP!UnderWayOnce, SP!Sent
  <2> QED BY <2>1, SentIsTyped DEF WaitInv
<1>9. ExitsAreFinal'
  BY <1>3, <1>5, <1>7, <1>8 DEF WaitInv, ExitsAreFinal
<1>10. \A c \in Clients :
         client_book'[UserName[c]] = c => client_user_name[c] = UserName[c]
  BY <1>5, ServerIsGiven DEF WaitInv, ExitsAreNamed
<1> QED BY <1>1, <1>3, <1>9, <1>10, HandlerWaits DEF j

\* Nobody has left before anybody has come.
LEMMA WaitBegins == Init => WaitInv
<1> SUFFICES ASSUME Init PROVE WaitInv
  OBVIOUS
<1>1. SystemInv
  BY SystemBegins
<1>2. Client!Init /\ handled = {} /\ accepted = {} /\ net = {} /\ mpc = "test"
      /\ client_book = [n \in Names |-> Unregistered]
  BY DEF Init, Server!ServerInit, Client!Init
<1>3. SP!Sent = {}
  BY <1>2 DEF SP!Sent
<1>4. \A c \in Clients : client_book[UserName[c]] # c
  BY <1>2, ServerIsGiven, SystemAssumption
<1> QED BY <1>1, <1>2, <1>3, <1>4
        DEF Client!Init, WaitInv, LastLineUnderWay, ExitsAreNamed, FirstTextClears,
            ExitsAreFinal

\* Every step keeps the invariant of the users who wait.
LEMMA WaitGoesOn == UsersWait /\ WaitInv /\ [Next]_vars => WaitInv'
<1> SUFFICES ASSUME UsersWait, WaitInv, [Next]_vars PROVE WaitInv'
  OBVIOUS
<1>1. SystemInv /\ SystemInv'
  BY SystemGoesOn DEF WaitInv
<1>2. CASE ServerRuns /\ UNCHANGED clientVars
  <2>1. ASSUME NEW w \in Workers, SP!Handles(w)
        PROVE  WaitInv'
    BY <1>1, <1>2, <2>1, RegHandlerWaits, AnswersWait, ExitEraseWaits DEF SP!Handles
  <2>2. ASSUME NEW w, SP!Main \/ (w \in Workers /\ SP!Worker(w) /\ ~SP!Handles(w))
        PROVE  WaitInv'
    <3>1. SP!Sent' \subseteq SP!Sent /\ UNCHANGED <<client_book, handled>>
      BY <1>1, <1>2, <2>2, ServerMovesKeep
    <3> QED BY <1>1, <1>2, <3>1, WaitStays DEF clientVars
  <2> QED BY <1>1, <1>2, <2>1, <2>2, ServerSteps
<1>3. ASSUME NEW c \in Clients, UNCHANGED serverVars,
             \/ Client!RegUsers(c) \/ Client!RegFails(c)
             \/ /\ Paced => ~UnderWay(c)
                /\ Client!SendExit(c) \/ Client!SendText(c) \/ Client!Reject(c)
             \/ Client!Receive(c)
      PROVE  WaitInv'
  <2>1. CASE Client!RegUsers(c)
    BY <1>3, <2>1, RegUsersWaits
  <2>2. CASE Client!RegFails(c)
    <3>1. SP!Sent' \subseteq SP!Sent
      BY <1>1, <1>3, <2>2, RegFailsKeeps
    <3> QED BY <1>1, <1>3, <2>2, <3>1, WaitStays DEF Client!RegFails, serverVars
  <2>3. CASE /\ Paced => ~UnderWay(c)
             /\ Client!SendExit(c) \/ Client!SendText(c) \/ Client!Reject(c)
    BY <1>3, <2>3, SendExitWaits, SendTextWaits, RejectWaits DEF UsersWait
  <2>4. CASE Client!Receive(c)
    <3>1. SP!Sent' \subseteq SP!Sent
      BY <1>1, <1>3, <2>4, ReceiveKeeps
    <3>2. UNCHANGED <<client_user_name, line, str_size, buf_clear>>
      BY <2>4 DEF Client!Receive, Client!StartReceiving, Client!ShowText,
                  Client!ServerSaysExit, Client!sendVars
    <3> QED BY <1>1, <1>3, <3>1, <3>2, WaitStays DEF serverVars
  <2> QED BY <1>3, <2>1, <2>2, <2>3, <2>4
<1>4. CASE /\ UNCHANGED serverVars /\ net' \subseteq net /\ replies' \subseteq replies
           /\ UNCHANGED <<spc, client_user_name, line, str_size, buf_clear, shown>>
  <2>1. SP!Sent' \subseteq SP!Sent
    BY <1>1, <1>4, OthersKeep
  <2> QED BY <1>1, <1>4, <2>1, WaitStays DEF serverVars
<1> QED BY <1>2, <1>3, <1>4, SystemSteps

\* A user who waits between his lines and left through "exit" is out of the book
\* once nothing of his is under way, although exit_handler answers before it strikes
\* the name out and registrations may be overtaken or lost (exit_handler,
\* reg_handler, stress_test.sh).
THEOREM NobodyHaunts ==
  ASSUME UsersWait
  PROVE  Spec => []NoGhostUser
<1>1. WaitInv => NoGhostUser
  <2> SUFFICES ASSUME WaitInv, NEW c \in Clients, ToldExit(c), ~UnderWay(c)
               PROVE  client_book[UserName[c]] = Unregistered
    BY DEF NoGhostUser
  <2>1. PICK r \in shown[c] : r.kind = "exit"
    BY DEF ToldExit
  <2>2. r.re.type = "EXIT" /\ r.re.addr = c /\ r.re \in accepted
    BY <2>1 DEF WaitInv, SystemInv, AnswersAgree, Answers
  <2>3. r.re \in handled
    BY <2>2 DEF UnderWay
  <2> QED BY <2>2, <2>3 DEF WaitInv, ExitsAreFinal
<1>2. WaitInv /\ [Next]_vars => WaitInv'
  BY WaitGoesOn
<1> QED BY <1>1, <1>2, WaitBegins, PTL DEF Spec
===============================================================================

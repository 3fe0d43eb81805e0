------------------------------ MODULE ChatClient ------------------------------
(****************************************************************************)
(* Linux_17_UDPConversation/ChatClient.cpp, one copy per user: a thread     *)
(* that registers the user and sends what is typed, and a thread that shows *)
(* what arrives and ends when the server answers "exit".                    *)
(*                                                                          *)
(* Two pieces of memory the threads reuse decide what is sent.  str keeps   *)
(* the size of the last rejected line, and the next read only survives up   *)
(* to that size: string::resize blanks the rest.  buf is uninitialised      *)
(* until the first message has been sent, so the name copied into it need   *)
(* not end where it should.                                                 *)
(****************************************************************************)
EXTENDS Naturals, Sequences

CONSTANTS Clients,   (* the client processes, by the address they send from *)
          UserName,  (* UserName[c]: the name typed when c registers        *)
          NoName,    (* client_user_name before it is set                   *)
          Garbled,   (* a name followed by what the stack happened to hold  *)
          Script,    (* Script[c]: the lines typed at client c              *)
          BufSize    (* size of str: 1024                                   *)

\* A line is [kind, to, at, len]: "text" for user `to`, with its first space at
\* index `at`; "exit"; or "word", with no space in it.  len leaves the newline out.
LinesAreTyped ==
    /\ BufSize \in Nat
    /\ \A c \in Clients : \A i \in 1..Len(Script[c]) :
          /\ Script[c][i].kind \in {"text", "exit", "word"}
          /\ Script[c][i].len < BufSize
          /\ Script[c][i].at \in 0..Script[c][i].len

VARIABLES running_state,     (* cleared by SIGINT and SIGTERM               *)
          spc,               (* where the send thread stands                *)
          rpc,               (* where the receive thread stands             *)
          client_user_name,
          line,              (* line[c]: how many lines have been read      *)
          str_size,          (* str.size() when read is called              *)
          buf_clear,         (* buf has been zeroed                         *)
          rejected,          (* history: lines reported as malformed        *)
          shown,             (* history: what the receive thread printed    *)
          net,               (* datagrams on their way to the server        *)
          replies            (* datagrams on their way back                 *)

sendVars == <<spc, client_user_name, line, str_size, buf_clear, rejected>>
recvVars == <<rpc, shown>>

vars == <<running_state, spc, rpc, client_user_name, line, str_size, buf_clear,
          rejected, shown, net, replies>>

Init == /\ running_state = [c \in Clients |-> TRUE]
        /\ spc = [c \in Clients |-> "register"]
        /\ rpc = [c \in Clients |-> "start"]
        /\ client_user_name = [c \in Clients |-> NoName]
        /\ line = [c \in Clients |-> 0]
        /\ str_size = [c \in Clients |-> BufSize]
        /\ buf_clear = [c \in Clients |-> FALSE]
        /\ rejected = [c \in Clients |-> {}]
        /\ shown = [c \in Clients |-> {}]
        /\ net = {}
        /\ replies = {}

-----------------------------------------------------------------------------
(* The send thread.  The test of running_state at the top of its loop is    *)
(* part of the step before it.                                              *)

\* `no` tells the datagrams of a client apart: the line each was typed in.
Send(c, type, name) ==
    net' = net \cup {[type |-> type, name |-> name, addr |-> c, no |-> line'[c]]}

LoopOrExit(c, again) == IF running_state[c] THEN again ELSE "exited"

RegUsers(c) == /\ spc[c] = "register"
               /\ spc' = [spc EXCEPT ![c] = LoopOrExit(c, "read")]
               /\ client_user_name' = [client_user_name EXCEPT ![c] = UserName[c]]
               /\ line' = line
               /\ Send(c, "REG", UserName[c])
               /\ UNCHANGED <<running_state, str_size, buf_clear, rejected, recvVars,
                              replies>>

\* sendto fails: the user is not told apart from one who is registered.
RegFails(c) == /\ spc[c] = "register"
               /\ spc' = [spc EXCEPT ![c] = LoopOrExit(c, "read")]
               /\ UNCHANGED <<running_state, client_user_name, line, str_size,
                              buf_clear, rejected, recvVars, net, replies>>

\* The line read last, and how much of it is left in str.
Typed(c)   == Script[c][line'[c]]
Readable(c) == str_size[c]

\* The names the header can come to hold when n is copied into buf.
Copied(c, n) == IF buf_clear[c] THEN {n} ELSE {n, Garbled}

ReadNext(c) == /\ spc[c] = "read"
               /\ line[c] < Len(Script[c])
               /\ line' = [line EXCEPT ![c] = line[c] + 1]

\* send_exit: "exit" was read whole.
SendExit(c) == /\ ReadNext(c)
               /\ Typed(c).kind = "exit"
               /\ Typed(c).len <= Readable(c)
               /\ \E n \in Copied(c, client_user_name[c]) : Send(c, "EXIT", n)
               /\ spc' = [spc EXCEPT ![c] = "exited"]
               /\ UNCHANGED <<running_state, client_user_name, str_size, buf_clear,
                              rejected, recvVars, replies>>

\* The space after the addressee was read: the text is sent, whatever is left of it.
SendText(c) == /\ ReadNext(c)
               /\ Typed(c).kind = "text"
               /\ Typed(c).at < Readable(c)
               /\ \E n \in Copied(c, Typed(c).to) : Send(c, "MSG", n)
               /\ str_size' = [str_size EXCEPT ![c] = BufSize]
               /\ buf_clear' = [buf_clear EXCEPT ![c] = TRUE]
               /\ spc' = [spc EXCEPT ![c] = LoopOrExit(c, "read")]
               /\ UNCHANGED <<running_state, client_user_name, rejected, recvVars,
                              replies>>

\* No space in what is left of the line, and it is not "exit": reported, and str
\* keeps the line's size.
Reject(c) == /\ ReadNext(c)
             /\ ~(Typed(c).kind = "exit" /\ Typed(c).len <= Readable(c))
             /\ ~(Typed(c).kind = "text" /\ Typed(c).at < Readable(c))
             /\ str_size' = [str_size EXCEPT ![c] = Typed(c).len]
             /\ rejected' = [rejected EXCEPT ![c] = @ \cup {line'[c]}]
             /\ spc' = [spc EXCEPT ![c] = LoopOrExit(c, "read")]
             /\ UNCHANGED <<running_state, client_user_name, buf_clear, recvVars, net,
                            replies>>

ReadLine(c) == SendExit(c) \/ SendText(c) \/ Reject(c)

-----------------------------------------------------------------------------
(* The receive thread.                                                      *)

StartReceiving(c) == /\ rpc[c] = "start"
                     /\ rpc' = [rpc EXCEPT ![c] = LoopOrExit(c, "recv")]
                     /\ UNCHANGED <<running_state, sendVars, shown, net, replies>>

ShowText(c) == /\ rpc[c] = "recv"
               /\ \E r \in replies :
                     /\ r.to = c /\ r.kind # "exit"
                     /\ replies' = replies \ {r}
                     /\ shown' = [shown EXCEPT ![c] = @ \cup {r}]
               /\ rpc' = [rpc EXCEPT ![c] = LoopOrExit(c, "recv")]
               /\ UNCHANGED <<running_state, sendVars, net>>

ServerSaysExit(c) == /\ rpc[c] = "recv"
                     /\ \E r \in replies :
                           /\ r.to = c /\ r.kind = "exit"
                           /\ replies' = replies \ {r}
                           /\ shown' = [shown EXCEPT ![c] = @ \cup {r}]
                     /\ rpc' = [rpc EXCEPT ![c] = "exited"]
                     /\ UNCHANGED <<running_state, sendVars, net>>

Receive(c) == StartReceiving(c) \/ ShowText(c) \/ ServerSaysExit(c)

\* signal_handler; read and recvfrom are restarted and do not return.
Interrupt(c) == /\ running_state[c]
                /\ running_state' = [running_state EXCEPT ![c] = FALSE]
                /\ UNCHANGED <<sendVars, recvVars, net, replies>>

Register(c) == RegUsers(c) \/ RegFails(c)

\* main joins both threads.
Ended(c) == spc[c] = "exited" /\ rpc[c] = "exited"

-----------------------------------------------------------------------------
TypeOK == /\ running_state \in [Clients -> BOOLEAN]
          /\ spc \in [Clients -> {"register", "read", "exited"}]
          /\ rpc \in [Clients -> {"start", "recv", "exited"}]
          /\ \A c \in Clients : client_user_name[c] \in {NoName, UserName[c]}
          /\ \A c \in Clients : line[c] \in 0..Len(Script[c])
          /\ str_size \in [Clients -> 0..BufSize]
          /\ buf_clear \in [Clients -> BOOLEAN]
          /\ \A c \in Clients : rejected[c] \subseteq 1..line[c]
==============================================================================

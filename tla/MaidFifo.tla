------------------------------- MODULE MaidFifo -------------------------------
(****************************************************************************)
(* Linux_5_ProcessCommunication: maid_server reads what any number of       *)
(* stranger_clients write into a named pipe.  The server opens the pipe for *)
(* reading and writing, so that it is never without a writer and read never *)
(* returns 0.  A message is written in one piece; a read takes all there    *)
(* is, which fits the server's buffer.                                      *)
(****************************************************************************)
EXTENDS Naturals, Sequences

CONSTANTS Clients, Actions   (* bound: what a client says before it leaves  *)

Server == "maid"
Exit   == "exit"

VARIABLES fifo,     (* "none", "there", or "unlinked" with its users left   *)
          pipe,     (* what was written and not read                        *)
          maid,     (* "start", "loop" or "gone"                            *)
          client,   (* client[c]: "start", "ask", "lost" (no such fifo), "left" *)
          says,     (* says[c]: how often c has said something              *)
          heard,    (* history: what the last read of the server returned   *)
          merged    (* history: an exit was read together with other words  *)

vars == <<fifo, pipe, maid, client, says, heard, merged>>

Init == /\ fifo \in {"none", "there"} /\ pipe = <<>> /\ maid = "start"
        /\ client = [c \in Clients |-> "start"] /\ says = [c \in Clients |-> 0]
        /\ heard = <<>> /\ merged = FALSE

-----------------------------------------------------------------------------
\* A fifo that is there already is used.
MakeFifo == /\ maid = "start" /\ maid' = "loop"
            /\ fifo' = "there"
            /\ UNCHANGED <<pipe, client, says, heard, merged>>

\* Mutant: opened for reading only, the pipe ends with its last writer.
ReadsOnly == /\ maid = "loop"
             /\ pipe # <<>> \/ \A c \in Clients : client[c] = "left"
             /\ heard' = pipe /\ pipe' = <<>>
             /\ maid' = IF heard' \in {<<Exit>>, <<>>} THEN "gone" ELSE "loop"
             /\ merged' = (merged \/ (Len(pipe) > 1 /\ \E k \in DOMAIN pipe : pipe[k] = Exit))
             /\ fifo' = IF maid' = "gone" THEN "unlinked" ELSE fifo
             /\ UNCHANGED <<client, says>>

\* read, strcmp with "exit", and after the loop close and unlink.
ReadPipe == /\ maid = "loop"
            /\ pipe # <<>>
            /\ heard' = pipe /\ pipe' = <<>>
            /\ maid' = IF heard' = <<Exit>> THEN "gone" ELSE "loop"
            /\ merged' = (merged \/ (Len(pipe) > 1 /\ \E k \in DOMAIN pipe : pipe[k] = Exit))
            /\ fifo' = IF maid' = "gone" THEN "unlinked" ELSE fifo
            /\ UNCHANGED <<client, says>>

-----------------------------------------------------------------------------
\* open blocks until the server has the pipe open; without a fifo it fails,
\* which the client does not notice.
OpenFifo(c) == /\ client[c] = "start"
               /\ \/ fifo = "there" /\ maid = "loop" /\ client' = [client EXCEPT ![c] = "ask"]
                  \/ fifo # "there" /\ client' = [client EXCEPT ![c] = "lost"]
               /\ UNCHANGED <<fifo, pipe, maid, says, heard, merged>>

\* An action is sent, and the client asks for the next.  Without a fifo or a
\* server write fails: the client exits, or dies of SIGPIPE.
Say(c) == /\ client[c] \in {"ask", "lost"} /\ says[c] < Actions
          /\ says' = [says EXCEPT ![c] = @ + 1]
          /\ IF client[c] = "ask" /\ maid = "loop"
             THEN pipe' = Append(pipe, c) /\ UNCHANGED client
             ELSE client' = [client EXCEPT ![c] = "left"] /\ UNCHANGED pipe
          /\ UNCHANGED <<fifo, maid, heard, merged>>

\* "exit" is sent as it is, "stop" is not sent.
Leave(c) == /\ client[c] \in {"ask", "lost"}
            /\ client' = [client EXCEPT ![c] = "left"]
            /\ \/ UNCHANGED pipe
               \/ client[c] = "ask" /\ maid = "loop" /\ pipe' = Append(pipe, Exit)
            /\ UNCHANGED <<fifo, maid, says, heard, merged>>

\* The server waits in read for the next client.
Waiting == /\ pipe = <<>> /\ maid # "start" /\ \A c \in Clients : client[c] = "left"
           /\ UNCHANGED vars

Maid == MakeFifo \/ ReadPipe
Next == Maid \/ (\E c \in Clients : OpenFifo(c) \/ Say(c) \/ Leave(c)) \/ Waiting

-----------------------------------------------------------------------------
\* The server ends for nothing but the word, read alone: not when all its
\* clients have gone (maid_server.c lines 10 and 41).
OnlyExitStops == maid = "gone" => heard = <<Exit>>

\* A client that leaves with the word stops the server, unless the word is read
\* together with what others said (line 46 compares the whole of it).
ExitStops == (\E k \in DOMAIN pipe : pipe[k] = Exit) ~> (maid = "gone" \/ merged)
===============================================================================

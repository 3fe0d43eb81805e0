------------------------------ MODULE ChatServer ------------------------------
(****************************************************************************)
(* Linux_17_UDPConversation, the server: main receives datagrams into       *)
(* buffers of the pool and queues them; worker threads take them and run    *)
(* the handler of their type, which keeps client_book and answers.          *)
(*                                                                          *)
(* client_book is only touched under book_mutex_, and each handler holds it *)
(* for one short stretch: that stretch is one step.  Around it the handlers *)
(* interleave.  The datagrams are those ChatClient sends: a type of         *)
(* udp_msg_type_t, a name, the address they come from.                      *)
(****************************************************************************)
EXTENDS BufferPool, FiniteSets

CONSTANTS Workers,      (* worker_threads                                   *)
          Names,        (* user names                                       *)
          Addrs,        (* client addresses                                 *)
          Unregistered  (* what client_book holds for an absent name        *)

Types == {"REG", "MSG", "EXIT"}

ASSUME ServerAssumption ==
    /\ IsFiniteSet(Workers)
    /\ Unregistered \notin Addrs
    /\ \A d \in Datagrams : d.type \in Types /\ d.name \in Names /\ d.addr \in Addrs

VARIABLES running_state,  (* cleared by SIGINT and SIGTERM                  *)
          mpc,      (* where main stands                                    *)
          mtask,    (* main's local task: the buffer it received into       *)
          sem,      (* value of the semaphore                               *)
          posted,   (* tokens the destructor has posted                     *)
          wpc,      (* wpc[w]: where worker w stands                        *)
          wtask,    (* wtask[w]: the buffer the worker's shared_ptr owns    *)
          target,   (* target[w]: msg_handler's target_addr                 *)
          client_book,
          net,      (* datagrams on their way to the server                 *)
          replies,  (* datagrams on their way back                          *)
          accepted, (* history: the datagrams that were queued              *)
          handled   (* history: the datagrams whose handler returned        *)

mainVars    == <<mpc, mtask, posted>>
workerVars  == <<wpc, wtask, target>>
historyVars == <<accepted, handled>>

vars == <<free_stack_, used_stack_, capacity, contents, running_state, mpc,
          mtask, sem, posted, wpc, wtask, target, client_book, net, replies,
          accepted, handled>>

ServerInit == /\ PoolInit
              /\ running_state = TRUE
              /\ mpc = "test"
              /\ mtask = NoBuffer
              /\ sem = 0
              /\ posted = 0
              /\ wpc = [w \in Workers |-> "test"]
              /\ wtask = [w \in Workers |-> NoBuffer]
              /\ target = [w \in Workers |-> Unregistered]
              /\ client_book = [n \in Names |-> Unregistered]
              /\ replies = {}
              /\ accepted = {}
              /\ handled = {}

-----------------------------------------------------------------------------
(* main                                                                     *)

MainTest == /\ mpc = "test"
            /\ mpc' = IF running_state THEN "get" ELSE "close"
            /\ UNCHANGED <<poolVars, running_state, mtask, sem, posted, workerVars,
                           client_book, net, replies, historyVars>>

MainGet == /\ mpc = "get"
           /\ \E b \in {Enlarged} \cup 1..capacity :
                 GetEmptyBuffer(b) /\ mtask' = b
           /\ mpc' = "recv"
           /\ UNCHANGED <<running_state, sem, posted, workerVars, client_book, net,
                          replies, historyVars>>

\* The network delivers any datagram that was sent, in any order.
MainReceive == /\ mpc = "recv"
               /\ \E d \in net : FillBuffer(mtask, d) /\ net' = net \ {d}
               /\ mpc' = "save"
               /\ UNCHANGED <<running_state, mtask, sem, posted, workerVars,
                              client_book, replies, historyVars>>

\* Mutants: the error path keeps the buffer, or goes on to the post.
MainReceiveLeaks == /\ mpc = "recv"
                    /\ mtask' = NoBuffer
                    /\ mpc' = "test"
                    /\ UNCHANGED <<poolVars, running_state, sem, posted, workerVars,
                                   client_book, net, replies, historyVars>>

MainReceivePosts == /\ mpc = "recv"
                    /\ RecycleBuffer(mtask)
                    /\ mtask' = NoBuffer
                    /\ mpc' = "post"
                    /\ UNCHANGED <<running_state, sem, posted, workerVars,
                                   client_book, net, replies, historyVars>>

MainReceiveFails == /\ mpc = "recv"
                    /\ RecycleBuffer(mtask)
                    /\ mtask' = NoBuffer
                    /\ mpc' = "test"
                    /\ UNCHANGED <<running_state, sem, posted, workerVars,
                                   client_book, net, replies, historyVars>>

\* add_task: the queue first ...
MainSave == /\ mpc = "save"
            /\ SaveTaskBuffer(mtask)
            /\ accepted' = accepted \cup {contents[mtask]}
            /\ mtask' = NoBuffer
            /\ mpc' = "post"
            /\ UNCHANGED <<running_state, sem, posted, workerVars, client_book, net,
                           replies, handled>>

\* Mutant: the semaphore is forgotten.
MainPostForgotten == /\ mpc = "post"
                     /\ mpc' = "test"
                     /\ UNCHANGED <<poolVars, running_state, mtask, sem, posted,
                                    workerVars, client_book, net, replies,
                                    historyVars>>

\* ... then the semaphore.
MainPost == /\ mpc = "post"
            /\ sem' = sem + 1
            /\ mpc' = "test"
            /\ UNCHANGED <<poolVars, running_state, mtask, posted, workerVars,
                           client_book, net, replies, historyVars>>

CloseSocket == /\ mpc = "close"
               /\ mpc' = "posting"
               /\ UNCHANGED <<poolVars, running_state, mtask, sem, posted,
                              workerVars, client_book, net, replies, historyVars>>

\* Mutant: the loop over the workers does not end with the last one.
DtorPostAgain == /\ mpc = "posting"
                 /\ posted' = posted + 1
                 /\ sem' = sem + 1
                 /\ UNCHANGED <<poolVars, running_state, mpc, mtask, workerVars,
                                client_book, net, replies, historyVars>>

\* Mutant: the sem_post is missing.
DtorPostForgotten == /\ mpc = "posting"
                     /\ posted < Cardinality(Workers)
                     /\ posted' = posted + 1
                     /\ UNCHANGED <<poolVars, running_state, mpc, mtask, sem,
                                    workerVars, client_book, net, replies,
                                    historyVars>>

\* ~ChatServer: one post per worker, then the joins.
DtorPost == /\ mpc = "posting"
            /\ posted < Cardinality(Workers)
            /\ posted' = posted + 1
            /\ sem' = sem + 1
            /\ UNCHANGED <<poolVars, running_state, mpc, mtask, workerVars,
                           client_book, net, replies, historyVars>>

DtorJoin == /\ mpc = "posting"
            /\ posted = Cardinality(Workers)
            /\ \A w \in Workers : wpc[w] = "exited"
            /\ mpc' = "done"
            /\ UNCHANGED <<poolVars, running_state, mtask, sem, posted, workerVars,
                           client_book, net, replies, historyVars>>

Main == \/ MainTest \/ MainGet \/ MainReceive \/ MainReceiveFails \/ MainSave
        \/ MainPost \/ CloseSocket \/ DtorPost \/ DtorJoin

-----------------------------------------------------------------------------
(* worker_routine                                                           *)

Goto(w, to) == wpc' = [wpc EXCEPT ![w] = to]

WorkerTest(w) == /\ wpc[w] = "test"
                 /\ Goto(w, IF running_state THEN "wait" ELSE "exited")
                 /\ UNCHANGED <<poolVars, running_state, mainVars, sem, wtask,
                                target, client_book, net, replies, historyVars>>

SemWait(w) == /\ wpc[w] = "wait"
              /\ sem > 0
              /\ sem' = sem - 1
              /\ Goto(w, "take")
              /\ UNCHANGED <<poolVars, running_state, mainVars, wtask, target,
                             client_book, net, replies, historyVars>>

TakeTask(w) == /\ wpc[w] = "take"
               /\ \E b \in 1..capacity :
                     GetTaskBuffer(b) /\ wtask' = [wtask EXCEPT ![w] = b]
               /\ Goto(w, "serve")
               /\ UNCHANGED <<running_state, mainVars, sem, target, client_book,
                              net, replies, historyVars>>

\* get_task_buffer returns nullptr and msg_server dereferences it: the process
\* is killed by SIGSEGV.
TakeNull(w) == /\ wpc[w] = "take"
               /\ used_stack_ = <<>>
               /\ Goto(w, "crashed")
               /\ UNCHANGED <<poolVars, running_state, mainVars, sem, wtask,
                              target, client_book, net, replies, historyVars>>

-----------------------------------------------------------------------------
(* The handlers: what worker w does with the datagram in its buffer.        *)

Job(w) == contents[wtask[w]]

\* main closes the socket before it joins the workers: a later sendto fails, and
\* the handlers go on regardless.
SocketOpen == mpc \notin {"posting", "done"}

Reply(w, to, kind) ==
    replies' = IF SocketOpen
               THEN replies \cup {[to |-> to, kind |-> kind, re |-> Job(w)]}
               ELSE replies

HandlerReturns(w) == /\ handled' = handled \cup {Job(w)}
                     /\ Goto(w, "recycle")
                     /\ UNCHANGED accepted

Serving(w, type) == wpc[w] = "serve" /\ Job(w).type = type

RegHandler(w) == /\ Serving(w, "REG")
                 /\ client_book' = [client_book EXCEPT ![Job(w).name] = Job(w).addr]
                 /\ HandlerReturns(w)
                 /\ UNCHANGED <<poolVars, running_state, mainVars, sem, wtask,
                                target, net, replies>>

\* msg_handler for a name that is not in the book: the sender is told.
MsgUnknown(w) == /\ Serving(w, "MSG")
                 /\ client_book[Job(w).name] = Unregistered
                 /\ Reply(w, Job(w).addr, "unknown")
                 /\ HandlerReturns(w)
                 /\ UNCHANGED <<poolVars, running_state, mainVars, sem, wtask,
                                target, client_book, net>>

\* Otherwise the address is copied out of the book, and the text sent to it
\* when the book may already have changed.
MsgLookup(w) == /\ Serving(w, "MSG")
                /\ client_book[Job(w).name] # Unregistered
                /\ target' = [target EXCEPT ![w] = client_book[Job(w).name]]
                /\ Goto(w, "send")
                /\ UNCHANGED <<poolVars, running_state, mainVars, sem, wtask,
                               client_book, net, replies, historyVars>>

MsgSendEchoes(w) == /\ wpc[w] = "send"
                    /\ Reply(w, Job(w).addr, "text")
                    /\ target' = [target EXCEPT ![w] = Unregistered]
                    /\ HandlerReturns(w)
                    /\ UNCHANGED <<poolVars, running_state, mainVars, sem, wtask,
                                   client_book, net>>

MsgSend(w) == /\ wpc[w] = "send"
              /\ Reply(w, target[w], "text")
              /\ target' = [target EXCEPT ![w] = Unregistered]
              /\ HandlerReturns(w)
              /\ UNCHANGED <<poolVars, running_state, mainVars, sem, wtask,
                             client_book, net>>

\* Mutant: the leaving client is not answered.
ExitReplySilent(w) == /\ Serving(w, "EXIT")
                      /\ Goto(w, "erase")
                      /\ UNCHANGED <<poolVars, running_state, mainVars, sem, wtask,
                                     target, client_book, net, replies, historyVars>>

\* exit_handler answers first and strikes the name out afterwards.
ExitReply(w) == /\ Serving(w, "EXIT")
                /\ Reply(w, Job(w).addr, "exit")
                /\ Goto(w, "erase")
                /\ UNCHANGED <<poolVars, running_state, mainVars, sem, wtask,
                               target, client_book, net, historyVars>>

\* Mutant: the name stays in the book.
ExitKeeps(w) == /\ wpc[w] = "erase"
                /\ HandlerReturns(w)
                /\ UNCHANGED <<poolVars, running_state, mainVars, sem, wtask, target,
                               client_book, net, replies>>

ExitErase(w) == /\ wpc[w] = "erase"
                /\ client_book' = [client_book EXCEPT ![Job(w).name] = Unregistered]
                /\ HandlerReturns(w)
                /\ UNCHANGED <<poolVars, running_state, mainVars, sem, wtask,
                               target, net, replies>>

\* The shared_ptr goes out of scope and its deleter recycles the buffer.
Recycle(w) == /\ wpc[w] = "recycle"
              /\ RecycleBuffer(wtask[w])
              /\ wtask' = [wtask EXCEPT ![w] = NoBuffer]
              /\ Goto(w, "test")
              /\ UNCHANGED <<running_state, mainVars, sem, target, client_book,
                             net, replies, historyVars>>

Worker(w) == \/ WorkerTest(w) \/ SemWait(w) \/ TakeTask(w) \/ TakeNull(w)
             \/ RegHandler(w) \/ MsgUnknown(w) \/ MsgLookup(w) \/ MsgSend(w)
             \/ ExitReply(w) \/ ExitErase(w) \/ Recycle(w)

-----------------------------------------------------------------------------
\* signal_handler.  signal() restarts the calls it interrupts: neither recvfrom
\* nor sem_wait returns because of it.
Signal == /\ running_state
          /\ running_state' = FALSE
          /\ UNCHANGED <<poolVars, mainVars, sem, workerVars, client_book, net,
                         replies, historyVars>>

Crashed == \E w \in Workers : wpc[w] = "crashed"

ServerNext == /\ ~Crashed
              /\ Main \/ Signal \/ \E w \in Workers : Worker(w)

\* The process has ended: the only states in which it takes no step.
Ended == (Crashed \/ mpc = "done") /\ UNCHANGED vars

-----------------------------------------------------------------------------
(* The server by itself: everything the clients will send is under way from *)
(* the start, and what main never receives was lost.                        *)

Init == ServerInit /\ net = Datagrams

Next == ServerNext \/ Ended

Spec == Init /\ [][Next]_vars

\* Threads are scheduled, and a worker that keeps finding a token gets one.  A
\* datagram need not arrive, recvfrom need not fail, nobody need send a signal.
Fairness == /\ WF_vars(~Crashed /\ mpc # "recv" /\ Main)
            /\ \A w \in Workers : SF_vars(~Crashed /\ Worker(w))

FairSpec == Spec /\ Fairness

-----------------------------------------------------------------------------
MainPC   == {"test", "get", "recv", "save", "post", "close", "posting", "done"}
WorkerPC == {"test", "wait", "take", "serve", "send", "erase", "recycle",
             "exited", "crashed"}

TypeOK == /\ PoolTypeOK
          /\ running_state \in BOOLEAN
          /\ mpc \in MainPC
          /\ mtask \in 0..capacity
          /\ sem \in Nat
          /\ posted \in 0..Cardinality(Workers)
          /\ wpc \in [Workers -> WorkerPC]
          /\ wtask \in [Workers -> 0..capacity]
          /\ target \in [Workers -> Addrs \cup {Unregistered}]
          /\ client_book \in [Names -> Addrs \cup {Unregistered}]
          /\ net \in SUBSET Datagrams
          /\ replies \in SUBSET [to : Addrs, kind : {"unknown", "text", "exit"},
                                 re : Datagrams]
          /\ accepted \in SUBSET Datagrams
          /\ handled \in SUBSET Datagrams

\* Every buffer has exactly one holder: the free stack, the queue, main, or one
\* worker.  So a buffer is never received into while a worker reads it, none is
\* recycled twice and none is lost, on the error path of recvfrom either.
OneHolder ==
    /\ PoolHoldsOnce
    /\ mtask # NoBuffer => ~InPool(mtask)
    /\ \A w \in Workers : wtask[w] # NoBuffer => ~InPool(wtask[w]) /\ wtask[w] # mtask
    /\ \A v, w \in Workers : wtask[v] # NoBuffer /\ wtask[v] = wtask[w] => v = w
    /\ \A b \in 1..capacity : InPool(b) \/ mtask = b \/ \E w \in Workers : wtask[w] = b

\* Workers that took a token and have not yet asked the pool for its task.
Claimants == {w \in Workers : wpc[w] = "take"}

\* main owes the semaphore the token of the task it has queued.
Owed == IF mpc = "post" THEN 1 ELSE 0

\* Tokens and tasks balance: what is in the semaphore, with the workers and owed
\* by main is one token per queued task, and those the destructor posted.
TokensBalance ==
    ~Crashed => sem + Cardinality(Claimants) + Owed = Len(used_stack_) + posted

\* get_task_buffer's nullptr never reaches a worker before the destructor posts.
NullOnlyAtShutdown == \A w \in Workers : wpc[w] = "crashed" => posted > 0

-----------------------------------------------------------------------------
(* The server seen as a work queue of datagrams: a worker runs one from the *)
(* moment it took its buffer off the queue to the return of the handler.    *)

Waiting == [i \in 1..Len(used_stack_) |-> contents[used_stack_[i]]]

Running == [w \in Workers |-> IF wpc[w] \in {"serve", "send", "erase"}
                              THEN Job(w) ELSE Zeroed]

WQ == INSTANCE WorkQueue WITH Tasks    <- Datagrams,
                              NoTask   <- Zeroed,
                              waiting  <- Waiting,
                              running  <- Running,
                              accepted <- accepted,
                              finished <- handled

\* Every datagram that was queued is handled once, oldest first, by a worker
\* that sees exactly the bytes that were received, whatever is received into the
\* recycled buffers meanwhile.
ImplementsWorkQueue == WQ!Spec

\* A datagram that was queued is handled, unless the server is told to stop.
DatagramHandled ==
    \A d \in Datagrams : (d \in accepted) ~> (d \in handled \/ ~running_state)

\* Once a signal has come and recvfrom has returned, the process ends, with its
\* workers joined or on the null pointer of the shutdown: no worker is left
\* waiting for a token.  (As long as recvfrom is waited for, nothing ends it:
\* signal() restarts the call.)
SignalIsSeen ==
    (~running_state /\ mpc \notin {"get", "recv"}) ~> (Crashed \/ mpc = "done")
==============================================================================

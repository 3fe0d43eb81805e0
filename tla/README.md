# Verification of LinuxLearning

TLA+ models of the concurrent programs in this repository, TLC configurations
that check them on small instances, and TLAPS proofs about the most important of
them. `PROJECT.json` lists the parts of the repository, the runs, the mutants
(one plausible bug per property, which the property must notice), where each
definition comes from (`map`), the disagreements found, and the hazards.

    tlc -workers 2 -config ChatServer.cfg MCChatServer     # a run
    tlapm ChatServerProofs.tla                             # a proof

`PROJECT.json` names the module of each run. Paths below are relative to `src/`.

Contents: [1 Inventory](#1-inventory) · [2 Plan](#2-plan) ·
[3 Modules](#3-modules-and-the-code) · [4 Runs](#4-runs) ·
[5 Fairness](#5-fairness) · [6 Proofs](#6-proofs) ·
[7 Not modelled](#7-what-is-not-modelled)

## 1 Inventory

The repository is a course in Linux system programming: 23 directories, each a
small program or a pair of programs. They share no code. What
they have in common is the subject, several threads or processes and what they
share, and the same few constructions come back: a queue with a mutex and a
semaphore, a resource counted by hand, a loop that polls a flag.

### The pools: `Linux_14_ThreadPool`, `Linux_14_ThreadPoolWifeTask`, `Linux_13_ThreadSemCommunication`

* State: a deque of tasks under a mutex, a semaphore that counts it, a flag the
  workers test without a lock, the workers' handles.
* Operations: `addTask` (push, then post), the worker's loop (test the flag, wait,
  take the front, run it), a shutdown that clears the flag, posts one token per
  thread and joins. `ThreadPool` ends with its destructor and abandons what is
  queued; `HusbandService` can be put to sleep, drains the queue, and is woken up
  again.
* Interaction: callers and workers meet only in the queue and the semaphore.
* Hard: a token and its task are two steps apart; a shutdown token wakes a
  worker with no task; a worker that leaves without using its token leaves it to
  the next wake-up.
* **Kitchen** (`Linux_13_ThreadSemCommunication`): the same hand-over, with two
  differences. Serial numbers and labels come from static counters the threads
  share, and `front()` is called without asking whether there is one.
* Correct when: every task has a token and no token of a producer meets an empty
  queue; tasks start once, oldest first; serial numbers and labels are unique; the
  shutdown returns; a sleep drains.

### UDP chat: `Linux_17_UDPConversation`

* State: the buffer pool (free stack, queue of received buffers, capacity), the
  semaphore, the server's flag, `client_book`; in a client its user name, the
  line buffer `str` and the packet buffer `buf`, both reused.
* Operations: main receives into a buffer, queues it, posts; a worker takes one
  and runs the handler of its type (`reg`, `msg`, `exit`), and the
  `shared_ptr`'s deleter recycles the buffer; signals clear the flag; the client
  registers, sends what is typed, and leaves when the server answers "exit".
* Interaction: datagrams, which are lost and overtake each other; inside the
  server, threads.
* Hard: a buffer recycled while main takes others; the pool growing under
  the workers; handlers of one user's datagrams running in any order; a signal
  that restarts `recvfrom`; the shutdown's tokens; the client's buffers keeping
  part of their last contents.
* Correct when: a buffer has one holder; tokens and tasks balance; what is
  handled is what was received; who left is not in the book; texts reach the user
  they name; whoever says exit gets out.

### Tavern: `Linux_16_CyberpunkTaverna`

* State: a queue of visitors with mutex and semaphore; a map from room numbers to
  rooms; in a room a map from descriptors to addresses with a mutex.
* Operations: main accepts and queues; a waiter asks for a number, makes the room
  if need be, and serves the visitor until he leaves; an empty room is erased.
* Interaction: TCP streams (pieces of any size, resets, descriptors that are
  given out again), and threads in the maps.
* Hard: find, emplace and erase of a room are separate steps of several
  waiters; a connection that ends without "exit"; the reuse of descriptors; a
  write to a member who does not read, with the room's mutex held.
* Correct when: a room is there while somebody is in it; what is said is heard by
  its members only; empty rooms are cleared; a visit ends when the visitor says so.

### Threads and locks: `Linux_12_*`, `Linux_9_Thread2`, `Linux_10_*`, `Linux_11_*`

* **Family treasury** (`Linux_12_ThreadSynthetic`): balance with mutex and
  condition variable, ledger with a read-write lock, one global stream in which
  entries are put together, status under a spin lock. Correct when money is
  conserved, each transaction is in the ledger once and whole, and
  shoppers do not wait for ever.
* **Palace** (`Linux_12_ThreadCond_HaremOverload`): a priority queue with a few
  seats; one condition variable for two kinds of sleepers. Correct when seats are
  not overbooked, nobody sleeps on what has come true, visits go on.
* **Fireworks** (`Linux_9_Thread2`): detached threads that outlive main, and
  threads that are cancelled, one of which must not be cancelled in the middle of a
  record. Correct when no record is cut and every join returns.
* **Counting under a lock**, **writers first** (`Linux_10_*`, `Linux_11_*`): the
  library's locks with a counter or a sleep inside.

### Processes: `Linux_13_ProcessSemaphoreCommunite`, `Linux_7_*`, `Linux_6_*`, `Linux_5_*`, `Linux_4_*`

* **Notebook**: a page in shared memory and two named semaphores that pass the
  turn; the names outlive the processes. Hard: an interrupt that takes the turn
  along, a handler that unlinks three names while the other program opens them.
* **Umbilical cord** (`womb.cpp`): parent and child, one System V queue used in
  both directions, 98 rounds. Hard: either may take what it has sent itself.
* **Orders and answers** (`darling.cpp`, `me.cpp`): priorities, a receive that
  does not wait, a queue that outlives the programs and is removed by one.
* **Shared struct** (`Linux_6_ProcessShareMem`): two programs poll a flag and a
  pid, and read and write a struct, without a lock. Correct when they are not at
  the struct together, and both end when one says quit.
* **Fifo of the maid** (`Linux_5_*/maid_server.c`, `stranger_client.c`): several
  clients write into one named pipe. Hard: one read returns what several have
  written. Correct when the word exit, alone, and nothing else ends the server.
* **Pipe filter** (`Linux_5_*/pipe_filter.c`): the output of a child in pieces of
  any length. Correct when the lines that match are printed whole.
* **Two writers of one log** (`Linux_4_*/race_condition.c`): both processes
  truncate and append. Correct when no line is lost once both have opened it.

### Files: `Linux_2_FileIO`

* State: a stream that no call closes for the next one, what stdio holds for it,
  the caller's buffer and its size, the three files.
* Operations: ten modes (append, cover, alter, read; by character, by string,
  formatted, binary), `FileOperDataFree`, the end of the process.
* Hard: what is not flushed comes when the process exits, after what was written
  later; sizes that shrink to one cell; terminators one cell behind the buffer.
* Correct when: the files hold what was asked to be written, what is read is
  what they hold, no cell beyond the caller's is written, and reading ends.

### The rest

Signals (`Linux_8_*`), joining (`Linux_9_ThreadCreateAndJoin`), a socket with one
guest (`Linux_15_*`), system calls on files (`Linux_3_*`), fork and exec
(`Linux_4_*`), hello world (`Linux_1_*`). See section 7.

## 2 Plan

In the order of what matters most: the programs with the most interaction first.

| step | modules | state |
|---|---|---|
| 1 | `WorkQueue` (what any pool promises), `SemQueue`, `ThreadPool`, `HusbandService` | done |
| 2 | `BufferPool`, `ChatServer`, `ChatClient`, `ChatSystem` (composition) | done |
| 3 | proofs of the chat server: `SequenceFacts`, `ChatServerProofs` (safety, and the refinement of `WorkQueue`) | done |
| 4 | `TavernaClub`, `TavernaServer`, `Taverna` (composition) | done |
| 5 | `FamilyTreasury`, `HaremPalace` | done |
| 6 | `Notebook`, `MsgQueue`, `Womb`, `Household` | done |
| 7 | `CyberKitchen`, and `Pools`, which states once what the three pools promise | done |
| 8 | `MaidStatus`, `MaidFifo`, `PipeFilter`, `RaceLog`, `Fireworks`, and `Processes`, which runs the small programs one at a time | done |
| 9 | `LogApi`, and `PalaceAndLog`, which runs it or the palace | done |
| 10 | `PoolsProofs`: token balance for any number of threads, the pools implement `WorkQueue`, a sleep drains the queue | done |
| 11 | `ExerciseProofs`: treasury and palace | done |
| 12 | `TavernaProofs`: the member list under the loops, what a null room takes, empty rooms, what is heard, the visitors as tasks of `WorkQueue` | done |
| 13 | `NotebookProofs` (the turns), `ProcessesProofs` (the other small programs, and all eight together) | done |
| 14 | `ChatSystemProofs`: what a user gets, and who is in the book, for any users and scripts | done |
| 15 | `ExerciseProofs`, the file log API: the cells, what is saved, what is read back | done |

Abstract specification: `WorkQueue` is implemented by the thread pool, the
service, the kitchen (burgers as tasks), the chat server (datagrams) and the tavern
(visitors). Worth stating next: an abstract chat (a book and texts), and a
turn-taking register that `Notebook` implements while nobody is interrupted.

## 3 Modules and the code

Conventions. A thread has a program counter (`wpc`, `ppc`, `mpc`, `pc`), an action
is a stretch of code that no other thread can observe in the middle: a critical
section where every access is under its lock (`BufferPool`, `HaremPalace`), single
accesses where it is not (`Notebook`, the map of the tavern), and a lock, a read,
a write and an unlock apart where the lock is what is being checked (`SemQueue`,
`FamilyTreasury`). Library objects (semaphores, condition
variables, queues, UDP, TCP, descriptors) follow their manual pages, are named for the call,
and are marked external in `map`. History variables are marked so where they
are declared and no action reads them. Where a program ends or can sleep for
ever by design, an explicit stuttering disjunct says where, so that every other
stop is reported as a deadlock. The operators commented "Mutant" are the plausible
bugs the properties are tried on; no specification uses them.

| module | code | state and actions |
|---|---|---|
| `WorkQueue` | (abstract) | `waiting`, `running`, `accepted`, `finished`; submit, take the oldest, finish, and abandon at shutdown |
| `SemQueue` | `ThreadPool.h` 56-89, and the same lines of the other two pools | deque, semaphore, mutex; `AddLock`/`AddPost` of a producer; a worker's wait, lock, look, pop, run |
| `ThreadPool` | `ThreadPool.h` | adds `running_`, the destructor: clear, post per thread, join |
| `HusbandService` | `HusbandService.h`, `WifeController.cpp` | adds sleep and wake-up by the one owner, workers that go on until the queue is empty |
| `CyberKitchen` | `CyberKitchen.h`, `CyberKitchen.cpp` | adds the counters all threads of a trade share, each `++` a read and a write; the burger is made inside the critical section |
| `Pools` | (composition) | `program` says which of the three runs; states their properties |
| `BufferPool` | `ChatServer.h` 12-133 | a method is a step; a buffer is its index; contents stay when it is recycled |
| `ChatServer` | `ChatServer.cpp`, `ChatServer.h` | main's loop with a failing `recvfrom`, one handler step per stretch of `book_mutex_`, signal, destructor |
| `ChatClient` | `ChatClient.cpp` | registration that may fail, the reading loop with the lengths of `str`, the receive thread, the signal |
| `ChatSystem` | both, `stress_test.sh` | server and clients over a set of datagrams, numbered by the line they were typed in; loss and pauses as constants |
| `TavernaClub` | `TavernaClub.h` | a room as a function from descriptors to visitors; its mutex; writing to one member after the other; resets, SIGPIPE, and full buffers |
| `TavernaServer` | `TavernaSever.h`, `CyberpunkTaverna.cpp` | accept loop, the waiter with each operation on the map apart, the ways the process ends |
| `Taverna` | `TavernaVisitor.cpp` | visitors who type what an evening's script says, wait or do not, stop reading, or are killed |
| `FamilyTreasury` | `FamilyTreasury.*` | a balance change is read and write; an entry is put together in the global stream; signal and spurious wake-up |
| `HaremPalace` | `Harem.h`, `HaremPalace.cpp` | two kinds of sleepers, signal and broadcast, spurious wake-up |
| `Notebook` | `notebook_writer.cpp`, `notebook_reader.cpp`, `process_anony_comm.cpp` | names and the objects they stand for, both loops, interrupts, restarts; `ForkInit` for the anonymous pair |
| `MsgQueue` | (System V queues) | `msgrcv` with type 0, positive and negative |
| `Womb` | `womb.cpp` | father and child, one step per system call |
| `Household` | `darling.cpp`, `me.cpp` | orders and answers, the queue's identifier and its removal, restarts |
| `MaidStatus` | `shm_writer.cpp`, `shm_reader.cpp`, `process_share_mem.h` | one step per test or write of a field of the shared struct |
| `MaidFifo` | `maid_server.c`, `stranger_client.c` | the name and the pipe, messages that are read together |
| `PipeFilter` | `pipe_filter.c` | the child's output, who has the pipe open for writing, the pipe in pieces, the growing buffer |
| `RaceLog` | `race_condition.c` | the file as the sequence of who wrote which line |
| `Fireworks` | `birthday_fireworks.cpp`, `firework_safety_sys.cpp` | main, detached threads, threads with a pending cancellation and the points where it acts |
| `Processes` | (composition) | `program` says which of the small programs runs; states their properties |
| `LogApi` | `logApi.c`, `main.c` of `Linux_2_FileIO` | files, the stream, streams that were overwritten, the caller's buffer; one step per call, per character or line where a loop is the point |
| `PalaceAndLog` | (composition) | `program` says which of the two runs |

Compositions: `ThreadPool`, `HusbandService` and `CyberKitchen` extend `SemQueue`,
and `Pools` instantiates the three; `ChatServer` extends `BufferPool`; `ChatSystem`
instantiates `ChatServer` and `ChatClient`; `TavernaServer` extends `TavernaClub`
and `Taverna` extends it; `Womb` and `Household` extend `MsgQueue`; `Processes`
instantiates the eight small programs; `PalaceAndLog` extends `HaremPalace` and
`LogApi`. `Pools`, `Processes` and `PalaceAndLog` put programs that never run
together into one state space: `program` is chosen in `Init` and never changes, and
what belongs to the others keeps its initial value, so that every behaviour is one of
one program alone. The `MC*` modules only give values to constants.

## 4 Runs

Bounds are constants of the modules or of the `.cfg`; a bound is in the guard of
the action it bounds and named in its comment.

Each run with a liveness property checks the safety properties in the same
state space, under `FairSpec`.

### Pools

* `Pools`: each of the three programs with two workers, two producers and three
  tasks. More tasks than workers, so that tasks queue, and more than one producer,
  so that tokens and tasks of different producers cross. The service is put to
  sleep and woken up twice (`MaxNaps`): the second wake-up meets the tokens the
  first sleep left over, which is the only way its workers can find the queue empty.
  * `NoTaskStranded`: tokens, workers on the way and producers about to post cover
    the queue. `TokenMeansTask`: before a shutdown a worker past `sem_wait` finds a
    task; in the kitchen always, where `front()` is called untested. `PoolsInv`:
    counters in range, serial numbers consecutive, labels different.
  * `ImplementsWorkQueue`; `TaskIsRun` (unless the pool is shut down or the service
    asleep); `ShutdownReturns` (the destructor, a sleep); `SleepDrains`.

### Chat

* `ChatServer`: two workers and a pool that starts with two buffers, one fewer than
  the three threads can hold, so that it must grow; three datagrams in any order
  (register, write to, leave). `OneHolder`, `TokensBalance`, `NullOnlyAtShutdown`;
  the server implements `WorkQueue` with the received contents as tasks, so a
  buffer is never overwritten in use; `DatagramHandled` (what was queued, unless
  the server stops); `SignalIsSeen` (once `recvfrom` has returned after a signal,
  the server ends, with joined workers or on the null pointer that
  `get_task_buffer` gives at shutdown, ChatServer.cpp line 29). The code starts
  with 10 buffers; the proofs (section 6) cover any number from two.
* `ChatSystem`: two users and two workers, over a network that loses and reorders,
  with failing `sendto`; `c1` types what `stress_test.sh` types, with its pauses
  (`Paced`). `NoGhostUser`: a user who was told that he is out is out;
  `OnlyTheAddressee`. Without pauses the order of one user's datagrams is not kept
  by anything in the code, and a REG handled after its EXIT leaves the name in the
  book; see the hazards.
* `ChatSystemLive`: without loss, one worker, slips of the keyboard, `c2` may get a
  signal. `ClientsLeave`: who types exit twice ends both threads. Once is not
  always enough: after a rejected line `continue` (ChatClient.cpp line 116) skips
  the resize of line 129, and the next line is cut to the length of the rejected one.

### Tavern

* `Taverna`: three descriptors, so that a closed one is given out again, three
  rooms made at most, and three kinds of evening. Three patient visitors come, two of
  them to the same room, and one has to wait for one of two waiters. Or a
  visitor who talks in room 7 is joined by one who types on without waiting and may
  hang up at any time, and who goes to room 7, to room 8, or stumbles or leaves at
  the door. Or a visitor may stop reading: with three waiters, one of whom then
  checks his room, and with two, who then both stay in it, while another visitor
  waits to be asked. The other waiters of the code are busy elsewhere all evening.
  Visitors come in the order of the evening, as the backlog has one; the evenings
  differ in it. Lines arrive in any pieces.
  * `RoomInv` (the list is not changed under a loop that writes to it),
    `RoomsAreCleared`, `CrashTakesTwo` (the null-room crash needs two visitors of one
    room), `HeardInTheRoom`, `WorkQueue` until a crash, `VisitorIsAsked`,
    `ExitEndsVisit`.
  * `RoomsAreCleared` and `HeardInTheRoom` are stated as long as nobody hangs up:
    nobody strikes out a visitor whose connection just ends (TavernaClub.h line 83),
    so the room stays, and the next connection that is given his descriptor hears it.
  * `VisitorIsAsked` and `ExitEndsVisit` say how far a member who does not read
    (TavernaClub.h line 73) holds up the others: the waiters that come to his room,
    and, once one of them checks the room with `mutex_` held, main and everybody.
    Both ways of `Prevented` happen in the run. The two properties have the form "again
    and again, everybody so far"; since who has been asked or let go stays so, this
    is the same as "each in the end".
  * `ExitEndsVisit` is about patient visitors in a room: at the door (TavernaSever.h
    line 53) exit does not close the connection, and lines that arrive in one piece
    are one message.
* `TavernaRoomGone`, the expected violation: `RoomIsThere` says of a room what the
  code takes for granted when it uses `chat_room_map[club_id]`, and fails when two
  visitors of one room leave, or one leaves while the other enters.

### Treasury and palace

* `Treasury`: two shoppers, the earner, two auditors; pay of 1 or 2 and a price of
  2, so that a pay day does not always cover it; `MaxBalance` 3 and `MaxUnread` 1
  only hold back the earner and the ledger. `MoneyInv` (the balance never goes below
  zero and is what the ledger adds up to), `EntriesAreWhole`, `SomebodyShops`.
* `PalaceAndLog`, the palace: four consorts of any of two glamors, two seats.
  `PalaceTypeOK` (no overbooking), `NobodyIsForgotten`, `VisitsGoOn`.

### Processes

* `Processes`: the eight small programs, one at a time. `ProcessesInv` is, for each,
  what it relies on at any moment.
  * Notebook: the named page and the anonymous one; nobody is interrupted, or one
    of the two is, anywhere and twice (`Editions` 3). The page is not used by both at
    once. Without interrupts the days are read in order, each once
    (`DaysAreReadInOrder`), and the reading goes on (`ReadingGoesOn`). Two processes
    that alternate are never more than one day apart, so days modulo 3 (`MaxDay`) are
    enough. If both are interrupted the invariant does not hold: a reader that
    starts while the writer's handler unlinks the names holds semaphores of two
    generations.
  * Umbilical cord: `FoodRounds` is 50 where the code has 99; the queue's contents
    and the lead of the one over the other grow with it, and nothing happens in
    round 51 that does not happen before. Whoever is born has had all food and the
    message of type 99; `BornUnlessStolen`: with fair processes he is born, unless
    the father has received food himself. Then the program may stop for ever,
    and the module says so with a stuttering step: the child gets type 99 inside its
    loop, leaves it, and waits at line 75 for another, while the father waits for it.
  * Orders and answers: three rounds as in the code, both programs started twice.
    `AnswerIsHeard`.
  * Two writers of one log: five lines each, as in the code. No line is lost from
    the last `O_TRUNC` on.
  * Fifo: two clients with two words each before they leave. Only the word exit,
    read alone, ends the server; with it, it ends (`ConversationsEnd`). The model has the
    code's word (line 46); the exercise above it (maid_server.c line 16) says "stop",
    with which a client of the code only leaves (stranger_client.c line 18).
  * Pipe filter: outputs of eight characters that hold a matching line cut anywhere,
    a line longer than the buffer's first size of 2, and a last line without an
    end; three characters fit into the pipe. `read` reports the end once nobody has
    the pipe open for writing (`writers`), so `ConversationsEnd` needs the parent to
    have closed its own end (line 36).
  * Shared struct: the conversation ends when one says quit (`ConversationsEnd`), and the
    two are never at the struct together, unless one of two races has happened:
    the reader came before the writer had written its pid, or a pid was written
    between the two reads of the other's test.
  * Fireworks: three fireworks for 32, two rounds between two tests for 10^9. No
    record is cut by a cancellation; the joins return, and all fireworks are shown
    and deleted although main leaves before (`ConversationsEnd`).
* `MaidHurried`, an expected violation: `OneAtATime` without the races excepted.

### Files

* `PalaceAndLog`, the log: three calls of any mode with texts of one and of two lines,
  offsets inside, at and behind the end, cards of two and of three digits; freed or not,
  with an exit and another start in between. Buffers have one cell more than the file
  has characters, so that the text with its terminator fills them, or two (`Spares`).
  `CellsInv`, `Saved`, `ReadsBack`, and `ReadingEnds` for the buffers with two. That the
  caller gives the terminator a cell is assumed; without it `readCharInfoFromFile` writes
  behind the buffer (logApi.c line 231).
* `LogEndless`, an expected violation of `NullIsReturned` (the comment of line 238):
  with one cell to spare `fgets` is asked for a line of one cell, returns the buffer and
  reads nothing, for ever. A round of the loop changes no state, which is why the
  counterexample ends in stuttering although the function is scheduled.
* `LogGap`, an expected violation: `NothingAroundAGap` follows from each of two comments
  of logApi.c, so that the counterexample refutes both. `Saved` and `ReadsBack` state
  what the code does.
  * The comment of line 57 says of opening a file to alter it, and that of line 99 of
    `"rb+"`, that a file that exists is destroyed and a missing one created. `"r+"` does
    neither: the old text stands before the gap. On a missing file `fopen` fails and the
    text is written nowhere; it is the one refusal `Saved` allows, and what was asked for
    then is not counted in `meant`.
  * The comment of lines 182-183 says that after a write behind the end of the letter a
    read stops at the NULs in the gap and does not return what stands behind them.
    `fgetc` and `fgets` stop at the end of the file only, and the new text comes into the
    buffer.

## 5 Fairness

`Spec` never assumes any; `FairSpec` does in the runs with liveness properties.

* A thread or process that can take a step does in the end: weak fairness of each
  thread's actions. This is the kernel's scheduling of runnable threads. The
  tavern, the treasury, the palace, the processes and the functions of `LogApi` need
  no more. In the tavern the fairness of a thread is stated with what its steps
  change as subscript.
* A thread that keeps trying for a mutex or a semaphore gets it in the end:
  strong fairness of the workers of the pools and of the chat server, drones
  included.
  `pthread_mutex_lock` and `sem_wait` do not promise an order, but a thread that is
  scheduled again and again while the lock is repeatedly free takes it: critical
  sections are a few instructions and Linux's futex queues wake the oldest sleeper.
* Nothing is assumed of users, of signals, of producers starting another
  `addTask` (the kitchen's chefs, who never rest, are fair), of the caller of the
  destructor, of a shell user who has yet to start a program or to write into the
  fifo, or of a member of a room who has stopped reading; delivery of datagrams is strongly
  fair only in `ChatSystemLive`, which has no loss.
* In `ChatSystemLive` and `Taverna` the users go on typing their script (fairness of
  `Types` and `TypeLine`): the properties are about users who do say exit.

## 6 Proofs

Checked by TLAPS, for every number of threads, visitors, datagrams, seats and amounts.
What is assumed of the constants is in the `ASSUME` of the module that declares
them and is as weak as the code allows; TLC evaluates it in each run. Apart from
finiteness and types (texts are of characters, one of which is NUL, and cards are
numbers: `LogAssumption`): the pool of buffers starts with two at least
(`PoolAssumption`: with one, `enlarge_capacity` would add none), and in one evening
each visitor comes to the tavern once (`TavernaAssumption`). Where a theorem needs more,
the hypothesis is in its statement, and named below.

* `SequenceFacts`: what head, tail, append and concatenation do to the elements of a
  sequence and to its having no element twice; induction over the natural numbers,
  as a fact about sets that well-founded induction gives, and sums over the
  elements of a sequence.
* `PoolsProofs`: the three pools.
  * `NobodyIsStranded`: the number of tokens (in the semaphore, with a worker on his
    way, owed by a producer) is never less than the length of the queue. Each of
    them is a step apart from its task, so one lemma per step of `SemQueue` says how
    it changes types, the mutex and the count. `FrontIsThere` needs equality
    (`Balance`): it holds in the kitchen always and in the pool until `running_` is
    cleared. In the service the tokens a sleep leaves over break it; there the
    induction needs that the owner has joined all workers before he makes new ones.
  * `PoolsImplementWorkQueue`: each step maps to a step of `WorkQueue` or to a stutter.
  * `CountersAreSound`: the chefs' serial numbers are consecutive although `++` is a
    read and a write, because the chef who holds the mutex holds the last one
    (`SerialsInv`); labels differ because of the spin lock (`LabelsInv`).
  * `SleepsDrain`, an action property: `NothingIsLost` (each task that has reached the queue is
    in it, with a worker, or finished) follows from the refinement; `NapInv` says that no
    order comes while a call of sleep is under way, and that a worker who has left
    found the queue empty after that call began.
* `ChatServerProofs`: what each method of the pool does to the set of buffers it
  holds, then `TypeCorrect`, `BuffersHaveOneHolder`, `TokensAreBalanced`,
  `NullTaskOnlyAtShutdown`. The four need each other and more: the inductive
  invariant `IInv` adds `Holding` (program counters tell who has a buffer),
  `Received` (a queued or handled buffer holds a datagram: needs `OneHolder` to
  survive the next `recvfrom`) and `Closing` (the destructor posts only after main
  has left its loop). `TokensBalance` is what excludes an empty queue behind a
  token, hence `NullOnlyAtShutdown`. The balance is about the number of
  workers between token and task, a cardinality, so each worker step comes with a
  lemma on how that set changes.
  * `ServerImplementsWorkQueue`, by a second invariant
    `UnderWayOnce` (a datagram is on the network, with main, queued, handled or done,
    and in one of these places only), a frame lemma for the steps that leave
    the abstract state alone, and one step per action that does not.
  * The last lemmas are about the server as a part of a larger system: what the
    network may do to it from outside (`NetworkMoves`) and what its own steps
    leave alone (`ServerKeeps`, `JobsStay`, `OthersLeaveTheBook`).
* `ChatSystemProofs`: the chat as a whole, for any users, scripts, workers, loss.
  * `TextsReachTheAddressee` needs `SystemInv`: the server's two invariants, now under
    the clients' datagrams; `Numbered` (a datagram carries the number of the line it
    was sent for, so none is sent twice), `NamesAreOwn`, and `HandlersAgree`,
    `AnswersAgree` (address and name a handler took from the book are still those
    of one user when it writes).
  * `NobodyHaunts` adds `LastLineUnderWay`, `ExitsAreNamed`, `FirstTextClears` and
    `ExitsAreFinal`, under the hypothesis `UsersWait`: pauses, names that differ, and an
    exit that follows a text; that is what `stress_test.sh` does. Without them a user
    is told that he is out and is in the book: a REG overtakes its EXIT, or
    the EXIT carries a name from a buffer that no text has cleared.
* `ExerciseProofs`: treasury, palace and file log API, which share nothing but the module.
  * `EveryEntryIsWhole` and `NeverOverdrawn`, from `AccountInv` (between read and write
    a thread has the mutex, so what it has read is still the balance) and `LedgerInv`
    (the stream is empty unless somebody has the write lock, and holds one line then).
  * `MoneyAddsUp`: the balance is the sum of the entries and of what has been booked
    and not yet entered (`BooksInv`); what an append does to the sum, a
    function defined by recursion, is shown by the induction of `SequenceFacts`.
  * `LoungeIsNeverOverfull`, `NobodySleepsForgotten`. The invariant adds `ready = pq`: no
    consort is queued who has not said so, so that who sleeps knows why.
  * `LogSaved`, from `LogInv` (a stream is what the mode of its call makes it, and holds text
    only if that mode does not flush) and `SavedInv`. The latter looks ahead:
    each file, with what its stream holds and what the running call has yet to hand to it
    (`InHand`), is what it should be (`NothingIsLate`). Once something has been left behind,
    order is lost but nothing else: of each set of characters there are as many in the
    letter, in hand and in the streams left open, a sum over a sequence, as
    were asked for (`NothingIsLost`), in whatever order `exit` flushes those streams.
    A call that runs without a stream wanted a file that must exist and does not
    (`Refused`), so altering a missing letter is the only text refused.
  * `LogCells`, `LogReadsBack`, from `ReadInv`: the buffer of a reading call is longer than
    the text (`RoomToSpare`, which needs that nothing changes a file while it is read),
    and behind what the rounds of the line reader have read there are exactly the lines
    up to here, each up to its NUL, with the terminator's cell behind them (`LinesRead`).
    That a round reads one more line, no matter where the NULs are, is
    `NextLine`; that the lines put together, a recursive function, exist for every text is
    shown by the induction of `SequenceFacts`. Hypothesis: the caller leaves a cell
    for the terminator (`0 \notin Spares`), as in the runs. Without it
    `readCharInfoFromFile` writes behind the buffer.
* `TavernaProofs`: an invariant in layers, each proved with those below it.
  `TypeInv` (types, and whom a waiter serves); `LoopInv` (who walks a list has the
  mutex: `ListsAreStable`); `HallInv` (each visitor is in one place, has no number
  before the door and a connection behind it); `AloneInv` (a room belongs to one
  number, and what a waiter finds for a visitor alone in his room is what he
  left there: `NullRoomTakesTwo`, whatever the other waiters do in the map between his
  steps); `ClearInv` (each empty room is minded by a waiter who enters it or has just
  left: `EmptyRoomsAreCleared`); `OwnInv` (a descriptor is its visitor's until his
  waiter closes it) and `SeatInv` (each member of a room in the map is served there),
  which give `RoomsKeepToThemselves`: who is written to is in the room. The last three
  are about evenings on which nobody hangs up, as the properties are.
  `TavernImplementsWorkQueue`: until a crash, visitors are served in the order in which they
  came, once each, by one waiter each.
* `NotebookProofs`: names and the objects they stand for (`NoteLinks`), what the
  semaphores hold (`NoteSems`), and `TurnsFit`: between a writer and a reader who meet at
  both semaphores there is one turn, who has it is alone at the page; if they meet
  at one or none (one of them has started anew), what each has brought is counted
  apart. `DaysFollow` says which day the page shows at each point of both
  loops; the reader thus reads one day after the other.
* `ProcessesProofs`: one invariant for each of the other programs, and
  all of them together.
  * `ProgramsAreSafe`. `TalkInv`: as long as neither of the two known races has
    happened, the fields of the shared struct belong to one side. `ShowInv`: no
    thread ends within a line. `RaceInv`: of one of the two writers (who truncated last)
    every line written so far is in the file. `WombInv`: two messages wait at most, which is why no `msgsnd`
    waits (`FoodAddsUp`, `BirthIsLast`: what was given is what waits, was taken or
    stolen), for every number of rounds. `HouseInv`: orders of one kind are in the queue and
    obeyed in the order they were given. `FilterInv`: up to some position of the
    child's output everything is cut into lines and the hits printed, and the buffer
    holds what follows it, however the pipe cut the output.
    Hypothesis: not both partners of the notebook are interrupted in one behaviour
    (`{"writer", "reader"} \notin Disturbances`), as in the run.
  * `DaysAreNotSkipped`: no hypothesis on the constants; the property is about behaviours
    as long as nobody is interrupted, and says nothing after an interrupt.

Only model-checked: the liveness properties, for which the prover has no rules (fairness,
`ENABLED`), and with them `ReadingEnds` of `LogApi`. Each invariant and each other safety property of a passing run is
stated by a theorem. The modules that are proved about use recursive functions and folds
instead of `RECURSIVE` operators.

## 7 What is not modelled

Components, status `not_modelled`:

* `Linux_4_*` without `race_condition.c` (`my_shell.c`, `zombie_maker.c`), `Linux_3_SystemIO`,
  `Linux_1_HelloWorld`: straight-line calls of one process, or a
  parent and a child that share nothing.
* Counting under a lock, writers first (`Linux_10_*`, `Linux_11_*`): the library's
  locks around one counter; a model would be one of pthreads.
* Thread results (`Linux_9_ThreadCreateAndJoin`): five threads with data of their own.
* Signal switches (`Linux_8_*`): two handlers that set flags one loop polls.
* Socket of one guest (`Linux_15_*`): one `accept`, then `read` and `write` in turn.
* Captures, binaries and editor settings: no behaviour.

Inside modelled components:

* what is printed, failing system calls that end the program at start-up,
  addresses and times as text;
* chat: the contents of a datagram beyond its header, the start-up of `daemon`;
* tavern: the destructor (never reached), numbers over 2^32 at the door, the data
  race inside `unordered_map`; a full socket buffer is one step (`StopReading`),
  after which a write to that member does not return;
* treasury: the total that is printed without the lock; palace: the names;
* fireworks: the state of the shared output streams;
* `LogApi`: a write or a flush that fails, a disk that is full, the layout of a card.

Hazards the code is exposed to and does not defend itself against, so that no property
promises anything (`PROJECT.json` gives the reason of each): a text sent to an address
its user has given up meanwhile; REG handled after EXIT; a lost EXIT or answer; what a
connection that just ends leaves in its room; `read`'s -1 as a length; exit in one piece
with other lines, or at the door of the tavern; a message taken by its own sender, and the
second receive in `womb.cpp`; a receive that does not wait taken for the end. The
models contain these behaviours, or name the constant that excludes them, and the
properties say which are excepted. That one of several shoppers is passed over for ever
(FamilyTreasury.cpp line 92) is not excluded either: `SomebodyShops` is about all of them together.

Kernel objects are as their manual pages say, and never run out, except where
a bound is the subject (System V queues in `Womb`).

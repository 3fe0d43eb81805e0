------------------------------ MODULE BufferPool ------------------------------
(****************************************************************************)
(* Linux_17_UDPConversation/ChatServer.h, class BufferPool: message buffers *)
(* that are received into, queued, handled by a worker and recycled.  Every *)
(* method is one critical section of mutex_ and nothing touches the two     *)
(* containers outside it, so a method is one step.                          *)
(*                                                                          *)
(* A buffer is its index in msg_pool_; the pool never gives one up, so the  *)
(* buffers are always 1..capacity.  The contents of a buffer are what was   *)
(* last received into it: they stay when it is recycled.                    *)
(****************************************************************************)
EXTENDS Naturals, Sequences, Functions

CONSTANTS InitialCapacity,  (* buffers the constructor makes: 10 in the code *)
          Datagrams,        (* what can be received into a buffer           *)
          Zeroed            (* the contents of a buffer never received into *)

\* With fewer than two buffers enlarge_capacity would add none: half of 1 is 0.
ASSUME PoolAssumption == /\ InitialCapacity \in Nat /\ InitialCapacity >= 2
                         /\ Zeroed \notin Datagrams

VARIABLES free_stack_,  (* the free buffers, top of the stack first         *)
          used_stack_,  (* the received buffers, oldest first (a queue)     *)
          capacity,     (* msg_pool_.size()                                 *)
          contents      (* contents[b]: what buffer b holds                 *)

poolVars == <<free_stack_, used_stack_, capacity, contents>>

\* 0 is the null pointer of a TASK_UNIT.
NoBuffer == 0

\* The buffers of lo+1..hi in the order the stack holds them after being pushed.
Pushed(lo, hi) == [i \in 1..(hi - lo) |-> hi + 1 - i]

PoolInit == /\ capacity = InitialCapacity
            /\ free_stack_ = Pushed(0, InitialCapacity)
            /\ used_stack_ = <<>>
            /\ contents = [b \in 1..InitialCapacity |-> Zeroed]

Enlarged == capacity + capacity \div 2

\* get_empty_buffer when one is free: the most recently recycled.
GetFreeBuffer(b) == /\ free_stack_ # <<>>
                    /\ b = Head(free_stack_)
                    /\ free_stack_' = Tail(free_stack_)
                    /\ UNCHANGED <<used_stack_, capacity, contents>>

\* get_empty_buffer when none is: enlarge_capacity first, by half.
GetNewBuffer(b) == /\ free_stack_ = <<>>
                   /\ b = Enlarged
                   /\ capacity' = Enlarged
                   /\ free_stack_' = Pushed(capacity, Enlarged - 1)
                   /\ contents' = [c \in 1..Enlarged |->
                                     IF c <= capacity THEN contents[c] ELSE Zeroed]
                   /\ UNCHANGED used_stack_

GetEmptyBuffer(b) == GetFreeBuffer(b) \/ GetNewBuffer(b)

RecycleBuffer(b) == /\ free_stack_' = <<b>> \o free_stack_
                    /\ UNCHANGED <<used_stack_, capacity, contents>>

SaveTaskBuffer(b) == /\ used_stack_' = Append(used_stack_, b)
                     /\ UNCHANGED <<free_stack_, capacity, contents>>

\* Mutant: front() without pop().
GetTaskBufferPeeks(b) == /\ used_stack_ # <<>>
                         /\ b = Head(used_stack_)
                         /\ UNCHANGED poolVars

\* get_task_buffer on a queue that is not empty; its caller models the other case.
GetTaskBuffer(b) == /\ used_stack_ # <<>>
                    /\ b = Head(used_stack_)
                    /\ used_stack_' = Tail(used_stack_)
                    /\ UNCHANGED <<free_stack_, capacity, contents>>

\* recvfrom writes into the buffer its caller holds.
FillBuffer(b, d) == /\ contents' = [contents EXCEPT ![b] = d]
                    /\ UNCHANGED <<free_stack_, used_stack_, capacity>>

PoolTypeOK == /\ capacity \in Nat
              /\ capacity >= InitialCapacity
              /\ free_stack_ \in Seq(1..capacity)
              /\ used_stack_ \in Seq(1..capacity)
              /\ contents \in [1..capacity -> Datagrams \cup {Zeroed}]

\* No buffer is twice in the pool's containers: none was recycled twice, queued
\* twice, or queued and recycled.
PoolHoldsOnce == /\ IsInjective(free_stack_)
                 /\ IsInjective(used_stack_)
                 /\ Range(free_stack_) \cap Range(used_stack_) = {}

\* The buffers the pool holds; the others are in the hands of a thread.
InPool(b) == b \in Range(free_stack_) \cup Range(used_stack_)
==============================================================================

----------------------------- MODULE MCChatServer -----------------------------
(* ChatServer with two workers, a pool that starts with two buffers (one less  *)
(* than the threads can hold, so that it must grow) and the datagrams of a     *)
(* conversation, in any order: a name registers, is written to and leaves.     *)
EXTENDS ChatServer

CONSTANTS w1, w2, alice, bob, addrA, addrB

MCWorkers == {w1, w2}
MCNames   == {alice, bob}
MCAddrs   == {addrA, addrB}

Dgram(type, name, addr) == [type |-> type, name |-> name, addr |-> addr]

MCDatagrams == {Dgram("REG", alice, addrA), Dgram("MSG", alice, addrB),
                Dgram("EXIT", alice, addrA)}
==============================================================================

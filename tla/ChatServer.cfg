SPECIFICATION FairSpec
CONSTANTS
  w1 = w1
  w2 = w2
  alice = alice
  bob = bob
  addrA = addrA
  addrB = addrB
  InitialCapacity = 2
  Datagrams <- MCDatagrams
  Zeroed = Zeroed
  Workers <- MCWorkers
  Names <- MCNames
  Addrs <- MCAddrs
  Unregistered = Unregistered
INVARIANTS
  TypeOK
  OneHolder
  TokensBalance
  NullOnlyAtShutdown
PROPERTIES
  ImplementsWorkQueue
  DatagramHandled
  SignalIsSeen

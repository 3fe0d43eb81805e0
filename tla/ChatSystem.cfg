SPECIFICATION Spec
CONSTANTS
  w1 = w1
  w2 = w2
  c1 = c1
  c2 = c2
  alice = alice
  bob = bob
  Workers <- MCWorkers
  InitialCapacity = 2
  Zeroed = Zeroed
  Names <- MCNames
  Unregistered = Unregistered
  Clients <- MCClients
  UserName <- MCUserName
  NoName = NoName
  Garbled = Garbled
  Script <- MCStressScript
  BufSize = 1024
  Paced = TRUE
  Lossy = TRUE
  Interruptible = {}
SYMMETRY MCSymmetry
INVARIANTS
  NoGhostUser
  OnlyTheAddressee

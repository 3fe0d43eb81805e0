SPECIFICATION FairSpec
CONSTANTS
  w1 = w1
  w2 = w2
  c1 = c1
  c2 = c2
  alice = alice
  bob = bob
  Workers <- MCOneWorker
  InitialCapacity = 2
  Zeroed = Zeroed
  Names <- MCNames
  Unregistered = Unregistered
  Clients <- MCClients
  UserName <- MCUserName
  NoName = NoName
  Garbled = Garbled
  Script <- MCSlipScript
  BufSize = 1024
  Paced = TRUE
  Lossy = FALSE
  Interruptible = {c2}
PROPERTIES
  ClientsLeave

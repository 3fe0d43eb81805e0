SPECIFICATION FairSpec
CONSTANTS
  w1 = w1
  w2 = w2
  w3 = w3
  v1 = v1
  v2 = v2
  v3 = v3
  v4 = v4
  v5 = v5
  Waiters <- MCWaiters
  Visitors <- MCVisitors
  NoVisitor = NoVisitor
  Nobody = Nobody
  MaxFd = 3
  MaxRooms = 3
  Clubs <- MCClubs
  Evenings <- MCEvenings
  Patient <- MCPatient
  HangingUp <- MCHangingUp
  Dreaming <- MCDreaming
INVARIANTS
  RoomInv
  RoomsAreCleared
  CrashTakesTwo
  HeardInTheRoom
PROPERTIES
  ImplementsWorkQueue
  VisitorIsAsked
  ExitEndsVisit

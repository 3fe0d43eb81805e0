SPECIFICATION FairSpec
CONSTANTS
  FoodRounds = 50
  OrderRounds = 3
  Starts = 2
  Times = 5
  c1 = c1
  c2 = c2
  Clients <- MCClients
  Actions = 2
  Outputs <- MCOutputs
  PipeRoom = 3
  Size = 2
  Disturbances <- MCDisturbances
  Editions = 3
  MaxDay = 3
  Blank = Blank
  Sparks = 3
  Period = 2
INVARIANTS ProcessesInv
PROPERTIES BornUnlessStolen AnswerIsHeard ConversationsEnd DaysAreReadInOrder ReadingGoesOn

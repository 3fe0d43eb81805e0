SPECIFICATION BothFairSpec
CONSTANTS
  c1 = c1
  c2 = c2
  c3 = c3
  c4 = c4
  Consorts <- MCConsorts
  Glamors <- MCGlamors
  Seats = 2
  NoConsort = NoConsort
  Characters <- MCCharacters
  Texts <- MCTexts
  Offsets <- MCOffsets
  Girls <- MCGirls
  Spares = {1, 2}
  MaxCalls = 3
  Absent = Absent
INVARIANTS PalaceTypeOK NobodyIsForgotten CellsInv Saved ReadsBack
PROPERTIES VisitsGoOn ReadingEnds

SPECIFICATION FairSpec
CONSTANTS
  Characters <- MCCharacters
  Texts <- MCTexts
  Offsets <- MCOffsets
  Girls <- MCGirls
  Spares = {0, 1, 2}
  MaxCalls = 2
  Absent = Absent
PROPERTY NullIsReturned

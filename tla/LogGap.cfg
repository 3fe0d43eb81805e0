SPECIFICATION Spec
CONSTANTS
  Characters <- MCCharacters
  Texts <- MCTexts
  Offsets <- MCOffsets
  Girls <- MCGirls
  Spares = {1, 2}
  MaxCalls = 3
  Absent = Absent
INVARIANT NothingAroundAGap

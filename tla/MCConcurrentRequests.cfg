\* Two workers: requests for the same row interleave.
CONSTANTS
  w1 = w1
  w2 = w2
  a = a
  b = b
  Workers = {w1, w2}
  Ids = {1}
  Fields <- MCFields
  Vals <- MCVals
  Default = 0
  ValidRows <- MCValidRows
  Frozen <- MCFrozen
  Operations <- MCGuardedOperations
  Inputs <- MCGoodInputs
  NoRow = NoRow
  MaxRequests = 3
SPECIFICATION Spec
CHECK_DEADLOCK FALSE
SYMMETRY Symmetry
INVARIANTS PutStatusTellsCreation PutKeepsItsChanges
PROPERTIES PatchTouchesItsBody FrozenPropertiesKept

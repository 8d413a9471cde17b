\* One worker: the requests of all operations, one after the other.
CONSTANTS
  w1 = w1
  w2 = w2
  a = a
  b = b
  Workers = {w1}
  Ids = {1, 2}
  Fields <- MCFields
  Vals <- MCVals
  Default = 0
  ValidRows <- MCValidRows
  Frozen <- MCNotFrozen
  Operations <- MCOperations
  Inputs <- MCInputs
  NoRow = NoRow
  MaxRequests = 2
SPECIFICATION Spec
CHECK_DEADLOCK FALSE
INVARIANTS TypeOK RowsAreValid PutReplaces
PROPERTIES ImplementsStore

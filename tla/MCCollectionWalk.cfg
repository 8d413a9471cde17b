\* Walks of every style through up to five items, two of which change.
CONSTANTS
  Null = Null
  ItemsPerPage = 2
  ClientItemsPerPage = TRUE
  MaximumItemsPerPage = 2
  PHP_INT_MAX = 20
  Items <- MCItems
  Styles <- AllStyles
  Sizes <- MCSizes
  FirstPages <- MCFirstPages
  MaxChanges = 2
SPECIFICATION FairSpec
CHECK_DEADLOCK FALSE
INVARIANTS TypeOK EachItemOnce LossBoundedByChanges FieldWalkIsExact LinksAreValid
PROPERTIES WalkEnds

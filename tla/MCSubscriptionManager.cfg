\* Two workers, three resources of which two share a list.
CONSTANTS
  w1 = w1
  w2 = w2
  name = name
  size = size
  url = url
  Workers = {w1, w2}
  Iris <- MCIris
  Attrs <- MCAttrs
  MetaAttrs <- MCMetaAttrs
  Vals = {1, 2}
  Selections <- MCSelections
  MaxRequests = 4
  NoIri = NoIri
SPECIFICATION Spec
CHECK_DEADLOCK FALSE
INVARIANTS TypeOK SelectionsDistinct AnsweredIsRegistered DifferenceIsTold
SYMMETRY Symmetry

\* Two workers subscribe to the same resource at the same time.
CONSTANTS
  w1 = w1
  w2 = w2
  name = name
  size = size
  url = url
  Workers = {w1, w2}
  Iris <- MCOneIri
  Attrs <- MCAttrs
  MetaAttrs <- MCMetaAttrs
  Vals = {1, 2}
  Selections <- MCTwoIds
  MaxRequests = 2
  NoIri = NoIri
SPECIFICATION Spec
CHECK_DEADLOCK FALSE
INVARIANTS SubscribersStayRegistered

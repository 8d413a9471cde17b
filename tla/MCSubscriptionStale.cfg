\* One worker: a resource is changed, then changed back.
CONSTANTS
  w1 = w1
  w2 = w2
  name = name
  size = size
  url = url
  Workers = {w1}
  Iris <- MCOneIri
  Attrs <- MCOneAttr
  MetaAttrs <- MCMetaAttrs
  Vals = {1, 2}
  Selections <- MCOneSelection
  MaxRequests = 3
  NoIri = NoIri
SPECIFICATION Spec
CHECK_DEADLOCK FALSE
INVARIANTS SubscriberUpToDate

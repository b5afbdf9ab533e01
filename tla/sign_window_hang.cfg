SPECIFICATION FairSpec
CONSTANTS
  c1 = c1
  s1 = s1
  s2 = s2
  o1 = o1
  o2 = o2
  None = None
  Requests = {c1, s1}
  Connects = {c1}
  Origins = {o1}
  OriginOf <- OneOrigin
  Ids = {c1, s1}
  IdOf <- OwnIds
  Posted <- NoPosts
PROPERTIES
  PromisesResolved
CHECK_DEADLOCK FALSE

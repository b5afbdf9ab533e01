SPECIFICATION FairSpec
CONSTANTS
  c1 = c1
  s1 = s1
  s2 = s2
  o1 = o1
  o2 = o2
  None = None
  Requests = {c1, s1, s2}
  Connects = {c1}
  Origins = {o1, o2}
  OriginOf <- SignerOrigins
  Ids = {c1, s1, s2}
  IdOf <- OwnIds
  Posted <- PageApprovals
INVARIANTS
  TypeOK
  RegistryIsExact
  WaitingIsAttended
  AdmittedWasConnected
PROPERTIES
  RegisterSpec
  WaitingIsAnswered
CHECK_DEADLOCK FALSE

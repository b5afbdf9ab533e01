SPECIFICATION Spec
CONSTANTS
  o0 = o0
  o1 = o1
  o2 = o2
  a0 = a0
  a1 = a1
  a2 = a2
  a3 = a3
  b1 = b1
  A = A
  B = B
  None = None
  Outpoints = {o0, o1, o2}
  Anchors = {o1, o2}
  Contracts = {A, B}
  Allocs = {a0, a1, a2, a3, b1}
  At <- Places
  Of <- Kinds
  Worth <- Sizes
  Scan <- InOrder
  Listing <- AThenB
  Requests <- Plausible
  Deliveries = {{o1}}
  Wanted = {3}
  OffersAt <- OffersFirst
  MaxOffers = 1
  MaxLocks = 2
  MaxDrains = 1
  Stocks <- Shares
CONSTRAINT TwoEvents
INVARIANTS
  TypeOK
  SignedIsVetted
  SaleIsOffered
  RiskIsShown
  ShownIsMoved
  HonestIsNotBlocked
PROPERTIES
  OfferIsTight
CHECK_DEADLOCK FALSE

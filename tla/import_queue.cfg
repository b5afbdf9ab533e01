CONSTANTS
  a = a
  t1 = t1
  t2 = t2
  Ids = {a}
  Txids = {t1, t2}
  Witnesses <- PairWitnesses
  Valid = {a}
  MaxAttempts = 3
  MaxFaults = 1
  NoItem = NoItem
  NoStock = NoStock
SPECIFICATION FairSpec
INVARIANTS
  TypeOK
  ConfirmedIsMinedOnDisk
  TentativeIsOnDisk
  MinedOrdIsMined
  RetriesAreForFaults
PROPERTIES
  RevertArchives
  EndedIsFinal
  LedgerSpec
  MinedIsConfirmed
  DroppedIsNoticed

CONSTANTS
  a = a
  t1 = t1
  t2 = t2
  Ids = {a}
  Txids = {t1}
  Witnesses <- SingleWitness
  Valid = {a}
  MaxAttempts = 2
  MaxFaults = 1
  NoItem = NoItem
  NoStock = NoStock
SPECIFICATION Spec
INVARIANTS
  RevertedIsNotHeld

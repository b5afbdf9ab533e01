CONSTANTS
  w1 = w1
  w2 = w2
  p1 = p1
  k1 = k1
  k2 = k2
  i1 = i1
  None = None
  WorkerTasks = {w1}
  PopupTasks = {p1}
  Keys = {k1, k2}
  Items = {i1}
  MaxEvents = 1
SPECIFICATION Spec
SYMMETRY Symmetry
INVARIANTS
  LockHolds

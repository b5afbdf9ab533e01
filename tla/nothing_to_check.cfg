CONSTANTS
  Witnesses = {w1, w2}
  Verifiers = {v}
  Extenders = {e}
  Epoch = 2
  RunCap = 3
  Confs = 1
  BuryDepth = 2
  MaxEpochs = 2
  MaxHeight = 6
  MaxReorgs = 1
  MaxDepth = 1
  None = None
SPECIFICATION Spec
CONSTRAINT OneEach
SYMMETRY Symmetry
INVARIANTS
  NothingToCheckIsAccepted

SPECIFICATION Spec
CONSTANTS
  N = 2
  t1 = t1
  t2 = t2
  none = none
  Thread = {t1, t2}
  None = none
  Sets <- MCSets
  AddTxSets <- MCTxSets
  DumpIDs = {0, 2}
  BufSize = 2
  Strays = {}
SYMMETRY ThreadSymmetry
INVARIANT CallsProceed

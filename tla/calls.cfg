SPECIFICATION Spec
CONSTANTS
  N = 2
  t1 = t1
  t2 = t2
  none = none
  Thread = {t1, t2}
  None = none
  Sets <- MCSets
  AddTxSets <- MCNoTxSets
  DumpIDs = {0, 2}
  BufSize = 2
  Strays = {2}
SYMMETRY ThreadSymmetry
INVARIANTS CallsInv NoPairMissed StatComplete CallsProceed

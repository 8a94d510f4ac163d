SPECIFICATION Spec
CONSTANTS
  N = 2
  Sets <- SmallSets
  NoSet = NoSet
  Shape = {small, big}
  NoShape = NoShape
  NoRing = NoRing
  Strays = {}
INVARIANTS
  MsgNumFindsRings

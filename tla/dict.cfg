SPECIFICATION Spec
CONSTANTS
  k1 = k1
  k2 = k2
  k3 = k3
  v1 = v1
  v2 = v2
  Values <- SomeValues
  Key = {k1, k2, k3}
  NoKey = NoKey
  Hashes <- SomeHashes
  InitialSize = 1
  ForceRatio = 1
  EmptyVisits = 2
  Batch = 2
  Bits = 3
  ExpandSizes = {8}
  MaxSize = 8
INVARIANTS
  DictInv
  LookupFindsAll
  IteratorExact
  ScanMissesNothing
  SamplingReachesAll
PROPERTIES
  ImplementsMap

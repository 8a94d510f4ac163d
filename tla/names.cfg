SPECIFICATION Spec
CONSTANTS
  p = p
  n1 = n1
  n2 = n2
  c1 = c1
  c2 = c2
  Module = {1, 2}
  Name = {n1, n2}
  Client = {p}
  Copy = {c1, c2}
  None = None
SYMMETRY Symmetry
INVARIANTS
  NamesInv
  DictionaryExclusive
  NamesAgree
  NamedAreFound
CHECK_DEADLOCK FALSE

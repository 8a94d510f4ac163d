SPECIFICATION Spec
CONSTANTS
  TypeMax <- MCTypeMax
  Null = Null
  Byte <- MCByte
  MaxPrealloc = 4
  Arg <- MCArg
  Format <- MCFormat
  MaxLen = 8
  Repr <- MCRepr
INVARIANTS
  HeaderTrue
  TextKept
  PartsMakeWhole

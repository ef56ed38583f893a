CONSTANTS
  Radix = 6
  V4Len = 1
  MappedPrefix <- MCMappedPrefix
  Spelling <- MCSpelling
  Reserved <- MCReserved
  MaxLen = 10
SPECIFICATION Spec
INVARIANTS
  RoundTrip
  ProbeAgrees
PROPERTY CutOffKeepsTarget

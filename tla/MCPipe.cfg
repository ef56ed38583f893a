CONSTANT MaxBytes = 3
SPECIFICATION FairSpec
INVARIANTS
  TypeOK
  BytesAccounted
PROPERTIES
  TunnelSpec
  EndsCompletely

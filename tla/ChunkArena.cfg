\* Splits, coalescing, quota, duplicate releases, and a restart of the owner.
SPECIFICATION Spec
SYMMETRY Symmetry
CONSTANTS
  Bytes = 8
  Model = {A, B}
  Layout = {gqa}
  RequestSize = {2, 3}
  Alignment = {2, 3}
  HardLimit = {6}
  MaxGeneration = 3
  MaxEpoch = 2
CHECK_DEADLOCK FALSE
INVARIANTS
  TypeOK
  Tiled
  QuotaExact
  RefusalIsGenuine
  HolderKeepsChunk

\* Three requests, with branches and suspended ones, on a pool that is smaller
\* than what they need.
SPECIFICATION Spec
CONSTANTS
  Requests = 3
  Prompts <- Shared
  BlockSize = 2
  NumBlocks = 4
  Chunk = 4
  MaxNew = 1
CHECK_DEADLOCK FALSE
INVARIANTS
  TypeOK
  BytesExact
  CacheExact

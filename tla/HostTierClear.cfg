\* A restore is cancelled, and the cache is cleared afterwards.
SPECIFICATION Spec
CONSTANTS
  Requests = 4
  Prompts <- OnePrompt
  BlockSize = 2
  NumBlocks = 3
  Chunk = 5
  MaxNew = 1
  HostPages = 2
  MaxActive = 2
CHECK_DEADLOCK FALSE
INVARIANTS
  ClearQuiesces

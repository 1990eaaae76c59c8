\* Four requests one after the other or at once on a device that holds one of
\* them; room for two pages on the host; two copies at a time.
SPECIFICATION FairSpec
CONSTANTS
  Requests = 4
  Prompts <- OnePrompt
  BlockSize = 2
  NumBlocks = 3
  Chunk = 5
  MaxNew = 1
  HostPages = 2
  MaxActive = 2
CHECK_DEADLOCK FALSE
INVARIANTS
  TypeOK
  BytesExact
  BlocksKept
PROPERTIES
  RestoreSettles

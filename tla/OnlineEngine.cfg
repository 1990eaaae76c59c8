\* Two to four requests on a pool of four blocks, FCFS and priority, recompute and
\* checkpoint, with clients that cancel and forward passes that fail.
SPECIFICATION FairSpec
CONSTANTS
  Setup <- Setups
  Requests = 4
  BlockSize = 2
  NumBlocks = 4
  MaxSeqs = 3
  MaxBatchedTokens = 6
  PrefillChunkCap = 4
  MaxRecords = 2
CHECK_DEADLOCK FALSE
INVARIANTS
  TypeOK
  RequestsAccounted
  ProcessSurvives
PROPERTIES
  OutputsKept
  EveryRequestSettles

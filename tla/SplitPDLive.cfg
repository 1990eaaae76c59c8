\* Two requests compete for the short lane; its P may die or answer late: all
\* requests end, all pages come back, stop() returns.
SPECIFICATION FairSpec
CONSTANTS
  a = a
  b = b
  c = c
  d = d
  Request = {a, b}
  LaneOf <- LaneOfABCD
  Prompt <- PromptABCD
  Output <- OutputABCD
  Block = 2
  PrefillChunk = 4
  Slots <- SlotsSL
  Tokens <- TokensSL
  MaxQueue = 2
  NoRequest = NoRequest
  Lossy = {0}
CHECK_DEADLOCK FALSE
PROPERTIES
  LoopDrains

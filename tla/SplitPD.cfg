\* Two requests compete for the short lane, one is too large for the long one;
\* the short P may die or answer late.
SPECIFICATION Spec
CONSTANTS
  a = a
  b = b
  c = c
  d = d
  Request = {a, b, d}
  LaneOf <- LaneOfABCD
  Prompt <- PromptABCD
  Output <- OutputABCD
  Block = 2
  PrefillChunk = 2
  Slots <- SlotsSL
  Tokens <- TokensSL
  MaxQueue = 2
  NoRequest = NoRequest
  Lossy = {0}
CHECK_DEADLOCK FALSE
INVARIANTS
  TypeOK
  SourcesHeld
  AdmissionSound
PROPERTIES
  OutcomeIsFinal

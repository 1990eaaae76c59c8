\* Two providers that compete for two slots, a consumer, and a restart.
SPECIFICATION LiveSpec
CONSTANTS
  p1 = p1
  p2 = p2
  c1 = c1
  c2 = c2
  Nothing = Nothing
  Provider = {p1, p2}
  Consumer = {c1}
  Count <- CountTwoOne
  NumSlots = 2
  Resent = {"reserve_slots", "acquire_attach"}
  MaxRestarts = 1
CHECK_DEADLOCK FALSE
INVARIANTS
  TypeOK
  SlotsExclusive
  NothingStranded
PROPERTIES
  SlotsComeBack

\* Producers of one identity, one of them with other bytes, and consumers of one
\* process, one of which repeats itself; a restart; room for two objects.
SPECIFICATION Spec
CONSTANTS
  p1 = p1
  p2 = p2
  p3 = p3
  c1 = c1
  c2 = c2
  x = x
  role = role
  Nothing = Nothing
  Producer = {p1, p2, p3}
  Consumer = {c1, c2}
  Identity <- IdentityX
  Bytes <- BytesOne
  Sum <- SumOther
  Wanted <- WantedX
  Process <- OneProcess
  Resent = {"acquire"}
  MaxRestarts = 1
  Casts <- CastsBoth
  Impatient = {p1, p3, c1}
  CapacityBytes = 2
  CapacityObjects = 2
  CapacityLeases = 2
CHECK_DEADLOCK FALSE
INVARIANTS
  TypeOK
  NeverTerminates
  ContentExact
  TokensAgree

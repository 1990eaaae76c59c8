\* Two generations of one request, the first of which may be late and the second
\* cancelled, on roles with room for one and queues of one command.
SPECIFICATION FairSpec
CONSTANTS
  a1 = a1
  a2 = a2
  Request = {a1, a2}
  Id <- IdA
  Generation <- GenerationA
  Demand <- DemandTwoOne
  Pages <- PagesTwo
  Capacity <- CapacityOne
  QueueCapacity = 1
  Hasty = {a1}
  Fickle = {a2}
CHECK_DEADLOCK FALSE
INVARIANTS
  TypeOK
  BudgetExact
  SourceHeld
  NothingLeft
PROPERTIES
  SubmitReturns

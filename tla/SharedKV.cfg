\* Two sequences per worker on a nearly full arena; A's answers may get lost,
\* A may crash, either may stop.
SPECIFICATION Spec
SYMMETRY Symmetry
CONSTANTS
  A = A
  B = B
  Bytes = 8
  Model = {A, B}
  Layout = {A, B}
  Layers <- LayersAB
  Half <- HalfAB
  Target <- TargetAB
  Limit <- LimitAB
  Request = {s1, s2}
  MaxBlocks = 2
  MaxKernels = 2
  MaxGeneration = 2
  Faulty = {A}
CHECK_DEADLOCK FALSE
INVARIANTS
  TypeOK
  PagesExclusive
  BooksAgree
PROPERTIES
  ImplementsExclusive

\* Two sequences per worker; A may time out, crash and stop: retired pages and
\* calls come back.
SPECIFICATION FairSpec
CONSTANTS
  A = A
  B = B
  Bytes = 8
  Model = {A, B}
  Layout = {A, B}
  Layers <- LayersAB
  Half <- HalfAB
  Target <- TargetAB
  Limit <- LimitAB
  Request = {s1, s2}
  MaxBlocks = 2
  MaxKernels = 1
  MaxGeneration = 1
  Faulty = {A}
CHECK_DEADLOCK FALSE
PROPERTIES
  WorkersProceed

SPECIFICATION FairProgramsSpec
CONSTANTS
  sender = sender  catcher = catcher
  signals_number = 12
  k1 = k1  k2 = k2
  Producers = {0, 1, 2}
  Consumers = {k1, k2}
  Pieces <- ThreePieces
  Lengths = {1, 2, 3}
  Outputs = {0, 1, 2, 3}
  PipeSize = 2
  Sizes = {0, 1, 2, 3}
  MaxBlocks = 5
CHECK_DEADLOCK FALSE
INVARIANTS
  BlocksKept
  OneAtATime
  NoneLost
  NoneMadeUp
  InputsArrive
PROPERTIES
  BothEnd
  PipesDrain

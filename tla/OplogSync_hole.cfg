SPECIFICATION Spec
CONSTANTS
  Node <- Three
  PushTo <- ChainPush
  PullFrom <- ChainPull
  MaxBatch = 1
  MaxSeq <- TwoFromOne
  MaxRestarts = 1
INVARIANTS VectorCovers

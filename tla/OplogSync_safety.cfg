SPECIFICATION Spec
CONSTANTS
  Node <- Three
  PushTo <- RelayPush
  PullFrom <- RelayPull
  MaxBatch = 1
  MaxSeq <- TwoFromOne
  MaxRestarts = 1
INVARIANTS TypeOK VectorBounded PushCursorSound 

SPECIFICATION FairSpec
CONSTANTS
  Node <- Two
  PushTo <- PairPush
  PullFrom <- PairPull
  MaxBatch = 1
  MaxSeq <- TwoFromOne
  MaxRestarts = 0
PROPERTIES Disseminates Delivered LagClears

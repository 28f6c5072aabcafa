SPECIFICATION FairSpec
CONSTANTS
  N = 3
  BufSize = 2
  Chains <- MCChains
  MaxFrames = 4
  MaxUnderflows = 1
INVARIANTS
  TxExclusion
  SentIntact
  NoTransmitStall
PROPERTY DescriptorsReturn

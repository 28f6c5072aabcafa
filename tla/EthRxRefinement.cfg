SPECIFICATION FairSpec
CONSTANTS
  N = 3
  MaxSegs = 2
  MaxFrames = 4
INVARIANTS
  OwnershipExclusion
  GivenInOrder
  NoReceiveStall
PROPERTIES
  ImplementsQueue
  ReceptionGoesOn

CONSTANTS
  Addrs = {a1, a2}
  NoAddr = NoAddr
  Static = Static
  Opts <- MCOpts
  NotGiven = NotGiven
  U32Max = 1023
  U16Max = 7
  CoarseSecs = 2
  TriesMax = 7
  MaxReplies = 5
  MaxConflicts = 2
  MaxAllocFails = 1
  MaxDhcpTries = 4
SPECIFICATION FairSpec
INVARIANTS StaticIsFinal AddressIsLeased LeaseCountsDown FreshTransaction
PROPERTIES BootEnds LeaseExpires

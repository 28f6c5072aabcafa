CONSTANTS
  Addrs = {a1, a2}
  NoAddr = NoAddr
  Static = Static
  Opts <- MCFewOpts
  NotGiven = NotGiven
  U32Max = 1023
  U16Max = 7
  CoarseSecs = 2
  TriesMax = 7
  MaxReplies = 2
  MaxConflicts = 1
  MaxAllocFails = 0
  MaxDhcpTries = 4
SPECIFICATION FairSpec
PROPERTY ServerStarts

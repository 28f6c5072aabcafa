CONSTANTS
  Cyclic = {"fine", "coarse"}
  Interval <- MCInterval
  TcpInterval = 3
  AppDelays = {2}
  MaxApp = 1
  Sleeps = {9}
  PoolSize = 4
  Wrap = 20
  MaxLag = 2
SPECIFICATION FairSpec
INVARIANTS ListConsistent NoCatchingUp
PROPERTIES OnTime TimersRun

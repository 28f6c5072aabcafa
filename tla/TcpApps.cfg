SPECIFICATION AppsSpec
CONSTANTS
  PoolSize = 8
  SndBuf = 3
  Wnd = 4
  MaxUnits = 7
  SegLens = {1, 2, 3}
  HeapOk = {TRUE, FALSE}
  ClientPool = 4
  ClientSndBuf = 2
  MaxMessages = 4
INVARIANTS
  CallbacksHaveEs
  EchoInOrder
  Accounting
  MessageOnce
PROPERTY AppsClose
CHECK_DEADLOCK FALSE

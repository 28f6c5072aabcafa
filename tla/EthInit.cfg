SPECIFICATION MacFairSpec
CONSTANTS
  Wrap = 16
  ETH_TIMEOUT_SWRESET = 1
  ETH_TIMEOUT_LINKED_STATE = 3
  ETH_TIMEOUT_AUTONEGO_COMPLETED = 3
  PHY_READ_TO = 5
  PHY_RESET_DELAY = 2
  MaxLag = 1
INVARIANTS
  FreshStatus
  ModeNegotiated
PROPERTY InitEnds
CHECK_DEADLOCK FALSE

SPECIFICATION Spec
CONSTANTS
  PoolSize = 3
  BufSize = 2
  MaxLength = 5
  MaxHeld = 2
INVARIANTS PoolConsistent TotLenIsTrue

SPECIFICATION Spec
CONSTANTS
  MEM_SIZE_ALIGNED = 32
  MEM_ALIGNMENT = 2
  SIZEOF_STRUCT_MEM = 2
  MIN_SIZE = 3
  Width = 40
  Sizes = {0, 1, 5, 8, 13, 20, 36, 39}
INVARIANTS HeapConsistent FailsOnlyWhenFull
PROPERTY ImplementsAllocator

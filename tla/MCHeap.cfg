SPECIFICATION Spec
CONSTANTS
  HeapBase = 1
  RamEnd = 7
  MaxU32 = 40
  Sizes = {0, 4, 5, 12, 38}
  Data = {0, 1}
INVARIANTS TypeOK Tiled Coalesced
PROPERTIES KeepsPromise

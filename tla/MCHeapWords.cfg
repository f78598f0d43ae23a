CONSTANTS
  W = 6
  UIntSize = 960
  NPages = 64
  InitPages = 1
  MaxPages = 2
  Sizes = {0, 4, 20}
  Junk <- MCJunk
SPECIFICATION MemSpec
INVARIANTS FootersAgree PayloadIsKept
PROPERTIES ImplementsHeap

CONSTANTS
  NFrames = 192
  Word = 1024
  Sections <- BootSections
  W = 8
  UIntSize = 1024
  InitPages = 1
  MaxPages = 3
  Sizes = {0, 6, 10, 28, 40}
  Keys = {1, 2, 3, 4, 5, 6, 7}

SPECIFICATION StructuresSpec
CONSTRAINT FewHeld
INVARIANTS GetFindsUnusedPage
INVARIANTS ChunksTile BusyIsLive NoFreeNeighbours NothingLeaks RefusalIsJustified
INVARIANTS LinksLeadBack
PROPERTIES AllocIsFresh SectionIsExact
PROPERTIES ImplementsAllocator
PROPERTIES ImplementsDictionary OnlyBlackLeavesSpoil

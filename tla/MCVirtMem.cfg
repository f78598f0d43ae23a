CONSTANTS
  NFrames = 8
  Word = 64
  Fan = 3
  PageDir = 7
  BootTable <- MCBootTable
  BootSpace <- MCBootSpace
  BootUsed <- MCBootUsed
  Pinned <- MCPinned
  ApicPages = {1}
  Devices <- MCDevices
  ClientPages = {1, 2, 4, 5}
  Contents <- MCContents
  RunLengths = {1, 2, 4}
SPECIFICATION Spec
CONSTRAINT SmallTLB
INVARIANTS TablesArePrivate TLBIsCoherent HeapFramesAreOwned NullStaysUnmapped FindsRun
PROPERTIES MapIsExact ImplementsAddressSpace

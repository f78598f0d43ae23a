CONSTANTS
  NFrames = 8
  Word = 64
  Fan = 4
  PageDir = 7
  BootTable <- GrowBootTable
  BootSpace <- GrowBootSpace
  BootUsed = {3, 4, 5, 6, 7}
  Pinned <- GrowPinned
  ApicPages = {1}
  Devices = {3}
  ClientPages = {1, 8, 9}
  Contents <- GrowContents
  RunLengths = {1}
SPECIFICATION Spec
INVARIANTS TablesArePrivate

CONSTANTS
  Objects = {o1, o2}
  Variables = {p, q}
  Null = Null
  Arrays = {a1, a2}
  Buffers = {b1, b2, b3}
  NoBuffer = NoBuffer
  x = x
  z = z
  Chars = {x, z}
  Zero = z
  Literals <- MCLiterals
  MaxLength = 3
  Width = 2
  Height = 3
  Printable = {"?"}
  Unprintable = {"bell"}
  Question = "?"
  NewLine = "newline"
  Empty = "empty"
  Themes = {"grey", "red"}
  DefaultTheme = "grey"
  Colours = {"red", "none"}
  Places <- MCPlaces
  Vectors = {14, 17, 64}
  Exceptions = {14, 17}
  ErrorCodes <- MCErrorCodes
  Points = {1, 2}
  MaxDepth = 2
  IntBits = 8
  LongBits = 16
  Parts = 128
  Requests <- MCRequests
  Hosts <- MCHosts
  Complete <- MCComplete
  Headers <- MCHeaders
  SectorSize = 2
  FatEntries = 4
  DirSectors = 2
  OneMiB = 16
  MaxMemory = 24
  Top = 44
  MaxRegions = 3

SPECIFICATION LibSpec
INVARIANTS CountsAreRight TextIsNumber DecimalIsRounded KernelIsLoaded
PROPERTIES AssignShares ImplementsStrings ScreenIsSheet InterruptsAreExact KernelIsEntered
CHECK_DEADLOCK FALSE

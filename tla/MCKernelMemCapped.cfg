CONSTANTS
  NFrames = 48
  Word = 192
  PageSize = 4
  Fan = 32
  PageDir = 19
  LowPages = 16
  HhkEnd = 17
  KernelEnd = 26
  KernelBase = 768
  HeapWords <- MCHeapWords
  RsdpTop = 136
  RsdpStep = 2
  MaxOverrides = 2
  Machines <- CappedMachines
  MapPages = {4, 16}
  LapicFrame = 47
  InitPages = 2
  Growths = {2, 7}
  MaxPages = 6
  MaxHeaps = 2
SPECIFICATION Spec
INVARIANT DramIsUsable
CHECK_DEADLOCK FALSE

SPECIFICATION Spec
CONSTANTS
  COL_WIDTH = 4
  MEM_BUFFER_WIDTH = 64
  CL_WIDTH = 16
  WORD = 4
  Junk = Junk
  Images <- WideImages
INVARIANT FrameComplete

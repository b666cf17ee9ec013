SPECIFICATION PortSpec
CONSTANTS
  COL_WIDTH = 3
  MEM_BUFFER_WIDTH = 8
  CL_WIDTH = 4
  WORD = 2
  Junk = Junk
  Width = 8
INVARIANT RequestKind

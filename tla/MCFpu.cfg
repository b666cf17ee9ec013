SPECIFICATION Spec
CONSTANTS
  COL_WIDTH = 4
  MEM_BUFFER_WIDTH = 64
  CL_WIDTH = 16
  WORD = 4
  Junk = Junk
  Images <- MCImages
INVARIANTS FrameComplete RightLines NoLostRequest BankInv
PROPERTIES BanksHeld FrameEnds

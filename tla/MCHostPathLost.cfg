SPECIFICATION PathSpec
CONSTANTS
  FIFO_DEPTH = 2
  NLINES = 2
  MaxWrites = 2
  Offset = 1
  d1 = d1
  d2 = d2
  Data <- MCData
  Zero = d1
  X = X
  NoReq = NoReq
  NoAnswer = NoAnswer
PROPERTY WriteTakesEffect

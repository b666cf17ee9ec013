SPECIFICATION MCSpec
CONSTANTS
  FIFO_DEPTH = 2
  NLINES = 3
  MaxSize = 3
  MaxWrites = 2
  d1 = d1
  d2 = d2
  Data <- MCData
  X = X
  NoReq = NoReq
INVARIANTS TypeOK NoOverflow LinesConserved InOrder WrittenWhenDone
PROPERTY ReadsFinish WritesFinish

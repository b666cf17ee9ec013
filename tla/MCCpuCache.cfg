SPECIFICATION Spec
CONSTANTS
  i1 = i1
  i2 = i2
  t0 = t0
  t1 = t1
  w0 = w0
  w1 = w1
  Index <- MCIndex
  Tag <- MCTag
  Word <- MCWord
  Zero = w0
  ZeroTag = t0
INVARIANT PerfectMemory

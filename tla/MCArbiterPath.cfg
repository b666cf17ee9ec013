SPECIFICATION Spec
CONSTANTS
  a = a
  b = b
  conf = conf
  z = z
  Line <- MCLine
  Data <- MCData
  Config = conf
  Zero = z
  X = X
  Asks <- MCAsks
INVARIANTS  Turns
PROPERTIES TransactionHeld RequestsAnswered

SPECIFICATION Spec
CONSTANTS
  Devices <- MCDevices
  NoOp = NoOp
  NADDR = 2
  Flags <- MCFlags
  Entry <- MCEntry
PROPERTY ServiceCompletes

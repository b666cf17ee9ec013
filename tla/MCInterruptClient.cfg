SPECIFICATION ClientSpec
CONSTANTS
  Devices <- MCDevices
  Enabled <- MCEnabled
  NoOp = NoOp
INVARIANTS TypeOK JumpForPending
PROPERTIES ClearServedOnly UrgentServed

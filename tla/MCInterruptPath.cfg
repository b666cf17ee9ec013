SPECIFICATION Spec
CONSTANTS
  Devices <- MCDevices
  NoOp = NoOp
  NADDR = 2
  Flags <- MCFlags
  Entry <- MCEntry
INVARIANTS PathTypeOK Handshake PipelineCleared FlagsPreserved
PROPERTIES NoNesting  RequestEntersRoutine InjectionEnds

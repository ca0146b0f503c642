SPECIFICATION Spec
CONSTANTS
  None = None
  FifoDepth = 2
  HostBuffer = 2
  PollPeriod = 2
  Cells = 4
  Jobs <- MCJobs
  MaxSent = 4
  MaxJobs = 1
  MaxEvents = 1
INVARIANTS
  BytesInOrder
  PayloadInPlace
PROPERTIES
  UsesArbiter
  TransfersEnd
  ResetEnds

SPECIFICATION FairSpec
CONSTANTS
  Commands <- MCCommands
  CallbackSources = {"isv"}
  WaitingSources = {"isv"}
  EventSources = {"button"}
  PacketLengths <- MCLengths
  ReadLengths <- MCLengths
  FlushChunk = 1
  RxSpace = 1
  TxSpace = 1
  MaxOwed = 1
INVARIANTS
  CallbackOwed
  ResponsesInOrder
  InFrame
PROPERTIES
  GivenUpAfterTimeout
  ResponsesArrive
  FlushReported

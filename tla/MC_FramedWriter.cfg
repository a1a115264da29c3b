\* Backpressure: writes against a blocking transport, an encoder error, a close.
CONSTANTS
  Script <- ScriptBackpressure
  Chunk = 2
  Low = 2
  High = 3
  ErrorPolicy = "Stop"
  MaxFaults = 1
  MailboxCap = 2
  PeerMayClose = TRUE
SPECIFICATION Spec
INVARIANTS TypeOK BackpressureBound
PROPERTIES WrittenEventuallyFlushed WriterPollReturns

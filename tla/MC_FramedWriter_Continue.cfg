\* A WriteHandler::error that returns Continue; writes around a close, then a stop.
CONSTANTS
  Script <- ScriptWriteClose
  Chunk = 2
  Low = 2
  High = 3
  ErrorPolicy = "Continue"
  MaxFaults = 2
  MailboxCap = 1
  PeerMayClose = FALSE
SPECIFICATION Spec
PROPERTIES CloseAfterFlush WrittenEventuallyFlushed

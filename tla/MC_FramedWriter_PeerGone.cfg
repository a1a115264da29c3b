\* error returns Continue and the peer closes: the write loop never returns.
CONSTANTS
  Script <- ScriptWrite
  Chunk = 2
  Low = 2
  High = 3
  ErrorPolicy = "Continue"
  MaxFaults = 0
  MailboxCap = 1
  PeerMayClose = TRUE
SPECIFICATION Spec
PROPERTY WriterPollReturns

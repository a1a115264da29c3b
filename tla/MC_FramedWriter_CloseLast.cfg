\* A close as the last message: the parked WriterFut is not woken.
CONSTANTS
  Script <- ScriptCloseLast
  Chunk = 2
  Low = 2
  High = 3
  ErrorPolicy = "Stop"
  MaxFaults = 0
  MailboxCap = 1
  PeerMayClose = FALSE
SPECIFICATION Spec
PROPERTY CloseCompletes

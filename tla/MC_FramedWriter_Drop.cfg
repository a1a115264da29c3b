\* A stop while the transport blocks: the buffer is dropped unwritten.
CONSTANTS
  Script <- ScriptWriteStop
  Chunk = 2
  Low = 2
  High = 3
  ErrorPolicy = "Stop"
  MaxFaults = 0
  MailboxCap = 1
  PeerMayClose = FALSE
SPECIFICATION Spec
INVARIANT NoBytesLostOnDrop

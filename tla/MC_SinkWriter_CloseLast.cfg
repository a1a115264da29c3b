\* A close as the last message: the SinkWriteFuture never stored its waker.
CONSTANTS
  Script <- ScriptCloseLast
  ErrorPolicy = "Stop"
  MaxFaults = 0
SPECIFICATION Spec
PROPERTY SinkCloseCompletes

\* poll_accept may fail once with an error other than WouldBlock
\* (ECONNABORTED, EMFILE): WtfStream then ends the Server's stream.
CONSTANTS
  c1 = c1
  c2 = c2
  c3 = c3
  Conns <- MCConns
  ErrKinds = {"Other"}
  MaxAcceptErrors = 1

SPECIFICATION Spec
PROPERTY EveryConnectionServed

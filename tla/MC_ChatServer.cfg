\* Accepts never fail: every connection must get its session.
CONSTANTS
  c1 = c1
  c2 = c2
  c3 = c3
  Conns <- MCConns
  ErrKinds = {}
  MaxAcceptErrors = 0

SPECIFICATION Spec
PROPERTY
  EveryConnectionServed

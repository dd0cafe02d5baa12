\* Two wrappers over two handles, timeouts of none and one and a half milliseconds, and a
\* clock that runs past them.
CONSTANTS
  Conns = {c1, c2}
  MaxHandle = 2
  Timeouts = {0, 3}
  MaxTime = 5
SPECIFICATION Spec
INVARIANTS
  HandlesMatchConnections
  OperationsKeepTheirTime

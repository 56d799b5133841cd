CONSTANTS
  h1 = h1
  h2 = h2
  h3 = h3
  mem0 = mem0
  mem1 = mem1
  eid8 = eid8
  eid9 = eid9
  None = None
  Handles <- MCHandles
  Devices <- MCDevices
  Eids <- MCEids
  MaxFd = 4
  AppFds = {0}
  Timeouts = {0, 2000}
SYMMETRY Symmetry
\* A process that crashed takes no further step.
CHECK_DEADLOCK FALSE
SPECIFICATION Spec
INVARIANT MockSurvives

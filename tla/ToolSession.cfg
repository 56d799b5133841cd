SPECIFICATION Spec
CONSTANTS
  Runs = {"any", "vu"}
  Args <- MCArgs
  Offered <- MCOffered
  Errors = {7}
  MaxIterations = 3
INVARIANTS
  TypeOK
  LeftOpenReported
  SuccessMeansDone
  TunnelledAlike
  AnnouncedSize
PROPERTIES
  CommandsRunOut
  SessionEnds

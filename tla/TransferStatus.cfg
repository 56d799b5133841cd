SPECIFICATION Spec
CONSTANTS
  Jobs <- MCJobs
  Sizes <- MCSizes
  Errors = {7}
  OffsetSpace = 8192
INVARIANTS
  ZeroIsSuccess

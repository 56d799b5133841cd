CONSTANTS
  identify = identify
  get_ld_info = get_ld_info
  TUNNEL = TUNNEL
  NOOP = NOOP
  Cmds <- MCCmds
  FmapiCmds <- MCFmapiCmds
  RspMin <- MCRspMin
  RspMax <- MCRspMax
  TagSpace = 3
  SizeMax = 1000
  Codes = {1}
  MaxTag = 3
  Ticks = 2
  MaxInterrupts = 2
SPECIFICATION FairSpec
PROPERTIES CallReturns AnswersItsCaller
CHECK_DEADLOCK FALSE

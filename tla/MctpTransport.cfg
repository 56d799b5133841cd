CONSTANTS
  identify = identify
  get_ld_info = get_ld_info
  TUNNEL = TUNNEL
  NOOP = NOOP
  Cmds <- MCCmds
  FmapiCmds <- MCFmapiCmds
  RspMin <- MCRspMin
  RspMax <- MCRspMax
  TagSpace = 3
  SizeMax = 1000
  Codes = {1}
  MaxTag = 5
  Ticks = 1
  MaxInterrupts = 0
SPECIFICATION Spec
INVARIANTS TypeOK FreshReply OwedReplies
CHECK_DEADLOCK FALSE

CONSTANTS
  identify = identify
  get_lsa = get_lsa
  get_ld_info = get_ld_info
  TUNNEL = TUNNEL
  NOOP = NOOP
  Cmds <- MCCmds
  FmapiCmds <- MCFmapiCmds
  RspMin <- MCRspMin
  RspMax <- MCRspMax
  TagSpace = 256
  SizeMax = 1000
  Codes = {1, 7}
  Ids = {0, 3}
  Sizes = {4}
  MaxScripted = 3
  MaxMockSent = 3
SPECIFICATION Spec
INVARIANTS TypeOK ExactAcceptance MctpErrorReturned ScriptedInOrder

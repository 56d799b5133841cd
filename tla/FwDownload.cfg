CONSTANTS
  p1 = p1
  p2 = p2
  p3 = p3
  None = None
  Parts <- ThreeParts
  BEGIN_RETRY = 2
  OP_TIMEOUT = 2
  AsksAgain = 3
SPECIFICATION FairSpec
INVARIANTS TypeOK ImageComplete MailboxRelocked SessionCancelled DataMatches
PROPERTIES LeavesLess Terminates

CONSTANTS
  Args <- MCArgs
  Codes = {1, 7}
SPECIFICATION Spec
INVARIANTS
  TypeOK
  DecodesWhatCame
  ConformingAccepted
  RetOnSuccess
  FitsMailbox
  BoundedDecode

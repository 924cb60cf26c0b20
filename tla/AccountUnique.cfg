SPECIFICATION Spec
CONSTANTS
  p1 = p1  p2 = p2
  Players = {p1, p2}
  NoJob = NoJob
  NameIds <- MCNameIds
  PassIds <- MCPassIds
  MaxLen = 25
  Names <- MCNames
  Passwords <- MCPasswords
  Table <- MCTable
  MaxAmount <- MCMaxAmount
INVARIANT GrowIDsUnique
CHECK_DEADLOCK FALSE

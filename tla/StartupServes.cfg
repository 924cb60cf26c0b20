SPECIFICATION FairSpec
CONSTANTS
  a = a
  Clients = {a}
  NoFile = NoFile
  NoItem = NoItem
  Undefined = Undefined
  Files <- MCFiles
  Texts <- MCTexts
  NoText = NoText
PROPERTY StartServes
CHECK_DEADLOCK FALSE

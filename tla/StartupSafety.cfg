SPECIFICATION FairSpec
CONSTANTS
  a = a
  b = b
  Clients = {a, b}
  NoFile = NoFile
  NoItem = NoItem
  Undefined = Undefined
  Files <- MCFiles
  Texts <- MCTexts
  NoText = NoText
INVARIANTS
  TypeOK
  ServesOnlyReady
  ItemsById
  EncodeRestores
  OverrunsOnlyCut
  RegistriesWhole
  RunsInPlace
PROPERTY
  StartIsDecided
CHECK_DEADLOCK FALSE

CONSTANTS
  None = None
  Default = Default
  Own = Default
  a = a
  b = b
  l = l
  p = p
  q = q
  typed = typed
  Ip = {a, b, l}
  Port = {p, q}
  FirstPort = p
  Local = {l}
  Cred = {Default, typed}
  Accepts <- MCAccepts
  ServerKeys <- MCServerKeys
  ScanKey <- MCScanKey
  Known <- MCKnown
  Entry = {"e1", "e2"}
  Block <- MCBlock
  Texts <- MCTexts
  InitialNodes = {}
  MaxScans = 2
  MaxEdits = 2
SPECIFICATION Spec
INVARIANTS
  OkIsEarned
PROPERTIES
  CredentialsHold
  AddedAreNew
CHECK_DEADLOCK FALSE

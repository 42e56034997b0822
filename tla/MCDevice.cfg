SPECIFICATION Spec
CONSTANTS
  a = a
  b = b
  None = None
  Byte = {a, b}
  Chunks <- MCChunks
  Capacity = 2
  Paths <- MCPaths
  Hrps = {"thor", "tthor"}
  Valid <- MCValid
  Blank <- MCBlank
INVARIANTS
  TypeOK
  NoCommandLost
  ReviewIsCurrent
  SignatureCoversSent
  AddressIsRequested
  SessionKeepsPath
PROPERTIES
  DecisionIsStable
  OnlyWithConsent

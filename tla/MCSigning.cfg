SPECIFICATION UserSpec
CONSTANTS
  a = a
  None = None
  Byte = {a}
  Chunks <- MCChunks
  Capacity = 2
  Paths <- MCPaths
  Hrps = {"thor"}
  Valid <- MCValid
  Width = 4
  Layouts <- MCLayouts
  LayoutOf <- MCLayoutOf
INVARIANTS
  ScreensAgree
  SignedAfterReading
  ConfirmedAddressWasRead
PROPERTIES
  EveryCommandAnswered

SPECIFICATION Spec
CONSTANTS
  Hrps <- MCHrps
  Hashes <- MCHashes
  Paths <- MCPaths
  Mistakes <- MCMistakes
INVARIANTS
  AddressDecodes
  ScreenShowsReply

SPECIFICATION Spec
CONSTANTS
  Width = 9
  Docs <- MCDocs
  DefaultChains = {"thorchain"}
INVARIANTS
  TypeOK
  CacheIsFresh
  EveryIndexFinds
  ShowsAsSpecified
PROPERTIES
  LaterIndexLaterText

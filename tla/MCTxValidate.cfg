SPECIFICATION Spec
CONSTANTS
  MaxTokens = 10
  Documents <- MCDocuments
  Messages <- MCMessages
  Texts <- MCTexts
  Remains <- MCRemains
  Codes <- MCCodes
  Required <- MCRequired
INVARIANTS
  TokensNest
  TokensAsDocument
  WhitespaceFound
  KeysInOrder
  FieldsAtRoot

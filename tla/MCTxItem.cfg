SPECIFICATION Spec
CONSTANTS
  Width = 4
  Decimals = 2
  TmpSize = 8
  UiSize = 13
  ValidateLen = 5
  ViewLen = 6
  Items <- MCItems
  Upper <- MCUpper
  Substitutes <- MCSubstitutes
INVARIANTS
  TypeOK
  AmountIsExact
  ValueIsComplete
  EveryPageShown
  OverrunOnlyAtLimit

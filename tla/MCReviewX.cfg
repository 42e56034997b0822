SPECIFICATION ReadingSpec
CONSTANTS
  Width = 5
  Most = 4
  Layouts <- MCLayouts
INVARIANTS
  TypeOK
  ReadInOrder
PROPERTIES
  ImplementsReview
  ReaderGetsThrough

SPECIFICATION ReadingSpec
CONSTANTS
  Width = 5
  Most = 4
  Layouts <- MCLayouts
PROPERTIES
  AllCanBeShown

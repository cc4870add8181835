SPECIFICATION Spec
CONSTANTS
  word = word
  key = key
  value = value
  Entries <- ThreeEntries
  Queries <- SomeQueries
  Boxes <- SomeBoxes
  All = All
  Blank = Blank
  MaxEvents = 5
INVARIANTS
  TypeOK
  TagsNeverHideAll
  MarksStayOnLines
PROPERTY TogglesOneTag
CHECK_DEADLOCK FALSE

SPECIFICATION LibrarySpec
CONSTANTS
  n1 = n1
  n2 = n2
  n3 = n3
  n4 = n4
  NULL = NULL
  Lists <- MCLists
  Nodes <- MCNodes
  Key <- MCKey
  Formats <- MCFormats
  UWORD = 256
  BUFFER = 40
  FRACTION = 100
  Numbers <- MCNumbers
  Doubles <- MCDoubles
  Strings <- MCStrings
  Widths <- MCWidths
  Addresses <- MCAddresses
INVARIANTS WellLinked FieldsAreRight FormatReadOnce
PROPERTY ImplementsSequences
CHECK_DEADLOCK FALSE

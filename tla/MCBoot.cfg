CONSTANTS
  Text <- MCText
  Junk = "junk"
  MaxResets = 2
SPECIFICATION Spec
INVARIANT RunsFromImage
PROPERTIES
  Prints
  TextPrinted
CHECK_DEADLOCK FALSE

SPECIFICATION Spec
CONSTANTS
  Index <- MCIndex
  CustomCode <- MCCustomCode
  Message <- MCMessage
CHECK_DEADLOCK FALSE
INVARIANT DuplicateConverted

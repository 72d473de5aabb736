SPECIFICATION Spec
CONSTANTS
  Index <- MCIndex
  CustomCode <- MCCustomCode
  Message <- MCMessage
CHECK_DEADLOCK FALSE
INVARIANTS TypeOK RoundTrip KnownConverted

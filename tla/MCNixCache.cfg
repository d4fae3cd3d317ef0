\* Two concurrent calls and one deviation of the broker's responses.
SPECIFICATION Spec
CONSTANTS
  Calls = {c1, c2}
  Arguments <- MCArguments
  KeyName <- MCKeyName
  OddValues <- MCOddValues
  MaxEdits = 1
INVARIANTS
  StrictDecode
  AcceptedIsSent
  NoResultWithError
  OwnResult
CHECK_DEADLOCK FALSE

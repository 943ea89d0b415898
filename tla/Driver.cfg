SPECIFICATION Spec
CONSTANTS
  None = None
  Arguments <- MCArguments
  MaxArguments = 3
  MaxItems = 3
INVARIANTS ArraysLargeEnough ListsKeepOrder InputIsFirstNonOption OutputIsWholeProgram

SPECIFICATION MarshalSpec
CONSTANTS
  Alphabet <- MCAlphabet
  MaxNodes = 14
  MaxDepth = 3
  MaxJsonDepth = 2
INVARIANT MarshalDeterministic
CHECK_DEADLOCK FALSE

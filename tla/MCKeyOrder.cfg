\* Maps of three keys: strings of up to three of the characters "-", "0", "1", "a".
SPECIFICATION Spec
CONSTANTS
  Codes = {45, 48, 49, 97}
  MaxChars = 3
  MaxDigits = 3
  Numbers <- MCNumbers
  MaxKeys = 3
  IntLimit = 2048
INVARIANT Ordered
CHECK_DEADLOCK FALSE

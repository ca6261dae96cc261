SPECIFICATION Scan
CONSTANTS
  Character <- MCCharacter
  Statements <- MCStatements
  Numeral <- MCNumeral
CHECK_DEADLOCK FALSE
INVARIANT ScanIsFaithful

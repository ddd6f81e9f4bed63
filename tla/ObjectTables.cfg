SPECIFICATION SpecBoth
CONSTANTS
  Key <- MCKey
  Before <- MCBefore
  IndexAt = 3
  Byte <- MCByte
  Text <- MCText
  MaxBytes = 7
  MaxSets = 7
INVARIANTS
  Inv
  NoDuplicateKeys
  IndexExact
  TreeInv
PROPERTIES
  LastWriteWins
  TreeLastWriteWins

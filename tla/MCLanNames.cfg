CONSTANTS
  n1 = n1
  n2 = n2
  n3 = n3
  n4 = n4
  Name <- MCName
  Hash <- MCHash
  User = {u1, u2, u3, u4}
  MaxLan = 4
  NoName = NoName
SPECIFICATION NamesSpec
INVARIANT NumberStands
PROPERTY ImplementsUsers
CHECK_DEADLOCK FALSE

SPECIFICATION Spec
CONSTANTS
  Nodes = {a, b, c}
  Nicks = {x, y}
  None = None
  a = a
  b = b
  c = c
  x = x
  y = y
  Homes <- MCHomes
  MaxOps = 3
INVARIANTS Mirrored NobodyForgotten
CHECK_DEADLOCK FALSE
PROPERTY MessagesEnd

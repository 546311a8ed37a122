SPECIFICATION Spec
CONSTANTS
  Nodes = {a, b}
  Nicks = {x}
  None = None
  a = a
  b = b
  c = c
  x = x
  y = y
  Homes <- MCNoHomes
  MaxOps = 5
INVARIANT LosersAreTold
CHECK_DEADLOCK FALSE

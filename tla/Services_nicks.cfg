SPECIFICATION Spec
CONSTANTS
  a = a
  b = b
  n1 = n1
  n2 = n2
  First <- MCFirst
  Users = {a, b}
  None = None
  Nicks = {n1, n2}
  Guests = {g1}
  MaxTimers = 2
  MaxMemos = 1
  MaxCommands = 4
INVARIANTS TypeOK IdentityIsEarned
PROPERTY ImpostorsLeave
CHECK_DEADLOCK FALSE

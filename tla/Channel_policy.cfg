SPECIFICATION Spec
CONSTANTS
  u1 = u1
  u2 = u2
  m1 = m1
  k1 = k1
  None = None
  Users = {u1, u2}
  Masks = {m1}
  MaskText <- MCMaskText
  Hostmask <- MCHostmask
  Topics = {x1}
  Keys = {k1}
  Changes <- MCChanges
  MaxSpellings = 2
  Registered = 1
  Founder = u1
  Guard = FALSE
  Identified = {u1, u2}
  Access = {u1}
  KeepTopic = TRUE
  MaxObjects = 2
  MaxCommands = 5
  MaxCrashes = 1
INVARIANTS TypeOK AnnouncedHolds
PROPERTY DoorsHold
CHECK_DEADLOCK FALSE

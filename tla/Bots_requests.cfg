SPECIFICATION Spec
CONSTANTS
  Bots = {b1}
  n1 = n1
  n2 = n2
  Names <- MCNames
  Fold <- MCFold
  Choices <- MCChoices
  Sought <- MCSought
  r1 = r1
  r2 = r2
  Requests <- MCRequests
  None = None
  InboxSize = 1
  MaxInstances = 2
INVARIANTS OneLive RunsWhatIsStored OneAtATime
PROPERTY OperationsEnd
CHECK_DEADLOCK FALSE

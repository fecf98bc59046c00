\* Agents take turns at task commands, and may die, while a hook reads the files.
CONSTANTS
  a1 = a1
  a2 = a2
  parent = parent
  child = child
  NoOwner = NoOwner
  NoDate = NoDate
  NoTask = NoTask
  NoParent = NoParent
  Agents <- TwoAgents
  Ids <- TwoIds
  ParentOf <- Family
  Exempt <- SmallIds
  TTL = 1
  IdleWindow = 1
  MaxNow = 0
  MaxCrashes = 1
  MaxRows = 2
  ReuseIds = FALSE
SYMMETRY Symmetric
SPECIFICATION GateSpec
INVARIANT SplitStaysSplit

\* Agents take turns and may die in the middle of a command; ids are fresh.
CONSTANTS
  a1 = a1
  a2 = a2
  t1 = t1
  t2 = t2
  NoOwner = NoOwner
  NoDate = NoDate
  NoTask = NoTask
  Agents <- TwoAgents
  Ids <- TwoIds
  TTL = 1
  MaxNow = 1
  MaxCrashes = 1
  MaxRows = 4
  ReuseIds = FALSE
SYMMETRY Symmetric
SPECIFICATION SerialSpec
INVARIANTS TypeOK NoTaskLost MovedNotCopied DuplicatesNeedCrashes HolderIsOwner
PROPERTIES NothingForgotten HistoryAppendOnly ImplementsRegistry

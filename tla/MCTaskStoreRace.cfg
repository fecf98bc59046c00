\* Commands overlap: two agents read the same files and the second write wins.
CONSTANTS
  a1 = a1
  a2 = a2
  t1 = t1
  t2 = t2
  NoOwner = NoOwner
  NoDate = NoDate
  NoTask = NoTask
  Agents <- TwoAgents
  Ids <- TwoIds
  TTL = 1
  MaxNow = 1
  MaxCrashes = 1
  MaxRows = 4
  ReuseIds = FALSE
SPECIFICATION Spec
INVARIANT NoTaskLost

\* Relative and absolute paths; the window of the store is longer than the idle window.
CONSTANTS
  s1 = s1
  s2 = s2
  t1 = t1
  dir = dir
  file = file
  NoOwner = NoOwner
  NoFile = NoFile
  Sessions <- TwoSessions
  Untraced <- OneTraced
  Ids <- OneId
  Files <- TwoFiles
  Covers <- DirCovers
  TTL = 3
  IdleWindow = 2
  AllowStopWithBlocked = TRUE
SPECIFICATION Spec
INVARIANTS TypeOK WritePrecedesClaim
PROPERTY DeadClaimFrees

\* Three files in four versions; an interference at any moment.
\* The session ends when nothing is left to commit: CHECK_DEADLOCK FALSE.
CONSTANTS
  Files <- FewFiles
  Nature <- FewNatures
  Uncounted <- NoNatures
  Lintable <- Sources
  MaxNatures = 1
  MaxFiles = 2
  Trees <- FewTrees
  Commands <- FewCommands
  EnabledSets <- FewEnabled
  FailingSets <- FewFailing
  MaxEdits = 1
SPECIFICATION FairSpec
INVARIANTS TypeOK CommitsAreAtomic CommitsAreClean
PROPERTY WorkGetsCommitted
CHECK_DEADLOCK FALSE

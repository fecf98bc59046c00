\* Commands and edits that overlap, and kills; the home directory has a .ai that hooks climb to.
CONSTANTS
  c1 = c1
  c2 = c2
  Gates <- TwoGates
  DefaultOn <- Recommended
  WithParams <- Recommended
  Commands <- TwoCommands
  Orders <- FewOrders
  Edits <- FewEdits
  Files <- FewFiles
  Marked = FALSE
  HomeMarked = TRUE
  MaxActs = 3
CHECK_DEADLOCK FALSE
SYMMETRY Symmetric
SPECIFICATION Spec
INVARIANTS TypeOK LastWordStands TuningSurvives StatusIsEnforced

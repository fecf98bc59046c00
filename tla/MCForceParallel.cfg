\* Two calls a message, hooks of one message up to a tick apart.
CONSTANTS
  c1 = c1
  c2 = c2
  f1 = f1
  f2 = f2
  NoCall = NoCall
  Slots <- TwoCalls
  Files <- TwoFiles
  Threshold = 3
  Window = 2
  BatchGap = 2
  Limit = 1
  MaxNow = 5
SYMMETRY Symmetric
SPECIFICATION Spec
INVARIANTS TypeOK BatchCountsOnce DeniedAfterARun WayOut

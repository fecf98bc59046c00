\* Two calls in flight, five in the session; a threshold under 2 counts as 2.
CONSTANTS
  c1 = c1
  c2 = c2
  Calls <- TwoCalls
  Prompts <- ThreePrompts
  Threshold = 1
  Percent = 60
  MaxEntries = 2
  MaxCalls = 5
SYMMETRY Symmetric
SPECIFICATION Spec
INVARIANTS TypeOK OnlyLaunchesCount CutIsARetry
PROPERTIES CutIsUnforgiven RetryIsCut
CHECK_DEADLOCK FALSE

\* Two actors of a session; a list of at most two backgrounds, and one more than that runs.
CONSTANTS
  Actors <- Agents
  Mains <- MainAgents
  Wishes <- FewWishes
  ForgeStarts <- NotStarted
  EnabledSets <- FewEnabled
  FailingSets <- FewFailing
  MaxPending = 2
  MaxUnwatched = 3
SPECIFICATION FairSpec
INVARIANTS TypeOK HarmNeverRuns NothingForgotten
PROPERTY NobodyIsStranded

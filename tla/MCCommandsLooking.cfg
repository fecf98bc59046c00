\* The same instance, asked whether looking is ever denied.
CONSTANTS
  Actors <- Agents
  Mains <- MainAgents
  Wishes <- FewWishes
  ForgeStarts <- NotStarted
  EnabledSets <- FewEnabled
  FailingSets <- FewFailing
  MaxPending = 2
  MaxUnwatched = 3
SPECIFICATION FairSpec
INVARIANT LookingIsFree

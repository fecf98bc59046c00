\* Two agents, three goals between them, one lookup that fails.
\* The session ends when no goal is left: CHECK_DEADLOCK FALSE.
CONSTANTS
  Actors <- Agents
  Main = "main"
  Packages <- Libraries
  Goals <- FewGoals
  InstalledSets <- FewInstalled
  EnabledSets <- FewEnabled
  MaxEntries = 2
  MaxGoals <- FewEach
  MaxFailures = 1
SPECIFICATION FairResearchSpec
INVARIANT ResearchTypeOK
PROPERTIES ResearchIsSaved NobodyIsStuck
CHECK_DEADLOCK FALSE

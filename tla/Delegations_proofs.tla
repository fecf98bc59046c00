------------------------- MODULE Delegations_proofs -------------------------
(* For any prompts, projects, configurations and failures: what launches       *)
(* passed, as it stands, every enabled gate that can block; and an agent that  *)
(* does what it is told is denied by no gate more often than that gate has     *)
(* things to ask for.                                                          *)
EXTENDS Delegations, TLAPS

\* What launched is denied by no blocking gate that is on, neither when it was judged nor
\* since: nothing rewrites a prompt that runs, nor the files it was judged on.
NothingDenied == launched => \A g \in enabled \ Advisory : ~Denies(g, draft, disk)

\* NothingDenied holds of every behavior.
THEOREM LaunchedIsUndenied == Spec => []NothingDenied
<1>1. Init => NothingDenied
  BY DEF Init, NothingDenied
<1>2. NothingDenied /\ [Next]_vars => NothingDenied'
  <2> SUFFICES ASSUME NothingDenied, [Next]_vars, launched'
               PROVE  \A g \in enabled' \ Advisory : ~Denies(g, draft', disk')
    BY DEF NothingDenied
  <2>1. ASSUME NEW failing \in FailingSets, Attempt(failing)
        PROVE  \A g \in enabled' \ Advisory : ~Denies(g, draft', disk')
    <3>1. /\ enabled' = enabled /\ draft' = draft /\ disk' = disk
          /\ {g \in enabled \ failing : Denies(g, draft, disk)} = {}
          /\ FailsClosed(failing \cap enabled) = {}
      BY <2>1 DEF Attempt
    <3>2. \A g \in enabled \ Advisory : g \notin failing
      BY <3>1 DEF FailsClosed
    <3> QED
      BY <3>1, <3>2
  <2>2. CASE Obey
    <3>1. ~launched'
      BY <2>2 DEF Obey, DeclareLevel, DeclareScope, StateBrief, PasteStages, PasteTests, StartTask,
                  WriteContract, RecordApproval, CloseRecurrence, NameEvidence, NameMemory, AuditTools,
                  StateDiagnosis, Answers
    <3> QED
      BY <3>1
  <2>3. CASE NextDelegation
    BY <2>3 DEF NextDelegation
  <2>4. CASE UNCHANGED vars
    BY <2>4 DEF vars, NothingDenied
  <2> QED
    BY <2>1, <2>2, <2>3, <2>4 DEF Next
<1> QED
  BY <1>1, <1>2, PTL DEF Spec

\* A sensitive implementation given to a builder is exempt from no gate of the prompt.
LEMMA SensitiveIsJudged ==
  ASSUME draft.agent = "builder", Sensitive(draft)
  PROVE  Implements(draft) /\ ~PromptExempt(draft) /\ draft.agent \notin ExemptAgents
BY DEF Sensitive, Implements, PromptExempt, ReadOnly, ReadOnlyAgents, ExemptQuery, ExemptAgents

\* Whatever the agent rewrites between denials and whichever gate throws, a builder's
\* sensitive change launches only as HIGH-RISK, scoped, approved and, but for work on the
\* harness, with its task, stages and tests.
THEOREM NeverSlips == Spec => []HighRiskNeverSlips
<1>1. NothingDenied => HighRiskNeverSlips
  <2> SUFFICES ASSUME NothingDenied, launched, Gates \ Advisory \subseteq enabled,
                      draft.agent = "builder", Sensitive(draft), ~Documentary(draft)
               PROVE  /\ OperativeLevel(draft) = "HIGH-RISK" /\ ~Ambiguous(draft)
                      /\ Scope \subseteq draft.finds /\ draft.finds \cap {"unknown", "tiny"} = {}
                      /\ "cites" \in draft.finds => disk.brief \notin {"empty", "draft"}
                      /\ \/ HarnessWork(draft)
                         \/ disk.task = "live" /\ Stages \cup {"unit", "negative"} \subseteq draft.finds
    BY DEF HighRiskNeverSlips
  <2>1. \A g \in Gates \ Advisory : ~Denies(g, draft, disk)
    BY DEF NothingDenied
  <2>2. Implements(draft) /\ ~PromptExempt(draft) /\ draft.agent \notin ExemptAgents
    BY SensitiveIsJudged
  <2>3. ~RiskDenies(draft) /\ ~IntentDenies(draft)
    BY <2>1 DEF Gates, PromptGates, Advisory, Denies
  <2>4. OperativeLevel(draft) = "HIGH-RISK" /\ ~Ambiguous(draft)
    BY <2>2, <2>3 DEF RiskDenies, LevelContradicts
  <2>5. Scope \subseteq draft.finds /\ draft.finds \cap {"unknown", "tiny"} = {}
    BY <2>2, <2>3 DEF IntentDenies, MissingScope
  <2>6. ~SpecExempt(draft)
    BY <2>2, <2>4 DEF SpecExempt, Demanding
  <2>7. /\ ~ApprovalDenies(draft, disk) /\ ~TaskDenies(draft, disk)
        /\ ~PipelineDenies(draft) /\ ~MatrixDenies(draft)
    BY <2>1 DEF Gates, SpecGates, Advisory, Denies
  <2>8. "cites" \in draft.finds => disk.brief \notin {"empty", "draft"}
    BY <2>6, <2>7 DEF ApprovalDenies
  <2>9. CASE ~HarnessWork(draft)
    <3>1. ~FlowExempt(draft)
      BY <2>6, <2>9 DEF FlowExempt
    <3>2. disk.task = "live" /\ Stages \subseteq draft.finds /\ MissingTests(draft) = {}
      BY <3>1, <2>7 DEF TaskDenies, PipelineDenies, MissingStages, MatrixDenies
    <3>3. "unit" \in draft.finds
      BY <3>2 DEF MissingTests, Tests
    <3>4. "negative" \in draft.finds
      BY <3>2, <3>3 DEF MissingTests, Tests
    <3> QED
      BY <2>4, <2>5, <2>8, <3>2, <3>3, <3>4
  <2> QED
    BY <2>4, <2>5, <2>8, <2>9
<1> QED
  BY LaunchedIsUndenied, <1>1, PTL

-----------------------------------------------------------------------------
(* Type correctness.                                                          *)

\* A prompt rewritten with what patterns can find is a prompt.
LEMMA RewriteTypes ==
  ASSUME TypeOK, NEW g, Answers(g), NEW finds \in SUBSET Findable, NEW levels \in Seq(Levels),
         Rewrites(finds, levels)
  PROVE  TypeOK'
<1>1. draft' \in Prompts
  BY DEF Rewrites, TypeOK, Prompts
<1>2. obeyed' \in [Gates -> Nat]
  BY DEF Answers, TypeOK, MaxObeyed
<1> QED
  BY <1>1, <1>2 DEF Answers, Rewrites, TypeOK

\* So is one that only gains something.
LEMMA AddTypes ==
  ASSUME TypeOK, NEW g, Answers(g), NEW more \in SUBSET Findable, Adds(more)
  PROVE  TypeOK'
<1>1. /\ \A less : (draft.finds \ less) \cup more \in SUBSET Findable
      /\ draft.levels \in Seq(Levels)
  BY DEF TypeOK, Prompts
<1> QED
  BY <1>1, RewriteTypes DEF Adds

\* An answer that writes a file of the project.
LEMMA DiskTypes ==
  ASSUME TypeOK, NEW g, Answers(g), disk' \in Projects, UNCHANGED draft
  PROVE  TypeOK'
<1>1. obeyed' \in [Gates -> Nat]
  BY DEF Answers, TypeOK, MaxObeyed
<1> QED
  BY <1>1 DEF Answers, TypeOK

\* What the remedies write is what the patterns find.
LEMMA RemediesAreFindable ==
  /\ Stages \cup Scope \cup Brief \cup Tests \subseteq Findable
  /\ {"cites", "negative", "sensitive", "risk", "writing", "evidence", "hatch", "diagnosis", "audit"}
       \subseteq Findable
BY DEF Findable, Stages, Scope, Brief, Tests

\* Whatever the agent does about a denial keeps the types.
LEMMA ObeyTypes == TypeOK /\ Obey => TypeOK'
<1> SUFFICES ASSUME TypeOK, Obey PROVE TypeOK'
  OBVIOUS
<1>1. draft.finds \in SUBSET Findable /\ draft.levels \in Seq(Levels) /\ disk \in Projects
  BY DEF TypeOK, Prompts
<1>2. CASE DeclareLevel
  <2>1. \A level \in Levels : <<level>> \in Seq(Levels)
    OBVIOUS
  <2>2. Append(draft.levels, "HIGH-RISK") \in Seq(Levels)
    BY <1>1 DEF Levels
  <2>3. ~Undeclared(draft) => OperativeLevel(draft) \in Levels
    BY <1>1 DEF Undeclared, OperativeLevel
  <2>4. ~Undeclared(draft) \/ ~Ambiguous(draft)
    BY DEF Undeclared, Ambiguous
  <2>5. PICK levels \in Seq(Levels) : Rewrites(draft.finds, levels)
    BY <1>2, <2>1, <2>2, <2>3, <2>4 DEF DeclareLevel, Levels
  <2> QED
    BY <1>1, <1>2, <2>5, RewriteTypes DEF DeclareLevel
<1>3. CASE DeclareScope
  <2>1. CASE "unknown" \in draft.finds
    <3>1. draft.finds \ {"unknown"} \in SUBSET Findable
      BY <1>1
    <3> QED
      BY <1>1, <1>3, <2>1, <3>1, RewriteTypes DEF DeclareScope
  <2>2. CASE "unknown" \notin draft.finds
    <3>1. (draft.finds \ {"tiny"}) \cup MissingScope(draft) \cup {"negative"} \in SUBSET Findable
      BY <1>1, RemediesAreFindable DEF MissingScope
    <3> QED
      BY <1>1, <1>3, <2>2, <3>1, RewriteTypes DEF DeclareScope
  <2> QED
    BY <2>1, <2>2
<1>4. CASE StateBrief
  <2>1. (draft.finds \ {"short", "tiny"}) \cup Brief \in SUBSET Findable
    BY <1>1, RemediesAreFindable
  <2> QED
    BY <1>1, <1>4, <2>1, RewriteTypes DEF StateBrief
<1>5. CASE PasteStages
  <2>1. MissingStages(draft) \in SUBSET Findable /\ MissingStages(draft) \cup {"cites"} \in SUBSET Findable
    BY RemediesAreFindable DEF MissingStages
  <2> QED
    BY <1>5, <2>1, AddTypes DEF PasteStages
<1>6. CASE PasteTests
  <2>1. PICK more \in SUBSET Findable : Adds(more)
    <3>1. MissingTests(draft) \subseteq Findable
      BY RemediesAreFindable DEF MissingTests
    <3>2. PICK near \in {{}, {"sensitive"}} :
            Adds(MissingTests(draft) \cup near \cup {"writing"}
                 \cup IF MissingTests(draft) \cap {"e2e", "negative"} # {} THEN {"risk"} ELSE {})
      BY <1>6 DEF PasteTests
    <3>3. (MissingTests(draft) \cup near \cup {"writing"}
             \cup IF MissingTests(draft) \cap {"e2e", "negative"} # {} THEN {"risk"} ELSE {})
            \in SUBSET Findable
      BY <3>1, RemediesAreFindable
    <3> QED
      BY <3>2, <3>3
  <2> QED
    BY <1>6, <2>1, AddTypes DEF PasteTests
<1>7. CASE StartTask \/ WriteContract \/ RecordApproval \/ CloseRecurrence
  <2>1. disk' \in Projects
    BY <1>1, <1>7 DEF StartTask, WriteContract, RecordApproval, CloseRecurrence, Projects
  <2> QED
    BY <1>7, <2>1, DiskTypes DEF StartTask, WriteContract, RecordApproval, CloseRecurrence
<1>8. CASE NameEvidence \/ NameMemory \/ StateDiagnosis
  <2>1. {"evidence"} \in SUBSET Findable /\ {"hatch"} \in SUBSET Findable /\ {"diagnosis"} \in SUBSET Findable
    BY RemediesAreFindable
  <2> QED
    BY <1>8, <2>1, AddTypes DEF NameEvidence, NameMemory, StateDiagnosis
<1>9. CASE AuditTools
  <2>1. {"audit"} \in SUBSET Findable /\ draft.finds \ {"tool"} \in SUBSET Findable
    BY <1>1, RemediesAreFindable
  <2> QED
    BY <1>1, <1>9, <2>1, AddTypes, RewriteTypes DEF AuditTools
<1> QED
  BY <1>2, <1>3, <1>4, <1>5, <1>6, <1>7, <1>8, <1>9 DEF Obey

\* The types hold at first.
LEMMA InitTypes == Init => TypeOK
<1> SUFFICES ASSUME Init PROVE TypeOK
  OBVIOUS
<1>1. enabled \subseteq Gates /\ draft \in Prompts /\ disk \in Projects
  BY InputsAssumption DEF Init
<1>2. obeyed \in [Gates -> Nat]
  BY DEF Init
<1> QED
  BY <1>1, <1>2 DEF Init, TypeOK

\* Every step keeps the types.
LEMMA NextTypes == TypeOK /\ [Next]_vars => TypeOK'
<1> SUFFICES ASSUME TypeOK, [Next]_vars PROVE TypeOK'
  OBVIOUS
<1>1. ASSUME NEW failing \in FailingSets, Attempt(failing)
      PROVE  TypeOK'
  <2>1. denied' \subseteq enabled /\ launched' \in BOOLEAN
    BY <1>1 DEF Attempt
  <2> QED
    BY <1>1, <2>1 DEF Attempt, TypeOK
<1>2. CASE NextDelegation
  BY <1>2, InputsAssumption DEF NextDelegation, TypeOK
<1>3. CASE UNCHANGED vars
  BY <1>3 DEF vars, TypeOK
<1> QED
  BY <1>1, <1>2, <1>3, ObeyTypes DEF Next

\* A prompt stays a prompt and the project's files stay a project, whatever is rewritten.
THEOREM TypeCorrect == Spec => []TypeOK
BY InitTypes, NextTypes, PTL DEF Spec

-----------------------------------------------------------------------------
(* Why denials are few.  An answer leaves something in the prompt, or in the   *)
(* project, that the gate asked for and that no other answer takes away.       *)

\* What the first answer to a gate leaves.
Begun(g) ==
  /\ g = "risk-level" =>
       draft.levels # <<>> /\ (Len(draft.levels) = 1 \/ OperativeLevel(draft) = "HIGH-RISK")
  /\ g = "intent-flow" => "unknown" \notin draft.finds
  /\ g = "test-matrix" =>
       /\ "unit" \in draft.finds
       /\ "money" \in draft.finds => "e2e" \in draft.finds
       /\ "screen" \in draft.finds => "visual" \in draft.finds
  /\ g = "mandatory-flow" => disk.task \in {"no contract", "live"}

\* What the last one leaves: the gate has nothing more to say.
Settled(g) ==
  /\ g = "risk-level" => draft.levels = <<"HIGH-RISK">>
  /\ g = "intent-flow" => draft.finds \cap {"unknown", "tiny"} = {} /\ Scope \subseteq draft.finds
  /\ g = "test-matrix" => Begun(g) /\ "negative" \in draft.finds
  /\ g = "mandatory-flow" => disk.task = "live"
  /\ g = "implementation-pipeline" => Stages \subseteq draft.finds
  /\ g = "brief-approved" => disk.brief = "approved"
  /\ g = "sdd-specs" => disk.contract \/ disk.brief \notin {"none", "empty"}
  /\ g = "brief-before-delegate" => "short" \notin draft.finds /\ Brief \subseteq draft.finds
  /\ g = "never-assume" => "evidence" \in draft.finds
  /\ g = "no-memory-dependency" => "hatch" \in draft.finds
  /\ g = "recurrence-lock" => ~disk.recurs
  /\ g = "reuse-before-build" => "tool" \notin draft.finds \/ "audit" \in draft.finds
  /\ g = "root-cause-first" => "diagnosis" \in draft.finds

\* The second answer to risk-level leaves HIGH-RISK as the level that counts.
Raised(g) == g = "risk-level" /\ obeyed[g] >= 2 => OperativeLevel(draft) = "HIGH-RISK"

DenialInv ==
  \A g \in Gates :
    /\ obeyed[g] \in 0 .. Patience(g)
    /\ obeyed[g] >= 1 => Begun(g)
    /\ Raised(g)
    /\ obeyed[g] = Patience(g) => Settled(g) /\ g \notin denied

\* A gate that has been answered for good denies no more.
LEMMA SettledIsSilent ==
  ASSUME TypeOK, NEW g \in Gates, Settled(g)
  PROVE  ~Denies(g, draft, disk)
<1>1. CASE g = "risk-level"
  <2>1. draft.levels = <<"HIGH-RISK">>
    BY <1>1 DEF Settled
  <2>2. Len(draft.levels) = 1 /\ draft.levels[1] = "HIGH-RISK"
    BY <2>1
  <2>3. OperativeLevel(draft) = "HIGH-RISK" /\ ~Undeclared(draft)
    BY <2>1, <2>2 DEF OperativeLevel, Undeclared
  <2>4. ~Ambiguous(draft)
    BY <2>2 DEF Ambiguous, Demanding
  <2> QED
    BY <1>1, <2>3, <2>4 DEF Denies, RiskDenies, LevelContradicts
<1>2. CASE g = "test-matrix"
  <2>1. MissingTests(draft) = {}
    BY <1>2 DEF Settled, Begun, MissingTests, Tests
  <2> QED
    BY <1>2, <2>1 DEF Denies, MatrixDenies
<1>3. CASE g = "intent-flow" \/ g = "implementation-pipeline" \/ g = "brief-before-delegate"
  <2>1. Brief # {}
    BY DEF Brief
  <2> QED
    BY <1>3, <2>1 DEF Settled, Denies, IntentDenies, MissingScope, PipelineDenies, MissingStages, BriefDenies
<1>4. CASE g \in {"mandatory-flow", "brief-approved", "sdd-specs", "recurrence-lock"}
  BY <1>4 DEF Settled, Denies, TaskDenies, ApprovalDenies, SpecDenies, RecurrenceDenies
<1>5. CASE g \in {"never-assume", "no-memory-dependency", "reuse-before-build", "root-cause-first"}
  BY <1>5 DEF Settled, Denies, ClaimDenies, MemoryDenies, ReuseDenies, PatchDenies
<1> QED
  BY <1>1, <1>2, <1>3, <1>4, <1>5 DEF Gates, SpecGates, PromptGates

\* What no answer takes back.
Keeps ==
  /\ \A x \in draft.finds \ {"unknown", "short", "tiny", "tool"} : x \in draft'.finds
  /\ \A x \in {"unknown", "short", "tiny", "tool", "money", "screen"} : x \in draft'.finds => x \in draft.finds
  /\ disk.task \in {"no contract", "live"} => disk'.task \in {"no contract", "live"}
  /\ disk.task = "live" => disk'.task = "live"
  /\ disk.brief = "approved" => disk'.brief = "approved"
  /\ disk.brief \notin {"none", "empty"} => disk'.brief \notin {"none", "empty"}
  /\ disk.contract => disk'.contract
  /\ disk'.recurs => disk.recurs

\* What one more answer to a gate brings.
Advances(g) ==
  /\ Begun(g)'
  /\ g = "risk-level" => /\ obeyed[g] >= 1 /\ Begun(g) => OperativeLevel(draft)' = "HIGH-RISK"
                         /\ OperativeLevel(draft) = "HIGH-RISK" /\ Begun(g) => Settled(g)'
  /\ g \notin {"risk-level", "intent-flow", "test-matrix", "mandatory-flow"} => Settled(g)'
  /\ g \in {"intent-flow", "test-matrix", "mandatory-flow"} /\ Begun(g) => Settled(g)'

\* Only an answer to risk-level changes the declared levels.
Answered(g) == Answers(g) /\ Keeps /\ Advances(g) /\ (g = "risk-level" \/ draft'.levels = draft.levels)

\* Declaring a level answers risk-level, in three times at most.
LEMMA LevelIsAnswered ==
  ASSUME TypeOK, DeclareLevel
  PROVE  Answered("risk-level")
<1>1. draft \in Prompts /\ draft.levels \in Seq(Levels)
  BY DEF TypeOK, Prompts
<1>2. /\ Answers("risk-level") /\ disk' = disk /\ draft'.finds = draft.finds
  BY <1>1 DEF DeclareLevel, Rewrites, Prompts
<1>3. Keeps
  BY <1>2 DEF Keeps
<1>4. ASSUME NEW level, draft'.levels = <<level>>
      PROVE  /\ Begun("risk-level")' /\ OperativeLevel(draft)' = level
             /\ level = "HIGH-RISK" => Settled("risk-level")'
  <2>1. draft'.levels # <<>> /\ Len(draft'.levels) = 1 /\ draft'.levels[1] = level
    BY <1>4
  <2> QED
    BY <1>4, <2>1 DEF Begun, Settled, OperativeLevel
<1>5. CASE Undeclared(draft) /\ \E level \in Levels : draft'.levels = <<level>>
  <2>1. ~Begun("risk-level") /\ OperativeLevel(draft) # "HIGH-RISK"
    BY <1>5 DEF Undeclared, Begun, OperativeLevel
  <2> QED
    BY <1>2, <1>3, <1>4, <1>5, <2>1 DEF Answered, Advances
<1>6. CASE Ambiguous(draft) /\ draft'.levels = <<OperativeLevel(draft)>>
  <2>1. Begun("risk-level") => OperativeLevel(draft) = "HIGH-RISK"
    <3>1. Len(draft.levels) # 1
      BY <1>6 DEF Ambiguous
    <3> QED
      BY <3>1 DEF Begun
  <2> QED
    BY <1>2, <1>3, <1>4, <1>6, <2>1 DEF Answered, Advances
<1>7. CASE ~Undeclared(draft) /\ OperativeLevel(draft) # "HIGH-RISK" /\ draft'.levels = <<"HIGH-RISK">>
  BY <1>2, <1>3, <1>4, <1>7 DEF Answered, Advances
<1>8. CASE /\ ~Undeclared(draft) /\ OperativeLevel(draft) # "HIGH-RISK"
           /\ draft'.levels = Append(draft.levels, "HIGH-RISK")
  <2>1. /\ draft'.levels # <<>>
        /\ draft'.levels[Len(draft'.levels)] = "HIGH-RISK"
    BY <1>1, <1>8
  <2>2. OperativeLevel(draft)' = "HIGH-RISK" /\ Begun("risk-level")'
    BY <2>1 DEF OperativeLevel, Begun
  <2> QED
    BY <1>2, <1>3, <1>8, <2>2 DEF Answered, Advances
<1> QED
  BY <1>1, <1>5, <1>6, <1>7, <1>8 DEF DeclareLevel, Rewrites, Prompts

\* Declaring the scope answers intent-flow.
LEMMA ScopeIsAnswered ==
  ASSUME TypeOK, DeclareScope
  PROVE  Answered("intent-flow")
<1>1. Answers("intent-flow") /\ disk' = disk /\ draft'.levels = draft.levels /\ draft \in Prompts
  BY DEF DeclareScope, Rewrites, TypeOK, Prompts
<1>2. CASE "unknown" \in draft.finds
  <2>1. draft'.finds = draft.finds \ {"unknown"}
    BY <1>1, <1>2 DEF DeclareScope, Rewrites, Prompts
  <2> QED
    BY <1>1, <1>2, <2>1 DEF Answered, Keeps, Advances, Begun
<1>3. CASE "unknown" \notin draft.finds
  <2>1. draft'.finds = (draft.finds \ {"tiny"}) \cup MissingScope(draft) \cup {"negative"}
    BY <1>1, <1>3 DEF DeclareScope, Rewrites, Prompts
  <2>2. draft'.finds \cap {"unknown", "tiny"} = {} /\ Scope \subseteq draft'.finds
    BY <1>3, <2>1 DEF MissingScope, Scope
  <2>3. Keeps
    BY <1>1, <2>1 DEF Keeps, MissingScope, Scope
  <2> QED
    BY <1>1, <2>2, <2>3 DEF Answered, Advances, Begun, Settled
<1> QED
  BY <1>2, <1>3

\* Stating the brief answers brief-before-delegate.
LEMMA BriefIsAnswered ==
  ASSUME TypeOK, StateBrief
  PROVE  Answered("brief-before-delegate")
<1>1. /\ Answers("brief-before-delegate") /\ disk' = disk /\ draft'.levels = draft.levels
      /\ draft'.finds = (draft.finds \ {"short", "tiny"}) \cup Brief
  BY DEF StateBrief, Rewrites, TypeOK, Prompts
<1>2. Keeps
  BY <1>1 DEF Keeps, Brief
<1>3. Settled("brief-before-delegate")' /\ Begun("brief-before-delegate")'
  BY <1>1 DEF Settled, Begun, Brief
<1> QED
  BY <1>1, <1>2, <1>3 DEF Answered, Advances

\* What is added to a prompt changes neither its levels nor the project.
LEMMA AddsNothingElse ==
  ASSUME TypeOK, NEW more, Adds(more)
  PROVE  disk' = disk /\ draft'.levels = draft.levels
BY DEF Adds, Rewrites, TypeOK, Prompts

\* Pasting the stages answers implementation-pipeline.
LEMMA StagesAreAnswered ==
  ASSUME TypeOK, PasteStages
  PROVE  Answered("implementation-pipeline")
<1>1. /\ Answers("implementation-pipeline") /\ disk' = disk /\ draft'.levels = draft.levels
      /\ Adds(MissingStages(draft)) \/ Adds(MissingStages(draft) \cup {"cites"})
  BY AddsNothingElse DEF PasteStages
<1>2. PICK less \in SUBSET {"tiny"} :
        \/ draft'.finds = (draft.finds \ less) \cup MissingStages(draft)
        \/ draft'.finds = (draft.finds \ less) \cup MissingStages(draft) \cup {"cites"}
  BY <1>1 DEF Adds, Rewrites, TypeOK, Prompts
<1>3. Keeps
  BY <1>1, <1>2 DEF Keeps, MissingStages, Stages
<1>4. Settled("implementation-pipeline")' /\ Begun("implementation-pipeline")'
  BY <1>2 DEF Settled, Begun, MissingStages, Stages
<1> QED
  BY <1>1, <1>3, <1>4 DEF Answered, Advances

\* Pasting the tests answers test-matrix.
LEMMA TestsAreAnswered ==
  ASSUME TypeOK, PasteTests
  PROVE  Answered("test-matrix")
<1>1. Answers("test-matrix") /\ disk' = disk /\ draft'.levels = draft.levels
  BY AddsNothingElse DEF PasteTests
<1>2. PICK more \in SUBSET {"sensitive", "writing", "risk"}, less \in SUBSET {"tiny"} :
        draft'.finds = (draft.finds \ less) \cup MissingTests(draft) \cup more
  <2>1. PICK near \in {{}, {"sensitive"}} :
          Adds(MissingTests(draft) \cup near \cup {"writing"}
               \cup IF MissingTests(draft) \cap {"e2e", "negative"} # {} THEN {"risk"} ELSE {})
    BY DEF PasteTests
  <2>2. PICK some \in SUBSET {"risk"} : Adds(MissingTests(draft) \cup near \cup {"writing"} \cup some)
    BY <2>1
  <2>3. PICK less \in SUBSET {"tiny"} :
          draft'.finds = (draft.finds \ less) \cup (MissingTests(draft) \cup near \cup {"writing"} \cup some)
    BY <2>2 DEF Adds, Rewrites, TypeOK, Prompts
  <2> WITNESS near \cup {"writing"} \cup some \in SUBSET {"sensitive", "writing", "risk"},
              less \in SUBSET {"tiny"}
  <2> QED
    BY <2>3
<1>3. MissingTests(draft) \subseteq Tests
  BY DEF MissingTests
<1>4. Keeps
  BY <1>1, <1>2, <1>3 DEF Keeps, Tests
<1>5. /\ "unit" \in draft'.finds
      /\ "money" \in draft'.finds => "e2e" \in draft'.finds
      /\ "screen" \in draft'.finds => "visual" \in draft'.finds
  BY <1>2, <1>4 DEF MissingTests, Tests, Keeps
<1>6. Begun("test-matrix") => "negative" \in draft'.finds
  BY <1>2 DEF Begun, MissingTests, Tests
<1>7. Begun("test-matrix")'
  BY <1>5 DEF Begun
<1>8. Begun("test-matrix") => Settled("test-matrix")'
  BY <1>6, <1>7 DEF Settled
<1> QED
  BY <1>1, <1>4, <1>7, <1>8 DEF Answered, Advances

\* Starting a task answers mandatory-flow: the task first, its contract then.
LEMMA TaskIsAnswered ==
  ASSUME TypeOK, StartTask
  PROVE  Answered("mandatory-flow")
<1>1. /\ Answers("mandatory-flow") /\ draft' = draft
      /\ disk' = [disk EXCEPT !.task = IF @ \in {"none", "no slug"} THEN "no contract" ELSE "live"]
      /\ disk \in Projects
  BY DEF StartTask, TypeOK
<1>2. /\ disk'.task = IF disk.task \in {"none", "no slug"} THEN "no contract" ELSE "live"
      /\ disk'.brief = disk.brief /\ disk'.contract = disk.contract /\ disk'.recurs = disk.recurs
  BY <1>1 DEF Projects
<1>3. Keeps
  BY <1>1, <1>2 DEF Keeps
<1>4. Begun("mandatory-flow")' /\ (Begun("mandatory-flow") => Settled("mandatory-flow")')
  BY <1>2 DEF Begun, Settled
<1> QED
  BY <1>1, <1>3, <1>4 DEF Answered, Advances

\* What is written in the project answers the gate that asked for it.
LEMMA FilesAreAnswered ==
  ASSUME TypeOK, WriteContract \/ RecordApproval \/ CloseRecurrence
  PROVE  \E g \in {"sdd-specs", "brief-approved", "recurrence-lock"} : Answered(g)
<1>0. disk \in Projects
  BY DEF TypeOK
<1>1. CASE WriteContract
  <2>1. /\ Answers("sdd-specs") /\ draft' = draft
        /\ disk'.task = disk.task /\ disk'.recurs = disk.recurs
        /\ \/ disk.brief \in {"none", "empty"} /\ disk'.brief = "draft" /\ disk'.contract = disk.contract
           \/ disk'.brief = disk.brief /\ disk'.contract
    BY <1>0, <1>1 DEF WriteContract, Projects
  <2>2. Keeps
    BY <2>1 DEF Keeps
  <2>3. Begun("sdd-specs")' /\ Settled("sdd-specs")'
    BY <2>1 DEF Begun, Settled
  <2> QED
    BY <2>1, <2>2, <2>3 DEF Answered, Advances
<1>2. CASE RecordApproval
  <2>1. /\ Answers("brief-approved") /\ draft' = draft
        /\ disk'.task = disk.task /\ disk'.recurs = disk.recurs
        /\ disk'.brief = "approved" /\ disk'.contract = disk.contract
    BY <1>0, <1>2 DEF RecordApproval, Projects
  <2>2. Keeps
    BY <2>1 DEF Keeps
  <2>3. Begun("brief-approved")' /\ Settled("brief-approved")'
    BY <2>1 DEF Begun, Settled
  <2> QED
    BY <2>1, <2>2, <2>3 DEF Answered, Advances
<1>3. CASE CloseRecurrence
  <2>1. /\ Answers("recurrence-lock") /\ draft' = draft
        /\ disk'.task = disk.task /\ ~disk'.recurs
        /\ disk'.brief = disk.brief /\ disk'.contract = disk.contract
    BY <1>0, <1>3 DEF CloseRecurrence, Projects
  <2>2. Keeps
    BY <2>1 DEF Keeps
  <2>3. Begun("recurrence-lock")' /\ Settled("recurrence-lock")'
    BY <2>1 DEF Begun, Settled
  <2> QED
    BY <2>1, <2>2, <2>3 DEF Answered, Advances
<1> QED
  BY <1>1, <1>2, <1>3

\* What is said in the prompt answers the gate that asked for it.
LEMMA WordsAreAnswered ==
  ASSUME TypeOK, NameEvidence \/ NameMemory \/ StateDiagnosis \/ AuditTools
  PROVE  \E g \in {"never-assume", "no-memory-dependency", "root-cause-first", "reuse-before-build"} :
            Answered(g)
<1>0. draft \in Prompts
  BY DEF TypeOK
<1>1. ASSUME NEW g, NEW word, Answers(g), Adds({word}),
             <<g, word>> \in {<<"never-assume", "evidence">>, <<"no-memory-dependency", "hatch">>,
                              <<"root-cause-first", "diagnosis">>, <<"reuse-before-build", "audit">>}
      PROVE  Answered(g)
  <2>1. disk' = disk /\ draft'.levels = draft.levels
    BY <1>1, AddsNothingElse
  <2>2. PICK less \in SUBSET {"tiny"} : draft'.finds = (draft.finds \ less) \cup {word}
    BY <1>0, <1>1 DEF Adds, Rewrites, Prompts
  <2>3. Keeps
    BY <1>1, <2>1, <2>2 DEF Keeps
  <2>4. Begun(g)' /\ Settled(g)'
    BY <1>1, <2>2 DEF Begun, Settled
  <2> QED
    BY <1>1, <2>1, <2>3, <2>4 DEF Answered, Advances
<1>2. ASSUME Answers("reuse-before-build"), Rewrites(draft.finds \ {"tool"}, draft.levels)
      PROVE  Answered("reuse-before-build")
  <2>1. disk' = disk /\ draft'.levels = draft.levels /\ draft'.finds = draft.finds \ {"tool"}
    BY <1>0, <1>2 DEF Rewrites, Prompts
  <2>2. Keeps
    BY <2>1 DEF Keeps
  <2>3. Begun("reuse-before-build")' /\ Settled("reuse-before-build")'
    BY <2>1 DEF Begun, Settled
  <2> QED
    BY <1>2, <2>1, <2>2, <2>3 DEF Answered, Advances
<1> QED
  BY <1>1, <1>2 DEF NameEvidence, NameMemory, StateDiagnosis, AuditTools

\* Every remedy answers its gate, and takes back nothing another one asked for.
LEMMA ObeyAnswers ==
  ASSUME TypeOK, Obey
  PROVE  \E g \in Gates : Answered(g)
BY LevelIsAnswered, ScopeIsAnswered, BriefIsAnswered, StagesAreAnswered, TestsAreAnswered,
   TaskIsAnswered, FilesAreAnswered, WordsAreAnswered DEF Obey, Gates, SpecGates, PromptGates

\* What was begun or settled stays so when another gate is answered.
LEMMA OthersStay ==
  ASSUME TypeOK, NEW g \in Gates, NEW h \in Gates \ {g}, Answered(g)
  PROVE  /\ Begun(h) => Begun(h)'
         /\ Settled(h) => Settled(h)'
         /\ h = "risk-level" => OperativeLevel(draft)' = OperativeLevel(draft)
<1>1. Keeps
  BY DEF Answered
<1>2. h = "risk-level" => draft'.levels = draft.levels
  BY DEF Answered
<1>3. h = "risk-level" => OperativeLevel(draft)' = OperativeLevel(draft)
  BY <1>2 DEF OperativeLevel
<1>4. Begun(h) => Begun(h)'
  BY <1>1, <1>2, <1>3 DEF Begun, Keeps
<1>5. \A x \in Scope \cup Stages \cup Brief \cup {"negative", "evidence", "hatch", "audit", "diagnosis"} :
        x \in draft.finds => x \in draft'.finds
  BY <1>1 DEF Keeps, Scope, Stages, Brief
<1>6. ASSUME Settled(h)
      PROVE  Settled(h)'
  <2>1. CASE h \in {"risk-level", "test-matrix"}
    BY <1>2, <1>4, <1>5, <1>6, <2>1 DEF Settled
  <2>2. CASE h \in {"mandatory-flow", "brief-approved", "sdd-specs", "recurrence-lock"}
    BY <1>1, <1>6, <2>2 DEF Settled, Keeps
  <2>3. CASE h \in {"intent-flow", "brief-before-delegate", "reuse-before-build"}
    BY <1>1, <1>5, <1>6, <2>3 DEF Settled, Keeps
  <2>4. CASE h \in {"implementation-pipeline", "never-assume", "no-memory-dependency", "root-cause-first"}
    BY <1>5, <1>6, <2>4 DEF Settled
  <2> QED
    BY <2>1, <2>2, <2>3, <2>4 DEF Gates, SpecGates, PromptGates
<1> QED
  BY <1>3, <1>4, <1>6

\* No gate is patient with nothing.
LEMMA PatienceTypes ==
  \A g \in Gates :
    /\ Patience(g) \in 1 .. 3
    /\ g \notin {"risk-level", "intent-flow", "test-matrix", "mandatory-flow"} => Patience(g) = 1
    /\ g \in {"intent-flow", "test-matrix", "mandatory-flow"} => Patience(g) = 2
    /\ g = "risk-level" => Patience(g) = 3
BY DEF Patience

\* An answer is one more, leaves its mark, and undoes that of no other.
LEMMA ObeyIsFew == TypeOK /\ DenialInv /\ Obey => DenialInv'
<1> SUFFICES ASSUME TypeOK, DenialInv, Obey, NEW h \in Gates
             PROVE  /\ obeyed'[h] \in 0 .. Patience(h)
                    /\ obeyed'[h] >= 1 => Begun(h)'
                    /\ Raised(h)'
                    /\ obeyed'[h] = Patience(h) => Settled(h)' /\ h \notin denied'
  BY DEF DenialInv
<1>1. PICK g \in Gates : Answered(g)
  BY ObeyAnswers
<1>2. /\ g \in denied /\ denied' = denied \ {g}
      /\ obeyed' = [obeyed EXCEPT ![g] = IF @ < MaxObeyed THEN @ + 1 ELSE @]
  BY <1>1 DEF Answered, Answers
<1>3. /\ obeyed[h] \in 0 .. Patience(h)
      /\ obeyed[h] >= 1 => Begun(h)
      /\ Raised(h)
      /\ obeyed[h] = Patience(h) => Settled(h) /\ h \notin denied
  BY DEF DenialInv
<1>4. CASE h = g
  <2>1. obeyed[h] < Patience(h) /\ obeyed'[h] = obeyed[h] + 1
    BY <1>2, <1>3, <1>4, PatienceTypes DEF TypeOK, MaxObeyed
  <2>2. Begun(h)' /\ h \notin denied'
    BY <1>1, <1>2, <1>4 DEF Answered, Advances
  <2>3. Raised(h)'
    BY <1>1, <1>3, <1>4, <2>1, PatienceTypes DEF Raised, Answered, Advances
  <2>4. ASSUME obeyed'[h] = Patience(h)
        PROVE  Settled(h)'
    <3>1. CASE h = "risk-level"
      <4>1. obeyed[h] = 2
        BY <1>3, <2>1, <2>4, <3>1, PatienceTypes
      <4>2. Begun(h) /\ OperativeLevel(draft) = "HIGH-RISK"
        BY <1>3, <3>1, <4>1 DEF Raised
      <4> QED
        BY <1>1, <1>4, <3>1, <4>2 DEF Answered, Advances
    <3>2. CASE h \in {"intent-flow", "test-matrix", "mandatory-flow"}
      <4>1. obeyed[h] = 1
        BY <1>3, <2>1, <2>4, <3>2, PatienceTypes
      <4> QED
        BY <1>1, <1>3, <1>4, <3>2, <4>1 DEF Answered, Advances
    <3>3. CASE h \notin {"risk-level", "intent-flow", "test-matrix", "mandatory-flow"}
      BY <1>1, <1>4, <3>3 DEF Answered, Advances
    <3> QED
      BY <3>1, <3>2, <3>3
  <2> QED
    BY <1>3, <2>1, <2>2, <2>3, <2>4, PatienceTypes
<1>5. CASE h # g
  <2>1. obeyed'[h] = obeyed[h] /\ (h \in denied' => h \in denied)
    BY <1>2, <1>5 DEF TypeOK
  <2>2. /\ Begun(h) => Begun(h)'
        /\ Settled(h) => Settled(h)'
        /\ h = "risk-level" => OperativeLevel(draft)' = OperativeLevel(draft)
    BY <1>1, <1>5, OthersStay
  <2>3. Raised(h)'
    BY <1>3, <2>1, <2>2 DEF Raised
  <2> QED
    BY <1>3, <2>1, <2>2, <2>3
<1> QED
  BY <1>4, <1>5

\* Fresh delegations have been denied nothing.
LEMMA FreshIsFew ==
  ASSUME obeyed = [g \in Gates |-> 0]
  PROVE  DenialInv
BY PatienceTypes DEF DenialInv, Raised

\* Every step keeps the count of the answers and their marks.
LEMMA DenialStep == TypeOK /\ DenialInv /\ [Next]_vars => DenialInv'
<1> SUFFICES ASSUME TypeOK, DenialInv, [Next]_vars PROVE DenialInv'
  OBVIOUS
<1>1. ASSUME NEW failing \in FailingSets, Attempt(failing)
      PROVE  DenialInv'
  <2>1. /\ draft' = draft /\ disk' = disk /\ obeyed' = obeyed
        /\ \A g \in denied' : Denies(g, draft, disk)
    BY <1>1 DEF Attempt
  <2>2. \A g \in Gates : Settled(g) => g \notin denied'
    BY <2>1, SettledIsSilent
  <2> QED
    BY <2>1, <2>2 DEF DenialInv, Raised, Begun, Settled
<1>2. CASE NextDelegation
  <2>1. obeyed' = [g \in Gates |-> 0]
    BY <1>2 DEF NextDelegation
  <2> QED
    BY <2>1, PatienceTypes DEF DenialInv, Raised
<1>3. CASE UNCHANGED vars
  BY <1>3 DEF vars, DenialInv, Raised, Begun, Settled
<1> QED
  BY <1>1, <1>2, <1>3, ObeyIsFew DEF Next

\* Whatever prompts and projects agents start from, and however the gates that are on fail
\* and interfere, no gate denies a delegation more often than it has demands: what a denial
\* asks for, no other one takes away.
THEOREM DenialsRunOut == Spec => []DenialsAreFew
<1>1. Init => DenialInv
  BY FreshIsFew DEF Init
<1>2. DenialInv => DenialsAreFew
  BY PatienceTypes DEF DenialInv, DenialsAreFew
<1> QED
  BY InitTypes, NextTypes, DenialStep, <1>1, <1>2, PTL DEF Spec

=============================================================================

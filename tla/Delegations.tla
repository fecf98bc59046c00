---------------------------- MODULE Delegations ----------------------------
(* The gates that judge the prompt of a delegation, composed.  Every one runs  *)
(* on the same call; the call launches when none denies it.  An agent whose    *)
(* call was denied does what the denials say and relaunches: what one gate     *)
(* has it write, the others read.  A prompt is what the gates' patterns find   *)
(* in it; the files they look up are `disk`.                                   *)
EXTENDS Integers, Sequences

CONSTANTS
  Drafts,      \* the prompts an agent may start from
  Disks,       \* the project states it may find
  EnabledSets, \* the configurations: which gates are on
  FailingSets  \* which gates may throw on one call

-----------------------------------------------------------------------------
(* Vocabulary.                                                                *)

\* The gates that read files of the project, and those that hold a demanding delegation to
\* the spec-driven flow.
SpecGates == {"implementation-pipeline", "test-matrix", "mandatory-flow", "brief-approved", "sdd-specs"}

PromptGates == {"risk-level", "intent-flow", "brief-before-delegate", "never-assume",
                "no-memory-dependency", "recurrence-lock", "reuse-before-build", "root-cause-first"}

Gates == SpecGates \cup PromptGates

\* Gates of severity "warn".
Advisory == {"never-assume"}

Stages == {"definition", "writing", "reviewer"}
Scope  == {"in scope", "out of scope", "edge cases"}
Brief  == {"goal", "steps", "criterion"}
Tests  == {"unit", "e2e", "visual", "negative"}

\* What the patterns may find in a prompt.  "sensitive": an implementation verb near a
\* high-impact signal; "risk": a mutation-risk word; "documents": every implementation verb
\* is about a document; "harness": a path of the agent harness that is no citation; "cites":
\* a feature of the project, .ai/features/<name>; "short": below brief-before-delegate's limit;
\* "tiny": below intent-flow's 40 characters.
Findable ==
  {"implements", "asks", "sensitive", "risk", "documents", "harness", "cites", "unknown",
   "short", "tiny", "money", "screen", "claim", "evidence", "memory", "hatch", "tool", "audit",
   "patch", "diagnosis"} \cup Stages \cup Scope \cup Brief \cup Tests

Levels    == {"QUESTION", "MICRO", "STANDARD", "HIGH-RISK"}
Demanding == {"STANDARD", "HIGH-RISK"}

Agents         == {"builder", "explore", "scout", "claude-code-guide"}
ReadOnlyAgents == {"explore", "claude-code-guide"}
ExemptAgents   == {"explore", "scout"}

Prompts == [agent : Agents, finds : SUBSET Findable, levels : Seq(Levels)]

Projects == [catalog  : BOOLEAN,                                  \* feature_list.json
             brief    : {"none", "empty", "draft", "approved"},   \* brief.md of the cited feature
             contract : BOOLEAN,                                  \* another contract file of it
             task     : {"none", "no slug", "no contract", "live"},
             recurs   : BOOLEAN]                                  \* a defect class is open

-----------------------------------------------------------------------------
(* What a prompt is.                                                          *)

Implements(d)  == "implements" \in d.finds
ExemptQuery(d) == "asks" \in d.finds /\ ~Implements(d)
Documentary(d) == Implements(d) /\ "documents" \in d.finds
Sensitive(d)   == Implements(d) /\ "sensitive" \in d.finds

ReadOnly(d) == d.agent \in ReadOnlyAgents /\ "risk" \notin d.finds

\* A citation of a feature is itself a path under .ai/.
HarnessWork(d) == d.finds \cap {"harness", "cites"} # {}

Undeclared(d) == d.levels = <<>>

OperativeLevel(d) == IF d.levels = <<>> THEN "none" ELSE d.levels[Len(d.levels)]

Ambiguous(d) ==
  \E i, j \in 1 .. Len(d.levels) : d.levels[i] \in Demanding /\ d.levels[j] \notin Demanding

-----------------------------------------------------------------------------
(* The verdicts, one operator per gate.                                       *)

\* What brief-approved and sdd-specs exempt, and what the other spec-driven gates do.
SpecExempt(d) == d.agent \in ExemptAgents \/ OperativeLevel(d) \notin Demanding \/ ~Implements(d)
FlowExempt(d) == SpecExempt(d) \/ HarnessWork(d)

PromptExempt(d) == ReadOnly(d) \/ ExemptQuery(d) \/ ~Implements(d)

MissingStages(d) == Stages \ d.finds

\* Mutant: one row at a time.
FirstMissingTest(d) ==
  IF "unit" \notin d.finds THEN {"unit"}
  ELSE IF "money" \in d.finds /\ "e2e" \notin d.finds THEN {"e2e"}
  ELSE IF "screen" \in d.finds /\ "visual" \notin d.finds THEN {"visual"}
  ELSE {"negative"} \ d.finds

MissingTests(d) ==
  LET declares == d.finds \cap {"unit", "e2e", "visual"} # {}
  IN  {t \in Tests \ d.finds :
         \/ t = "unit"
         \/ t = "e2e" /\ "money" \in d.finds
         \/ t = "visual" /\ "screen" \in d.finds
         \/ t = "negative" /\ declares}

MissingScope(d) == Scope \ d.finds

PipelineDenies(d) == ~FlowExempt(d) /\ MissingStages(d) # {}

MatrixDenies(d) == ~FlowExempt(d) /\ MissingTests(d) # {}

TaskDenies(d, k) == ~FlowExempt(d) /\ k.task # "live"

ApprovalDenies(d, k) == ~SpecExempt(d) /\ "cites" \in d.finds /\ k.brief \in {"empty", "draft"}

SpecDenies(d, k) ==
  /\ k.catalog /\ ~SpecExempt(d) /\ "cites" \in d.finds
  /\ ~k.contract /\ k.brief \in {"none", "empty"}

LevelContradicts(d) == OperativeLevel(d) # "HIGH-RISK" /\ Sensitive(d)

\* Mutant: declaring more than the prompt shows is penalized.
OverDeclared(d) ==
  /\ ~PromptExempt(d) /\ ~Documentary(d)
  /\ \/ Ambiguous(d) \/ Undeclared(d) \/ LevelContradicts(d)
     \/ OperativeLevel(d) = "HIGH-RISK" /\ ~Sensitive(d)

RiskDenies(d) ==
  /\ ~PromptExempt(d) /\ ~Documentary(d)
  /\ Ambiguous(d) \/ Undeclared(d) \/ LevelContradicts(d)

IntentDenies(d) ==
  /\ ~PromptExempt(d) /\ Sensitive(d)
  /\ "unknown" \in d.finds \/ "tiny" \in d.finds \/ MissingScope(d) # {}

\* One or two missing sections only warn.
BriefDenies(d) ==
  /\ ~PromptExempt(d) /\ ~Documentary(d)
  /\ "short" \in d.finds \/ d.finds \cap Brief = {}

ClaimDenies(d) == "claim" \in d.finds /\ "evidence" \notin d.finds

MemoryDenies(d) == "memory" \in d.finds /\ "hatch" \notin d.finds

RecurrenceDenies(d, k) == k.recurs /\ ~ExemptQuery(d)

ReuseDenies(d) == "tool" \in d.finds /\ "audit" \notin d.finds

PatchDenies(d) == "patch" \in d.finds /\ "diagnosis" \notin d.finds

Denies(g, d, k) ==
  \/ g = "implementation-pipeline" /\ PipelineDenies(d)
  \/ g = "test-matrix"             /\ MatrixDenies(d)
  \/ g = "mandatory-flow"          /\ TaskDenies(d, k)
  \/ g = "brief-approved"          /\ ApprovalDenies(d, k)
  \/ g = "sdd-specs"               /\ SpecDenies(d, k)
  \/ g = "risk-level"              /\ RiskDenies(d)
  \/ g = "intent-flow"             /\ IntentDenies(d)
  \/ g = "brief-before-delegate"   /\ BriefDenies(d)
  \/ g = "never-assume"            /\ ClaimDenies(d)
  \/ g = "no-memory-dependency"    /\ MemoryDenies(d)
  \/ g = "recurrence-lock"         /\ RecurrenceDenies(d, k)
  \/ g = "reuse-before-build"      /\ ReuseDenies(d)
  \/ g = "root-cause-first"        /\ PatchDenies(d)

ASSUME InputsAssumption ==
  /\ Drafts \subseteq Prompts /\ Disks \subseteq Projects
  /\ \A gates \in EnabledSets : gates \subseteq Gates

-----------------------------------------------------------------------------
VARIABLES
  enabled,  \* the gates that are on
  draft,    \* the prompt as it stands
  disk,     \* the project's files
  denied,   \* the gates whose denial is still to be answered
  obeyed,   \* how often each gate's denial of this delegation was answered, up to MaxObeyed
  launched  \* the delegation runs

MaxObeyed == 4

vars == <<enabled, draft, disk, denied, obeyed, launched>>

Init ==
  /\ enabled \in EnabledSets /\ draft \in Drafts /\ disk \in Disks
  /\ denied = {} /\ obeyed = [g \in Gates |-> 0]
  /\ launched = FALSE

\* Mutant: a gate that throws lets the call pass.
FailsOpen(failing) == {}

\* The gates that block a call they could not evaluate.
FailsClosed(failing) == failing \ Advisory

\* Mutant: gates that are off judge too.
AttemptUnderAll(failing) ==
  /\ ~launched
  /\ denied' = {g \in Gates \ failing : Denies(g, draft, disk)}
  /\ launched' = (denied' = {} /\ FailsClosed(failing \cap enabled) = {})
  /\ UNCHANGED <<enabled, draft, disk, obeyed>>

\* The delegation is sent: every gate judges it, some may throw.
Attempt(failing) ==
  /\ ~launched
  /\ denied' = {g \in enabled \ failing : Denies(g, draft, disk)}
  /\ launched' = (denied' = {} /\ FailsClosed(failing \cap enabled) = {})
  /\ UNCHANGED <<enabled, draft, disk, obeyed>>

\* The agent answers one denial.
Answers(g) ==
  /\ ~launched /\ g \in denied
  /\ denied' = denied \ {g}
  /\ obeyed' = [obeyed EXCEPT ![g] = IF @ < MaxObeyed THEN @ + 1 ELSE @]
  /\ UNCHANGED <<enabled, launched>>

Rewrites(finds, levels) ==
  /\ draft' = [draft EXCEPT !.finds = finds, !.levels = levels]
  /\ UNCHANGED disk

\* What is added may make a tiny prompt long enough.
Adds(more) == \E less \in SUBSET {"tiny"} : Rewrites((draft.finds \ less) \cup more, draft.levels)

DeclareLevel ==
  /\ Answers("risk-level")
  /\ \/ Undeclared(draft) /\ \E level \in Levels : Rewrites(draft.finds, <<level>>)
     \/ Ambiguous(draft) /\ Rewrites(draft.finds, <<OperativeLevel(draft)>>)
     \/ /\ ~Undeclared(draft) /\ ~Ambiguous(draft) /\ OperativeLevel(draft) # "HIGH-RISK"
        /\ \/ Rewrites(draft.finds, <<"HIGH-RISK">>)
           \/ Rewrites(draft.finds, Append(draft.levels, "HIGH-RISK"))

\* The words "edge cases" are negative cases to test-matrix too.
DeclareScope ==
  /\ Answers("intent-flow")
  /\ IF "unknown" \in draft.finds THEN Rewrites(draft.finds \ {"unknown"}, draft.levels)
     ELSE Rewrites((draft.finds \ {"tiny"}) \cup MissingScope(draft) \cup {"negative"}, draft.levels)

StateBrief ==
  /\ Answers("brief-before-delegate")
  /\ Rewrites((draft.finds \ {"short", "tiny"}) \cup Brief, draft.levels)

\* The line for the definition stage asks for the path of the brief, which may be that of a
\* feature.
PasteStages ==
  /\ Answers("implementation-pipeline")
  /\ \/ Adds(MissingStages(draft))
     \/ "definition" \in MissingStages(draft) /\ Adds(MissingStages(draft) \cup {"cites"})

\* The pasted section is headed "TEST MATRIX", which declares the writing stage.  Its E2E row
\* names money and auth, which may stand near an implementation verb, and its negative row
\* "no data", a mutation-risk word as they are.
PasteTests ==
  /\ Answers("test-matrix")
  /\ \E near \in {{}, {"sensitive"}} :
       LET rows == MissingTests(draft)
       IN  /\ near # {} => "e2e" \in rows /\ ~Documentary(draft)
           /\ Adds(rows \cup near \cup {"writing"}
                   \cup IF rows \cap {"e2e", "negative"} # {} THEN {"risk"} ELSE {})

StartTask ==
  /\ Answers("mandatory-flow")
  /\ disk' = [disk EXCEPT !.task = IF @ \in {"none", "no slug"} THEN "no contract" ELSE "live"]
  /\ UNCHANGED draft

WriteContract ==
  /\ Answers("sdd-specs")
  /\ \/ disk.brief \in {"none", "empty"} /\ disk' = [disk EXCEPT !.brief = "draft"]
     \/ disk' = [disk EXCEPT !.contract = TRUE]
  /\ UNCHANGED draft

\* The user confirms the brief and the agent records it.
RecordApproval ==
  /\ Answers("brief-approved")
  /\ disk' = [disk EXCEPT !.brief = "approved"]
  /\ UNCHANGED draft

CloseRecurrence ==
  /\ Answers("recurrence-lock")
  /\ disk' = [disk EXCEPT !.recurs = FALSE]
  /\ UNCHANGED draft

NameEvidence   == Answers("never-assume") /\ Adds({"evidence"})
NameMemory     == Answers("no-memory-dependency") /\ Adds({"hatch"})
StateDiagnosis == Answers("root-cause-first") /\ Adds({"diagnosis"})

AuditTools ==
  /\ Answers("reuse-before-build")
  /\ \/ Adds({"audit"})
     \/ Rewrites(draft.finds \ {"tool"}, draft.levels)

Obey ==
  \/ DeclareLevel \/ DeclareScope \/ StateBrief \/ PasteStages \/ PasteTests
  \/ StartTask \/ WriteContract \/ RecordApproval \/ CloseRecurrence
  \/ NameEvidence \/ NameMemory \/ AuditTools \/ StateDiagnosis

\* The next delegation, in whatever state others left the project.
NextDelegation ==
  /\ launched
  /\ draft' \in Drafts /\ disk' \in Disks
  /\ denied' = {} /\ obeyed' = [g \in Gates |-> 0]
  /\ launched' = FALSE
  /\ UNCHANGED enabled

Next == (\E failing \in FailingSets : Attempt(failing)) \/ Obey \/ NextDelegation

Spec == Init /\ [][Next]_vars

\* An agent denied again and again answers again and again; gates do not throw for ever.
FairSpec == Spec /\ SF_vars(Obey) /\ SF_vars(denied = {} /\ Attempt({}))

-----------------------------------------------------------------------------
(* Properties.                                                                *)

TypeOK ==
  /\ enabled \subseteq Gates
  /\ draft \in Prompts
  /\ disk \in Projects
  /\ denied \subseteq enabled
  /\ obeyed \in [Gates -> Nat]
  /\ launched \in BOOLEAN

\* A builder's implementation of a sensitive change, however often it was denied, rewritten
\* and relaunched and whichever gate threw on the way, launches only under LEVEL: HIGH-RISK
\* with its scope stated, and, but for work on the harness, with a live task, all three
\* stages and unit and negative tests; no cited brief is unapproved (the gates' headers; with
\* fail-closed runGate, hook-io:618-624).
HighRiskNeverSlips ==
  /\ launched /\ Gates \ Advisory \subseteq enabled
  /\ draft.agent = "builder" /\ Sensitive(draft) /\ ~Documentary(draft)
  =>
  /\ OperativeLevel(draft) = "HIGH-RISK" /\ ~Ambiguous(draft)
  /\ Scope \subseteq draft.finds /\ draft.finds \cap {"unknown", "tiny"} = {}
  /\ "cites" \in draft.finds => disk.brief \notin {"empty", "draft"}
  /\ \/ HarnessWork(draft)
     \/ disk.task = "live" /\ Stages \cup {"unit", "negative"} \subseteq draft.finds

\* How often the same gate may deny a delegation that did all it was told to: twice, where
\* an answer brings a second demand (a task, then its contract; an unknown resolved, then the
\* scope; rows, then negative cases), three times for the level.
Patience(g) ==
  CASE g = "risk-level" -> 3
    [] g \in {"test-matrix", "mandatory-flow", "intent-flow"} -> 2
    [] OTHER -> 1

\* Denials prescribe their own way out (each denial's text): no gate keeps denying what was
\* rewritten as it and the others asked.
DenialsAreFew == \A g \in Gates : obeyed[g] <= Patience(g)

\* A delegation that is denied, and answers every denial, runs in the end, whatever set of
\* gates is on: no gate's remedy is what another one denies.
DelegationLaunches == ~launched ~> launched

=============================================================================

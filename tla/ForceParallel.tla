--------------------------- MODULE ForceParallel ---------------------------
(* The force-parallel gate: it denies delegations that keep coming one message *)
(* at a time, and edits of one file after another by an agent that never        *)
(* delegates.  Both triggers keep their streak in one state.json of the session *)
(* (lib/session-state.mjs), which every hook process reads whole and replaces   *)
(* whole.  The hooks of the calls of one message run side by side.              *)
EXTENDS Integers, FiniteSets

CONSTANTS
  Slots,      \* the calls a message can hold
  Files,
  NoCall,     \* a slot the message leaves empty
  Threshold,  \* sequentialThreshold
  Window,     \* sequentialWindowMs, in ticks
  BatchGap,   \* BATCH_GAP_MS, in ticks: the hooks of one message are done within it
  Limit,      \* maxSelfEditsBeforeDelegating; 0 turns the second trigger off
  MaxNow      \* bound of the clock

ASSUME ParameterAssumption ==
  /\ Threshold \in Nat \ {0} /\ BatchGap \in Nat \ {0}
  /\ Window \in Nat /\ BatchGap <= Window
  /\ Limit \in Nat /\ MaxNow \in Nat

Delegation == [kind : {"delegate"}, justified : BOOLEAN]
Edit       == [kind : {"edit"}, file : Files, by : {"main", "subagent"}]
Call       == Delegation \cup Edit

ASSUME CallAssumption == NoCall \notin Call

\* Before anything this session did: what an absent state.json reads as.
Never == 0 - (Window + 1)

VARIABLES
  stored,   \* state.json
  hook,     \* the hook process of each call: what it read, and its verdict
  message,  \* the calls of the message being judged
  sentAt,   \* when it was sent
  before,   \* the count state.json held then
  run,      \* delegating messages in a row, each soon after the last, counted up to Threshold
  lastSent, \* when the last of them was sent
  now

ghosts == <<message, sentAt, before, run, lastSent>>
vars   == <<stored, hook, ghosts, now>>

Fresh == [count |-> 0, lastAt |-> Never, selfFiles |-> {}, selfLastAt |-> Never]

Waiting == [step |-> "waiting", read |-> Fresh, at |-> Never, verdict |-> "none"]

-----------------------------------------------------------------------------
(* What a hook computes from what it read.                                    *)

\* Mutants: a call of the same batch counts like one of its own; a quiet spell does not
\* start the count again.
NextCountNoBatch(previous, at) ==
  IF at - previous.lastAt > Window THEN 1 ELSE previous.count + 1

NextCountNoReset(previous, at) ==
  IF at - previous.lastAt < BatchGap THEN previous.count ELSE previous.count + 1

NextCount(previous, at) ==
  LET gap == at - previous.lastAt IN
  IF gap > Window THEN 1
  ELSE IF gap >= BatchGap THEN previous.count + 1
  ELSE IF previous.count < 1 THEN 1 ELSE previous.count

NextSelfFiles(previous, file, at) ==
  {file} \cup (IF at - previous.selfLastAt > Window THEN {} ELSE previous.selfFiles)

\* Mutant: a delegation that is denied leaves the streak of edits as it was.
JudgeDelegationKeeps(previous, at) ==
  LET count == NextCount(previous, at) IN
  [state   |-> [count |-> count, lastAt |-> at, selfLastAt |-> at,
                selfFiles |-> IF count < Threshold THEN {} ELSE previous.selfFiles],
   verdict |-> IF count < Threshold THEN "allow" ELSE "deny"]

\* A plain delegation: it is counted, and the agent's own streak is over.
JudgeDelegation(previous, at) ==
  LET count == NextCount(previous, at) IN
  [state   |-> [count |-> count, lastAt |-> at, selfFiles |-> {}, selfLastAt |-> at],
   verdict |-> IF count < Threshold THEN "allow" ELSE "deny"]

\* Mutant: the rest of the state is forgotten.
JudgeSelfWorkForgets(previous, file, at) ==
  LET files == NextSelfFiles(previous, file, at) IN
  [state   |-> [selfFiles |-> files, selfLastAt |-> at],
   verdict |-> IF Cardinality(files) <= Limit THEN "allow" ELSE "deny"]

\* An edit by the main agent: the rest of the state goes back as it was read.
JudgeSelfWork(previous, file, at) ==
  LET files == NextSelfFiles(previous, file, at) IN
  [state   |-> [count |-> previous.count, lastAt |-> previous.lastAt,
                selfFiles |-> files, selfLastAt |-> at],
   verdict |-> IF Cardinality(files) <= Limit THEN "allow" ELSE "deny"]

\* The calls the gate lets pass without touching state.json: a delegation that declares
\* its dependency, and edits by a subagent or with the second trigger turned off.
Plain(call)   == call \in Delegation /\ ~call.justified
Counted(call) == call \in Edit /\ call.by = "main" /\ Limit > 0
Ignored(call) == ~Plain(call) /\ ~Counted(call)

Judge(call, previous, at) ==
  IF Plain(call) THEN JudgeDelegation(previous, at)
                 ELSE JudgeSelfWork(previous, call.file, at)

-----------------------------------------------------------------------------
Init ==
  /\ stored = Fresh
  /\ hook = [s \in Slots |-> Waiting]
  /\ message = [s \in Slots |-> NoCall]
  /\ sentAt = 0
  /\ before = 0
  /\ run = 0
  /\ lastSent = Never
  /\ now = 0

Busy(s)  == message[s] # NoCall /\ hook[s].step # "done"
Judged   == \A s \in Slots : ~Busy(s)
Delegates(m) == \E s \in Slots : m[s] # NoCall /\ Plain(m[s])

\* The agent sends a message with one or more calls.
Send(m) ==
  /\ Judged
  /\ \E s \in Slots : m[s] # NoCall
  /\ message' = m
  /\ hook' = [s \in Slots |-> Waiting]
  /\ sentAt' = now
  /\ before' = stored.count
  /\ IF Delegates(m)
     THEN /\ run' = IF now - lastSent >= Window + BatchGap THEN 1
                   ELSE IF run < Threshold THEN run + 1 ELSE run
          /\ lastSent' = now
     ELSE UNCHANGED <<run, lastSent>>
  /\ UNCHANGED <<stored, now>>

\* A hook starts and reads state.json and the clock.
Read(s) ==
  /\ Busy(s)
  /\ hook[s].step = "waiting"
  /\ hook' = [hook EXCEPT ![s] = [step |-> "judging", read |-> stored, at |-> now, verdict |-> "none"]]
  /\ UNCHANGED <<stored, ghosts, now>>

\* It replaces state.json, allowing or denying alike, and ends.
Write(s) ==
  /\ hook[s].step = "judging"
  /\ ~Ignored(message[s])
  /\ LET judged == Judge(message[s], hook[s].read, hook[s].at)
     IN  /\ stored' = judged.state
         /\ hook' = [hook EXCEPT ![s].step = "done", ![s].verdict = judged.verdict]
  /\ UNCHANGED <<ghosts, now>>

Pass(s) ==
  /\ hook[s].step = "judging"
  /\ Ignored(message[s])
  /\ hook' = [hook EXCEPT ![s].step = "done", ![s].verdict = "allow"]
  /\ UNCHANGED <<stored, ghosts, now>>

Tick ==
  /\ now < MaxNow
  /\ Judged \/ now + 1 - sentAt < BatchGap
  /\ now' = now + 1
  /\ UNCHANGED <<stored, hook, ghosts>>

Next ==
  \/ Tick
  \/ \E m \in [Slots -> Call \cup {NoCall}] : Send(m)
  \/ \E s \in Slots : Read(s) \/ Write(s) \/ Pass(s)

Spec == Init /\ [][Next]_vars

-----------------------------------------------------------------------------
(* Properties.                                                                *)

State == [count : Nat, lastAt : Int, selfFiles : SUBSET Files, selfLastAt : Int]

\* state.json and the hooks' copies of it keep their shape.
TypeOK ==
  /\ stored \in State
  /\ hook \in [Slots -> [step : {"waiting", "judging", "done"}, read : State, at : Int,
                         verdict : {"none", "allow", "deny"}]]
  /\ message \in [Slots -> Call \cup {NoCall}]
  /\ sentAt \in Int /\ lastSent \in Int /\ now \in 0 .. MaxNow
  /\ before \in Nat /\ run \in Nat

\* "Delegations landing within BATCH_GAP_MS of each other are ONE batch" (force-parallel:5):
\* however the hooks of a message interleave, and whatever they overwrite of each other,
\* the message raises the count by one at most.
BatchCountsOnce == stored.count <= before + 1

\* A delegation is denied only at the end of a real run: at least Threshold messages that
\* delegated, each within the window of the one before.
DeniedAfterARun ==
  \A s \in Slots :
    message[s] # NoCall /\ Plain(message[s]) /\ hook[s].verdict = "deny" => run >= Threshold

\* "Any delegation RESETS the count, so the way out of the block is exactly the behavior
\* being asked for" (force-parallel:66): once a message of delegations is judged, denied or
\* not, the agent may edit again, whatever order its hooks ran in.
OnlyDelegates == \A s \in Slots : message[s] # NoCall => message[s] \in Delegation

WayOut == Judged /\ OnlyDelegates /\ Delegates(message) => stored.selfFiles = {}

=============================================================================

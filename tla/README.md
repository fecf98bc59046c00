# claude-gates: TLA+ models and proofs

claude-gates is a set of hooks for Claude Code. Each hook is a short-lived process that Claude
Code starts around a tool call, a message or the end of a turn; it reads a JSON payload, reads
some shared files and allows, warns or denies. A CLI keeps the task list the hooks consult. No
hook and no command takes a lock: everything they know of each other goes through files that
are read whole and replaced whole.

This directory models that program in TLA+, checks the models with TLC and proves theorems
about them with TLAPS. Line numbers refer to `src/`.

## 1. Inventory

| part | state it keeps | operations | talks to |
|---|---|---|---|
| task store (`plugins/tasks/hooks/lib/task-store.mjs`) and CLI (`cli/task.mjs`, `cli/evidence.mjs`) | `.ai/tasks/active.json`, `history.json`, `counter.json` | add, claim, release, block, unblock, promote, close, abandon; reminder counter | every task gate reads its files |
| task ownership (`lib/task-claims.mjs`, the store's own `claimIsLive`) | `owner` and `claimedAt` of a row; the session's transcript mtime | claimIsLive, blocksCaller | file-ownership, stop-pending, require-task-split |
| file-ownership | none | deny a write covered by another agent's live claim | active.json, then the write tool itself |
| stop-pending | none | refuse the end of a turn, once | active.json, Stop hooks |
| require-task-split | none | deny work while a large task has no sub-tasks | active.json, then history.json |
| session state (`lib/session-state.mjs`) | `$TMP/claude-gates/<gate>/<session>/state.json` | read, write, update, prune | the counting gates |
| force-parallel | delegation count, files edited, two dates | judge a delegation, judge an edit | session state |
| require-monitor | up to 20 pending background commands | record, clear, deny | session state, the gates that may deny its remedy |
| circuit-breaker | up to 12 launches per prompt signature | deny a repeated delegation, override; count a launch (PostToolUse) | session state |
| engram-first, library-docs, skill-first | counters and dates | deny at PreToolUse, count at PostToolUse, refuse Stop | session state |
| hook runtime (`lib/hook-io.mjs`) | parameter warnings already given | runGate (fails closed), runStopHook (fails open) | configuration, gate log |
| gates on a delegation (thirteen, with `lib/delegation.mjs`) | none; they read the project's catalog, briefs, tasks and recurrences | deny a prompt, saying what to add or write | each other, through the prompt the agent rewrites and the files it writes |
| gates on commands and writes (no-blocking, bash-commands, block-remote-publish, protected-paths, root-whitelist, forge-flow) | none; forge's database | deny a call, saying what to do instead | require-monitor, each other, the user |
| commit gates (no-coauthor, lint-commit, staged-lint, atomic-commit, with `lib/git.mjs`) | none; git's index, tree and HEAD | foresee what a command line will commit, and deny it | git, the linter, whoever edits meanwhile |
| stateless text gates (patterns over one payload) | none | decide one payload | configuration |
| gate log (`lib/gate-log.mjs`) | `.ai/gates-log.jsonl` and one rotated file | append, rotate | everything that decides |
| configuration (`lib/config.mjs`, `cli/config.mjs`, `toggle`, `init`) | project and global `config.json`, registry defaults | layered read; read, merge and write | every hook |
| installation, doctor, wiring | copied artifacts, hook settings | install, check | one user, one command at a time |
| reminders (`register-requests.mjs`, `session-tasks.mjs`) | `counter.json` (a count and one briefed session) | brief, count, remind | task store |

What is hard here:

* **Overlap.** All PreToolUse hooks of a call run side by side, so do the hooks of the calls of
  one message, and several sessions share one project. Every update is read, compute, replace.
* **Time between verdict and effect.** A hook allows a write that lands later; a file is read
  by a gate between two renames of a command.
* **Crashes.** A command can die between its two renames; the command is then run again.
* **Several clocks.** An eight-hour window in the store, sixty idle minutes in the gates, two
  seconds and two minutes in force-parallel: one fact is judged by different rules.
* **Remedies.** A denial prescribes a way out, which another gate or the same one may deny.

What makes each part correct:

* *Store*: a recorded task never leaves the two files; a verdict is final; history only grows;
  a command takes effect at once or not at all; nobody takes a task whose claim is live.
* *Ownership*: no write lands on a claim that was there first; a dead session's claim is given
  up in the end; the two rules do not contradict what a message promises.
* *require-task-split*: a task that was split is never denied as unsplit.
* *force-parallel*: a batch counts as one delegation; no denial without a run behind it; the
  way out it prescribes is open.
* *Monitor, breaker, research gates*: what is counted is what was launched; no call is denied
  for ever; a gate never denies another gate's remedy for good.
* *Command gates*: what is the user's to do never runs, however a denied call is rewritten; every
  running background has an entry until it is watched.
* *Commit gates*: what they foresee is what git commits; work gets committed in the end.
* *Configuration*: a reader sees a configuration somebody chose; a rerun of `init` keeps edits.

`PROJECT.json` lists the components with their status and every hazard at its line.

## 2. Modules

| module | models | kind |
|---|---|---|
| `TaskRegistry` | what the store promises: atomic register, status, claim, release, close | abstract specification |
| `TaskStore` | the store as the CLI drives it, one action per file operation | detailed specification, refines `TaskRegistry` |
| `SplitGate` | require-task-split's reads composed with `TaskStore` | composition |
| `TaskClaims` | ownership over time: claims, sessions, file-ownership, stop-pending | specification |
| `ForceParallel` | force-parallel and its state file, the hooks of one message side by side | specification |
| `CircuitBreaker` | circuit-breaker: verdict before a delegation, record after its launch, override | specification |
| `Delegations` | the gates that judge a delegation, composed, and the agent that answers their denials | composition |
| `ConfigLayers` | the configuration files, the commands that rewrite them and the hooks that read them | specification |
| `Commands` | require-monitor's list and the gates on commands and writes, composed, and the agent that answers their denials | composition |
| `Commits` | the four gates on a `git commit`, git, an editor that interferes, the agent that answers | composition |
| `Research` | engram-first, library-docs and skill-first, their trackers and the Stop hook, the agents that answer | composition |
| `*_proofs` | the theorems of the module they are named after; `TaskStore_proofs` also holds `SplitGate`'s and `ForceParallel_proofs` those of `Research` | proofs |
| `MC*` | small instances for TLC | |

### TaskStore

`active` and `history` are the two files. `job[a]` is the command agent `a` is running: `rest`
is the copy of active.json it will write, `log` its copy of history.json, `task` the row it is
about, `step` the next file operation. `Add`, `Block`, `Unblock`, `PromoteToForge` and
`Release` read active.json and prepare the write; `ClaimCheck` and `ClaimRead` are `claimTask`'s
own read and the second one inside `updateTask`; `Close` starts `taskClose` or `taskAbandon`
(the evidence is verified before the store is opened, so it leaves nothing behind but the
verdict), `CloseRead`, `ReadHistory`, `WriteHistory` and `WriteActive` are `closeTask`'s file
operations in the code's order. `WriteActive` is also the last rename of the others. `Crash`
ends a command between any two of them: a rename is atomic, a sequence of two is not. A title,
an owner list or evidence text is not in a row; no property tells them apart.

`registered` (ids reported as recorded) and `held` (what callers were told of their claims)
record what the outside knows; the code has no such variables.

`Spec` lets the commands of two agents overlap. `SerialSpec` is `Spec` while one command runs
at a time, and still lets it die anywhere.

### TaskClaims

Commands are atomic here and time is the subject. A task has the *age* of its claim; a session
has the time since its transcript was touched. `StoreLive` and `GateLive` are the two
`claimIsLive`. A write is two steps: `BeginWrite` is the PreToolUse verdict, `EndWrite` the
tool. `StopRefused` and `StopAllowed` are stop-pending under `runStopHook`, which lets the
second attempt pass. A tool call names its file relative to the project or by an absolute path
(`Forms`; the write tools send absolute ones), and `Judged` is what `projectRelative` makes of it: no
claim names an absolute path, so the gate misses every claim on it (a finding), and
`WritePrecedesClaim` excepts those calls by name. Its two other exceptions are history that nothing
but this property reads: `newer`, the tasks others added or claimed since the call was judged, and
`missed`, the sessions that counted as gone at that moment. A claim that held when the hook judged is
neither. Ages saturate at the longer of the two
windows, past which no test in the code tells them apart; a claim with no date keeps the value
`Undated`.

### SplitGate

`GateReadActive` takes the hook's one snapshot of active.json and keeps the large tasks that
concern the caller and have no sub-task in it; `GateReadHistory` reads history.json for one of
them; `GateDecide` ends. The owner's session may be in any state. The store steps in between.

### ForceParallel

`Send` is a message with up to one call per slot. Each call's hook does `Read` (state.json and
the clock) and `Write` (the whole state replaced, denied or not), or `Pass` when the code
returns before writing. `JudgeDelegation` and `JudgeSelfWork` are the functions of those names;
an edit writes back the count it read, so one hook can undo another's. The hooks of a message
finish within `BatchGap`, and the next message is sent when they are done: Claude Code waits for
a message's hooks, and a hook takes far less than the two seconds of `BATCH_GAP_MS`. `before`,
`run`, `sentAt` and `lastSent` record the messages.

### CircuitBreaker

`stored` is state.json: how often each signature is recorded. A call goes through `Delegate`,
`ReadBefore`, then `Override` or `Judge` (the PreToolUse hook, index.mjs), `OtherGateDenies` or
`Launch` (Claude Code), `ReadAfter` and `Record` (the PostToolUse hook, track.mjs). A prompt is a
goal, a text and file names; `Signature` picks the goal over the text as `identitySignature`
does, `Similar` is the Dice coefficient in hundredths, a path weighing double. Word pairs are a
set where the code has a list, so two prompts with the same pairs in another order share a key
here and have two there; `Occurrences` sums over every key, which makes them one task in both.
`launched` and `unforgiven` count what the session launched, in all and since the task was last
overridden; `alone` says that no two calls have been in flight together.

### Delegations

A prompt is the set of things the gates' patterns find in it and the levels it declares; `disk`
is what the spec-driven gates look up. Each gate's verdict is an operator (`RiskDenies`,
`TaskDenies`, ...), and `Attempt` is `runGate` for all that are on: a gate that throws blocks,
unless it only advises, and says nothing that could be answered. A prompt under the length
intent-flow asks for is "tiny". The actions under `Obey` do what
a denial says, in any order, with whatever else that brings: a pasted test section declares the
writing stage and names money or data, the words "edge cases" are negative tests, a citation is a
path under `.ai/`. Answers that are conditional in the text are taken only where the condition
holds: mandatory-flow's "declare QUESTION/MICRO if this is not implementation" is not an answer to
a prompt that implements. The order of a gate's checks matters only where it changes what the
agent is told (`DeclareLevel`, `DeclareScope`, `StartTask`).

### ConfigLayers

`files` holds the config.json of the project, of the user and of a home directory that hooks
climb to and commands never read. An entry keeps the forms the code tells apart (absent, boolean,
object with or without `enabled`, anything else) and whether its parameters are those the gate
prints or edited ones. A command goes through `Decide` (mode, scope, picks), `Settle` (the read
that everything is computed from, the prompts), `Truncate` and `Fill` (writeFileSync in place) and
`Align` (the block of CLAUDE.md); `Toggle` is read and computation of `enable`/`disable`. `Leave`
is a refusal, `--dry-run` or a kill anywhere; a kill between `Truncate` and `Fill` leaves the file
torn. The code reads these files twice, and so does the module: `Enforced` (`GatesLayer`,
`GateEntryOf`, `IsEnabled`) translates lib/config.mjs, which climbs to the first directory with a
marker, takes the first layer that has a readable `gates`, and asks the registry what an entry leaves
open; `Status(dir)` (`EffectiveGates`, `EnabledOf`) translates toggle.mjs, which takes the file of
the directory it is given, or the global one, and tells entries apart by cases of its own.
`StatusIsEnforced` compares the hooks with the status given in the directory they climb to. That the
CLI, run in a project without a marker, does not look at a marked home directory is a finding.
`word` is what the user last said of each gate, `raced` that a command wrote over a content it had
not read; both are history.

### Commands

A call is a tool and what the gates' patterns find in it; several actors have one judged at the
same time. `Read` is the require-monitor hook's read of its file, `Judge` all verdicts and that
hook's write: a planned background is recorded at PreToolUse, whatever the other gates decide.
`Observe` is a Monitor call, which clears the oldest entry, whatever it observes. Only the number
of entries decides, so `pending` is the length of the list. The actions under `Obey` are the ways
out the denials prescribe; `HandsOver` leaves the call to the user.

### Commits

A tree gives each file a version in HEAD, in the index and on disk. `EffectiveCommitFiles`,
`StagedFiles`, `StagedDeletions` and `TrackedModified` are the functions of lib/git.mjs over it;
`TreeAfter`, `IndexAfter`, `Content` and `Carried` are what git does when the command line runs,
later. An argument of `git add` (`Argument`) has the files git takes it for and those whose path from
the root its text is or leads, which is how lib/git.mjs:193-206 compares it: `./a.js` and `*.js` take files and
name none, `a.js` given in a directory below the root takes one file and may name another. A line may also remove
files (`git rm`) and commit by pathspec, which the gates do not read either. `Edit` and `Stage` are
anyone else, at any moment. `last` records the commit, whether it could be foretold at all (git
answered, nobody interfered between verdict and commit), and as `unread` the files it commits otherwise than
`ReadPart`, the part of the line the gates read, would. Those are in no forecast: both properties
leave them out and say so, and findings quote the code's promise against it.

### Research

`engram`, `library` and `invoked` are the three session files. A lookup runs, then its trackers
read (`ReadFiles`) and write (`Track`) while other agents' calls are judged and tracked. A denial puts
the calls it prescribes in front of the agent's `plan`; `RemedyFor` is library-docs' function, and an
agent takes up the packages of a denial one at a time (the next denial names the others). A
lookup may find nothing, or fail, which is not tracked. `owed` says that research happened that
nobody saved since, `crossed` that it was done or saved while another call was being tracked.

## 3. Runs

| run | specification | result | shows |
|---|---|---|---|
| `store` | `SerialSpec`, 2 agents, 2 ids, 1 crash, window 1 | pass | The store implements `TaskRegistry` (`ImplementsRegistry`), verdicts are final (`NothingForgotten`), a task is in both files only because of a close half way (`MovedNotCopied`), repeated history rows are paid for by crashes (`DuplicatesNeedCrashes`), a claim in its window is the file's (`HolderIsOwner`), nothing recorded disappears (`NoTaskLost`) and history only grows (`HistoryAppendOnly`) |
| `store_race` | `Spec` | violation of `NoTaskLost` | two overlapping commands lose a recorded task |
| `claims` | `TaskClaims`, 2 sessions, 1 task, a directory and a file in it, relative and absolute paths | pass | `WritePrecedesClaim`, and `DeadClaimFrees` under fairness |
| `split` | `GateSpec`, a parent and its sub-task, 1 crash | pass | `SplitStaysSplit` |
| `parallel` | `ForceParallel`, 2 calls a message, 2 files | pass | `BatchCountsOnce`, `DeniedAfterARun`, `WayOut` |
| `breaker` | `CircuitBreaker`, 2 calls in flight, 5 in the session, 3 prompts | pass | `OnlyLaunchesCount`, `CutIsARetry`, `CutIsUnforgiven`, `RetryIsCut` |
| `delegations` | `Delegations`, 24 prompts, 4 projects, 3 configurations, one gate throwing at a time | pass | `HighRiskNeverSlips`, `DenialsAreFew`, `DelegationLaunches` |
| `config` | `ConfigLayers`, 2 commands, 3 acts, a gate with parameters and one without, a marked home directory | pass | `LastWordStands`, `TuningSurvives`, `StatusIsEnforced` |
| `commands` | `Commands`, a main agent and a subagent, 5 calls, 2 configurations, two gates that may throw | pass | `HarmNeverRuns`, `NothingForgotten`, `NobodyIsStranded` under fairness |
| `commands_looking` | the same | violation of `LookingIsFree` | a read-only command is denied while a background is pending |
| `commits` | `Commits`, 3 files, 10 command lines, 2 configurations, an interference at any moment | pass | `CommitsAreAtomic`, `CommitsAreClean`, `WorkGetsCommitted` under fairness |
| `research` | `Research`, 2 agents, 3 goals, one failing lookup, 3 sets of servers | pass | `ResearchIsSaved`, `NobodyIsStuck` under fairness |

The violations are disagreements between the code and its own text; `PROJECT.json`
(`findings`) quotes the lines, and those of other disagreements met while modelling, which need no
run to be seen or are excused by name in a property.

**Bounds.**

* `TaskStore`: Two agents are enough for every overlap of a read and a write, because each
  property relates two commands or two callers; two ids give every relative position of a row
  that is searched, spliced or appended. `MaxRows` (4) lets a task be added, closed, half closed
  and closed again. One crash is what a half-done close needs; a second one only repeats history
  rows, which the proofs below cover for any number. `TTL = 1, MaxNow = 1` gives a claim inside
  and one past its window.
* `TaskClaims`: nothing is bounded but the sets: ages saturate. `TTL = 3` and `IdleWindow = 2`
  keep the code's order of the two windows (eight hours, sixty minutes).
* `SplitGate`: the clock stands still (`MaxNow = 0`): the gate's rule for the owner's session is
  chosen freely.
* `ForceParallel`: `Threshold = 3` is the default, `BatchGap = Window = 2` give every verdict of
  `nextCount` (hooks of one message may be a tick apart), and `MaxNow = 5` is the first time at
  which a third sequential delegation is denied and answered with a batch.
* `CircuitBreaker`: the first prompt resembles the second and the second the third, but not the
  first the third, so that a count over similar prompts differs from one over a key or a class;
  five calls are two launches, their cut, an override and what follows; `Threshold = 1`
  exercises the floor of two, `MaxEntries = 2` the cap.
* `Delegations`: the prompts go from the bare request to the careful one, undeclared, declared
  and contradictory, given to each kind of agent; the projects from an empty one to one with a
  live task and an open recurrence. `obeyed` stops at `MaxObeyed` (4), past every bound
  `DenialsAreFew` sets.
* `ConfigLayers`: three acts are two commands and an edit between their steps, or three commands
  one after the other; the two gates differ in all that `materialize` looks at, and the files
  start missing, opted out by hand, and with an object that says nothing of `enabled`. The home
  directory has a marker and the project's has none until a command gives it one, so the hooks climb in
  some states and not in others.
* `Commands`: `MaxPending = 2` and `MaxUnwatched = 3` let a list fill up and drop an entry (the
  code's cap of 20 is the same line); but for the one that only looks, each wish is denied by
  two gates or more, so that answers meet.
* `Commits`: three files are enough for every difference of HEAD, index and tree that the gates
  tell apart next to a second nature; `MaxNatures = 1`, `MaxFiles = 2` are reached and passed. The ten
  command lines have every way of naming a file next to one the gates read, and `a.js` read as
  `b.js`.
* `Research`: one package is enough, because a verdict looks at each package alone;
  `MaxEntries = 2` fills the lists and drops their oldest entries, which with one package never costs the
  entry a write needs; in the code that takes forty other lookups in between. No two stamps of
  engram-first fall in one millisecond, and the trackers of one call read together.

**Symmetry.** Agents and ids (calls and files, commands) are interchangeable in the runs that use
it; no run with a liveness property does.

**Deadlock** is checked, but for the instances that end: `config` after its acts, `commits` when
nothing is left to commit, `research` after its goals, and those whose cfg says so.

**Fairness.** `WF_vars(Tick)` in `TaskClaims`: the clock does not stop. No session, hook or
command is assumed to make progress there: `DeadClaimFrees` is about what time alone does. In
`Delegations`, an agent that is denied again and again answers again and again, and relaunches
without a gate throwing again and again: Claude Code shows the denial to the model, and what a
gate throws at (a file being replaced) passes. In `Commands` and `Commits` likewise: hooks that are
started end (WF, SF where a throw may come in between), a denied agent answers (WF), and neither a
gate nor git fails for ever (SF of a judgement without failures). `Commits` adds that the agent now
and then stages and commits all that is left (SF), repairs what the linter complains of (SF) and
marks what it cannot repair (SF): an agent that only ever retried the same line would get nowhere,
and no gate says it should. `NobodyIsStranded` excuses a session that launches planned
backgrounds for ever; `NobodyIsStuck` one whose trackers write over each other for ever, and a
project with engram but no context7, where library-docs prescribes nothing but another search (a
finding). `Research` assumes only that an agent goes on with its plan and that hooks run (WF).

**Mutants.** Each property of each passing run is broken by a mutated definition kept next to
the original (named in `PROJECT.json`), such as a `splice` without its count, a release that
keeps its date or a batch that counts its calls.

## 4. Theorems

All are proved for every value of the constants that satisfies the named assumptions.

| theorem | statement | argument |
|---|---|---|
| `TaskStore_proofs!TypeCorrect` | `Spec => []TypeOK` | one lemma per command; overlap included |
| `TaskStore_proofs!NothingInvented` | `Spec => []OnlyRecorded` | overlap included: every copy a command holds has only recorded ids (`Knows`), but for the row an add is about to record |
| `TaskStore_proofs!OneCopyLosesNothing` | `Spec /\ []OneCopy => []NoTaskLost` | `CopiesInv`: what a command is about to write has every id of the file it replaces (`CarriesOver`), but the id being closed, which reaches history.json first; kept by every step taken while one command at most holds a copy of active.json |
| `TaskStore_proofs!OneLogOnlyGrows` | `Spec /\ []OneLog => HistoryAppendOnly` | `LogInv`: the copy about to be renamed is history.json plus one row, while one close at most holds one |
| `TaskStore_proofs!NothingLost` | `SerialSpec => []NoTaskLost` | `SerialInv`, which is `CopiesInv`, `LogInv` and turns: agents that take turns hold one copy at a time |
| `TaskStore_proofs!HistoryOnlyGrows` | `SerialSpec => HistoryAppendOnly` | the same |
| `TaskStore_proofs!StoreIsRegistry` | `LockedSpec => ImplementsRegistry` if `~ReuseIds` | `RegistryInit`, and `RegistryStep`: under `FullInv` every file operation is a registry step or a stutter (below) |
| `TaskStore_proofs!RowsArePaidFor` | `LockedSpec => []DuplicatesNeedCrashes` if `~ReuseIds` | `RowsInv`: a task's rows in history.json are at most the crashes, plus one once it is closed or closing |
| `TaskStore_proofs!CloseMoves` | `LockedSpec => []MovedNotCopied` if `~ReuseIds` | from `RowsInv`: without a crash a task with a row has left, or its close is between the renames |
| `TaskStore_proofs!HoldersOwn` | `LockedSpec => []HolderIsOwner` if `~ReuseIds` | `HeldInv`, and `Plans`: a claim about to be written found the row free, or its own, or past its window |
| `TaskStore_proofs!VerdictsAreFinal` | `LockedSpec => NothingForgotten` if `~ReuseIds` | from `FullInv`: only a close removes a row, and what it appended before is the row it removes |
| `TaskStore_proofs!ClaimsAreRespected` | `LockedSpec => Registry!NoClaimStolen` if `~ReuseIds` | the registry's promise about owners, of the two files: `Plans` again; no run checks it |
| `TaskStore_proofs!TurnsAreEnough` | `SerialSpec =>` the six before, if `~ReuseIds` | agents that take turns are inside the store one at a time (`TurnsAreLocked`) |
| `TaskStore_proofs!SplitIsRespected` | `GateSpec => []SplitStaysSplit` | `SplitInv`: a task still in question that was split had no sub-task in the snapshot, so its sub-task was in history.json, which only grows (`HistoryOnlyGrows`'s step lemma) |
| `TaskClaims_proofs!TypeCorrect` | `Spec => []TypeOK` | |
| `TaskClaims_proofs!ClaimedFilesAreSafe` | `Spec => []WritePrecedesClaim` | `Noted`: every task of another whose claim reaches a file being written by a relative path is in `newer`, or its owner is in `missed`, or its claim had run out and only ages (`VerdictIsNoted`, then one case per kind of step) |
| `Delegations_proofs!LaunchedIsUndenied` | `Spec => []NothingDenied` | a launch is a judgement without a denial or a blocking exception, and nothing is rewritten after it |
| `Delegations_proofs!NeverSlips` | `Spec => []HighRiskNeverSlips` | from the one before: no exemption applies to a sensitive prompt of a builder, and `RiskDenies` forces the level that switches the pipeline gates on |
| `Delegations_proofs!TypeCorrect` | `Spec => []TypeOK` | one step per answer; what is added to a prompt is something a gate may find in it |
| `Delegations_proofs!DenialsRunOut` | `Spec => []DenialsAreFew` | `DenialInv`: each answer leaves a mark (`Begun`, `Raised`, `Settled`) no other answer erases (`OthersStay`), and a settled gate is silent (`SettledIsSilent`) |
| `CircuitBreaker_proofs!TypeCorrect` | `Spec => []TypeOK` | |
| `CircuitBreaker_proofs!OnlyLaunches` | `Spec => []OnlyLaunchesCount` | `Accounts`: the file and every copy a hook has read, plus what launched and is not recorded yet, stay within what was launched |
| `CircuitBreaker_proofs!CutIsEarned` | `Spec => []CutIsARetry` | what a hook read is at most what was launched (`Accounts`), and occurrences grow with the state (`OccurrencesMonotone`) |
| `CircuitBreaker_proofs!ForgivenIsForgotten` | `Spec => CutIsUnforgiven` | `Solo`: until two calls meet, what is stored of a task is its unforgiven launches but the one under way, up to the cap |
| `CircuitBreaker_proofs!RetriesAreCut` | `Spec => RetryIsCut` if `RetryThreshold <= MaxEntries + 1` | `Solo` again: below the threshold no similar task has reached the cap, so nothing that counts was dropped |
| `CircuitBreaker_proofs!TheSameIsCut` | `Spec => SameIsCut` if `RetryThreshold <= MaxEntries + 1`, `Percent <= 100`, and prompts have finitely many words and paths | from `RetriesAreCut`, so only while no two calls have been in flight together (`alone`), and for prompts that weigh something: such a prompt is similar to itself whatever the percentage (`SimilarToItself`) |
| `ForceParallel_proofs!TypeCorrect` | `Spec => []TypeOK` | |
| `ForceParallel_proofs!BatchIsOne` | `Spec => []BatchCountsOnce` | `CountInv`: whatever a hook read is either as old as the message (`count <= before`) or was written by the same message less than `BatchGap` ago, and is not raised again (`NextCountSound`) |
| `ForceParallel_proofs!DenialIsEarned` | `Spec => []DeniedAfterARun` | the same invariant: the count is backed by messages in a row, or so old that the window resets it |
| `ForceParallel_proofs!DelegatingIsTheWayOut` | `Spec => []WayOut` | `WayInv`: every hook of a message of delegations empties the streak or leaves it alone |
| `ConfigLayers_proofs!TypeCorrect` | `Spec => []TypeOK` | |
| `ConfigLayers_proofs!LastWord` | `Spec => []LastWordStands` | what a command is about to write agrees with `word` wherever the run did not ask, as long as the file is what it read |
| `ConfigLayers_proofs!EditsSurvive` | `Spec => []TuningSurvives` | per command: `Toggled` and `Materialized` keep edited parameters |
| `ConfigLayers_proofs!StatusTells` | `Spec => []StatusIsEnforced` | of the two readers: the layer the hooks' climb and fall-backs end in is the one the command takes its entries from (`SameLayer`, `NoLayer`), and they say the same of one entry, whatever its form (`SameVerdict`) |
| `Commands_proofs!TypeCorrect` | `Spec => []TypeOK` | |
| `Commands_proofs!Remembered` | `Spec => []NothingForgotten` | until an entry is lost, each hook's copy is the list, so it stays as long as the backgrounds that run |
| `Commands_proofs!NoHarm` | `Spec => []HarmNeverRuns` | a call runs only out of a judgement without a denial or a throw |
| `Commands_proofs!AnswersLeadOut` | `Spec => AnswersProgress /\ []DenialsStand` | one step per answer: what denied a call denies it until the agent answers (`StillDenies`), so each answer finds its chore (`Chores`), plans the monitor, starts forge, hands the call over or, if a gate threw, just tries again |
| `Commands_proofs!AnswersAreKept` | `Spec => ProgressStays` | one step per action: forge starts once, and a chore done is undone by no step but another wish |
| `Commits_proofs!TypeCorrect` | `Spec => []TypeOK` | |
| `Commits_proofs!AtomicityIsKept` | `Spec => []CommitsAreAtomic` | `CommitInv`: an allowed command that nobody raced is still one the gate does not deny (`JudgementHolds`), and what git will commit of it and is not `unread` is what `ReadPart` commits (`ReadContent`), which the gate foresaw (`NothingUnforeseen`), so no broader (`FewerNatures`, `PartsAreNarrow`) |
| `Commits_proofs!CleanlinessIsKept` | `Spec => []CommitsAreClean` | the same invariant; a bad file of the commit that is read, and staged as the tree has it, was among the linted ones (`BadIsForeseen`) |
| `Commits_proofs!RemediesWork` | `Spec => []SplitIsOpen /\ RemediesAreAccepted` | one file is never broad (`OneFileIsNarrow`), so a part can always be split off; a marked, split or repaired line is not denied for that again |
| `Commits_proofs!RemediesAreKept` | `Spec => RemediesStay` | one step per answer |
| `ForceParallel_proofs!ResearchTypeCorrect` | `ResearchSpec => []ResearchTypeOK` | one step per action of `Research`: `Remember` keeps at most `MaxEntries` entries, remedies are lists of calls |
| `ForceParallel_proofs!ResearchGetsSaved` | `ResearchSpec => ResearchIsSaved` | `DueInv`: until calls cross, one tracker of engram-first at most is at work, it read what the file holds, and unsaved research is in the file or in what it will write |

The invariants are strengthened because none of the properties is inductive: `NoTaskLost` says
nothing of the private copies that the next rename puts in place, `BatchCountsOnce` nothing of
the state a hook read and has not yet written back.

**The store's invariant.** `LockedSpec` is `Spec` with at most one command between the first read and
the last write of a function of task-store.mjs (`OneInside`). `FullInv` is `TypeOK`, `CopiesInv` and
`LogInv` (what a command will write keeps every id and row), `OneInside` and `TurnInv`, which says
what the command inside is about to do. `Plans(a, j)`
is its core: in the late steps of a command, its copy of active.json is the file with one row added (`Adds`),
with the row of its task changed by the verb and no other (`Merges`), or with that row gone
(`Removes`), in which case history.json's copy ends with it. Only with that does the last rename of
a command map to the registry's step (`AddRegisters`, `UpdateIsRegistered`, `RemoveCloses`); reads
and the rename of history.json map to none (`WriteHistoryIsHidden`), because the registry counts a
task as active until it leaves active.json. `Distinct(active)` is what makes `findIndex`
mean the row of the task, and needs the hypothesis `~ReuseIds`: `task add --id` with an id already
in use makes two rows of one name, after which the registry, which knows one record for an id, no
longer describes the files. The other theorems on the store do without it.

**Hypotheses.** `RetriesAreCut` is false without its own: the tracker drops launches that a higher
threshold would have to count (a finding in `PROJECT.json`); the code's cap of 12 and default
threshold of 2 satisfy it. `ClaimedFilesAreSafe`, `StatusTells`, `AtomicityIsKept` and
`CleanlinessIsKept` have no hypothesis; what the code misses (absolute paths, files a line commits
in words the gates do not read) is in the model and excepted by name in the property. `Commits`,
`Delegations` and `Commands` assume of their inputs (`InputsAssumption`) that the prompts, projects, trees, command lines and
configurations an agent starts from are of the shape the module defines.

Neither hypothesis of `TheSameIsCut` on `Percent` and the sets excludes anything the code can meet: a
Jaccard similarity is at most 1, and a prompt is finite.

`[]OneCopy`, `[]OneLog` and `LockedSpec`'s `[]OneInside` are hypotheses about the schedule, which the
code does not enforce: the commands take no lock, and `store_race` shows two copies that meet. The
theorems say what a lock would have to cover. For no task to be lost: from the read a copy of
active.json comes from to its rename. For history.json to grow only: from its read to its rename.
For the store to be the registry: each of `addTask`, `updateTask`, `claimTask` and `closeTask`, so
that a claim's two reads agree. The verifying of evidence in `task close` may stay outside.

`ForceParallel_proofs` extends `Research` as well as `ForceParallel`; the two share no variable and
nothing relates them.

Two proof attempts found a fault in a model. The plan of `Research`'s agent was a concatenation
over a set, of which nothing could be proved; the package by package form is also what an agent that
reads a denial does. And the guard of `Split` read as one implication, whose second half a part that
was too broad satisfied as well; `SplitIsAccepted` could not be proved until it was two conjuncts.

Model-checked only: `DeadClaimFrees`, `DelegationLaunches`, `NobodyIsStranded`, `WorkGetsCommitted` and
`NobodyIsStuck`, because liveness under fairness is beyond the proof system. The safety half of three of
them is proved: the answers that stand between a delegation and its launch are bounded
(`DenialsRunOut`), each answer to a denial of `Commands` takes the call further and is not undone
(`AnswersLeadOut`, `AnswersAreKept`), and the gates on a commit accept the remedies they ask for
(`RemediesWork`, `RemediesAreKept`). That no id is lost when `--id` repeats one is proved
(`NothingLost` does not restrict ids) and not run.

Assumptions: a rename replaces a JSON file atomically (config.json, which is written in place, is
modelled as such); a file this program did not write
is not damaged; `SerialSpec` assumes commands that do not overlap, which the code does not
enforce: `store_race` shows what happens without it.

## 5. Plan

Done, in this order: `TaskStore` with `TaskRegistry`, `SplitGate`, `TaskClaims`, `ForceParallel`,
`CircuitBreaker`, `Delegations`, `ConfigLayers`, `Commands`, `Commits`, `Research`.

Every safety and action property of the passing runs is proved. Next, for proofs:

1. `StoreIsRegistry` for ids given twice, once the registry keeps more than one record of an id.
2. The safety half of `NobodyIsStuck`: that an answered denial of `Research` is not spoken again
   while no tracker is overwritten.

Next, for models: `Reminders` (the counter and the briefed session in one file), the same gates of
`Delegations` on writes and commands, the Stop hooks side by side.

## 6. Not modelled

* *Reminders*, the *gate log*, the once-per-session *warning about parameters*: wording and
  records; no decision reads them.
* *Text-pattern gates* and the patterns of all others: one regular expression over one payload. A
  model would repeat it and check nothing; what it finds is a fact about a call here.
* *autonomous-mode*: a constant answer.
* *Install, doctor, wiring*, the registry's loading: files copied and reported by one user, one
  command at a time.
* *Capability, tool, feature and attack maps*, agent context: text printed into a session.
* *Mutation script, lint configuration*: tooling of the repository.
* sdd-specs, never-assume, recurrence-lock, reuse-before-build and root-cause-first on anything
  but a delegation.
* Pruning of session state older than seven days, state files that cannot be written.
* What a verify command, a linter or a checked path proves about the work is outside the program.

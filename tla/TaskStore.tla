----------------------------- MODULE TaskStore -----------------------------
(* The task store of plugins/tasks/hooks/lib/task-store.mjs as the CLI         *)
(* (cli/task.mjs) drives it.  Every command is a process of its own that       *)
(* reads .ai/tasks/active.json, edits its private copy and renames a           *)
(* temporary file over the original, so one command is several steps and the   *)
(* steps of two agents' commands interleave: there is no lock.  A process can  *)
(* die between any two of its steps.                                           *)
EXTENDS Integers, Sequences, FiniteSets

CONSTANTS
  Agents,      \* Claude Code sessions running `claude-gates task ...`
  Ids,         \* task ids
  NoOwner,     \* a task nobody claimed
  NoDate,      \* a claim written before claimedAt existed
  NoTask,      \* what a process that runs no command works on
  TTL,         \* CLAIM_TTL_MS, in clock ticks
  MaxNow,      \* bound of the clock
  MaxCrashes,  \* bound on processes that die half way
  MaxRows,     \* bound on rows in the two files when a new one is added
  ReuseIds     \* whether `task add --id` may name an id already in use

ASSUME ClockAssumption == TTL \in Nat \ {0} /\ MaxNow \in Nat
ASSUME BoundAssumption == MaxCrashes \in Nat /\ MaxRows \in Nat /\ ReuseIds \in BOOLEAN
ASSUME SentinelAssumption == NoOwner \notin Agents /\ NoDate \notin Int

ActiveStatus   == {"open", "blocked", "in_forge"}
TerminalStatus == {"done", "abandoned"}

Date == (0 .. MaxNow) \cup {NoDate}

Task == [id : Ids, status : ActiveStatus \cup TerminalStatus,
         owner : Agents \cup {NoOwner}, claimedAt : Date]

VARIABLES
  active,     \* the tasks of active.json
  history,    \* the tasks of history.json
  job,        \* the command each agent is running
  now,        \* the wall clock
  crashes,    \* processes that died before finishing
  registered, \* every id `task add` reported as recorded
  held        \* what claim, add and release told their callers: who holds an id, since when

files == <<active, history>>
vars  == <<active, history, job, now, crashes, registered, held>>

-----------------------------------------------------------------------------
(* The rows of a collection.                                                  *)

IdsOf(tasks) == {tasks[i].id : i \in DOMAIN tasks}

\* tasks.findIndex((entry) => entry.id === id), for an id that is there
IndexOf(tasks, id) ==
  CHOOSE i \in DOMAIN tasks :
    tasks[i].id = id /\ \A j \in DOMAIN tasks : tasks[j].id = id => i <= j

Find(tasks, id) == tasks[IndexOf(tasks, id)]

\* Mutants: nothing is spliced out; splice(index) without its count takes the rest along.
WithoutSplice(tasks, k) == tasks
WithoutTail(tasks, k)   == SubSeq(tasks, 1, k - 1)

\* tasks.splice(index, 1)
Without(tasks, k) ==
  [i \in 1 .. (Len(tasks) - 1) |-> IF i < k THEN tasks[i] ELSE tasks[i + 1]]

\* The row as its owner claims it, as it is released, as it goes to history.
OwnedBy(task, owner, date) ==
  [id |-> task.id, status |-> task.status, owner |-> owner, claimedAt |-> date]

ClosedAs(task, status) ==
  [id |-> task.id, status |-> status, owner |-> task.owner, claimedAt |-> task.claimedAt]

\* A date still inside the claim window; a claim with no date is honoured.
Current(date) == date = NoDate \/ (date \in Int /\ now - date < TTL)

\* Mutant: a claim written before claimedAt existed counts as expired.
ClaimIsDated(task) == task.owner # NoOwner /\ task.claimedAt # NoDate /\ Current(task.claimedAt)

ClaimIsLive(task) == task.owner # NoOwner /\ Current(task.claimedAt)

-----------------------------------------------------------------------------
(* What a running command holds in memory: the copy of active.json it will    *)
(* write (rest), the copy of history.json (log), and what it is doing.        *)

Steps == {"idle", "claim", "close", "readHistory", "writeHistory", "writeActive"}
Ops   == {"none", "add", "update", "claim", "release", "close"}

Idle == [step |-> "idle", op |-> "none", task |-> NoTask, rest |-> <<>>, log |-> <<>>]

Running(a) == job[a].step # "idle"

\* What a fresh project holds, or one with a task claimed before claimedAt existed.
LegacyTask(id, a) == [id |-> id, status |-> "open", owner |-> a, claimedAt |-> NoDate]

Init ==
  /\ active \in {<<>>} \cup {<<LegacyTask(id, a)>> : id \in Ids, a \in Agents}
  /\ history = <<>>
  /\ job = [a \in Agents |-> Idle]
  /\ now = 0
  /\ crashes = 0
  /\ registered = IdsOf(active)
  /\ held = {[id |-> active[i].id, by |-> active[i].owner, since |-> NoDate] : i \in DOMAIN active}

Begin(a, step, op, task, rest) ==
  /\ ~Running(a)
  /\ job' = [job EXCEPT ![a] = [step |-> step, op |-> op, task |-> task,
                                rest |-> rest, log |-> <<>>]]

Proceed(a, step, task, rest, log) ==
  job' = [job EXCEPT ![a] = [step |-> step, op |-> job[a].op, task |-> task,
                             rest |-> rest, log |-> log]]

End(a) == job' = [job EXCEPT ![a] = Idle]

\* task add: reads active.json and appends the new row to the copy.
Add(a, id, owner) ==
  /\ Len(active) + Len(history) < MaxRows
  /\ ReuseIds \/ (id \notin registered /\ \A b \in Agents : job[b].op = "add" => job[b].task.id # id)
  /\ LET task == [id |-> id, status |-> "open", owner |-> owner,
                  claimedAt |-> IF owner = NoOwner THEN NoDate ELSE now]
     IN  Begin(a, "writeActive", "add", task, Append(active, task))
  /\ UNCHANGED <<files, now, crashes, registered, held>>

\* updateTask: reads active.json and merges the fields into the first row with that
\* id; nothing is written when there is none.
Update(a, id, op, Merge(_)) ==
  /\ id \in IdsOf(active)
  /\ LET k == IndexOf(active, id)
         task == Merge(active[k])
     IN  Begin(a, "writeActive", op, task, [active EXCEPT ![k] = task])
  /\ UNCHANGED <<files, now, crashes, registered, held>>

\* Mutants: the owner and the date change places; the date stays behind.
ReleaseSwapped(a, id)   == Update(a, id, "release", LAMBDA t : OwnedBy(t, NoDate, NoOwner))
ReleaseKeepsDate(a, id) == Update(a, id, "release", LAMBDA t : OwnedBy(t, NoOwner, t.claimedAt))

Block(a, id)          == Update(a, id, "update", LAMBDA t : [t EXCEPT !.status = "blocked"])
Unblock(a, id)        == Update(a, id, "update", LAMBDA t : [t EXCEPT !.status = "open"])
PromoteToForge(a, id) == Update(a, id, "update", LAMBDA t : [t EXCEPT !.status = "in_forge"])
Release(a, id)        == Update(a, id, "release", LAMBDA t : OwnedBy(t, NoOwner, NoDate))

\* claimTask, its own read: refused only when another agent's claim is live.
ClaimCheck(a, id) ==
  /\ id \in IdsOf(active)
  /\ LET task == Find(active, id)
     IN  /\ ClaimIsLive(task) => task.owner = a
         /\ Begin(a, "claim", "claim", OwnedBy(task, a, now), <<>>)
  /\ UNCHANGED <<files, now, crashes, registered, held>>

\* claimTask, the second read, inside updateTask: the row is looked up again and
\* overwritten whatever it says by now.  When it is gone the command still succeeds
\* and prints `null`.
ClaimRead(a) ==
  /\ job[a].step = "claim"
  /\ LET id == job[a].task.id IN
     IF id \in IdsOf(active)
     THEN LET k == IndexOf(active, id)
              task == OwnedBy(active[k], a, job[a].task.claimedAt)
          IN  Proceed(a, "writeActive", task, [active EXCEPT ![k] = task], <<>>)
     ELSE End(a)
  /\ UNCHANGED <<files, now, crashes, registered, held>>

\* task close and task abandon: the evidence (none for abandon) is verified before the
\* store is opened, so nothing read so far is used afterwards.
Close(a, id, status) ==
  /\ Begin(a, "close", "close",
           [id |-> id, status |-> status, owner |-> NoOwner, claimedAt |-> NoDate], <<>>)
  /\ UNCHANGED <<files, now, crashes, registered, held>>

\* closeTask: reads active.json and splices the row out of the copy, or fails.
CloseRead(a) ==
  /\ job[a].step = "close"
  /\ LET id == job[a].task.id IN
     IF id \in IdsOf(active)
     THEN LET k == IndexOf(active, id)
              task == ClosedAs(active[k], job[a].task.status)
          IN  Proceed(a, "readHistory", task, Without(active, k), <<>>)
     ELSE End(a)
  /\ UNCHANGED <<files, now, crashes, registered, held>>

\* Mutants: the closed row replaces the history, or goes in at its front.
ReadHistoryFresh(a) ==
  /\ job[a].step = "readHistory"
  /\ Proceed(a, "writeHistory", job[a].task, job[a].rest, <<job[a].task>>)
  /\ UNCHANGED <<files, now, crashes, registered, held>>

ReadHistoryUnshift(a) ==
  /\ job[a].step = "readHistory"
  /\ Proceed(a, "writeHistory", job[a].task, job[a].rest, <<job[a].task>> \o history)
  /\ UNCHANGED <<files, now, crashes, registered, held>>

\* closeTask: reads history.json and pushes the closed row onto the copy.
ReadHistory(a) ==
  /\ job[a].step = "readHistory"
  /\ Proceed(a, "writeHistory", job[a].task, job[a].rest, Append(history, job[a].task))
  /\ UNCHANGED <<files, now, crashes, registered, held>>

\* closeTask: history.json is renamed into place first, active.json after it.
WriteHistory(a) ==
  /\ job[a].step = "writeHistory"
  /\ history' = job[a].log
  /\ Proceed(a, "writeActive", job[a].task, job[a].rest, <<>>)
  /\ UNCHANGED <<active, now, crashes, registered, held>>

\* What the command reports when it ends: an add or a claim leaves the id with its
\* owner, a release or a close takes it from whoever had it.
Reported(task, op) ==
  LET mine == [id |-> task.id, by |-> task.owner, since |-> task.claimedAt]
  IN  CASE op \in {"release", "close"} -> {h \in held : h.id # task.id}
        [] op \in {"add", "claim"} /\ task.owner # NoOwner ->
             {h \in held : h.id # mine.id \/ h.by # mine.by} \cup {mine}
        [] OTHER -> held

\* The last rename of every mutating command.
WriteActive(a) ==
  /\ job[a].step = "writeActive"
  /\ active' = job[a].rest
  /\ registered' = IF job[a].op = "add" THEN registered \cup {job[a].task.id} ELSE registered
  /\ held' = Reported(job[a].task, job[a].op)
  /\ End(a)
  /\ UNCHANGED <<history, now, crashes>>

\* The process dies, or a rename throws: its private copies are gone.
Crash(a) ==
  /\ Running(a)
  /\ crashes < MaxCrashes
  /\ crashes' = crashes + 1
  /\ End(a)
  /\ UNCHANGED <<files, now, registered, held>>

Tick ==
  /\ now < MaxNow
  /\ now' = now + 1
  /\ UNCHANGED <<files, job, crashes, registered, held>>

Command(a) ==
  \/ \E id \in Ids :
       \/ \E owner \in {a, NoOwner} : Add(a, id, owner)
       \/ Block(a, id) \/ Unblock(a, id) \/ PromoteToForge(a, id) \/ Release(a, id)
       \/ ClaimCheck(a, id)
       \/ \E status \in TerminalStatus : Close(a, id, status)
  \/ ClaimRead(a) \/ CloseRead(a) \/ ReadHistory(a) \/ WriteHistory(a) \/ WriteActive(a)
  \/ Crash(a)

Next == Tick \/ \E a \in Agents : Command(a)

Spec == Init /\ [][Next]_vars

(* One agent's commands at a time: agents take turns, and a process may still *)
(* die in the middle of its own.                                              *)
OneAtATime == \A a, b \in Agents : Running(a) /\ Running(b) => a = b

SerialNext == Next /\ OneAtATime'

SerialSpec == Init /\ [][SerialNext]_vars

-----------------------------------------------------------------------------
(* Properties.                                                                *)

Job == [step : Steps, op : Ops, task : Task \cup {NoTask},
        rest : Seq(Task), log : Seq(Task)]

\* The files hold sequences of tasks and every command is at a known step.
TypeOK ==
  /\ active \in Seq(Task)
  /\ history \in Seq(Task)
  /\ job \in [Agents -> Job]
  /\ \A a \in Agents : Running(a) => job[a].task \in Task
  /\ now \in 0 .. MaxNow
  /\ crashes \in 0 .. MaxCrashes
  /\ registered \subseteq Ids
  /\ held \subseteq [id : Ids, by : Agents, since : Date]

\* An id that `task add` reported as recorded is in active.json or in history.json
\* ever after: "A task is never deleted" (task-store.mjs:16), whichever command dies
\* at whichever of its steps.
NoTaskLost == registered \subseteq IdsOf(active) \cup IdsOf(history)

\* Why: while commands do not overlap, what a running one is about to write keeps
\* every id of the files but the one being closed, and that one reaches history.json
\* before it leaves active.json.
CarriesOver(j) ==
  /\ IdsOf(active) \subseteq IdsOf(j.rest) \cup (IF j.op = "close" THEN {j.task.id} ELSE {})
  /\ j.op = "add" => j.task.id \in IdsOf(j.rest)
  /\ j.step \in {"readHistory", "writeHistory"} => j.op = "close"
  /\ j.step = "writeHistory" => j.log = Append(history, j.task)
  /\ j.step = "writeActive" /\ j.op = "close" => j.task.id \in IdsOf(history)

SerialInv ==
  /\ NoTaskLost
  /\ OneAtATime
  /\ \A a \in Agents :
       /\ job[a].step = "claim" => job[a].op = "claim"
       /\ job[a].step = "close" => job[a].op = "close"
       /\ job[a].step \in {"readHistory", "writeHistory", "writeActive"} => CarriesOver(job[a])

\* history.json is append-only (task-store.mjs:15): no step changes or drops a row
\* that is there.
IsExtension(old, new) ==
  Len(old) <= Len(new) /\ \A i \in 1 .. Len(old) : new[i] = old[i]

HistoryAppendOnly == [][IsExtension(history, history')]_vars

\* A task is in both files only while a close is between its two renames, or because
\* a process died there.
MovedNotCopied ==
  \A id \in IdsOf(active) \cap IdsOf(history) :
     \/ crashes > 0
     \/ \E a \in Agents : job[a].step = "writeActive" /\ job[a].op = "close" /\ job[a].task.id = id

\* Each repeated history row of a task is paid for by a process that died between
\* the two renames of a close.
HistoryRows(id) == {i \in DOMAIN history : history[i].id = id}

DuplicatesNeedCrashes ==
  \A id \in Ids : Cardinality(HistoryRows(id)) <= 1 + crashes

\* What a caller was told stays true: while its claim is inside the window and the
\* task is active, the first row of that id names it as owner. Nobody takes a task
\* from an agent whose claim is live ("Refused ONLY when another agent holds a live
\* claim", task-store.mjs:230).
HolderIsOwner ==
  \A h \in held :
     Current(h.since) /\ h.id \in IdsOf(active) => Find(active, h.id).owner = h.by

-----------------------------------------------------------------------------
(* The store implements TaskRegistry when commands do not overlap: a task is   *)
(* open as long as active.json has it, so a close takes effect with its second *)
(* rename and one that died before it never happened.                          *)

OpenTask(task) == [status |-> task.status, owner |-> task.owner, claimedAt |-> task.claimedAt]

LastRow(id) == CHOOSE i \in HistoryRows(id) : \A j \in HistoryRows(id) : j <= i

OpenTasks   == [id \in IdsOf(active) |-> OpenTask(Find(active, id))]
ClosedTasks == [id \in IdsOf(history) \ IdsOf(active) |-> history[LastRow(id)].status]

Registry == INSTANCE TaskRegistry WITH open <- OpenTasks, closed <- ClosedTasks

\* No task leaves the two files and a verdict, once the task has left active.json, is
\* final: a close retried after a crash never rewrites the verdict of another one.
NothingForgotten == Registry!NothingForgotten

\* Without overlap every step of the store is a step of the registry or invisible
\* to it: crashed closes and repeated history rows included.
ImplementsRegistry == Registry!Spec

=============================================================================

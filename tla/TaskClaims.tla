----------------------------- MODULE TaskClaims -----------------------------
(* Who a task belongs to, and what that forbids the others.  Two rules answer  *)
(* it: the task store's fixed window (task-store.mjs, claimIsLive) decides      *)
(* whether `task claim` is granted, and the gates' rule, which follows the      *)
(* owner's session (lib/task-claims.mjs), decides whether a task holds a turn   *)
(* open (stop-pending) and whether a file may be written (file-ownership).      *)
(*                                                                            *)
(* Task commands are atomic here (TaskStore models their steps); a tool call   *)
(* is judged by its PreToolUse hook first and lands later.  Times are ages in  *)
(* ticks, saturating once both windows have passed.  `newer` and `missed` are   *)
(* history: nothing in the code reads them, only WritePrecedesClaim does.       *)
EXTENDS Integers, FiniteSets

CONSTANTS
  Sessions,   \* Claude Code sessions: a session is an agent
  Untraced,   \* those whose transcript is not where the gates look for it
  Ids, Files,
  Covers,     \* Covers[f]: the files a claim on f reaches (a directory, what is under it)
  NoOwner, NoFile,
  TTL,        \* CLAIM_TTL_MS
  IdleWindow, \* claimIdleMinutes
  AllowStopWithBlocked  \* stop-pending's allowStopWithBlockedTasks

ASSUME WindowAssumption == TTL \in Nat \ {0} /\ IdleWindow \in Nat \ {0}
ASSUME SetAssumption ==
  /\ Untraced \subseteq Sessions
  /\ Covers \in [Files -> SUBSET Files]
  /\ NoOwner \notin Sessions /\ NoFile \notin Files
  /\ AllowStopWithBlocked \in BOOLEAN

Horizon == IF TTL < IdleWindow THEN IdleWindow ELSE TTL

\* The age of a claim; one without a date has none.
Undated == Horizon + 1

Task == [status : {"open", "blocked", "in_forge"}, owner : Sessions \cup {NoOwner},
         age : 0 .. Undated, owns : SUBSET Files]

VARIABLES
  tasks,    \* active.json: a function from the ids of the active tasks
  quiet,    \* how long since each session's transcript was touched
  alive,    \* the sessions that still run
  writing,  \* the file each session was allowed to write and has not written yet
  spelled,  \* how the tool call names that file: one of Forms
  newer,    \* the tasks others added or claimed since that was allowed
  missed,   \* the others whose transcript was idle when that was allowed
  waiting   \* the sessions a Stop hook made go on

call == <<writing, spelled, newer, missed>>
vars == <<tasks, quiet, alive, call, waiting>>

\* A shell command writes to paths of the project; the write tools send absolute ones.
Forms == {"relative", "absolute"}

-----------------------------------------------------------------------------
(* The two rules.                                                             *)

\* task-store.mjs: live until the window has passed since claimedAt.
StoreLive(t) == t.owner # NoOwner /\ (t.age = Undated \/ t.age < TTL)

\* lib/task-claims.mjs: the owner's transcript says whether it is there; when there is
\* none the age of the claim does.
SessionState(s) ==
  IF s \in Untraced THEN "unknown" ELSE IF quiet[s] < IdleWindow THEN "active" ELSE "gone"

\* Mutant: a claim never dies with its session.
GateLiveForever(t) ==
  t.owner # NoOwner /\ (SessionState(t.owner) = "unknown" => t.age = Undated \/ t.age < IdleWindow)

GateLive(t) ==
  /\ t.owner # NoOwner
  /\ SessionState(t.owner) # "gone"
  /\ SessionState(t.owner) = "unknown" => t.age = Undated \/ t.age < IdleWindow

BlocksCaller(t, s) == GateLive(t) => t.owner = s

\* claimTask: refused only when another agent's claim is live.
ClaimGranted(t, s) == StoreLive(t) => t.owner = s

\* Mutant: only open tasks are looked at.
OpenClaimants(f, s) ==
  {id \in DOMAIN tasks :
     /\ tasks[id].status = "open" /\ ~BlocksCaller(tasks[id], s)
     /\ \E o \in tasks[id].owns : f \in Covers[o]}

\* file-ownership: the claims on f that are not the caller's.
Claimants(f, s) ==
  {id \in DOMAIN tasks :
     ~BlocksCaller(tasks[id], s) /\ \E o \in tasks[id].owns : f \in Covers[o]}

\* stop-pending: the tasks that hold the caller's turn open.
Pending(s) ==
  {id \in DOMAIN tasks :
     /\ BlocksCaller(tasks[id], s)
     /\ tasks[id].status = "blocked" => ~AllowStopWithBlocked}

-----------------------------------------------------------------------------
Init ==
  /\ tasks \in [{} -> Task] \cup
       UNION {[{id} -> {[status |-> "open", owner |-> s, age |-> Undated, owns |-> {}] :
                         s \in Sessions}] : id \in Ids}
  /\ quiet \in [Sessions -> {0, Horizon}]
  /\ alive = {s \in Sessions : quiet[s] = 0}
  /\ writing = [s \in Sessions |-> NoFile]
  /\ spelled = [s \in Sessions |-> "relative"]
  /\ newer = [s \in Sessions |-> {}]
  /\ missed = [s \in Sessions |-> {}]
  /\ waiting = {}

\* Claude Code touches the session's transcript at every turn.
Turn(s) ==
  /\ s \in alive
  /\ quiet' = [quiet EXCEPT ![s] = 0]

Working == UNCHANGED <<alive, call, waiting>>

\* The task is s's from now on, also where others' writes are on their way.
Taken(s, id) ==
  /\ newer' = [o \in Sessions |-> IF o = s \/ writing[o] = NoFile THEN newer[o] ELSE newer[o] \cup {id}]
  /\ UNCHANGED <<alive, writing, spelled, missed, waiting>>

With(id, t) == [i \in DOMAIN tasks \cup {id} |-> IF i = id THEN t ELSE tasks[i]]

\* task add --owns, by an agent for itself.
Add(s, id, owns) ==
  /\ Turn(s)
  /\ id \notin DOMAIN tasks
  /\ tasks' = With(id, [status |-> "open", owner |-> s, age |-> 0, owns |-> owns])
  /\ Taken(s, id)

\* Mutant: the claim stores when it expires, not when it was made.
ClaimWithExpiry(s, id) ==
  /\ Turn(s)
  /\ id \in DOMAIN tasks
  /\ ClaimGranted(tasks[id], s)
  /\ tasks' = [tasks EXCEPT ![id].owner = s, ![id].age = 0 - TTL]
  /\ Taken(s, id)

Claim(s, id) ==
  /\ Turn(s)
  /\ id \in DOMAIN tasks
  /\ ClaimGranted(tasks[id], s)
  /\ tasks' = [tasks EXCEPT ![id].owner = s, ![id].age = 0]
  /\ Taken(s, id)

\* task release takes the task from whoever has it: the command does not ask who runs it.
Release(s, id) ==
  /\ Turn(s)
  /\ id \in DOMAIN tasks
  /\ tasks' = [tasks EXCEPT ![id].owner = NoOwner, ![id].age = Undated]
  /\ Working

\* task block, unblock and promote.
SetStatus(s, id, status) ==
  /\ Turn(s)
  /\ id \in DOMAIN tasks
  /\ tasks' = [tasks EXCEPT ![id].status = status]
  /\ Working

\* task close and task abandon, by anyone.
Close(s, id) ==
  /\ Turn(s)
  /\ id \in DOMAIN tasks
  /\ tasks' = [i \in DOMAIN tasks \ {id} |-> tasks[i]]
  /\ Working

-----------------------------------------------------------------------------
(* Tool calls.                                                                *)

\* projectRelative joins the root and the path and takes it back off: a path that was
\* absolute already becomes one that no claim names.
Judged(f, form) == IF form = "relative" THEN f ELSE NoFile

\* PreToolUse of a write: file-ownership allows it.
BeginWrite(s, f, form) ==
  /\ Turn(s)
  /\ writing[s] = NoFile
  /\ Judged(f, form) # NoFile => Claimants(Judged(f, form), s) = {}
  /\ writing' = [writing EXCEPT ![s] = f]
  /\ spelled' = [spelled EXCEPT ![s] = form]
  /\ missed' = [missed EXCEPT ![s] = {o \in Sessions \ {s} : SessionState(o) = "gone"}]
  /\ UNCHANGED <<tasks, alive, newer, waiting>>

\* The call is over.
Forget(s) ==
  /\ writing' = [writing EXCEPT ![s] = NoFile]
  /\ spelled' = [spelled EXCEPT ![s] = "relative"]
  /\ newer' = [newer EXCEPT ![s] = {}]
  /\ missed' = [missed EXCEPT ![s] = {}]

\* The tool writes the file.
EndWrite(s) ==
  /\ Turn(s)
  /\ writing[s] # NoFile
  /\ Forget(s)
  /\ UNCHANGED <<tasks, alive, waiting>>

\* The Stop hook makes the session go on, once: runStopHook lets the next attempt pass.
StopRefused(s) ==
  /\ Turn(s)
  /\ writing[s] = NoFile
  /\ s \notin waiting
  /\ Pending(s) # {}
  /\ waiting' = waiting \cup {s}
  /\ UNCHANGED <<tasks, alive, call>>

StopAllowed(s) ==
  /\ Turn(s)
  /\ writing[s] = NoFile
  /\ s \in waiting \/ Pending(s) = {}
  /\ waiting' = waiting \ {s}
  /\ alive' = alive \ {s}
  /\ UNCHANGED <<tasks, call>>

\* The session is killed, or the machine restarts; nothing releases its claims.
Die(s) ==
  /\ s \in alive
  /\ alive' = alive \ {s}
  /\ Forget(s)
  /\ waiting' = waiting \ {s}
  /\ UNCHANGED <<tasks, quiet>>

\* The user sends another message, or resumes the session.
Resume(s) ==
  /\ s \notin alive
  /\ alive' = alive \cup {s}
  /\ quiet' = [quiet EXCEPT ![s] = 0]
  /\ UNCHANGED <<tasks, call, waiting>>

Older(age) == IF age < Horizon THEN age + 1 ELSE age

\* Time passes for claims and for sessions that wait on a long command or on the user.
Tick ==
  /\ tasks' = [id \in DOMAIN tasks |-> [tasks[id] EXCEPT !.age = Older(@)]]
  /\ quiet' = [s \in Sessions |-> Older(quiet[s])]
  /\ UNCHANGED <<alive, call, waiting>>

Next ==
  \/ Tick
  \/ \E s \in Sessions :
       \/ \E id \in Ids :
            \/ \E owns \in SUBSET Files : Add(s, id, owns)
            \/ Claim(s, id) \/ Release(s, id) \/ Close(s, id)
            \/ \E status \in {"open", "blocked", "in_forge"} : SetStatus(s, id, status)
       \/ \E f \in Files, form \in Forms : BeginWrite(s, f, form)
       \/ EndWrite(s) \/ StopRefused(s) \/ StopAllowed(s) \/ Die(s) \/ Resume(s)

\* The clock does not stop.
Spec == Init /\ [][Next]_vars /\ WF_vars(Tick)

-----------------------------------------------------------------------------
(* Properties.                                                                *)

\* Tasks, ages and tool calls have the shape the code gives them.
TypeOK ==
  /\ DOMAIN tasks \subseteq Ids /\ tasks \in [DOMAIN tasks -> Task]
  /\ quiet \in [Sessions -> 0 .. Horizon]
  /\ alive \subseteq Sessions
  /\ writing \in [Sessions -> Files \cup {NoFile}]
  /\ spelled \in [Sessions -> Forms]
  /\ newer \in [Sessions -> SUBSET Ids]
  /\ missed \in [Sessions -> SUBSET Sessions]
  /\ waiting \subseteq Sessions

\* Another agent's live claim reaches the file.
ClaimedByAnother(id, f, s) ==
  /\ GateLive(tasks[id])
  /\ tasks[id].owner # s
  /\ \E o \in tasks[id].owns : f \in Covers[o]

\* A write of a path that is relative to the project, about to land on a file another
\* agent's live claim reaches, was allowed before that claim was made, or when its owner's
\* transcript was idle: whatever the task's status and whatever happened since, nobody
\* writes over a claim that held when file-ownership judged ("a write to a file another
\* agent has actively claimed", file-ownership:1-18).  Both exceptions are exact: the gate
\* judges before the tool writes, so it cannot see a claim that is not made yet.  Absolute
\* paths are excepted because the gate does miss every claim for them (Judged).
WritePrecedesClaim ==
  \A s \in Sessions, id \in DOMAIN tasks :
    writing[s] # NoFile /\ spelled[s] = "relative" /\ ClaimedByAnother(id, writing[s], s) =>
       id \in newer[s] \/ tasks[id].owner \in missed[s]

\* "A claim dies with its SESSION" (lib/task-claims.mjs:24): once its owner is gone for
\* good, a dated claim stops exempting others, and in the end the store grants the
\* task to whoever asks.
DeadClaimFrees ==
  \A id \in Ids, s \in Sessions :
    (id \in DOMAIN tasks /\ tasks[id].owner = s /\ tasks[id].age # Undated /\ s \notin alive)
      ~> \/ s \in alive \/ id \notin DOMAIN tasks
         \/ tasks[id].owner # s \/ tasks[id].age = Undated
         \/ ~GateLive(tasks[id]) /\ ~StoreLive(tasks[id])

=============================================================================

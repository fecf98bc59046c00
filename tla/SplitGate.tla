----------------------------- MODULE SplitGate -----------------------------
(* require-task-split judging a tool call while task commands run.  The hook   *)
(* reads active.json once, then history.json for each large task it found      *)
(* without sub-tasks, and the store may rename either file between two reads.  *)
EXTENDS TaskStore

CONSTANTS
  NoParent,
  ParentOf,   \* ParentOf[id]: the --parent a task is added with
  Exempt,     \* the ids added with --size small or trivial
  IdleWindow  \* claimIdleMinutes, in clock ticks

ASSUME SplitAssumption ==
  /\ NoParent \notin Ids
  /\ ParentOf \in [Ids -> Ids \cup {NoParent}]
  /\ Exempt \subseteq Ids
  /\ IdleWindow \in Nat \ {0}

VARIABLE gate  \* the hook that judges a tool call

gateVars == <<gate, vars>>

Quiet == [step |-> "idle", todo |-> {}, unsplit |-> {}, split |-> {}]

IsChildOf(id, tasks) == \E child \in IdsOf(tasks) : ParentOf[child] = id

\* lib/task-claims.mjs, with the owner's transcript in any state.
GateLive(task, state) ==
  /\ task.owner # NoOwner
  /\ state[task.owner] # "gone"
  /\ state[task.owner] = "unknown" =>
       task.claimedAt = NoDate \/ (task.claimedAt \in Int /\ now - task.claimedAt < IdleWindow)

\* What unsplitLargeTasks keeps before it looks for children in history.
IsLarge(task) ==
  /\ task.status \in {"open", "in_forge"}
  /\ ParentOf[task.id] = NoParent
  /\ task.id \notin Exempt

GateInit == Init /\ gate = Quiet

\* The hook of a's tool call starts and reads active.json.
GateReadActive(a) ==
  /\ gate.step = "idle"
  /\ \E state \in [Agents -> {"active", "gone", "unknown"}] :
       gate' = [step    |-> "judge",
                todo    |-> {active[k].id : k \in {i \in DOMAIN active :
                               /\ IsLarge(active[i])
                               /\ GateLive(active[i], state) => active[i].owner = a
                               /\ ~IsChildOf(active[i].id, active)}},
                unsplit |-> {},
                split   |-> {id \in Ids : IsChildOf(id, active) \/ IsChildOf(id, history)}]
  /\ UNCHANGED vars

\* Mutant: active.json is read a second time, history.json never.
HasOpenChild(id) == IsChildOf(id, active)

HasClosedChild(id) == IsChildOf(id, history)

\* hasChildren reads history.json for one task at a time.
GateReadHistory(id) ==
  /\ gate.step = "judge"
  /\ id \in gate.todo
  /\ gate' = [step    |-> "judge",
              todo    |-> gate.todo \ {id},
              unsplit |-> gate.unsplit \cup {i \in {id} : ~HasClosedChild(i)},
              split   |-> gate.split]
  /\ UNCHANGED vars

\* Denied when a task is left unsplit, allowed otherwise; the process ends.
GateDecide ==
  /\ gate.step = "judge"
  /\ gate.todo = {}
  /\ gate' = Quiet
  /\ UNCHANGED vars

GateNext ==
  \/ SerialNext /\ UNCHANGED gate
  \/ \E a \in Agents : GateReadActive(a)
  \/ \E id \in Ids : GateReadHistory(id)
  \/ GateDecide

GateSpec == GateInit /\ [][GateNext]_gateVars

-----------------------------------------------------------------------------
(* Properties.                                                                *)

\* "A task that WAS split stays split" (require-task-split:52): a task that had a
\* recorded sub-task, active or closed, when the hook started is never denied as
\* unsplit, even when the sub-task is closed between the hook's two reads.
SplitStaysSplit == gate.unsplit \cap gate.split = {}

=============================================================================

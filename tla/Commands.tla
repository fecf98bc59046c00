------------------------------ MODULE Commands ------------------------------
(* The gates that judge a command or a write before it runs, composed, on the *)
(* calls of one session.  require-monitor keeps the session's backgrounds in a *)
(* file that the hooks of calls judged at the same time read and write; the    *)
(* others only look at the call.  An agent whose call was denied does what the *)
(* denials say and sends it again.                                             *)
EXTENDS Integers, FiniteSets

CONSTANTS
  Actors,      \* who may have a call judged at the same time: agents, parallel calls
  Mains,       \* those of them whose transcript is the main agent's
  Wishes,      \* the calls an agent may want to make
  ForgeStarts, \* how forge may stand with the project at first
  EnabledSets, \* the configurations: which gates are on
  FailingSets, \* which gates may throw on one call
  MaxPending,  \* require-monitor's MAX_PENDING
  MaxUnwatched \* bound: backgrounds nobody watches

-----------------------------------------------------------------------------
(* Vocabulary.                                                                *)

\* The gates whose denial leaves the call to the user.
UserGates == {"bash-commands", "block-remote-publish", "protected-paths"}

Gates == UserGates \cup {"require-monitor", "no-blocking", "root-whitelist", "forge-flow"}

Tools == {"shell", "write", "delegation"}

\* What the gates may find in a call.  "background": run_in_background; "plan": the Monitor
\* marker with a reason; "waits": a foreground segment that blocks; "rehearses": a push with
\* --dry-run; "new entry": resolved against the hook's directory, a root entry that does not
\* exist and is not whitelisted; "elsewhere": an absolute `cd` before it; "relative cd";
\* "looks": read-only or the toolkit's own remedy; "stale marker": another phase's marker.
Findable == {"background", "plan", "waits", "justified", "destroys", "publishes", "rehearses",
             "protected", "new entry", "elsewhere", "relative cd", "looks", "stale marker"}

Calls == [tool : Tools, finds : SUBSET Findable]

\* How forge stands with the project: its database may be unreadable.
ForgeStates == {"not adopted", "no run", "active", "unknown"}

ASSUME BoundsAssumption == MaxPending \in Nat \ {0} /\ MaxUnwatched \in Nat

ASSUME InputsAssumption ==
  /\ Wishes \subseteq Calls /\ ForgeStarts \subseteq ForgeStates
  /\ \A gates \in EnabledSets : gates \subseteq Gates

Acts(c) == c.tool \in {"shell", "write"}

Starts(c) == c.tool = "shell" /\ "background" \in c.finds

-----------------------------------------------------------------------------
(* The verdicts, one operator per gate.                                       *)

WaitDenies(c) ==
  c.tool # "write" /\ "waits" \in c.finds /\ c.finds \cap {"background", "justified"} = {}

DestroyDenies(c) == c.tool # "write" /\ "destroys" \in c.finds

\* Mutant: one rehearsal exempts the whole command.
PublishDeniesUnlessRehearsed(c) ==
  c.tool # "write" /\ "publishes" \in c.finds /\ "rehearses" \notin c.finds

\* A shell command is judged segment by segment; a prompt that orders a rehearsal orders a push.
PublishDenies(c) ==
  \/ c.tool # "write" /\ "publishes" \in c.finds
  \/ c.tool = "delegation" /\ "rehearses" \in c.finds

ProtectedDenies(c) == Acts(c) /\ "protected" \in c.finds

\* shellTargetsOf is called without a directory: a relative `cd` makes it throw, and an
\* absolute one does not change what the targets are resolved against.
RootDenies(c) == Acts(c) /\ c.finds \cap {"new entry", "relative cd"} # {}

Diagnoses(c) == c.tool = "shell" /\ "looks" \in c.finds

ForgeDenies(a, c, state) ==
  /\ ~Diagnoses(c)
  /\ \/ state = "no run" /\ Acts(c)
     \/ state = "active" /\ c.tool = "delegation" /\ "stale marker" \in c.finds
     \/ state = "active" /\ Acts(c) /\ a \in Mains

\* n backgrounds were pending when the file was read.
MonitorDenies(c, n) ==
  \/ Starts(c) /\ "plan" \notin c.finds
  \/ Acts(c) /\ ~Starts(c) /\ n > 0

Denies(g, a, c, n, state) ==
  \/ g = "require-monitor"      /\ MonitorDenies(c, n)
  \/ g = "no-blocking"          /\ WaitDenies(c)
  \/ g = "bash-commands"        /\ DestroyDenies(c)
  \/ g = "block-remote-publish" /\ PublishDenies(c)
  \/ g = "protected-paths"      /\ ProtectedDenies(c)
  \/ g = "root-whitelist"       /\ RootDenies(c)
  \/ g = "forge-flow"           /\ ForgeDenies(a, c, state)

-----------------------------------------------------------------------------
VARIABLES
  enabled,   \* the gates that are on
  forge,     \* how forge stands
  call,      \* each actor's call as it stands
  stage,     \* where it is: "sent", "read", "denied", "ran", "handed over"
  watching,  \* the actor makes a Monitor call before its own
  seen,      \* how many backgrounds its require-monitor hook found pending, while it runs
  denied,    \* the gates whose denial it still has to answer
  pending,   \* the length of the session's list of backgrounds; only it decides anything
  unwatched, \* backgrounds that run and have no Monitor
  lost       \* history: an entry was dropped, by the cap or by a write over an unread list

vars == <<enabled, forge, call, stage, watching, seen, denied, pending, unwatched, lost>>

Active(a) == stage[a] \in {"sent", "read", "denied"}

Init ==
  /\ enabled \in EnabledSets /\ forge \in ForgeStarts
  /\ call \in [Actors -> Wishes] /\ stage = [a \in Actors |-> "sent"]
  /\ watching = [a \in Actors |-> FALSE]
  /\ seen = [a \in Actors |-> 0] /\ denied = [a \in Actors |-> {}]
  /\ pending = 0 /\ unwatched = 0 /\ lost = FALSE

\* An agent that has nothing under way makes another call.
Want(a) ==
  /\ ~Active(a)
  /\ unwatched + Cardinality({b \in Actors : Active(b)}) < MaxUnwatched
  /\ stage' = [stage EXCEPT ![a] = "sent"]
  /\ \E wish \in Wishes : call' = [call EXCEPT ![a] = wish]
  /\ UNCHANGED <<enabled, forge, watching, seen, denied, pending, unwatched, lost>>

\* Its hook reads the list (a delegation's reads nothing).
Read(a) ==
  /\ stage[a] = "sent"
  /\ stage' = [stage EXCEPT ![a] = "read"]
  /\ seen' = [seen EXCEPT ![a] = pending]
  /\ UNCHANGED <<enabled, forge, call, watching, denied, pending, unwatched, lost>>

\* The hook writes what it computed from the list it read.
Writes(a, n) ==
  /\ pending' = n
  /\ lost' = (lost \/ seen[a] # pending)

\* Mutant: a Monitor clears nothing.
ClearsNothing(n) == n

\* Mutant: a Monitor clears the list.
ClearsAll(n) == 0

\* A Monitor clears the oldest entry, whatever it observes.
Cleared(n) == IF n > 0 THEN n - 1 ELSE 0

\* Mutant: the list grows for ever.
AddedUncapped(n) == n + 1

\* slice(-MAX_PENDING).
Added(n) == IF n < MaxPending THEN n + 1 ELSE MaxPending

\* The actor's Monitor call: it observes a background nobody watched, if there is one.
Observe(a) ==
  /\ stage[a] = "read" /\ watching[a]
  /\ stage' = [stage EXCEPT ![a] = "sent"]
  /\ watching' = [watching EXCEPT ![a] = FALSE]
  /\ IF "require-monitor" \in enabled /\ seen[a] > 0 THEN Writes(a, Cleared(seen[a]))
     ELSE UNCHANGED <<pending, lost>>
  /\ unwatched' = IF unwatched > 0 THEN unwatched - 1 ELSE 0
  /\ seen' = [seen EXCEPT ![a] = 0]
  /\ UNCHANGED <<enabled, forge, call, denied>>

\* A Monitor call whose require-monitor hook throws is denied: it blocks like the others.
ObserveFails(a, failing) ==
  /\ stage[a] = "read" /\ watching[a] /\ "require-monitor" \in enabled \cap failing
  /\ stage' = [stage EXCEPT ![a] = "sent"]
  /\ seen' = [seen EXCEPT ![a] = 0]
  /\ UNCHANGED <<enabled, forge, call, watching, denied, pending, unwatched, lost>>

\* Every gate judges the call, some may throw, which blocks it.  A planned background is
\* recorded whatever the others decide.
Judge(a, failing) ==
  LET c        == call[a]
      throws   == failing \cap enabled
      denials  == {g \in enabled \ throws : Denies(g, a, c, seen[a], forge)}
      runs     == denials \cup throws = {}
      recorded == Starts(c) /\ "plan" \in c.finds /\ "require-monitor" \in enabled \ throws
  IN  /\ stage[a] = "read" /\ ~watching[a]
      /\ stage' = [stage EXCEPT ![a] = IF runs THEN "ran" ELSE "denied"]
      /\ denied' = [denied EXCEPT ![a] = denials]
      /\ seen' = [seen EXCEPT ![a] = 0]
      /\ IF recorded
         THEN /\ pending' = Added(seen[a])
              /\ lost' = (lost \/ seen[a] # pending \/ seen[a] = MaxPending)
         ELSE UNCHANGED <<pending, lost>>
      /\ unwatched' = IF runs /\ Starts(c) THEN unwatched + 1 ELSE unwatched
      /\ UNCHANGED <<enabled, forge, call, watching>>

-----------------------------------------------------------------------------
(* The agent answers one of the denials and sends the call again.             *)

Answers(a, g) ==
  /\ stage[a] = "denied" /\ g \in denied[a]
  /\ denied' = [denied EXCEPT ![a] = {}]
  /\ UNCHANGED <<enabled, seen, pending, unwatched, lost>>

Resends(a) == stage' = [stage EXCEPT ![a] = "sent"]

Rewrites(a, finds) ==
  /\ Resends(a) /\ call' = [call EXCEPT ![a].finds = finds]
  /\ UNCHANGED <<forge, watching>>

HandsOver(a) ==
  /\ stage' = [stage EXCEPT ![a] = "handed over"]
  /\ UNCHANGED <<forge, call, watching>>

PlanMonitor(a) ==
  /\ Answers(a, "require-monitor")
  /\ IF Starts(call[a]) THEN Rewrites(a, call[a].finds \cup {"plan"})
     ELSE /\ Resends(a) /\ watching' = [watching EXCEPT ![a] = TRUE]
          /\ UNCHANGED <<forge, call>>

StopWaiting(a) ==
  /\ Answers(a, "no-blocking")
  /\ \E way \in {"background", "justified"} : Rewrites(a, call[a].finds \cup {way})

\* "Use git stash": another command does it, or the user is asked.
SpareTheFiles(a) ==
  /\ Answers(a, "bash-commands")
  /\ Rewrites(a, call[a].finds \ {"destroys"}) \/ HandsOver(a)

AskTheUser(a) ==
  /\ \E g \in {"block-remote-publish", "protected-paths"} : Answers(a, g)
  /\ HandsOver(a)

\* "Put it inside an existing folder"; of a relative `cd` the denial says nothing.
MoveInside(a) ==
  /\ Answers(a, "root-whitelist")
  /\ Rewrites(a, call[a].finds \ {"new entry", "relative cd"})

\* forge_start; or forge_next gives the new marker; or the phase's own subagent does it.
FollowForge(a) ==
  /\ Answers(a, "forge-flow")
  /\ \/ /\ forge = "no run" /\ forge' = "active"
        /\ Resends(a) /\ UNCHANGED <<call, watching>>
     \/ /\ forge = "active" /\ call[a].tool = "delegation"
        /\ Rewrites(a, call[a].finds \ {"stale marker"})
     \/ /\ forge = "active" /\ Acts(call[a])
        /\ HandsOver(a)

\* Only a gate that threw blocked it.
TryAgain(a) ==
  /\ stage[a] = "denied" /\ denied[a] = {}
  /\ Resends(a)
  /\ UNCHANGED <<enabled, forge, call, watching, seen, denied, pending, unwatched, lost>>

Obey(a) ==
  \/ PlanMonitor(a) \/ StopWaiting(a) \/ SpareTheFiles(a) \/ AskTheUser(a)
  \/ MoveInside(a) \/ FollowForge(a) \/ TryAgain(a)

\* A background ends by itself; its entry stays.
BackgroundEnds ==
  /\ unwatched > 0 /\ unwatched' = unwatched - 1
  /\ UNCHANGED <<enabled, forge, call, stage, watching, seen, denied, pending, lost>>

Next ==
  \/ BackgroundEnds
  \/ \E a \in Actors :
       \/ Want(a) \/ Read(a) \/ Observe(a) \/ Obey(a)
       \/ \E failing \in FailingSets : Judge(a, failing) \/ ObserveFails(a, failing)

Spec == Init /\ [][Next]_vars

\* Hooks are run, a denied agent answers, and no gate throws for ever.
FairSpec ==
  /\ Spec
  /\ \A a \in Actors :
       /\ WF_vars(Read(a)) /\ SF_vars(Observe(a)) /\ SF_vars(Judge(a, {}))
       /\ WF_vars(Obey(a))

-----------------------------------------------------------------------------
(* Properties.                                                                *)

TypeOK ==
  /\ enabled \subseteq Gates /\ forge \in ForgeStates
  /\ call \in [Actors -> Calls]
  /\ stage \in [Actors -> {"sent", "read", "denied", "ran", "handed over"}]
  /\ watching \in [Actors -> BOOLEAN]
  /\ seen \in [Actors -> 0 .. MaxPending] /\ denied \in [Actors -> SUBSET Gates]
  /\ pending \in 0 .. MaxPending /\ unwatched \in Nat /\ lost \in BOOLEAN

\* However a call was denied, rewritten and sent again, and whichever gate threw on the way,
\* what only the user may do is not run by an agent, nor ordered of one, while its gate is on
\* (the denials' texts; runGate blocks what it cannot evaluate, hook-io:618-624).
HarmNeverRuns ==
  \A a \in Actors : stage[a] = "ran" =>
    LET c == call[a]
    IN  /\ "bash-commands" \in enabled /\ c.tool # "write" => "destroys" \notin c.finds
        /\ "block-remote-publish" \in enabled /\ c.tool # "write" => "publishes" \notin c.finds
        /\ "protected-paths" \in enabled /\ Acts(c) => "protected" \notin c.finds

\* "An unmonitored background is invisible work" (require-monitor:94-99): every background
\* that runs unwatched has an entry, as long as no entry was lost to the cap or to two hooks
\* that read the same list.
NothingForgotten ==
  "require-monitor" \in enabled /\ ~lost => unwatched <= pending

\* "NO GATE MAY DENY A READ-ONLY COMMAND", nor "THIS TOOLKIT'S OWN REMEDY"
\* (gate-invariants.test:12-17).
LookingIsFree ==
  \A a \in Actors : stage[a] = "denied" /\ Diagnoses(call[a]) => denied[a] = {}

\* Denials prescribe their own way out: unless backgrounds are launched for ever, an agent
\* that answers them gets its call through or hands it over, entries of backgrounds that
\* were never started or have ended included.
NobodyIsStranded ==
  \/ \A a \in Actors : Active(a) ~> ~Active(a)
  \/ []<>(\E a \in Actors : stage[a] = "read" /\ Starts(call[a]) /\ "plan" \in call[a].finds)

=============================================================================

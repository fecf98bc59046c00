---------------------------- MODULE ConfigLayers ----------------------------
(* Which gates are on: the two config.json files, the commands that rewrite    *)
(* them (`claude-gates init`, `enable`, `disable`) and the hooks that read     *)
(* them.  A command reads the file, computes, may prompt or spawn gates for    *)
(* their defaults, and rewrites the file in place: truncated, then filled.     *)
(* Commands overlap, and may be killed between any two steps.                  *)
EXTENDS Naturals

CONSTANTS
  Gates,      \* the config keys of the registry
  DefaultOn,  \* those the registry turns on
  WithParams, \* those that declare params
  Commands,   \* the processes that may run at once
  Orders,     \* the command lines that may be given
  Edits,      \* the entries a user may write by hand
  Files,      \* the files found at the start, and what a broken one is repaired to
  Marked,     \* the directory holds .git or .ai without a config of its own
  HomeMarked, \* the home directory does
  MaxActs     \* how many commands and edits the user starts

-----------------------------------------------------------------------------
(* Vocabulary.                                                                *)

\* An entry of `gates`: a boolean, an object (`enabled` may be missing), or anything else.
\* `on` of an object is "on" for any `enabled` but false.  `params` says whether it carries
\* parameters, as the gate prints them or edited.
Entry == {entry \in [form : {"absent", "flag", "object", "other"}, on : {"on", "off", "unset"},
                     params : {"none", "built-in", "edited"}] :
            /\ entry.form # "object" => entry.params = "none"
            /\ entry.form \in {"absent", "other"} => entry.on = "unset"
            /\ entry.form = "flag" => entry.on # "unset"}

Absent     == [form |-> "absent", on |-> "unset", params |-> "none"]
Flag(on)   == [form |-> "flag", on |-> on, params |-> "none"]
Object(on, params) == [form |-> "object", on |-> on, params |-> params]

Adoptions == {"none", "no", "partial", "yes"}

File == [text : {"absent", "torn", "json"}, gates : [Gates -> Entry], adopted : Adoptions]

NoFile == [text |-> "absent", gates |-> [g \in Gates |-> Absent], adopted |-> "none"]

Scopes == {"project", "global"}

\* `home` is a .ai/config.json in the home directory: hooks climb to it, commands never do.
Layers == Scopes \cup {"home"}

\* An order names a scope.  `picks` are the gates it names, whole families included; a toggle
\* names them too.
Order == [does : {"enable", "disable", "all", "none", "defaults", "picked", "new"},
          scope : Scopes, picks : SUBSET Gates, force : BOOLEAN, prompts : BOOLEAN]

Toggles(order) == order.does \in {"enable", "disable"}

ASSUME InputsAssumption ==
  /\ DefaultOn \subseteq Gates /\ WithParams \subseteq Gates /\ MaxActs \in Nat
  /\ Files \subseteq File /\ Edits \subseteq Entry /\ Orders \subseteq Order
  /\ HomeMarked \in BOOLEAN

VARIABLES
  files,    \* the config.json of each layer
  run,      \* each command's progress
  briefing, \* the gates CLAUDE.md lists, by scope
  word,     \* what the project was last told about each gate
  raced,    \* the project's file was written over another content than the one read
  acts      \* commands and edits so far

vars == <<files, run, briefing, word, raced, acts>>

OnOff(b) == IF b THEN "on" ELSE "off"

Declared(entry) == entry.form # "absent"

Readable(layer) == files[layer].text = "json"

-----------------------------------------------------------------------------
(* What the hooks enforce: lib/config.mjs.                                    *)

\* The nearest directory with a marker, home included; none, and only the global file is left.
ProjectLayer ==
  IF Marked \/ files["project"].text # "absent" THEN {"project"}
  ELSE IF HomeMarked \/ files["home"].text # "absent" THEN {"home"}
  ELSE {}

\* The first layer that can be read; a broken project file counts as absent.
GatesLayer ==
  IF \E l \in ProjectLayer : Readable(l) THEN ProjectLayer
  ELSE IF Readable("global") THEN {"global"}
  ELSE {}

\* The gate's entry in that layer, unless it is neither boolean nor object.
GateEntryOf(g) ==
  {entry \in {files[l].gates[g] : l \in GatesLayer} : entry.form \in {"flag", "object"}}

\* Mutant: an object must say `enabled: true`.
IsEnabledOutright(g) ==
  IF GateEntryOf(g) = {} THEN g \in DefaultOn ELSE \A entry \in GateEntryOf(g) : entry.on = "on"

\* No entry, or one without `enabled`, leaves the gate to the registry.
IsEnabled(g) ==
  LET said == {entry \in GateEntryOf(g) : entry.on # "unset"}
  IN  IF said = {} THEN g \in DefaultOn ELSE \A entry \in said : entry.on # "off"

Enforced == {g \in Gates : IsEnabled(g)}

-----------------------------------------------------------------------------
(* What the commands make of an entry and of the layers: toggle.mjs, and two   *)
(* more readings of an entry in init.mjs and claude-md.mjs.                    *)

EnabledOf(g, entry) ==
  CASE entry.form = "flag"   -> entry.on = "on"
    [] entry.form = "object" -> IF entry.on = "unset" THEN g \in DefaultOn ELSE entry.on # "off"
    [] OTHER                 -> g \in DefaultOn

\* effectiveLayer: the file of the directory, if it can be read, or the global one, or none.
EffectiveGates(dir) ==
  IF Readable(dir) THEN files[dir].gates
  ELSE IF Readable("global") THEN files["global"].gates
  ELSE [g \in Gates |-> Absent]

\* The gates that `claude-gates status` shows as on, given in the project or in the home
\* directory; findProjectRoot never climbs from the one to the other.
Status(dir) == {g \in Gates : EnabledOf(g, EffectiveGates(dir)[g])}

\* enabledOfEntry: an object without `enabled` is on.
CountsAsOn(g, entry) ==
  CASE entry.form = "flag"   -> entry.on = "on"
    [] entry.form = "object" -> entry.on # "off"
    [] OTHER                 -> g \in DefaultOn

\* enabledGates of CLAUDE.md's block: so is an entry that is neither boolean nor object.
IsBriefed(g, entry) ==
  CASE entry.form = "absent" -> g \in DefaultOn
    [] entry.form = "flag"   -> entry.on = "on"
    [] OTHER                 -> entry.on # "off"

-----------------------------------------------------------------------------
(* What a command makes of the file it read.                                  *)

\* Mutant: the mode's name, where a reader expects an adoption.
AdoptionAsMode(on) == IF on = Gates THEN "all" ELSE "partial"

Adoption(on) == IF on = {} THEN "no" ELSE IF on = Gates THEN "yes" ELSE "partial"

\* An existing object keeps its params, edited or not; defaults are spawned for otherwise.
Kept(entry) == IF entry.params = "none" THEN "built-in" ELSE entry.params

\* Mutant: a toggle writes the gate's defaults again.
ToggledAfresh(g, entry, on) == IF g \in WithParams THEN Object(on, "built-in") ELSE Flag(on)

Toggled(g, entry, on) ==
  IF entry.form = "object" THEN [entry EXCEPT !.on = on]
  ELSE IF g \in WithParams THEN Object(on, "built-in") ELSE Flag(on)

AfterToggle(seen, order) ==
  LET gates == [g \in Gates |-> IF g \in order.picks
                                THEN Toggled(g, seen.gates[g], OnOff(order.does = "enable"))
                                ELSE seen.gates[g]]
  IN  [text |-> "json", gates |-> gates, adopted |-> Adoption({g \in Gates : EnabledOf(g, gates[g])})]

Wanted(does, picks) ==
  CASE does = "all"      -> Gates
    [] does = "none"     -> {}
    [] does = "defaults" -> DefaultOn
    [] OTHER             -> picks

Named(does, picks) ==
  CASE does \in {"all", "none"} -> Gates
    [] does = "defaults"        -> {}
    [] OTHER                    -> picks

\* A gate in the file that the run does not name is carried over verbatim.
Materialized(g, entry, order) ==
  LET on == OnOff(g \in Wanted(order.does, order.picks))
  IN  IF Declared(entry) /\ g \notin Named(order.does, order.picks) THEN entry
      ELSE IF g \in WithParams THEN Object(on, Kept(entry)) ELSE Flag(on)

\* enabledStateOf: an unset `enabled` is a state of its own, "default".
WouldChange(seen, order) ==
  {g \in Gates : Declared(seen.gates[g])
                 /\ Materialized(g, seen.gates[g], order).on # seen.gates[g].on}

\* Mutant: everything planned is applied.
ApprovesAll(seen, order) == {WouldChange(seen, order)}

\* What may be applied of it: all when forced, what the user leaves checked, else nothing.
Approvals(seen, order) ==
  IF order.force THEN {WouldChange(seen, order)}
  ELSE IF order.prompts THEN SUBSET WouldChange(seen, order)
  ELSE {{}}

\* materializeGates with what was not approved reverted, merged over the file (mergeGate).
Merged(g, entry, order, reverted) ==
  IF g \in reverted THEN entry ELSE Materialized(g, entry, order)

AfterInit(seen, order, reverted) ==
  LET gates == [g \in Gates |-> Merged(g, seen.gates[g], order, reverted)]
  IN  [text |-> "json", gates |-> gates,
       adopted |-> Adoption({g \in Gates : CountsAsOn(g, gates[g])})]

\* The gates that the file has never decided about.  A file that cannot be read decided nothing.
NewGates(file) == {g \in Gates : ~Declared(file.gates[g]) \/ file.text # "json"}

-----------------------------------------------------------------------------
(* The steps.                                                                 *)

Idle == [step |-> "idle"]

\* What a file says outright.
Words(file) == [g \in Gates |-> IF file.text = "json" THEN file.gates[g].on ELSE "unset"]

Init ==
  /\ files \in [Layers -> Files]
  /\ files["home"].text = "absent" \/ HomeMarked
  /\ run = [c \in Commands |-> Idle]
  /\ briefing = [s \in Scopes |-> {}]
  /\ word = Words(files["project"])
  /\ raced = FALSE
  /\ acts = 0

Acts == acts < MaxActs /\ acts' = acts + 1

Runs(c, progress) == run' = [run EXCEPT ![c] = progress]

Writing(order, seen, next, approved) ==
  [step |-> "write", order |-> order, seen |-> seen, next |-> next, approved |-> approved]

\* `enable` and `disable` read the file, refuse a broken one, and compute at once.
Toggle(c, order) ==
  LET seen == files[order.scope] IN
  /\ run[c].step = "idle" /\ Toggles(order)
  /\ seen.text # "torn"
  /\ Runs(c, Writing(order, seen, AfterToggle(seen, order), {}))
  /\ Acts
  /\ UNCHANGED <<files, briefing, word, raced>>

\* The scope of a toggle given without --project and --global.
DefaultScope ==
  IF files["project"].text # "absent" \/ files["global"].text = "absent" THEN "project" ELSE "global"

ToggleDefault(c, order) == order.scope = DefaultScope /\ Toggle(c, order)

\* init settles its scope, mode and picks.  For "only what is new" it looks at the file now: a
\* scripted run takes the new gates that are on by default, a prompted one any; with nothing new
\* it ends.
Decide(c, order) ==
  LET fresh == NewGates(files[order.scope]) IN
  /\ run[c].step = "idle" /\ ~Toggles(order)
  /\ \E picks \in IF order.does # "new" THEN {order.picks}
                   ELSE IF order.prompts THEN SUBSET fresh ELSE {fresh \cap DefaultOn} :
       Runs(c, [step |-> "decided", order |-> [order EXCEPT !.picks = picks]])
  /\ order.does = "new" => fresh # {}
  /\ Acts
  /\ UNCHANGED <<files, briefing, word, raced>>

\* runInit reads the file (a second time, for "only what is new"), refuses a broken one, and
\* settles what changes; the prompts keep it waiting, and it writes from this read.
Settle(c) ==
  LET order == run[c].order  seen == files[run[c].order.scope] IN
  /\ run[c].step = "decided"
  /\ IF seen.text = "torn" THEN Runs(c, Idle)
     ELSE \E approved \in Approvals(seen, order) :
            LET reverted == WouldChange(seen, order) \ approved
            IN  Runs(c, Writing(order, seen, AfterInit(seen, order, reverted), approved))
  /\ UNCHANGED <<files, briefing, word, raced, acts>>

\* --dry-run, a refusal at a prompt, or a kill; in the middle of a write the file stays torn.
Leave(c) ==
  /\ run[c].step # "idle"
  /\ Runs(c, Idle)
  /\ UNCHANGED <<files, briefing, word, raced, acts>>

\* writeFileSync: the file is emptied, then filled.
Truncate(c) ==
  LET scope == run[c].order.scope IN
  /\ run[c].step = "write"
  /\ files' = [files EXCEPT ![scope].text = "torn"]
  /\ raced' = (raced \/ (scope = "project" /\ files[scope] # run[c].seen))
  /\ Runs(c, [run[c] EXCEPT !.step = "fill"])
  /\ UNCHANGED <<briefing, word, acts>>

\* The gates the user answered for in the finished run: those a toggle names, those an init
\* names that the file had not decided, and those whose change was forced or left checked.
Answered(r) ==
  IF Toggles(r.order) THEN r.order.picks
  ELSE {g \in Named(r.order.does, r.order.picks) : ~Declared(r.seen.gates[g])}
         \cup IF r.order.force \/ r.order.prompts THEN r.approved ELSE {}

Fill(c) ==
  LET scope == run[c].order.scope IN
  /\ run[c].step = "fill"
  /\ files' = [files EXCEPT ![scope] = run[c].next]
  /\ word' = IF scope # "project" THEN word
             ELSE [g \in Gates |-> IF g \in Answered(run[c]) THEN run[c].next.gates[g].on ELSE word[g]]
  /\ Runs(c, IF Toggles(run[c].order) THEN Idle ELSE [run[c] EXCEPT !.step = "align"])
  /\ UNCHANGED <<briefing, raced, acts>>

\* init rewrites its block of CLAUDE.md; a failure there is only warned of (Leave).
Align(c) ==
  /\ run[c].step = "align"
  /\ briefing' = [briefing EXCEPT ![run[c].order.scope] =
                    {g \in Gates : IsBriefed(g, run[c].next.gates[g])}]
  /\ Runs(c, Idle)
  /\ UNCHANGED <<files, word, raced, acts>>

\* The user saves the project's config.json with one entry changed.
HandEdit(g, entry) ==
  /\ Readable("project")
  /\ files' = [files EXCEPT !["project"].gates[g] = entry]
  /\ word' = [word EXCEPT ![g] = entry.on]
  /\ Acts
  /\ UNCHANGED <<run, briefing, raced>>

\* The user repairs a broken file, or puts one where there was none.
Replace(file) ==
  /\ ~Readable("project") /\ file.text = "json"
  /\ files' = [files EXCEPT !["project"] = file]
  /\ word' = Words(file)
  /\ raced' = (raced \/ \E c \in Commands : run[c].step = "fill" /\ run[c].order.scope = "project")
  /\ Acts
  /\ UNCHANGED <<run, briefing>>

Next ==
  \/ \E c \in Commands :
       \/ \E order \in Orders : ToggleDefault(c, order) \/ Toggle(c, order) \/ Decide(c, order)
       \/ Settle(c) \/ Truncate(c) \/ Fill(c) \/ Align(c) \/ Leave(c)
  \/ \E g \in Gates, entry \in Edits : HandEdit(g, entry)
  \/ \E file \in Files : Replace(file)

Spec == Init /\ [][Next]_vars

-----------------------------------------------------------------------------
(* Properties.                                                                *)

Progress ==
  {Idle} \cup [step : {"decided"}, order : {order \in Order : ~Toggles(order)}]
         \cup [step : {"write", "fill", "align"}, order : Order, seen : File, next : File,
               approved : SUBSET Gates]

TypeOK ==
  /\ files \in [Layers -> File]
  /\ run \in [Commands -> Progress]
  /\ briefing \in [Scopes -> SUBSET Gates]
  /\ word \in [Gates -> {"on", "off", "unset"}]
  /\ raced \in BOOLEAN
  /\ acts \in 0 .. MaxActs

\* Existing gates change only when the user names them, confirms or forces; "never silently"
\* (init.mjs:296), and an opt-out is never undone by an upgrade (selection.mjs:25): whatever
\* commands, kills, refusals and edits came between, the hooks enforce of a gate what the
\* project was last told of it, as long as its file is whole and no command wrote over a
\* content it had not read.
LastWordStands ==
  ~raced /\ Readable("project") =>
    \A g \in Gates : word[g] # "unset" => (g \in Enforced) = (word[g] = "on")

\* A rerun "never overwrites a whitelist or pattern list the user changed by hand"
\* (cli/config.mjs:110), of a gate that declares params, whatever it does to the gate.
TuningSurvives ==
  \A c \in Commands : run[c].step \in {"write", "fill"} =>
    \A g \in WithParams :
      run[c].seen.gates[g].params = "edited" => run[c].next.gates[g].params = "edited"

\* `claude-gates status` prints what is effective (README.md:350): it and the hooks, which
\* choose the layer and read the entry in code of their own, agree on every gate, at every
\* moment, for missing, broken and half-written files.  Where the hooks climb to the home
\* directory it is the status given there that tells what they enforce in the project.
StatusIsEnforced ==
  Enforced = Status(IF ProjectLayer = {"home"} THEN "home" ELSE "project")

=============================================================================

------------------------ MODULE ConfigLayers_proofs -------------------------
(* For any gates, files, commands and edits: the states keep their types, no   *)
(* rewrite loses parameters a user edited, and the project's file says of a    *)
(* gate what it was last told while no command writes over what it never read. *)
EXTENDS ConfigLayers, TLAPS

-----------------------------------------------------------------------------
(* What the commands compute is an entry, and a file.                         *)

\* A flag and an object that say on or off are well-formed entries.
LEMMA EntriesMade ==
  ASSUME NEW on \in {"on", "off"}, NEW params \in {"none", "built-in", "edited"}
  PROVE  Flag(on) \in Entry /\ Object(on, params) \in Entry
BY DEF Flag, Object, Entry

\* A toggle makes an entry of an entry.
LEMMA ToggledType ==
  ASSUME NEW g, NEW entry \in Entry, NEW on \in {"on", "off"}
  PROVE  Toggled(g, entry, on) \in Entry /\ Toggled(g, entry, on).on = on
<1>1. CASE entry.form = "object"
  BY <1>1 DEF Toggled, Entry
<1>2. CASE entry.form # "object"
  BY <1>2, EntriesMade DEF Toggled, Flag, Object
<1> QED
  BY <1>1, <1>2

\* So does a run of init.
LEMMA MaterializedType ==
  ASSUME NEW g, NEW entry \in Entry, NEW order \in Order
  PROVE  Materialized(g, entry, order) \in Entry
<1>1. OnOff(g \in Wanted(order.does, order.picks)) \in {"on", "off"}
  BY DEF OnOff
<1>2. Kept(entry) \in {"none", "built-in", "edited"}
  BY DEF Kept, Entry
<1>3. Flag(OnOff(g \in Wanted(order.does, order.picks))) \in Entry
  BY <1>1, EntriesMade
<1>4. Object(OnOff(g \in Wanted(order.does, order.picks)), Kept(entry)) \in Entry
  BY <1>1, <1>2, EntriesMade
<1> QED
  BY <1>3, <1>4 DEF Materialized

\* What a toggle writes is a file that can be read.
LEMMA AfterToggleType ==
  ASSUME NEW seen \in File, NEW order \in Order
  PROVE  AfterToggle(seen, order) \in File /\ AfterToggle(seen, order).text = "json"
<1> DEFINE gates == [g \in Gates |-> IF g \in order.picks
                                     THEN Toggled(g, seen.gates[g], OnOff(order.does = "enable"))
                                     ELSE seen.gates[g]]
<1>1. \A g \in Gates : seen.gates[g] \in Entry
  BY DEF File
<1>2. OnOff(order.does = "enable") \in {"on", "off"}
  BY DEF OnOff
<1>3. gates \in [Gates -> Entry]
  BY <1>1, <1>2, ToggledType
<1>4. Adoption({g \in Gates : EnabledOf(g, gates[g])}) \in Adoptions
  BY DEF Adoption, Adoptions
<1> HIDE DEF gates
<1>5. [text |-> "json", gates |-> gates, adopted |-> Adoption({g \in Gates : EnabledOf(g, gates[g])})] \in File
  BY <1>3, <1>4 DEF File
<1> QED
  BY <1>5 DEF AfterToggle, gates

\* So is what init writes.
LEMMA AfterInitType ==
  ASSUME NEW seen \in File, NEW order \in Order, NEW reverted
  PROVE  AfterInit(seen, order, reverted) \in File /\ AfterInit(seen, order, reverted).text = "json"
<1> DEFINE gates == [g \in Gates |-> Merged(g, seen.gates[g], order, reverted)]
<1>1. \A g \in Gates : seen.gates[g] \in Entry
  BY DEF File
<1>2. gates \in [Gates -> Entry]
  BY <1>1, MaterializedType DEF Merged
<1>3. Adoption({g \in Gates : CountsAsOn(g, gates[g])}) \in Adoptions
  BY DEF Adoption, Adoptions
<1> HIDE DEF gates
<1>4. [text |-> "json", gates |-> gates, adopted |-> Adoption({g \in Gates : CountsAsOn(g, gates[g])})] \in File
  BY <1>2, <1>3 DEF File
<1> QED
  BY <1>4 DEF AfterInit, gates

\* What is approved of a run is a set of gates.
LEMMA ApprovalsType ==
  ASSUME NEW seen, NEW order, NEW approved \in Approvals(seen, order)
  PROVE  approved \subseteq WouldChange(seen, order) /\ approved \subseteq Gates
BY DEF Approvals, WouldChange

-----------------------------------------------------------------------------
(* Types.                                                                     *)

\* Every variable keeps its type.
THEOREM TypeCorrect == Spec => []TypeOK
<1>1. Init => TypeOK
  <2> SUFFICES ASSUME Init PROVE TypeOK
    OBVIOUS
  <2>1. files \in [Layers -> File]
    BY InputsAssumption DEF Init
  <2>2. files["project"] \in File
    BY <2>1 DEF Layers, Scopes
  <2>3. word \in [Gates -> {"on", "off", "unset"}]
    BY <2>2 DEF Init, Words, File, Entry
  <2>4. run \in [Commands -> Progress]
    BY DEF Init, Progress
  <2>5. briefing \in [Scopes -> SUBSET Gates] /\ raced \in BOOLEAN
    BY DEF Init
  <2>6. acts \in 0 .. MaxActs
    BY InputsAssumption DEF Init
  <2> QED
    BY <2>1, <2>3, <2>4, <2>5, <2>6 DEF TypeOK
<1>2. TypeOK /\ [Next]_vars => TypeOK'
  <2> SUFFICES ASSUME TypeOK, [Next]_vars PROVE TypeOK'
    OBVIOUS
  <2> USE DEF TypeOK
  <2>0. \A l \in Layers : files[l] \in File
    OBVIOUS
  <2>1. ASSUME NEW c \in Commands, NEW order \in Orders, Toggle(c, order) PROVE TypeOK'
    <3>1. order \in Order /\ files[order.scope] \in File
      BY InputsAssumption DEF Order, Layers, Scopes
    <3>2. AfterToggle(files[order.scope], order) \in File
      BY <3>1, AfterToggleType
    <3>3. Writing(order, files[order.scope], AfterToggle(files[order.scope], order), {}) \in Progress
      BY <3>1, <3>2 DEF Writing, Progress
    <3> QED
      BY <2>1, <3>3, InputsAssumption DEF Toggle, Runs, Acts
  <2>2. ASSUME NEW c \in Commands, NEW order \in Orders, Decide(c, order) PROVE TypeOK'
    <3>1. order \in Order
      BY InputsAssumption
    <3>2. PICK picks \in SUBSET Gates :
            Runs(c, [step |-> "decided", order |-> [order EXCEPT !.picks = picks]])
      BY <2>2, <3>1 DEF Decide, NewGates, Order
    <3>3. [order EXCEPT !.picks = picks] \in Order /\ ~Toggles([order EXCEPT !.picks = picks])
      BY <2>2, <3>1 DEF Order, Decide, Toggles
    <3>4. [step |-> "decided", order |-> [order EXCEPT !.picks = picks]] \in Progress
      BY <3>3 DEF Progress
    <3> QED
      BY <2>2, <3>2, <3>4, InputsAssumption DEF Decide, Runs, Acts
  <2>3. ASSUME NEW c \in Commands, Settle(c) PROVE TypeOK'
    <3> DEFINE order == run[c].order
               seen == files[order.scope]
    <3>1. run[c] \in [step : {"decided"}, order : {given \in Order : ~Toggles(given)}]
      BY <2>3 DEF Settle, Progress, Idle
    <3>2. order \in Order /\ seen \in File
      BY <3>1 DEF Order, Layers, Scopes
    <3>3. CASE seen.text = "torn"
      BY <2>3, <3>3 DEF Settle, Runs, Progress
    <3>4. CASE seen.text # "torn"
      <4>1. PICK approved \in Approvals(seen, order) :
              Runs(c, Writing(order, seen, AfterInit(seen, order, WouldChange(seen, order) \ approved), approved))
        BY <2>3, <3>4 DEF Settle
      <4> HIDE DEF order, seen
      <4>2. Writing(order, seen, AfterInit(seen, order, WouldChange(seen, order) \ approved), approved) \in Progress
        BY <3>2, AfterInitType, ApprovalsType DEF Writing, Progress
      <4>3. run' \in [Commands -> Progress]
        BY <4>1, <4>2 DEF Runs
      <4> QED
        BY <2>3, <4>3 DEF Settle
    <3> QED
      BY <3>3, <3>4
  <2>4. ASSUME NEW c \in Commands, Leave(c) PROVE TypeOK'
    BY <2>4 DEF Leave, Runs, Progress
  <2>5. ASSUME NEW c \in Commands, Truncate(c) PROVE TypeOK'
    <3>1. run[c] \in [step : {"write", "fill", "align"}, order : Order, seen : File, next : File,
                      approved : SUBSET Gates]
      BY <2>5 DEF Truncate, Progress, Idle
    <3>2. [run[c] EXCEPT !.step = "fill"] \in Progress
      BY <3>1 DEF Progress
    <3>3. run[c].order.scope \in Layers
      BY <3>1 DEF Order, Layers, Scopes
    <3>4. [files[run[c].order.scope] EXCEPT !.text = "torn"] \in File
      BY <3>3 DEF File
    <3>5. files' \in [Layers -> File]
      BY <2>5, <3>3, <3>4 DEF Truncate
    <3>6. raced' \in BOOLEAN
      BY <2>5 DEF Truncate
    <3> QED
      BY <2>5, <3>2, <3>5, <3>6 DEF Truncate, Runs
  <2>6. ASSUME NEW c \in Commands, Fill(c) PROVE TypeOK'
    <3>1. run[c] \in [step : {"write", "fill", "align"}, order : Order, seen : File, next : File,
                      approved : SUBSET Gates]
      BY <2>6 DEF Fill, Progress, Idle
    <3>2. [run[c] EXCEPT !.step = "align"] \in Progress /\ Idle \in Progress
      BY <3>1 DEF Progress
    <3>3. files' \in [Layers -> File]
      BY <2>6, <3>1 DEF Fill
    <3>4. \A g \in Gates : run[c].next.gates[g].on \in {"on", "off", "unset"}
      BY <3>1 DEF File, Entry
    <3>5. word' \in [Gates -> {"on", "off", "unset"}]
      BY <2>6, <3>4 DEF Fill
    <3>6. run' \in [Commands -> Progress]
      BY <2>6, <3>2 DEF Fill, Runs
    <3> QED
      BY <2>6, <3>3, <3>5, <3>6 DEF Fill
  <2>7. ASSUME NEW c \in Commands, Align(c) PROVE TypeOK'
    BY <2>7 DEF Align, Runs, Progress
  <2>8. ASSUME NEW g \in Gates, NEW entry \in Edits, HandEdit(g, entry) PROVE TypeOK'
    <3>1. entry \in Entry /\ entry.on \in {"on", "off", "unset"}
      BY InputsAssumption DEF Entry
    <3>2. [files["project"] EXCEPT !.gates[g] = entry] \in File
      BY <3>1 DEF File, Layers, Scopes
    <3>3. files' \in [Layers -> File]
      BY <2>8, <3>2 DEF HandEdit
    <3> QED
      BY <2>8, <3>1, <3>3, InputsAssumption DEF HandEdit, Acts
  <2>9. ASSUME NEW file \in Files, Replace(file) PROVE TypeOK'
    <3>1. file \in File
      BY InputsAssumption
    <3>2. Words(file) \in [Gates -> {"on", "off", "unset"}]
      BY <3>1 DEF Words, File, Entry
    <3>3. raced' \in BOOLEAN
      BY <2>9 DEF Replace
    <3>4. files' \in [Layers -> File] /\ run' = run /\ briefing' = briefing
      BY <2>9, <3>1 DEF Replace
    <3>5. acts' \in 0 .. MaxActs
      BY <2>9, InputsAssumption DEF Replace, Acts
    <3>6. word' \in [Gates -> {"on", "off", "unset"}]
      BY <2>9, <3>2 DEF Replace
    <3> QED
      BY <3>3, <3>4, <3>5, <3>6
  <2>10. CASE UNCHANGED vars
    BY <2>10 DEF vars
  <2> QED
    BY <2>1, <2>2, <2>3, <2>4, <2>5, <2>6, <2>7, <2>8, <2>9, <2>10 DEF Next, ToggleDefault
<1> QED
  BY <1>1, <1>2, PTL DEF Spec

-----------------------------------------------------------------------------
(* What a rewrite keeps.                                                      *)

\* Every rewrite on its way is computed from the content it was read with: each gate that the
\* user did not answer for keeps what the file said outright, each answered one is set, and
\* parameters a user edited stay.
Rewrites(r) ==
  /\ r.seen.text # "torn"
  /\ \A g \in Gates :
       /\ g \in Answered(r) => r.next.gates[g].on \in {"on", "off"}
       /\ g \notin Answered(r) /\ r.seen.gates[g].on # "unset" =>
            r.next.gates[g].on = r.seen.gates[g].on
       /\ r.seen.gates[g].params = "edited" /\ g \in WithParams => r.next.gates[g].params = "edited"

Rewriting == \A c \in Commands : run[c].step \in {"write", "fill"} => Rewrites(run[c])

\* A toggle's rewrite is one.
LEMMA ToggleRewrites ==
  ASSUME NEW seen \in File, seen.text # "torn", NEW order \in Order, Toggles(order)
  PROVE  Rewrites(Writing(order, seen, AfterToggle(seen, order), {}))
<1> DEFINE r == Writing(order, seen, AfterToggle(seen, order), {})
<1>1. Answered(r) = order.picks
  BY DEF Answered, Writing
<1>2. \A g \in Gates : seen.gates[g] \in Entry
  BY DEF File
<1>3. OnOff(order.does = "enable") \in {"on", "off"}
  BY DEF OnOff
<1>4. \A g \in Gates : AfterToggle(seen, order).gates[g]
                       = IF g \in order.picks THEN Toggled(g, seen.gates[g], OnOff(order.does = "enable"))
                         ELSE seen.gates[g]
  BY DEF AfterToggle
<1>5. ASSUME NEW g \in Gates, g \in order.picks
      PROVE  AfterToggle(seen, order).gates[g].on \in {"on", "off"}
  <2>1. Toggled(g, seen.gates[g], OnOff(order.does = "enable")).on = OnOff(order.does = "enable")
    BY <1>2, <1>3, ToggledType
  <2> QED
    BY <1>3, <1>4, <1>5, <2>1
<1>6. ASSUME NEW g \in WithParams \cap Gates, seen.gates[g].params = "edited"
      PROVE  AfterToggle(seen, order).gates[g].params = "edited"
  <2>1. seen.gates[g].form = "object"
    BY <1>2, <1>6 DEF Entry
  <2> QED
    BY <1>2, <1>4, <1>6, <2>1 DEF Toggled, Entry
<1>7. r.seen = seen /\ r.next = AfterToggle(seen, order)
  BY DEF Writing
<1> HIDE DEF r
<1>8. Rewrites(r)
  BY <1>1, <1>4, <1>5, <1>6, <1>7 DEF Rewrites
<1> QED
  BY <1>8 DEF r

\* An entry the run decides about is set, and keeps the parameters a user edited.
LEMMA MaterializedSays ==
  ASSUME NEW g, NEW entry \in Entry, NEW order
  PROVE  /\ ~Declared(entry) \/ g \in Named(order.does, order.picks) =>
              Materialized(g, entry, order).on \in {"on", "off"}
         /\ g \in WithParams /\ entry.params = "edited" =>
              Materialized(g, entry, order).params = "edited"
<1> DEFINE on == OnOff(g \in Wanted(order.does, order.picks))
<1>1. on \in {"on", "off"}
  BY DEF OnOff
<1>2. Materialized(g, entry, order) = IF Declared(entry) /\ g \notin Named(order.does, order.picks) THEN entry
                                      ELSE IF g \in WithParams THEN Object(on, Kept(entry)) ELSE Flag(on)
  BY DEF Materialized
<1> HIDE DEF on
<1> QED
  BY <1>1, <1>2 DEF Kept, Object, Flag

\* So is init's, with whatever was approved.
LEMMA InitRewrites ==
  ASSUME NEW seen \in File, seen.text # "torn", NEW order \in Order, ~Toggles(order),
         NEW approved \in Approvals(seen, order)
  PROVE  Rewrites(Writing(order, seen, AfterInit(seen, order, WouldChange(seen, order) \ approved), approved))
<1> DEFINE reverted == WouldChange(seen, order) \ approved
           next == AfterInit(seen, order, reverted)
           r == Writing(order, seen, next, approved)
<1>1. \A g \in Gates : seen.gates[g] \in Entry
  BY DEF File
<1>2. Answered(r) = {g \in Named(order.does, order.picks) : ~Declared(seen.gates[g])}
                      \cup IF order.force \/ order.prompts THEN approved ELSE {}
  BY DEF Answered, Writing
<1>3. \A g \in Gates : next.gates[g] = Merged(g, seen.gates[g], order, reverted)
  BY DEF AfterInit
<1>4. approved \subseteq WouldChange(seen, order) /\ (~order.force /\ ~order.prompts => approved = {})
  BY DEF Approvals
<1>5. r.seen = seen /\ r.next = next
  BY DEF Writing
<1> HIDE DEF next, r
<1>6. ASSUME NEW g \in Gates, g \in Answered(r) PROVE next.gates[g].on \in {"on", "off"}
  <2>1. g \notin reverted
    BY <1>2, <1>6 DEF WouldChange
  <2>2. ~Declared(seen.gates[g]) \/ g \in Named(order.does, order.picks)
    <3>1. CASE ~Declared(seen.gates[g])
      BY <3>1
    <3>2. CASE Declared(seen.gates[g])
      <4>1. g \in WouldChange(seen, order)
        BY <1>2, <1>4, <1>6, <3>2
      <4> QED
        BY <4>1 DEF WouldChange, Materialized
    <3> QED
      BY <3>1, <3>2
  <2> QED
    BY <1>1, <1>3, <2>1, <2>2, MaterializedSays DEF Merged
<1>7. ASSUME NEW g \in Gates, g \notin Answered(r), seen.gates[g].on # "unset"
      PROVE  next.gates[g].on = seen.gates[g].on
  <2>1. Declared(seen.gates[g])
    BY <1>1, <1>7 DEF Declared, Entry
  <2>2. g \notin approved
    BY <1>2, <1>4, <1>7
  <2>3. CASE g \in reverted
    BY <1>3, <2>3 DEF Merged
  <2>4. CASE g \notin reverted
    BY <1>3, <2>1, <2>2, <2>4 DEF Merged, WouldChange
  <2> QED
    BY <2>3, <2>4
<1>8. ASSUME NEW g \in Gates, g \in WithParams, seen.gates[g].params = "edited"
      PROVE  next.gates[g].params = "edited"
  BY <1>1, <1>3, <1>8, MaterializedSays DEF Merged
<1>9. Rewrites(r)
  BY <1>5, <1>6, <1>7, <1>8 DEF Rewrites
<1> QED
  BY <1>9 DEF r, next

\* Each step leaves every rewrite on its way as its command computed it.
LEMMA RewritingKept == TypeOK /\ Rewriting /\ [Next]_vars => Rewriting'
<1> SUFFICES ASSUME TypeOK, Rewriting, [Next]_vars PROVE Rewriting'
  OBVIOUS
<1> USE DEF TypeOK
<1>1. ASSUME NEW c \in Commands, NEW order \in Orders, Toggle(c, order) PROVE Rewriting'
  <2>1. order \in Order /\ files[order.scope] \in File
    BY InputsAssumption DEF Order, Layers, Scopes
  <2>2. Rewrites(Writing(order, files[order.scope], AfterToggle(files[order.scope], order), {}))
    BY <1>1, <2>1, ToggleRewrites DEF Toggle
  <2> QED
    BY <1>1, <2>2 DEF Toggle, Runs, Rewriting
<1>2. ASSUME NEW c \in Commands, NEW order \in Orders, Decide(c, order) PROVE Rewriting'
  <2>1. PICK picks : Runs(c, [step |-> "decided", order |-> [order EXCEPT !.picks = picks]])
    BY <1>2 DEF Decide
  <2> QED
    BY <2>1 DEF Runs, Rewriting
<1>3. ASSUME NEW c \in Commands, Settle(c) PROVE Rewriting'
  <2> DEFINE order == run[c].order
             seen == files[order.scope]
  <2>1. run[c] \in [step : {"decided"}, order : {given \in Order : ~Toggles(given)}]
    BY <1>3 DEF Settle, Progress, Idle
  <2>2. order \in Order /\ ~Toggles(order) /\ seen \in File
    BY <2>1 DEF Order, Layers, Scopes
  <2>3. CASE seen.text = "torn"
    BY <1>3, <2>3 DEF Settle, Runs, Rewriting, Idle
  <2>4. CASE seen.text # "torn"
    <3>1. PICK approved \in Approvals(seen, order) :
            Runs(c, Writing(order, seen, AfterInit(seen, order, WouldChange(seen, order) \ approved), approved))
      BY <1>3, <2>4 DEF Settle
    <3> HIDE DEF order, seen
    <3>2. Rewrites(Writing(order, seen, AfterInit(seen, order, WouldChange(seen, order) \ approved), approved))
      BY <2>2, <2>4, InitRewrites
    <3> QED
      BY <3>1, <3>2 DEF Runs, Rewriting
  <2> QED
    BY <2>3, <2>4
<1>4. ASSUME NEW c \in Commands, Truncate(c) PROVE Rewriting'
  <2>1. run[c] \in [step : {"write", "fill", "align"}, order : Order, seen : File, next : File,
                    approved : SUBSET Gates]
    BY <1>4 DEF Truncate, Progress, Idle
  <2>2. Rewrites([run[c] EXCEPT !.step = "fill"])
    BY <1>4, <2>1 DEF Truncate, Rewriting, Rewrites, Answered
  <2> QED
    BY <1>4, <2>2 DEF Truncate, Runs, Rewriting
<1>5. ASSUME NEW c \in Commands, Fill(c) PROVE Rewriting'
  <2>1. run[c] \in [step : {"write", "fill", "align"}, order : Order, seen : File, next : File,
                    approved : SUBSET Gates]
    BY <1>5 DEF Fill, Progress, Idle
  <2>2. Idle.step = "idle" /\ [run[c] EXCEPT !.step = "align"].step = "align"
    BY <2>1 DEF Idle
  <2> QED
    BY <1>5, <2>2 DEF Fill, Runs, Rewriting
<1>6. ASSUME NEW c \in Commands, Align(c) \/ Leave(c) PROVE Rewriting'
  BY <1>6 DEF Align, Leave, Runs, Idle, Rewriting
<1>7. ASSUME run' = run PROVE Rewriting'
  BY <1>7 DEF Rewriting
<1> QED
  BY <1>1, <1>2, <1>3, <1>4, <1>5, <1>6, <1>7 DEF Next, ToggleDefault, HandEdit, Replace, vars

\* Whatever a run of init or of a toggle does to a gate, the parameters a user edited are in
\* what it writes.
THEOREM EditsSurvive == Spec => []TuningSurvives
<1>1. Init => Rewriting
  BY DEF Init, Rewriting, Idle
<1>2. TypeOK /\ Rewriting => TuningSurvives
  BY InputsAssumption DEF Rewriting, Rewrites, TuningSurvives
<1> QED
  BY <1>1, <1>2, RewritingKept, TypeCorrect, PTL DEF Spec

-----------------------------------------------------------------------------
(* The last word.                                                             *)

\* Everything the project was told outright, the file says.
Says(file) == \A g \in Gates : word[g] # "unset" => file.gates[g].on = word[g]

InFill(c) == run[c].step = "fill" /\ run[c].order.scope = "project"

\* While nothing was overwritten unread: the project's file says it, and while a command
\* fills it, what that command read said it and no other is filling it.
Agreed ==
  ~raced =>
    /\ files["project"].text # "torn" => Says(files["project"])
    /\ \A c \in Commands : InFill(c) => files["project"].text = "torn" /\ Says(run[c].seen)
    /\ \A c, d \in Commands : InFill(c) /\ InFill(d) => c = d

\* Each step keeps it.
LEMMA AgreedKept == TypeOK /\ Rewriting /\ Agreed /\ [Next]_vars => Agreed'
<1> SUFFICES ASSUME TypeOK, Rewriting, Agreed, [Next]_vars, ~raced'
             PROVE  /\ files'["project"].text # "torn" => Says(files["project"])'
                    /\ \A c \in Commands : InFill(c)' => files'["project"].text = "torn" /\ Says(run[c].seen)'
                    /\ \A c, d \in Commands : InFill(c)' /\ InFill(d)' => c = d
  BY DEF Agreed
<1> USE DEF TypeOK
<1>0. ~raced
  BY DEF Next, ToggleDefault, Toggle, Decide, Settle, Leave, Truncate, Fill, Align, HandEdit, Replace, vars
<1> DEFINE Quiet == files' = files /\ word' = word
                    /\ \A c \in Commands : InFill(c)' => InFill(c) /\ run'[c].seen = run[c].seen
           Goal == /\ files'["project"].text # "torn" => Says(files["project"])'
                   /\ \A c \in Commands : InFill(c)' => files'["project"].text = "torn" /\ Says(run[c].seen)'
                   /\ \A c, d \in Commands : InFill(c)' /\ InFill(d)' => c = d
<1>1. ASSUME Quiet PROVE Goal
  BY <1>0, <1>1 DEF Agreed, Says
<1>2. ASSUME NEW c \in Commands, NEW order \in Orders, Toggle(c, order) \/ Decide(c, order)
      PROVE  Goal
  <2>1. Quiet
    BY <1>2 DEF Toggle, Decide, Runs, Writing, InFill
  <2> QED
    BY <1>1, <2>1
<1>3. ASSUME NEW c \in Commands, Settle(c) \/ Leave(c) \/ Align(c) PROVE Goal
  <2>1. files' = files /\ word' = word
    BY <1>3 DEF Settle, Leave, Align
  <2>2. CASE run' = [run EXCEPT ![c] = Idle]
    <3>1. Quiet
      BY <2>1, <2>2 DEF Idle, InFill
    <3> QED
      BY <1>1, <3>1
  <2>3. CASE Settle(c) /\ files[run[c].order.scope].text # "torn"
    <3>1. PICK approved \in Approvals(files[run[c].order.scope], run[c].order) :
            Runs(c, Writing(run[c].order, files[run[c].order.scope],
                            AfterInit(files[run[c].order.scope], run[c].order,
                                      WouldChange(files[run[c].order.scope], run[c].order) \ approved),
                            approved))
      BY <2>3 DEF Settle
    <3>2. run'[c].step = "write" /\ \A d \in Commands : d # c => run'[d] = run[d]
      BY <3>1 DEF Runs, Writing
    <3>3. Quiet
      BY <2>1, <3>2 DEF InFill
    <3> QED
      BY <1>1, <3>3
  <2> QED
    BY <1>3, <2>2, <2>3 DEF Settle, Leave, Align, Runs
<1>4. ASSUME NEW c \in Commands, Truncate(c) PROVE Goal
  <2>1. run[c] \in [step : {"write", "fill", "align"}, order : Order, seen : File, next : File,
                    approved : SUBSET Gates]
    BY <1>4 DEF Truncate, Progress, Idle
  <2>2. run' = [run EXCEPT ![c] = [run[c] EXCEPT !.step = "fill"]] /\ word' = word
    BY <1>4 DEF Truncate, Runs
  <2>3. run'[c].seen = run[c].seen /\ run'[c].order = run[c].order /\ run'[c].step = "fill"
    BY <2>1, <2>2
  <2>4. CASE run[c].order.scope = "project"
    <3>1. files["project"] = run[c].seen
      BY <1>4, <2>4 DEF Truncate
    <3>2. run[c].seen.text # "torn"
      BY <1>4 DEF Truncate, Rewriting, Rewrites
    <3>3. \A d \in Commands : ~InFill(d)
      BY <1>0, <3>1, <3>2 DEF Agreed
    <3>4. files'["project"].text = "torn"
      BY <1>4, <2>4 DEF Truncate, File, Layers, Scopes
    <3>5. Says(run[c].seen)
      BY <1>0, <3>1, <3>2 DEF Agreed
    <3>6. \A d \in Commands : InFill(d)' => d = c
      BY <2>2, <3>3 DEF InFill
    <3> QED
      BY <2>2, <2>3, <3>4, <3>5, <3>6 DEF Says
  <2>5. CASE run[c].order.scope # "project"
    <3>1. files'["project"] = files["project"]
      BY <1>4, <2>5 DEF Truncate, Layers, Scopes
    <3>2. \A d \in Commands : InFill(d)' => InFill(d) /\ run'[d].seen = run[d].seen
      BY <2>2, <2>3, <2>5 DEF InFill
    <3> QED
      BY <1>0, <2>2, <3>1, <3>2 DEF Agreed, Says
  <2> QED
    BY <2>4, <2>5
<1>5. ASSUME NEW c \in Commands, Fill(c) PROVE Goal
  <2>1. run[c] \in [step : {"write", "fill", "align"}, order : Order, seen : File, next : File,
                    approved : SUBSET Gates]
    BY <1>5 DEF Fill, Progress, Idle
  <2>2. run'[c].step \in {"idle", "align"} /\ \A d \in Commands : d # c => run'[d] = run[d]
    BY <1>5, <2>1 DEF Fill, Runs, Idle
  <2>3. \A d \in Commands : InFill(d)' => InFill(d) /\ d # c /\ run'[d].seen = run[d].seen
    BY <2>2 DEF InFill
  <2>4. CASE run[c].order.scope = "project"
    <3>1. InFill(c) /\ Says(run[c].seen) /\ \A d \in Commands : InFill(d) => d = c
      BY <1>0, <1>5, <2>4 DEF Agreed, InFill, Fill
    <3>2. Rewrites(run[c])
      BY <1>5 DEF Fill, Rewriting
    <3>3. files'["project"] = run[c].next
      BY <1>5, <2>4 DEF Fill, Layers, Scopes
    <3>4. \A g \in Gates : word'[g] = IF g \in Answered(run[c]) THEN run[c].next.gates[g].on ELSE word[g]
      BY <1>5, <2>4 DEF Fill
    <3>5. Says(files["project"])'
      BY <3>1, <3>2, <3>3, <3>4 DEF Says, Rewrites
    <3> QED
      BY <2>3, <3>1, <3>5
  <2>5. CASE run[c].order.scope # "project"
    <3>1. files'["project"] = files["project"] /\ word' = word
      BY <1>5, <2>5 DEF Fill, Layers, Scopes
    <3> QED
      BY <1>0, <2>3, <3>1 DEF Agreed, Says
  <2> QED
    BY <2>4, <2>5
<1>6. ASSUME NEW g \in Gates, NEW entry \in Edits, HandEdit(g, entry) PROVE Goal
  <2>1. files["project"].text # "torn" /\ run' = run
    BY <1>6 DEF HandEdit, Readable
  <2>2. \A c \in Commands : ~InFill(c)'
    BY <1>0, <2>1 DEF Agreed, InFill
  <2>3. files'["project"] = [files["project"] EXCEPT !.gates[g] = entry] /\ files["project"] \in File
    BY <1>6 DEF HandEdit, Layers, Scopes
  <2>4. Says(files["project"])
    BY <1>0, <2>1 DEF Agreed
  <2>5. Says(files["project"])'
    BY <1>6, <2>3, <2>4 DEF HandEdit, Says, File
  <2> QED
    BY <2>2, <2>5
<1>7. ASSUME NEW file \in Files, Replace(file) PROVE Goal
  <2>1. \A c \in Commands : ~InFill(c)'
    BY <1>7 DEF Replace, InFill
  <2>2. files'["project"] = file /\ word' = Words(file)
    BY <1>7 DEF Replace, Layers, Scopes
  <2>3. Says(files["project"])'
    BY <2>2 DEF Says, Words
  <2> QED
    BY <2>1, <2>3
<1>8. CASE UNCHANGED vars
  <2>1. Quiet
    BY <1>8 DEF vars, InFill
  <2> QED
    BY <1>1, <2>1
<1> QED
  BY <1>2, <1>3, <1>4, <1>5, <1>6, <1>7, <1>8 DEF Next, ToggleDefault

\* A gate the project was told about is as it was last told, in any interleaving of commands,
\* refusals, kills and edits in which no command writes over a content it had not read.
THEOREM LastWord == Spec => []LastWordStands
<1>1. Init => Rewriting /\ Agreed
  BY DEF Init, Rewriting, Agreed, InFill, Says, Words, Idle
<1>2. TypeOK /\ Agreed => LastWordStands
  <2> SUFFICES ASSUME TypeOK, Agreed, ~raced, Readable("project"), NEW g \in Gates, word[g] # "unset"
               PROVE  (g \in Enforced) = (word[g] = "on")
    BY DEF LastWordStands
  <2>1. files["project"].gates[g].on = word[g]
    BY DEF Agreed, Says, Readable
  <2>2. files["project"].gates[g] \in Entry
    BY DEF TypeOK, File, Layers, Scopes
  <2>3. files["project"].gates[g].form \in {"flag", "object"} /\ word[g] \in {"on", "off"}
    BY <2>1, <2>2 DEF Entry, TypeOK
  <2>4. GatesLayer = {"project"}
    BY DEF GatesLayer, ProjectLayer, Readable
  <2>5. GateEntryOf(g) = {files["project"].gates[g]}
    BY <2>3, <2>4 DEF GateEntryOf
  <2>6. IsEnabled(g) <=> word[g] = "on"
    BY <2>1, <2>3, <2>5 DEF IsEnabled
  <2> QED
    BY <2>6 DEF Enforced
<1> QED
  BY <1>1, <1>2, RewritingKept, AgreedKept, TypeCorrect, PTL DEF Spec

-----------------------------------------------------------------------------
(* Status.                                                                    *)

\* The hooks' two steps from an entry to a verdict give what the command's three cases do.
LEMMA SameVerdict ==
  ASSUME NEW g, NEW entry \in Entry, NEW layer, GatesLayer = {layer}, files[layer].gates[g] = entry
  PROVE  IsEnabled(g) <=> EnabledOf(g, entry)
<1>1. CASE entry.form \in {"flag", "object"}
  <2>1. GateEntryOf(g) = {entry}
    BY <1>1 DEF GateEntryOf
  <2>2. entry.on \in {"on", "off", "unset"} /\ (entry.form = "flag" => entry.on # "unset")
    BY DEF Entry
  <2>3. CASE entry.on = "unset"
    BY <1>1, <2>1, <2>2, <2>3 DEF IsEnabled, EnabledOf
  <2>4. CASE entry.on # "unset"
    <3>1. IsEnabled(g) <=> entry.on # "off"
      BY <2>1, <2>4 DEF IsEnabled
    <3> QED
      BY <1>1, <2>2, <2>4, <3>1 DEF EnabledOf
  <2> QED
    BY <2>3, <2>4
<1>2. CASE entry.form \notin {"flag", "object"}
  BY <1>2 DEF GateEntryOf, IsEnabled, EnabledOf
<1> QED
  BY <1>1, <1>2

\* With no file that can be read both leave the gate to the registry.
LEMMA NoLayer ==
  ASSUME NEW g \in Gates, GatesLayer = {}
  PROVE  IsEnabled(g) <=> EnabledOf(g, [k \in Gates |-> Absent][g])
BY DEF GateEntryOf, IsEnabled, EnabledOf, Absent

\* The directory whose status tells what the hooks enforce.
Told == IF ProjectLayer = {"home"} THEN "home" ELSE "project"

\* The layer the hooks choose is the one the command takes its entries from.
LEMMA SameLayer ==
  \/ GatesLayer = {Told} /\ Readable(Told)
  \/ GatesLayer = {"global"} /\ ~Readable(Told) /\ Readable("global")
  \/ GatesLayer = {} /\ ~Readable(Told) /\ ~Readable("global")
<1>1. CASE ProjectLayer = {}
  BY <1>1 DEF ProjectLayer, GatesLayer, Readable, Told
<1>2. CASE ProjectLayer = {"project"} \/ ProjectLayer = {"home"}
  BY <1>2 DEF GatesLayer, Told
<1> QED
  BY <1>1, <1>2 DEF ProjectLayer

\* `claude-gates status`, given where the hooks' climb ends, and the hooks agree on every gate
\* at every moment, whatever the directories are marked with and whatever state the files are in.
THEOREM StatusTells == Spec => []StatusIsEnforced
<1>1. TypeOK => StatusIsEnforced
  <2> SUFFICES ASSUME TypeOK, NEW g \in Gates
               PROVE  IsEnabled(g) <=> EnabledOf(g, EffectiveGates(Told)[g])
    BY DEF StatusIsEnforced, Status, Enforced, Told
  <2>1. \A l \in Layers : files[l].gates[g] \in Entry
    BY DEF TypeOK, File
  <2>2. Told \in Layers /\ "global" \in Layers
    BY DEF Told, Layers, Scopes
  <2>3. CASE GatesLayer = {Told} /\ Readable(Told)
    BY <2>1, <2>2, <2>3, SameVerdict DEF EffectiveGates
  <2>4. CASE GatesLayer = {"global"} /\ ~Readable(Told) /\ Readable("global")
    BY <2>1, <2>2, <2>4, SameVerdict DEF EffectiveGates
  <2>5. CASE GatesLayer = {} /\ ~Readable(Told) /\ ~Readable("global")
    BY <2>5, NoLayer DEF EffectiveGates
  <2> QED
    BY <2>3, <2>4, <2>5, SameLayer
<1> QED
  BY <1>1, TypeCorrect, PTL DEF Spec

=============================================================================

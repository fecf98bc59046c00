--------------------------- MODULE Commands_proofs ---------------------------
(* Proofs about Commands: types, what never runs, and that no background is   *)
(* forgotten, for any number of actors, any calls and any cap of the list.     *)
EXTENDS Commands, TLAPS

\* What a hook computes from the list stays within the cap.
LEMMA ListBounds ==
  ASSUME NEW n \in 0 .. MaxPending
  PROVE  Cleared(n) \in 0 .. MaxPending /\ Added(n) \in 0 .. MaxPending
BY BoundsAssumption DEF Cleared, Added

\* A rewritten call is a call.
LEMMA RewrittenCall ==
  ASSUME NEW a \in Actors, NEW finds \in SUBSET Findable,
         call \in [Actors -> Calls]
  PROVE  [call EXCEPT ![a].finds = finds] \in [Actors -> Calls]
BY DEF Calls

\* Every answer resends the call, possibly rewritten, or hands it over; it touches no list.
LEMMA ObeyShape ==
  ASSUME TypeOK, NEW a \in Actors, Obey(a)
  PROVE  /\ stage[a] = "denied"
         /\ stage' \in {[stage EXCEPT ![a] = "sent"], [stage EXCEPT ![a] = "handed over"]}
         /\ \/ call' = call
            \/ \E finds \in SUBSET Findable : call' = [call EXCEPT ![a].finds = finds]
         /\ forge' \in ForgeStates
         /\ watching' \in [Actors -> BOOLEAN]
         /\ denied' \in {denied, [denied EXCEPT ![a] = {}]}
         /\ UNCHANGED <<enabled, seen, pending, unwatched, lost>>
<1> USE DEF TypeOK
<1>0. call[a].finds \in SUBSET Findable
  BY DEF Calls
<1>1. CASE PlanMonitor(a)
  <2>1. "plan" \in Findable
    BY DEF Findable
  <2> QED BY <1>0, <1>1, <2>1 DEF PlanMonitor, Answers, Rewrites, Resends
<1>2. CASE StopWaiting(a)
  <2>1. {"background", "justified"} \subseteq Findable
    BY DEF Findable
  <2> QED BY <1>0, <1>2, <2>1 DEF StopWaiting, Answers, Rewrites, Resends
<1>3. CASE SpareTheFiles(a)
  BY <1>0, <1>3 DEF SpareTheFiles, Answers, Rewrites, Resends, HandsOver
<1>4. CASE AskTheUser(a)
  BY <1>4 DEF AskTheUser, Answers, HandsOver
<1>5. CASE MoveInside(a)
  BY <1>0, <1>5 DEF MoveInside, Answers, Rewrites, Resends
<1>6. CASE FollowForge(a)
  BY <1>0, <1>6 DEF FollowForge, Answers, Rewrites, Resends, HandsOver, ForgeStates
<1>7. CASE TryAgain(a)
  BY <1>7 DEF TryAgain, Resends
<1> QED BY <1>1, <1>2, <1>3, <1>4, <1>5, <1>6, <1>7 DEF Obey

-----------------------------------------------------------------------------

\* TypeOK in two parts: what is counted, and the rest.
Counts == seen \in [Actors -> 0 .. MaxPending] /\ pending \in 0 .. MaxPending /\ unwatched \in Nat

Rest ==
  /\ enabled \subseteq Gates /\ forge \in ForgeStates
  /\ call \in [Actors -> Calls]
  /\ stage \in [Actors -> {"sent", "read", "denied", "ran", "handed over"}]
  /\ watching \in [Actors -> BOOLEAN]
  /\ denied \in [Actors -> SUBSET Gates]
  /\ lost \in BOOLEAN

\* The two parts are the whole.
LEMMA Parts == TypeOK <=> Counts /\ Rest
BY DEF TypeOK, Counts, Rest

\* The types hold at first.
LEMMA InitTypes == Init => Counts /\ Rest
<1> SUFFICES ASSUME Init PROVE Counts /\ Rest
  OBVIOUS
<1>1. Counts
  BY BoundsAssumption DEF Init, Counts
<1>2. enabled \subseteq Gates /\ forge \in ForgeStates /\ call \in [Actors -> Calls]
  BY InputsAssumption DEF Init
<1>3. /\ stage \in [Actors -> {"sent", "read", "denied", "ran", "handed over"}]
      /\ watching \in [Actors -> BOOLEAN] /\ denied \in [Actors -> SUBSET Gates]
      /\ lost \in BOOLEAN
  BY DEF Init
<1> QED BY <1>1, <1>2, <1>3 DEF Rest

\* Every step keeps the counts within the cap.
LEMMA NextCounts == ASSUME Counts, Rest, [Next]_vars PROVE Counts'
<1> USE DEF Counts
<1>1. CASE UNCHANGED <<seen, pending, unwatched>>
  BY <1>1
<1>2. CASE BackgroundEnds
  BY <1>2 DEF BackgroundEnds
<1>3. ASSUME NEW a \in Actors, Want(a) \/ Obey(a) PROVE UNCHANGED <<seen, pending, unwatched>>
  BY <1>3, ObeyShape, Parts DEF Want
<1>4. ASSUME NEW a \in Actors, Read(a) PROVE Counts'
  BY <1>4 DEF Read
<1>5. ASSUME NEW a \in Actors, Observe(a) PROVE Counts'
  <2>1. pending' \in 0 .. MaxPending
    BY <1>5, ListBounds DEF Observe, Writes
  <2>2. unwatched' \in Nat
    BY <1>5 DEF Observe
  <2> QED BY <1>5, <2>1, <2>2, BoundsAssumption DEF Observe
<1>6. ASSUME NEW a \in Actors, NEW failing \in FailingSets, Judge(a, failing) PROVE Counts'
  <2>1. pending' \in 0 .. MaxPending
    BY <1>6, ListBounds DEF Judge
  <2>2. unwatched' \in Nat
    BY <1>6 DEF Judge
  <2> QED BY <1>6, <2>1, <2>2, BoundsAssumption DEF Judge
<1>7. ASSUME NEW a \in Actors, NEW failing \in FailingSets, ObserveFails(a, failing) PROVE Counts'
  BY <1>7, BoundsAssumption DEF ObserveFails
<1> QED BY <1>1, <1>2, <1>3, <1>4, <1>5, <1>6, <1>7 DEF Next, vars

\* Every step keeps the other types.
LEMMA NextRest == ASSUME Counts, Rest, [Next]_vars PROVE Rest'
<1> USE DEF Rest
<1>1. CASE UNCHANGED <<enabled, forge, call, stage, watching, denied, lost>>
  BY <1>1
<1>2. BackgroundEnds => UNCHANGED <<enabled, forge, call, stage, watching, denied, lost>>
  BY DEF BackgroundEnds
<1>3. ASSUME NEW a \in Actors, Want(a) \/ Read(a) PROVE Rest'
  BY <1>3, InputsAssumption DEF Want, Read
<1>4. ASSUME NEW a \in Actors, Observe(a) PROVE Rest'
  <2>1. lost' \in BOOLEAN
    BY <1>4 DEF Observe, Writes
  <2> QED BY <1>4, <2>1 DEF Observe
<1>5. ASSUME NEW a \in Actors, Obey(a) PROVE Rest'
  <2>1. call' \in [Actors -> Calls]
    <3>1. call' = call \/ \E finds \in SUBSET Findable : call' = [call EXCEPT ![a].finds = finds]
      BY <1>5, ObeyShape, Parts
    <3>2. ASSUME NEW finds \in SUBSET Findable, call' = [call EXCEPT ![a].finds = finds]
          PROVE  call' \in [Actors -> Calls]
      BY <3>2, RewrittenCall
    <3> QED BY <3>1, <3>2
  <2>2. /\ stage' \in [Actors -> {"sent", "read", "denied", "ran", "handed over"}]
        /\ denied' \in [Actors -> SUBSET Gates]
    BY <1>5, ObeyShape, Parts
  <2> QED BY <1>5, <2>1, <2>2, ObeyShape, Parts
<1>6. ASSUME NEW a \in Actors, NEW failing \in FailingSets, Judge(a, failing) PROVE Rest'
  <2>1. lost' \in BOOLEAN
    BY <1>6 DEF Judge
  <2>2. denied' \in [Actors -> SUBSET Gates]
    BY <1>6 DEF Judge
  <2>3. stage' \in [Actors -> {"sent", "read", "denied", "ran", "handed over"}]
    BY <1>6 DEF Judge
  <2> QED BY <1>6, <2>1, <2>2, <2>3 DEF Judge
<1>7. ASSUME NEW a \in Actors, NEW failing \in FailingSets, ObserveFails(a, failing) PROVE Rest'
  BY <1>7 DEF ObserveFails
<1> QED BY <1>1, <1>2, <1>3, <1>4, <1>5, <1>6, <1>7 DEF Next, vars

\* The gates, the agents' answers and the list stay within their types, the cap included.
THEOREM TypeCorrect == Spec => []TypeOK
<1>1. TypeOK <=> Counts /\ Rest
  BY Parts
<1>2. Init => Counts /\ Rest
  BY InitTypes
<1>3. Counts /\ Rest /\ [Next]_vars => (Counts /\ Rest)'
  BY NextCounts, NextRest
<1> QED BY <1>1, <1>2, <1>3, PTL DEF Spec

-----------------------------------------------------------------------------

\* A background that starts was planned, and its entry is written.
LEMMA StartedIsRecorded ==
  ASSUME TypeOK, NEW a \in Actors, NEW failing \in FailingSets, Judge(a, failing),
         "require-monitor" \in enabled, ~lost',
         unwatched' # unwatched
  PROVE  unwatched' = unwatched + 1 /\ pending' = pending + 1
<1>1. /\ Starts(call[a]) /\ unwatched' = unwatched + 1
      /\ failing \cap enabled = {}
      /\ ~Denies("require-monitor", a, call[a], seen[a], forge)
  BY DEF Judge
<1>2. "plan" \in call[a].finds
  BY <1>1 DEF Denies, MonitorDenies
<1>3. /\ pending' = Added(seen[a])
      /\ lost' = (lost \/ seen[a] # pending \/ seen[a] = MaxPending)
  BY <1>1, <1>2 DEF Judge
<1>4. seen[a] = pending /\ seen[a] # MaxPending
  BY <1>3
<1>5. seen[a] \in 0 .. MaxPending
  BY Parts DEF Counts
<1>6. pending' = pending + 1
  BY <1>3, <1>4, <1>5, BoundsAssumption DEF Added
<1> QED BY <1>1, <1>6

\* No step makes the list shorter than the unwatched backgrounds, unless an entry is lost.
LEMMA NextForgotten ==
  ASSUME TypeOK, NothingForgotten, [Next]_vars PROVE NothingForgotten'
<1> USE DEF NothingForgotten
<1>0. Counts
  BY Parts
<1>1. CASE UNCHANGED <<enabled, pending, unwatched, lost>>
  BY <1>1
<1>2. CASE BackgroundEnds
  <2>1. unwatched' <= unwatched /\ unwatched' \in Nat
    BY <1>0, <1>2 DEF Counts, BackgroundEnds
  <2>2. unwatched <= pending => unwatched' <= pending
    BY <1>0, <2>1 DEF Counts
  <2> QED BY <1>2, <2>2 DEF BackgroundEnds
<1>3. ASSUME NEW a \in Actors, Observe(a) PROVE NothingForgotten'
  <2> SUFFICES ASSUME "require-monitor" \in enabled, ~lost' PROVE unwatched' <= pending'
    BY <1>3 DEF Observe
  <2>1. CASE seen[a] > 0
    <3>1. pending' = Cleared(seen[a]) /\ lost' = (lost \/ seen[a] # pending)
      BY <1>3, <2>1 DEF Observe, Writes
    <3>2. seen[a] = pending /\ unwatched <= pending
      BY <3>1
    <3>3. unwatched' = IF unwatched > 0 THEN unwatched - 1 ELSE 0
      BY <1>3 DEF Observe
    <3> QED BY <1>0, <2>1, <3>1, <3>2, <3>3, BoundsAssumption DEF Counts, Cleared
  <2>2. CASE ~(seen[a] > 0)
    <3>1. pending' = pending /\ unwatched <= pending
      BY <1>3, <2>2 DEF Observe
    <3>2. unwatched' = IF unwatched > 0 THEN unwatched - 1 ELSE 0
      BY <1>3 DEF Observe
    <3> QED BY <1>0, <3>1, <3>2, BoundsAssumption DEF Counts
  <2> QED BY <2>1, <2>2
<1>4. ASSUME NEW a \in Actors, NEW failing \in FailingSets, Judge(a, failing)
      PROVE  NothingForgotten'
  <2> SUFFICES ASSUME "require-monitor" \in enabled, ~lost' PROVE unwatched' <= pending'
    BY <1>4 DEF Judge
  <2>1. ~lost /\ unwatched <= pending
    BY <1>4 DEF Judge
  <2>2. CASE unwatched' # unwatched
    <3>1. unwatched' = unwatched + 1 /\ pending' = pending + 1
      BY <1>4, <2>2, StartedIsRecorded
    <3> QED BY <1>0, <2>1, <3>1, BoundsAssumption DEF Counts
  <2>3. CASE unwatched' = unwatched
    <3>1. CASE pending' # pending
      <4>1. pending' = Added(seen[a]) /\ lost' = (lost \/ seen[a] # pending \/ seen[a] = MaxPending)
        BY <1>4, <3>1 DEF Judge
      <4>2. seen[a] = pending
        BY <4>1
      <4> QED BY <1>0, <2>1, <2>3, <4>1, <4>2, BoundsAssumption DEF Counts, Added
    <3>2. CASE pending' = pending
      BY <2>1, <2>3, <3>2
    <3> QED BY <3>1, <3>2
  <2> QED BY <2>2, <2>3
<1>5. ASSUME NEW a \in Actors, Want(a) \/ Read(a) \/ Obey(a)
      PROVE  UNCHANGED <<enabled, pending, unwatched, lost>>
  BY <1>5, ObeyShape DEF Want, Read
<1>6. ASSUME NEW a \in Actors, NEW failing \in FailingSets, ObserveFails(a, failing)
      PROVE  UNCHANGED <<enabled, pending, unwatched, lost>>
  BY <1>6 DEF ObserveFails
<1> QED BY <1>1, <1>2, <1>3, <1>4, <1>5, <1>6 DEF Next, vars

\* Whatever the actors, the calls and the cap, every unwatched background has an entry
\* unless an entry was lost.
THEOREM Remembered == Spec => []NothingForgotten
<1>1. Init => NothingForgotten
  BY DEF Init, NothingForgotten
<1>2. TypeOK /\ NothingForgotten /\ [Next]_vars => NothingForgotten'
  BY NextForgotten
<1> QED BY <1>1, <1>2, TypeCorrect, PTL DEF Spec

-----------------------------------------------------------------------------

\* What HarmNeverRuns says of one call.
Harmless(c) ==
  /\ "bash-commands" \in enabled /\ c.tool # "write" => "destroys" \notin c.finds
  /\ "block-remote-publish" \in enabled /\ c.tool # "write" => "publishes" \notin c.finds
  /\ "protected-paths" \in enabled /\ Acts(c) => "protected" \notin c.finds

\* A call no gate denied, and that no gate threw on, is harmless.
LEMMA JudgedHarmless ==
  ASSUME NEW a \in Actors, NEW failing \in FailingSets, Judge(a, failing), stage'[a] = "ran",
         Rest
  PROVE  Harmless(call[a])
<1>1. /\ failing \cap enabled = {}
      /\ \A g \in enabled : ~Denies(g, a, call[a], seen[a], forge)
  BY DEF Judge, Rest
<1> QED BY <1>1 DEF Harmless, Denies, DestroyDenies, PublishDenies, ProtectedDenies

\* No step lets a call run that a gate which can stop it denies.
LEMMA NextHarm == ASSUME TypeOK, HarmNeverRuns, [Next]_vars PROVE HarmNeverRuns'
<1>0. Rest
  BY Parts
<1>1. CASE UNCHANGED <<enabled, call, stage>>
  BY <1>1 DEF HarmNeverRuns
<1>2. ASSUME NEW a \in Actors, enabled' = enabled, stage'[a] # "ran" \/ Harmless(call'[a]),
             \A b \in Actors \ {a} : stage'[b] = stage[b] /\ call'[b] = call[b]
      PROVE  HarmNeverRuns'
  BY <1>2 DEF HarmNeverRuns, Harmless
<1>3. ASSUME NEW a \in Actors, Want(a) \/ Read(a) \/ Observe(a) PROVE HarmNeverRuns'
  <2>1. /\ stage'[a] # "ran" /\ enabled' = enabled
        /\ \A b \in Actors \ {a} : stage'[b] = stage[b]
    BY <1>0, <1>3 DEF Rest, Want, Read, Observe
  <2>2. \A b \in Actors \ {a} : call'[b] = call[b]
    BY <1>0, <1>3 DEF Rest, Want, Read, Observe
  <2> QED BY <1>2, <2>1, <2>2
<1>4. ASSUME NEW a \in Actors, Obey(a) PROVE HarmNeverRuns'
  <2>1. /\ stage'[a] # "ran" /\ enabled' = enabled
        /\ \A b \in Actors \ {a} : stage'[b] = stage[b]
    BY <1>0, <1>4, ObeyShape DEF Rest
  <2>2. \A b \in Actors \ {a} : call'[b] = call[b]
    <3>1. call' = call \/ \E finds \in SUBSET Findable : call' = [call EXCEPT ![a].finds = finds]
      BY <1>4, ObeyShape
    <3> QED BY <1>0, <3>1 DEF Rest
  <2> QED BY <1>2, <2>1, <2>2
<1>5. ASSUME NEW a \in Actors, NEW failing \in FailingSets, Judge(a, failing)
      PROVE  HarmNeverRuns'
  <2>1. stage'[a] # "ran" \/ Harmless(call'[a])
    BY <1>0, <1>5, JudgedHarmless DEF Rest, Judge
  <2>2. enabled' = enabled /\ \A b \in Actors \ {a} : stage'[b] = stage[b] /\ call'[b] = call[b]
    BY <1>0, <1>5 DEF Rest, Judge
  <2> QED BY <1>2, <2>1, <2>2
<1>6. ASSUME NEW a \in Actors, NEW failing \in FailingSets, ObserveFails(a, failing)
      PROVE  HarmNeverRuns'
  BY <1>0, <1>2, <1>6 DEF Rest, ObserveFails
<1>7. BackgroundEnds => UNCHANGED <<enabled, call, stage>>
  BY DEF BackgroundEnds
<1> QED BY <1>1, <1>3, <1>4, <1>5, <1>6, <1>7 DEF Next, vars

\* For any calls, rewritings and failures: what only the user may do is run by no agent.
THEOREM NoHarm == Spec => []HarmNeverRuns
<1>1. Init => HarmNeverRuns
  BY DEF Init, HarmNeverRuns
<1>2. TypeOK /\ HarmNeverRuns /\ [Next]_vars => HarmNeverRuns'
  BY NextHarm
<1> QED BY <1>1, <1>2, TypeCorrect, PTL DEF Spec

-----------------------------------------------------------------------------

\* What answers to denials can still take out of a call, or put in: each chore is done once.
Chores(c) ==
  (c.finds \cap {"destroys", "new entry", "relative cd", "stale marker"})
  \cup ({"plan"} \ c.finds)
  \cup (IF c.finds \cap {"background", "justified"} = {} THEN {"a way not to wait"} ELSE {})

\* A gate that denied a call denies it as long as its agent has not answered: only
\* forge-flow's reason may change, when another agent starts forge.
StillDenies(a, g) ==
  IF g = "forge-flow"
  THEN \/ forge \in {"no run", "active"} /\ Acts(call[a])
       \/ forge = "active" /\ call[a].tool = "delegation" /\ "stale marker" \in call[a].finds
  ELSE \E n \in 0 .. MaxPending : Denies(g, a, call[a], n, forge)

Stands(a) == stage[a] = "denied" => ~watching[a] /\ \A g \in denied[a] : StillDenies(a, g)

DenialsStand == \A a \in Actors : Stands(a)

\* What an answer comes to.
GivesUp(a)      == stage'[a] = "handed over"
DoesAChore(a)   == Chores(call'[a]) \subseteq Chores(call[a]) /\ Chores(call'[a]) # Chores(call[a])
StartsForge     == forge = "no run" /\ forge' = "active"
PlansMonitor(a) == ~watching[a] /\ watching'[a]
GateThrew(a)    == denied[a] = {}

\* "Every sanctioned way out was closed" (gate-invariants.test:6) does not come back: whatever
\* the gates ask of a call together, an answer takes the call further.
AnswersProgress ==
  [][\A a \in Actors : Obey(a) =>
       GivesUp(a) \/ DoesAChore(a) \/ StartsForge \/ PlansMonitor(a) \/ GateThrew(a)]_vars

\* And no step but another wish undoes what an answer did.
ProgressStays ==
  [][/\ forge' # forge => StartsForge
     /\ \A a \in Actors : ~Want(a) => Chores(call'[a]) \subseteq Chores(call[a])]_vars

\* A gate's denial stands when it is spoken.
LEMMA JudgedDenied ==
  ASSUME TypeOK, NEW a \in Actors, NEW failing \in FailingSets, Judge(a, failing)
  PROVE  ~watching[a] /\ \A g \in denied'[a] : StillDenies(a, g)
<1>1. ASSUME NEW g \in denied'[a] PROVE StillDenies(a, g)
  <2>1. Denies(g, a, call[a], seen[a], forge) /\ seen[a] \in 0 .. MaxPending
    BY <1>1 DEF Judge, TypeOK
  <2>2. CASE g # "forge-flow"
    BY <2>1, <2>2 DEF StillDenies
  <2>3. CASE g = "forge-flow"
    <3>1. ForgeDenies(a, call[a], forge)
      BY <2>1, <2>3 DEF Denies
    <3> QED BY <2>3, <3>1 DEF StillDenies, ForgeDenies
  <2> QED BY <2>2, <2>3
<1> QED BY <1>1 DEF Judge

\* What an agent does to forge, and to the calls of others.
LEMMA ObeyLeaves ==
  ASSUME TypeOK, NEW a \in Actors, Obey(a)
  PROVE  /\ forge' # forge => StartsForge
         /\ \A b \in Actors \ {a} : /\ stage'[b] = stage[b] /\ watching'[b] = watching[b]
                                    /\ call'[b] = call[b] /\ denied'[b] = denied[b]
<1>0. Rest
  BY Parts
<1>1. \A b \in Actors \ {a} : stage'[b] = stage[b] /\ denied'[b] = denied[b]
  <2>1. /\ stage' \in {[stage EXCEPT ![a] = "sent"], [stage EXCEPT ![a] = "handed over"]}
        /\ denied' \in {denied, [denied EXCEPT ![a] = {}]}
    BY ObeyShape
  <2> QED BY <1>0, <2>1 DEF Rest
<1>2. \A b \in Actors \ {a} : call'[b] = call[b]
  <2>1. call' = call \/ \E finds \in SUBSET Findable : call' = [call EXCEPT ![a].finds = finds]
    BY ObeyShape
  <2> QED BY <1>0, <2>1 DEF Rest
<1>3. watching' = watching \/ watching' = [watching EXCEPT ![a] = TRUE]
  BY DEF Obey, PlanMonitor, StopWaiting, SpareTheFiles, AskTheUser, MoveInside, FollowForge,
         TryAgain, Answers, Rewrites, HandsOver
<1>4. forge' # forge => StartsForge
  BY DEF Obey, PlanMonitor, StopWaiting, SpareTheFiles, AskTheUser, MoveInside, FollowForge,
         TryAgain, Answers, Rewrites, HandsOver, StartsForge
<1> QED BY <1>0, <1>1, <1>2, <1>3, <1>4 DEF Rest

\* A denial that stands still does when forge starts and the call is left alone.
LEMMA DenialStays ==
  ASSUME NEW a \in Actors, NEW g \in denied[a], StillDenies(a, g), call'[a] = call[a],
         forge' # forge => StartsForge
  PROVE  StillDenies(a, g)'
<1>1. CASE g = "forge-flow"
  BY <1>1 DEF StillDenies, StartsForge, Acts
<1>2. CASE g # "forge-flow"
  <2>1. PICK n \in 0 .. MaxPending : Denies(g, a, call[a], n, forge)
    BY <1>2 DEF StillDenies
  <2>2. Denies(g, a, call'[a], n, forge')
    BY <1>2, <2>1 DEF Denies
  <2> QED BY <1>2, <2>2 DEF StillDenies
<1> QED BY <1>1, <1>2

\* Denials stand until they are answered.
LEMMA NextDenials == ASSUME TypeOK, DenialsStand, [Next]_vars PROVE DenialsStand'
<1>0. Rest
  BY Parts
<1>1. ASSUME NEW a \in Actors, Stands(a)',
             forge' # forge => StartsForge,
             \A b \in Actors \ {a} : /\ stage'[b] = stage[b] /\ watching'[b] = watching[b]
                                     /\ call'[b] = call[b] /\ denied'[b] = denied[b]
      PROVE  DenialsStand'
  <2> SUFFICES ASSUME NEW b \in Actors, stage'[b] = "denied", b # a
               PROVE  ~watching'[b] /\ \A g \in denied'[b] : StillDenies(b, g)'
    BY <1>1 DEF DenialsStand, Stands
  <2>1. stage[b] = "denied" /\ watching'[b] = watching[b] /\ call'[b] = call[b] /\ denied'[b] = denied[b]
    BY <1>1
  <2> QED BY <1>1, <2>1, DenialStays DEF DenialsStand, Stands
<1>2. CASE UNCHANGED <<forge, call, stage, watching, denied>>
  <2> SUFFICES ASSUME NEW b \in Actors, stage[b] = "denied"
               PROVE  ~watching'[b] /\ \A g \in denied'[b] : StillDenies(b, g)'
    BY <1>2 DEF DenialsStand, Stands
  <2> QED BY <1>2, DenialStays DEF DenialsStand, Stands
<1>3. ASSUME NEW a \in Actors, Obey(a) PROVE DenialsStand'
  <2>1. Stands(a)'
    BY <1>0, <1>3, ObeyShape DEF Rest, Stands
  <2> QED BY <1>1, <1>3, <2>1, ObeyLeaves
<1>4. ASSUME NEW a \in Actors, Want(a) \/ Read(a) \/ Observe(a) PROVE DenialsStand'
  <2>1. Stands(a)' /\ forge' = forge
    BY <1>0, <1>4 DEF Want, Read, Observe, Rest, Stands
  <2>2. \A b \in Actors \ {a} : /\ stage'[b] = stage[b] /\ watching'[b] = watching[b]
                                /\ call'[b] = call[b] /\ denied'[b] = denied[b]
    BY <1>0, <1>4 DEF Want, Read, Observe, Rest
  <2> QED BY <1>1, <2>1, <2>2
<1>5. ASSUME NEW a \in Actors, NEW failing \in FailingSets, Judge(a, failing) PROVE DenialsStand'
  <2>1. ~watching[a] /\ \A g \in denied'[a] : StillDenies(a, g)
    BY <1>5, JudgedDenied
  <2>2. UNCHANGED <<forge, call, watching>>
    BY <1>5 DEF Judge
  <2>3. \A b \in Actors \ {a} : stage'[b] = stage[b] /\ denied'[b] = denied[b]
    BY <1>0, <1>5 DEF Judge, Rest
  <2>4. Stands(a)'
    BY <2>1, <2>2 DEF StillDenies, Stands
  <2> QED BY <1>1, <2>2, <2>3, <2>4
<1>6. ASSUME NEW a \in Actors, NEW failing \in FailingSets, ObserveFails(a, failing)
      PROVE  DenialsStand'
  <2>1. Stands(a)' /\ UNCHANGED <<forge, call, watching, denied>>
    BY <1>0, <1>6 DEF ObserveFails, Rest, Stands
  <2>2. \A b \in Actors \ {a} : stage'[b] = stage[b]
    BY <1>0, <1>6 DEF ObserveFails, Rest
  <2> QED BY <1>1, <2>1, <2>2
<1>7. BackgroundEnds => UNCHANGED <<forge, call, stage, watching, denied>>
  BY DEF BackgroundEnds
<1> QED BY <1>2, <1>3, <1>4, <1>5, <1>6, <1>7 DEF Next, vars

\* A rewriting that puts these finds in place of its own.
LEMMA RewrittenFinds ==
  ASSUME TypeOK, NEW a \in Actors, NEW finds, Rewrites(a, finds)
  PROVE  call'[a].finds = finds
BY DEF TypeOK, Rewrites, Calls

\* Each answer comes to one of the five.
LEMMA ObeyProgress ==
  ASSUME TypeOK, DenialsStand, NEW a \in Actors, Obey(a)
  PROVE  GivesUp(a) \/ DoesAChore(a) \/ StartsForge \/ PlansMonitor(a) \/ GateThrew(a)
<1>0. stage[a] = "denied" /\ ~watching[a]
  BY ObeyShape DEF DenialsStand, Stands
<1>1. \A g \in denied[a] : StillDenies(a, g)
  BY <1>0 DEF DenialsStand, Stands
<1>h. HandsOver(a) => GivesUp(a)
  BY DEF HandsOver, GivesUp, TypeOK
<1>2. CASE PlanMonitor(a)
  <2>1. CASE Starts(call[a])
    <3>1. PICK n \in 0 .. MaxPending : MonitorDenies(call[a], n)
      BY <1>1, <1>2 DEF PlanMonitor, Answers, StillDenies, Denies
    <3>2. "plan" \notin call[a].finds
      BY <2>1, <3>1 DEF MonitorDenies
    <3>3. call'[a].finds = call[a].finds \cup {"plan"}
      BY <1>2, <2>1, RewrittenFinds DEF PlanMonitor
    <3> QED BY <3>2, <3>3 DEF DoesAChore, Chores
  <2>2. CASE ~Starts(call[a])
    BY <1>0, <1>2, <2>2 DEF PlanMonitor, PlansMonitor, TypeOK
  <2> QED BY <2>1, <2>2
<1>3. CASE StopWaiting(a)
  <2>1. WaitDenies(call[a])
    BY <1>1, <1>3 DEF StopWaiting, Answers, StillDenies, Denies
  <2>2. PICK way \in {"background", "justified"} : call'[a].finds = call[a].finds \cup {way}
    BY <1>3, RewrittenFinds DEF StopWaiting
  <2>3. call[a].finds \cap {"background", "justified"} = {}
    BY <2>1 DEF WaitDenies
  <2>4. call'[a].finds \cap {"background", "justified"} # {}
    BY <2>2
  <2>5. /\ "a way not to wait" \in Chores(call[a]) /\ "a way not to wait" \notin Chores(call'[a])
        /\ Chores(call'[a]) \subseteq Chores(call[a])
    BY <2>2, <2>3, <2>4 DEF Chores
  <2> QED BY <2>5 DEF DoesAChore
<1>4. CASE SpareTheFiles(a)
  <2>1. "destroys" \in call[a].finds
    BY <1>1, <1>4 DEF SpareTheFiles, Answers, StillDenies, Denies, DestroyDenies
  <2>2. CASE Rewrites(a, call[a].finds \ {"destroys"})
    <3>1. call'[a].finds = call[a].finds \ {"destroys"}
      BY <2>2, RewrittenFinds
    <3> QED BY <2>1, <3>1 DEF DoesAChore, Chores
  <2> QED BY <1>4, <1>h, <2>2 DEF SpareTheFiles
<1>5. CASE AskTheUser(a)
  BY <1>5, <1>h DEF AskTheUser
<1>6. CASE MoveInside(a)
  <2>1. call[a].finds \cap {"new entry", "relative cd"} # {}
    BY <1>1, <1>6 DEF MoveInside, Answers, StillDenies, Denies, RootDenies
  <2>2. call'[a].finds = call[a].finds \ {"new entry", "relative cd"}
    BY <1>6, RewrittenFinds DEF MoveInside
  <2>3. PICK find \in {"new entry", "relative cd"} : find \in call[a].finds
    BY <2>1
  <2>4. /\ find \in Chores(call[a]) /\ find \notin Chores(call'[a])
        /\ Chores(call'[a]) \subseteq Chores(call[a])
    BY <2>2, <2>3 DEF Chores
  <2> QED BY <2>4 DEF DoesAChore
<1>7. CASE FollowForge(a)
  <2>1. StillDenies(a, "forge-flow")
    BY <1>1, <1>7 DEF FollowForge, Answers
  <2>2. CASE forge = "no run" /\ forge' = "active"
    BY <2>2 DEF StartsForge
  <2>3. CASE /\ forge = "active" /\ call[a].tool = "delegation"
             /\ Rewrites(a, call[a].finds \ {"stale marker"})
    <3>1. "stale marker" \in call[a].finds
      BY <2>1, <2>3 DEF StillDenies, Acts
    <3>2. call'[a].finds = call[a].finds \ {"stale marker"}
      BY <2>3, RewrittenFinds
    <3> QED BY <3>1, <3>2 DEF DoesAChore, Chores
  <2> QED BY <1>7, <1>h, <2>2, <2>3 DEF FollowForge
<1>8. CASE TryAgain(a)
  BY <1>8 DEF TryAgain, GateThrew
<1> QED BY <1>2, <1>3, <1>4, <1>5, <1>6, <1>7, <1>8 DEF Obey

\* For any actors, calls, configurations and failures: an agent's answer to a denial takes its
\* call further, and a denial it has not answered still stands.
THEOREM AnswersLeadOut == Spec => AnswersProgress /\ []DenialsStand
<1>1. Init => DenialsStand
  BY DEF Init, DenialsStand, Stands
<1>2. TypeOK /\ DenialsStand /\ [Next]_vars => DenialsStand'
  BY NextDenials
<1> DEFINE Progress == \A a \in Actors : Obey(a) =>
               GivesUp(a) \/ DoesAChore(a) \/ StartsForge \/ PlansMonitor(a) \/ GateThrew(a)
<1>3. TypeOK /\ DenialsStand => Progress
  BY ObeyProgress
<1>4. TypeOK /\ DenialsStand /\ [Next]_vars => [Progress]_vars
  BY <1>3
<1> HIDE DEF Progress
<1>5. Spec => [][Progress]_vars /\ []DenialsStand
  BY <1>1, <1>2, <1>4, TypeCorrect, PTL DEF Spec
<1> QED BY <1>5 DEF AnswersProgress, Progress

\* A rewritten call has no chore its first writing had not.
LEMMA ObeyChores ==
  ASSUME TypeOK, DenialsStand, NEW a \in Actors, Obey(a)
  PROVE  Chores(call'[a]) \subseteq Chores(call[a])
<1>1. CASE call' = call
  BY <1>1
<1>2. ASSUME NEW finds, Rewrites(a, finds),
             finds \subseteq call[a].finds \/ \E g \in {"plan", "background", "justified"} :
                                                finds = call[a].finds \cup {g},
             call[a].finds \ {"destroys", "new entry", "relative cd", "stale marker"} \subseteq finds
      PROVE  Chores(call'[a]) \subseteq Chores(call[a])
  <2>1. call'[a].finds = finds
    BY <1>2, RewrittenFinds
  <2> QED BY <1>2, <2>1 DEF Chores
<1> QED BY <1>1, <1>2 DEF Obey, PlanMonitor, StopWaiting, SpareTheFiles, AskTheUser, MoveInside,
          FollowForge, TryAgain, HandsOver

\* For any actors, calls, configurations and failures: forge starts once, and what an answer did
\* to a call stays done until the agent wishes for another.
THEOREM AnswersAreKept == Spec => ProgressStays
<1> DEFINE Stays == /\ forge' # forge => StartsForge
                    /\ \A a \in Actors : ~Want(a) => Chores(call'[a]) \subseteq Chores(call[a])
<1>1. ASSUME TypeOK, DenialsStand, Next PROVE Stays
  <2>0. Rest
    BY <1>1, Parts
  <2>1. CASE UNCHANGED <<forge, call>>
    BY <2>1
  <2>2. ASSUME NEW a \in Actors, Obey(a) PROVE Stays
    BY <1>1, <2>2, ObeyChores, ObeyLeaves
  <2>3. ASSUME NEW a \in Actors, Want(a) PROVE Stays
    <3>1. forge' = forge /\ \A b \in Actors : b # a => call'[b] = call[b]
      BY <2>0, <2>3 DEF Want, Rest
    <3> QED BY <2>3, <3>1
  <2>4. BackgroundEnds => UNCHANGED <<forge, call>>
    BY DEF BackgroundEnds
  <2>5. ASSUME NEW a \in Actors, NEW failing \in FailingSets,
               Judge(a, failing) \/ ObserveFails(a, failing)
        PROVE  UNCHANGED <<forge, call>>
    BY <2>5 DEF Judge, ObserveFails
  <2>6. ASSUME NEW a \in Actors, Read(a) \/ Observe(a) PROVE UNCHANGED <<forge, call>>
    BY <2>6 DEF Read, Observe
  <2> QED BY <1>1, <2>1, <2>2, <2>3, <2>4, <2>5, <2>6 DEF Next
<1>2. TypeOK /\ DenialsStand /\ [Next]_vars => [Stays]_vars
  BY <1>1
<1> HIDE DEF Stays
<1>3. Spec => [][Stays]_vars
  BY <1>2, TypeCorrect, AnswersLeadOut, PTL DEF Spec
<1> QED BY <1>3 DEF ProgressStays, Stays

=============================================================================

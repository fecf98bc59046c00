------------------------ MODULE ForceParallel_proofs ------------------------
(* Proofs about ForceParallel: what the hooks of one message overwrite of each *)
(* other's state never makes the gate count a batch twice, or deny too early.  *)
(* The research gates' session files, which hooks overwrite in the same way,   *)
(* come last.                                                                  *)
EXTENDS ForceParallel, Research, TLAPS

\* The constants make every reading and every verdict a value of its type.
LEMMA ReadingTypes ==
  /\ Fresh \in State
  /\ \A previous \in State, at \in Int :
       /\ NextCount(previous, at) \in Nat
       /\ JudgeDelegation(previous, at).state \in State
       /\ JudgeDelegation(previous, at).verdict \in {"allow", "deny"}
       /\ \A file \in Files :
            /\ JudgeSelfWork(previous, file, at).state \in State
            /\ JudgeSelfWork(previous, file, at).verdict \in {"allow", "deny"}
<1>1. Fresh \in State
  BY ParameterAssumption DEF Fresh, Never, State
<1>2. ASSUME NEW previous \in State, NEW at \in Int
      PROVE  /\ NextCount(previous, at) \in Nat
             /\ JudgeDelegation(previous, at).state \in State
             /\ JudgeDelegation(previous, at).verdict \in {"allow", "deny"}
  <2>1. NextCount(previous, at) \in Nat
    BY ParameterAssumption DEF NextCount, State
  <2> QED
    BY <2>1 DEF JudgeDelegation, State
<1>3. ASSUME NEW previous \in State, NEW at \in Int, NEW file \in Files
      PROVE  /\ JudgeSelfWork(previous, file, at).state \in State
             /\ JudgeSelfWork(previous, file, at).verdict \in {"allow", "deny"}
  <2>1. NextSelfFiles(previous, file, at) \in SUBSET Files
    BY DEF NextSelfFiles, State
  <2> QED
    BY <2>1 DEF JudgeSelfWork, State
<1> QED
  BY <1>1, <1>2, <1>3

\* What a hook is, whatever it is at.
HookRecord == [step : {"waiting", "judging", "done"}, read : State, at : Int,
               verdict : {"none", "allow", "deny"}]

\* An absent state.json and a message nobody sent are well typed.
LEMMA InitTypes == Init => TypeOK
<1> SUFFICES ASSUME Init PROVE TypeOK
  OBVIOUS
<1>1. Never \in Int /\ Waiting \in HookRecord
  BY ReadingTypes, ParameterAssumption DEF Never, Waiting, HookRecord
<1>2. hook \in [Slots -> HookRecord]
  BY <1>1 DEF Init
<1> QED
  BY <1>1, <1>2, ReadingTypes, ParameterAssumption DEF Init, TypeOK, HookRecord

\* A hook that replaces state.json puts a State there, and answers.
LEMMA WriteTypes ==
  ASSUME TypeOK, NEW s \in Slots, Write(s)
  PROVE  /\ TypeOK'
         /\ Plain(message[s]) =>
              /\ stored' = JudgeDelegation(hook[s].read, hook[s].at).state
              /\ hook'[s].verdict = JudgeDelegation(hook[s].read, hook[s].at).verdict
         /\ ~Plain(message[s]) =>
              /\ stored'.count = hook[s].read.count
              /\ stored'.lastAt = hook[s].read.lastAt
<1> DEFINE previous == hook[s].read
           at == hook[s].at
           judged == Judge(message[s], previous, at)
<1>1. previous \in State /\ at \in Int /\ hook[s] \in HookRecord
  BY DEF TypeOK, HookRecord
<1>2. CASE Plain(message[s])
  <2>1. judged = JudgeDelegation(previous, at)
    BY <1>2 DEF Judge
  <2>2. judged.state \in State /\ judged.verdict \in {"allow", "deny"}
    BY <1>1, <2>1, ReadingTypes
  <2>3. stored' = judged.state /\ hook' = [hook EXCEPT ![s].step = "done", ![s].verdict = judged.verdict]
    BY DEF Write
  <2>4. hook'[s].verdict = judged.verdict
    BY <1>1, <2>3 DEF TypeOK, HookRecord
  <2>5. hook' \in [Slots -> HookRecord]
    BY <1>1, <2>2, <2>3 DEF TypeOK, HookRecord
  <2> HIDE DEF judged
  <2>6. TypeOK'
    BY <2>2, <2>3, <2>5 DEF TypeOK, HookRecord, Write, ghosts
  <2> QED
    BY <1>2, <2>1, <2>3, <2>4, <2>6
<1>3. CASE ~Plain(message[s])
  <2>1. judged = JudgeSelfWork(previous, message[s].file, at)
    BY <1>3 DEF Judge
  <2>2. message[s] \in Edit
    BY <1>3 DEF Write, Ignored, Counted
  <2>3. message[s].file \in Files
    BY <2>2 DEF Edit
  <2>4. judged.state \in State /\ judged.verdict \in {"allow", "deny"}
    BY <1>1, <2>1, <2>3, ReadingTypes
  <2>5. judged.state.count = previous.count /\ judged.state.lastAt = previous.lastAt
    BY <2>1 DEF JudgeSelfWork
  <2>6. stored' = judged.state /\ hook' = [hook EXCEPT ![s].step = "done", ![s].verdict = judged.verdict]
    BY DEF Write
  <2>7. hook' \in [Slots -> HookRecord]
    BY <1>1, <2>4, <2>6 DEF TypeOK, HookRecord
  <2> HIDE DEF judged
  <2>8. TypeOK'
    BY <2>4, <2>6, <2>7 DEF TypeOK, HookRecord, Write, ghosts
  <2> QED
    BY <1>3, <2>5, <2>6, <2>8
<1> QED
  BY <1>2, <1>3

\* Every step keeps the types.
LEMMA NextTypes == TypeOK /\ [Next]_vars => TypeOK'
<1> SUFFICES ASSUME TypeOK, [Next]_vars PROVE TypeOK'
  OBVIOUS
<1>1. CASE Tick
  BY <1>1, ParameterAssumption DEF TypeOK, Tick, ghosts
<1>2. ASSUME NEW m \in [Slots -> Call \cup {NoCall}], Send(m)
      PROVE  TypeOK'
  <2>1. Waiting \in HookRecord
    BY ReadingTypes, ParameterAssumption DEF Never, Waiting, HookRecord
  <2>2. hook' \in [Slots -> HookRecord]
    BY <1>2, <2>1 DEF Send
  <2>3. run' \in Nat /\ lastSent' \in Int /\ before' \in Nat
    BY <1>2 DEF Send, TypeOK, State
  <2> QED
    BY <1>2, <2>2, <2>3 DEF Send, TypeOK, HookRecord
<1>3. ASSUME NEW s \in Slots, Read(s)
      PROVE  TypeOK'
  <2>1. hook' \in [Slots -> HookRecord]
    BY <1>3 DEF Read, TypeOK, HookRecord
  <2> QED
    BY <1>3, <2>1 DEF Read, TypeOK, HookRecord, ghosts
<1>4. ASSUME NEW s \in Slots, Write(s)
      PROVE  TypeOK'
  BY <1>4, WriteTypes
<1>5. ASSUME NEW s \in Slots, Pass(s)
      PROVE  TypeOK'
  <2>1. hook' \in [Slots -> HookRecord]
    BY <1>5 DEF Pass, TypeOK, HookRecord
  <2> QED
    BY <1>5, <2>1 DEF Pass, TypeOK, HookRecord, ghosts
<1>6. CASE UNCHANGED vars
  BY <1>6 DEF TypeOK, vars, ghosts
<1> QED
  BY <1>1, <1>2, <1>3, <1>4, <1>5, <1>6 DEF Next

\* state.json and every private copy are well typed in every reachable state.
THEOREM TypeCorrect == Spec => []TypeOK
<1> QED
  BY InitTypes, NextTypes, PTL DEF Spec

-----------------------------------------------------------------------------
(* The count.  What a hook read is either older than the message, and then its *)
(* count is the one the message found, or was written by a hook of the same     *)
(* message, less than BatchGap ago, and is not raised again.                    *)

Sound(r) ==
  /\ r.count <= before \/ (r.count <= before + 1 /\ r.lastAt >= sentAt)
  /\ r.lastAt < lastSent + BatchGap
  /\ \/ run = Threshold
     \/ r.count <= run /\ (Delegates(message) /\ r.lastAt < sentAt => r.count < run)
     \/ r.lastAt + Window < lastSent

CountInv ==
  /\ TypeOK
  /\ sentAt <= now /\ lastSent <= now
  /\ ~Judged => now - sentAt < BatchGap
  /\ Delegates(message) => lastSent = sentAt /\ run >= 1
  /\ run <= Threshold
  /\ Sound(stored)
  /\ \A s \in Slots :
       hook[s].step = "judging" =>
         /\ Busy(s)
         /\ sentAt <= hook[s].at /\ hook[s].at - sentAt < BatchGap
         /\ Sound(hook[s].read)
  /\ DeniedAfterARun

\* The count a hook of a delegating message computes is one more than the message found,
\* at most, and is backed by messages that were sent.
LEMMA NextCountSound ==
  ASSUME TypeOK, Delegates(message), lastSent = sentAt, run >= 1,
         NEW r \in State, Sound(r), NEW at \in Int, sentAt <= at, at - sentAt < BatchGap
  PROVE  /\ NextCount(r, at) <= before + 1
         /\ NextCount(r, at) <= run \/ run = Threshold
<1>1. r.count \in Nat /\ r.lastAt \in Int /\ before \in Nat /\ run \in Nat /\ sentAt \in Int
  BY DEF State, TypeOK
<1>2. CASE at - r.lastAt > Window
  BY <1>1, <1>2 DEF NextCount
<1>3. CASE at - r.lastAt <= Window /\ at - r.lastAt >= BatchGap
  <2>1. r.lastAt < sentAt
    BY <1>1, <1>3, ParameterAssumption
  <2>2. NextCount(r, at) = r.count + 1
    BY <1>1, <1>3, ParameterAssumption DEF NextCount
  <2>3. ~(r.lastAt + Window < lastSent)
    BY <1>1, <1>3, ParameterAssumption
  <2> QED
    BY <1>1, <2>1, <2>2, <2>3 DEF Sound
<1>4. CASE at - r.lastAt < BatchGap
  <2>1. NextCount(r, at) = IF r.count < 1 THEN 1 ELSE r.count
    BY <1>1, <1>4, ParameterAssumption DEF NextCount
  <2>2. ~(r.lastAt + Window < lastSent)
    BY <1>1, <1>4, ParameterAssumption
  <2> QED
    BY <1>1, <2>1, <2>2 DEF Sound
<1> QED
  BY <1>1, <1>2, <1>3, <1>4, ParameterAssumption

\* A new message: what state.json holds is older than it.
LEMMA SendCounts ==
  ASSUME CountInv, NEW m \in [Slots -> Call \cup {NoCall}], Send(m)
  PROVE  CountInv'
<1>1. TypeOK'
  BY NextTypes DEF CountInv, Next
<1>2. \A s \in Slots : hook'[s].step = "waiting" /\ hook'[s].verdict = "none"
  BY DEF Send, Waiting
<1>3. /\ stored' = stored /\ now' = now /\ sentAt' = now /\ before' = stored.count
      /\ message' = m /\ stored \in State /\ now \in Int /\ lastSent \in Int /\ run \in Nat
  BY DEF Send, CountInv, TypeOK
<1>4. stored.count \in Nat /\ stored.lastAt \in Int
  BY <1>3 DEF State
<1>5. CASE Delegates(m)
  <2>1. /\ lastSent' = now
        /\ run' = IF now - lastSent >= Window + BatchGap THEN 1
                  ELSE IF run < Threshold THEN run + 1 ELSE run
    BY <1>5 DEF Send
  <2>2. run' >= 1 /\ run' <= Threshold
    BY <1>3, <2>1, ParameterAssumption DEF CountInv
  <2>3. Sound(stored)'
    <3>1. stored.lastAt < now + BatchGap
      BY <1>3, <1>4, ParameterAssumption DEF CountInv, Sound
    <3>2. CASE now - lastSent >= Window + BatchGap
      <4>1. stored.lastAt + Window < now
        BY <1>3, <1>4, <3>2, ParameterAssumption DEF CountInv, Sound
      <4> QED
        BY <1>3, <1>4, <2>1, <3>1, <4>1 DEF Sound
    <3>3. CASE ~(now - lastSent >= Window + BatchGap)
      <4>1. \/ run' = Threshold
            \/ stored.count < run'
            \/ stored.lastAt + Window < now
        BY <1>3, <1>4, <2>1, <3>3, ParameterAssumption DEF CountInv, Sound
      <4> QED
        BY <1>3, <1>4, <2>1, <2>2, <3>1, <4>1 DEF Sound
    <3> QED
      BY <3>2, <3>3
  <2> QED
    BY <1>1, <1>2, <1>3, <2>1, <2>2, <2>3, ParameterAssumption DEF CountInv, DeniedAfterARun
<1>6. CASE ~Delegates(m)
  <2>1. run' = run /\ lastSent' = lastSent
    BY <1>6 DEF Send
  <2>2. ~Delegates(message')
    BY <1>3, <1>6
  <2>3. Sound(stored)'
    BY <1>3, <1>4, <2>1, <2>2 DEF CountInv, Sound, Delegates
  <2>4. ~Delegates(message)'
    BY <2>2 DEF Delegates
  <2> QED
    BY <1>1, <1>2, <1>3, <2>1, <2>3, <2>4, ParameterAssumption DEF CountInv, DeniedAfterARun
<1> QED
  BY <1>5, <1>6

\* A hook reads state.json within BatchGap of the message.
LEMMA ReadCounts ==
  ASSUME CountInv, NEW s \in Slots, Read(s)
  PROVE  CountInv'
<1>1. TypeOK'
  BY NextTypes DEF CountInv, Next
<1>2. /\ UNCHANGED <<stored, message, sentAt, before, run, lastSent, now>>
      /\ hook'[s] = [step |-> "judging", read |-> stored, at |-> now, verdict |-> "none"]
      /\ \A t \in Slots \ {s} : hook'[t] = hook[t]
  BY DEF Read, ghosts, CountInv, TypeOK
<1>3. Busy(s) /\ ~Judged /\ now - sentAt < BatchGap
  BY DEF Read, CountInv, Judged
<1>4. Busy(s)' /\ \A t \in Slots \ {s} : Busy(t) => Busy(t)'
  BY <1>2, <1>3 DEF Busy
<1>5. \A r : Sound(r) => Sound(r)'
  BY <1>2 DEF Sound, Delegates
<1> QED
  BY <1>1, <1>2, <1>3, <1>4, <1>5 DEF CountInv, DeniedAfterARun, Delegates

\* A hook replaces state.json and ends, or ends without touching it.
LEMMA EndCounts ==
  ASSUME CountInv, NEW s \in Slots, Write(s) \/ Pass(s)
  PROVE  CountInv'
<1>1. TypeOK'
  BY NextTypes DEF CountInv, Next
<1>2. /\ UNCHANGED <<message, sentAt, before, run, lastSent, now>>
      /\ hook'[s].step = "done"
      /\ \A t \in Slots \ {s} : hook'[t] = hook[t]
      /\ hook[s].step = "judging"
  BY DEF Write, Pass, ghosts, CountInv, TypeOK
<1>3. ~Judged /\ now - sentAt < BatchGap
  BY <1>2 DEF CountInv, Judged
<1>4. \A t \in Slots \ {s} : Busy(t) => Busy(t)'
  BY <1>2 DEF Busy
<1>5. ASSUME NEW r, NEW q, r.count = q.count, r.lastAt = q.lastAt, Sound(q)
      PROVE  Sound(r)'
  BY <1>2, <1>5 DEF Sound, Delegates
<1>6. hook[s].read \in State /\ hook[s].at \in Int /\ Sound(hook[s].read)
  BY <1>2 DEF CountInv, TypeOK
<1>7. Sound(stored)' /\ (message[s] # NoCall /\ Plain(message[s]) /\ hook'[s].verdict = "deny" => run >= Threshold)
  <2>1. CASE Pass(s)
    <3>1. stored' = stored /\ ~Plain(message[s])
      BY <2>1 DEF Pass, Ignored
    <3> QED
      BY <1>5, <3>1 DEF CountInv
  <2>2. CASE Write(s) /\ ~Plain(message[s])
    <3>1. stored'.count = hook[s].read.count /\ stored'.lastAt = hook[s].read.lastAt
      BY <2>2, WriteTypes DEF CountInv
    <3> QED
      BY <1>5, <1>6, <2>2, <3>1
  <2>3. CASE Write(s) /\ Plain(message[s])
    <3> DEFINE n == NextCount(hook[s].read, hook[s].at)
    <3>1. /\ stored' = JudgeDelegation(hook[s].read, hook[s].at).state
          /\ hook'[s].verdict = JudgeDelegation(hook[s].read, hook[s].at).verdict
      BY <2>3, WriteTypes DEF CountInv
    <3>2. stored'.count = n /\ stored'.lastAt = hook[s].at
      BY <3>1 DEF JudgeDelegation
    <3>3. hook'[s].verdict = "deny" => ~(n < Threshold)
      BY <3>1 DEF JudgeDelegation
    <3>4. Delegates(message) /\ lastSent = sentAt /\ run >= 1
      BY <1>2, <2>3 DEF CountInv, Delegates, Busy
    <3>5. sentAt <= hook[s].at /\ hook[s].at - sentAt < BatchGap
      BY <1>2 DEF CountInv
    <3>6. n <= before + 1 /\ (n <= run \/ run = Threshold) /\ n \in Nat
      BY <1>6, <3>4, <3>5, NextCountSound, ReadingTypes DEF CountInv
    <3> HIDE DEF n
    <3>7. /\ before \in Nat /\ run \in Nat /\ sentAt \in Int /\ lastSent \in Int
      BY DEF CountInv, TypeOK
    <3>8. Sound(stored)'
      BY <1>2, <1>6, <3>2, <3>4, <3>5, <3>6, <3>7, ParameterAssumption DEF Sound
    <3> QED
      BY <3>3, <3>6, <3>7, <3>8, ParameterAssumption
  <2> QED
    BY <2>1, <2>2, <2>3
<1>8. \A t \in Slots \ {s} :
        hook'[t].step = "judging" =>
          /\ Busy(t)'
          /\ sentAt <= hook'[t].at /\ hook'[t].at - sentAt < BatchGap
          /\ Sound(hook[t].read)'
  BY <1>2, <1>4, <1>5 DEF CountInv
<1> QED
  BY <1>1, <1>2, <1>3, <1>7, <1>8 DEF CountInv, DeniedAfterARun, Delegates

\* The counting invariant holds from the start and is kept by every step.
LEMMA CountStep == (Init => CountInv) /\ (CountInv /\ [Next]_vars => CountInv')
<1>1. ASSUME Init PROVE CountInv
  <2>1. /\ stored = Fresh /\ now = 0 /\ sentAt = 0 /\ before = 0 /\ run = 0 /\ lastSent = Never
        /\ \A s \in Slots : hook[s].step = "waiting" /\ message[s] = NoCall
    BY <1>1 DEF Init, Waiting
  <2>2. Judged /\ ~Delegates(message)
    BY <2>1 DEF Judged, Busy, Delegates
  <2>3. Sound(stored)
    BY <2>1, <2>2, ParameterAssumption DEF Sound, Fresh, Never
  <2> QED
    BY <1>1, <2>1, <2>2, <2>3, InitTypes, ParameterAssumption DEF CountInv, Never, DeniedAfterARun
<1>2. ASSUME CountInv, [Next]_vars PROVE CountInv'
  <2>1. CASE Tick
    <3>1. TypeOK'
      BY <1>2, NextTypes DEF CountInv
    <3>2. /\ UNCHANGED <<stored, hook, message, sentAt, before, run, lastSent>> /\ now' = now + 1
          /\ Judged \/ now + 1 - sentAt < BatchGap
      BY <2>1 DEF Tick, ghosts
    <3>3. (\A r : Sound(r) => Sound(r)') /\ (Judged <=> Judged') /\ \A s : Busy(s) <=> Busy(s)'
      BY <3>2 DEF Sound, Delegates, Judged, Busy
    <3>4. now \in Nat /\ sentAt \in Int /\ lastSent \in Int
      BY <1>2 DEF CountInv, TypeOK
    <3> QED
      BY <1>2, <3>1, <3>2, <3>3, <3>4 DEF CountInv, DeniedAfterARun, Delegates
  <2>2. CASE UNCHANGED vars
    <3>1. UNCHANGED <<stored, hook, message, sentAt, before, run, lastSent, now>>
      BY <2>2 DEF vars, ghosts
    <3> QED
      BY <1>2, <3>1 DEF CountInv, TypeOK, Sound, Delegates, Judged, Busy, DeniedAfterARun
  <2> QED
    BY <1>2, <2>1, <2>2, SendCounts, ReadCounts, EndCounts DEF Next
<1> QED
  BY <1>1, <1>2

\* However the hooks of a message interleave and overwrite each other's state, the message
\* raises the count by one at most.
THEOREM BatchIsOne == Spec => []BatchCountsOnce
<1>1. CountInv => BatchCountsOnce
  <2> SUFFICES ASSUME CountInv PROVE BatchCountsOnce
    OBVIOUS
  <2>1. stored.count \in Nat /\ before \in Nat
    BY DEF CountInv, TypeOK, State
  <2> QED
    BY <2>1 DEF CountInv, Sound, BatchCountsOnce
<1> QED
  BY <1>1, CountStep, PTL DEF Spec

\* No delegation is denied but after Threshold messages that delegated in a row.
THEOREM DenialIsEarned == Spec => []DeniedAfterARun
<1>1. CountInv => DeniedAfterARun
  BY DEF CountInv
<1> QED
  BY <1>1, CountStep, PTL DEF Spec

\* Once a plain delegation of a message of delegations is judged, the streak is gone and
\* no hook of that message brings it back.
WayInv ==
  /\ CountInv
  /\ OnlyDelegates =>
       \A s \in Slots : Busy(s) \/ message[s] = NoCall \/ ~Plain(message[s]) \/ stored.selfFiles = {}

\* A message of delegations leaves the agent a way out of the second trigger, in whatever
\* order its hooks run and whether they deny it or not.
THEOREM DelegatingIsTheWayOut == Spec => []WayOut
<1>1. Init => WayInv
  <2> SUFFICES ASSUME Init PROVE WayInv
    OBVIOUS
  <2>1. \A s \in Slots : message[s] = NoCall
    BY DEF Init
  <2> QED
    BY <2>1, CountStep DEF WayInv
<1>2. WayInv /\ [Next]_vars => WayInv'
  <2> SUFFICES ASSUME WayInv, [Next]_vars PROVE WayInv'
    OBVIOUS
  <2>1. CountInv'
    BY CountStep DEF WayInv
  <2>2. ASSUME NEW m \in [Slots -> Call \cup {NoCall}], Send(m)
        PROVE  WayInv'
    <3>1. \A s \in Slots : message'[s] = NoCall \/ Busy(s)'
      BY <2>2 DEF Send, Busy, Waiting
    <3> QED
      BY <2>1, <3>1 DEF WayInv
  <2>3. ASSUME NEW s \in Slots, Read(s)
        PROVE  WayInv'
    <3>1. /\ UNCHANGED <<stored, message>>
          /\ hook'[s].step = "judging" /\ Busy(s)
          /\ \A t \in Slots \ {s} : hook'[t] = hook[t]
      BY <2>3 DEF Read, ghosts, WayInv, CountInv, TypeOK
    <3>2. \A t \in Slots : Busy(t) => Busy(t)'
      BY <3>1 DEF Busy
    <3> QED
      BY <2>1, <3>1, <3>2 DEF WayInv, OnlyDelegates
  <2>4. ASSUME NEW s \in Slots, Pass(s)
        PROVE  WayInv'
    <3>1. /\ UNCHANGED <<stored, message>> /\ ~Plain(message[s])
          /\ \A t \in Slots \ {s} : hook'[t] = hook[t]
      BY <2>4 DEF Pass, Ignored, ghosts, WayInv, CountInv, TypeOK
    <3>2. \A t \in Slots \ {s} : Busy(t) => Busy(t)'
      BY <3>1 DEF Busy
    <3> QED
      BY <2>1, <3>1, <3>2 DEF WayInv, OnlyDelegates
  <2>5. ASSUME NEW s \in Slots, Write(s)
        PROVE  WayInv'
    <3> SUFFICES ASSUME OnlyDelegates PROVE stored'.selfFiles = {}
      <4>1. UNCHANGED message
        BY <2>5 DEF Write, ghosts
      <4> QED
        BY <2>1, <4>1 DEF WayInv, OnlyDelegates
    <3>1. message[s] # NoCall
      BY <2>5 DEF Write, WayInv, CountInv, Busy
    <3>2. message[s].kind = "delegate"
      BY <3>1 DEF OnlyDelegates, Delegation
    <3>3. Plain(message[s])
      BY <2>5, <3>2 DEF Write, Ignored, Counted, Edit
    <3> QED
      BY <2>5, <3>3, WriteTypes DEF WayInv, CountInv, JudgeDelegation
  <2>6. CASE Tick \/ UNCHANGED vars
    <3>1. UNCHANGED <<stored, hook, message>>
      BY <2>6 DEF Tick, vars, ghosts
    <3> QED
      BY <2>1, <3>1 DEF WayInv, OnlyDelegates, Busy
  <2> QED
    BY <2>2, <2>3, <2>4, <2>5, <2>6 DEF Next
<1>3. WayInv => WayOut
  BY DEF WayInv, WayOut, Judged, Delegates
<1> QED
  BY <1>1, <1>2, <1>3, PTL DEF Spec

-----------------------------------------------------------------------------
(* The research gates keep session files of the same kind: the trackers of one *)
(* call read them, and replace them whole, beside those of others.             *)

\* Every agent has its hooks' variables, and a hook that reads has something to track.
HooksInv ==
  /\ DOMAIN ran = Actors /\ DOMAIN tracking = Actors
  /\ DOMAIN reading = Actors /\ DOMAIN sawEngram = Actors
  /\ \A a \in Actors : reading[a] => tracking[a] # {}

\* What engram-first's file says of the research once the tracker of a has written.
DueAfter(a) == EngramAfter(ran[a], engram).due

\* While no calls cross: one tracker of engram-first at most, that read what the file holds,
\* and research nobody saved is in the file, or will be when that tracker writes.
DueInv ==
  "engram-first" \in enabled /\ ~crossed =>
    /\ \A a, b \in Actors : IsTracked(a) /\ IsTracked(b) => a = b
    /\ \A a \in Actors : IsTracked(a) /\ reading[a] => sawEngram[a] = engram
    /\ (\A a \in Actors : ~IsTracked(a)) => (owed => engram.due)
    /\ \A a \in Actors : IsTracked(a) => (owed => DueAfter(a))

ResearchInv == HooksInv /\ DueInv

\* No research and no trackers at first.
LEMMA InitResearch == ResearchInit => ResearchInv
  <1> SUFFICES ASSUME ResearchInit PROVE ResearchInv
    OBVIOUS
  <1>1. HooksInv BY DEF ResearchInit, HooksInv
  <1>2. \A a \in Actors : ~IsTracked(a) BY DEF ResearchInit, IsTracked
  <1> QED BY <1>1, <1>2 DEF ResearchInit, ResearchInv, DueInv

\* Steps that leave the hooks, the file and the history alone.
LEMMA ResearchKept ==
  ASSUME ResearchInv, UNCHANGED <<enabled, engram, hooks, history>>
  PROVE  ResearchInv'
  BY DEF ResearchInv, HooksInv, DueInv, DueAfter, IsTracked, EngramAfter, Researches,
         hooks, history

\* A lookup runs: its tracker, if it has one, is the only one or the calls cross.
LEMMA LookUpKeeps ==
  ASSUME ResearchInv, NEW a \in Actors, NEW c, LookUp(a, c)
  PROVE  ResearchInv'
  <1>1. PICK finds : ran' = [ran EXCEPT ![a] = [kind |-> c.kind, about |-> c.about, finds |-> finds]]
    BY DEF LookUp
  <1>2. /\ tracking[a] = {} /\ c.kind \in Lookups
        /\ tracking' = [tracking EXCEPT ![a] = TrackersOf(c)]
        /\ owed' = (Researches(c) \/ (owed /\ c.kind # "save"))
        /\ crossed' = \/ \E b \in Actors : IsTracked(b)
                      \/ (crossed /\ ~Researches(c) /\ c.kind # "save")
        /\ enabled' = enabled /\ engram' = engram /\ reading' = reading /\ sawEngram' = sawEngram
    BY DEF LookUp, IsNext, session
  <1>3. HooksInv'
    <2>1. /\ DOMAIN ran' = Actors /\ DOMAIN tracking' = Actors
          /\ DOMAIN reading' = Actors /\ DOMAIN sawEngram' = Actors
      BY <1>1, <1>2 DEF ResearchInv, HooksInv
    <2>2. ASSUME NEW b \in Actors, reading'[b] PROVE tracking'[b] # {}
      <3>1. tracking[b] # {} BY <1>2, <2>2 DEF ResearchInv, HooksInv
      <3>2. tracking'[b] = tracking[b] BY <1>2, <3>1 DEF ResearchInv, HooksInv
      <3> QED BY <3>1, <3>2
    <2> QED BY <2>1, <2>2 DEF HooksInv
  <1>4. ASSUME "engram-first" \in enabled, ~crossed'
        PROVE  /\ \A b, d \in Actors : IsTracked(b)' /\ IsTracked(d)' => b = d
               /\ \A b \in Actors : IsTracked(b)' /\ reading'[b] => sawEngram'[b] = engram'
               /\ (\A b \in Actors : ~IsTracked(b)') => (owed' => engram'.due)
               /\ \A b \in Actors : IsTracked(b)' => (owed' => DueAfter(b)')
    <2>1. \A b \in Actors : ~IsTracked(b) BY <1>2, <1>4
    <2>2. \A b \in Actors : b # a => ~IsTracked(b)'
      BY <1>2, <2>1 DEF IsTracked, ResearchInv, HooksInv
    <2>3. ~reading'[a] BY <1>2 DEF ResearchInv, HooksInv
    <2>4. ~Researches(c) /\ c.kind # "save" => (owed => engram.due)
      <3>1. ~Researches(c) /\ c.kind # "save" => ~crossed BY <1>2, <1>4
      <3> QED BY <3>1, <1>4, <2>1 DEF ResearchInv, DueInv
    <2>5. tracking'[a] = TrackersOf(c) BY <1>2 DEF ResearchInv, HooksInv
    <2>6. ran'[a] = [kind |-> c.kind, about |-> c.about, finds |-> finds]
      BY <1>1 DEF ResearchInv, HooksInv
    <2>7. ~IsTracked(a)' => ~Researches(c) /\ c.kind # "save"
      BY <2>5, <1>4 DEF IsTracked, TrackersOf, Researches
    <2>8. (\A b \in Actors : ~IsTracked(b)') => (owed' => engram'.due)
      BY <2>4, <2>7, <1>2
    <2>9. owed' => DueAfter(a)'
      <3>1. Researches(ran'[a]) <=> Researches(c) BY <2>6 DEF Researches
      <3>2. ran'[a].kind = c.kind BY <2>6
      <3>3. DueAfter(a)' <=> (Researches(ran'[a]) \/ (engram'.due /\ ran'[a].kind # "save"))
        BY DEF DueAfter, EngramAfter, Researches
      <3> QED BY <3>1, <3>2, <3>3, <2>4, <1>2
    <2> QED BY <2>2, <2>3, <2>8, <2>9
  <1> QED BY <1>2, <1>3, <1>4 DEF ResearchInv, DueInv

\* The trackers of a call read the file as it is.
LEMMA ReadKeeps ==
  ASSUME ResearchInv, NEW a \in Actors, ReadFiles(a)
  PROVE  ResearchInv'
  <1>1. /\ tracking[a] # {} /\ tracking' = tracking /\ ran' = ran
        /\ reading' = [reading EXCEPT ![a] = TRUE]
        /\ sawEngram' = [sawEngram EXCEPT ![a] = IF IsTracked(a) THEN engram ELSE NothingSearched]
        /\ enabled' = enabled /\ engram' = engram /\ owed' = owed /\ crossed' = crossed
    BY DEF ReadFiles, session, history
  <1>2. HooksInv' BY <1>1 DEF ResearchInv, HooksInv
  <1>3. \A b \in Actors : /\ IsTracked(b)' <=> IsTracked(b)
                          /\ DueAfter(b)' <=> DueAfter(b)
    BY <1>1 DEF IsTracked, DueAfter, EngramAfter, Researches
  <1>4. ASSUME NEW b \in Actors, IsTracked(b), reading'[b],
               \A d \in Actors : IsTracked(d) /\ reading[d] => sawEngram[d] = engram
        PROVE  sawEngram'[b] = engram'
    <2>1. CASE b = a BY <1>1, <1>4, <2>1 DEF ResearchInv, HooksInv
    <2>2. CASE b # a BY <1>1, <1>4, <2>2 DEF ResearchInv, HooksInv
    <2> QED BY <2>1, <2>2
  <1> QED BY <1>1, <1>2, <1>3, <1>4 DEF ResearchInv, DueInv

\* A tracker writes: engram-first's is the one that was awaited.
LEMMA TrackKeeps ==
  ASSUME ResearchInv, NEW a \in Actors, NEW tracker, Track(a, tracker)
  PROVE  ResearchInv'
  <1>1. /\ reading[a] /\ tracker \in tracking[a]
        /\ tracking' = [tracking EXCEPT ![a] = @ \ {tracker}]
        /\ reading' = [reading EXCEPT ![a] = tracking'[a] # {}]
        /\ ran' = [ran EXCEPT ![a] = IF tracking'[a] = {} THEN CallOf("web", {}) ELSE @]
        /\ enabled' = enabled /\ owed' = owed /\ crossed' = crossed
    BY DEF Track, history
  <1>2. IF tracker = "engram-first"
        THEN /\ engram' = EngramAfter(ran[a], sawEngram[a])
             /\ sawEngram' = [sawEngram EXCEPT ![a] = NothingSearched]
        ELSE engram' = engram /\ sawEngram' = sawEngram
    BY DEF Track
  <1>h. HooksInv BY DEF ResearchInv
  <1>3. \A b \in Actors : b # a => /\ tracking'[b] = tracking[b] /\ reading'[b] = reading[b]
                                   /\ ran'[b] = ran[b] /\ sawEngram'[b] = sawEngram[b]
    BY <1>1, <1>2, <1>h DEF HooksInv
  <1>4. /\ tracking'[a] = tracking[a] \ {tracker}
        /\ reading'[a] = (tracking'[a] # {})
        /\ tracking'[a] # {} => ran'[a] = ran[a]
    BY <1>1, <1>h DEF HooksInv
  <1>5. HooksInv'
    <2>1. /\ DOMAIN ran' = Actors /\ DOMAIN tracking' = Actors
          /\ DOMAIN reading' = Actors /\ DOMAIN sawEngram' = Actors
      BY <1>1, <1>2, <1>h DEF HooksInv
    <2>2. \A b \in Actors : reading'[b] => tracking'[b] # {}
      BY <1>3, <1>4, <1>h DEF HooksInv
    <2> QED BY <2>1, <2>2 DEF HooksInv
  <1>6. ASSUME "engram-first" \in enabled, ~crossed
        PROVE  /\ \A b, d \in Actors : IsTracked(b)' /\ IsTracked(d)' => b = d
               /\ \A b \in Actors : IsTracked(b)' /\ reading'[b] => sawEngram'[b] = engram'
               /\ (\A b \in Actors : ~IsTracked(b)') => (owed => engram'.due)
               /\ \A b \in Actors : IsTracked(b)' => (owed => DueAfter(b)')
    <2>1. /\ \A b, d \in Actors : IsTracked(b) /\ IsTracked(d) => b = d
          /\ \A b \in Actors : IsTracked(b) /\ reading[b] => sawEngram[b] = engram
          /\ (\A b \in Actors : ~IsTracked(b)) => (owed => engram.due)
          /\ \A b \in Actors : IsTracked(b) => (owed => DueAfter(b))
      BY <1>6 DEF ResearchInv, DueInv
    <2>2. CASE tracker = "engram-first"
      <3>1. IsTracked(a) BY <1>1, <2>2 DEF IsTracked
      <3>2. \A b \in Actors : ~IsTracked(b)'
        BY <1>3, <1>4, <2>1, <2>2, <3>1 DEF IsTracked
      <3>3. engram' = EngramAfter(ran[a], engram) BY <1>1, <1>2, <2>1, <2>2, <3>1
      <3>4. owed => engram'.due BY <2>1, <3>1, <3>3 DEF DueAfter
      <3> QED BY <3>2, <3>4
    <2>3. CASE tracker # "engram-first"
      <3>1. engram' = engram /\ sawEngram' = sawEngram BY <1>2, <2>3
      <3>2. \A b \in Actors : IsTracked(b)' <=> IsTracked(b)
        BY <1>3, <1>4, <2>3 DEF IsTracked
      <3>3. \A b \in Actors : IsTracked(b) => ran'[b] = ran[b]
        BY <1>3, <1>4, <2>3 DEF IsTracked
      <3>4. \A b \in Actors : IsTracked(b) => (reading'[b] => reading[b])
        BY <1>1, <1>3
      <3>5. \A b \in Actors : IsTracked(b) => (DueAfter(b)' <=> DueAfter(b))
        BY <3>1, <3>3 DEF DueAfter, EngramAfter, Researches
      <3> QED BY <2>1, <3>1, <3>2, <3>4, <3>5
    <2> QED BY <2>2, <2>3
  <1> QED BY <1>1, <1>5, <1>6 DEF ResearchInv, DueInv

\* Every step keeps the file true to the research, unless calls cross.
LEMMA ResearchStep == ResearchInv /\ [ResearchNext]_researchVars => ResearchInv'
  <1> SUFFICES ASSUME ResearchInv, [ResearchNext]_researchVars PROVE ResearchInv'
    OBVIOUS
  <1>u. CASE UNCHANGED researchVars
    BY <1>u, ResearchKept DEF researchVars, session
  <1>1. ASSUME NEW a \in Actors, Wish(a) PROVE ResearchInv'
    BY <1>1, ResearchKept DEF Wish, session
  <1>2. ASSUME NEW a \in Actors, NEW c,
               ResearchDenied(a, c) \/ WriteDenied(a, c) \/ StopBlocked(a, c)
        PROVE  ResearchInv'
    BY <1>2, ResearchKept DEF ResearchDenied, WriteDenied, StopBlocked, DoFirst, session
  <1>3. ASSUME NEW a \in Actors, NEW c, WriteGoes(a, c) \/ EndTurn(a, c) \/ Fail(a, c)
        PROVE  ResearchInv'
    BY <1>3, ResearchKept DEF WriteGoes, EndTurn, Fail, session
  <1>4. ASSUME NEW a \in Actors, NEW c, LookUp(a, c) PROVE ResearchInv'
    BY <1>4, LookUpKeeps
  <1>5. ASSUME NEW a \in Actors, ReadFiles(a) PROVE ResearchInv'
    BY <1>5, ReadKeeps
  <1>6. ASSUME NEW a \in Actors, NEW tracker, Track(a, tracker) PROVE ResearchInv'
    BY <1>6, TrackKeeps
  <1> QED BY <1>u, <1>1, <1>2, <1>3, <1>4, <1>5, <1>6 DEF ResearchNext, Proceed

\* For any agents, packages, goals and servers: a turn does not end at the first try with
\* research nobody saved, unless calls crossed or their trackers are still to write.
THEOREM ResearchGetsSaved == ResearchSpec => ResearchIsSaved
  <1> DEFINE Saved == EndTurn(Main, Head(plan[Main])) /\ "engram-first" \in enabled
                        /\ "engram" \in installed
                      => again \/ crossed \/ ~owed \/ \E a \in Actors : IsTracked(a)
  <1>1. ResearchInv => Saved
    BY DEF ResearchInv, DueInv, EndTurn, StopBlocks
  <1>2. ResearchInv /\ [ResearchNext]_researchVars => [Saved]_researchVars BY <1>1
  <1> QED BY InitResearch, ResearchStep, <1>2, PTL DEF ResearchSpec, ResearchIsSaved

-----------------------------------------------------------------------------
\* The trackers of library-docs are those of calls it knows what to note of.
NotesInv ==
  \A a \in Actors : "library-docs" \in tracking[a] => ran[a].kind \in {"search", "docs", "save"}

ResearchTypeInv == ResearchTypeOK /\ NotesInv

\* A list of library-docs' file is a sequence that MAX_ENTRIES bounds, and it may be empty.
LEMMA EntriesAreShort ==
  /\ \A list : list \in Entries <=> list \in Seq(SUBSET Packages) /\ Len(list) <= MaxEntries
  /\ NothingSearched \in EngramFiles /\ NothingKnown \in LibraryFiles
  <1>1. \A list : list \in Entries <=> list \in Seq(SUBSET Packages) /\ Len(list) <= MaxEntries
    BY InputsAssumption DEF Entries
  <1>2. <<>> \in [1 .. 0 -> SUBSET Packages] /\ 0 \in 0 .. MaxEntries BY InputsAssumption
  <1>3. <<>> \in Entries BY <1>2 DEF Entries
  <1>4. NothingKnown \in LibraryFiles BY <1>3 DEF NothingKnown, LibraryFiles
  <1> QED BY <1>1, <1>4 DEF NothingSearched, EngramFiles

\* Whatever a tracker notes, the list stays one.
LEMMA RememberTypes ==
  ASSUME NEW list \in Entries, NEW about \in SUBSET Packages
  PROVE  Remember(list, about) \in Entries
  <1>1. list \in Seq(SUBSET Packages) /\ Len(list) <= MaxEntries BY EntriesAreShort
  <1>2. CASE Len(list) < MaxEntries
    <2>1. /\ Append(list, about) \in Seq(SUBSET Packages)
          /\ Len(Append(list, about)) = Len(list) + 1
      BY <1>1
    <2>2. Len(list) + 1 <= MaxEntries BY <1>1, <1>2, InputsAssumption
    <2>3. Append(list, about) \in Entries BY <2>1, <2>2, EntriesAreShort
    <2> QED BY <1>2, <2>3 DEF Remember
  <1>3. CASE ~(Len(list) < MaxEntries)
    <2>1. list # <<>> BY <1>1, <1>3, InputsAssumption
    <2>2. Tail(list) \in Seq(SUBSET Packages) /\ Len(Tail(list)) = Len(list) - 1
      BY <1>1, <2>1
    <2>3. /\ Append(Tail(list), about) \in Seq(SUBSET Packages)
          /\ Len(Append(Tail(list), about)) = Len(list)
      BY <1>1, <2>2
    <2> QED BY <1>1, <1>3, <2>3, EntriesAreShort DEF Remember
  <1> QED BY <1>2, <1>3

\* A tracker writes a file of the type it read.
LEMMA AfterTypes ==
  ASSUME NEW c \in Calls
  PROVE  /\ \A file \in EngramFiles : EngramAfter(c, file) \in EngramFiles
         /\ c.kind \in {"search", "docs", "save"} =>
              \A file \in LibraryFiles : LibraryAfter(c, file) \in LibraryFiles
  <1>1. \A file \in EngramFiles : EngramAfter(c, file) \in EngramFiles
    BY DEF EngramFiles, EngramAfter, Researches, Calls
  <1>2. ASSUME c.kind \in {"search", "docs", "save"}, NEW file \in LibraryFiles
        PROVE  LibraryAfter(c, file) \in LibraryFiles
    <2>0. c.about \in SUBSET Packages BY DEF Calls
    <2>1. /\ Remember(file.hits, c.about) \in Entries /\ Remember(file.docs, c.about) \in Entries
          /\ Remember(file.saves, c.about) \in Entries
      BY <2>0, RememberTypes DEF LibraryFiles
    <2> HIDE DEF Entries
    <2> QED BY <1>2, <2>1 DEF LibraryAfter, LibraryFiles
  <1> QED BY <1>1, <1>2

\* What a gate asks for is a list of calls.
LEMMA RemedyTypes ==
  /\ \A kind \in Lookups, about \in SUBSET Packages : CallOf(kind, about) \in Calls
  /\ \A p \in Packages : RemedyFor(p) \in Seq(Calls)
  /\ \A c \in Calls : \A calls \in LibraryRemedies(c) : calls \in Seq(Calls)
  <1>1. \A kind \in Lookups, about \in SUBSET Packages : CallOf(kind, about) \in Calls
    BY DEF CallOf, Calls
  <1>2. ASSUME NEW p \in Packages PROVE RemedyFor(p) \in Seq(Calls)
    <2>1. /\ CallOf("search", {p}) \in Calls /\ CallOf("docs", {p}) \in Calls
          /\ CallOf("save", {p}) \in Calls
      BY <1>1 DEF Lookups
    <2> DEFINE If(step, call) == IF step THEN <<call>> ELSE <<>>
    <2>2. \A step \in BOOLEAN, call \in Calls : If(step, call) \in Seq(Calls) OBVIOUS
    <2> QED BY <2>1 DEF RemedyFor
  <1>3. ASSUME NEW c \in Calls, NEW calls \in LibraryRemedies(c) PROVE calls \in Seq(Calls)
    <2>1. Unknown(c) \subseteq Packages BY DEF Unknown, Calls
    <2>2. CASE "opaque" \in c.finds BY <1>3, <2>2 DEF LibraryRemedies
    <2>3. CASE "opaque" \notin c.finds BY <1>2, <1>3, <2>1, <2>3 DEF LibraryRemedies
    <2> QED BY <2>2, <2>3
  <1> QED BY <1>1, <1>2, <1>3

\* Plans of calls, no hook at work, empty files.
LEMMA InitResearchTypes == ResearchInit => ResearchTypeInv
  <1> SUFFICES ASSUME ResearchInit PROVE ResearchTypeInv
    OBVIOUS
  <1>1. CallOf("web", {}) \in Calls BY DEF CallOf, Calls, Lookups
  <1>2. NothingSearched \in EngramFiles BY EntriesAreShort
  <1>3. NothingKnown \in LibraryFiles BY EntriesAreShort
  <1>4. plan \in [Actors -> Seq(Calls)] /\ ran \in [Actors -> Calls]
    BY <1>1 DEF ResearchInit
  <1>5. goals \in [Actors -> Nat] /\ \A a \in Actors : goals[a] <= MaxGoals[a]
    BY InputsAssumption DEF ResearchInit
  <1>6. /\ tracking \in [Actors -> SUBSET Gates] /\ reading \in [Actors -> BOOLEAN]
        /\ sawEngram \in [Actors -> EngramFiles] /\ sawLibrary \in [Actors -> LibraryFiles]
    BY <1>2, <1>3 DEF ResearchInit
  <1>7. installed \subseteq {"engram", "context7"} /\ enabled \subseteq Gates
    BY InputsAssumption DEF ResearchInit
  <1>8. failures \in 0 .. MaxFailures BY InputsAssumption DEF ResearchInit
  <1>9. NotesInv BY DEF ResearchInit, NotesInv
  <1> QED BY <1>2, <1>3, <1>4, <1>5, <1>6, <1>7, <1>8, <1>9
          DEF ResearchInit, ResearchTypeInv, ResearchTypeOK

\* The hooks' half of the types, and the files'.
HookTypes ==
  /\ engram \in EngramFiles /\ library \in LibraryFiles /\ invoked \in BOOLEAN
  /\ ran \in [Actors -> Calls]
  /\ tracking \in [Actors -> SUBSET Gates] /\ reading \in [Actors -> BOOLEAN]
  /\ sawEngram \in [Actors -> EngramFiles] /\ sawLibrary \in [Actors -> LibraryFiles]
  /\ NotesInv

\* The agents' half.
AgentTypes ==
  /\ installed \subseteq {"engram", "context7"} /\ enabled \subseteq Gates
  /\ used \subseteq Packages /\ again \in BOOLEAN
  /\ plan \in [Actors -> Seq(Calls)]
  /\ goals \in [Actors -> Nat] /\ \A a \in Actors : goals[a] <= MaxGoals[a]
  /\ failures \in 0 .. MaxFailures
  /\ owed \in BOOLEAN /\ crossed \in BOOLEAN

\* The two halves are the invariant.
LEMMA TypeHalves ==
  /\ ResearchTypeInv => HookTypes /\ AgentTypes
  /\ HookTypes' /\ AgentTypes' => ResearchTypeInv'
  BY DEF ResearchTypeInv, ResearchTypeOK, HookTypes, AgentTypes

\* Nothing else is said of the hooks' variables.
LEMMA HookTypesKept == HookTypes /\ UNCHANGED <<session, hooks>> => HookTypes'
  BY DEF HookTypes, NotesInv, session, hooks

\* The head of a plan is a call, and so is what follows a list of.
LEMMA PlanTypes ==
  ASSUME AgentTypes, NEW a \in Actors, NEW c, IsNext(a, c)
  PROVE  c \in Calls /\ Tail(plan[a]) \in Seq(Calls)
  BY DEF AgentTypes, IsNext

\* What an agent is told to do first is put before a call it already meant to make.
LEMMA DoFirstTypes ==
  ASSUME AgentTypes, NEW a \in Actors, NEW calls \in Seq(Calls), NEW c \in Calls,
         plan[a] # <<>>, DoFirst(a, calls, c), again' \in BOOLEAN
  PROVE  AgentTypes'
  <1>1. Tail(plan[a]) \in Seq(Calls) BY DEF AgentTypes
  <1>2. calls \o <<c>> \o Tail(plan[a]) \in Seq(Calls) BY <1>1
  <1>3. plan' \in [Actors -> Seq(Calls)] BY <1>2 DEF DoFirst, AgentTypes
  <1> QED BY <1>3 DEF DoFirst, AgentTypes, history

\* An agent whose call goes on its way keeps the rest of its plan.
LEMMA PlanShrinks ==
  ASSUME AgentTypes, NEW a \in Actors, NEW rest \in Seq(Calls),
         plan' = [plan EXCEPT ![a] = rest]
  PROVE  plan' \in [Actors -> Seq(Calls)]
  BY DEF AgentTypes

\* A goal becomes the plan of an agent that has none.
LEMMA WishTypes ==
  ASSUME AgentTypes, NEW a \in Actors, Wish(a)
  PROVE  AgentTypes'
  <1>1. PICK goal \in Goals : plan' = [plan EXCEPT ![a] = <<goal>>] BY DEF Wish
  <1>2. <<goal>> \in Seq(Calls) BY InputsAssumption
  <1>3. plan' \in [Actors -> Seq(Calls)] BY <1>1, <1>2, PlanShrinks
  <1>4. goals' \in [Actors -> Nat] /\ \A b \in Actors : goals'[b] <= MaxGoals[b]
    <2>1. /\ goals' = [goals EXCEPT ![a] = @ + 1] /\ goals[a] < MaxGoals[a]
          /\ goals[a] \in Nat /\ MaxGoals[a] \in Nat
      BY InputsAssumption DEF Wish, AgentTypes
    <2>2. goals[a] + 1 \in Nat /\ goals[a] + 1 <= MaxGoals[a] BY <2>1
    <2> QED BY <2>1, <2>2 DEF AgentTypes
  <1> QED BY <1>3, <1>4 DEF Wish, AgentTypes, history

\* A denied call is tried again after what the denial asks for.
LEMMA DeniedTypes ==
  ASSUME AgentTypes, NEW a \in Actors, NEW c,
         ResearchDenied(a, c) \/ WriteDenied(a, c) \/ StopBlocked(a, c)
  PROVE  AgentTypes'
  <1>1. IsNext(a, c) /\ plan[a] # <<>> /\ again' \in BOOLEAN
    BY DEF ResearchDenied, WriteDenied, StopBlocked, IsNext, AgentTypes
  <1>2. c \in Calls BY <1>1, PlanTypes
  <1>3. CASE ResearchDenied(a, c)
    <2>1. <<CallOf("search", c.about)>> \in Seq(Calls) BY <1>2, RemedyTypes DEF Calls, Lookups
    <2> QED BY <1>1, <1>2, <1>3, <2>1, DoFirstTypes DEF ResearchDenied
  <1>4. CASE StopBlocked(a, c)
    <2>1. <<CallOf("save", {})>> \in Seq(Calls) BY RemedyTypes DEF Lookups
    <2> QED BY <1>1, <1>2, <1>4, <2>1, DoFirstTypes DEF StopBlocked
  <1>5. CASE WriteDenied(a, c)
    <2> DEFINE Left(loads) ==
          [c EXCEPT !.finds = @ \ ((IF LibraryDenies(c) THEN {"opaque"} ELSE {})
                                   \cup (IF SkillDenies(c) /\ ~loads THEN {"relevant"} ELSE {}))]
    <2> DEFINE Skill(loads) == IF loads THEN <<CallOf("skill", {})>> ELSE <<>>
    <2>1. PICK calls \in IF LibraryDenies(c) THEN LibraryRemedies(c) ELSE {<<>>},
               loads \in BOOLEAN : DoFirst(a, calls \o Skill(loads), Left(loads))
      BY <1>5 DEF WriteDenied
    <2>2. calls \in Seq(Calls)
      <3>1. CASE LibraryDenies(c) BY <1>2, <3>1, RemedyTypes
      <3>2. CASE ~LibraryDenies(c) BY <3>2
      <3> QED BY <3>1, <3>2
    <2>3. Skill(loads) \in Seq(Calls) BY RemedyTypes DEF Lookups
    <2>4. Left(loads) \in Calls BY <1>2 DEF Calls
    <2> HIDE DEF Left, Skill
    <2>5. calls \o Skill(loads) \in Seq(Calls) BY <2>2, <2>3
    <2> QED BY <1>1, <2>1, <2>4, <2>5, DoFirstTypes
  <1> QED BY <1>3, <1>4, <1>5

\* A call that runs, or fails, leaves the plan.
LEMMA GoneTypes ==
  ASSUME AgentTypes, NEW a \in Actors, NEW c,
         WriteGoes(a, c) \/ EndTurn(a, c) \/ Fail(a, c)
  PROVE  AgentTypes'
  <1>1. IsNext(a, c) /\ plan' = [plan EXCEPT ![a] = Tail(@)]
    BY DEF WriteGoes, EndTurn, Fail
  <1>2. plan' \in [Actors -> Seq(Calls)] BY <1>1, PlanTypes, PlanShrinks
  <1>3. used' \subseteq Packages
    <2>1. c.about \subseteq Packages BY <1>1, PlanTypes DEF Calls
    <2>2. used' = used \/ used' = used \cup c.about BY DEF WriteGoes, EndTurn, Fail
    <2> QED BY <2>1, <2>2 DEF AgentTypes
  <1>4. failures' \in 0 .. MaxFailures
    BY InputsAssumption DEF WriteGoes, EndTurn, Fail, AgentTypes
  <1>5. again' \in BOOLEAN BY DEF WriteGoes, EndTurn, Fail, AgentTypes
  <1> QED BY <1>2, <1>3, <1>4, <1>5 DEF WriteGoes, EndTurn, Fail, AgentTypes, history

\* A lookup leaves the plan, with the documentation it makes needless, and starts trackers.
LEMMA LookUpTypes ==
  ASSUME HookTypes, AgentTypes, NEW a \in Actors, NEW c, LookUp(a, c)
  PROVE  HookTypes' /\ AgentTypes'
  <1>0. IsNext(a, c) /\ tracking[a] = {} BY DEF LookUp, IsNext
  <1>1. c \in Calls /\ Tail(plan[a]) \in Seq(Calls) BY <1>0, PlanTypes
  <1> DEFINE rest == Tail(plan[a])
  <1>2. PICK finds \in {{}, {"hit"}} :
          /\ ran' = [ran EXCEPT ![a] = [kind |-> c.kind, about |-> c.about, finds |-> finds]]
          /\ plan' = [plan EXCEPT ![a] =
                        IF finds = {"hit"} /\ rest # <<>> /\ Head(rest) = CallOf("docs", c.about)
                           /\ Len(rest) > 1
                        THEN Tail(rest) ELSE rest]
    BY DEF LookUp
  <1>3. [kind |-> c.kind, about |-> c.about, finds |-> finds] \in Calls BY <1>1 DEF Calls
  <1>4. /\ ran' \in [Actors -> Calls] /\ ran'[a].kind = c.kind
        /\ \A b \in Actors : b # a => ran'[b] = ran[b]
    BY <1>2, <1>3 DEF HookTypes
  <1>5. plan' \in [Actors -> Seq(Calls)]
    <2>1. rest # <<>> => Tail(rest) \in Seq(Calls) BY <1>1
    <2> HIDE DEF rest
    <2>2. PICK left \in Seq(Calls) : plan' = [plan EXCEPT ![a] = left]
      BY <1>1, <1>2, <2>1 DEF rest
    <2> QED BY <2>2, PlanShrinks
  <1>6. tracking' = [tracking EXCEPT ![a] = TrackersOf(c)] BY DEF LookUp
  <1>7. /\ TrackersOf(c) \subseteq Gates
        /\ "library-docs" \in TrackersOf(c) => c.kind \in {"search", "docs", "save"}
    BY DEF TrackersOf, Gates
  <1>8. tracking' \in [Actors -> SUBSET Gates] BY <1>6, <1>7 DEF HookTypes
  <1>9. NotesInv'
    <2> SUFFICES ASSUME NEW b \in Actors, "library-docs" \in tracking'[b]
                 PROVE  ran'[b].kind \in {"search", "docs", "save"}
      BY DEF NotesInv
    <2>1. CASE b = a BY <1>4, <1>6, <1>7, <2>1 DEF HookTypes
    <2>2. CASE b # a BY <1>4, <1>6, <2>2 DEF HookTypes, NotesInv
    <2> QED BY <2>1, <2>2
  <1>10. owed' \in BOOLEAN /\ crossed' \in BOOLEAN
    BY DEF LookUp
  <1>11. HookTypes' BY <1>4, <1>8, <1>9 DEF LookUp, HookTypes, session
  <1> QED BY <1>5, <1>10, <1>11 DEF LookUp, AgentTypes

\* The trackers of a call read files of their types.
LEMMA ReadFilesTypes ==
  ASSUME HookTypes, NEW a \in Actors, ReadFiles(a)
  PROVE  HookTypes'
  <1>1. NothingSearched \in EngramFiles BY EntriesAreShort
  <1>2. NothingKnown \in LibraryFiles BY EntriesAreShort
  <1>3. sawEngram' \in [Actors -> EngramFiles] /\ sawLibrary' \in [Actors -> LibraryFiles]
    BY <1>1, <1>2 DEF ReadFiles, HookTypes
  <1>4. reading' \in [Actors -> BOOLEAN] BY DEF ReadFiles, HookTypes
  <1> QED BY <1>3, <1>4 DEF ReadFiles, HookTypes, NotesInv, session

\* And write files of their types.
LEMMA TrackTypes ==
  ASSUME HookTypes, NEW a \in Actors, NEW tracker, Track(a, tracker)
  PROVE  HookTypes'
  <1>1. NothingSearched \in EngramFiles BY EntriesAreShort
  <1>2. NothingKnown \in LibraryFiles BY EntriesAreShort
  <1>3. engram' \in EngramFiles /\ sawEngram' \in [Actors -> EngramFiles]
    BY <1>1, AfterTypes DEF Track, HookTypes
  <1>4. library' \in LibraryFiles /\ sawLibrary' \in [Actors -> LibraryFiles]
    <2>1. tracker = "library-docs" => ran[a].kind \in {"search", "docs", "save"}
      BY DEF Track, HookTypes, NotesInv
    <2> QED BY <1>2, <2>1, AfterTypes DEF Track, HookTypes
  <1>5. tracking' = [tracking EXCEPT ![a] = @ \ {tracker}] BY DEF Track
  <1>6. tracking' \in [Actors -> SUBSET Gates] BY <1>5 DEF HookTypes
  <1>7. CallOf("web", {}) \in Calls BY DEF CallOf, Calls, Lookups
  <1>8. ran' = [ran EXCEPT ![a] = IF tracking'[a] = {} THEN CallOf("web", {}) ELSE @] BY DEF Track
  <1>9. ran' \in [Actors -> Calls] BY <1>7, <1>8 DEF HookTypes
  <1>10. NotesInv'
    <2> SUFFICES ASSUME NEW b \in Actors, "library-docs" \in tracking'[b]
                 PROVE  ran'[b].kind \in {"search", "docs", "save"}
      BY DEF NotesInv
    <2>1. "library-docs" \in tracking[b] BY <1>5 DEF HookTypes
    <2>2. ran'[b] = ran[b] BY <1>8 DEF HookTypes
    <2> QED BY <2>1, <2>2 DEF HookTypes, NotesInv
  <1>11. reading' \in [Actors -> BOOLEAN] /\ invoked' \in BOOLEAN BY DEF Track, HookTypes
  <1> QED BY <1>3, <1>4, <1>6, <1>9, <1>10, <1>11 DEF HookTypes

\* Every step keeps the types.
LEMMA ResearchTypeStep == ResearchTypeInv /\ [ResearchNext]_researchVars => ResearchTypeInv'
  <1> SUFFICES ASSUME HookTypes, AgentTypes, [ResearchNext]_researchVars
               PROVE  HookTypes' /\ AgentTypes'
    BY TypeHalves
  <1>u. CASE UNCHANGED researchVars
    <2>1. UNCHANGED <<session, hooks>> /\ AgentTypes'
      BY <1>u DEF researchVars, AgentTypes, history
    <2> QED BY <2>1, HookTypesKept
  <1>1. ASSUME NEW a \in Actors, Wish(a) PROVE HookTypes' /\ AgentTypes'
    BY <1>1, WishTypes, HookTypesKept DEF Wish
  <1>2. ASSUME NEW a \in Actors, NEW c,
               ResearchDenied(a, c) \/ WriteDenied(a, c) \/ StopBlocked(a, c)
        PROVE  HookTypes' /\ AgentTypes'
    <2>1. UNCHANGED <<session, hooks>>
      BY <1>2 DEF ResearchDenied, WriteDenied, StopBlocked, DoFirst
    <2> QED BY <1>2, <2>1, DeniedTypes, HookTypesKept
  <1>3. ASSUME NEW a \in Actors, NEW c, WriteGoes(a, c) \/ EndTurn(a, c) \/ Fail(a, c)
        PROVE  HookTypes' /\ AgentTypes'
    <2>1. UNCHANGED <<session, hooks>> BY <1>3 DEF WriteGoes, EndTurn, Fail
    <2> QED BY <1>3, <2>1, GoneTypes, HookTypesKept
  <1>4. ASSUME NEW a \in Actors, NEW c, LookUp(a, c) PROVE HookTypes' /\ AgentTypes'
    BY <1>4, LookUpTypes
  <1>5. ASSUME NEW a \in Actors, ReadFiles(a) PROVE HookTypes' /\ AgentTypes'
    BY <1>5, ReadFilesTypes DEF ReadFiles, AgentTypes, history
  <1>6. ASSUME NEW a \in Actors, NEW tracker, Track(a, tracker) PROVE HookTypes' /\ AgentTypes'
    BY <1>6, TrackTypes DEF Track, AgentTypes, history
  <1> QED BY <1>u, <1>1, <1>2, <1>3, <1>4, <1>5, <1>6 DEF ResearchNext, Proceed

\* For any agents, packages, goals and servers: the lists stay within MAX_ENTRIES and every plan
\* is made of calls, however the trackers of one session overlap.
THEOREM ResearchTypeCorrect == ResearchSpec => []ResearchTypeOK
  BY InitResearchTypes, ResearchTypeStep, PTL DEF ResearchSpec, ResearchTypeInv

=============================================================================

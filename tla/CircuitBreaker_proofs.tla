----------------------- MODULE CircuitBreaker_proofs -----------------------
(* What the circuit breaker may count, for any prompts, calls and thresholds,  *)
(* and what it must cut when calls come one at a time.                         *)
EXTENDS CircuitBreaker, FiniteSetTheorems, TLAPS

\* The calls that launched and whose launch is not recorded yet.
Unrecorded(s) == {c \in Calls : call[c].step \in {"running", "recording"} /\ Sig(c) = s}

\* A copy of state.json never owes a launch: with what is still to be recorded it stays
\* within what was launched.
Owes(state) == \A s \in Signatures : state[s] + Cardinality(Unrecorded(s)) <= launched[s]

Accounts == Owes(stored) /\ \A c \in Calls : Owes(call[c].read)

Inv == TypeOK /\ Accounts

-----------------------------------------------------------------------------
(* Signatures and the operators on state.json.                                *)

\* There are finitely many signatures.
LEMMA FiniteSignatures == IsFiniteSet(Signatures)
  <1> DEFINE f == [p \in Prompts |-> Signature(p)]
  <1>1. f \in Surjection(Prompts, Signatures)
    <2> HIDE DEF Signature
    <2> QED BY DEF Signatures, Surjection
  <1> QED BY <1>1, FS_Surjection, ParameterAssumption

\* A call's signature is one of them.
LEMMA SigType ==
  ASSUME TypeOK, NEW c \in Calls
  PROVE  Sig(c) \in Signatures
  BY DEF TypeOK, Sig, Signatures

\* The empty state.
LEMMA NoneType == None \in [Signatures -> 0 .. MaxEntries]
  BY ParameterAssumption DEF None

\* Erasing keeps the shape of the state and adds to no task.
LEMMA WithoutRelatedLowers ==
  ASSUME NEW state \in [Signatures -> 0 .. MaxEntries], NEW s \in Signatures
  PROVE  /\ WithoutRelated(state, s) \in [Signatures -> 0 .. MaxEntries]
         /\ \A t \in Signatures : WithoutRelated(state, s)[t] <= state[t]
  <1> HIDE DEF Similar
  <1> QED BY ParameterAssumption DEF WithoutRelated

\* Recording raises the count of one task by one at most.
LEMMA RecordedRaises ==
  ASSUME NEW state \in [Signatures -> 0 .. MaxEntries], NEW s \in Signatures
  PROVE  /\ Recorded(state, s) \in [Signatures -> 0 .. MaxEntries]
         /\ Recorded(state, s)[s] <= state[s] + 1
         /\ \A t \in Signatures \ {s} : Recorded(state, s)[t] = state[t]
  BY ParameterAssumption DEF Recorded

\* The occurrences in a state are finitely many, and fewer in a smaller one.
LEMMA OccurrencesFinite ==
  ASSUME NEW state \in [Signatures -> Nat], NEW s
  PROVE  IsFiniteSet(Occurrences(state, s))
  <1> DEFINE Of(t)   == {<<t, i>> : i \in 1 .. state[t]}
             Like    == {u \in Signatures : Similar(u, s)}
             Blocks  == {Of(t) : t \in Like}
  <1>1. IsFiniteSet(Like)
    <2>1. Like \subseteq Signatures OBVIOUS
    <2> QED BY <2>1, FiniteSignatures, FS_Subset
  <1>2. IsFiniteSet(Blocks)
    <2> DEFINE f == [t \in Like |-> Of(t)]
    <2>1. f \in Surjection(Like, Blocks)
      <3> HIDE DEF Of, Like
      <3> QED BY DEF Surjection
    <2> HIDE DEF f, Like, Blocks
    <2> QED BY <1>1, <2>1, FS_Surjection
  <1>3. \A block \in Blocks : IsFiniteSet(block)
    <2>1. ASSUME NEW t \in Signatures PROVE IsFiniteSet(Of(t))
      <3>1. IsFiniteSet(1 .. state[t]) BY FS_Interval
      <3> DEFINE f == [i \in 1 .. state[t] |-> <<t, i>>]
      <3>2. f \in Surjection(1 .. state[t], Of(t)) BY DEF Surjection
      <3> QED BY <3>1, <3>2, FS_Surjection
    <2> QED BY <2>1
  <1>4. Occurrences(state, s) = UNION Blocks BY DEF Occurrences
  <1> QED BY <1>2, <1>3, <1>4, FS_UNION

\* A state that records no less of any task has no fewer occurrences of one.
LEMMA OccurrencesMonotone ==
  ASSUME NEW small \in [Signatures -> Nat], NEW big \in [Signatures -> Nat], NEW s,
         \A t \in Signatures : small[t] <= big[t]
  PROVE  /\ Cardinality(Occurrences(small, s)) \in Nat
         /\ Cardinality(Occurrences(big, s)) \in Nat
         /\ Cardinality(Occurrences(small, s)) <= Cardinality(Occurrences(big, s))
  <1>1. Occurrences(small, s) \subseteq Occurrences(big, s)
    <2> HIDE DEF Similar
    <2>1. ASSUME NEW t \in Signatures PROVE 1 .. small[t] \subseteq 1 .. big[t] OBVIOUS
    <2> QED BY <2>1 DEF Occurrences
  <1> QED BY <1>1, OccurrencesFinite, FS_Subset, FS_CardinalityType

-----------------------------------------------------------------------------
(* Type correctness.                                                          *)

\* The types hold at first.
LEMMA InitType == ASSUME Init PROVE TypeOK
  <1>1. None \in [Signatures -> Nat] BY DEF None
  <1>2. call \in [Calls -> [prompt : Prompts, override : BOOLEAN, step : Steps,
                            read : [Signatures -> 0 .. MaxEntries]]]
    <2> HIDE DEF None
    <2>1. [prompt : Prompts, override : {FALSE}, step : {"idle"}, read : {None}]
             \subseteq [prompt : Prompts, override : BOOLEAN, step : Steps,
                        read : [Signatures -> 0 .. MaxEntries]]
      BY NoneType DEF Steps
    <2> QED BY <2>1 DEF Init
  <1>3. sent \in 0 .. MaxCalls BY ParameterAssumption DEF Init
  <1> QED BY <1>1, <1>2, <1>3, NoneType DEF Init, TypeOK

\* A step of a call that only moves it on keeps the types.
LEMMA MovesType ==
  ASSUME TypeOK, NEW c \in Calls, NEW step \in Steps, Moves(c, step)
  PROVE  call' \in [Calls -> [prompt : Prompts, override : BOOLEAN, step : Steps,
                              read : [Signatures -> 0 .. MaxEntries]]]
  BY DEF TypeOK, Moves

\* Every step keeps the types.
LEMMA TypeStep == ASSUME TypeOK, [Next]_vars PROVE TypeOK'
  <1> USE DEF ghosts
  <1> SUFFICES ASSUME Next PROVE TypeOK'
    BY DEF TypeOK, vars
  <1> PICK c \in Calls :
        \/ \E p \in Prompts, override \in BOOLEAN : Delegate(c, p, override)
        \/ ReadBefore(c) \/ Override(c) \/ Judge(c) \/ OtherGateDenies(c)
        \/ Launch(c) \/ ReadAfter(c) \/ Record(c)
    BY DEF Next
  <1>s. Sig(c) \in Signatures BY SigType
  <1>r. call[c].read \in [Signatures -> 0 .. MaxEntries] BY DEF TypeOK
  <1>1. ASSUME NEW p \in Prompts, NEW override \in BOOLEAN, Delegate(c, p, override)
        PROVE  TypeOK'
    <2>1. sent' \in 0 .. MaxCalls BY <1>1, ParameterAssumption DEF Delegate, TypeOK
    <2>2. alone' \in BOOLEAN BY <1>1 DEF Delegate, TypeOK
    <2>3. call' \in [Calls -> [prompt : Prompts, override : BOOLEAN, step : Steps,
                               read : [Signatures -> 0 .. MaxEntries]]]
      BY <1>1, NoneType DEF Delegate, TypeOK, Steps
    <2> QED BY <1>1, <2>1, <2>2, <2>3 DEF Delegate, TypeOK
  <1>2. CASE ReadBefore(c) \/ ReadAfter(c)
    <2>1. \E step \in Steps : call' = [call EXCEPT ![c] =
             [prompt |-> call[c].prompt, override |-> call[c].override,
              step |-> step, read |-> stored]]
      BY <1>2 DEF ReadBefore, ReadAfter, TypeOK, Steps
    <2> QED BY <1>2, <2>1 DEF ReadBefore, ReadAfter, TypeOK
  <1>3. CASE Override(c)
    <2>1. stored' \in [Signatures -> 0 .. MaxEntries]
      BY <1>3, <1>r, <1>s, WithoutRelatedLowers DEF Override
    <2>2. unforgiven' \in [Signatures -> Nat]
      <3> HIDE DEF Similar
      <3> QED BY <1>3 DEF Override, TypeOK
    <2>3. Moves(c, "allowed") BY <1>3 DEF Override
    <2> QED BY <1>3, <2>1, <2>2, <2>3, MovesType DEF Override, TypeOK, Steps
  <1>4. CASE Judge(c)
    <2>1. PICK step \in {"cut", "allowed"} : Moves(c, step) BY <1>4 DEF Judge
    <2> QED BY <1>4, <2>1, MovesType DEF Judge, TypeOK, Steps
  <1>5. CASE OtherGateDenies(c)
    <2>1. Moves(c, "idle") BY <1>5 DEF OtherGateDenies
    <2> QED BY <1>5, <2>1, MovesType DEF OtherGateDenies, TypeOK, Steps
  <1>6. CASE Launch(c)
    <2>1. Moves(c, "running") BY <1>6 DEF Launch
    <2>2. launched' \in [Signatures -> Nat] /\ unforgiven' \in [Signatures -> Nat]
      <3> HIDE DEF Sig
      <3> QED BY <1>6, <1>s DEF Launch, TypeOK
    <2> QED BY <1>6, <2>1, <2>2, MovesType DEF Launch, TypeOK, Steps
  <1>7. CASE Record(c)
    <2>1. Moves(c, "idle") BY <1>7 DEF Record
    <2>2. stored' \in [Signatures -> 0 .. MaxEntries]
      BY <1>7, <1>r, <1>s, RecordedRaises DEF Record
    <2> QED BY <1>7, <2>1, <2>2, MovesType DEF Record, TypeOK, Steps
  <1> QED BY <1>1, <1>2, <1>3, <1>4, <1>5, <1>6, <1>7

\* Every variable keeps its type, and no task is recorded more often than
\* MAX_ENTRIES_PER_KEY, for any prompts, threshold and number of calls.
THEOREM TypeCorrect == Spec => []TypeOK
  BY InitType, TypeStep, PTL DEF Spec

-----------------------------------------------------------------------------
(* Only launches count.                                                       *)

\* The launches still to be recorded are finitely many.
LEMMA UnrecordedFinite ==
  ASSUME NEW s
  PROVE  /\ IsFiniteSet(Unrecorded(s))
         /\ Cardinality(Unrecorded(s)) \in Nat
  <1>1. Unrecorded(s) \subseteq Calls BY DEF Unrecorded
  <1> QED BY <1>1, ParameterAssumption, FS_Subset, FS_CardinalityType

\* A step of one call between steps on the same side of the launch leaves them as they are.
LEMMA SameUnrecorded ==
  ASSUME TypeOK, NEW c \in Calls,
         call' = [call EXCEPT ![c] = call'[c]],
         call[c].step \in {"running", "recording"} <=> call'[c].step \in {"running", "recording"},
         call[c].step \in {"running", "recording"} => call'[c].prompt = call[c].prompt
  PROVE  \A s \in Signatures : Unrecorded(s)' = Unrecorded(s)
  <1>1. \A d \in Calls : d # c => call'[d] = call[d] BY DEF TypeOK
  <1>2. ASSUME NEW s \in Signatures, NEW d \in Calls
        PROVE  d \in Unrecorded(s)' <=> d \in Unrecorded(s)
    <2> HIDE DEF Signature
    <2>1. CASE d = c BY <2>1 DEF Unrecorded, Sig
    <2>2. CASE d # c BY <2>2, <1>1 DEF Unrecorded, Sig
    <2> QED BY <2>1, <2>2
  <1> QED BY <1>2 DEF Unrecorded

\* At first nothing is recorded and nothing is owed.
LEMMA InitAccounts == ASSUME Init PROVE Accounts
  <1>1. ASSUME NEW s \in Signatures PROVE Unrecorded(s) = {}
    BY DEF Init, Unrecorded
  <1>2. \A s \in Signatures : None[s] = 0 BY DEF None
  <1>3. \A s \in Signatures : Cardinality(Unrecorded(s)) = 0 BY <1>1, FS_EmptySet
  <1>4. \A c \in Calls : call[c].read = None BY DEF Init
  <1> QED BY <1>2, <1>3, <1>4 DEF Init, Accounts, Owes

\* What owes no launch keeps owing none when what is unrecorded and launched does not change.
LEMMA OwesKept ==
  ASSUME NEW state, Owes(state), launched' = launched,
         \A s \in Signatures : Unrecorded(s)' = Unrecorded(s)
  PROVE  \A s \in Signatures : state[s] + Cardinality(Unrecorded(s)') <= launched'[s]
  BY DEF Owes

\* No step makes a copy of state.json, read or stored, count what did not launch.
LEMMA AccountsStep == ASSUME TypeOK, Accounts, [Next]_vars PROVE Accounts'
  <1> USE DEF ghosts
  <1> DEFINE Fits(state) ==
        \A s \in Signatures : state[s] + Cardinality(Unrecorded(s)') <= launched'[s]
  <1>g. ASSUME Fits(stored'), \A d \in Calls : Fits(call'[d].read)
        PROVE  Accounts'
    BY <1>g DEF Accounts, Owes
  <1> HIDE DEF Fits
  <1>u. CASE UNCHANGED vars
    <2>1. \A s : Unrecorded(s)' = Unrecorded(s)
      BY <1>u DEF vars, Unrecorded, Sig
    <2> QED BY <1>u, <2>1 DEF vars, Accounts, Owes
  <1> SUFFICES ASSUME Next PROVE Accounts'
    BY <1>u
  <1> PICK c \in Calls :
        \/ \E p \in Prompts, override \in BOOLEAN : Delegate(c, p, override)
        \/ ReadBefore(c) \/ Override(c) \/ Judge(c) \/ OtherGateDenies(c)
        \/ Launch(c) \/ ReadAfter(c) \/ Record(c)
    BY DEF Next
  <1>s. Sig(c) \in Signatures BY SigType
  <1>r. call[c].read \in [Signatures -> 0 .. MaxEntries] BY DEF TypeOK
  <1>m. PICK me \in Signatures : me = Sig(c) BY <1>s
  \* Steps that neither launch nor record: the copies only change places.
  <1>k. ASSUME \A s \in Signatures : Unrecorded(s)' = Unrecorded(s), launched' = launched,
               \/ stored' = stored
               \/ stored' = WithoutRelated(call[c].read, Sig(c)),
               \A d \in Calls : \/ call'[d].read = call[d].read
                               \/ call'[d].read = stored
                               \/ call'[d].read = None
        PROVE  Accounts'
    <2>1. \A d \in Calls : Fits(call[d].read)
      BY <1>k, OwesKept DEF Accounts, Fits
    <2>2. Fits(stored) BY <1>k, OwesKept DEF Accounts, Fits
    <2>3. Fits(None)
      <3>1. \A s \in Signatures : None[s] = 0 BY DEF None
      <3>2. \A s \in Signatures : stored[s] \in Nat /\ launched[s] \in Nat BY DEF TypeOK
      <3>3. \A s \in Signatures : Cardinality(Unrecorded(s)) \in Nat BY UnrecordedFinite
      <3>4. \A s \in Signatures : stored[s] + Cardinality(Unrecorded(s)) <= launched[s]
        BY DEF Accounts, Owes
      <3> QED BY <1>k, <3>1, <3>2, <3>3, <3>4 DEF Fits
    <2>4. Fits(WithoutRelated(call[c].read, Sig(c)))
      <3> DEFINE w == WithoutRelated(call[c].read, Sig(c))
      <3>1. \A s \in Signatures : w[s] \in Nat /\ w[s] <= call[c].read[s]
        BY <1>r, <1>s, WithoutRelatedLowers
      <3> HIDE DEF w
      <3>2. \A s \in Signatures : Cardinality(Unrecorded(s)) \in Nat BY UnrecordedFinite
      <3>3. \A s \in Signatures : launched[s] \in Nat /\ call[c].read[s] \in Nat
        BY <1>r DEF TypeOK
      <3>4. \A s \in Signatures : call[c].read[s] + Cardinality(Unrecorded(s)) <= launched[s]
        BY DEF Accounts, Owes
      <3>5. Fits(w) BY <1>k, <3>1, <3>2, <3>3, <3>4 DEF Fits
      <3> QED BY <3>5 DEF w
    <2> QED BY <1>g, <1>k, <2>1, <2>2, <2>3, <2>4
  <1>1. ASSUME NEW p \in Prompts, NEW override \in BOOLEAN, Delegate(c, p, override)
        PROVE  Accounts'
    <2>1. \A s \in Signatures : Unrecorded(s)' = Unrecorded(s)
      BY <1>1, SameUnrecorded DEF Delegate, Idle, TypeOK
    <2>2. \A d \in Calls : call'[d].read = call[d].read \/ call'[d].read = None
      BY <1>1 DEF Delegate, TypeOK
    <2> QED BY <1>1, <1>k, <2>1, <2>2 DEF Delegate
  <1>2. CASE ReadBefore(c) \/ ReadAfter(c)
    <2>1. call' = [call EXCEPT ![c] =
             [prompt |-> call[c].prompt, override |-> call[c].override,
              step |-> IF ReadBefore(c) THEN "judging" ELSE "recording", read |-> stored]]
      BY <1>2 DEF ReadBefore, ReadAfter, TypeOK, Steps
    <2>2. \A s \in Signatures : Unrecorded(s)' = Unrecorded(s)
      BY <1>2, <2>1, SameUnrecorded DEF ReadBefore, ReadAfter, TypeOK
    <2>3. \A d \in Calls : call'[d].read = call[d].read \/ call'[d].read = stored
      BY <2>1 DEF TypeOK
    <2> QED BY <1>2, <1>k, <2>2, <2>3 DEF ReadBefore, ReadAfter
  <1>3. CASE Override(c) \/ Judge(c) \/ OtherGateDenies(c)
    <2>1. PICK step \in {"cut", "allowed", "idle"} : Moves(c, step)
      BY <1>3 DEF Override, Judge, OtherGateDenies
    <2>2. call[c].step \in {"judging", "allowed"}
      BY <1>3 DEF Override, Judge, OtherGateDenies
    <2>3. \A s \in Signatures : Unrecorded(s)' = Unrecorded(s)
      BY <2>1, <2>2, SameUnrecorded DEF Moves, TypeOK
    <2>4. \A d \in Calls : call'[d].read = call[d].read
      BY <2>1 DEF Moves, TypeOK
    <2> QED BY <1>3, <1>k, <2>3, <2>4 DEF Override, Judge, OtherGateDenies
  <1>4. CASE Launch(c)
    <2>1. /\ call[c].step = "allowed" /\ Moves(c, "running") /\ stored' = stored
          /\ launched' = [launched EXCEPT ![Sig(c)] = @ + 1]
      BY <1>4 DEF Launch
    <2>2. \A d \in Calls : call'[d].read = call[d].read /\ call'[d].prompt = call[d].prompt
      BY <2>1 DEF Moves, TypeOK
    <2>3. /\ call'[c].step = "running"
          /\ \A d \in Calls \ {c} : call'[d].step = call[d].step
      BY <2>1 DEF Moves, TypeOK
    <2>4. Unrecorded(me)' = Unrecorded(me) \cup {c} /\ c \notin Unrecorded(me)
      BY <1>m, <2>1, <2>2, <2>3 DEF Unrecorded, Sig
    <2>5. \A s \in Signatures \ {me} : Unrecorded(s)' = Unrecorded(s)
      BY <1>m, <2>1, <2>2, <2>3 DEF Unrecorded, Sig
    <2>6. Cardinality(Unrecorded(me)') = Cardinality(Unrecorded(me)) + 1
      BY <2>4, UnrecordedFinite, FS_AddElement
    <2>7. /\ launched'[me] = launched[me] + 1
          /\ \A s \in Signatures \ {me} : launched'[s] = launched[s]
      <3> HIDE DEF Sig
      <3> QED BY <2>1, <1>m DEF TypeOK
    <2>8. \A state : (state \in [Signatures -> 0 .. MaxEntries] /\ Owes(state)) => Fits(state)
      <3> TAKE state
      <3> HAVE state \in [Signatures -> 0 .. MaxEntries] /\ Owes(state)
      <3>1. \A s \in Signatures : state[s] \in Nat /\ launched[s] \in Nat BY DEF TypeOK
      <3>2. \A s \in Signatures : Cardinality(Unrecorded(s)) \in Nat BY UnrecordedFinite
      <3>3. ASSUME NEW s \in Signatures
            PROVE  state[s] + Cardinality(Unrecorded(s)') <= launched'[s]
        <4>0. state[s] + Cardinality(Unrecorded(s)) <= launched[s] BY DEF Owes
        <4>1. CASE s = me
          <5> HIDE DEF Sig, Unrecorded
          <5> QED BY <4>0, <4>1, <3>1, <3>2, <2>6, <2>7
        <4>2. CASE s # me BY <4>0, <4>2, <2>5, <2>7
        <4> QED BY <4>1, <4>2
      <3> QED BY <3>3 DEF Fits
    <2>9. Fits(stored) /\ \A d \in Calls : Fits(call[d].read)
      BY <2>8 DEF Accounts, TypeOK
    <2> QED BY <1>g, <2>1, <2>2, <2>9
  <1>5. CASE Record(c)
    <2>1. /\ call[c].step = "recording" /\ Moves(c, "idle") /\ launched' = launched
          /\ stored' = Recorded(call[c].read, Sig(c))
      BY <1>5 DEF Record
    <2>2. \A d \in Calls : call'[d].read = call[d].read /\ call'[d].prompt = call[d].prompt
      BY <2>1 DEF Moves, TypeOK
    <2>3. /\ call'[c].step = "idle"
          /\ \A d \in Calls \ {c} : call'[d].step = call[d].step
      BY <2>1 DEF Moves, TypeOK
    <2>4. Unrecorded(me)' = Unrecorded(me) \ {c} /\ c \in Unrecorded(me)
      BY <1>m, <2>1, <2>2, <2>3 DEF Unrecorded, Sig
    <2>5. \A s \in Signatures \ {me} : Unrecorded(s)' = Unrecorded(s)
      BY <1>m, <2>1, <2>2, <2>3 DEF Unrecorded, Sig
    <2>6. Cardinality(Unrecorded(me)') = Cardinality(Unrecorded(me)) - 1
      BY <2>4, UnrecordedFinite, FS_RemoveElement
    <2>7. \A s \in Signatures : /\ Cardinality(Unrecorded(s)) \in Nat
                               /\ Cardinality(Unrecorded(s)') \in Int
                               /\ Cardinality(Unrecorded(s)') <= Cardinality(Unrecorded(s))
      BY <2>5, <2>6, UnrecordedFinite
    <2>8. \A s \in Signatures : launched[s] \in Nat BY DEF TypeOK
    <2>9. ASSUME NEW d \in Calls PROVE Fits(call'[d].read)
      <3>1. \A s \in Signatures : call[d].read[s] \in Nat BY DEF TypeOK
      <3>2. \A s \in Signatures : call[d].read[s] + Cardinality(Unrecorded(s)) <= launched[s]
        BY DEF Accounts, Owes
      <3> QED BY <2>1, <2>2, <2>7, <2>8, <3>1, <3>2 DEF Fits
    <2>10. ASSUME NEW s \in Signatures
           PROVE  stored'[s] + Cardinality(Unrecorded(s)') <= launched'[s]
      <3>0. call[c].read[s] + Cardinality(Unrecorded(s)) <= launched[s]
        BY DEF Accounts, Owes
      <3>1. /\ stored'[s] \in Nat /\ call[c].read[s] \in Nat
            /\ s = me => stored'[s] <= call[c].read[s] + 1
            /\ s # me => stored'[s] = call[c].read[s]
        <4> DEFINE r == call[c].read
        <4>1. stored' = Recorded(r, me) BY <2>1, <1>m
        <4>2. r \in [Signatures -> 0 .. MaxEntries] BY <1>r
        <4> HIDE DEF r
        <4>3. /\ Recorded(r, me) \in [Signatures -> 0 .. MaxEntries]
              /\ Recorded(r, me)[me] <= r[me] + 1
              /\ \A t \in Signatures \ {me} : Recorded(r, me)[t] = r[t]
          BY <4>2, RecordedRaises
        <4>4. stored'[s] \in Nat /\ r[s] \in Nat BY <4>1, <4>2, <4>3
        <4>5. s = me => stored'[s] <= r[s] + 1 BY <4>1, <4>3
        <4>6. s # me => stored'[s] = r[s] BY <4>1, <4>3
        <4> QED BY <4>4, <4>5, <4>6 DEF r
      <3> HIDE DEF Sig, Unrecorded
      <3>2. CASE s = me BY <3>0, <3>1, <3>2, <2>1, <2>6, <2>7, <2>8
      <3>3. CASE s # me BY <3>0, <3>1, <3>3, <2>1, <2>7, <2>8
      <3> QED BY <3>2, <3>3
    <2> QED BY <1>g, <2>9, <2>10 DEF Fits
  <1> QED BY <1>1, <1>2, <1>3, <1>4, <1>5

\* Whatever the hooks overwrite of each other, what state.json holds of a task was launched,
\* and what a hook has yet to record is not in it: no other gate's denial is ever counted.
THEOREM OnlyLaunches == Spec => []OnlyLaunchesCount
  <1>1. ASSUME TypeOK, Accounts PROVE OnlyLaunchesCount
    <2> SUFFICES ASSUME NEW s \in Signatures PROVE stored[s] <= launched[s]
      BY DEF OnlyLaunchesCount
    <2>1. stored[s] + Cardinality(Unrecorded(s)) <= launched[s] BY <1>1 DEF Accounts, Owes
    <2> QED BY <1>1, <2>1, UnrecordedFinite DEF TypeOK
  <1>2. Init => Inv BY InitType, InitAccounts DEF Inv
  <1>3. Inv /\ [Next]_vars => Inv' BY TypeStep, AccountsStep DEF Inv
  <1>4. Inv => OnlyLaunchesCount BY <1>1 DEF Inv
  <1> QED BY <1>2, <1>3, <1>4, PTL DEF Spec

-----------------------------------------------------------------------------
(* A call is cut for launches like it.                                        *)

\* A set with at least one element is not empty.
LEMMA SomeOccurrence ==
  ASSUME NEW state \in [Signatures -> Nat], NEW s, Cardinality(Occurrences(state, s)) >= 1
  PROVE  \E t \in Signatures : state[t] > 0 /\ Similar(t, s)
  <1> HIDE DEF Similar
  <1>1. Occurrences(state, s) # {} BY FS_EmptySet
  <1>2. PICK t \in Signatures : Similar(t, s) /\ 1 .. state[t] # {}
    BY <1>1 DEF Occurrences
  <1> QED BY <1>2

\* A step cuts a call only for launches that were made, and none is ever unmade.
LEMMA CutStep ==
  ASSUME TypeOK, TypeOK', Accounts, CutIsARetry, [Next]_vars
  PROVE  CutIsARetry'
  <1> USE DEF ghosts
  <1> HIDE DEF Similar
  <1> SUFFICES ASSUME NEW d \in Calls, call'[d].step = "cut"
               PROVE  \E s \in Signatures :
                        /\ s = Sig(d)'
                        /\ Cardinality(Occurrences(launched', s)) >= RetryThreshold - 1
                        /\ \E t \in Signatures : launched'[t] > 0 /\ Similar(t, s)
    BY DEF CutIsARetry
  <1>l. /\ launched \in [Signatures -> Nat] /\ launched' \in [Signatures -> Nat]
        /\ \A s \in Signatures : launched[s] <= launched'[s]
    <2>1. launched \in [Signatures -> Nat] /\ launched' \in [Signatures -> Nat] BY DEF TypeOK
    <2>2. \/ launched' = launched
          \/ \E c \in Calls : launched' = [launched EXCEPT ![Sig(c)] = @ + 1]
      BY DEF Next, vars, Delegate, ReadBefore, Override, Judge, OtherGateDenies, Launch,
             ReadAfter, Record
    <2> QED BY <2>1, <2>2
  <1>t. RetryThreshold \in Nat /\ RetryThreshold >= 2
    BY ParameterAssumption DEF RetryThreshold
  \* What was cut before stays cut for the same launches.
  <1>1. CASE call[d].step = "cut" /\ call'[d].prompt = call[d].prompt
    <2> DEFINE me == Sig(d)
    <2>1. me \in Signatures /\ me = Sig(d)' BY <1>1, SigType DEF Sig
    <2>2. /\ Cardinality(Occurrences(launched, me)) >= RetryThreshold - 1
          /\ \E t \in Signatures : launched[t] > 0 /\ Similar(t, me)
      BY <1>1 DEF CutIsARetry
    <2> HIDE DEF me
    <2>3. Cardinality(Occurrences(launched', me)) >= RetryThreshold - 1
      BY <2>2, <1>l, <1>t, OccurrencesMonotone
    <2>4. \E t \in Signatures : launched'[t] > 0 /\ Similar(t, me) BY <2>2, <1>l
    <2> QED BY <2>1, <2>3, <2>4
  \* What is cut now read no more than was launched.
  <1>2. CASE Judge(d)
    <2> DEFINE me == Sig(d)  read == call[d].read
    <2>1. me \in Signatures /\ me = Sig(d)' BY <1>2, SigType DEF Sig, Judge, Moves, TypeOK
    <2>2. 1 + Cardinality(Occurrences(read, me)) >= RetryThreshold
      BY <1>2 DEF Judge, Moves, Attempt, TypeOK
    <2>3. read \in [Signatures -> Nat] BY DEF TypeOK
    <2>4. \A s \in Signatures : read[s] <= launched[s]
      <3>1. \A s \in Signatures : read[s] + Cardinality(Unrecorded(s)) <= launched[s]
        BY DEF Accounts, Owes
      <3>2. \A s \in Signatures : Cardinality(Unrecorded(s)) \in Nat BY UnrecordedFinite
      <3> HIDE DEF read, Unrecorded
      <3> QED BY <3>1, <3>2, <2>3, <1>l
    <2> HIDE DEF me, read
    <2>5. launched' = launched BY <1>2 DEF Judge
    <2>6. Cardinality(Occurrences(launched, me)) >= RetryThreshold - 1
      <3>1. /\ Cardinality(Occurrences(read, me)) \in Nat
            /\ Cardinality(Occurrences(launched, me)) \in Nat
            /\ Cardinality(Occurrences(read, me)) <= Cardinality(Occurrences(launched, me))
        BY <2>3, <2>4, <1>l, OccurrencesMonotone
      <3> QED BY <3>1, <2>2, <1>t
    <2>7. Cardinality(Occurrences(launched, me)) \in Nat BY <1>l, OccurrencesMonotone
    <2>8. Cardinality(Occurrences(launched, me)) >= 1 BY <2>6, <2>7, <1>t
    <2>9. \E t \in Signatures : launched[t] > 0 /\ Similar(t, me) BY <1>l, <2>8, SomeOccurrence
    <2> QED BY <2>1, <2>5, <2>6, <2>9
  \* No other step cuts a call.
  <1>3. \/ Judge(d)
        \/ call[d].step = "cut" /\ call'[d].prompt = call[d].prompt
    <2>1. CASE UNCHANGED vars BY <2>1 DEF vars
    <2>2. ASSUME NEW c \in Calls,
                 \/ \E p \in Prompts, override \in BOOLEAN : Delegate(c, p, override)
                 \/ ReadBefore(c) \/ Override(c) \/ OtherGateDenies(c)
                 \/ Launch(c) \/ ReadAfter(c) \/ Record(c)
          PROVE  call[d].step = "cut" /\ call'[d].prompt = call[d].prompt
      BY <2>2 DEF Delegate, ReadBefore, Override, OtherGateDenies, Launch, ReadAfter, Record,
                  Moves, TypeOK
    <2>3. ASSUME NEW c \in Calls, Judge(c), c # d
          PROVE  call[d].step = "cut" /\ call'[d].prompt = call[d].prompt
      BY <2>3 DEF Judge, Moves, TypeOK
    <2> QED BY <2>1, <2>2, <2>3 DEF Next
  <1> QED BY <1>1, <1>2, <1>3

\* However the hooks of concurrent calls interleave, a call is cut only when the session
\* launched enough delegations like it: a first attempt is never a retry.
THEOREM CutIsEarned == Spec => []CutIsARetry
  <1>1. Init => Inv /\ CutIsARetry
    BY InitType, InitAccounts DEF Inv, Init, CutIsARetry
  <1>2. Inv /\ CutIsARetry /\ [Next]_vars => Inv' /\ CutIsARetry'
    BY TypeStep, AccountsStep, CutStep DEF Inv
  <1> QED BY <1>1, <1>2, PTL DEF Spec

-----------------------------------------------------------------------------
(* One call at a time.                                                        *)

\* What the list of a task holds of n launches: the last MAX_ENTRIES_PER_KEY of them.
Capped(n) == IF n < MaxEntries THEN n ELSE MaxEntries

\* How many unforgiven launches of s the tracker has had the time to record when only the
\* call c may be under way.
Due(c, s) ==
  IF call[c].step \in {"running", "recording"} /\ Sig(c) = s
  THEN unforgiven[s] - 1 ELSE unforgiven[s]

\* The call c, the others idle, reads what is stored, was judged on it, and what is stored
\* is what it should be.
InStep(c) ==
  /\ call[c].step \in {"judging", "recording"} => call[c].read = stored
  /\ call[c].step = "allowed" /\ ~call[c].override =>
       1 + Cardinality(Occurrences(stored, Sig(c))) < RetryThreshold
  /\ \A s \in Signatures : Due(c, s) \in Nat /\ stored[s] = Capped(Due(c, s))

OthersIdle(c) == \A d \in Calls \ {c} : Idle(d)

\* As long as no two calls were in flight together.
Solo ==
  alone => /\ \A c \in Calls : ~Idle(c) => OthersIdle(c)
           /\ \A c \in Calls : OthersIdle(c) => InStep(c)

\* At first state.json agrees with the launches: there are none.
LEMMA InitSolo == ASSUME Init PROVE Solo
  <1> SUFFICES ASSUME NEW c \in Calls PROVE InStep(c)
    BY DEF Init, Solo, Idle
  <1>1. call[c].step = "idle" BY DEF Init
  <1>2. \A s \in Signatures : stored[s] = 0 /\ unforgiven[s] = 0 BY DEF Init, None
  <1> HIDE DEF Sig
  <1> QED BY <1>1, <1>2, ParameterAssumption DEF InStep, Due, Capped

\* What is capped is never more than what it stands for.
LEMMA CappedBounds ==
  ASSUME NEW n \in Nat
  PROVE  Capped(n) \in Nat /\ Capped(n) <= n
  BY ParameterAssumption DEF Capped

\* A call that is alone reads what is stored and leaves it as it should be.
LEMMA SoloStep == ASSUME TypeOK, TypeOK', Solo, [Next]_vars PROVE Solo'
  <1> USE DEF ghosts
  <1> HIDE DEF Signature, Similar
  <1>u. CASE UNCHANGED vars
    BY <1>u DEF vars, Solo, OthersIdle, Idle, InStep, Due, Sig
  <1> SUFFICES ASSUME Next, alone' PROVE Solo'
    BY <1>u DEF Solo
  <1> PICK c \in Calls :
        \/ \E p \in Prompts, override \in BOOLEAN : Delegate(c, p, override)
        \/ ReadBefore(c) \/ Override(c) \/ Judge(c) \/ OtherGateDenies(c)
        \/ Launch(c) \/ ReadAfter(c) \/ Record(c)
    BY DEF Next
  <1>a. alone
    BY DEF Delegate, ReadBefore, Override, Judge, OtherGateDenies, Launch, ReadAfter, Record, TypeOK
  <1>o. OthersIdle(c)
    <2>1. ASSUME NEW p \in Prompts, NEW override \in BOOLEAN, Delegate(c, p, override)
          PROVE  OthersIdle(c)
      BY <2>1 DEF Delegate, OthersIdle
    <2>2. CASE ~Idle(c) BY <2>2, <1>a DEF Solo
    <2> QED
      BY <2>1, <2>2 DEF Idle, ReadBefore, Override, Judge, OtherGateDenies, Launch, ReadAfter, Record
  <1>c. InStep(c) BY <1>a, <1>o DEF Solo
  <1>d. \A d \in Calls \ {c} : call'[d] = call[d]
    BY DEF Delegate, ReadBefore, Override, Judge, OtherGateDenies, Launch, ReadAfter, Record,
           Moves, TypeOK
  <1>p. OthersIdle(c)' BY <1>o, <1>d DEF OthersIdle, Idle
  \* It is enough that the call that moved stays in step.
  <1>g. ASSUME InStep(c)' PROVE Solo'
    <2>1. ASSUME NEW e \in Calls, ~Idle(e)' PROVE OthersIdle(e)'
      BY <2>1, <1>p DEF OthersIdle
    <2>2. ASSUME NEW e \in Calls, OthersIdle(e)' PROVE InStep(e)'
      <3>1. CASE e = c BY <3>1, <1>g
      <3>2. CASE e # c
        <4>1. Idle(c)' /\ Idle(e)' BY <3>2, <2>2, <1>p DEF OthersIdle
        <4>2. \A s \in Signatures : Due(e, s)' = Due(c, s)'
          BY <4>1 DEF Due, Idle
        <4> QED BY <4>1, <4>2, <1>g DEF InStep, Idle
      <3> QED BY <3>1, <3>2
    <2> QED BY <2>1, <2>2 DEF Solo
  <1>t. /\ \A s \in Signatures : stored[s] \in Nat /\ unforgiven[s] \in Nat
        /\ Sig(c) \in Signatures
    BY SigType DEF TypeOK
  <1>i. \A s \in Signatures : Due(c, s) \in Nat /\ stored[s] = Capped(Due(c, s))
    BY <1>c DEF InStep
  <1>1. ASSUME NEW p \in Prompts, NEW override \in BOOLEAN, Delegate(c, p, override)
        PROVE  Solo'
    <2>1. call'[c].step = "sent" /\ stored' = stored /\ unforgiven' = unforgiven
      BY <1>1 DEF Delegate, TypeOK
    <2>2. call[c].step \notin {"running", "recording"} BY <1>1 DEF Delegate, Idle
    <2>3. \A s \in Signatures : Due(c, s)' = Due(c, s) BY <2>1, <2>2 DEF Due
    <2> QED BY <1>g, <1>i, <2>1, <2>3 DEF InStep
  <1>2. CASE ReadBefore(c) \/ ReadAfter(c)
    <2>1. /\ stored' = stored /\ unforgiven' = unforgiven
          /\ \/ call[c].step = "sent" /\ call'[c].step = "judging"
             \/ call[c].step = "running" /\ call'[c].step = "recording"
      <3>1. CASE ReadBefore(c) BY <3>1 DEF ReadBefore, TypeOK
      <3>2. CASE ReadAfter(c) BY <3>2 DEF ReadAfter, TypeOK
      <3> QED BY <1>2, <3>1, <3>2
    <2>2. call' = [call EXCEPT ![c] =
             [prompt |-> call[c].prompt, override |-> call[c].override,
              step |-> IF ReadBefore(c) THEN "judging" ELSE "recording", read |-> stored]]
      BY <1>2 DEF ReadBefore, ReadAfter, TypeOK, Steps
    <2>3. call'[c].read = stored /\ call'[c].prompt = call[c].prompt
      BY <2>2 DEF TypeOK
    <2>4. \A s \in Signatures : Due(c, s)' = Due(c, s) BY <2>1, <2>3 DEF Due, Sig
    <2> QED BY <1>g, <1>i, <2>1, <2>3, <2>4 DEF InStep
  <1>3. CASE Override(c)
    <2>1. /\ call[c].step = "judging" /\ call[c].override /\ call[c].read = stored
          /\ call'[c].step = "allowed" /\ call'[c].override
          /\ stored' = WithoutRelated(stored, Sig(c))
          /\ unforgiven' = [s \in Signatures |->
                     IF s = Sig(c) \/ Similar(s, Sig(c)) THEN 0 ELSE unforgiven[s]]
      BY <1>3, <1>c DEF Override, Moves, InStep, TypeOK
    <2>2. ASSUME NEW s \in Signatures
          PROVE  Due(c, s)' \in Nat /\ stored'[s] = Capped(Due(c, s)')
      <3>1. Due(c, s) = unforgiven[s] /\ Due(c, s)' = unforgiven'[s] BY <2>1 DEF Due
      <3>2. stored[s] = Capped(unforgiven[s]) BY <1>i, <3>1
      <3> HIDE DEF Sig
      <3>3. CASE s = Sig(c) \/ Similar(s, Sig(c))
        <4>1. unforgiven'[s] = 0 /\ stored'[s] = 0
          BY <2>1, <3>3, <1>t DEF WithoutRelated
        <4> QED BY <3>1, <4>1, ParameterAssumption DEF Capped
      <3>4. CASE ~(s = Sig(c) \/ Similar(s, Sig(c)))
        <4>1. unforgiven'[s] = unforgiven[s] /\ stored'[s] = stored[s]
          BY <2>1, <3>4 DEF WithoutRelated
        <4> QED BY <3>1, <3>2, <4>1, <1>t
      <3> QED BY <3>3, <3>4
    <2> QED BY <1>g, <2>1, <2>2 DEF InStep
  <1>4. CASE Judge(c)
    <2>1. /\ stored' = stored /\ unforgiven' = unforgiven /\ call[c].read = stored
          /\ call[c].step = "judging" /\ call'[c].prompt = call[c].prompt
          /\ call'[c].step = IF Attempt(c) >= RetryThreshold THEN "cut" ELSE "allowed"
      BY <1>4, <1>c DEF Judge, Moves, InStep, TypeOK
    <2>2. \A s \in Signatures : Due(c, s)' = Due(c, s) BY <2>1 DEF Due
    <2>3. Sig(c)' = Sig(c) BY <2>1 DEF Sig
    <2>4. call'[c].step = "allowed" =>
            1 + Cardinality(Occurrences(stored, Sig(c))) < RetryThreshold
      <3>1. stored \in [Signatures -> Nat] BY DEF TypeOK
      <3>2. Cardinality(Occurrences(stored, Sig(c))) \in Nat
        BY <3>1, OccurrencesMonotone
      <3>3. RetryThreshold \in Nat BY ParameterAssumption DEF RetryThreshold
      <3>4. Attempt(c) = 1 + Cardinality(Occurrences(stored, Sig(c))) BY <2>1 DEF Attempt
      <3> QED BY <2>1, <3>2, <3>3, <3>4
    <2>5. call'[c].step \notin {"judging", "recording"} BY <2>1
    <2> HIDE DEF Sig
    <2>6. \A s \in Signatures : Due(c, s)' \in Nat /\ stored'[s] = Capped(Due(c, s)')
      BY <1>i, <2>1, <2>2
    <2>7. call'[c].step = "allowed" =>
            1 + Cardinality(Occurrences(stored', Sig(c)')) < RetryThreshold
      BY <2>1, <2>3, <2>4
    <2>8. InStep(c)' BY <2>5, <2>6, <2>7 DEF InStep, Occurrences
    <2> QED BY <1>g, <2>8
  <1>5. CASE OtherGateDenies(c)
    <2>1. /\ stored' = stored /\ unforgiven' = unforgiven
          /\ call[c].step = "allowed" /\ call'[c].step = "idle"
      BY <1>5 DEF OtherGateDenies, Moves, TypeOK
    <2>2. \A s \in Signatures : Due(c, s)' = Due(c, s) BY <2>1 DEF Due
    <2> QED BY <1>g, <1>i, <2>1, <2>2 DEF InStep
  <1>6. CASE Launch(c)
    <2>1. /\ stored' = stored /\ unforgiven' = [unforgiven EXCEPT ![Sig(c)] = @ + 1]
          /\ call[c].step = "allowed" /\ call'[c].step = "running"
          /\ call'[c].prompt = call[c].prompt
      BY <1>6 DEF Launch, Moves, TypeOK
    <2>2. Sig(c)' = Sig(c) BY <2>1 DEF Sig
    <2>3. ASSUME NEW s \in Signatures PROVE Due(c, s)' = Due(c, s)
      <3> HIDE DEF Sig
      <3>1. unforgiven \in [Signatures -> Nat] BY DEF TypeOK
      <3>2. CASE s = Sig(c)
        <4>1. unforgiven'[s] = unforgiven[s] + 1 BY <2>1, <3>1, <3>2
        <4> QED BY <2>1, <2>2, <3>2, <4>1, <1>t DEF Due
      <3>3. CASE s # Sig(c)
        <4>1. unforgiven'[s] = unforgiven[s] BY <2>1, <3>1, <3>3
        <4> QED BY <2>1, <2>2, <3>3, <4>1 DEF Due
      <3> QED BY <3>2, <3>3
    <2> QED BY <1>g, <1>i, <2>1, <2>3 DEF InStep
  <1>7. CASE Record(c)
    <2>1. /\ stored' = Recorded(stored, Sig(c)) /\ unforgiven' = unforgiven
          /\ call[c].step = "recording" /\ call'[c].step = "idle"
      BY <1>7, <1>c DEF Record, Moves, InStep, TypeOK
    <2>2. ASSUME NEW s \in Signatures
          PROVE  Due(c, s)' \in Nat /\ stored'[s] = Capped(Due(c, s)')
      <3> HIDE DEF Sig
      <3>0. stored \in [Signatures -> 0 .. MaxEntries] BY DEF TypeOK
      <3>1. Due(c, s)' = unforgiven[s] BY <2>1 DEF Due
      <3>2. CASE s = Sig(c)
        <4>1. Due(c, s) = unforgiven[s] - 1 BY <2>1, <3>2 DEF Due
        <4>2. stored'[s] = IF stored[s] < MaxEntries THEN stored[s] + 1 ELSE MaxEntries
          BY <2>1, <3>0, <3>2 DEF Recorded
        <4>3. stored[s] = Capped(unforgiven[s] - 1) /\ unforgiven[s] - 1 \in Nat
          BY <1>i, <4>1
        <4> QED BY <1>t, <3>1, <4>2, <4>3, ParameterAssumption DEF Capped
      <3>3. CASE s # Sig(c)
        <4>1. Due(c, s) = unforgiven[s] BY <2>1, <3>3 DEF Due
        <4>2. stored'[s] = stored[s] BY <2>1, <3>0, <3>3 DEF Recorded
        <4> QED BY <1>i, <3>1, <4>1, <4>2
      <3> QED BY <3>2, <3>3
    <2> QED BY <1>g, <2>1, <2>2 DEF InStep
  <1> QED BY <1>1, <1>2, <1>3, <1>4, <1>5, <1>6, <1>7

\* As long as calls come one at a time, state.json holds the last launches of every task
\* that no override has forgiven, except the one under way.
THEOREM SoloHolds == Spec => [](TypeOK /\ Solo)
  <1>1. Init => TypeOK /\ Solo BY InitType, InitSolo
  <1>2. TypeOK /\ Solo /\ [Next]_vars => TypeOK' /\ Solo' BY TypeStep, SoloStep
  <1> QED BY <1>1, <1>2, PTL DEF Spec

\* A call that comes alone is cut only for launches that no override has forgiven.
THEOREM ForgivenIsForgotten == Spec => CutIsUnforgiven
  <1> DEFINE Fair(c) == alone /\ Judge(c) /\ call'[c].step = "cut" =>
               Cardinality(Occurrences(unforgiven, Sig(c))) >= RetryThreshold - 1
  <1>1. ASSUME TypeOK, Solo, NEW c \in Calls, alone, Judge(c), call'[c].step = "cut"
        PROVE  Cardinality(Occurrences(unforgiven, Sig(c))) >= RetryThreshold - 1
    <2>1. InStep(c) BY <1>1 DEF Solo, Judge, Idle
    <2>2. call[c].read = stored /\ call[c].step = "judging" BY <1>1, <2>1 DEF InStep, Judge
    <2>3. 1 + Cardinality(Occurrences(stored, Sig(c))) >= RetryThreshold
      BY <1>1, <2>2 DEF Judge, Moves, Attempt, TypeOK
    <2>4. stored \in [Signatures -> Nat] /\ unforgiven \in [Signatures -> Nat]
      BY <1>1 DEF TypeOK
    <2>5. \A s \in Signatures : stored[s] <= unforgiven[s]
      <3>1. \A s \in Signatures : stored[s] = Capped(unforgiven[s])
        BY <2>1, <2>2 DEF InStep, Due
      <3> QED BY <3>1, <2>4, CappedBounds
    <2>6. /\ Cardinality(Occurrences(stored, Sig(c))) \in Nat
          /\ Cardinality(Occurrences(unforgiven, Sig(c))) \in Nat
          /\ Cardinality(Occurrences(stored, Sig(c)))
               <= Cardinality(Occurrences(unforgiven, Sig(c)))
      BY <2>4, <2>5, OccurrencesMonotone
    <2>7. RetryThreshold \in Nat BY ParameterAssumption DEF RetryThreshold
    <2> QED BY <2>3, <2>6, <2>7
  <1>2. ASSUME TypeOK, Solo PROVE \A c \in Calls : Fair(c)
    BY <1>1, <1>2
  <1>3. TypeOK /\ Solo /\ [Next]_vars => [\A c \in Calls : Fair(c)]_vars
    BY <1>2
  <1> QED BY SoloHolds, <1>3, PTL DEF Spec, CutIsUnforgiven

\* The occurrences of one similar task are among them.
LEMMA OwnOccurrences ==
  ASSUME NEW state \in [Signatures -> Nat], NEW s, NEW t \in Signatures, Similar(t, s)
  PROVE  state[t] <= Cardinality(Occurrences(state, s))
  <1> HIDE DEF Similar
  <1> DEFINE Of == {<<t, i>> : i \in 1 .. state[t]}
             f  == [i \in 1 .. state[t] |-> <<t, i>>]
  <1>1. IsFiniteSet(1 .. state[t]) /\ Cardinality(1 .. state[t]) = state[t]
    BY FS_Interval
  <1>2. f \in Bijection(1 .. state[t], Of)
    <2>1. f \in [1 .. state[t] -> Of] OBVIOUS
    <2>2. \A i, j \in 1 .. state[t] : f[i] = f[j] => i = j OBVIOUS
    <2>3. \A i \in 1 .. state[t] : f[i] = <<t, i>> OBVIOUS
    <2>4. \A o \in Of : \E i \in 1 .. state[t] : f[i] = o
      <3> HIDE DEF f
      <3> QED BY <2>3
    <2> HIDE DEF f, Of
    <2> QED BY <2>1, <2>2, <2>4 DEF Bijection, Injection, Surjection, IsInjective
  <1>3. Cardinality(Of) = state[t]
    <2> HIDE DEF f, Of
    <2> QED BY <1>1, <1>2, FS_Bijection DEF ExistsBijection
  <1>4. Of \subseteq Occurrences(state, s) BY DEF Occurrences
  <1> QED BY <1>3, <1>4, OccurrencesFinite, FS_Subset

\* When the threshold is within reach of what the tracker keeps, a prompt that comes alone
\* and asks for no override is cut once enough launches like it are unforgiven.
THEOREM RetriesAreCut ==
  ASSUME RetryThreshold <= MaxEntries + 1
  PROVE  Spec => RetryIsCut
  <1> DEFINE Cuts(c) == alone /\ Launch(c) /\ ~call[c].override =>
               Cardinality(Occurrences(unforgiven, Sig(c))) + 1 < RetryThreshold
  <1>1. ASSUME TypeOK, Solo, NEW c \in Calls, alone, Launch(c), ~call[c].override
        PROVE  Cardinality(Occurrences(unforgiven, Sig(c))) + 1 < RetryThreshold
    <2>1. InStep(c) BY <1>1 DEF Solo, Launch, Idle
    <2>2. call[c].step = "allowed" BY <1>1 DEF Launch
    <2>3. 1 + Cardinality(Occurrences(stored, Sig(c))) < RetryThreshold
      BY <1>1, <2>1, <2>2 DEF InStep
    <2>4. stored \in [Signatures -> Nat] /\ unforgiven \in [Signatures -> Nat]
      BY <1>1 DEF TypeOK
    <2>5. Cardinality(Occurrences(stored, Sig(c))) \in Nat BY <2>4, OccurrencesMonotone
    <2>6. RetryThreshold \in Nat BY ParameterAssumption DEF RetryThreshold
    <2>7. \A s \in Signatures : stored[s] = Capped(unforgiven[s])
      BY <2>1, <2>2 DEF InStep, Due
    <2> DEFINE me == Sig(c)
    <2> HIDE DEF me
    <2>8. ASSUME NEW s \in Signatures, Similar(s, me) PROVE stored[s] = unforgiven[s]
      <3> HIDE DEF Similar
      <3>1. stored[s] <= Cardinality(Occurrences(stored, me))
        BY <2>4, <2>8, OwnOccurrences
      <3>2. stored[s] < MaxEntries
        BY <3>1, <2>3, <2>4, <2>5, <2>6, ParameterAssumption DEF me
      <3> QED BY <3>2, <2>4, <2>7, ParameterAssumption DEF Capped
    <2>9. Occurrences(unforgiven, me) = Occurrences(stored, me)
      <3> HIDE DEF Similar
      <3> QED BY <2>8 DEF Occurrences
    <2> QED BY <2>3, <2>5, <2>6, <2>9 DEF me
  <1>2. ASSUME TypeOK, Solo PROVE \A c \in Calls : Cuts(c)
    BY <1>1, <1>2
  <1>3. TypeOK /\ Solo /\ [Next]_vars => [\A c \in Calls : Cuts(c)]_vars
    BY <1>2
  <1> QED BY SoloHolds, <1>3, PTL DEF Spec, RetryIsCut

-----------------------------------------------------------------------------
(* The same prompt again.                                                     *)

\* A prompt with anything to know it by is like itself, whatever share the two must have.
LEMMA SimilarToItself ==
  ASSUME NEW s \in Signatures, Percent <= 100, IsFiniteSet(s.words), IsFiniteSet(s.paths),
         Weight(s) > 0
  PROVE  Similar(s, s)
  <1>1. Cardinality(s.words) \in Nat /\ Cardinality(s.paths) \in Nat
    BY FS_CardinalityType
  <1>2. Weight(s) \in Nat BY <1>1 DEF Weight
  <1>3. s.words \cap s.words = s.words /\ s.paths \cap s.paths = s.paths OBVIOUS
  <1>4. Shared(s, s) = Weight(s) BY <1>3 DEF Shared, Weight
  <1> DEFINE w == Weight(s)
  <1>5. Percent * (w + w) <= 2 * w * 100
    <2>1. Percent \in Nat BY ParameterAssumption
    <2> HIDE DEF w
    <2>2. w \in Nat BY <1>2 DEF w
    <2>3. (100 - Percent) * (w + w) >= 0 BY <2>1, <2>2
    <2>4. (100 - Percent) * (w + w) = 100 * (w + w) - Percent * (w + w) BY <2>1, <2>2
    <2>5. Percent * (w + w) \in Int BY <2>1, <2>2
    <2> QED BY <2>2, <2>3, <2>4, <2>5
  <1> QED BY <1>4, <1>5 DEF Similar

\* "Cuts the same delegation retried" (circuit-breaker:1), of the very same one: as long as no two
\* calls were ever in flight together, a prompt with a word or a path to know it by launches fewer
\* times than the threshold without the override.
SameIsCut ==
  [][\A c \in Calls :
       alone /\ Launch(c) /\ ~call[c].override /\ Weight(Sig(c)) > 0 =>
         unforgiven[Sig(c)] + 1 < RetryThreshold]_vars

\* For any prompts, whatever similarity two of them must have to count as one task: where calls
\* never overlap, a delegation sent again and again word for word is cut.  Calls that overlap, and
\* prompts with neither words nor paths, are not covered.
THEOREM TheSameIsCut ==
  ASSUME RetryThreshold <= MaxEntries + 1, Percent <= 100,
         \A p \in Prompts : IsFiniteSet(p.goal) /\ IsFiniteSet(p.text) /\ IsFiniteSet(p.paths)
  PROVE  Spec => SameIsCut
  <1> DEFINE Cuts(c) == alone /\ Launch(c) /\ ~call[c].override =>
               Cardinality(Occurrences(unforgiven, Sig(c))) + 1 < RetryThreshold
             Same(c) == alone /\ Launch(c) /\ ~call[c].override /\ Weight(Sig(c)) > 0 =>
               unforgiven[Sig(c)] + 1 < RetryThreshold
  <1>1. ASSUME TypeOK, NEW c \in Calls, Cuts(c) PROVE Same(c)
    <2> SUFFICES ASSUME alone, Launch(c), ~call[c].override, Weight(Sig(c)) > 0
                 PROVE  unforgiven[Sig(c)] + 1 < RetryThreshold
      OBVIOUS
    <2>1. PICK p \in Prompts : Sig(c) = Signature(p) BY <1>1 DEF Sig, TypeOK
    <2>2. IsFiniteSet(Sig(c).words) /\ IsFiniteSet(Sig(c).paths) BY <2>1 DEF Signature
    <2> DEFINE me == Sig(c)
    <2>3. me \in Signatures BY <1>1, SigType
    <2>4. unforgiven \in [Signatures -> Nat] BY <1>1 DEF TypeOK
    <2>5. Cardinality(Occurrences(unforgiven, me)) + 1 < RetryThreshold BY <1>1
    <2>6. Similar(me, me) BY <2>2, <2>3, SimilarToItself
    <2> HIDE DEF me
    <2>7. unforgiven[me] <= Cardinality(Occurrences(unforgiven, me))
      BY <2>3, <2>4, <2>6, OwnOccurrences
    <2>8. /\ Cardinality(Occurrences(unforgiven, me)) \in Nat /\ unforgiven[me] \in Nat
          /\ RetryThreshold \in Nat
      BY <2>3, <2>4, OccurrencesMonotone, ParameterAssumption DEF RetryThreshold
    <2>9. unforgiven[me] + 1 < RetryThreshold BY <2>5, <2>7, <2>8
    <2> QED BY <2>9 DEF me
  <1>2. TypeOK /\ [\A c \in Calls : Cuts(c)]_vars => [\A c \in Calls : Same(c)]_vars
    BY <1>1
  <1>3. RetryIsCut <=> [][\A c \in Calls : Cuts(c)]_vars BY DEF RetryIsCut
  <1>4. SameIsCut <=> [][\A c \in Calls : Same(c)]_vars BY DEF SameIsCut
  <1> HIDE DEF Cuts, Same
  <1>5. Spec => RetryIsCut BY RetriesAreCut
  <1>6. Spec => [][\A c \in Calls : Same(c)]_vars BY <1>2, <1>3, <1>5, TypeCorrect, PTL
  <1> QED BY <1>4, <1>6

=============================================================================

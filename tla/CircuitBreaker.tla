--------------------------- MODULE CircuitBreaker ---------------------------
(* The circuit-breaker gate: it cuts a delegation that repeats, in substance, *)
(* ones the session already launched.  A PreToolUse hook (index.mjs) reads     *)
(* state.json and judges; a PostToolUse hook (track.mjs) records the launch;   *)
(* an override in the prompt erases what is recorded of the same task.  Each   *)
(* hook is a process of its own that reads the whole file and replaces it      *)
(* whole, and the calls of one message run side by side.                       *)
EXTENDS Integers, FiniteSets

CONSTANTS
  Calls,      \* the delegations that can be in flight together
  Prompts,    \* records [goal, text : sets of word pairs, paths : set of file names]
  Threshold,  \* retryThreshold
  Percent,    \* similarityThreshold, in hundredths
  MaxEntries, \* MAX_ENTRIES_PER_KEY
  MaxCalls    \* bound of the session's length

ASSUME ParameterAssumption ==
  /\ Threshold \in Nat /\ Percent \in Nat
  /\ MaxEntries \in Nat \ {0} /\ MaxCalls \in Nat
  /\ IsFiniteSet(Calls) /\ IsFiniteSet(Prompts)

-----------------------------------------------------------------------------
(* What a prompt is known by.                                                 *)

\* The goal and the body of the scope list, or else the whole text; a path weighs double.
Signature(p) == [words |-> IF p.goal # {} THEN p.goal ELSE p.text, paths |-> p.paths]

Signatures == {Signature(p) : p \in Prompts}

Weight(s)    == Cardinality(s.words) + 2 * Cardinality(s.paths)
Shared(s, t) == Cardinality(s.words \cap t.words) + 2 * Cardinality(s.paths \cap t.paths)

\* The Dice coefficient of the two signatures reaches the threshold.
Similar(s, t) ==
  /\ Weight(s) > 0 /\ Weight(t) > 0
  /\ 2 * Shared(s, t) * 100 >= Percent * (Weight(s) + Weight(t))

\* The occurrences, under whatever key, that count as the same task.
Occurrences(state, s) ==
  UNION {{<<t, i>> : i \in 1 .. state[t]} : t \in {u \in Signatures : Similar(u, s)}}

\* Mutant: a threshold of one is taken at its word.
RetryThresholdRaw == Threshold

RetryThreshold == IF Threshold < 2 THEN 2 ELSE Threshold

\* Mutant: the prompt's own key alone is erased.
WithoutOwnKey(state, s) == [state EXCEPT ![s] = 0]

WithoutRelated(state, s) ==
  [t \in Signatures |->
     IF t = s \/ (state[t] > 0 /\ Similar(t, s)) THEN 0 ELSE state[t]]

\* Mutant: the key's list is not cut to its last entries.
RecordedUncapped(state, s) == [state EXCEPT ![s] = @ + 1]

Recorded(state, s) ==
  [state EXCEPT ![s] = IF state[s] < MaxEntries THEN state[s] + 1 ELSE MaxEntries]

-----------------------------------------------------------------------------
VARIABLES
  stored,     \* state.json: how often each signature is recorded
  call,       \* the calls in flight
  sent,       \* how many delegations the session has sent
  launched,   \* how often each signature was launched
  unforgiven, \* the same, since an override last erased its task
  alone       \* no two calls have been in flight together yet

ghosts == <<sent, launched, unforgiven, alone>>
vars   == <<stored, call, ghosts>>

None == [s \in Signatures |-> 0]

Steps == {"idle", "sent", "judging", "allowed", "running", "recording", "cut"}

Idle(c)   == call[c].step \in {"idle", "cut"}
Sig(c)    == Signature(call[c].prompt)
Moves(c, step) == call' = [call EXCEPT ![c].step = step]

Init ==
  /\ stored = None
  /\ call \in [Calls -> [prompt : Prompts, override : {FALSE}, step : {"idle"}, read : {None}]]
  /\ sent = 0
  /\ launched = None
  /\ unforgiven = None
  /\ alone = TRUE

\* The agent delegates, with or without the words that override the breaker.
Delegate(c, p, override) ==
  /\ Idle(c)
  /\ sent < MaxCalls
  /\ sent' = sent + 1
  /\ call' = [call EXCEPT ![c] = [prompt |-> p, override |-> override, step |-> "sent", read |-> None]]
  /\ alone' = (alone /\ \A d \in Calls : Idle(d))
  /\ UNCHANGED <<stored, launched, unforgiven>>

\* The PreToolUse hook reads state.json.
ReadBefore(c) ==
  /\ call[c].step = "sent"
  /\ call' = [call EXCEPT ![c].step = "judging", ![c].read = stored]
  /\ UNCHANGED <<stored, ghosts>>

Override(c) ==
  /\ call[c].step = "judging"
  /\ call[c].override
  /\ stored' = WithoutRelated(call[c].read, Sig(c))
  /\ unforgiven' = [s \in Signatures |->
                     IF s = Sig(c) \/ Similar(s, Sig(c)) THEN 0 ELSE unforgiven[s]]
  /\ Moves(c, "allowed")
  /\ UNCHANGED <<sent, launched, alone>>

\* Mutant: the attempt at hand is not counted.
AttemptsBefore(c) == Cardinality(Occurrences(call[c].read, Sig(c)))

Attempt(c) == 1 + Cardinality(Occurrences(call[c].read, Sig(c)))

\* Mutant: the attempt is recorded before the other gates have judged it.
JudgeRecords(c) ==
  /\ call[c].step = "judging"
  /\ ~call[c].override
  /\ Moves(c, IF Attempt(c) >= RetryThreshold THEN "cut" ELSE "allowed")
  /\ stored' = Recorded(call[c].read, Sig(c))
  /\ UNCHANGED ghosts

Judge(c) ==
  /\ call[c].step = "judging"
  /\ ~call[c].override
  /\ Moves(c, IF Attempt(c) >= RetryThreshold THEN "cut" ELSE "allowed")
  /\ UNCHANGED <<stored, ghosts>>

\* Another gate denies the call: it never launches and PostToolUse never fires.
OtherGateDenies(c) ==
  /\ call[c].step = "allowed"
  /\ Moves(c, "idle")
  /\ UNCHANGED <<stored, ghosts>>

Launch(c) ==
  /\ call[c].step = "allowed"
  /\ launched' = [launched EXCEPT ![Sig(c)] = @ + 1]
  /\ unforgiven' = [unforgiven EXCEPT ![Sig(c)] = @ + 1]
  /\ Moves(c, "running")
  /\ UNCHANGED <<stored, sent, alone>>

\* The PostToolUse hook reads state.json again.
ReadAfter(c) ==
  /\ call[c].step = "running"
  /\ call' = [call EXCEPT ![c].step = "recording", ![c].read = stored]
  /\ UNCHANGED <<stored, ghosts>>

Record(c) ==
  /\ call[c].step = "recording"
  /\ stored' = Recorded(call[c].read, Sig(c))
  /\ Moves(c, "idle")
  /\ UNCHANGED ghosts

Next ==
  \E c \in Calls :
    \/ \E p \in Prompts, override \in BOOLEAN : Delegate(c, p, override)
    \/ ReadBefore(c) \/ Override(c) \/ Judge(c) \/ OtherGateDenies(c)
    \/ Launch(c) \/ ReadAfter(c) \/ Record(c)

Spec == Init /\ [][Next]_vars

-----------------------------------------------------------------------------
(* Properties.                                                                *)

\* Types; no task is ever recorded more than MAX_ENTRIES_PER_KEY times.
TypeOK ==
  /\ stored \in [Signatures -> 0 .. MaxEntries]
  /\ call \in [Calls -> [prompt : Prompts, override : BOOLEAN, step : Steps,
                         read : [Signatures -> 0 .. MaxEntries]]]
  /\ sent \in 0 .. MaxCalls
  /\ launched \in [Signatures -> Nat] /\ unforgiven \in [Signatures -> Nat]
  /\ alone \in BOOLEAN

\* "Only delegations that actually launched (allowed by all gates) count as attempts"
\* (registry.json): whatever the hooks overwrite of each other, no more is recorded of a
\* task than was launched of it.
OnlyLaunchesCount == \A s \in Signatures : stored[s] <= launched[s]

\* "A first attempt is never a retry" (circuit-breaker:12): a call is cut only when the
\* session launched delegations like it, one less than the threshold and never none.
CutIsARetry ==
  \A c \in Calls :
    call[c].step = "cut" =>
      /\ Cardinality(Occurrences(launched, Sig(c))) >= RetryThreshold - 1
      /\ \E s \in Signatures : launched[s] > 0 /\ Similar(s, Sig(c))

\* "This gate will allow it and reset the counter" (circuit-breaker:356): as long as calls
\* come one at a time, a call is cut only for launches that no override has forgiven.
CutIsUnforgiven ==
  [][\A c \in Calls :
       alone /\ Judge(c) /\ call'[c].step = "cut" =>
         Cardinality(Occurrences(unforgiven, Sig(c))) >= RetryThreshold - 1]_vars

\* "Cuts the same delegation retried" (circuit-breaker:1): as long as calls come one at a
\* time, a prompt without the override does not launch once the threshold is reached.
RetryIsCut ==
  [][\A c \in Calls :
       alone /\ Launch(c) /\ ~call[c].override =>
         Cardinality(Occurrences(unforgiven, Sig(c))) + 1 < RetryThreshold]_vars

=============================================================================

-------------------------- MODULE TaskClaims_proofs --------------------------
(* Proofs about TaskClaims: types, and that file-ownership lets nobody write    *)
(* over a claim that held when its write was judged.                            *)
EXTENDS TaskClaims, TLAPS

\* Ages, claims and silences are natural numbers.
LEMMA Ages ==
  /\ Horizon \in Nat \ {0} /\ IdleWindow <= Horizon /\ TTL <= Horizon
  /\ Undated = Horizon + 1
  /\ \A age \in 0 .. Undated : Older(age) \in 0 .. Undated /\ (age <= Horizon => Older(age) <= Horizon)
  /\ \A age \in 0 .. Undated : age <= Older(age)
  /\ \A age \in 0 .. Undated, other \in 0 .. Horizon : age <= other => Older(age) <= Older(other)
BY WindowAssumption DEF Horizon, Undated, Older

\* A task as it is after a command has changed some of its fields.
LEMMA ChangedTask ==
  ASSUME NEW t \in Task, NEW s \in Sessions \cup {NoOwner}, NEW age \in 0 .. Undated,
         NEW status \in {"open", "blocked", "in_forge"}
  PROVE  /\ [t EXCEPT !.owner = s, !.age = age] \in Task
         /\ [t EXCEPT !.age = age] \in Task
         /\ [t EXCEPT !.status = status] \in Task
BY DEF Task

\* Every session starts with its types.
LEMMA InitTypes == Init => TypeOK
<1> SUFFICES ASSUME Init PROVE TypeOK
  OBVIOUS
<1>1. DOMAIN tasks \subseteq Ids /\ tasks \in [DOMAIN tasks -> Task]
  <2>1. CASE tasks \in [{} -> Task]
    BY <2>1
  <2>2. ASSUME NEW id \in Ids,
               tasks \in [{id} -> {[status |-> "open", owner |-> s, age |-> Undated, owns |-> {}] : s \in Sessions}]
        PROVE  DOMAIN tasks \subseteq Ids /\ tasks \in [DOMAIN tasks -> Task]
    <3>1. DOMAIN tasks = {id}
      BY <2>2
    <3>2. tasks[id] \in Task
      BY <2>2, Ages DEF Task
    <3> QED
      BY <2>2, <3>1, <3>2
  <2> QED
    BY <2>1, <2>2 DEF Init
<1> QED
  BY <1>1, Ages DEF Init, TypeOK, Forms

\* A session's turn makes its silence zero and changes no other.
LEMMA TurnTypes ==
  ASSUME TypeOK, NEW s \in Sessions, quiet' = [quiet EXCEPT ![s] = 0]
  PROVE  /\ quiet' \in [Sessions -> 0 .. Horizon]
         /\ quiet'[s] = 0
         /\ \A o \in Sessions \ {s} : quiet'[o] = quiet[o]
BY Ages DEF TypeOK

\* What a task command does: it changes one task, or adds or removes one.
TaskStep(s, id) ==
  \/ \E owns \in SUBSET Files : Add(s, id, owns)
  \/ Claim(s, id) \/ Release(s, id) \/ Close(s, id)
  \/ \E status \in {"open", "blocked", "in_forge"} : SetStatus(s, id, status)

\* A task command leaves every task typed; a task it changed is as it was but for its
\* status, or unclaimed, or now its session's, which the others' writes are told of.
LEMMA TaskCommand ==
  ASSUME TypeOK, NEW s \in Sessions, NEW id \in Ids, TaskStep(s, id)
  PROVE  /\ TypeOK'
         /\ UNCHANGED <<alive, writing, spelled, missed, waiting>>
         /\ quiet' = [quiet EXCEPT ![s] = 0]
         /\ \A o \in Sessions : newer[o] \subseteq newer'[o]
         /\ \A i \in DOMAIN tasks' :
              \/ i \in DOMAIN tasks /\ tasks'[i].owner = tasks[i].owner
                 /\ tasks'[i].age = tasks[i].age /\ tasks'[i].owns = tasks[i].owns
              \/ tasks'[i].owner = NoOwner
              \/ tasks'[i].owner = s /\ \A o \in Sessions \ {s} : writing[o] # NoFile => i \in newer'[o]
<1>0. DOMAIN tasks \subseteq Ids /\ tasks \in [DOMAIN tasks -> Task] /\ Undated \in 0 .. Undated /\ 0 \in 0 .. Undated
  BY Ages DEF TypeOK
<1>1. UNCHANGED <<alive, writing, spelled, missed, waiting>> /\ quiet' = [quiet EXCEPT ![s] = 0]
  BY DEF TaskStep, Add, Claim, Release, Close, SetStatus, Turn, Working, Taken, call
<1>2. quiet' \in [Sessions -> 0 .. Horizon]
  BY <1>1, TurnTypes
<1>3. newer' = newer \/ Taken(s, id)
  BY DEF TaskStep, Add, Claim, Release, Close, SetStatus, Working, call
<1>4. newer' \in [Sessions -> SUBSET Ids] /\ \A o \in Sessions : newer[o] \subseteq newer'[o]
  BY <1>3 DEF TypeOK, Taken
<1> DEFINE Typed == DOMAIN tasks' \subseteq Ids /\ tasks' \in [DOMAIN tasks' -> Task]
           Known(i) == \A o \in Sessions \ {s} : writing[o] # NoFile => i \in newer'[o]
           Told(i) ==
              \/ i \in DOMAIN tasks /\ tasks'[i].owner = tasks[i].owner
                 /\ tasks'[i].age = tasks[i].age /\ tasks'[i].owns = tasks[i].owns
              \/ tasks'[i].owner = NoOwner
              \/ tasks'[i].owner = s /\ Known(i)
<1>5. Taken(s, id) => Known(id)
  BY DEF Taken
<1>6. Typed /\ \A i \in DOMAIN tasks' : Told(i)
  <2> HIDE DEF Known
  <2>1. ASSUME NEW owns \in SUBSET Files, Add(s, id, owns)
        PROVE  Typed /\ \A i \in DOMAIN tasks' : Told(i)
    <3> DEFINE t == [status |-> "open", owner |-> s, age |-> 0, owns |-> owns]
    <3>1. t \in Task
      BY <1>0 DEF Task
    <3>2. tasks' = [i \in DOMAIN tasks \cup {id} |-> IF i = id THEN t ELSE tasks[i]]
      BY <2>1 DEF Add, With
    <3>3. t.owner = s /\ Known(id)
      BY <1>5, <2>1 DEF Add
    <3> HIDE DEF t
    <3> QED
      BY <1>0, <3>1, <3>2, <3>3
  <2>2. CASE Claim(s, id)
    <3>1. id \in DOMAIN tasks /\ tasks' = [tasks EXCEPT ![id] = [tasks[id] EXCEPT !.owner = s, !.age = 0]]
      BY <2>2 DEF Claim
    <3>2. [tasks[id] EXCEPT !.owner = s, !.age = 0] \in Task
      BY <1>0, <3>1, ChangedTask
    <3>3. [tasks[id] EXCEPT !.owner = s, !.age = 0].owner = s /\ Known(id)
      BY <1>0, <1>5, <2>2, <3>1 DEF Task, Claim
    <3> QED
      BY <1>0, <3>1, <3>2, <3>3
  <2>3. CASE Release(s, id)
    <3>1. id \in DOMAIN tasks /\ tasks' = [tasks EXCEPT ![id] = [tasks[id] EXCEPT !.owner = NoOwner, !.age = Undated]]
      BY <2>3 DEF Release
    <3>2. [tasks[id] EXCEPT !.owner = NoOwner, !.age = Undated] \in Task
      BY <1>0, <3>1, ChangedTask
    <3>3. [tasks[id] EXCEPT !.owner = NoOwner, !.age = Undated].owner = NoOwner
      BY <1>0, <3>1 DEF Task
    <3> QED
      BY <1>0, <3>1, <3>2, <3>3
  <2>4. CASE Close(s, id)
    BY <1>0, <2>4 DEF Close
  <2>5. ASSUME NEW status \in {"open", "blocked", "in_forge"}, SetStatus(s, id, status)
        PROVE  Typed /\ \A i \in DOMAIN tasks' : Told(i)
    <3>1. id \in DOMAIN tasks /\ tasks' = [tasks EXCEPT ![id] = [tasks[id] EXCEPT !.status = status]]
      BY <2>5 DEF SetStatus
    <3>2. [tasks[id] EXCEPT !.status = status] \in Task
      BY <1>0, <3>1, ChangedTask
    <3>3. /\ [tasks[id] EXCEPT !.status = status].owner = tasks[id].owner
          /\ [tasks[id] EXCEPT !.status = status].age = tasks[id].age
          /\ [tasks[id] EXCEPT !.status = status].owns = tasks[id].owns
      BY <1>0, <3>1 DEF Task
    <3> QED
      BY <1>0, <3>1, <3>2, <3>3
  <2> QED
    BY <2>1, <2>2, <2>3, <2>4, <2>5 DEF TaskStep
<1> QED
  BY <1>1, <1>2, <1>4, <1>6 DEF TypeOK

\* Time passes: owners and files stay, ages only grow.
LEMMA TickTypes ==
  ASSUME TypeOK, Tick
  PROVE  /\ TypeOK'
         /\ DOMAIN tasks' = DOMAIN tasks
         /\ \A id \in DOMAIN tasks :
              /\ tasks'[id].owner = tasks[id].owner /\ tasks'[id].owns = tasks[id].owns
              /\ tasks'[id].age = Older(tasks[id].age)
<1>1. /\ DOMAIN tasks' = DOMAIN tasks
      /\ \A id \in DOMAIN tasks : tasks'[id] = [tasks[id] EXCEPT !.age = Older(tasks[id].age)]
  BY DEF Tick
<1>2. \A id \in DOMAIN tasks : tasks[id] \in Task /\ Older(tasks[id].age) \in 0 .. Undated
  BY Ages DEF TypeOK, Task
<1>3. \A id \in DOMAIN tasks :
        /\ tasks'[id] \in Task
        /\ tasks'[id].owner = tasks[id].owner /\ tasks'[id].owns = tasks[id].owns
        /\ tasks'[id].age = Older(tasks[id].age)
  BY <1>1, <1>2 DEF Task
<1>4. tasks' \in [DOMAIN tasks' -> Task]
  BY <1>1, <1>3 DEF Tick
<1>5. \A age \in 0 .. Horizon : Older(age) \in 0 .. Horizon
  BY Ages
<1>6. quiet' \in [Sessions -> 0 .. Horizon]
  BY <1>5, Ages DEF Tick, TypeOK
<1> QED
  BY <1>1, <1>3, <1>4, <1>6 DEF Tick, TypeOK, call

\* Writes begin and end, turns end, sessions die and come back: the tasks stay.
Session(s) ==
  \/ \E f \in Files, form \in Forms : BeginWrite(s, f, form)
  \/ EndWrite(s) \/ StopRefused(s) \/ StopAllowed(s) \/ Die(s) \/ Resume(s)

\* What a session does besides task commands keeps the types and the tasks.
LEMMA SessionTypes ==
  ASSUME TypeOK, NEW s \in Sessions, Session(s)
  PROVE  /\ TypeOK'
         /\ tasks' = tasks
         /\ quiet' = quiet \/ quiet' = [quiet EXCEPT ![s] = 0]
<1>1. tasks' = tasks /\ (quiet' = quiet \/ quiet' = [quiet EXCEPT ![s] = 0])
  BY DEF Session, BeginWrite, EndWrite, StopRefused, StopAllowed, Die, Resume, Turn
<1>2. quiet' \in [Sessions -> 0 .. Horizon]
  BY <1>1, TurnTypes DEF TypeOK
<1>3. /\ writing' \in [Sessions -> Files \cup {NoFile}] /\ spelled' \in [Sessions -> Forms]
      /\ newer' \in [Sessions -> SUBSET Ids] /\ missed' \in [Sessions -> SUBSET Sessions]
  <2>1. ASSUME NEW f \in Files, NEW form \in Forms, BeginWrite(s, f, form)
        PROVE  /\ writing' \in [Sessions -> Files \cup {NoFile}] /\ spelled' \in [Sessions -> Forms]
               /\ newer' \in [Sessions -> SUBSET Ids] /\ missed' \in [Sessions -> SUBSET Sessions]
    BY <2>1 DEF TypeOK, BeginWrite
  <2>2. CASE Forget(s)
    BY <2>2 DEF TypeOK, Forget, Forms
  <2>3. CASE UNCHANGED call
    BY <2>3 DEF TypeOK, call
  <2> QED
    BY <2>1, <2>2, <2>3 DEF Session, EndWrite, StopRefused, StopAllowed, Die, Resume
<1>4. alive' \subseteq Sessions /\ waiting' \subseteq Sessions
  BY DEF TypeOK, Session, BeginWrite, EndWrite, StopRefused, StopAllowed, Die, Resume
<1> QED
  BY <1>1, <1>2, <1>3, <1>4 DEF TypeOK

\* Every step is one of these.
LEMMA NextCases ==
  ASSUME [Next]_vars
  PROVE  \/ Tick
         \/ \E s \in Sessions, id \in Ids : TaskStep(s, id)
         \/ \E s \in Sessions : Session(s)
         \/ UNCHANGED vars
BY DEF Next, TaskStep, Session

\* Ages and silences stay in their ranges, tasks well formed, whatever sessions do.
THEOREM TypeCorrect == Spec => []TypeOK
<1>1. TypeOK /\ [Next]_vars => TypeOK'
  <2> SUFFICES ASSUME TypeOK, [Next]_vars PROVE TypeOK'
    OBVIOUS
  <2>1. CASE UNCHANGED vars
    BY <2>1 DEF vars, call, TypeOK
  <2> QED
    BY <2>1, NextCases, TaskCommand, TickTypes, SessionTypes
<1> QED
  BY <1>1, InitTypes, PTL DEF Spec

-----------------------------------------------------------------------------
(* Writing over a claim.                                                      *)

\* A write of s that is on its way reaches what another session holds with task id.
Reaches(s, id) ==
  /\ writing[s] # NoFile /\ spelled[s] = "relative"
  /\ tasks[id].owner \in Sessions \ {s}
  /\ \E o \in tasks[id].owns : writing[s] \in Covers[o]

\* A claim without a transcript that has outlived the idle window.
Expired(id) ==
  /\ tasks[id].owner \in Untraced
  /\ tasks[id].age # Undated /\ tasks[id].age >= IdleWindow

\* The invariant: a task another session holds, live or not, was taken after the verdict,
\* or is held by a session that was idle at the verdict, or has expired without a
\* transcript.  None of the three mentions silences, so sessions may speak again.
Noted ==
  \A s \in Sessions, id \in DOMAIN tasks :
    Reaches(s, id) => id \in newer[s] \/ tasks[id].owner \in missed[s] \/ Expired(id)

\* Whoever holds a task that file-ownership let pass was idle or has expired.
LEMMA VerdictIsNoted ==
  ASSUME TypeOK, NEW s \in Sessions, NEW f \in Files, Claimants(f, s) = {},
         NEW id \in DOMAIN tasks, tasks[id].owner \in Sessions \ {s},
         \E o \in tasks[id].owns : f \in Covers[o]
  PROVE  SessionState(tasks[id].owner) = "gone" \/ Expired(id)
<1>1. ~GateLive(tasks[id])
  BY DEF Claimants, BlocksCaller
<1>2. tasks[id].owner # NoOwner /\ tasks[id].age \in 0 .. Undated
  BY SetAssumption DEF TypeOK, Task
<1> QED
  BY <1>1, <1>2, WindowAssumption, Ages DEF GateLive, SessionState, Expired

\* Time and task commands keep what is noted; an expired claim stays expired.
LEMMA NotedSteps ==
  ASSUME TypeOK, Noted, Tick \/ \E r \in Sessions, k \in Ids : TaskStep(r, k)
  PROVE  Noted'
<1>1. SUFFICES ASSUME NEW s \in Sessions, NEW id \in DOMAIN tasks', Reaches(s, id)'
               PROVE  id \in newer'[s] \/ tasks'[id].owner \in missed'[s] \/ Expired(id)'
  BY DEF Noted
<1>2. CASE Tick
  <2>1. /\ id \in DOMAIN tasks /\ tasks'[id].owner = tasks[id].owner
        /\ tasks'[id].owns = tasks[id].owns /\ tasks'[id].age = Older(tasks[id].age)
        /\ UNCHANGED <<writing, spelled, newer, missed>>
    BY <1>1, <1>2, TickTypes DEF Tick, call
  <2>2. Reaches(s, id)
    BY <1>1, <2>1 DEF Reaches
  <2>3. tasks[id].age \in 0 .. Undated
    BY <2>1 DEF TypeOK, Task
  <2>4. Expired(id) => Expired(id)'
    BY <2>1, <2>3, WindowAssumption, Ages DEF Expired, Older
  <2> QED
    BY <2>1, <2>2, <2>4 DEF Noted
<1>3. ASSUME NEW r \in Sessions, NEW k \in Ids, TaskStep(r, k)
      PROVE  id \in newer'[s] \/ tasks'[id].owner \in missed'[s] \/ Expired(id)'
  <2>1. UNCHANGED <<writing, spelled, missed>> /\ newer[s] \subseteq newer'[s]
    BY <1>3, TaskCommand
  <2>2. tasks'[id].owner \in Sessions \ {s} /\ writing[s] # NoFile
    BY <1>1, <2>1 DEF Reaches
  <2>3. CASE tasks'[id].owner = r /\ \A o \in Sessions \ {r} : writing[o] # NoFile => id \in newer'[o]
    BY <2>2, <2>3
  <2>4. CASE /\ id \in DOMAIN tasks /\ tasks'[id].owner = tasks[id].owner
             /\ tasks'[id].age = tasks[id].age /\ tasks'[id].owns = tasks[id].owns
    <3>1. Reaches(s, id) /\ (Expired(id) => Expired(id)')
      BY <1>1, <2>1, <2>4 DEF Reaches, Expired
    <3> QED
      BY <2>1, <2>4, <3>1 DEF Noted
  <2> QED
    BY <1>3, <2>2, <2>3, <2>4, TaskCommand, SetAssumption
<1> QED
  BY <1>2, <1>3

\* So does what sessions do besides: a write that begins notes who was idle.
LEMMA NotedSessions ==
  ASSUME TypeOK, Noted, NEW r \in Sessions, Session(r)
  PROVE  Noted'
<1>1. SUFFICES ASSUME NEW s \in Sessions, NEW id \in DOMAIN tasks, Reaches(s, id)'
               PROVE  id \in newer'[s] \/ tasks[id].owner \in missed'[s] \/ Expired(id)
  <2>1. tasks' = tasks
    BY SessionTypes
  <2> QED
    BY <2>1 DEF Noted, Expired
<1>2. tasks' = tasks
  BY SessionTypes
<1>3. ASSUME NEW f \in Files, NEW form \in Forms, BeginWrite(r, f, form), s = r
      PROVE  id \in newer'[s] \/ tasks[id].owner \in missed'[s] \/ Expired(id)
  <2>1. writing'[s] = f /\ spelled'[s] = form
    BY <1>3 DEF BeginWrite, TypeOK
  <2>2. form = "relative" /\ tasks[id].owner \in Sessions \ {s} /\ \E o \in tasks[id].owns : f \in Covers[o]
    BY <1>1, <1>2, <2>1 DEF Reaches
  <2>3. Claimants(f, s) = {}
    BY <1>3, <2>2, SetAssumption DEF BeginWrite, Judged
  <2>4. SessionState(tasks[id].owner) = "gone" \/ Expired(id)
    BY <2>2, <2>3, VerdictIsNoted
  <2>5. missed'[s] = {o \in Sessions \ {s} : SessionState(o) = "gone"}
    BY <1>3 DEF BeginWrite, TypeOK
  <2> QED
    BY <2>2, <2>4, <2>5
<1>4. CASE <<writing'[s], spelled'[s], newer'[s], missed'[s]>> = <<writing[s], spelled[s], newer[s], missed[s]>>
  <2>1. Reaches(s, id)
    BY <1>1, <1>2, <1>4 DEF Reaches
  <2> QED
    BY <1>4, <2>1 DEF Noted
<1>5. CASE writing'[s] = NoFile
  BY <1>1, <1>5 DEF Reaches
<1>6. CASE Forget(r)
  BY <1>4, <1>5, <1>6 DEF Forget, TypeOK
<1>7. ASSUME NEW f \in Files, NEW form \in Forms, BeginWrite(r, f, form), s # r
      PROVE  id \in newer'[s] \/ tasks[id].owner \in missed'[s] \/ Expired(id)
  BY <1>4, <1>7 DEF BeginWrite, TypeOK
<1>8. CASE UNCHANGED call
  BY <1>4, <1>8 DEF call
<1> QED
  BY <1>3, <1>6, <1>7, <1>8 DEF Session, EndWrite, StopRefused, StopAllowed, Die, Resume

\* Whatever sessions, tasks, claims and silences do between the verdict and the write, no
\* relative path is written over a claim that held when file-ownership judged.
THEOREM ClaimedFilesAreSafe == Spec => []WritePrecedesClaim
<1> DEFINE Inv == TypeOK /\ Noted
<1>1. Init => Inv
  BY InitTypes DEF Init, Noted, Reaches
<1>2. Inv /\ [Next]_vars => Inv'
  <2> SUFFICES ASSUME Inv, [Next]_vars PROVE Inv'
    OBVIOUS
  <2>1. CASE UNCHANGED vars
    BY <2>1 DEF vars, call, TypeOK, Noted, Reaches, Expired
  <2> QED
    BY <2>1, NextCases, TaskCommand, TickTypes, SessionTypes, NotedSteps, NotedSessions
<1>3. Inv => WritePrecedesClaim
  <2> SUFFICES ASSUME Inv, NEW s \in Sessions, NEW id \in DOMAIN tasks,
                      writing[s] # NoFile, spelled[s] = "relative", ClaimedByAnother(id, writing[s], s)
               PROVE  id \in newer[s] \/ tasks[id].owner \in missed[s]
    BY DEF WritePrecedesClaim
  <2>1. tasks[id].owner \in Sessions \ {s}
    BY DEF ClaimedByAnother, GateLive, TypeOK, Task
  <2>2. Reaches(s, id)
    BY <2>1 DEF Reaches, ClaimedByAnother
  <2>3. ~Expired(id)
    BY Ages, WindowAssumption DEF ClaimedByAnother, GateLive, SessionState, Expired, TypeOK, Task
  <2> QED
    BY <2>2, <2>3 DEF Noted
<1> QED
  BY <1>1, <1>2, <1>3, PTL DEF Spec

=============================================================================

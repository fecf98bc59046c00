-------------------------- MODULE TaskStore_proofs --------------------------
(* Proofs about TaskStore and the gate that reads its files (SplitGate), for   *)
(* every set of agents and ids, every claim window and every number of crashes.*)
EXTENDS SplitGate, WellFoundedInduction, FiniteSetTheorems, TLAPS

-----------------------------------------------------------------------------
(* What the helpers on rows return.                                           *)

\* A set of natural numbers that is not empty has a least element.
LEMMA LeastNatural ==
  ASSUME NEW S \in SUBSET Nat, S # {}
  PROVE  \E i \in S : \A j \in S : i <= j
<1> DEFINE Less == {ss \in Nat \X Nat : ss[1] < ss[2]}
<1>1. IsWellFoundedOn(Less, Nat)
  BY NatLessThanWellFounded DEF OpToRel
<1>2. PICK i \in S : \A j \in S : ~(<<j, i>> \in Less)
  <2> HIDE DEF Less
  <2> QED
    BY <1>1, WFMin
<1>3. \A j \in S : ~(j < i)
  BY <1>2
<1> QED
  BY <1>3

\* findIndex returns a position that holds the id it looked for.
LEMMA IndexOfFinds ==
  ASSUME NEW tasks \in Seq(Task), NEW id \in IdsOf(tasks)
  PROVE  /\ IndexOf(tasks, id) \in 1 .. Len(tasks)
         /\ tasks[IndexOf(tasks, id)].id = id
<1> DEFINE S == {i \in DOMAIN tasks : tasks[i].id = id}
<1>1. S \subseteq Nat /\ S # {}
  BY DEF IdsOf
<1>2. PICK least \in S : \A j \in S : least <= j
  BY <1>1, LeastNatural
<1>3. \E i \in DOMAIN tasks :
        tasks[i].id = id /\ \A j \in DOMAIN tasks : tasks[j].id = id => i <= j
  BY <1>2
<1> QED
  BY <1>3 DEF IndexOf

\* Removing a row loses no id but that row's.
LEMMA WithoutKeeps ==
  ASSUME NEW tasks \in Seq(Task), NEW k \in 1 .. Len(tasks)
  PROVE  /\ Without(tasks, k) \in Seq(Task)
         /\ IdsOf(tasks) \subseteq IdsOf(Without(tasks, k)) \cup {tasks[k].id}
         /\ IdsOf(Without(tasks, k)) \subseteq IdsOf(tasks)
<1> DEFINE rest == Without(tasks, k)
<1>1. /\ rest \in Seq(Task)
      /\ Len(rest) = Len(tasks) - 1
      /\ \A i \in 1 .. Len(tasks) - 1 : rest[i] = IF i < k THEN tasks[i] ELSE tasks[i + 1]
  <2>1. Len(tasks) - 1 \in Nat
    OBVIOUS
  <2>2. \A i \in 1 .. Len(tasks) - 1 : (IF i < k THEN tasks[i] ELSE tasks[i + 1]) \in Task
    OBVIOUS
  <2>3. rest \in [1 .. Len(tasks) - 1 -> Task]
    BY <2>2 DEF Without
  <2> QED
    BY <2>1, <2>3 DEF Without
<1>2. ASSUME NEW i \in DOMAIN tasks
      PROVE  tasks[i].id \in IdsOf(rest) \cup {tasks[k].id}
  <2>1. CASE i < k
    <3>1. i \in DOMAIN rest /\ rest[i] = tasks[i]
      BY <1>1, <2>1
    <3> QED
      BY <3>1 DEF IdsOf
  <2>2. CASE i > k
    <3>1. i - 1 \in DOMAIN rest /\ rest[i - 1] = tasks[i]
      BY <1>1, <2>2
    <3> QED
      BY <3>1 DEF IdsOf
  <2> QED
    BY <2>1, <2>2
<1>3. \A i \in DOMAIN rest : \E j \in DOMAIN tasks : rest[i] = tasks[j]
  BY <1>1
<1> QED
  BY <1>1, <1>2, <1>3 DEF IdsOf

\* Replacing a row by one with the same id keeps every id.
LEMMA ReplaceKeeps ==
  ASSUME NEW tasks \in Seq(Task), NEW k \in 1 .. Len(tasks),
         NEW task \in Task, task.id = tasks[k].id
  PROVE  /\ [tasks EXCEPT ![k] = task] \in Seq(Task)
         /\ IdsOf([tasks EXCEPT ![k] = task]) = IdsOf(tasks)
<1> DEFINE new == [tasks EXCEPT ![k] = task]
<1>1. new \in Seq(Task) /\ DOMAIN new = DOMAIN tasks
  OBVIOUS
<1>2. \A i \in DOMAIN tasks : new[i].id = tasks[i].id
  OBVIOUS
<1> QED
  BY <1>1, <1>2 DEF IdsOf

\* Appending a row adds its id and no other.
LEMMA AppendKeeps ==
  ASSUME NEW tasks \in Seq(Task), NEW task \in Task
  PROVE  /\ Append(tasks, task) \in Seq(Task)
         /\ IdsOf(Append(tasks, task)) = IdsOf(tasks) \cup {task.id}
         /\ IsExtension(tasks, Append(tasks, task))
<1> DEFINE new == Append(tasks, task)
<1>1. /\ new \in Seq(Task)
      /\ Len(new) = Len(tasks) + 1
      /\ \A i \in 1 .. Len(tasks) : new[i] = tasks[i]
      /\ new[Len(tasks) + 1] = task
  OBVIOUS
<1>2. DOMAIN new = DOMAIN tasks \cup {Len(tasks) + 1}
  BY <1>1
<1> QED
  BY <1>1, <1>2 DEF IdsOf, IsExtension

-----------------------------------------------------------------------------
(* Type correctness, one lemma per step of a command.                         *)

\* Only a command that ends or dies leaves no job behind.
LEMMA IdleIsJob == Idle \in Job
BY DEF Idle, Job, Steps, Ops

\* A command that starts with well-formed data leaves the types intact.
LEMMA BeginTypes ==
  ASSUME TypeOK, NEW a \in Agents, NEW step \in Steps, NEW op \in Ops, NEW task \in Task,
         NEW rest \in Seq(Task), Begin(a, step, op, task, rest),
         UNCHANGED <<files, now, crashes, registered, held>>
  PROVE  TypeOK'
<1>1. [step |-> step, op |-> op, task |-> task, rest |-> rest, log |-> <<>>] \in Job
  BY DEF Job
<1>2. job' \in [Agents -> Job]
  BY <1>1 DEF Begin, TypeOK
<1>3. \A b \in Agents : Running(b)' => job'[b].task \in Task
  BY DEF Begin, TypeOK, Running
<1> QED
  BY <1>2, <1>3 DEF TypeOK, files

\* The sentinels are values of the fields they stand in.
LEMMA FieldTypes ==
  /\ NoOwner \in Agents \cup {NoOwner}
  /\ NoDate \in Date
  /\ \A a \in Agents : a \in Agents \cup {NoOwner}
BY DEF Date

\* task add keeps the types: the new row is a Task.
LEMMA AddTypes ==
  ASSUME TypeOK, NEW a \in Agents, NEW id \in Ids, NEW owner \in Agents \cup {NoOwner},
         Add(a, id, owner)
  PROVE  TypeOK'
<1> DEFINE task == [id |-> id, status |-> "open", owner |-> owner,
                    claimedAt |-> IF owner = NoOwner THEN NoDate ELSE now]
<1>1. task \in Task
  BY DEF Task, ActiveStatus, TerminalStatus, Date, TypeOK
<1>2. Append(active, task) \in Seq(Task)
  BY <1>1 DEF TypeOK
<1>3. Begin(a, "writeActive", "add", task, Append(active, task))
  BY DEF Add
<1>4. UNCHANGED <<files, now, crashes, registered, held>>
  BY DEF Add
<1> HIDE DEF task
<1> QED
  BY <1>1, <1>2, <1>3, <1>4, BeginTypes DEF Steps, Ops

\* Merging fields into the row that was found.
LEMMA UpdateTypes ==
  ASSUME TypeOK, NEW a \in Agents, NEW id \in IdsOf(active), NEW op \in Ops,
         NEW task \in Task, task.id = id,
         Begin(a, "writeActive", op, task, [active EXCEPT ![IndexOf(active, id)] = task]),
         UNCHANGED <<files, now, crashes, registered, held>>
  PROVE  TypeOK'
<1>1. IndexOf(active, id) \in 1 .. Len(active) /\ active[IndexOf(active, id)].id = id
  BY IndexOfFinds DEF TypeOK
<1>2. [active EXCEPT ![IndexOf(active, id)] = task] \in Seq(Task)
  BY <1>1, ReplaceKeeps DEF TypeOK
<1> QED
  BY <1>2, BeginTypes DEF Steps

\* The row that findIndex returns.
LEMMA FoundRow ==
  ASSUME TypeOK, NEW id \in IdsOf(active)
  PROVE  /\ active[IndexOf(active, id)] \in Task
         /\ active[IndexOf(active, id)].id = id
<1>1. IndexOf(active, id) \in 1 .. Len(active) /\ active[IndexOf(active, id)].id = id
  BY IndexOfFinds DEF TypeOK
<1> QED
  BY <1>1 DEF TypeOK

\* block, unblock and promoteToForge write a known status.
LEMMA StatusTypes ==
  ASSUME TypeOK, NEW a \in Agents, NEW id \in Ids,
         Block(a, id) \/ Unblock(a, id) \/ PromoteToForge(a, id)
  PROVE  TypeOK'
<1> DEFINE row == active[IndexOf(active, id)]
<1>1. PICK status \in ActiveStatus : Update(a, id, "update", LAMBDA t : [t EXCEPT !.status = status])
  BY DEF Block, Unblock, PromoteToForge, ActiveStatus
<1> DEFINE task == [row EXCEPT !.status = status]
<1>2. id \in IdsOf(active)
  BY <1>1 DEF Update
<1>3. task \in Task /\ task.id = id
  BY <1>2, FoundRow DEF Task
<1>4. /\ Begin(a, "writeActive", "update", task, [active EXCEPT ![IndexOf(active, id)] = task])
      /\ UNCHANGED <<files, now, crashes, registered, held>>
  BY <1>1 DEF Update
<1> HIDE DEF task
<1> QED
  BY <1>2, <1>3, <1>4, UpdateTypes DEF Ops

\* release writes the sentinels into the row it found.
LEMMA ReleaseTypes ==
  ASSUME TypeOK, NEW a \in Agents, NEW id \in Ids, Release(a, id)
  PROVE  TypeOK'
<1> DEFINE row  == active[IndexOf(active, id)]
           task == OwnedBy(row, NoOwner, NoDate)
<1>1. id \in IdsOf(active)
  BY DEF Release, Update
<1>2. task \in Task /\ task.id = id
  BY <1>1, FoundRow, FieldTypes DEF Task, OwnedBy
<1>3. /\ Begin(a, "writeActive", "release", task, [active EXCEPT ![IndexOf(active, id)] = task])
      /\ UNCHANGED <<files, now, crashes, registered, held>>
  BY DEF Release, Update
<1> HIDE DEF task
<1> QED
  BY <1>1, <1>2, <1>3, UpdateTypes DEF Ops

\* claimTask's first read puts the caller and the clock into its private row.
LEMMA ClaimCheckTypes ==
  ASSUME TypeOK, NEW a \in Agents, NEW id \in Ids, ClaimCheck(a, id)
  PROVE  TypeOK'
<1> DEFINE task == OwnedBy(active[IndexOf(active, id)], a, now)
<1>1. id \in IdsOf(active)
  BY DEF ClaimCheck
<1>2. task \in Task
  BY <1>1, FoundRow DEF Task, OwnedBy, Date, TypeOK
<1>3. /\ Begin(a, "claim", "claim", task, <<>>)
      /\ UNCHANGED <<files, now, crashes, registered, held>>
  BY DEF ClaimCheck, Find
<1>4. <<>> \in Seq(Task)
  OBVIOUS
<1> HIDE DEF task
<1> QED
  BY <1>2, <1>3, <1>4, BeginTypes DEF Steps, Ops

\* A command that goes on or ends with well-formed data leaves the types intact.
LEMMA ProceedTypes ==
  ASSUME TypeOK, NEW a \in Agents, NEW step \in Steps, NEW task \in Task,
         NEW rest \in Seq(Task), NEW log \in Seq(Task), Proceed(a, step, task, rest, log),
         UNCHANGED <<active, now, crashes, registered, held>>, history' \in Seq(Task)
  PROVE  TypeOK'
<1>1. [step |-> step, op |-> job[a].op, task |-> task, rest |-> rest, log |-> log] \in Job
  BY DEF Job, TypeOK
<1>2. job' \in [Agents -> Job]
  BY <1>1 DEF Proceed, TypeOK
<1>3. \A b \in Agents : Running(b)' => job'[b].task \in Task
  BY DEF Proceed, TypeOK, Running
<1> QED
  BY <1>2, <1>3 DEF TypeOK

\* A command that ends leaves no private data behind.
LEMMA EndTypes ==
  ASSUME TypeOK, NEW a \in Agents, End(a),
         UNCHANGED <<history, now>>,
         active' \in Seq(Task), crashes' \in 0 .. MaxCrashes, registered' \subseteq Ids,
         held' \subseteq [id : Ids, by : Agents, since : Date]
  PROVE  TypeOK'
<1>1. job' \in [Agents -> Job]
  BY IdleIsJob DEF End, TypeOK
<1>2. \A b \in Agents : Running(b)' => job'[b].task \in Task
  BY DEF End, Idle, TypeOK, Running
<1> QED
  BY <1>1, <1>2 DEF TypeOK

\* claimTask's second read merges that row into the copy of active.json.
LEMMA ClaimReadTypes ==
  ASSUME TypeOK, NEW a \in Agents, ClaimRead(a)
  PROVE  TypeOK'
<1> DEFINE id   == job[a].task.id
           task == OwnedBy(active[IndexOf(active, id)], a, job[a].task.claimedAt)
<1>1. UNCHANGED <<active, history, now, crashes, registered, held>>
  BY DEF ClaimRead, files
<1>0. job[a].task \in Task
  BY DEF ClaimRead, Running, TypeOK
<1>2. CASE id \in IdsOf(active)
  <2>1. task \in Task /\ task.id = id
    BY <1>0, <1>2, FoundRow DEF Task, OwnedBy
  <2>2. [active EXCEPT ![IndexOf(active, id)] = task] \in Seq(Task)
    BY <1>2, <2>1, IndexOfFinds, ReplaceKeeps DEF TypeOK
  <2>3. Proceed(a, "writeActive", task, [active EXCEPT ![IndexOf(active, id)] = task], <<>>)
    BY <1>2 DEF ClaimRead
  <2>4. <<>> \in Seq(Task) /\ history' \in Seq(Task)
    BY <1>1 DEF TypeOK
  <2> HIDE DEF task
  <2> QED
    BY <1>1, <2>1, <2>2, <2>3, <2>4, ProceedTypes DEF Steps
<1>3. CASE id \notin IdsOf(active)
  <2>1. End(a)
    BY <1>3 DEF ClaimRead
  <2> QED
    BY <1>1, <2>1, EndTypes DEF TypeOK
<1> QED
  BY <1>2, <1>3

\* task close and task abandon start with the verdict and nothing read yet.
LEMMA CloseTypes ==
  ASSUME TypeOK, NEW a \in Agents, NEW id \in Ids,
         \E status \in TerminalStatus : Close(a, id, status)
  PROVE  TypeOK'
<1>1. <<>> \in Seq(Task)
  OBVIOUS
<1>2. PICK status \in TerminalStatus : Close(a, id, status)
  OBVIOUS
<1> DEFINE task == [id |-> id, status |-> status, owner |-> NoOwner, claimedAt |-> NoDate]
<1>3. task \in Task
  BY FieldTypes DEF Task
<1>4. Begin(a, "close", "close", task, <<>>) /\ UNCHANGED <<files, now, crashes, registered, held>>
  BY <1>2 DEF Close
<1> HIDE DEF task
<1> QED
  BY <1>1, <1>3, <1>4, BeginTypes DEF Steps, Ops

\* closeTask's copy without the closed row is still a sequence of tasks.
LEMMA CloseReadTypes ==
  ASSUME TypeOK, NEW a \in Agents, CloseRead(a)
  PROVE  TypeOK'
<1> DEFINE id   == job[a].task.id
           k    == IndexOf(active, id)
           task == ClosedAs(active[k], job[a].task.status)
<1>1. UNCHANGED <<active, history, now, crashes, registered, held>>
  BY DEF CloseRead, files
<1>0. job[a].task \in Task
  BY DEF CloseRead, Running, TypeOK
<1>2. CASE id \in IdsOf(active)
  <2>1. task \in Task
    BY <1>0, <1>2, FoundRow DEF Task, ClosedAs
  <2>2. Without(active, k) \in Seq(Task)
    BY <1>2, IndexOfFinds, WithoutKeeps DEF TypeOK
  <2>3. Proceed(a, "readHistory", task, Without(active, k), <<>>)
    BY <1>2 DEF CloseRead
  <2>4. <<>> \in Seq(Task) /\ history' \in Seq(Task)
    BY <1>1 DEF TypeOK
  <2> HIDE DEF task, k
  <2> QED
    BY <1>1, <2>1, <2>2, <2>3, <2>4, ProceedTypes DEF Steps
<1>3. CASE id \notin IdsOf(active)
  <2>1. End(a)
    BY <1>3 DEF CloseRead
  <2> QED
    BY <1>1, <2>1, EndTypes DEF TypeOK
<1> QED
  BY <1>2, <1>3

\* Reading and renaming history.json keep both copies sequences of tasks.
LEMMA HistoryTypes ==
  ASSUME TypeOK, NEW a \in Agents, ReadHistory(a) \/ WriteHistory(a)
  PROVE  TypeOK'
<1>1. /\ job[a].task \in Task
      /\ job[a].rest \in Seq(Task)
      /\ job[a].log \in Seq(Task)
  BY DEF ReadHistory, WriteHistory, Running, TypeOK, Job
<1>2. CASE ReadHistory(a)
  <2>1. Append(history, job[a].task) \in Seq(Task)
    BY <1>1, AppendKeeps DEF TypeOK
  <2>2. history' \in Seq(Task)
    BY <1>2 DEF ReadHistory, files, TypeOK
  <2> QED
    BY <1>1, <1>2, <2>1, <2>2, ProceedTypes DEF ReadHistory, files, Steps
<1>3. CASE WriteHistory(a)
  <2>1. <<>> \in Seq(Task)
    OBVIOUS
  <2> QED
    BY <1>1, <1>3, <2>1, ProceedTypes DEF WriteHistory, Steps
<1> QED
  BY <1>2, <1>3

\* The last rename puts the private copy in place and tells the caller who
\* holds the task.
LEMMA WriteActiveTypes ==
  ASSUME TypeOK, NEW a \in Agents, WriteActive(a)
  PROVE  TypeOK'
<1>1. /\ job[a].task \in Task
      /\ job[a].rest \in Seq(Task)
  BY DEF WriteActive, Running, TypeOK, Job
<1>2. registered' \subseteq Ids
  BY <1>1 DEF WriteActive, TypeOK, Task
<1>3. Reported(job[a].task, job[a].op) \subseteq [id : Ids, by : Agents, since : Date]
  <2>1. held \subseteq [id : Ids, by : Agents, since : Date]
    BY DEF TypeOK
  <2>2. job[a].task.owner # NoOwner =>
          [id |-> job[a].task.id, by |-> job[a].task.owner, since |-> job[a].task.claimedAt]
            \in [id : Ids, by : Agents, since : Date]
    BY <1>1 DEF Task
  <2> QED
    BY <2>1, <2>2 DEF Reported
<1> QED
  BY <1>1, <1>2, <1>3, EndTypes DEF WriteActive, TypeOK

\* A process that dies takes only its private data with it.
LEMMA CrashTypes ==
  ASSUME TypeOK, NEW a \in Agents, Crash(a)
  PROVE  TypeOK'
<1>1. crashes' \in 0 .. MaxCrashes
  BY BoundAssumption DEF Crash, TypeOK
<1> QED
  BY <1>1, EndTypes DEF Crash, TypeOK, files

\* The clock stays inside its bound.
LEMMA TickTypes ==
  ASSUME TypeOK, Tick
  PROVE  TypeOK'
<1>1. now' \in 0 .. MaxNow
  BY ClockAssumption DEF Tick, TypeOK
<1> QED
  BY <1>1 DEF Tick, TypeOK, files, Running

\* An empty project, and one with a task claimed before claimedAt existed, are
\* well typed.
LEMMA InitTypes == Init => TypeOK
<1> SUFFICES ASSUME Init PROVE TypeOK
  OBVIOUS
<1>1. job \in [Agents -> Job] /\ \A a \in Agents : ~Running(a)
  BY IdleIsJob DEF Init, Running, Idle
<1>2. \A id \in Ids, a \in Agents : LegacyTask(id, a) \in Task
  BY DEF LegacyTask, Task, ActiveStatus, Date
<1>3. CASE active = <<>>
  BY <1>1, <1>3, BoundAssumption, ClockAssumption DEF Init, TypeOK, IdsOf
<1>4. ASSUME NEW id \in Ids, NEW a \in Agents, active = <<LegacyTask(id, a)>>
      PROVE  TypeOK
  <2>1. active \in Seq(Task) /\ DOMAIN active = {1} /\ active[1] = LegacyTask(id, a)
    BY <1>2, <1>4
  <2>2. IdsOf(active) \subseteq Ids
    BY <2>1 DEF IdsOf, LegacyTask
  <2>3. held \subseteq [id : Ids, by : Agents, since : Date]
    BY <2>1 DEF Init, LegacyTask, Date
  <2> QED
    BY <1>1, <2>1, <2>2, <2>3, BoundAssumption, ClockAssumption DEF Init, TypeOK
<1> QED
  BY <1>3, <1>4 DEF Init

\* Every step of every command keeps the types.
LEMMA NextTypes == TypeOK /\ [Next]_vars => TypeOK'
<1> SUFFICES ASSUME TypeOK, [Next]_vars PROVE TypeOK'
  OBVIOUS
<1>1. CASE Tick
  BY <1>1, TickTypes
<1>2. ASSUME NEW a \in Agents, Command(a)
      PROVE  TypeOK'
  <2>1. ASSUME NEW id \in Ids, NEW owner \in {a, NoOwner}, Add(a, id, owner)
        PROVE  TypeOK'
    BY <2>1, AddTypes
  <2>2. ASSUME NEW id \in Ids, Block(a, id) \/ Unblock(a, id) \/ PromoteToForge(a, id)
        PROVE  TypeOK'
    BY <2>2, StatusTypes
  <2>3. ASSUME NEW id \in Ids, Release(a, id) \/ ClaimCheck(a, id)
        PROVE  TypeOK'
    BY <2>3, ReleaseTypes, ClaimCheckTypes
  <2>4. ASSUME NEW id \in Ids, \E status \in TerminalStatus : Close(a, id, status)
        PROVE  TypeOK'
    BY <2>4, CloseTypes
  <2>5. CASE ClaimRead(a) \/ CloseRead(a) \/ ReadHistory(a) \/ WriteHistory(a)
    BY <2>5, ClaimReadTypes, CloseReadTypes, HistoryTypes
  <2>6. CASE WriteActive(a) \/ Crash(a)
    BY <2>6, WriteActiveTypes, CrashTypes
  <2> QED
    BY <1>2, <2>1, <2>2, <2>3, <2>4, <2>5, <2>6 DEF Command
<1>3. CASE UNCHANGED vars
  BY <1>3 DEF vars, files, TypeOK, Running
<1> QED
  BY <1>1, <1>2, <1>3 DEF Next

\* The files, the running commands and what callers were told always have the shape
\* the code gives them, however the commands of the agents overlap.
THEOREM TypeCorrect == Spec => []TypeOK
<1> QED
  BY InitTypes, NextTypes, PTL DEF Spec

-----------------------------------------------------------------------------
(* What a lock would have to cover.  The commands take none.  No task is lost   *)
(* if no two of them are between the read of active.json that their copy comes *)
(* from and the rename that writes it; history.json only grows if no two are   *)
(* between its read and its rename.  Whatever else they do may overlap: the    *)
(* verifying of evidence, the first look of a claim, the other commands' whole *)
(* run.  CopiesInv is inductive together with TypeOK.                         *)

\* The steps at which a command holds a copy of active.json that it will write.
Late == {"readHistory", "writeHistory", "writeActive"}

\* At most one command holds a copy of active.json.
OneCopy == \A a, b \in Agents : job[a].step \in Late /\ job[b].step \in Late => a = b

\* At most one command holds a copy of history.json.
OneLog ==
  \A a, b \in Agents : job[a].step = "writeHistory" /\ job[b].step = "writeHistory" => a = b

\* Every command is what its step says, and the copy it holds carries the tasks over.
CopiesInv ==
  /\ NoTaskLost
  /\ \A a \in Agents :
       /\ job[a].step = "claim" => job[a].op = "claim"
       /\ job[a].step = "close" => job[a].op = "close"
       /\ job[a].step \in Late => CarriesOver(job[a])

\* A command that does nothing while the two files stand still carries on.
LEMMA OthersKeep ==
  ASSUME CopiesInv, NEW b \in Agents, job'[b] = job[b], UNCHANGED files
  PROVE  /\ job'[b].step = "claim" => job'[b].op = "claim"
         /\ job'[b].step = "close" => job'[b].op = "close"
         /\ job'[b].step \in Late => CarriesOver(job[b])'
<1>1. active' = active /\ history' = history
  BY DEF files
<1>2. PICK j : j = job[b]
  OBVIOUS
<1>3. CarriesOver(j) => CarriesOver(j)'
  BY <1>1 DEF CarriesOver, IdsOf
<1>4. j.step \in Late => CarriesOver(j)
  BY <1>2 DEF CopiesInv
<1>5. j' = j /\ job'[b] = j
  BY <1>2
<1>6. job'[b].step \in Late => CarriesOver(job[b])'
  BY <1>3, <1>4, <1>5 DEF CarriesOver
<1> QED
  BY <1>2, <1>5, <1>6 DEF CopiesInv

\* A command that begins: its copy, if it has one already, has every task of the
\* file, and the files are as they were.
LEMMA BeginKeeps ==
  ASSUME TypeOK, CopiesInv, NEW a \in Agents,
         NEW step \in {"claim", "close", "writeActive"}, NEW op, NEW task, NEW rest,
         Begin(a, step, op, task, rest), UNCHANGED <<files, now, crashes, registered, held>>,
         step = "claim" => op = "claim",
         step = "close" => op = "close",
         step = "writeActive" => /\ op # "close"
                                 /\ IdsOf(active) \subseteq IdsOf(rest)
                                 /\ op = "add" => task.id \in IdsOf(rest)
  PROVE  CopiesInv'
<1>1. /\ job'[a] = [step |-> step, op |-> op, task |-> task, rest |-> rest, log |-> <<>>]
      /\ \A b \in Agents \ {a} : job'[b] = job[b]
      /\ active' = active /\ history' = history /\ registered' = registered
  BY DEF Begin, TypeOK, files
<1>2. NoTaskLost'
  BY <1>1 DEF CopiesInv, NoTaskLost, IdsOf
<1>3. ASSUME NEW b \in Agents
      PROVE  /\ job'[b].step = "claim" => job'[b].op = "claim"
             /\ job'[b].step = "close" => job'[b].op = "close"
             /\ job'[b].step \in Late => CarriesOver(job[b])'
  <2>1. CASE b = a
    <3>1. job'[b].step \in Late =>
            /\ job'[b].step = "writeActive" /\ job'[b].op = op /\ job'[b].task = task /\ job'[b].rest = rest
            /\ step = "writeActive"
      BY <1>1, <2>1 DEF Late
    <3>2. IdsOf(active') = IdsOf(active)
      BY <1>1
    <3>3. job'[b].step \in Late => CarriesOver(job[b])'
      BY <3>1, <3>2 DEF CarriesOver
    <3> QED
      BY <1>1, <2>1, <3>3
  <2>2. CASE b # a
    BY <1>1, <2>2, OthersKeep DEF files
  <2> QED
    BY <2>1, <2>2
<1> QED
  BY <1>2, <1>3 DEF CopiesInv

\* A command that ends without having written anything.
LEMMA EndKeeps ==
  ASSUME TypeOK, CopiesInv, NEW a \in Agents, Running(a), End(a),
         UNCHANGED <<files, registered>>
  PROVE  CopiesInv'
<1>1. /\ job'[a] = Idle
      /\ \A b \in Agents \ {a} : job'[b] = job[b]
      /\ active' = active /\ history' = history /\ registered' = registered
  BY DEF End, TypeOK, files
<1>2. NoTaskLost'
  BY <1>1 DEF CopiesInv, NoTaskLost, IdsOf
<1>3. ASSUME NEW b \in Agents
      PROVE  /\ job'[b].step = "claim" => job'[b].op = "claim"
             /\ job'[b].step = "close" => job'[b].op = "close"
             /\ job'[b].step \in Late => CarriesOver(job[b])'
  <2>1. CASE b = a
    BY <1>1, <2>1 DEF Idle, Late
  <2>2. CASE b # a
    BY <1>1, <2>2, OthersKeep
  <2> QED
    BY <2>1, <2>2
<1> QED
  BY <1>2, <1>3 DEF CopiesInv

\* A command that goes on to its next step.  If it has written history.json no other
\* command holds a copy.
LEMMA ProceedKeeps ==
  ASSUME TypeOK, CopiesInv, OneCopy, NEW a \in Agents,
         NEW step \in Late, NEW task, NEW rest, NEW log,
         Proceed(a, step, task, rest, log), UNCHANGED <<active, registered>>,
         \/ history' = history
         \/ job[a].step \in Late /\ IdsOf(history) \subseteq IdsOf(history'),
         CarriesOver(job[a])'
  PROVE  CopiesInv'
<1>1. /\ job'[a].step = step
      /\ \A b \in Agents \ {a} : job'[b] = job[b]
  BY DEF Proceed, TypeOK
<1>2. NoTaskLost'
  BY DEF CopiesInv, NoTaskLost, IdsOf
<1>3. ASSUME NEW b \in Agents \ {a}
      PROVE  /\ job'[b].step = "claim" => job'[b].op = "claim"
             /\ job'[b].step = "close" => job'[b].op = "close"
             /\ job'[b].step \in Late => CarriesOver(job[b])'
  <2>1. CASE history' = history
    BY <1>1, <2>1, OthersKeep DEF files
  <2>2. CASE job[a].step \in Late
    BY <1>1, <2>2 DEF CopiesInv, OneCopy
  <2> QED
    BY <2>1, <2>2
<1> QED
  BY <1>1, <1>2, <1>3 DEF CopiesInv, Late

\* updateTask merges into a row and keeps its id, so its copy has every id of
\* the file.
LEMMA UpdateKeeps ==
  ASSUME TypeOK, NEW id \in IdsOf(active), NEW task \in Task, task.id = id
  PROVE  IdsOf([active EXCEPT ![IndexOf(active, id)] = task]) = IdsOf(active)
<1>1. IndexOf(active, id) \in 1 .. Len(active) /\ active[IndexOf(active, id)].id = id
  BY IndexOfFinds DEF TypeOK
<1> QED
  BY <1>1, ReplaceKeeps DEF TypeOK

\* task add's copy has every id of the file and the new one.
LEMMA AddKeeps ==
  ASSUME TypeOK, CopiesInv, NEW a \in Agents, NEW id \in Ids,
         NEW owner \in Agents \cup {NoOwner}, Add(a, id, owner)
  PROVE  CopiesInv'
<1> DEFINE task == [id |-> id, status |-> "open", owner |-> owner,
                    claimedAt |-> IF owner = NoOwner THEN NoDate ELSE now]
<1>1. task \in Task
  BY DEF Task, ActiveStatus, TerminalStatus, Date, TypeOK
<1>2. /\ IdsOf(active) \subseteq IdsOf(Append(active, task))
      /\ task.id \in IdsOf(Append(active, task))
  BY <1>1, AppendKeeps DEF TypeOK
<1>3. Begin(a, "writeActive", "add", task, Append(active, task))
  BY DEF Add
<1>4. UNCHANGED <<files, now, crashes, registered, held>>
  BY DEF Add
<1> HIDE DEF task
<1> QED
  BY <1>2, <1>3, <1>4, BeginKeeps

\* block, unblock and promoteToForge change no id.
LEMMA StatusKeeps ==
  ASSUME TypeOK, CopiesInv, NEW a \in Agents, NEW id \in Ids,
         Block(a, id) \/ Unblock(a, id) \/ PromoteToForge(a, id)
  PROVE  CopiesInv'
<1> DEFINE row == active[IndexOf(active, id)]
<1>1. PICK status \in ActiveStatus : Update(a, id, "update", LAMBDA t : [t EXCEPT !.status = status])
  BY DEF Block, Unblock, PromoteToForge, ActiveStatus
<1> DEFINE task == [row EXCEPT !.status = status]
           rest == [active EXCEPT ![IndexOf(active, id)] = task]
<1>2. id \in IdsOf(active)
  BY <1>1 DEF Update
<1>3. task \in Task /\ task.id = id
  BY <1>2, FoundRow DEF Task
<1>4. IdsOf(rest) = IdsOf(active)
  BY <1>2, <1>3, UpdateKeeps
<1>5. /\ Begin(a, "writeActive", "update", task, rest)
      /\ UNCHANGED <<files, now, crashes, registered, held>>
  BY <1>1 DEF Update
<1> HIDE DEF task, rest
<1> QED
  BY <1>4, <1>5, BeginKeeps

\* release changes no id.
LEMMA ReleaseKeeps ==
  ASSUME TypeOK, CopiesInv, NEW a \in Agents, NEW id \in Ids, Release(a, id)
  PROVE  CopiesInv'
<1> DEFINE task == OwnedBy(active[IndexOf(active, id)], NoOwner, NoDate)
           rest == [active EXCEPT ![IndexOf(active, id)] = task]
<1>1. id \in IdsOf(active)
  BY DEF Release, Update
<1>2. task \in Task /\ task.id = id
  BY <1>1, FoundRow, FieldTypes DEF Task, OwnedBy
<1>3. IdsOf(rest) = IdsOf(active)
  BY <1>1, <1>2, UpdateKeeps
<1>4. /\ Begin(a, "writeActive", "release", task, rest)
      /\ UNCHANGED <<files, now, crashes, registered, held>>
  BY DEF Release, Update
<1> HIDE DEF task, rest
<1> QED
  BY <1>3, <1>4, BeginKeeps

\* task claim: a first read that writes nothing, a second one that merges.
LEMMA ClaimKeeps ==
  ASSUME TypeOK, CopiesInv, OneCopy, NEW a \in Agents,
         ClaimRead(a) \/ \E id \in Ids : ClaimCheck(a, id)
  PROVE  CopiesInv'
<1>1. ASSUME NEW id \in Ids, ClaimCheck(a, id)
      PROVE  CopiesInv'
  <2>1. PICK task : Begin(a, "claim", "claim", task, <<>>)
    BY <1>1 DEF ClaimCheck
  <2>2. UNCHANGED <<files, now, crashes, registered, held>>
    BY <1>1 DEF ClaimCheck
  <2> QED
    BY <2>1, <2>2, BeginKeeps
<1>2. CASE ClaimRead(a)
  <2> DEFINE id   == job[a].task.id
             task == OwnedBy(active[IndexOf(active, id)], a, job[a].task.claimedAt)
             rest == [active EXCEPT ![IndexOf(active, id)] = task]
  <2>1. /\ UNCHANGED <<files, now, crashes, registered, held>>
        /\ job[a].step = "claim" /\ Running(a) /\ job[a].task \in Task
        /\ job[a].op = "claim"
    BY <1>2 DEF ClaimRead, Running, TypeOK, CopiesInv
  <2>2. CASE id \in IdsOf(active)
    <3>1. task \in Task /\ task.id = id
      BY <2>1, <2>2, FoundRow DEF Task, OwnedBy
    <3>2. IdsOf(rest) = IdsOf(active)
      BY <2>2, <3>1, UpdateKeeps
    <3>3. Proceed(a, "writeActive", task, rest, <<>>)
      BY <1>2, <2>2 DEF ClaimRead
    <3> HIDE DEF task, rest
    <3>4. job'[a] = [step |-> "writeActive", op |-> "claim", task |-> task, rest |-> rest, log |-> <<>>]
      BY <2>1, <3>3 DEF Proceed, TypeOK
    <3>5. active' = active /\ history' = history
      BY <2>1 DEF files
    <3>6. IdsOf(active') \subseteq IdsOf(rest)
      BY <3>2, <3>5
    <3>7. CarriesOver(job[a])'
      BY <3>4, <3>6 DEF CarriesOver
    <3> QED
      BY <2>1, <3>3, <3>5, <3>7, ProceedKeeps DEF Late
  <2>3. CASE id \notin IdsOf(active)
    BY <1>2, <2>1, <2>3, EndKeeps DEF ClaimRead
  <2> QED
    BY <2>2, <2>3
<1> QED
  BY <1>1, <1>2

\* task close and task abandon begin: nothing is read yet that will be written.
LEMMA CloseKeeps ==
  ASSUME TypeOK, CopiesInv, NEW a \in Agents, NEW id \in Ids,
         \E status \in TerminalStatus : Close(a, id, status)
  PROVE  CopiesInv'
<1>1. PICK task : Begin(a, "close", "close", task, <<>>)
  BY DEF Close
<1>2. UNCHANGED <<files, now, crashes, registered, held>>
  BY DEF Close
<1> QED
  BY <1>1, <1>2, BeginKeeps

\* closeTask: the copy lost one row, of the id that is being closed.
LEMMA CloseReadKeeps ==
  ASSUME TypeOK, CopiesInv, OneCopy, NEW a \in Agents, CloseRead(a)
  PROVE  CopiesInv'
<1> DEFINE id   == job[a].task.id
           k    == IndexOf(active, id)
           task == ClosedAs(active[k], job[a].task.status)
           rest == Without(active, k)
<1>1. /\ UNCHANGED <<files, now, crashes, registered, held>>
      /\ Running(a) /\ job[a].task \in Task /\ job[a].op = "close"
  BY DEF CloseRead, Running, TypeOK, CopiesInv
<1>2. CASE id \in IdsOf(active)
  <2>1. active[k].id = id /\ task.id = id
    BY <1>2, FoundRow DEF ClosedAs
  <2>2. IdsOf(active) \subseteq IdsOf(rest) \cup {task.id}
    BY <1>2, <2>1, IndexOfFinds, WithoutKeeps DEF TypeOK
  <2>3. Proceed(a, "readHistory", task, rest, <<>>)
    BY <1>2 DEF CloseRead
  <2> HIDE DEF task, rest
  <2>4. job'[a] = [step |-> "readHistory", op |-> "close", task |-> task, rest |-> rest, log |-> <<>>]
    BY <1>1, <2>3 DEF Proceed, TypeOK
  <2>5. active' = active /\ history' = history
    BY <1>1 DEF files
  <2>6. IdsOf(active') \subseteq IdsOf(rest) \cup {task.id}
    BY <2>2, <2>5
  <2>7. CarriesOver(job[a])'
    BY <2>4, <2>6 DEF CarriesOver
  <2> QED
    BY <1>1, <2>3, <2>5, <2>7, ProceedKeeps DEF Late
<1>3. CASE id \notin IdsOf(active)
  BY <1>1, <1>3, EndKeeps DEF CloseRead
<1> QED
  BY <1>2, <1>3

\* The closed row joins the copy of history.json, and then the file.
LEMMA HistoryKeeps ==
  ASSUME TypeOK, CopiesInv, OneCopy, NEW a \in Agents, ReadHistory(a) \/ WriteHistory(a)
  PROVE  CopiesInv'
<1> DEFINE j == job[a]
<1>1. Running(a) /\ j.task \in Task /\ j.rest \in Seq(Task) /\ CarriesOver(j) /\ j.op = "close"
  BY DEF ReadHistory, WriteHistory, Running, TypeOK, Job, CopiesInv, CarriesOver, Late
<1>2. CASE ReadHistory(a)
  <2>1. /\ Proceed(a, "writeHistory", j.task, j.rest, Append(history, j.task))
        /\ active' = active /\ history' = history /\ registered' = registered
    BY <1>2 DEF ReadHistory, files
  <2>2. job'[a] = [step |-> "writeHistory", op |-> "close", task |-> j.task, rest |-> j.rest,
                   log |-> Append(history, j.task)]
    BY <1>1, <2>1 DEF Proceed, TypeOK
  <2>3. IdsOf(active') \subseteq IdsOf(j.rest) \cup {j.task.id}
    BY <1>1, <2>1 DEF CarriesOver
  <2>4. CarriesOver(job[a])'
    BY <2>1, <2>2, <2>3 DEF CarriesOver
  <2> QED
    BY <1>1, <2>1, <2>4, ProceedKeeps DEF Late
<1>3. CASE WriteHistory(a)
  <2>1. /\ Proceed(a, "writeActive", j.task, j.rest, <<>>)
        /\ active' = active /\ history' = Append(history, j.task) /\ registered' = registered
    BY <1>1, <1>3 DEF WriteHistory, CarriesOver
  <2>2. job'[a] = [step |-> "writeActive", op |-> "close", task |-> j.task, rest |-> j.rest,
                   log |-> <<>>]
    BY <1>1, <2>1 DEF Proceed, TypeOK
  <2>3. IdsOf(active') \subseteq IdsOf(j.rest) \cup {j.task.id}
    BY <1>1, <2>1 DEF CarriesOver
  <2>4. IdsOf(history') = IdsOf(history) \cup {j.task.id}
    BY <1>1, <2>1, AppendKeeps DEF TypeOK
  <2>5. CarriesOver(job[a])'
    BY <2>2, <2>3, <2>4 DEF CarriesOver
  <2>6. j.step \in Late
    BY <1>3 DEF WriteHistory, Late
  <2> QED
    BY <2>1, <2>4, <2>5, <2>6, ProceedKeeps DEF Late
<1> QED
  BY <1>2, <1>3

\* The last rename: every id of the old active.json is in the new one, but the closed
\* one, which history.json has by now.
LEMMA WriteActiveKeeps ==
  ASSUME TypeOK, CopiesInv, OneCopy, NEW a \in Agents, WriteActive(a)
  PROVE  CopiesInv'
<1> DEFINE j == job[a]
<1>1. Running(a) /\ CarriesOver(j) /\ j.step = "writeActive"
  BY DEF WriteActive, Running, CopiesInv, Late
<1>2. /\ active' = j.rest /\ history' = history
      /\ registered' \subseteq registered \cup (IF j.op = "add" THEN {j.task.id} ELSE {})
      /\ job'[a] = Idle /\ \A b \in Agents \ {a} : job'[b] = job[b] /\ job'[b].step \notin Late
  BY <1>1 DEF WriteActive, End, OneCopy, Late, TypeOK
<1>3. IdsOf(active') = IdsOf(j.rest) /\ IdsOf(history') = IdsOf(history)
  BY <1>2
<1>4. NoTaskLost'
  BY <1>1, <1>2, <1>3 DEF CarriesOver, CopiesInv, NoTaskLost, IdsOf
<1> QED
  BY <1>2, <1>4 DEF CopiesInv, Idle, Late

\* Nothing runs in the initial states and every recorded task is in
\* active.json.
LEMMA InitCopies == Init => CopiesInv
BY DEF Init, CopiesInv, NoTaskLost, Idle, Late

\* Every step taken while at most one command holds a copy keeps the invariant.
LEMMA CopiesStep == TypeOK /\ CopiesInv /\ OneCopy /\ [Next]_vars => CopiesInv'
<1> SUFFICES ASSUME TypeOK, CopiesInv, OneCopy, [Next]_vars
             PROVE  CopiesInv'
  OBVIOUS
<1>1. ASSUME UNCHANGED <<files, job, registered>>
      PROVE  CopiesInv'
  <2>1. active' = active /\ history' = history /\ registered' = registered /\ UNCHANGED files
    BY <1>1 DEF files
  <2>2. ASSUME NEW b \in Agents
        PROVE  /\ job'[b].step = "claim" => job'[b].op = "claim"
               /\ job'[b].step = "close" => job'[b].op = "close"
               /\ job'[b].step \in Late => CarriesOver(job[b])'
    BY <1>1, <2>1, OthersKeep
  <2>3. NoTaskLost'
    BY <2>1 DEF CopiesInv, NoTaskLost, IdsOf
  <2> QED
    BY <2>2, <2>3 DEF CopiesInv
<1>2. CASE UNCHANGED vars
  BY <1>1, <1>2 DEF vars, files
<1>3. CASE Tick
  BY <1>1, <1>3 DEF Tick
<1>4. ASSUME NEW a \in Agents, Command(a)
      PROVE  CopiesInv'
  <2>1. ASSUME NEW id \in Ids, NEW owner \in {a, NoOwner}, Add(a, id, owner)
        PROVE  CopiesInv'
    BY <2>1, AddKeeps
  <2>2. ASSUME NEW id \in Ids, Block(a, id) \/ Unblock(a, id) \/ PromoteToForge(a, id)
        PROVE  CopiesInv'
    BY <2>2, StatusKeeps
  <2>3. ASSUME NEW id \in Ids, Release(a, id)
        PROVE  CopiesInv'
    BY <2>3, ReleaseKeeps
  <2>4. ASSUME ClaimRead(a) \/ \E id \in Ids : ClaimCheck(a, id)
        PROVE  CopiesInv'
    BY <2>4, ClaimKeeps
  <2>5. ASSUME NEW id \in Ids, \E status \in TerminalStatus : Close(a, id, status)
        PROVE  CopiesInv'
    BY <2>5, CloseKeeps
  <2>6. CASE CloseRead(a)
    BY <2>6, CloseReadKeeps
  <2>7. CASE ReadHistory(a) \/ WriteHistory(a)
    BY <2>7, HistoryKeeps
  <2>8. CASE WriteActive(a)
    BY <2>8, WriteActiveKeeps
  <2>9. CASE Crash(a)
    BY <2>9, EndKeeps DEF Crash
  <2> QED
    BY <1>4, <2>1, <2>2, <2>3, <2>4, <2>5, <2>6, <2>7, <2>8, <2>9 DEF Command
<1> QED
  BY <1>2, <1>3, <1>4 DEF Next

\* Without a lock two commands' copies meet and the second rename loses the first
\* one's task.  If no two commands hold a copy of active.json at once, a task that was
\* recorded stays recorded whatever else of the commands overlaps and wherever their
\* processes die.
THEOREM OneCopyLosesNothing == Spec /\ []OneCopy => []NoTaskLost
<1>1. Init => TypeOK /\ CopiesInv
  BY InitTypes, InitCopies
<1>2. TypeOK /\ CopiesInv /\ OneCopy /\ [Next]_vars => TypeOK' /\ CopiesInv'
  BY NextTypes, CopiesStep
<1>3. CopiesInv => NoTaskLost
  BY DEF CopiesInv
<1> QED
  BY <1>1, <1>2, <1>3, PTL DEF Spec

\* What a close is about to write over history.json is that file and one row more.
LogInv ==
  \A a \in Agents : job[a].step = "writeHistory" => job[a].log = Append(history, job[a].task)

\* Every step taken while at most one close holds a copy of history.json keeps that,
\* and takes nothing out of the file.
LEMMA LogStep ==
  TypeOK /\ LogInv /\ OneLog /\ [Next]_vars => LogInv' /\ IsExtension(history, history')
<1> SUFFICES ASSUME TypeOK, LogInv, OneLog, [Next]_vars
             PROVE  LogInv' /\ IsExtension(history, history')
  OBVIOUS
<1>1. ASSUME history' = history,
             \A b \in Agents : job'[b] = job[b] \/ job'[b].step # "writeHistory"
      PROVE  LogInv' /\ IsExtension(history, history')
  BY <1>1 DEF LogInv, IsExtension, TypeOK
<1>2. CASE Tick \/ UNCHANGED vars
  BY <1>1, <1>2 DEF Tick, vars, files
<1>3. ASSUME NEW a \in Agents, history' = history, job' = [job EXCEPT ![a] = job'[a]],
             job'[a].step # "writeHistory"
      PROVE  LogInv' /\ IsExtension(history, history')
  <2>1. \A b \in Agents : b # a => job'[b] = job[b]
    BY <1>3 DEF TypeOK
  <2> QED
    BY <1>1, <1>3, <2>1
<1>4. ASSUME NEW a \in Agents, Command(a)
      PROVE  LogInv' /\ IsExtension(history, history')
  <2>1. ASSUME NEW step, NEW op, NEW task, NEW rest, Begin(a, step, op, task, rest),
               step # "writeHistory", UNCHANGED files
        PROVE  LogInv' /\ IsExtension(history, history')
    <3>1. /\ job'[a].step = step /\ history' = history
          /\ job' = [job EXCEPT ![a] = job'[a]]
      BY <2>1 DEF Begin, TypeOK, files
    <3> QED
      BY <1>3, <2>1, <3>1
  <2>2. ASSUME NEW id \in Ids, NEW owner \in {a, NoOwner}, Add(a, id, owner)
        PROVE  LogInv' /\ IsExtension(history, history')
    BY <2>1, <2>2 DEF Add
  <2>3. ASSUME NEW id \in Ids, Block(a, id) \/ Unblock(a, id) \/ PromoteToForge(a, id) \/ Release(a, id)
        PROVE  LogInv' /\ IsExtension(history, history')
    <3>1. \E op, task, rest : Begin(a, "writeActive", op, task, rest)
      BY <2>3 DEF Block, Unblock, PromoteToForge, Release, Update
    <3>2. UNCHANGED files
      BY <2>3 DEF Block, Unblock, PromoteToForge, Release, Update
    <3> QED
      BY <2>1, <3>1, <3>2
  <2>4. ASSUME NEW id \in Ids, ClaimCheck(a, id) \/ \E status \in TerminalStatus : Close(a, id, status)
        PROVE  LogInv' /\ IsExtension(history, history')
    <3>1. UNCHANGED files /\ \E step \in {"claim", "close"} : \E op, task, rest : Begin(a, step, op, task, rest)
      BY <2>4 DEF ClaimCheck, Close
    <3> QED
      BY <2>1, <3>1
  <2>5. ASSUME ClaimRead(a) \/ CloseRead(a) \/ WriteActive(a) \/ Crash(a)
        PROVE  LogInv' /\ IsExtension(history, history')
    <3>1. /\ history' = history
          /\ \/ End(a)
             \/ \E step \in {"writeActive", "readHistory"} :
                  \E task, rest : Proceed(a, step, task, rest, <<>>)
      BY <2>5 DEF ClaimRead, CloseRead, WriteActive, Crash, files
    <3>2. job'[a].step # "writeHistory" /\ job' = [job EXCEPT ![a] = job'[a]]
      BY <3>1 DEF Proceed, End, Idle, TypeOK
    <3> QED
      BY <1>3, <3>1, <3>2
  <2>6. CASE ReadHistory(a)
    <3>1. /\ history' = history
          /\ job'[a].task = job[a].task /\ job'[a].log = Append(history, job[a].task)
          /\ \A b \in Agents \ {a} : job'[b] = job[b]
      BY <2>6 DEF ReadHistory, Proceed, TypeOK, files
    <3> QED
      BY <3>1 DEF LogInv, IsExtension, TypeOK
  <2>7. CASE WriteHistory(a)
    <3>1. /\ history' = Append(history, job[a].task)
          /\ job[a].task \in Task
          /\ job'[a].step # "writeHistory"
          /\ \A b \in Agents \ {a} : job'[b] = job[b] /\ job[b].step # "writeHistory"
      BY <2>7 DEF WriteHistory, Proceed, LogInv, OneLog, TypeOK, Running
    <3> QED
      BY <3>1 DEF LogInv, IsExtension, TypeOK
  <2> QED
    BY <1>4, <2>1, <2>2, <2>3, <2>4, <2>5, <2>6, <2>7 DEF Command
<1> QED
  BY <1>2, <1>4 DEF Next

\* Two closes that hold a copy of history.json at once lose a row.  If no two do,
\* history.json is append-only whatever else overlaps, the copies of active.json
\* included.
THEOREM OneLogOnlyGrows == Spec /\ []OneLog => HistoryAppendOnly
<1>1. Init => TypeOK /\ LogInv
  BY InitTypes DEF Init, LogInv, Idle
<1>2. TypeOK /\ LogInv /\ OneLog /\ [Next]_vars => TypeOK' /\ LogInv'
  BY NextTypes, LogStep
<1>3. TypeOK /\ LogInv /\ OneLog /\ [Next]_vars => [IsExtension(history, history')]_vars
  BY LogStep
<1> QED
  BY <1>1, <1>2, <1>3, PTL DEF Spec, HistoryAppendOnly

-----------------------------------------------------------------------------
(* Whatever overlaps: the files hold no task that was not recorded.            *)

\* The two files hold only ids that a `task add` reported, or that were there before.
OnlyRecorded == IdsOf(active) \cup IdsOf(history) \subseteq registered

\* So do the copies, but for the row that an add is about to write.
Knows(j) ==
  /\ j.step \in Late =>
       IdsOf(j.rest) \subseteq registered \cup (IF j.op = "add" THEN {j.task.id} ELSE {})
  /\ j.step \in {"readHistory", "writeHistory"} => j.task.id \in registered
  /\ j.step = "writeHistory" => IdsOf(j.log) \subseteq registered

RecordedInv == OnlyRecorded /\ \A a \in Agents : Knows(job[a])

\* A step of one command: its own copies and the files are all there is to look at.
LEMMA OneKnows ==
  ASSUME RecordedInv, NEW a \in Agents, \A b \in Agents \ {a} : job'[b] = job[b],
         registered \subseteq registered', OnlyRecorded', Knows(job[a])'
  PROVE  RecordedInv'
<1>1. ASSUME NEW b \in Agents \ {a}
      PROVE  Knows(job[b])'
  <2>1. PICK j : j = job[b]
    OBVIOUS
  <2>2. Knows(j) /\ j' = j /\ job'[b] = j
    BY <2>1 DEF RecordedInv
  <2>3. Knows(j)'
    BY <2>2 DEF Knows
  <2> QED
    BY <2>2, <2>3 DEF Knows
<1> QED
  BY <1>1 DEF RecordedInv

\* A command that begins to copy active.json.
LEMMA BeginKnows ==
  ASSUME TypeOK, RecordedInv, NEW a \in Agents,
         NEW step \in {"claim", "close", "writeActive"}, NEW op, NEW task, NEW rest,
         Begin(a, step, op, task, rest), UNCHANGED <<files, now, crashes, registered, held>>,
         step = "writeActive" =>
           IdsOf(rest) \subseteq IdsOf(active) \cup (IF op = "add" THEN {task.id} ELSE {})
  PROVE  RecordedInv'
<1>1. /\ job'[a] = [step |-> step, op |-> op, task |-> task, rest |-> rest, log |-> <<>>]
      /\ \A b \in Agents \ {a} : job'[b] = job[b]
      /\ active' = active /\ history' = history /\ registered' = registered
  BY DEF Begin, TypeOK, files
<1>2. OnlyRecorded' /\ IdsOf(active) \subseteq registered
  BY <1>1 DEF RecordedInv, OnlyRecorded, IdsOf
<1>3. Knows(job[a])'
  BY <1>1, <1>2 DEF Knows, Late
<1> QED
  BY <1>1, <1>2, <1>3, OneKnows

\* A command that goes on or ends without having written anything.
LEMMA ReadKnows ==
  ASSUME TypeOK, RecordedInv, NEW a \in Agents, NEW j, job' = [job EXCEPT ![a] = j],
         UNCHANGED <<files, registered>>, Knows(j)
  PROVE  RecordedInv'
<1>1. /\ job'[a] = j /\ \A b \in Agents \ {a} : job'[b] = job[b]
      /\ active' = active /\ history' = history /\ registered' = registered
  BY DEF TypeOK, files
<1>2. OnlyRecorded' /\ Knows(job[a])'
  BY <1>1 DEF RecordedInv, OnlyRecorded, IdsOf, Knows
<1> QED
  BY <1>1, <1>2, OneKnows

\* The commands that read active.json when they begin.
LEMMA FirstReadKnows ==
  ASSUME TypeOK, RecordedInv, NEW a \in Agents, NEW id \in Ids,
         \/ \E owner \in {a, NoOwner} : Add(a, id, owner)
         \/ Block(a, id) \/ Unblock(a, id) \/ PromoteToForge(a, id) \/ Release(a, id)
         \/ ClaimCheck(a, id)
         \/ \E status \in TerminalStatus : Close(a, id, status)
  PROVE  RecordedInv'
<1> DEFINE k == IndexOf(active, id)
<1>1. ASSUME NEW owner \in {a, NoOwner}, Add(a, id, owner)
      PROVE  RecordedInv'
  <2>1. PICK task : /\ task = [id |-> id, status |-> "open", owner |-> owner,
                               claimedAt |-> IF owner = NoOwner THEN NoDate ELSE now]
                    /\ Begin(a, "writeActive", "add", task, Append(active, task))
                    /\ UNCHANGED <<files, now, crashes, registered, held>>
    BY <1>1 DEF Add
  <2>2. task \in Task
    BY <2>1 DEF Task, ActiveStatus, TerminalStatus, Date, TypeOK
  <2>3. IdsOf(Append(active, task)) \subseteq IdsOf(active) \cup {task.id}
    BY <2>2, AppendKeeps DEF TypeOK
  <2> QED
    BY <2>1, <2>3, BeginKnows
<1>2. CASE Block(a, id) \/ Unblock(a, id) \/ PromoteToForge(a, id) \/ Release(a, id)
  <2>1. id \in IdsOf(active)
    BY <1>2 DEF Block, Unblock, PromoteToForge, Release, Update
  <2>2. PICK op, task :
          /\ task \in Task /\ task.id = id
          /\ Begin(a, "writeActive", op, task, [active EXCEPT ![k] = task])
          /\ UNCHANGED <<files, now, crashes, registered, held>>
    <3>1. CASE Release(a, id)
      BY <2>1, <3>1, FoundRow, FieldTypes DEF Release, Update, OwnedBy, Task
    <3>2. CASE Block(a, id) \/ Unblock(a, id) \/ PromoteToForge(a, id)
      <4>1. PICK status \in ActiveStatus : Update(a, id, "update", LAMBDA t : [t EXCEPT !.status = status])
        BY <3>2 DEF Block, Unblock, PromoteToForge, ActiveStatus
      <4> DEFINE row == [active[k] EXCEPT !.status = status]
      <4>2. row \in Task /\ row.id = id
        BY <2>1, FoundRow DEF Task
      <4>3. /\ Begin(a, "writeActive", "update", row, [active EXCEPT ![k] = row])
            /\ UNCHANGED <<files, now, crashes, registered, held>>
        BY <4>1 DEF Update
      <4> HIDE DEF row
      <4> QED
        BY <4>2, <4>3
    <3> QED
      BY <1>2, <3>1, <3>2
  <2>3. IdsOf([active EXCEPT ![k] = task]) = IdsOf(active)
    BY <2>1, <2>2, UpdateKeeps
  <2> QED
    BY <2>2, <2>3, BeginKnows
<1>3. CASE ClaimCheck(a, id) \/ \E status \in TerminalStatus : Close(a, id, status)
  <2>1. /\ UNCHANGED <<files, now, crashes, registered, held>>
        /\ \E step \in {"claim", "close"} : \E op, task, rest : Begin(a, step, op, task, rest)
    BY <1>3 DEF ClaimCheck, Close
  <2> QED
    BY <2>1, BeginKnows
<1> QED
  BY <1>1, <1>2, <1>3

\* The commands that read active.json again.
LEMMA SecondReadKnows ==
  ASSUME TypeOK, RecordedInv, NEW a \in Agents, ClaimRead(a) \/ CloseRead(a)
  PROVE  RecordedInv'
<1> DEFINE id == job[a].task.id
           k  == IndexOf(active, id)
<1>1. UNCHANGED <<files, registered>> /\ Running(a) /\ job[a].task \in Task
  BY DEF ClaimRead, CloseRead, Running, TypeOK
<1>2. CASE End(a)
  <2>1. Knows(Idle)
    BY DEF Knows, Idle, Late
  <2> QED
    BY <1>1, <1>2, <2>1, ReadKnows DEF End
<1>3. CASE id \in IdsOf(active)
  <2>0. IdsOf(active) \subseteq registered
    BY DEF RecordedInv, OnlyRecorded
  <2>1. CASE ClaimRead(a)
    <3>1. PICK task : /\ task = OwnedBy(active[k], a, job[a].task.claimedAt)
                      /\ Proceed(a, "writeActive", task, [active EXCEPT ![k] = task], <<>>)
      BY <1>3, <2>1 DEF ClaimRead
    <3>2. task \in Task /\ task.id = id
      BY <1>1, <1>3, <3>1, FoundRow DEF Task, OwnedBy
    <3>3. IdsOf([active EXCEPT ![k] = task]) = IdsOf(active)
      BY <1>3, <3>2, UpdateKeeps
    <3>4. PICK rest : rest = [active EXCEPT ![k] = task] /\ IdsOf(rest) \subseteq registered
      BY <2>0, <3>3
    <3>5. Knows([step |-> "writeActive", op |-> job[a].op, task |-> task, rest |-> rest, log |-> <<>>])
      BY <3>4 DEF Knows
    <3> QED
      BY <1>1, <3>1, <3>4, <3>5, ReadKnows DEF Proceed
  <2>2. CASE CloseRead(a)
    <3>1. PICK task, rest : /\ task = ClosedAs(active[k], job[a].task.status)
                            /\ rest = Without(active, k)
                            /\ Proceed(a, "readHistory", task, rest, <<>>)
      BY <1>3, <2>2 DEF CloseRead
    <3>2. task.id = id /\ id \in registered
      BY <1>3, <2>0, <3>1, FoundRow DEF ClosedAs
    <3>3. IdsOf(rest) \subseteq registered
      BY <1>3, <2>0, <3>1, IndexOfFinds, WithoutKeeps DEF TypeOK
    <3>4. Knows([step |-> "readHistory", op |-> job[a].op, task |-> task, rest |-> rest, log |-> <<>>])
      BY <3>2, <3>3 DEF Knows
    <3> QED
      BY <1>1, <3>1, <3>4, ReadKnows DEF Proceed
  <2> QED
    BY <2>1, <2>2
<1> QED
  BY <1>2, <1>3 DEF ClaimRead, CloseRead

\* The copy of history.json and the two renames.
LEMMA WritesKnow ==
  ASSUME TypeOK, RecordedInv, NEW a \in Agents, ReadHistory(a) \/ WriteHistory(a) \/ WriteActive(a)
  PROVE  RecordedInv'
<1> DEFINE j == job[a]
<1>1. /\ j.task \in Task /\ Knows(j) /\ history \in Seq(Task)
      /\ IdsOf(active) \subseteq registered /\ IdsOf(history) \subseteq registered
  BY DEF ReadHistory, WriteHistory, WriteActive, Running, TypeOK, RecordedInv, OnlyRecorded
<1>2. CASE ReadHistory(a)
  <2>1. PICK log : log = Append(history, j.task) /\ IdsOf(log) = IdsOf(history) \cup {j.task.id}
    BY <1>1, AppendKeeps
  <2>2. Knows([step |-> "writeHistory", op |-> j.op, task |-> j.task, rest |-> j.rest, log |-> log])
    BY <1>1, <1>2, <2>1 DEF Knows, ReadHistory, Late
  <2> QED
    BY <1>2, <2>1, <2>2, ReadKnows DEF ReadHistory, Proceed
<1>3. CASE WriteHistory(a)
  <2>1. /\ history' = j.log /\ active' = active /\ registered' = registered
        /\ j.step = "writeHistory" /\ \A b \in Agents \ {a} : job'[b] = job[b]
        /\ job'[a] = [step |-> "writeActive", op |-> j.op, task |-> j.task, rest |-> j.rest, log |-> <<>>]
    BY <1>3 DEF WriteHistory, Proceed, TypeOK
  <2>2. IdsOf(history') = IdsOf(j.log) /\ IdsOf(active') = IdsOf(active)
    BY <2>1
  <2>3. OnlyRecorded'
    BY <1>1, <2>1, <2>2 DEF OnlyRecorded, Knows
  <2>4. Knows(job[a])'
    BY <1>1, <2>1 DEF Knows, Late
  <2> QED
    BY <2>1, <2>3, <2>4, OneKnows
<1>4. CASE WriteActive(a)
  <2>1. /\ active' = j.rest /\ history' = history
        /\ registered' = IF j.op = "add" THEN registered \cup {j.task.id} ELSE registered
        /\ j.step = "writeActive" /\ \A b \in Agents \ {a} : job'[b] = job[b]
        /\ job'[a] = Idle
    BY <1>4 DEF WriteActive, End, TypeOK
  <2>2. IdsOf(active') = IdsOf(j.rest) /\ IdsOf(history') = IdsOf(history)
    BY <2>1
  <2>3. OnlyRecorded'
    BY <1>1, <2>1, <2>2 DEF OnlyRecorded, Knows, Late
  <2>4. Knows(job[a])'
    BY <2>1 DEF Knows, Idle, Late
  <2> QED
    BY <2>1, <2>3, <2>4, OneKnows
<1> QED
  BY <1>2, <1>3, <1>4

\* Every step of every command keeps the invariant, overlap included.
LEMMA RecordedStep == TypeOK /\ RecordedInv /\ [Next]_vars => RecordedInv'
<1> SUFFICES ASSUME TypeOK, RecordedInv, [Next]_vars
             PROVE  RecordedInv'
  OBVIOUS
<1>1. ASSUME UNCHANGED <<files, job, registered>>
      PROVE  RecordedInv'
  <2>1. active' = active /\ history' = history /\ job' = job /\ registered' = registered
    BY <1>1 DEF files
  <2> QED
    BY <2>1 DEF RecordedInv, OnlyRecorded, Knows, IdsOf
<1>2. CASE Tick \/ UNCHANGED vars
  BY <1>1, <1>2 DEF Tick, vars, files
<1>3. ASSUME NEW a \in Agents, Crash(a)
      PROVE  RecordedInv'
  <2>1. Knows(Idle)
    BY DEF Knows, Idle, Late
  <2> QED
    BY <1>3, <2>1, ReadKnows DEF Crash, End
<1> QED
  BY <1>2, <1>3, FirstReadKnows, SecondReadKnows, WritesKnow DEF Next, Command

\* However commands overlap and wherever they die, the two files never hold a task
\* that no `task add` recorded: a lost update loses tasks, it invents none.
THEOREM NothingInvented == Spec => []OnlyRecorded
<1>1. Init => TypeOK /\ RecordedInv
  BY InitTypes DEF Init, RecordedInv, OnlyRecorded, Knows, Idle, Late, IdsOf
<1>2. TypeOK /\ RecordedInv /\ [Next]_vars => TypeOK' /\ RecordedInv'
  BY NextTypes, RecordedStep
<1>3. RecordedInv => OnlyRecorded
  BY DEF RecordedInv
<1> QED
  BY <1>1, <1>2, <1>3, PTL DEF Spec

-----------------------------------------------------------------------------
(* No task is lost and history.json only grows, while agents take turns.       *)

\* Agents that take turns hold one copy at a time, of either file.
LEMMA TurnsAreOneCopy == OneAtATime => OneCopy /\ OneLog
BY DEF OneAtATime, OneCopy, OneLog, Late, Running

\* What SerialInv says beyond the turns is CopiesInv, and LogInv is part of it.
LEMMA SerialIsCopies == SerialInv <=> OneAtATime /\ CopiesInv /\ LogInv
BY DEF SerialInv, CopiesInv, LogInv, CarriesOver, Late

\* Nothing runs in the initial states.
LEMMA InitSerial == Init => SerialInv
<1>1. Init => OneAtATime /\ LogInv
  BY DEF Init, OneAtATime, LogInv, Running, Idle
<1> QED
  BY <1>1, InitCopies, SerialIsCopies

\* A step taken in turn is a step of the store.
LEMMA SerialNextIsNext == [SerialNext]_vars => [Next]_vars
BY DEF SerialNext

\* Every step that leaves at most one command running keeps the invariant, and no
\* step takes anything out of history.json.
LEMMA SerialStep ==
  TypeOK /\ SerialInv /\ [SerialNext]_vars => SerialInv' /\ IsExtension(history, history')
<1> SUFFICES ASSUME TypeOK, SerialInv, [SerialNext]_vars
             PROVE  SerialInv' /\ IsExtension(history, history')
  OBVIOUS
<1>1. OneCopy /\ OneLog /\ CopiesInv /\ LogInv /\ [Next]_vars
  BY TurnsAreOneCopy, SerialIsCopies, SerialNextIsNext
<1>2. OneAtATime'
  BY DEF SerialNext, SerialInv, OneAtATime, Running, vars
<1>3. CopiesInv' /\ LogInv' /\ IsExtension(history, history')
  BY <1>1, CopiesStep, LogStep
<1> QED
  BY <1>2, <1>3, SerialIsCopies, PTL

\* While commands do not overlap, a task that was recorded stays recorded, whichever
\* commands run and wherever their processes die.
THEOREM NothingLost == SerialSpec => []NoTaskLost
<1>1. Init => TypeOK /\ SerialInv
  BY InitTypes, InitSerial
<1>2. TypeOK /\ SerialInv /\ [SerialNext]_vars => TypeOK' /\ SerialInv'
  BY NextTypes, SerialNextIsNext, SerialStep
<1>3. SerialInv => NoTaskLost
  BY DEF SerialInv
<1> QED
  BY <1>1, <1>2, <1>3, PTL DEF SerialSpec

\* While commands do not overlap, history.json is append-only.
THEOREM HistoryOnlyGrows == SerialSpec => HistoryAppendOnly
<1>1. Init => TypeOK /\ SerialInv
  BY InitTypes, InitSerial
<1>2. TypeOK /\ SerialInv /\ [SerialNext]_vars => TypeOK' /\ SerialInv'
  BY NextTypes, SerialNextIsNext, SerialStep
<1>3. TypeOK /\ SerialInv /\ [SerialNext]_vars => [IsExtension(history, history')]_vars
  BY SerialStep
<1> QED
  BY <1>1, <1>2, <1>3, PTL DEF SerialSpec, HistoryAppendOnly

-----------------------------------------------------------------------------
(* What a command is about to do, in full: the row it adds, replaces or        *)
(* removes, if the functions of task-store.mjs that change the store (addTask, *)
(* updateTask, claimTask, closeTask) each ran under a lock.  A close may verify *)
(* its evidence meanwhile, as closeTask is called after that.  TurnInv is       *)
(* inductive together with TypeOK, CopiesInv and LogInv, when ids are fresh.   *)

\* The steps inside those functions.
Inside == Late \cup {"claim"}

OneInside == \A a, b \in Agents : job[a].step \in Inside /\ job[b].step \in Inside => a = b

LockedSpec == Spec /\ []OneInside

\* No two rows of a collection have the same id.
Distinct(tasks) == \A i, j \in DOMAIN tasks : tasks[i].id = tasks[j].id => i = j

\* Nobody else's claim on this row is live, and none will be: claims only age.
Takable(a, row) == ClaimIsLive(row) => row.owner = a

\* The row that updateTask writes for the one it found.
Merged(a, op, row, task) ==
  \/ op = "update"  /\ \E status \in ActiveStatus : task = [row EXCEPT !.status = status]
  \/ op = "release" /\ task = OwnedBy(row, NoOwner, NoDate)
  \/ op = "claim"   /\ Takable(a, row) /\ \E date \in 0 .. now : task = OwnedBy(row, a, date)

Adds(j) ==
  /\ j.op = "add" /\ j.step = "writeActive"
  /\ j.task.id \notin registered
  /\ j.rest = Append(active, j.task)
  /\ j.task.status = "open"
  /\ j.task.claimedAt \in 0 .. now \cup {NoDate}

Merges(a, j) ==
  /\ j.step = "writeActive"
  /\ \E k \in DOMAIN active : /\ active[k].id = j.task.id
                              /\ Merged(a, j.op, active[k], j.task)
                              /\ j.rest = [active EXCEPT ![k] = j.task]

Removes(j) ==
  /\ j.op = "close" /\ j.task.status \in TerminalStatus
  /\ \E k \in DOMAIN active : active[k].id = j.task.id /\ j.rest = Without(active, k)
  /\ j.step = "writeActive" => Len(history) > 0 /\ history[Len(history)] = j.task

Plans(a, j) ==
  /\ j.step = "claim" =>
       /\ j.task.owner = a /\ j.task.claimedAt \in 0 .. now
       /\ \A k \in DOMAIN active : active[k].id = j.task.id => Takable(a, active[k])
  /\ j.step = "close" => j.task.status \in TerminalStatus
  /\ j.step \in Late => Adds(j) \/ Merges(a, j) \/ Removes(j)

\* A close of this task has written history.json and not yet active.json.
Leaving(id) ==
  \E a \in Agents : job[a].step = "writeActive" /\ job[a].op = "close" /\ job[a].task.id = id

\* What callers were told of a claim inside its window is what the row says.
HeldInv ==
  \A h \in held :
    /\ h.id \in registered
    /\ Current(h.since) /\ h.id \in IdsOf(active) =>
         Find(active, h.id).owner = h.by /\ Find(active, h.id).claimedAt = h.since

\* A row of history.json whose task is still active, with no close under way, was
\* left by a process that died.
Allowed(id) == crashes + (IF id \in IdsOf(active) /\ ~Leaving(id) THEN 0 ELSE 1)

RowsInv == \A id \in Ids : Cardinality(HistoryRows(id)) <= Allowed(id)

TurnInv ==
  /\ Distinct(active)
  /\ IdsOf(active) \cup IdsOf(history) \subseteq registered
  /\ \A a \in Agents : Plans(a, job[a])
  /\ HeldInv
  /\ RowsInv

FullInv == TypeOK /\ CopiesInv /\ LogInv /\ OneInside /\ TurnInv

-----------------------------------------------------------------------------
(* Rows of collections without repeated ids.                                  *)

\* findIndex returns the one row that has the id.
LEMMA FindIsUnique ==
  ASSUME NEW tasks \in Seq(Task), Distinct(tasks), NEW k \in DOMAIN tasks
  PROVE  IndexOf(tasks, tasks[k].id) = k /\ Find(tasks, tasks[k].id) = tasks[k]
<1>1. tasks[k].id \in IdsOf(tasks)
  BY DEF IdsOf
<1>2. /\ IndexOf(tasks, tasks[k].id) \in DOMAIN tasks
      /\ tasks[IndexOf(tasks, tasks[k].id)].id = tasks[k].id
  BY <1>1, IndexOfFinds
<1> QED
  BY <1>2 DEF Distinct, Find

\* A row with a new id at the end: the others are found where they were.
LEMMA AppendIsDistinct ==
  ASSUME NEW tasks \in Seq(Task), Distinct(tasks), NEW task \in Task, task.id \notin IdsOf(tasks)
  PROVE  /\ Distinct(Append(tasks, task))
         /\ Find(Append(tasks, task), task.id) = task
         /\ \A id \in IdsOf(tasks) : Find(Append(tasks, task), id) = Find(tasks, id)
<1> DEFINE new == Append(tasks, task)
<1>1. /\ new \in Seq(Task)
      /\ DOMAIN new = DOMAIN tasks \cup {Len(tasks) + 1}
      /\ Len(tasks) + 1 \notin DOMAIN tasks
      /\ \A i \in DOMAIN tasks : new[i] = tasks[i]
      /\ new[Len(tasks) + 1] = task
  OBVIOUS
<1>2. \A i \in DOMAIN tasks : tasks[i].id # task.id
  BY DEF IdsOf
<1> HIDE DEF new
<1>3. Distinct(new)
  BY <1>1, <1>2 DEF Distinct
<1>4. Find(new, task.id) = task
  BY <1>1, <1>3, FindIsUnique
<1>5. ASSUME NEW id \in IdsOf(tasks)
      PROVE  Find(new, id) = Find(tasks, id)
  <2>1. PICK k \in DOMAIN tasks : tasks[k].id = id
    BY DEF IdsOf
  <2>2. Find(tasks, id) = tasks[k] /\ new[k].id = id /\ k \in DOMAIN new
    BY <1>1, <2>1, FindIsUnique
  <2> QED
    BY <1>1, <1>3, <2>2, FindIsUnique
<1> QED
  BY <1>3, <1>4, <1>5 DEF new

\* A row replaced by one with its id: the others are found where they were.
LEMMA ReplaceIsDistinct ==
  ASSUME NEW tasks \in Seq(Task), Distinct(tasks), NEW k \in DOMAIN tasks,
         NEW task \in Task, task.id = tasks[k].id
  PROVE  /\ Distinct([tasks EXCEPT ![k] = task])
         /\ Find([tasks EXCEPT ![k] = task], task.id) = task
         /\ \A id \in IdsOf(tasks) \ {task.id} :
              Find([tasks EXCEPT ![k] = task], id) = Find(tasks, id)
<1> DEFINE new == [tasks EXCEPT ![k] = task]
<1>1. /\ new \in Seq(Task)
      /\ DOMAIN new = DOMAIN tasks
      /\ \A i \in DOMAIN tasks : new[i].id = tasks[i].id /\ (i # k => new[i] = tasks[i])
      /\ new[k] = task
  OBVIOUS
<1> HIDE DEF new
<1>2. Distinct(new)
  BY <1>1 DEF Distinct
<1>3. Find(new, task.id) = task
  BY <1>1, <1>2, FindIsUnique
<1>4. ASSUME NEW id \in IdsOf(tasks) \ {task.id}
      PROVE  Find(new, id) = Find(tasks, id)
  <2>1. PICK i \in DOMAIN tasks : tasks[i].id = id
    BY DEF IdsOf
  <2>2. i # k /\ new[i] = tasks[i]
    BY <1>1, <2>1
  <2> QED
    BY <1>1, <1>2, <2>1, <2>2, FindIsUnique
<1> QED
  BY <1>2, <1>3, <1>4 DEF new

\* A row removed: its id is gone, and the others are still found.
LEMMA WithoutIsDistinct ==
  ASSUME NEW tasks \in Seq(Task), Distinct(tasks), NEW k \in DOMAIN tasks
  PROVE  /\ Distinct(Without(tasks, k))
         /\ IdsOf(Without(tasks, k)) = IdsOf(tasks) \ {tasks[k].id}
         /\ \A id \in IdsOf(tasks) \ {tasks[k].id} : Find(Without(tasks, k), id) = Find(tasks, id)
         /\ \A i \in DOMAIN Without(tasks, k) : \E h \in DOMAIN tasks : Without(tasks, k)[i] = tasks[h]
<1> DEFINE rest == Without(tasks, k)
           From(i) == IF i < k THEN i ELSE i + 1
<1>1. /\ rest \in Seq(Task)
      /\ Len(rest) = Len(tasks) - 1
      /\ IdsOf(tasks) \subseteq IdsOf(rest) \cup {tasks[k].id}
      /\ IdsOf(rest) \subseteq IdsOf(tasks)
  <2>1. /\ rest \in Seq(Task)
        /\ IdsOf(tasks) \subseteq IdsOf(rest) \cup {tasks[k].id}
        /\ IdsOf(rest) \subseteq IdsOf(tasks)
    BY WithoutKeeps
  <2>2. DOMAIN rest = 1 .. Len(tasks) - 1 /\ Len(tasks) - 1 \in Nat
    BY DEF Without
  <2> QED
    BY <2>1, <2>2
<1>2. \A i \in DOMAIN rest : rest[i] = tasks[From(i)] /\ From(i) \in DOMAIN tasks \ {k}
  BY <1>1 DEF Without
<1>3. \A i, j \in DOMAIN rest : From(i) = From(j) => i = j
  BY <1>1
<1> HIDE DEF rest, From
<1>4. Distinct(rest)
  BY <1>2, <1>3 DEF Distinct
<1>5. tasks[k].id \notin IdsOf(rest)
  BY <1>2 DEF Distinct, IdsOf
<1>6. ASSUME NEW id \in IdsOf(tasks) \ {tasks[k].id}
      PROVE  Find(rest, id) = Find(tasks, id)
  <2>1. PICK i \in DOMAIN rest : rest[i].id = id
    BY <1>1 DEF IdsOf
  <2>2. rest[i] = tasks[From(i)] /\ From(i) \in DOMAIN tasks
    BY <1>2
  <2> QED
    BY <1>1, <1>4, <2>1, <2>2, FindIsUnique
<1> QED
  BY <1>1, <1>2, <1>4, <1>5, <1>6 DEF rest

-----------------------------------------------------------------------------
(* TurnInv step by step.                                                      *)

\* The rows of a task are finitely many, and an appended row is one more.
LEMMA RowsOfHistory ==
  ASSUME history \in Seq(Task), NEW id
  PROVE  /\ HistoryRows(id) \subseteq 1 .. Len(history)
         /\ IsFiniteSet(HistoryRows(id))
         /\ Cardinality(HistoryRows(id)) \in Nat
         /\ Cardinality(HistoryRows(id)) = 0 <=> id \notin IdsOf(history)
<1>1. HistoryRows(id) \subseteq 1 .. Len(history) /\ IsFiniteSet(1 .. Len(history))
  BY FS_Interval DEF HistoryRows
<1>2. IsFiniteSet(HistoryRows(id))
  BY <1>1, FS_Subset
<1>3. HistoryRows(id) = {} <=> id \notin IdsOf(history)
  BY DEF HistoryRows, IdsOf
<1> QED
  BY <1>1, <1>2, <1>3, FS_CardinalityType, FS_EmptySet

\* A row appended to the history is one more row of its task.
LEMMA RowsAppended ==
  ASSUME history \in Seq(Task), NEW task \in Task, history' = Append(history, task), NEW id
  PROVE  /\ id # task.id => HistoryRows(id)' = HistoryRows(id)
         /\ id = task.id => Cardinality(HistoryRows(id)') = Cardinality(HistoryRows(id)) + 1
         /\ \A i \in DOMAIN history : history'[i] = history[i]
         /\ IdsOf(history') = IdsOf(history) \cup {task.id}
<1>1. /\ Len(history') = Len(history) + 1
      /\ DOMAIN history' = DOMAIN history \cup {Len(history) + 1}
      /\ Len(history) + 1 \notin DOMAIN history
      /\ \A i \in DOMAIN history : history'[i] = history[i]
      /\ history'[Len(history) + 1] = task
  OBVIOUS
<1>2. ASSUME id # task.id
      PROVE  HistoryRows(id)' = HistoryRows(id)
  BY <1>1, <1>2 DEF HistoryRows
<1>3. ASSUME id = task.id
      PROVE  Cardinality(HistoryRows(id)') = Cardinality(HistoryRows(id)) + 1
  <2>1. HistoryRows(id)' = HistoryRows(id) \cup {Len(history) + 1}
    BY <1>1, <1>3 DEF HistoryRows
  <2>2. Len(history) + 1 \notin HistoryRows(id)
    BY <1>1 DEF HistoryRows
  <2> QED
    BY <2>1, <2>2, RowsOfHistory, FS_AddElement
<1> QED
  BY <1>1, <1>2, <1>3, AppendKeeps

\* Time only takes claims out of their window.
LEMMA ClaimsAge ==
  ASSUME Tick, TypeOK, NEW date \in Date
  PROVE  Current(date)' => Current(date)
BY ClockAssumption, SentinelAssumption DEF Tick, TypeOK, Current, Date

\* The history bound, whoever runs.
LEMMA AllowedBounds ==
  ASSUME TypeOK, NEW id
  PROVE  /\ crashes \in Nat
         /\ Allowed(id) \in {crashes, crashes + 1}
BY BoundAssumption DEF TypeOK, Allowed

\* Nothing runs in the initial states, and active.json has one row at most.
LEMMA InitTurn == Init => TurnInv
<1> SUFFICES ASSUME Init PROVE TurnInv
  OBVIOUS
<1>1. TypeOK
  BY InitTypes
<1>2. \A a \in Agents : Plans(a, job[a])
  BY DEF Init, Idle, Plans, Late
<1>3. RowsInv
  <2>1. \A id : HistoryRows(id) = {}
    BY DEF Init, HistoryRows
  <2> QED
    BY <1>1, <2>1, AllowedBounds, FS_EmptySet DEF RowsInv
<1>4. IdsOf(active) \cup IdsOf(history) \subseteq registered
  BY DEF Init, IdsOf
<1>5. CASE active = <<>>
  BY <1>2, <1>3, <1>4, <1>5 DEF Init, TurnInv, Distinct, HeldInv
<1>6. ASSUME NEW id \in Ids, NEW a \in Agents, active = <<LegacyTask(id, a)>>
      PROVE  TurnInv
  <2>1. DOMAIN active = {1} /\ active[1] = LegacyTask(id, a)
    BY <1>6
  <2>2. \A h \in held : h.id = id /\ h.by = a /\ h.since = NoDate
    BY <2>1 DEF Init, LegacyTask
  <2>3. id \in registered
    BY <2>1 DEF Init, IdsOf, LegacyTask
  <2>4. Distinct(active)
    BY <2>1 DEF Distinct
  <2>5. Find(active, id) = LegacyTask(id, a)
    BY <1>1, <2>1, <2>4, FindIsUnique DEF TypeOK, LegacyTask
  <2>6. HeldInv
    BY <2>2, <2>3, <2>5 DEF HeldInv, LegacyTask
  <2> QED
    BY <1>2, <1>3, <1>4, <2>4, <2>6 DEF TurnInv
<1> QED
  BY <1>5, <1>6 DEF Init

\* A plan depends on active.json, history.json, what is registered and the clock.
LEMMA PlansStay ==
  ASSUME UNCHANGED <<active, history, now, registered>>, NEW a, NEW j
  PROVE  Plans(a, j)' <=> Plans(a, j)
<1>1. \A row : Takable(a, row)' <=> Takable(a, row)
  BY DEF Takable, ClaimIsLive, Current
<1>2. \A op, row, task : Merged(a, op, row, task)' <=> Merged(a, op, row, task)
  BY <1>1 DEF Merged
<1>3. Merges(a, j)' <=> Merges(a, j)
  BY <1>2 DEF Merges
<1>4. Adds(j)' <=> Adds(j)
  BY DEF Adds
<1>5. Removes(j)' <=> Removes(j)
  BY DEF Removes
<1> QED
  BY <1>1, <1>3, <1>4, <1>5 DEF Plans

\* A command that begins, goes on or ends without writing a file or a report.
LEMMA JobTurn ==
  ASSUME FullInv, NEW a \in Agents, NEW j, job' = [job EXCEPT ![a] = j],
         UNCHANGED <<files, now, crashes, registered, held>>,
         ~(job[a].step = "writeActive" /\ job[a].op = "close"),
         ~(j.step = "writeActive" /\ j.op = "close"),
         Plans(a, j)
  PROVE  TurnInv'
<1>1. /\ job'[a] = j
      /\ \A b \in Agents \ {a} : job'[b] = job[b]
  BY DEF FullInv, TypeOK
<1>2. /\ active' = active /\ history' = history /\ now' = now
      /\ crashes' = crashes /\ registered' = registered /\ held' = held
  BY DEF files
<1>3. ASSUME NEW b \in Agents
      PROVE  Plans(b, job[b])'
  <2>1. Plans(b, job'[b])
    BY <1>1 DEF FullInv, TurnInv
  <2>2. \A q : Plans(b, q) => Plans(b, q)'
    BY <1>2, PlansStay
  <2> QED
    BY <2>1, <2>2
<1>4. \A id : Leaving(id)' <=> Leaving(id)
  BY <1>1 DEF Leaving
<1>5. RowsInv'
  BY <1>2, <1>4 DEF FullInv, TurnInv, RowsInv, Allowed, HistoryRows, IdsOf
<1>6. Distinct(active)' /\ (IdsOf(active) \cup IdsOf(history) \subseteq registered)' /\ HeldInv'
  BY <1>2 DEF FullInv, TurnInv, Distinct, IdsOf, HeldInv, Current
<1> QED
  BY <1>3, <1>5, <1>6 DEF TurnInv

\* task add, with a fresh id.
LEMMA AddTurn ==
  ASSUME ~ReuseIds, FullInv, NEW a \in Agents, NEW id \in Ids, NEW owner \in Agents \cup {NoOwner},
         Add(a, id, owner)
  PROVE  TurnInv'
<1> DEFINE task == [id |-> id, status |-> "open", owner |-> owner,
                    claimedAt |-> IF owner = NoOwner THEN NoDate ELSE now]
           j    == [step |-> "writeActive", op |-> "add", task |-> task,
                    rest |-> Append(active, task), log |-> <<>>]
<1>1. /\ job' = [job EXCEPT ![a] = j] /\ job[a].step = "idle"
      /\ UNCHANGED <<files, now, crashes, registered, held>>
  BY DEF Add, Begin, Running
<1>2. task.id \notin registered
  BY DEF Add
<1>3. task.status = "open" /\ task.claimedAt \in 0 .. now \cup {NoDate}
  BY DEF FullInv, TypeOK
<1> HIDE DEF task
<1>4. Adds(j)
  BY <1>2, <1>3 DEF Adds
<1>5. Plans(a, j)
  BY <1>4 DEF Plans, Late
<1> HIDE DEF j
<1>6. ~(j.step = "writeActive" /\ j.op = "close")
  BY DEF j
<1> QED
  BY <1>1, <1>5, <1>6, JobTurn

\* The commands that merge fields into a row.
LEMMA UpdateTurn ==
  ASSUME FullInv, NEW a \in Agents, NEW id \in IdsOf(active), NEW op, NEW task, NEW j,
         ~(job[a].step = "writeActive" /\ job[a].op = "close"),
         task.id = id, Merged(a, op, active[IndexOf(active, id)], task),
         j = [step |-> "writeActive", op |-> op, task |-> task,
              rest |-> [active EXCEPT ![IndexOf(active, id)] = task], log |-> <<>>],
         job' = [job EXCEPT ![a] = j],
         UNCHANGED <<files, now, crashes, registered, held>>
  PROVE  TurnInv'
<1>1. IndexOf(active, id) \in DOMAIN active /\ active[IndexOf(active, id)].id = id
  BY IndexOfFinds DEF FullInv, TypeOK
<1>2. Merges(a, j)
  BY <1>1 DEF Merges
<1>3. op # "close"
  BY DEF Merged
<1>4. Plans(a, j)
  BY <1>2 DEF Plans, Late
<1> QED
  BY <1>3, <1>4, JobTurn

\* block, unblock and promoteToForge: the status changes, the claim stands.
LEMMA StatusTurn ==
  ASSUME FullInv, NEW a \in Agents, NEW id \in Ids,
         Block(a, id) \/ Unblock(a, id) \/ PromoteToForge(a, id)
  PROVE  TurnInv'
<1> DEFINE row == active[IndexOf(active, id)]
<1>1. PICK status \in ActiveStatus : Update(a, id, "update", LAMBDA t : [t EXCEPT !.status = status])
  BY DEF Block, Unblock, PromoteToForge, ActiveStatus
<1> DEFINE task == [row EXCEPT !.status = status]
           j    == [step |-> "writeActive", op |-> "update", task |-> task,
                    rest |-> [active EXCEPT ![IndexOf(active, id)] = task], log |-> <<>>]
<1>2. /\ id \in IdsOf(active)
      /\ job' = [job EXCEPT ![a] = j] /\ job[a].step = "idle"
      /\ UNCHANGED <<files, now, crashes, registered, held>>
  BY <1>1 DEF Update, Begin, Running
<1>3. task.id = id
  BY <1>2, FoundRow DEF FullInv, Task
<1>4. Merged(a, "update", row, task)
  BY DEF Merged
<1> HIDE DEF task
<1> QED
  BY <1>2, <1>3, <1>4, UpdateTurn

\* release clears the claim.
LEMMA ReleaseTurn ==
  ASSUME FullInv, NEW a \in Agents, NEW id \in Ids, Release(a, id)
  PROVE  TurnInv'
<1> DEFINE row  == active[IndexOf(active, id)]
           task == OwnedBy(row, NoOwner, NoDate)
           j    == [step |-> "writeActive", op |-> "release", task |-> task,
                    rest |-> [active EXCEPT ![IndexOf(active, id)] = task], log |-> <<>>]
<1>1. /\ id \in IdsOf(active)
      /\ job' = [job EXCEPT ![a] = j] /\ job[a].step = "idle"
      /\ UNCHANGED <<files, now, crashes, registered, held>>
  BY DEF Release, Update, Begin, Running
<1>2. task.id = id
  BY <1>1, FoundRow DEF FullInv, OwnedBy
<1>3. Merged(a, "release", row, task)
  BY DEF Merged
<1> HIDE DEF task
<1> QED
  BY <1>1, <1>2, <1>3, UpdateTurn

\* task claim, first read: nobody else's claim on the row is live.
LEMMA ClaimCheckTurn ==
  ASSUME FullInv, NEW a \in Agents, NEW id \in Ids, ClaimCheck(a, id)
  PROVE  TurnInv'
<1> DEFINE k    == IndexOf(active, id)
           task == OwnedBy(active[k], a, now)
           j    == [step |-> "claim", op |-> "claim", task |-> task, rest |-> <<>>, log |-> <<>>]
<1>1. /\ id \in IdsOf(active) /\ Takable(a, active[k])
      /\ job' = [job EXCEPT ![a] = j] /\ job[a].step = "idle"
      /\ UNCHANGED <<files, now, crashes, registered, held>>
  BY DEF ClaimCheck, Find, Takable, Begin, Running
<1>2. k \in DOMAIN active /\ active[k].id = id
  BY <1>1, IndexOfFinds DEF FullInv, TypeOK
<1>3. task.owner = a /\ task.claimedAt \in 0 .. now /\ task.id = id
  BY <1>2 DEF OwnedBy, FullInv, TypeOK
<1>4. \A i \in DOMAIN active : active[i].id = task.id => Takable(a, active[i])
  BY <1>1, <1>2, <1>3 DEF FullInv, TurnInv, Distinct
<1> HIDE DEF task, k
<1>5. Plans(a, j)
  BY <1>3, <1>4 DEF Plans, Late
<1>6. ~(j.step = "writeActive" /\ j.op = "close")
  OBVIOUS
<1> HIDE DEF j
<1> QED
  BY <1>1, <1>5, <1>6, JobTurn

\* task claim, second read: still nobody's, since claims only age.
LEMMA ClaimReadTurn ==
  ASSUME FullInv, NEW a \in Agents, ClaimRead(a)
  PROVE  TurnInv'
<1> DEFINE id   == job[a].task.id
           k    == IndexOf(active, id)
           task == OwnedBy(active[k], a, job[a].task.claimedAt)
           j    == [step |-> "writeActive", op |-> "claim", task |-> task,
                    rest |-> [active EXCEPT ![k] = task], log |-> <<>>]
<1>1. /\ job[a].step = "claim" /\ job[a].op = "claim"
      /\ UNCHANGED <<files, now, crashes, registered, held>>
  BY DEF ClaimRead, FullInv, CopiesInv
<1>2. /\ job[a].task.claimedAt \in 0 .. now
      /\ \A i \in DOMAIN active : active[i].id = id => Takable(a, active[i])
  BY <1>1 DEF FullInv, TurnInv, Plans
<1>3. CASE id \in IdsOf(active)
  <2>1. k \in DOMAIN active /\ active[k].id = id
    BY <1>3, IndexOfFinds DEF FullInv, TypeOK
  <2>2. task.id = id /\ Merged(a, "claim", active[k], task)
    BY <1>2, <2>1 DEF Merged, OwnedBy
  <2>3. job' = [job EXCEPT ![a] = j]
    BY <1>1, <1>3 DEF ClaimRead, Proceed
  <2> HIDE DEF task, k
  <2> QED
    BY <1>1, <1>3, <2>2, <2>3, UpdateTurn DEF k
<1>4. CASE id \notin IdsOf(active)
  <2>1. job' = [job EXCEPT ![a] = Idle]
    BY <1>4 DEF ClaimRead, End
  <2>2. Plans(a, Idle) /\ Idle.step = "idle"
    BY DEF Plans, Idle, Late
  <2> QED
    BY <1>1, <2>1, <2>2, JobTurn
<1> QED
  BY <1>3, <1>4

\* task close and task abandon begin with a verdict.
LEMMA CloseTurn ==
  ASSUME FullInv, NEW a \in Agents, NEW id \in Ids, NEW status \in TerminalStatus,
         Close(a, id, status)
  PROVE  TurnInv'
<1> DEFINE task == [id |-> id, status |-> status, owner |-> NoOwner, claimedAt |-> NoDate]
           j    == [step |-> "close", op |-> "close", task |-> task, rest |-> <<>>, log |-> <<>>]
<1>1. /\ job' = [job EXCEPT ![a] = j] /\ job[a].step = "idle"
      /\ UNCHANGED <<files, now, crashes, registered, held>>
  BY DEF Close, Begin, Running
<1>2. Plans(a, j) /\ ~(j.step = "writeActive" /\ j.op = "close")
  BY DEF Plans, Late
<1> HIDE DEF j
<1> QED
  BY <1>1, <1>2, JobTurn

\* closeTask: the copy is active.json without the row, which gets the verdict.
LEMMA CloseReadTurn ==
  ASSUME FullInv, NEW a \in Agents, CloseRead(a)
  PROVE  TurnInv'
<1> DEFINE id   == job[a].task.id
           k    == IndexOf(active, id)
           task == ClosedAs(active[k], job[a].task.status)
           j    == [step |-> "readHistory", op |-> "close", task |-> task,
                    rest |-> Without(active, k), log |-> <<>>]
<1>1. /\ job[a].step = "close" /\ job[a].op = "close"
      /\ UNCHANGED <<files, now, crashes, registered, held>>
  BY DEF CloseRead, FullInv, CopiesInv
<1>2. job[a].task.status \in TerminalStatus
  BY <1>1 DEF FullInv, TurnInv, Plans
<1>3. CASE id \in IdsOf(active)
  <2>1. k \in DOMAIN active /\ active[k].id = id
    BY <1>3, IndexOfFinds DEF FullInv, TypeOK
  <2>2. task.id = id /\ task.status \in TerminalStatus
    BY <1>2, <2>1 DEF ClosedAs
  <2>3. job' = [job EXCEPT ![a] = j]
    BY <1>1, <1>3 DEF CloseRead, Proceed
  <2> HIDE DEF task, k
  <2>4. Removes(j)
    BY <2>1, <2>2 DEF Removes
  <2>5. Plans(a, j) /\ j.step # "writeActive"
    BY <2>4 DEF Plans
  <2> HIDE DEF j
  <2> QED
    BY <1>1, <2>3, <2>5, JobTurn
<1>4. CASE id \notin IdsOf(active)
  <2>1. job' = [job EXCEPT ![a] = Idle]
    BY <1>4 DEF CloseRead, End
  <2>2. Plans(a, Idle) /\ Idle.step = "idle"
    BY DEF Plans, Idle, Late
  <2> QED
    BY <1>1, <2>1, <2>2, JobTurn
<1> QED
  BY <1>3, <1>4

\* A close on its way to history.json has nothing to do but remove its row.
LEMMA ClosePlan ==
  ASSUME FullInv, NEW a \in Agents, job[a].step \in {"readHistory", "writeHistory"}
  PROVE  Removes(job[a]) /\ job[a].op = "close"
<1>1. Plans(a, job[a])
  BY DEF FullInv, TurnInv
<1> QED
  BY <1>1 DEF Plans, Late, Adds, Merges, Removes

\* closeTask reads history.json.
LEMMA ReadHistoryTurn ==
  ASSUME FullInv, NEW a \in Agents, ReadHistory(a)
  PROVE  TurnInv'
<1> DEFINE j == [step |-> "writeHistory", op |-> job[a].op, task |-> job[a].task,
                 rest |-> job[a].rest, log |-> Append(history, job[a].task)]
<1>1. /\ job[a].step = "readHistory" /\ job' = [job EXCEPT ![a] = j]
      /\ UNCHANGED <<files, now, crashes, registered, held>>
  BY DEF ReadHistory, Proceed
<1>2. Removes(job[a])
  BY <1>1, ClosePlan
<1>3. Removes(j)
  BY <1>2 DEF Removes
<1>4. Plans(a, j) /\ j.step # "writeActive"
  BY <1>3 DEF Plans
<1> HIDE DEF j
<1> QED
  BY <1>1, <1>4, JobTurn

\* While one command holds a copy no other one plans anything.
LEMMA OnlyOnePlans ==
  ASSUME FullInv, NEW a \in Agents, job[a].step \in Late, NEW j, job' = [job EXCEPT ![a] = j]
  PROVE  /\ job'[a] = j
         /\ \A b \in Agents \ {a} : job[b].step # "writeActive" /\ job'[b] = job[b]
         /\ \A b \in Agents \ {a} : Plans(b, job[b])'
<1>1. job'[a] = j /\ \A b \in Agents \ {a} : job[b].step \notin Inside /\ job'[b] = job[b]
  BY DEF FullInv, TypeOK, OneInside, Inside
<1>2. \A b \in Agents \ {a} : Plans(b, job[b])'
  BY <1>1 DEF Plans, Inside, FullInv, TurnInv
<1> QED
  BY <1>1, <1>2 DEF Inside, Late

\* closeTask renames history.json: one row more for a task that had none but those of
\* processes that died.
LEMMA WriteHistoryTurn ==
  ASSUME FullInv, NEW a \in Agents, WriteHistory(a)
  PROVE  TurnInv'
<1>0. PICK task, j : /\ task = job[a].task
                    /\ j = [step |-> "writeActive", op |-> job[a].op, task |-> task,
                            rest |-> job[a].rest, log |-> <<>>]
  OBVIOUS
<1>1. /\ job[a].step = "writeHistory" /\ Running(a) /\ job' = [job EXCEPT ![a] = j]
      /\ task \in Task
      /\ UNCHANGED <<active, now, crashes, registered, held>>
  BY <1>0 DEF WriteHistory, Proceed, Running, FullInv, TypeOK
<1>2. Removes(job[a]) /\ job[a].op = "close"
  BY <1>1, ClosePlan
<1>3. history' = Append(history, task) /\ history \in Seq(Task)
  BY <1>0, <1>1 DEF WriteHistory, FullInv, LogInv, TypeOK
<1>4. task.id \in IdsOf(active)
  BY <1>0, <1>2 DEF Removes, IdsOf
<1>5. /\ IdsOf(history') = IdsOf(history) \cup {task.id}
      /\ \A id : id # task.id => HistoryRows(id)' = HistoryRows(id)
      /\ \A id : id = task.id => Cardinality(HistoryRows(id)') = Cardinality(HistoryRows(id)) + 1
  BY <1>1, <1>3, RowsAppended
<1>6. Len(history') > 0 /\ history'[Len(history')] = task
  BY <1>1, <1>3
<1>7. Removes(j)'
  BY <1>0, <1>1, <1>2, <1>6 DEF Removes
<1>8. \A b \in Agents : Plans(b, job[b])'
  <2>1. Plans(a, j)'
    BY <1>0, <1>7 DEF Plans
  <2>2. job'[a] = j /\ \A b \in Agents \ {a} : Plans(b, job[b])'
    BY <1>1, OnlyOnePlans DEF Late
  <2>3. Plans(a, job[a])'
    BY <2>1, <2>2
  <2> QED
    BY <2>2, <2>3
<1>9. RowsInv'
  <2> SUFFICES ASSUME NEW id \in Ids
               PROVE  Cardinality(HistoryRows(id)') <= Allowed(id)'
    BY DEF RowsInv
  <2>0. job'[a] = j /\ \A b \in Agents \ {a} : job[b].step # "writeActive" /\ job'[b] = job[b]
    BY <1>1, OnlyOnePlans DEF Late
  <2>1. ~Leaving(id) /\ (Leaving(id)' <=> id = task.id)
    BY <1>0, <1>1, <1>2, <2>0 DEF Leaving
  <2>2. Cardinality(HistoryRows(id)) <= Allowed(id)
    BY DEF FullInv, TurnInv, RowsInv
  <2>3. crashes' = crashes /\ IdsOf(active') = IdsOf(active) /\ crashes \in Nat
    BY <1>1, BoundAssumption DEF FullInv, TypeOK
  <2>4. Cardinality(HistoryRows(id)) \in Nat
    BY <1>3, RowsOfHistory
  <2>5. CASE id = task.id
    <3>1. Allowed(id) = crashes /\ Allowed(id)' = crashes + 1
      BY <1>4, <2>1, <2>3, <2>5 DEF Allowed
    <3> QED
      BY <1>5, <2>2, <2>3, <2>4, <2>5, <3>1
  <2>6. CASE id # task.id
    <3>1. Allowed(id)' = Allowed(id)
      BY <2>1, <2>3, <2>6 DEF Allowed
    <3> QED
      BY <1>5, <2>2, <2>6, <3>1
  <2> QED
    BY <2>5, <2>6
<1>10. Distinct(active)' /\ HeldInv'
  BY <1>1 DEF FullInv, TurnInv, Distinct, HeldInv, Current
<1>11. (IdsOf(active) \cup IdsOf(history) \subseteq registered)'
  <2>1. IdsOf(active') = IdsOf(active) /\ registered' = registered
    BY <1>1
  <2> QED
    BY <1>4, <1>5, <2>1 DEF FullInv, TurnInv
<1> QED
  BY <1>8, <1>9, <1>10, <1>11 DEF TurnInv

\* A process that dies pays for one row.
LEMMA CrashTurn ==
  ASSUME FullInv, NEW a \in Agents, Crash(a)
  PROVE  TurnInv'
<1>1. /\ Running(a) /\ job' = [job EXCEPT ![a] = Idle]
      /\ active' = active /\ history' = history /\ now' = now
      /\ crashes' = crashes + 1 /\ registered' = registered /\ held' = held
  BY DEF Crash, End, files
<1>2. \A b \in Agents : Plans(b, job[b])'
  <2>1. job'[a] = Idle /\ \A b \in Agents \ {a} : job'[b] = job[b]
    BY <1>1 DEF FullInv, TypeOK
  <2>2. Plans(a, job[a])'
    BY <2>1 DEF Plans, Idle, Late
  <2>3. ASSUME NEW b \in Agents \ {a}
        PROVE  Plans(b, job[b])'
    <3>1. Plans(b, job'[b])
      BY <2>1 DEF FullInv, TurnInv
    <3>2. \A q : Plans(b, q) => Plans(b, q)'
      BY <1>1, PlansStay
    <3> QED
      BY <3>1, <3>2
  <2> QED
    BY <2>2, <2>3
<1>3. RowsInv'
  <2> SUFFICES ASSUME NEW id \in Ids
               PROVE  Cardinality(HistoryRows(id)') <= Allowed(id)'
    BY DEF RowsInv
  <2>1. Cardinality(HistoryRows(id)) <= Allowed(id)
    BY DEF FullInv, TurnInv, RowsInv
  <2>2. HistoryRows(id)' = HistoryRows(id) /\ Cardinality(HistoryRows(id)) \in Nat
    BY <1>1, RowsOfHistory DEF HistoryRows, FullInv, TypeOK
  <2>3. crashes \in Nat /\ Allowed(id) \in {crashes, crashes + 1}
    BY AllowedBounds DEF FullInv
  <2>4. Allowed(id)' \in {crashes + 1, crashes + 2}
    BY <1>1, <2>3 DEF Allowed
  <2> QED
    BY <2>1, <2>2, <2>3, <2>4
<1>4. Distinct(active)' /\ (IdsOf(active) \cup IdsOf(history) \subseteq registered)' /\ HeldInv'
  BY <1>1 DEF FullInv, TurnInv, Distinct, IdsOf, HeldInv, Current
<1> QED
  BY <1>2, <1>3, <1>4 DEF TurnInv

\* Time passes: what was takable stays so, and fewer claims are inside their window.
LEMMA TickTurn ==
  ASSUME FullInv, Tick
  PROVE  TurnInv'
<1>1. /\ active' = active /\ history' = history /\ job' = job
      /\ crashes' = crashes /\ registered' = registered /\ held' = held
      /\ now \in Nat /\ now' = now + 1
  BY DEF Tick, files, FullInv, TypeOK
<1>2. \A date \in Date : Current(date)' => Current(date)
  BY ClaimsAge DEF FullInv
<1>3. ASSUME NEW k \in DOMAIN active
      PROVE  active[k].claimedAt \in Date
  <2>1. active[k] \in Task
    BY DEF FullInv, TypeOK
  <2> QED
    BY <2>1 DEF Task
<1>4. \A a : \A k \in DOMAIN active : Takable(a, active[k]) => Takable(a, active[k])'
  BY <1>1, <1>2, <1>3 DEF Takable, ClaimIsLive
<1>5. 0 .. now \subseteq 0 .. now'
  BY <1>1
<1>6. ASSUME NEW a \in Agents, NEW j, Plans(a, j)
      PROVE  Plans(a, j)'
  <2>1. Adds(j) => Adds(j)'
    BY <1>1, <1>5 DEF Adds
  <2>2. Removes(j) => Removes(j)'
    BY <1>1 DEF Removes
  <2>3. ASSUME Merges(a, j) PROVE Merges(a, j)'
    <3>1. PICK k \in DOMAIN active : /\ active[k].id = j.task.id
                                     /\ Merged(a, j.op, active[k], j.task)
                                     /\ j.rest = [active EXCEPT ![k] = j.task]
      BY <2>3 DEF Merges
    <3>2. PICK row : row = active[k] /\ active'[k] = row
      BY <1>1
    <3>3. Takable(a, row) => Takable(a, row)'
      BY <1>4, <3>2
    <3>4. Merged(a, j.op, row, j.task)'
      BY <1>5, <3>1, <3>2, <3>3 DEF Merged
    <3> QED
      BY <1>1, <2>3, <3>1, <3>2, <3>4 DEF Merges
  <2>4. ASSUME j.step = "claim"
        PROVE  /\ j.task.owner = a /\ j.task.claimedAt \in 0 .. now'
               /\ \A k \in DOMAIN active' : active'[k].id = j.task.id => Takable(a, active[k])'
    <3>1. /\ j.task.owner = a /\ j.task.claimedAt \in 0 .. now
          /\ \A k \in DOMAIN active : active[k].id = j.task.id => Takable(a, active[k])
      BY <1>6, <2>4 DEF Plans
    <3> QED
      BY <1>1, <1>4, <1>5, <3>1
  <2> QED
    BY <1>6, <2>1, <2>2, <2>3, <2>4 DEF Plans
<1>7. \A h \in held : Current(h.since)' => Current(h.since)
  BY <1>2 DEF FullInv, TypeOK
<1>8. HeldInv'
  BY <1>1, <1>7 DEF FullInv, TurnInv, HeldInv
<1>9. \A id : Leaving(id)' <=> Leaving(id)
  BY <1>1 DEF Leaving
<1>10. RowsInv'
  BY <1>1, <1>9 DEF FullInv, TurnInv, RowsInv, Allowed, HistoryRows, IdsOf
<1>11. Distinct(active)' /\ (IdsOf(active) \cup IdsOf(history) \subseteq registered)'
  BY <1>1 DEF FullInv, TurnInv, Distinct, IdsOf
<1>12. \A a \in Agents : Plans(a, job[a])'
  BY <1>1, <1>6 DEF FullInv, TurnInv
<1> QED
  BY <1>8, <1>10, <1>11, <1>12 DEF TurnInv

\* What the last rename does to the rows of active.json: one is added, replaced or
\* removed, and every other one is found as before.
LEMMA RenameEffect ==
  ASSUME FullInv, NEW a \in Agents, WriteActive(a), NEW j, j = job[a]
  PROVE  /\ j.task \in Task /\ Distinct(active')
         /\ \A id \in IdsOf(active) \ {j.task.id} : Find(active', id) = Find(active, id)
         /\ \/ /\ Adds(j)
               /\ IdsOf(active') = IdsOf(active) \cup {j.task.id}
               /\ Find(active', j.task.id) = j.task
            \/ /\ j.task.id \in IdsOf(active)
               /\ Merged(a, j.op, Find(active, j.task.id), j.task)
               /\ IdsOf(active') = IdsOf(active)
               /\ Find(active', j.task.id) = j.task
            \/ /\ Removes(j)
               /\ j.task.id \in IdsOf(active)
               /\ IdsOf(active') = IdsOf(active) \ {j.task.id}
<1>1. /\ j.step = "writeActive" /\ active' = j.rest
      /\ active \in Seq(Task) /\ Distinct(active) /\ IdsOf(active) \subseteq registered
      /\ j.task \in Task
  BY DEF WriteActive, Running, FullInv, TypeOK, TurnInv
<1>2. Adds(j) \/ Merges(a, j) \/ Removes(j)
  BY <1>1 DEF FullInv, TurnInv, Plans, Late
<1>3. CASE Adds(j)
  <2>1. j.task.id \notin IdsOf(active) /\ active' = Append(active, j.task)
    BY <1>1, <1>3 DEF Adds
  <2> QED
    BY <1>1, <1>3, <2>1, AppendIsDistinct, AppendKeeps
<1>4. CASE Merges(a, j)
  <2>1. PICK k \in DOMAIN active : /\ active[k].id = j.task.id
                                   /\ Merged(a, j.op, active[k], j.task)
                                   /\ active' = [active EXCEPT ![k] = j.task]
    BY <1>1, <1>4 DEF Merges
  <2>2. Find(active, j.task.id) = active[k] /\ j.task.id \in IdsOf(active)
    BY <1>1, <2>1, FindIsUnique DEF IdsOf
  <2> DEFINE new == [active EXCEPT ![k] = j.task]
  <2>3. /\ Distinct(new) /\ Find(new, j.task.id) = j.task
        /\ \A id \in IdsOf(active) \ {j.task.id} : Find(new, id) = Find(active, id)
    BY <1>1, <2>1, ReplaceIsDistinct
  <2>4. IdsOf(new) = IdsOf(active)
    <3>1. k \in 1 .. Len(active)
      BY <1>1
    <3> QED
      BY <1>1, <2>1, <3>1, ReplaceKeeps
  <2>5. active' = new
    BY <2>1
  <2> HIDE DEF new
  <2> QED
    BY <1>1, <2>1, <2>2, <2>3, <2>4, <2>5
<1>5. CASE Removes(j)
  <2>1. PICK k \in DOMAIN active : active[k].id = j.task.id /\ active' = Without(active, k)
    BY <1>1, <1>5 DEF Removes
  <2>2. j.task.id \in IdsOf(active)
    BY <2>1 DEF IdsOf
  <2> QED
    BY <1>1, <1>5, <2>1, <2>2, WithoutIsDistinct
<1> QED
  BY <1>2, <1>3, <1>4, <1>5

\* After the last rename: a row that was replaced is of no closing task, one that was
\* added has no history.
LEMMA RenameRows ==
  ASSUME FullInv, NEW a \in Agents, WriteActive(a)
  PROVE  RowsInv'
<1>0. PICK j : j = job[a]
  OBVIOUS
<1>1. /\ history' = history /\ crashes' = crashes /\ Running(a) /\ job' = [job EXCEPT ![a] = Idle]
      /\ j.step = "writeActive"
  BY <1>0 DEF WriteActive, End, Running
<1>2. job'[a] = Idle /\ \A b \in Agents \ {a} : job[b].step # "writeActive" /\ job'[b] = job[b]
  BY <1>0, <1>1, OnlyOnePlans DEF Late
<1> SUFFICES ASSUME NEW id \in Ids
             PROVE  Cardinality(HistoryRows(id)') <= Allowed(id)'
  BY DEF RowsInv
<1>3. ~Leaving(id)' /\ (Leaving(id) => j.op = "close" /\ j.task.id = id)
  BY <1>0, <1>1, <1>2 DEF Leaving, Idle
<1>4. /\ HistoryRows(id)' = HistoryRows(id)
      /\ Cardinality(HistoryRows(id)) \in Nat
      /\ id \notin IdsOf(history) => Cardinality(HistoryRows(id)) = 0
  BY <1>1, RowsOfHistory DEF HistoryRows, FullInv, TypeOK
<1>5. /\ crashes \in Nat /\ Cardinality(HistoryRows(id)) <= Allowed(id)
      /\ Allowed(id) \in {crashes, crashes + 1}
      /\ Allowed(id)' = crashes + (IF id \in IdsOf(active') THEN 0 ELSE 1)
  BY <1>1, <1>3, AllowedBounds DEF FullInv, TurnInv, RowsInv, Allowed
<1>6. CASE id \notin IdsOf(active')
  BY <1>4, <1>5, <1>6
<1>7. CASE id \in IdsOf(active') /\ id \notin IdsOf(active)
  <2>1. Adds(j) /\ j.task.id = id
    BY <1>0, <1>7, RenameEffect
  <2>2. id \notin IdsOf(history)
    BY <2>1 DEF Adds, FullInv, TurnInv
  <2> QED
    BY <1>4, <1>5, <2>2
<1>8. CASE id \in IdsOf(active') /\ id \in IdsOf(active)
  <2>1. ~Leaving(id)
    <3>1. ASSUME j.op = "close", j.task.id = id PROVE FALSE
      BY <1>0, <1>8, <3>1, RenameEffect DEF Adds, Merged
    <3> QED
      BY <1>3, <3>1
  <2>2. Allowed(id) = crashes
    BY <1>5, <1>8, <2>1 DEF Allowed
  <2> QED
    BY <1>4, <1>5, <2>2
<1> QED
  BY <1>6, <1>7, <1>8

\* After the last rename: the caller of add or claim holds what its row says, and nobody
\* else's live claim was overwritten.
LEMMA RenameHeld ==
  ASSUME FullInv, NEW a \in Agents, WriteActive(a)
  PROVE  HeldInv'
<1>0. PICK j : j = job[a]
  OBVIOUS
<1>1. /\ now' = now /\ held' = Reported(j.task, j.op)
      /\ registered' = IF j.op = "add" THEN registered \cup {j.task.id} ELSE registered
      /\ \A h \in held : h.id \in registered /\ h.by \in Agents /\ h.by # NoOwner
      /\ IdsOf(active) \subseteq registered
  BY <1>0, SentinelAssumption DEF WriteActive, FullInv, TypeOK, TurnInv, HeldInv
<1>2. \A date : Current(date)' <=> Current(date)
  BY <1>1 DEF Current
<1>3. DEFINE Fits(h) == Current(h.since) /\ h.id \in IdsOf(active') =>
                          Find(active', h.id).owner = h.by /\ Find(active', h.id).claimedAt = h.since
<1>4. ASSUME NEW h \in held, h.id # j.task.id
      PROVE  Fits(h)
  <2>1. h.id \in IdsOf(active') => h.id \in IdsOf(active)
    BY <1>0, <1>4, RenameEffect
  <2>2. h.id \in IdsOf(active) => Find(active', h.id) = Find(active, h.id)
    BY <1>0, <1>4, RenameEffect
  <2> QED
    BY <2>1, <2>2 DEF FullInv, TurnInv, HeldInv
<1>5. ASSUME NEW h \in held', h.id = j.task.id
      PROVE  Fits(h) /\ h.id \in registered'
  <2>1. CASE Adds(j)
    <3>1. h \notin held /\ j.op = "add"
      BY <1>1, <1>5, <2>1 DEF Adds
    <3>2. h = [id |-> j.task.id, by |-> j.task.owner, since |-> j.task.claimedAt]
      BY <1>1, <3>1 DEF Reported
    <3>3. Find(active', j.task.id) = j.task
      BY <1>0, <3>1, RenameEffect DEF Merged, Removes
    <3> QED
      BY <1>1, <3>1, <3>2, <3>3
  <2>2. CASE j.task.id \in IdsOf(active) /\ Merged(a, j.op, Find(active, j.task.id), j.task)
    <3>1. Find(active', j.task.id) = j.task
      BY <1>0, <2>2, RenameEffect DEF Merged, Removes
    <3>2. h.id \in registered'
      BY <1>1, <1>5, <2>2
    <3>3. CASE j.op = "update"
      <4>1. h \in held
        BY <1>1, <3>3 DEF Reported
      <4>2. /\ j.task.owner = Find(active, j.task.id).owner
            /\ j.task.claimedAt = Find(active, j.task.id).claimedAt
        <5>1. Find(active, j.task.id) \in Task
          BY <2>2, FoundRow DEF Find, FullInv
        <5> QED
          BY <2>2, <3>3, <5>1 DEF Merged, Task
      <4> QED
        BY <1>5, <2>2, <3>1, <3>2, <4>1, <4>2 DEF FullInv, TurnInv, HeldInv
    <3>4. CASE j.op = "release"
      BY <1>1, <1>5, <3>4 DEF Reported
    <3>5. CASE j.op = "claim"
      <4>1. PICK date \in 0 .. now : j.task = OwnedBy(Find(active, j.task.id), a, date)
        BY <2>2, <3>5 DEF Merged
      <4>2. Takable(a, Find(active, j.task.id)) /\ j.task.owner = a
        BY <2>2, <3>5, <4>1 DEF Merged, OwnedBy
      <4>3. CASE h \in held /\ h.by # a
        <5>1. Current(h.since) => /\ Find(active, h.id).owner = h.by
                                  /\ Find(active, h.id).claimedAt = h.since
          BY <1>5, <2>2, <4>3 DEF FullInv, TurnInv, HeldInv
        <5>2. ~Current(h.since)
          BY <1>1, <1>5, <4>2, <4>3, <5>1 DEF Takable, ClaimIsLive
        <5> QED
          BY <3>2, <5>2
      <4>4. CASE h = [id |-> j.task.id, by |-> j.task.owner, since |-> j.task.claimedAt]
        BY <3>1, <3>2, <4>4
      <4>5. \/ h \in held /\ h.by # a
            \/ h = [id |-> j.task.id, by |-> j.task.owner, since |-> j.task.claimedAt]
        BY <1>1, <1>5, <3>5, <4>2, SentinelAssumption DEF Reported
      <4> QED
        BY <4>3, <4>4, <4>5
    <3> QED
      BY <2>2, <3>3, <3>4, <3>5 DEF Merged
  <2>3. CASE Removes(j)
    BY <1>1, <1>5, <2>3 DEF Removes, Reported
  <2> QED
    BY <1>0, <2>1, <2>2, <2>3, RenameEffect
<1>6. ASSUME NEW h \in held', h.id # j.task.id
      PROVE  h \in held
  BY <1>1, <1>6 DEF Reported
<1> QED
  BY <1>1, <1>2, <1>4, <1>5, <1>6 DEF HeldInv

\* The last rename.
LEMMA WriteActiveTurn ==
  ASSUME FullInv, NEW a \in Agents, WriteActive(a)
  PROVE  TurnInv'
<1>0. PICK j : j = job[a]
  OBVIOUS
<1>1. /\ history' = history /\ job[a].step \in Late /\ job' = [job EXCEPT ![a] = Idle]
      /\ registered' = IF j.op = "add" THEN registered \cup {j.task.id} ELSE registered
  BY <1>0 DEF WriteActive, End, Late
<1>2. Distinct(active)'
  BY <1>0, RenameEffect
<1>3. IdsOf(active') \cup IdsOf(history') \subseteq registered'
  <2>1. IdsOf(active) \cup IdsOf(history) \subseteq registered
    BY DEF FullInv, TurnInv
  <2>2. IdsOf(active') \subseteq IdsOf(active) \cup (IF j.op = "add" THEN {j.task.id} ELSE {})
    BY <1>0, RenameEffect DEF Adds
  <2> QED
    BY <1>1, <2>1, <2>2
<1>4. \A b \in Agents : Plans(b, job[b])'
  <2>1. job'[a] = Idle /\ \A b \in Agents \ {a} : Plans(b, job[b])'
    BY <1>1, OnlyOnePlans
  <2>2. Plans(a, job[a])'
    BY <2>1 DEF Plans, Idle, Late
  <2> QED
    BY <2>1, <2>2
<1> QED
  BY <1>2, <1>3, <1>4, RenameRows, RenameHeld DEF TurnInv

\* A command that is inside alone holds the only copy of either file.
LEMMA InsideIsOneCopy == OneInside => OneCopy /\ OneLog
BY DEF OneInside, OneCopy, OneLog, Inside, Late

\* Every step that leaves at most one command inside keeps the invariant, when ids are
\* fresh.
LEMMA TurnStep ==
  ~ReuseIds /\ FullInv /\ OneInside' /\ [Next]_vars => FullInv'
<1> SUFFICES ASSUME ~ReuseIds, FullInv, OneInside', [Next]_vars
             PROVE  FullInv'
  OBVIOUS
<1>1. TypeOK' /\ CopiesInv' /\ LogInv'
  BY NextTypes, CopiesStep, LogStep, InsideIsOneCopy DEF FullInv
<1>2. ASSUME NEW a \in Agents, Command(a)
      PROVE  TurnInv'
  <2>1. ASSUME NEW id \in Ids, NEW owner \in {a, NoOwner}, Add(a, id, owner)
        PROVE  TurnInv'
    BY <2>1, AddTurn
  <2>2. ASSUME NEW id \in Ids, Block(a, id) \/ Unblock(a, id) \/ PromoteToForge(a, id)
        PROVE  TurnInv'
    BY <2>2, StatusTurn
  <2>3. ASSUME NEW id \in Ids, Release(a, id) \/ ClaimCheck(a, id)
        PROVE  TurnInv'
    BY <2>3, ReleaseTurn, ClaimCheckTurn
  <2>4. ASSUME NEW id \in Ids, NEW status \in TerminalStatus, Close(a, id, status)
        PROVE  TurnInv'
    BY <2>4, CloseTurn
  <2>5. CASE ClaimRead(a) \/ CloseRead(a) \/ ReadHistory(a)
    BY <2>5, ClaimReadTurn, CloseReadTurn, ReadHistoryTurn
  <2>6. CASE WriteHistory(a) \/ WriteActive(a) \/ Crash(a)
    BY <2>6, WriteHistoryTurn, WriteActiveTurn, CrashTurn
  <2> QED
    BY <1>2, <2>1, <2>2, <2>3, <2>4, <2>5, <2>6 DEF Command
<1>3. ASSUME Tick
      PROVE  TurnInv'
  BY <1>3, TickTurn
<1>4. ASSUME UNCHANGED vars
      PROVE  TurnInv'
  <2>1. /\ active' = active /\ history' = history /\ job' = job /\ now' = now
        /\ crashes' = crashes /\ registered' = registered /\ held' = held
    BY <1>4 DEF vars, files
  <2>2. \A b \in Agents : Plans(b, job[b])'
    BY <2>1, PlansStay DEF FullInv, TurnInv
  <2>3. RowsInv'
    BY <2>1 DEF FullInv, TurnInv, RowsInv, Allowed, HistoryRows, IdsOf, Leaving
  <2>4. Distinct(active)' /\ (IdsOf(active) \cup IdsOf(history) \subseteq registered)' /\ HeldInv'
    BY <2>1 DEF FullInv, TurnInv, Distinct, IdsOf, HeldInv, Current
  <2> QED
    BY <2>2, <2>3, <2>4 DEF TurnInv
<1>5. ASSUME Next
      PROVE  TurnInv'
  BY <1>2, <1>3, <1>5 DEF Next
<1> QED
  BY <1>1, <1>4, <1>5 DEF FullInv

\* The inductive invariant holds at first.
LEMMA InitFull == Init => FullInv
<1>1. Init => OneInside /\ LogInv
  BY DEF Init, OneInside, LogInv, Inside, Late, Idle
<1> QED
  BY <1>1, InitTypes, InitCopies, InitTurn DEF FullInv

\* With fresh ids, and one command inside at a time, FullInv always holds.
LEMMA TurnInvariant ==
  ASSUME ~ReuseIds
  PROVE  LockedSpec => []FullInv
<1>1. FullInv /\ OneInside' /\ [Next]_vars => FullInv'
  BY TurnStep
<1> QED
  BY InitFull, <1>1, PTL DEF LockedSpec, Spec

-----------------------------------------------------------------------------
(* What it says of closes and claims.                                         *)

\* However often a close of a task dies between its two renames and is run again, its
\* rows in history.json are one more than the processes that died.
THEOREM RowsArePaidFor ==
  ASSUME ~ReuseIds
  PROVE  LockedSpec => []DuplicatesNeedCrashes
<1>1. FullInv => DuplicatesNeedCrashes
  <2> SUFFICES ASSUME FullInv, NEW id \in Ids
               PROVE  Cardinality(HistoryRows(id)) <= 1 + crashes
    BY DEF DuplicatesNeedCrashes
  <2>1. Cardinality(HistoryRows(id)) <= Allowed(id) /\ Allowed(id) \in {crashes, crashes + 1}
    BY AllowedBounds DEF FullInv, TurnInv, RowsInv
  <2>2. crashes \in Nat /\ Cardinality(HistoryRows(id)) \in Nat
    BY AllowedBounds, RowsOfHistory DEF FullInv, TypeOK
  <2> QED
    BY <2>1, <2>2
<1> QED
  BY TurnInvariant, <1>1, PTL

\* A task is in both files only between the two renames of a close, or after a
\* process died there.
THEOREM CloseMoves ==
  ASSUME ~ReuseIds
  PROVE  LockedSpec => []MovedNotCopied
<1>1. FullInv => MovedNotCopied
  <2> SUFFICES ASSUME FullInv, NEW id \in IdsOf(active) \cap IdsOf(history), ~Leaving(id)
               PROVE  crashes > 0
    BY DEF MovedNotCopied, Leaving
  <2>1. /\ Cardinality(HistoryRows(id)) \in Nat
        /\ Cardinality(HistoryRows(id)) # 0
    BY RowsOfHistory DEF FullInv, TypeOK
  <2>2. id \in Ids
    BY DEF FullInv, TurnInv, TypeOK
  <2>3. Cardinality(HistoryRows(id)) <= crashes
    <3>1. Cardinality(HistoryRows(id)) <= Allowed(id)
      BY <2>2 DEF FullInv, TurnInv, RowsInv
    <3> QED
      BY <3>1, AllowedBounds DEF Allowed, FullInv
  <2> QED
    BY <2>1, <2>3, AllowedBounds DEF FullInv
<1> QED
  BY TurnInvariant, <1>1, PTL

\* A claim that a caller was told of is what the task's row says as long as it is inside
\* its window, whoever ran which command since.
THEOREM HoldersOwn ==
  ASSUME ~ReuseIds
  PROVE  LockedSpec => []HolderIsOwner
<1>1. FullInv => HolderIsOwner
  BY DEF FullInv, TurnInv, HeldInv, HolderIsOwner
<1> QED
  BY TurnInvariant, <1>1, PTL

-----------------------------------------------------------------------------
(* The store implements the registry.                                         *)

\* The last of the rows of a task, when it has one.
LEMMA LastRowFound ==
  ASSUME history \in Seq(Task), NEW id \in IdsOf(history)
  PROVE  LastRow(id) \in HistoryRows(id) /\ \A i \in HistoryRows(id) : i <= LastRow(id)
<1> DEFINE Below == {Len(history) - i : i \in HistoryRows(id)}
<1>1. HistoryRows(id) \subseteq 1 .. Len(history) /\ HistoryRows(id) # {}
  BY DEF HistoryRows, IdsOf
<1>2. Below \in SUBSET Nat /\ Below # {}
  BY <1>1
<1>3. PICK least \in Below : \A n \in Below : least <= n
  BY <1>2, LeastNatural
<1>4. PICK last \in HistoryRows(id) : least = Len(history) - last
  BY <1>3
<1>5. \A i \in HistoryRows(id) : i <= last
  <2> SUFFICES ASSUME NEW i \in HistoryRows(id)
               PROVE  i <= last
    OBVIOUS
  <2>1. least <= Len(history) - i
    BY <1>3
  <2>2. i \in Nat /\ last \in Nat /\ Len(history) \in Nat
    BY <1>1
  <2> QED
    BY <1>4, <2>1, <2>2
<1> QED
  BY <1>4, <1>5 DEF LastRow

\* The registry sees the two files and nothing else of the store.
LEMMA MappingStays ==
  ASSUME UNCHANGED <<active, history>>
  PROVE  OpenTasks' = OpenTasks /\ ClosedTasks' = ClosedTasks
<1>1. \A id : HistoryRows(id)' = HistoryRows(id)
  BY DEF HistoryRows
<1>2. \A id : LastRow(id)' = LastRow(id)
  BY <1>1 DEF LastRow
<1> QED
  BY <1>2 DEF OpenTasks, ClosedTasks

\* A close has not happened as long as active.json has its task.
LEMMA WriteHistoryIsHidden ==
  ASSUME FullInv, NEW a \in Agents, WriteHistory(a)
  PROVE  OpenTasks' = OpenTasks /\ ClosedTasks' = ClosedTasks
<1>0. PICK task : task = job[a].task
  OBVIOUS
<1>1. /\ job[a].step = "writeHistory" /\ active' = active
      /\ history \in Seq(Task) /\ task \in Task /\ history' = Append(history, task)
  BY <1>0 DEF WriteHistory, Running, FullInv, LogInv, TypeOK
<1>2. task.id \in IdsOf(active)
  BY <1>0, <1>1, ClosePlan DEF Removes, IdsOf
<1>3. /\ \A id : id # task.id => HistoryRows(id)' = HistoryRows(id)
      /\ \A i \in DOMAIN history : history'[i] = history[i]
      /\ IdsOf(history') = IdsOf(history) \cup {task.id}
  BY <1>1, RowsAppended
<1>4. IdsOf(history') \ IdsOf(active') = IdsOf(history) \ IdsOf(active)
  BY <1>1, <1>2, <1>3
<1>5. ASSUME NEW id \in IdsOf(history) \ IdsOf(active)
      PROVE  history'[LastRow(id)'] = history[LastRow(id)]
  <2>1. HistoryRows(id)' = HistoryRows(id)
    BY <1>2, <1>3
  <2>2. LastRow(id)' = LastRow(id)
    BY <2>1 DEF LastRow
  <2>3. LastRow(id) \in DOMAIN history
    BY <1>1, LastRowFound DEF HistoryRows
  <2> QED
    BY <1>3, <2>2, <2>3
<1> QED
  BY <1>1, <1>4, <1>5 DEF OpenTasks, ClosedTasks

\* The last rename of add is a registration.
LEMMA AddRegisters ==
  ASSUME FullInv, NEW a \in Agents, WriteActive(a), NEW j, j = job[a], Adds(j),
         IdsOf(active') = IdsOf(active) \cup {j.task.id}
  PROVE  Registry!Register(j.task.id)
<1>1. /\ now' = now /\ history' = history /\ j.op = "add"
      /\ IdsOf(active) \cup IdsOf(history) \subseteq registered
      /\ j.task.id \notin registered
      /\ j.task.status = "open" /\ j.task.claimedAt \in 0 .. now \cup {NoDate}
  BY DEF WriteActive, Adds, FullInv, TurnInv
<1>2. /\ j.task.owner \in Agents \cup {NoOwner}
      /\ \A id \in IdsOf(active) : Find(active', id) = Find(active, id)
      /\ Find(active', j.task.id) = j.task
  <2>1. j.task \in Task
    BY RenameEffect
  <2>2. Find(active', j.task.id) = j.task
    BY <1>1, RenameEffect DEF Merged, Removes
  <2>3. \A id \in IdsOf(active) : Find(active', id) = Find(active, id)
    BY <1>1, RenameEffect
  <2> QED
    BY <2>1, <2>2, <2>3 DEF Task
<1>3. OpenTasks' = Registry!With(OpenTasks, j.task.id,
                                 [status |-> "open", owner |-> j.task.owner,
                                  claimedAt |-> j.task.claimedAt])
  BY <1>1, <1>2 DEF OpenTasks, OpenTask, Registry!With
<1>4. ClosedTasks' = ClosedTasks
  <2>1. \A id : LastRow(id)' = LastRow(id)
    BY <1>1 DEF LastRow, HistoryRows
  <2>2. IdsOf(history') \ IdsOf(active') = IdsOf(history) \ IdsOf(active)
    BY <1>1
  <2> QED
    BY <1>1, <2>1, <2>2 DEF ClosedTasks
<1>5. j.task.id \notin DOMAIN OpenTasks \cup DOMAIN ClosedTasks
  BY <1>1 DEF OpenTasks, ClosedTasks
<1> QED
  BY <1>1, <1>2, <1>3, <1>4, <1>5 DEF Registry!Register

\* What the registry knows of an open task.
Known == [status : ActiveStatus \cup TerminalStatus, owner : Agents \cup {NoOwner}, claimedAt : Date]

\* Two fields of it change, the third one stays.
LEMMA ClaimFields ==
  ASSUME NEW known \in Known, NEW owner \in Agents \cup {NoOwner}, NEW date \in Date
  PROVE  [known EXCEPT !.owner = owner, !.claimedAt = date]
           = [status |-> known.status, owner |-> owner, claimedAt |-> date]
<1> DEFINE new == [known EXCEPT !.owner = owner, !.claimedAt = date]
<1>1. new \in Known
  BY DEF Known
<1>2. new.status = known.status /\ new.owner = owner /\ new.claimedAt = date
  BY DEF Known
<1> HIDE DEF new
<1>3. new = [status |-> new.status, owner |-> new.owner, claimedAt |-> new.claimedAt]
  BY <1>1 DEF Known
<1> QED
  BY <1>2, <1>3 DEF new

\* The last rename of block, unblock, promoteToForge, claim or release.
LEMMA UpdateIsRegistered ==
  ASSUME FullInv, NEW a \in Agents, WriteActive(a), NEW j, j = job[a],
         j.task.id \in IdsOf(active), Merged(a, j.op, Find(active, j.task.id), j.task),
         IdsOf(active') = IdsOf(active), Find(active', j.task.id) = j.task
  PROVE  \/ Registry!SetStatus(j.task.id)
         \/ Registry!Claim(j.task.id)
         \/ Registry!Release(j.task.id)
<1>0. PICK id, row : id = j.task.id /\ row = Find(active, id)
  OBVIOUS
<1>1. /\ now' = now /\ history' = history
      /\ id \in DOMAIN OpenTasks /\ OpenTasks[id] = OpenTask(row)
      /\ row \in Task
  BY <1>0, FoundRow DEF WriteActive, OpenTasks, FullInv, Find
<1>2. OpenTasks' = [OpenTasks EXCEPT ![id] = OpenTask(j.task)]
  <2>1. \A i \in IdsOf(active) \ {id} : Find(active', i) = Find(active, i)
    BY <1>0, RenameEffect
  <2> QED
    BY <1>0, <2>1 DEF OpenTasks
<1>3. ClosedTasks' = ClosedTasks
  <2>1. \A i : LastRow(i)' = LastRow(i)
    BY <1>1 DEF LastRow, HistoryRows
  <2> QED
    BY <1>1, <2>1 DEF ClosedTasks
<1>4. CASE j.op = "update"
  <2>1. PICK status \in ActiveStatus : j.task = [row EXCEPT !.status = status]
    BY <1>0, <1>4 DEF Merged
  <2>2. OpenTask(j.task) = [OpenTasks[id] EXCEPT !.status = status]
    BY <1>1, <2>1 DEF OpenTask, Task
  <2>3. OpenTasks' = [OpenTasks EXCEPT ![id].status = status]
    BY <1>2, <2>2
  <2> QED
    BY <1>0, <1>1, <1>3, <2>3 DEF Registry!SetStatus, ActiveStatus
<1>5. CASE j.op = "release"
  <2>1. j.task = OwnedBy(row, NoOwner, NoDate)
    BY <1>0, <1>5 DEF Merged
  <2>2. OpenTask(j.task) = [OpenTasks[id] EXCEPT !.owner = NoOwner, !.claimedAt = NoDate]
    <3>1. OpenTask(j.task) = [status |-> row.status, owner |-> NoOwner, claimedAt |-> NoDate]
      BY <2>1 DEF OpenTask, OwnedBy
    <3>2. OpenTasks[id] \in Known /\ OpenTasks[id].status = row.status
      BY <1>1 DEF OpenTask, Task, Known
    <3>3. [OpenTasks[id] EXCEPT !.owner = NoOwner, !.claimedAt = NoDate]
            = [status |-> OpenTasks[id].status, owner |-> NoOwner, claimedAt |-> NoDate]
      BY <3>2, FieldTypes, ClaimFields
    <3> QED
      BY <3>1, <3>2, <3>3
  <2>3. OpenTasks' = [OpenTasks EXCEPT ![id].owner = NoOwner, ![id].claimedAt = NoDate]
    BY <1>1, <1>2, <2>2
  <2> QED
    BY <1>0, <1>1, <1>3, <2>3 DEF Registry!Release
<1>6. CASE j.op = "claim"
  <2>0. now \in 0 .. MaxNow
    BY DEF FullInv, TypeOK
  <2>1. PICK date \in 0 .. now : j.task = OwnedBy(row, a, date)
    BY <1>0, <1>6 DEF Merged
  <2>2. Takable(a, row)
    BY <1>0, <1>6 DEF Merged
  <2>3. OpenTask(j.task) = [OpenTasks[id] EXCEPT !.owner = a, !.claimedAt = date]
    <3>1. OpenTask(j.task) = [status |-> row.status, owner |-> a, claimedAt |-> date]
      BY <2>1 DEF OpenTask, OwnedBy
    <3>2. OpenTasks[id] \in Known /\ OpenTasks[id].status = row.status
      BY <1>1 DEF OpenTask, Task, Known
    <3>3. date \in Date /\ a \in Agents \cup {NoOwner}
      BY <2>0, ClockAssumption DEF Date
    <3>4. [OpenTasks[id] EXCEPT !.owner = a, !.claimedAt = date]
            = [status |-> OpenTasks[id].status, owner |-> a, claimedAt |-> date]
      BY <3>2, <3>3, ClaimFields
    <3> QED
      BY <3>1, <3>2, <3>4
  <2>4. OpenTasks' = [OpenTasks EXCEPT ![id].owner = a, ![id].claimedAt = date]
    BY <1>1, <1>2, <2>3
  <2>5. ~Registry!LiveFor(OpenTasks[id], a)
    BY <1>1, <2>2 DEF Takable, ClaimIsLive, Current, Registry!LiveFor, Registry!Current, OpenTask
  <2> QED
    BY <1>0, <1>1, <1>3, <2>4, <2>5 DEF Registry!Claim
<1> QED
  BY <1>4, <1>5, <1>6 DEF Merged

\* The last rename of a close: the verdict is the one in the last row of history.json.
LEMMA RemoveCloses ==
  ASSUME FullInv, NEW a \in Agents, WriteActive(a), NEW j, j = job[a], Removes(j),
         j.task.id \in IdsOf(active), IdsOf(active') = IdsOf(active) \ {j.task.id}
  PROVE  Registry!Close(j.task.id)
<1>0. PICK id : id = j.task.id
  OBVIOUS
<1>1. /\ now' = now /\ history' = history /\ history \in Seq(Task)
      /\ Len(history) > 0 /\ history[Len(history)] = j.task
      /\ j.task.status \in {"done", "abandoned"}
  BY DEF WriteActive, Removes, FullInv, TypeOK, TerminalStatus
<1>2. Len(history) \in HistoryRows(id)
  BY <1>0, <1>1 DEF HistoryRows
<1>3. LastRow(id) = Len(history) /\ id \in IdsOf(history)
  <2>1. id \in IdsOf(history)
    BY <1>2 DEF HistoryRows, IdsOf
  <2>2. LastRow(id) \in 1 .. Len(history) /\ Len(history) <= LastRow(id)
    BY <1>1, <1>2, <2>1, LastRowFound DEF HistoryRows
  <2> QED
    BY <1>1, <2>1, <2>2
<1>4. OpenTasks' = Registry!Drop(OpenTasks, id)
  <2>1. \A i \in IdsOf(active) \ {id} : Find(active', i) = Find(active, i)
    BY <1>0, RenameEffect
  <2> QED
    BY <1>0, <2>1 DEF OpenTasks, Registry!Drop
<1>5. ClosedTasks' = Registry!With(ClosedTasks, id, j.task.status)
  <2>1. \A i : LastRow(i)' = LastRow(i)
    BY <1>1 DEF LastRow, HistoryRows
  <2>2. IdsOf(history') \ IdsOf(active') = (IdsOf(history) \ IdsOf(active)) \cup {id}
    BY <1>0, <1>1, <1>3
  <2>3. history[LastRow(id)].status = j.task.status
    BY <1>1, <1>3
  <2>4. ClosedTasks' = [i \in (IdsOf(history) \ IdsOf(active)) \cup {id} |-> history[LastRow(i)].status]
    BY <1>1, <2>1, <2>2 DEF ClosedTasks
  <2> QED
    BY <2>3, <2>4 DEF ClosedTasks, Registry!With
<1>6. id \in DOMAIN OpenTasks
  BY <1>0 DEF OpenTasks
<1> QED
  BY <1>0, <1>1, <1>4, <1>5, <1>6 DEF Registry!Close

\* Every step of the store is a step of the registry or invisible to it.
LEMMA RegistryStep ==
  FullInv /\ [Next]_vars => [Registry!Next]_(Registry!vars)
<1> SUFFICES ASSUME FullInv, [Next]_vars
             PROVE  [Registry!Next]_(Registry!vars)
  OBVIOUS
<1>1. ASSUME UNCHANGED <<active, history, now>>
      PROVE  UNCHANGED Registry!vars
  BY <1>1, MappingStays DEF Registry!vars
<1>2. ASSUME NEW a \in Agents, Command(a)
      PROVE  [Registry!Next]_(Registry!vars)
  <2>1. CASE WriteActive(a)
    <3>1. PICK j : j = job[a]
      OBVIOUS
    <3>2. j.task \in Task
      BY <2>1, <3>1, RenameEffect
    <3>3. j.task.id \in Ids
      BY <3>2 DEF Task
    <3>4. \/ Registry!Register(j.task.id) \/ Registry!SetStatus(j.task.id)
          \/ Registry!Claim(j.task.id) \/ Registry!Release(j.task.id) \/ Registry!Close(j.task.id)
      BY <2>1, <3>1, RenameEffect, AddRegisters, UpdateIsRegistered, RemoveCloses
    <3> QED
      BY <3>3, <3>4 DEF Registry!Next
  <2>2. CASE WriteHistory(a)
    <3>1. now' = now
      BY <2>2 DEF WriteHistory
    <3>2. OpenTasks' = OpenTasks /\ ClosedTasks' = ClosedTasks
      BY <2>2, WriteHistoryIsHidden
    <3> QED
      BY <3>1, <3>2 DEF Registry!vars
  <2>3. CASE ~WriteActive(a) /\ ~WriteHistory(a)
    <3>1. UNCHANGED <<active, history, now>>
      BY <1>2, <2>3 DEF Command, Add, Block, Unblock, PromoteToForge, Release, Update, ClaimCheck,
                        ClaimRead, Close, CloseRead, ReadHistory, Crash, files
    <3> QED
      BY <1>1, <3>1
  <2> QED
    BY <2>1, <2>2, <2>3
<1>3. ASSUME Tick
      PROVE  [Registry!Next]_(Registry!vars)
  <2>1. UNCHANGED <<active, history>> /\ now < MaxNow /\ now' = now + 1
    BY <1>3 DEF Tick, files
  <2>2. Registry!Tick
    BY <2>1, MappingStays DEF Registry!Tick
  <2> QED
    BY <2>2 DEF Registry!Next
<1>4. CASE UNCHANGED vars
  BY <1>1, <1>4 DEF vars, files
<1>5. CASE Next
  BY <1>2, <1>3, <1>5 DEF Next
<1> QED
  BY <1>4, <1>5

\* A fresh project is an empty registry, or one with a single claim without a date.
LEMMA RegistryInit == Init => Registry!Init
<1> SUFFICES ASSUME Init PROVE Registry!Init
  OBVIOUS
<1>1. ClosedTasks = [i \in {} |-> "done"] /\ now = 0
  <2>1. IdsOf(history) = {} /\ now = 0
    BY DEF Init, IdsOf
  <2> QED
    BY <2>1 DEF ClosedTasks
<1>2. CASE active = <<>>
  <2>1. IdsOf(active) = {}
    BY <1>2 DEF IdsOf
  <2>2. OpenTasks \in [{} -> {}]
    BY <2>1 DEF OpenTasks
  <2> QED
    BY <1>1, <2>2 DEF Registry!Init
<1>3. ASSUME NEW id \in Ids, NEW a \in Agents, active = <<LegacyTask(id, a)>>
      PROVE  Registry!Init
  <2>1. DOMAIN active = {1} /\ active[1] = LegacyTask(id, a)
    BY <1>3
  <2>2. IdsOf(active) = {id} /\ Distinct(active)
    BY <2>1 DEF IdsOf, LegacyTask, Distinct
  <2>3. Find(active, id) = LegacyTask(id, a)
    BY <2>1, <2>2, InitTypes, FindIsUnique DEF TypeOK, LegacyTask
  <2>4. OpenTasks \in [{id} -> [status : {"open"}, owner : Agents, claimedAt : {NoDate}]]
    BY <2>2, <2>3 DEF OpenTasks, OpenTask, LegacyTask
  <2> QED
    BY <1>1, <2>4 DEF Registry!Init
<1> QED
  BY <1>2, <1>3 DEF Init

\* A lock around each function of the store is enough for it to implement the registry,
\* however processes die: each command takes effect at once, with its last rename, or not
\* at all.
THEOREM StoreIsRegistry ==
  ASSUME ~ReuseIds
  PROVE  LockedSpec => ImplementsRegistry
<1>1. FullInv /\ [Next]_vars => [Registry!Next]_(Registry!vars)
  BY RegistryStep
<1> QED
  BY TurnInvariant, RegistryInit, <1>1, PTL DEF LockedSpec, Spec, ImplementsRegistry, Registry!Spec

\* No step of the registry loses a task or changes a verdict, and none takes a live
\* claim from its owner.
LEMMA RegistryIsFaithful ==
  [Registry!Next]_(Registry!vars) =>
     /\ DOMAIN OpenTasks \cup DOMAIN ClosedTasks \subseteq DOMAIN OpenTasks' \cup DOMAIN ClosedTasks'
     /\ \A id \in DOMAIN ClosedTasks : id \in DOMAIN ClosedTasks' /\ ClosedTasks'[id] = ClosedTasks[id]
<1> SUFFICES ASSUME [Registry!Next]_(Registry!vars)
             PROVE  /\ DOMAIN OpenTasks \cup DOMAIN ClosedTasks
                         \subseteq DOMAIN OpenTasks' \cup DOMAIN ClosedTasks'
                    /\ \A id \in DOMAIN ClosedTasks :
                         id \in DOMAIN ClosedTasks' /\ ClosedTasks'[id] = ClosedTasks[id]
  OBVIOUS
<1>0. DOMAIN OpenTasks \cap DOMAIN ClosedTasks = {}
  BY DEF OpenTasks, ClosedTasks
<1>1. ASSUME NEW id \in Ids, Registry!Register(id)
      PROVE  DOMAIN OpenTasks \subseteq DOMAIN OpenTasks' /\ ClosedTasks' = ClosedTasks
  BY <1>1 DEF Registry!Register, Registry!With
<1>2. ASSUME NEW id \in Ids, Registry!SetStatus(id) \/ Registry!Claim(id) \/ Registry!Release(id)
      PROVE  DOMAIN OpenTasks \subseteq DOMAIN OpenTasks' /\ ClosedTasks' = ClosedTasks
  BY <1>2 DEF Registry!SetStatus, Registry!Claim, Registry!Release
<1>3. ASSUME NEW id \in Ids, Registry!Close(id)
      PROVE  /\ id \notin DOMAIN ClosedTasks
             /\ DOMAIN OpenTasks' = DOMAIN OpenTasks \ {id}
             /\ DOMAIN ClosedTasks' = DOMAIN ClosedTasks \cup {id}
             /\ \A i \in DOMAIN ClosedTasks : ClosedTasks'[i] = ClosedTasks[i]
  BY <1>0, <1>3 DEF Registry!Close, Registry!Drop, Registry!With
<1>4. CASE Registry!Tick \/ UNCHANGED Registry!vars
  BY <1>4 DEF Registry!Tick, Registry!vars
<1> QED
  BY <1>1, <1>2, <1>3, <1>4 DEF Registry!Next

\* No task leaves the two files, and the verdict of one that is closed is final.
THEOREM VerdictsAreFinal ==
  ASSUME ~ReuseIds
  PROVE  LockedSpec => NothingForgotten
<1>1. FullInv /\ [Next]_vars =>
        [/\ DOMAIN OpenTasks \cup DOMAIN ClosedTasks \subseteq DOMAIN OpenTasks' \cup DOMAIN ClosedTasks'
         /\ \A id \in DOMAIN ClosedTasks :
              id \in DOMAIN ClosedTasks' /\ ClosedTasks'[id] = ClosedTasks[id]]_(Registry!vars)
  BY RegistryStep, RegistryIsFaithful
<1> QED
  BY TurnInvariant, <1>1, PTL DEF LockedSpec, Spec, NothingForgotten, Registry!NothingForgotten

\* A live claim leaves its owner only through a release: the registry never lets another
\* agent take it, so neither does the store.
LEMMA RegistryRespectsClaims ==
  [Registry!Next]_(Registry!vars) =>
     \A id \in DOMAIN OpenTasks \cap DOMAIN OpenTasks' : \A a \in Agents :
        OpenTasks[id].owner = a /\ Registry!LiveFor(OpenTasks[id], NoOwner) =>
          OpenTasks'[id].owner \in {a, NoOwner}
<1> SUFFICES ASSUME [Registry!Next]_(Registry!vars),
                    NEW id \in DOMAIN OpenTasks \cap DOMAIN OpenTasks', NEW a \in Agents,
                    OpenTasks[id].owner = a, Registry!LiveFor(OpenTasks[id], NoOwner)
             PROVE  OpenTasks'[id].owner \in {a, NoOwner}
  OBVIOUS
<1>1. ASSUME NEW i \in Ids, Registry!Register(i)
      PROVE  OpenTasks'[id] = OpenTasks[id]
  BY <1>1 DEF Registry!Register, Registry!With
<1>2. ASSUME NEW i \in Ids, Registry!SetStatus(i)
      PROVE  OpenTasks'[id].owner = OpenTasks[id].owner
  <2>1. PICK status : OpenTasks' = [OpenTasks EXCEPT ![i].status = status]
    BY <1>2 DEF Registry!SetStatus
  <2>2. OpenTasks[id] \in [status : {OpenTasks[id].status}, owner : {OpenTasks[id].owner},
                           claimedAt : {OpenTasks[id].claimedAt}]
    BY DEF OpenTasks, OpenTask
  <2> QED
    BY <2>1, <2>2
<1>3. ASSUME NEW i \in Ids, Registry!Claim(i)
      PROVE  OpenTasks'[id].owner \in {a, NoOwner}
  <2>1. PICK b \in Agents, date \in 0 .. now :
       /\ ~Registry!LiveFor(OpenTasks[i], b)
       /\ OpenTasks' = [OpenTasks EXCEPT ![i].owner = b, ![i].claimedAt = date]
    BY <1>3 DEF Registry!Claim
  <2>2. i = id => b = a
    BY <2>1, SentinelAssumption DEF Registry!LiveFor
  <2>3. i # id => OpenTasks'[id] = OpenTasks[id]
    BY <2>1
  <2>4. i = id => OpenTasks'[id].owner = a
    <3>1. OpenTasks[id] \in [status : {OpenTasks[id].status}, owner : {OpenTasks[id].owner},
                             claimedAt : {OpenTasks[id].claimedAt}]
      BY DEF OpenTasks, OpenTask
    <3>2. ASSUME i = id
          PROVE  OpenTasks'[id] = [OpenTasks[id] EXCEPT !.owner = b, !.claimedAt = date]
      BY <2>1, <3>2
    <3> QED
      BY <2>2, <3>1, <3>2
  <2> QED
    BY <2>3, <2>4
<1>4. ASSUME NEW i \in Ids, Registry!Release(i)
      PROVE  OpenTasks'[id].owner \in {a, NoOwner}
  <2>1. OpenTasks' = [OpenTasks EXCEPT ![i].owner = NoOwner, ![i].claimedAt = NoDate]
    BY <1>4 DEF Registry!Release
  <2>2. OpenTasks[id] \in [status : {OpenTasks[id].status}, owner : {OpenTasks[id].owner},
                           claimedAt : {OpenTasks[id].claimedAt}]
    BY DEF OpenTasks, OpenTask
  <2> QED
    BY <2>1, <2>2
<1>5. ASSUME NEW i \in Ids, Registry!Close(i)
      PROVE  OpenTasks'[id] = OpenTasks[id]
  BY <1>5 DEF Registry!Close, Registry!Drop
<1>6. CASE Registry!Tick \/ UNCHANGED Registry!vars
  BY <1>6 DEF Registry!Tick, Registry!vars
<1> QED
  BY <1>1, <1>2, <1>3, <1>4, <1>5, <1>6 DEF Registry!Next

\* Nobody takes a task from an agent whose claim is inside its window, whichever row of it
\* claimTask reads twice and whoever died in between.
THEOREM ClaimsAreRespected ==
  ASSUME ~ReuseIds
  PROVE  LockedSpec => Registry!NoClaimStolen
<1>1. FullInv /\ [Next]_vars =>
        [\A id \in DOMAIN OpenTasks \cap DOMAIN OpenTasks' : \A a \in Agents :
           (OpenTasks[id].owner = a /\ Registry!LiveFor(OpenTasks[id], NoOwner)) =>
             OpenTasks'[id].owner \in {a, NoOwner}]_(Registry!vars)
  BY RegistryStep, RegistryRespectsClaims
<1> QED
  BY TurnInvariant, <1>1, PTL DEF LockedSpec, Spec, Registry!NoClaimStolen

\* Agents that take turns are inside one at a time.
LEMMA TurnsAreLocked == SerialSpec => LockedSpec
<1>1. Init => OneAtATime
  BY DEF Init, OneAtATime, Running, Idle
<1>2. OneAtATime /\ [SerialNext]_vars => OneAtATime'
  BY DEF SerialNext, OneAtATime, Running, vars
<1>3. OneAtATime => OneInside
  BY DEF OneAtATime, OneInside, Inside, Late, Running
<1> QED
  BY <1>1, <1>2, <1>3, SerialNextIsNext, PTL DEF SerialSpec, LockedSpec, Spec

\* So the store is the registry, and all that follows from it, when agents take turns,
\* as the instances that TLC checks do.
THEOREM TurnsAreEnough ==
  ASSUME ~ReuseIds
  PROVE  SerialSpec => /\ ImplementsRegistry /\ NothingForgotten /\ Registry!NoClaimStolen
                       /\ [](DuplicatesNeedCrashes /\ MovedNotCopied /\ HolderIsOwner)
<1>1. LockedSpec => [](DuplicatesNeedCrashes /\ MovedNotCopied /\ HolderIsOwner)
  BY RowsArePaidFor, CloseMoves, HoldersOwn, PTL
<1> QED
  BY <1>1, TurnsAreLocked, StoreIsRegistry, VerdictsAreFinal, ClaimsAreRespected

-----------------------------------------------------------------------------
(* require-task-split: its answer does not depend on when the store renames    *)
(* its files.                                                                  *)

\* While the hook judges, every task it may still call unsplit that had a sub-task
\* when it started has a closed one: its snapshot of active.json had none, so the
\* sub-task was in history.json already, and that file only grows.
SplitInv ==
  /\ TypeOK
  /\ SerialInv
  /\ \A id \in (gate.todo \cup gate.unsplit) \cap gate.split : HasClosedChild(id)
  /\ gate.unsplit \cap gate.split = {}

\* A file that is only appended to keeps the ids it has.
LEMMA ExtensionKeepsIds ==
  ASSUME history \in Seq(Task), history' \in Seq(Task), IsExtension(history, history')
  PROVE  IdsOf(history) \subseteq IdsOf(history')
BY DEF IdsOf, IsExtension

\* A step of the store while the hook waits: history.json grows at most, so a
\* closed sub-task the hook relies on is still there.
LEMMA StoreStep ==
  ASSUME SplitInv, [SerialNext]_vars, UNCHANGED gate
  PROVE  SplitInv'
<1>1. TypeOK' /\ SerialInv' /\ IsExtension(history, history')
  BY NextTypes, SerialNextIsNext, SerialStep DEF SplitInv
<1>2. IdsOf(history) \subseteq IdsOf(history')
  BY <1>1, ExtensionKeepsIds DEF SplitInv, TypeOK
<1>3. \A id : HasClosedChild(id) => HasClosedChild(id)'
  BY <1>2 DEF HasClosedChild, IsChildOf
<1> QED
  BY <1>1, <1>3 DEF SplitInv

\* A step of the hook: the two files stand still, and what it calls unsplit had
\* no sub-task in them.
LEMMA GateStep ==
  ASSUME SplitInv, UNCHANGED vars,
         \/ \E a \in Agents : GateReadActive(a)
         \/ \E id \in Ids : GateReadHistory(id)
         \/ GateDecide
  PROVE  SplitInv'
<1>1. TypeOK' /\ SerialInv'
  BY NextTypes, SerialNextIsNext, SerialStep DEF SplitInv
<1>2. \A id : HasClosedChild(id)' <=> HasClosedChild(id)
  BY DEF HasClosedChild, IsChildOf, IdsOf, vars, files
<1>3. ASSUME NEW a \in Agents, GateReadActive(a)
      PROVE  SplitInv'
  <2>1. /\ gate'.unsplit = {}
        /\ \A id \in gate'.todo : ~IsChildOf(id, active)
        /\ \A id \in gate'.split : IsChildOf(id, active) \/ IsChildOf(id, history)
    BY <1>3 DEF GateReadActive
  <2> QED
    BY <1>1, <1>2, <2>1 DEF SplitInv, HasClosedChild
<1>4. ASSUME NEW id \in Ids, GateReadHistory(id)
      PROVE  SplitInv'
  <2>1. /\ gate'.split = gate.split /\ id \in gate.todo
        /\ gate'.todo \subseteq gate.todo
        /\ gate'.unsplit \subseteq gate.unsplit \cup {i \in {id} : ~HasClosedChild(i)}
    BY <1>4 DEF GateReadHistory
  <2>2. id \in gate.split => HasClosedChild(id)
    BY <2>1 DEF SplitInv
  <2> QED
    BY <1>1, <1>2, <2>1, <2>2 DEF SplitInv
<1>5. CASE GateDecide
  BY <1>1, <1>5 DEF GateDecide, Quiet, SplitInv
<1> QED
  BY <1>3, <1>4, <1>5

\* However task commands and the gate's reads interleave, and wherever a command dies,
\* a task that was split is never denied as unsplit.
THEOREM SplitIsRespected == GateSpec => []SplitStaysSplit
<1>1. GateInit => SplitInv
  BY InitTypes, InitSerial DEF GateInit, SplitInv, Quiet
<1>2. SplitInv /\ [GateNext]_gateVars => SplitInv'
  <2> SUFFICES ASSUME SplitInv, [GateNext]_gateVars PROVE SplitInv'
    OBVIOUS
  <2>1. CASE SerialNext /\ UNCHANGED gate
    BY <2>1, StoreStep
  <2>2. CASE (\E a \in Agents : GateReadActive(a)) \/ (\E id \in Ids : GateReadHistory(id)) \/ GateDecide
    <3>1. UNCHANGED vars
      BY <2>2 DEF GateReadActive, GateReadHistory, GateDecide
    <3> QED
      BY <2>2, <3>1, GateStep
  <2>3. CASE UNCHANGED gateVars
    BY <2>3, StoreStep DEF gateVars
  <2> QED
    BY <2>1, <2>2, <2>3 DEF GateNext
<1>3. SplitInv => SplitStaysSplit
  BY DEF SplitInv, SplitStaysSplit
<1> QED
  BY <1>1, <1>2, <1>3, PTL DEF GateSpec

=============================================================================

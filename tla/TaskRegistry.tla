---------------------------- MODULE TaskRegistry ----------------------------
(* What the task store promises its callers: every command takes effect at    *)
(* once or not at all.  A task is registered, changed while it is open, and    *)
(* closed for good; a closed task keeps the verdict it was closed with.        *)
EXTENDS Integers

CONSTANTS Agents, Ids, NoOwner, NoDate, TTL, MaxNow

VARIABLES
  open,    \* the open tasks: a function from their ids to what is known of them
  closed,  \* the closed ones: a function from their ids to how they were closed
  now

vars == <<open, closed, now>>

Current(date) == date = NoDate \/ (date \in Int /\ now - date < TTL)

LiveFor(task, a) == task.owner \notin {NoOwner, a} /\ Current(task.claimedAt)

With(f, id, value) == [i \in DOMAIN f \cup {id} |-> IF i = id THEN value ELSE f[i]]

Drop(f, id) == [i \in DOMAIN f \ {id} |-> f[i]]

Init ==
  /\ open \in [{} -> {}] \cup
       UNION {[{id} -> [status : {"open"}, owner : Agents, claimedAt : {NoDate}]] : id \in Ids}
  /\ closed = [i \in {} |-> "done"]
  /\ now = 0

\* A new id is registered, free or already claimed by whoever registered it.
Register(id) ==
  /\ id \notin DOMAIN open \cup DOMAIN closed
  /\ \E owner \in Agents \cup {NoOwner}, date \in 0 .. now \cup {NoDate} :
       open' = With(open, id, [status |-> "open", owner |-> owner, claimedAt |-> date])
  /\ UNCHANGED <<closed, now>>

\* Blocked, unblocked or promoted: the claim stands.
SetStatus(id) ==
  /\ id \in DOMAIN open
  /\ \E status \in {"open", "blocked", "in_forge"} : open' = [open EXCEPT ![id].status = status]
  /\ UNCHANGED <<closed, now>>

\* Claimed: never from an agent whose claim is live.
Claim(id) ==
  /\ id \in DOMAIN open
  /\ \E a \in Agents, date \in 0 .. now :
       /\ ~LiveFor(open[id], a)
       /\ open' = [open EXCEPT ![id].owner = a, ![id].claimedAt = date]
  /\ UNCHANGED <<closed, now>>

Release(id) ==
  /\ id \in DOMAIN open
  /\ open' = [open EXCEPT ![id].owner = NoOwner, ![id].claimedAt = NoDate]
  /\ UNCHANGED <<closed, now>>

\* Done or abandoned: from the open tasks to the closed ones in one step.
Close(id) ==
  /\ id \in DOMAIN open
  /\ open' = Drop(open, id)
  /\ \E status \in {"done", "abandoned"} : closed' = With(closed, id, status)
  /\ UNCHANGED now

Tick ==
  /\ now < MaxNow
  /\ now' = now + 1
  /\ UNCHANGED <<open, closed>>

Next ==
  Tick \/ \E id \in Ids : Register(id) \/ SetStatus(id) \/ Claim(id) \/ Release(id) \/ Close(id)

Spec == Init /\ [][Next]_vars

-----------------------------------------------------------------------------
(* Properties.                                                                *)

\* Open and closed tasks are functions on disjoint sets of ids.
TypeOK ==
  /\ DOMAIN open \cup DOMAIN closed \subseteq Ids
  /\ DOMAIN open \cap DOMAIN closed = {}
  /\ now \in 0 .. MaxNow

\* A task never leaves the registry, and its verdict never changes once it is closed.
NothingForgotten ==
  [][/\ DOMAIN open \cup DOMAIN closed \subseteq DOMAIN open' \cup DOMAIN closed'
     /\ \A id \in DOMAIN closed : id \in DOMAIN closed' /\ closed'[id] = closed[id]]_vars

\* A claim inside its window changes hands only through a release.
NoClaimStolen ==
  [][\A id \in DOMAIN open \cap DOMAIN open' :
       \A a \in Agents :
         (open[id].owner = a /\ LiveFor(open[id], NoOwner)) =>
            open'[id].owner \in {a, NoOwner}]_vars

=============================================================================

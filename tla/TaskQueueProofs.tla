-------------------------- MODULE TaskQueueProofs --------------------------
(***************************************************************************)
(* Theorems about TaskQueue, for any hunters, priorities, timeouts and     *)
(* bounds.  What a handler, a claim in flight or a recovery may do to one  *)
(* row of the board, with the claims and failures booked on it, is proved  *)
(* once (NextStepsRows); the properties follow from that.                  *)
(***************************************************************************)
EXTENDS TaskQueue, FiniteSetTheorems, WellFoundedInduction, TLAPS

(* The lowest of some numbers is one of them.                              *)
LEMMA MinIsMember ==
  ASSUME NEW S, S \subseteq Nat, S # {}
  PROVE  Min(S) \in S
<1> DEFINE R == OpToRel(<, Nat)
<1>1. IsWellFoundedOn(R, Nat)
  BY NatLessThanWellFounded
<1>2. \A x, y \in Nat : y < x => <<y, x>> \in R
  BY DEF OpToRel
<1> HIDE DEF R
<1>3. PICK x \in S : \A y \in S : ~(<<y, x>> \in R)
  BY <1>1, WFMin
<1>4. ASSUME NEW y \in S
      PROVE  x <= y
  <2>1. x \in Nat /\ y \in Nat
    OBVIOUS
  <2>2. ~(<<y, x>> \in R)
    BY <1>3
  <2>3. ~(y < x)
    BY <1>2, <2>1, <2>2
  <2> QED
    BY <2>1, <2>3
<1> QED
  BY <1>4 DEF Min

(* A rejected task comes back one priority higher, and no higher than 1.   *)
LEMMA RaisedPriority ==
  ASSUME NEW p \in 1 .. 4
  PROVE  Max({1, p - 1}) \in 1 .. 4
<1>1. \E x \in {1, p - 1} : \A y \in {1, p - 1} : x >= y
  <2>1. CASE p = 1
    BY <2>1
  <2>2. CASE p # 1
    BY <2>2
  <2> QED
    BY <2>1, <2>2
<1>2. PICK x \in {1, p - 1} : x = Max({1, p - 1}) /\ x >= 1
  BY <1>1 DEF Max
<1>3. x \in 1 .. 4
  BY <1>2
<1> QED
  BY <1>2, <1>3

(* A free row is found when there is one.                                  *)
LEMMA NextIdIsFree ==
  ASSUME Free # {}
  PROVE  /\ NextId \in TaskIds
         /\ tasks[NextId].status = "absent"
<1>1. Free \subseteq Nat
  BY BoardAssumption DEF Free, TaskIds
<1> QED
  BY <1>1, MinIsMember DEF NextId, Free

(* A set of two or more without one of them is not empty.                  *)
LEMMA TwoLeaveOne ==
  ASSUME NEW S, IsFiniteSet(S), Cardinality(S) > 1, NEW x
  PROVE  S \ {x} # {}
<1>1. Cardinality(S) \in Nat
  BY FS_CardinalityType
<1>2. Cardinality(S \ {x}) = IF x \in S THEN Cardinality(S) - 1 ELSE Cardinality(S)
  BY FS_RemoveElement
<1>3. Cardinality(S \ {x}) # 0
  BY <1>1, <1>2
<1> QED
  BY <1>3, FS_EmptySet

(* So is a second one.                                                     *)
LEMMA SecondIdIsFree ==
  ASSUME Cardinality(Free) > 1
  PROVE  /\ NextId \in TaskIds /\ tasks[NextId].status = "absent"
         /\ Min(Free \ {NextId}) \in TaskIds
         /\ tasks[Min(Free \ {NextId})].status = "absent"
         /\ Min(Free \ {NextId}) # NextId
<1>1. IsFiniteSet(Free)
  <2>1. IsFiniteSet(TaskIds)
    BY BoardAssumption, FS_Interval DEF TaskIds
  <2>2. Free \in SUBSET TaskIds
    BY DEF Free
  <2> QED
    BY <2>1, <2>2, FS_Subset
<1>2. Free # {}
  BY FS_EmptySet
<1>3. Free \ {NextId} # {}
  BY <1>1, TwoLeaveOne
<1>4. Free \ {NextId} \subseteq Nat
  BY BoardAssumption DEF Free, TaskIds
<1>5. Min(Free \ {NextId}) \in Free \ {NextId}
  BY <1>3, <1>4, MinIsMember
<1> QED
  BY <1>2, <1>5, NextIdIsFree DEF Free

-----------------------------------------------------------------------------
(***************************************************************************)
(* Rows the handlers write.                                                *)
(***************************************************************************)
(* What is posted.                                                         *)
LEMMA NewTaskIsTask ==
  ASSUME NEW type \in TaskTypes, NEW to \in Agents, NEW priority \in 1 .. 4,
         NEW parent \in TaskIds \cup {NULL}
  PROVE  LET row == NewTask(type, to, priority, parent)
         IN /\ row \in Task
            /\ row.type = type /\ row.parent = parent /\ row.status = "pending"
            /\ row.claimed_by = NONE
<1>1. AbsentTask \in Task
  BY AgentAssumption DEF AbsentTask, Task, TaskTypes
<1> QED
  BY <1>1 DEF NewTask, AbsentTask, Task, Statuses

(* What is taken back.                                                     *)
LEMMA ReleasedIsTask ==
  ASSUME NEW row \in Task
  PROVE  /\ Released(row) \in Task
         /\ Released(row).status = "pending" /\ Released(row).claimed_by = NONE
         /\ Released(row).type = row.type /\ Released(row).parent = row.parent
BY DEF Released, Task, Statuses

(* What recovery takes back.                                               *)
LEMMA EscalatedIsTask ==
  ASSUME NEW row \in Task, NEW seen \in Task
  PROVE  /\ Escalated(row, seen) \in Task
         /\ Escalated(row, seen).status = "pending" /\ Escalated(row, seen).claimed_by = NONE
         /\ Escalated(row, seen).type = row.type /\ Escalated(row, seen).parent = row.parent
<1> DEFINE n == seen.escalation_count + 1
           to == IF n >= MaxEscalations THEN Elder ELSE seen.to_agent
           r == Released(row)
<1>1. /\ r \in Task /\ r.status = "pending" /\ r.claimed_by = NONE
      /\ r.type = row.type /\ r.parent = row.parent
  BY ReleasedIsTask
<1>2. n \in Nat /\ to \in Agents
  BY AgentAssumption DEF Task
<1>3. Escalated(row, seen) = [r EXCEPT !.escalation_count = n, !.to_agent = to]
  BY DEF Escalated
<1> HIDE DEF n, to, r
<1> QED
  BY <1>1, <1>2, <1>3, ZenonT(60) DEF Task

-----------------------------------------------------------------------------
(***************************************************************************)
(* One row of the board, and one step.                                     *)
(***************************************************************************)
Unbooked(u) == claims'[u] = claims[u] /\ failures'[u] = failures[u]

SameKind(u) == tasks'[u].type = tasks[u].type /\ tasks'[u].parent = tasks[u].parent

Readdressed(u) == tasks'[u].to_agent # tasks[u].to_agent

IsPosted(u) ==
  /\ tasks[u].status = "absent"
  /\ tasks'[u].status \in {"pending", "pending_review"} /\ tasks'[u].claimed_by = NONE
  /\ Unbooked(u)

IsTaken(u) ==
  /\ tasks[u].status = "pending" /\ tasks'[u].status = "claimed"
  /\ SameKind(u) /\ ~Readdressed(u)
  /\ failures'[u] = failures[u]
  /\ \E h \in Agents : /\ tasks'[u].claimed_by = h
                       /\ claims'[u] = [claims[u] EXCEPT ![h] = @ + 1]

IsWorkedOn(u) ==
  /\ tasks[u].status \in Active /\ tasks'[u].status \in Active \cup {"done"}
  /\ tasks'[u].claimed_by = tasks[u].claimed_by
  /\ SameKind(u) /\ ~Readdressed(u) /\ Unbooked(u)

IsGivenUp(u) ==
  /\ tasks[u].status \in Active
  /\ tasks'[u].status = "pending" /\ tasks'[u].claimed_by = NONE
  /\ SameKind(u)
  /\ claims'[u] = claims[u]
  /\ \A h \in Agents :
       failures'[u][h] = failures[u][h] + (IF tasks[u].claimed_by = h THEN 1 ELSE 0)
  /\ IsStale(tasks[u], clock) \/ \E h \in Agents : Abandon(h, u)

IsJudged(u) ==
  /\ Verifiable(u) /\ tasks'[u].status \in {"verified", "reassigned"}
  /\ tasks'[u].claimed_by = tasks[u].claimed_by
  /\ SameKind(u) /\ ~Readdressed(u) /\ Unbooked(u)

RowStep(u) ==
  \/ tasks'[u] = tasks[u] /\ Unbooked(u)
  \/ IsPosted(u) \/ IsTaken(u) \/ IsWorkedOn(u) \/ IsGivenUp(u) \/ IsJudged(u)

(***************************************************************************)
(* A row without a claim names no hunter, and the rows a recovery found    *)
(* are one for a task and have been overdue ever since: time only passes.  *)
(***************************************************************************)
UnclaimedIsNobodys ==
  \A t \in TaskIds :
    /\ tasks[t].status = "absent" => tasks[t] = AbsentTask
    /\ tasks[t].status \in {"absent", "pending", "pending_review"} => tasks[t].claimed_by = NONE

ScanIsOverdue ==
  /\ \A s \in scan : IsStale(s.row, clock)
  /\ \A s, z \in scan : s.task = z.task => s = z

IInv == TypeOK /\ UnclaimedIsNobodys /\ ScanIsOverdue

(* The variables that are not the board's keep their types.                *)
LEMMA NextKeepsOthers ==
  ASSUME TypeOK, [Next]_vars
  PROVE  /\ clock' \in 0 .. MaxClock /\ trust' \in [Agents -> 0 .. 100]
         /\ reads' \in [Agents -> SUBSET TaskIds] /\ scan' \subseteq Seen
<1>0. /\ clock \in 0 .. MaxClock /\ MaxClock \in Nat /\ trust \in [Agents -> 0 .. 100]
      /\ reads \in [Agents -> SUBSET TaskIds] /\ scan \subseteq Seen
      /\ tasks \in [TaskIds -> Task] /\ TrustScores \subseteq 0 .. 100
  BY BoardAssumption DEF TypeOK
<1> DEFINE Others == /\ clock' \in 0 .. MaxClock /\ trust' \in [Agents -> 0 .. 100]
                     /\ reads' \in [Agents -> SUBSET TaskIds] /\ scan' \subseteq Seen
<1> SUFFICES Others
  OBVIOUS
<1>1. ASSUME UNCHANGED <<clock, trust, reads, scan>> PROVE Others
  BY <1>0, <1>1
<1>2. CASE Tick
  BY <1>0, <1>2 DEF Tick
<1>3. ASSUME NEW a \in Agents, NEW score \in TrustScores, TrustMoves(a, score) PROVE Others
  BY <1>0, <1>3 DEF TrustMoves
<1>4. CASE Posting
  BY <1>1, <1>4 DEF Posting, EnqueueFinding, Enqueue, EnqueueForReview
<1>5. ASSUME NEW h \in Agents, NEW t \in TaskIds, ReadForClaim(h, t) PROVE Others
  BY <1>0, <1>5 DEF ReadForClaim
<1>6. ASSUME NEW h \in Agents, ClaimFails(h) PROVE Others
  BY <1>0, <1>6 DEF ClaimFails
<1>7. ASSUME NEW h \in Agents, NEW t \in TaskIds, Claim(h, t) PROVE Others
  BY <1>0, <1>7 DEF Claim
<1>8. ASSUME NEW h \in Agents, NEW t \in TaskIds,
             Heartbeat(h, t) \/ Complete(h, t) \/ Abandon(h, t) PROVE Others
  BY <1>1, <1>8 DEF Heartbeat, Complete, Abandon, Adjusted, HandlersHaveTrustStore
<1>9. ASSUME NEW t \in TaskIds, NEW to \in Agents, Accept(t) \/ Reject(t, to) PROVE Others
  BY <1>1, <1>9 DEF Accept, Reject, Adjusted, HandlersHaveTrustStore
<1>10. ASSUME NEW now, ScanStale(now) PROVE Others
  BY <1>0, <1>10 DEF ScanStale, Seen
<1>11. CASE ReleaseStale \/ RecoveryDies
  BY <1>0, <1>11 DEF ReleaseStale, RecoveryDies
<1>12. CASE UNCHANGED vars
  BY <1>1, <1>12 DEF vars
<1> HIDE DEF Others
<1>13. ASSUME NEW h \in Agents, Hunting(h) PROVE Others
  BY <1>5, <1>6, <1>7, <1>8, <1>13 DEF Hunting
<1>14. CASE Reviewing
  <2>1. PICK t \in TaskIds : Accept(t) \/ \E to \in Agents : Reject(t, to)
    BY <1>14 DEF Reviewing
  <2> QED
    BY <1>9, <2>1, AgentAssumption
<1>15. CASE Recovering
  BY <1>10, <1>11, <1>15 DEF Recovering
<1> QED
  BY <1>2, <1>3, <1>4, <1>12, <1>13, <1>14, <1>15 DEF Next

(* A write of one row that books nothing.                                  *)
LEMMA OneRow ==
  ASSUME tasks \in [TaskIds -> Task], NEW t \in TaskIds, NEW row \in Task,
         tasks' = [tasks EXCEPT ![t] = row], claims' = claims, failures' = failures,
         tasks'[t] = row => RowStep(t)
  PROVE  tasks' \in [TaskIds -> Task] /\ \A u \in TaskIds : RowStep(u)
<1>1. tasks' \in [TaskIds -> Task] /\ tasks'[t] = row
  OBVIOUS
<1>2. \A u \in TaskIds \ {t} : tasks'[u] = tasks[u]
  OBVIOUS
<1> QED
  BY <1>1, <1>2 DEF RowStep, Unbooked

(* A write of a row and a new one.                                         *)
LEMMA TwoRows ==
  ASSUME tasks \in [TaskIds -> Task], NEW t \in TaskIds, NEW row \in Task,
         NEW v \in TaskIds, NEW new \in Task, t # v,
         tasks' = [tasks EXCEPT ![t] = row, ![v] = new], claims' = claims, failures' = failures,
         tasks'[t] = row => RowStep(t), tasks'[v] = new => RowStep(v)
  PROVE  tasks' \in [TaskIds -> Task] /\ \A u \in TaskIds : RowStep(u)
<1>1. tasks' \in [TaskIds -> Task] /\ tasks'[t] = row /\ tasks'[v] = new
  OBVIOUS
<1>2. \A u \in TaskIds \ {t, v} : tasks'[u] = tasks[u]
  OBVIOUS
<1> QED
  BY <1>1, <1>2 DEF RowStep, Unbooked

(* Recovery takes a row back when it is as the scan found it: that row is  *)
(* still overdue, and its hunter is the one who is booked.                 *)
LEMMA RecoverySteps ==
  ASSUME IInv, ReleaseStale, NEW u \in TaskIds
  PROVE  tasks'[u] \in Task /\ RowStep(u)
<1> DEFINE won == {s \in scan : Unmoved(s)}
           mine(h) == {s \in won : s.task = u /\ s.row.claimed_by = h}
<1>0. /\ tasks \in [TaskIds -> Task] /\ failures \in [TaskIds -> [Agents -> Nat]]
      /\ scan \subseteq Seen
  BY DEF IInv, TypeOK
<1>1. /\ tasks'[u] = IF \E s \in won : s.task = u
                       THEN Escalated(tasks[u], (CHOOSE s \in won : s.task = u).row)
                       ELSE tasks[u]
      /\ \A h \in Agents : failures'[u][h] = failures[u][h] + Cardinality(mine(h))
      /\ failures' = [x \in TaskIds |-> [h \in Agents |-> failures'[x][h]]]
      /\ claims' = claims
  BY DEF ReleaseStale
<1>2. CASE ~\E s \in won : s.task = u
  <2>1. \A h \in Agents : mine(h) = {}
    BY <1>2
  <2>2. \A h \in Agents : failures'[u][h] = failures[u][h] + 0
    BY <1>1, <2>1, FS_EmptySet
  <2>3. \A h \in Agents : failures'[u][h] = failures[u][h]
    BY <1>0, <2>2
  <2>4. failures'[u] = failures[u]
    BY <1>0, <1>1, <2>3
  <2>5. tasks'[u] = tasks[u]
    BY <1>1, <1>2
  <2> QED
    BY <1>0, <1>1, <2>4, <2>5 DEF RowStep, Unbooked
<1>3. CASE \E s \in won : s.task = u
  <2>1. PICK s \in won : s.task = u
    BY <1>3
  <2>2. /\ s \in scan /\ s.row \in Task /\ IsStale(s.row, clock)
        /\ \A z \in won : z.task = u => z = s
    BY <1>0, <2>1 DEF IInv, ScanIsOverdue, Seen
  <2>3. /\ tasks[u].status = s.row.status /\ tasks[u].claimed_by = s.row.claimed_by
        /\ tasks[u].heartbeat_at = s.row.heartbeat_at
    BY <2>1 DEF Unmoved
  <2>4. (CHOOSE z \in won : z.task = u) = s
    BY <2>1, <2>2
  <2>5. tasks'[u] = Escalated(tasks[u], s.row)
    BY <1>1, <1>3, <2>4
  <2>6. IsStale(tasks[u], clock) /\ tasks[u].status \in Active
    BY <2>2, <2>3 DEF IsStale
  <2>7. ASSUME NEW h \in Agents
        PROVE  failures'[u][h] = failures[u][h] + (IF tasks[u].claimed_by = h THEN 1 ELSE 0)
    <3>1. CASE tasks[u].claimed_by = h
      <4>1. mine(h) = {s}
        BY <2>1, <2>2, <2>3, <3>1
      <4>2. Cardinality(mine(h)) = 1
        BY <4>1, FS_Singleton
      <4> QED
        BY <1>1, <3>1, <4>2
    <3>2. CASE tasks[u].claimed_by # h
      <4>1. mine(h) = {}
        BY <2>1, <2>2, <2>3, <3>2
      <4>2. Cardinality(mine(h)) = 0
        BY <4>1, FS_EmptySet
      <4> QED
        BY <1>1, <3>2, <4>2
    <3> QED
      BY <3>1, <3>2
  <2>8. /\ tasks'[u] \in Task /\ tasks'[u].status = "pending" /\ tasks'[u].claimed_by = NONE
        /\ SameKind(u)
    BY <1>0, <2>2, <2>5, EscalatedIsTask DEF SameKind
  <2> QED
    BY <1>1, <2>6, <2>7, <2>8 DEF RowStep, IsGivenUp
<1> QED
  BY <1>2, <1>3

(* Every operation steps every row so, and keeps the tables' types.        *)
LEMMA NextStepsRows ==
  ASSUME IInv, [Next]_vars
  PROVE  /\ tasks' \in [TaskIds -> Task]
         /\ \A u \in TaskIds : RowStep(u)
<1> DEFINE Good == tasks' \in [TaskIds -> Task] /\ \A u \in TaskIds : RowStep(u)
<1>0. /\ tasks \in [TaskIds -> Task] /\ clock \in Nat
      /\ claims \in [TaskIds -> [Agents -> Nat]] /\ failures \in [TaskIds -> [Agents -> Nat]]
  BY BoardAssumption DEF IInv, TypeOK
<1> SUFFICES Good
  OBVIOUS
<1>1. ASSUME tasks' = tasks, claims' = claims, failures' = failures PROVE Good
  BY <1>0, <1>1 DEF RowStep, Unbooked
<1>2. ASSUME NEW to \in Agents, NEW p \in Priorities, NEW f \in Findings,
             EnqueueFinding(to, p, f)
      PROVE  Good
  <2> DEFINE new == [NewTask("work", to, p, NULL) EXCEPT !.finding = f]
  <2>1. p \in 1 .. 4 /\ "work" \in TaskTypes
    BY BoardAssumption DEF TaskTypes
  <2>2. NewTask("work", to, p, NULL) \in Task
        /\ NewTask("work", to, p, NULL).status = "pending"
        /\ NewTask("work", to, p, NULL).claimed_by = NONE
    BY <2>1, NewTaskIsTask
  <2>3. new \in Task /\ new.status = "pending" /\ new.claimed_by = NONE
    BY <2>2 DEF Task
  <2>4. /\ NextId \in TaskIds /\ tasks[NextId].status = "absent"
        /\ tasks' = [tasks EXCEPT ![NextId] = new]
        /\ claims' = claims /\ failures' = failures
    BY <1>2, NextIdIsFree DEF EnqueueFinding
  <2> HIDE DEF new
  <2>5. tasks'[NextId] = new => RowStep(NextId)
    BY <2>3, <2>4 DEF RowStep, IsPosted, Unbooked
  <2> QED
    BY <1>0, <2>3, <2>4, <2>5, OneRow
<1>3. ASSUME NEW from \in Agents, NEW to \in Agents, NEW p \in Priorities, Enqueue(from, to, p)
      PROVE  Good
  <2> DEFINE new == NewTask("work", to, p, NULL)
  <2>1. p \in 1 .. 4 /\ "work" \in TaskTypes
    BY BoardAssumption DEF TaskTypes
  <2>2. new \in Task /\ new.status = "pending" /\ new.claimed_by = NONE
    BY <2>1, NewTaskIsTask
  <2>3. /\ NextId \in TaskIds /\ tasks[NextId].status = "absent"
        /\ tasks' = [tasks EXCEPT ![NextId] = new]
        /\ claims' = claims /\ failures' = failures
    BY <1>3, NextIdIsFree DEF Enqueue
  <2> HIDE DEF new
  <2>4. tasks'[NextId] = new => RowStep(NextId)
    BY <2>2, <2>3 DEF RowStep, IsPosted, Unbooked
  <2> QED
    BY <1>0, <2>2, <2>3, <2>4, OneRow
<1>4. ASSUME NEW from \in Agents, NEW to \in Agents, NEW p \in Priorities,
             EnqueueForReview(from, to, p)
      PROVE  Good
  <2> DEFINE v == Min(Free \ {NextId})
             row == [NewTask("work", to, p, NULL) EXCEPT !.status = "pending_review"]
             new == NewTask("notify_review", Elder, 2, NextId)
  <2>1. p \in 1 .. 4 /\ "work" \in TaskTypes /\ "notify_review" \in TaskTypes
    BY BoardAssumption DEF TaskTypes
  <2>2. /\ NextId \in TaskIds /\ tasks[NextId].status = "absent"
        /\ v \in TaskIds /\ tasks[v].status = "absent" /\ NextId # v
    BY <1>4, SecondIdIsFree DEF EnqueueForReview
  <2>3. /\ NewTask("work", to, p, NULL) \in Task
        /\ NewTask("work", to, p, NULL).claimed_by = NONE
    BY <2>1, NewTaskIsTask
  <2>4. row \in Task /\ row.status = "pending_review" /\ row.claimed_by = NONE
    BY <2>3 DEF Task, Statuses
  <2>5. new \in Task /\ new.status = "pending" /\ new.claimed_by = NONE
    BY <2>1, <2>2, AgentAssumption, NewTaskIsTask
  <2>6. /\ tasks' = [tasks EXCEPT ![NextId] = row, ![v] = new]
        /\ claims' = claims /\ failures' = failures
    BY <1>4 DEF EnqueueForReview
  <2> HIDE DEF row, new, v
  <2>7. tasks'[NextId] = row => RowStep(NextId)
    BY <2>2, <2>4, <2>6 DEF RowStep, IsPosted, Unbooked
  <2>8. tasks'[v] = new => RowStep(v)
    BY <2>2, <2>5, <2>6 DEF RowStep, IsPosted, Unbooked
  <2> QED
    BY <1>0, <2>2, <2>4, <2>5, <2>6, <2>7, <2>8, TwoRows
<1>5. ASSUME NEW h \in Agents, NEW t \in TaskIds, Claim(h, t)
      PROVE  Good
  <2> DEFINE row == [[[tasks[t] EXCEPT !.status = "claimed"] EXCEPT !.claimed_by = h]
                       EXCEPT !.heartbeat_at = clock]
  <2>1. /\ row \in Task /\ row.status = "claimed" /\ row.claimed_by = h
        /\ row.type = tasks[t].type /\ row.parent = tasks[t].parent
        /\ row.to_agent = tasks[t].to_agent
    BY <1>0, ZenonT(60) DEF Task, Statuses, Active
  <2>2. /\ tasks' = [tasks EXCEPT ![t] = row] /\ tasks[t].status = "pending"
        /\ claims' = [claims EXCEPT ![t] = [claims[t] EXCEPT ![h] = @ + 1]]
        /\ failures' = failures
    BY <1>0, <1>5 DEF Claim
  <2> HIDE DEF row
  <2>3. tasks' \in [TaskIds -> Task] /\ tasks'[t] = row
    BY <1>0, <2>1, <2>2
  <2>4. claims'[t] = [claims[t] EXCEPT ![h] = @ + 1]
    BY <1>0, <2>2
  <2>5. \A u \in TaskIds \ {t} : tasks'[u] = tasks[u] /\ claims'[u] = claims[u]
    BY <1>0, <2>2
  <2>6. IsTaken(t)
    BY <2>1, <2>2, <2>3, <2>4 DEF IsTaken, SameKind, Readdressed
  <2> QED
    BY <2>2, <2>3, <2>5, <2>6 DEF RowStep, Unbooked
<1>6. ASSUME NEW h \in Agents, NEW t \in TaskIds, Heartbeat(h, t)
      PROVE  Good
  <2> DEFINE row == [[tasks[t] EXCEPT !.status = "executing"] EXCEPT !.heartbeat_at = clock]
  <2>1. /\ row \in Task /\ row.status = "executing" /\ row.claimed_by = tasks[t].claimed_by
        /\ row.type = tasks[t].type /\ row.parent = tasks[t].parent
        /\ row.to_agent = tasks[t].to_agent
    BY <1>0, ZenonT(60) DEF Task, Statuses, Active
  <2>2. /\ tasks' = [tasks EXCEPT ![t] = row] /\ tasks[t].status \in Active
        /\ claims' = claims /\ failures' = failures /\ "executing" \in Active
    BY <1>0, <1>6 DEF Heartbeat, Holds, Active
  <2> HIDE DEF row
  <2>3. tasks'[t] = row => RowStep(t)
    BY <2>1, <2>2 DEF RowStep, IsWorkedOn, SameKind, Readdressed, Unbooked
  <2> QED
    BY <1>0, <2>1, <2>2, <2>3, OneRow
<1>7. ASSUME NEW h \in Agents, NEW t \in TaskIds, Complete(h, t)
      PROVE  Good
  <2> DEFINE row == [tasks[t] EXCEPT !.status = "done"]
             new == NewTask("verify_task", Elder, tasks[t].priority, t)
  <2>1. /\ row \in Task /\ row.status = "done" /\ row.claimed_by = tasks[t].claimed_by
        /\ row.type = tasks[t].type /\ row.parent = tasks[t].parent
        /\ row.to_agent = tasks[t].to_agent
    BY <1>0, ZenonT(60) DEF Task, Statuses
  <2>2. tasks[t].status \in Active /\ claims' = claims /\ failures' = failures
    BY <1>7 DEF Complete, Holds
  <2>3. \/ tasks' = [tasks EXCEPT ![t] = row]
        \/ Free # {} /\ tasks' = [tasks EXCEPT ![t] = row, ![NextId] = new]
    BY <1>7 DEF Complete
  <2>4. new \in Task /\ new.status = "pending" /\ new.claimed_by = NONE
    <3>1. tasks[t].priority \in 1 .. 4 /\ "verify_task" \in TaskTypes
      BY <1>0 DEF Task, TaskTypes
    <3> QED
      BY <3>1, AgentAssumption, NewTaskIsTask
  <2> HIDE DEF row, new
  <2>5. tasks'[t] = row => RowStep(t)
    BY <2>1, <2>2 DEF RowStep, IsWorkedOn, SameKind, Readdressed, Unbooked
  <2>6. CASE tasks' = [tasks EXCEPT ![t] = row]
    BY <1>0, <2>1, <2>2, <2>5, <2>6, OneRow
  <2>7. CASE Free # {} /\ tasks' = [tasks EXCEPT ![t] = row, ![NextId] = new]
    <3>1. NextId \in TaskIds /\ tasks[NextId].status = "absent"
      BY <2>7, NextIdIsFree
    <3>2. t # NextId
      BY <2>2, <3>1 DEF Active
    <3>3. tasks'[NextId] = new => RowStep(NextId)
      BY <2>2, <2>4, <3>1 DEF RowStep, IsPosted, Unbooked
    <3> QED
      BY <1>0, <2>1, <2>2, <2>4, <2>5, <2>7, <3>1, <3>2, <3>3, TwoRows
  <2> QED
    BY <2>3, <2>6, <2>7
<1>8. ASSUME NEW h \in Agents, NEW t \in TaskIds, Abandon(h, t)
      PROVE  Good
  <2> DEFINE row == Released(tasks[t])
  <2>1. /\ row \in Task /\ row.status = "pending" /\ row.claimed_by = NONE
        /\ row.type = tasks[t].type /\ row.parent = tasks[t].parent
    BY <1>0, ReleasedIsTask
  <2>2. /\ tasks' = [tasks EXCEPT ![t] = row]
        /\ tasks[t].status \in Active /\ tasks[t].claimed_by = h
        /\ claims' = claims
        /\ failures' = [failures EXCEPT ![t] = [failures[t] EXCEPT ![h] = failures[t][h] + 1]]
    BY <1>0, <1>8 DEF Abandon, Holds
  <2> HIDE DEF row
  <2>3. tasks' \in [TaskIds -> Task] /\ tasks'[t] = row
    BY <1>0, <2>1, <2>2
  <2>4. \A u \in TaskIds \ {t} : tasks'[u] = tasks[u] /\ failures'[u] = failures[u]
    BY <1>0, <2>2
  <2>5. failures'[t] = [failures[t] EXCEPT ![h] = failures[t][h] + 1]
    BY <1>0, <2>2
  <2>6. \A a \in Agents :
          failures'[t][a] = failures[t][a] + (IF tasks[t].claimed_by = a THEN 1 ELSE 0)
    BY <1>0, <2>2, <2>5
  <2>7. IsGivenUp(t)
    BY <1>8, <2>1, <2>2, <2>3, <2>6 DEF IsGivenUp, SameKind
  <2> QED
    BY <2>2, <2>3, <2>4, <2>7 DEF RowStep, Unbooked
<1>9. ASSUME NEW t \in TaskIds, Accept(t)
      PROVE  Good
  <2> DEFINE row == [tasks[t] EXCEPT !.status = "verified"]
  <2>1. /\ row \in Task /\ row.status = "verified" /\ row.claimed_by = tasks[t].claimed_by
        /\ row.type = tasks[t].type /\ row.parent = tasks[t].parent
        /\ row.to_agent = tasks[t].to_agent
    BY <1>0, ZenonT(60) DEF Task, Statuses
  <2>2. /\ tasks' = [tasks EXCEPT ![t] = row] /\ Verifiable(t)
        /\ claims' = claims /\ failures' = failures
    BY <1>9 DEF Accept
  <2> HIDE DEF row
  <2>3. tasks'[t] = row => RowStep(t)
    BY <2>1, <2>2 DEF RowStep, IsJudged, SameKind, Readdressed, Unbooked
  <2> QED
    BY <1>0, <2>1, <2>2, <2>3, OneRow
<1>10. ASSUME NEW t \in TaskIds, NEW to \in Agents, Reject(t, to)
       PROVE  Good
  <2> DEFINE n == tasks[t].escalation_count + 1
             row == [[tasks[t] EXCEPT !.status = "reassigned"] EXCEPT !.escalation_count = n]
             up == Max({1, tasks[t].priority - 1})
             new == IF n >= MaxEscalations THEN NewTask(tasks[t].type, Elder, 1, t)
                    ELSE NewTask(tasks[t].type, to, up, t)
  <2>1. n \in Nat /\ tasks[t].type \in TaskTypes /\ tasks[t].priority \in 1 .. 4
    BY <1>0 DEF Task
  <2>2. up \in 1 .. 4
    BY <2>1, RaisedPriority
  <2>3. /\ Verifiable(t) /\ Free # {}
        /\ tasks' = [tasks EXCEPT ![t] = row, ![NextId] = new]
        /\ claims' = claims /\ failures' = failures
    BY <1>10 DEF Reject
  <2> HIDE DEF n, up
  <2>4. /\ row \in Task /\ row.status = "reassigned" /\ row.claimed_by = tasks[t].claimed_by
        /\ row.type = tasks[t].type /\ row.parent = tasks[t].parent
        /\ row.to_agent = tasks[t].to_agent
    BY <1>0, <2>1, ZenonT(60) DEF Task, Statuses
  <2>5. new \in Task /\ new.status = "pending" /\ new.claimed_by = NONE
    BY <2>1, <2>2, AgentAssumption, NewTaskIsTask
  <2> HIDE DEF row, new
  <2>6. NextId \in TaskIds /\ tasks[NextId].status = "absent"
    BY <2>3, NextIdIsFree
  <2>7. t # NextId
    BY <2>3, <2>6 DEF Verifiable
  <2>8. tasks'[t] = row => RowStep(t)
    BY <2>3, <2>4 DEF RowStep, IsJudged, SameKind, Readdressed, Unbooked
  <2>9. tasks'[NextId] = new => RowStep(NextId)
    BY <2>3, <2>5, <2>6 DEF RowStep, IsPosted, Unbooked
  <2> QED
    BY <1>0, <2>3, <2>4, <2>5, <2>6, <2>7, <2>8, <2>9, TwoRows
<1>11. CASE ReleaseStale
  <2>1. \A u \in TaskIds : tasks'[u] \in Task /\ RowStep(u)
    BY <1>11, RecoverySteps
  <2>2. tasks' = [u \in TaskIds |-> tasks'[u]]
    BY <1>11 DEF ReleaseStale
  <2> QED
    BY <2>1, <2>2
<1>12. ASSUME NEW h \in Agents, NEW t \in TaskIds, ReadForClaim(h, t) \/ ClaimFails(h)
       PROVE  Good
  BY <1>1, <1>12 DEF ReadForClaim, ClaimFails
<1>13. ASSUME NEW a \in Agents, NEW score \in TrustScores, TrustMoves(a, score) PROVE Good
  BY <1>1, <1>13 DEF TrustMoves
<1>14. CASE Tick \/ RecoveryDies \/ UNCHANGED vars
  BY <1>1, <1>14 DEF Tick, RecoveryDies, vars
<1>15. ASSUME NEW now, ScanStale(now) PROVE Good
  BY <1>1, <1>15 DEF ScanStale
<1>16. ASSUME NEW h \in Agents, ClaimFails(h) PROVE Good
  BY <1>1, <1>16 DEF ClaimFails
<1> HIDE DEF Good
<1>17. CASE Posting
  BY <1>2, <1>3, <1>4, <1>17 DEF Posting
<1>18. ASSUME NEW h \in Agents, Hunting(h) PROVE Good
  BY <1>5, <1>6, <1>7, <1>8, <1>12, <1>16, <1>18 DEF Hunting
<1>19. CASE Reviewing
  BY <1>9, <1>10, <1>19 DEF Reviewing
<1>20. CASE Recovering
  BY <1>11, <1>14, <1>15, <1>20 DEF Recovering
<1> QED
  BY <1>13, <1>14, <1>17, <1>18, <1>19, <1>20 DEF Next

-----------------------------------------------------------------------------
(***************************************************************************)
(* The invariant.                                                          *)
(***************************************************************************)
LEMMA InitIsGood == Init => IInv
<1> SUFFICES ASSUME Init PROVE IInv
  OBVIOUS
<1>1. AbsentTask \in Task /\ AbsentTask.claimed_by = NONE
  BY AgentAssumption DEF AbsentTask, Task, TaskTypes
<1>2. TypeOK
  <2>1. clock \in 0 .. MaxClock /\ trust \in [Agents -> 0 .. 100]
    <3>1. clock = 0 /\ trust \in [Agents -> TrustScores]
      BY DEF Init
    <3>2. MaxClock \in Nat /\ \A x \in TrustScores : x \in 0 .. 100
      BY BoardAssumption
    <3>3. trust \in [Agents -> 0 .. 100]
      BY <3>1, <3>2
    <3> QED
      BY <3>1, <3>2, <3>3
  <2>2. tasks \in [TaskIds -> Task]
    BY <1>1 DEF Init
  <2>3. /\ claims \in [TaskIds -> [Agents -> Nat]] /\ failures \in [TaskIds -> [Agents -> Nat]]
        /\ reads \in [Agents -> SUBSET TaskIds] /\ scan \subseteq Seen
    BY DEF Init
  <2> QED
    BY <2>1, <2>2, <2>3 DEF TypeOK
<1>3. UnclaimedIsNobodys /\ ScanIsOverdue
  BY <1>1 DEF Init, UnclaimedIsNobodys, ScanIsOverdue
<1> QED
  BY <1>2, <1>3 DEF IInv

(* Bookings are counted in naturals.                                       *)
LEMMA NextKeepsBooks ==
  ASSUME IInv, [Next]_vars
  PROVE  /\ claims' \in [TaskIds -> [Agents -> Nat]]
         /\ failures' \in [TaskIds -> [Agents -> Nat]]
<1> DEFINE Booked == /\ claims' \in [TaskIds -> [Agents -> Nat]]
                     /\ failures' \in [TaskIds -> [Agents -> Nat]]
<1>0. /\ claims \in [TaskIds -> [Agents -> Nat]] /\ failures \in [TaskIds -> [Agents -> Nat]]
      /\ scan \subseteq Seen
  BY DEF IInv, TypeOK
<1> SUFFICES Booked
  OBVIOUS
<1>1. ASSUME claims' = claims, failures' = failures PROVE Booked
  BY <1>0, <1>1
<1>2. ASSUME NEW h \in Agents, NEW t \in TaskIds, Claim(h, t) PROVE Booked
  <2>1. claims' = [claims EXCEPT ![t] = [claims[t] EXCEPT ![h] = claims[t][h] + 1]]
    BY <1>0, <1>2 DEF Claim
  <2> QED
    BY <1>0, <1>2, <2>1 DEF Claim
<1>3. ASSUME NEW h \in Agents, NEW t \in TaskIds, Abandon(h, t) PROVE Booked
  <2>1. failures' = [failures EXCEPT ![t] = [failures[t] EXCEPT ![h] = failures[t][h] + 1]]
    BY <1>0, <1>3 DEF Abandon
  <2> QED
    BY <1>0, <1>3, <2>1 DEF Abandon
<1>4. CASE ReleaseStale
  <2>1. /\ failures' = [t \in TaskIds |-> [h \in Agents |-> failures'[t][h]]]
        /\ claims' = claims
    BY <1>4 DEF ReleaseStale
  <2>2. ASSUME NEW t \in TaskIds, NEW h \in Agents
        PROVE  failures'[t][h] \in Nat
    <3>1. RowStep(t)
      BY <1>4, RecoverySteps
    <3>2. tasks'[t].status = "claimed" => tasks[t].status = "claimed"
      <4>1. \/ tasks'[t] = tasks[t]
            \/ \E row, seen : tasks'[t] = Escalated(row, seen) /\ row \in Task /\ seen \in Task
        <5>1. tasks \in [TaskIds -> Task] /\ \A s \in scan : s.row \in Task
          BY <1>0 DEF IInv, TypeOK, Seen
        <5> QED
          BY <1>4, <5>1 DEF ReleaseStale
      <4> QED
        BY <4>1, EscalatedIsTask
    <3>3. failures'[t] = failures[t] \/ IsGivenUp(t)
      BY <3>1, <3>2 DEF RowStep, IsPosted, IsTaken, IsWorkedOn, IsJudged, Unbooked
    <3>4. failures[t][h] \in Nat
      BY <1>0
    <3> QED
      BY <3>3, <3>4 DEF IsGivenUp
  <2> QED
    BY <1>0, <2>1, <2>2
<1>5. CASE Posting
  BY <1>1, <1>5 DEF Posting, EnqueueFinding, Enqueue, EnqueueForReview
<1>6. ASSUME NEW h \in Agents, ClaimFails(h) PROVE Booked
  BY <1>1, <1>6 DEF ClaimFails
<1>7. ASSUME NEW h \in Agents, NEW t \in TaskIds,
             ReadForClaim(h, t) \/ Heartbeat(h, t) \/ Complete(h, t)
      PROVE  Booked
  BY <1>1, <1>7 DEF ReadForClaim, Heartbeat, Complete
<1>8. CASE Reviewing
  BY <1>1, <1>8 DEF Reviewing, Accept, Reject
<1>9. ASSUME NEW now, ScanStale(now) PROVE Booked
  BY <1>1, <1>9 DEF ScanStale
<1>10. ASSUME NEW a, NEW score, TrustMoves(a, score) PROVE Booked
  BY <1>1, <1>10 DEF TrustMoves
<1>11. CASE Tick \/ RecoveryDies \/ UNCHANGED vars
  BY <1>1, <1>11 DEF Tick, RecoveryDies, vars
<1> HIDE DEF Booked
<1>12. ASSUME NEW h \in Agents, Hunting(h) PROVE Booked
  BY <1>2, <1>3, <1>6, <1>7, <1>12 DEF Hunting
<1>13. CASE Recovering
  BY <1>4, <1>9, <1>11, <1>13 DEF Recovering
<1> QED
  BY <1>5, <1>8, <1>10, <1>11, <1>12, <1>13 DEF Next

(* Rows are given up without their claim.                                  *)
LEMMA NextKeepsUnclaimed ==
  ASSUME IInv, [Next]_vars
  PROVE  UnclaimedIsNobodys'
<1> SUFFICES ASSUME NEW t \in TaskIds
             PROVE  /\ tasks'[t].status = "absent" => tasks'[t] = AbsentTask
                    /\ tasks'[t].status \in {"absent", "pending", "pending_review"} =>
                         tasks'[t].claimed_by = NONE
  BY DEF UnclaimedIsNobodys
<1>1. /\ tasks[t].status = "absent" => tasks[t] = AbsentTask
      /\ tasks[t].status \in {"absent", "pending", "pending_review"} => tasks[t].claimed_by = NONE
  BY DEF IInv, UnclaimedIsNobodys
<1>2. RowStep(t)
  BY NextStepsRows
<1> QED
  BY <1>1, <1>2 DEF RowStep, IsPosted, IsTaken, IsWorkedOn, IsGivenUp, IsJudged, Active

(* What was overdue when it was scanned is overdue when it is released.    *)
LEMMA NextKeepsScan ==
  ASSUME IInv, [Next]_vars
  PROVE  ScanIsOverdue'
<1>0. /\ clock \in Nat /\ tasks \in [TaskIds -> Task] /\ scan \subseteq Seen
      /\ ScanIsOverdue /\ Timeout \in Nat
  BY BoardAssumption DEF IInv, TypeOK
<1>1. ASSUME NEW now \in 0 .. clock, ScanStale(now)
      PROVE  ScanIsOverdue'
  <2>1. /\ scan' = {[task |-> t, row |-> tasks[t]] : t \in {u \in TaskIds : IsStale(tasks[u], now)}}
        /\ clock' = clock
    BY <1>1 DEF ScanStale
  <2>2. ASSUME NEW s \in scan'
        PROVE  s.row = tasks[s.task] /\ s.task \in TaskIds /\ IsStale(s.row, clock')
               /\ s = [task |-> s.task, row |-> tasks[s.task]]
    <3>1. PICK t \in TaskIds : s = [task |-> t, row |-> tasks[t]] /\ IsStale(tasks[t], now)
      BY <2>1
    <3>2. tasks[t].heartbeat_at \in Int
      BY <1>0 DEF Task, NULL
    <3>3. IsStale(tasks[t], clock)
      BY <1>0, <3>1, <3>2 DEF IsStale
    <3> QED
      BY <2>1, <3>1, <3>3
  <2> QED
    BY <2>2 DEF ScanIsOverdue
<1>2. CASE scan' = scan /\ clock' \in Nat /\ clock' >= clock
  <2>1. ASSUME NEW s \in scan
        PROVE  IsStale(s.row, clock')
    <3>1. s.row.heartbeat_at \in Int /\ IsStale(s.row, clock)
      BY <1>0 DEF Seen, Task, NULL, ScanIsOverdue
    <3> QED
      BY <1>0, <1>2, <3>1 DEF IsStale
  <2> QED
    BY <1>0, <1>2, <2>1 DEF ScanIsOverdue
<1>3. CASE scan' = {}
  BY <1>3 DEF ScanIsOverdue
<1>4. CASE Tick
  <2>1. scan' = scan /\ clock' = clock + 1
    BY <1>4 DEF Tick
  <2> QED
    BY <1>0, <1>2, <2>1
<1>5. ASSUME scan' = scan, clock' = clock PROVE ScanIsOverdue'
  BY <1>0, <1>2, <1>5
<1>6. CASE Posting
  BY <1>5, <1>6 DEF Posting, EnqueueFinding, Enqueue, EnqueueForReview
<1>7. ASSUME NEW h \in Agents, ClaimFails(h) PROVE ScanIsOverdue'
  BY <1>5, <1>7 DEF ClaimFails
<1>8. ASSUME NEW h \in Agents, NEW t \in TaskIds,
             \/ ReadForClaim(h, t) \/ Claim(h, t)
             \/ Heartbeat(h, t) \/ Complete(h, t) \/ Abandon(h, t)
      PROVE  ScanIsOverdue'
  BY <1>5, <1>8 DEF ReadForClaim, Claim, Heartbeat, Complete, Abandon
<1>9. CASE Reviewing
  BY <1>5, <1>9 DEF Reviewing, Accept, Reject
<1>10. ASSUME NEW a, NEW score, TrustMoves(a, score) PROVE ScanIsOverdue'
  BY <1>5, <1>10 DEF TrustMoves
<1>11. CASE ReleaseStale \/ RecoveryDies
  BY <1>3, <1>11 DEF ReleaseStale, RecoveryDies
<1>12. CASE UNCHANGED vars
  BY <1>5, <1>12 DEF vars
<1>13. ASSUME NEW h \in Agents, Hunting(h) PROVE ScanIsOverdue'
  BY <1>7, <1>8, <1>13 DEF Hunting
<1>14. CASE Recovering
  BY <1>1, <1>11, <1>14 DEF Recovering
<1> QED
  BY <1>4, <1>6, <1>9, <1>10, <1>12, <1>13, <1>14 DEF Next

(* The invariant is inductive.                                             *)
LEMMA NextKeepsInvariant == IInv /\ [Next]_vars => IInv'
<1> SUFFICES ASSUME IInv, [Next]_vars PROVE IInv'
  OBVIOUS
<1>1. TypeOK'
  <2>1. TypeOK
    BY DEF IInv
  <2> QED
    BY <2>1, NextKeepsOthers, NextKeepsBooks, NextStepsRows DEF TypeOK
<1> QED
  BY <1>1, NextKeepsUnclaimed, NextKeepsScan DEF IInv

(* The inductive invariant of the board: types, nobody's name on a row that  *)
(* is not claimed, and overdue rows in the scan of release_stale_claims.   *)
THEOREM Invariance == Spec => []IInv
BY InitIsGood, NextKeepsInvariant, PTL DEF Spec

(* The board's tables keep their schema.                                   *)
THEOREM TypeCorrect == Spec => []TypeOK
<1>1. IInv => TypeOK
  BY DEF IInv
<1> QED
  BY <1>1, Invariance, PTL

(* A claim of a recovery or an abandon is never a claim settled twice.     *)
LEMMA NextKeepsAccounts ==
  ASSUME IInv, ClaimsAreAccounted, [Next]_vars
  PROVE  ClaimsAreAccounted'
<1> SUFFICES ASSUME NEW t \in TaskIds, NEW h \in Agents
             PROVE  claims'[t][h] =
                      failures'[t][h] + (IF tasks'[t].claimed_by = h THEN 1 ELSE 0)
  BY DEF ClaimsAreAccounted
<1>1. /\ claims[t][h] = failures[t][h] + (IF tasks[t].claimed_by = h THEN 1 ELSE 0)
      /\ claims[t] \in [Agents -> Nat] /\ failures[t][h] \in Nat
      /\ NONE # h
  BY AgentAssumption DEF ClaimsAreAccounted, IInv, TypeOK
<1>2. tasks[t].status \in {"absent", "pending", "pending_review"} => tasks[t].claimed_by = NONE
  BY DEF IInv, UnclaimedIsNobodys
<1>3. RowStep(t)
  BY NextStepsRows
<1>4. CASE tasks'[t] = tasks[t] /\ Unbooked(t)
  BY <1>1, <1>4 DEF Unbooked
<1>5. CASE IsPosted(t)
  BY <1>1, <1>2, <1>5 DEF IsPosted, Unbooked
<1>6. CASE IsTaken(t)
  <2>1. PICK a \in Agents : tasks'[t].claimed_by = a
                            /\ claims'[t] = [claims[t] EXCEPT ![a] = @ + 1]
    BY <1>6 DEF IsTaken
  <2>2. tasks[t].claimed_by = NONE /\ failures'[t] = failures[t]
    BY <1>2, <1>6 DEF IsTaken
  <2> QED
    BY <1>1, <2>1, <2>2
<1>7. CASE IsWorkedOn(t)
  BY <1>1, <1>7 DEF IsWorkedOn, Unbooked
<1>8. CASE IsGivenUp(t)
  <2>1. /\ tasks'[t].claimed_by = NONE /\ claims'[t] = claims[t]
        /\ failures'[t][h] = failures[t][h] + (IF tasks[t].claimed_by = h THEN 1 ELSE 0)
    BY <1>8 DEF IsGivenUp
  <2>2. (IF tasks'[t].claimed_by = h THEN 1 ELSE 0) = 0
    BY <1>1, <2>1
  <2> QED
    BY <1>1, <2>1, <2>2
<1>9. CASE IsJudged(t)
  BY <1>1, <1>9 DEF IsJudged, Unbooked
<1> QED
  BY <1>3, <1>4, <1>5, <1>6, <1>7, <1>8, <1>9 DEF RowStep

(* Each claim a hunter ever made is his still, was handed in, or cost him  *)
(* exactly one entry of the failure log.                                   *)
THEOREM ClaimsAccounted == Spec => []ClaimsAreAccounted
<1>1. Init => ClaimsAreAccounted
  BY AgentAssumption DEF Init, ClaimsAreAccounted, AbsentTask
<1>2. IInv /\ ClaimsAreAccounted /\ [Next]_vars => ClaimsAreAccounted'
  BY NextKeepsAccounts
<1> QED
  BY <1>1, <1>2, Invariance, PTL DEF Spec

(* Neither verdict is withdrawn, and finished work only gets one.          *)
THEOREM VerdictsKept == Spec => VerdictsStand
<1>1. IInv /\ [Next]_vars =>
        [\A t \in TaskIds :
           /\ tasks[t].status \in {"verified", "reassigned"} => tasks'[t] = tasks[t]
           /\ tasks[t].status = "done" =>
                /\ tasks'[t].status \in {"done", "verified", "reassigned"}
                /\ tasks'[t].claimed_by = tasks[t].claimed_by]_vars
  <2> SUFFICES ASSUME IInv, [Next]_vars, NEW t \in TaskIds
               PROVE  /\ tasks[t].status \in {"verified", "reassigned"} => tasks'[t] = tasks[t]
                      /\ tasks[t].status = "done" =>
                           /\ tasks'[t].status \in {"done", "verified", "reassigned"}
                           /\ tasks'[t].claimed_by = tasks[t].claimed_by
    OBVIOUS
  <2>1. RowStep(t)
    BY NextStepsRows
  <2> QED
    BY <2>1 DEF RowStep, IsPosted, IsTaken, IsWorkedOn, IsGivenUp, IsJudged, Verifiable, Active
<1> QED
  BY <1>1, Invariance, PTL DEF Spec, VerdictsStand

(* A claim is taken back only from a hunter who is overdue at that moment. *)
THEOREM ReleasesAreOverdue == Spec => OnlyOverdueIsReleased
<1>1. IInv /\ [Next]_vars =>
        [\A t \in TaskIds :
           tasks[t].status # "pending" /\ tasks'[t].status = "pending"
           => \/ IsStale(tasks[t], clock)
              \/ tasks[t].status = "absent"
              \/ \E h \in Agents : Abandon(h, t)]_vars
  <2> SUFFICES ASSUME IInv, [Next]_vars, NEW t \in TaskIds,
                      tasks[t].status # "pending", tasks'[t].status = "pending"
               PROVE  \/ IsStale(tasks[t], clock)
                      \/ tasks[t].status = "absent"
                      \/ \E h \in Agents : Abandon(h, t)
    OBVIOUS
  <2>1. RowStep(t)
    BY NextStepsRows
  <2> QED
    BY <2>1 DEF RowStep, IsPosted, IsTaken, IsWorkedOn, IsGivenUp, IsJudged, Active
<1> QED
  BY <1>1, Invariance, PTL DEF Spec, OnlyOverdueIsReleased

-----------------------------------------------------------------------------
(***************************************************************************)
(* Verification tasks.                                                     *)
(***************************************************************************)
Verifies(v, t) == tasks[v].type = "verify_task" /\ tasks[v].parent = t

Verifications(t) == {v \in TaskIds : Verifies(v, t)}

Due(t) ==
  (IF HandedIn(t) /\ tasks[t].to_agent # Elder THEN 1 ELSE 0)
  + (IF tasks[t].type = "verify_task" /\ tasks[t].status = "reassigned" THEN 1 ELSE 0)

(* What is not a row verifies nothing, and owes no verification.           *)
LEMMA AbsentVerifiesNothing ==
  ASSUME IInv, NEW v \in TaskIds, tasks[v].status = "absent"
  PROVE  /\ \A t \in TaskIds : ~Verifies(v, t)
         /\ Due(v) = 0
BY DEF IInv, UnclaimedIsNobodys, AbsentTask, Verifies, Due, HandedIn

(* A step that posts no verification of t leaves those it has.             *)
LEMMA VerificationsStay ==
  ASSUME IInv, [Next]_vars, NEW t \in TaskIds,
         \A v \in TaskIds : tasks[v].status = "absent" =>
           ~(tasks'[v].type = "verify_task" /\ tasks'[v].parent = t)
  PROVE  Verifications(t)' = Verifications(t)
<1>1. ASSUME NEW v \in TaskIds
      PROVE  (tasks'[v].type = "verify_task" /\ tasks'[v].parent = t) <=> Verifies(v, t)
  <2>1. RowStep(v)
    BY NextStepsRows
  <2>2. tasks[v].status = "absent" => ~Verifies(v, t)
    BY AbsentVerifiesNothing
  <2>3. tasks[v].status # "absent" => SameKind(v)
    BY <2>1 DEF RowStep, IsPosted, IsTaken, IsWorkedOn, IsGivenUp, IsJudged, SameKind
  <2> QED
    BY <2>2, <2>3 DEF Verifies, SameKind
<1> QED
  BY <1>1 DEF Verifications, Verifies

(* One that posts v adds it.                                               *)
LEMMA OneVerificationMore ==
  ASSUME IInv, [Next]_vars, NEW t \in TaskIds, NEW v \in TaskIds,
         tasks[v].status = "absent",
         tasks'[v].type = "verify_task" /\ tasks'[v].parent = t,
         \A u \in TaskIds \ {v} : tasks[u].status = "absent" =>
           ~(tasks'[u].type = "verify_task" /\ tasks'[u].parent = t)
  PROVE  Cardinality(Verifications(t)') = Cardinality(Verifications(t)) + 1
<1>1. ASSUME NEW u \in TaskIds, u # v
      PROVE  (tasks'[u].type = "verify_task" /\ tasks'[u].parent = t) <=> Verifies(u, t)
  <2>1. RowStep(u)
    BY NextStepsRows
  <2>2. tasks[u].status = "absent" => ~Verifies(u, t)
    BY AbsentVerifiesNothing
  <2>3. tasks[u].status # "absent" => SameKind(u)
    BY <2>1 DEF RowStep, IsPosted, IsTaken, IsWorkedOn, IsGivenUp, IsJudged, SameKind
  <2> QED
    BY <1>1, <2>2, <2>3 DEF Verifies, SameKind
<1>2. ~Verifies(v, t)
  BY AbsentVerifiesNothing
<1>3. Verifications(t)' = Verifications(t) \cup {v} /\ v \notin Verifications(t)
  BY <1>1, <1>2 DEF Verifications, Verifies
<1>4. IsFiniteSet(Verifications(t))
  <2>1. IsFiniteSet(TaskIds)
    BY BoardAssumption, FS_Interval DEF TaskIds
  <2>2. Verifications(t) \in SUBSET TaskIds
    BY DEF Verifications
  <2> QED
    BY <2>1, <2>2, FS_Subset
<1>5. Cardinality(Verifications(t) \cup {v}) = Cardinality(Verifications(t)) + 1
  BY <1>3, <1>4, FS_AddElement
<1> QED
  BY <1>3, <1>5

(* What t owes changes only when it is handed in to another than the elder *)
(* and when it is a verification that is rejected.                         *)
LEMMA DueStays ==
  ASSUME IInv, [Next]_vars, NEW t \in TaskIds,
         ~(tasks[t].status \in Active /\ tasks'[t].status = "done" /\ tasks[t].to_agent # Elder),
         ~(tasks[t].type = "verify_task" /\ tasks[t].status # "reassigned"
           /\ tasks'[t].status = "reassigned")
  PROVE  Due(t)' = Due(t)
<1>1. RowStep(t)
  BY NextStepsRows
<1>2. tasks[t].status \in {"absent", "pending", "pending_review"} => tasks[t].claimed_by = NONE
  BY DEF IInv, UnclaimedIsNobodys
<1>3. CASE tasks'[t] = tasks[t]
  BY <1>3 DEF Due, HandedIn
<1>4. CASE IsPosted(t) \/ IsTaken(t) \/ IsGivenUp(t)
  BY <1>4 DEF IsPosted, IsTaken, IsGivenUp, Due, HandedIn, Active
<1>5. CASE IsWorkedOn(t)
  BY <1>5 DEF IsWorkedOn, SameKind, Readdressed, Due, HandedIn, Active
<1>6. CASE IsJudged(t)
  BY <1>2, <1>6 DEF IsJudged, Verifiable, SameKind, Readdressed, Due, HandedIn
<1> QED
  BY <1>1, <1>3, <1>4, <1>5, <1>6 DEF RowStep

(* Steps that post no verification, hand nothing in and reject nothing.    *)
Quiet ==
  \A v \in TaskIds :
    /\ tasks[v].status = "absent" => tasks'[v].type # "verify_task"
    /\ tasks'[v].status \in {"done", "reassigned"} => tasks[v].status = tasks'[v].status

(* All but completing and rejecting are.                                   *)
LEMMA OtherStepsAreQuiet ==
  ASSUME IInv, [Next]_vars
  PROVE  \/ Quiet
         \/ \E h \in Agents, t \in TaskIds : Complete(h, t)
         \/ \E t \in TaskIds, to \in Agents : Reject(t, to)
<1> DEFINE Goal == \/ Quiet
                   \/ \E h \in Agents, t \in TaskIds : Complete(h, t)
                   \/ \E t \in TaskIds, to \in Agents : Reject(t, to)
<1> SUFFICES Goal
  OBVIOUS
<1>0. /\ tasks \in [TaskIds -> Task]
      /\ \A v \in TaskIds : tasks[v].status = "absent" => tasks[v].type # "verify_task"
  BY DEF IInv, TypeOK, UnclaimedIsNobodys, AbsentTask
<1>1. ASSUME tasks' = tasks PROVE Goal
  BY <1>0, <1>1 DEF Quiet
<1>2. ASSUME NEW v \in TaskIds, NEW row, tasks' = [tasks EXCEPT ![v] = row],
             row.type # "verify_task" \/ tasks[v].status # "absent",
             row.status \notin {"done", "reassigned"}
      PROVE  Goal
  BY <1>0, <1>2 DEF Quiet
<1>3. \A to \in Agents, p \in Priorities :
        /\ NewTask("work", to, p, NULL) \in Task
        /\ NewTask("work", to, p, NULL).type = "work"
        /\ NewTask("work", to, p, NULL).status = "pending"
  BY BoardAssumption, NewTaskIsTask DEF TaskTypes
<1>4. ASSUME NEW to \in Agents, NEW p \in Priorities, NEW f \in Findings,
             EnqueueFinding(to, p, f)
      PROVE  Goal
  <2> DEFINE new == [NewTask("work", to, p, NULL) EXCEPT !.finding = f]
  <2>1. new.type = "work" /\ new.status = "pending"
    BY <1>3 DEF Task
  <2>2. NextId \in TaskIds /\ tasks' = [tasks EXCEPT ![NextId] = new]
    BY <1>4, NextIdIsFree DEF EnqueueFinding
  <2> HIDE DEF new
  <2> QED
    BY <1>2, <2>1, <2>2
<1>5. ASSUME NEW from \in Agents, NEW to \in Agents, NEW p \in Priorities, Enqueue(from, to, p)
      PROVE  Goal
  <2>1. /\ NextId \in TaskIds
        /\ tasks' = [tasks EXCEPT ![NextId] = NewTask("work", to, p, NULL)]
    BY <1>5, NextIdIsFree DEF Enqueue
  <2> QED
    BY <1>2, <1>3, <2>1
<1>6. ASSUME NEW from \in Agents, NEW to \in Agents, NEW p \in Priorities,
             EnqueueForReview(from, to, p)
      PROVE  Goal
  <2> DEFINE w == Min(Free \ {NextId})
             row == [NewTask("work", to, p, NULL) EXCEPT !.status = "pending_review"]
             new == NewTask("notify_review", Elder, 2, NextId)
  <2>1. NextId \in TaskIds /\ w \in TaskIds /\ NextId # w
    BY <1>6, SecondIdIsFree DEF EnqueueForReview
  <2>2. row.type = "work" /\ row.status = "pending_review"
    BY <1>3 DEF Task
  <2>3. new.type = "notify_review" /\ new.status = "pending"
    BY <2>1, AgentAssumption, NewTaskIsTask DEF TaskTypes
  <2>4. tasks' = [tasks EXCEPT ![NextId] = row, ![w] = new]
    BY <1>6 DEF EnqueueForReview
  <2> HIDE DEF row, new, w
  <2> QED
    BY <1>0, <2>1, <2>2, <2>3, <2>4 DEF Quiet
<1>7. ASSUME NEW h \in Agents, NEW t \in TaskIds, Claim(h, t)
      PROVE  Goal
  <2> DEFINE row == [[[tasks[t] EXCEPT !.status = "claimed"] EXCEPT !.claimed_by = h]
                       EXCEPT !.heartbeat_at = clock]
  <2>1. row.status = "claimed" /\ row.type = tasks[t].type
    BY <1>0 DEF Task
  <2>2. tasks' = [tasks EXCEPT ![t] = row] /\ tasks[t].status = "pending"
    BY <1>0, <1>7 DEF Claim
  <2> HIDE DEF row
  <2> QED
    BY <1>2, <2>1, <2>2
<1>8. ASSUME NEW h \in Agents, NEW t \in TaskIds, Heartbeat(h, t)
      PROVE  Goal
  <2> DEFINE row == [[tasks[t] EXCEPT !.status = "executing"] EXCEPT !.heartbeat_at = clock]
  <2>1. row.status = "executing"
    BY <1>0 DEF Task
  <2>2. tasks' = [tasks EXCEPT ![t] = row] /\ tasks[t].status # "absent"
    BY <1>0, <1>8 DEF Heartbeat, Holds, Active
  <2> HIDE DEF row
  <2> QED
    BY <1>2, <2>1, <2>2
<1>9. ASSUME NEW h \in Agents, NEW t \in TaskIds, Abandon(h, t)
      PROVE  Goal
  <2>1. Released(tasks[t]).status = "pending"
    BY <1>0, ReleasedIsTask
  <2>2. tasks' = [tasks EXCEPT ![t] = Released(tasks[t])] /\ tasks[t].status # "absent"
    BY <1>0, <1>9 DEF Abandon, Holds, Active
  <2> QED
    BY <1>2, <2>1, <2>2
<1>10. ASSUME NEW t \in TaskIds, Accept(t)
       PROVE  Goal
  <2> DEFINE row == [tasks[t] EXCEPT !.status = "verified"]
  <2>1. row.status = "verified"
    BY <1>0 DEF Task
  <2>2. tasks' = [tasks EXCEPT ![t] = row] /\ tasks[t].status # "absent"
    BY <1>0, <1>10 DEF Accept, Verifiable
  <2> HIDE DEF row
  <2> QED
    BY <1>2, <2>1, <2>2
<1>11. CASE ReleaseStale
  <2>1. ASSUME NEW v \in TaskIds
        PROVE  tasks'[v] = tasks[v] \/ (tasks'[v].status = "pending" /\ IsGivenUp(v))
    <3>1. \/ tasks'[v] = tasks[v]
          \/ \E row, seen : tasks'[v] = Escalated(row, seen) /\ row \in Task /\ seen \in Task
      <4>1. \A s \in scan : s.row \in Task
        BY DEF IInv, TypeOK, Seen
      <4> QED
        BY <1>0, <1>11, <4>1 DEF ReleaseStale
    <3>2. tasks'[v] = tasks[v] \/ tasks'[v].status = "pending"
      BY <3>1, EscalatedIsTask
    <3>3. RowStep(v)
      BY <1>11, RecoverySteps, SMTT(30)
    <3>4. ~IsPosted(v) \/ tasks'[v] = tasks[v]
      BY <1>0, <1>11, <3>2 DEF ReleaseStale, IsPosted, Unmoved, IInv, ScanIsOverdue, IsStale, Active
    <3> QED
      BY <3>2, <3>3, <3>4 DEF RowStep, IsTaken, IsWorkedOn, IsJudged, Active
  <2>2. \A v \in TaskIds : IsGivenUp(v) => tasks[v].status # "absent"
    BY DEF IsGivenUp, Active
  <2> QED
    BY <1>0, <2>1, <2>2 DEF Quiet
<1>12. ASSUME NEW h \in Agents, NEW t \in TaskIds, ReadForClaim(h, t)
       PROVE  Goal
  BY <1>1, <1>12 DEF ReadForClaim
<1>13. ASSUME NEW h \in Agents, ClaimFails(h)
       PROVE  Goal
  BY <1>1, <1>13 DEF ClaimFails
<1>14. ASSUME NEW a, NEW score, TrustMoves(a, score) PROVE Goal
  BY <1>1, <1>14 DEF TrustMoves
<1>15. ASSUME NEW now, ScanStale(now) PROVE Goal
  BY <1>1, <1>15 DEF ScanStale
<1>16. CASE Tick \/ RecoveryDies \/ UNCHANGED vars
  BY <1>1, <1>16 DEF Tick, RecoveryDies, vars
<1>17. ASSUME NEW h \in Agents, NEW t \in TaskIds, Complete(h, t) PROVE Goal
  BY <1>17
<1>18. ASSUME NEW t \in TaskIds, NEW to \in Agents, Reject(t, to) PROVE Goal
  BY <1>18
<1> HIDE DEF Goal
<1>19. CASE Posting
  BY <1>4, <1>5, <1>6, <1>19 DEF Posting
<1>20. ASSUME NEW h \in Agents, Hunting(h) PROVE Goal
  BY <1>7, <1>8, <1>9, <1>12, <1>13, <1>17, <1>20 DEF Hunting
<1>21. CASE Reviewing
  BY <1>10, <1>18, <1>21 DEF Reviewing
<1>22. CASE Recovering
  BY <1>11, <1>15, <1>16, <1>22 DEF Recovering
<1> QED
  BY <1>14, <1>16, <1>19, <1>20, <1>21, <1>22 DEF Next

(* Handing in and rejecting post exactly the verification they owe.        *)
LEMMA NextKeepsVerifications ==
  ASSUME IInv, [Next]_vars, NEW t \in TaskIds, Cardinality(Verifications(t)) = Due(t)
  PROVE  Cardinality(Verifications(t)') = Due(t)'
<1>0. /\ tasks \in [TaskIds -> Task] /\ tasks' \in [TaskIds -> Task]
      /\ \A v \in TaskIds : tasks[v].status = "absent" => tasks[v].type # "verify_task"
  BY NextStepsRows DEF IInv, TypeOK, UnclaimedIsNobodys, AbsentTask
<1>1. CASE Quiet
  <2>1. Verifications(t)' = Verifications(t)
    BY <1>1, VerificationsStay DEF Quiet
  <2>2. Due(t)' = Due(t)
    BY <1>1, DueStays DEF Quiet, Active
  <2> QED
    BY <2>1, <2>2
<1>2. ASSUME NEW h \in Agents, NEW x \in TaskIds, Complete(h, x)
      PROVE  Cardinality(Verifications(t)') = Due(t)'
  <2> DEFINE row == [tasks[x] EXCEPT !.status = "done"]
             new == NewTask("verify_task", Elder, tasks[x].priority, x)
  <2>1. /\ row.status = "done" /\ row.claimed_by = tasks[x].claimed_by
        /\ row.type = tasks[x].type /\ row.to_agent = tasks[x].to_agent
    BY <1>0 DEF Task
  <2>2. tasks[x].status \in Active /\ tasks[x].claimed_by = h /\ h # NONE
    BY <1>2, AgentAssumption DEF Complete, Holds
  <2>3. \/ tasks[x].to_agent = Elder /\ tasks' = [tasks EXCEPT ![x] = row]
        \/ /\ tasks[x].to_agent # Elder /\ Free # {}
           /\ tasks' = [tasks EXCEPT ![x] = row, ![NextId] = new]
    BY <1>2 DEF Complete
  <2>4. new.status = "pending" /\ new.type = "verify_task" /\ new.parent = x
    <3>1. tasks[x].priority \in 1 .. 4 /\ "verify_task" \in TaskTypes
      BY <1>0 DEF Task, TaskTypes
    <3> QED
      BY <3>1, AgentAssumption, NewTaskIsTask
  <2> HIDE DEF row, new
  <2>5. CASE tasks[x].to_agent = Elder /\ tasks' = [tasks EXCEPT ![x] = row]
    <3>1. \A v \in TaskIds : tasks[v].status = "absent" => tasks'[v] = tasks[v]
      BY <1>0, <2>2, <2>5 DEF Active
    <3>2. Verifications(t)' = Verifications(t)
      BY <1>0, <3>1, VerificationsStay
    <3>3. tasks'[x] = row /\ \A v \in TaskIds \ {x} : tasks'[v] = tasks[v]
      BY <1>0, <2>5
    <3>4. Due(t)' = Due(t)
      BY <2>1, <2>5, <3>3, DueStays DEF Active
    <3> QED
      BY <3>2, <3>4
  <2>6. CASE /\ tasks[x].to_agent # Elder /\ Free # {}
             /\ tasks' = [tasks EXCEPT ![x] = row, ![NextId] = new]
    <3>1. NextId \in TaskIds /\ tasks[NextId].status = "absent" /\ NextId # x
      BY <2>2, <2>6, NextIdIsFree DEF Active
    <3>2. /\ tasks'[NextId] = new /\ tasks'[x] = row
          /\ \A v \in TaskIds \ {x, NextId} : tasks'[v] = tasks[v]
      BY <1>0, <2>6, <3>1
    <3>3. CASE t = x
      <4>1. Cardinality(Verifications(t)') = Cardinality(Verifications(t)) + 1
        <5>1. \A u \in TaskIds \ {NextId} : tasks[u].status = "absent" => tasks'[u] = tasks[u]
          BY <2>2, <3>2 DEF Active
        <5> QED
          BY <1>0, <2>4, <3>1, <3>2, <3>3, <5>1, OneVerificationMore
      <4>2. Due(t) = 0 /\ Due(t)' = 1
        BY <2>1, <2>2, <2>6, <3>2, <3>3 DEF Due, HandedIn, Active
      <4> QED
        BY <4>1, <4>2
    <3>4. CASE t # x
      <4>1. Verifications(t)' = Verifications(t)
        BY <1>0, <2>2, <2>4, <3>1, <3>2, <3>4, VerificationsStay DEF Active
      <4>2. Due(t)' = Due(t)
        BY <2>4, <3>1, <3>2, <3>4, DueStays DEF Active
      <4> QED
        BY <4>1, <4>2
    <3> QED
      BY <3>3, <3>4
  <2> QED
    BY <2>3, <2>5, <2>6
<1>3. ASSUME NEW x \in TaskIds, NEW to \in Agents, Reject(x, to)
      PROVE  Cardinality(Verifications(t)') = Due(t)'
  <2> DEFINE n == tasks[x].escalation_count + 1
             row == [[tasks[x] EXCEPT !.status = "reassigned"] EXCEPT !.escalation_count = n]
             up == Max({1, tasks[x].priority - 1})
             new == IF n >= MaxEscalations THEN NewTask(tasks[x].type, Elder, 1, x)
                    ELSE NewTask(tasks[x].type, to, up, x)
  <2>1. /\ n \in Nat /\ tasks[x].type \in TaskTypes /\ tasks[x].priority \in 1 .. 4
        /\ up \in 1 .. 4
    <3>1. n \in Nat /\ tasks[x].type \in TaskTypes /\ tasks[x].priority \in 1 .. 4
      BY <1>0 DEF Task
    <3>2. up \in 1 .. 4
      BY <3>1, RaisedPriority
    <3> QED
      BY <3>1, <3>2
  <2>2. /\ Verifiable(x) /\ Free # {}
        /\ tasks' = [tasks EXCEPT ![x] = row, ![NextId] = new]
    BY <1>3 DEF Reject
  <2> HIDE DEF n, up
  <2>3. /\ row.status = "reassigned" /\ row.claimed_by = tasks[x].claimed_by
        /\ row.type = tasks[x].type /\ row.to_agent = tasks[x].to_agent
    BY <1>0, <2>1 DEF Task
  <2>4. new.status = "pending" /\ new.type = tasks[x].type /\ new.parent = x
    BY <2>1, AgentAssumption, NewTaskIsTask
  <2> HIDE DEF row, new
  <2>5. NextId \in TaskIds /\ tasks[NextId].status = "absent" /\ NextId # x
    BY <2>2, NextIdIsFree DEF Verifiable
  <2>6. /\ tasks'[NextId] = new /\ tasks'[x] = row
        /\ \A v \in TaskIds \ {x, NextId} : tasks'[v] = tasks[v]
    BY <1>0, <2>2, <2>5
  <2>7. tasks[x].status # "absent"
    BY <2>2 DEF Verifiable
  <2>8. tasks[x].status = "pending" => tasks[x].claimed_by = NONE
    BY DEF IInv, UnclaimedIsNobodys
  <2>9. CASE t = x /\ tasks[x].type = "verify_task"
    <3>1. Cardinality(Verifications(t)') = Cardinality(Verifications(t)) + 1
      <4>1. \A u \in TaskIds \ {NextId} : tasks[u].status = "absent" => tasks'[u] = tasks[u]
        BY <2>6, <2>7
      <4> QED
        BY <1>0, <2>4, <2>5, <2>6, <2>9, <4>1, OneVerificationMore
    <3>2. Due(t)' = Due(t) + 1
      BY <2>2, <2>3, <2>6, <2>8, <2>9 DEF Due, HandedIn, Verifiable
    <3> QED
      BY <3>1, <3>2
  <2>10. CASE t # x \/ tasks[x].type # "verify_task"
    <3>1. Verifications(t)' = Verifications(t)
      BY <1>0, <2>4, <2>5, <2>6, <2>7, <2>10, VerificationsStay
    <3>2. Due(t)' = Due(t)
      BY <2>3, <2>4, <2>5, <2>6, <2>10, DueStays DEF Active
    <3> QED
      BY <3>1, <3>2
  <2> QED
    BY <2>9, <2>10
<1> QED
  BY <1>1, <1>2, <1>3, OtherStepsAreQuiet

(* Every task handed in to somebody else has one verification task,        *)
(* however completion raced with abandon and recovery; a rejected          *)
(* verification has one successor more.                                    *)
THEOREM VerificationsAccounted == Spec => []OneVerificationPerCompletion
<1> DEFINE Counted == \A t \in TaskIds : Cardinality(Verifications(t)) = Due(t)
<1>1. Init => Counted
  <2> SUFFICES ASSUME Init, NEW t \in TaskIds PROVE Cardinality(Verifications(t)) = Due(t)
    OBVIOUS
  <2>1. Verifications(t) = {} /\ Due(t) = 0
    BY DEF Init, AbsentTask, Verifications, Verifies, Due, HandedIn
  <2> QED
    BY <2>1, FS_EmptySet
<1>2. IInv /\ Counted /\ [Next]_vars => Counted'
  <2> SUFFICES ASSUME IInv, Counted, [Next]_vars, NEW t \in TaskIds
               PROVE  Cardinality(Verifications(t)') = Due(t)'
    OBVIOUS
  <2> QED
    BY NextKeepsVerifications
<1>3. Counted <=> OneVerificationPerCompletion
  BY DEF OneVerificationPerCompletion, Verifications, Verifies, Due
<1> HIDE DEF Counted
<1> QED
  BY <1>1, <1>2, <1>3, Invariance, PTL DEF Spec
=============================================================================

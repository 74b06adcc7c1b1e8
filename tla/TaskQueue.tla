----------------------------- MODULE TaskQueue -----------------------------
(***************************************************************************)
(* The Hunter Guild's task board (plastic_promise/mcp/tools/task_queue.py) *)
(* and the recovery of abandoned claims (core/task_recovery.py).  Hunters  *)
(* claim tasks, keep them alive with heartbeats and hand them in; the      *)
(* elder verifies them or sends them out again.                            *)
(*                                                                         *)
(* Every handler is one BEGIN IMMEDIATE transaction, except the claim,     *)
(* which reads the task outside a transaction before its conditional       *)
(* UPDATE, and recovery, which scans the table before it releases what it  *)
(* found.  Both read and both write from other processes in between.       *)
(*                                                                         *)
(* One project is modelled: every statement is scoped by project_id.       *)
(***************************************************************************)
EXTENDS Integers, FiniteSets, FiniteSetsExt

CONSTANTS
  Agents,           \* hunters, who claim tasks, and the elder
  Elder,            \* "claude", who has reviewer authority
  Findings,         \* payload hashes of scanner tasks
  Priorities,       \* priorities tasks are posted with
  TrustScores,      \* values other tools set trust scores to, in hundredths
  Timeout,          \* timeout_seconds of a task
  MaxEscalations,   \* max_escalations of a task
  MaxTasks,         \* bound: rows of task_queue
  MaxClaims,        \* bound: claims of one task by one agent
  MaxClock          \* bound: the clock stops here

NONE == "none"
NULL == -1
TaskIds == 1 .. MaxTasks

ASSUME AgentAssumption ==
  /\ NONE \notin Agents
  /\ Elder \in Agents
  /\ NONE \notin Findings

ASSUME BoardAssumption ==
  /\ Priorities \subseteq 1 .. 4
  /\ TrustScores \subseteq 0 .. 100
  /\ Timeout \in Nat \ {0}
  /\ MaxEscalations \in Nat \ {0}
  /\ MaxTasks \in Nat
  /\ MaxClaims \in Nat
  /\ MaxClock \in Nat

VARIABLES
  clock,      \* the host's clock
  tasks,      \* table task_queue
  trust,      \* table trust_scores
  claims,     \* claims[t][h]: task_claim rows of runtime_events
  failures,   \* failures[t][h]: rows of hunter_failure_log
  reads,      \* reads[h]: the task a claim in flight has read, if any
  scan        \* rows a recovery in flight found stale

vars == <<clock, tasks, trust, claims, failures, reads, scan>>

Active == {"claimed", "executing"}
Statuses == Active \cup {"pending", "pending_review", "done", "verified", "reassigned"}
TaskTypes == {"work", "verify_task", "notify_review"}

Task == [type: TaskTypes, status: Statuses \cup {"absent"}, to_agent: Agents,
         priority: 1 .. 4, claimed_by: Agents \cup {NONE},
         heartbeat_at: Nat \cup {NULL}, escalation_count: Nat,
         parent: TaskIds \cup {NULL}, finding: Findings \cup {NONE}]

AbsentTask == [type |-> "work", status |-> "absent", to_agent |-> Elder, priority |-> 3,
               claimed_by |-> NONE, heartbeat_at |-> NULL, escalation_count |-> 0,
               parent |-> NULL, finding |-> NONE]

NewTask(type, to, priority, parent) ==
  [AbsentTask EXCEPT !.type = type, !.status = "pending", !.to_agent = to,
                     !.priority = priority, !.parent = parent]

\* Task ids are random; the lowest free ones stand for them
Free == {t \in TaskIds : tasks[t].status = "absent"}

NextId == Min(Free)

(***************************************************************************)
(* Ranks: hundredths of trust a task's priority asks for (can_claim).      *)
(***************************************************************************)
RequiredTrust(priority) ==
  CASE priority = 1 -> 80 [] priority = 2 -> 65 [] priority = 3 -> 50 [] OTHER -> 35

CanClaim(a, priority) == trust[a] >= RequiredTrust(priority)

RankD(a) == a # Elder /\ trust[a] < 35
RankC(a) == a # Elder /\ trust[a] >= 35 /\ trust[a] < 50

(***************************************************************************)
(* Trust consequences.  The handlers build TrustManager() without a store, *)
(* so what they adjust is a score of the call's own; and they hand decay   *)
(* the negative delta it refuses, an error the handlers suppress.          *)
(***************************************************************************)
HandlersHaveTrustStore == FALSE

Boosted(score, delta) == IF score + delta > 100 THEN 100 ELSE score + delta

Decayed(score, delta) ==
  IF delta < 0 THEN score ELSE IF score - delta < 10 THEN 10 ELSE score - delta

Adjusted(a, score) ==
  IF HandlersHaveTrustStore /\ a \in Agents THEN [trust EXCEPT ![a] = score] ELSE trust

-----------------------------------------------------------------------------
Init ==
  /\ clock = 0
  /\ tasks = [t \in TaskIds |-> AbsentTask]
  /\ trust \in [Agents -> TrustScores]
  /\ claims = [t \in TaskIds |-> [h \in Agents |-> 0]]
  /\ failures = [t \in TaskIds |-> [h \in Agents |-> 0]]
  /\ reads = [h \in Agents |-> {}]
  /\ scan = {}

Tick ==
  /\ clock < MaxClock
  /\ clock' = clock + 1
  /\ UNCHANGED <<tasks, trust, claims, failures, reads, scan>>

\* The defense tool and other guards move trust through the real store
TrustMoves(a, score) ==
  /\ trust[a] # score
  /\ trust' = [trust EXCEPT ![a] = score]
  /\ UNCHANGED <<clock, tasks, claims, failures, reads, scan>>

\* The daemon's scanners look for a pending task with the same payload
KnownFinding(f) == \E t \in TaskIds : tasks[t].status = "pending" /\ tasks[t].finding = f

\* task_enqueue by one of the daemon's scanners
EnqueueFinding(to, priority, f) ==
  /\ Free # {}
  /\ ~KnownFinding(f)
  /\ tasks' = [tasks EXCEPT ![NextId] =
                [NewTask("work", to, priority, NULL) EXCEPT !.finding = f]]
  /\ UNCHANGED <<clock, trust, claims, failures, reads, scan>>

\* task_enqueue by an agent of rank B or better, or of rank C for routine work
Enqueue(from, to, priority) ==
  /\ Free # {}
  /\ ~RankD(from)
  /\ RankC(from) => priority > 2
  /\ tasks' = [tasks EXCEPT ![NextId] = NewTask("work", to, priority, NULL)]
  /\ UNCHANGED <<clock, trust, claims, failures, reads, scan>>

\* task_enqueue of urgent work by rank C: the task waits for the elder's review
EnqueueForReview(from, to, priority) ==
  /\ Cardinality(Free) > 1
  /\ RankC(from)
  /\ priority <= 2
  /\ tasks' = [tasks EXCEPT
       ![NextId] = [NewTask("work", to, priority, NULL) EXCEPT !.status = "pending_review"],
       ![Min(Free \ {NextId})] = NewTask("notify_review", Elder, 2, NextId)]
  /\ UNCHANGED <<clock, trust, claims, failures, reads, scan>>

\* task_claim, up to the UPDATE.  force asks for trust 0.80, which claims
\* any priority without it
ReadForClaim(h, t) ==
  /\ reads[h] = {}
  /\ tasks[t].status = "pending"
  /\ CanClaim(h, tasks[t].priority)
  /\ claims[t][h] < MaxClaims
  /\ reads' = [reads EXCEPT ![h] = {t}]
  /\ UNCHANGED <<clock, tasks, trust, claims, failures, scan>>

\* task_claim: UPDATE ... WHERE status='pending'
Claim(h, t) ==
  /\ t \in reads[h]
  /\ tasks[t].status = "pending"
  /\ tasks' = [tasks EXCEPT ![t].status = "claimed",
                            ![t].claimed_by = h,
                            ![t].heartbeat_at = clock]
  /\ claims' = [claims EXCEPT ![t][h] = @ + 1]
  /\ reads' = [reads EXCEPT ![h] = {}]
  /\ UNCHANGED <<clock, trust, failures, scan>>

\* The UPDATE matched nothing, or the process died before it
ClaimFails(h) ==
  /\ reads[h] # {}
  /\ reads' = [reads EXCEPT ![h] = {}]
  /\ UNCHANGED <<clock, tasks, trust, claims, failures, scan>>

HoldsOrHandedIn(h, t) ==      \* faulty: a done task is handed in again
  tasks[t].claimed_by = h /\ tasks[t].status \in Active \cup {"done"}

Holds(h, t) == tasks[t].claimed_by = h /\ tasks[t].status \in Active

\* task_heartbeat
Heartbeat(h, t) ==
  /\ Holds(h, t)
  /\ tasks' = [tasks EXCEPT ![t].status = "executing", ![t].heartbeat_at = clock]
  /\ UNCHANGED <<clock, trust, claims, failures, reads, scan>>

\* task_complete; the verification task goes to the elder
Complete(h, t) ==
  /\ Holds(h, t)
  /\ IF tasks[t].to_agent = Elder
       THEN tasks' = [tasks EXCEPT ![t].status = "done"]
       ELSE /\ Free # {}
            /\ tasks' = [tasks EXCEPT
                 ![t].status = "done",
                 ![NextId] = NewTask("verify_task", Elder, tasks[t].priority, t)]
  /\ UNCHANGED <<clock, trust, claims, failures, reads, scan>>

Released(task) ==
  [task EXCEPT !.status = "pending", !.claimed_by = NONE, !.heartbeat_at = NULL]

\* task_abandon
Abandon(h, t) ==
  /\ Holds(h, t)
  /\ tasks' = [tasks EXCEPT ![t] = Released(@)]
  /\ failures' = [failures EXCEPT ![t][h] = @ + 1]
  /\ trust' = Adjusted(h, Decayed(trust[h], -2))
  /\ UNCHANGED <<clock, claims, reads, scan>>

\* task_verify: a finished task, or a verification task nobody has claimed.
\* Trust goes to the claimer, or to the parent's (a name declared in the
\* payload is the last resort for rows of older schemas)
Verifiable(t) ==
  \/ tasks[t].status = "done"
  \/ tasks[t].status = "pending" /\ tasks[t].type = "verify_task"

TrustTarget(t) ==
  IF tasks[t].claimed_by # NONE \/ tasks[t].parent = NULL
    THEN tasks[t].claimed_by
    ELSE tasks[tasks[t].parent].claimed_by

Score(a) == IF a \in Agents THEN trust[a] ELSE 0

Accept(t) ==
  /\ Verifiable(t)
  /\ tasks' = [tasks EXCEPT ![t].status = "verified"]
  /\ trust' = Adjusted(TrustTarget(t), Boosted(Score(TrustTarget(t)), 2))
  /\ UNCHANGED <<clock, claims, failures, reads, scan>>

\* verdict rejected or reassigned: the old row is closed and a new one posted
Reject(t, reassign_to) ==
  LET escalations == tasks[t].escalation_count + 1
      old == tasks[t]
  IN /\ Verifiable(t)
     /\ Free # {}
     /\ tasks' = [tasks EXCEPT
          ![t].status = "reassigned",
          ![t].escalation_count = escalations,
          ![NextId] = IF escalations >= MaxEscalations
                        THEN NewTask(old.type, Elder, 1, t)
                        ELSE NewTask(old.type, reassign_to, Max({1, old.priority - 1}), t)]
     /\ trust' = Adjusted(TrustTarget(t), Decayed(Score(TrustTarget(t)), -3))
     /\ UNCHANGED <<clock, claims, failures, reads, scan>>

(***************************************************************************)
(* release_stale_claims: a clock reading, then a scan, then conditional    *)
(* UPDATEs that commit together.                                           *)
(***************************************************************************)
IsStale(task, now) == task.status \in Active /\ now - task.heartbeat_at > Timeout

ScanStale(now) ==
  /\ scan = {}
  /\ scan' = {[task |-> t, row |-> tasks[t]] : t \in {u \in TaskIds : IsStale(tasks[u], now)}}
  /\ UNCHANGED <<clock, tasks, trust, claims, failures, reads>>

\* Faulty: part of the condition is left out
UnmovedUnlessIdle(s) == tasks[s.task].status \in Active
UnmovedClaim(s) ==
  tasks[s.task].status = s.row.status /\ tasks[s.task].claimed_by = s.row.claimed_by
UnmovedById(s) == tasks[s.task].status # "absent"

\* WHERE status=? AND claimed_by IS ? AND heartbeat_at IS ?
Unmoved(s) ==
  /\ tasks[s.task].status = s.row.status
  /\ tasks[s.task].claimed_by = s.row.claimed_by
  /\ tasks[s.task].heartbeat_at = s.row.heartbeat_at

\* The escalation and the address are computed from the row the scan saw
Escalated(task, seen) ==
  [Released(task) EXCEPT
     !.escalation_count = seen.escalation_count + 1,
     !.to_agent = IF seen.escalation_count + 1 >= MaxEscalations THEN Elder ELSE seen.to_agent]

ReleaseStale ==
  LET won == {s \in scan : Unmoved(s)}
  IN /\ scan # {}
     /\ tasks' = [t \in TaskIds |->
          IF \E s \in won : s.task = t
            THEN Escalated(tasks[t], (CHOOSE s \in won : s.task = t).row)
            ELSE tasks[t]]
     /\ failures' = [t \in TaskIds |-> [h \in Agents |->
          failures[t][h] + Cardinality({s \in won : s.task = t /\ s.row.claimed_by = h})]]
     /\ scan' = {}
     /\ UNCHANGED <<clock, trust, claims, reads>>

RecoveryDies ==
  /\ scan # {}
  /\ scan' = {}
  /\ UNCHANGED <<clock, tasks, trust, claims, failures, reads>>

-----------------------------------------------------------------------------
Posting ==
  \E to \in Agents, p \in Priorities :
    \/ \E f \in Findings : EnqueueFinding(to, p, f)
    \/ \E from \in Agents : Enqueue(from, to, p) \/ EnqueueForReview(from, to, p)

Hunting(h) ==
  \/ ClaimFails(h)
  \/ \E t \in TaskIds : \/ ReadForClaim(h, t)
                        \/ Claim(h, t)
                        \/ Heartbeat(h, t)
                        \/ Complete(h, t)
                        \/ Abandon(h, t)

Reviewing == \E t \in TaskIds : Accept(t) \/ \E to \in Agents : Reject(t, to)

Recovering == (\E now \in 0 .. clock : ScanStale(now)) \/ ReleaseStale \/ RecoveryDies

Next ==
  \/ Tick
  \/ \E a \in Agents, score \in TrustScores : TrustMoves(a, score)
  \/ Posting
  \/ \E h \in Agents : Hunting(h)
  \/ Reviewing
  \/ Recovering

Spec == Init /\ [][Next]_vars

-----------------------------------------------------------------------------
Seen == [task: TaskIds, row: Task]

(***************************************************************************)
(* The tables hold rows of their schema: a task that is taken back or sent *)
(* out again keeps an addressee, and trust stays within its bounds.        *)
(***************************************************************************)
TypeOK ==
  /\ clock \in 0 .. MaxClock
  /\ tasks \in [TaskIds -> Task]
  /\ trust \in [Agents -> 0 .. 100]
  /\ claims \in [TaskIds -> [Agents -> Nat]]
  /\ failures \in [TaskIds -> [Agents -> Nat]]
  /\ reads \in [Agents -> SUBSET TaskIds]
  /\ scan \subseteq Seen

(***************************************************************************)
(* Each claim a hunter ever made of a task is still his, or was handed in, *)
(* or cost him exactly one entry of the failure log: completion, abandon   *)
(* and recovery never both settle the same claim, and no timeout is booked *)
(* on a hunter who did not have the task.                                  *)
(***************************************************************************)
ClaimsAreAccounted ==
  \A t \in TaskIds, h \in Agents :
    claims[t][h] = failures[t][h] + (IF tasks[t].claimed_by = h THEN 1 ELSE 0)

HandedIn(t) ==
  tasks[t].status \in {"done", "verified", "reassigned"} /\ tasks[t].claimed_by # NONE

(***************************************************************************)
(* Every task a hunter handed in to somebody else has one verification     *)
(* task, however completion raced with abandon and recovery; a rejected    *)
(* verification task has one successor more.                               *)
(***************************************************************************)
OneVerificationPerCompletion ==
  \A t \in TaskIds :
    Cardinality({v \in TaskIds : tasks[v].type = "verify_task" /\ tasks[v].parent = t})
      = (IF HandedIn(t) /\ tasks[t].to_agent # Elder THEN 1 ELSE 0)
        + (IF tasks[t].type = "verify_task" /\ tasks[t].status = "reassigned" THEN 1 ELSE 0)

(***************************************************************************)
(* A claim is taken back from a hunter who did not give it up only if his  *)
(* last heartbeat is overdue at that moment.                               *)
(***************************************************************************)
OnlyOverdueIsReleased ==
  [][\A t \in TaskIds :
       tasks[t].status # "pending" /\ tasks'[t].status = "pending"
       => \/ IsStale(tasks[t], clock)
          \/ tasks[t].status = "absent"
          \/ \E h \in Agents : Abandon(h, t)]_vars

(***************************************************************************)
(* Finished work stays finished: a done task is verified or reassigned,    *)
(* and neither verdict is ever withdrawn.                                  *)
(***************************************************************************)
VerdictsStand ==
  [][\A t \in TaskIds :
       /\ tasks[t].status \in {"verified", "reassigned"} => tasks'[t] = tasks[t]
       /\ tasks[t].status = "done" =>
            /\ tasks'[t].status \in {"done", "verified", "reassigned"}
            /\ tasks'[t].claimed_by = tasks[t].claimed_by]_vars
=============================================================================

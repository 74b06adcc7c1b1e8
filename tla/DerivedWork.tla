---------------------------- MODULE DerivedWork ----------------------------
(***************************************************************************)
(* DerivedWorkStore (plastic_promise/core/derived_work.py): the SQLite     *)
(* queue that leases derived memory work to worker threads.                *)
(*                                                                         *)
(* Every operation of the store is one BEGIN IMMEDIATE transaction, so it  *)
(* is one action here.  All of them except completion read the clock       *)
(* BEFORE that transaction starts: a worker first takes a sample of the    *)
(* clock (Sample) and a later action decides with it, after any number of  *)
(* transactions of other workers.                                          *)
(*                                                                         *)
(* A job stands for one (project, dedupe key) pair, the UNIQUE key of the  *)
(* table; the fields that never change after the insert are constants.  A  *)
(* lease is the capability a claim returns.  Its token is minted afresh by *)
(* every claim, so equal generations of a job mean equal tokens and the    *)
(* generation stands for both.                                             *)
(***************************************************************************)
EXTENDS Integers, FiniteSets, FiniteSetsExt

CONSTANTS
  Jobs,                   \* dedupe identities, one row each
  Workers,                \* worker threads, each with its heartbeat thread
  ProjectOf, KindOf, ScopeOf, PriorityOf, MaxAttemptsOf,   \* columns of a job
  AcceleratorKind,        \* the kind enqueue_accelerator admits
  LeaseSeconds, RetryDelays,
  BatchLimit, MinBatchSize, MaxWait,          \* claim_batch
  MaxActiveJobs,                              \* enqueue
  MaxQueueDepth, MaxDailyTasks, MaxConcurrency, PriorityFloor, DayLength,
                                              \* accelerator budgets
  MaxClock                \* bound: the clock stops here

NULL == -1
AnyProject == "any project"

ASSUME ColumnAssumption ==
  /\ MaxAttemptsOf \in [Jobs -> Nat \ {0}]
  /\ PriorityOf \in [Jobs -> Int]

ASSUME TimeAssumption ==
  /\ LeaseSeconds \in Nat \ {0}
  /\ RetryDelays \subseteq Nat
  /\ DayLength \in Nat \ {0}
  /\ MaxClock \in Nat

ASSUME BudgetAssumption ==
  /\ MaxQueueDepth \in Nat \ {0}
  /\ MaxDailyTasks \in Nat \ {0}
  /\ MaxConcurrency \in Nat \ {0}

VARIABLES
  clock,      \* the host's UTC clock
  rows,       \* table derived_work_jobs, with the attempts of each job
  admitted,   \* table derived_work_daily_admissions of the accelerator kind
  held,       \* held[w]: leases worker w was handed and still works on
  sample,     \* sample[w]: clock reading of w's call in flight, or NULL
  beat        \* beat[w]: call of its heartbeat thread in flight, if any

vars == <<clock, rows, admitted, held, sample, beat>>

Queued == {"pending", "retry_wait"}
Statuses == Queued \cup {"leased", "completed", "dead"}
Dispositions == {"leased", "completed", "retry_wait", "dead", "lease_expired"}

(***************************************************************************)
(* One row.  The attempts of a job are its rows of derived_work_attempts.  *)
(***************************************************************************)
Attempt == [generation: Nat, claimed_at: Nat, finished_at: Nat \cup {NULL},
            disposition: Dispositions]

JobRow == [status: Statuses \cup {"absent"}, attempt_count: Nat,
           fencing_generation: Nat, created_at: Nat, not_before_at: Nat,
           lease_expires_at: Nat \cup {NULL}, attempts: SUBSET Attempt]

AbsentRow == [status |-> "absent", attempt_count |-> 0, fencing_generation |-> 0,
              created_at |-> 0, not_before_at |-> 0,
              lease_expires_at |-> NULL, attempts |-> {}]

InsertedRow(now) == [AbsentRow EXCEPT !.status = "pending", !.created_at = now,
                                      !.not_before_at = now]

Finished(attempts, g, now, disposition) ==
  {IF a.generation = g /\ a.finished_at = NULL
     THEN [a EXCEPT !.finished_at = now, !.disposition = disposition]
     ELSE a : a \in attempts}

\* Faulty variants, one slip each, that the properties below must expose
ClaimedUnfenced(r, now) ==      \* the generation is not advanced
  [r EXCEPT !.status = "leased", !.lease_expires_at = now + LeaseSeconds]

RecoveredUncounted(r, max, now) ==      \* expiry costs no attempt
  [r EXCEPT !.status = "pending", !.not_before_at = now, !.lease_expires_at = NULL,
            !.attempts = Finished(@, r.fencing_generation, now, "lease_expired")]

RecoveredEarly(r, max, now) ==      \* not_before_at is left as it was
  [r EXCEPT !.status = IF r.attempt_count + 1 >= max THEN "dead" ELSE "pending",
            !.attempt_count = @ + 1, !.lease_expires_at = NULL,
            !.attempts = Finished(@, r.fencing_generation, now, "lease_expired")]

FailedOnceTooOften(r, max, now, retryable, delay) ==      \* <= for <
  LET retry == retryable /\ r.attempt_count + 1 <= max
      status == IF retry THEN "retry_wait" ELSE "dead"
  IN [r EXCEPT !.status = status, !.attempt_count = @ + 1,
               !.not_before_at = IF retry THEN now + delay ELSE now,
               !.lease_expires_at = NULL,
               !.attempts = Finished(@, r.fencing_generation, now, status)]

CompletedUnrecorded(r, now) ==      \* the attempt stays open
  [r EXCEPT !.status = "completed", !.lease_expires_at = NULL]

ClaimedRow(r, now) ==
  [r EXCEPT !.status = "leased",
            !.fencing_generation = @ + 1,
            !.lease_expires_at = now + LeaseSeconds,
            !.attempts = @ \cup {[generation |-> r.fencing_generation + 1,
                                  claimed_at |-> now, finished_at |-> NULL,
                                  disposition |-> "leased"]}]

RecoveredRow(r, max, now) ==
  LET exhausted == r.attempt_count + 1 >= max
  IN [r EXCEPT !.status = IF exhausted THEN "dead" ELSE "pending",
               !.attempt_count = @ + 1,
               !.not_before_at = now,
               !.lease_expires_at = NULL,
               !.attempts = Finished(@, r.fencing_generation, now,
                              IF exhausted THEN "dead" ELSE "lease_expired")]

FailedRow(r, max, now, retryable, delay) ==
  LET retry == retryable /\ r.attempt_count + 1 < max
      status == IF retry THEN "retry_wait" ELSE "dead"
  IN [r EXCEPT !.status = status,
               !.attempt_count = @ + 1,
               !.not_before_at = IF retry THEN now + delay ELSE now,
               !.lease_expires_at = NULL,
               !.attempts = Finished(@, r.fencing_generation, now, status)]

CompletedRow(r, now) ==
  [r EXCEPT !.status = "completed",
            !.lease_expires_at = NULL,
            !.attempts = Finished(@, r.fencing_generation, now, "completed")]

(***************************************************************************)
(* Guards the operations share.                                            *)
(***************************************************************************)
Lease == [job: Jobs, generation: Nat]

Expired(r, now) == r.status = "leased" /\ r.lease_expires_at <= now

Due(r, now) == r.status \in Queued /\ r.not_before_at <= now

ValidForAnyHolder(l, now) ==      \* faulty: the lease's generation is ignored
  rows[l.job].status = "leased" /\ rows[l.job].lease_expires_at > now

ValidByGeneration(l, now) ==      \* faulty: only the generation is compared
  rows[l.job].fencing_generation = l.generation

\* _require_valid_lease
ValidLease(l, now) ==
  /\ rows[l.job].status = "leased"
  /\ rows[l.job].fencing_generation = l.generation
  /\ rows[l.job].lease_expires_at > now

InProject(j, p) == p = AnyProject \/ ProjectOf[j] = p

\* _recover_expired_in_transaction: the table after its UPDATEs
Recovered(p, now) ==
  [j \in Jobs |-> IF InProject(j, p) /\ Expired(rows[j], now)
                    THEN RecoveredRow(rows[j], MaxAttemptsOf[j], now)
                    ELSE rows[j]]

\* ORDER BY priority DESC, created_at, job_id; job_id is a random UUID, so
\* jobs of one priority and creation time come in either order
Before(R, i, j) ==
  \/ PriorityOf[i] > PriorityOf[j]
  \/ PriorityOf[i] = PriorityOf[j] /\ R[i].created_at < R[j].created_at

IsFirst(R, j, S) == j \in S /\ \A i \in S : ~Before(R, i, j)

LeaseOn(R, j) == [job |-> j, generation |-> R[j].fencing_generation]

-----------------------------------------------------------------------------
Init ==
  /\ clock = 0
  /\ rows = [j \in Jobs |-> AbsentRow]
  /\ admitted = [d \in 0 .. MaxClock \div DayLength |-> 0]
  /\ held = [w \in Workers |-> {}]
  /\ sample = [w \in Workers |-> NULL]
  /\ beat = [w \in Workers |-> {}]

Tick ==
  /\ clock < MaxClock
  /\ clock' = clock + 1
  /\ UNCHANGED <<rows, admitted, held, sample, beat>>

\* now = self._now(), taken before BEGIN IMMEDIATE
Sample(w) ==
  /\ sample[w] = NULL
  /\ sample' = [sample EXCEPT ![w] = clock]
  /\ UNCHANGED <<clock, rows, admitted, held, beat>>

InCall(w) == sample[w] # NULL

EndCall(w) == sample' = [sample EXCEPT ![w] = NULL]

\* The call raises and rolls back (refused, not due, lease lost, database
\* busy), or finds the dedupe key taken and changes nothing
Return(w) ==
  /\ InCall(w)
  /\ EndCall(w)
  /\ UNCHANGED <<clock, rows, admitted, held, beat>>

ActiveOf(p) ==
  {j \in Jobs : ProjectOf[j] = p /\ rows[j].status \in Queued \cup {"leased"}}

Insertable(j) ==
  /\ rows[j].status = "absent"
  /\ KindOf[j] # AcceleratorKind
  /\ Cardinality(ActiveOf(ProjectOf[j])) < MaxActiveJobs

\* enqueue
Enqueue(w, j) ==
  /\ InCall(w)
  /\ Insertable(j)
  /\ rows' = [rows EXCEPT ![j] = InsertedRow(sample[w])]
  /\ EndCall(w)
  /\ UNCHANGED <<clock, admitted, held, beat>>

\* enqueue_in_transaction: the clock is read inside the caller's transaction
EnqueueInTransaction(j) ==
  /\ Insertable(j)
  /\ rows' = [rows EXCEPT ![j] = InsertedRow(clock)]
  /\ UNCHANGED <<clock, admitted, held, sample, beat>>

AcceleratorIn(S) == {j \in Jobs : KindOf[j] = AcceleratorKind /\ rows[j].status \in S}

DayStillOpen(day) == admitted[day] <= MaxDailyTasks      \* faulty: <= for <

DayHasRoom(day) == admitted[day] < MaxDailyTasks

\* enqueue_accelerator
EnqueueAccelerator(w, j) ==
  LET day == sample[w] \div DayLength
  IN /\ InCall(w)
     /\ KindOf[j] = AcceleratorKind
     /\ rows[j].status = "absent"
     /\ Cardinality(AcceleratorIn(Queued)) < MaxQueueDepth
     /\ DayHasRoom(day)
     /\ rows' = [rows EXCEPT ![j] = InsertedRow(sample[w])]
     /\ admitted' = [admitted EXCEPT ![day] = @ + 1]
     /\ EndCall(w)
     /\ UNCHANGED <<clock, held, beat>>

\* _claim_row for every job of S, after the recovery that gave the table R
Grant(w, R, S) ==
  /\ rows' = [j \in Jobs |-> IF j \in S THEN ClaimedRow(R[j], sample[w]) ELSE R[j]]
  /\ held' = [held EXCEPT ![w] = @ \cup {LeaseOn(rows', j) : j \in S}]
  /\ EndCall(w)
  /\ UNCHANGED <<clock, admitted, beat>>

\* claim: a job that is not claimable raises, which rolls the recovery back
Claim(w, j) ==
  LET R == Recovered(ProjectOf[j], sample[w])
  IN /\ InCall(w)
     /\ KindOf[j] # AcceleratorKind
     /\ Due(R[j], sample[w])
     /\ Grant(w, R, {j})

\* claim_next: finding nothing commits the recovery all the same
ClaimNext(w, p, k) ==
  LET R == Recovered(p, sample[w])
      due == {j \in Jobs : ProjectOf[j] = p /\ KindOf[j] = k /\ Due(R[j], sample[w])}
  IN /\ InCall(w)
     /\ \/ due = {} /\ Grant(w, R, {})
        \/ \E j \in due : IsFirst(R, j, due) /\ Grant(w, R, {j})

\* claim_next_accelerator
ForegroundPending(R) ==
  \E j \in Jobs : /\ KindOf[j] # AcceleratorKind
                  /\ R[j].status \in Queued \cup {"leased"}
                  /\ PriorityOf[j] >= PriorityFloor

ClaimNextAccelerator(w, p) ==
  LET R == Recovered(AnyProject, sample[w])
      active == {j \in Jobs : KindOf[j] = AcceleratorKind /\ R[j].status = "leased"}
      due == {j \in Jobs : /\ ProjectOf[j] = p
                           /\ KindOf[j] = AcceleratorKind
                           /\ Due(R[j], sample[w])}
      deferred == \/ ForegroundPending(R)
                  \/ Cardinality(active) >= MaxConcurrency
                  \/ due = {}
  IN /\ InCall(w)
     /\ \/ deferred /\ Grant(w, R, {})
        \/ /\ ~deferred
           /\ \E j \in due : IsFirst(R, j, due) /\ Grant(w, R, {j})

\* claim_batch: the partition that is ready, then its first BatchLimit jobs
Partition(j) == <<ProjectOf[j], KindOf[j], ScopeOf[j]>>

Top(P) == Max({PriorityOf[j] : j \in P})

Oldest(R, P) == Min({R[j].created_at : j \in P})

ReadyWhenFull(R, P, now) == Cardinality(P) >= MinBatchSize      \* faulty: no max_wait

ReadyPartition(R, P, now) ==
  /\ P # {}
  /\ \/ Cardinality(P) >= MinBatchSize
     \/ Oldest(R, P) <= now - MaxWait

PartitionBefore(R, P, Q) ==
  \/ Top(P) > Top(Q)
  \/ Top(P) = Top(Q) /\ Oldest(R, P) < Oldest(R, Q)

IsBatch(R, P, S) ==
  /\ S \subseteq P
  /\ IF Cardinality(P) <= BatchLimit THEN S = P ELSE Cardinality(S) = BatchLimit
  /\ \A j \in S, i \in P \ S : ~Before(R, i, j)

ClaimBatch(w, k) ==
  LET R == Recovered(AnyProject, sample[w])
      due == {j \in Jobs : KindOf[j] = k /\ Due(R[j], sample[w])}
      ready == {P \in {{i \in due : Partition(i) = Partition(j)} : j \in due} :
                  ReadyPartition(R, P, sample[w])}
  IN /\ InCall(w)
     /\ \/ ready = {} /\ Grant(w, R, {})
        \/ \E P \in ready : /\ \A Q \in ready : ~PartitionBefore(R, Q, P)
                            /\ \E S \in SUBSET P : IsBatch(R, P, S) /\ Grant(w, R, S)

\* recover_expired
RecoverExpired(w, p) ==
  /\ InCall(w)
  /\ Grant(w, Recovered(p, sample[w]), {})

\* fail
Fail(w, l, retryable, delay) ==
  /\ InCall(w)
  /\ l \in held[w]
  /\ ValidLease(l, sample[w])
  /\ rows' = [rows EXCEPT ![l.job] =
               FailedRow(@, MaxAttemptsOf[l.job], sample[w], retryable, delay)]
  /\ held' = [held EXCEPT ![w] = @ \ {l}]
  /\ EndCall(w)
  /\ UNCHANGED <<clock, admitted, beat>>

\* complete, and complete_in_transaction for the leases of one batch, which
\* commit together or not at all; both read the clock inside the transaction
Complete(w, L) ==
  /\ ~InCall(w)
  /\ \A l \in L : ValidLease(l, clock)
  /\ rows' = [j \in Jobs |-> IF \E l \in L : l.job = j
                               THEN CompletedRow(rows[j], clock)
                               ELSE rows[j]]
  /\ held' = [held EXCEPT ![w] = @ \ L]
  /\ UNCHANGED <<clock, admitted, sample, beat>>

\* The worker drops a lease it could not settle (_fail_leases swallows the
\* error) and leaves it to expire
GiveUp(w, l) ==
  /\ ~InCall(w)
  /\ l \in held[w]
  /\ held' = [held EXCEPT ![w] = @ \ {l}]
  /\ UNCHANGED <<clock, rows, admitted, sample, beat>>

\* renew_lease, called by the heartbeat thread of the worker that has the lease
SampleBeat(w, l) ==
  /\ beat[w] = {}
  /\ l \in held[w]
  /\ beat' = [beat EXCEPT ![w] = {[lease |-> l, now |-> clock]}]
  /\ UNCHANGED <<clock, rows, admitted, held, sample>>

Renew(w, call) ==
  /\ call \in beat[w]
  /\ ValidLease(call.lease, call.now)
  /\ rows' = [rows EXCEPT ![call.lease.job].lease_expires_at = call.now + LeaseSeconds]
  /\ beat' = [beat EXCEPT ![w] = {}]
  /\ UNCHANGED <<clock, admitted, held, sample>>

ReturnBeat(w) ==
  /\ beat[w] # {}
  /\ beat' = [beat EXCEPT ![w] = {}]
  /\ UNCHANGED <<clock, rows, admitted, held, sample>>

\* The worker's process dies and restarts; the database survives
Crash(w) ==
  /\ held[w] # {} \/ InCall(w) \/ beat[w] # {}
  /\ held' = [held EXCEPT ![w] = {}]
  /\ sample' = [sample EXCEPT ![w] = NULL]
  /\ beat' = [beat EXCEPT ![w] = {}]
  /\ UNCHANGED <<clock, rows, admitted>>

-----------------------------------------------------------------------------
Projects == {ProjectOf[j] : j \in Jobs}
ForegroundKinds == {KindOf[j] : j \in Jobs} \ {AcceleratorKind}

Admission ==
  \E j \in Jobs : \/ EnqueueInTransaction(j)
                  \/ \E w \in Workers : Enqueue(w, j) \/ EnqueueAccelerator(w, j)

Claiming(w) ==
  \/ \E j \in Jobs : Claim(w, j)
  \/ \E p \in Projects : ClaimNextAccelerator(w, p)
  \/ \E p \in Projects, k \in ForegroundKinds : ClaimNext(w, p, k)
  \/ \E k \in ForegroundKinds : ClaimBatch(w, k)

Settling(w) ==
  \/ \E L \in SUBSET held[w] \ {{}} : Complete(w, L)
  \/ \E l \in held[w], retryable \in BOOLEAN, delay \in RetryDelays :
       Fail(w, l, retryable, delay)
  \/ \E l \in held[w] : GiveUp(w, l)

Heartbeat(w) ==
  \/ \E l \in held[w] : SampleBeat(w, l)
  \/ \E call \in beat[w] : Renew(w, call)
  \/ ReturnBeat(w)

Next ==
  \/ Tick
  \/ Admission
  \/ \E w \in Workers :
       \/ Sample(w)
       \/ Return(w)
       \/ Claiming(w)
       \/ \E p \in Projects \cup {AnyProject} : RecoverExpired(w, p)
       \/ Settling(w)
       \/ Heartbeat(w)
       \/ Crash(w)

Spec == Init /\ [][Next]_vars

-----------------------------------------------------------------------------
Call == [lease: Lease, now: Nat]

(***************************************************************************)
(* The tables hold rows of their schema, and what is in flight is a lease  *)
(* of some job and a clock reading.                                        *)
(***************************************************************************)
TypeOK ==
  /\ clock \in 0 .. MaxClock
  /\ rows \in [Jobs -> JobRow]
  /\ admitted \in [0 .. MaxClock \div DayLength -> Nat]
  /\ held \in [Workers -> SUBSET Lease]
  /\ sample \in [Workers -> 0 .. MaxClock \cup {NULL}]
  /\ beat \in [Workers -> SUBSET Call]

Granted(r) == r.attempt_count + (IF r.status \in {"leased", "completed"} THEN 1 ELSE 0)

(***************************************************************************)
(* Every lease a job was ever granted is accounted for: each one that did  *)
(* not end in completion cost an attempt, on every path (fail, expiry,     *)
(* crash), no job is granted more leases than max_attempts, and one that   *)
(* waits has an attempt left.                                              *)
(***************************************************************************)
EveryLeaseIsAccounted ==
  \A j \in Jobs :
    /\ rows[j].fencing_generation = Granted(rows[j])
    /\ rows[j].fencing_generation <= MaxAttemptsOf[j]
    /\ rows[j].status \in Queued => rows[j].attempt_count < MaxAttemptsOf[j]

(***************************************************************************)
(* The attempts ledger and the queue agree: one attempt per generation,    *)
(* open exactly for the lease that is live.                                *)
(***************************************************************************)
LedgerMatchesQueue ==
  \A j \in Jobs :
    LET r == rows[j]
    IN /\ {a.generation : a \in r.attempts} = 1 .. r.fencing_generation
       /\ \A a, b \in r.attempts : a.generation = b.generation => a = b
       /\ \A a \in r.attempts :
            (a.finished_at = NULL) <=> (r.status = "leased"
                                        /\ a.generation = r.fencing_generation)

(***************************************************************************)
(* Attempts of one job do not overlap in recorded time, although claims,   *)
(* failures and recoveries decide with clock readings that may be older    *)
(* than transactions already committed.                                    *)
(***************************************************************************)
AttemptsDoNotOverlap ==
  \A j \in Jobs : \A a, b \in rows[j].attempts :
    /\ a.finished_at # NULL => a.claimed_at <= a.finished_at
    /\ a.generation < b.generation => a.finished_at <= b.claimed_at

Usable(l) ==
  rows[l.job].status = "leased" /\ rows[l.job].fencing_generation = l.generation

(***************************************************************************)
(* At most one of the capabilities in workers' hands is accepted by the    *)
(* store, whatever clock reading it is used with.                          *)
(***************************************************************************)
SingleHolder ==
  \A v, w \in Workers : \A k \in held[v], l \in held[w] :
    k.job = l.job /\ Usable(k) /\ Usable(l) => v = w /\ k = l

(***************************************************************************)
(* Background work in the store never exceeds its budgets: leases stay     *)
(* under the concurrency limit, admissions of a day under the daily limit, *)
(* and the backlog, which recovery and retries can push above the queue    *)
(* depth, under queue depth plus concurrency.                              *)
(***************************************************************************)
AcceleratorWithinBudget ==
  /\ Cardinality(AcceleratorIn({"leased"})) <= MaxConcurrency
  /\ Cardinality(AcceleratorIn(Queued \cup {"leased"})) <= MaxQueueDepth + MaxConcurrency
  /\ \A day \in DOMAIN admitted :
       /\ admitted[day] <= MaxDailyTasks
       /\ admitted[day] = Cardinality({j \in AcceleratorIn(Statuses) :
                                         rows[j].created_at \div DayLength = day})

(***************************************************************************)
(* A lease that has not expired on the clock is ended by nobody but the    *)
(* worker that has it.                                                     *)
(***************************************************************************)
LiveLeaseIsNotTaken ==
  [][\A j \in Jobs :
       /\ rows[j].status = "leased" /\ rows[j].lease_expires_at > clock
       /\ rows'[j].status # "leased" \/ rows'[j].fencing_generation # rows[j].fencing_generation
       => \E w \in Workers : LeaseOn(rows, j) \in held[w] \ held'[w]]_vars

(***************************************************************************)
(* A completed or dead job never changes again: no stale worker, recovery  *)
(* or retry reaches it.                                                    *)
(***************************************************************************)
SettledIsFinal ==
  [][\A j \in Jobs : rows[j].status \in {"completed", "dead"} => rows'[j] = rows[j]]_vars

(***************************************************************************)
(* The store implements FencedWork: the phase is the status, the grants    *)
(* are the fencing generation, and the winner is the attempt the ledger    *)
(* closed as completed.                                                    *)
(***************************************************************************)
PhaseOf(r) ==
  CASE r.status \in Queued -> "open"
    [] r.status = "leased" -> "granted"
    [] r.status = "completed" -> "done"
    [] OTHER -> r.status

WinnerOf(r) ==
  LET won == {a.generation : a \in {b \in r.attempts : b.disposition = "completed"}}
  IN IF won = {} THEN 0 ELSE Max(won)

Fenced == INSTANCE FencedWork WITH
  MaxGrants <- MaxAttemptsOf,
  phase <- [j \in Jobs |-> PhaseOf(rows[j])],
  grants <- [j \in Jobs |-> rows[j].fencing_generation],
  winner <- [j \in Jobs |-> WinnerOf(rows[j])]

(* At-least-once work, exactly-once transition (class docstring of         *)
(* DerivedWorkStore): the queue with its clock, its stale readings and its *)
(* crashes behaves like the abstract one.                                  *)
ImplementsFencedWork == Fenced!Spec
=============================================================================

--------------------------- MODULE InferenceJobs ---------------------------
(***************************************************************************)
(* InferenceJobStore (plastic_promise/core/inference_jobs.py): the SQLite  *)
(* store behind the gateway's asynchronous rerank requests.  A request     *)
(* reserves its idempotency key, prepares under a short lease, and         *)
(* finalizes the reservation into one durable job, which an executor then  *)
(* leases, renews and completes or fails.                                  *)
(*                                                                         *)
(* Every operation is one BEGIN IMMEDIATE transaction that reads the clock *)
(* once it holds the lock, and starts by refreshing the deadlines and      *)
(* deleting what retention has done with.  A refused operation commits     *)
(* that maintenance, which is ExpireDue here, or rolls it back.            *)
(*                                                                         *)
(* One project is modelled: every statement is scoped by project_id.  A    *)
(* request stands for a request hash with its target, an execution for an  *)
(* execution hash; sizes in bytes and the LIMIT of a cleanup batch (1000   *)
(* rows) are left out.                                                     *)
(***************************************************************************)
EXTENDS Integers, FiniteSets

CONSTANTS
  Keys,                 \* idempotency keys
  Executions, RequestOf,    \* what a job may run, and the request it is for
  JobIds, Tokens,       \* random ids and capabilities
  Ttls,                 \* ttl_seconds of a submission
  LeaseSeconds, RetentionSeconds,
  MaxActiveJobs, MaxRetainedRows,
  MaxClock              \* bound: the clock stops here

NONE == "none"      \* SQL NULL; 0 where the column is a time

ASSUME IdAssumption ==
  /\ NONE \notin JobIds /\ NONE \notin Tokens
  /\ IsFiniteSet(Keys) /\ IsFiniteSet(JobIds)

ASSUME DurationAssumption ==
  /\ Ttls \subseteq Nat \ {0}
  /\ LeaseSeconds \in Nat \ {0}
  /\ RetentionSeconds \in Nat \ {0}

ASSUME QuotaAssumption ==
  /\ MaxActiveJobs \in Nat \ {0}
  /\ MaxRetainedRows \in Nat \ {0}
  /\ MaxClock \in Nat

VARIABLES
  clock,          \* the host's UTC clock
  reservations,   \* table inference_rerank_reservations, one row per key
  jobs,           \* table inference_rerank_jobs
  preparing,      \* reservation tokens in the hands of preparing requests
  executing       \* leases in the hands of executors

vars == <<clock, reservations, jobs, preparing, executing>>

Requests == {RequestOf[e] : e \in Executions}
ActiveJob == {"pending", "leased"}

Reservation ==
  [status: {"absent", "reserved", "finalized", "released", "expired"},
   request: Requests \cup {NONE}, token: Tokens \cup {NONE}, job: JobIds \cup {NONE},
   expires_at: Nat, lease_expires_at: Nat, updated_at: Nat]

AbsentReservation ==
  [status |-> "absent", request |-> NONE, token |-> NONE, job |-> NONE,
   expires_at |-> 0, lease_expires_at |-> 0, updated_at |-> 0]

\* key and execution of a row never change
Job ==
  [status: {"absent", "completed", "expired"} \cup ActiveJob,
   key: Keys \cup {NONE}, execution: Executions \cup {NONE}, token: Tokens \cup {NONE},
   expires_at: Nat, lease_expires_at: Nat, completed_at: Nat]

AbsentJob ==
  [status |-> "absent", key |-> NONE, execution |-> NONE, token |-> NONE,
   expires_at |-> 0, lease_expires_at |-> 0, completed_at |-> 0]

Min2(a, b) == IF a <= b THEN a ELSE b

Unleased(row, status) ==
  [row EXCEPT !.status = status, !.token = NONE, !.lease_expires_at = 0]

(***************************************************************************)
(* Maintenance (_maintain_project): deadlines, then retention.             *)
(***************************************************************************)
\* _refresh_due, and _refresh_job for one row
RefreshedJob(r, now) ==
  IF r.status \in ActiveJob /\ r.expires_at <= now THEN Unleased(r, "expired")
  ELSE IF r.status = "leased" /\ r.lease_expires_at <= now THEN Unleased(r, "pending")
  ELSE r

\* _refresh_reservations
RefreshedReservation(r, now) ==
  IF r.status = "reserved" /\ (r.expires_at <= now \/ r.lease_expires_at <= now)
    THEN Unleased(r, "expired")
    ELSE r

JobElapsed(r, cutoff) ==
  \/ r.status = "completed" /\ r.completed_at <= cutoff
  \/ r.status = "expired" /\ r.expires_at <= cutoff

ReservationElapsed(r, cutoff) ==
  \/ r.status = "expired" /\ r.expires_at <= cutoff
  \/ r.status \in {"finalized", "released"} /\ r.updated_at <= cutoff

JobIsActive(r, now, cutoff) ==      \* faulty: a finished job's key is let go
  r.status = "finalized" /\ \E j \in JobIds : j = r.job /\ jobs[j].status \in ActiveJob

\* A finalized reservation stays as long as its job does
JobIsRetained(r, now, cutoff) ==
  /\ r.status = "finalized"
  /\ \E j \in JobIds : LET job == RefreshedJob(jobs[j], now)
                       IN /\ j = r.job
                          /\ job.status # "absent"
                          /\ ~JobElapsed(job, cutoff)

\* _cleanup_retained: reservations first, then the jobs none of them names
KeptReservations(now) ==
  LET cutoff == now - RetentionSeconds
  IN [k \in Keys |->
        LET r == RefreshedReservation(reservations[k], now)
        IN IF ReservationElapsed(r, cutoff) /\ ~JobIsRetained(r, now, cutoff)
             THEN AbsentReservation
             ELSE r]

Named(R, j) == \E k \in Keys : R[k].job = j

KeptJobsByAge(now) ==      \* faulty: no look at the reservations
  [j \in JobIds |->
     LET job == RefreshedJob(jobs[j], now)
     IN IF JobElapsed(job, now - RetentionSeconds) THEN AbsentJob ELSE job]

KeptJobs(now) ==
  LET cutoff == now - RetentionSeconds
  IN [j \in JobIds |->
        LET job == RefreshedJob(jobs[j], now)
        IN IF JobElapsed(job, cutoff) /\ ~Named(KeptReservations(now), j)
             THEN AbsentJob
             ELSE job]

(***************************************************************************)
(* Quotas.                                                                 *)
(***************************************************************************)
Reserved(R) == {k \in Keys : R[k].status = "reserved"}
Working(J) == {j \in JobIds : J[j].status \in ActiveJob}
StoredReservations(R) == {k \in Keys : R[k].status # "absent"}
StoredJobs(J) == {j \in JobIds : J[j].status # "absent"}

CapacityForJobs(R, J) == Cardinality(Working(J)) < MaxActiveJobs      \* faulty

\* _ensure_project_capacity
HasCapacity(R, J) == Cardinality(Working(J)) + Cardinality(Reserved(R)) < MaxActiveJobs

\* _ensure_project_storage
HasRoom(R, J, rows) ==
  Cardinality(StoredReservations(R)) + Cardinality(StoredJobs(J)) + rows <= MaxRetainedRows

-----------------------------------------------------------------------------
Init ==
  /\ clock = 0
  /\ reservations = [k \in Keys |-> AbsentReservation]
  /\ jobs = [j \in JobIds |-> AbsentJob]
  /\ preparing = {}
  /\ executing = {}

Tick ==
  /\ clock < MaxClock
  /\ clock' = clock + 1
  /\ UNCHANGED <<reservations, jobs, preparing, executing>>

\* uuid4 and token_urlsafe return what nobody has
FreshJob(j) == /\ jobs[j].status = "absent"
               /\ \A l \in executing : l.job # j

FreshToken(token) ==
  /\ \A c \in preparing \cup executing : c.token # token
  /\ \A k \in Keys : reservations[k].token # token
  /\ \A j \in JobIds : jobs[j].token # token

InsertedJob(k, e, ttl) ==
  [status |-> "pending", key |-> k, execution |-> e, token |-> NONE,
   expires_at |-> clock + ttl, lease_expires_at |-> 0, completed_at |-> 0]

FreshDeadline(r, ttl) == clock + ttl      \* faulty: the TTL starts again

\* An expired key whose TTL has not run out keeps its deadline
TakeoverDeadline(r, ttl) ==
  IF r.status = "expired" /\ r.expires_at > clock THEN r.expires_at ELSE clock + ttl

\* reserve_submission, when it answers "reserved"; a key that is finalized or
\* being prepared, or that belongs to another request, is refused
ReserveSubmission(k, q, ttl, token) ==
  LET R == KeptReservations(clock)
      J == KeptJobs(clock)
      deadline == TakeoverDeadline(R[k], ttl)
  IN /\ R[k].status \in {"absent", "released", "expired"}
     /\ R[k].status # "absent" => R[k].request = q
     /\ HasCapacity(R, J)
     /\ HasRoom(R, J, IF R[k].status = "absent" THEN 1 ELSE 0)
     /\ FreshToken(token)
     /\ reservations' = [R EXCEPT ![k] =
          [status |-> "reserved", request |-> q, token |-> token, job |-> NONE,
           expires_at |-> deadline,
           lease_expires_at |-> Min2(clock + LeaseSeconds, deadline), updated_at |-> clock]]
     /\ jobs' = J
     /\ preparing' = preparing \cup {[key |-> k, token |-> token]}
     /\ UNCHANGED <<clock, executing>>

PreparesByStatus(R, c) == R[c.key].status = "reserved"      \* faulty: any token

\* The token is the reservation's; maintenance has expired it if it is late
Prepares(R, c) == R[c.key].status = "reserved" /\ R[c.key].token = c.token

\* renew_submission
RenewSubmission(c) ==
  LET R == KeptReservations(clock)
  IN /\ c \in preparing
     /\ Prepares(R, c)
     /\ reservations' = [R EXCEPT
          ![c.key].lease_expires_at = Min2(clock + LeaseSeconds, R[c.key].expires_at),
          ![c.key].updated_at = clock]
     /\ jobs' = KeptJobs(clock)
     /\ UNCHANGED <<clock, preparing, executing>>

FinalizedReservation(r, j) ==
  [Unleased(r, "finalized") EXCEPT !.job = j, !.updated_at = clock]

\* finalize_submission: binds the key's job if it has one, else inserts it
FinalizeSubmission(c, e, ttl, j) ==
  LET R == KeptReservations(clock)
      J == KeptJobs(clock)
      remaining == R[c.key].expires_at - clock
  IN /\ c \in preparing
     /\ Prepares(R, c)
     /\ RequestOf[e] = R[c.key].request
     /\ \/ /\ J[j].status # "absent"
           /\ J[j].key = c.key
           /\ J[j].execution = e
           /\ jobs' = J
        \/ /\ \A i \in JobIds : J[i].key # c.key
           /\ FreshJob(j)
           /\ HasRoom(R, J, 1)
           /\ jobs' = [J EXCEPT ![j] = InsertedJob(c.key, e, Min2(ttl, remaining))]
     /\ reservations' = [R EXCEPT ![c.key] = FinalizedReservation(@, j)]
     /\ preparing' = preparing \ {c}
     /\ UNCHANGED <<clock, executing>>

\* release_submission: preparation failed
ReleaseSubmission(c) ==
  LET R == KeptReservations(clock)
  IN /\ c \in preparing
     /\ Prepares(R, c)
     /\ reservations' = [R EXCEPT ![c.key] =
                          [Unleased(@, "released") EXCEPT !.updated_at = clock]]
     /\ jobs' = KeptJobs(clock)
     /\ preparing' = preparing \ {c}
     /\ UNCHANGED <<clock, executing>>

\* create_or_get for a key without a job: no reservation is asked for
CreateOrGet(k, e, ttl, j) ==
  LET R == KeptReservations(clock)
      J == KeptJobs(clock)
  IN /\ \A i \in JobIds : J[i].key # k
     /\ FreshJob(j)
     /\ HasCapacity(R, J)
     /\ HasRoom(R, J, 1)
     /\ reservations' = R
     /\ jobs' = [J EXCEPT ![j] = InsertedJob(k, e, ttl)]
     /\ UNCHANGED <<clock, preparing, executing>>

LeasedJob(r, token) ==
  [r EXCEPT !.status = "leased", !.token = token,
            !.lease_expires_at = Min2(clock + LeaseSeconds, r.expires_at)]

\* claim, and claim_next, whose oldest pending job is one of these
Claim(j, token) ==
  LET J == KeptJobs(clock)
  IN /\ J[j].status = "pending"
     /\ FreshToken(token)
     /\ reservations' = KeptReservations(clock)
     /\ jobs' = [J EXCEPT ![j] = LeasedJob(@, token)]
     /\ executing' = executing \cup {[job |-> j, token |-> token]}
     /\ UNCHANGED <<clock, preparing>>

ExecutesUnlessExpired(J, l) ==      \* faulty: no compare-and-set
  J[l.job].status # "expired"

Executes(J, l) == J[l.job].status = "leased" /\ J[l.job].token = l.token

\* renew_lease
RenewLease(l) ==
  LET J == KeptJobs(clock)
  IN /\ l \in executing
     /\ Executes(J, l)
     /\ reservations' = KeptReservations(clock)
     /\ jobs' = [J EXCEPT ![l.job].lease_expires_at =
                             Min2(clock + LeaseSeconds, J[l.job].expires_at)]
     /\ UNCHANGED <<clock, preparing, executing>>

\* complete
Complete(l) ==
  LET J == KeptJobs(clock)
  IN /\ l \in executing
     /\ Executes(J, l)
     /\ reservations' = KeptReservations(clock)
     /\ jobs' = [J EXCEPT ![l.job] =
                  [Unleased(@, "completed") EXCEPT !.completed_at = clock]]
     /\ executing' = executing \ {l}
     /\ UNCHANGED <<clock, preparing>>

\* A failed job is an expired one with a failure code
FailedJob(r) == Unleased(r, "expired")

\* fail
Fail(l) ==
  LET J == KeptJobs(clock)
  IN /\ l \in executing
     /\ Executes(J, l)
     /\ reservations' = KeptReservations(clock)
     /\ jobs' = [J EXCEPT ![l.job] = FailedJob(@)]
     /\ executing' = executing \ {l}
     /\ UNCHANGED <<clock, preparing>>

\* expire_due, cleanup_retained, and every refusal that commits maintenance
ExpireDue ==
  /\ reservations' = KeptReservations(clock)
  /\ jobs' = KeptJobs(clock)
  /\ UNCHANGED <<clock, preparing, executing>>

\* get refreshes the one job it reads, get_reservation the reservations
Get(j) ==
  /\ jobs' = [jobs EXCEPT ![j] = RefreshedJob(@, clock)]
  /\ UNCHANGED <<clock, reservations, preparing, executing>>

GetReservation ==
  /\ reservations' = [k \in Keys |-> RefreshedReservation(reservations[k], clock)]
  /\ UNCHANGED <<clock, jobs, preparing, executing>>

\* The gateway's task dies, or drops a capability the store refused
DropReservation(c) ==
  /\ c \in preparing
  /\ preparing' = preparing \ {c}
  /\ UNCHANGED <<clock, reservations, jobs, executing>>

DropLease(l) ==
  /\ l \in executing
  /\ executing' = executing \ {l}
  /\ UNCHANGED <<clock, reservations, jobs, preparing>>

-----------------------------------------------------------------------------
Submitting ==
  \/ \E k \in Keys, q \in Requests, ttl \in Ttls, token \in Tokens :
       ReserveSubmission(k, q, ttl, token)
  \/ \E k \in Keys, e \in Executions, ttl \in Ttls, j \in JobIds : CreateOrGet(k, e, ttl, j)
  \/ \E c \in preparing :
       \/ RenewSubmission(c)
       \/ ReleaseSubmission(c)
       \/ DropReservation(c)
       \/ \E e \in Executions, ttl \in Ttls, j \in JobIds : FinalizeSubmission(c, e, ttl, j)

Executing ==
  \/ \E j \in JobIds, token \in Tokens : Claim(j, token)
  \/ \E l \in executing : RenewLease(l) \/ Complete(l) \/ Fail(l) \/ DropLease(l)

Reading == GetReservation \/ \E j \in JobIds : Get(j)

Next == Tick \/ Submitting \/ Executing \/ ExpireDue \/ Reading

Spec == Init /\ [][Next]_vars

-----------------------------------------------------------------------------
Preparation == [key: Keys, token: Tokens]
Lease == [job: JobIds, token: Tokens]

(***************************************************************************)
(* The tables hold rows of their schema, whose status column is checked,   *)
(* and every capability in flight names a key or job and a token.          *)
(***************************************************************************)
TypeOK ==
  /\ clock \in 0 .. MaxClock
  /\ reservations \in [Keys -> Reservation]
  /\ jobs \in [JobIds -> Job]
  /\ preparing \subseteq Preparation
  /\ executing \subseteq Lease

(***************************************************************************)
(* Active jobs and preparations together stay under max_active_jobs, and   *)
(* stored rows under the retained rows limit: finalizing, which asks for   *)
(* no capacity of its own, hands on the slot the reservation held, and     *)
(* taking over an expired key claims its slot afresh.                      *)
(***************************************************************************)
WithinQuota ==
  /\ Cardinality(Working(jobs)) + Cardinality(Reserved(reservations)) <= MaxActiveJobs
  /\ HasRoom(reservations, jobs, 0)

(***************************************************************************)
(* A finalized key leads to its job: retention, which deletes the two rows *)
(* by different clocks, never leaves a key that answers "existing" without *)
(* the job of that key and that request.                                   *)
(***************************************************************************)
FinalizedNamesItsJob ==
  \A k \in Keys :
    reservations[k].status = "finalized" =>
      \E j \in JobIds : /\ j = reservations[k].job
                        /\ jobs[j].status # "absent"
                        /\ jobs[j].key = k
                        /\ RequestOf[jobs[j].execution] = reservations[k].request

(***************************************************************************)
(* While its lease is live, a preparation or an execution is ended by the  *)
(* holder of the token only: no retry, takeover or reader interferes.      *)
(***************************************************************************)
LiveLeaseKept ==
  [][/\ \A k \in Keys :
          LET r == reservations[k]
          IN r.status = "reserved" /\ r.lease_expires_at > clock =>
               \/ reservations'[k].status = "reserved" /\ reservations'[k].token = r.token
               \/ [key |-> k, token |-> r.token] \in preparing \ preparing'
     /\ \A j \in JobIds :
          LET r == jobs[j]
          IN r.status = "leased" /\ r.lease_expires_at > clock =>
               \/ jobs'[j].status = "leased" /\ jobs'[j].token = r.token
               \/ [job |-> j, token |-> r.token] \in executing \ executing']_vars

(***************************************************************************)
(* The first completion wins: a stored result is never changed, and it is  *)
(* kept for the retention time.                                            *)
(***************************************************************************)
ResultStands ==
  [][\A j \in JobIds :
       jobs[j].status = "completed" =>
         \/ jobs'[j] = jobs[j]
         \/ jobs'[j].status = "absent" /\ jobs[j].completed_at + RetentionSeconds <= clock]_vars

(***************************************************************************)
(* A retry finds its key for as long as the job matters: a finalized key   *)
(* is forgotten only when its job has ended and been retained.             *)
(***************************************************************************)
KeyOutlivesJob ==
  [][\A k \in Keys, j \in JobIds :
       /\ reservations[k].status = "finalized" /\ reservations[k].job = j
       /\ reservations'[k].status # "finalized"
       => \/ jobs'[j].status = "absent"
          \/ JobElapsed(jobs'[j], clock - RetentionSeconds)]_vars

(***************************************************************************)
(* "The overall job TTL remains stable" (renew_submission): takeovers and  *)
(* renewals do not move the deadline of a key that has not reached it, and *)
(* the job made of it ends no later.                                       *)
(***************************************************************************)
DeadlineIsStable ==
  [][\A k \in Keys :
       /\ reservations[k].status \in {"reserved", "expired"}
       /\ reservations[k].expires_at > clock
       => /\ reservations'[k].expires_at = reservations[k].expires_at
          /\ \A j \in JobIds :
               jobs[j].status = "absent" /\ reservations'[k].job = j
               => jobs'[j].expires_at <= reservations[k].expires_at]_vars
=============================================================================

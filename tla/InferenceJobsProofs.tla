------------------------ MODULE InferenceJobsProofs ------------------------
(***************************************************************************)
(* Theorems about InferenceJobs, for any keys, executions, limits and      *)
(* durations.  Every operation starts with the same maintenance, so what   *)
(* that does to a row is proved first.                                     *)
(***************************************************************************)
EXTENDS InferenceJobs, FiniteSetTheorems, TLAPS

(* A row that loses its lease keeps its type and its other columns.        *)
LEMMA UnleasedJob ==
  ASSUME NEW r \in Job, NEW s \in {"absent", "completed", "expired"} \cup ActiveJob
  PROVE  /\ Unleased(r, s) \in Job
         /\ Unleased(r, s).status = s
         /\ Unleased(r, s).token = NONE
         /\ Unleased(r, s).key = r.key
         /\ Unleased(r, s).execution = r.execution
         /\ Unleased(r, s).expires_at = r.expires_at
         /\ Unleased(r, s).completed_at = r.completed_at
BY DEF Unleased, Job

(* The same of a reservation.                                              *)
LEMMA UnleasedReservation ==
  ASSUME NEW r \in Reservation,
         NEW s \in {"absent", "reserved", "finalized", "released", "expired"}
  PROVE  /\ Unleased(r, s) \in Reservation
         /\ Unleased(r, s).status = s
         /\ Unleased(r, s).request = r.request
         /\ Unleased(r, s).job = r.job
         /\ Unleased(r, s).expires_at = r.expires_at
BY DEF Unleased, Reservation

(* Deadlines (_refresh_due) only end what is active and due.               *)
LEMMA RefreshedJobRow ==
  ASSUME NEW r \in Job, NEW now \in Nat
  PROVE  LET q == RefreshedJob(r, now)
         IN /\ q \in Job
            /\ q.key = r.key /\ q.execution = r.execution
            /\ q.expires_at = r.expires_at /\ q.completed_at = r.completed_at
            /\ r.status \notin ActiveJob => q = r
            /\ r.status \in ActiveJob => q.status \in ActiveJob \cup {"expired"}
            /\ q.status \in ActiveJob => q.expires_at > now
            /\ q.status = "leased" => q = r
            /\ r.status = "leased" /\ r.lease_expires_at > now /\ r.expires_at > now => q = r
<1> DEFINE q == RefreshedJob(r, now)
<1>0. /\ "expired" \in {"absent", "completed", "expired"} \cup ActiveJob
      /\ "pending" \in {"absent", "completed", "expired"} \cup ActiveJob
      /\ "pending" \in ActiveJob /\ "leased" \in ActiveJob /\ "expired" \notin ActiveJob
      /\ r.expires_at \in Nat /\ r.lease_expires_at \in Nat
  BY DEF ActiveJob, Job
<1>1. CASE r.status \in ActiveJob /\ r.expires_at <= now
  <2>1. q = Unleased(r, "expired")
    BY <1>1 DEF RefreshedJob
  <2> QED
    BY <1>0, <1>1, <2>1, UnleasedJob
<1>2. CASE /\ ~(r.status \in ActiveJob /\ r.expires_at <= now)
           /\ r.status = "leased" /\ r.lease_expires_at <= now
  <2>1. q = Unleased(r, "pending")
    BY <1>2 DEF RefreshedJob
  <2> QED
    BY <1>0, <1>2, <2>1, UnleasedJob
<1>3. CASE /\ ~(r.status \in ActiveJob /\ r.expires_at <= now)
           /\ ~(r.status = "leased" /\ r.lease_expires_at <= now)
  <2>1. q = r
    BY <1>3 DEF RefreshedJob
  <2> QED
    BY <1>0, <1>3, <2>1
<1> QED
  BY <1>1, <1>2, <1>3

(* So does _refresh_reservations.                                          *)
LEMMA RefreshedReservationRow ==
  ASSUME NEW r \in Reservation, NEW now \in Nat
  PROVE  LET q == RefreshedReservation(r, now)
         IN /\ q \in Reservation
            /\ q.request = r.request /\ q.job = r.job /\ q.expires_at = r.expires_at
            /\ r.status # "reserved" => q = r
            /\ r.status = "reserved" => q = r \/ q.status = "expired"
            /\ q.status = "reserved" => /\ q = r
                                        /\ r.expires_at > now /\ r.lease_expires_at > now
            /\ r.lease_expires_at > now /\ r.expires_at > now => q = r
<1> DEFINE q == RefreshedReservation(r, now)
<1>0. r.expires_at \in Nat /\ r.lease_expires_at \in Nat
  BY DEF Reservation
<1>1. CASE r.status = "reserved" /\ (r.expires_at <= now \/ r.lease_expires_at <= now)
  <2>1. q = Unleased(r, "expired")
    BY <1>1 DEF RefreshedReservation
  <2> QED
    BY <1>0, <1>1, <2>1, UnleasedReservation
<1>2. CASE ~(r.status = "reserved" /\ (r.expires_at <= now \/ r.lease_expires_at <= now))
  <2>1. q = r
    BY <1>2 DEF RefreshedReservation
  <2> QED
    BY <1>0, <1>2, <2>1
<1> QED
  BY <1>1, <1>2

(* What retention keeps, or blanks.                                        *)
LEMMA KeptReservationRow ==
  ASSUME TypeOK, NEW k \in Keys
  PROVE  LET r == reservations[k]
             q == KeptReservations(clock)[k]
         IN /\ q = RefreshedReservation(r, clock) \/ q = AbsentReservation
            /\ q # RefreshedReservation(r, clock) =>
                 /\ ReservationElapsed(RefreshedReservation(r, clock), clock - RetentionSeconds)
                 /\ ~JobIsRetained(RefreshedReservation(r, clock), clock,
                                   clock - RetentionSeconds)
BY DEF KeptReservations

(* The same of jobs; a job some kept reservation names is kept.            *)
LEMMA KeptJobRow ==
  ASSUME TypeOK, NEW j \in JobIds
  PROVE  LET q == KeptJobs(clock)[j]
             r == RefreshedJob(jobs[j], clock)
         IN /\ q = r \/ q = AbsentJob
            /\ q # r => /\ JobElapsed(r, clock - RetentionSeconds)
                        /\ ~Named(KeptReservations(clock), j)
BY DEF KeptJobs

(***************************************************************************)
(* Maintenance as the operations see it: nothing comes to life, and what   *)
(* is still reserved, leased or finalized is untouched.                    *)
(***************************************************************************)
LEMMA Maintenance ==
  ASSUME TypeOK
  PROVE  LET R == KeptReservations(clock)
             J == KeptJobs(clock)
         IN /\ R \in [Keys -> Reservation]
            /\ J \in [JobIds -> Job]
            /\ \A k \in Keys :
                 /\ R[k].status \in {"reserved", "finalized", "released"} => R[k] = reservations[k]
                 /\ R[k].status = "reserved" => /\ R[k].expires_at > clock
                                                /\ R[k].lease_expires_at > clock
                 /\ R[k].status # "absent" => reservations[k].status # "absent"
            /\ \A j \in JobIds :
                 /\ J[j].status \in ActiveJob => jobs[j].status \in ActiveJob
                 /\ J[j].status = "leased" => J[j] = jobs[j]
                 /\ J[j].status # "absent" => /\ jobs[j].status # "absent"
                                              /\ J[j].key = jobs[j].key
                                              /\ J[j].execution = jobs[j].execution
                 /\ Named(R, j) /\ jobs[j].status # "absent" => J[j].status # "absent"
<1> DEFINE R == KeptReservations(clock)
           J == KeptJobs(clock)
<1>0. clock \in Nat
  BY DurationAssumption, QuotaAssumption DEF TypeOK
<1>1. AbsentReservation \in Reservation /\ AbsentReservation.status = "absent"
  BY DEF AbsentReservation, Reservation
<1>2. AbsentJob \in Job /\ AbsentJob.status = "absent"
  BY DEF AbsentJob, Job
<1>3. ASSUME NEW k \in Keys
      PROVE  /\ R[k] \in Reservation
             /\ R[k].status \in {"reserved", "finalized", "released"} => R[k] = reservations[k]
             /\ R[k].status = "reserved" => /\ R[k].expires_at > clock
                                            /\ R[k].lease_expires_at > clock
             /\ R[k].status # "absent" => reservations[k].status # "absent"
  <2>1. reservations[k] \in Reservation
    BY DEF TypeOK
  <2>2. R[k] = RefreshedReservation(reservations[k], clock) \/ R[k] = AbsentReservation
    BY KeptReservationRow
  <2> HIDE DEF R
  <2> QED
    BY <1>0, <1>1, <2>1, <2>2, RefreshedReservationRow
<1>4. ASSUME NEW j \in JobIds
      PROVE  /\ J[j] \in Job
             /\ J[j].status \in ActiveJob => jobs[j].status \in ActiveJob
             /\ J[j].status = "leased" => J[j] = jobs[j]
             /\ J[j].status # "absent" => /\ jobs[j].status # "absent"
                                          /\ J[j].key = jobs[j].key
                                          /\ J[j].execution = jobs[j].execution
             /\ Named(R, j) /\ jobs[j].status # "absent" => J[j].status # "absent"
  <2>1. jobs[j] \in Job
    BY DEF TypeOK
  <2>2. J[j] = RefreshedJob(jobs[j], clock) \/ J[j] = AbsentJob
    BY KeptJobRow
  <2>3. Named(R, j) => J[j] = RefreshedJob(jobs[j], clock)
    BY KeptJobRow
  <2>4. "absent" \notin ActiveJob /\ "leased" \in ActiveJob
    BY DEF ActiveJob
  <2> HIDE DEF R, J
  <2>5. jobs[j].status # "absent" => RefreshedJob(jobs[j], clock).status # "absent"
    BY <1>0, <2>1, <2>4, RefreshedJobRow
  <2>6. /\ RefreshedJob(jobs[j], clock).status \in ActiveJob => jobs[j].status \in ActiveJob
        /\ RefreshedJob(jobs[j], clock).status # "absent" => jobs[j].status # "absent"
    BY <1>0, <2>1, <2>4, RefreshedJobRow
  <2> QED
    BY <1>0, <1>2, <2>1, <2>2, <2>3, <2>4, <2>5, <2>6, RefreshedJobRow
<1>5. DOMAIN R = Keys /\ R = [k \in Keys |-> R[k]]
  BY DEF KeptReservations
<1>6. DOMAIN J = JobIds /\ J = [j \in JobIds |-> J[j]]
  BY DEF KeptJobs
<1> HIDE DEF R, J
<1>7. R \in [Keys -> Reservation] /\ J \in [JobIds -> Job]
  BY <1>3, <1>4, <1>5, <1>6
<1> QED
  BY <1>3, <1>4, <1>7 DEF R, J

-----------------------------------------------------------------------------
(* Rows the operations write have their types.                             *)
LEMMA WrittenRows ==
  ASSUME TypeOK
  PROVE  /\ \A k \in Keys, e \in Executions, ttl \in Nat : InsertedJob(k, e, ttl) \in Job
         /\ \A a, b \in Nat : Min2(a, b) \in Nat
         /\ \A r \in Reservation, j \in JobIds : FinalizedReservation(r, j) \in Reservation
         /\ \A r \in Reservation, ttl \in Ttls : TakeoverDeadline(r, ttl) \in Nat
         /\ \A r \in Job, token \in Tokens : LeasedJob(r, token) \in Job
         /\ clock \in Nat
<1>1. clock \in Nat /\ LeaseSeconds \in Nat /\ \A ttl \in Ttls : ttl \in Nat
  BY DurationAssumption, QuotaAssumption DEF TypeOK
<1>2. \A k \in Keys, e \in Executions, ttl \in Nat : InsertedJob(k, e, ttl) \in Job
  BY <1>1 DEF InsertedJob, Job, ActiveJob
<1>3. \A a, b \in Nat : Min2(a, b) \in Nat
  BY DEF Min2
<1>4. ASSUME NEW r \in Reservation, NEW j \in JobIds
      PROVE  FinalizedReservation(r, j) \in Reservation
  <2>1. Unleased(r, "finalized") \in Reservation
    BY UnleasedReservation
  <2> QED
    BY <1>1, <2>1 DEF FinalizedReservation, Reservation
<1>5. \A r \in Reservation, ttl \in Ttls : TakeoverDeadline(r, ttl) \in Nat
  BY <1>1 DEF TakeoverDeadline, Reservation
<1>6. ASSUME NEW r \in Job, NEW token \in Tokens
      PROVE  LeasedJob(r, token) \in Job
  <2>1. Min2(clock + LeaseSeconds, r.expires_at) \in Nat
    <3>1. r.expires_at \in Nat /\ clock + LeaseSeconds \in Nat
      BY <1>1 DEF Job
    <3> QED
      BY <1>3, <3>1
  <2> QED
    BY <2>1 DEF LeasedJob, Job, ActiveJob
<1> QED
  BY <1>1, <1>2, <1>3, <1>4, <1>5, <1>6

(* Every operation keeps the types of the tables.                          *)
LEMMA NextKeepsTypes ==
  ASSUME TypeOK, [Next]_vars
  PROVE  TypeOK'
<1> DEFINE R == KeptReservations(clock)
           J == KeptJobs(clock)
<1>0. /\ R \in [Keys -> Reservation] /\ J \in [JobIds -> Job]
      /\ clock \in Nat /\ LeaseSeconds \in Nat /\ MaxClock \in Nat
      /\ \A k \in Keys : R[k].status = "reserved" => R[k].expires_at > clock
  BY Maintenance, WrittenRows, DurationAssumption, QuotaAssumption
<1>1. /\ clock \in 0 .. MaxClock
      /\ reservations \in [Keys -> Reservation]
      /\ jobs \in [JobIds -> Job]
      /\ preparing \subseteq Preparation
      /\ executing \subseteq Lease
  BY DEF TypeOK
<1>2. CASE UNCHANGED vars
  BY <1>1, <1>2 DEF vars, TypeOK
<1>3. CASE Tick
  BY <1>0, <1>1, <1>3 DEF Tick, TypeOK
<1>4. ASSUME NEW k \in Keys, NEW q \in Requests, NEW ttl \in Ttls, NEW token \in Tokens,
             ReserveSubmission(k, q, ttl, token)
      PROVE  TypeOK'
  <2>1. R[k] \in Reservation
    BY <1>0
  <2> DEFINE d == TakeoverDeadline(R[k], ttl)
             new == [status |-> "reserved", request |-> q, token |-> token, job |-> NONE,
                     expires_at |-> d, lease_expires_at |-> Min2(clock + LeaseSeconds, d),
                     updated_at |-> clock]
  <2>2. d \in Nat
    BY <2>1, WrittenRows
  <2> HIDE DEF d
  <2>3. Min2(clock + LeaseSeconds, d) \in Nat
    <3>1. clock + LeaseSeconds \in Nat
      BY <1>0
    <3> QED
      BY <2>2, <3>1, WrittenRows
  <2>4. new \in Reservation
    BY <1>0, <2>2, <2>3 DEF Reservation
  <2>5. reservations' = [R EXCEPT ![k] = new] /\ jobs' = J
    BY <1>4 DEF ReserveSubmission, d
  <2> HIDE DEF R, J, new
  <2>6. reservations' \in [Keys -> Reservation]
    BY <1>0, <2>4, <2>5
  <2>7. /\ preparing' \subseteq Preparation
        /\ executing' = executing /\ clock' = clock
    BY <1>1, <1>4 DEF ReserveSubmission, Preparation
  <2> QED
    BY <1>0, <1>1, <2>5, <2>6, <2>7 DEF TypeOK
<1>5. ASSUME NEW c \in preparing, RenewSubmission(c)
      PROVE  TypeOK'
  <2>1. c.key \in Keys /\ R[c.key] \in Reservation
    BY <1>0, <1>1 DEF Preparation
  <2>2. Min2(clock + LeaseSeconds, R[c.key].expires_at) \in Nat
    <3>1. R[c.key].expires_at \in Nat /\ clock + LeaseSeconds \in Nat
      BY <1>0, <2>1 DEF Reservation
    <3> QED
      BY <3>1, WrittenRows
  <2> DEFINE m == Min2(clock + LeaseSeconds, R[c.key].expires_at)
  <2>3. /\ reservations' = [R EXCEPT ![c.key].lease_expires_at = m, ![c.key].updated_at = clock]
        /\ jobs' = J /\ UNCHANGED <<clock, preparing, executing>>
    BY <1>5 DEF RenewSubmission
  <2> HIDE DEF R, J, m
  <2>4. reservations' \in [Keys -> Reservation]
    BY <1>0, <2>1, <2>2, <2>3 DEF Reservation, m
  <2> QED
    BY <1>0, <1>1, <2>3, <2>4 DEF TypeOK
<1>6. ASSUME NEW c \in preparing, NEW e \in Executions, NEW ttl \in Ttls, NEW j \in JobIds,
             FinalizeSubmission(c, e, ttl, j)
      PROVE  TypeOK'
  <2>1. c.key \in Keys /\ R[c.key] \in Reservation
    BY <1>0, <1>1 DEF Preparation
  <2>2. FinalizedReservation(R[c.key], j) \in Reservation
    BY <2>1, WrittenRows
  <2>3. reservations' = [R EXCEPT ![c.key] = FinalizedReservation(R[c.key], j)]
    BY <1>0, <2>1, <1>6 DEF FinalizeSubmission
  <2> DEFINE m == Min2(ttl, R[c.key].expires_at - clock)
  <2>4. jobs' = J \/ jobs' = [J EXCEPT ![j] = InsertedJob(c.key, e, m)]
    BY <1>6 DEF FinalizeSubmission
  <2>5. m \in Nat
    <3>1. R[c.key].expires_at \in Nat /\ R[c.key].expires_at > clock /\ ttl \in Nat
      BY <1>0, <2>1, <1>6, DurationAssumption DEF FinalizeSubmission, Prepares, Reservation
    <3>2. R[c.key].expires_at - clock \in Nat
      BY <1>0, <3>1
    <3> QED
      BY <3>1, <3>2, WrittenRows
  <2> HIDE DEF m
  <2>6. InsertedJob(c.key, e, m) \in Job
    BY <2>1, <2>5, WrittenRows
  <2>7. UNCHANGED <<clock, executing>> /\ preparing' \subseteq preparing
    BY <1>6 DEF FinalizeSubmission
  <2> HIDE DEF R, J
  <2>8. reservations' \in [Keys -> Reservation] /\ jobs' \in [JobIds -> Job]
    BY <1>0, <2>2, <2>3, <2>4, <2>6
  <2> QED
    BY <1>1, <2>7, <2>8 DEF TypeOK
<1>7. ASSUME NEW c \in preparing, ReleaseSubmission(c)
      PROVE  TypeOK'
  <2>1. c.key \in Keys /\ R[c.key] \in Reservation
    BY <1>0, <1>1 DEF Preparation
  <2> DEFINE new == [Unleased(R[c.key], "released") EXCEPT !.updated_at = clock]
  <2>2. new \in Reservation
    <3>1. Unleased(R[c.key], "released") \in Reservation
      BY <2>1, UnleasedReservation
    <3> QED
      BY <1>0, <3>1 DEF Reservation
  <2>3. /\ reservations' = [R EXCEPT ![c.key] = new] /\ jobs' = J
        /\ UNCHANGED <<clock, executing>> /\ preparing' \subseteq preparing
    BY <1>0, <2>1, <1>7 DEF ReleaseSubmission
  <2> HIDE DEF R, J, new
  <2> QED
    BY <1>0, <1>1, <2>2, <2>3 DEF TypeOK
<1>8. ASSUME NEW k \in Keys, NEW e \in Executions, NEW ttl \in Ttls, NEW j \in JobIds,
             CreateOrGet(k, e, ttl, j)
      PROVE  TypeOK'
  <2>1. InsertedJob(k, e, ttl) \in Job
    BY WrittenRows, DurationAssumption
  <2>2. /\ reservations' = R /\ jobs' = [J EXCEPT ![j] = InsertedJob(k, e, ttl)]
        /\ UNCHANGED <<clock, preparing, executing>>
    BY <1>8 DEF CreateOrGet
  <2> HIDE DEF R, J
  <2> QED
    BY <1>0, <1>1, <2>1, <2>2 DEF TypeOK
<1>9. ASSUME NEW j \in JobIds, NEW token \in Tokens, Claim(j, token)
      PROVE  TypeOK'
  <2>1. LeasedJob(J[j], token) \in Job
    BY <1>0, WrittenRows
  <2>2. /\ reservations' = R /\ jobs' = [J EXCEPT ![j] = LeasedJob(J[j], token)]
        /\ UNCHANGED <<clock, preparing>> /\ executing' \subseteq Lease
    BY <1>0, <1>1, <1>9 DEF Claim, Lease
  <2> HIDE DEF R, J
  <2> QED
    BY <1>0, <1>1, <2>1, <2>2 DEF TypeOK
<1>10. ASSUME NEW l \in executing, RenewLease(l)
       PROVE  TypeOK'
  <2> DEFINE m == Min2(clock + LeaseSeconds, J[l.job].expires_at)
  <2>1. l.job \in JobIds /\ J[l.job] \in Job
    BY <1>0, <1>1 DEF Lease
  <2>2. m \in Nat
    <3>1. J[l.job].expires_at \in Nat /\ clock + LeaseSeconds \in Nat
      BY <1>0, <2>1 DEF Job
    <3> QED
      BY <3>1, WrittenRows
  <2>3. /\ reservations' = R /\ jobs' = [J EXCEPT ![l.job].lease_expires_at = m]
        /\ UNCHANGED <<clock, preparing, executing>>
    BY <1>10 DEF RenewLease
  <2> HIDE DEF R, J, m
  <2>4. jobs' \in [JobIds -> Job]
    BY <1>0, <2>1, <2>2, <2>3 DEF Job
  <2> QED
    BY <1>0, <1>1, <2>3, <2>4 DEF TypeOK
<1>11. ASSUME NEW l \in executing, Complete(l)
       PROVE  TypeOK'
  <2>1. l.job \in JobIds /\ J[l.job] \in Job
    BY <1>0, <1>1 DEF Lease
  <2> DEFINE new == [Unleased(J[l.job], "completed") EXCEPT !.completed_at = clock]
  <2>2. new \in Job
    <3>1. Unleased(J[l.job], "completed") \in Job
      BY <2>1, UnleasedJob
    <3> QED
      BY <1>0, <3>1 DEF Job
  <2>3. /\ reservations' = R /\ jobs' = [J EXCEPT ![l.job] = new]
        /\ UNCHANGED <<clock, preparing>> /\ executing' \subseteq executing
    BY <1>0, <2>1, <1>11 DEF Complete
  <2> HIDE DEF R, J, new
  <2> QED
    BY <1>0, <1>1, <2>2, <2>3 DEF TypeOK
<1>12. ASSUME NEW l \in executing, Fail(l)
       PROVE  TypeOK'
  <2>1. l.job \in JobIds /\ J[l.job] \in Job
    BY <1>0, <1>1 DEF Lease
  <2>2. FailedJob(J[l.job]) \in Job
    BY <2>1, UnleasedJob DEF FailedJob
  <2>3. /\ reservations' = R /\ jobs' = [J EXCEPT ![l.job] = FailedJob(J[l.job])]
        /\ UNCHANGED <<clock, preparing>> /\ executing' \subseteq executing
    BY <1>0, <2>1, <1>12 DEF Fail
  <2> HIDE DEF R, J
  <2> QED
    BY <1>0, <1>1, <2>2, <2>3 DEF TypeOK
<1>13. CASE ExpireDue
  <2>1. reservations' = R /\ jobs' = J /\ UNCHANGED <<clock, preparing, executing>>
    BY <1>13 DEF ExpireDue
  <2> HIDE DEF R, J
  <2> QED
    BY <1>0, <1>1, <2>1 DEF TypeOK
<1>14. ASSUME NEW j \in JobIds, Get(j)
       PROVE  TypeOK'
  <2>1. RefreshedJob(jobs[j], clock) \in Job
    BY <1>0, <1>1, RefreshedJobRow
  <2>2. /\ jobs' = [jobs EXCEPT ![j] = RefreshedJob(jobs[j], clock)]
        /\ UNCHANGED <<clock, reservations, preparing, executing>>
    BY <1>1, <1>14 DEF Get
  <2> QED
    BY <1>1, <2>1, <2>2 DEF TypeOK
<1>15. CASE GetReservation
  <2>1. \A k \in Keys : RefreshedReservation(reservations[k], clock) \in Reservation
    BY <1>0, <1>1, RefreshedReservationRow
  <2>2. /\ reservations' = [k \in Keys |-> RefreshedReservation(reservations[k], clock)]
        /\ UNCHANGED <<clock, jobs, preparing, executing>>
    BY <1>15 DEF GetReservation
  <2> QED
    BY <1>1, <2>1, <2>2 DEF TypeOK
<1>16. ASSUME NEW c \in preparing, DropReservation(c)
       PROVE  TypeOK'
  BY <1>1, <1>16 DEF DropReservation, TypeOK
<1>17. ASSUME NEW l \in executing, DropLease(l)
       PROVE  TypeOK'
  BY <1>1, <1>17 DEF DropLease, TypeOK
<1> QED
  BY <1>2, <1>3, <1>4, <1>5, <1>6, <1>7, <1>8, <1>9, <1>10, <1>11, <1>12, <1>13, <1>14, <1>15,
     <1>16, <1>17 DEF Next, Submitting, Executing, Reading

(* The tables and the capabilities in flight keep their types.             *)
THEOREM TypeCorrect == Spec => []TypeOK
<1>1. Init => TypeOK
  BY QuotaAssumption DEF Init, TypeOK, AbsentReservation, Reservation, AbsentJob, Job
<1> QED
  BY <1>1, NextKeepsTypes, PTL DEF Spec

-----------------------------------------------------------------------------
(***************************************************************************)
(* Quotas.                                                                 *)
(***************************************************************************)
Quota(R, J) ==
  /\ Cardinality(Working(J)) + Cardinality(Reserved(R)) <= MaxActiveJobs
  /\ HasRoom(R, J, 0)

(* The counted sets are finite.                                            *)
LEMMA Counted ==
  ASSUME NEW R, NEW J
  PROVE  /\ IsFiniteSet(Working(J)) /\ IsFiniteSet(StoredJobs(J))
         /\ IsFiniteSet(Reserved(R)) /\ IsFiniteSet(StoredReservations(R))
         /\ Cardinality(Working(J)) \in Nat /\ Cardinality(StoredJobs(J)) \in Nat
         /\ Cardinality(Reserved(R)) \in Nat /\ Cardinality(StoredReservations(R)) \in Nat
<1>1. /\ Working(J) \subseteq JobIds /\ StoredJobs(J) \subseteq JobIds
      /\ Reserved(R) \subseteq Keys /\ StoredReservations(R) \subseteq Keys
  BY DEF Working, StoredJobs, Reserved, StoredReservations
<1>2. /\ IsFiniteSet(Working(J)) /\ IsFiniteSet(StoredJobs(J))
      /\ IsFiniteSet(Reserved(R)) /\ IsFiniteSet(StoredReservations(R))
  BY <1>1, FS_Subset, IdAssumption
<1> QED
  BY <1>2, FS_CardinalityType

(* One element more.                                                       *)
LEMMA OneMore ==
  ASSUME NEW S, NEW x, IsFiniteSet(S)
  PROVE  /\ IsFiniteSet(S \cup {x})
         /\ Cardinality(S) \in Nat /\ Cardinality(S \cup {x}) \in Nat
         /\ Cardinality(S \cup {x}) <= Cardinality(S) + 1
<1>1. /\ IsFiniteSet(S \cup {x})
      /\ Cardinality(S \cup {x}) = IF x \in S THEN Cardinality(S) ELSE Cardinality(S) + 1
  BY FS_AddElement
<1>2. Cardinality(S) \in Nat /\ Cardinality(S \cup {x}) \in Nat
  BY <1>1, FS_CardinalityType
<1> QED
  BY <1>1, <1>2

(* Tables in which no more rows count stay within the quotas.              *)
LEMMA QuotaShrinks ==
  ASSUME NEW R, NEW J, NEW R2, NEW J2, Quota(R, J),
         Working(J2) \subseteq Working(J), StoredJobs(J2) \subseteq StoredJobs(J),
         Reserved(R2) \subseteq Reserved(R),
         StoredReservations(R2) \subseteq StoredReservations(R)
  PROVE  Quota(R2, J2)
<1>1. /\ Cardinality(Working(J2)) <= Cardinality(Working(J))
      /\ Cardinality(StoredJobs(J2)) <= Cardinality(StoredJobs(J))
      /\ Cardinality(Reserved(R2)) <= Cardinality(Reserved(R))
      /\ Cardinality(StoredReservations(R2)) <= Cardinality(StoredReservations(R))
  BY Counted, FS_Subset
<1>2. /\ Cardinality(Working(J)) \in Nat /\ Cardinality(StoredJobs(J)) \in Nat
      /\ Cardinality(Reserved(R)) \in Nat /\ Cardinality(StoredReservations(R)) \in Nat
  BY Counted
<1>3. /\ Cardinality(Working(J2)) \in Nat /\ Cardinality(StoredJobs(J2)) \in Nat
      /\ Cardinality(Reserved(R2)) \in Nat /\ Cardinality(StoredReservations(R2)) \in Nat
  BY Counted
<1> QED
  BY <1>1, <1>2, <1>3, QuotaAssumption DEF Quota, HasRoom

(* The same, row by row.                                                   *)
LEMMA QuotaByRows ==
  ASSUME NEW R, NEW J, NEW R2, NEW J2, Quota(R, J),
         \A k \in Keys : /\ R2[k].status = "reserved" => R[k].status = "reserved"
                         /\ R2[k].status # "absent" => R[k].status # "absent",
         \A j \in JobIds : /\ J2[j].status \in ActiveJob => J[j].status \in ActiveJob
                           /\ J2[j].status # "absent" => J[j].status # "absent"
  PROVE  Quota(R2, J2)
<1>1. Working(J2) \subseteq Working(J) /\ StoredJobs(J2) \subseteq StoredJobs(J)
  BY DEF Working, StoredJobs
<1>2. /\ Reserved(R2) \subseteq Reserved(R)
      /\ StoredReservations(R2) \subseteq StoredReservations(R)
  BY DEF Reserved, StoredReservations
<1> QED
  BY <1>1, <1>2, QuotaShrinks

(* Maintenance frees quota and takes none.                                 *)
LEMMA MaintenanceQuota ==
  ASSUME TypeOK, Quota(reservations, jobs)
  PROVE  Quota(KeptReservations(clock), KeptJobs(clock))
BY Maintenance, QuotaByRows

(* Reserving an unreserved key takes one slot and, if its row is new, one  *)
(* row.                                                                    *)
LEMMA ReservingQuota ==
  ASSUME NEW R \in [Keys -> Reservation], NEW J, NEW k \in Keys, NEW new,
         Quota(R, J), HasCapacity(R, J), new.status = "reserved",
         HasRoom(R, J, IF R[k].status = "absent" THEN 1 ELSE 0)
  PROVE  Quota([R EXCEPT ![k] = new], J)
<1> DEFINE R2 == [R EXCEPT ![k] = new]
<1>1. /\ Reserved(R2) = Reserved(R) \cup {k}
      /\ StoredReservations(R2) = StoredReservations(R) \cup {k}
      /\ R[k].status # "absent" => StoredReservations(R2) = StoredReservations(R)
  BY DEF Reserved, StoredReservations
<1> HIDE DEF R2
<1>2. /\ Cardinality(Reserved(R2)) <= Cardinality(Reserved(R)) + 1
      /\ Cardinality(StoredReservations(R2)) <= Cardinality(StoredReservations(R)) + 1
  BY <1>1, Counted, OneMore
<1>3. /\ Cardinality(Working(J)) \in Nat /\ Cardinality(StoredJobs(J)) \in Nat
      /\ Cardinality(Reserved(R)) \in Nat /\ Cardinality(StoredReservations(R)) \in Nat
      /\ Cardinality(Reserved(R2)) \in Nat /\ Cardinality(StoredReservations(R2)) \in Nat
  BY Counted
<1>4. Cardinality(Working(J)) + Cardinality(Reserved(R2)) <= MaxActiveJobs
  BY <1>2, <1>3, QuotaAssumption DEF HasCapacity
<1>5. Cardinality(StoredReservations(R2)) + Cardinality(StoredJobs(J)) <= MaxRetainedRows
  <2>1. CASE R[k].status = "absent"
    BY <2>1, <1>2, <1>3, QuotaAssumption DEF HasRoom
  <2>2. CASE R[k].status # "absent"
    <3>1. StoredReservations(R2) = StoredReservations(R)
      BY <1>1, <2>2
    <3>2. Cardinality(StoredReservations(R)) + Cardinality(StoredJobs(J)) <= MaxRetainedRows
      BY <1>3, QuotaAssumption DEF HasRoom, Quota
    <3> QED
      BY <3>1, <3>2
  <2> QED
    BY <2>1, <2>2
<1>6. Cardinality(StoredReservations(R2)) + Cardinality(StoredJobs(J)) + 0 <= MaxRetainedRows
  BY <1>3, <1>5
<1> QED
  BY <1>4, <1>6 DEF Quota, HasRoom, R2

(* An inserted job adds at most one job that works and one row.            *)
LEMMA InsertingCounts ==
  ASSUME NEW J \in [JobIds -> Job], NEW j \in JobIds, NEW new
  PROVE  LET J2 == [J EXCEPT ![j] = new]
         IN /\ Cardinality(Working(J2)) <= Cardinality(Working(J)) + 1
            /\ Cardinality(StoredJobs(J2)) <= Cardinality(StoredJobs(J)) + 1
<1> DEFINE J2 == [J EXCEPT ![j] = new]
<1>1. /\ Working(J2) \subseteq Working(J) \cup {j}
      /\ StoredJobs(J2) \subseteq StoredJobs(J) \cup {j}
  BY DEF Working, StoredJobs
<1> HIDE DEF J2
<1>2. /\ IsFiniteSet(Working(J) \cup {j}) /\ IsFiniteSet(StoredJobs(J) \cup {j})
      /\ Cardinality(Working(J) \cup {j}) <= Cardinality(Working(J)) + 1
      /\ Cardinality(StoredJobs(J) \cup {j}) <= Cardinality(StoredJobs(J)) + 1
      /\ Cardinality(Working(J) \cup {j}) \in Nat
      /\ Cardinality(StoredJobs(J) \cup {j}) \in Nat
  BY Counted, OneMore
<1>3. /\ Cardinality(Working(J2)) <= Cardinality(Working(J) \cup {j})
      /\ Cardinality(StoredJobs(J2)) <= Cardinality(StoredJobs(J) \cup {j})
  BY <1>1, <1>2, FS_Subset
<1>4. /\ Cardinality(Working(J)) \in Nat /\ Cardinality(StoredJobs(J)) \in Nat
      /\ Cardinality(Working(J2)) \in Nat /\ Cardinality(StoredJobs(J2)) \in Nat
  BY Counted
<1> QED
  BY <1>2, <1>3, <1>4 DEF J2

(* A key that stops being reserved gives its slot back; its row stays.     *)
LEMMA UnreservingCounts ==
  ASSUME NEW R \in [Keys -> Reservation], NEW k \in Keys, NEW new,
         R[k].status = "reserved", new.status \in {"finalized", "released"}
  PROVE  LET R2 == [R EXCEPT ![k] = new]
         IN /\ Cardinality(Reserved(R2)) = Cardinality(Reserved(R)) - 1
            /\ Reserved(R2) \subseteq Reserved(R)
            /\ StoredReservations(R2) = StoredReservations(R)
<1> DEFINE R2 == [R EXCEPT ![k] = new]
<1>1. /\ Reserved(R2) = Reserved(R) \ {k} /\ k \in Reserved(R)
      /\ StoredReservations(R2) = StoredReservations(R)
  BY DEF Reserved, StoredReservations
<1> HIDE DEF R2
<1>2. Cardinality(Reserved(R2)) = Cardinality(Reserved(R)) - 1
  BY <1>1, Counted, FS_RemoveElement
<1> QED
  BY <1>1, <1>2 DEF R2

(* Every operation stays within the quotas.                                *)
LEMMA NextKeepsQuota ==
  ASSUME TypeOK, WithinQuota, [Next]_vars
  PROVE  WithinQuota'
<1> DEFINE R == KeptReservations(clock)
           J == KeptJobs(clock)
<1>0. /\ R \in [Keys -> Reservation] /\ J \in [JobIds -> Job] /\ clock \in Nat
      /\ Quota(R, J) /\ Quota(reservations, jobs)
  BY Maintenance, MaintenanceQuota, WrittenRows DEF WithinQuota, Quota
<1>1. /\ reservations \in [Keys -> Reservation] /\ jobs \in [JobIds -> Job]
      /\ preparing \subseteq Preparation /\ executing \subseteq Lease
      /\ "leased" \in ActiveJob /\ "pending" \in ActiveJob
      /\ "absent" \notin ActiveJob /\ "completed" \notin ActiveJob /\ "expired" \notin ActiveJob
  BY DEF TypeOK, ActiveJob
<1> SUFFICES Quota(reservations', jobs')
  BY DEF WithinQuota, Quota, HasRoom, Working, Reserved, StoredJobs, StoredReservations
<1>2. CASE UNCHANGED <<reservations, jobs>>
  BY <1>0, <1>2
<1>4. ASSUME NEW k \in Keys, NEW q \in Requests, NEW ttl \in Ttls, NEW token \in Tokens,
             ReserveSubmission(k, q, ttl, token)
      PROVE  Quota(reservations', jobs')
  <2>1. PICK new : /\ new.status = "reserved"
                   /\ reservations' = [R EXCEPT ![k] = new] /\ jobs' = J
                   /\ HasCapacity(R, J)
                   /\ HasRoom(R, J, IF R[k].status = "absent" THEN 1 ELSE 0)
    BY <1>4 DEF ReserveSubmission
  <2> HIDE DEF R, J
  <2> QED
    BY <1>0, <2>1, ReservingQuota
<1>5. ASSUME NEW c \in preparing, RenewSubmission(c)
      PROVE  Quota(reservations', jobs')
  <2>1. PICK t, u : reservations' = [R EXCEPT ![c.key].lease_expires_at = t,
                                              ![c.key].updated_at = u]
    BY <1>5 DEF RenewSubmission
  <2>2. jobs' = J
    BY <1>5 DEF RenewSubmission
  <2> HIDE DEF R, J
  <2>3. \A k \in Keys : reservations'[k].status = R[k].status
    BY <1>0, <2>1 DEF Reservation
  <2> QED
    BY <1>0, <2>2, <2>3, QuotaByRows
<1>6. ASSUME NEW c \in preparing, NEW e \in Executions, NEW ttl \in Ttls, NEW j \in JobIds,
             FinalizeSubmission(c, e, ttl, j)
      PROVE  Quota(reservations', jobs')
  <2> DEFINE new == FinalizedReservation(R[c.key], j)
  <2>1. c.key \in Keys /\ R[c.key] \in Reservation
    BY <1>0, <1>1 DEF Preparation
  <2>2. new.status = "finalized"
    <3>1. /\ Unleased(R[c.key], "finalized") \in Reservation
          /\ Unleased(R[c.key], "finalized").status = "finalized"
      BY <2>1, UnleasedReservation
    <3> QED
      BY <3>1 DEF FinalizedReservation, Reservation
  <2>3. /\ R[c.key].status = "reserved"
        /\ reservations' = [R EXCEPT ![c.key] = new]
        /\ \/ jobs' = J
           \/ HasRoom(R, J, 1) /\ \E row : jobs' = [J EXCEPT ![j] = row]
    BY <1>0, <2>1, <1>6 DEF FinalizeSubmission, Prepares
  <2> HIDE DEF R, J, new
  <2>4. CASE jobs' = J
    <3>1. \A k \in Keys : /\ reservations'[k].status = "reserved" => R[k].status = "reserved"
                          /\ reservations'[k].status # "absent" => R[k].status # "absent"
      BY <1>0, <2>1, <2>2, <2>3
    <3> QED
      BY <1>0, <2>4, <3>1, QuotaByRows
  <2>5. ASSUME HasRoom(R, J, 1), NEW row, jobs' = [J EXCEPT ![j] = row]
        PROVE  Quota(reservations', jobs')
    <3>1. /\ Cardinality(Reserved(reservations')) = Cardinality(Reserved(R)) - 1
          /\ StoredReservations(reservations') = StoredReservations(R)
      BY <1>0, <2>1, <2>2, <2>3, UnreservingCounts
    <3>2. /\ Cardinality(Working(jobs')) <= Cardinality(Working(J)) + 1
          /\ Cardinality(StoredJobs(jobs')) <= Cardinality(StoredJobs(J)) + 1
      BY <1>0, <2>5, InsertingCounts
    <3>3. /\ Cardinality(Working(J)) \in Nat /\ Cardinality(StoredJobs(J)) \in Nat
          /\ Cardinality(Reserved(R)) \in Nat /\ Cardinality(StoredReservations(R)) \in Nat
          /\ Cardinality(Working(jobs')) \in Nat /\ Cardinality(StoredJobs(jobs')) \in Nat
      BY Counted
    <3>4. Cardinality(Working(jobs')) + Cardinality(Reserved(reservations')) <= MaxActiveJobs
      BY <1>0, <3>1, <3>2, <3>3, QuotaAssumption DEF Quota
    <3>5. HasRoom(reservations', jobs', 0)
      BY <2>5, <3>1, <3>2, <3>3, QuotaAssumption DEF HasRoom
    <3> QED
      BY <3>4, <3>5 DEF Quota
  <2> QED
    BY <2>3, <2>4, <2>5
<1>7. ASSUME NEW c \in preparing, ReleaseSubmission(c)
      PROVE  Quota(reservations', jobs')
  <2> DEFINE new == [Unleased(R[c.key], "released") EXCEPT !.updated_at = clock]
  <2>1. c.key \in Keys /\ R[c.key] \in Reservation
    BY <1>0, <1>1 DEF Preparation
  <2>2. new.status = "released"
    <3>1. /\ Unleased(R[c.key], "released") \in Reservation
          /\ Unleased(R[c.key], "released").status = "released"
      BY <2>1, UnleasedReservation
    <3> QED
      BY <3>1 DEF Reservation
  <2>3. /\ R[c.key].status = "reserved" /\ jobs' = J
        /\ reservations' = [R EXCEPT ![c.key] = new]
    BY <1>0, <2>1, <1>7 DEF ReleaseSubmission, Prepares
  <2> HIDE DEF R, J, new
  <2>4. \A k \in Keys : /\ reservations'[k].status = "reserved" => R[k].status = "reserved"
                        /\ reservations'[k].status # "absent" => R[k].status # "absent"
    BY <1>0, <2>1, <2>2, <2>3
  <2>5. jobs' = J
    BY <2>3
  <2> QED
    BY <1>0, <2>4, <2>5, QuotaByRows
<1>8. ASSUME NEW k \in Keys, NEW e \in Executions, NEW ttl \in Ttls, NEW j \in JobIds,
             CreateOrGet(k, e, ttl, j)
      PROVE  Quota(reservations', jobs')
  <2>1. PICK row : /\ reservations' = R /\ jobs' = [J EXCEPT ![j] = row]
                   /\ HasCapacity(R, J) /\ HasRoom(R, J, 1)
    BY <1>8 DEF CreateOrGet
  <2> HIDE DEF R, J
  <2>2. /\ Cardinality(Working(jobs')) <= Cardinality(Working(J)) + 1
        /\ Cardinality(StoredJobs(jobs')) <= Cardinality(StoredJobs(J)) + 1
    BY <1>0, <2>1, InsertingCounts
  <2>3. /\ Cardinality(Working(J)) \in Nat /\ Cardinality(StoredJobs(J)) \in Nat
        /\ Cardinality(Reserved(R)) \in Nat /\ Cardinality(StoredReservations(R)) \in Nat
        /\ Cardinality(Working(jobs')) \in Nat /\ Cardinality(StoredJobs(jobs')) \in Nat
    BY Counted
  <2> QED
    BY <2>1, <2>2, <2>3, QuotaAssumption DEF Quota, HasRoom, HasCapacity
<1>9. ASSUME NEW j \in JobIds, NEW row, J[j].status \in ActiveJob, row.status # "absent",
             reservations' = R, jobs' = [J EXCEPT ![j] = row]
      PROVE  Quota(reservations', jobs')
  <2> HIDE DEF R, J
  <2>1. \A i \in JobIds : /\ jobs'[i].status \in ActiveJob => J[i].status \in ActiveJob
                          /\ jobs'[i].status # "absent" => J[i].status # "absent"
    BY <1>0, <1>1, <1>9
  <2>2. reservations' = R
    BY <1>9
  <2> QED
    BY <1>0, <2>1, <2>2, QuotaByRows
<1>10. ASSUME NEW j \in JobIds, NEW token \in Tokens, Claim(j, token)
       PROVE  Quota(reservations', jobs')
  <2>1. LeasedJob(J[j], token).status # "absent"
    BY <1>0 DEF LeasedJob, Job
  <2>2. /\ J[j].status = "pending" /\ reservations' = R
        /\ jobs' = [J EXCEPT ![j] = LeasedJob(J[j], token)]
    BY <1>0, <1>10 DEF Claim
  <2> QED
    BY <1>1, <1>9, <2>1, <2>2
<1>11. ASSUME NEW l \in executing, RenewLease(l)
       PROVE  Quota(reservations', jobs')
  <2> DEFINE row == [J[l.job] EXCEPT !.lease_expires_at =
                                       Min2(clock + LeaseSeconds, J[l.job].expires_at)]
  <2>1. l.job \in JobIds /\ J[l.job] \in Job
    BY <1>0, <1>1 DEF Lease
  <2>2. /\ J[l.job].status = "leased" /\ reservations' = R
        /\ jobs' = [J EXCEPT ![l.job] = row]
    BY <1>0, <2>1, <1>11 DEF RenewLease, Executes
  <2>3. row.status # "absent"
    BY <2>1, <2>2 DEF Job
  <2> HIDE DEF row
  <2> QED
    BY <1>1, <1>9, <2>1, <2>2, <2>3
<1>12. ASSUME NEW l \in executing, Complete(l)
       PROVE  Quota(reservations', jobs')
  <2> DEFINE row == [Unleased(J[l.job], "completed") EXCEPT !.completed_at = clock]
  <2>1. l.job \in JobIds /\ J[l.job] \in Job
    BY <1>0, <1>1 DEF Lease
  <2>2. /\ J[l.job].status = "leased" /\ reservations' = R
        /\ jobs' = [J EXCEPT ![l.job] = row]
    BY <1>0, <2>1, <1>12 DEF Complete, Executes
  <2>3. row.status # "absent"
    <3>1. /\ Unleased(J[l.job], "completed") \in Job
          /\ Unleased(J[l.job], "completed").status = "completed"
      BY <2>1, UnleasedJob
    <3> QED
      BY <3>1 DEF Job
  <2> HIDE DEF row
  <2> QED
    BY <1>1, <1>9, <2>1, <2>2, <2>3
<1>13. ASSUME NEW l \in executing, Fail(l)
       PROVE  Quota(reservations', jobs')
  <2>1. l.job \in JobIds /\ J[l.job] \in Job
    BY <1>0, <1>1 DEF Lease
  <2>2. /\ J[l.job].status = "leased" /\ reservations' = R
        /\ jobs' = [J EXCEPT ![l.job] = FailedJob(J[l.job])]
    BY <1>0, <2>1, <1>13 DEF Fail, Executes
  <2>3. FailedJob(J[l.job]).status # "absent"
    BY <2>1, UnleasedJob DEF FailedJob
  <2> QED
    BY <1>1, <1>9, <2>1, <2>2, <2>3
<1>14. CASE ExpireDue
  BY <1>0, <1>14 DEF ExpireDue
<1>15. ASSUME NEW j \in JobIds, Get(j)
       PROVE  Quota(reservations', jobs')
  <2>1. /\ jobs' = [jobs EXCEPT ![j] = RefreshedJob(jobs[j], clock)]
        /\ reservations' = reservations
    BY <1>1, <1>15 DEF Get
  <2>2. LET q == RefreshedJob(jobs[j], clock)
        IN /\ q.status \in ActiveJob => jobs[j].status \in ActiveJob
           /\ q.status # "absent" => jobs[j].status # "absent"
    BY <1>0, <1>1, RefreshedJobRow
  <2>3. \A i \in JobIds : /\ jobs'[i].status \in ActiveJob => jobs[i].status \in ActiveJob
                          /\ jobs'[i].status # "absent" => jobs[i].status # "absent"
    BY <1>1, <2>1, <2>2
  <2>4. reservations' = reservations
    BY <2>1
  <2> QED
    BY <1>0, <2>3, <2>4, QuotaByRows
<1>16. CASE GetReservation
  <2>1. \A k \in Keys :
          LET q == RefreshedReservation(reservations[k], clock)
          IN /\ q.status = "reserved" => reservations[k].status = "reserved"
             /\ q.status # "absent" => reservations[k].status # "absent"
    BY <1>0, <1>1, RefreshedReservationRow
  <2>2. \A k \in Keys :
          /\ reservations'[k].status = "reserved" => reservations[k].status = "reserved"
          /\ reservations'[k].status # "absent" => reservations[k].status # "absent"
    BY <1>16, <2>1 DEF GetReservation
  <2> QED
    BY <1>0, <1>16, <2>2, QuotaByRows DEF GetReservation
<1>17. CASE \/ Tick
            \/ \E c \in preparing : DropReservation(c)
            \/ \E l \in executing : DropLease(l)
  BY <1>2, <1>17 DEF Tick, DropReservation, DropLease
<1> QED
  BY <1>2, <1>4, <1>5, <1>6, <1>7, <1>8, <1>10, <1>11, <1>12, <1>13, <1>14, <1>15, <1>16, <1>17
     DEF Next, Submitting, Executing, Reading, vars

(* Jobs and preparations in progress stay under max_active_jobs and stored *)
(* rows under the retained rows limit.                                     *)
THEOREM QuotaKept == Spec => []WithinQuota
<1>1. Init => WithinQuota
  <2> SUFFICES ASSUME Init PROVE WithinQuota
    OBVIOUS
  <2>1. /\ Working(jobs) = {} /\ StoredJobs(jobs) = {}
        /\ Reserved(reservations) = {} /\ StoredReservations(reservations) = {}
    BY DEF Init, Working, StoredJobs, Reserved, StoredReservations, AbsentJob,
           AbsentReservation, ActiveJob
  <2> QED
    BY <2>1, FS_EmptySet, QuotaAssumption DEF WithinQuota, HasRoom
<1>2. TypeOK /\ WithinQuota /\ [Next]_vars => WithinQuota'
  BY NextKeepsQuota
<1> QED
  BY <1>1, <1>2, TypeCorrect, PTL DEF Spec

-----------------------------------------------------------------------------
(***************************************************************************)
(* Finalized keys and their jobs.                                          *)
(***************************************************************************)
Leads(R, J, k) ==
  R[k].status = "finalized" =>
    \E j \in JobIds : /\ j = R[k].job
                      /\ J[j].status # "absent"
                      /\ J[j].key = k
                      /\ RequestOf[J[j].execution] = R[k].request

(* Tables in which no finalized key is new and no stored job is another    *)
(* lead where they did.                                                    *)
LEMMA LeadsByRows ==
  ASSUME NEW R, NEW J, NEW R2, NEW J2, NEW k \in Keys, Leads(R, J, k),
         R2[k].status = "finalized" => /\ R[k].status = "finalized"
                                       /\ R2[k].job = R[k].job
                                       /\ R2[k].request = R[k].request,
         \A j \in JobIds : J[j].status # "absent" => /\ J2[j].status # "absent"
                                                     /\ J2[j].key = J[j].key
                                                     /\ J2[j].execution = J[j].execution
  PROVE  Leads(R2, J2, k)
BY DEF Leads

(* Retention deletes a job only when no reservation it keeps names it.     *)
LEMMA MaintenanceLeads ==
  ASSUME TypeOK, FinalizedNamesItsJob, NEW k \in Keys
  PROVE  Leads(KeptReservations(clock), KeptJobs(clock), k)
<1> DEFINE R == KeptReservations(clock)
           J == KeptJobs(clock)
<1>1. R[k].status = "finalized" => R[k] = reservations[k]
  BY Maintenance
<1>2. \A j \in JobIds : /\ J[j].status # "absent" => /\ J[j].key = jobs[j].key
                                                     /\ J[j].execution = jobs[j].execution
                        /\ R[k].job = j /\ jobs[j].status # "absent" => J[j].status # "absent"
  BY Maintenance DEF Named
<1>3. Leads(reservations, jobs, k)
  BY DEF FinalizedNamesItsJob, Leads
<1> HIDE DEF R, J
<1>4. Leads(R, J, k)
  BY <1>1, <1>2, <1>3 DEF Leads
<1> QED
  BY <1>4 DEF R, J

(* Every operation leaves a finalized key with its job.                    *)
LEMMA NextKeepsBinding ==
  ASSUME TypeOK, FinalizedNamesItsJob, [Next]_vars
  PROVE  FinalizedNamesItsJob'
<1> DEFINE R == KeptReservations(clock)
           J == KeptJobs(clock)
<1>0. /\ R \in [Keys -> Reservation] /\ J \in [JobIds -> Job] /\ clock \in Nat
      /\ \A x \in Keys : Leads(R, J, x)
      /\ \A j \in JobIds : J[j].status # "absent" => jobs[j].status # "absent"
  BY Maintenance, MaintenanceLeads, WrittenRows
<1>1. /\ reservations \in [Keys -> Reservation] /\ jobs \in [JobIds -> Job]
      /\ preparing \subseteq Preparation /\ executing \subseteq Lease
      /\ \A x \in Keys : Leads(reservations, jobs, x)
  BY DEF TypeOK, FinalizedNamesItsJob, Leads
<1> SUFFICES ASSUME NEW x \in Keys PROVE Leads(reservations', jobs', x)
  BY DEF FinalizedNamesItsJob, Leads
<1>2. CASE UNCHANGED <<reservations, jobs>>
  BY <1>1, <1>2
<1>3. ASSUME NEW k \in Keys, NEW new, new.status # "finalized",
             reservations' = [R EXCEPT ![k] = new], jobs' = J
      PROVE  Leads(reservations', jobs', x)
  <2> HIDE DEF R, J
  <2>1. reservations'[x].status = "finalized" => reservations'[x] = R[x]
    BY <1>0, <1>3
  <2>2. jobs' = J
    BY <1>3
  <2> QED
    BY <1>0, <2>1, <2>2, LeadsByRows
<1>4. ASSUME NEW k \in Keys, NEW q \in Requests, NEW ttl \in Ttls, NEW token \in Tokens,
             ReserveSubmission(k, q, ttl, token)
      PROVE  Leads(reservations', jobs', x)
  <2>1. \E new : new.status = "reserved" /\ reservations' = [R EXCEPT ![k] = new] /\ jobs' = J
    BY <1>4 DEF ReserveSubmission
  <2> QED
    BY <1>3, <2>1
<1>5. ASSUME NEW c \in preparing, RenewSubmission(c)
      PROVE  Leads(reservations', jobs', x)
  <2>1. PICK t, u : reservations' = [R EXCEPT ![c.key].lease_expires_at = t,
                                              ![c.key].updated_at = u]
    BY <1>5 DEF RenewSubmission
  <2>2. jobs' = J
    BY <1>5 DEF RenewSubmission
  <2> HIDE DEF R, J
  <2>3. /\ reservations'[x].status = R[x].status
        /\ reservations'[x].job = R[x].job
        /\ reservations'[x].request = R[x].request
    BY <1>0, <2>1 DEF Reservation
  <2> QED
    BY <1>0, <2>2, <2>3, LeadsByRows
<1>6. ASSUME NEW c \in preparing, NEW e \in Executions, NEW ttl \in Ttls, NEW j \in JobIds,
             FinalizeSubmission(c, e, ttl, j)
      PROVE  Leads(reservations', jobs', x)
  <2> DEFINE row == InsertedJob(c.key, e, Min2(ttl, R[c.key].expires_at - clock))
  <2>1. c.key \in Keys /\ R[c.key] \in Reservation
    BY <1>0, <1>1 DEF Preparation
  <2>2. /\ row.status = "pending" /\ row.key = c.key /\ row.execution = e
    BY DEF InsertedJob
  <2>3. LET new == FinalizedReservation(R[c.key], j)
        IN new.job = j /\ new.request = R[c.key].request
    <3>1. /\ Unleased(R[c.key], "finalized") \in Reservation
          /\ Unleased(R[c.key], "finalized").request = R[c.key].request
      BY <2>1, UnleasedReservation
    <3> QED
      BY <3>1 DEF FinalizedReservation, Reservation
  <2>4. /\ reservations' = [R EXCEPT ![c.key] = FinalizedReservation(R[c.key], j)]
        /\ RequestOf[e] = R[c.key].request
        /\ \/ /\ jobs' = J
              /\ J[j].status # "absent" /\ J[j].key = c.key /\ J[j].execution = e
           \/ jobs[j].status = "absent" /\ jobs' = [J EXCEPT ![j] = row]
    BY <1>0, <2>1, <1>6 DEF FinalizeSubmission, FreshJob
  <2> HIDE DEF R, J, row
  <2>5. /\ jobs'[j].status # "absent" /\ jobs'[j].key = c.key /\ jobs'[j].execution = e
        /\ \A i \in JobIds : J[i].status # "absent" => jobs'[i] = J[i]
    BY <1>0, <2>2, <2>4
  <2>6. CASE x = c.key
    BY <1>0, <2>1, <2>3, <2>4, <2>5, <2>6 DEF Leads
  <2>7. CASE x # c.key
    <3>1. reservations'[x] = R[x]
      BY <1>0, <2>4, <2>7
    <3> QED
      BY <1>0, <2>5, <3>1, LeadsByRows
  <2> QED
    BY <2>6, <2>7
<1>7. ASSUME NEW c \in preparing, ReleaseSubmission(c)
      PROVE  Leads(reservations', jobs', x)
  <2>1. c.key \in Keys /\ R[c.key] \in Reservation
    BY <1>0, <1>1 DEF Preparation
  <2>2. [Unleased(R[c.key], "released") EXCEPT !.updated_at = clock].status = "released"
    <3>1. /\ Unleased(R[c.key], "released") \in Reservation
          /\ Unleased(R[c.key], "released").status = "released"
      BY <2>1, UnleasedReservation
    <3> QED
      BY <3>1 DEF Reservation
  <2>3. /\ reservations' = [R EXCEPT ![c.key] =
                              [Unleased(R[c.key], "released") EXCEPT !.updated_at = clock]]
        /\ jobs' = J
    BY <1>0, <2>1, <1>7 DEF ReleaseSubmission
  <2> QED
    BY <1>3, <2>1, <2>2, <2>3
<1>8. ASSUME NEW j \in JobIds, NEW row, jobs' = [J EXCEPT ![j] = row], reservations' = R,
             J[j].status = "absent" \/ /\ row.status # "absent"
                                       /\ row.key = J[j].key
                                       /\ row.execution = J[j].execution
      PROVE  Leads(reservations', jobs', x)
  <2> HIDE DEF R, J
  <2>1. \A i \in JobIds : J[i].status # "absent" => /\ jobs'[i].status # "absent"
                                                    /\ jobs'[i].key = J[i].key
                                                    /\ jobs'[i].execution = J[i].execution
    BY <1>0, <1>8
  <2>2. reservations' = R
    BY <1>8
  <2> QED
    BY <1>0, <2>1, <2>2, LeadsByRows
<1>9. ASSUME NEW k \in Keys, NEW e \in Executions, NEW ttl \in Ttls, NEW j \in JobIds,
             CreateOrGet(k, e, ttl, j)
      PROVE  Leads(reservations', jobs', x)
  <2>1. /\ jobs' = [J EXCEPT ![j] = InsertedJob(k, e, ttl)] /\ reservations' = R
        /\ jobs[j].status = "absent"
    BY <1>9 DEF CreateOrGet, FreshJob
  <2> QED
    BY <1>0, <1>8, <2>1
<1>10. ASSUME NEW j \in JobIds, NEW token \in Tokens, Claim(j, token)
       PROVE  Leads(reservations', jobs', x)
  <2>1. J[j] \in Job
    BY <1>0
  <2>2. /\ LeasedJob(J[j], token).status = "leased"
        /\ LeasedJob(J[j], token).key = J[j].key
        /\ LeasedJob(J[j], token).execution = J[j].execution
    BY <2>1 DEF LeasedJob, Job
  <2>3. jobs' = [J EXCEPT ![j] = LeasedJob(J[j], token)] /\ reservations' = R
    BY <1>0, <1>10 DEF Claim
  <2> QED
    BY <1>8, <2>2, <2>3
<1>11. ASSUME NEW l \in executing, RenewLease(l)
       PROVE  Leads(reservations', jobs', x)
  <2> DEFINE row == [J[l.job] EXCEPT !.lease_expires_at =
                                       Min2(clock + LeaseSeconds, J[l.job].expires_at)]
  <2>1. l.job \in JobIds /\ J[l.job] \in Job
    BY <1>0, <1>1 DEF Lease
  <2>2. /\ J[l.job].status = "leased" /\ reservations' = R
        /\ jobs' = [J EXCEPT ![l.job] = row]
    BY <1>0, <2>1, <1>11 DEF RenewLease, Executes
  <2>3. row.status = "leased" /\ row.key = J[l.job].key /\ row.execution = J[l.job].execution
    BY <2>1, <2>2 DEF Job
  <2> HIDE DEF row
  <2> QED
    BY <1>8, <2>1, <2>2, <2>3
<1>12. ASSUME NEW l \in executing, Complete(l) \/ Fail(l)
       PROVE  Leads(reservations', jobs', x)
  <2> DEFINE done == [Unleased(J[l.job], "completed") EXCEPT !.completed_at = clock]
  <2>1. l.job \in JobIds /\ J[l.job] \in Job
    BY <1>0, <1>1 DEF Lease
  <2>2. /\ reservations' = R
        /\ \/ jobs' = [J EXCEPT ![l.job] = done]
           \/ jobs' = [J EXCEPT ![l.job] = FailedJob(J[l.job])]
    BY <1>0, <2>1, <1>12 DEF Complete, Fail
  <2>3. /\ done.status = "completed"
        /\ done.key = J[l.job].key /\ done.execution = J[l.job].execution
    <3> DEFINE u == Unleased(J[l.job], "completed")
    <3>1. /\ u \in Job /\ u.status = "completed"
          /\ u.key = J[l.job].key /\ u.execution = J[l.job].execution
      BY <2>1, UnleasedJob
    <3> QED
      BY <3>1 DEF Job
  <2>4. /\ FailedJob(J[l.job]).status = "expired"
        /\ FailedJob(J[l.job]).key = J[l.job].key
        /\ FailedJob(J[l.job]).execution = J[l.job].execution
    BY <2>1, UnleasedJob DEF FailedJob
  <2> HIDE DEF done
  <2> QED
    BY <1>8, <2>1, <2>2, <2>3, <2>4
<1>13. CASE ExpireDue
  BY <1>0, <1>13 DEF ExpireDue
<1>14. ASSUME NEW j \in JobIds, Get(j)
       PROVE  Leads(reservations', jobs', x)
  <2>1. /\ jobs' = [jobs EXCEPT ![j] = RefreshedJob(jobs[j], clock)]
        /\ reservations' = reservations
    BY <1>1, <1>14 DEF Get
  <2>2. LET q == RefreshedJob(jobs[j], clock)
        IN jobs[j].status # "absent" => /\ q.status # "absent"
                                        /\ q.key = jobs[j].key
                                        /\ q.execution = jobs[j].execution
    BY <1>0, <1>1, RefreshedJobRow DEF ActiveJob
  <2>3. \A i \in JobIds : jobs[i].status # "absent" =>
                             /\ jobs'[i].status # "absent"
                             /\ jobs'[i].key = jobs[i].key
                             /\ jobs'[i].execution = jobs[i].execution
    BY <1>1, <2>1, <2>2
  <2>4. reservations' = reservations
    BY <2>1
  <2> QED
    BY <1>1, <2>3, <2>4, LeadsByRows
<1>15. CASE GetReservation
  <2>1. LET q == RefreshedReservation(reservations[x], clock)
        IN q.status = "finalized" => q = reservations[x]
    BY <1>0, <1>1, RefreshedReservationRow
  <2>2. jobs' = jobs /\ (reservations'[x].status = "finalized" =>
                           reservations'[x] = reservations[x])
    BY <1>15, <2>1 DEF GetReservation
  <2> QED
    BY <1>1, <2>2, LeadsByRows
<1>16. CASE \/ Tick
            \/ \E c \in preparing : DropReservation(c)
            \/ \E l \in executing : DropLease(l)
  BY <1>2, <1>16 DEF Tick, DropReservation, DropLease
<1> QED
  BY <1>2, <1>4, <1>5, <1>6, <1>7, <1>9, <1>10, <1>11, <1>12, <1>13, <1>14, <1>15, <1>16
     DEF Next, Submitting, Executing, Reading, vars

(* A key that answers "existing" always has the job of that key and that   *)
(* request, whatever retention has deleted.                                *)
THEOREM BindingKept == Spec => []FinalizedNamesItsJob
<1>1. Init => FinalizedNamesItsJob
  BY DEF Init, FinalizedNamesItsJob, AbsentReservation
<1>2. TypeOK /\ FinalizedNamesItsJob /\ [Next]_vars => FinalizedNamesItsJob'
  BY NextKeepsBinding
<1> QED
  BY <1>1, <1>2, TypeCorrect, PTL DEF Spec

-----------------------------------------------------------------------------
(***************************************************************************)
(* Results.                                                                *)
(***************************************************************************)
Stands(j, row) ==
  \/ row = jobs[j]
  \/ row.status = "absent" /\ jobs[j].completed_at + RetentionSeconds <= clock

(* Maintenance leaves a result alone until its retention has passed.       *)
LEMMA MaintenanceStands ==
  ASSUME TypeOK, NEW j \in JobIds, jobs[j].status = "completed"
  PROVE  Stands(j, KeptJobs(clock)[j])
<1> DEFINE J == KeptJobs(clock)
<1>1. jobs[j] \in Job /\ clock \in Nat /\ RetentionSeconds \in Nat
  BY WrittenRows, DurationAssumption DEF TypeOK
<1>2. RefreshedJob(jobs[j], clock) = jobs[j]
  BY <1>1, RefreshedJobRow DEF ActiveJob
<1>3. /\ J[j] = jobs[j] \/ J[j] = AbsentJob
      /\ J[j] # jobs[j] => JobElapsed(jobs[j], clock - RetentionSeconds)
  BY <1>2, KeptJobRow
<1> HIDE DEF J
<1>4. CASE J[j] = jobs[j]
  BY <1>4 DEF Stands, J
<1>5. CASE J[j] # jobs[j]
  <2>1. jobs[j].completed_at <= clock - RetentionSeconds /\ jobs[j].completed_at \in Nat
    BY <1>1, <1>3, <1>5 DEF JobElapsed, Job
  <2>2. jobs[j].completed_at + RetentionSeconds <= clock
    BY <1>1, <2>1
  <2>3. J[j].status = "absent"
    BY <1>3, <1>5 DEF AbsentJob
  <2> QED
    BY <2>2, <2>3 DEF Stands, J
<1> QED
  BY <1>4, <1>5

(* What an operation may do to the table of jobs: nothing but maintenance, *)
(* a refresh, or writing a row that was active after its maintenance or    *)
(* was not there.  The operations without maintenance leave the keys that  *)
(* are not due alone.                                                      *)
RowWritten(J, j) ==
  /\ J[j].status \in ActiveJob \/ jobs[j].status = "absent"
  /\ \E row : jobs' = [J EXCEPT ![j] = row]

KeysRead ==
  \/ reservations' = reservations
  \/ reservations' = [k \in Keys |-> RefreshedReservation(reservations[k], clock)]

JobsWritten ==
  \/ /\ KeysRead
     /\ \/ jobs' = jobs
        \/ \E j \in JobIds : jobs' = [jobs EXCEPT ![j] = RefreshedJob(jobs[j], clock)]
  \/ jobs' = KeptJobs(clock)
  \/ \E j \in JobIds : RowWritten(KeptJobs(clock), j)

(* Every operation is one of these.                                        *)
LEMMA WrittenJobs ==
  ASSUME TypeOK, [Next]_vars
  PROVE  JobsWritten
<1> DEFINE J == KeptJobs(clock)
<1>0. /\ J \in [JobIds -> Job] /\ jobs \in [JobIds -> Job] /\ executing \subseteq Lease
      /\ "leased" \in ActiveJob /\ "pending" \in ActiveJob
  BY Maintenance DEF TypeOK, ActiveJob
<1>1. ASSUME \/ jobs' = J
             \/ jobs' = jobs /\ KeysRead
      PROVE  JobsWritten
  BY <1>1 DEF JobsWritten
<1>2. ASSUME NEW j \in JobIds, RowWritten(J, j)
      PROVE  JobsWritten
  BY <1>2 DEF JobsWritten
<1>3. ASSUME NEW k \in Keys, NEW q \in Requests, NEW ttl \in Ttls, NEW token \in Tokens,
             ReserveSubmission(k, q, ttl, token)
      PROVE  JobsWritten
  BY <1>1, <1>3 DEF ReserveSubmission
<1>4. ASSUME NEW c \in preparing,
             RenewSubmission(c) \/ ReleaseSubmission(c) \/ DropReservation(c)
      PROVE  JobsWritten
  BY <1>1, <1>4 DEF RenewSubmission, ReleaseSubmission, DropReservation, KeysRead
<1>5. ASSUME NEW c \in preparing, NEW e \in Executions, NEW ttl \in Ttls, NEW j \in JobIds,
             FinalizeSubmission(c, e, ttl, j)
      PROVE  JobsWritten
  <2>1. jobs' = J \/ RowWritten(J, j)
    BY <1>5 DEF FinalizeSubmission, FreshJob, RowWritten
  <2> QED
    BY <1>1, <1>2, <2>1
<1>6. ASSUME NEW k \in Keys, NEW e \in Executions, NEW ttl \in Ttls, NEW j \in JobIds,
             CreateOrGet(k, e, ttl, j)
      PROVE  JobsWritten
  <2>1. RowWritten(J, j)
    BY <1>6 DEF CreateOrGet, FreshJob, RowWritten
  <2> QED
    BY <1>2, <2>1
<1>7. ASSUME NEW j \in JobIds, NEW token \in Tokens, Claim(j, token)
      PROVE  JobsWritten
  <2>1. RowWritten(J, j)
    BY <1>0, <1>7 DEF Claim, RowWritten
  <2> QED
    BY <1>2, <2>1
<1>8. ASSUME NEW l \in executing, RenewLease(l) \/ Complete(l) \/ Fail(l)
      PROVE  JobsWritten
  <2>1. l.job \in JobIds
    BY <1>0 DEF Lease
  <2>2. J[l.job].status \in ActiveJob
    BY <1>0, <1>8 DEF RenewLease, Complete, Fail, Executes
  <2>3. CASE RenewLease(l)
    <3>1. jobs' = [J EXCEPT ![l.job] = [J[l.job] EXCEPT !.lease_expires_at =
                                          Min2(clock + LeaseSeconds, J[l.job].expires_at)]]
      BY <1>0, <2>1, <2>3 DEF RenewLease
    <3> QED
      BY <1>2, <2>1, <2>2, <3>1 DEF RowWritten
  <2>4. CASE Complete(l) \/ Fail(l)
    <3>1. \E row : jobs' = [J EXCEPT ![l.job] = row]
      BY <1>0, <2>1, <2>4 DEF Complete, Fail
    <3> QED
      BY <1>2, <2>1, <2>2, <3>1 DEF RowWritten
  <2> QED
    BY <1>8, <2>3, <2>4
<1>9. ASSUME NEW l \in executing, DropLease(l)
      PROVE  JobsWritten
  BY <1>1, <1>9 DEF DropLease, KeysRead
<1>10. ASSUME NEW j \in JobIds, Get(j)
       PROVE  JobsWritten
  <2>1. jobs' = [jobs EXCEPT ![j] = RefreshedJob(jobs[j], clock)]
    BY <1>0, <1>10 DEF Get
  <2>2. KeysRead
    BY <1>10 DEF Get, KeysRead
  <2> QED
    BY <2>1, <2>2 DEF JobsWritten
<1>11. CASE Tick \/ GetReservation \/ ExpireDue \/ UNCHANGED vars
  BY <1>1, <1>11 DEF Tick, GetReservation, ExpireDue, vars, KeysRead
<1>12. CASE Submitting
  BY <1>3, <1>4, <1>5, <1>6, <1>12 DEF Submitting
<1>13. CASE Executing
  BY <1>7, <1>8, <1>9, <1>13 DEF Executing
<1> QED
  BY <1>10, <1>11, <1>12, <1>13 DEF Next, Reading

(* A step leaves a result as it is, or deletes it when it may.             *)
LEMMA NextKeepsResults ==
  ASSUME TypeOK, [Next]_vars
  PROVE  \A j \in JobIds : jobs[j].status = "completed" => Stands(j, jobs'[j])
<1> SUFFICES ASSUME NEW j \in JobIds, jobs[j].status = "completed"
             PROVE  Stands(j, jobs'[j])
  OBVIOUS
<1> DEFINE J == KeptJobs(clock)
<1>0. /\ J \in [JobIds -> Job] /\ jobs \in [JobIds -> Job] /\ clock \in Nat
      /\ "completed" \notin ActiveJob /\ "absent" \notin ActiveJob
  BY Maintenance, WrittenRows DEF TypeOK, ActiveJob
<1>1. Stands(j, J[j]) /\ J[j].status \notin ActiveJob
  BY <1>0, MaintenanceStands DEF Stands
<1>2. RefreshedJob(jobs[j], clock) = jobs[j]
  BY <1>0, RefreshedJobRow
<1>3. CASE jobs' = jobs
  BY <1>3 DEF Stands
<1>4. CASE jobs' = J
  BY <1>1, <1>4
<1>5. ASSUME NEW i \in JobIds, jobs' = [jobs EXCEPT ![i] = RefreshedJob(jobs[i], clock)]
      PROVE  Stands(j, jobs'[j])
  <2>1. jobs'[j] = jobs[j]
    BY <1>0, <1>2, <1>5
  <2> QED
    BY <2>1 DEF Stands
<1>6. ASSUME NEW i \in JobIds, RowWritten(J, i)
      PROVE  Stands(j, jobs'[j])
  <2>1. PICK row : jobs' = [J EXCEPT ![i] = row]
    BY <1>6 DEF RowWritten
  <2>2. i # j
    BY <1>1, <1>6 DEF RowWritten
  <2> HIDE DEF J
  <2>3. jobs'[j] = J[j]
    BY <1>0, <2>1, <2>2
  <2> QED
    BY <1>1, <2>3
<1> QED
  BY <1>3, <1>4, <1>5, <1>6, WrittenJobs DEF JobsWritten

(* The first completion wins, and its result is kept for the retention     *)
(* time.                                                                   *)
THEOREM ResultsKept == Spec => ResultStands
<1>1. TypeOK /\ [Next]_vars =>
        [\A j \in JobIds :
           jobs[j].status = "completed" =>
             \/ jobs'[j] = jobs[j]
             \/ jobs'[j].status = "absent" /\ jobs[j].completed_at + RetentionSeconds <= clock]_vars
  BY NextKeepsResults DEF Stands
<1> QED
  BY <1>1, TypeCorrect, PTL DEF Spec, ResultStands

-----------------------------------------------------------------------------
(***************************************************************************)
(* Leases.  A lease never outlasts the deadline of its row, so a live one  *)
(* survives maintenance.                                                   *)
(***************************************************************************)
Bounded(r, status) == r.status = status => r.lease_expires_at <= r.expires_at

LeasesBounded ==
  /\ \A k \in Keys : Bounded(reservations[k], "reserved")
  /\ \A j \in JobIds : Bounded(jobs[j], "leased")

(* Every operation keeps leases within their deadlines.                    *)
LEMMA NextKeepsBounds ==
  ASSUME TypeOK, LeasesBounded, [Next]_vars
  PROVE  LeasesBounded'
<1> DEFINE R == KeptReservations(clock)
           J == KeptJobs(clock)
<1>0. /\ R \in [Keys -> Reservation] /\ J \in [JobIds -> Job] /\ clock \in Nat
      /\ reservations \in [Keys -> Reservation] /\ jobs \in [JobIds -> Job]
      /\ preparing \subseteq Preparation /\ executing \subseteq Lease
      /\ LeaseSeconds \in Nat
  BY Maintenance, WrittenRows, DurationAssumption DEF TypeOK
<1>1. /\ \A k \in Keys : Bounded(R[k], "reserved")
      /\ \A j \in JobIds : Bounded(J[j], "leased")
  BY Maintenance DEF LeasesBounded, Bounded
<1>2. \A a, b \in Nat : Min2(a, b) <= b
  BY DEF Min2
<1> SUFFICES /\ \A k \in Keys : Bounded(reservations'[k], "reserved")
             /\ \A j \in JobIds : Bounded(jobs'[j], "leased")
  BY DEF LeasesBounded, Bounded
<1> DEFINE RGood == \A k \in Keys : Bounded(reservations'[k], "reserved")
           JGood == \A j \in JobIds : Bounded(jobs'[j], "leased")
<1>3. /\ reservations' = R \/ reservations' = reservations => RGood
      /\ jobs' = J \/ jobs' = jobs => JGood
  BY <1>1 DEF LeasesBounded
<1>4. ASSUME NEW k \in Keys, NEW new, Bounded(new, "reserved"),
             reservations' = [R EXCEPT ![k] = new]
      PROVE  RGood
  <2> HIDE DEF R
  <2> QED
    BY <1>0, <1>1, <1>4
<1>5. ASSUME NEW j \in JobIds, NEW new, Bounded(new, "leased"), jobs' = [J EXCEPT ![j] = new]
      PROVE  JGood
  <2> HIDE DEF J
  <2> QED
    BY <1>0, <1>1, <1>5
<1>6. ASSUME NEW k \in Keys, NEW q \in Requests, NEW ttl \in Ttls, NEW token \in Tokens,
             ReserveSubmission(k, q, ttl, token)
      PROVE  RGood /\ JGood
  <2> DEFINE d == TakeoverDeadline(R[k], ttl)
             new == [status |-> "reserved", request |-> q, token |-> token, job |-> NONE,
                     expires_at |-> d, lease_expires_at |-> Min2(clock + LeaseSeconds, d),
                     updated_at |-> clock]
  <2>1. reservations' = [R EXCEPT ![k] = new] /\ jobs' = J
    BY <1>6 DEF ReserveSubmission
  <2>2. d \in Nat
    BY <1>0, WrittenRows
  <2> HIDE DEF d
  <2>3. Bounded(new, "reserved")
    BY <1>0, <1>2, <2>2 DEF Bounded
  <2> HIDE DEF new
  <2> QED
    BY <1>3, <1>4, <2>1, <2>3
<1>7. ASSUME NEW c \in preparing, RenewSubmission(c)
      PROVE  RGood /\ JGood
  <2> DEFINE m == Min2(clock + LeaseSeconds, R[c.key].expires_at)
             new == [R[c.key] EXCEPT !.lease_expires_at = m, !.updated_at = clock]
  <2>1. c.key \in Keys /\ R[c.key] \in Reservation
    BY <1>0 DEF Preparation
  <2>2. m <= R[c.key].expires_at
    <3>1. clock + LeaseSeconds \in Nat /\ R[c.key].expires_at \in Nat
      BY <1>0, <2>1 DEF Reservation
    <3> QED
      BY <1>2, <3>1
  <2>3. /\ jobs' = J
        /\ reservations' = [R EXCEPT ![c.key].lease_expires_at = m, ![c.key].updated_at = clock]
    BY <1>7 DEF RenewSubmission
  <2> HIDE DEF m, R
  <2>4. reservations' = [R EXCEPT ![c.key] = new]
    BY <1>0, <2>1, <2>3 DEF Reservation
  <2>5. Bounded(new, "reserved")
    BY <2>1, <2>2 DEF Bounded, Reservation
  <2> HIDE DEF new
  <2> QED
    BY <1>3, <1>4, <2>1, <2>3, <2>4, <2>5 DEF R
<1>8. ASSUME NEW c \in preparing, NEW e \in Executions, NEW ttl \in Ttls, NEW j \in JobIds,
             FinalizeSubmission(c, e, ttl, j)
      PROVE  RGood /\ JGood
  <2> DEFINE row == InsertedJob(c.key, e, Min2(ttl, R[c.key].expires_at - clock))
  <2>1. c.key \in Keys /\ R[c.key] \in Reservation
    BY <1>0 DEF Preparation
  <2>2. FinalizedReservation(R[c.key], j).status = "finalized"
    <3>1. /\ Unleased(R[c.key], "finalized") \in Reservation
          /\ Unleased(R[c.key], "finalized").status = "finalized"
      BY <2>1, UnleasedReservation
    <3> QED
      BY <3>1 DEF FinalizedReservation, Reservation
  <2>3. row.status = "pending"
    BY DEF InsertedJob
  <2>4. /\ reservations' = [R EXCEPT ![c.key] = FinalizedReservation(R[c.key], j)]
        /\ jobs' = J \/ jobs' = [J EXCEPT ![j] = row]
    BY <1>0, <2>1, <1>8 DEF FinalizeSubmission
  <2> HIDE DEF row
  <2> QED
    BY <1>3, <1>4, <1>5, <2>1, <2>2, <2>3, <2>4 DEF Bounded
<1>9. ASSUME NEW c \in preparing, ReleaseSubmission(c)
      PROVE  RGood /\ JGood
  <2> DEFINE new == [Unleased(R[c.key], "released") EXCEPT !.updated_at = clock]
  <2>1. c.key \in Keys /\ R[c.key] \in Reservation
    BY <1>0 DEF Preparation
  <2>2. new.status = "released"
    <3>1. /\ Unleased(R[c.key], "released") \in Reservation
          /\ Unleased(R[c.key], "released").status = "released"
      BY <2>1, UnleasedReservation
    <3> QED
      BY <3>1 DEF Reservation
  <2>3. reservations' = [R EXCEPT ![c.key] = new] /\ jobs' = J
    BY <1>0, <2>1, <1>9 DEF ReleaseSubmission
  <2> HIDE DEF new
  <2> QED
    BY <1>3, <1>4, <2>1, <2>2, <2>3 DEF Bounded
<1>10. ASSUME NEW k \in Keys, NEW e \in Executions, NEW ttl \in Ttls, NEW j \in JobIds,
              CreateOrGet(k, e, ttl, j)
       PROVE  RGood /\ JGood
  <2>1. InsertedJob(k, e, ttl).status = "pending"
    BY DEF InsertedJob
  <2>2. reservations' = R /\ jobs' = [J EXCEPT ![j] = InsertedJob(k, e, ttl)]
    BY <1>10 DEF CreateOrGet
  <2> QED
    BY <1>3, <1>5, <2>1, <2>2 DEF Bounded
<1>11. ASSUME NEW j \in JobIds, NEW token \in Tokens, Claim(j, token)
       PROVE  RGood /\ JGood
  <2>1. clock + LeaseSeconds \in Nat /\ J[j].expires_at \in Nat /\ J[j] \in Job
    BY <1>0 DEF Job
  <2>2. Min2(clock + LeaseSeconds, J[j].expires_at) <= J[j].expires_at
    BY <1>2, <2>1
  <2>3. Bounded(LeasedJob(J[j], token), "leased")
    BY <2>1, <2>2 DEF LeasedJob, Job, Bounded
  <2>4. reservations' = R /\ jobs' = [J EXCEPT ![j] = LeasedJob(J[j], token)]
    BY <1>0, <1>11 DEF Claim
  <2> QED
    BY <1>3, <1>5, <2>3, <2>4
<1>12. ASSUME NEW l \in executing, RenewLease(l)
       PROVE  RGood /\ JGood
  <2> DEFINE m == Min2(clock + LeaseSeconds, J[l.job].expires_at)
             row == [J[l.job] EXCEPT !.lease_expires_at = m]
  <2>1. l.job \in JobIds /\ J[l.job] \in Job
    BY <1>0 DEF Lease
  <2>2. m <= J[l.job].expires_at
    <3>1. clock + LeaseSeconds \in Nat /\ J[l.job].expires_at \in Nat
      BY <1>0, <2>1 DEF Job
    <3> QED
      BY <1>2, <3>1
  <2>3. reservations' = R /\ jobs' = [J EXCEPT ![l.job] = row]
    BY <1>0, <2>1, <1>12 DEF RenewLease
  <2> HIDE DEF m
  <2>4. Bounded(row, "leased")
    BY <2>1, <2>2 DEF Bounded, Job
  <2> HIDE DEF row
  <2> QED
    BY <1>3, <1>5, <2>1, <2>3, <2>4
<1>13. ASSUME NEW l \in executing, Complete(l) \/ Fail(l)
       PROVE  RGood /\ JGood
  <2> DEFINE done == [Unleased(J[l.job], "completed") EXCEPT !.completed_at = clock]
  <2>1. l.job \in JobIds /\ J[l.job] \in Job
    BY <1>0 DEF Lease
  <2>2. done.status = "completed"
    <3>1. /\ Unleased(J[l.job], "completed") \in Job
          /\ Unleased(J[l.job], "completed").status = "completed"
      BY <2>1, UnleasedJob
    <3> QED
      BY <3>1 DEF Job
  <2>3. FailedJob(J[l.job]).status = "expired"
    BY <2>1, UnleasedJob DEF FailedJob
  <2>4. /\ reservations' = R
        /\ \/ jobs' = [J EXCEPT ![l.job] = done]
           \/ jobs' = [J EXCEPT ![l.job] = FailedJob(J[l.job])]
    BY <1>0, <2>1, <1>13 DEF Complete, Fail
  <2> HIDE DEF done
  <2> QED
    BY <1>3, <1>5, <2>1, <2>2, <2>3, <2>4 DEF Bounded
<1>14. ASSUME NEW j \in JobIds, Get(j)
       PROVE  RGood /\ JGood
  <2>1. /\ jobs' = [jobs EXCEPT ![j] = RefreshedJob(jobs[j], clock)]
        /\ reservations' = reservations
    BY <1>0, <1>14 DEF Get
  <2>2. Bounded(RefreshedJob(jobs[j], clock), "leased")
    BY <1>0, RefreshedJobRow DEF Bounded, LeasesBounded
  <2>3. JGood
    BY <1>0, <2>1, <2>2 DEF LeasesBounded
  <2> QED
    BY <1>3, <2>1, <2>3
<1>15. CASE GetReservation
  <2>1. \A k \in Keys : Bounded(RefreshedReservation(reservations[k], clock), "reserved")
    BY <1>0, RefreshedReservationRow DEF Bounded, LeasesBounded
  <2>2. RGood /\ jobs' = jobs
    BY <1>15, <2>1 DEF GetReservation
  <2> QED
    BY <1>3, <2>2
<1>16. CASE Tick \/ ExpireDue \/ UNCHANGED vars
  BY <1>3, <1>16 DEF Tick, ExpireDue, vars
<1>17. ASSUME NEW c \in preparing, DropReservation(c)
       PROVE  RGood /\ JGood
  BY <1>3, <1>17 DEF DropReservation
<1>18. ASSUME NEW l \in executing, DropLease(l)
       PROVE  RGood /\ JGood
  BY <1>3, <1>18 DEF DropLease
<1> DEFINE Good == RGood /\ JGood
<1> HIDE DEF Good
<1>19. CASE Submitting
  <2>1. Good
    BY <1>6, <1>7, <1>8, <1>9, <1>10, <1>17, <1>19 DEF Submitting, Good
  <2> QED
    BY <2>1 DEF Good
<1>20. CASE Executing
  <2>1. Good
    BY <1>11, <1>12, <1>13, <1>18, <1>20 DEF Executing, Good
  <2> QED
    BY <2>1 DEF Good
<1> QED
  BY <1>14, <1>15, <1>16, <1>19, <1>20 DEF Next, Reading

(* Leases stay within deadlines for ever.                                  *)
LEMMA BoundsKept == Spec => []LeasesBounded
<1>1. Init => LeasesBounded
  BY DEF Init, LeasesBounded, Bounded, AbsentReservation, AbsentJob
<1>2. TypeOK /\ LeasesBounded /\ [Next]_vars => LeasesBounded'
  BY NextKeepsBounds
<1> QED
  BY <1>1, <1>2, TypeCorrect, PTL DEF Spec

(* A lease that is live is untouched by the maintenance of any operation.  *)
LEMMA LiveLeaseSurvives ==
  ASSUME TypeOK, LeasesBounded
  PROVE  /\ \A k \in Keys : LET r == reservations[k]
                             IN r.status = "reserved" /\ r.lease_expires_at > clock =>
                                  /\ KeptReservations(clock)[k] = r
                                  /\ RefreshedReservation(r, clock) = r
         /\ \A j \in JobIds : LET r == jobs[j]
                               IN r.status = "leased" /\ r.lease_expires_at > clock =>
                                    /\ KeptJobs(clock)[j] = r
                                    /\ RefreshedJob(r, clock) = r
<1>1. clock \in Nat
  BY WrittenRows
<1>2. ASSUME NEW k \in Keys, reservations[k].status = "reserved",
             reservations[k].lease_expires_at > clock
      PROVE  /\ KeptReservations(clock)[k] = reservations[k]
             /\ RefreshedReservation(reservations[k], clock) = reservations[k]
  <2>1. reservations[k] \in Reservation /\ reservations[k].expires_at > clock
    BY <1>1, <1>2 DEF TypeOK, LeasesBounded, Bounded, Reservation
  <2>2. RefreshedReservation(reservations[k], clock) = reservations[k]
    BY <1>1, <1>2, <2>1, RefreshedReservationRow
  <2>3. ~ReservationElapsed(reservations[k], clock - RetentionSeconds)
    BY <1>2 DEF ReservationElapsed
  <2> QED
    BY <2>2, <2>3, KeptReservationRow
<1>3. ASSUME NEW j \in JobIds, jobs[j].status = "leased", jobs[j].lease_expires_at > clock
      PROVE  KeptJobs(clock)[j] = jobs[j] /\ RefreshedJob(jobs[j], clock) = jobs[j]
  <2>1. jobs[j] \in Job /\ jobs[j].expires_at > clock
    BY <1>1, <1>3 DEF TypeOK, LeasesBounded, Bounded, Job
  <2>2. RefreshedJob(jobs[j], clock) = jobs[j]
    BY <1>1, <1>3, <2>1, RefreshedJobRow
  <2>3. ~JobElapsed(jobs[j], clock - RetentionSeconds)
    BY <1>3 DEF JobElapsed
  <2> QED
    BY <2>2, <2>3, KeptJobRow
<1> QED
  BY <1>2, <1>3

(* What may become of a live preparation.                                  *)
ReservationKept(k) ==
  \/ reservations'[k].status = "reserved" /\ reservations'[k].token = reservations[k].token
  \/ [key |-> k, token |-> reservations[k].token] \in preparing \ preparing'

(* A step leaves it with its holder, or is its holder's.                   *)
LEMMA NextKeepsPreparation ==
  ASSUME TypeOK, LeasesBounded, [Next]_vars, NEW k \in Keys,
         reservations[k].status = "reserved", reservations[k].lease_expires_at > clock
  PROVE  ReservationKept(k)
<1> DEFINE R == KeptReservations(clock)
<1>0. /\ R \in [Keys -> Reservation] /\ preparing \subseteq Preparation
      /\ reservations \in [Keys -> Reservation]
      /\ R[k] = reservations[k] /\ RefreshedReservation(reservations[k], clock) = reservations[k]
  BY Maintenance, LiveLeaseSurvives DEF TypeOK
<1>1. ASSUME reservations'[k] = R[k]
      PROVE  ReservationKept(k)
  BY <1>0, <1>1 DEF ReservationKept
<1>2. ASSUME NEW x \in Keys, NEW q \in Requests, NEW ttl \in Ttls, NEW token \in Tokens,
             ReserveSubmission(x, q, ttl, token)
      PROVE  ReservationKept(k)
  <2>1. x # k
    BY <1>0, <1>2 DEF ReserveSubmission
  <2>2. \E new : reservations' = [R EXCEPT ![x] = new]
    BY <1>2 DEF ReserveSubmission
  <2> HIDE DEF R
  <2>3. reservations'[k] = R[k]
    BY <1>0, <2>1, <2>2
  <2> QED
    BY <1>1, <2>3
<1>3. ASSUME NEW c \in preparing, RenewSubmission(c)
      PROVE  ReservationKept(k)
  <2>1. PICK t, u : reservations' = [R EXCEPT ![c.key].lease_expires_at = t,
                                              ![c.key].updated_at = u]
    BY <1>3 DEF RenewSubmission
  <2> HIDE DEF R
  <2>2. reservations'[k].status = R[k].status /\ reservations'[k].token = R[k].token
    BY <1>0, <2>1 DEF Reservation
  <2> QED
    BY <1>0, <2>2 DEF ReservationKept
<1>4. ASSUME NEW c \in preparing, NEW new, Prepares(R, c), preparing' = preparing \ {c},
             reservations' = [R EXCEPT ![c.key] = new]
      PROVE  ReservationKept(k)
  <2>1. c = [key |-> c.key, token |-> c.token] /\ c.key \in Keys
    BY <1>0 DEF Preparation
  <2>2. CASE c.key = k
    <3>1. c.token = reservations[k].token
      BY <1>0, <1>4, <2>2 DEF Prepares
    <3> QED
      BY <1>4, <2>1, <2>2, <3>1 DEF ReservationKept
  <2>3. CASE c.key # k
    <3> HIDE DEF R
    <3>1. reservations'[k] = R[k]
      BY <1>0, <1>4, <2>3
    <3> QED
      BY <1>1, <3>1
  <2> QED
    BY <2>2, <2>3
<1>5. ASSUME NEW c \in preparing, ReleaseSubmission(c)
      PROVE  ReservationKept(k)
  <2>1. /\ Prepares(R, c) /\ preparing' = preparing \ {c}
        /\ \E new : reservations' = [R EXCEPT ![c.key] = new]
    BY <1>5 DEF ReleaseSubmission
  <2> HIDE DEF R
  <2> QED
    BY <1>4, <2>1
<1>6. ASSUME NEW c \in preparing, NEW e \in Executions, NEW ttl \in Ttls, NEW j \in JobIds,
             FinalizeSubmission(c, e, ttl, j)
      PROVE  ReservationKept(k)
  <2>1. /\ Prepares(R, c) /\ preparing' = preparing \ {c}
        /\ \E new : reservations' = [R EXCEPT ![c.key] = new]
    BY <1>6 DEF FinalizeSubmission
  <2> HIDE DEF R
  <2> QED
    BY <1>4, <2>1
<1>7. ASSUME reservations' = R \/ reservations' = reservations
      PROVE  ReservationKept(k)
  BY <1>0, <1>1, <1>7
<1>8. ASSUME NEW x \in Keys, NEW e \in Executions, NEW ttl \in Ttls, NEW j \in JobIds,
             CreateOrGet(x, e, ttl, j)
      PROVE  ReservationKept(k)
  BY <1>7, <1>8 DEF CreateOrGet
<1>9. ASSUME NEW j \in JobIds, NEW token \in Tokens, Claim(j, token)
      PROVE  ReservationKept(k)
  BY <1>7, <1>9 DEF Claim
<1>10. ASSUME NEW l \in executing, RenewLease(l) \/ Complete(l) \/ Fail(l) \/ DropLease(l)
       PROVE  ReservationKept(k)
  BY <1>7, <1>10 DEF RenewLease, Complete, Fail, DropLease
<1>11. ASSUME NEW c \in preparing, DropReservation(c)
       PROVE  ReservationKept(k)
  BY <1>7, <1>11 DEF DropReservation
<1>12. ASSUME NEW j \in JobIds, Get(j)
       PROVE  ReservationKept(k)
  BY <1>7, <1>12 DEF Get
<1>13. CASE GetReservation
  BY <1>0, <1>1, <1>13 DEF GetReservation
<1>14. CASE Tick \/ ExpireDue \/ UNCHANGED vars
  BY <1>7, <1>14 DEF Tick, ExpireDue, vars
<1>15. CASE Submitting
  BY <1>2, <1>3, <1>5, <1>6, <1>8, <1>11, <1>15 DEF Submitting
<1>16. CASE Executing
  BY <1>9, <1>10, <1>16 DEF Executing
<1> QED
  BY <1>12, <1>13, <1>14, <1>15, <1>16 DEF Next, Reading

(* What may become of a live execution.                                    *)
LeaseKept(j) ==
  \/ jobs'[j].status = "leased" /\ jobs'[j].token = jobs[j].token
  \/ [job |-> j, token |-> jobs[j].token] \in executing \ executing'

(* The same of executions.                                                 *)
LEMMA NextKeepsExecution ==
  ASSUME TypeOK, LeasesBounded, [Next]_vars, NEW j \in JobIds,
         jobs[j].status = "leased", jobs[j].lease_expires_at > clock
  PROVE  LeaseKept(j)
<1> DEFINE J == KeptJobs(clock)
<1>0. /\ J \in [JobIds -> Job] /\ executing \subseteq Lease /\ jobs \in [JobIds -> Job]
      /\ J[j] = jobs[j] /\ RefreshedJob(jobs[j], clock) = jobs[j]
  BY Maintenance, LiveLeaseSurvives DEF TypeOK
<1>1. ASSUME jobs'[j] = J[j]
      PROVE  LeaseKept(j)
  BY <1>0, <1>1 DEF LeaseKept
<1>2. ASSUME jobs' = J \/ jobs' = jobs
      PROVE  LeaseKept(j)
  BY <1>0, <1>1, <1>2
<1>3. ASSUME NEW i \in JobIds, NEW row, i # j, jobs' = [J EXCEPT ![i] = row]
      PROVE  LeaseKept(j)
  <2> HIDE DEF J
  <2>1. jobs'[j] = J[j]
    BY <1>0, <1>3
  <2> QED
    BY <1>1, <2>1
<1>4. ASSUME NEW x \in Keys, NEW q \in Requests, NEW ttl \in Ttls, NEW token \in Tokens,
             ReserveSubmission(x, q, ttl, token)
      PROVE  LeaseKept(j)
  BY <1>2, <1>4 DEF ReserveSubmission
<1>5. ASSUME NEW c \in preparing,
             RenewSubmission(c) \/ ReleaseSubmission(c) \/ DropReservation(c)
      PROVE  LeaseKept(j)
  BY <1>2, <1>5 DEF RenewSubmission, ReleaseSubmission, DropReservation
<1>6. ASSUME NEW c \in preparing, NEW e \in Executions, NEW ttl \in Ttls, NEW i \in JobIds,
             FinalizeSubmission(c, e, ttl, i)
      PROVE  LeaseKept(j)
  <2>1. \/ jobs' = J
        \/ jobs[i].status = "absent" /\ \E row : jobs' = [J EXCEPT ![i] = row]
    BY <1>6 DEF FinalizeSubmission, FreshJob
  <2>2. ASSUME jobs[i].status = "absent", NEW row, jobs' = [J EXCEPT ![i] = row]
        PROVE  LeaseKept(j)
    <3>1. i # j
      BY <2>2
    <3> QED
      BY <1>3, <2>2, <3>1
  <2> QED
    BY <1>2, <2>1, <2>2
<1>7. ASSUME NEW x \in Keys, NEW e \in Executions, NEW ttl \in Ttls, NEW i \in JobIds,
             CreateOrGet(x, e, ttl, i)
      PROVE  LeaseKept(j)
  <2>1. jobs[i].status = "absent" /\ \E row : jobs' = [J EXCEPT ![i] = row]
    BY <1>7 DEF CreateOrGet, FreshJob
  <2> HIDE DEF J
  <2> QED
    BY <1>3, <2>1 DEF J
<1>8. ASSUME NEW i \in JobIds, NEW token \in Tokens, Claim(i, token)
      PROVE  LeaseKept(j)
  <2>1. i # j /\ \E row : jobs' = [J EXCEPT ![i] = row]
    BY <1>0, <1>8 DEF Claim
  <2> QED
    BY <1>3, <2>1
<1>9. ASSUME NEW l \in executing, RenewLease(l)
      PROVE  LeaseKept(j)
  <2>1. PICK t : jobs' = [J EXCEPT ![l.job].lease_expires_at = t]
    BY <1>9 DEF RenewLease
  <2> HIDE DEF J
  <2>2. jobs'[j].status = J[j].status /\ jobs'[j].token = J[j].token
    BY <1>0, <2>1 DEF Job
  <2> QED
    BY <1>0, <2>2 DEF LeaseKept
<1>10. ASSUME NEW l \in executing, Complete(l) \/ Fail(l)
       PROVE  LeaseKept(j)
  <2>1. l = [job |-> l.job, token |-> l.token] /\ l.job \in JobIds
    BY <1>0 DEF Lease
  <2>2. /\ Executes(J, l) /\ executing' = executing \ {l}
        /\ \E row : jobs' = [J EXCEPT ![l.job] = row]
    BY <1>0, <2>1, <1>10 DEF Complete, Fail
  <2>3. CASE l.job = j
    <3>1. l.token = jobs[j].token
      BY <1>0, <2>2, <2>3 DEF Executes
    <3> QED
      BY <2>1, <2>2, <2>3, <3>1 DEF LeaseKept
  <2>4. CASE l.job # j
    BY <1>3, <2>1, <2>2, <2>4
  <2> QED
    BY <2>3, <2>4
<1>11. ASSUME NEW l \in executing, DropLease(l)
       PROVE  LeaseKept(j)
  BY <1>2, <1>11 DEF DropLease
<1>12. ASSUME NEW i \in JobIds, Get(i)
       PROVE  LeaseKept(j)
  <2>1. jobs' = [jobs EXCEPT ![i] = RefreshedJob(jobs[i], clock)]
    BY <1>0, <1>12 DEF Get
  <2>2. jobs'[j] = J[j]
    BY <1>0, <2>1
  <2> QED
    BY <1>1, <2>2
<1>13. CASE Tick \/ GetReservation \/ ExpireDue \/ UNCHANGED vars
  BY <1>2, <1>13 DEF Tick, GetReservation, ExpireDue, vars
<1>14. CASE Submitting
  BY <1>4, <1>5, <1>6, <1>7, <1>14 DEF Submitting
<1>15. CASE Executing
  BY <1>8, <1>9, <1>10, <1>11, <1>15 DEF Executing
<1> QED
  BY <1>12, <1>13, <1>14, <1>15 DEF Next, Reading

(* A live preparation or execution is ended by the holder of its token     *)
(* only.                                                                   *)
THEOREM LiveLeasesKept == Spec => LiveLeaseKept
<1>1. TypeOK /\ LeasesBounded /\ [Next]_vars =>
        [/\ \A k \in Keys :
              LET r == reservations[k]
              IN r.status = "reserved" /\ r.lease_expires_at > clock =>
                   \/ reservations'[k].status = "reserved" /\ reservations'[k].token = r.token
                   \/ [key |-> k, token |-> r.token] \in preparing \ preparing'
         /\ \A j \in JobIds :
              LET r == jobs[j]
              IN r.status = "leased" /\ r.lease_expires_at > clock =>
                   \/ jobs'[j].status = "leased" /\ jobs'[j].token = r.token
                   \/ [job |-> j, token |-> r.token] \in executing \ executing']_vars
  BY NextKeepsPreparation, NextKeepsExecution DEF ReservationKept, LeaseKept
<1> QED
  BY <1>1, TypeCorrect, BoundsKept, PTL DEF Spec, LiveLeaseKept

-----------------------------------------------------------------------------
(***************************************************************************)
(* Keys.  A reservation that is not finalized names no job, so a key gets  *)
(* its job from the step that finalizes it.                                *)
(***************************************************************************)
Unbound(r) == r.status = "finalized" \/ r.job = NONE

KeysBound == \A k \in Keys : Unbound(reservations[k])

(* What an operation may write over the row of a key: the deadline of a    *)
(* reservation or an expired key that has not reached it stays, and a job  *)
(* that is new ends within it.                                             *)
KeyWritten(r, k) ==
  /\ r.status # "finalized"
  /\ r.status \in {"reserved", "expired"} /\ r.expires_at > clock =>
       reservations'[k].expires_at = r.expires_at
  /\ \/ reservations'[k].status = "finalized"
     \/ reservations'[k].job \in {NONE, r.job}
  /\ reservations'[k].status = "finalized" =>
       \A j \in JobIds : reservations'[k].job = j /\ jobs[j].status = "absent" =>
                           jobs'[j].expires_at <= r.expires_at

KeyStep(k) ==
  \/ reservations'[k] = reservations[k]
  \/ reservations'[k] = RefreshedReservation(reservations[k], clock)
  \/ reservations'[k] = KeptReservations(clock)[k]
  \/ KeyWritten(KeptReservations(clock)[k], k)

(* Every operation is one of these.                                        *)
LEMMA WrittenKeys ==
  ASSUME TypeOK, [Next]_vars, NEW x \in Keys
  PROVE  KeyStep(x)
<1> DEFINE R == KeptReservations(clock)
           J == KeptJobs(clock)
<1>0. /\ R \in [Keys -> Reservation] /\ J \in [JobIds -> Job] /\ clock \in Nat
      /\ preparing \subseteq Preparation
      /\ \A j \in JobIds : J[j].status # "absent" => jobs[j].status # "absent"
      /\ \A k \in Keys : R[k].status = "reserved" => R[k].expires_at > clock
  BY Maintenance, WrittenRows DEF TypeOK
<1>1. ASSUME reservations' = R \/ reservations' = reservations
      PROVE  KeyStep(x)
  BY <1>1 DEF KeyStep
<1>2. ASSUME NEW k \in Keys, NEW row, reservations' = [R EXCEPT ![k] = row],
             reservations'[k] = row => KeyWritten(R[k], k)
      PROVE  KeyStep(x)
  <2> HIDE DEF R
  <2>1. CASE x = k
    BY <1>0, <1>2, <2>1 DEF KeyStep, R
  <2>2. CASE x # k
    <3>1. reservations'[x] = R[x]
      BY <1>0, <1>2, <2>2
    <3> QED
      BY <3>1 DEF KeyStep, R
  <2> QED
    BY <2>1, <2>2
<1>3. ASSUME NEW k \in Keys, NEW q \in Requests, NEW ttl \in Ttls, NEW token \in Tokens,
             ReserveSubmission(k, q, ttl, token)
      PROVE  KeyStep(x)
  <2> DEFINE d == TakeoverDeadline(R[k], ttl)
             row == [status |-> "reserved", request |-> q, token |-> token, job |-> NONE,
                     expires_at |-> d, lease_expires_at |-> Min2(clock + LeaseSeconds, d),
                     updated_at |-> clock]
  <2>1. /\ R[k].status \in {"absent", "released", "expired"}
        /\ reservations' = [R EXCEPT ![k] = row]
    BY <1>3 DEF ReserveSubmission
  <2>2. R[k].status = "expired" /\ R[k].expires_at > clock => d = R[k].expires_at
    BY DEF TakeoverDeadline
  <2>3. row.status = "reserved" /\ row.job = NONE /\ row.expires_at = d
    OBVIOUS
  <2> HIDE DEF R, row, d
  <2>4. reservations'[k] = row => KeyWritten(R[k], k)
    BY <2>1, <2>2, <2>3 DEF KeyWritten
  <2> QED
    BY <1>2, <2>1, <2>4
<1>4. ASSUME NEW c \in preparing, RenewSubmission(c)
      PROVE  KeyStep(x)
  <2> DEFINE m == Min2(clock + LeaseSeconds, R[c.key].expires_at)
             row == [[R[c.key] EXCEPT !.lease_expires_at = m] EXCEPT !.updated_at = clock]
  <2>1. c.key \in Keys /\ R[c.key] \in Reservation /\ R[c.key].status = "reserved"
    BY <1>0, <1>4 DEF Preparation, RenewSubmission, Prepares
  <2>2. reservations' = [R EXCEPT ![c.key].lease_expires_at = m, ![c.key].updated_at = clock]
    BY <1>4 DEF RenewSubmission
  <2> HIDE DEF m
  <2>3. /\ row.status = "reserved" /\ row.job = R[c.key].job
        /\ row.expires_at = R[c.key].expires_at
    BY <2>1 DEF Reservation
  <2> HIDE DEF R
  <2>4. reservations' = [R EXCEPT ![c.key] = row]
    BY <1>0, <2>1, <2>2
  <2> HIDE DEF row
  <2>5. reservations'[c.key] = row => KeyWritten(R[c.key], c.key)
    BY <2>1, <2>3 DEF KeyWritten
  <2> QED
    BY <1>2, <2>1, <2>4, <2>5
<1>5. ASSUME NEW c \in preparing, NEW e \in Executions, NEW ttl \in Ttls, NEW j \in JobIds,
             FinalizeSubmission(c, e, ttl, j)
      PROVE  KeyStep(x)
  <2> DEFINE r == R[c.key]
             row == FinalizedReservation(r, j)
             m == Min2(ttl, r.expires_at - clock)
  <2>1. /\ c.key \in Keys /\ r \in Reservation /\ r.status = "reserved"
        /\ r.expires_at > clock /\ r.expires_at \in Nat /\ ttl \in Nat
    BY <1>0, <1>5, DurationAssumption
       DEF Preparation, FinalizeSubmission, Prepares, Reservation
  <2>2. row.status = "finalized" /\ row.job = j /\ row.expires_at = r.expires_at
    <3>1. /\ Unleased(r, "finalized") \in Reservation
          /\ Unleased(r, "finalized").status = "finalized"
          /\ Unleased(r, "finalized").expires_at = r.expires_at
      BY <2>1, UnleasedReservation
    <3> QED
      BY <3>1 DEF FinalizedReservation, Reservation
  <2>3. reservations' = [R EXCEPT ![c.key] = row]
    BY <1>0, <2>1, <1>5 DEF FinalizeSubmission
  <2>4. jobs[j].status = "absent" => jobs' = [J EXCEPT ![j] = InsertedJob(c.key, e, m)]
    BY <1>0, <1>5 DEF FinalizeSubmission
  <2>5. /\ InsertedJob(c.key, e, m).expires_at = clock + m
        /\ clock + m <= r.expires_at
    BY <1>0, <2>1 DEF InsertedJob, Min2
  <2> HIDE DEF R, J, row, m
  <2>6. jobs[j].status = "absent" => jobs'[j].expires_at <= r.expires_at
    BY <1>0, <2>4, <2>5
  <2>7. reservations'[c.key] = row => KeyWritten(r, c.key)
    BY <2>1, <2>2, <2>6 DEF KeyWritten
  <2> QED
    BY <1>2, <2>1, <2>3, <2>7
<1>6. ASSUME NEW c \in preparing, ReleaseSubmission(c)
      PROVE  KeyStep(x)
  <2> DEFINE row == [Unleased(R[c.key], "released") EXCEPT !.updated_at = clock]
  <2>1. c.key \in Keys /\ R[c.key] \in Reservation /\ R[c.key].status = "reserved"
    BY <1>0, <1>6 DEF Preparation, ReleaseSubmission, Prepares
  <2>2. /\ row.status = "released" /\ row.job = R[c.key].job
        /\ row.expires_at = R[c.key].expires_at
    <3>1. /\ Unleased(R[c.key], "released") \in Reservation
          /\ Unleased(R[c.key], "released").status = "released"
          /\ Unleased(R[c.key], "released").job = R[c.key].job
          /\ Unleased(R[c.key], "released").expires_at = R[c.key].expires_at
      BY <2>1, UnleasedReservation
    <3> QED
      BY <3>1 DEF Reservation
  <2>3. reservations' = [R EXCEPT ![c.key] = row]
    BY <1>0, <2>1, <1>6 DEF ReleaseSubmission
  <2> HIDE DEF R, row
  <2>4. reservations'[c.key] = row => KeyWritten(R[c.key], c.key)
    BY <2>1, <2>2 DEF KeyWritten
  <2> QED
    BY <1>2, <2>1, <2>3, <2>4
<1>7. ASSUME NEW k \in Keys, NEW e \in Executions, NEW ttl \in Ttls, NEW j \in JobIds,
             CreateOrGet(k, e, ttl, j)
      PROVE  KeyStep(x)
  BY <1>1, <1>7 DEF CreateOrGet
<1>8. ASSUME NEW j \in JobIds, NEW token \in Tokens, Claim(j, token)
      PROVE  KeyStep(x)
  BY <1>1, <1>8 DEF Claim
<1>9. ASSUME NEW l \in executing, RenewLease(l) \/ Complete(l) \/ Fail(l) \/ DropLease(l)
      PROVE  KeyStep(x)
  BY <1>1, <1>9 DEF RenewLease, Complete, Fail, DropLease
<1>10. ASSUME NEW c \in preparing, DropReservation(c)
       PROVE  KeyStep(x)
  BY <1>1, <1>10 DEF DropReservation
<1>11. ASSUME NEW j \in JobIds, Get(j)
       PROVE  KeyStep(x)
  BY <1>1, <1>11 DEF Get
<1>12. CASE GetReservation
  BY <1>12 DEF GetReservation, KeyStep
<1>13. CASE Tick \/ ExpireDue \/ UNCHANGED vars
  BY <1>1, <1>13 DEF Tick, ExpireDue, vars
<1>14. CASE Submitting
  BY <1>3, <1>4, <1>5, <1>6, <1>7, <1>10, <1>14 DEF Submitting
<1>15. CASE Executing
  BY <1>8, <1>9, <1>15 DEF Executing
<1> QED
  BY <1>11, <1>12, <1>13, <1>14, <1>15 DEF Next, Reading

(* No step gives a job to a key that it does not finalize.                 *)
LEMMA NextKeepsUnbound ==
  ASSUME TypeOK, KeysBound, [Next]_vars
  PROVE  KeysBound'
<1> SUFFICES ASSUME NEW k \in Keys PROVE Unbound(reservations'[k])
  BY DEF KeysBound, Unbound
<1> DEFINE r == reservations[k]
           q == KeptReservations(clock)[k]
<1>1. r \in Reservation /\ clock \in Nat /\ Unbound(r)
  BY WrittenRows DEF TypeOK, KeysBound
<1>2. Unbound(RefreshedReservation(r, clock))
  BY <1>1, RefreshedReservationRow DEF Unbound
<1>3. Unbound(AbsentReservation)
  BY DEF Unbound, AbsentReservation
<1>4. Unbound(q)
  <2>1. q = RefreshedReservation(r, clock) \/ q = AbsentReservation
    BY KeptReservationRow
  <2> QED
    BY <1>2, <1>3, <2>1
<1>5. KeyStep(k)
  BY WrittenKeys
<1> HIDE DEF q
<1>6. KeyWritten(q, k) => Unbound(reservations'[k])
  BY <1>4 DEF KeyWritten, Unbound
<1> QED
  BY <1>1, <1>2, <1>4, <1>5, <1>6 DEF KeyStep, q

(* Only finalized keys name a job, for ever.                               *)
LEMMA BoundKeys == Spec => []KeysBound
<1>1. Init => KeysBound
  BY DEF Init, KeysBound, Unbound, AbsentReservation
<1>2. TypeOK /\ KeysBound /\ [Next]_vars => KeysBound'
  BY NextKeepsUnbound
<1> QED
  BY <1>1, <1>2, TypeCorrect, PTL DEF Spec

(* A key is lost by maintenance only, which finds its job ended and        *)
(* retained, and no operation revives that job in the same transaction.    *)
LEMMA LostKeysJobIsOver ==
  ASSUME TypeOK, FinalizedNamesItsJob, [Next]_vars, NEW k \in Keys, NEW j \in JobIds,
         reservations[k].status = "finalized", reservations[k].job = j,
         reservations'[k].status # "finalized"
  PROVE  jobs'[j].status = "absent" \/ JobElapsed(jobs'[j], clock - RetentionSeconds)
<1> DEFINE r == reservations[k]
           q == KeptReservations(clock)[k]
           J == KeptJobs(clock)
           cutoff == clock - RetentionSeconds
           old == RefreshedJob(jobs[j], clock)
           Over(row) == row.status = "absent" \/ JobElapsed(row, cutoff)
<1>1. r \in Reservation /\ clock \in Nat /\ J \in [JobIds -> Job] /\ jobs[j] \in Job
  BY WrittenRows, Maintenance DEF TypeOK
<1>2. RefreshedReservation(r, clock) = r
  BY <1>1, RefreshedReservationRow
<1>3. /\ q # r => ~JobIsRetained(r, clock, cutoff)
      /\ q # r \/ q.status = "finalized"
  BY <1>2, KeptReservationRow
<1>4. KeyStep(k)
  BY WrittenKeys
<1>5. q # r
  BY <1>2, <1>4 DEF KeyStep, KeyWritten
<1>6. Over(old)
  BY <1>3, <1>5 DEF JobIsRetained
<1>7. Over(AbsentJob)
  BY DEF AbsentJob
<1>8. J[j] = old \/ J[j] = AbsentJob
  BY KeptJobRow
<1>9. Over(J[j])
  BY <1>6, <1>7, <1>8
<1>10. jobs[j].status # "absent"
  BY DEF FinalizedNamesItsJob
<1>11. Over(J[j]) => J[j].status \notin ActiveJob
  BY DEF JobElapsed, ActiveJob
<1>12. ~KeysRead
  BY <1>2 DEF KeysRead
<1>13. jobs' = J \/ \E i \in JobIds : RowWritten(J, i)
  BY <1>12, WrittenJobs DEF JobsWritten
<1> HIDE DEF J, Over
<1>14. jobs'[j] = J[j]
  <2>1. ASSUME NEW i \in JobIds, RowWritten(J, i)
        PROVE  jobs'[j] = J[j]
    <3>1. i # j
      BY <1>9, <1>10, <1>11, <2>1 DEF RowWritten
    <3>2. \E row : jobs' = [J EXCEPT ![i] = row]
      BY <2>1 DEF RowWritten
    <3> QED
      BY <1>1, <3>1, <3>2
  <2> QED
    BY <1>13, <2>1
<1> QED
  BY <1>9, <1>14 DEF Over

(* A retry finds its key for as long as the job matters.                   *)
THEOREM KeysOutliveJobs == Spec => KeyOutlivesJob
<1>1. TypeOK /\ FinalizedNamesItsJob /\ [Next]_vars =>
        [\A k \in Keys, j \in JobIds :
           /\ reservations[k].status = "finalized" /\ reservations[k].job = j
           /\ reservations'[k].status # "finalized"
           => \/ jobs'[j].status = "absent"
              \/ JobElapsed(jobs'[j], clock - RetentionSeconds)]_vars
  BY LostKeysJobIsOver
<1> QED
  BY <1>1, TypeCorrect, BindingKept, PTL DEF Spec, KeyOutlivesJob

(* Maintenance leaves the deadline of a key that has not reached it.       *)
LEMMA DeadlineSurvives ==
  ASSUME TypeOK, NEW k \in Keys, reservations[k].status \in {"reserved", "expired"},
         reservations[k].expires_at > clock
  PROVE  LET r == reservations[k]
             q == KeptReservations(clock)[k]
         IN /\ q = RefreshedReservation(r, clock)
            /\ q.status \in {"reserved", "expired"}
            /\ q.expires_at = r.expires_at
            /\ q.job = r.job
<1> DEFINE r == reservations[k]
           p == RefreshedReservation(r, clock)
<1>1. /\ r \in Reservation /\ clock \in Nat /\ RetentionSeconds \in Nat
      /\ r.expires_at \in Nat
  BY WrittenRows, DurationAssumption DEF TypeOK, Reservation
<1>2. p.expires_at = r.expires_at /\ p.status \in {"reserved", "expired"} /\ p.job = r.job
  BY <1>1, RefreshedReservationRow
<1> HIDE DEF p
<1>3. ~ReservationElapsed(p, clock - RetentionSeconds)
  BY <1>1, <1>2 DEF ReservationElapsed
<1> QED
  BY <1>2, <1>3, KeptReservationRow DEF p

(* So does every operation, and the job made of the key ends within it.    *)
LEMMA NextKeepsDeadline ==
  ASSUME TypeOK, KeysBound, [Next]_vars, NEW k \in Keys,
         reservations[k].status \in {"reserved", "expired"}, reservations[k].expires_at > clock
  PROVE  /\ reservations'[k].expires_at = reservations[k].expires_at
         /\ \A j \in JobIds :
              jobs[j].status = "absent" /\ reservations'[k].job = j
              => jobs'[j].expires_at <= reservations[k].expires_at
<1> DEFINE r == reservations[k]
           q == KeptReservations(clock)[k]
<1>1. /\ q = RefreshedReservation(r, clock) /\ q.status \in {"reserved", "expired"}
      /\ q.expires_at = r.expires_at /\ q.job = r.job
  BY DeadlineSurvives
<1>2. r.job = NONE /\ NONE \notin JobIds
  BY IdAssumption DEF KeysBound, Unbound
<1>3. KeyStep(k)
  BY WrittenKeys
<1> HIDE DEF q
<1>4. CASE KeyWritten(q, k)
  BY <1>1, <1>2, <1>4 DEF KeyWritten
<1>5. CASE reservations'[k] = r \/ reservations'[k] = q
  BY <1>1, <1>2, <1>5
<1> QED
  BY <1>1, <1>3, <1>4, <1>5 DEF KeyStep, q

(* "The overall job TTL remains stable" (renew_submission).                *)
THEOREM DeadlinesAreStable == Spec => DeadlineIsStable
<1>1. TypeOK /\ KeysBound /\ [Next]_vars =>
        [\A k \in Keys :
           /\ reservations[k].status \in {"reserved", "expired"}
           /\ reservations[k].expires_at > clock
           => /\ reservations'[k].expires_at = reservations[k].expires_at
              /\ \A j \in JobIds :
                   jobs[j].status = "absent" /\ reservations'[k].job = j
                   => jobs'[j].expires_at <= reservations[k].expires_at]_vars
  BY NextKeepsDeadline
<1> QED
  BY <1>1, TypeCorrect, BoundKeys, PTL DEF Spec, DeadlineIsStable
=============================================================================

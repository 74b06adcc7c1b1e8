------------------------- MODULE DerivedWorkProofs -------------------------
(***************************************************************************)
(* Theorems about DerivedWork, for any jobs, workers, limits and clock.    *)
(* Each operation changes rows through one of the row operators, so the    *)
(* invariant of a row is proved once per operator and then once per action.*)
(***************************************************************************)
EXTENDS DerivedWork, FiniteSetTheorems, TLAPS

(***************************************************************************)
(* What is invariant of one row r of a job with max_attempts m.            *)
(***************************************************************************)
LeaseColumns(r) == r.status = "leased" <=> r.lease_expires_at # NULL

Accounted(r, m) ==
  /\ r.fencing_generation = Granted(r)
  /\ r.fencing_generation <= m
  /\ r.status \in Queued => r.attempt_count < m
  /\ r.status = "absent" => r.attempt_count = 0

Ledger(r) ==
  /\ \A a \in r.attempts : a.generation \in 1 .. r.fencing_generation
  /\ \A g \in 1 .. r.fencing_generation : \E a \in r.attempts : a.generation = g
  /\ \A a, b \in r.attempts : a.generation = b.generation => a = b
  /\ \A a \in r.attempts : (a.finished_at = NULL)
                           <=> (r.status = "leased" /\ a.generation = r.fencing_generation)

RowInv(r, m) == r \in JobRow /\ LeaseColumns(r) /\ Accounted(r, m) /\ Ledger(r)

-----------------------------------------------------------------------------
(* Closing the open attempt keeps the generations and leaves none open.    *)
LEMMA FinishedAttempts ==
  ASSUME NEW A \in SUBSET Attempt, NEW g \in Nat, NEW now \in Nat,
         NEW d \in Dispositions,
         \A a, b \in A : a.generation = b.generation => a = b,
         \A a \in A : a.finished_at = NULL => a.generation = g
  PROVE  LET B == Finished(A, g, now, d)
         IN /\ B \in SUBSET Attempt
            /\ \A b \in B : \E a \in A : a.generation = b.generation
            /\ \A a \in A : \E b \in B : a.generation = b.generation
            /\ \A a, b \in B : a.generation = b.generation => a = b
            /\ \A b \in B : b.finished_at # NULL
<1> DEFINE Close(a) == IF a.generation = g /\ a.finished_at = NULL
                         THEN [a EXCEPT !.finished_at = now, !.disposition = d]
                         ELSE a
           B == Finished(A, g, now, d)
<1>1. B = {Close(a) : a \in A}
  BY DEF Finished
<1>2. ASSUME NEW a \in A
      PROVE  /\ Close(a) \in Attempt
             /\ Close(a).generation = a.generation
             /\ Close(a).finished_at # NULL
  <2>1. a \in Attempt
    OBVIOUS
  <2>2. CASE a.generation = g /\ a.finished_at = NULL
    <3>1. Close(a) = [a EXCEPT !.finished_at = now, !.disposition = d]
      BY <2>2
    <3> HIDE DEF Close
    <3>2. now \in Nat \cup {NULL} /\ now # NULL
      BY DEF NULL
    <3> QED
      BY <2>1, <3>1, <3>2 DEF Attempt
  <2>3. CASE ~(a.generation = g /\ a.finished_at = NULL)
    <3>1. Close(a) = a /\ a.finished_at # NULL
      BY <2>3
    <3> QED
      BY <2>1, <3>1
  <2> QED
    BY <2>2, <2>3
<1> HIDE DEF Close, B
<1> QED
  BY <1>1, <1>2 DEF B

(* A claimed row opens exactly the attempt of the new generation.          *)
LEMMA ClaimedRowInv ==
  ASSUME NEW r, NEW m \in Nat \ {0}, NEW now \in Nat,
         RowInv(r, m), r.status \in Queued
  PROVE  RowInv(ClaimedRow(r, now), m)
<1> DEFINE q == ClaimedRow(r, now)
           g == r.fencing_generation + 1
           new == [generation |-> g, claimed_at |-> now, finished_at |-> NULL,
                   disposition |-> "leased"]
<1>1. r \in JobRow /\ LeaseSeconds \in Nat \ {0}
  BY TimeAssumption DEF RowInv
<1>2. /\ q \in JobRow
      /\ q.status = "leased" /\ q.fencing_generation = g
      /\ q.attempt_count = r.attempt_count
      /\ q.lease_expires_at = now + LeaseSeconds
      /\ q.attempts = r.attempts \cup {new}
  <2>1. new \in Attempt
    BY <1>1 DEF JobRow, Attempt, Dispositions
  <2>2. /\ q.status = "leased" /\ q.fencing_generation = g
        /\ q.attempt_count = r.attempt_count
        /\ q.lease_expires_at = now + LeaseSeconds
        /\ q.attempts = r.attempts \cup {new}
    BY <1>1 DEF ClaimedRow, JobRow
  <2>3. q = [r EXCEPT !.status = "leased", !.fencing_generation = g,
                      !.lease_expires_at = now + LeaseSeconds,
                      !.attempts = r.attempts \cup {new}]
    BY <1>1 DEF ClaimedRow, JobRow
  <2>4. r.attempts \cup {new} \in SUBSET Attempt
    BY <1>1, <2>1 DEF JobRow
  <2>5. g \in Nat /\ now + LeaseSeconds \in Nat
    BY <1>1 DEF JobRow
  <2> HIDE DEF new, g
  <2>6. q \in JobRow
    BY <1>1, <2>3, <2>4, <2>5 DEF JobRow, Statuses
  <2> QED
    BY <2>2, <2>6 DEF new, g
<1>3. LeaseColumns(q)
  BY <1>1, <1>2 DEF LeaseColumns, NULL
<1>4. Accounted(q, m)
  BY <1>1, <1>2 DEF RowInv, Accounted, Granted, Queued, JobRow
<1>5. Ledger(q)
  <2>1. r.fencing_generation \in Nat /\ Ledger(r) /\ r.status # "leased"
    BY <1>1 DEF RowInv, JobRow, Queued
  <2>2. \A a \in r.attempts : a.generation \in 1 .. r.fencing_generation /\ a.finished_at # NULL
    BY <2>1 DEF Ledger
  <2>3. new.generation = g /\ new.finished_at = NULL
    OBVIOUS
  <2>4. \A a \in q.attempts : a.generation \in 1 .. q.fencing_generation
    BY <1>2, <2>1, <2>2, <2>3
  <2>5. \A h \in 1 .. q.fencing_generation : \E a \in q.attempts : a.generation = h
    <3> TAKE h \in 1 .. q.fencing_generation
    <3>1. CASE h = g
      BY <3>1, <1>2, <2>3
    <3>2. CASE h # g
      <4>1. h \in 1 .. r.fencing_generation
        BY <3>2, <1>2, <2>1
      <4> QED
        BY <4>1, <1>2, <2>1 DEF Ledger
    <3> QED
      BY <3>1, <3>2
  <2>6. \A a, b \in q.attempts : a.generation = b.generation => a = b
    <3> HIDE DEF new
    <3>1. \A a \in r.attempts : a.generation # g
      BY <2>1, <2>2
    <3> QED
      BY <3>1, <1>2, <2>1, <2>3 DEF Ledger
  <2>7. \A a \in q.attempts : (a.finished_at = NULL)
                             <=> (q.status = "leased" /\ a.generation = q.fencing_generation)
    <3> HIDE DEF new
    <3>1. \A a \in r.attempts : a.generation # g
      BY <2>1, <2>2
    <3> QED
      BY <3>1, <1>2, <2>2, <2>3
  <2> QED
    BY <2>4, <2>5, <2>6, <2>7 DEF Ledger
<1> QED
  BY <1>2, <1>3, <1>4, <1>5 DEF RowInv

(* A row that ends its lease: the open attempt is closed, nothing is       *)
(* opened, and the lease is paid for with an attempt unless it completed.  *)
LEMMA SettledRowInv ==
  ASSUME NEW r, NEW q, NEW m \in Nat \ {0}, NEW now \in Nat, NEW d \in Dispositions,
         RowInv(r, m), r.status = "leased",
         q \in JobRow,
         q.status \in {"pending", "retry_wait", "dead", "completed"},
         q.fencing_generation = r.fencing_generation,
         q.lease_expires_at = NULL,
         q.attempts = Finished(r.attempts, r.fencing_generation, now, d),
         q.attempt_count = r.attempt_count + (IF q.status = "completed" THEN 0 ELSE 1),
         q.status \in Queued => q.attempt_count < m
  PROVE  RowInv(q, m)
<1>1. r \in JobRow /\ Ledger(r) /\ r.attempts \in SUBSET Attempt /\ r.fencing_generation \in Nat
  BY DEF RowInv, JobRow
<1>2. /\ q.attempts \in SUBSET Attempt
      /\ \A b \in q.attempts : \E a \in r.attempts : a.generation = b.generation
      /\ \A a \in r.attempts : \E b \in q.attempts : a.generation = b.generation
      /\ \A a, b \in q.attempts : a.generation = b.generation => a = b
      /\ \A b \in q.attempts : b.finished_at # NULL
  <2>1. \A a \in r.attempts : a.finished_at = NULL => a.generation = r.fencing_generation
    BY <1>1 DEF Ledger
  <2>2. \A a, b \in r.attempts : a.generation = b.generation => a = b
    BY <1>1 DEF Ledger
  <2> QED
    BY <1>1, <2>1, <2>2, FinishedAttempts
<1>3. LeaseColumns(q)
  BY DEF LeaseColumns
<1>4. Accounted(q, m)
  BY <1>1 DEF RowInv, Accounted, Granted, Queued, JobRow
<1>5. Ledger(q)
  <2>1. \A b \in q.attempts : b.generation \in 1 .. q.fencing_generation
    BY <1>1, <1>2 DEF Ledger
  <2>2. \A g \in 1 .. q.fencing_generation : \E b \in q.attempts : b.generation = g
    BY <1>1, <1>2 DEF Ledger
  <2>3. q.status # "leased"
    OBVIOUS
  <2> QED
    BY <1>2, <2>1, <2>2, <2>3 DEF Ledger
<1> QED
  BY <1>3, <1>4, <1>5 DEF RowInv

(* The UPDATEs of _recover_expired_in_transaction keep the row invariant   *)
(* and charge the attempt whose lease expired.                             *)
LEMMA RecoveredRowInv ==
  ASSUME NEW r, NEW m \in Nat \ {0}, NEW now \in Nat,
         RowInv(r, m), r.status = "leased"
  PROVE  RowInv(RecoveredRow(r, m, now), m)
<1> DEFINE q == RecoveredRow(r, m, now)
           s == IF r.attempt_count + 1 >= m THEN "dead" ELSE "pending"
           d == IF r.attempt_count + 1 >= m THEN "dead" ELSE "lease_expired"
           n == r.attempt_count + 1
           B == Finished(r.attempts, r.fencing_generation, now, d)
<1>1. r \in JobRow /\ r.attempts \in SUBSET Attempt /\ r.fencing_generation \in Nat
      /\ r.attempt_count \in Nat /\ n \in Nat
  BY DEF RowInv, JobRow
<1>2. d \in Dispositions /\ s \in {"pending", "dead"}
  BY DEF Dispositions
<1>3. B \in SUBSET Attempt
  <2>1. \A a, b \in r.attempts : a.generation = b.generation => a = b
    BY DEF RowInv, Ledger
  <2>2. \A a \in r.attempts : a.finished_at = NULL => a.generation = r.fencing_generation
    BY DEF RowInv, Ledger
  <2> HIDE DEF d
  <2> QED
    BY <1>1, <1>2, <2>1, <2>2, FinishedAttempts
<1>4. q = [r EXCEPT !.status = s, !.attempt_count = n,
                    !.not_before_at = now, !.lease_expires_at = NULL, !.attempts = B]
  BY <1>1 DEF RecoveredRow, JobRow
<1> HIDE DEF q, s, d, n, B
<1>5. /\ q \in JobRow
      /\ q.status = s
      /\ q.fencing_generation = r.fencing_generation
      /\ q.attempt_count = n
      /\ q.lease_expires_at = NULL
      /\ q.attempts = B
  BY <1>1, <1>2, <1>3, <1>4 DEF JobRow, Statuses, Queued
<1>6. q.status \in Queued => q.attempt_count < m
  BY <1>1, <1>5 DEF Queued, s, n
<1> QED
  BY <1>1, <1>2, <1>5, <1>6, SettledRowInv DEF q, n, B

(* The UPDATEs of fail keep the row invariant, retried or dead.            *)
LEMMA FailedRowInv ==
  ASSUME NEW r, NEW m \in Nat \ {0}, NEW now \in Nat, NEW retryable \in BOOLEAN,
         NEW delay \in Nat, RowInv(r, m), r.status = "leased"
  PROVE  RowInv(FailedRow(r, m, now, retryable, delay), m)
<1> DEFINE q == FailedRow(r, m, now, retryable, delay)
           retry == retryable /\ r.attempt_count + 1 < m
           s == IF retry THEN "retry_wait" ELSE "dead"
           nb == IF retry THEN now + delay ELSE now
           n == r.attempt_count + 1
           B == Finished(r.attempts, r.fencing_generation, now, s)
<1>1. r \in JobRow /\ r.attempts \in SUBSET Attempt /\ r.fencing_generation \in Nat
      /\ r.attempt_count \in Nat /\ n \in Nat
  BY DEF RowInv, JobRow
<1>2. s \in Dispositions /\ s \in {"retry_wait", "dead"} /\ nb \in Nat
  BY DEF Dispositions
<1>3. B \in SUBSET Attempt
  <2>1. \A a, b \in r.attempts : a.generation = b.generation => a = b
    BY DEF RowInv, Ledger
  <2>2. \A a \in r.attempts : a.finished_at = NULL => a.generation = r.fencing_generation
    BY DEF RowInv, Ledger
  <2> HIDE DEF s
  <2> QED
    BY <1>1, <1>2, <2>1, <2>2, FinishedAttempts
<1>4. q = [r EXCEPT !.status = s, !.attempt_count = n,
                    !.not_before_at = nb, !.lease_expires_at = NULL, !.attempts = B]
  BY <1>1 DEF FailedRow, JobRow
<1>5. s \in Queued => r.attempt_count + 1 < m
  BY DEF Queued
<1> HIDE DEF q, s, n, nb, B, retry
<1>6. /\ q \in JobRow
      /\ q.status = s
      /\ q.fencing_generation = r.fencing_generation
      /\ q.attempt_count = n
      /\ q.lease_expires_at = NULL
      /\ q.attempts = B
  BY <1>1, <1>2, <1>3, <1>4 DEF JobRow, Statuses, Queued
<1> QED
  BY <1>1, <1>2, <1>5, <1>6, SettledRowInv DEF q, n, B

(* The UPDATEs of _complete_in_transaction keep the row invariant without  *)
(* charging an attempt.                                                    *)
LEMMA CompletedRowInv ==
  ASSUME NEW r, NEW m \in Nat \ {0}, NEW now \in Nat, RowInv(r, m), r.status = "leased"
  PROVE  RowInv(CompletedRow(r, now), m)
<1> DEFINE q == CompletedRow(r, now)
           B == Finished(r.attempts, r.fencing_generation, now, "completed")
<1>1. r \in JobRow /\ r.attempts \in SUBSET Attempt /\ r.fencing_generation \in Nat
      /\ r.attempt_count \in Nat
  BY DEF RowInv, JobRow
<1>2. "completed" \in Dispositions
  BY DEF Dispositions
<1>3. B \in SUBSET Attempt
  <2>1. \A a, b \in r.attempts : a.generation = b.generation => a = b
    BY DEF RowInv, Ledger
  <2>2. \A a \in r.attempts : a.finished_at = NULL => a.generation = r.fencing_generation
    BY DEF RowInv, Ledger
  <2> QED
    BY <1>1, <1>2, <2>1, <2>2, FinishedAttempts
<1>4. q = [r EXCEPT !.status = "completed", !.lease_expires_at = NULL, !.attempts = B]
  BY <1>1 DEF CompletedRow, JobRow
<1> HIDE DEF q, B
<1>5. /\ q \in JobRow
      /\ q.status = "completed"
      /\ q.fencing_generation = r.fencing_generation
      /\ q.attempt_count = r.attempt_count
      /\ q.lease_expires_at = NULL
      /\ q.attempts = B
  BY <1>1, <1>3, <1>4 DEF JobRow, Statuses
<1>6. q.status \notin Queued
  BY <1>5 DEF Queued
<1> QED
  BY <1>1, <1>2, <1>5, <1>6, SettledRowInv DEF q, B

(* Moving the expiry of a live lease, all renew_lease does, keeps the row  *)
(* invariant.                                                              *)
LEMMA RenewedRowInv ==
  ASSUME NEW r, NEW m \in Nat \ {0}, NEW t \in Nat, RowInv(r, m), r.status = "leased"
  PROVE  RowInv([r EXCEPT !.lease_expires_at = t], m)
<1> DEFINE q == [r EXCEPT !.lease_expires_at = t]
<1>1. /\ q \in JobRow
      /\ q.status = r.status /\ q.fencing_generation = r.fencing_generation
      /\ q.attempt_count = r.attempt_count /\ q.attempts = r.attempts
      /\ q.lease_expires_at = t
  BY DEF RowInv, JobRow
<1>2. LeaseColumns(q) /\ Accounted(q, m)
  BY <1>1 DEF RowInv, LeaseColumns, Accounted, Granted, NULL
<1>3. Ledger(q)
  BY <1>1 DEF RowInv, Ledger
<1> QED
  BY <1>1, <1>2, <1>3 DEF RowInv

-----------------------------------------------------------------------------
(***************************************************************************)
(* What one step of the system may do to one row, whichever action it is:  *)
(* nothing; the insert; the sweep of an expired lease, a claim, or both in *)
(* one transaction; a settlement by the worker that has the lease; or a    *)
(* renewal.                                                                *)
(***************************************************************************)
Swept(r, m, t) == {r} \cup (IF Expired(r, t) THEN {RecoveredRow(r, m, t)} ELSE {})

Settles(j) == \E w \in Workers : LeaseOn(rows, j) \in held[w] \ held'[w]

RowStep(j) ==
  LET r == rows[j]
      q == rows'[j]
      m == MaxAttemptsOf[j]
  IN \/ q = r
     \/ r.status = "absent" /\ \E t \in 0 .. clock : q = InsertedRow(t)
     \/ \E t \in 0 .. clock : \E x \in Swept(r, m, t) :
          q = x \/ (Due(x, t) /\ q = ClaimedRow(x, t))
     \/ /\ r.status = "leased" /\ Settles(j)
        /\ \/ q = CompletedRow(r, clock)
           \/ \E w \in Workers, retryable \in BOOLEAN, delay \in Nat :
                /\ InCall(w) /\ LeaseOn(rows, j) \in held[w]
                /\ r.lease_expires_at > sample[w]
                /\ q = FailedRow(r, m, sample[w], retryable, delay)
     \/ /\ r.status = "leased"
        /\ \E w \in Workers : \E call \in beat[w] :
             /\ call.lease = LeaseOn(rows, j)
             /\ q = [r EXCEPT !.lease_expires_at = call.now + LeaseSeconds]

RowsOK == \A j \in Jobs : RowInv(rows[j], MaxAttemptsOf[j])

SampledBefore ==
  \A w \in Workers : sample[w] <= clock /\ \A call \in beat[w] : call.now <= clock

IInv == TypeOK /\ RowsOK /\ SampledBefore

(* The recovery in a claim changes no row but expired leases.              *)
LEMMA RecoveredRows ==
  ASSUME NEW p, NEW t
  PROVE  /\ Recovered(p, t) = [j \in Jobs |-> Recovered(p, t)[j]]
         /\ \A j \in Jobs : Recovered(p, t)[j] \in Swept(rows[j], MaxAttemptsOf[j], t)
BY DEF Recovered, Swept

(* A claim over any set of due jobs of the recovered table takes row steps.*)
LEMMA GrantRowStep ==
  ASSUME NEW w \in Workers, NEW p, NEW S \in SUBSET Jobs, TypeOK, SampledBefore, InCall(w),
         \A j \in S : Due(Recovered(p, sample[w])[j], sample[w]),
         Grant(w, Recovered(p, sample[w]), S)
  PROVE  \A j \in Jobs : RowStep(j)
<1> TAKE j \in Jobs
<1>1. sample[w] \in 0 .. clock
  BY DEF TypeOK, SampledBefore, InCall, NULL
<1> DEFINE x == Recovered(p, sample[w])[j]
<1>2. x \in Swept(rows[j], MaxAttemptsOf[j], sample[w])
  BY RecoveredRows
<1>3. rows'[j] = x \/ (Due(x, sample[w]) /\ rows'[j] = ClaimedRow(x, sample[w]))
  BY DEF Grant
<1> HIDE DEF x
<1> QED
  BY <1>1, <1>2, <1>3 DEF RowStep

(* Whichever claim operation a worker calls, every row takes a row step.   *)
LEMMA ClaimingRowStep ==
  ASSUME NEW w \in Workers, TypeOK, SampledBefore,
         Claiming(w) \/ \E p \in Projects \cup {AnyProject} : RecoverExpired(w, p)
  PROVE  \A j \in Jobs : RowStep(j)
<1>1. ASSUME NEW p, NEW j \in Jobs, InCall(w),
             Due(Recovered(p, sample[w])[j], sample[w]),
             Grant(w, Recovered(p, sample[w]), {j})
      PROVE  \A i \in Jobs : RowStep(i)
  <2>1. {j} \in SUBSET Jobs
    OBVIOUS
  <2>2. \A i \in {j} : Due(Recovered(p, sample[w])[i], sample[w])
    BY <1>1
  <2> QED
    BY ONLY <1>1, <2>1, <2>2, GrantRowStep, TypeOK, SampledBefore, w \in Workers
<1>2. ASSUME NEW p, InCall(w), Grant(w, Recovered(p, sample[w]), {})
      PROVE  \A i \in Jobs : RowStep(i)
  <2>1. {} \in SUBSET Jobs /\ \A i \in {} : Due(Recovered(p, sample[w])[i], sample[w])
    OBVIOUS
  <2> QED
    BY ONLY <1>2, <2>1, GrantRowStep, TypeOK, SampledBefore, w \in Workers
<1>3. ASSUME \/ \E j \in Jobs : Claim(w, j)
             \/ \E p \in Projects : ClaimNextAccelerator(w, p)
             \/ \E p \in Projects, k \in ForegroundKinds : ClaimNext(w, p, k)
      PROVE  \A i \in Jobs : RowStep(i)
  <2>1. \E p : /\ InCall(w)
               /\ \/ Grant(w, Recovered(p, sample[w]), {})
                  \/ \E j \in Jobs : /\ Due(Recovered(p, sample[w])[j], sample[w])
                                     /\ Grant(w, Recovered(p, sample[w]), {j})
    <3>1. ASSUME NEW j \in Jobs, Claim(w, j)
          PROVE  /\ InCall(w)
                 /\ Due(Recovered(ProjectOf[j], sample[w])[j], sample[w])
                 /\ Grant(w, Recovered(ProjectOf[j], sample[w]), {j})
      BY <3>1 DEF Claim
    <3>2. ASSUME NEW p, ClaimNextAccelerator(w, p)
          PROVE  /\ InCall(w)
                 /\ \/ Grant(w, Recovered(AnyProject, sample[w]), {})
                    \/ \E j \in Jobs : /\ Due(Recovered(AnyProject, sample[w])[j], sample[w])
                                       /\ Grant(w, Recovered(AnyProject, sample[w]), {j})
      BY <3>2, Zenon DEF ClaimNextAccelerator
    <3>3. ASSUME NEW p, NEW k, ClaimNext(w, p, k)
          PROVE  /\ InCall(w)
                 /\ \/ Grant(w, Recovered(p, sample[w]), {})
                    \/ \E j \in Jobs : /\ Due(Recovered(p, sample[w])[j], sample[w])
                                       /\ Grant(w, Recovered(p, sample[w]), {j})
      BY <3>3, Zenon DEF ClaimNext
    <3> QED
      BY <1>3, <3>1, <3>2, <3>3, Zenon
  <2> QED
    BY <2>1, <1>1, <1>2, Zenon
<1>4. ASSUME NEW k, ClaimBatch(w, k)
      PROVE  \A i \in Jobs : RowStep(i)
  <2> DEFINE R == Recovered(AnyProject, sample[w])
             due == {j \in Jobs : KindOf[j] = k /\ Due(R[j], sample[w])}
             groups == {{i \in due : Partition(i) = Partition(j)} : j \in due}
  <2>1. InCall(w)
    BY <1>4 DEF ClaimBatch
  <2>2. \E S : Grant(w, R, S) /\ (S = {} \/ \E P \in groups : S \in SUBSET P)
    BY <1>4 DEF ClaimBatch
  <2>3. \A P \in groups : P \subseteq due
    OBVIOUS
  <2>4. PICK S : Grant(w, R, S) /\ S \subseteq due
    <3> HIDE DEF groups, due, R
    <3> QED
      BY <2>2, <2>3
  <2>5. S \in SUBSET Jobs /\ \A j \in S : Due(R[j], sample[w])
    BY <2>4
  <2> QED
    BY ONLY <2>1, <2>4, <2>5, GrantRowStep, TypeOK, SampledBefore, w \in Workers
<1>5. ASSUME NEW p, RecoverExpired(w, p)
      PROVE  \A i \in Jobs : RowStep(i)
  BY <1>5, <1>2 DEF RecoverExpired
<1> QED
  BY <1>3, <1>4, <1>5 DEF Claiming

(* Completing, failing or dropping leases takes every row a row step.      *)
LEMMA SettlingRowStep ==
  ASSUME NEW w \in Workers, TypeOK, SampledBefore, Settling(w)
  PROVE  \A j \in Jobs : RowStep(j)
<1>1. ASSUME NEW L \in SUBSET held[w], Complete(w, L), NEW j \in Jobs
      PROVE  RowStep(j)
  <2>1. CASE \E l \in L : l.job = j
    <3>1. PICK l \in L : l.job = j
      BY <2>1
    <3>2. l \in Lease /\ l = LeaseOn(rows, j) /\ rows[j].status = "leased"
      BY <1>1, <3>1 DEF TypeOK, Lease, LeaseOn, Complete, ValidLease
    <3>3. l \in held[w] \ held'[w]
      BY <1>1, <3>1 DEF Complete, TypeOK
    <3>4. rows'[j] = CompletedRow(rows[j], clock)
      BY <1>1, <2>1 DEF Complete
    <3> QED
      BY <3>2, <3>3, <3>4 DEF RowStep, Settles
  <2>2. CASE ~\E l \in L : l.job = j
    BY <1>1, <2>2 DEF Complete, RowStep
  <2> QED
    BY <2>1, <2>2
<1>2. ASSUME NEW l \in held[w], NEW retryable \in BOOLEAN, NEW delay \in RetryDelays,
             Fail(w, l, retryable, delay), NEW j \in Jobs
      PROVE  RowStep(j)
  <2>1. CASE l.job = j
    <3>1. l \in Lease /\ l = LeaseOn(rows, j) /\ rows[j].status = "leased"
          /\ rows[j].lease_expires_at > sample[w]
      BY <1>2, <2>1 DEF TypeOK, Lease, LeaseOn, Fail, ValidLease
    <3>2. l \in held[w] \ held'[w]
      BY <1>2 DEF Fail, TypeOK
    <3>3. rows'[j] = FailedRow(rows[j], MaxAttemptsOf[j], sample[w], retryable, delay)
      BY <1>2, <2>1 DEF Fail, TypeOK
    <3>4. InCall(w) /\ delay \in Nat
      BY <1>2, TimeAssumption DEF Fail
    <3> QED
      BY <3>1, <3>2, <3>3, <3>4 DEF RowStep, Settles
  <2>2. CASE l.job # j
    BY <1>2, <2>2 DEF Fail, RowStep, TypeOK
  <2> QED
    BY <2>1, <2>2
<1>3. ASSUME NEW l, GiveUp(w, l), NEW j \in Jobs
      PROVE  RowStep(j)
  BY <1>3 DEF GiveUp, RowStep
<1> QED
  BY <1>1, <1>2, <1>3 DEF Settling

(* Every transaction of the store takes every row a row step, so what is   *)
(* proved of a row step holds of all operations.                           *)
LEMMA NextRowStep ==
  ASSUME TypeOK, SampledBefore, [Next]_vars
  PROVE  \A j \in Jobs : RowStep(j)
<1>1. CASE UNCHANGED rows
  BY <1>1 DEF RowStep
<1>2. ASSUME NEW j \in Jobs, EnqueueInTransaction(j), NEW i \in Jobs
      PROVE  RowStep(i)
  <2>1. clock \in 0 .. clock
    BY DEF TypeOK
  <2> QED
    BY <1>2, <2>1 DEF EnqueueInTransaction, Insertable, RowStep, TypeOK
<1>3. ASSUME NEW j \in Jobs, NEW w \in Workers, Enqueue(w, j) \/ EnqueueAccelerator(w, j),
             NEW i \in Jobs
      PROVE  RowStep(i)
  <2>1. sample[w] \in 0 .. clock
    BY <1>3 DEF TypeOK, SampledBefore, Enqueue, EnqueueAccelerator, InCall, NULL
  <2>2. rows[j].status = "absent" /\ rows' = [rows EXCEPT ![j] = InsertedRow(sample[w])]
    BY <1>3 DEF Enqueue, EnqueueAccelerator, Insertable
  <2> QED
    BY <2>1, <2>2 DEF RowStep, TypeOK
<1>4. ASSUME NEW w \in Workers, NEW call \in beat[w], Renew(w, call), NEW i \in Jobs
      PROVE  RowStep(i)
  <2>1. call \in Call
    BY DEF TypeOK
  <2>2. call.lease.job \in Jobs
    BY <2>1 DEF Call, Lease
  <2>3. rows[call.lease.job].status = "leased"
    BY <1>4, SMTT(30) DEF Renew, ValidLease
  <2>4. CASE i = call.lease.job
    <3>1. rows'[i] = [rows[i] EXCEPT !.lease_expires_at = call.now + LeaseSeconds]
      BY <1>4, <2>2, <2>4 DEF Renew, TypeOK
    <3>2. call.lease = LeaseOn(rows, i)
      BY <1>4, <2>1, <2>4 DEF Renew, ValidLease, Call, Lease, LeaseOn
    <3> QED
      BY <2>3, <2>4, <3>1, <3>2 DEF RowStep
  <2>5. CASE i # call.lease.job
    BY <1>4, <2>5 DEF Renew, RowStep, TypeOK
  <2> QED
    BY <2>4, <2>5
<1>5. ASSUME NEW w \in Workers,
             \/ Sample(w) \/ Return(w) \/ Crash(w) \/ ReturnBeat(w)
             \/ \E l \in held[w] : SampleBeat(w, l)
      PROVE  UNCHANGED rows
  BY <1>5 DEF Sample, Return, Crash, ReturnBeat, SampleBeat
<1>6. CASE Tick
  BY <1>6, <1>1 DEF Tick
<1> QED
  BY <1>1, <1>2, <1>3, <1>4, <1>5, <1>6, ClaimingRowStep, SettlingRowStep
     DEF Next, Admission, Heartbeat, vars

-----------------------------------------------------------------------------
(* A row step keeps the row invariant.                                     *)
LEMMA RowStepInv ==
  ASSUME TypeOK, RowsOK, SampledBefore, NEW j \in Jobs, RowStep(j)
  PROVE  RowInv(rows'[j], MaxAttemptsOf[j])
<1> DEFINE r == rows[j]
           m == MaxAttemptsOf[j]
<1>1. m \in Nat \ {0} /\ RowInv(r, m) /\ clock \in Nat
  BY ColumnAssumption DEF RowsOK, TypeOK
<1>2. ASSUME NEW t \in 0 .. clock, r.status = "absent"
      PROVE  RowInv(InsertedRow(t), m)
  <2> DEFINE q == InsertedRow(t)
  <2>1. /\ q.status = "pending" /\ q.attempt_count = 0 /\ q.fencing_generation = 0
        /\ q.lease_expires_at = NULL /\ q.attempts = {}
    BY DEF InsertedRow, AbsentRow
  <2>2. AbsentRow \in JobRow
    BY DEF AbsentRow, JobRow
  <2>3. t \in Nat /\ "pending" \in Statuses \cup {"absent"}
    BY <1>1 DEF Statuses, Queued
  <2>4. q \in JobRow
    BY <2>2, <2>3, Zenon DEF InsertedRow, JobRow
  <2> HIDE DEF q
  <2>5. LeaseColumns(q) /\ Accounted(q, m) /\ Ledger(q)
    BY <1>1, <2>1 DEF LeaseColumns, Accounted, Granted, Queued, Ledger
  <2> QED
    BY <2>4, <2>5 DEF RowInv, q
<1>3. ASSUME NEW t \in 0 .. clock, NEW x \in Swept(r, m, t)
      PROVE  RowInv(x, m) /\ (Due(x, t) => RowInv(ClaimedRow(x, t), m))
  <2>1. t \in Nat
    BY <1>1
  <2>2. RowInv(x, m)
    <3>1. CASE x = r
      BY <1>1, <3>1
    <3>2. CASE Expired(r, t) /\ x = RecoveredRow(r, m, t)
      BY <1>1, <2>1, <3>2, RecoveredRowInv DEF Expired
    <3> QED
      BY <3>1, <3>2 DEF Swept
  <2> QED
    BY <1>1, <2>1, <2>2, ClaimedRowInv DEF Due
<1>4. ASSUME r.status = "leased"
      PROVE  RowInv(CompletedRow(r, clock), m)
  BY <1>1, <1>4, CompletedRowInv
<1>5. ASSUME r.status = "leased", NEW w \in Workers, InCall(w), NEW b \in BOOLEAN, NEW d \in Nat
      PROVE  RowInv(FailedRow(r, m, sample[w], b, d), m)
  <2>1. sample[w] \in Nat
    BY <1>5 DEF TypeOK, InCall
  <2> QED
    BY <1>1, <1>5, <2>1, FailedRowInv
<1>6. ASSUME r.status = "leased", NEW w \in Workers, NEW call \in beat[w]
      PROVE  RowInv([r EXCEPT !.lease_expires_at = call.now + LeaseSeconds], m)
  <2>1. call.now + LeaseSeconds \in Nat
    BY TimeAssumption DEF TypeOK, Call
  <2> QED
    BY <1>1, <1>6, <2>1, RenewedRowInv
<1> HIDE DEF m, r
<1> QED
  BY <1>1, <1>2, <1>3, <1>4, <1>5, <1>6 DEF RowStep, m, r

(* The claim operations hand out leases of the right type.                 *)
LEMMA GrantType ==
  ASSUME NEW w \in Workers, NEW p, NEW S \in SUBSET Jobs, TypeOK, InCall(w),
         Grant(w, Recovered(p, sample[w]), S), \A j \in Jobs : rows'[j] \in JobRow
  PROVE  TypeOK'
<1>1. rows' \in [Jobs -> JobRow]
  BY DEF Grant
<1>2. {LeaseOn(rows', j) : j \in S} \subseteq Lease
  BY <1>1 DEF LeaseOn, Lease, JobRow
<1>3. held' \in [Workers -> SUBSET Lease]
  BY <1>2 DEF Grant, TypeOK
<1>4. sample' \in [Workers -> 0 .. MaxClock \cup {NULL}]
  BY DEF Grant, EndCall, TypeOK
<1> QED
  BY <1>1, <1>3, <1>4 DEF Grant, TypeOK

(* Every claim operation is a Grant over some table and some set of jobs.  *)
LEMMA ClaimingGrants ==
  ASSUME NEW w \in Workers,
         Claiming(w) \/ \E p \in Projects \cup {AnyProject} : RecoverExpired(w, p)
  PROVE  InCall(w) /\ \E p, S : S \in SUBSET Jobs /\ Grant(w, Recovered(p, sample[w]), S)
<1>1. ASSUME NEW j \in Jobs, Claim(w, j)
      PROVE  InCall(w) /\ Grant(w, Recovered(ProjectOf[j], sample[w]), {j})
  BY <1>1 DEF Claim
<1>2. ASSUME NEW p, ClaimNextAccelerator(w, p)
      PROVE  InCall(w) /\ \E S \in SUBSET Jobs : Grant(w, Recovered(AnyProject, sample[w]), S)
  BY <1>2 DEF ClaimNextAccelerator
<1>3. ASSUME NEW p, NEW k, ClaimNext(w, p, k)
      PROVE  InCall(w) /\ \E S \in SUBSET Jobs : Grant(w, Recovered(p, sample[w]), S)
  BY <1>3 DEF ClaimNext
<1>4. ASSUME NEW k, ClaimBatch(w, k)
      PROVE  InCall(w) /\ \E S \in SUBSET Jobs : Grant(w, Recovered(AnyProject, sample[w]), S)
  BY <1>4 DEF ClaimBatch
<1>5. ASSUME NEW p, RecoverExpired(w, p)
      PROVE  InCall(w) /\ Grant(w, Recovered(p, sample[w]), {})
  BY <1>5 DEF RecoverExpired
<1>6. \A j \in Jobs : {j} \in SUBSET Jobs
  OBVIOUS
<1>7. {} \in SUBSET Jobs
  OBVIOUS
<1> QED
  BY <1>1, <1>2, <1>3, <1>4, <1>5, <1>6, <1>7, Zenon DEF Claiming

(* The types of the variables, given those of the rows.                    *)
LEMMA NextType ==
  ASSUME IInv, [Next]_vars, \A j \in Jobs : rows'[j] \in JobRow
  PROVE  TypeOK'
<1> USE DEF IInv
<1>1. CASE UNCHANGED vars
  BY <1>1 DEF TypeOK, vars
<1>2. CASE Tick
  BY <1>2, TimeAssumption DEF Tick, TypeOK
<1>3. ASSUME NEW j \in Jobs, EnqueueInTransaction(j)
      PROVE  TypeOK'
  BY <1>3 DEF EnqueueInTransaction, TypeOK
<1>4. ASSUME NEW j \in Jobs, NEW w \in Workers, Enqueue(w, j) \/ EnqueueAccelerator(w, j)
      PROVE  TypeOK'
  <2>1. rows' \in [Jobs -> JobRow]
    BY <1>4 DEF Enqueue, EnqueueAccelerator, TypeOK
  <2>2. sample' \in [Workers -> 0 .. MaxClock \cup {NULL}]
    BY <1>4 DEF Enqueue, EnqueueAccelerator, EndCall, TypeOK
  <2>3. admitted' \in [0 .. MaxClock \div DayLength -> Nat]
    BY <1>4 DEF Enqueue, EnqueueAccelerator, TypeOK
  <2> QED
    BY <1>4, <2>1, <2>2, <2>3 DEF Enqueue, EnqueueAccelerator, TypeOK
<1>5. ASSUME NEW w \in Workers,
             Claiming(w) \/ \E p \in Projects \cup {AnyProject} : RecoverExpired(w, p)
      PROVE  TypeOK'
  <2>1. InCall(w) /\ \E p, S : S \in SUBSET Jobs /\ Grant(w, Recovered(p, sample[w]), S)
    BY <1>5, ClaimingGrants
  <2> QED
    BY <2>1, GrantType
<1>6. ASSUME NEW w \in Workers, Settling(w)
      PROVE  TypeOK'
  <2>1. rows' \in [Jobs -> JobRow]
    BY <1>6 DEF Settling, Complete, Fail, GiveUp, TypeOK
  <2>2. /\ held' \in [Workers -> SUBSET Lease]
        /\ sample' \in [Workers -> 0 .. MaxClock \cup {NULL}]
    BY <1>6 DEF Settling, Complete, Fail, GiveUp, EndCall, TypeOK
  <2> QED
    BY <1>6, <2>1, <2>2 DEF Settling, Complete, Fail, GiveUp, TypeOK
<1>7. ASSUME NEW w \in Workers, Heartbeat(w)
      PROVE  TypeOK'
  <2>1. rows' \in [Jobs -> JobRow]
    BY <1>7 DEF Heartbeat, SampleBeat, Renew, ReturnBeat, TypeOK
  <2>2. beat' \in [Workers -> SUBSET Call]
    <3>1. ASSUME NEW l \in held[w], SampleBeat(w, l)
          PROVE  beat' \in [Workers -> SUBSET Call]
      <4>1. {[lease |-> l, now |-> clock]} \subseteq Call
        BY TimeAssumption DEF TypeOK, Call
      <4> QED
        BY <3>1, <4>1 DEF SampleBeat, TypeOK
    <3>2. ASSUME beat' = [beat EXCEPT ![w] = {}]
          PROVE  beat' \in [Workers -> SUBSET Call]
      BY <3>2 DEF TypeOK
    <3> QED
      BY <1>7, <3>1, <3>2 DEF Heartbeat, Renew, ReturnBeat
  <2> QED
    BY <1>7, <2>1, <2>2 DEF Heartbeat, SampleBeat, Renew, ReturnBeat, TypeOK
<1>8. ASSUME NEW w \in Workers, Sample(w) \/ Return(w) \/ Crash(w)
      PROVE  TypeOK'
  BY <1>8 DEF Sample, Return, Crash, EndCall, TypeOK
<1> QED
  BY <1>1, <1>2, <1>3, <1>4, <1>5, <1>6, <1>7, <1>8 DEF Next, Admission

(* What one step may do to what a worker and its heartbeat have in flight. *)
LEMMA InFlight ==
  ASSUME IInv, [Next]_vars, NEW v \in Workers
  PROVE  /\ sample'[v] \in {sample[v], clock, NULL}
         /\ \A call \in beat'[v] : call \in beat[v] \/ (call.now = clock /\ call.lease \in held[v])
<1> USE DEF IInv
<1>1. ASSUME NEW w \in Workers, Claiming(w) \/ \E p \in Projects \cup {AnyProject} : RecoverExpired(w, p)
      PROVE  sample'[v] \in {sample[v], NULL} /\ beat' = beat
  BY <1>1, ClaimingGrants DEF Grant, EndCall, TypeOK
<1>2. CASE UNCHANGED vars \/ Tick \/ Admission
  BY <1>2 DEF vars, Tick, Admission, EnqueueInTransaction, Enqueue, EnqueueAccelerator,
       EndCall, TypeOK
<1>3. ASSUME NEW w \in Workers, Sample(w) \/ Return(w) \/ Settling(w) \/ Crash(w)
      PROVE  sample'[v] \in {sample[v], clock, NULL} /\ beat'[v] \in {beat[v], {}}
  BY <1>3 DEF Sample, Return, Settling, Complete, Fail, GiveUp, Crash, EndCall, TypeOK
<1>4. ASSUME NEW w \in Workers, Heartbeat(w)
      PROVE  /\ sample' = sample
             /\ \A call \in beat'[v] : call \in beat[v] \/ (call.now = clock /\ call.lease \in held[v])
  <2>1. ASSUME NEW l \in held[w], SampleBeat(w, l)
        PROVE  /\ sample' = sample
               /\ v # w => beat'[v] = beat[v]
               /\ v = w => beat'[v] = {[lease |-> l, now |-> clock]}
    BY <2>1 DEF SampleBeat, TypeOK
  <2>2. ASSUME \/ \E call \in beat[w] : Renew(w, call)
               \/ ReturnBeat(w)
        PROVE  sample' = sample /\ beat'[v] \in {beat[v], {}}
    BY <2>2 DEF Renew, ReturnBeat, TypeOK
  <2> QED
    BY <1>4, <2>1, <2>2 DEF Heartbeat
<1> QED
  BY <1>1, <1>2, <1>3, <1>4 DEF Next

(* The clock does not run backwards.                                       *)
LEMMA ClockAdvances ==
  ASSUME IInv, [Next]_vars
  PROVE  clock \in Nat /\ clock' \in Nat /\ clock <= clock'
<1>1. clock' = clock \/ clock' = clock + 1
  <2>1. ASSUME NEW w \in Workers, Claiming(w) \/ \E p \in Projects \cup {AnyProject} : RecoverExpired(w, p)
        PROVE  clock' = clock
    BY <2>1, ClaimingGrants DEF Grant
  <2> QED
    BY <2>1 DEF Next, vars, Tick, Admission, EnqueueInTransaction, Enqueue, EnqueueAccelerator,
       Sample, Return, Settling, Complete, Fail, GiveUp, Heartbeat, SampleBeat, Renew,
       ReturnBeat, Crash
<1> QED
  BY <1>1 DEF IInv, TypeOK

(* Clock readings in flight are never ahead of the clock.                  *)
LEMMA NextSampledBefore ==
  ASSUME IInv, [Next]_vars
  PROVE  SampledBefore'
<1>1. \A v \in Workers : sample[v] \in Int /\ \A call \in beat[v] : call.now \in Nat
  BY DEF IInv, TypeOK, NULL, Call
<1> QED
  BY <1>1, InFlight, ClockAdvances DEF IInv, SampledBefore, NULL

-----------------------------------------------------------------------------
(* The rows, their attempts and the clock readings in flight agree in every *)
(* reachable state of derived_work.py's queue: the inductive invariant the *)
(* theorems below rest on.                                                 *)
THEOREM Invariance == Spec => []IInv
<1>1. Init => IInv
  <2> SUFFICES ASSUME Init
               PROVE  IInv
    OBVIOUS
  <2>1. \A j \in Jobs : RowInv(AbsentRow, MaxAttemptsOf[j])
    <3>1. AbsentRow \in JobRow
      BY DEF AbsentRow, JobRow
    <3> QED
      BY <3>1, ColumnAssumption
         DEF RowInv, LeaseColumns, Accounted, Granted, Queued, Ledger, AbsentRow
  <2>2. RowsOK
    BY <2>1 DEF Init, RowsOK
  <2>3. TypeOK
    <3>1. AbsentRow \in JobRow
      BY DEF AbsentRow, JobRow
    <3> QED
      BY <3>1, TimeAssumption DEF Init, TypeOK
  <2>4. SampledBefore
    BY DEF Init, SampledBefore, NULL
  <2> QED
    BY <2>2, <2>3, <2>4 DEF IInv
<1>2. IInv /\ [Next]_vars => IInv'
  <2> SUFFICES ASSUME IInv, [Next]_vars
               PROVE  IInv'
    OBVIOUS
  <2>1. \A j \in Jobs : RowInv(rows'[j], MaxAttemptsOf[j])
    BY NextRowStep, RowStepInv DEF IInv
  <2>2. TypeOK'
    BY <2>1, NextType DEF RowInv
  <2>3. SampledBefore'
    BY NextSampledBefore
  <2> QED
    BY <2>1, <2>2, <2>3 DEF IInv, RowsOK
<1> QED
  BY <1>1, <1>2, PTL DEF Spec

(* The tables hold what their columns allow.                               *)
THEOREM TypeCorrect == Spec => []TypeOK
<1>1. IInv => TypeOK
  BY DEF IInv
<1> QED
  BY <1>1, Invariance, PTL

(* Every lease _claim_row grants is settled once and charged once.         *)
THEOREM LeasesAccounted == Spec => []EveryLeaseIsAccounted
<1>1. IInv => EveryLeaseIsAccounted
  BY DEF IInv, RowsOK, RowInv, Accounted, EveryLeaseIsAccounted
<1> QED
  BY <1>1, Invariance, PTL

(* derived_work_attempts has one row per generation, open for the live     *)
(* lease only: _finish_attempt never misses and never closes another one.  *)
THEOREM LedgerCorrect == Spec => []LedgerMatchesQueue
<1>1. IInv => LedgerMatchesQueue
  <2> SUFFICES ASSUME IInv, NEW j \in Jobs
               PROVE  LET r == rows[j]
                      IN /\ {a.generation : a \in r.attempts} = 1 .. r.fencing_generation
                         /\ \A a, b \in r.attempts : a.generation = b.generation => a = b
                         /\ \A a \in r.attempts :
                              (a.finished_at = NULL)
                              <=> (r.status = "leased" /\ a.generation = r.fencing_generation)
    BY DEF LedgerMatchesQueue
  <2>1. Ledger(rows[j])
    BY DEF IInv, RowsOK, RowInv
  <2> QED
    BY <2>1 DEF Ledger
<1> QED
  BY <1>1, Invariance, PTL

(* completed and dead rows are out of reach of every later transaction.    *)
THEOREM SettledForGood == Spec => SettledIsFinal
<1>1. IInv /\ [Next]_vars
      => [\A j \in Jobs : rows[j].status \in {"completed", "dead"} => rows'[j] = rows[j]]_vars
  <2> SUFFICES ASSUME IInv, [Next]_vars, NEW j \in Jobs,
                      rows[j].status \in {"completed", "dead"}
               PROVE  rows'[j] = rows[j]
    OBVIOUS
  <2>1. RowStep(j)
    BY NextRowStep DEF IInv
  <2>2. \A t, m : Swept(rows[j], m, t) = {rows[j]}
    BY DEF Swept, Expired
  <2>3. \A t : ~Due(rows[j], t)
    BY DEF Due, Queued
  <2> QED
    BY <2>1, <2>2, <2>3 DEF RowStep
<1> QED
  BY <1>1, Invariance, PTL DEF Spec, SettledIsFinal

(* Only its holder ends a lease before it expires.                         *)
THEOREM LiveLeasesKept == Spec => LiveLeaseIsNotTaken
<1> DEFINE Kept(j) ==
      /\ rows[j].status = "leased" /\ rows[j].lease_expires_at > clock
      /\ rows'[j].status # "leased" \/ rows'[j].fencing_generation # rows[j].fencing_generation
      => \E w \in Workers : LeaseOn(rows, j) \in held[w] \ held'[w]
<1>1. IInv /\ [Next]_vars => [\A j \in Jobs : Kept(j)]_vars
  <2> SUFFICES ASSUME IInv, [Next]_vars, NEW j \in Jobs,
                      rows[j].status = "leased", rows[j].lease_expires_at > clock
               PROVE  \/ rows'[j].status = "leased"
                         /\ rows'[j].fencing_generation = rows[j].fencing_generation
                      \/ Settles(j)
    BY DEF Settles
  <2> DEFINE r == rows[j]
  <2>1. RowStep(j)
    BY NextRowStep DEF IInv
  <2>2. /\ r \in JobRow /\ r.lease_expires_at \in Int /\ clock \in Nat
    BY DEF IInv, TypeOK, JobRow, NULL
  <2>3. \A m : \A t \in 0 .. clock : Swept(r, m, t) = {r} /\ ~Due(r, t)
    BY <2>2 DEF Swept, Expired, Due, Queued
  <2>4. \A t : [r EXCEPT !.lease_expires_at = t].status = r.status
               /\ [r EXCEPT !.lease_expires_at = t].fencing_generation = r.fencing_generation
    BY <2>2 DEF JobRow
  <2> QED
    BY <2>1, <2>3, <2>4 DEF RowStep
<1> QED
  BY <1>1, Invariance, PTL DEF Spec, LiveLeaseIsNotTaken

-----------------------------------------------------------------------------
(***************************************************************************)
(* Recorded times.  A queued job may not be claimed before every attempt   *)
(* of it has ended, and the open attempt was claimed before its lease      *)
(* expires.  The outcome "completed" is on the last attempt of a completed *)
(* job and on no other.                                                    *)
(***************************************************************************)
TimedRow(r) ==
  /\ \A a \in r.attempts : a.finished_at # NULL => a.claimed_at <= a.finished_at
  /\ \A a, b \in r.attempts : a.generation < b.generation => a.finished_at <= b.claimed_at
  /\ r.status \in Queued => \A a \in r.attempts : a.finished_at <= r.not_before_at
  /\ r.status = "leased" =>
       \A a \in r.attempts : a.generation = r.fencing_generation => a.claimed_at <= r.lease_expires_at

WonRow(r) ==
  \A a \in r.attempts :
    a.disposition = "completed" <=> r.status = "completed" /\ a.generation = r.fencing_generation

(* What closing the open attempt of a leased row leaves of each attempt.   *)
LEMMA ClosedAttempts ==
  ASSUME NEW r, NEW m, RowInv(r, m), r.status = "leased", NEW now \in Nat, NEW d \in Dispositions,
         NEW b \in Finished(r.attempts, r.fencing_generation, now, d)
  PROVE  /\ b \in Attempt
         /\ \/ b \in r.attempts /\ b.generation < r.fencing_generation
            \/ /\ b.generation = r.fencing_generation
               /\ b.finished_at = now /\ b.disposition = d
               /\ \E a \in r.attempts : /\ a.generation = r.fencing_generation
                                        /\ a.claimed_at = b.claimed_at
<1> DEFINE g == r.fencing_generation
<1>1. PICK a \in r.attempts : b = IF a.generation = g /\ a.finished_at = NULL
                                    THEN [a EXCEPT !.finished_at = now, !.disposition = d]
                                    ELSE a
  BY DEF Finished
<1>2. /\ a \in Attempt /\ a.generation \in 1 .. g /\ g \in Nat
      /\ (a.finished_at = NULL) <=> a.generation = g
  BY DEF RowInv, JobRow, Ledger
<1>3. CASE a.generation = g
  <2>1. b = [a EXCEPT !.finished_at = now, !.disposition = d]
    BY <1>1, <1>2, <1>3
  <2> QED
    BY <1>2, <1>3, <2>1 DEF Attempt
<1>4. CASE a.generation # g
  <2>1. b = a
    BY <1>1, <1>4
  <2> QED
    BY <1>2, <1>4, <2>1
<1> QED
  BY <1>3, <1>4

(* A lease that ends no earlier than it was claimed, on a job that is not  *)
(* due again before, keeps the recorded times in order.                    *)
LEMMA SettledTimes ==
  ASSUME NEW r, NEW m, RowInv(r, m), TimedRow(r), WonRow(r), r.status = "leased",
         NEW now \in Nat, NEW d \in Dispositions,
         \A a \in r.attempts : a.generation = r.fencing_generation => a.claimed_at <= now,
         NEW q, q.status # "leased",
         q.fencing_generation = r.fencing_generation,
         q.attempts = Finished(r.attempts, r.fencing_generation, now, d),
         q.status \in Queued => q.not_before_at \in Nat /\ now <= q.not_before_at,
         d = "completed" <=> q.status = "completed"
  PROVE  TimedRow(q) /\ WonRow(q)
<1> DEFINE g == r.fencing_generation
           Old(b) == b \in r.attempts /\ b.generation < g
           Last(b) == /\ b.generation = g /\ b.finished_at = now /\ b.disposition = d
                      /\ \E a \in r.attempts : a.generation = g /\ a.claimed_at = b.claimed_at
<1>1. \A b \in q.attempts : b \in Attempt /\ (Old(b) \/ Last(b))
  BY ClosedAttempts
<1>2. g \in Nat /\ \A a \in r.attempts : a \in Attempt
  BY DEF RowInv, JobRow
<1>3. PICK z \in r.attempts : z.generation = g
  <2>1. g \in 1 .. g
    BY <1>2 DEF RowInv, Accounted, Granted, JobRow
  <2> QED
    BY <2>1 DEF RowInv, Ledger
<1>4. \A b \in q.attempts : Old(b) => b.finished_at <= z.claimed_at /\ b.claimed_at <= b.finished_at
                                        /\ b.finished_at <= now
  <2> SUFFICES ASSUME NEW b \in q.attempts, Old(b)
               PROVE  b.finished_at <= z.claimed_at /\ b.claimed_at <= b.finished_at
                        /\ b.finished_at <= now
    OBVIOUS
  <2>1. b.finished_at # NULL
    BY <1>2 DEF RowInv, Ledger, Attempt
  <2>2. b.finished_at <= z.claimed_at /\ b.claimed_at <= b.finished_at /\ z.claimed_at <= now
    BY <1>3, <2>1 DEF TimedRow
  <2> QED
    BY <1>1, <1>2, <2>2 DEF Attempt, NULL
<1>5. \A b \in q.attempts : Last(b) => b.claimed_at <= now /\ b.finished_at = now
  OBVIOUS
<1>6. \A b \in q.attempts : b.finished_at # NULL => b.claimed_at <= b.finished_at
  BY <1>1, <1>4, <1>5
<1>7. \A a, b \in q.attempts : a.generation < b.generation => a.finished_at <= b.claimed_at
  <2> SUFFICES ASSUME NEW a \in q.attempts, NEW b \in q.attempts, a.generation < b.generation
               PROVE  a.finished_at <= b.claimed_at
    OBVIOUS
  <2>1. Old(a)
    BY <1>1, <1>2 DEF Attempt
  <2>2. CASE Old(b)
    BY <2>1, <2>2 DEF TimedRow
  <2>3. CASE Last(b)
    BY <2>1, <2>3 DEF TimedRow
  <2> QED
    BY <1>1, <2>2, <2>3
<1>8. q.status \in Queued => \A b \in q.attempts : b.finished_at <= q.not_before_at
  BY <1>1, <1>4, <1>5 DEF Attempt, NULL
<1>9. WonRow(q)
  <2>1. \A b \in q.attempts : Old(b) => b.disposition # "completed" /\ b.generation # g
    BY <1>1, <1>2 DEF WonRow, Attempt
  <2> QED
    BY <1>1, <2>1 DEF WonRow
<1> QED
  BY <1>6, <1>7, <1>8, <1>9 DEF TimedRow

(* A claim of a job that is due opens an attempt after all others.         *)
LEMMA ClaimedTimes ==
  ASSUME NEW r, NEW m \in Nat \ {0}, NEW now \in Nat, RowInv(r, m), TimedRow(r), WonRow(r), Due(r, now)
  PROVE  TimedRow(ClaimedRow(r, now)) /\ WonRow(ClaimedRow(r, now))
<1> DEFINE q == ClaimedRow(r, now)
           g == r.fencing_generation + 1
           new == [generation |-> g, claimed_at |-> now, finished_at |-> NULL,
                   disposition |-> "leased"]
<1>1. r \in JobRow /\ r.status \in Queued /\ r.not_before_at <= now /\ LeaseSeconds \in Nat \ {0}
  BY TimeAssumption DEF RowInv, Due
<1>2. /\ q.status = "leased" /\ q.fencing_generation = g
      /\ q.lease_expires_at = now + LeaseSeconds
      /\ q.attempts = r.attempts \cup {new}
  BY <1>1 DEF ClaimedRow, JobRow
<1>3. /\ new.generation = g /\ new.claimed_at = now /\ new.finished_at = NULL
      /\ new.disposition = "leased"
  OBVIOUS
<1> HIDE DEF q, new
<1>4. \A a \in r.attempts : /\ a \in Attempt /\ a.generation < g
                            /\ a.finished_at <= now /\ a.disposition # "completed"
  <2> SUFFICES ASSUME NEW a \in r.attempts
               PROVE  /\ a \in Attempt /\ a.generation < g
                      /\ a.finished_at <= now /\ a.disposition # "completed"
    OBVIOUS
  <2>1. a \in Attempt /\ a.generation \in 1 .. r.fencing_generation /\ r.fencing_generation \in Nat
    BY <1>1 DEF JobRow, RowInv, Ledger
  <2>2. a.finished_at <= r.not_before_at
    BY <1>1 DEF TimedRow
  <2>3. a.finished_at <= now
    BY <1>1, <2>1, <2>2 DEF Attempt, JobRow, NULL
  <2>4. a.disposition # "completed"
    BY <1>1 DEF WonRow, Queued
  <2> QED
    BY <2>1, <2>3, <2>4
<1>5. TimedRow(q)
  <2>1. \A a \in q.attempts : a.finished_at # NULL => a.claimed_at <= a.finished_at
    BY <1>2, <1>3 DEF TimedRow
  <2>2. \A a, b \in q.attempts : a.generation < b.generation => a.finished_at <= b.claimed_at
    <3> SUFFICES ASSUME NEW a \in q.attempts, NEW b \in q.attempts, a.generation < b.generation
                 PROVE  a.finished_at <= b.claimed_at
      OBVIOUS
    <3>1. a # new
      BY <1>1, <1>2, <1>3, <1>4 DEF Attempt, JobRow
    <3> QED
      BY <1>2, <1>3, <1>4, <3>1 DEF TimedRow
  <2>3. \A a \in q.attempts : a.generation = q.fencing_generation => a.claimed_at <= q.lease_expires_at
    BY <1>1, <1>2, <1>3, <1>4 DEF Attempt, JobRow
  <2>4. q.status \notin Queued
    BY <1>2 DEF Queued
  <2> QED
    BY <2>1, <2>2, <2>3, <2>4 DEF TimedRow
<1>6. WonRow(q)
  BY <1>2, <1>3, <1>4 DEF WonRow
<1> QED
  BY <1>5, <1>6 DEF q

(***************************************************************************)
(* Capabilities.  No worker has a lease of a later generation than the     *)
(* job's, none is in two workers' hands, and whatever a worker decides a   *)
(* lease with was read from the clock after the lease was claimed.         *)
(***************************************************************************)
ClaimedBy(l, t) == \A a \in rows[l.job].attempts : a.generation = l.generation => a.claimed_at <= t

HoldInv ==
  /\ \A w \in Workers : \A l \in held[w] : l.generation <= rows[l.job].fencing_generation
  /\ \A v, w \in Workers : \A l \in held[v] : l \in held[w] => v = w
  /\ \A w \in Workers : \A call \in beat[w] :
       call.lease.generation <= rows[call.lease.job].fencing_generation

TimeInv ==
  /\ \A j \in Jobs : /\ TimedRow(rows[j]) /\ WonRow(rows[j])
                     /\ \A a \in rows[j].attempts : a.claimed_at <= clock
  /\ \A w \in Workers : \A l \in held[w] : InCall(w) => ClaimedBy(l, sample[w])
  /\ \A w \in Workers : \A call \in beat[w] : ClaimedBy(call.lease, call.now)

JInv == IInv /\ HoldInv /\ TimeInv

(* The sweep of an expired lease keeps the recorded times in order.        *)
LEMMA SweptTimes ==
  ASSUME NEW r, NEW m \in Nat \ {0}, NEW t \in Nat, RowInv(r, m), TimedRow(r), WonRow(r),
         NEW x \in Swept(r, m, t)
  PROVE  /\ RowInv(x, m) /\ TimedRow(x) /\ WonRow(x)
         /\ x.fencing_generation = r.fencing_generation
         /\ \A b \in x.attempts : \E a \in r.attempts : a.generation = b.generation /\ a.claimed_at = b.claimed_at
<1>1. CASE x = r
  BY <1>1
<1>2. CASE Expired(r, t) /\ x = RecoveredRow(r, m, t)
  <2> DEFINE d == IF r.attempt_count + 1 >= m THEN "dead" ELSE "lease_expired"
  <2>1. r \in JobRow /\ r.status = "leased" /\ r.lease_expires_at <= t
    BY <1>2 DEF RowInv, Expired
  <2>2. RowInv(x, m)
    BY <1>2, <2>1, RecoveredRowInv
  <2>3. /\ x.status \in {"pending", "dead"} /\ x.fencing_generation = r.fencing_generation
        /\ x.attempts = Finished(r.attempts, r.fencing_generation, t, d)
        /\ x.not_before_at = t
    BY <1>2, <2>1 DEF RecoveredRow, JobRow
  <2>4. d \in Dispositions /\ d # "completed"
    BY DEF Dispositions
  <2> HIDE DEF d
  <2>5. \A a \in r.attempts : a.generation = r.fencing_generation => a.claimed_at <= t
    <3> SUFFICES ASSUME NEW a \in r.attempts, a.generation = r.fencing_generation
                 PROVE  a.claimed_at <= t
      OBVIOUS
    <3>1. a.claimed_at <= r.lease_expires_at
      BY <2>1 DEF TimedRow
    <3> QED
      BY <2>1, <3>1 DEF JobRow, Attempt, NULL
  <2>6. TimedRow(x) /\ WonRow(x)
    BY <2>1, <2>3, <2>4, <2>5, SettledTimes
  <2>7. \A b \in x.attempts : \E a \in r.attempts : a.generation = b.generation /\ a.claimed_at = b.claimed_at
    BY <2>1, <2>3, <2>4, ClosedAttempts
  <2> QED
    BY <2>2, <2>3, <2>6, <2>7
<1> QED
  BY <1>1, <1>2 DEF Swept

(* A row step keeps the recorded times in order and the past as it was.    *)
LEMMA RowStepTimes ==
  ASSUME JInv, NEW j \in Jobs, RowStep(j)
  PROVE  /\ TimedRow(rows'[j]) /\ WonRow(rows'[j])
         /\ rows'[j].fencing_generation >= rows[j].fencing_generation
         /\ \A b \in rows'[j].attempts :
              \/ \E a \in rows[j].attempts : a.generation = b.generation /\ a.claimed_at = b.claimed_at
              \/ b.generation > rows[j].fencing_generation /\ b.claimed_at <= clock
<1> DEFINE r == rows[j]
           m == MaxAttemptsOf[j]
           Ok(q) == /\ TimedRow(q) /\ WonRow(q)
                    /\ q.fencing_generation >= r.fencing_generation
                    /\ \A b \in q.attempts :
                         \/ \E a \in r.attempts : a.generation = b.generation /\ a.claimed_at = b.claimed_at
                         \/ b.generation > r.fencing_generation /\ b.claimed_at <= clock
<1>1. /\ m \in Nat \ {0} /\ RowInv(r, m) /\ clock \in Nat /\ TimedRow(r) /\ WonRow(r)
      /\ r \in JobRow /\ r.fencing_generation \in Nat
      /\ \A a \in r.attempts : a \in Attempt
  BY ColumnAssumption DEF JInv, IInv, RowsOK, TypeOK, TimeInv, JobRow
<1>2. Ok(r)
  BY <1>1
<1>3. ASSUME NEW t \in 0 .. clock, r.status = "absent"
      PROVE  Ok(InsertedRow(t))
  <2> DEFINE q == InsertedRow(t)
  <2>1. q.status = "pending" /\ q.attempts = {} /\ q.fencing_generation = 0
    BY DEF InsertedRow, AbsentRow
  <2>2. r.fencing_generation = 0
    BY <1>1, <1>3 DEF RowInv, Accounted, Granted
  <2> HIDE DEF q
  <2> QED
    BY <2>1, <2>2 DEF TimedRow, WonRow, q
<1>4. ASSUME NEW t \in 0 .. clock, NEW x \in Swept(r, m, t)
      PROVE  Ok(x) /\ (Due(x, t) => Ok(ClaimedRow(x, t)))
  <2>1. t \in Nat /\ t <= clock
    BY <1>1
  <2>2. /\ RowInv(x, m) /\ TimedRow(x) /\ WonRow(x)
        /\ x.fencing_generation = r.fencing_generation
        /\ \A b \in x.attempts : \E a \in r.attempts : a.generation = b.generation /\ a.claimed_at = b.claimed_at
    BY <1>1, <2>1, SweptTimes
  <2>3. ASSUME Due(x, t)
        PROVE  Ok(ClaimedRow(x, t))
    <3> DEFINE q == ClaimedRow(x, t)
               new == [generation |-> x.fencing_generation + 1, claimed_at |-> t,
                       finished_at |-> NULL, disposition |-> "leased"]
    <3>1. TimedRow(q) /\ WonRow(q)
      BY <1>1, <2>1, <2>2, <2>3, ClaimedTimes
    <3>2. q.fencing_generation = r.fencing_generation + 1 /\ q.attempts = x.attempts \cup {new}
      BY <2>2 DEF ClaimedRow, RowInv, JobRow
    <3>3. new.generation = r.fencing_generation + 1 /\ new.claimed_at = t
      BY <2>2
    <3> HIDE DEF q, new
    <3>4. \A b \in q.attempts :
            \/ \E a \in r.attempts : a.generation = b.generation /\ a.claimed_at = b.claimed_at
            \/ b.generation > r.fencing_generation /\ b.claimed_at <= clock
      BY <1>1, <2>1, <2>2, <3>2, <3>3
    <3>5. q.fencing_generation >= r.fencing_generation
      BY <1>1, <3>2
    <3> QED
      BY <3>1, <3>4, <3>5 DEF q
  <2>4. Ok(x)
    BY <1>1, <2>2
  <2> QED
    BY <2>3, <2>4
<1>5. ASSUME NEW q, NEW t \in Nat, NEW d \in Dispositions, r.status = "leased",
             q.status # "leased", q.fencing_generation = r.fencing_generation,
             q.attempts = Finished(r.attempts, r.fencing_generation, t, d),
             q.status \in Queued => q.not_before_at \in Nat /\ t <= q.not_before_at,
             d = "completed" <=> q.status = "completed",
             \A a \in r.attempts : a.generation = r.fencing_generation => a.claimed_at <= t
      PROVE  Ok(q)
  <2>1. TimedRow(q) /\ WonRow(q)
    BY <1>1, <1>5, SettledTimes
  <2>2. \A b \in q.attempts : \E a \in r.attempts : a.generation = b.generation /\ a.claimed_at = b.claimed_at
    BY <1>1, <1>5, ClosedAttempts
  <2> QED
    BY <1>1, <1>5, <2>1, <2>2
<1>6. ASSUME r.status = "leased"
      PROVE  Ok(CompletedRow(r, clock))
  <2> DEFINE q == CompletedRow(r, clock)
  <2>1. /\ q.status = "completed" /\ q.fencing_generation = r.fencing_generation
        /\ q.attempts = Finished(r.attempts, r.fencing_generation, clock, "completed")
    BY <1>1 DEF CompletedRow, JobRow
  <2>2. \A a \in r.attempts : a.claimed_at <= clock
    BY DEF JInv, TimeInv
  <2>3. "completed" \in Dispositions /\ "completed" \notin Queued
    BY DEF Dispositions, Queued
  <2> HIDE DEF q, Ok
  <2> QED
    BY <1>1, <1>5, <1>6, <2>1, <2>2, <2>3 DEF q
<1>7. ASSUME r.status = "leased", NEW w \in Workers, InCall(w), LeaseOn(rows, j) \in held[w],
             NEW b \in BOOLEAN, NEW delay \in Nat
      PROVE  Ok(FailedRow(r, m, sample[w], b, delay))
  <2> DEFINE q == FailedRow(r, m, sample[w], b, delay)
             s == IF b /\ r.attempt_count + 1 < m THEN "retry_wait" ELSE "dead"
  <2>1. sample[w] \in Nat
    BY <1>7 DEF JInv, IInv, TypeOK, InCall
  <2>2. /\ q.status = s /\ q.fencing_generation = r.fencing_generation
        /\ q.attempts = Finished(r.attempts, r.fencing_generation, sample[w], s)
        /\ s = "retry_wait" => q.not_before_at = sample[w] + delay
    BY <1>1 DEF FailedRow, JobRow
  <2>3. s \in {"retry_wait", "dead"} /\ s \in Dispositions
    BY DEF Dispositions
  <2>4. \A a \in r.attempts : a.generation = r.fencing_generation => a.claimed_at <= sample[w]
    BY <1>7 DEF JInv, TimeInv, ClaimedBy, LeaseOn
  <2>5. q.status \in Queued => q.not_before_at \in Nat /\ sample[w] <= q.not_before_at
    <3> HIDE DEF q, s
    <3> QED
      BY <2>1, <2>2, <2>3 DEF Queued
  <2> HIDE DEF q, s, Ok
  <2> QED
    BY <1>1, <1>5, <1>7, <2>1, <2>2, <2>3, <2>4, <2>5 DEF q
<1>8. ASSUME r.status = "leased", NEW w \in Workers, NEW call \in beat[w], call.lease = LeaseOn(rows, j)
      PROVE  Ok([r EXCEPT !.lease_expires_at = call.now + LeaseSeconds])
  <2> DEFINE q == [r EXCEPT !.lease_expires_at = call.now + LeaseSeconds]
  <2>1. /\ q.status = "leased" /\ q.fencing_generation = r.fencing_generation
        /\ q.attempts = r.attempts /\ q.lease_expires_at = call.now + LeaseSeconds
    BY <1>1, <1>8 DEF JobRow
  <2>2. \A a \in r.attempts : a.generation = r.fencing_generation => a.claimed_at <= call.now
    BY <1>8 DEF JInv, TimeInv, ClaimedBy, LeaseOn
  <2>3. call.now \in Nat /\ LeaseSeconds \in Nat
    BY TimeAssumption DEF JInv, IInv, TypeOK, Call
  <2>4. \A a \in r.attempts : a.generation = r.fencing_generation => a.claimed_at <= call.now + LeaseSeconds
    BY <1>1, <2>2, <2>3 DEF Attempt
  <2> HIDE DEF q
  <2>5. TimedRow(q) /\ WonRow(q)
    BY <1>1, <1>8, <2>1, <2>4 DEF TimedRow, WonRow, Queued
  <2> QED
    BY <1>1, <2>1, <2>5 DEF q
<1>9. Ok(rows'[j])
  <2> HIDE DEF Ok
  <2> QED
    BY <1>2, <1>3, <1>4, <1>6, <1>7, <1>8 DEF RowStep
<1> QED
  BY <1>9

(* What one step may do to the leases in workers' hands: some are let go,  *)
(* or one worker, whose call ends with it, is handed leases of the next    *)
(* generation of their jobs.                                               *)
LEMMA HeldStep ==
  ASSUME IInv, [Next]_vars
  PROVE  \/ \A v \in Workers : held'[v] \subseteq held[v]
         \/ \E w \in Workers :
              /\ \A v \in Workers \ {w} : held'[v] = held[v]
              /\ sample'[w] = NULL
              /\ \A l \in held'[w] \ held[w] :
                   /\ l.generation = rows[l.job].fencing_generation + 1
                   /\ l.generation = rows'[l.job].fencing_generation
<1>1. CASE UNCHANGED vars \/ Tick \/ Admission
  BY <1>1 DEF vars, Tick, Admission, EnqueueInTransaction, Enqueue, EnqueueAccelerator
<1>2. ASSUME NEW w \in Workers, Claiming(w) \/ \E p \in Projects \cup {AnyProject} : RecoverExpired(w, p)
      PROVE  /\ \A v \in Workers \ {w} : held'[v] = held[v]
             /\ sample'[w] = NULL
             /\ \A l \in held'[w] \ held[w] :
                  /\ l.generation = rows[l.job].fencing_generation + 1
                  /\ l.generation = rows'[l.job].fencing_generation
  <2>1. PICK p, S : S \in SUBSET Jobs /\ Grant(w, Recovered(p, sample[w]), S)
    BY <1>2, ClaimingGrants
  <2> DEFINE R == Recovered(p, sample[w])
  <2>2. held' = [held EXCEPT ![w] = held[w] \cup {LeaseOn(rows', j) : j \in S}]
    BY <2>1 DEF Grant
  <2>3. ASSUME NEW j \in S
        PROVE  /\ LeaseOn(rows', j).job = j
               /\ LeaseOn(rows', j).generation = rows'[j].fencing_generation
               /\ rows'[j].fencing_generation = rows[j].fencing_generation + 1
    <3>1. R[j] \in Swept(rows[j], MaxAttemptsOf[j], sample[w]) /\ j \in Jobs
      BY <2>1, RecoveredRows
    <3>2. rows[j] \in JobRow
      BY <3>1 DEF IInv, TypeOK
    <3>3. R[j].fencing_generation = rows[j].fencing_generation
      <4>1. CASE R[j] = RecoveredRow(rows[j], MaxAttemptsOf[j], sample[w])
        BY <3>2, <4>1 DEF RecoveredRow, JobRow
      <4> QED
        BY <3>1, <4>1 DEF Swept
    <3>4. DOMAIN R[j] = DOMAIN rows[j]
      <4>1. CASE R[j] = RecoveredRow(rows[j], MaxAttemptsOf[j], sample[w])
        BY <3>2, <4>1 DEF RecoveredRow, JobRow
      <4> QED
        BY <3>1, <4>1 DEF Swept
    <3>5. rows'[j] = ClaimedRow(R[j], sample[w])
      BY <2>1, <3>1 DEF Grant
    <3>6. ClaimedRow(R[j], sample[w]).fencing_generation = R[j].fencing_generation + 1
      <4> HIDE DEF R
      <4> QED
        BY <3>2, <3>4 DEF ClaimedRow, JobRow
    <3> QED
      BY <3>3, <3>5, <3>6 DEF LeaseOn
  <2>4. held'[w] = held[w] \cup {LeaseOn(rows', j) : j \in S} /\ \A v \in Workers \ {w} : held'[v] = held[v]
    BY <2>2 DEF IInv, TypeOK
  <2>5. \A l \in held'[w] \ held[w] : \E j \in S : l = LeaseOn(rows', j)
    BY <2>4
  <2>6. sample'[w] = NULL
    BY <2>1 DEF Grant, EndCall, IInv, TypeOK
  <2> QED
    BY <2>3, <2>4, <2>5, <2>6
<1>3. ASSUME NEW w \in Workers, Sample(w) \/ Return(w) \/ Settling(w) \/ Heartbeat(w) \/ Crash(w)
      PROVE  \A v \in Workers : held'[v] \subseteq held[v]
  BY <1>3, ZenonT(60) DEF Sample, Return, Settling, Complete, Fail, GiveUp, Heartbeat, SampleBeat, Renew,
       ReturnBeat, Crash, IInv, TypeOK
<1> QED
  BY <1>1, <1>2, <1>3 DEF Next

LEMMA HoldStep ==
  ASSUME JInv, [Next]_vars, IInv'
  PROVE  HoldInv'
<1>1. \A j \in Jobs : /\ rows'[j].fencing_generation >= rows[j].fencing_generation
                      /\ rows[j].fencing_generation \in Nat /\ rows'[j].fencing_generation \in Nat
  BY NextRowStep, RowStepTimes DEF JInv, IInv, TypeOK, JobRow
<1>2. \A w \in Workers : \A l \in held[w] \cup held'[w] : l.job \in Jobs /\ l.generation \in Nat
  BY DEF JInv, IInv, TypeOK, Lease
<1>3. \A w \in Workers : \A l \in held[w] : l.generation <= rows[l.job].fencing_generation
  BY DEF JInv, HoldInv
<1>4. \A w \in Workers : \A l \in held'[w] : l.generation <= rows'[l.job].fencing_generation
  <2>1. CASE \A v \in Workers : held'[v] \subseteq held[v]
    BY <1>1, <1>2, <1>3, <2>1
  <2>2. ASSUME NEW w \in Workers,
               /\ \A v \in Workers \ {w} : held'[v] = held[v]
               /\ \A l \in held'[w] \ held[w] : l.generation = rows'[l.job].fencing_generation
        PROVE  \A v \in Workers : \A l \in held'[v] : l.generation <= rows'[l.job].fencing_generation
    <3> SUFFICES ASSUME NEW v \in Workers, NEW l \in held'[v]
                 PROVE  l.generation <= rows'[l.job].fencing_generation
      OBVIOUS
    <3>1. CASE l \in held[v]
      BY <1>1, <1>2, <1>3, <3>1
    <3>2. CASE l \notin held[v]
      BY <1>1, <1>2, <2>2, <3>2
    <3> QED
      BY <3>1, <3>2
  <2> QED
    BY <2>1, <2>2, HeldStep DEF JInv
<1>5. \A v, w \in Workers : \A l \in held'[v] : l \in held'[w] => v = w
  <2>1. CASE \A v \in Workers : held'[v] \subseteq held[v]
    BY <2>1 DEF JInv, HoldInv
  <2>2. ASSUME NEW u \in Workers,
               /\ \A v \in Workers \ {u} : held'[v] = held[v]
               /\ \A l \in held'[u] \ held[u] : l.generation = rows[l.job].fencing_generation + 1
        PROVE  \A v, w \in Workers : \A l \in held'[v] : l \in held'[w] => v = w
    <3>1. \A l \in held'[u] \ held[u] : \A v \in Workers : l \notin held[v]
      BY <1>1, <1>2, <1>3, <2>2
    <3> QED
      BY <2>2, <3>1 DEF JInv, HoldInv
  <2> QED
    BY <2>1, <2>2, HeldStep DEF JInv
<1>6. \A w \in Workers : \A call \in beat'[w] :
        call.lease.generation <= rows'[call.lease.job].fencing_generation
  <2> SUFFICES ASSUME NEW w \in Workers, NEW call \in beat'[w]
               PROVE  call.lease.generation <= rows'[call.lease.job].fencing_generation
    OBVIOUS
  <2>1. call.lease.job \in Jobs /\ call.lease.generation \in Nat
    BY DEF JInv, IInv, TypeOK, Call, Lease
  <2>2. call \in beat[w] \/ call.lease \in held[w]
    BY InFlight DEF JInv
  <2>3. call.lease.generation <= rows[call.lease.job].fencing_generation
    BY <1>3, <2>2 DEF JInv, HoldInv
  <2> QED
    BY <1>1, <2>1, <2>3
<1> QED
  BY <1>4, <1>5, <1>6 DEF HoldInv

LEMMA TimeStep ==
  ASSUME JInv, [Next]_vars, IInv'
  PROVE  TimeInv'
<1>1. /\ clock \in Nat /\ clock' \in Nat /\ clock <= clock'
      /\ \A j \in Jobs : \A a \in rows[j].attempts \cup rows'[j].attempts : a \in Attempt
      /\ \A j \in Jobs : \A a \in rows[j].attempts : a.claimed_at <= clock
  BY ClockAdvances DEF JInv, IInv, TypeOK, JobRow, TimeInv
<1>2. \A j \in Jobs :
        /\ TimedRow(rows'[j]) /\ WonRow(rows'[j])
        /\ \A b \in rows'[j].attempts :
             \/ \E a \in rows[j].attempts : a.generation = b.generation /\ a.claimed_at = b.claimed_at
             \/ b.generation > rows[j].fencing_generation /\ b.claimed_at <= clock
  BY NextRowStep, RowStepTimes DEF JInv, IInv
<1>3. \A j \in Jobs : \A b \in rows'[j].attempts : b.claimed_at <= clock'
  BY <1>1, <1>2 DEF Attempt
<1>4. ASSUME NEW l \in Lease, NEW t, ClaimedBy(l, t), l.generation <= rows[l.job].fencing_generation
      PROVE  ClaimedBy(l, t)'
  <2>1. l.job \in Jobs /\ l.generation \in Nat /\ rows[l.job].fencing_generation \in Nat
    BY DEF Lease, JInv, IInv, TypeOK, JobRow
  <2>2. \A b \in rows'[l.job].attempts : b.generation = l.generation
           => \E a \in rows[l.job].attempts : a.generation = b.generation /\ a.claimed_at = b.claimed_at
    BY <1>2, <1>4, <2>1
  <2> QED
    BY <1>4, <2>2 DEF ClaimedBy
<1>5. \A l \in Lease : ClaimedBy(l, clock)
  BY <1>1 DEF ClaimedBy, Lease
<1>6. ASSUME NEW w \in Workers, NEW l \in held'[w], InCall(w)'
      PROVE  ClaimedBy(l, sample[w])'
  <2>1. l \in held[w]
    BY <1>6, HeldStep DEF JInv, InCall
  <2>2. l \in Lease /\ l.generation <= rows[l.job].fencing_generation
    BY <2>1 DEF JInv, IInv, TypeOK, HoldInv
  <2>3. sample'[w] = clock \/ (sample'[w] = sample[w] /\ InCall(w))
    BY <1>6, InFlight DEF JInv, InCall
  <2>4. CASE sample'[w] = clock
    BY <1>4, <1>5, <2>2, <2>4 DEF ClaimedBy
  <2>5. CASE sample'[w] = sample[w] /\ InCall(w)
    <3>1. ClaimedBy(l, sample[w])
      BY <2>1, <2>5 DEF JInv, TimeInv
    <3>2. \A a \in rows'[l.job].attempts : a.generation = l.generation => a.claimed_at <= sample[w]
      <4>1. PICK t : t = sample[w]
        OBVIOUS
      <4>2. ClaimedBy(l, t)'
        BY <1>4, <2>2, <3>1, <4>1
      <4> QED
        BY <4>1, <4>2 DEF ClaimedBy
    <3> QED
      BY <2>5, <3>2 DEF ClaimedBy
  <2> QED
    BY <2>3, <2>4, <2>5
<1>7. ASSUME NEW w \in Workers, NEW call \in beat'[w]
      PROVE  ClaimedBy(call.lease, call.now)'
  <2>1. call.lease \in Lease
    BY DEF IInv, TypeOK, Call
  <2>2. \/ call \in beat[w]
        \/ call.now = clock /\ call.lease \in held[w]
    BY InFlight DEF JInv
  <2>3. call.lease.generation <= rows[call.lease.job].fencing_generation
    BY <2>2 DEF JInv, HoldInv
  <2>4. ClaimedBy(call.lease, call.now)
    BY <1>5, <2>1, <2>2 DEF JInv, TimeInv
  <2> QED
    BY <1>4, <2>1, <2>3, <2>4
<1> QED
  BY <1>2, <1>3, <1>6, <1>7 DEF TimeInv

(* Capabilities and recorded times stay as they are in every reachable     *)
(* state of the queue.                                                     *)
THEOREM TimesInvariance == Spec => []JInv
<1>1. Init => HoldInv /\ TimeInv
  BY DEF Init, HoldInv, TimeInv, TimedRow, WonRow, AbsentRow
<1>2. JInv /\ [Next]_vars /\ IInv' => JInv'
  BY HoldStep, TimeStep DEF JInv
<1> QED
  BY <1>1, <1>2, Invariance, PTL DEF Spec, JInv

(* A capability that was handed out before the latest claim of its job, or *)
(* to another worker, is refused whatever the clock says (_require_valid_  *)
(* lease compares the token, which the generation stands for).             *)
THEOREM OneHolder == Spec => []SingleHolder
<1>1. JInv => SingleHolder
  <2> SUFFICES ASSUME JInv, NEW v \in Workers, NEW w \in Workers, NEW k \in held[v], NEW l \in held[w],
                      k.job = l.job, Usable(k), Usable(l)
               PROVE  v = w /\ k = l
    BY DEF SingleHolder
  <2>1. k = l
    BY DEF Usable, JInv, IInv, TypeOK, Lease
  <2> QED
    BY <2>1 DEF JInv, HoldInv
<1> QED
  BY <1>1, TimesInvariance, PTL

(* Attempts of a job follow one another in recorded time, whatever clock   *)
(* readings claim, fail, renew_lease and the recovery decide with.         *)
THEOREM AttemptsInOrder == Spec => []AttemptsDoNotOverlap
<1>1. JInv => AttemptsDoNotOverlap
  BY DEF JInv, TimeInv, TimedRow, AttemptsDoNotOverlap
<1> QED
  BY <1>1, TimesInvariance, PTL

-----------------------------------------------------------------------------
(* The winner is the last generation of a completed job.                   *)
LEMMA WinnerIsLast ==
  ASSUME NEW r, NEW m, RowInv(r, m), WonRow(r)
  PROVE  WinnerOf(r) = IF r.status = "completed" THEN r.fencing_generation ELSE 0
<1> DEFINE won == {a.generation : a \in {b \in r.attempts : b.disposition = "completed"}}
           g == r.fencing_generation
<1>1. CASE r.status # "completed"
  <2>1. won = {}
    BY <1>1 DEF WonRow
  <2> QED
    BY <1>1, <2>1 DEF WinnerOf
<1>2. CASE r.status = "completed"
  <2>1. g \in 1 .. g
    BY <1>2 DEF RowInv, Accounted, Granted, JobRow
  <2>2. PICK a \in r.attempts : a.generation = g
    BY <2>1 DEF RowInv, Ledger
  <2>3. a.disposition = "completed"
    BY <1>2, <2>2 DEF WonRow
  <2>4. won = {g}
    BY <1>2, <2>2, <2>3 DEF WonRow
  <2>5. Max({g}) = g
    BY <2>1 DEF Max
  <2> QED
    BY <1>2, <2>4, <2>5 DEF WinnerOf
<1> QED
  BY <1>1, <1>2

(* Phase and grants of a row, by its status.                               *)
LEMMA PhaseIsStatus ==
  ASSUME NEW r, NEW m, RowInv(r, m)
  PROVE  /\ PhaseOf(r) = CASE r.status = "absent" -> "absent"
                           [] r.status \in {"pending", "retry_wait"} -> "open"
                           [] r.status = "leased" -> "granted"
                           [] r.status = "completed" -> "done"
                           [] r.status = "dead" -> "dead"
         /\ r.status \in {"absent", "pending", "retry_wait", "leased", "completed", "dead"}
<1>1. r.status \in {"absent", "pending", "retry_wait", "leased", "completed", "dead"}
  BY DEF RowInv, JobRow, Statuses, Queued
<1> QED
  BY <1>1 DEF PhaseOf, Queued

(* What a step of the store may do to a row is a move of the job.          *)
LEMMA RowStepIsMove ==
  ASSUME JInv, JInv', NEW j \in Jobs, RowStep(j)
  PROVE  Fenced!Move(j)
<1> DEFINE r == rows[j]
           q == rows'[j]
           m == MaxAttemptsOf[j]
           W(x) == IF x.status = "completed" THEN x.fencing_generation ELSE 0
<1>1. /\ m \in Nat \ {0} /\ RowInv(r, m) /\ RowInv(q, m) /\ WonRow(r) /\ WonRow(q)
      /\ r \in JobRow /\ q \in JobRow
  BY ColumnAssumption DEF JInv, IInv, RowsOK, TypeOK, TimeInv
<1>2. WinnerOf(r) = W(r) /\ WinnerOf(q) = W(q)
  BY <1>1, WinnerIsLast
<1>3. /\ [i \in Jobs |-> PhaseOf(rows[i])][j] = PhaseOf(r)
      /\ [i \in Jobs |-> PhaseOf(rows[i])]'[j] = PhaseOf(q)
      /\ [i \in Jobs |-> rows[i].fencing_generation][j] = r.fencing_generation
      /\ [i \in Jobs |-> rows[i].fencing_generation]'[j] = q.fencing_generation
      /\ [i \in Jobs |-> WinnerOf(rows[i])][j] = W(r)
      /\ [i \in Jobs |-> WinnerOf(rows[i])]'[j] = W(q)
  BY <1>2
<1>4. CASE q = r
  BY <1>3, <1>4 DEF Fenced!Move, Fenced!Same, Fenced!Keeps
<1>5. CASE r.status = "absent" /\ q.status = "pending" /\ q.fencing_generation = 0
  <2>1. r.fencing_generation = 0
    BY <1>1, <1>5 DEF RowInv, Accounted, Granted
  <2>2. PhaseOf(r) = "absent" /\ PhaseOf(q) = "open" /\ W(r) = 0 /\ W(q) = 0
    BY <1>1, <1>5, PhaseIsStatus
  <2> QED
    BY <1>3, <1>5, <2>1, <2>2 DEF Fenced!Move, Fenced!Admitted, Fenced!Keeps
<1>6. CASE /\ r.status \in Queued \cup {"leased"} /\ q.status = "leased"
           /\ q.fencing_generation = r.fencing_generation + 1
  <2>1. r.fencing_generation < m
    BY <1>1, <1>6 DEF RowInv, Accounted, JobRow
  <2>2. PhaseOf(r) \in {"open", "granted"} /\ PhaseOf(q) = "granted" /\ W(r) = 0 /\ W(q) = 0
    BY <1>1, <1>6, PhaseIsStatus DEF Queued
  <2> QED
    BY <1>3, <1>6, <2>1, <2>2 DEF Fenced!Move, Fenced!Granted
<1>7. CASE /\ r.status = "leased" /\ q.status \in {"pending", "retry_wait", "dead"}
           /\ q.fencing_generation = r.fencing_generation
  <2>1. /\ PhaseOf(r) = "granted" /\ W(r) = 0 /\ W(q) = 0
        /\ PhaseOf(q) = IF q.status = "dead" THEN "dead" ELSE "open"
    BY <1>1, <1>7, PhaseIsStatus
  <2>2. q.status # "dead" => r.fencing_generation < m
    BY <1>1, <1>7 DEF RowInv, Accounted, Granted, Queued, JobRow
  <2> QED
    BY <1>3, <1>7, <2>1, <2>2 DEF Fenced!Move, Fenced!Withdrawn, Fenced!Abandoned, Fenced!Keeps
<1>8. CASE /\ r.status = "leased" /\ q.status = "completed"
           /\ q.fencing_generation = r.fencing_generation
  <2>1. PhaseOf(r) = "granted" /\ PhaseOf(q) = "done" /\ W(q) = r.fencing_generation
    BY <1>1, <1>8, PhaseIsStatus
  <2> QED
    BY <1>3, <1>8, <2>1 DEF Fenced!Move, Fenced!Won
<1>9. CASE /\ r.status = "leased" /\ q.status = "leased"
           /\ q.fencing_generation = r.fencing_generation
  <2>1. PhaseOf(r) = "granted" /\ PhaseOf(q) = "granted" /\ W(r) = 0 /\ W(q) = 0
    BY <1>1, <1>9, PhaseIsStatus
  <2> QED
    BY <1>3, <1>9, <2>1 DEF Fenced!Move, Fenced!Same, Fenced!Keeps
<1>10. \/ q = r
       \/ r.status = "absent" /\ q.status = "pending" /\ q.fencing_generation = 0
       \/ /\ r.status \in Queued \cup {"leased"} /\ q.status = "leased"
          /\ q.fencing_generation = r.fencing_generation + 1
       \/ /\ r.status = "leased" /\ q.fencing_generation = r.fencing_generation
          /\ q.status \in {"pending", "retry_wait", "dead", "completed", "leased"}
  <2>1. ASSUME NEW t, q = InsertedRow(t)
        PROVE  q.status = "pending" /\ q.fencing_generation = 0
    BY <2>1 DEF InsertedRow, AbsentRow
  <2>2. ASSUME NEW t, NEW x \in Swept(r, m, t)
        PROVE  \/ x = r
               \/ /\ r.status = "leased" /\ x.status \in {"pending", "dead"}
                  /\ x.fencing_generation = r.fencing_generation /\ DOMAIN x = DOMAIN r
    BY <1>1, <2>2 DEF Swept, Expired, RecoveredRow, JobRow
  <2>3. ASSUME NEW x, DOMAIN x = DOMAIN r, NEW t, Due(x, t), q = ClaimedRow(x, t)
        PROVE  /\ x.status \in Queued /\ q.status = "leased"
               /\ q.fencing_generation = x.fencing_generation + 1
    BY <1>1, <2>3 DEF Due, ClaimedRow, JobRow
  <2>4. ASSUME q = CompletedRow(r, clock)
        PROVE  q.status = "completed" /\ q.fencing_generation = r.fencing_generation
    BY <1>1, <2>4 DEF CompletedRow, JobRow
  <2>5. ASSUME NEW t, NEW b, NEW d, q = FailedRow(r, m, t, b, d)
        PROVE  q.status \in {"retry_wait", "dead"} /\ q.fencing_generation = r.fencing_generation
    BY <1>1, <2>5 DEF FailedRow, JobRow
  <2>6. ASSUME NEW t, q = [r EXCEPT !.lease_expires_at = t]
        PROVE  q.status = r.status /\ q.fencing_generation = r.fencing_generation
    BY <1>1, <2>6 DEF JobRow
  <2> DEFINE Goal == \/ q = r
                     \/ r.status = "absent" /\ q.status = "pending" /\ q.fencing_generation = 0
                     \/ /\ r.status \in Queued \cup {"leased"} /\ q.status = "leased"
                        /\ q.fencing_generation = r.fencing_generation + 1
                     \/ /\ r.status = "leased" /\ q.fencing_generation = r.fencing_generation
                        /\ q.status \in {"pending", "retry_wait", "dead", "completed", "leased"}
  <2>7. ASSUME NEW t, NEW x \in Swept(r, m, t), q = x \/ (Due(x, t) /\ q = ClaimedRow(x, t))
        PROVE  Goal
    <3> HIDE DEF r, q, m
    <3> QED
      BY <2>2, <2>3, <2>7
  <2>8. (r.status = "absent" /\ \E t \in 0 .. clock : q = InsertedRow(t)) => Goal
    BY <2>1
  <2>9. (r.status = "leased" /\ q = CompletedRow(r, clock)) => Goal
    BY <2>4
  <2>10. (r.status = "leased" /\ \E t, b, d : q = FailedRow(r, m, t, b, d)) => Goal
    BY <2>5
  <2>11. (r.status = "leased" /\ \E t : q = [r EXCEPT !.lease_expires_at = t]) => Goal
    BY <2>6
  <2>12. q = r => Goal
    OBVIOUS
  <2>13. \/ q = r
         \/ r.status = "absent" /\ \E t \in 0 .. clock : q = InsertedRow(t)
         \/ \E t : \E x \in Swept(r, m, t) : q = x \/ (Due(x, t) /\ q = ClaimedRow(x, t))
         \/ r.status = "leased" /\ q = CompletedRow(r, clock)
         \/ r.status = "leased" /\ \E t, b, d : q = FailedRow(r, m, t, b, d)
         \/ r.status = "leased" /\ \E t : q = [r EXCEPT !.lease_expires_at = t]
    BY DEF RowStep
  <2> HIDE DEF Goal, r, q, m
  <2>14. Goal
    BY <2>7, <2>8, <2>9, <2>10, <2>11, <2>12, <2>13
  <2> QED
    BY <2>14 DEF Goal
<1> HIDE DEF r, q, m, W
<1> QED
  BY <1>4, <1>5, <1>6, <1>7, <1>8, <1>9, <1>10

(* The store, with its clock, its stale readings and its crashes, does of  *)
(* a job what FencedWork allows: it is granted a bounded number of times,  *)
(* and one grant at most, the last, completes it (class docstring of       *)
(* DerivedWorkStore).                                                      *)
THEOREM Refinement == Spec => ImplementsFencedWork
<1>1. Init => Fenced!Init
  <2>1. WinnerOf(AbsentRow) = 0
    BY DEF WinnerOf, AbsentRow
  <2>2. PhaseOf(AbsentRow) = "absent" /\ AbsentRow.fencing_generation = 0
    BY DEF PhaseOf, AbsentRow, Queued
  <2> QED
    BY <2>1, <2>2 DEF Init, Fenced!Init
<1>2. JInv /\ JInv' /\ [Next]_vars => [Fenced!Next]_Fenced!work
  <2> SUFFICES ASSUME JInv, JInv', [Next]_vars PROVE Fenced!Next
    OBVIOUS
  <2>1. \A j \in Jobs : Fenced!Move(j)
    BY NextRowStep, RowStepIsMove DEF JInv, IInv
  <2>2. \A j \in Jobs : PhaseOf(rows'[j]) \in {"absent", "open", "granted", "done", "dead"}
    <3> TAKE j \in Jobs
    <3>1. RowInv(rows'[j], MaxAttemptsOf[j])
      BY DEF JInv, IInv, RowsOK
    <3> QED
      BY <3>1, PhaseIsStatus
  <2> QED
    BY <2>1, <2>2 DEF Fenced!Next
<1> QED
  BY <1>1, <1>2, TimesInvariance, PTL DEF Spec, ImplementsFencedWork, Fenced!Spec

-----------------------------------------------------------------------------
(***************************************************************************)
(* The accelerator's budgets.  Only enqueue_accelerator adds a job to the  *)
(* backlog, and only claim_next_accelerator leases one.                    *)
(***************************************************************************)
Backlog == Queued \cup {"leased"}

BudgetInv == IsFiniteSet(AcceleratorIn(Statuses)) /\ AcceleratorWithinBudget

(* What a row step does to the columns the budgets count by.               *)
LEMMA CountedColumns ==
  ASSUME IInv, NEW j \in Jobs, RowStep(j)
  PROVE  /\ rows[j].status # "absent" => /\ rows'[j].status # "absent"
                                         /\ rows'[j].created_at = rows[j].created_at
         /\ rows'[j].status \in Backlog => rows[j].status \in Backlog \cup {"absent"}
<1> DEFINE r == rows[j]
           q == rows'[j]
           m == MaxAttemptsOf[j]
           Ok(x) == /\ r.status # "absent" => x.status # "absent" /\ x.created_at = r.created_at
                    /\ x.status \in Backlog => r.status \in Backlog \cup {"absent"}
<1>1. r \in JobRow
  BY DEF IInv, TypeOK
<1>2. Ok(r)
  OBVIOUS
<1>3. ASSUME NEW t, r.status = "absent"
      PROVE  Ok(InsertedRow(t))
  BY <1>3
<1>4. ASSUME NEW t, NEW x \in Swept(r, m, t)
      PROVE  /\ Ok(x) /\ DOMAIN x = DOMAIN r
             /\ x # r => r.status = "leased" /\ x.status \in {"pending", "dead"}
  BY <1>1, <1>4 DEF Swept, Expired, RecoveredRow, JobRow, Backlog, Queued
<1>5. ASSUME NEW t, NEW x \in Swept(r, m, t), Due(x, t)
      PROVE  Ok(ClaimedRow(x, t))
  <2>1. /\ ClaimedRow(x, t).status = "leased"
        /\ ClaimedRow(x, t).created_at = x.created_at
    BY <1>1, <1>4, <1>5 DEF ClaimedRow, JobRow
  <2>2. r.status \in Backlog
    BY <1>4, <1>5 DEF Due, Backlog, Queued
  <2>3. x.created_at = r.created_at
    BY <1>4, <2>2 DEF Backlog, Queued
  <2> QED
    BY <2>1, <2>2, <2>3
<1>6. r.status = "leased" => Ok(CompletedRow(r, clock))
  BY <1>1 DEF CompletedRow, JobRow, Backlog
<1>7. ASSUME NEW t, NEW b, NEW d, r.status = "leased"
      PROVE  Ok(FailedRow(r, m, t, b, d))
  BY <1>1, <1>7 DEF FailedRow, JobRow, Backlog
<1>8. ASSUME NEW t, r.status = "leased"
      PROVE  Ok([r EXCEPT !.lease_expires_at = t])
  BY <1>1, <1>8 DEF JobRow, Backlog
<1>9. \/ q = r
      \/ r.status = "absent" /\ \E t : q = InsertedRow(t)
      \/ \E t : \E x \in Swept(r, m, t) : q = x \/ (Due(x, t) /\ q = ClaimedRow(x, t))
      \/ r.status = "leased" /\ q = CompletedRow(r, clock)
      \/ r.status = "leased" /\ \E t, b, d : q = FailedRow(r, m, t, b, d)
      \/ r.status = "leased" /\ \E t : q = [r EXCEPT !.lease_expires_at = t]
  BY DEF RowStep
<1>10. Ok(q)
  <2> HIDE DEF Ok, r, q, m
  <2> QED
    BY <1>2, <1>3, <1>4, <1>5, <1>6, <1>7, <1>8, <1>9
<1> QED
  BY <1>10

(* A claim of foreground jobs leases no background job.                    *)
LEMMA GrantToForeground ==
  ASSUME IInv, NEW w \in Workers, NEW p, NEW S, Grant(w, Recovered(p, sample[w]), S),
         NEW j \in Jobs, j \notin S
  PROVE  /\ rows'[j].status = "leased" => rows[j].status = "leased"
         /\ rows[j].status = "absent" => rows'[j].status = "absent"
         /\ admitted' = admitted
<1>1. rows'[j] = Recovered(p, sample[w])[j] /\ admitted' = admitted
  BY DEF Grant
<1>2. rows'[j] \in Swept(rows[j], MaxAttemptsOf[j], sample[w])
  BY <1>1, RecoveredRows
<1>3. rows[j] \in JobRow
  BY DEF IInv, TypeOK
<1> QED
  BY <1>1, <1>2, <1>3 DEF Swept, Expired, RecoveredRow, JobRow

(* Every step but the two of the accelerator admits no background job and  *)
(* leases none.                                                            *)
Quiet ==
  /\ admitted' = admitted
  /\ \A j \in Jobs : KindOf[j] = AcceleratorKind =>
       /\ rows'[j].status = "leased" => rows[j].status = "leased"
       /\ rows[j].status = "absent" => rows'[j].status = "absent"

LEMMA QuietSteps ==
  ASSUME IInv, [Next]_vars
  PROVE  \/ Quiet
         \/ \E w \in Workers, j \in Jobs : EnqueueAccelerator(w, j)
         \/ \E w \in Workers, p \in Projects : ClaimNextAccelerator(w, p)
<1>1. ASSUME NEW w \in Workers, NEW p, NEW S, Grant(w, Recovered(p, sample[w]), S),
             \A j \in S : KindOf[j] # AcceleratorKind
      PROVE  Quiet
  <2>1. admitted' = admitted
    BY <1>1 DEF Grant
  <2>2. \A j \in Jobs : KindOf[j] = AcceleratorKind =>
          /\ rows'[j].status = "leased" => rows[j].status = "leased"
          /\ rows[j].status = "absent" => rows'[j].status = "absent"
    BY <1>1, GrantToForeground
  <2> QED
    BY <2>1, <2>2 DEF Quiet
<1>2. ASSUME NEW w \in Workers, NEW j \in Jobs, Claim(w, j)
      PROVE  Quiet
  <2>1. \A i \in {j} : KindOf[i] # AcceleratorKind
    BY <1>2 DEF Claim
  <2> QED
    BY <1>1, <1>2, <2>1 DEF Claim
<1>3. ASSUME NEW w \in Workers, NEW p \in Projects, NEW k \in ForegroundKinds, ClaimNext(w, p, k)
      PROVE  Quiet
  <2>1. k # AcceleratorKind
    BY DEF ForegroundKinds
  <2>2. \E S : Grant(w, Recovered(p, sample[w]), S) /\ \A j \in S : KindOf[j] = k
    BY <1>3 DEF ClaimNext
  <2> QED
    BY <1>1, <2>1, <2>2
<1>4. ASSUME NEW w \in Workers, NEW k \in ForegroundKinds, ClaimBatch(w, k)
      PROVE  Quiet
  <2> DEFINE R == Recovered(AnyProject, sample[w])
             due == {j \in Jobs : KindOf[j] = k /\ Due(R[j], sample[w])}
             groups == {{i \in due : Partition(i) = Partition(j)} : j \in due}
  <2>1. k # AcceleratorKind
    BY DEF ForegroundKinds
  <2>2. \E S : Grant(w, R, S) /\ (S = {} \/ \E P \in groups : S \in SUBSET P)
    BY <1>4 DEF ClaimBatch
  <2>3. \A P \in groups : P \subseteq due
    OBVIOUS
  <2>4. PICK S : Grant(w, R, S) /\ S \subseteq due
    <3> HIDE DEF groups, due, R
    <3> QED
      BY <2>2, <2>3
  <2> QED
    BY <1>1, <2>1, <2>4
<1>5. ASSUME NEW w \in Workers, NEW p, RecoverExpired(w, p)
      PROVE  Quiet
  BY <1>1, <1>5 DEF RecoverExpired
<1>6. ASSUME NEW j \in Jobs,
             EnqueueInTransaction(j) \/ \E w \in Workers : Enqueue(w, j)
      PROVE  Quiet
  <2>1. PICK q : rows' = [rows EXCEPT ![j] = q]
    BY <1>6 DEF EnqueueInTransaction, Enqueue
  <2>2. KindOf[j] # AcceleratorKind /\ admitted' = admitted
    BY <1>6 DEF EnqueueInTransaction, Enqueue, Insertable
  <2> QED
    BY <2>1, <2>2 DEF Quiet, IInv, TypeOK
<1>7. ASSUME NEW w \in Workers, Settling(w) \/ Heartbeat(w)
      PROVE  Quiet
  <2>1. admitted' = admitted
    BY <1>7 DEF Settling, Complete, Fail, GiveUp, Heartbeat, SampleBeat, Renew, ReturnBeat
  <2>2. ASSUME NEW L, Complete(w, L), L \subseteq held[w]
        PROVE  Quiet
    <3>1. \A j \in Jobs : (\E l \in L : l.job = j) => rows[j].status = "leased"
      BY <2>2 DEF Complete, ValidLease
    <3>2. \A j \in Jobs : ~(\E l \in L : l.job = j) => rows'[j] = rows[j]
      BY <2>2 DEF Complete
    <3> QED
      BY <2>1, <3>1, <3>2 DEF Quiet
  <2>3. ASSUME NEW l \in Lease, NEW q, rows[l.job].status = "leased", rows' = [rows EXCEPT ![l.job] = q]
        PROVE  Quiet
    BY <2>1, <2>3 DEF Quiet, IInv, TypeOK
  <2>4. ASSUME NEW l \in held[w], NEW b, NEW d, Fail(w, l, b, d)
        PROVE  Quiet
    <3>1. l \in Lease
      BY DEF IInv, TypeOK
    <3>2. rows[l.job].status = "leased" /\ \E q : rows' = [rows EXCEPT ![l.job] = q]
      BY <2>4 DEF Fail, ValidLease
    <3> QED
      BY <2>3, <3>1, <3>2
  <2>5. ASSUME NEW call \in beat[w], Renew(w, call)
        PROVE  Quiet
    <3>1. call.lease \in Lease
      BY DEF IInv, TypeOK, Call
    <3>2. rows[call.lease.job].status = "leased" /\ call.lease.job \in Jobs
      BY <2>5, <3>1 DEF Renew, ValidLease, Lease
    <3>3. \A j \in Jobs : j # call.lease.job => rows'[j] = rows[j]
      BY <2>5 DEF Renew, IInv, TypeOK
    <3> QED
      BY <2>1, <3>2, <3>3 DEF Quiet
  <2>6. rows' = rows => Quiet
    BY <2>1 DEF Quiet
  <2> QED
    BY <1>7, <2>2, <2>4, <2>5, <2>6 DEF Settling, GiveUp, Heartbeat, SampleBeat, ReturnBeat
<1>8. ASSUME \/ UNCHANGED vars \/ Tick
             \/ \E w \in Workers : Sample(w) \/ Return(w) \/ Crash(w)
      PROVE  Quiet
  BY <1>8 DEF vars, Tick, Sample, Return, Crash, Quiet
<1> QED
  BY <1>2, <1>3, <1>4, <1>5, <1>6, <1>7, <1>8 DEF Next, Admission, Claiming

DayJobs(day) == {j \in AcceleratorIn(Statuses) : rows[j].created_at \div DayLength = day}

(* The sets the budgets are about, each within the whole of the background *)
(* jobs in the store, and so finite.                                       *)
LEMMA CountedSets ==
  ASSUME IsFiniteSet(AcceleratorIn(Statuses))
  PROVE  /\ \A S \in {Queued, {"leased"}, Queued \cup {"leased"}} :
              /\ AcceleratorIn(S) \subseteq AcceleratorIn(Statuses)
              /\ IsFiniteSet(AcceleratorIn(S)) /\ Cardinality(AcceleratorIn(S)) \in Nat
         /\ \A day : IsFiniteSet(DayJobs(day)) /\ Cardinality(DayJobs(day)) \in Nat
         /\ Cardinality(AcceleratorIn(Queued \cup {"leased"}))
              <= Cardinality(AcceleratorIn(Queued)) + Cardinality(AcceleratorIn({"leased"}))
<1>1. ASSUME NEW S \in {Queued, {"leased"}, Queued \cup {"leased"}}
      PROVE  /\ AcceleratorIn(S) \subseteq AcceleratorIn(Statuses)
             /\ IsFiniteSet(AcceleratorIn(S)) /\ Cardinality(AcceleratorIn(S)) \in Nat
  <2>1. S \subseteq Statuses
    BY DEF Statuses
  <2>2. AcceleratorIn(S) \subseteq AcceleratorIn(Statuses)
    BY <2>1 DEF AcceleratorIn
  <2>3. IsFiniteSet(AcceleratorIn(S))
    BY <2>2, FS_Subset
  <2> QED
    BY <2>2, <2>3, FS_CardinalityType
<1>2. ASSUME NEW day
      PROVE  IsFiniteSet(DayJobs(day)) /\ Cardinality(DayJobs(day)) \in Nat
  <2>1. DayJobs(day) \subseteq AcceleratorIn(Statuses)
    BY DEF DayJobs
  <2>2. IsFiniteSet(DayJobs(day))
    BY <2>1, FS_Subset
  <2> QED
    BY <2>2, FS_CardinalityType
<1>3. Cardinality(AcceleratorIn(Queued \cup {"leased"}))
        <= Cardinality(AcceleratorIn(Queued)) + Cardinality(AcceleratorIn({"leased"}))
  <2> DEFINE Q == AcceleratorIn(Queued)
             L == AcceleratorIn({"leased"})
  <2>1. AcceleratorIn(Queued \cup {"leased"}) = Q \cup L
    BY DEF AcceleratorIn
  <2>2. IsFiniteSet(Q) /\ IsFiniteSet(L) /\ Cardinality(Q) \in Nat /\ Cardinality(L) \in Nat
    BY <1>1
  <2> HIDE DEF Q, L
  <2>3. IsFiniteSet(Q \cap L)
    BY <2>2, FS_Subset
  <2>4. Cardinality(Q \cap L) \in Nat
    BY <2>3, FS_CardinalityType
  <2>5. Cardinality(Q \cup L) = Cardinality(Q) + Cardinality(L) - Cardinality(Q \cap L)
    BY <2>2, FS_Union
  <2>6. Cardinality(Q \cup L) <= Cardinality(Q) + Cardinality(L)
    BY <2>2, <2>4, <2>5
  <2> QED
    BY <2>1, <2>6 DEF Q, L
<1> QED
  BY <1>1, <1>2, <1>3

(* The budget by day, with the jobs of a day named.                        *)
LEMMA BudgetByDay ==
  AcceleratorWithinBudget <=>
    /\ Cardinality(AcceleratorIn({"leased"})) <= MaxConcurrency
    /\ Cardinality(AcceleratorIn(Queued \cup {"leased"})) <= MaxQueueDepth + MaxConcurrency
    /\ \A day \in DOMAIN admitted :
         admitted[day] <= MaxDailyTasks /\ admitted[day] = Cardinality(DayJobs(day))
BY DEF AcceleratorWithinBudget, DayJobs

(* Where no background job is admitted, no day's count changes and the     *)
(* backlog only shrinks.                                                   *)
LEMMA NoAdmission ==
  ASSUME IInv, [Next]_vars, BudgetInv, admitted' = admitted,
         \A j \in Jobs : KindOf[j] = AcceleratorKind =>
            (rows[j].status = "absent" => rows'[j].status = "absent"),
         Cardinality(AcceleratorIn({"leased"})') <= MaxConcurrency
  PROVE  BudgetInv'
<1>1. \A j \in Jobs : /\ rows[j].status \in Statuses \cup {"absent"}
                      /\ rows'[j].status # "absent" => rows'[j].status \in Statuses
  <2>1. \A j \in Jobs : RowInv(rows'[j], MaxAttemptsOf[j])
    BY NextRowStep, RowStepInv DEF IInv
  <2> QED
    BY <2>1 DEF RowInv, IInv, TypeOK, JobRow
<1>2. \A j \in Jobs :
        /\ rows[j].status # "absent" => rows'[j].status # "absent" /\ rows'[j].created_at = rows[j].created_at
        /\ rows'[j].status \in Backlog => rows[j].status \in Backlog \cup {"absent"}
  BY NextRowStep, CountedColumns DEF IInv
<1>3. "absent" \notin Statuses
  BY DEF Statuses, Queued
<1>4. AcceleratorIn(Statuses)' = AcceleratorIn(Statuses)
  BY <1>1, <1>2, <1>3 DEF AcceleratorIn
<1>5. \A day : DayJobs(day)' = DayJobs(day)
  <2> TAKE day
  <2>1. \A j \in AcceleratorIn(Statuses) : rows'[j].created_at = rows[j].created_at
    BY <1>2, <1>3 DEF AcceleratorIn
  <2> QED
    BY <1>4, <2>1 DEF DayJobs
<1>6. AcceleratorIn(Queued \cup {"leased"})' \subseteq AcceleratorIn(Queued \cup {"leased"})
  BY <1>2 DEF AcceleratorIn, Backlog, Queued
<1>7. Cardinality(AcceleratorIn(Queued \cup {"leased"})') <= Cardinality(AcceleratorIn(Queued \cup {"leased"}))
  <2>1. IsFiniteSet(AcceleratorIn(Queued \cup {"leased"}))
    BY CountedSets DEF BudgetInv
  <2> QED
    BY <1>6, <2>1, FS_Subset
<1>8. /\ Cardinality(AcceleratorIn(Queued \cup {"leased"})) \in Nat
      /\ Cardinality(AcceleratorIn(Queued \cup {"leased"})') \in Nat
  <2>1. IsFiniteSet(AcceleratorIn(Queued \cup {"leased"}))
    BY CountedSets DEF BudgetInv
  <2>2. IsFiniteSet(AcceleratorIn(Queued \cup {"leased"})')
    BY <1>6, <2>1, FS_Subset
  <2> QED
    BY <2>1, <2>2, FS_CardinalityType
<1>9. Cardinality(AcceleratorIn(Queued \cup {"leased"})') <= MaxQueueDepth + MaxConcurrency
  BY <1>7, <1>8, BudgetAssumption, BudgetByDay DEF BudgetInv
<1>10. \A day \in DOMAIN admitted' :
         admitted'[day] <= MaxDailyTasks /\ admitted'[day] = Cardinality(DayJobs(day)')
  BY <1>5, BudgetByDay DEF BudgetInv
<1>11. AcceleratorWithinBudget'
  BY <1>9, <1>10 DEF AcceleratorWithinBudget, DayJobs
<1> QED
  BY <1>4, <1>11 DEF BudgetInv

LEMMA QuietBudget ==
  ASSUME IInv, [Next]_vars, BudgetInv, Quiet
  PROVE  BudgetInv'
<1> DEFINE L == AcceleratorIn({"leased"})
<1>1. L' \subseteq L
  BY DEF Quiet, AcceleratorIn
<1>2. IsFiniteSet(L) /\ Cardinality(L) \in Nat /\ Cardinality(L) <= MaxConcurrency
  BY CountedSets DEF BudgetInv, AcceleratorWithinBudget
<1>3. IsFiniteSet(L') /\ Cardinality(L') <= Cardinality(L)
  BY <1>1, <1>2, FS_Subset
<1>4. Cardinality(L') \in Nat
  BY <1>3, FS_CardinalityType
<1>5. Cardinality(L') <= MaxConcurrency
  BY <1>2, <1>3, <1>4, BudgetAssumption
<1> QED
  BY <1>5, NoAdmission DEF Quiet

(* claim_next_accelerator grants a lease only when those that are left     *)
(* after the recovery of its own transaction are under the limit.          *)
LEMMA AcceleratorClaimBudget ==
  ASSUME IInv, [Next]_vars, BudgetInv, NEW w \in Workers, NEW p \in Projects, ClaimNextAccelerator(w, p)
  PROVE  BudgetInv'
<1> DEFINE R == Recovered(AnyProject, sample[w])
           active == {j \in Jobs : KindOf[j] = AcceleratorKind /\ R[j].status = "leased"}
           L == AcceleratorIn({"leased"})
<1>1. CASE Grant(w, R, {})
  <2>1. Quiet
    <3>1. admitted' = admitted
      BY <1>1 DEF Grant
    <3>2. ASSUME NEW j \in Jobs
          PROVE  /\ rows'[j].status = "leased" => rows[j].status = "leased"
                 /\ rows[j].status = "absent" => rows'[j].status = "absent"
      <4>1. j \notin {}
        OBVIOUS
      <4> HIDE DEF R
      <4> QED
        BY <1>1, <4>1, GrantToForeground DEF R
    <3> QED
      BY <3>1, <3>2 DEF Quiet
  <2> QED
    BY <2>1, QuietBudget
<1>2. ASSUME NEW j \in Jobs, Due(R[j], sample[w]), ~(Cardinality(active) >= MaxConcurrency),
             Grant(w, R, {j})
      PROVE  BudgetInv'
  <2>1. \A i \in Jobs : /\ R[i] \in Swept(rows[i], MaxAttemptsOf[i], sample[w])
                        /\ rows[i] \in JobRow
    BY RecoveredRows DEF IInv, TypeOK
  <2>2. \A i \in Jobs : /\ R[i].status = "leased" => rows[i].status = "leased"
                        /\ R[i].status \in Queued => rows[i].status # "absent"
    BY <2>1 DEF Swept, Expired, RecoveredRow, JobRow, Queued
  <2>3. active \subseteq L
    BY <2>2 DEF AcceleratorIn
  <2>4. IsFiniteSet(L)
    BY CountedSets DEF BudgetInv
  <2>5. IsFiniteSet(active) /\ Cardinality(active) \in Nat
    <3>1. IsFiniteSet(active)
      BY <2>3, <2>4, FS_Subset
    <3> QED
      BY <3>1, FS_CardinalityType
  <2>6. L' \subseteq active \cup {j}
    <3>1. \A i \in Jobs : i # j => rows'[i] = R[i]
      BY <1>2 DEF Grant
    <3> QED
      BY <3>1 DEF AcceleratorIn
  <2>7. /\ IsFiniteSet(active \cup {j})
        /\ Cardinality(active \cup {j}) <= Cardinality(active) + 1
    <3> HIDE DEF active
    <3>1. /\ IsFiniteSet(active \cup {j})
          /\ Cardinality(active \cup {j}) = IF j \in active THEN Cardinality(active)
                                            ELSE Cardinality(active) + 1
      BY <2>5, FS_AddElement
    <3> QED
      BY <2>5, <3>1
  <2>8. /\ IsFiniteSet(L') /\ Cardinality(L') <= Cardinality(active \cup {j})
        /\ Cardinality(active \cup {j}) \in Nat
    BY <2>6, <2>7, FS_Subset, FS_CardinalityType
  <2>9. Cardinality(L') \in Nat
    BY <2>8, FS_CardinalityType
  <2>10. Cardinality(L') <= MaxConcurrency
    <3> HIDE DEF active, L
    <3> QED
      BY <1>2, <2>5, <2>7, <2>8, <2>9, BudgetAssumption
  <2>11. \A i \in Jobs : rows[i].status = "absent" => rows'[i].status = "absent"
    <3>1. rows[j].status # "absent"
      BY <1>2, <2>2 DEF Due
    <3>2. \A i \in Jobs : i # j => i \notin {j}
      OBVIOUS
    <3> QED
      BY <1>2, <3>1, <3>2, GrantToForeground
  <2>12. admitted' = admitted
    BY <1>2 DEF Grant
  <2> QED
    BY <2>10, <2>11, <2>12, NoAdmission
<1> QED
  BY <1>1, <1>2, Zenon DEF ClaimNextAccelerator

(* enqueue_accelerator admits one job, under the depth of the queue and    *)
(* under the limit of the day of its clock reading.                        *)
LEMMA AcceleratorEnqueueBudget ==
  ASSUME IInv, BudgetInv, NEW w \in Workers, NEW j \in Jobs, EnqueueAccelerator(w, j)
  PROVE  BudgetInv'
<1>0. PICK day : day = sample[w] \div DayLength
  OBVIOUS
<1> DEFINE new == InsertedRow(sample[w])
           Q == AcceleratorIn(Queued)
           L == AcceleratorIn({"leased"})
           B == AcceleratorIn(Queued \cup {"leased"})
           All == AcceleratorIn(Statuses)
<1>1. /\ KindOf[j] = AcceleratorKind /\ rows[j].status = "absent"
      /\ Cardinality(Q) < MaxQueueDepth
      /\ admitted[day] < MaxDailyTasks
      /\ rows' = [rows EXCEPT ![j] = new]
      /\ admitted' = [admitted EXCEPT ![day] = admitted[day] + 1]
  BY <1>0 DEF EnqueueAccelerator, DayHasRoom
<1>2. new.status = "pending" /\ new.created_at = sample[w]
  BY DEF InsertedRow, AbsentRow
<1>3. rows'[j] = new /\ \A i \in Jobs \ {j} : rows'[i] = rows[i]
  BY <1>1 DEF IInv, TypeOK
<1> HIDE DEF new
<1>4. L' = L /\ B' = B \cup {j} /\ All' = All \cup {j} /\ j \notin B /\ j \notin All
  BY <1>1, <1>2, <1>3 DEF AcceleratorIn, Queued, Statuses
<1>5. /\ \A d : d # day => DayJobs(d)' = DayJobs(d)
      /\ DayJobs(day)' = DayJobs(day) \cup {j} /\ j \notin DayJobs(day)
  <2>1. \A d : DayJobs(d)' = {i \in All' : rows'[i].created_at \div DayLength = d}
    BY DEF DayJobs
  <2>2. \A d : DayJobs(d) = {i \in All : rows[i].created_at \div DayLength = d}
    BY DEF DayJobs
  <2>3. All \subseteq Jobs \ {j}
    BY <1>4 DEF AcceleratorIn
  <2>4. rows'[j].created_at \div DayLength = day
    BY <1>0, <1>2, <1>3
  <2> HIDE DEF All
  <2> QED
    BY <1>3, <1>4, <2>1, <2>2, <2>3, <2>4, SMTT(30)
<1>6. /\ IsFiniteSet(All) /\ IsFiniteSet(B) /\ Cardinality(B) \in Nat
      /\ Cardinality(Q) \in Nat /\ Cardinality(L) \in Nat
      /\ Cardinality(B) <= Cardinality(Q) + Cardinality(L)
      /\ \A d : IsFiniteSet(DayJobs(d)) /\ Cardinality(DayJobs(d)) \in Nat
  BY CountedSets DEF BudgetInv
<1>7. /\ Cardinality(L) <= MaxConcurrency
      /\ \A d \in DOMAIN admitted : admitted[d] <= MaxDailyTasks /\ admitted[d] = Cardinality(DayJobs(d))
      /\ \A d \in DOMAIN admitted : admitted[d] \in Nat
  BY BudgetByDay DEF BudgetInv, IInv, TypeOK
<1> HIDE DEF Q, L, B, All
<1>8. IsFiniteSet(All')
  BY <1>4, <1>6, FS_AddElement
<1>9. Cardinality(B') = Cardinality(B) + 1
  BY <1>4, <1>6, FS_AddElement
<1>10. Cardinality(DayJobs(day)') = Cardinality(DayJobs(day)) + 1
  BY <1>5, <1>6, FS_AddElement
<1>11. \A d \in DOMAIN admitted' :
         admitted'[d] <= MaxDailyTasks /\ admitted'[d] = Cardinality(DayJobs(d)')
  <2> SUFFICES ASSUME NEW d \in DOMAIN admitted
               PROVE  admitted'[d] <= MaxDailyTasks /\ admitted'[d] = Cardinality(DayJobs(d)')
    BY <1>1
  <2>1. CASE d = day
    <3>1. admitted'[d] = admitted[d] + 1
      BY <1>1, <2>1
    <3>2. admitted[d] \in Nat /\ admitted[d] = Cardinality(DayJobs(d))
      BY <1>7
    <3>3. Cardinality(DayJobs(d)') = Cardinality(DayJobs(d)) + 1
      BY <1>10, <2>1
    <3>4. admitted[d] < MaxDailyTasks
      BY <1>1, <2>1
    <3> QED
      BY <3>1, <3>2, <3>3, <3>4, BudgetAssumption
  <2>2. CASE d # day
    BY <1>1, <1>5, <1>7, <2>2
  <2> QED
    BY <2>1, <2>2
<1>12. Cardinality(B') <= MaxQueueDepth + MaxConcurrency
  BY <1>1, <1>6, <1>7, <1>9, BudgetAssumption
<1>13. Cardinality(L') <= MaxConcurrency
  BY <1>4, <1>7
<1>14. AcceleratorWithinBudget'
  BY <1>11, <1>12, <1>13 DEF AcceleratorWithinBudget, DayJobs, B, L
<1> QED
  BY <1>8, <1>14 DEF BudgetInv, All

(* Background work stays under its concurrency limit, its daily limit and  *)
(* the depth of its queue plus what recovery may put back.                 *)
THEOREM BudgetsHold == Spec => []AcceleratorWithinBudget
<1>1. Init => BudgetInv
  <2> SUFFICES ASSUME Init PROVE BudgetInv
    OBVIOUS
  <2>1. \A S : "absent" \notin S => AcceleratorIn(S) = {}
    BY DEF Init, AcceleratorIn, AbsentRow
  <2>2. "absent" \notin Statuses /\ "absent" \notin Queued \cup {"leased"} /\ "absent" \notin {"leased"}
    BY DEF Statuses, Queued
  <2>3. \A day : DayJobs(day) = {}
    BY <2>1, <2>2 DEF DayJobs
  <2>4. \A day \in DOMAIN admitted : admitted[day] = 0
    BY DEF Init
  <2> QED
    BY <2>1, <2>2, <2>3, <2>4, FS_EmptySet, BudgetAssumption, BudgetByDay DEF BudgetInv
<1>2. IInv /\ BudgetInv /\ [Next]_vars => BudgetInv'
  BY QuietSteps, QuietBudget, AcceleratorClaimBudget, AcceleratorEnqueueBudget
<1>3. BudgetInv => AcceleratorWithinBudget
  BY DEF BudgetInv
<1> QED
  BY <1>1, <1>2, <1>3, Invariance, PTL DEF Spec
=============================================================================

-------------------------- MODULE MemoryProposals --------------------------
(***************************************************************************)
(* Memory proposals and their promotion (core/memory_proposals.py,         *)
(* core/proposal_promotion.py, core/proposal_promotion_jobs.py).           *)
(*                                                                         *)
(* A proposal is a candidate memory extracted from what a user said.  It   *)
(* gathers signals; when they pass the gates, a durable job has a worker   *)
(* collect vector evidence, judge it and promote it, while a reviewer may  *)
(* adopt or reject it and the daemon expires it.  Promotion writes memory, *)
(* proposal and index job in one transaction of a connection that all      *)
(* threads of a process share.  The worker takes the engine's write lock   *)
(* for it, and so does the server's recorder of signals, the threads of    *)
(* passive memory, for transactions of its own; the reviewer does not.     *)
(*                                                                         *)
(* Scores are reduced to whether the gates pass; their projection is       *)
(* rewritten with every signal and is what it is computed from.  The queue *)
(* of jobs is DerivedWork, here with one row for a proposal and a revision *)
(* of its score; the holder's name stands for the fence.                   *)
(***************************************************************************)
EXTENDS Naturals, FiniteSets

CONSTANTS Proposals, Workers,
          WorkerInServer,  \* whether the workers are threads of the server
          MaxSignals,      \* bound on the signals of one proposal
          MaxAttempts,     \* of a job (PP_PROPOSAL_PROMOTION_MAX_ATTEMPTS)
          MaxCalls,        \* bound on the recorder's calls
          MaxFaults        \* bound on crashes

ASSUME ProposalsAssumption ==
    /\ WorkerInServer \in BOOLEAN /\ Workers \cap {"reviewer", "recorder", "server"} = {}
    /\ MaxSignals \in Nat /\ MaxAttempts \in Nat \ {0}
    /\ MaxCalls \in Nat /\ MaxFaults \in Nat

Reviewer == "reviewer"
Recorder == "recorder"

VARIABLES db,       \* the tables, uncommitted changes included
          txn,      \* process -> what its open transaction would roll back to
          jobs,     \* proposal -> revision of its score -> job
          task,     \* what the reviewer, the recorder and each worker are doing
          due,      \* the proposals past expires_at
          calls, faults

tables == <<db, txn>>
vars == <<tables, jobs, task, due, calls, faults>>

Revisions == 0..MaxSignals
Threads == Workers \cup {Reviewer, Recorder}

\* A worker outside the server is the only thread of its process.
Processes == {"server"} \cup Workers
Home(x) == IF x \in Workers /\ ~WorkerInServer THEN x ELSE "server"

\* Who owns a memory and approved a proposal: all workers act as one.
Nobody == "nobody"
Promoter == "promoter"
Actor(x) == IF x \in Workers THEN Promoter ELSE Reviewer

Idle == [phase |-> "idle"]
Closed == [state |-> "closed"]
NoJob == [status |-> "none", holder |-> Reviewer, attempts |-> 0, evaluated |-> 0]
Job(p) == jobs[p][db.signals[p]]

(***************************************************************************)
(* Connections.  One transaction can write at a time; a process sees what  *)
(* others have committed, and what any of its own threads has written.     *)
(***************************************************************************)
InTransaction(c) == txn[c] # Closed
MayWrite(c) == \A d \in Processes \ {c} : ~InTransaction(d)
Unlocked == \A d \in Processes : ~InTransaction(d)
Committed == IF Unlocked THEN db ELSE txn[CHOOSE d \in Processes : InTransaction(d)]
Seen(c) == IF MayWrite(c) THEN db ELSE Committed

Opened(c) == [txn EXCEPT ![c] = IF InTransaction(c) THEN @ ELSE db]

\* Faulty: the memory is committed before the proposal is adopted.
CommittedAtOnce(c) == txn
\* BEGIN IMMEDIATE
Begun(c) == Opened(c)

Committing(c) == txn' = [txn EXCEPT ![c] = Closed] /\ UNCHANGED db
RollingBack(c) == /\ db' = IF InTransaction(c) THEN txn[c] ELSE db
                  /\ txn' = [txn EXCEPT ![c] = Closed]

\* A change in a savepoint: part of the process's transaction when one is open,
\* committed with it or undone with it.
Changing(c, d) == db' = d /\ UNCHANGED txn

With(d, p, status) == [d EXCEPT !.status[p] = status]

\* Faulty: only an adopted proposal is not adopted again.
NotAdopted(d, p) == d.status[p] # "adopted"
Pending(d, p) == d.status[p] = "pending"

Eligible(d, p) == d.status[p] = "pending" /\ d.good[p]

Goes(x, phase) == task' = [task EXCEPT ![x].phase = phase]
Stops(x) == task' = [task EXCEPT ![x] = Idle]
Ends(x) == IF x \in Workers THEN Goes(x, "failing") ELSE Stops(x)

(***************************************************************************)
(* The engine's write lock, held from the judgement of a proposal to the   *)
(* end of its promotion, and while signals are recorded.                   *)
(***************************************************************************)
Judging == {"asked", "preparing", "inserted", "adopted", "indexed"}
HoldsGuard(x) == \/ x \in Workers /\ task[x].phase \in Judging
                 \/ x = Recorder /\ task[x].phase = "recording"
GuardFree(c) == \A x \in Threads : Home(x) = c => ~HoldsGuard(x)

-----------------------------------------------------------------------------
(***************************************************************************)
(* Recording signals.  Under the guard the recorder writes signals and     *)
(* rows of its own, which opens a transaction or joins the one that is     *)
(* open, and then commits or rolls back whatever is open on the connection *)
(* by then.  What does so several times is several calls here.             *)
(***************************************************************************)
Recording ==
    /\ \/ task[Recorder].phase = "recording" /\ UNCHANGED calls
       \/ task[Recorder] = Idle /\ GuardFree("server") /\ calls < MaxCalls /\ calls' = calls + 1
    /\ task' = [task EXCEPT ![Recorder] = [phase |-> "recording"]]
    /\ MayWrite("server") /\ txn' = Opened("server")

\* create_many, by the recorder or on its own: a new row passes no gate.
Create(p) ==
    /\ MayWrite("server") /\ db.status[p] = "absent"
    /\ Changing("server", [With(db, p, "pending") EXCEPT !.good[p] = FALSE])
    /\ UNCHANGED <<jobs, task, due, calls, faults>>

\* observe_candidate, record_signal, record_context_exposure: a pending proposal
\* gets a signal, and passes the gates or not.
Observe(p, good) ==
    /\ Recording
    /\ db.status[p] = "pending" /\ db.signals[p] < MaxSignals
    /\ db' = [db EXCEPT !.signals[p] = @ + 1, !.good[p] = good]
    /\ UNCHANGED <<jobs, due, faults>>

\* The outbox row of a call is claimed, done or failed; a settled proposal gets
\* no signal.
KeepBooks ==
    /\ Recording
    /\ UNCHANGED <<db, jobs, due, faults>>

Finish ==
    /\ task[Recorder].phase = "recording" /\ Stops(Recorder)
    /\ Committing("server") \/ RollingBack("server")
    /\ UNCHANGED <<jobs, due, calls, faults>>

\* After a commit vector evidence is collected for a proposal that was exposed.
Expose(p) ==
    /\ task[Recorder].phase = "recording" /\ db.status[p] # "absent"
    /\ calls < MaxCalls /\ calls' = calls + 1
    /\ Committing("server")
    /\ task' = [task EXCEPT ![Recorder] = [phase |-> "active", proposal |-> p]]
    /\ UNCHANGED <<jobs, due, faults>>

-----------------------------------------------------------------------------
(***************************************************************************)
(* Expiry and review.                                                      *)
(***************************************************************************)

Age(p) ==
    /\ db.status[p] # "absent" /\ p \notin due
    /\ due' = due \cup {p}
    /\ UNCHANGED <<tables, jobs, task, calls, faults>>

\* expire_and_redact, in the daemon and between its other stages
Expire(p) ==
    /\ Unlocked /\ p \in due /\ Pending(db, p)
    /\ db' = With(db, p, "expired") /\ UNCHANGED txn
    /\ UNCHANGED <<jobs, task, due, calls, faults>>

\* feedback_apply "rejected"
Reject(p) ==
    /\ task[Reviewer] = Idle /\ MayWrite("server")
    /\ Pending(db, p)
    /\ Changing("server", With(db, p, IF p \in due THEN "expired" ELSE "rejected"))
    /\ UNCHANGED <<jobs, task, due, calls, faults>>

\* feedback_apply "adopted"
Approve(p) ==
    /\ task[Reviewer] = Idle /\ db.status[p] # "absent"
    /\ task' = [task EXCEPT ![Reviewer] = [phase |-> "asked", proposal |-> p]]
    /\ UNCHANGED <<tables, jobs, due, calls, faults>>

-----------------------------------------------------------------------------
(***************************************************************************)
(* promote_memory_proposal, for the reviewer and for a worker.  A worker   *)
(* that is refused rolls back what is open on its connection.              *)
(***************************************************************************)
Refused(x) == /\ Ends(x)
              /\ IF x = Reviewer THEN UNCHANGED tables ELSE RollingBack(Home(x))

Promoted(x) == IF x \in Workers THEN Goes(x, "judged") ELSE Stops(x)

\* An adopted proposal is answered with an index job, queued again.
Confirm(x) ==
    LET p == task[x].proposal
    IN  /\ MayWrite(Home(x))
        /\ \/ /\ db.memory[p] # Nobody /\ Promoted(x)
              /\ Changing(Home(x), [db EXCEPT !.index = @ \cup {p}])
           \/ db.memory[p] = Nobody /\ Refused(x)

\* The row is read and the clock with it; the content is prepared after that.
Look(x) ==
    LET p == task[x].proposal
        c == Home(x)
        d == Seen(c)
    IN  /\ task[x].phase = "asked"
        /\ \/ InTransaction(c) /\ Refused(x)
           \/ ~InTransaction(c) /\ d.status[p] = "adopted" /\ Confirm(x)
           \/ ~InTransaction(c) /\ d.status[p] \in {"rejected", "expired"} /\ Refused(x)
           \/ /\ ~InTransaction(c) /\ Pending(d, p) /\ p \in due /\ MayWrite(c)
              /\ Ends(x) /\ Changing(c, With(d, p, "expired"))
           \/ /\ ~InTransaction(c) /\ d.status[p] = "pending" /\ p \notin due
              /\ Goes(x, "preparing") /\ UNCHANGED tables
        /\ UNCHANGED <<jobs, due, calls, faults>>

\* BEGIN IMMEDIATE fails inside another thread's transaction, and what is open
\* is rolled back.  Otherwise the row is read again and the memory inserted,
\* unless it is there.
Insert(x) ==
    LET p == task[x].proposal
        c == Home(x)
    IN  /\ task[x].phase = "preparing" /\ MayWrite(c)
        /\ \/ InTransaction(c) /\ Ends(x) /\ RollingBack(c)
           \/ ~InTransaction(c) /\ db.status[p] = "adopted" /\ Confirm(x)
           \/ ~InTransaction(c) /\ ~Pending(db, p) /\ db.status[p] # "adopted" /\ Refused(x)
           \/ /\ ~InTransaction(c) /\ Pending(db, p)
              /\ txn' = Begun(c)
              /\ db' = [db EXCEPT !.memory[p] = IF @ = Nobody THEN Actor(x) ELSE @]
              /\ Goes(x, "inserted")
        /\ UNCHANGED <<jobs, due, calls, faults>>

\* The proposal is adopted, unless the row has moved.
Adopt(x) ==
    LET p == task[x].proposal
        c == Home(x)
    IN  /\ task[x].phase = "inserted" /\ MayWrite(c)
        /\ \/ ~Pending(db, p) /\ Ends(x) /\ RollingBack(c)
           \/ /\ Pending(db, p) /\ txn' = Opened(c)
              /\ db' = [With(db, p, "adopted") EXCEPT !.approver[p] = Actor(x)]
              /\ Goes(x, "adopted")
        /\ UNCHANGED <<jobs, due, calls, faults>>

\* The lineage is recorded and the index job queued, unless the memory is missing.
QueueIndex(x) ==
    LET p == task[x].proposal
        c == Home(x)
    IN  /\ task[x].phase = "adopted" /\ MayWrite(c)
        /\ \/ db.memory[p] = Nobody /\ Ends(x) /\ RollingBack(c)
           \/ /\ db.memory[p] # Nobody /\ txn' = Opened(c)
              /\ db' = [db EXCEPT !.index = @ \cup {p}]
              /\ Goes(x, "indexed")
        /\ UNCHANGED <<jobs, due, calls, faults>>

\* The result is built from the row as it is after the commit.
Commit(x) ==
    /\ task[x].phase = "indexed"
    /\ Committing(Home(x))
    /\ IF db.status[task[x].proposal] = "adopted" THEN Promoted(x) ELSE Ends(x)
    /\ UNCHANGED <<jobs, due, calls, faults>>

Promote(x) == Look(x) \/ Insert(x) \/ Adopt(x) \/ QueueIndex(x) \/ Commit(x)

-----------------------------------------------------------------------------
(***************************************************************************)
(* Jobs.                                                                   *)
(***************************************************************************)
\* Faulty: one job for a proposal is enough.
QueuedOnce(p) == \E r \in Revisions : jobs[p][r].status # "none"

\* A job was created for this revision of the score, or has evaluated it.
Queued(p) == \/ Job(p).status # "none"
             \/ \E r \in Revisions : /\ jobs[p][r].status = "completed"
                                     /\ jobs[p][r].evaluated = db.signals[p]

\* enqueue_proposal_promotion_job, after a signal or by reconciliation
Enqueue(p) ==
    /\ Unlocked /\ Eligible(db, p) /\ ~Queued(p)
    /\ jobs' = [jobs EXCEPT ![p][db.signals[p]] = [NoJob EXCEPT !.status = "pending"]]
    /\ UNCHANGED <<tables, task, due, calls, faults>>

Claim(w, p, r) ==
    /\ task[w] = Idle /\ Unlocked /\ jobs[p][r].status = "pending"
    /\ jobs' = [jobs EXCEPT ![p][r] = [status |-> "leased", holder |-> w,
                                       attempts |-> jobs[p][r].attempts + 1,
                                       evaluated |-> jobs[p][r].evaluated]]
    /\ task' = [task EXCEPT ![w] = [phase |-> "claimed", proposal |-> p, job |-> r,
                                    evaluated |-> r]]
    /\ UNCHANGED <<tables, due, calls, faults>>

\* A failed attempt, or one whose lease lapsed.
Failed(job) == [job EXCEPT !.status = IF job.attempts < MaxAttempts THEN "pending" ELSE "dead"]

Lapse(p, r) ==
    /\ Unlocked /\ jobs[p][r].status = "leased"
    /\ jobs' = [jobs EXCEPT ![p][r] = Failed(jobs[p][r])]
    /\ UNCHANGED <<tables, task, due, calls, faults>>

\* The lease of a job that nobody works on any more.
Abandoned(p, r) ==
    /\ ~\E w \in Workers : task[w] # Idle /\ task[w].proposal = p /\ task[w].job = r
    /\ Lapse(p, r)

Evaluates(w) == task' = [task EXCEPT ![w].phase = "judged",
                                     ![w].evaluated = Seen(Home(w)).signals[task[w].proposal]]

\* _validate_bindings: what is settled or not eligible any more is evaluated as such.
Validate(w) ==
    /\ task[w].phase = "claimed" /\ GuardFree(Home(w))
    /\ IF Eligible(Seen(Home(w)), task[w].proposal) THEN Goes(w, "active") ELSE Evaluates(w)
    /\ UNCHANGED <<tables, jobs, due, calls, faults>>

\* collect_vector_evidence_batch, for a worker and for the recorder: it reads the
\* proposals and commits what is open.
Collected(x) == IF x \in Workers THEN Goes(x, "gathered") ELSE Stops(x)

Prepare(x) ==
    /\ task[x].phase = "active" /\ GuardFree(Home(x))
    /\ Committing(Home(x))
    /\ IF Seen(Home(x)).status[task[x].proposal] = "pending" THEN Goes(x, "embedding")
       ELSE Collected(x)
    /\ UNCHANGED <<jobs, due, calls, faults>>

\* It embeds without a lock, and records what it found if the proposal is pending.
\* Evidence only adds to the score.
Gather(x, found, good) ==
    LET p == task[x].proposal
        c == Home(x)
        fresh == found /\ ~db.vector[p] /\ db.signals[p] < MaxSignals
    IN  /\ task[x].phase = "embedding" /\ MayWrite(c) /\ GuardFree(c)
        /\ db.good[p] => good
        /\ db' = IF Pending(db, p) /\ fresh
                 THEN [db EXCEPT !.vector[p] = TRUE, !.signals[p] = @ + 1, !.good[p] = good]
                 ELSE db
        /\ txn' = [txn EXCEPT ![c] = Closed]
        /\ Collected(x)
        /\ UNCHANGED <<jobs, due, calls, faults>>

\* The embedding fails, or the database does: then what is open is rolled back,
\* whoever holds the guard.
GatherFails(x) ==
    /\ task[x].phase = "embedding"
    /\ UNCHANGED tables \/ RollingBack(Home(x))
    /\ Ends(x)
    /\ UNCHANGED <<jobs, due, calls, faults>>

Evidence(x) == \/ Prepare(x) \/ GatherFails(x)
               \/ \E found, good \in BOOLEAN : Gather(x, found, good)

\* evaluate_auto_promotion: the score is refreshed and committed, then promoted.
Evaluate(w) ==
    LET p == task[w].proposal
        c == Home(w)
    IN  /\ task[w].phase = "gathered" /\ MayWrite(c) /\ GuardFree(c)
        /\ Committing(c)
        /\ task' = [task EXCEPT ![w].evaluated = db.signals[p],
                                ![w].phase = IF Eligible(db, p) /\ db.vector[p] THEN "asked"
                                             ELSE "judged"]
        /\ UNCHANGED <<jobs, due, calls, faults>>

Mine(w) == jobs[task[w].proposal][task[w].job]
Holds(w) == Mine(w).status = "leased" /\ Mine(w).holder = w

\* Faulty: the job is completed for the score as it is by then.
CurrentRevision(w) == db.signals[task[w].proposal]
EvaluatedRevision(w) == task[w].evaluated

Complete(w) ==
    /\ task[w].phase = "judged" /\ Unlocked
    /\ jobs' = IF Holds(w)
               THEN [jobs EXCEPT ![task[w].proposal][task[w].job] =
                       [Mine(w) EXCEPT !.status = "completed", !.evaluated = EvaluatedRevision(w)]]
               ELSE jobs
    /\ task' = [task EXCEPT ![w] = Idle]
    /\ UNCHANGED <<tables, due, calls, faults>>

Fail(w) ==
    /\ task[w].phase = "failing" /\ Unlocked
    /\ jobs' = IF Holds(w)
               THEN [jobs EXCEPT ![task[w].proposal][task[w].job] = Failed(Mine(w))]
               ELSE jobs
    /\ task' = [task EXCEPT ![w] = Idle]
    /\ UNCHANGED <<tables, due, calls, faults>>

Crash(c) ==
    /\ faults < MaxFaults /\ faults' = faults + 1
    /\ RollingBack(c)
    /\ task' = [x \in Threads |-> IF Home(x) = c THEN Idle ELSE task[x]]
    /\ UNCHANGED <<jobs, due, calls>>

-----------------------------------------------------------------------------
Init ==
    /\ db = [status |-> [p \in Proposals |-> "absent"], signals |-> [p \in Proposals |-> 0],
             good |-> [p \in Proposals |-> FALSE], vector |-> [p \in Proposals |-> FALSE],
             memory |-> [p \in Proposals |-> Nobody], approver |-> [p \in Proposals |-> Nobody],
             index |-> {}]
    /\ txn = [c \in Processes |-> Closed]
    /\ jobs = [p \in Proposals |-> [r \in Revisions |-> NoJob]]
    /\ task = [x \in Threads |-> Idle]
    /\ due = {} /\ calls = 0 /\ faults = 0

Work(w) ==
    \/ \E p \in Proposals, r \in Revisions : Claim(w, p, r)
    \/ Validate(w) \/ Evidence(w) \/ Evaluate(w) \/ Complete(w) \/ Fail(w)
    \/ Promote(w)

Next ==
    \/ KeepBooks \/ Finish \/ Evidence(Recorder)
    \/ \E p \in Proposals : \/ \E good \in BOOLEAN : Observe(p, good)
                            \/ Create(p) \/ Expose(p) \/ Age(p) \/ Expire(p)
                            \/ Reject(p) \/ Approve(p) \/ Enqueue(p)
                            \/ \E r \in Revisions : Lapse(p, r)
    \/ \E w \in Workers : Work(w)
    \/ Promote(Reviewer)
    \/ \E c \in Processes : Crash(c)

Spec == Init /\ [][Next]_vars

\* A call that has begun goes on, the workers poll, reconciliation queues what is
\* missing and abandoned leases lapse.
Fairness ==
    /\ WF_vars(Promote(Reviewer))
    /\ WF_vars(Finish \/ Evidence(Recorder))
    /\ \A w \in Workers : WF_vars(Work(w))
    /\ \A p \in Proposals : WF_vars(Enqueue(p)) /\ WF_vars(\E r \in Revisions : Abandoned(p, r))

FairSpec == Spec /\ Fairness

-----------------------------------------------------------------------------
TypeOK ==
    /\ db.status \in [Proposals -> {"absent", "pending", "adopted", "rejected", "expired"}]
    /\ db.signals \in [Proposals -> Revisions]
    /\ db.memory \in [Proposals -> {Nobody, Reviewer, Promoter}] /\ db.index \subseteq Proposals
    /\ Cardinality({c \in Processes : InTransaction(c)}) <= 1
    /\ \A p \in Proposals : \A r \in Revisions :
           /\ jobs[p][r].status \in {"none", "pending", "leased", "completed", "dead"}
           /\ jobs[p][r].attempts \in 0..MaxAttempts
    /\ due \subseteq Proposals

\* What a worker does outside the server, on a connection of its own, is all or
\* nothing, whatever crashes and whatever the server's threads commit or undo
\* meanwhile: a memory it wrote or a proposal it approved is an adopted proposal
\* with its memory and its index job (promote_memory_proposal).
PromotedAtOnce ==
    \A p \in Proposals : Promoter \in {Committed.memory[p], Committed.approver[p]} =>
        /\ Committed.status[p] = "adopted"
        /\ Committed.memory[p] # Nobody /\ p \in Committed.index

\* What is decided of a proposal and committed is final: no reader of an older row,
\* rollback or crash revives it (every UPDATE asks for status 'pending').
DecisionsStand ==
    [][\A p \in Proposals : Committed.status[p] \in {"adopted", "rejected", "expired"} =>
          Committed'.status[p] = Committed.status[p]]_vars

\* A rejected proposal is in no memory: "Pending, rejected, and expired proposals
\* never become recall candidates" (README.md:1404).
RejectionStands ==
    \A p \in Proposals : Committed.status[p] = "rejected" => Committed.memory[p] = Nobody

\* A job that evaluated the score as it is has promoted the proposal, unless a
\* gate was closed (DurableProposalPromotionWorker.run_once).
EvaluatedIsDecided ==
    \A p \in Proposals : Eligible(Committed, p) /\ Committed.vector[p] =>
        \A r \in Revisions : ~ /\ jobs[p][r].status = "completed"
                               /\ jobs[p][r].evaluated = Committed.signals[p]

\* Every revision of the score that passes the gates is evaluated in the end, or
\* its job used its attempts up, or another signal or decision came first
\* (reconcile_proposal_promotion_jobs).
Evaluated(p) == \/ Job(p).status = "dead"
                \/ \E r \in Revisions : /\ jobs[p][r].status = "completed"
                                        /\ jobs[p][r].evaluated = db.signals[p]
EligibleIsEvaluated ==
    \A p \in Proposals : Eligible(db, p) ~> ~Eligible(db, p) \/ Evaluated(p)
=============================================================================

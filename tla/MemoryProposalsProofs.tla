----------------------- MODULE MemoryProposalsProofs -----------------------
(***************************************************************************)
(* Theorems about memory proposals and their promotion.  The types and     *)
(* what is said of decisions hold wherever the workers run; what is said   *)
(* of their promotions and evaluations needs each of them on a connection  *)
(* of its own (Apart): on the server's, the recorder and the reviewer      *)
(* commit and undo what a worker has begun.                                *)
(***************************************************************************)
EXTENDS MemoryProposals, FiniteSetTheorems, TLAPS

Statuses == {"absent", "pending", "adopted", "rejected", "expired"}
Settled == {"adopted", "rejected", "expired"}
Actors == {Nobody, Reviewer, Promoter}
Tables == [status : [Proposals -> Statuses], signals : [Proposals -> Revisions],
           good : [Proposals -> BOOLEAN], vector : [Proposals -> BOOLEAN],
           memory : [Proposals -> Actors], approver : [Proposals -> Actors],
           index : SUBSET Proposals]
JobRow == [status : {"none", "pending", "leased", "completed", "dead"}, holder : Threads,
           attempts : 0..MaxAttempts, evaluated : Revisions]
ReviewTask == [phase : Judging, proposal : Proposals]
RecordTask == {[phase |-> "recording"]} \cup [phase : {"active", "embedding"}, proposal : Proposals]
WorkPhases == {"claimed", "active", "embedding", "gathered", "judged", "failing"} \cup Judging
WorkTask == [phase : WorkPhases, proposal : Proposals, job : Revisions, evaluated : Revisions]

(* Only one process has a transaction open.                                *)
Exclusive == \A c, d \in Processes : InTransaction(c) /\ InTransaction(d) => c = d

TableTypes == /\ db \in Tables
              /\ txn \in [Processes -> {Closed} \cup Tables]
              /\ Exclusive
JobTypes ==
  /\ jobs \in [Proposals -> [Revisions -> JobRow]]
  /\ \A p \in Proposals : \A r \in Revisions :
       jobs[p][r].status \in {"none", "pending"} => jobs[p][r].attempts < MaxAttempts
TaskTypes == /\ task \in [Threads -> {Idle} \cup ReviewTask \cup RecordTask \cup WorkTask]
             /\ task[Reviewer] \in {Idle} \cup ReviewTask
             /\ task[Recorder] \in {Idle} \cup RecordTask
             /\ \A w \in Workers : task[w] \in {Idle} \cup WorkTask
Types == /\ TableTypes /\ JobTypes /\ TaskTypes
         /\ due \subseteq Proposals

(* From tables d to tables e: signals are only added, the gates open and   *)
(* evidence arrives only with a signal, and what is settled stays so.      *)
GrowsAt(d, e, p) ==
  /\ d.signals[p] <= e.signals[p]
  /\ Eligible(e, p) /\ e.vector[p] /\ e.signals[p] = d.signals[p]
       => Eligible(d, p) /\ d.vector[p]
  /\ d.status[p] \in Settled => e.status[p] = d.status[p]
Grows(d, e) == \A p \in Proposals : GrowsAt(d, e, p)

(* What a worker promoted is adopted, remembered and queued for the index. *)
SoundAt(d, p) == Promoter \in {d.memory[p], d.approver[p]} =>
                   d.status[p] = "adopted" /\ d.memory[p] # Nobody /\ p \in d.index

(* Tables e follow tables d when a step of the program may make d into e;  *)
(* the proposals S are in the middle of their promotion by a worker.       *)
Follows(d, e, S) ==
  /\ e \in Tables /\ Grows(d, e)
  /\ \A p \in Proposals \ S : SoundAt(d, p) => SoundAt(e, p)

(* What a step of process c makes of the tables and the transactions.      *)
TableStep(c, S) ==
  \/ UNCHANGED tables
  \/ RollingBack(c)
  \/ /\ MayWrite(c) /\ Follows(db, db', S)
     /\ txn' \in {txn, Opened(c), [txn EXCEPT ![c] = Closed]}

-----------------------------------------------------------------------------
LEMMA Names ==
  /\ Reviewer \notin Workers /\ Recorder \notin Workers /\ "server" \notin Workers
  /\ Reviewer # Recorder
  /\ Threads = Workers \cup {Reviewer, Recorder} /\ Processes = {"server"} \cup Workers
  /\ Reviewer # Promoter /\ Nobody # Promoter /\ Nobody # Reviewer
  /\ \A x \in Threads : Home(x) \in Processes
  /\ Home(Reviewer) = "server" /\ Home(Recorder) = "server"
BY ProposalsAssumption DEF Reviewer, Recorder, Threads, Processes, Promoter, Nobody, Home

LEMMA ClosedIsNoTable == Closed \notin Tables
<1>1. \A d \in Tables : "signals" \in DOMAIN d
  BY DEF Tables
<1>2. DOMAIN Closed = {"state"}
  BY DEF Closed
<1> QED
  BY <1>1, <1>2

(* A step that touches one proposal.                                       *)
LEMMA FollowsOne ==
  ASSUME NEW d \in Tables, NEW e \in Tables, NEW p \in Proposals, NEW S,
         \A q \in Proposals \ {p} :
           /\ e.status[q] = d.status[q] /\ e.signals[q] = d.signals[q]
           /\ e.good[q] = d.good[q] /\ e.vector[q] = d.vector[q]
           /\ e.memory[q] = d.memory[q] /\ e.approver[q] = d.approver[q]
           /\ q \in e.index <=> q \in d.index,
         GrowsAt(d, e, p), p \in S \/ (SoundAt(d, p) => SoundAt(e, p))
  PROVE  Follows(d, e, S)
<1>1. ASSUME NEW q \in Proposals, q # p
      PROVE  GrowsAt(d, e, q) /\ (SoundAt(d, q) => SoundAt(e, q))
  <2>1. /\ e.status[q] = d.status[q] /\ e.signals[q] = d.signals[q]
        /\ e.good[q] = d.good[q] /\ e.vector[q] = d.vector[q]
        /\ e.memory[q] = d.memory[q] /\ e.approver[q] = d.approver[q]
        /\ q \in e.index <=> q \in d.index
    BY <1>1
  <2>2. d.signals[q] <= e.signals[q]
    BY <2>1, ProposalsAssumption DEF Tables, Revisions
  <2>3. Eligible(e, q) /\ e.vector[q] => Eligible(d, q) /\ d.vector[q]
    BY <2>1, Zenon DEF Eligible
  <2>4. GrowsAt(d, e, q)
    BY <2>1, <2>2, <2>3 DEF GrowsAt
  <2>5. SoundAt(d, q) => SoundAt(e, q)
    BY <2>1, Zenon DEF SoundAt
  <2> QED
    BY <2>4, <2>5
<1>2. Grows(d, e)
  BY <1>1 DEF Grows
<1> QED
  BY <1>1, <1>2 DEF Follows

LEMMA GrowsTransitive ==
  ASSUME NEW d \in Tables, NEW e \in Tables, NEW f \in Tables, Grows(d, e), Grows(e, f)
  PROVE  Grows(d, f)
<1> SUFFICES ASSUME NEW p \in Proposals PROVE GrowsAt(d, f, p)
  BY DEF Grows
<1>1. GrowsAt(d, e, p) /\ GrowsAt(e, f, p)
  BY DEF Grows
<1>2. d.signals[p] \in Nat /\ e.signals[p] \in Nat /\ f.signals[p] \in Nat
  BY ProposalsAssumption DEF Tables, Revisions
<1>3. d.signals[p] <= f.signals[p]
      /\ (f.signals[p] = d.signals[p] => e.signals[p] = d.signals[p] /\ f.signals[p] = e.signals[p])
  BY <1>1, <1>2 DEF GrowsAt
<1>4. Eligible(f, p) /\ f.vector[p] /\ f.signals[p] = d.signals[p] => Eligible(d, p) /\ d.vector[p]
  BY <1>1, <1>3, Zenon DEF GrowsAt
<1>5. d.status[p] \in Settled => f.status[p] = d.status[p]
  BY <1>1 DEF GrowsAt
<1> QED
  BY <1>3, <1>4, <1>5 DEF GrowsAt

LEMMA FollowsItself ==
  ASSUME NEW d \in Tables, NEW S
  PROVE  Follows(d, d, S) /\ Grows(d, d)
<1>1. \A p \in Proposals : d.signals[p] \in Nat
  BY ProposalsAssumption DEF Tables, Revisions
<1>2. \A p \in Proposals : GrowsAt(d, d, p)
  BY <1>1 DEF GrowsAt
<1> QED
  BY <1>2 DEF Follows, Grows

(* A pending proposal is expired or rejected.                              *)
LEMMA SettledFollows ==
  ASSUME NEW d \in Tables, NEW p \in Proposals, Pending(d, p), NEW s \in {"expired", "rejected"}, NEW S
  PROVE  Follows(d, With(d, p, s), S)
<1> DEFINE e == With(d, p, s)
<1>1. /\ e \in Tables /\ e.status = [d.status EXCEPT ![p] = s]
      /\ e.signals = d.signals /\ e.good = d.good /\ e.vector = d.vector
      /\ e.memory = d.memory /\ e.approver = d.approver /\ e.index = d.index
  BY DEF With, Tables, Statuses
<1>2. e.status[p] = s /\ \A q \in Proposals \ {p} : e.status[q] = d.status[q]
  BY <1>1 DEF Tables
<1>3. d.status[p] = "pending" /\ d.signals[p] \in Nat
  BY ProposalsAssumption DEF Pending, Tables, Revisions
<1> HIDE DEF e
<1>4. GrowsAt(d, e, p)
  BY <1>1, <1>2, <1>3 DEF GrowsAt, Eligible, Settled
<1>5. SoundAt(d, p) => SoundAt(e, p)
  BY <1>1, <1>2, <1>3 DEF SoundAt
<1> QED
  BY <1>1, <1>2, <1>4, <1>5, FollowsOne DEF e

(* A proposal is created.                                                  *)
LEMMA CreatedFollows ==
  ASSUME NEW d \in Tables, NEW p \in Proposals, d.status[p] = "absent", NEW S,
         NEW e, e = [With(d, p, "pending") EXCEPT !.good[p] = FALSE]
  PROVE  Follows(d, e, S)
<1>1. /\ e \in Tables /\ e.status = [d.status EXCEPT ![p] = "pending"]
      /\ e.good = [d.good EXCEPT ![p] = FALSE]
      /\ e.signals = d.signals /\ e.vector = d.vector
      /\ e.memory = d.memory /\ e.approver = d.approver /\ e.index = d.index
  BY DEF With, Tables, Statuses
<1>2. /\ e.status[p] = "pending" /\ ~e.good[p]
      /\ \A q \in Proposals \ {p} : e.status[q] = d.status[q] /\ e.good[q] = d.good[q]
  BY <1>1 DEF Tables
<1>3. d.signals[p] \in Nat
  BY ProposalsAssumption DEF Tables, Revisions
<1>4. GrowsAt(d, e, p)
  BY <1>1, <1>2, <1>3 DEF GrowsAt, Eligible, Settled
<1>5. SoundAt(d, p) => SoundAt(e, p)
  BY <1>1, <1>2 DEF SoundAt
<1> QED
  BY <1>1, <1>2, <1>4, <1>5, FollowsOne

(* A pending proposal gets a signal.                                       *)
Observed(d, p, good) == [d EXCEPT !.signals[p] = @ + 1, !.good[p] = good]

LEMMA ObservedFollows ==
  ASSUME NEW d \in Tables, NEW p \in Proposals, NEW good \in BOOLEAN, NEW S,
         d.status[p] = "pending", d.signals[p] < MaxSignals
  PROVE  Follows(d, Observed(d, p, good), S)
<1> DEFINE e == Observed(d, p, good)
<1>1. d.signals[p] \in Nat /\ d.signals[p] + 1 \in Revisions
  BY ProposalsAssumption DEF Tables, Revisions
<1>2. /\ e \in Tables /\ e.status = d.status /\ e.vector = d.vector
      /\ e.signals = [d.signals EXCEPT ![p] = d.signals[p] + 1]
      /\ e.good = [d.good EXCEPT ![p] = good]
      /\ e.memory = d.memory /\ e.approver = d.approver /\ e.index = d.index
  BY <1>1 DEF Observed, Tables
<1>3. e.signals[p] = d.signals[p] + 1
      /\ \A q \in Proposals \ {p} : e.signals[q] = d.signals[q] /\ e.good[q] = d.good[q]
  BY <1>2 DEF Tables
<1> HIDE DEF e
<1>4. GrowsAt(d, e, p)
  BY <1>1, <1>2, <1>3 DEF GrowsAt
<1>5. SoundAt(d, p) => SoundAt(e, p)
  BY <1>2 DEF SoundAt
<1> QED
  BY <1>2, <1>3, <1>4, <1>5, FollowsOne DEF e

(* It gets vector evidence.                                                *)
Gathered(d, p, good) ==
  [d EXCEPT !.vector[p] = TRUE, !.signals[p] = @ + 1, !.good[p] = good]

LEMMA GatheredFollows ==
  ASSUME NEW d \in Tables, NEW p \in Proposals, NEW good \in BOOLEAN, NEW S,
         d.status[p] = "pending", d.signals[p] < MaxSignals
  PROVE  Follows(d, Gathered(d, p, good), S)
<1> DEFINE e == Gathered(d, p, good)
<1>1. d.signals[p] \in Nat /\ d.signals[p] + 1 \in Revisions
  BY ProposalsAssumption DEF Tables, Revisions
<1>2. /\ e \in Tables /\ e.status = d.status
      /\ e.signals = [d.signals EXCEPT ![p] = d.signals[p] + 1]
      /\ e.good = [d.good EXCEPT ![p] = good]
      /\ e.vector = [d.vector EXCEPT ![p] = TRUE]
      /\ e.memory = d.memory /\ e.approver = d.approver /\ e.index = d.index
  BY <1>1 DEF Gathered, Tables
<1>3. e.signals[p] = d.signals[p] + 1
      /\ \A q \in Proposals \ {p} : /\ e.signals[q] = d.signals[q]
                                    /\ e.good[q] = d.good[q] /\ e.vector[q] = d.vector[q]
  BY <1>2 DEF Tables
<1> HIDE DEF e
<1>4. GrowsAt(d, e, p)
  BY <1>1, <1>2, <1>3 DEF GrowsAt
<1>5. SoundAt(d, p) => SoundAt(e, p)
  BY <1>2 DEF SoundAt
<1> QED
  BY <1>2, <1>3, <1>4, <1>5, FollowsOne DEF e

(* Its index job is queued.                                                *)
LEMMA IndexedFollows ==
  ASSUME NEW d \in Tables, NEW p \in Proposals, NEW e, e = [d EXCEPT !.index = @ \cup {p}], NEW S
  PROVE  /\ Follows(d, e, S)
         /\ e.status = d.status /\ e.signals = d.signals /\ e.memory = d.memory
         /\ e.approver = d.approver /\ e.index = d.index \cup {p}
<1>1. /\ e \in Tables
      /\ e.status = d.status /\ e.signals = d.signals /\ e.good = d.good /\ e.vector = d.vector
      /\ e.memory = d.memory /\ e.approver = d.approver /\ e.index = d.index \cup {p}
  BY DEF Tables
<1>2. d.signals[p] \in Nat
  BY ProposalsAssumption DEF Tables, Revisions
<1>3. d.signals[p] <= e.signals[p] /\ (Eligible(e, p) <=> Eligible(d, p))
  BY <1>1, <1>2 DEF Eligible
<1>4. GrowsAt(d, e, p)
  BY <1>1, <1>3 DEF GrowsAt
<1>5. SoundAt(d, p) => SoundAt(e, p)
  BY <1>1 DEF SoundAt
<1> QED
  BY <1>1, <1>4, <1>5, FollowsOne

(* Its memory is inserted, for a worker or the reviewer.                   *)
LEMMA InsertedFollows ==
  ASSUME NEW d \in Tables, NEW p \in Proposals, Pending(d, p), NEW a \in {Reviewer, Promoter},
         NEW e, e = [d EXCEPT !.memory[p] = IF @ = Nobody THEN a ELSE @],
         NEW S, a = Reviewer \/ p \in S
  PROVE  Follows(d, e, S) /\ e.memory[p] # Nobody
<1> DEFINE m == IF d.memory[p] = Nobody THEN a ELSE d.memory[p]
<1>1. /\ e \in Tables
      /\ e.status = d.status /\ e.signals = d.signals /\ e.good = d.good /\ e.vector = d.vector
      /\ e.memory = [d.memory EXCEPT ![p] = m] /\ e.approver = d.approver /\ e.index = d.index
  BY DEF Tables, Actors
<1>2. e.memory[p] = m /\ \A q \in Proposals \ {p} : e.memory[q] = d.memory[q]
  BY <1>1 DEF Tables
<1>3. m # Nobody /\ (m = Promoter => a = Promoter \/ d.memory[p] = Promoter)
  BY Names
<1>4. d.signals[p] \in Nat /\ d.status[p] = "pending"
  BY ProposalsAssumption DEF Tables, Revisions, Pending
<1>5. d.signals[p] <= e.signals[p] /\ (Eligible(e, p) <=> Eligible(d, p))
  BY <1>1, <1>4 DEF Eligible
<1>6. GrowsAt(d, e, p)
  BY <1>1, <1>5 DEF GrowsAt
<1>7. p \in S \/ (SoundAt(d, p) => SoundAt(e, p))
  <2> HIDE DEF m
  <2> QED
    BY <1>1, <1>2, <1>3, <1>4, Names DEF SoundAt
<1> QED
  BY <1>1, <1>2, <1>3, <1>6, <1>7, FollowsOne

(* It is adopted, by a worker or the reviewer.                             *)
LEMMA AdoptedFollows ==
  ASSUME NEW d \in Tables, NEW p \in Proposals, Pending(d, p), NEW a \in {Reviewer, Promoter},
         NEW e, e = [With(d, p, "adopted") EXCEPT !.approver[p] = a],
         NEW S, a = Reviewer \/ p \in S
  PROVE  Follows(d, e, S)
<1>1. /\ e \in Tables
      /\ e.status = [d.status EXCEPT ![p] = "adopted"]
      /\ e.signals = d.signals /\ e.good = d.good /\ e.vector = d.vector
      /\ e.approver = [d.approver EXCEPT ![p] = a] /\ e.memory = d.memory /\ e.index = d.index
  BY DEF Tables, Actors, With, Statuses
<1>2. /\ e.status[p] = "adopted" /\ e.approver[p] = a
      /\ \A q \in Proposals \ {p} : e.status[q] = d.status[q] /\ e.approver[q] = d.approver[q]
  BY <1>1 DEF Tables
<1>3. d.signals[p] \in Nat /\ d.status[p] = "pending"
  BY ProposalsAssumption DEF Tables, Revisions, Pending
<1>4. GrowsAt(d, e, p)
  BY <1>1, <1>2, <1>3 DEF GrowsAt, Eligible, Settled
<1>5. p \in S \/ (SoundAt(d, p) => SoundAt(e, p))
  BY <1>1, <1>2, <1>3, Names DEF SoundAt
<1> QED
  BY <1>1, <1>2, <1>4, <1>5, FollowsOne

-----------------------------------------------------------------------------
(* What is committed, before a step and after it.                          *)
LEMMA CommittedIs ==
  ASSUME TableTypes
  PROVE  /\ Committed \in Tables
         /\ Unlocked => Committed = db
         /\ \A c \in Processes : InTransaction(c) => Committed = txn[c] /\ MayWrite(c)
         /\ \A c \in Processes : MayWrite(c) /\ ~InTransaction(c) => Unlocked
         /\ \A c \in Processes : Seen(c) \in Tables
<1>1. Unlocked => Committed = db
  BY DEF Committed
<1>2. ASSUME NEW c \in Processes, InTransaction(c)
      PROVE  Committed = txn[c] /\ MayWrite(c) /\ txn[c] \in Tables
  <2>1. \A d \in Processes : InTransaction(d) <=> d = c
    BY <1>2 DEF TableTypes, Exclusive
  <2>2. (CHOOSE d \in Processes : InTransaction(d)) = c
    BY <2>1
  <2>3. ~Unlocked
    BY <1>2 DEF Unlocked
  <2> QED
    BY <1>2, <2>1, <2>2, <2>3 DEF Committed, MayWrite, TableTypes, InTransaction
<1>3. Committed \in Tables
  BY <1>1, <1>2 DEF Unlocked, TableTypes
<1> QED
  BY <1>1, <1>2, <1>3 DEF Unlocked, MayWrite, Seen, TableTypes

LEMMA CommittedNext ==
  ASSUME TableTypes'
  PROVE  /\ Unlocked' => Committed' = db'
         /\ \A c \in Processes : InTransaction(c)' => Committed' = txn'[c]
<1>1. Unlocked' => Committed' = db'
  BY DEF Committed
<1>2. ASSUME NEW c \in Processes, InTransaction(c)'
      PROVE  Committed' = txn'[c]
  <2>1. \A d \in Processes : InTransaction(d)' <=> d = c
    BY <1>2 DEF TableTypes, Exclusive
  <2>2. (CHOOSE d \in Processes : InTransaction(d)') = c
    BY <2>1
  <2>3. ~Unlocked'
    BY <1>2 DEF Unlocked
  <2> QED
    BY <2>2, <2>3 DEF Committed
<1> QED
  BY <1>1, <1>2

(* A connection with nothing open commits and rolls back nothing; one with *)
(* something open is the only one.                                         *)
LEMMA Closing ==
  ASSUME TableTypes, NEW c \in Processes, NEW S
  PROVE  /\ ~InTransaction(c) => [txn EXCEPT ![c] = Closed] = txn
         /\ Committing(c) => TableStep(c, S)
         /\ RollingBack(c) => TableStep(c, S)
<1>1. ~InTransaction(c) => [txn EXCEPT ![c] = Closed] = txn
  BY DEF TableTypes, InTransaction
<1>2. ASSUME Committing(c) PROVE TableStep(c, S)
  <2>1. CASE InTransaction(c)
    <3>1. MayWrite(c) /\ Follows(db, db', S)
      BY <1>2, <2>1, CommittedIs, FollowsItself DEF Committing, TableTypes
    <3> QED
      BY <1>2, <3>1 DEF Committing, TableStep
  <2>2. CASE ~InTransaction(c)
    BY <1>1, <1>2, <2>2 DEF Committing, TableStep, tables
  <2> QED
    BY <2>1, <2>2
<1> QED
  BY <1>1, <1>2 DEF TableStep

(* Every step leaves tables, and only one transaction at a time.           *)
LEMMA TableStepTypes ==
  ASSUME TableTypes, NEW c \in Processes, NEW S, TableStep(c, S)
  PROVE  /\ TableTypes'
         /\ \A d \in Processes \ {c} : txn'[d] = txn[d]
<1>0. db \in Tables /\ txn \in [Processes -> {Closed} \cup Tables] /\ Exclusive
  BY DEF TableTypes
<1>1. CASE UNCHANGED tables
  BY <1>0, <1>1 DEF tables, TableTypes, Exclusive, InTransaction
<1>2. CASE RollingBack(c)
  <2>1. InTransaction(c) => txn[c] \in Tables
    BY <1>0 DEF InTransaction
  <2> QED
    BY <1>0, <1>2, <2>1 DEF RollingBack, TableTypes, Exclusive, InTransaction
<1>3. CASE MayWrite(c) /\ Follows(db, db', S) /\ txn' = txn
  BY <1>0, <1>3 DEF Follows, TableTypes, Exclusive, InTransaction
<1>4. CASE MayWrite(c) /\ Follows(db, db', S) /\ txn' = Opened(c)
  <2>1. txn' \in [Processes -> {Closed} \cup Tables]
    BY <1>0, <1>4 DEF Opened
  <2>2. \A d \in Processes \ {c} : txn[d] = Closed /\ txn'[d] = txn[d]
    BY <1>0, <1>4 DEF Opened, MayWrite, InTransaction
  <2>3. db' \in Tables /\ Exclusive'
    BY <1>4, <2>2 DEF Follows, Exclusive, InTransaction
  <2> QED
    BY <2>1, <2>2, <2>3 DEF TableTypes
<1>5. CASE MayWrite(c) /\ Follows(db, db', S) /\ txn' = [txn EXCEPT ![c] = Closed]
  BY <1>0, <1>5 DEF Follows, TableTypes, Exclusive, InTransaction
<1> QED
  BY <1>1, <1>2, <1>3, <1>4, <1>5 DEF TableStep

(* What was committed grows into what is, and that into what may yet be.   *)
LEMMA TableStepCommits ==
  ASSUME TableTypes, NEW c \in Processes, NEW S, TableStep(c, S), Grows(Committed, db)
  PROVE  /\ Grows(Committed, Committed') /\ Grows(Committed', db')
         /\ Committed' = Committed \/ (Committed' = db' /\ MayWrite(c) /\ Follows(db, db', S))
         /\ db' = Committed \/ db' = db \/ Follows(db, db', S)
<1>0. /\ TableTypes' /\ db \in Tables /\ Committed \in Tables
      /\ txn \in [Processes -> {Closed} \cup Tables]
      /\ \A d \in Processes \ {c} : txn'[d] = txn[d]
  BY TableStepTypes, CommittedIs DEF TableTypes
<1>1. CASE UNCHANGED tables
  <2>1. Committed' = Committed /\ db' = db
    BY <1>1 DEF tables, Committed, Unlocked, InTransaction
  <2> QED
    BY <1>0, <2>1, FollowsItself
<1>2. CASE RollingBack(c) /\ InTransaction(c)
  <2>1. Committed = txn[c] /\ db' = txn[c]
    BY <1>0, <1>2, CommittedIs DEF RollingBack
  <2>2. \A d \in Processes : ~InTransaction(d)'
    BY <1>0, <1>2 DEF RollingBack, InTransaction, TableTypes, Exclusive
  <2>3. Committed' = db'
    BY <1>0, <2>2, CommittedNext DEF Unlocked
  <2> QED
    BY <1>0, <2>1, <2>3, FollowsItself
<1>3. CASE RollingBack(c) /\ ~InTransaction(c)
  BY <1>0, <1>1, <1>3, Closing DEF RollingBack, tables
<1>4. ASSUME MayWrite(c), Follows(db, db', S), txn' \in {txn, Opened(c)}, InTransaction(c)
      PROVE  Committed' = Committed
  <2>1. txn' = txn
    BY <1>0, <1>4 DEF Opened
  <2>2. InTransaction(c)'
    BY <1>4, <2>1 DEF InTransaction
  <2> QED
    BY <1>0, <1>4, <2>1, <2>2, CommittedIs, CommittedNext
<1>5. ASSUME MayWrite(c), Follows(db, db', S), txn' = Opened(c), ~InTransaction(c)
      PROVE  Committed' = Committed
  <2>1. txn'[c] = db
    BY <1>0, <1>5 DEF Opened
  <2>2. InTransaction(c)' /\ Committed = db
    BY <1>0, <1>5, <2>1, ClosedIsNoTable, CommittedIs DEF InTransaction
  <2> QED
    BY <1>0, <2>1, <2>2, CommittedNext
<1>6. ASSUME MayWrite(c), Follows(db, db', S),
             \/ txn' = txn /\ ~InTransaction(c)
             \/ txn' = [txn EXCEPT ![c] = Closed]
      PROVE  Committed' = db'
  <2>1. \A d \in Processes : txn'[d] = Closed
    BY <1>0, <1>6 DEF MayWrite, InTransaction
  <2> QED
    BY <1>0, <2>1, CommittedNext DEF Unlocked, InTransaction
<1>7. CASE MayWrite(c) /\ Follows(db, db', S) /\ txn' \in {txn, Opened(c), [txn EXCEPT ![c] = Closed]}
  <2>1. db' \in Tables /\ Grows(Committed, db')
    BY <1>0, <1>7, GrowsTransitive DEF Follows
  <2>2. Committed' = Committed \/ Committed' = db'
    BY <1>4, <1>5, <1>6, <1>7
  <2> QED
    BY <1>0, <1>7, <2>1, <2>2, FollowsItself
<1> QED
  BY <1>1, <1>2, <1>3, <1>7 DEF TableStep

-----------------------------------------------------------------------------
(* The tasks: a thread that does something has a proposal in hand, but for *)
(* the recorder between two signals.                                       *)
LEMMA BusyTypes ==
  ASSUME TaskTypes, NEW x \in Threads, task[x].phase \notin {"idle", "recording"}
  PROVE  /\ task[x].proposal \in Proposals
         /\ x = Reviewer => task[x] \in ReviewTask
         /\ x = Recorder => task[x] \in [phase : {"active", "embedding"}, proposal : Proposals]
         /\ x \in Workers => task[x] \in WorkTask
<1>1. task[x] # Idle /\ task[x] # [phase |-> "recording"]
  BY DEF Idle
<1>2. x = Reviewer => task[x] \in ReviewTask
  BY <1>1 DEF TaskTypes
<1>3. x = Recorder => task[x] \in [phase : {"active", "embedding"}, proposal : Proposals]
  BY <1>1 DEF TaskTypes, RecordTask
<1>4. x \in Workers => task[x] \in WorkTask
  BY <1>1 DEF TaskTypes
<1> QED
  BY <1>2, <1>3, <1>4, Names DEF ReviewTask, WorkTask

(* A thread turns to something else.                                       *)
LEMMA TurnsTypes ==
  ASSUME TaskTypes, NEW x \in Threads, NEW new, task' = [task EXCEPT ![x] = new],
         \/ new = Idle
         \/ x = Reviewer /\ new \in ReviewTask
         \/ x = Recorder /\ new \in RecordTask
         \/ x \in Workers /\ new \in WorkTask
  PROVE  /\ TaskTypes' /\ task'[x] = new
         /\ \A y \in Threads \ {x} : task'[y] = task[y]
<1>1. task'[x] = new /\ \A y \in Threads \ {x} : task'[y] = task[y]
  BY DEF TaskTypes
<1>2. task' \in [Threads -> {Idle} \cup ReviewTask \cup RecordTask \cup WorkTask]
  BY DEF TaskTypes
<1> QED
  BY <1>1, <1>2, Names DEF TaskTypes

LEMMA StopsTypes ==
  ASSUME TaskTypes, NEW x \in Threads, Stops(x)
  PROVE  /\ TaskTypes' /\ task'[x].phase = "idle"
         /\ \A y \in Threads \ {x} : task'[y] = task[y]
<1>1. task' = [task EXCEPT ![x] = Idle] /\ Idle.phase = "idle"
  BY DEF Stops, Idle
<1> QED
  BY <1>1, TurnsTypes

LEMMA GoesTypes ==
  ASSUME TaskTypes, NEW x \in Threads, task[x].phase \notin {"idle", "recording"},
         NEW ph \in WorkPhases, x = Reviewer => ph \in Judging,
         x = Recorder => ph \in {"active", "embedding"}, Goes(x, ph)
  PROVE  /\ TaskTypes' /\ task'[x].phase = ph /\ task'[x].proposal = task[x].proposal
         /\ x \in Workers => task'[x].job = task[x].job /\ task'[x].evaluated = task[x].evaluated
         /\ \A y \in Threads \ {x} : task'[y] = task[y]
<1> DEFINE new == [task[x] EXCEPT !.phase = ph]
<1>1. task' = [task EXCEPT ![x] = new]
  BY DEF Goes, TaskTypes
<1>2. CASE x = Reviewer
  <2>1. task[x] \in ReviewTask
    BY <1>2, BusyTypes
  <2>2. new \in ReviewTask /\ new.phase = ph /\ new.proposal = task[x].proposal
    BY <1>2, <2>1 DEF ReviewTask
  <2>3. x \notin Workers
    BY <1>2, Names
  <2> HIDE DEF new
  <2> QED
    BY <1>1, <1>2, <2>2, <2>3, TurnsTypes
<1>3. CASE x = Recorder
  <2>1. task[x] \in [phase : {"active", "embedding"}, proposal : Proposals]
    BY <1>3, BusyTypes
  <2>2. new \in RecordTask /\ new.phase = ph /\ new.proposal = task[x].proposal
    BY <1>3, <2>1 DEF RecordTask
  <2>3. x \notin Workers
    BY <1>3, Names
  <2> HIDE DEF new
  <2> QED
    BY <1>1, <1>3, <2>2, <2>3, TurnsTypes
<1>4. CASE x \in Workers
  <2>1. task[x] \in WorkTask
    BY <1>4, BusyTypes
  <2>2. /\ new \in WorkTask /\ new.phase = ph /\ new.proposal = task[x].proposal
        /\ new.job = task[x].job /\ new.evaluated = task[x].evaluated
    BY <2>1 DEF WorkTask
  <2> HIDE DEF new
  <2> QED
    BY <1>1, <1>4, <2>2, TurnsTypes
<1> QED
  BY <1>2, <1>3, <1>4, Names

LEMMA EndsTypes ==
  ASSUME TaskTypes, NEW x \in Threads, task[x].phase \notin {"idle", "recording"}, Ends(x)
  PROVE  /\ TaskTypes' /\ task'[x].phase \in {"idle", "failing"}
         /\ \A y \in Threads \ {x} : task'[y] = task[y]
<1>1. CASE x \in Workers
  BY <1>1, GoesTypes, Names DEF Ends, WorkPhases
<1>2. CASE x \notin Workers
  BY <1>2, StopsTypes DEF Ends
<1> QED
  BY <1>1, <1>2

LEMMA PromotedTypes ==
  ASSUME TaskTypes, NEW x \in Threads, task[x].phase \notin {"idle", "recording"}, Promoted(x)
  PROVE  /\ TaskTypes'
         /\ x \in Workers => /\ task'[x].phase = "judged" /\ task'[x].proposal = task[x].proposal
                             /\ task'[x].evaluated = task[x].evaluated
         /\ \A y \in Threads \ {x} : task'[y] = task[y]
<1>1. CASE x \in Workers
  BY <1>1, GoesTypes, Names DEF Promoted, WorkPhases
<1>2. CASE x \notin Workers
  BY <1>2, StopsTypes DEF Promoted
<1> QED
  BY <1>1, <1>2

LEMMA CollectedTypes ==
  ASSUME TaskTypes, NEW x \in Threads, task[x].phase \notin {"idle", "recording"}, Collected(x)
  PROVE  /\ TaskTypes' /\ task'[x].phase \in {"idle", "gathered"}
         /\ \A y \in Threads \ {x} : task'[y] = task[y]
<1>1. CASE x \in Workers
  BY <1>1, GoesTypes, Names DEF Collected, WorkPhases
<1>2. CASE x \notin Workers
  BY <1>2, StopsTypes DEF Collected
<1> QED
  BY <1>1, <1>2

(* A worker notes what it judged.                                          *)
LEMMA EvaluatedTypes ==
  ASSUME TaskTypes, NEW w \in Workers, task[w].phase \notin {"idle", "recording"},
         NEW ph \in WorkPhases, NEW r \in Revisions,
         task' = [task EXCEPT ![w].phase = ph, ![w].evaluated = r]
           \/ task' = [task EXCEPT ![w].evaluated = r, ![w].phase = ph]
  PROVE  /\ TaskTypes' /\ task'[w].phase = ph /\ task'[w].proposal = task[w].proposal
         /\ task'[w].evaluated = r
         /\ \A y \in Threads \ {w} : task'[y] = task[y]
<1> DEFINE new == [task[w] EXCEPT !.phase = ph, !.evaluated = r]
<1>1. w \in Threads /\ task[w] \in WorkTask
  BY BusyTypes, Names
<1>2. task' = [task EXCEPT ![w] = new]
  BY <1>1 DEF TaskTypes, WorkTask
<1>3. /\ new \in WorkTask /\ new.phase = ph /\ new.proposal = task[w].proposal
      /\ new.evaluated = r
  BY <1>1 DEF WorkTask
<1> HIDE DEF new
<1> QED
  BY <1>1, <1>2, <1>3, TurnsTypes

-----------------------------------------------------------------------------
(* A promotion, action by action: S is what it leaves half promoted.       *)
Half(x) == IF x \in Workers THEN {task[x].proposal} ELSE {}

(* The tables and the tasks of a step of one thread.                       *)
ThreadStep(x, S) ==
  /\ TableStep(Home(x), S) /\ TaskTypes'
  /\ \A y \in Threads \ {x} : task'[y] = task[y]

LEMMA Changed ==
  ASSUME NEW c, NEW d, NEW S, Changing(c, d), MayWrite(c), Follows(db, d, S)
  PROVE  TableStep(c, S)
BY DEF Changing, TableStep

LEMMA ActorIs ==
  ASSUME NEW x \in Threads, x # Recorder, NEW p, p = task[x].proposal
  PROVE  /\ Actor(x) \in {Reviewer, Promoter}
         /\ Actor(x) = Reviewer \/ p \in Half(x)
BY Names DEF Actor, Half

LEMMA RefusedStep ==
  ASSUME TableTypes, TaskTypes, NEW x \in Threads, task[x].phase \notin {"idle", "recording"},
         Refused(x)
  PROVE  ThreadStep(x, {})
<1>1. TableStep(Home(x), {})
  BY Names, Closing DEF Refused, TableStep
<1> QED
  BY <1>1, EndsTypes DEF Refused, ThreadStep

LEMMA ConfirmStep ==
  ASSUME TableTypes, TaskTypes, NEW x \in Threads, task[x].phase \notin {"idle", "recording"},
         Confirm(x)
  PROVE  ThreadStep(x, {})
<1> DEFINE p == task[x].proposal
           e == [db EXCEPT !.index = @ \cup {p}]
<1>1. p \in Proposals /\ MayWrite(Home(x)) /\ db \in Tables
  BY BusyTypes DEF Confirm, TableTypes
<1>2. Follows(db, e, {})
  BY <1>1, IndexedFollows
<1>3. CASE Promoted(x) /\ Changing(Home(x), e)
  BY <1>1, <1>2, <1>3, PromotedTypes, Changed DEF ThreadStep
<1>4. CASE Refused(x)
  BY <1>4, RefusedStep
<1> QED
  BY <1>3, <1>4 DEF Confirm

LEMMA LookStep ==
  ASSUME TableTypes, TaskTypes, NEW x \in Threads, Look(x)
  PROVE  ThreadStep(x, {})
<1> DEFINE p == task[x].proposal
           c == Home(x)
           d == Seen(c)
<1>1. task[x].phase \notin {"idle", "recording"} /\ db \in Tables
  BY DEF Look, TableTypes
<1>2. p \in Proposals
  BY <1>1, BusyTypes
<1>3. CASE Refused(x)
  BY <1>1, <1>3, RefusedStep
<1>4. CASE Confirm(x)
  BY <1>1, <1>4, ConfirmStep
<1>5. CASE Pending(d, p) /\ MayWrite(c) /\ Ends(x) /\ Changing(c, With(d, p, "expired"))
  <2>1. d = db
    BY <1>5 DEF Seen
  <2>2. Follows(db, With(d, p, "expired"), {})
    BY <1>1, <1>2, <1>5, <2>1, SettledFollows
  <2>3. TableStep(c, {})
    BY <1>5, <2>2, Changed
  <2> QED
    BY <1>1, <1>5, <2>3, EndsTypes DEF ThreadStep
<1>6. CASE Goes(x, "preparing") /\ UNCHANGED tables
  <2>1. "preparing" \in WorkPhases /\ "preparing" \in Judging
    BY DEF WorkPhases, Judging
  <2>2. x # Recorder
    BY <1>1, BusyTypes DEF Look
  <2> QED
    BY <1>1, <1>6, <2>1, <2>2, GoesTypes DEF ThreadStep, TableStep
<1> QED
  BY <1>3, <1>4, <1>5, <1>6 DEF Look

LEMMA InsertStep ==
  ASSUME TableTypes, TaskTypes, NEW x \in Threads, Insert(x)
  PROVE  ThreadStep(x, Half(x))
<1> DEFINE p == task[x].proposal
           c == Home(x)
           e == [db EXCEPT !.memory[p] = IF @ = Nobody THEN Actor(x) ELSE @]
<1>1. task[x].phase \notin {"idle", "recording"} /\ c \in Processes /\ MayWrite(c) /\ db \in Tables
  BY Names DEF Insert, TableTypes
<1>2. p \in Proposals /\ x # Recorder
  BY <1>1, BusyTypes DEF Insert
<1>3. CASE Ends(x) /\ RollingBack(c)
  BY <1>1, <1>3, EndsTypes, Closing DEF ThreadStep
<1>4. CASE Confirm(x) \/ Refused(x)
  <2>1. ThreadStep(x, {})
    BY <1>1, <1>4, ConfirmStep, RefusedStep
  <2> QED
    BY <2>1 DEF ThreadStep, TableStep, Follows
<1>5. CASE Pending(db, p) /\ txn' = Begun(c) /\ db' = e /\ Goes(x, "inserted")
  <2>1. "inserted" \in WorkPhases /\ "inserted" \in Judging
    BY DEF WorkPhases, Judging
  <2>2. Follows(db, e, Half(x))
    BY <1>1, <1>2, <1>5, ActorIs, InsertedFollows
  <2>3. TableStep(c, Half(x))
    BY <1>1, <1>5, <2>2 DEF TableStep, Begun
  <2> QED
    BY <1>1, <1>2, <1>5, <2>1, <2>3, GoesTypes DEF ThreadStep
<1> QED
  BY <1>3, <1>4, <1>5 DEF Insert

LEMMA AdoptStep ==
  ASSUME TableTypes, TaskTypes, NEW x \in Threads, Adopt(x)
  PROVE  ThreadStep(x, Half(x))
<1> DEFINE p == task[x].proposal
           c == Home(x)
           e == [With(db, p, "adopted") EXCEPT !.approver[p] = Actor(x)]
<1>1. task[x].phase \notin {"idle", "recording"} /\ c \in Processes /\ MayWrite(c) /\ db \in Tables
  BY Names DEF Adopt, TableTypes
<1>2. p \in Proposals /\ x # Recorder
  BY <1>1, BusyTypes DEF Adopt
<1>3. CASE Ends(x) /\ RollingBack(c)
  BY <1>1, <1>3, EndsTypes, Closing DEF ThreadStep
<1>4. CASE Pending(db, p) /\ txn' = Opened(c) /\ db' = e /\ Goes(x, "adopted")
  <2>1. "adopted" \in WorkPhases /\ "adopted" \in Judging
    BY DEF WorkPhases, Judging
  <2>2. Follows(db, e, Half(x))
    BY <1>1, <1>2, <1>4, ActorIs, AdoptedFollows
  <2>3. TableStep(c, Half(x))
    BY <1>1, <1>4, <2>2 DEF TableStep
  <2> QED
    BY <1>1, <1>2, <1>4, <2>1, <2>3, GoesTypes DEF ThreadStep
<1> QED
  BY <1>3, <1>4 DEF Adopt

LEMMA QueueIndexStep ==
  ASSUME TableTypes, TaskTypes, NEW x \in Threads, QueueIndex(x)
  PROVE  ThreadStep(x, {})
<1> DEFINE p == task[x].proposal
           c == Home(x)
           e == [db EXCEPT !.index = @ \cup {p}]
<1>1. task[x].phase \notin {"idle", "recording"} /\ c \in Processes /\ MayWrite(c) /\ db \in Tables
  BY Names DEF QueueIndex, TableTypes
<1>2. p \in Proposals /\ x # Recorder
  BY <1>1, BusyTypes DEF QueueIndex
<1>3. CASE Ends(x) /\ RollingBack(c)
  BY <1>1, <1>3, EndsTypes, Closing DEF ThreadStep
<1>4. CASE txn' = Opened(c) /\ db' = e /\ Goes(x, "indexed")
  <2>1. "indexed" \in WorkPhases /\ "indexed" \in Judging
    BY DEF WorkPhases, Judging
  <2>2. Follows(db, e, {})
    BY <1>1, <1>2, IndexedFollows
  <2>3. TableStep(c, {})
    BY <1>1, <1>4, <2>2 DEF TableStep
  <2> QED
    BY <1>1, <1>2, <1>4, <2>1, <2>3, GoesTypes DEF ThreadStep
<1> QED
  BY <1>3, <1>4 DEF QueueIndex

LEMMA CommitStep ==
  ASSUME TableTypes, TaskTypes, NEW x \in Threads, Commit(x)
  PROVE  ThreadStep(x, {})
<1>1. task[x].phase \notin {"idle", "recording"} /\ Home(x) \in Processes
  BY Names DEF Commit
<1>2. TableStep(Home(x), {})
  BY <1>1, Closing DEF Commit
<1> QED
  BY <1>1, <1>2, PromotedTypes, EndsTypes DEF Commit, ThreadStep

-----------------------------------------------------------------------------
(* Vector evidence, for a worker and for the recorder.                     *)
LEMMA EvidenceStep ==
  ASSUME TableTypes, TaskTypes, NEW x \in Threads, Evidence(x)
  PROVE  ThreadStep(x, {})
<1> DEFINE p == task[x].proposal
           c == Home(x)
<1>1. /\ task[x].phase \notin {"idle", "recording"} /\ c \in Processes /\ db \in Tables
      /\ task[x].phase \in {"active", "embedding"}
  BY Names DEF Evidence, Prepare, GatherFails, Gather, TableTypes
<1>2. p \in Proposals /\ x # Reviewer
  BY <1>1, BusyTypes DEF ReviewTask, Judging
<1>3. CASE Prepare(x)
  <2>1. TableStep(c, {})
    BY <1>1, <1>3, Closing DEF Prepare
  <2>2. "embedding" \in WorkPhases
    BY DEF WorkPhases
  <2> QED
    BY <1>1, <1>2, <1>3, <2>1, <2>2, GoesTypes, CollectedTypes DEF Prepare, ThreadStep
<1>4. CASE GatherFails(x)
  <2>1. TableStep(c, {})
    BY <1>1, <1>4, Closing DEF GatherFails, TableStep
  <2> QED
    BY <1>1, <1>4, <2>1, EndsTypes DEF GatherFails, ThreadStep
<1>5. ASSUME NEW found \in BOOLEAN, NEW good \in BOOLEAN, Gather(x, found, good)
      PROVE  ThreadStep(x, {})
  <2>1. /\ MayWrite(c) /\ txn' = [txn EXCEPT ![c] = Closed] /\ Collected(x)
        /\ \/ db' = db
           \/ db' = Gathered(db, p, good) /\ db.status[p] = "pending" /\ db.signals[p] < MaxSignals
    BY <1>5 DEF Gather, Gathered, Pending
  <2>2. Follows(db, db', {})
    <3>1. CASE db' = db
      BY <1>1, <3>1, FollowsItself
    <3>2. CASE db' = Gathered(db, p, good) /\ db.status[p] = "pending" /\ db.signals[p] < MaxSignals
      <4> HIDE DEF p
      <4> QED
        BY <1>1, <1>2, <3>2, GatheredFollows
    <3> QED
      BY <2>1, <3>1, <3>2
  <2>3. TableStep(c, {})
    BY <2>1, <2>2 DEF TableStep
  <2> QED
    BY <1>1, <2>1, <2>3, CollectedTypes DEF ThreadStep
<1> QED
  BY <1>3, <1>4, <1>5 DEF Evidence

LEMMA PromoteStep ==
  ASSUME TableTypes, TaskTypes, NEW x \in Threads, Promote(x)
  PROVE  /\ ThreadStep(x, Half(x))
         /\ x \notin Workers => ThreadStep(x, {})
         /\ ~Insert(x) /\ ~Adopt(x) => ThreadStep(x, {})
<1>1. ThreadStep(x, {}) => ThreadStep(x, Half(x))
  BY DEF ThreadStep, TableStep, Follows
<1>2. x \notin Workers => Half(x) = {}
  BY DEF Half
<1> QED
  BY <1>1, <1>2, LookStep, InsertStep, AdoptStep, QueueIndexStep, CommitStep DEF Promote

(* The recorder's own transactions.                                        *)
LEMMA RecorderStep ==
  ASSUME TableTypes, TaskTypes,
         \/ KeepBooks \/ Finish \/ Evidence(Recorder)
         \/ \E p \in Proposals : Expose(p) \/ \E good \in BOOLEAN : Observe(p, good)
  PROVE  ThreadStep(Recorder, {})
<1>1. Recorder \in Threads /\ Home(Recorder) = "server" /\ "server" \in Processes /\ db \in Tables
  BY Names DEF TableTypes
<1>2. ASSUME Recording
      PROVE  /\ TaskTypes' /\ \A y \in Threads \ {Recorder} : task'[y] = task[y]
             /\ MayWrite("server") /\ txn' = Opened("server")
  <2>1. [phase |-> "recording"] \in RecordTask
    BY DEF RecordTask
  <2> QED
    BY <1>1, <1>2, <2>1, TurnsTypes DEF Recording
<1>3. CASE KeepBooks
  <2>1. Follows(db, db', {}) /\ Recording
    BY <1>1, <1>3, FollowsItself DEF KeepBooks
  <2> QED
    BY <1>1, <1>2, <2>1 DEF ThreadStep, TableStep
<1>4. ASSUME NEW p \in Proposals, NEW good \in BOOLEAN, Observe(p, good)
      PROVE  ThreadStep(Recorder, {})
  <2>1. db' = Observed(db, p, good) /\ Recording
    BY <1>4 DEF Observe, Observed
  <2>2. db.status[p] = "pending" /\ db.signals[p] < MaxSignals
    BY <1>4 DEF Observe
  <2>3. Follows(db, Observed(db, p, good), {})
    BY <1>1, <2>2, ObservedFollows
  <2> QED
    BY <1>1, <1>2, <2>1, <2>3 DEF ThreadStep, TableStep
<1>5. CASE Finish
  <2>1. TableStep("server", {})
    BY <1>1, <1>5, Closing DEF Finish
  <2> QED
    BY <1>1, <1>5, <2>1, StopsTypes DEF Finish, ThreadStep
<1>6. ASSUME NEW p \in Proposals, Expose(p)
      PROVE  ThreadStep(Recorder, {})
  <2>1. TableStep("server", {})
    BY <1>1, <1>6, Closing DEF Expose
  <2>2. [phase |-> "active", proposal |-> p] \in RecordTask
    BY DEF RecordTask
  <2> QED
    BY <1>1, <1>6, <2>1, <2>2, TurnsTypes DEF Expose, ThreadStep
<1> QED
  BY <1>1, <1>3, <1>4, <1>5, <1>6, EvidenceStep

(* Creation, expiry and review.                                            *)
LEMMA ReviewStep ==
  ASSUME TableTypes, TaskTypes, NEW p \in Proposals,
         Create(p) \/ Expire(p) \/ Reject(p) \/ Approve(p)
  PROVE  /\ TableStep("server", {}) /\ TaskTypes'
         /\ \A w \in Workers : task'[w] = task[w]
<1>1. Reviewer \in Threads /\ "server" \in Processes /\ db \in Tables
  BY Names DEF TableTypes
<1>2. CASE Approve(p)
  <2>1. [phase |-> "asked", proposal |-> p] \in ReviewTask
    BY DEF ReviewTask, Judging
  <2> QED
    BY <1>1, <1>2, <2>1, TurnsTypes, Names DEF Approve, TableStep
<1>3. CASE Expire(p) \/ Reject(p)
  <2>1. /\ MayWrite("server") /\ Pending(db, p) /\ UNCHANGED <<txn, task>>
        /\ \E s \in {"expired", "rejected"} : db' = With(db, p, s)
    BY <1>3 DEF Expire, Reject, Changing, Unlocked, MayWrite
  <2>2. Follows(db, db', {})
    BY <1>1, <2>1, SettledFollows
  <2>3. TaskTypes'
    BY <2>1 DEF TaskTypes
  <2> QED
    BY <2>1, <2>2, <2>3 DEF TableStep
<1>4. CASE Create(p)
  <2>1. /\ MayWrite("server") /\ UNCHANGED <<txn, task>>
        /\ db.status[p] = "absent"
        /\ db' = [With(db, p, "pending") EXCEPT !.good[p] = FALSE]
    BY <1>4 DEF Create, Changing
  <2>2. Follows(db, db', {})
    BY <1>1, <2>1, CreatedFollows
  <2>3. TaskTypes'
    BY <2>1 DEF TaskTypes
  <2> QED
    BY <2>1, <2>2, <2>3 DEF TableStep
<1> QED
  BY <1>2, <1>3, <1>4

(* The worker's own steps.                                                 *)
LEMMA WorkerStep ==
  ASSUME TableTypes, TaskTypes, NEW w \in Workers,
         \/ \E p \in Proposals, r \in Revisions : Claim(w, p, r)
         \/ Validate(w) \/ Evaluate(w) \/ Complete(w) \/ Fail(w)
  PROVE  /\ ThreadStep(w, {})
         /\ Evaluate(w) \/ UNCHANGED tables
<1>1. w \in Threads /\ Home(w) \in Processes /\ db \in Tables
  BY Names DEF TableTypes
<1>2. ASSUME NEW p \in Proposals, NEW r \in Revisions, Claim(w, p, r)
      PROVE  ThreadStep(w, {}) /\ UNCHANGED tables
  <2>1. [phase |-> "claimed", proposal |-> p, job |-> r, evaluated |-> r] \in WorkTask
    BY DEF WorkTask, WorkPhases
  <2> QED
    BY <1>1, <1>2, <2>1, TurnsTypes DEF Claim, ThreadStep, TableStep
<1>3. CASE Validate(w)
  <2>1. /\ task[w].phase \notin {"idle", "recording"} /\ UNCHANGED tables
        /\ Goes(w, "active") \/ Evaluates(w)
    BY <1>3 DEF Validate
  <2>2. task[w].proposal \in Proposals
    BY <1>1, <2>1, BusyTypes
  <2>3. Seen(Home(w)).signals[task[w].proposal] \in Revisions
    BY <1>1, <2>2, CommittedIs DEF Tables
  <2>4. "active" \in WorkPhases /\ "judged" \in WorkPhases
    BY DEF WorkPhases
  <2>5. TaskTypes' /\ \A y \in Threads \ {w} : task'[y] = task[y]
    <3>1. CASE Goes(w, "active")
      BY <1>1, <2>1, <2>4, <3>1, GoesTypes, Names
    <3>2. CASE Evaluates(w)
      <4> DEFINE r == Seen(Home(w)).signals[task[w].proposal]
      <4>1. task' = [task EXCEPT ![w].phase = "judged", ![w].evaluated = r]
        BY <3>2 DEF Evaluates
      <4> HIDE DEF r
      <4> QED
        BY <2>1, <2>3, <2>4, <4>1, EvaluatedTypes DEF r
    <3> QED
      BY <2>1, <3>1, <3>2
  <2> QED
    BY <2>1, <2>5 DEF ThreadStep, TableStep
<1>4. CASE Evaluate(w)
  <2> DEFINE ph == IF Eligible(db, task[w].proposal) /\ db.vector[task[w].proposal]
                   THEN "asked" ELSE "judged"
             r == db.signals[task[w].proposal]
  <2>1. /\ task[w].phase \notin {"idle", "recording"} /\ Committing(Home(w))
        /\ task' = [task EXCEPT ![w].evaluated = r, ![w].phase = ph]
    BY <1>4 DEF Evaluate
  <2>2. r \in Revisions /\ ph \in WorkPhases
    BY <1>1, <2>1, BusyTypes DEF Tables, WorkPhases, Judging
  <2>3. TableStep(Home(w), {})
    BY <1>1, <2>1, Closing
  <2> HIDE DEF ph, r
  <2> QED
    BY <1>1, <1>4, <2>1, <2>2, <2>3, EvaluatedTypes DEF ThreadStep
<1>5. CASE Complete(w) \/ Fail(w)
  <2>1. UNCHANGED tables /\ task' = [task EXCEPT ![w] = Idle]
    BY <1>5 DEF Complete, Fail
  <2> QED
    BY <1>1, <2>1, TurnsTypes DEF ThreadStep, TableStep
<1> QED
  BY <1>2, <1>3, <1>4, <1>5

LEMMA CrashStep ==
  ASSUME TableTypes, TaskTypes, NEW c \in Processes, Crash(c)
  PROVE  /\ TableStep(c, {}) /\ TaskTypes'
         /\ \A x \in Threads : task'[x] = IF Home(x) = c THEN Idle ELSE task[x]
<1>1. \A x \in Threads : task'[x] = IF Home(x) = c THEN Idle ELSE task[x]
  BY DEF Crash
<1>2. TaskTypes'
  BY <1>1, Names DEF Crash, TaskTypes
<1> QED
  BY <1>1, <1>2, Closing DEF Crash

-----------------------------------------------------------------------------
(* Jobs: one row of the queue is written at a time.                        *)
LEMMA JobWritten ==
  ASSUME JobTypes, NEW p \in Proposals, NEW r \in Revisions, NEW row \in JobRow,
         row.status \in {"none", "pending"} => row.attempts < MaxAttempts,
         jobs' = [jobs EXCEPT ![p][r] = row]
  PROVE  /\ JobTypes' /\ jobs'[p][r] = row
         /\ \A q \in Proposals : \A s \in Revisions : <<q, s>> # <<p, r>> => jobs'[q][s] = jobs[q][s]
<1>1. jobs'[p] = [jobs[p] EXCEPT ![r] = row] /\ \A q \in Proposals \ {p} : jobs'[q] = jobs[q]
  BY DEF JobTypes
<1>2. jobs[p] \in [Revisions -> JobRow]
  BY DEF JobTypes
<1>3. jobs' \in [Proposals -> [Revisions -> JobRow]]
  BY <1>1, <1>2 DEF JobTypes
<1>4. /\ jobs'[p][r] = row
      /\ \A q \in Proposals : \A s \in Revisions : <<q, s>> # <<p, r>> => jobs'[q][s] = jobs[q][s]
  BY <1>1, <1>2
<1> QED
  BY <1>3, <1>4 DEF JobTypes

LEMMA FailedTypes ==
  ASSUME NEW row \in JobRow
  PROVE  /\ Failed(row) \in JobRow
         /\ Failed(row).status \in {"pending", "dead"}
         /\ Failed(row).status = "pending" => Failed(row).attempts < MaxAttempts
BY DEF Failed, JobRow

LEMMA NoJobTypes ==
  LET row == [NoJob EXCEPT !.status = "pending"]
  IN  /\ NoJob \in JobRow /\ row \in JobRow /\ row.status = "pending"
      /\ NoJob.attempts < MaxAttempts /\ row.attempts < MaxAttempts
BY ProposalsAssumption, Names DEF NoJob, JobRow, Revisions

(* What a step makes of the jobs: they stay, or a row is queued, claimed   *)
(* or failed, or a worker completes its own with what it judged.           *)
JobsStep ==
  \/ UNCHANGED jobs
  \/ \E p \in Proposals, r \in Revisions, row \in JobRow :
       /\ row.status \in {"none", "pending"} => row.attempts < MaxAttempts
       /\ jobs' = [jobs EXCEPT ![p][r] = row]
       /\ row.status = "completed" =>
            \E w \in Workers : /\ task[w].phase = "judged" /\ task[w].proposal = p
                               /\ row.evaluated = task[w].evaluated

LEMMA JobsStepTypes ==
  ASSUME JobTypes, JobsStep
  PROVE  JobTypes'
BY JobWritten DEF JobsStep, JobTypes

LEMMA WorkerJobs ==
  ASSUME Types, NEW w \in Workers,
         \/ \E p \in Proposals, r \in Revisions : Claim(w, p, r)
         \/ Complete(w) \/ Fail(w)
  PROVE  JobsStep
<1>0. TaskTypes /\ JobTypes /\ w \in Threads
  BY Names DEF Types
<1>1. ASSUME NEW p \in Proposals, NEW r \in Revisions, Claim(w, p, r)
      PROVE  JobsStep
  <2> DEFINE row == [status |-> "leased", holder |-> w, attempts |-> jobs[p][r].attempts + 1,
                     evaluated |-> jobs[p][r].evaluated]
  <2>1. jobs[p][r] \in JobRow /\ jobs[p][r].attempts < MaxAttempts
    BY <1>0, <1>1 DEF JobTypes, Claim
  <2>2. row \in JobRow /\ row.status = "leased"
    BY <1>0, <2>1, ProposalsAssumption DEF JobRow
  <2>3. jobs' = [jobs EXCEPT ![p][r] = row]
    BY <1>1 DEF Claim
  <2> HIDE DEF row
  <2> QED
    BY <2>2, <2>3 DEF JobsStep
<1>2. CASE Complete(w) \/ Fail(w)
  <2>1. task[w].phase \notin {"idle", "recording"}
    BY <1>2 DEF Complete, Fail
  <2>2. /\ task[w].proposal \in Proposals /\ task[w].job \in Revisions
        /\ task[w].evaluated \in Revisions
    BY <1>0, <2>1, BusyTypes DEF WorkTask
  <2>3. Mine(w) \in JobRow
    BY <1>0, <2>2 DEF JobTypes, Mine
  <2> DEFINE done == [Mine(w) EXCEPT !.status = "completed", !.evaluated = task[w].evaluated]
  <2>4. done \in JobRow /\ done.status = "completed" /\ done.evaluated = task[w].evaluated
    BY <2>2, <2>3 DEF JobRow
  <2>5. \/ UNCHANGED jobs
        \/ /\ task[w].phase = "judged"
           /\ jobs' = [jobs EXCEPT ![task[w].proposal][task[w].job] = done]
        \/ jobs' = [jobs EXCEPT ![task[w].proposal][task[w].job] = Failed(Mine(w))]
    BY <1>2 DEF Complete, Fail, EvaluatedRevision
  <2> HIDE DEF done
  <2>6. CASE task[w].phase = "judged" /\ jobs' = [jobs EXCEPT ![task[w].proposal][task[w].job] = done]
    BY <2>2, <2>4, <2>6 DEF JobsStep
  <2>7. CASE jobs' = [jobs EXCEPT ![task[w].proposal][task[w].job] = Failed(Mine(w))]
    <3>1. Failed(Mine(w)) \in JobRow /\ Failed(Mine(w)).status \in {"pending", "dead"}
          /\ (Failed(Mine(w)).status = "pending" => Failed(Mine(w)).attempts < MaxAttempts)
      BY <2>3, FailedTypes
    <3> QED
      BY <2>2, <2>7, <3>1 DEF JobsStep
  <2> QED
    BY <2>5, <2>6, <2>7 DEF JobsStep
<1> QED
  BY <1>1, <1>2

LEMMA ServerJobs ==
  ASSUME Types, NEW p \in Proposals, Enqueue(p) \/ \E r \in Revisions : Lapse(p, r)
  PROVE  JobsStep
<1>0. JobTypes /\ db \in Tables
  BY DEF Types, TableTypes
<1>1. CASE Enqueue(p)
  <2>1. db.signals[p] \in Revisions
    BY <1>0 DEF Tables
  <2> QED
    BY <1>1, <2>1, NoJobTypes DEF Enqueue, JobsStep
<1>2. ASSUME NEW r \in Revisions, Lapse(p, r)
      PROVE  JobsStep
  <2>1. jobs[p][r] \in JobRow
    BY <1>0 DEF JobTypes
  <2> QED
    BY <1>2, <2>1, FailedTypes DEF Lapse, JobsStep
<1> QED
  BY <1>1, <1>2

-----------------------------------------------------------------------------
(* Every step: which process touched the tables, and what became of the    *)
(* tasks of the workers.                                                   *)
ServerStep == TableStep("server", {}) /\ TaskTypes' /\ \A w \in Workers : task'[w] = task[w]

LEMMA AnyStep ==
  ASSUME Types, [Next]_vars
  PROVE  /\ JobsStep /\ due' \subseteq Proposals
         /\ \/ ServerStep
            \/ \E w \in Workers : /\ Work(w)
                                  /\ ThreadStep(w, {}) \/ ThreadStep(w, Half(w))
            \/ \E c \in Processes : Crash(c)
<1>0. TableTypes /\ TaskTypes
  BY DEF Types
<1>1. ASSUME ThreadStep(Recorder, {}) \/ ThreadStep(Reviewer, {})
      PROVE  ServerStep
  BY <1>1, Names DEF ThreadStep, ServerStep
<1>2. CASE \/ KeepBooks \/ Finish \/ Evidence(Recorder)
           \/ \E p \in Proposals : Expose(p) \/ \E good \in BOOLEAN : Observe(p, good)
  <2>1. ThreadStep(Recorder, {})
    BY <1>0, <1>2, RecorderStep, SMTT(30)
  <2>2. UNCHANGED <<jobs, due>>
    BY <1>2 DEF KeepBooks, Finish, Expose, Observe, Evidence, Prepare, Gather, GatherFails
  <2> QED
    BY <1>1, <2>1, <2>2 DEF JobsStep, Types
<1>3. CASE \E p \in Proposals : Create(p) \/ Expire(p) \/ Reject(p) \/ Approve(p)
  <2>1. ServerStep
    BY <1>0, <1>3, ReviewStep DEF ServerStep
  <2>2. UNCHANGED <<jobs, due>>
    BY <1>3 DEF Create, Expire, Reject, Approve
  <2> QED
    BY <2>1, <2>2 DEF JobsStep, Types
<1>4. ASSUME UNCHANGED <<tables, task>>
      PROVE  ServerStep
  BY <1>0, <1>4 DEF ServerStep, TableStep, TaskTypes
<1>5. CASE \E p \in Proposals : Age(p)
  <2>1. UNCHANGED <<tables, task, jobs>> /\ due' \subseteq Proposals
    BY <1>5 DEF Age, Types
  <2> QED
    BY <1>4, <2>1 DEF JobsStep
<1>6. CASE \E p \in Proposals : Enqueue(p) \/ \E r \in Revisions : Lapse(p, r)
  <2>1. UNCHANGED <<tables, task, due>>
    BY <1>6 DEF Enqueue, Lapse
  <2>2. JobsStep
    BY <1>6, ServerJobs
  <2> QED
    BY <1>4, <2>1, <2>2 DEF Types
<1>7. CASE Promote(Reviewer)
  <2>1. ThreadStep(Reviewer, {})
    BY <1>0, <1>7, PromoteStep, Names
  <2>2. UNCHANGED <<jobs, due>>
    BY <1>7 DEF Promote, Look, Insert, Adopt, QueueIndex, Commit
  <2> QED
    BY <1>1, <2>1, <2>2 DEF JobsStep, Types
<1>8. ASSUME NEW w \in Workers, Work(w)
      PROVE  /\ JobsStep /\ due' \subseteq Proposals
             /\ ThreadStep(w, {}) \/ ThreadStep(w, Half(w))
  <2>1. w \in Threads
    BY Names
  <2>2. CASE Promote(w)
    <3>1. UNCHANGED <<jobs, due>>
      BY <2>2 DEF Promote, Look, Insert, Adopt, QueueIndex, Commit
    <3> QED
      BY <1>0, <2>1, <2>2, <3>1, PromoteStep DEF JobsStep, Types
  <2>3. CASE Evidence(w)
    <3>1. UNCHANGED <<jobs, due>>
      BY <2>3 DEF Evidence, Prepare, Gather, GatherFails
    <3>2. ThreadStep(w, {})
      BY <1>0, <2>1, <2>3, EvidenceStep
    <3> QED
      BY <3>1, <3>2 DEF JobsStep, Types
  <2>4. CASE \/ \E p \in Proposals, r \in Revisions : Claim(w, p, r)
             \/ Validate(w) \/ Evaluate(w) \/ Complete(w) \/ Fail(w)
    <3>1. due' = due
      BY <2>4 DEF Claim, Validate, Evaluate, Complete, Fail
    <3>2. JobsStep
      <4>1. CASE Validate(w) \/ Evaluate(w)
        BY <4>1 DEF Validate, Evaluate, JobsStep
      <4> QED
        BY <2>4, <4>1, WorkerJobs
    <3> QED
      BY <1>0, <2>4, <3>1, <3>2, WorkerStep DEF Types
  <2> QED
    BY <1>8, <2>2, <2>3, <2>4 DEF Work
<1>9. ASSUME NEW c \in Processes, Crash(c)
      PROVE  JobsStep /\ due' \subseteq Proposals
  BY <1>9 DEF Crash, JobsStep, Types
<1>10. CASE UNCHANGED vars
  BY <1>4, <1>10 DEF vars, JobsStep, Types
<1> QED
  BY <1>2, <1>3, <1>5, <1>6, <1>7, <1>8, <1>9, <1>10 DEF Next

LEMMA AnyTableStep ==
  ASSUME Types, [Next]_vars
  PROVE  TaskTypes' /\ \E c \in Processes, S \in SUBSET Proposals : TableStep(c, S)
<1>1. CASE ServerStep
  BY <1>1, Names DEF ServerStep
<1>2. ASSUME NEW w \in Workers, ThreadStep(w, {}) \/ ThreadStep(w, Half(w))
      PROVE  TaskTypes' /\ \E c \in Processes, S \in SUBSET Proposals : TableStep(c, S)
  <2>1. \A S : TableStep(Home(w), S) => TableStep(Home(w), S \cap Proposals)
    BY DEF TableStep, Follows
  <2> QED
    BY <1>2, <2>1, Names DEF ThreadStep
<1>3. ASSUME NEW c \in Processes, Crash(c)
      PROVE  TaskTypes' /\ \E d \in Processes, S \in SUBSET Proposals : TableStep(d, S)
  BY <1>3, CrashStep DEF Types
<1> QED
  BY <1>1, <1>2, <1>3, AnyStep

LEMMA TypeStep ==
  ASSUME Types, [Next]_vars
  PROVE  Types'
<1>1. TableTypes'
  BY AnyTableStep, TableStepTypes DEF Types
<1>2. JobTypes'
  BY AnyStep, JobsStepTypes DEF Types
<1> QED
  BY <1>1, <1>2, AnyStep, AnyTableStep DEF Types

LEMMA InitTypes == Init => Types
<1> SUFFICES ASSUME Init PROVE Types
  OBVIOUS
<1>1. TableTypes
  BY ProposalsAssumption
     DEF Init, TableTypes, Tables, Statuses, Actors, Revisions, Exclusive, InTransaction
<1>2. JobTypes
  BY NoJobTypes DEF Init, JobTypes
<1>3. TaskTypes
  BY Names DEF Init, TaskTypes
<1> QED
  BY <1>1, <1>2, <1>3 DEF Init, Types

(* Tables, jobs and tasks keep their types, and only one process at a time *)
(* has a transaction open, wherever the promotion workers run.             *)
THEOREM TypeCorrect == Spec => []TypeOK
<1>1. Types => TypeOK
  <2> SUFFICES ASSUME Types PROVE TypeOK
    OBVIOUS
  <2>1. Cardinality({c \in Processes : InTransaction(c)}) <= 1
    <3> DEFINE S == {c \in Processes : InTransaction(c)}
    <3>1. \A c, d \in S : c = d
      BY DEF Types, TableTypes, Exclusive
    <3>2. CASE S = {}
      BY <3>2, FS_EmptySet
    <3>3. ASSUME NEW c \in S PROVE Cardinality(S) <= 1
      <4>1. S = {c}
        BY <3>1, <3>3
      <4> QED
        BY <4>1, FS_Singleton
    <3> QED
      BY <3>2, <3>3
  <2>2. /\ db.status \in [Proposals -> {"absent", "pending", "adopted", "rejected", "expired"}]
        /\ db.signals \in [Proposals -> Revisions]
        /\ db.memory \in [Proposals -> {Nobody, Reviewer, Promoter}] /\ db.index \subseteq Proposals
    BY DEF Types, TableTypes, Tables, Statuses, Actors
  <2>3. \A p \in Proposals : \A r \in Revisions : jobs[p][r] \in JobRow
    BY DEF Types, JobTypes
  <2> QED
    BY <2>1, <2>2, <2>3 DEF TypeOK, JobRow, Types
<1> QED
  BY <1>1, InitTypes, TypeStep, PTL DEF Spec

-----------------------------------------------------------------------------
(* Decisions.  What is not committed has grown out of what is, so that no  *)
(* commit, rollback or crash revives what was settled.                     *)
Growing == Types /\ Grows(Committed, db)

LEMMA GrowingStep ==
  ASSUME Growing, [Next]_vars
  PROVE  Growing' /\ Grows(Committed, Committed')
<1>1. Types'
  BY TypeStep DEF Growing
<1>2. PICK c \in Processes, S \in SUBSET Proposals : TableStep(c, S)
  BY AnyTableStep DEF Growing
<1>3. Grows(Committed, Committed') /\ Grows(Committed', db')
  BY <1>2, TableStepCommits DEF Growing, Types
<1> QED
  BY <1>1, <1>3 DEF Growing

LEMMA InitGrowing == Init => Growing
<1> SUFFICES ASSUME Init PROVE Growing
  OBVIOUS
<1>1. Types /\ TableTypes /\ db \in Tables
  BY InitTypes DEF Types, TableTypes
<1>2. Committed = db
  BY <1>1, CommittedIs DEF Init, Unlocked, InTransaction
<1> QED
  BY <1>1, <1>2, FollowsItself DEF Growing

(* Wherever the workers run, whoever commits or undoes what on whose       *)
(* connection, and whatever crashes: a decision that was committed about a *)
(* proposal is never changed.                                              *)
THEOREM DecisionsAreFinal == Spec => DecisionsStand
<1>1. Growing /\ [Next]_vars =>
        Growing' /\ [\A p \in Proposals : Committed.status[p] \in {"adopted", "rejected", "expired"} =>
                        Committed'.status[p] = Committed.status[p]]_vars
  BY GrowingStep DEF Grows, GrowsAt, Settled
<1> QED
  BY <1>1, InitGrowing, PTL DEF Spec, DecisionsStand

-----------------------------------------------------------------------------
(* Each worker is the only thread of its process, as in the daemon.        *)
Apart == ~WorkerInServer

(* A worker's own connection has a transaction open exactly while the      *)
(* worker is in the middle of a promotion.                                 *)
Writing == {"inserted", "adopted", "indexed"}
Locks == \A w \in Workers : InTransaction(w) <=> task[w].phase \in Writing

(* What a worker promoted is whole, but for what one has in hand.          *)
Promoting(w) == task[w].phase \in {"inserted", "adopted"}
Promotions ==
  /\ \A p \in Proposals : SoundAt(Committed, p)
  /\ \A p \in Proposals : (\A w \in Workers : Promoting(w) => task[w].proposal # p) => SoundAt(db, p)
  /\ \A w \in Workers : Promoting(w) => db.memory[task[w].proposal] # Nobody
  /\ \A w \in Workers : task[w].phase = "adopted" => db.status[task[w].proposal] = "adopted"

Whole == Growing /\ Locks /\ Promotions

LEMMA Homes ==
  ASSUME Apart
  PROVE  \A x \in Threads : Home(x) = IF x \in Workers THEN x ELSE "server"
BY DEF Apart, Home

(* While a worker has a transaction open no other process touches the      *)
(* tables, and no other worker is in the middle of a promotion.            *)
LEMMA OneWrites ==
  ASSUME Whole, NEW w \in Workers, InTransaction(w)
  PROVE  /\ \A v \in Workers : task[v].phase \in Writing => v = w
         /\ \A c \in Processes : c # w => \A S : TableStep(c, S) => UNCHANGED tables
         /\ Committed = txn[w] /\ MayWrite(w)
<1>1. TableTypes /\ Workers \subseteq Processes
  BY Names DEF Whole, Growing, Types
<1>2. \A v \in Workers : task[v].phase \in Writing => v = w
  BY <1>1 DEF Whole, Locks, TableTypes, Exclusive
<1>3. ASSUME NEW c \in Processes, NEW S, c # w, TableStep(c, S)
      PROVE  UNCHANGED tables
  <2>1. ~MayWrite(c) /\ ~InTransaction(c)
    BY <1>1, <1>3 DEF MayWrite, TableTypes, Exclusive
  <2>2. [txn EXCEPT ![c] = Closed] = txn
    BY <1>1, <2>1, Closing
  <2> QED
    BY <1>3, <2>1, <2>2 DEF TableStep, RollingBack, tables
<1> QED
  BY <1>1, <1>2, <1>3, CommittedIs

(* No worker is in the middle of a promotion before or after the step.     *)
LEMMA NobodyWrites ==
  ASSUME Whole, Growing', NEW c \in Processes, TableStep(c, {}),
         \A w \in Workers : ~InTransaction(w) /\ ~InTransaction(w)' /\ task'[w].phase \notin Writing
  PROVE  Whole'
<1>1. TableTypes /\ TableTypes' /\ Grows(Committed, db)
  BY DEF Growing, Types, Whole
<1>2. \A w \in Workers : task[w].phase \notin Writing /\ ~Promoting(w) /\ ~Promoting(w)'
  BY DEF Whole, Locks, Promoting, Writing
<1>3. \A p \in Proposals : SoundAt(Committed, p) /\ SoundAt(db, p)
  BY <1>2 DEF Whole, Promotions
<1>4. /\ Committed' = Committed \/ (Committed' = db' /\ Follows(db, db', {}))
      /\ db' = Committed \/ db' = db \/ Follows(db, db', {})
  BY <1>1, TableStepCommits
<1>5. Follows(db, db', {}) => \A p \in Proposals : SoundAt(db', p)
  BY <1>3 DEF Follows
<1>6. \A p \in Proposals : SoundAt(Committed', p) /\ SoundAt(db', p)
  BY <1>3, <1>4, <1>5
<1>7. (\A p \in Proposals : SoundAt(Committed, p))' /\ (\A p \in Proposals : SoundAt(db, p))'
  BY <1>6 DEF SoundAt
<1>8. Promotions'
  BY <1>2, <1>7 DEF Promotions, Promoting, Writing
<1>9. Locks'
  BY DEF Locks
<1> QED
  BY <1>8, <1>9 DEF Whole

(* A step of a process that is not in the middle of a worker's promotion.  *)
LEMMA QuietStep ==
  ASSUME Whole, Growing', NEW c \in Processes, TableStep(c, {}),
         \A w \in Workers \ {c} : task'[w] = task[w],
         c \in Workers => ~InTransaction(c) /\ ~InTransaction(c)' /\ task'[c].phase \notin Writing
  PROVE  Whole'
<1>1. TableTypes /\ \A w \in Workers \ {c} : txn'[w] = txn[w]
  BY TableStepTypes, Names DEF Whole, Growing, Types
<1>2. CASE \E v \in Workers : InTransaction(v)
  <2>1. PICK v \in Workers : InTransaction(v)
    BY <1>2
  <2>2. UNCHANGED tables
    BY <2>1, OneWrites
  <2>3. UNCHANGED <<db, txn>> /\ Committed' = Committed
    BY <2>2 DEF tables, Committed, Unlocked, InTransaction
  <2>4. \A w \in Workers : /\ task'[w].phase \in Writing <=> task[w].phase \in Writing
                           /\ task[w].phase \in Writing => task'[w] = task[w]
    BY DEF Whole, Locks
  <2>5. Locks'
    BY <2>3, <2>4 DEF Whole, Locks, InTransaction
  <2>6. \A w \in Workers : Promoting(w) \/ Promoting(w)' => task'[w] = task[w]
    BY <2>4 DEF Promoting, Writing
  <2>7. Promotions'
    <3>1. \A p \in Proposals : SoundAt(Committed, p)'
      BY <2>3 DEF Whole, Promotions, SoundAt
    <3>2. ASSUME NEW p \in Proposals, (\A w \in Workers : Promoting(w) => task[w].proposal # p)'
          PROVE  SoundAt(db, p)'
      <4>1. \A w \in Workers : Promoting(w) => task[w].proposal # p
        BY <2>6, <3>2 DEF Promoting
      <4> QED
        BY <2>3, <4>1 DEF Whole, Promotions, SoundAt
    <3>3. ASSUME NEW w \in Workers, Promoting(w)'
          PROVE  /\ db'.memory[task'[w].proposal] # Nobody
                 /\ task'[w].phase = "adopted" => db'.status[task'[w].proposal] = "adopted"
      BY <2>3, <2>6, <3>3 DEF Whole, Promotions, Promoting
    <3> QED
      BY <3>1, <3>2, <3>3 DEF Promotions, Promoting
  <2> QED
    BY <2>5, <2>7 DEF Whole
<1>3. CASE \A v \in Workers : ~InTransaction(v)
  <2>1. \A w \in Workers \ {c} : ~InTransaction(w)' /\ task'[w].phase \notin Writing
    BY <1>1, <1>3 DEF InTransaction, Whole, Locks
  <2> QED
    BY <1>3, <2>1, NobodyWrites
<1> QED
  BY <1>2, <1>3

(* A worker's promotion is undone, by the worker or by a crash.            *)
LEMMA UndoneStep ==
  ASSUME Whole, Growing', NEW w \in Workers, RollingBack(w),
         \A v \in Workers \ {w} : task'[v] = task[v], task'[w].phase \notin Writing
  PROVE  Whole'
<1>0. TableTypes /\ TableTypes' /\ w \in Processes /\ Workers \subseteq Processes
  BY Names DEF Whole, Growing, Types
<1>1. ~InTransaction(w)'
  BY <1>0 DEF RollingBack, TableTypes, InTransaction
<1>2. CASE ~InTransaction(w)
  <2>1. TableStep(w, {})
    BY <1>0, Closing
  <2> QED
    BY <1>0, <1>1, <1>2, <2>1, QuietStep
<1>3. CASE InTransaction(w)
  <2>1. \A c \in Processes : ~InTransaction(c)'
    BY <1>0, <1>3 DEF RollingBack, InTransaction, TableTypes, Exclusive
  <2>2. Committed' = db' /\ db' = Committed
    BY <1>0, <1>3, <2>1, CommittedIs, CommittedNext DEF Unlocked, RollingBack
  <2>3. \A v \in Workers : task'[v].phase \notin Writing
    BY <1>3, OneWrites
  <2>4. (\A p \in Proposals : SoundAt(Committed, p))' /\ (\A p \in Proposals : SoundAt(db, p))'
    BY <2>2 DEF Whole, Promotions, SoundAt
  <2>5. Locks' /\ Promotions'
    BY <1>0, <2>1, <2>3, <2>4 DEF Locks, Promotions, Promoting, Writing
  <2> QED
    BY <2>5 DEF Whole
<1> QED
  BY <1>2, <1>3

-----------------------------------------------------------------------------
(* The steps of a worker's promotion.                                      *)
LEMMA Refusal ==
  ASSUME Whole, Growing', Apart, NEW w \in Workers, task[w].phase \notin {"idle", "recording"},
         Refused(w)
  PROVE  Whole'
<1>1. /\ \A v \in Workers \ {w} : task'[v] = task[v]
      /\ task'[w].phase \notin Writing
  BY EndsTypes, Names DEF Refused, Whole, Growing, Types, Writing
<1>2. RollingBack(w)
  BY Homes, Names DEF Refused
<1> QED
  BY <1>1, <1>2, UndoneStep

LEMMA Confirmation ==
  ASSUME Whole, Growing', Apart, NEW w \in Workers, task[w].phase \in {"asked", "preparing"},
         Confirm(w)
  PROVE  Whole'
<1>0. w \in Threads /\ w \in Processes /\ TaskTypes /\ TableTypes /\ Home(w) = w
  BY Names, Homes DEF Whole, Growing, Types
<1>1. CASE Refused(w)
  BY <1>1, Refusal
<1>2. CASE Promoted(w) /\ txn' = txn
  <2>1. TableStep(w, {})
    BY <1>0, ConfirmStep DEF ThreadStep
  <2>2. ~InTransaction(w) /\ ~InTransaction(w)'
    BY <1>2 DEF Whole, Locks, Writing, InTransaction
  <2>3. task'[w].phase = "judged" /\ \A v \in Threads \ {w} : task'[v] = task[v]
    BY <1>0, <1>2, PromotedTypes
  <2> QED
    BY <1>0, <2>1, <2>2, <2>3, QuietStep, Names DEF Writing
<1> QED
  BY <1>1, <1>2 DEF Confirm, Changing

LEMMA Looked ==
  ASSUME Whole, Growing', Apart, NEW w \in Workers, Look(w)
  PROVE  Whole'
<1>0. /\ w \in Threads /\ w \in Processes /\ TaskTypes /\ TableTypes /\ Home(w) = w
      /\ task[w].phase = "asked"
  BY Names, Homes DEF Whole, Growing, Types, Look
<1>1. CASE Refused(w)
  BY <1>0, <1>1, Refusal
<1>2. CASE Confirm(w)
  BY <1>0, <1>2, Confirmation
<1>3. CASE /\ Ends(w) \/ Goes(w, "preparing")
           /\ txn' = txn
  <2>1. TableStep(w, {})
    BY <1>0, LookStep DEF ThreadStep
  <2>2. ~InTransaction(w) /\ ~InTransaction(w)'
    BY <1>0, <1>3 DEF Whole, Locks, Writing, InTransaction
  <2>3. "preparing" \in WorkPhases /\ w # Reviewer /\ w # Recorder
    BY Names DEF WorkPhases, Judging
  <2>4. task'[w].phase \notin Writing /\ \A v \in Threads \ {w} : task'[v] = task[v]
    BY <1>0, <1>3, <2>3, EndsTypes, GoesTypes DEF Writing
  <2> QED
    BY <1>0, <2>1, <2>2, <2>4, QuietStep, Names
<1> QED
  BY <1>1, <1>2, <1>3 DEF Look, Changing, tables

LEMMA Inserted ==
  ASSUME Whole, Growing', Apart, NEW w \in Workers, Insert(w)
  PROVE  Whole'
<1> DEFINE p == task[w].proposal
           e == [db EXCEPT !.memory[p] = IF @ = Nobody THEN Actor(w) ELSE @]
<1>0. /\ w \in Threads /\ w \in Processes /\ TaskTypes /\ TableTypes /\ TableTypes' /\ Home(w) = w
      /\ task[w].phase = "preparing" /\ MayWrite(w) /\ ~InTransaction(w) /\ db \in Tables
      /\ w # Recorder /\ w # Reviewer
  BY Names, Homes DEF Whole, Growing, Types, Insert, Locks, Writing, TableTypes
<1>1. CASE Refused(w)
  BY <1>0, <1>1, Refusal
<1>2. CASE Confirm(w)
  BY <1>0, <1>2, Confirmation
<1>3. CASE Pending(db, p) /\ txn' = Begun(w) /\ db' = e /\ Goes(w, "inserted")
  <2>1. p \in Proposals
    BY <1>0, BusyTypes
  <2>2. /\ task'[w].phase = "inserted" /\ task'[w].proposal = p
        /\ \A v \in Workers \ {w} : task'[v] = task[v]
    BY <1>0, <1>3, GoesTypes, Names DEF WorkPhases, Judging
  <2>3. Unlocked /\ Committed = db
    BY <1>0, CommittedIs
  <2>4. txn'[w] = db /\ \A v \in Workers \ {w} : txn'[v] = txn[v]
    BY <1>0, <1>3, Names DEF Begun, Opened, TableTypes
  <2>5. InTransaction(w)' /\ Committed' = db
    BY <1>0, <2>4, ClosedIsNoTable, CommittedNext DEF InTransaction
  <2>6. \A v \in Workers \ {w} : ~InTransaction(v) /\ ~InTransaction(v)'
    BY <1>0, <2>3, <2>4, Names DEF Unlocked, InTransaction
  <2>7. \A v \in Workers : ~Promoting(v) /\ (Promoting(v)' => v = w)
    BY <1>0, <2>2, <2>6 DEF Whole, Locks, Promoting, Writing
  <2>8. Locks'
    BY <2>2, <2>5, <2>6 DEF Whole, Locks, Writing
  <2>9. Follows(db, db', {p}) /\ db'.memory[p] # Nobody
    BY <1>0, <1>3, <2>1, ActorIs, InsertedFollows
  <2>10. \A q \in Proposals : SoundAt(db, q)
    BY <2>7 DEF Whole, Promotions
  <2>11. \A q \in Proposals \ {p} : SoundAt(db, q)'
    BY <2>9, <2>10 DEF Follows, SoundAt
  <2>12. \A q \in Proposals : SoundAt(Committed, q)'
    BY <2>5, <2>10 DEF SoundAt
  <2>13. Promotions'
    BY <2>2, <2>7, <2>9, <2>11, <2>12 DEF Promotions, Promoting
  <2> QED
    BY <2>8, <2>13 DEF Whole
<1> QED
  BY <1>0, <1>1, <1>2, <1>3 DEF Insert

(* A worker that goes on in its transaction.                               *)
LEMMA GoesOn ==
  ASSUME Whole, Growing', NEW w \in Workers, task[w].phase \in {"inserted", "adopted"},
         MayWrite(w), txn' = Opened(w), NEW ph \in {"adopted", "indexed"}, Goes(w, ph),
         Follows(db, db', {task[w].proposal})
  PROVE  /\ Locks' /\ task'[w].phase = ph /\ task'[w].proposal = task[w].proposal
         /\ task[w].proposal \in Proposals
         /\ \A p \in Proposals : SoundAt(Committed, p)'
         /\ \A p \in Proposals \ {task[w].proposal} : SoundAt(db, p)'
         /\ \A v \in Workers : Promoting(v)' => v = w
<1>0. /\ w \in Threads /\ w \in Processes /\ TaskTypes /\ TableTypes /\ TableTypes'
      /\ w # Recorder /\ w # Reviewer
  BY Names DEF Whole, Growing, Types
<1>1. InTransaction(w)
  BY DEF Whole, Locks, Writing
<1>2. txn' = txn
  BY <1>0, <1>1 DEF Opened, TableTypes
<1>3. Committed' = Committed
  BY <1>0, <1>1, <1>2, CommittedIs, CommittedNext DEF InTransaction
<1>4. /\ task'[w].phase = ph /\ task'[w].proposal = task[w].proposal
      /\ \A v \in Workers \ {w} : task'[v] = task[v]
  BY <1>0, GoesTypes, Names DEF WorkPhases, Judging
<1>5. \A v \in Workers : task[v].phase \in Writing => v = w
  BY <1>1, OneWrites
<1>6. Locks'
  BY <1>2, <1>4 DEF Whole, Locks, Writing, InTransaction
<1>7. \A v \in Workers : Promoting(v) \/ Promoting(v)' => v = w
  BY <1>4, <1>5 DEF Promoting, Writing
<1>8. \A p \in Proposals : SoundAt(Committed, p)'
  BY <1>3 DEF Whole, Promotions, SoundAt
<1>9. ASSUME NEW p \in Proposals, p # task[w].proposal
      PROVE  SoundAt(db, p)'
  <2>1. SoundAt(db, p)
    BY <1>7, <1>9 DEF Whole, Promotions
  <2> QED
    BY <1>9, <2>1 DEF Follows, SoundAt
<1>10. task[w].proposal \in Proposals
  BY <1>0, BusyTypes
<1> QED
  BY <1>4, <1>6, <1>7, <1>8, <1>9, <1>10

LEMMA Adoption ==
  ASSUME Whole, Growing', Apart, NEW w \in Workers, Adopt(w)
  PROVE  Whole'
<1> DEFINE p == task[w].proposal
           e == [With(db, p, "adopted") EXCEPT !.approver[p] = Actor(w)]
<1>0. /\ w \in Threads /\ TaskTypes /\ Home(w) = w /\ task[w].phase = "inserted"
      /\ MayWrite(w) /\ db \in Tables /\ w # Recorder
  BY Names, Homes DEF Whole, Growing, Types, Adopt, TableTypes
<1>1. CASE Ends(w) /\ RollingBack(w)
  BY <1>0, <1>1, EndsTypes, UndoneStep, Names DEF Writing
<1>2. CASE Pending(db, p) /\ txn' = Opened(w) /\ db' = e /\ Goes(w, "adopted")
  <2>1. p \in Proposals
    BY <1>0, BusyTypes
  <2>2. Follows(db, db', {p}) /\ db'.status[p] = "adopted" /\ db'.memory = db.memory
    <3>1. Actor(w) \in {Reviewer, Promoter} /\ Pending(db, p)
      BY <1>0, <1>2, ActorIs
    <3>2. p \in {p}
      OBVIOUS
    <3>3. Follows(db, e, {p})
      <4> HIDE DEF p
      <4> QED
        BY <1>0, <2>1, <3>1, <3>2, AdoptedFollows
    <3>4. e.status[p] = "adopted" /\ e.memory = db.memory
      <4> HIDE DEF p
      <4> QED
        BY <1>0, <2>1 DEF With, Tables
    <3> HIDE DEF e
    <3> QED
      BY <1>2, <3>3, <3>4
  <2>3. /\ Locks' /\ task'[w].phase = "adopted" /\ task'[w].proposal = p
        /\ \A q \in Proposals : SoundAt(Committed, q)'
        /\ \A q \in Proposals \ {p} : SoundAt(db, q)'
        /\ \A v \in Workers : Promoting(v)' => v = w
    BY <1>0, <1>2, <2>2, GoesOn
  <2>4. db.memory[p] # Nobody
    BY <1>0 DEF Whole, Promotions, Promoting
  <2>5. Promotions'
    BY <2>2, <2>3, <2>4 DEF Promotions, Promoting
  <2> QED
    BY <2>3, <2>5 DEF Whole
<1> QED
  BY <1>0, <1>1, <1>2 DEF Adopt

LEMMA Indexing ==
  ASSUME Whole, Growing', Apart, NEW w \in Workers, QueueIndex(w)
  PROVE  Whole'
<1> DEFINE p == task[w].proposal
           e == [db EXCEPT !.index = @ \cup {p}]
<1>0. /\ w \in Threads /\ TaskTypes /\ Home(w) = w /\ task[w].phase = "adopted"
      /\ MayWrite(w) /\ db \in Tables
  BY Names, Homes DEF Whole, Growing, Types, QueueIndex, TableTypes
<1>1. CASE Ends(w) /\ RollingBack(w)
  BY <1>0, <1>1, EndsTypes, UndoneStep, Names DEF Writing
<1>2. CASE db.memory[p] # Nobody /\ txn' = Opened(w) /\ db' = e /\ Goes(w, "indexed")
  <2>1. p \in Proposals
    BY <1>0, BusyTypes
  <2>2. /\ Follows(db, db', {p}) /\ db'.status = db.status /\ db'.memory = db.memory
        /\ db'.index = db.index \cup {p}
    BY <1>0, <1>2, <2>1, IndexedFollows
  <2>3. /\ Locks' /\ task'[w].phase = "indexed"
        /\ \A q \in Proposals : SoundAt(Committed, q)'
        /\ \A q \in Proposals \ {p} : SoundAt(db, q)'
        /\ \A v \in Workers : Promoting(v)' => v = w
    BY <1>0, <1>2, <2>2, GoesOn
  <2>4. db.status[p] = "adopted"
    BY <1>0 DEF Whole, Promotions
  <2>5. \A q \in Proposals : q = p => SoundAt(db, q)'
    BY <1>2, <2>2, <2>4 DEF SoundAt
  <2>6. \A v \in Workers : ~Promoting(v)'
    BY <2>3 DEF Promoting
  <2>7. \A q \in Proposals : SoundAt(db, q)'
    BY <2>3, <2>5
  <2>8. Promotions'
    BY <2>3, <2>6, <2>7 DEF Promotions, Promoting
  <2> QED
    BY <2>3, <2>8 DEF Whole
<1> QED
  BY <1>0, <1>1, <1>2 DEF QueueIndex

LEMMA Commitment ==
  ASSUME Whole, Growing', Apart, NEW w \in Workers, Commit(w)
  PROVE  /\ Whole' /\ Committed' = db /\ db' = db
<1>0. /\ w \in Threads /\ w \in Processes /\ TaskTypes /\ TableTypes /\ TableTypes'
      /\ Home(w) = w /\ task[w].phase = "indexed" /\ Committing(w)
      /\ Promoted(w) \/ Ends(w)
  BY Names, Homes DEF Whole, Growing, Types, Commit
<1>1. InTransaction(w)
  BY <1>0 DEF Whole, Locks, Writing
<1>2. /\ task'[w].phase \notin Writing /\ ~Promoting(w) /\ ~Promoting(w)'
      /\ \A v \in Workers \ {w} : task'[v] = task[v]
  BY <1>0, PromotedTypes, EndsTypes, Names DEF Writing, Promoting
<1>3. \A v \in Workers \ {w} : task[v].phase \notin Writing /\ ~Promoting(v) /\ ~Promoting(v)'
  BY <1>1, <1>2, OneWrites DEF Promoting, Writing
<1>4. \A c \in Processes : ~InTransaction(c)'
  BY <1>0, <1>1 DEF Committing, InTransaction, TableTypes, Exclusive
<1>5. Committed' = db /\ db' = db
  BY <1>0, <1>4, CommittedNext DEF Committing, Unlocked
<1>6. \A p \in Proposals : SoundAt(db, p)
  BY <1>2, <1>3 DEF Whole, Promotions
<1>7. (\A p \in Proposals : SoundAt(Committed, p))' /\ (\A p \in Proposals : SoundAt(db, p))'
  BY <1>5, <1>6 DEF SoundAt
<1>8. Promotions'
  BY <1>2, <1>3, <1>7 DEF Promotions, Promoting
<1>9. Locks'
  BY <1>2, <1>3, <1>4, Names DEF Locks
<1> QED
  BY <1>5, <1>8, <1>9 DEF Whole

(* What a worker does between promotions, on a connection with nothing     *)
(* open.                                                                   *)
LEMMA Unpromoting ==
  ASSUME Whole, Growing', Apart, NEW w \in Workers,
         \/ \E p \in Proposals, r \in Revisions : Claim(w, p, r)
         \/ Validate(w) \/ Evidence(w) \/ Evaluate(w) \/ Complete(w) \/ Fail(w)
  PROVE  Whole' /\ ~InTransaction(w)
<1>0. /\ w \in Threads /\ w \in Processes /\ TaskTypes /\ TableTypes /\ Home(w) = w
      /\ w # Recorder /\ w # Reviewer
  BY Names, Homes DEF Whole, Growing, Types
<1>1. task[w].phase \notin Writing
  <2>1. CASE \E p \in Proposals, r \in Revisions : Claim(w, p, r)
    BY <2>1 DEF Claim, Idle, Writing
  <2>2. CASE Evidence(w)
    <3>1. task[w].phase \in {"active", "embedding"}
      BY <2>2 DEF Evidence, Prepare, Gather, GatherFails
    <3> QED
      BY <3>1 DEF Writing
  <2>3. CASE Validate(w) \/ Evaluate(w) \/ Complete(w) \/ Fail(w)
    BY <2>3 DEF Validate, Evaluate, Complete, Fail, Writing
  <2> QED
    BY <2>1, <2>2, <2>3
<1>2. ~InTransaction(w)
  BY <1>1 DEF Whole, Locks
<1>3. ThreadStep(w, {})
  BY <1>0, WorkerStep, EvidenceStep
<1>4. ~InTransaction(w)'
  <2>1. txn' = txn \/ txn' = [txn EXCEPT ![w] = Closed]
    <3>1. CASE Evidence(w)
      BY <1>0, <3>1 DEF Evidence, Prepare, Gather, GatherFails, Committing, RollingBack, tables
    <3>2. CASE Evaluate(w)
      BY <1>0, <3>2 DEF Evaluate, Committing
    <3>3. CASE \/ \E p \in Proposals, r \in Revisions : Claim(w, p, r)
               \/ Validate(w) \/ Complete(w) \/ Fail(w)
      BY <3>3 DEF Claim, Validate, Complete, Fail, tables
    <3> QED
      BY <3>1, <3>2, <3>3, Zenon
  <2> QED
    BY <1>0, <1>2, <2>1, Closing DEF InTransaction
<1>5. task'[w].phase \notin Writing
  <2>1. CASE \E p \in Proposals, r \in Revisions : Claim(w, p, r)
    BY <1>0, <2>1 DEF Claim, TaskTypes, Writing
  <2>2. CASE Validate(w) \/ Evidence(w)
    <3>1. task[w].phase \in {"claimed", "active", "embedding"}
      BY <2>2 DEF Validate, Evidence, Prepare, Gather, GatherFails
    <3>2. \/ Goes(w, "active") \/ Goes(w, "embedding")
          \/ Collected(w) \/ Ends(w) \/ Evaluates(w)
      <4>1. CASE Validate(w)
        BY <4>1, ZenonT(30) DEF Validate
      <4>2. CASE Evidence(w)
        BY <4>2 DEF Evidence, Prepare, Gather, GatherFails
      <4> QED
        BY <2>2, <4>1, <4>2
    <3>3. CASE Goes(w, "active") \/ Goes(w, "embedding")
      BY <1>0, <3>1, <3>3, GoesTypes DEF WorkPhases, Writing
    <3>4. CASE Collected(w) \/ Ends(w)
      BY <1>0, <3>1, <3>4, CollectedTypes, EndsTypes DEF Writing
    <3>5. CASE Evaluates(w)
      <4>1. task[w] \in WorkTask
        BY <1>0, <3>1, BusyTypes
      <4> QED
        BY <1>0, <3>5, <4>1 DEF Evaluates, TaskTypes, WorkTask, Writing
    <3> QED
      BY <3>2, <3>3, <3>4, <3>5, Zenon
  <2>3. CASE Evaluate(w)
    <3>1. task[w] \in WorkTask
      BY <1>0, <2>3, BusyTypes DEF Evaluate
    <3> QED
      BY <1>0, <2>3, <3>1 DEF Evaluate, TaskTypes, WorkTask, Writing
  <2>4. CASE Complete(w) \/ Fail(w)
    BY <1>0, <2>4 DEF Complete, Fail, TaskTypes, Idle, Writing
  <2> QED
    BY <2>1, <2>2, <2>3, <2>4
<1>6. \A v \in Workers \ {w} : task'[v] = task[v]
  BY <1>3, Names DEF ThreadStep
<1>7. Whole'
  BY <1>0, <1>2, <1>3, <1>4, <1>5, <1>6, QuietStep DEF ThreadStep
<1> QED
  BY <1>2, <1>7

LEMMA WholeStep ==
  ASSUME Whole, Apart, [Next]_vars
  PROVE  Whole'
<1>0. Growing' /\ Types /\ TableTypes /\ TaskTypes
  BY GrowingStep DEF Whole, Growing, Types
<1>1. CASE ServerStep
  BY <1>0, <1>1, QuietStep, Names DEF ServerStep
<1>2. ASSUME NEW w \in Workers, Work(w) PROVE Whole'
  BY <1>0, <1>2, Unpromoting, Looked, Inserted, Adoption, Indexing, Commitment DEF Work, Promote
<1>3. ASSUME NEW c \in Processes, Crash(c) PROVE Whole'
  <2>1. /\ TableStep(c, {}) /\ RollingBack(c)
        /\ \A w \in Workers : task'[w] = IF w = c THEN Idle ELSE task[w]
    BY <1>0, <1>3, CrashStep, Homes, Names DEF Crash
  <2>2. CASE c \in Workers
    BY <1>0, <2>1, <2>2, UndoneStep DEF Idle, Writing
  <2>3. CASE c \notin Workers
    BY <1>0, <2>1, <2>3, QuietStep
  <2> QED
    BY <2>2, <2>3
<1> QED
  BY <1>0, <1>1, <1>2, <1>3, AnyStep

LEMMA InitWhole == Init => Whole
<1> SUFFICES ASSUME Init PROVE Whole
  OBVIOUS
<1>1. Growing /\ TableTypes
  BY InitGrowing DEF Growing, Types
<1>2. \A w \in Workers : task[w].phase = "idle" /\ ~InTransaction(w)
  BY Names DEF Init, Idle, InTransaction
<1>3. Committed = db
  BY <1>1, CommittedIs DEF Init, Unlocked, InTransaction
<1>4. \A p \in Proposals : SoundAt(db, p)
  BY Names DEF Init, SoundAt
<1>5. Locks /\ Promotions
  BY <1>2, <1>3, <1>4 DEF Locks, Promotions, Promoting, Writing
<1> QED
  BY <1>1, <1>5 DEF Whole

(* The invariant of workers on connections of their own: each has a        *)
(* transaction open exactly while it promotes, the recorder and the        *)
(* reviewer share the server's, and what a worker promoted is whole.       *)
THEOREM Invariant == Apart => (Spec => []Whole)
<1> SUFFICES ASSUME Apart PROVE Spec => []Whole
  OBVIOUS
<1>1. Whole /\ [Next]_vars => Whole'
  BY WholeStep
<1> QED
  BY <1>1, InitWhole, PTL DEF Spec

(* With each worker on a connection of its own, a memory it wrote or a     *)
(* proposal it approved is committed with all of its promotion, whatever   *)
(* the server's threads commit or roll back on theirs.                     *)
THEOREM WorkersPromoteAtOnce == Apart => (Spec => []PromotedAtOnce)
<1>1. Whole => PromotedAtOnce
  BY DEF Whole, Promotions, SoundAt, PromotedAtOnce
<1> QED
  BY <1>1, Invariant, PTL

-----------------------------------------------------------------------------
(* In these tables revision r of proposal p was judged: it is not the      *)
(* current one, or the gates are closed, or the proposal is settled.       *)
JudgedIn(d, p, r) ==
  /\ r <= d.signals[p]
  /\ ~(Eligible(d, p) /\ d.vector[p] /\ d.signals[p] = r)

Decided(w) ==
  /\ task[w].phase \in Judging => task[w].evaluated <= Committed.signals[task[w].proposal]
  /\ task[w].phase = "judged" => JudgedIn(Committed, task[w].proposal, task[w].evaluated)

Decisions ==
  /\ \A w \in Workers : Decided(w)
  /\ \A p \in Proposals : \A r \in Revisions :
       jobs[p][r].status = "completed" => JudgedIn(Committed, p, jobs[p][r].evaluated)

LEMMA JudgedStands ==
  ASSUME NEW d \in Tables, NEW e \in Tables, Grows(d, e), NEW p \in Proposals, NEW r \in Revisions,
         JudgedIn(d, p, r)
  PROVE  JudgedIn(e, p, r)
<1>1. d.signals[p] \in Nat /\ e.signals[p] \in Nat /\ r \in Nat
  BY ProposalsAssumption DEF Tables, Revisions
<1>2. r <= d.signals[p] /\ d.signals[p] <= e.signals[p]
  BY DEF JudgedIn, Grows, GrowsAt
<1>3. r <= e.signals[p] /\ (e.signals[p] = r => e.signals[p] = d.signals[p] /\ d.signals[p] = r)
  BY <1>1, <1>2
<1>4. Eligible(e, p) /\ e.vector[p] /\ e.signals[p] = d.signals[p] => Eligible(d, p) /\ d.vector[p]
  BY DEF Grows, GrowsAt
<1>5. ~(Eligible(d, p) /\ d.vector[p] /\ d.signals[p] = r)
  BY DEF JudgedIn
<1> QED
  BY <1>3, <1>4, <1>5, Zenon DEF JudgedIn

(* What the tables of a step are.                                          *)
LEMMA Boundaries ==
  ASSUME Whole, [Next]_vars
  PROVE  /\ Committed \in Tables /\ Committed' \in Tables /\ db \in Tables
         /\ Grows(Committed, Committed') /\ Types /\ TableTypes /\ TableTypes' /\ TaskTypes
<1>1. Types /\ Types' /\ Grows(Committed, Committed')
  BY GrowingStep DEF Whole, Growing
<1>2. Committed' = db' \/ \E c \in Processes : InTransaction(c)' /\ Committed' = txn'[c]
  BY <1>1, CommittedNext DEF Types, Unlocked
<1>3. Committed' \in Tables
  BY <1>1, <1>2 DEF Types, TableTypes, InTransaction
<1> QED
  BY <1>1, <1>3, CommittedIs DEF Types, TableTypes

(* A worker that stands still, or only moves on in its promotion.          *)
LEMMA DecidedStands ==
  ASSUME Whole, [Next]_vars, NEW w \in Workers, Decided(w),
         \/ task'[w] = task[w]
         \/ /\ task[w].phase \in Judging /\ task'[w].phase \in Judging
            /\ task'[w].proposal = task[w].proposal /\ task'[w].evaluated = task[w].evaluated
  PROVE  Decided(w)'
<1> DEFINE p == task[w].proposal
           r == task[w].evaluated
<1>0. w \in Threads /\ TaskTypes /\ Committed \in Tables /\ Committed' \in Tables
      /\ Grows(Committed, Committed')
  BY Boundaries, Names
<1>1. CASE task[w].phase \in Judging \cup {"judged"}
  <2>1. task[w] \in WorkTask
    BY <1>0, <1>1, BusyTypes DEF Judging
  <2>2. p \in Proposals /\ r \in Revisions
    BY <2>1 DEF WorkTask
  <2>3. /\ Committed.signals[p] \in Nat /\ Committed'.signals[p] \in Nat /\ r \in Nat
        /\ Committed.signals[p] <= Committed'.signals[p]
    BY <1>0, <2>2, ProposalsAssumption DEF Tables, Revisions, Grows, GrowsAt
  <2>4. task[w].phase \in Judging => r <= Committed'.signals[p]
    BY <2>3 DEF Decided
  <2>5. task[w].phase = "judged" => JudgedIn(Committed', p, r)
    <3> HIDE DEF p, r
    <3>1. task[w].phase = "judged" => JudgedIn(Committed, p, r)
      BY DEF Decided, p, r
    <3> QED
      BY <1>0, <2>2, <3>1, JudgedStands
  <2>6. task'[w].phase \in Judging => task'[w].evaluated <= Committed'.signals[task'[w].proposal]
    BY <2>4 DEF Judging
  <2>7. task'[w].phase = "judged" => JudgedIn(Committed', task'[w].proposal, task'[w].evaluated)
    BY <2>5 DEF Judging
  <2> QED
    BY <2>6, <2>7 DEF Decided, JudgedIn, Eligible
<1>2. CASE task[w].phase \notin Judging \cup {"judged"}
  BY <1>2 DEF Decided
<1> QED
  BY <1>1, <1>2

(* A worker that judged what is committed by now.                          *)
LEMMA DecidedNow ==
  ASSUME NEW w \in Workers, JudgedIn(Committed', task'[w].proposal, task'[w].evaluated),
         task'[w].phase = "judged"
  PROVE  Decided(w)'
BY DEF Decided, JudgedIn, Eligible, Judging

(* A worker that promoted a proposal, and what is committed says so.       *)
LEMMA PromotedDecided ==
  ASSUME Whole, [Next]_vars, NEW w \in Workers, Decided(w), task[w].phase \in Judging, Promoted(w),
         Committed'.status[task[w].proposal] = "adopted"
  PROVE  Decided(w)'
<1> DEFINE p == task[w].proposal
           r == task[w].evaluated
<1>0. w \in Threads /\ TaskTypes /\ Committed \in Tables /\ Committed' \in Tables
      /\ Grows(Committed, Committed') /\ task[w].phase \notin {"idle", "recording"}
  BY Boundaries, Names DEF Judging
<1>1. p \in Proposals /\ r \in Revisions
  BY <1>0, BusyTypes DEF WorkTask
<1>2. r <= Committed'.signals[p]
  <2>1. /\ Committed.signals[p] \in Nat /\ Committed'.signals[p] \in Nat /\ r \in Nat
        /\ Committed.signals[p] <= Committed'.signals[p]
    BY <1>0, <1>1, ProposalsAssumption DEF Tables, Revisions, Grows, GrowsAt
  <2> QED
    BY <2>1 DEF Decided
<1>3. task'[w].phase = "judged" /\ task'[w].proposal = p /\ task'[w].evaluated = r
  BY <1>0, PromotedTypes
<1>4. JudgedIn(Committed', p, r)
  BY <1>2 DEF JudgedIn, Eligible
<1> HIDE DEF p, r
<1> QED
  BY <1>3, <1>4, DecidedNow

(* A worker that ends, or is not yet judging, has nothing to answer for.   *)
LEMMA Undecided ==
  ASSUME NEW w \in Workers, task'[w].phase \notin Judging, task'[w].phase # "judged"
  PROVE  Decided(w)'
BY DEF Decided

LEMMA ConfirmDecided ==
  ASSUME Whole, [Next]_vars, NEW w \in Workers, Apart, Decided(w),
         task[w].phase \in {"asked", "preparing"}, db.status[task[w].proposal] = "adopted", Confirm(w)
  PROVE  Decided(w)'
<1> DEFINE p == task[w].proposal
<1>0. /\ w \in Threads /\ w \in Processes /\ TaskTypes /\ TableTypes /\ TableTypes' /\ Home(w) = w
      /\ task[w].phase \notin {"idle", "recording"} /\ db \in Tables
  BY Boundaries, Names, Homes
<1>1. CASE Refused(w)
  BY <1>0, <1>1, EndsTypes, Undecided DEF Refused, Judging
<1>2. CASE Promoted(w) /\ Changing(w, [db EXCEPT !.index = @ \cup {p}]) /\ MayWrite(w)
  <2>1. Unlocked /\ txn' = txn
    BY <1>0, <1>2, CommittedIs DEF Whole, Locks, Writing, Changing
  <2>2. Committed' = db'
    BY <1>0, <2>1, CommittedNext DEF Unlocked, InTransaction
  <2>3. db'.status = db.status
    BY <1>0, <1>2 DEF Changing, Tables
  <2>4. Committed'.status[p] = "adopted" /\ task[w].phase \in Judging
    BY <2>2, <2>3 DEF Judging
  <2> QED
    BY <1>2, <2>4, PromotedDecided
<1> QED
  BY <1>0, <1>1, <1>2 DEF Confirm

LEMMA PromoteDecided ==
  ASSUME Whole, [Next]_vars, NEW w \in Workers, Apart, Decided(w), Promote(w)
  PROVE  Decided(w)'
<1> DEFINE p == task[w].proposal
<1>0. /\ w \in Threads /\ w \in Processes /\ TaskTypes /\ TableTypes /\ Home(w) = w
      /\ task[w].phase \in Judging /\ task[w].phase \notin {"idle", "recording"} /\ db \in Tables
      /\ w # Reviewer /\ w # Recorder
  BY Boundaries, Names, Homes DEF Promote, Look, Insert, Adopt, QueueIndex, Commit, Judging
<1>1. CASE Ends(w)
  BY <1>0, <1>1, EndsTypes, Undecided DEF Judging
<1>2. ASSUME NEW ph \in {"preparing", "inserted", "adopted", "indexed"}, Goes(w, ph)
      PROVE  Decided(w)'
  <2>1. ph \in WorkPhases /\ ph \in Judging
    BY DEF WorkPhases, Judging
  <2>2. /\ task'[w].phase = ph /\ task'[w].proposal = task[w].proposal
        /\ task'[w].evaluated = task[w].evaluated
    BY <1>0, <1>2, <2>1, GoesTypes
  <2> QED
    BY <1>0, <2>1, <2>2, DecidedStands
<1>3. CASE Look(w)
  <2>1. CASE Confirm(w) /\ Seen(w).status[p] = "adopted"
    <3>1. Seen(w) = db
      BY <1>0, <2>1 DEF Confirm, Seen
    <3> QED
      BY <1>3, <2>1, <3>1, ConfirmDecided DEF Look
  <2> QED
    BY <1>0, <1>1, <1>2, <1>3, <2>1 DEF Look, Refused
<1>4. CASE Insert(w)
  <2>1. CASE Confirm(w) /\ db.status[p] = "adopted"
    BY <1>4, <2>1, ConfirmDecided DEF Insert
  <2> QED
    BY <1>0, <1>1, <1>2, <1>4, <2>1 DEF Insert, Refused
<1>5. CASE Adopt(w) \/ QueueIndex(w)
  BY <1>1, <1>2, <1>5 DEF Adopt, QueueIndex
<1>6. CASE Commit(w)
  <2>1. Committed' = db
    BY <1>6, GrowingStep, Commitment DEF Whole
  <2>2. (Promoted(w) /\ db.status[p] = "adopted") \/ Ends(w)
    <3>1. db' = db
      BY <1>6, GrowingStep, Commitment DEF Whole
    <3> QED
      BY <1>6, <3>1 DEF Commit
  <2> QED
    BY <1>0, <1>1, <2>1, <2>2, PromotedDecided
<1> QED
  BY <1>3, <1>4, <1>5, <1>6 DEF Promote

LEMMA EvaluateDecided ==
  ASSUME Whole, [Next]_vars, NEW w \in Workers, Apart, Evaluate(w)
  PROVE  Decided(w)'
<1> DEFINE p == task[w].proposal
           r == db.signals[p]
           ph == IF Eligible(db, p) /\ db.vector[p] THEN "asked" ELSE "judged"
<1>0. /\ w \in Threads /\ w \in Processes /\ TaskTypes /\ TableTypes /\ TableTypes' /\ Home(w) = w
      /\ task[w].phase \notin {"idle", "recording"} /\ MayWrite(w) /\ Committing(w) /\ db \in Tables
  BY Boundaries, Names, Homes DEF Evaluate
<1>1. p \in Proposals /\ r \in Revisions /\ r \in Nat
  BY <1>0, BusyTypes, ProposalsAssumption DEF Tables, Revisions
<1>2. Committed' = db
  <2>1. \A c \in Processes : ~InTransaction(c)'
    BY <1>0 DEF Committing, InTransaction, TableTypes, MayWrite
  <2> QED
    BY <1>0, <2>1, CommittedNext DEF Committing, Unlocked
<1>3. task'[w].phase = ph /\ task'[w].proposal = p /\ task'[w].evaluated = r
  <2>1. task' = [task EXCEPT ![w].evaluated = r, ![w].phase = ph]
    BY DEF Evaluate
  <2>2. ph \in WorkPhases
    BY DEF WorkPhases, Judging
  <2>3. task[w] \in WorkTask
    BY <1>0, BusyTypes
  <2> HIDE DEF ph, r
  <2> QED
    BY <1>0, <2>1, <2>2, <2>3 DEF TaskTypes, WorkTask
<1>4. CASE Eligible(db, p) /\ db.vector[p]
  BY <1>1, <1>2, <1>3, <1>4 DEF Decided
<1>5. CASE ~(Eligible(db, p) /\ db.vector[p])
  <2>1. JudgedIn(Committed', p, r)
    <3>1. r <= r
      BY <1>1
    <3> QED
      BY <1>2, <1>5, <3>1, Zenon DEF JudgedIn
  <2>2. task'[w].phase = "judged"
    BY <1>3, <1>5
  <2> HIDE DEF p, r
  <2> QED
    BY <1>3, <2>1, <2>2, DecidedNow
<1> QED
  BY <1>4, <1>5

LEMMA ValidateDecided ==
  ASSUME Whole, [Next]_vars, NEW w \in Workers, Apart, Validate(w)
  PROVE  Decided(w)'
<1> DEFINE p == task[w].proposal
<1>0. /\ w \in Threads /\ w \in Processes /\ TaskTypes /\ TableTypes /\ Home(w) = w
      /\ task[w].phase = "claimed" /\ Committed \in Tables
      /\ w # Reviewer /\ w # Recorder
  BY Boundaries, Names, Homes DEF Validate
<1>1. Seen(w) = Committed /\ Committed' = Committed
  <2>1. ~InTransaction(w)
    BY <1>0 DEF Whole, Locks, Writing
  <2>2. Seen(w) = Committed
    BY <1>0, <2>1, CommittedIs DEF Seen
  <2> QED
    BY <2>2 DEF Validate, tables, Committed, Unlocked, InTransaction
<1>2. p \in Proposals
  BY <1>0, BusyTypes
<1>3. CASE Goes(w, "active")
  <2>1. "active" \in WorkPhases
    BY DEF WorkPhases
  <2> QED
    BY <1>0, <1>3, <2>1, GoesTypes, Undecided DEF Judging
<1>4. CASE ~Eligible(Committed, p) /\ Evaluates(w)
  <2> DEFINE r == Committed.signals[p]
  <2>1. r \in Revisions /\ r \in Nat /\ "judged" \in WorkPhases
    BY <1>0, <1>2, ProposalsAssumption DEF Tables, Revisions, WorkPhases
  <2>2. task' = [task EXCEPT ![w].phase = "judged", ![w].evaluated = r]
    BY <1>0, <1>1, <1>4 DEF Evaluates
  <2>3. JudgedIn(Committed', p, r)
    <3>1. r <= r
      BY <2>1
    <3> QED
      BY <1>1, <1>4, <3>1, Zenon DEF JudgedIn
  <2> HIDE DEF r
  <2>4. task'[w].phase = "judged" /\ task'[w].proposal = p /\ task'[w].evaluated = r
    BY <1>0, <2>1, <2>2, EvaluatedTypes
  <2> HIDE DEF p
  <2> QED
    BY <2>3, <2>4, DecidedNow
<1> QED
  BY <1>0, <1>1, <1>3, <1>4 DEF Validate

(* Every step of a worker.                                                 *)
LEMMA WorkDecided ==
  ASSUME Whole, [Next]_vars, NEW w \in Workers, Apart, Decided(w), Work(w)
  PROVE  Decided(w)'
<1>0. w \in Threads /\ TaskTypes /\ TableTypes /\ w # Reviewer /\ w # Recorder
  BY Boundaries, Names
<1>1. CASE \E p \in Proposals, r \in Revisions : Claim(w, p, r)
  <2>1. task'[w].phase = "claimed"
    BY <1>0, <1>1 DEF Claim, TaskTypes
  <2> QED
    BY <2>1, Undecided DEF Judging
<1>2. CASE Evidence(w)
  <2>1. task[w].phase \notin {"idle", "recording"} /\ "embedding" \in WorkPhases
        /\ (Goes(w, "embedding") \/ Collected(w) \/ Ends(w))
    BY <1>2 DEF Evidence, Prepare, Gather, GatherFails, WorkPhases
  <2> QED
    BY <1>0, <2>1, GoesTypes, CollectedTypes, EndsTypes, Undecided DEF Judging
<1>3. CASE Complete(w) \/ Fail(w)
  <2>1. task'[w].phase = "idle"
    BY <1>0, <1>3 DEF Complete, Fail, TaskTypes, Idle
  <2> QED
    BY <2>1, Undecided DEF Judging
<1> QED
  BY <1>1, <1>2, <1>3, ValidateDecided, EvaluateDecided, PromoteDecided DEF Work

LEMMA DecisionsStep ==
  ASSUME Whole, Decisions, Apart, [Next]_vars
  PROVE  Decisions'
<1>0. /\ Committed \in Tables /\ Committed' \in Tables /\ Grows(Committed, Committed')
      /\ Types /\ TaskTypes
  BY Boundaries
<1>1. ASSUME NEW w \in Workers PROVE Decided(w)'
  <2>0. Decided(w) /\ w \in Threads
    BY Names DEF Decisions
  <2>1. CASE task'[w] = task[w]
    BY <2>0, <2>1, DecidedStands
  <2>2. ASSUME NEW v \in Workers, Work(v), ThreadStep(v, {}) \/ ThreadStep(v, Half(v))
        PROVE  Decided(w)'
    BY <2>0, <2>1, <2>2, WorkDecided DEF ThreadStep
  <2>3. ASSUME NEW c \in Processes, Crash(c) PROVE Decided(w)'
    <3>1. task'[w] = task[w] \/ task'[w].phase = "idle"
      BY <1>0, <2>0, <2>3, CrashStep DEF Types, Idle
    <3> QED
      BY <2>1, <3>1, Undecided DEF Judging
  <2> QED
    BY <1>0, <2>1, <2>2, <2>3, AnyStep DEF ServerStep
<1>2. ASSUME NEW p \in Proposals, NEW r \in Revisions, jobs'[p][r].status = "completed"
      PROVE  JudgedIn(Committed', p, jobs'[p][r].evaluated)
  <2>0. JobTypes /\ JobsStep
    BY <1>0, AnyStep DEF Types
  <2>1. CASE jobs'[p][r] = jobs[p][r]
    <3>1. jobs[p][r].evaluated \in Revisions /\ JudgedIn(Committed, p, jobs[p][r].evaluated)
      BY <1>2, <2>0, <2>1 DEF JobTypes, JobRow, Decisions
    <3> QED
      BY <1>0, <2>1, <3>1, JudgedStands
  <2>2. ASSUME NEW q \in Proposals, NEW s \in Revisions, NEW row \in JobRow,
               row.status \in {"none", "pending"} => row.attempts < MaxAttempts,
               jobs' = [jobs EXCEPT ![q][s] = row],
               row.status = "completed" =>
                 \E w \in Workers : /\ task[w].phase = "judged" /\ task[w].proposal = q
                                    /\ row.evaluated = task[w].evaluated
        PROVE  JudgedIn(Committed', p, jobs'[p][r].evaluated)
    <3>1. CASE <<p, r>> # <<q, s>>
      BY <2>0, <2>1, <2>2, <3>1, JobWritten
    <3>2. CASE p = q /\ r = s
      <4>0. jobs'[q][s] = row
        BY <2>0, <2>2 DEF JobTypes
      <4>1. jobs'[p][r] = row
        BY <3>2, <4>0
      <4>2. PICK w \in Workers : /\ task[w].phase = "judged" /\ task[w].proposal = p
                                 /\ row.evaluated = task[w].evaluated
        BY <1>2, <2>2, <3>2, <4>1
      <4>3. JudgedIn(Committed, p, row.evaluated) /\ row.evaluated \in Revisions
        BY <2>2, <4>2 DEF Decisions, Decided, JobRow
      <4> QED
        BY <1>0, <4>1, <4>3, JudgedStands
    <3> QED
      BY <3>1, <3>2
  <2> QED
    BY <2>0, <2>1, <2>2 DEF JobsStep
<1>3. (\A w \in Workers : Decided(w))'
  BY <1>1
<1>4. (\A p \in Proposals : \A r \in Revisions :
         jobs[p][r].status = "completed" => JudgedIn(Committed, p, jobs[p][r].evaluated))'
  BY <1>2 DEF JudgedIn, Eligible
<1> QED
  BY <1>3, <1>4 DEF Decisions

(* With each worker on a connection of its own, no completed job has       *)
(* judged the current revision of a proposal that is still eligible and    *)
(* has its evidence.                                                       *)
THEOREM EvaluationsDecide == Apart => (Spec => []EvaluatedIsDecided)
<1> SUFFICES ASSUME Apart PROVE Spec => []EvaluatedIsDecided
  OBVIOUS
<1>1. Init => Decisions
  <2> SUFFICES ASSUME Init PROVE Decisions
    OBVIOUS
  <2>1. \A w \in Workers : task[w].phase = "idle"
    BY Names DEF Init, Idle
  <2>2. \A p \in Proposals : \A r \in Revisions : jobs[p][r].status = "none"
    BY DEF Init, NoJob
  <2> QED
    BY <2>1, <2>2 DEF Decisions, Decided, Judging
<1>2. (Whole /\ Decisions) /\ [Next]_vars => (Whole /\ Decisions)'
  BY WholeStep, DecisionsStep
<1>3. ASSUME Whole /\ Decisions PROVE EvaluatedIsDecided
  <2> SUFFICES ASSUME NEW p \in Proposals, Eligible(Committed, p), Committed.vector[p],
                      NEW r \in Revisions, jobs[p][r].status = "completed",
                      jobs[p][r].evaluated = Committed.signals[p]
               PROVE  FALSE
    BY Zenon DEF EvaluatedIsDecided
  <2>1. JudgedIn(Committed, p, jobs[p][r].evaluated)
    BY <1>3 DEF Decisions
  <2> QED
    BY <2>1, Zenon DEF JudgedIn
<1> QED
  BY <1>1, <1>2, <1>3, InitWhole, PTL DEF Spec
=============================================================================

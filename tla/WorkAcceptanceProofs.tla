----------------------- MODULE WorkAcceptanceProofs -----------------------
(***************************************************************************)
(* Theorems about the collaboration board with its review and acceptance,  *)
(* for any agents, sessions, rooms, work items, limits and clock.          *)
(***************************************************************************)
EXTENDS WorkAcceptance, FiniteSetTheorems, TLAPS

WorkStates == {"none", "ready", "in_progress", "rework", "expired",
               "submitted", "reviewing", "accepted"}
WorkRow == [state : WorkStates, attempt : 0..MaxAttempts, expires : Nat]
SessionRow == [state : SessionStates, beat : 0..MaxClock, expires : 0..(MaxClock + Lifetime)]
ResultRow == [generation : 1..MaxAttempts, session : Sessions, outcome : {"completed", "failed"}]
ClaimCall == [op : {"claim"}, work : Works, attempt : 1..MaxAttempts,
              generation : 1..MaxAttempts, expires : 0..(MaxClock + LeaseTime)]
ReceiptRow == [reviewer : Sessions, generation : 1..MaxAttempts]
PromotionRow == [status : {"none", "pending", "failed", "persisted"}, attempts : 0..MaxPromotions]

Types ==
  /\ clock \in 0..MaxClock
  /\ session \in [Sessions -> SessionRow]
  /\ agent \in [Agents -> SessionStates \ {"none"}]
  /\ work \in [Works -> WorkRow]
  /\ leases \subseteq Lease
  /\ result \in [Works -> ResultRow \cup {NoResult}]
  /\ call \in [Sessions -> {Free, [op |-> "reconcile"]} \cup ClaimCall]
  /\ receipt \in [Works -> ReceiptRow \cup {NoReceipt}]
  /\ promotion \in [Works -> PromotionRow]

(* The leases of a work item are numbered like its attempts, none twice,   *)
(* and the active one, if any, is the last.                                *)
LeaseInv ==
  /\ \A w \in Works :
       /\ work[w].state = "in_progress" <=> \E l \in leases : l.work = w /\ l.state = "active"
       /\ \A g \in 1..work[w].attempt : \E l \in leases : l.work = w /\ l.generation = g
  /\ \A l \in leases :
       /\ l.generation = l.attempt
       /\ l.generation <= work[l.work].attempt
       /\ l.state = "active" => l.generation = work[l.work].attempt
  /\ \A l, m \in leases : l.work = m.work /\ l.generation = m.generation => l = m

(* What a session was told of a claim it prepares stays one attempt.       *)
CallInv == \A s \in Sessions : call[s].op = "claim" => call[s].generation = call[s].attempt

Delivered == {"submitted", "reviewing", "accepted"}

ResultInv ==
  \A w \in Works : result[w] # NoResult =>
    /\ work[w].state \in Delivered
    /\ AgentOf[result[w].session] = Assignee[w]
    /\ \E l \in leases : /\ l.work = w /\ l.state = "completed"
                         /\ l.generation = work[w].attempt
                         /\ result[w].generation = l.generation
                         /\ result[w].session = l.session

AcceptInv ==
  \A w \in Works :
    /\ receipt[w] # NoReceipt =>
         /\ Completed(w)
         /\ receipt[w].generation = result[w].generation
         /\ AgentOf[receipt[w].reviewer] # Assignee[w]
    /\ work[w].state = "accepted" => receipt[w] # NoReceipt
    /\ (promotion[w].status = "none") <=> (work[w].state # "accepted")
    /\ promotion[w].status = "none" => promotion[w].attempts = 0

Inv == Types /\ LeaseInv /\ CallInv /\ OwnerIsPresent /\ ResultInv /\ AcceptInv

(* The constants as numbers.                                               *)
LEMMA Limits ==
  /\ MaxAttempts \in Nat /\ PresenceTimeout \in Nat /\ PresenceTimeout > 0
  /\ Lifetime \in Nat /\ WorkLife \in Nat /\ LeaseTime \in Nat /\ Grace \in Nat
  /\ MaxClock \in Nat
BY CollaborationAssumption

(* The fencing generation is the number of attempts.                       *)
LEMMA GenerationIsAttempt ==
  ASSUME Types, LeaseInv, NEW w \in Works
  PROVE  Generation(w) = work[w].attempt
<1> DEFINE n == work[w].attempt
           f == [l \in Of(w) |-> l.generation]
<1>1. n \in Nat
  BY Limits DEF Types, WorkRow
<1>2. f \in [Of(w) -> 1..n]
  BY <1>1, Limits DEF Types, LeaseInv, Lease, Of
<1>3. \A l, m \in Of(w) : f[l] = f[m] => l = m
  BY DEF LeaseInv, Of
<1>4. \A g \in 1..n : \E l \in Of(w) : f[l] = g
  BY DEF LeaseInv, Of
<1>5. f \in Injection(Of(w), 1..n)
  <2>1. IsInjective(f)
    BY <1>2, <1>3 DEF IsInjective
  <2> QED
    BY <1>2, <2>1 DEF Injection
<1>6. f \in Surjection(Of(w), 1..n)
  BY <1>2, <1>4 DEF Surjection
<1>7. IsFiniteSet(1..n) /\ Cardinality(1..n) = n
  <2> HIDE DEF n
  <2>1. 1 \in Int /\ n \in Int
    BY <1>1
  <2>2. IsFiniteSet(1..n) /\ Cardinality(1..n) = IF 1 > n THEN 0 ELSE n - 1 + 1
    BY <2>1, FS_Interval
  <2> QED
    BY <1>1, <2>2
<1> QED
  BY <1>5, <1>6, <1>7, FS_Injection DEF Generation

-----------------------------------------------------------------------------
(* Steps that leave leases and attempts alone.                             *)
LEMMA LeasesUnmoved ==
  ASSUME LeaseInv, leases' = leases,
         \A w \in Works : /\ work'[w].attempt = work[w].attempt
                          /\ work'[w].state = "in_progress" <=> work[w].state = "in_progress",
         leases \subseteq Lease
  PROVE  LeaseInv'
BY DEF LeaseInv, Lease

(* Of the leases, the active ones in L end, each in its own way.           *)
LEMMA LeasesEnded ==
  ASSUME Types, LeaseInv, OwnerIsPresent, ResultInv,
         NEW L \in SUBSET leases, \A l \in L : l.state = "active",
         NEW st \in [L -> {"released", "abandoned", "expired"}],
         NEW M, M = {[l EXCEPT !.state = st[l]] : l \in L},
         EndLeases(L, M),
         result' = result
  PROVE  /\ work' \in [Works -> WorkRow]
         /\ leases' \subseteq Lease
         /\ LeaseInv'
         /\ ResultInv'
         /\ \A l \in leases' : l.state = "active" => l \in leases \ L
         /\ \A w \in Works : /\ work'[w].state = "accepted" <=> work[w].state = "accepted"
                             /\ work'[w] = work[w] \/ work[w].state = "in_progress"
         /\ leases \ L \subseteq leases'
<1> DEFINE E(l) == [l EXCEPT !.state = st[l]]
<1>1. /\ leases' = (leases \ L) \cup {E(l) : l \in L}
      /\ work' = [w \in Works |-> IF \E l \in L : l.work = w THEN Reclaimed(work[w]) ELSE work[w]]
  BY DEF EndLeases
<1>2. ASSUME NEW l \in L
      PROVE  /\ E(l) \in Lease /\ E(l).state \in {"released", "abandoned", "expired"}
             /\ E(l).work = l.work /\ E(l).generation = l.generation
             /\ E(l).attempt = l.attempt /\ E(l).session = l.session
  <2>1. l \in Lease /\ st[l] \in {"released", "abandoned", "expired"}
    BY DEF Types
  <2> QED
    BY <2>1 DEF Lease
<1> HIDE DEF E
<1>3. leases' \subseteq Lease
  BY <1>1, <1>2 DEF Types
<1>4. ASSUME NEW x \in leases'
      PROVE  \/ x \in leases \ L
             \/ \E l \in L : x = E(l)
  BY <1>1
<1>5. \A l \in leases' : l.state = "active" => l \in leases \ L
  BY <1>2, <1>4
<1>6. ASSUME NEW w \in Works
      PROVE  /\ work'[w] \in WorkRow
             /\ work'[w].attempt = work[w].attempt
             /\ (\E l \in L : l.work = w) =>
                  work'[w].state \in {"expired", "rework"} /\ work[w].state = "in_progress"
             /\ ~(\E l \in L : l.work = w) => work'[w] = work[w]
  <2>1. work[w] \in WorkRow
    BY DEF Types
  <2>2. (\E l \in L : l.work = w) => work[w].state = "in_progress"
    BY DEF LeaseInv
  <2>3. /\ Reclaimed(work[w]) \in WorkRow
        /\ Reclaimed(work[w]).attempt = work[w].attempt
        /\ Reclaimed(work[w]).state \in {"expired", "rework"}
    BY <2>1 DEF WorkRow, Reclaimed, WorkStates
  <2> QED
    BY <1>1, <2>1, <2>2, <2>3
<1>7. work' \in [Works -> WorkRow]
  <2>1. work' = [w \in Works |-> work'[w]]
    BY <1>1
  <2> QED
    BY <1>6, <2>1
<1>8. LeaseInv'
  <2>1. ASSUME NEW w \in Works, NEW g \in 1..work'[w].attempt
        PROVE  \E l \in leases' : l.work = w /\ l.generation = g
    <3>1. PICK l \in leases : l.work = w /\ l.generation = g
      BY <1>6 DEF LeaseInv
    <3>2. CASE l \in L
      BY <1>1, <1>2, <3>1, <3>2
    <3>3. CASE l \notin L
      BY <1>1, <3>1, <3>3
    <3> QED
      BY <3>2, <3>3
  <2>2. ASSUME NEW w \in Works
        PROVE  /\ work'[w].state = "in_progress" <=> \E l \in leases' : l.work = w /\ l.state = "active"
               /\ \A g \in 1..work'[w].attempt : \E l \in leases' : l.work = w /\ l.generation = g
    <3>1. CASE \E l \in L : l.work = w
      <4>1. PICK l \in L : l.work = w
        BY <3>1
      <4>2. \A m \in leases : m.work = w /\ m.state = "active" => m = l
        BY <4>1 DEF LeaseInv
      <4>3. ~\E m \in leases' : m.work = w /\ m.state = "active"
        BY <1>5, <4>2
      <4> QED
        BY <1>6, <3>1, <4>3, <2>1
    <3>2. CASE ~\E l \in L : l.work = w
      <4>1. work'[w] = work[w]
        BY <1>6, <3>2
      <4>2. \A l \in leases : l.work = w => l \in leases'
        BY <1>1, <3>2
      <4>3. \A l \in leases' : l.work = w /\ l.state = "active" => l \in leases
        BY <1>5
      <4> QED
        BY <4>1, <4>2, <4>3, <2>1 DEF LeaseInv
    <3> QED
      BY <3>1, <3>2
  <2>3. ASSUME NEW x \in leases'
        PROVE  \E l \in leases : /\ l.work = x.work /\ l.generation = x.generation
                                 /\ l.attempt = x.attempt
                                 /\ IF l \in L THEN x = E(l) ELSE x = l
    BY <1>2, <1>4
  <2>4. ASSUME NEW x \in leases'
        PROVE  /\ x.generation = x.attempt
               /\ x.generation <= work'[x.work].attempt
               /\ x.state = "active" => x.generation = work'[x.work].attempt
    <3>1. x.work \in Works
      BY <1>3 DEF Lease
    <3>2. x.generation = x.attempt /\ x.generation <= work[x.work].attempt
      BY <2>3 DEF LeaseInv
    <3>3. x.state = "active" => x.generation = work[x.work].attempt
      BY <1>5 DEF LeaseInv
    <3> QED
      BY <1>6, <3>1, <3>2, <3>3
  <2>5. ASSUME NEW x \in leases', NEW y \in leases', x.work = y.work, x.generation = y.generation
        PROVE  x = y
    <3>1. PICK l \in leases : /\ l.work = x.work /\ l.generation = x.generation
                              /\ IF l \in L THEN x = E(l) ELSE x = l
      BY <2>3
    <3>2. PICK m \in leases : /\ m.work = y.work /\ m.generation = y.generation
                              /\ IF m \in L THEN y = E(m) ELSE y = m
      BY <2>3
    <3>3. l = m
      BY <2>5, <3>1, <3>2 DEF LeaseInv
    <3> QED
      BY <3>1, <3>2, <3>3
  <2> QED
    BY <2>2, <2>4, <2>5 DEF LeaseInv
<1>9. ResultInv'
  <2> SUFFICES ASSUME NEW w \in Works, result'[w] # NoResult
               PROVE  /\ work'[w].state \in Delivered
                      /\ AgentOf[result'[w].session] = Assignee[w]
                      /\ \E l \in leases' : /\ l.work = w /\ l.state = "completed"
                                            /\ l.generation = work'[w].attempt
                                            /\ result'[w].generation = l.generation
                                            /\ result'[w].session = l.session
    BY DEF ResultInv
  <2>1. /\ work[w].state \in Delivered
        /\ AgentOf[result[w].session] = Assignee[w]
    BY DEF ResultInv
  <2>2. work'[w] = work[w]
    BY <1>6, <2>1 DEF Delivered
  <2>3. PICK l \in leases : /\ l.work = w /\ l.state = "completed"
                            /\ l.generation = work[w].attempt
                            /\ result[w].generation = l.generation
                            /\ result[w].session = l.session
    BY DEF ResultInv
  <2>4. l \in leases'
    BY <1>1, <2>3
  <2> QED
    BY <2>1, <2>2, <2>3, <2>4
<1>10. \A w \in Works : work'[w].state = "accepted" <=> work[w].state = "accepted"
  BY <1>6
<1>11. \A w \in Works : work'[w] = work[w] \/ work[w].state = "in_progress"
  BY <1>6
<1> QED
  BY <1>1, <1>3, <1>5, <1>7, <1>8, <1>9, <1>10, <1>11

-----------------------------------------------------------------------------
(* Sessions come and go; a session that is heard of keeps its leases.      *)
LEMMA AgentState ==
  ASSUME NEW ss \in [Sessions -> SessionRow], NEW s \in Sessions, agent \in [Agents -> SessionStates \ {"none"}]
  PROVE  Refreshed(ss, AgentOf[s]) \in [Agents -> SessionStates \ {"none"}]
<1>1. Aggregate(ss, AgentOf[s]) \in SessionStates \ {"none"}
  BY DEF Aggregate, SessionStates
<1> QED
  BY <1>1 DEF Refreshed

LEMMA OneSessionStep ==
  ASSUME Inv, NEW s \in Sessions, NEW row \in SessionRow,
         row.state \in Live \/ \A l \in leases : l.session = s => l.state # "active",
         session' = [session EXCEPT ![s] = row],
         agent' = Refreshed(session', AgentOf[s]),
         call' \in [Sessions -> {Free, [op |-> "reconcile"]} \cup ClaimCall], CallInv',
         UNCHANGED <<clock, work, leases, result, receipt, promotion>>
  PROVE  Inv'
<1>1. session' \in [Sessions -> SessionRow]
  BY DEF Inv, Types
<1>2. agent' \in [Agents -> SessionStates \ {"none"}]
  BY <1>1, AgentState DEF Inv, Types
<1>3. Types'
  BY <1>1, <1>2 DEF Inv, Types
<1>4. LeaseInv' /\ ResultInv'
  BY DEF Inv, LeaseInv, ResultInv
<1>5. AcceptInv'
  BY DEF Inv, AcceptInv, Completed
<1>6. OwnerIsPresent'
  BY DEF Inv, OwnerIsPresent, Types
<1> QED
  BY <1>3, <1>4, <1>5, <1>6 DEF Inv

LEMMA SessionTypes ==
  ASSUME Types, NEW s \in Sessions
  PROVE  /\ session[s] \in SessionRow /\ clock \in 0..MaxClock
         /\ [session[s] EXCEPT !.state = "active", !.beat = clock] \in SessionRow
         /\ [session[s] EXCEPT !.state = "idle"] \in SessionRow
         /\ [session[s] EXCEPT !.state = "closed"] \in SessionRow
<1>1. session[s] \in SessionRow /\ clock \in 0..MaxClock
  BY DEF Types
<1> QED
  BY <1>1 DEF SessionRow, SessionStates

LEMMA TickStep ==
  ASSUME Inv, Tick, UNCHANGED <<receipt, promotion>>
  PROVE  Inv'
<1>1. clock' \in 0..MaxClock
  BY Limits DEF Tick, Inv, Types
<1>2. UNCHANGED <<session, agent, work, leases, result, call, receipt, promotion>>
  BY DEF Tick
<1> QED
  BY <1>1, <1>2 DEF Inv, Types, LeaseInv, CallInv, OwnerIsPresent, ResultInv, AcceptInv, Completed

LEMMA RegisterStep ==
  ASSUME Inv, NEW s \in Sessions, Register(s), UNCHANGED <<receipt, promotion>>
  PROVE  Inv'
<1> DEFINE row == [state |-> "active", beat |-> clock,
                   expires |-> IF session[s].state = "none" THEN clock + Lifetime
                               ELSE session[s].expires]
<1>1. session' = [session EXCEPT ![s] = row]
  BY DEF Register
<1>2. row \in SessionRow /\ row.state \in Live
  <2>1. session[s] \in SessionRow /\ clock \in 0..MaxClock
    BY SessionTypes DEF Inv
  <2>2. clock + Lifetime \in 0..(MaxClock + Lifetime)
    BY <2>1, Limits
  <2> QED
    BY <2>1, <2>2 DEF SessionRow, SessionStates, Live
<1> HIDE DEF row
<1>3. call' \in [Sessions -> {Free, [op |-> "reconcile"]} \cup ClaimCall] /\ CallInv'
  BY DEF Register, Inv, Types, CallInv
<1> QED
  BY <1>1, <1>2, <1>3, OneSessionStep DEF Register

LEMMA HeartbeatStep ==
  ASSUME Inv, NEW s \in Sessions, Heartbeat(s), UNCHANGED <<receipt, promotion>>
  PROVE  Inv'
<1> DEFINE row == [session[s] EXCEPT !.state = "active", !.beat = clock]
<1>1. session' = [session EXCEPT ![s] = row]
  BY DEF Heartbeat, Inv, Types
<1>2. row \in SessionRow /\ row.state \in Live
  BY SessionTypes DEF Inv, SessionRow, Live
<1> HIDE DEF row
<1>3. call' \in [Sessions -> {Free, [op |-> "reconcile"]} \cup ClaimCall] /\ CallInv'
  BY DEF Heartbeat, Inv, Types, CallInv
<1> QED
  BY <1>1, <1>2, <1>3, OneSessionStep DEF Heartbeat

LEMMA MarkIdleStep ==
  ASSUME Inv, NEW s \in Sessions, MarkIdle(s), UNCHANGED <<receipt, promotion>>
  PROVE  Inv'
<1> DEFINE row == [session[s] EXCEPT !.state = "idle"]
<1>1. session' = [session EXCEPT ![s] = row]
  BY DEF MarkIdle, Inv, Types
<1>2. row \in SessionRow /\ row.state \in Live
  BY SessionTypes DEF Inv, SessionRow, Live
<1> HIDE DEF row
<1>3. call' \in [Sessions -> {Free, [op |-> "reconcile"]} \cup ClaimCall] /\ CallInv'
  BY DEF MarkIdle, Inv, Types, CallInv
<1> QED
  BY <1>1, <1>2, <1>3, OneSessionStep DEF MarkIdle

(* Leases end, and with them the work goes back; what has been delivered   *)
(* stays as it is.                                                         *)
LEMMA LeasesEndStep ==
  ASSUME Inv,
         NEW L \in SUBSET leases, \A l \in L : l.state = "active",
         NEW st \in [L -> {"released", "abandoned", "expired"}],
         NEW M, M = {[l EXCEPT !.state = st[l]] : l \in L},
         EndLeases(L, M),
         session' \in [Sessions -> SessionRow],
         agent' \in [Agents -> SessionStates \ {"none"}],
         \A l \in leases \ L : l.state = "active" => session'[l.session].state \in Live,
         call' \in [Sessions -> {Free, [op |-> "reconcile"]} \cup ClaimCall], CallInv',
         promotion' \in [Works -> PromotionRow],
         \A w \in Works : promotion'[w] # promotion[w] =>
             promotion[w].status # "none" /\ promotion'[w].status # "none",
         UNCHANGED <<clock, result, receipt>>
  PROVE  Inv'
<1>1. /\ work' \in [Works -> WorkRow]
      /\ leases' \subseteq Lease
      /\ LeaseInv'
      /\ ResultInv'
      /\ \A l \in leases' : l.state = "active" => l \in leases \ L
      /\ \A w \in Works : work'[w].state = "accepted" <=> work[w].state = "accepted"
  BY LeasesEnded DEF Inv
<1>2. Types'
  BY <1>1 DEF Inv, Types
<1>3. OwnerIsPresent'
  BY <1>1 DEF OwnerIsPresent
<1>4. AcceptInv'
  BY <1>1 DEF Inv, AcceptInv, Completed
<1> QED
  BY <1>1, <1>2, <1>3, <1>4 DEF Inv

LEMMA EndSessionStep ==
  ASSUME Inv, NEW s \in Sessions, EndSession(s), UNCHANGED <<receipt, promotion>>
  PROVE  Inv'
<1> DEFINE L == {l \in leases : l.session = s /\ l.state = "active"}
           st == [l \in L |-> "released"]
           M == {[l EXCEPT !.state = "released"] : l \in L}
<1>1. st \in [L -> {"released", "abandoned", "expired"}]
  OBVIOUS
<1>2. M = {[l EXCEPT !.state = st[l]] : l \in L} /\ EndLeases(L, M)
  BY DEF EndSession
<1>3. session' = [session EXCEPT ![s].state = "closed"] /\ agent' = Refreshed(session', AgentOf[s])
  BY DEF EndSession, Closed
<1>4. session' \in [Sessions -> SessionRow] /\ \A t \in Sessions \ {s} : session'[t] = session[t]
  BY <1>3, SessionTypes DEF Inv, Types
<1>5. agent' \in [Agents -> SessionStates \ {"none"}]
  BY <1>3, <1>4, AgentState DEF Inv, Types
<1>6. \A l \in leases \ L : l.state = "active" => session'[l.session].state \in Live
  BY <1>4 DEF Inv, Types, OwnerIsPresent, Lease
<1>7. UNCHANGED <<clock, result, call, receipt, promotion>>
  BY DEF EndSession
<1>8. /\ call' \in [Sessions -> {Free, [op |-> "reconcile"]} \cup ClaimCall] /\ CallInv'
      /\ promotion' \in [Works -> PromotionRow]
      /\ \A w \in Works : promotion'[w] # promotion[w] =>
             promotion[w].status # "none" /\ promotion'[w].status # "none"
      /\ UNCHANGED <<clock, result, receipt>>
  BY <1>7 DEF Inv, Types, CallInv
<1>9. L \in SUBSET leases /\ \A l \in L : l.state = "active"
  OBVIOUS
<1> HIDE DEF L, st, M
<1> QED
  BY <1>1, <1>2, <1>4, <1>5, <1>6, <1>8, <1>9, LeasesEndStep

(* reconcile, wherever it is called from: every lease that is lost was     *)
(* active, and none is left with a session that is gone.                   *)
LEMMA ReconcileStep ==
  ASSUME Inv, Reconcile,
         call' \in [Sessions -> {Free, [op |-> "reconcile"]} \cup ClaimCall], CallInv',
         promotion' \in [Works -> PromotionRow],
         \A w \in Works : promotion'[w] # promotion[w] =>
             promotion[w].status # "none" /\ promotion'[w].status # "none",
         UNCHANGED <<clock, result, receipt>>
  PROVE  Inv'
<1> DEFINE gone == {s \in Sessions : Silent(s)}
           L == Lost(gone)
           st == [l \in L |-> Expired(l, gone).state]
           M == {Expired(l, gone) : l \in L}
<1>1. L \in SUBSET leases /\ \A l \in L : l.state = "active"
  BY DEF Lost, Overdue
<1>2. \A l \in L : /\ Expired(l, gone) = [l EXCEPT !.state = st[l]]
                   /\ st[l] \in {"released", "abandoned", "expired"}
  <2> TAKE l \in L
  <2>1. l \in Lease
    BY <1>1 DEF Inv, Types
  <2> QED
    BY <2>1 DEF Expired, Lease
<1>3. st \in [L -> {"released", "abandoned", "expired"}]
  BY <1>2
<1>4. EndLeases(L, M)
  BY DEF Reconcile
<1>5. session' = [s \in Sessions |-> IF s \in gone THEN [session[s] EXCEPT !.state = "stale"]
                                     ELSE session[s]]
  BY DEF Reconcile
<1>6. session' \in [Sessions -> SessionRow]
  <2>1. \A s \in Sessions : /\ session[s] \in SessionRow
                            /\ [session[s] EXCEPT !.state = "stale"] \in SessionRow
    BY DEF Inv, Types, SessionRow, SessionStates
  <2> QED
    BY <1>5, <2>1
<1>7. agent' \in [Agents -> SessionStates \ {"none"}]
  <2>1. \E last \in Orders(gone) : agent' = ReconciledAgents(gone, last)
    BY DEF Reconcile
  <2> QED
    BY <2>1 DEF ReconciledAgents, Inv, Types, SessionStates
<1>8. \A l \in leases \ L : l.state = "active" => session'[l.session].state \in Live
  <2> TAKE l \in leases \ L
  <2>1. l.session \in Sessions
    BY DEF Inv, Types, Lease
  <2>2. l.state = "active" => l.session \notin gone
    BY DEF Lost
  <2> QED
    BY <1>5, <2>1, <2>2 DEF Inv, OwnerIsPresent
<1>9. M = {Expired(l, gone) : l \in L}
  OBVIOUS
<1> HIDE DEF gone, L, st, M
<1>10. M = {[l EXCEPT !.state = st[l]] : l \in L}
  BY <1>2, <1>9
<1> QED
  BY <1>1, <1>3, <1>4, <1>6, <1>7, <1>8, <1>10, LeasesEndStep

LEMMA FinishHeartbeatStep ==
  ASSUME Inv, NEW s \in Sessions, FinishHeartbeat(s), UNCHANGED <<receipt, promotion>>
  PROVE  Inv'
<1>1. call' \in [Sessions -> {Free, [op |-> "reconcile"]} \cup ClaimCall] /\ CallInv'
  BY DEF FinishHeartbeat, Inv, Types, CallInv, Free
<1>2. Reconcile /\ UNCHANGED <<clock, result, receipt, promotion>>
  BY DEF FinishHeartbeat
<1>3. /\ promotion' \in [Works -> PromotionRow]
      /\ \A w \in Works : promotion'[w] # promotion[w] =>
             promotion[w].status # "none" /\ promotion'[w].status # "none"
      /\ UNCHANGED <<clock, result, receipt>>
  BY <1>2 DEF Inv, Types
<1> QED
  BY <1>1, <1>2, <1>3, ReconcileStep

LEMMA MaintenanceStep ==
  ASSUME Inv, Maintenance
  PROVE  Inv'
<1>1. call' \in [Sessions -> {Free, [op |-> "reconcile"]} \cup ClaimCall] /\ CallInv'
  BY DEF Maintenance, Inv, Types, CallInv
<1>2. PICK done \in SUBSET {w \in Works : Due(promotion[w])} :
         promotion' = [w \in Works |-> IF Due(promotion[w]) THEN Promoted(promotion[w], w \in done)
                                       ELSE promotion[w]]
  BY DEF Maintenance
<1>3. ASSUME NEW w \in Works
      PROVE  /\ promotion'[w] \in PromotionRow
             /\ promotion'[w] # promotion[w] =>
                  promotion[w].status # "none" /\ promotion'[w].status # "none"
  <2>1. promotion[w] \in PromotionRow
    BY DEF Inv, Types
  <2>2. CASE Due(promotion[w])
    <3>1. /\ promotion[w].status \in {"pending", "failed"}
          /\ promotion[w].attempts \in Nat /\ promotion[w].attempts < MaxPromotions
          /\ promotion[w].attempts + 1 \in 0..MaxPromotions
      BY <2>1, <2>2, WorkAcceptanceAssumption DEF Due, PromotionRow
    <3>2. promotion'[w] = Promoted(promotion[w], w \in done)
      BY <1>2, <2>2
    <3>3. promotion'[w] \in PromotionRow /\ promotion'[w].status \in {"persisted", "failed"}
      BY <3>1, <3>2 DEF Promoted, PromotionRow
    <3> QED
      BY <3>1, <3>3
  <2>3. CASE ~Due(promotion[w])
    BY <1>2, <2>1, <2>3 DEF Due
  <2> QED
    BY <2>2, <2>3
<1>4. promotion' \in [Works -> PromotionRow]
  BY <1>2, <1>3
<1> QED
  BY <1>1, <1>3, <1>4, ReconcileStep DEF Maintenance

-----------------------------------------------------------------------------
LEMMA RegisterWorkStep ==
  ASSUME Inv, NEW s \in Sessions, NEW w \in Works, RegisterWork(s, w), UNCHANGED <<receipt, promotion>>
  PROVE  Inv'
<1>1. /\ work[w] = NoWork
      /\ work' = [work EXCEPT ![w] = [state |-> "ready", attempt |-> 0, expires |-> clock + WorkLife]]
      /\ UNCHANGED <<clock, session, agent, leases, result, call, receipt, promotion>>
  BY DEF RegisterWork
<1>2. work' \in [Works -> WorkRow]
  <2>1. [state |-> "ready", attempt |-> 0, expires |-> clock + WorkLife] \in WorkRow
    BY Limits DEF Inv, Types, WorkRow, WorkStates
  <2> QED
    BY <1>1, <2>1 DEF Inv, Types
<1>3. \A v \in Works : /\ work'[v].attempt = work[v].attempt
                       /\ v # w => work'[v] = work[v]
  BY <1>1 DEF Inv, Types, NoWork
<1>4. work[w].state = "none" /\ work'[w].state = "ready"
  BY <1>1 DEF Inv, Types, NoWork
<1>5. LeaseInv'
  BY <1>1, <1>3, <1>4, LeasesUnmoved DEF Inv, Types
<1>6. ResultInv'
  BY <1>1, <1>3, <1>4 DEF Inv, ResultInv, Delivered
<1>7. AcceptInv'
  BY <1>1, <1>3, <1>4 DEF Inv, AcceptInv, Completed
<1> QED
  BY <1>1, <1>2, <1>5, <1>6, <1>7 DEF Inv, Types, CallInv, OwnerIsPresent

LEMMA PrepareClaimStep ==
  ASSUME Inv, NEW s \in Sessions, NEW w \in Works, PrepareClaim(s, w), UNCHANGED <<receipt, promotion>>
  PROVE  Inv'
<1> DEFINE c == NextClaim(w)
<1>1. /\ work[w].expires > clock /\ Fenced(w, c)
      /\ call' = [call EXCEPT ![s] = c]
      /\ UNCHANGED <<clock, session, agent, work, leases, result, receipt, promotion>>
  BY DEF PrepareClaim
<1>2. work[w] \in WorkRow /\ clock \in 0..MaxClock
  BY DEF Inv, Types
<1>3. /\ c.op = "claim" /\ c.work = w /\ c.attempt = work[w].attempt + 1
      /\ c.generation = work[w].attempt + 1
  BY GenerationIsAttempt DEF Inv, NextClaim
<1>4. c.attempt <= MaxAttempts
  BY <1>1 DEF Fenced
<1>5. c.attempt \in 1..MaxAttempts
  BY <1>2, <1>3, <1>4, Limits DEF WorkRow
<1>6. (IF work[w].expires < clock + LeaseTime THEN work[w].expires ELSE clock + LeaseTime)
         \in 0..(MaxClock + LeaseTime)
  BY <1>2, Limits DEF WorkRow
<1>7. c \in ClaimCall
  BY <1>3, <1>5, <1>6 DEF NextClaim, ClaimCall
<1> HIDE DEF c
<1>8. call' \in [Sessions -> {Free, [op |-> "reconcile"]} \cup ClaimCall] /\ CallInv'
  BY <1>1, <1>3, <1>7 DEF Inv, Types, CallInv
<1> QED
  BY <1>1, <1>8 DEF Inv, Types, LeaseInv, OwnerIsPresent, ResultInv, AcceptInv, Completed

(* A claim that passes the fences opens the next attempt under a lease of  *)
(* its own number; one that does not changes nothing but the call.         *)
LEMMA ClaimStep ==
  ASSUME Inv, NEW s \in Sessions, Claim(s), UNCHANGED <<receipt, promotion>>
  PROVE  Inv'
<1> DEFINE c == call[s]
           w == c.work
           new == [work |-> w, generation |-> c.generation, attempt |-> c.attempt,
                   session |-> s, expires |-> c.expires, state |-> "active"]
<1>1. c \in ClaimCall /\ c.generation = c.attempt
  BY DEF Claim, Inv, Types, CallInv, Free
<1>2. /\ call' = [call EXCEPT ![s] = Free]
      /\ UNCHANGED <<clock, session, agent, result, receipt, promotion>>
  BY DEF Claim
<1>3. call' \in [Sessions -> {Free, [op |-> "reconcile"]} \cup ClaimCall] /\ CallInv'
  BY <1>2 DEF Inv, Types, CallInv, Free
<1>4. CASE UNCHANGED <<leases, work>>
  BY <1>2, <1>3, <1>4, SMTT(30) DEF Inv, Types, LeaseInv, OwnerIsPresent, ResultInv, AcceptInv, Completed
<1>5. CASE /\ Present(s, {"active"}) /\ Fenced(w, c)
           /\ leases' = leases \cup {new}
           /\ work' = [work EXCEPT ![w].attempt = c.attempt, ![w].state = "in_progress"]
  <2>1. w \in Works /\ new \in Lease
    BY <1>1 DEF ClaimCall, Lease
  <2>2. /\ new.work = w /\ new.generation = c.attempt /\ new.attempt = c.attempt
        /\ new.session = s /\ new.state = "active"
    BY <1>1
  <2>3. work[w] \in WorkRow
    BY <2>1 DEF Inv, Types
  <2>4. /\ work[w].state \in {"ready", "rework"} /\ c.attempt = work[w].attempt + 1
        /\ ~\E l \in leases : l.work = w /\ l.state = "active"
        /\ c.attempt \in 1..MaxAttempts
    BY <1>1, <1>5 DEF Fenced, Claimable, ActiveLeases, Of, ClaimCall
  <2>5. work' = [work EXCEPT ![w] = [work[w] EXCEPT !.attempt = c.attempt, !.state = "in_progress"]]
    BY <1>5, <2>1, <2>3 DEF Inv, Types, WorkRow
  <2> HIDE DEF new, c, w
  <2>6. /\ [work[w] EXCEPT !.attempt = c.attempt, !.state = "in_progress"] \in WorkRow
        /\ [work[w] EXCEPT !.attempt = c.attempt, !.state = "in_progress"].attempt = c.attempt
        /\ [work[w] EXCEPT !.attempt = c.attempt, !.state = "in_progress"].state = "in_progress"
    <3>1. c.attempt \in 0..MaxAttempts
      BY <2>4, Limits
    <3> QED
      BY <2>3, <3>1 DEF WorkRow, WorkStates
  <2>7. /\ work' \in [Works -> WorkRow]
        /\ work'[w].attempt = c.attempt /\ work'[w].state = "in_progress"
        /\ \A v \in Works \ {w} : work'[v] = work[v]
    BY <2>1, <2>5, <2>6 DEF Inv, Types
  <2>8. leases' \subseteq Lease
    BY <1>5, <2>1 DEF Inv, Types
  <2>9. \A l \in leases : l.work = w => l.generation < c.attempt
    BY <2>1, <2>3, <2>4 DEF Inv, LeaseInv, WorkRow, Types, Lease
  <2>10. LeaseInv'
    <3>1. ASSUME NEW v \in Works
          PROVE  /\ work'[v].state = "in_progress" <=> \E l \in leases' : l.work = v /\ l.state = "active"
                 /\ \A g \in 1..work'[v].attempt : \E l \in leases' : l.work = v /\ l.generation = g
      <4>1. CASE v = w
        <5>1. work'[v].state = "in_progress" /\ new \in leases'
          BY <1>5, <2>7, <4>1
        <5>2. ASSUME NEW g \in 1..work'[v].attempt
              PROVE  \E l \in leases' : l.work = v /\ l.generation = g
          <6>1. CASE g = c.attempt
            BY <2>2, <4>1, <5>1, <6>1
          <6>2. CASE g # c.attempt
            <7>1. g \in 1..work[w].attempt
              BY <2>3, <2>4, <2>7, <4>1, <6>2 DEF WorkRow
            <7> QED
              BY <1>5, <2>1, <4>1, <7>1 DEF Inv, LeaseInv
          <6> QED
            BY <6>1, <6>2
        <5> QED
          BY <2>2, <4>1, <5>1, <5>2
      <4>2. CASE v # w
        <5>1. work'[v] = work[v]
          BY <2>7, <4>2
        <5>2. \A l \in leases' : l.work = v => l \in leases
          BY <1>5, <2>2, <4>2
        <5>3. leases \subseteq leases'
          BY <1>5
        <5> QED
          BY <5>1, <5>2, <5>3 DEF Inv, LeaseInv
      <4> QED
        BY <4>1, <4>2
    <3>2. ASSUME NEW l \in leases'
          PROVE  /\ l.generation = l.attempt
                 /\ l.generation <= work'[l.work].attempt
                 /\ l.state = "active" => l.generation = work'[l.work].attempt
      <4>1. CASE l = new
        BY <2>2, <2>4, <2>7, <4>1, Limits
      <4>2. CASE l \in leases /\ l.work = w
        <5>1. l.generation = l.attempt /\ l.generation < c.attempt /\ l.state # "active"
          BY <2>4, <2>9, <4>2 DEF Inv, LeaseInv
        <5>2. l.generation \in Nat /\ c.attempt \in Nat
          BY <2>4, <4>2, Limits DEF Inv, Types, Lease
        <5> QED
          BY <2>7, <4>2, <5>1, <5>2
      <4>3. CASE l \in leases /\ l.work # w
        <5>1. work'[l.work] = work[l.work]
          BY <2>7, <4>3 DEF Inv, Types, Lease
        <5> QED
          BY <4>3, <5>1 DEF Inv, LeaseInv
      <4> QED
        BY <1>5, <4>1, <4>2, <4>3
    <3>3. ASSUME NEW l \in leases', NEW m \in leases', l.work = m.work, l.generation = m.generation
          PROVE  l = m
      <4>1. ASSUME NEW x \in leases, x.work = w
            PROVE  x.generation # c.attempt
        BY <2>4, <2>9, <4>1, Limits DEF Inv, Types, Lease
      <4>2. CASE l \in leases /\ m \in leases
        BY <3>3, <4>2 DEF Inv, LeaseInv
      <4> QED
        BY <1>5, <2>2, <3>3, <4>1, <4>2
    <3> QED
      BY <3>1, <3>2, <3>3 DEF LeaseInv
  <2>11. OwnerIsPresent'
    BY <1>2, <1>5, <2>2 DEF Inv, OwnerIsPresent, Present, Live
  <2>12. ResultInv'
    <3>1. \A v \in Works : result[v] # NoResult => v # w
      BY <2>4 DEF Inv, ResultInv, Delivered
    <3>2. leases \subseteq leases'
      BY <1>5
    <3> QED
      BY <1>2, <2>7, <3>1, <3>2 DEF Inv, ResultInv
  <2>13. AcceptInv'
    BY <1>2, <2>4, <2>7 DEF Inv, AcceptInv, Completed
  <2> QED
    BY <1>2, <1>3, <2>7, <2>8, <2>10, <2>11, <2>12, <2>13 DEF Inv, Types
<1> QED
  BY <1>4, <1>5 DEF Claim

LEMMA SubmitStep ==
  ASSUME Inv, NEW s \in Sessions, NEW l \in leases, NEW o \in {"completed", "failed"},
         Submit(s, l, o), UNCHANGED <<receipt, promotion>>
  PROVE  Inv'
<1> DEFINE w == l.work
           row == [generation |-> l.generation, session |-> s, outcome |-> o]
           done == [l EXCEPT !.state = "completed"]
<1>1. /\ AgentOf[s] = Assignee[w]
      /\ work[w].state = "in_progress" /\ l.session = s /\ l.state = "active"
      /\ result' = [result EXCEPT ![w] = row]
      /\ work' = [work EXCEPT ![w].state = "submitted"]
      /\ leases' = (leases \ {l}) \cup {done}
      /\ UNCHANGED <<clock, session, agent, call, receipt, promotion>>
  BY DEF Submit, Assigned, InHand, Holds
<1>2. l \in Lease /\ w \in Works /\ work[w] \in WorkRow
  BY DEF Inv, Types, Lease
<1>3. /\ done \in Lease /\ done.work = w /\ done.generation = l.generation
      /\ done.attempt = l.attempt /\ done.session = s /\ done.state = "completed"
  BY <1>1, <1>2 DEF Lease
<1>4. row \in ResultRow /\ row.generation = l.generation /\ row.session = s
  BY <1>2 DEF ResultRow, Lease
<1>5. /\ work' \in [Works -> WorkRow]
      /\ \A v \in Works : /\ work'[v].attempt = work[v].attempt
                          /\ v # w => work'[v] = work[v]
      /\ work'[w].state = "submitted"
  <2>1. /\ [work[w] EXCEPT !.state = "submitted"] \in WorkRow
        /\ [work[w] EXCEPT !.state = "submitted"].attempt = work[w].attempt
    BY <1>2 DEF WorkRow, WorkStates
  <2> QED
    BY <1>1, <1>2, <2>1 DEF Inv, Types, WorkRow
<1> HIDE DEF w, row, done
<1>6. result' \in [Works -> ResultRow \cup {NoResult}] /\ result'[w] = row
      /\ \A v \in Works \ {w} : result'[v] = result[v]
  BY <1>1, <1>2, <1>4 DEF Inv, Types
<1>7. result[w] = NoResult
  BY <1>1, <1>2 DEF Inv, ResultInv, Delivered
<1>8. l.work = w
  BY DEF w
<1>9. \A m \in leases : m.work = w /\ m.state = "active" => m = l
  BY <1>1, <1>8 DEF Inv, LeaseInv
<1>10. Types'
  BY <1>1, <1>3, <1>5, <1>6 DEF Inv, Types
<1>11. LeaseInv'
  <2>1. ASSUME NEW v \in Works
        PROVE  /\ work'[v].state = "in_progress" <=> \E m \in leases' : m.work = v /\ m.state = "active"
               /\ \A g \in 1..work'[v].attempt : \E m \in leases' : m.work = v /\ m.generation = g
    <3>1. work'[v].state = "in_progress" <=> \E m \in leases' : m.work = v /\ m.state = "active"
      <4>1. CASE v = w
        BY <1>1, <1>3, <1>5, <1>9, <4>1
      <4>2. CASE v # w
        BY <1>1, <1>3, <1>5, <1>8, <4>2 DEF Inv, LeaseInv
      <4> QED
        BY <4>1, <4>2
    <3>2. ASSUME NEW g \in 1..work'[v].attempt
          PROVE  \E m \in leases' : m.work = v /\ m.generation = g
      <4>1. PICK m \in leases : m.work = v /\ m.generation = g
        BY <1>5 DEF Inv, LeaseInv
      <4> QED
        BY <1>1, <1>3, <1>8, <4>1
    <3> QED
      BY <3>1, <3>2
  <2>2. ASSUME NEW x \in leases'
        PROVE  \E m \in leases : /\ m.work = x.work /\ m.generation = x.generation
                                 /\ m.attempt = x.attempt
                                 /\ x.state = "active" => m = x
                                 /\ IF m = l THEN x = done ELSE x = m
    BY <1>1, <1>3, <1>8
  <2>3. ASSUME NEW x \in leases'
        PROVE  /\ x.generation = x.attempt
               /\ x.generation <= work'[x.work].attempt
               /\ x.state = "active" => x.generation = work'[x.work].attempt
    <3>1. x.work \in Works
      BY <1>10 DEF Types, Lease
    <3> QED
      BY <1>5, <2>2, <3>1 DEF Inv, LeaseInv
  <2>4. ASSUME NEW x \in leases', NEW y \in leases', x.work = y.work, x.generation = y.generation
        PROVE  x = y
    BY <2>2, <2>4 DEF Inv, LeaseInv
  <2> QED
    BY <2>1, <2>3, <2>4 DEF LeaseInv
<1>12. OwnerIsPresent'
  BY <1>1, <1>3 DEF Inv, OwnerIsPresent
<1>13. ResultInv'
  <2>1. ASSUME NEW v \in Works, result'[v] # NoResult, v # w
        PROVE  /\ work'[v].state \in Delivered
               /\ AgentOf[result'[v].session] = Assignee[v]
               /\ \E m \in leases' : /\ m.work = v /\ m.state = "completed"
                                     /\ m.generation = work'[v].attempt
                                     /\ result'[v].generation = m.generation
                                     /\ result'[v].session = m.session
    <3>1. result'[v] = result[v] /\ work'[v] = work[v]
      BY <1>5, <1>6, <2>1
    <3>2. PICK m \in leases : /\ m.work = v /\ m.state = "completed"
                              /\ m.generation = work[v].attempt
                              /\ result[v].generation = m.generation
                              /\ result[v].session = m.session
      BY <2>1, <3>1 DEF Inv, ResultInv
    <3>3. m \in leases'
      BY <1>1, <1>8, <2>1, <3>2
    <3> QED
      BY <2>1, <3>1, <3>2, <3>3 DEF Inv, ResultInv
  <2>2. /\ work'[w].state \in Delivered
        /\ AgentOf[result'[w].session] = Assignee[w]
        /\ done \in leases' /\ done.work = w /\ done.state = "completed"
        /\ done.generation = work'[w].attempt
        /\ result'[w].generation = done.generation
        /\ result'[w].session = done.session
    <3>1. l.generation = work[w].attempt
      BY <1>1, <1>8 DEF Inv, LeaseInv
    <3> QED
      BY <1>1, <1>2, <1>3, <1>4, <1>5, <1>6, <3>1 DEF Delivered
  <2> QED
    BY <2>1, <2>2 DEF ResultInv
<1>14. AcceptInv'
  BY <1>1, <1>2, <1>5, <1>6, <1>7 DEF Inv, AcceptInv, Completed
<1>15. CallInv'
  BY <1>1 DEF Inv, CallInv
<1> QED
  BY <1>10, <1>11, <1>12, <1>13, <1>14, <1>15 DEF Inv

(* Review, the receipt and acceptance move delivered work on.              *)
LEMMA ReviewSteps ==
  ASSUME Inv, NEW s \in Sessions, NEW w \in Works, Review(s, w) \/ Accept(s, w)
  PROVE  Inv'
<1>1. PICK st \in {"reviewing", "accepted"} :
         /\ work' = [work EXCEPT ![w].state = st]
         /\ work[w].state \in {"submitted", "reviewing"}
         /\ UNCHANGED <<clock, session, agent, leases, result, call, receipt>>
         /\ st = "reviewing" => promotion' = promotion
         /\ st = "accepted" => /\ promotion' = [promotion EXCEPT ![w].status = "pending"]
                               /\ receipt[w].reviewer = s
  BY DEF Review, Accept
<1>2. work[w] \in WorkRow /\ promotion[w] \in PromotionRow
  BY DEF Inv, Types
<1>3. /\ work' \in [Works -> WorkRow]
      /\ \A v \in Works : /\ work'[v].attempt = work[v].attempt
                          /\ v # w => work'[v] = work[v]
      /\ work'[w].state = st
  <2>1. /\ [work[w] EXCEPT !.state = st] \in WorkRow
        /\ [work[w] EXCEPT !.state = st].attempt = work[w].attempt
    BY <1>2 DEF WorkRow, WorkStates
  <2> QED
    BY <1>1, <1>2, <2>1 DEF Inv, Types, WorkRow
<1>4. /\ promotion' \in [Works -> PromotionRow]
      /\ \A v \in Works \ {w} : promotion'[v] = promotion[v]
      /\ st = "accepted" => promotion'[w].status = "pending"
  <2>1. [promotion[w] EXCEPT !.status = "pending"] \in PromotionRow
    BY <1>2 DEF PromotionRow
  <2> QED
    BY <1>1, <1>2, <2>1 DEF Inv, Types, PromotionRow
<1>5. LeaseInv'
  BY <1>1, <1>3, LeasesUnmoved DEF Inv, Types
<1>6. ResultInv'
  BY <1>1, <1>3 DEF Inv, ResultInv, Delivered
<1>7. AcceptInv'
  <2>1. st = "accepted" => receipt[w] # NoReceipt
    <3>1. ASSUME receipt[w] = NoReceipt, receipt[w].reviewer = s
          PROVE  FALSE
      BY <3>1, WorkAcceptanceAssumption DEF NoReceipt
    <3> QED
      BY <1>1, <3>1
  <2> QED
    BY <1>1, <1>3, <1>4, <2>1 DEF Inv, AcceptInv, Completed
<1> QED
  BY <1>1, <1>3, <1>4, <1>5, <1>6, <1>7 DEF Inv, Types, CallInv, OwnerIsPresent

LEMMA IssueStep ==
  ASSUME Inv, NEW s \in Sessions, NEW w \in Works, Issue(s, w)
  PROVE  Inv'
<1> DEFINE row == [reviewer |-> s, generation |-> result[w].generation]
<1>1. /\ AgentOf[s] # Assignee[w] /\ Completed(w)
      /\ receipt' = [receipt EXCEPT ![w] = row]
      /\ UNCHANGED <<clock, session, agent, work, leases, result, call, promotion>>
  BY DEF Issue, IsPeer, boardVars
<1>2. row \in ReceiptRow
  BY <1>1 DEF Completed, Inv, Types, ResultRow, ReceiptRow
<1>3. receipt' \in [Works -> ReceiptRow \cup {NoReceipt}] /\ receipt'[w] = row
      /\ \A v \in Works \ {w} : receipt'[v] = receipt[v]
  BY <1>1, <1>2 DEF Inv, Types
<1>4. AcceptInv'
  BY <1>1, <1>3, WorkAcceptanceAssumption DEF Inv, AcceptInv, Completed, NoReceipt
<1> QED
  BY <1>1, <1>3, <1>4 DEF Inv, Types, LeaseInv, CallInv, OwnerIsPresent, ResultInv

-----------------------------------------------------------------------------
LEMMA InitInv == AllInit => Inv
<1> SUFFICES ASSUME AllInit PROVE Inv
  OBVIOUS
<1> USE DEF AllInit, Init
<1>1. Types
  BY Limits, WorkAcceptanceAssumption
     DEF Types, SessionRow, Absent, SessionStates, WorkRow, NoWork, WorkStates, NoPromotion, PromotionRow
<1>2. LeaseInv
  <2>1. \A w \in Works : 1..work[w].attempt = {}
    BY DEF NoWork
  <2> QED
    BY <2>1 DEF LeaseInv, NoWork
<1>3. CallInv /\ OwnerIsPresent /\ ResultInv
  BY DEF CallInv, Free, OwnerIsPresent, ResultInv
<1>4. AcceptInv
  BY DEF AcceptInv, NoPromotion, NoWork
<1> QED
  BY <1>1, <1>2, <1>3, <1>4 DEF Inv

LEMMA StepInv == Inv /\ [Next]_vars => Inv'
<1> SUFFICES ASSUME Inv, [Next]_vars PROVE Inv'
  OBVIOUS
<1>1. CASE BoardNext /\ UNCHANGED <<receipt, promotion>>
  <2> UNCHANGED <<receipt, promotion>>
    BY <1>1
  <2>1. CASE Tick
    BY <2>1, TickStep
  <2>2. ASSUME NEW s \in Sessions,
               \/ Register(s) \/ Heartbeat(s) \/ MarkIdle(s) \/ EndSession(s)
               \/ Claim(s) \/ FinishHeartbeat(s)
        PROVE  Inv'
    BY <2>2, RegisterStep, HeartbeatStep, MarkIdleStep, EndSessionStep, ClaimStep, FinishHeartbeatStep
  <2>3. ASSUME NEW s \in Sessions, NEW w \in Works, RegisterWork(s, w) \/ PrepareClaim(s, w)
        PROVE  Inv'
    BY <2>3, RegisterWorkStep, PrepareClaimStep
  <2>4. ASSUME NEW s \in Sessions, NEW l \in leases, NEW o \in {"completed", "failed"}, Submit(s, l, o)
        PROVE  Inv'
    BY <2>4, SubmitStep
  <2> QED
    BY <1>1, <2>1, <2>2, <2>3, <2>4 DEF BoardNext
<1>2. ASSUME NEW s \in Sessions, NEW w \in Works, Review(s, w) \/ Issue(s, w) \/ Accept(s, w)
      PROVE  Inv'
  BY <1>2, ReviewSteps, IssueStep
<1>3. CASE Maintenance
  BY <1>3, MaintenanceStep
<1>4. CASE UNCHANGED vars
  BY <1>4 DEF vars, boardVars, Inv, Types, LeaseInv, CallInv, OwnerIsPresent, ResultInv, AcceptInv, Completed
<1> QED
  BY <1>1, <1>2, <1>3, <1>4 DEF Next

(* The invariant of the board, its calls, results and acceptances.         *)
LEMMA Invariant == Spec => []Inv
BY InitInv, StepInv, PTL DEF Spec

-----------------------------------------------------------------------------
(* The rows of the board, of the receipts and of the outbox keep their     *)
(* types; no claim, result or receipt goes past MaxAttempts.               *)
THEOREM TypeCorrect == Spec => []TypeOK
<1>1. Inv => TypeOK
  BY DEF Inv, Types, TypeOK, BoardTypeOK, SessionRow, ResultRow, ReceiptRow, PromotionRow
<1> QED
  BY <1>1, Invariant, PTL

(* Work is in hand exactly while one lease of it is active, the last one,  *)
(* and its leases number its attempts (claim_work, reconcile).             *)
THEOREM LeasesMatchWork == Spec => []LeaseMatchesWork
<1>1. Inv => LeaseMatchesWork
  <2> SUFFICES ASSUME Inv, NEW w \in Works
               PROVE  /\ (work[w].state \in InHand) = (ActiveLeases(w) # {})
                      /\ Cardinality(Of(w)) = work[w].attempt
                      /\ {l.generation : l \in Of(w)} = 1..work[w].attempt
                      /\ \A l \in Of(w) : l.generation = l.attempt
                      /\ \A l \in ActiveLeases(w) : l.attempt = work[w].attempt
    BY DEF LeaseMatchesWork
  <2>1. (work[w].state \in InHand) <=> (ActiveLeases(w) # {})
    BY DEF Inv, LeaseInv, InHand, ActiveLeases, Of
  <2>2. Cardinality(Of(w)) = work[w].attempt
    BY GenerationIsAttempt DEF Inv, Generation
  <2>3. {l.generation : l \in Of(w)} = 1..work[w].attempt
    <3>1. \A l \in Of(w) : l.generation \in 1..work[w].attempt
      BY Limits DEF Inv, Types, LeaseInv, Lease, Of, WorkRow
    <3>2. \A g \in 1..work[w].attempt : \E l \in Of(w) : l.generation = g
      BY DEF Inv, LeaseInv, Of
    <3> QED
      BY <3>1, <3>2
  <2>4. /\ \A l \in Of(w) : l.generation = l.attempt
        /\ \A l \in ActiveLeases(w) : l.attempt = work[w].attempt
    BY DEF Inv, LeaseInv, ActiveLeases, Of
  <2> QED
    BY <2>1, <2>2, <2>3, <2>4
<1> QED
  BY <1>1, Invariant, PTL

(* A lease in force belongs to a session that is on the board: end_session *)
(* and every reconcile take the leases with the session.                   *)
THEOREM OwnersArePresent == Spec => []OwnerIsPresent
<1>1. Inv => OwnerIsPresent
  BY DEF Inv
<1> QED
  BY <1>1, Invariant, PTL

(* A result is the one the last lease of its work was completed with, and  *)
(* the work is not claimed again (record_result).                          *)
THEOREM ResultsAreOfLastLease == Spec => []ResultIsOfLastLease
<1>1. Inv => ResultIsOfLastLease
  <2> SUFFICES ASSUME Inv, NEW w \in Works, result[w] # NoResult
               PROVE  /\ work[w].state \notin Claimable \cup InHand \cup {"expired"}
                      /\ \E l \in Of(w) : /\ l.state = "completed" /\ l.generation = Generation(w)
                                          /\ result[w].generation = l.generation
                                          /\ result[w].session = l.session
    BY DEF ResultIsOfLastLease
  <2>1. Generation(w) = work[w].attempt
    BY GenerationIsAttempt DEF Inv
  <2> QED
    BY <2>1 DEF Inv, ResultInv, Delivered, Claimable, InHand, Of
<1> QED
  BY <1>1, Invariant, PTL

(* Accepted work has a completed result, a receipt for that very result by *)
(* the session of another agent, and its outbox row (accept_work).         *)
THEOREM AcceptedWorkIsProven == Spec => []AcceptedIsProven
<1>1. Inv => AcceptedIsProven
  <2> SUFFICES ASSUME Inv, NEW w \in Works
               PROVE  /\ (promotion[w] # NoPromotion) = (work[w].state = "accepted")
                      /\ (work[w].state = "accepted") =>
                           /\ result[w].outcome = "completed"
                           /\ receipt[w].generation = result[w].generation
                           /\ AgentOf[receipt[w].reviewer] # AgentOf[result[w].session]
    BY DEF AcceptedIsProven
  <2>1. (promotion[w] # NoPromotion) <=> (work[w].state = "accepted")
    BY DEF Inv, Types, AcceptInv, PromotionRow, NoPromotion
  <2>2. work[w].state = "accepted" =>
          /\ result[w].outcome = "completed"
          /\ receipt[w].generation = result[w].generation
          /\ AgentOf[receipt[w].reviewer] # AgentOf[result[w].session]
    BY DEF Inv, AcceptInv, ResultInv, Completed
  <2> QED
    BY <2>1, <2>2
<1> QED
  BY <1>1, Invariant, PTL

-----------------------------------------------------------------------------
(* The leases that end in a step, each with what ended it.                 *)
LEMMA LeaseEndings ==
  ASSUME Inv, [Next]_vars, NEW l \in leases, l.state = "active", l \notin leases',
         clock < l.expires + Grace, clock < session[l.session].beat + PresenceTimeout
  PROVE  \/ session'[l.session].state = "closed"
         \/ result'[l.work] # result[l.work] /\ result'[l.work].session = l.session
<1>1. /\ l \in Lease /\ l.session \in Sessions /\ l.work \in Works
      /\ session[l.session] \in SessionRow /\ clock \in Nat
      /\ l.expires \in Nat /\ session[l.session].beat \in Nat
  BY Limits DEF Inv, Types, Lease, SessionRow
<1>2. ~Reconcile
  <2> SUFFICES ASSUME Reconcile PROVE FALSE
    OBVIOUS
  <2>1. PICK M : leases' = (leases \ Lost({s \in Sessions : Silent(s)})) \cup M
    BY DEF Reconcile, EndLeases
  <2>2. Overdue(l) \/ Silent(l.session)
    BY <2>1 DEF Lost
  <2> QED
    BY <1>1, <2>2, Limits DEF Overdue, Silent
<1>3. ASSUME NEW s \in Sessions, EndSession(s)
      PROVE  session'[l.session].state = "closed"
  <2>1. PICK M : leases' = (leases \ {m \in leases : m.session = s /\ m.state = "active"}) \cup M
    BY <1>3 DEF EndSession, EndLeases
  <2>2. l.session = s
    BY <2>1
  <2> QED
    BY <1>1, <1>3, <2>2 DEF EndSession, Closed, Inv, Types, SessionRow
<1>4. ASSUME NEW s \in Sessions, NEW m \in leases, NEW o \in {"completed", "failed"}, Submit(s, m, o)
      PROVE  result'[l.work] # result[l.work] /\ result'[l.work].session = l.session
  <2> DEFINE row == [generation |-> m.generation, session |-> s, outcome |-> o]
  <2>1. /\ l = m /\ m.session = s
        /\ result' = [result EXCEPT ![m.work] = row]
        /\ work[m.work].state = "in_progress"
    BY <1>4 DEF Submit, Holds, InHand
  <2>2. result[l.work] = NoResult
    BY <1>1, <2>1 DEF Inv, ResultInv, Delivered
  <2>3. row.generation # 0 /\ row.session = s
    BY <1>1, <2>1, Limits DEF Lease
  <2>4. result'[l.work] = row
    BY <1>1, <2>1 DEF Inv, Types
  <2> HIDE DEF row
  <2> QED
    BY <2>1, <2>2, <2>3, <2>4 DEF NoResult
<1>5. ASSUME NEW s \in Sessions,
             Register(s) \/ Heartbeat(s) \/ MarkIdle(s) \/ Claim(s)
      PROVE  leases \subseteq leases'
  BY <1>5 DEF Register, Heartbeat, MarkIdle, Claim
<1>6. ASSUME NEW s \in Sessions, NEW w \in Works,
             \/ RegisterWork(s, w) \/ PrepareClaim(s, w)
             \/ Review(s, w) \/ Issue(s, w) \/ Accept(s, w)
      PROVE  leases' = leases
  BY <1>6 DEF RegisterWork, PrepareClaim, Review, Issue, Accept, boardVars
<1>7. Tick \/ UNCHANGED vars => leases' = leases
  BY DEF Tick, vars, boardVars
<1> QED
  BY <1>2, <1>3, <1>4, <1>5, <1>6, <1>7 DEF Next, BoardNext, Maintenance, FinishHeartbeat

(* A lease that has not expired, of a session heard of within the presence *)
(* timeout, is ended by that session only, by its end or by its result.    *)
THEOREM PresentOwnersKeepLeases == Spec => PresentOwnerKeepsLease
<1> DEFINE Kept == \A l \in leases :
                     (/\ l.state = "active" /\ clock < l.expires + Grace
                      /\ clock < session[l.session].beat + PresenceTimeout
                      /\ l \notin leases')
                       => \/ session'[l.session].state = "closed"
                          \/ result'[l.work] # result[l.work] /\ result'[l.work].session = l.session
<1>1. Inv /\ [Next]_vars => [Kept]_boardVars
  BY LeaseEndings
<1>2. Spec => [][Kept]_boardVars
  BY <1>1, Invariant, PTL DEF Spec
<1> QED
  BY <1>2 DEF PresentOwnerKeepsLease
=============================================================================

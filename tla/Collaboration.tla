--------------------------- MODULE Collaboration ---------------------------
(***************************************************************************)
(* The durable collaboration runtime (collaboration/durable_runtime.py):   *)
(* agents' presence, the work board and its leases.  Every operation is    *)
(* one transaction of the server's single writer; claim_work and heartbeat *)
(* are the two that do something outside it and are split there.  An agent *)
(* may have several sessions, and each session belongs to one coordination *)
(* session, here a room.                                                   *)
(***************************************************************************)
EXTENDS Integers, FiniteSets, Functions

CONSTANTS Sessions, Works,
          AgentOf, RoomOf,      \* of a session
          Assignee, WorkRoom,   \* of a work item: the agent, and where
          MaxAttempts,
          PresenceTimeout, Lifetime,    \* of a session
          WorkLife, LeaseTime, Grace,   \* of a receipt, of a lease, before a reclaim
          MaxClock,             \* bound on the clock
          LastWork              \* bound: no work is registered later

Agents == Range(AgentOf)

ASSUME CollaborationAssumption ==
    /\ DOMAIN AgentOf = Sessions /\ DOMAIN RoomOf = Sessions
    /\ DOMAIN Assignee = Works /\ DOMAIN WorkRoom = Works
    /\ MaxAttempts \in Nat \ {0}
    /\ PresenceTimeout \in Nat \ {0} /\ Lifetime \in Nat /\ Lifetime >= PresenceTimeout
    /\ WorkLife \in Nat /\ LeaseTime \in Nat \ {0} /\ Grace \in Nat
    /\ MaxClock \in Nat /\ LastWork \in 0..MaxClock

VARIABLES clock,
          session,   \* collaboration_agent_sessions
          agent,     \* the state column of collaboration_agents
          work,      \* collaboration_work_items
          leases,    \* collaboration_work_leases
          result,    \* collaboration_results, one per work item
          call       \* what a session is in the middle of

boardVars == <<clock, session, agent, work, leases, result, call>>

Absent == [state |-> "none", beat |-> 0, expires |-> 0]
NoWork == [state |-> "none", attempt |-> 0, expires |-> 0]
NoResult == [generation |-> 0]
Free == [op |-> "none"]

Live == {"active", "idle"}
Claimable == {"ready", "rework"}    \* proposed and ready are one
InHand == {"in_progress"}    \* leased and in_progress, which nothing tells apart

Of(w) == {l \in leases : l.work = w}
ActiveLeases(w) == {l \in Of(w) : l.state = "active"}
\* The latest fencing generation of w, 0 before the first claim.
Generation(w) == Cardinality(Of(w))

-----------------------------------------------------------------------------
\* _refresh_agent_registry_state, over every session of the agent.
Aggregate(ss, a) ==
    LET states == {ss[s].state : s \in {t \in Sessions : AgentOf[t] = a}}
    IN  IF "active" \in states THEN "active"
        ELSE IF "idle" \in states THEN "idle"
        ELSE IF "stale" \in states THEN "stale" ELSE "closed"

Refreshed(ss, a) == [agent EXCEPT ![a] = Aggregate(ss, a)]

\* _require_agent_session: the session's own state, the agent's, and the expiry
\* are looked at under the writer.
Present(s, states) ==
    /\ session[s].state \in states
    /\ agent[AgentOf[s]] \in Live
    /\ session[s].expires > clock

Usable(s) == call[s] = Free /\ Present(s, {"active"})

\* May s act on w as its assignee, or as somebody else in the room.
Assigned(s, w) == AgentOf[s] = Assignee[w] /\ RoomOf[s] = WorkRoom[w]
\* Faulty: the assignee may review its own work.
InRoom(s, w) == RoomOf[s] = WorkRoom[w]
IsPeer(s, w) == AgentOf[s] # Assignee[w] /\ RoomOf[s] = WorkRoom[w]

\* Work whose lease ends without a result is done again, or has run out.
Reclaimed(item) ==
    [item EXCEPT !.state = IF item.attempt >= MaxAttempts THEN "expired" ELSE "rework"]

\* The leases in L end, as M has them; their work is reclaimed.
EndLeases(L, M) ==
    /\ leases' = (leases \ L) \cup M
    /\ work' = [w \in Works |-> IF \E l \in L : l.work = w THEN Reclaimed(work[w]) ELSE work[w]]

-----------------------------------------------------------------------------
Init ==
    /\ clock = 0
    /\ session = [s \in Sessions |-> Absent]
    /\ agent = [a \in Agents |-> "closed"]
    /\ work = [w \in Works |-> NoWork]
    /\ leases = {}
    /\ result = [w \in Works |-> NoResult]
    /\ call = [s \in Sessions |-> Free]

Tick == /\ clock < MaxClock /\ clock' = clock + 1
        /\ UNCHANGED <<session, agent, work, leases, result, call>>

\* register_session: a new session, or a known one that is not closed, which a
\* stale one becomes active by.  Its expires_at is not written again.
Register(s) ==
    /\ call[s] = Free
    /\ session[s].state # "closed"
    /\ session' = [session EXCEPT ![s] =
         [state |-> "active", beat |-> clock,
          expires |-> IF @.state = "none" THEN clock + Lifetime ELSE @.expires]]
    /\ agent' = Refreshed(session', AgentOf[s])
    /\ UNCHANGED <<clock, work, leases, result, call>>

\* heartbeat: its own transaction, then a reconcile in another one.
Heartbeat(s) ==
    /\ call[s] = Free /\ Present(s, Live)
    /\ session' = [session EXCEPT ![s].state = "active", ![s].beat = clock]
    /\ agent' = Refreshed(session', AgentOf[s])
    /\ call' = [call EXCEPT ![s] = [op |-> "reconcile"]]
    /\ UNCHANGED <<clock, work, leases, result>>

MarkIdle(s) ==
    /\ call[s] = Free /\ Present(s, Live)
    /\ session' = [session EXCEPT ![s].state = "idle"]
    /\ agent' = Refreshed(session', AgentOf[s])
    /\ UNCHANGED <<clock, work, leases, result, call>>

\* end_session: the session's leases are released with it.
Closed(s) ==
    /\ session' = [session EXCEPT ![s].state = "closed"]
    /\ agent' = Refreshed(session', AgentOf[s])

EndSession(s) ==
    /\ Usable(s)
    /\ LET held == {l \in leases : l.session = s /\ l.state = "active"}
       IN  EndLeases(held, {[l EXCEPT !.state = "released"] : l \in held})
    /\ Closed(s)
    /\ UNCHANGED <<clock, result, call>>

-----------------------------------------------------------------------------
RegisterWork(s, w) ==
    /\ Usable(s) /\ Assigned(s, w)
    /\ clock <= LastWork
    /\ work[w] = NoWork
    /\ work' = [work EXCEPT ![w] =
                  [state |-> "ready", attempt |-> 0, expires |-> clock + WorkLife]]
    /\ UNCHANGED <<clock, session, agent, leases, result, call>>

\* What claim_work asks of the lease it is given, before and under the writer.
\* Faulty: the fences were looked at before the writer was held, and are not again.
Unfenced(w, claim) == work[w].state # "none"

Fenced(w, claim) ==
    /\ work[w].state \in Claimable
    /\ claim.attempt = work[w].attempt + 1 /\ claim.attempt <= MaxAttempts
    /\ claim.generation > Generation(w)
    /\ ActiveLeases(w) = {}

\* The next claim of w as its rows are now.
NextClaim(w) ==
    [op |-> "claim", work |-> w, attempt |-> work[w].attempt + 1,
     generation |-> Generation(w) + 1,
     expires |-> IF work[w].expires < clock + LeaseTime THEN work[w].expires ELSE clock + LeaseTime]

\* claim_work: the lease is made from rows read, and a clock read, outside the
\* transaction that stores it.
PrepareClaim(s, w) ==
    /\ call[s] = Free /\ Assigned(s, w)
    /\ session[s].state = "active"
    /\ work[w].expires > clock
    /\ Fenced(w, NextClaim(w))
    /\ call' = [call EXCEPT ![s] = NextClaim(w)]
    /\ UNCHANGED <<clock, session, agent, work, leases, result>>

Claim(s) ==
    /\ call[s].op = "claim"
    /\ LET c == call[s] IN
       IF Present(s, {"active"}) /\ Fenced(c.work, c)
       THEN /\ leases' = leases \cup
                 {[work |-> c.work, generation |-> c.generation, attempt |-> c.attempt,
                   session |-> s, expires |-> c.expires, state |-> "active"]}
            /\ work' = [work EXCEPT ![c.work].attempt = c.attempt,
                                    ![c.work].state = "in_progress"]
       ELSE UNCHANGED <<leases, work>>
    /\ call' = [call EXCEPT ![s] = Free]
    /\ UNCHANGED <<clock, session, agent, result>>

\* The exact lease a result is delivered under.
\* Faulty: a lease of the session, whatever has become of it.
HeldOnce(s, l) == l.session = s /\ l.expires > clock

Holds(s, l) == l.session = s /\ l.state = "active" /\ l.expires > clock

\* record_result: a session delivers under any lease it was ever given.
Submit(s, l, outcome) ==
    /\ Usable(s) /\ Assigned(s, l.work)
    /\ work[l.work].state \in InHand
    /\ Holds(s, l)
    /\ result' = [result EXCEPT ![l.work] =
                    [generation |-> l.generation, session |-> s, outcome |-> outcome]]
    /\ work' = [work EXCEPT ![l.work].state = "submitted"]
    /\ leases' = (leases \ {l}) \cup {[l EXCEPT !.state = "completed"]}
    /\ UNCHANGED <<clock, session, agent, call>>

-----------------------------------------------------------------------------
Overdue(l) == l.state = "active" /\ l.expires + Grace <= clock
Silent(s) == session[s].state \in Live /\ session[s].beat + PresenceTimeout <= clock

\* reconcile goes over the silent sessions one by one, in no stated order, and
\* gives the agent the state its rooms have at that moment: only the sessions
\* in the room of the last one count.
ReconciledAgents(gone, last) ==
    [a \in Agents |->
       IF \A s \in gone : AgentOf[s] # a THEN agent[a]
       ELSE IF \E t \in Sessions \ gone : /\ AgentOf[t] = a /\ session[t].state \in Live
                                          /\ RoomOf[t] = RoomOf[last[a]]
            THEN "active" ELSE "stale"]

\* The silent session of each agent that is gone over last.
Orders(gone) ==
    {last \in [Agents -> Sessions] :
       \A a \in Agents : (\E s \in gone : AgentOf[s] = a)
                           => last[a] \in gone /\ AgentOf[last[a]] = a}

\* Faulty: the work of a session gone silent is left until its lease expires.
OnlyOverdue(gone) == {l \in leases : Overdue(l)}
\* Faulty: the leases of every session of the agent go with one of them.
LostByAgent(gone) ==
    {l \in leases : Overdue(l) \/ (l.state = "active" /\ \E s \in gone : AgentOf[s] = AgentOf[l.session])}
\* Faulty: a session that is heard of keeps what it holds.
LostWithSession(gone) == {l \in leases : l.state = "active" /\ l.session \in gone}

\* A lease ends with its session's presence, or at its own expiry.
Lost(gone) == {l \in leases : Overdue(l) \/ (l.state = "active" /\ l.session \in gone)}

\* How a lease ends that is lost: expired when its last attempt ran out of time.
Expired(l, gone) ==
    [l EXCEPT !.state = IF l.session \notin gone /\ work[l.work].attempt >= MaxAttempts
                        THEN "expired" ELSE "abandoned"]

Reconcile ==
    LET gone == {s \in Sessions : Silent(s)}
        lost == Lost(gone)
    IN  /\ session' = [s \in Sessions |->
                         IF s \in gone THEN [session[s] EXCEPT !.state = "stale"] ELSE session[s]]
        /\ agent' \in {ReconciledAgents(gone, last) : last \in Orders(gone)}
        /\ EndLeases(lost, {Expired(l, gone) : l \in lost})

\* The reconcile a heartbeat ends with.
FinishHeartbeat(s) ==
    /\ call[s].op = "reconcile"
    /\ Reconcile
    /\ call' = [call EXCEPT ![s] = Free]
    /\ UNCHANGED <<clock, result>>

BoardNext ==
    \/ Tick
    \/ \E s \in Sessions : \/ Register(s) \/ Heartbeat(s) \/ MarkIdle(s) \/ EndSession(s)
                           \/ Claim(s) \/ FinishHeartbeat(s)
    \/ \E s \in Sessions, w \in Works : RegisterWork(s, w) \/ PrepareClaim(s, w)
    \/ \E s \in Sessions, l \in leases, o \in {"completed", "failed"} : Submit(s, l, o)

-----------------------------------------------------------------------------
SessionStates == {"none", "active", "idle", "stale", "closed"}
Lease == [work : Works, generation : 1..MaxAttempts, attempt : 1..MaxAttempts,
          session : Sessions, expires : 0..(MaxClock + LeaseTime),
          state : {"active", "completed", "released", "abandoned", "expired"}]

BoardTypeOK ==
    /\ clock \in 0..MaxClock
    /\ session \in [Sessions -> [state : SessionStates, beat : 0..MaxClock,
                                 expires : 0..(MaxClock + Lifetime)]]
    /\ agent \in [Agents -> SessionStates \ {"none"}]
    /\ DOMAIN work = Works
    /\ leases \subseteq Lease
    /\ \A w \in Works : result[w] # NoResult =>
         result[w] \in [generation : 1..MaxAttempts, session : Sessions,
                        outcome : {"completed", "failed"}]

\* Work is in hand exactly while one lease of it is active, the one of its
\* latest generation and present attempt; no attempt is leased twice.  Two
\* sessions of the assignee prepare claims from the same rows.
LeaseMatchesWork ==
    \A w \in Works :
      /\ (work[w].state \in InHand) = (ActiveLeases(w) # {})
      /\ Cardinality(Of(w)) = work[w].attempt
      /\ {l.generation : l \in Of(w)} = 1..work[w].attempt
      /\ \A l \in Of(w) : l.generation = l.attempt
      /\ \A l \in ActiveLeases(w) : l.attempt = work[w].attempt

\* A lease in force belongs to a session that is still on the board: neither
\* end_session nor a reconcile leaves work with one that has gone.
OwnerIsPresent ==
    \A l \in leases : l.state = "active" => session[l.session].state \in Live

\* The result of a work item is the one its last lease was completed with, and
\* no lease of an earlier generation can still deliver.
ResultIsOfLastLease ==
    \A w \in Works :
      (result[w] # NoResult) =>
        /\ work[w].state \notin Claimable \cup InHand \cup {"expired"}
        /\ \E l \in Of(w) : /\ l.state = "completed" /\ l.generation = Generation(w)
                            /\ result[w].generation = l.generation
                            /\ result[w].session = l.session

\* A lease that has not expired, of a session that was heard of within the
\* presence timeout, is ended by that session only.
PresentOwnerKeepsLease ==
    [][\A l \in leases :
         (/\ l.state = "active" /\ clock < l.expires + Grace
          /\ clock < session[l.session].beat + PresenceTimeout
          /\ l \notin leases')
           => \/ session'[l.session].state = "closed"
              \/ result'[l.work] # result[l.work] /\ result'[l.work].session = l.session
      ]_boardVars
=============================================================================

-------------------------- MODULE MCCollaboration --------------------------
EXTENDS WorkAcceptance, TLC

CONSTANTS a1, a2, b1, w1, ann, bob, room

MCAgentOf == a1 :> ann @@ a2 :> ann @@ b1 :> bob
MCRoomOf == [s \in Sessions |-> room]
MCAssignee == [w \in Works |-> ann]
MCWorkRoom == [w \in Works |-> room]

\* The runs start where the first clock reading has seen every session
\* registered: what Register leads to.
Registered ==
    /\ clock = 0
    /\ session = [s \in Sessions |-> [state |-> "active", beat |-> 0, expires |-> Lifetime]]
    /\ agent = [a \in Agents |-> "active"]
    /\ work = [w \in Works |-> NoWork] /\ leases = {} /\ result = [w \in Works |-> NoResult]
    /\ call = [s \in Sessions |-> Free]
    /\ receipt = [w \in Works |-> NoReceipt] /\ promotion = [w \in Works |-> NoPromotion]

MCSpec == Registered /\ [][Next]_vars /\ Fairness

\* Nothing reads the last heartbeat of a session that has gone.
Seen == <<clock, agent, work, leases, result, call, receipt, promotion,
          [s \in Sessions |-> IF session[s].state \in Live THEN session[s]
                              ELSE [session[s] EXCEPT !.beat = 0]]>>

\* The peer's session reviews, and goes silent in the end: the agent with two
\* sessions is the one whose presence is to be looked at.
PeerOnlyReviews ==
    /\ session'[b1].state \in {session[b1].state, "stale"}
    /\ session'[b1].beat = session[b1].beat
=============================================================================

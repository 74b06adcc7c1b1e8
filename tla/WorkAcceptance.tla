--------------------------- MODULE WorkAcceptance ---------------------------
(***************************************************************************)
(* Review, acceptance and promotion of submitted work: review_work and     *)
(* accept_work of the durable runtime, the acceptance receipts of the      *)
(* server authority (collaboration/acceptance_receipt.py) and the outbox   *)
(* from which accepted work becomes a memory proposal.                     *)
(***************************************************************************)
EXTENDS Collaboration

CONSTANT MaxPromotions   \* attempts of reconcile_promotions

ASSUME WorkAcceptanceAssumption == MaxPromotions \in Nat /\ "none" \notin Sessions

VARIABLES receipt,     \* the acceptance receipt issued for a work item's result
          promotion    \* collaboration_promotion_outbox

vars == <<boardVars, receipt, promotion>>

NoReceipt == [reviewer |-> "none"]
NoPromotion == [status |-> "none", attempts |-> 0]

\* _transition_review_state to reviewing.
Review(s, w) ==
    /\ Usable(s) /\ IsPeer(s, w)
    /\ work[w].state = "submitted"
    /\ work' = [work EXCEPT ![w].state = "reviewing"]
    /\ UNCHANGED <<clock, session, agent, leases, result, call, receipt, promotion>>

\* AcceptanceReceiptAuthority.issue looks at the stored session rows and the
\* stored result, not at presence; one receipt per result, named for a reviewer.
Completed(w) == result[w] # NoResult /\ result[w].outcome = "completed"

Issue(s, w) ==
    /\ receipt[w] = NoReceipt
    /\ session[s].state # "none" /\ IsPeer(s, w)
    /\ Completed(w)
    /\ receipt' = [receipt EXCEPT ![w] = [reviewer |-> s, generation |-> result[w].generation]]
    /\ UNCHANGED <<boardVars, promotion>>

\* accept_work: the reviewer the receipt names, in one transaction with the
\* outbox row.
Accept(s, w) ==
    /\ Usable(s) /\ IsPeer(s, w)
    /\ work[w].state = "reviewing"
    /\ receipt[w].reviewer = s
    /\ work' = [work EXCEPT ![w].state = "accepted"]
    /\ promotion' = [promotion EXCEPT ![w].status = "pending"]
    /\ UNCHANGED <<clock, session, agent, leases, result, call, receipt>>

\* One pass of reconcile_promotions over one row; writing the proposal may fail.
\* Faulty: a failed row is not taken up again.
DueOnce(row) == row.status = "pending"
Due(row) == row.status \in {"pending", "failed"} /\ row.attempts < MaxPromotions

Promoted(row, ok) ==
    [status |-> IF ok THEN "persisted" ELSE "failed", attempts |-> row.attempts + 1]

\* The maintenance daemon's stage: reconcile and reconcile_promotions in one
\* transaction.
Maintenance ==
    /\ Reconcile
    /\ \E done \in SUBSET {w \in Works : Due(promotion[w])} :
         promotion' = [w \in Works |-> IF Due(promotion[w]) THEN Promoted(promotion[w], w \in done)
                                       ELSE promotion[w]]
    /\ UNCHANGED <<clock, result, call, receipt>>

Next ==
    \/ BoardNext /\ UNCHANGED <<receipt, promotion>>
    \/ \E s \in Sessions, w \in Works : Review(s, w) \/ Issue(s, w) \/ Accept(s, w)
    \/ Maintenance

AllInit == Init /\ receipt = [w \in Works |-> NoReceipt] /\ promotion = [w \in Works |-> NoPromotion]

\* The daemon runs its stage again and again; nothing makes an agent act.
Fairness == WF_vars(Tick /\ UNCHANGED <<receipt, promotion>>) /\ WF_vars(Maintenance)
Spec == AllInit /\ [][Next]_vars /\ Fairness

-----------------------------------------------------------------------------
TypeOK ==
    /\ BoardTypeOK
    /\ \A w \in Works : receipt[w] # NoReceipt =>
         receipt[w] \in [reviewer : Sessions, generation : 1..MaxAttempts]
    /\ promotion \in [Works -> [status : {"none", "pending", "failed", "persisted"},
                                attempts : 0..MaxPromotions]]

\* Work is accepted, and on its way to memory, only on a completed result, that
\* of its last lease, by the session of another agent that a receipt for that
\* very result names; and accepted work is never without its outbox row.
AcceptedIsProven ==
    \A w \in Works :
      /\ (promotion[w] # NoPromotion) = (work[w].state = "accepted")
      /\ (work[w].state = "accepted") =>
           /\ result[w].outcome = "completed"
           /\ receipt[w].generation = result[w].generation
           /\ AgentOf[receipt[w].reviewer] # AgentOf[result[w].session]

\* Work in hand is delivered or reclaimed: a lease cannot be kept alive by
\* heartbeats, and the daemon's stage ends what has expired.
LeasesEnd == \A w \in Works : work[w].state \in InHand ~> work[w].state \notin InHand

\* Accepted work becomes a proposal, or its outbox row has used up its attempts.
PromotionsEnd ==
    \A w \in Works : (promotion[w].status = "pending")
      ~> (promotion[w].status = "persisted" \/ promotion[w].attempts = MaxPromotions)
=============================================================================

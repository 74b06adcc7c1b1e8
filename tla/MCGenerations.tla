--------------------------- MODULE MCGenerations ---------------------------
EXTENDS Generations, TLC

\* The runs start with one generation promoted and its live root published:
\* what building, reconciling, promoting and bootstrapping it lead to.
First == CHOOSE g \in Gens : TRUE
FirstRoot == CHOOSE r \in Roots : TRUE
FirstReceipt == [number |-> 1, seal |-> <<FALSE, FALSE>>]

Deployed ==
    /\ memory = [m \in Memories |-> 0] /\ outbox = <<>>
    /\ receipt = [g \in Gens |-> IF g = First THEN FirstReceipt ELSE None]
    /\ manifest = [g \in Gens |->
                     IF g # First THEN None
                     ELSE [state |-> "complete", snapshot |-> memory, watermark |-> 0,
                           reconciled |-> TRUE, receipt |-> FirstReceipt, verified |-> TRUE]]
    /\ selections = <<First>> /\ current = 1
    /\ live = [r \in Roots |->
                 IF r # FirstRoot THEN None
                 ELSE [state |-> "bound", gen |-> First, act |-> 1, index |-> memory]]
    /\ server = Down
    /\ command = [o \in Operators |-> Idle]
    /\ crashes = 0

MCSpec == Deployed /\ [][Next]_vars

Sym == Permutations(Memories) \cup Permutations(Operators)
=============================================================================

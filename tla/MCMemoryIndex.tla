--------------------------- MODULE MCMemoryIndex ---------------------------
EXTENDS MemoryIndex, TLC

\* The runs start where one artifact has just been drafted from ordinary
\* sources verified and indexed: what CreateDraft, Verify and one replay lead to.
First == CHOOSE s \in Artifacts : TRUE
FirstRecipe == CHOOSE S \in Recipes : S \subseteq Ordinary

FirstIndexed ==
    /\ memory \in [Ordinary -> [hash : {CHOOSE h \in Hashes : TRUE}, available : {TRUE}]]
    /\ artifact = [s \in Artifacts |->
                     IF s # First THEN Absent
                     ELSE [status |-> "verified", revision |-> 1, sources |-> FirstRecipe,
                           seen |-> [m \in FirstRecipe |-> memory[m].hash]]]
    /\ edges = {} /\ version = 2
    /\ outbox = {}
    /\ scan = Idle /\ reader = [q \in Readers |-> Idle]
    /\ index = [m \in Memories |-> IF m \in Ordinary THEN memory[m].hash
                                   ELSE IF m = First THEN 1 ELSE NoRow]
    /\ replay = [r \in Replayers |-> Idle] /\ faults = 0

MCSpec == FirstIndexed /\ [][Next]_vars /\ Fairness
=============================================================================

------------------------- MODULE MCSynthesisFusion -------------------------
EXTENDS SynthesisFusion, TLC

\* Interchangeable workers.
WorkerSymmetry == Permutations(Workers)

\* The run starts where one artifact, the one recipes name as a source, has
\* been drafted from ordinary sources and verified, and these are queued to be
\* fused again.
First == CHOOSE s \in Artifacts : \E S \in Recipes : s \in S
FirstRecipe == CHOOSE S \in Recipes : S \subseteq Ordinary

FirstVerified ==
    /\ memory \in [Ordinary -> [hash : {CHOOSE h \in Hashes : TRUE}, available : {TRUE}]]
    /\ artifact = [s \in Artifacts |->
                     IF s # First THEN Absent
                     ELSE [status |-> "verified", revision |-> 1, sources |-> FirstRecipe,
                           seen |-> [m \in FirstRecipe |-> memory[m].hash]]]
    /\ edges = {} /\ version = 2
    /\ outbox = {}
    /\ scan = Idle /\ reader = [q \in Readers |-> Idle]
    /\ fusionJob = [k \in Jobs |->
                      [status |-> IF memory[k[1]].hash = k[2] THEN "queued" ELSE "none",
                       owner |-> "nobody"]]
    /\ worker = [w \in Workers |-> Idle]
    /\ text = [s \in Artifacts |-> {}]

\* Nothing here reads the index jobs, so states that differ in them are one.
WithoutOutbox == <<memory, artifact, edges, version, scan, reader, fusionVars>>

MCSpec == FirstVerified /\ [][Next]_vars
=============================================================================

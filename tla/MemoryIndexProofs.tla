------------------------- MODULE MemoryIndexProofs -------------------------
(***************************************************************************)
(* Theorems about the vector index and the replay of its outbox, for any   *)
(* memories, artifacts, recipes and replayers and any number of crashes,   *)
(* lapsed leases and retries.                                              *)
(***************************************************************************)
EXTENDS MemoryIndex, TLAPS

(***************************************************************************)
(* The rows.                                                               *)
(***************************************************************************)
Binds == Hashes \cup Revisions

ArtifactRow ==
  [status : Statuses, revision : Revisions, sources : Recipes,
   seen : UNION {[S -> Binds] : S \in Recipes}]

JobRow ==
  [id : Memories, version : 1..MaxVersion, action : {"upsert", "delete"}, bind : Binds,
   status : {"pending", "processing", "parked"}, tries : 0..MaxTries,
   owner : Replayers \cup {"nobody"}]

HeldRow ==
  [phase : {"claimed", "delete", "write", "settle"}, id : Memories,
   version : 1..MaxVersion, action : {"upsert", "delete"}, bind : Binds]

CanonInv ==
  /\ memory \in [Ordinary -> [hash : Hashes, available : BOOLEAN]]
  /\ artifact \in [Artifacts -> ArtifactRow \cup {Absent}]
  /\ \A s \in Artifacts : artifact[s] # Absent =>
       /\ DOMAIN artifact[s].seen = artifact[s].sources
       /\ artifact[s].revision <= version + 1
  /\ edges \subseteq {"contradicts", "supersedes"} \X Disputable
  /\ version \in 0..MaxVersion
  /\ outbox \subseteq JobRow
  /\ \A j \in outbox : j.status # "parked" => j.tries < MaxTries
  /\ \/ scan = Idle
     \/ scan \in [phase : {"found"}, id : Artifacts, revision : Revisions,
                  status : {"contested", "stale"}]

ReplayInv ==
  /\ index \in [Memories -> Binds \cup {NoRow}]
  /\ replay \in [Replayers -> HeldRow \cup {Idle}]
  /\ faults \in 0..MaxFaults

(***************************************************************************)
(* A row is known by its memory and its version, and what a replayer holds *)
(* is what the row it claimed said and still says.                         *)
(***************************************************************************)
RowsApart ==
  /\ \A i, j \in outbox : i.id = j.id /\ i.version = j.version => i = j
  /\ \A j \in outbox : j.version <= version
  /\ \A r \in Replayers : replay[r] # Idle =>
       /\ replay[r].version <= version
       /\ \A j \in Claimed(r) : j.action = replay[r].action /\ j.bind = replay[r].bind

(***************************************************************************)
(* A row that deletes an artifact's vector is of an earlier revision, or   *)
(* the artifact was blocked at that one, from which it never returns.      *)
(***************************************************************************)
Behind(j) ==
  /\ artifact[j.id] # Absent
  /\ j.bind \in Revisions
  /\ \/ j.bind < artifact[j.id].revision
     \/ j.bind = artifact[j.id].revision /\ artifact[j.id].status \in {"stale", "contested"}

DeletesBehind ==
  \A j \in outbox : j.id \in Artifacts /\ j.action = "delete" => Behind(j)

(***************************************************************************)
(* A row may be queued and yet be lost to the index: its replayer will mark*)
(* it done without a write, since it has been decided on, or since it was  *)
(* read as one to delete and the memory is wanted again.  What the index   *)
(* lacks is owed by a row that is not.                                     *)
(***************************************************************************)
Decided(j) ==
  \E r \in Replayers :
    /\ \/ replay[r].phase = "settle"
       \/ replay[r].phase = "delete" /\ Wanted(j.id) # NoRow
    /\ j \in Claimed(r) /\ j.status = "processing" /\ j.owner = r

Lacking(m) ==
  /\ index[m] # Wanted(m)
  /\ m \in Artifacts => artifact[m].status # "verified"

Fills(j, m) ==
  /\ j.id = m
  /\ Wanted(m) # NoRow => j.action = "upsert" /\ j.bind = Wanted(m)
  /\ m \in Artifacts => j.action = "delete"

Owed == \A m \in Memories : Lacking(m) => \E j \in outbox : Fills(j, m) /\ ~Decided(j)

IInv == CanonInv /\ ReplayInv /\ RowsApart /\ DeletesBehind /\ Owed

-----------------------------------------------------------------------------
(* The invariant says what the run checks, and the types.                  *)
(* A row is not the absent one exactly when it has one of the statuses.    *)
LEMMA PresentRow ==
  ASSUME CanonInv, NEW s \in Artifacts, artifact[s].status # "absent"
  PROVE  artifact[s] # Absent /\ artifact[s] \in ArtifactRow
BY DEF CanonInv, Absent

LEMMA PresentInRow ==
  ASSUME NEW row \in ArtifactRow
  PROVE  row # Absent
<1>1. row.status \in Statuses
  BY DEF ArtifactRow
<1> QED
  BY <1>1 DEF Absent, Statuses

LEMMA HeldIsNotIdle ==
  ASSUME ReplayInv, NEW r \in Replayers, replay[r].phase # "idle"
  PROVE  replay[r] # Idle /\ replay[r] \in HeldRow
BY DEF ReplayInv, Idle

LEMMA IdleOrHeld ==
  ASSUME NEW x \in HeldRow
  PROVE  x # Idle
<1>1. x.phase \in {"claimed", "delete", "write", "settle"}
  BY DEF HeldRow
<1> QED
  BY <1>1 DEF Idle

(* Whoever is served is verified: the verified artifacts are closed under  *)
(* the gate.                                                               *)
LEMMA ServedIsVerified ==
  ASSUME NEW s \in Served
  PROVE  s \in Artifacts /\ artifact[s].status = "verified"
<1> DEFINE V == {t \in Artifacts : artifact[t].status = "verified"}
<1>1. V \in SUBSET Artifacts
  OBVIOUS
<1>2. s \in V
  BY <1>1 DEF Served
<1> QED
  BY <1>2

(* Nothing is wanted of an artifact that is not verified, and of an        *)
(* ordinary memory what it holds while it is available.                    *)
LEMMA BlockedIsUnwanted ==
  ASSUME NEW s \in Artifacts, artifact[s].status # "verified"
  PROVE  Wanted(s) = NoRow
<1>1. s \notin Served
  BY ServedIsVerified
<1> QED
  BY <1>1, SynthesisAssumption DEF Wanted

LEMMA OrdinaryWanted ==
  ASSUME NEW m \in Ordinary
  PROVE  Wanted(m) = IF memory[m].available THEN memory[m].hash ELSE NoRow
BY DEF Wanted

LEMMA OwedToOrdinary ==
  ASSUME Owed
  PROVE  OrdinaryRowIsOwed
<1> SUFFICES ASSUME NEW m \in Ordinary, index[m] # Wanted(m)
             PROVE  \E j \in outbox : /\ j.id = m
                                      /\ Wanted(m) # NoRow => j.action = "upsert" /\ Matches(j)
  BY DEF OrdinaryRowIsOwed
<1>1. m \in Memories /\ Lacking(m)
  BY SynthesisAssumption DEF Lacking, Memories
<1>2. PICK j \in outbox : Fills(j, m)
  BY <1>1 DEF Owed
<1> QED
  BY <1>2 DEF Fills, Matches

LEMMA OwedToSynthesis ==
  ASSUME Owed
  PROVE  SynthesisRowIsOwed
<1> SUFFICES ASSUME NEW s \in Artifacts, index[s] # NoRow, artifact[s].status # "verified"
             PROVE  \E j \in outbox : j.id = s /\ j.action = "delete"
  BY DEF SynthesisRowIsOwed
<1>1. s \in Memories /\ Lacking(s)
  BY BlockedIsUnwanted DEF Lacking, Memories
<1> QED
  BY <1>1 DEF Owed, Fills

LEMMA InvariantTypes ==
  ASSUME CanonInv, ReplayInv
  PROVE  TypeOK
<1>1. SynTypeOK
  <2>1. \A s \in Artifacts : artifact[s] # Absent =>
          /\ artifact[s].status \in Statuses
          /\ artifact[s].revision \in Revisions
          /\ artifact[s].sources \in Recipes
          /\ DOMAIN artifact[s].seen = artifact[s].sources
    BY DEF CanonInv, ArtifactRow
  <2>2. \A j \in outbox : j.id \in Memories /\ j.version \in 1..MaxVersion
    BY DEF CanonInv, JobRow
  <2> QED
    BY <2>1, <2>2 DEF SynTypeOK, CanonInv
<1>2. \A m \in Memories : index[m] \in Hashes \cup Revisions \cup {NoRow}
  BY DEF ReplayInv, Binds
<1>3. \A r \in Replayers : replay[r].phase \in {"idle", "claimed", "delete", "write", "settle"}
  BY DEF ReplayInv, HeldRow, Idle
<1>4. \A j \in outbox : /\ j.status \in Active \cup {"parked"} /\ j.tries \in 0..MaxTries
                        /\ j.owner \in Replayers \cup {"nobody"}
  BY DEF CanonInv, JobRow, Active
<1> QED
  BY <1>1, <1>2, <1>3, <1>4 DEF TypeOK, ReplayInv

-----------------------------------------------------------------------------
(***************************************************************************)
(* Transactions on the canonical rows.  One adds rows of its own version,  *)
(* pending and at most one for a memory, and moves every artifact onwards. *)
(***************************************************************************)
Fresh(j) ==
  /\ j \in JobRow /\ j.version = version + 1
  /\ j.status = "pending" /\ j.tries = 0

Commits(new) ==
  /\ version' = version + 1 /\ version' \in 0..MaxVersion
  /\ outbox' = outbox \cup new
  /\ \A j \in new : Fresh(j)
  /\ \A i, j \in new : i.id = j.id => i = j

Onwards(s) ==
  artifact[s] # Absent =>
    /\ artifact'[s] # Absent
    /\ \/ artifact'[s].revision > artifact[s].revision
       \/ /\ artifact'[s].revision = artifact[s].revision
          /\ artifact[s].status \in {"stale", "contested"} =>
                artifact'[s].status \in {"stale", "contested"}

LEMMA CommitKeepsRows ==
  ASSUME IInv, NEW new, Commits(new), replay' = replay
  PROVE  /\ outbox' \subseteq JobRow
         /\ \A j \in outbox' : j.status # "parked" => j.tries < MaxTries
         /\ RowsApart'
<1>1. version \in Nat /\ version' = version + 1
  BY SynthesisAssumption DEF IInv, CanonInv, Commits
<1>2. \A j \in outbox : j.version \in Nat /\ j.version <= version
  BY SynthesisAssumption DEF IInv, CanonInv, RowsApart, JobRow
<1>3. outbox' = outbox \cup new /\ \A j \in new : j.version = version + 1
  BY DEF Commits, Fresh
<1>4. outbox' \subseteq JobRow
  BY DEF IInv, CanonInv, Commits, Fresh
<1>5. \A j \in outbox' : j.status # "parked" => j.tries < MaxTries
  BY IndexAssumption DEF IInv, CanonInv, Commits, Fresh
<1>6. \A i, j \in outbox' : i.id = j.id /\ i.version = j.version => i = j
  <2> SUFFICES ASSUME NEW i \in outbox', NEW j \in outbox', i.id = j.id, i.version = j.version
               PROVE  i = j
    OBVIOUS
  <2>1. (i \in outbox /\ j \in outbox) \/ (i \in new /\ j \in new)
    BY <1>1, <1>2, <1>3
  <2> QED
    BY <2>1 DEF IInv, RowsApart, Commits
<1>7. \A j \in outbox' : j.version <= version'
  BY <1>1, <1>2, <1>3
<1>8. ASSUME NEW r \in Replayers, replay'[r] # Idle
      PROVE  /\ replay'[r].version <= version'
             /\ \A j \in Claimed(r)' : j.action = replay'[r].action /\ j.bind = replay'[r].bind
  <2>1. replay[r] \in HeldRow /\ replay[r].version <= version
    BY <1>8 DEF IInv, ReplayInv, RowsApart
  <2>2. replay[r].version \in Nat
    BY <2>1, SynthesisAssumption DEF HeldRow
  <2>3. Claimed(r)' = Claimed(r)
    BY <1>1, <1>3, <2>1, <2>2 DEF Claimed
  <2> QED
    BY <1>1, <1>8, <2>1, <2>2, <2>3 DEF IInv, RowsApart
<1> QED
  BY <1>4, <1>5, <1>6, <1>7, <1>8 DEF RowsApart

LEMMA CommitKeepsDeletes ==
  ASSUME IInv, NEW new, Commits(new),
         artifact' \in [Artifacts -> ArtifactRow \cup {Absent}],
         \A s \in Artifacts : Onwards(s),
         \A j \in new : j.id \in Artifacts /\ j.action = "delete" => Behind(j)'
  PROVE  DeletesBehind'
<1> SUFFICES ASSUME NEW j \in outbox, j.id \in Artifacts, j.action = "delete"
             PROVE  Behind(j)'
  BY DEF DeletesBehind, Commits
<1> DEFINE s == j.id
<1>1. Behind(j) /\ Onwards(s)
  BY DEF IInv, DeletesBehind
<1>2. artifact[s] \in ArtifactRow /\ artifact[s] # Absent /\ artifact'[s] # Absent
  BY <1>1 DEF Behind, Onwards, IInv, CanonInv
<1>3. artifact'[s] \in ArtifactRow
  BY <1>2
<1>4. /\ artifact[s].revision \in Nat /\ artifact'[s].revision \in Nat
      /\ j.bind \in Nat
  BY <1>1, <1>2, <1>3, SynthesisAssumption DEF ArtifactRow, Revisions, Behind
<1> QED
  BY <1>1, <1>2, <1>4 DEF Behind, Onwards

LEMMA CommitKeepsOwed ==
  ASSUME IInv, NEW new, Commits(new), UNCHANGED indexVars,
         \A m \in Ordinary :
           \/ memory'[m] = memory[m]
           \/ \E j \in new : /\ j.id = m
                             /\ memory'[m].available =>
                                  j.action = "upsert" /\ j.bind = memory'[m].hash,
         \A s \in Artifacts : artifact'[s].status # "verified" =>
           \/ artifact[s].status # "verified"
           \/ \E j \in new : j.id = s /\ j.action = "delete"
  PROVE  Owed'
<1> SUFFICES ASSUME NEW m \in Memories, Lacking(m)'
             PROVE  \E j \in outbox' : Fills(j, m)' /\ ~Decided(j)'
  BY DEF Owed
<1>1. outbox' = outbox \cup new /\ \A j \in new : j.status = "pending"
  BY DEF Commits, Fresh
<1>2. \A j \in new : ~Decided(j)'
  BY <1>1 DEF Decided
<1>3. replay' = replay /\ index' = index
  BY DEF indexVars
<1>4. ASSUME Wanted(m)' = Wanted(m), Lacking(m)
      PROVE  \E j \in outbox' : Fills(j, m)' /\ ~Decided(j)'
  <2>1. PICK j \in outbox : Fills(j, m) /\ ~Decided(j)
    BY <1>4 DEF IInv, Owed
  <2>2. Fills(j, m)'
    BY <1>4, <2>1 DEF Fills
  <2>3. ~Decided(j)'
    <3>1. Wanted(j.id)' = Wanted(j.id)
      BY <1>4, <2>1 DEF Fills
    <3>2. \A r \in Replayers : j \in Claimed(r)' => j \in Claimed(r)
      BY <1>3, <2>1 DEF Claimed
    <3> QED
      BY <1>3, <2>1, <3>1, <3>2 DEF Decided
  <2> QED
    BY <1>1, <2>2, <2>3
<1>5. CASE m \in Ordinary
  <2>1. CASE memory'[m] = memory[m]
    <3>1. Wanted(m)' = Wanted(m)
      BY <1>5, <2>1 DEF Wanted
    <3>2. Lacking(m)
      BY <1>3, <1>5, <3>1, SynthesisAssumption DEF Lacking
    <3> QED
      BY <1>4, <3>1, <3>2
  <2>2. ASSUME NEW j \in new, j.id = m,
               memory'[m].available => j.action = "upsert" /\ j.bind = memory'[m].hash
        PROVE  Fills(j, m)'
    <3>1. Wanted(m)' = IF memory'[m].available THEN memory'[m].hash ELSE NoRow
      BY <1>5 DEF Wanted
    <3> QED
      BY <1>5, <2>2, <3>1, SynthesisAssumption DEF Fills
  <2> QED
    BY <1>1, <1>2, <1>5, <2>1, <2>2
<1>6. CASE m \in Artifacts
  <2>1. artifact'[m].status # "verified"
    BY <1>6 DEF Lacking
  <2>2. Wanted(m)' = NoRow
    <3> DEFINE V == {t \in Artifacts : artifact'[t].status = "verified"}
    <3>1. m \notin Served'
      <4>1. V \in SUBSET Artifacts /\ m \notin V
        BY <2>1
      <4> QED
        BY <4>1 DEF Served
    <3> QED
      BY <1>6, <3>1, SynthesisAssumption DEF Wanted
  <2>3. CASE artifact[m].status # "verified"
    <3>1. Wanted(m) = NoRow
      BY <1>6, <2>3, BlockedIsUnwanted
    <3>2. Lacking(m)
      BY <1>3, <2>2, <2>3, <3>1 DEF Lacking
    <3> QED
      BY <1>4, <2>2, <3>1, <3>2
  <2>4. ASSUME NEW j \in new, j.id = m, j.action = "delete"
        PROVE  Fills(j, m)'
    BY <2>2, <2>4 DEF Fills
  <2> QED
    BY <1>1, <1>2, <1>6, <2>1, <2>3, <2>4
<1> QED
  BY <1>5, <1>6 DEF Memories

(* What a transaction has to show to keep the invariant.                   *)
RowsWellFormed ==
  /\ artifact' \in [Artifacts -> ArtifactRow \cup {Absent}]
  /\ \A s \in Artifacts : artifact'[s] # Absent =>
       /\ DOMAIN artifact'[s].seen = artifact'[s].sources
       /\ artifact'[s].revision <= version' + 1
  /\ \A s \in Artifacts : Onwards(s)

LEMMA CommitKeepsInvariant ==
  ASSUME IInv, NEW new, Commits(new), UNCHANGED indexVars, RowsWellFormed,
         memory' \in [Ordinary -> [hash : Hashes, available : BOOLEAN]],
         edges' \subseteq {"contradicts", "supersedes"} \X Disputable,
         scan' = scan \/ scan' = Idle,
         \A j \in new : j.id \in Artifacts /\ j.action = "delete" => Behind(j)',
         \A m \in Ordinary :
           \/ memory'[m] = memory[m]
           \/ \E j \in new : /\ j.id = m
                             /\ memory'[m].available =>
                                  j.action = "upsert" /\ j.bind = memory'[m].hash,
         \A s \in Artifacts : artifact'[s].status # "verified" =>
           \/ artifact[s].status # "verified"
           \/ \E j \in new : j.id = s /\ j.action = "delete"
  PROVE  IInv'
<1>1. replay' = replay
  BY DEF indexVars
<1>2. RowsApart'
  BY <1>1, CommitKeepsRows
<1>3. DeletesBehind'
  BY CommitKeepsDeletes DEF RowsWellFormed
<1>4. Owed'
  BY CommitKeepsOwed
<1>5. CanonInv'
  <2>1. outbox' \subseteq JobRow /\ \A j \in outbox' : j.status # "parked" => j.tries < MaxTries
    BY <1>1, CommitKeepsRows
  <2>2. \/ scan' = Idle
        \/ scan' \in [phase : {"found"}, id : Artifacts, revision : Revisions,
                      status : {"contested", "stale"}]
    BY DEF IInv, CanonInv
  <2>3. version' \in 0..MaxVersion
    BY DEF Commits
  <2> QED
    BY <2>1, <2>2, <2>3 DEF CanonInv, RowsWellFormed
<1>6. ReplayInv'
  BY DEF ReplayInv, IInv, indexVars
<1> QED
  BY <1>2, <1>3, <1>4, <1>5, <1>6 DEF IInv

LEMMA BumpType ==
  ASSUME CanonInv, Bump
  PROVE  /\ version \in Nat /\ version' = version + 1
         /\ version' \in 0..MaxVersion
         /\ version + 1 \in 1..MaxVersion
BY SynthesisAssumption DEF Bump, CanonInv

LEMMA JobIsFresh ==
  ASSUME CanonInv, Bump,
         NEW id \in Memories, NEW action \in {"upsert", "delete"}, NEW bind \in Binds
  PROVE  LET j == Job(id, action, bind)
         IN  Fresh(j) /\ j.id = id /\ j.action = action /\ j.bind = bind
<1>1. version + 1 \in 1..MaxVersion
  BY BumpType
<1>2. 0 \in 0..MaxTries
  BY IndexAssumption
<1> QED
  BY <1>1, <1>2 DEF Job, Fresh, JobRow

(* No row queued for a draft or a verified artifact deletes the vector of  *)
(* its revision, so that a transition to blocked publishes one.            *)
LEMMA BlockPublishes ==
  ASSUME IInv, NEW s \in Artifacts, artifact[s].status \in {"draft", "verified"}
  PROVE  Publish(s, "delete", artifact[s].revision) = {Job(s, "delete", artifact[s].revision)}
<1>1. artifact[s].revision \in Nat
  BY PresentRow, SynthesisAssumption DEF IInv, ArtifactRow, Revisions
<1>2. ~\E j \in outbox : j.id = s /\ j.action = "delete" /\ j.bind = artifact[s].revision
  BY <1>1, SynthesisAssumption DEF IInv, DeletesBehind, Behind, Revisions
<1> QED
  BY <1>2 DEF Publish

(* Some rows move to another status and keep everything else.              *)
Move(T, st) ==
  /\ \A t \in T : /\ artifact[t].status \in Statuses
                  /\ artifact[t].status \in {"stale", "contested"} => st \in {"stale", "contested"}
  /\ artifact' = [t \in Artifacts |-> IF t \in T THEN [artifact[t] EXCEPT !.status = st]
                                      ELSE artifact[t]]

LEMMA StatusMoves ==
  ASSUME CanonInv, version' = version + 1,
         NEW st \in Statuses, NEW T \in SUBSET Artifacts, Move(T, st)
  PROVE  /\ RowsWellFormed
         /\ \A t \in T : /\ artifact'[t].status = st /\ artifact'[t] # Absent
                         /\ artifact'[t].revision = artifact[t].revision
         /\ \A t \in Artifacts \ T : artifact'[t] = artifact[t]
<1>1. ASSUME NEW t \in T
      PROVE  /\ artifact[t] # Absent /\ artifact[t] \in ArtifactRow
             /\ artifact'[t] = [artifact[t] EXCEPT !.status = st]
  BY PresentRow DEF Statuses, Move
<1>2. ASSUME NEW t \in T
      PROVE  /\ artifact'[t] \in ArtifactRow /\ artifact'[t] # Absent
             /\ artifact'[t].status = st
             /\ artifact'[t].revision = artifact[t].revision
             /\ artifact'[t].sources = artifact[t].sources
             /\ artifact'[t].seen = artifact[t].seen
  <2>1. artifact'[t] \in ArtifactRow
    BY <1>1, ZenonT(30) DEF ArtifactRow
  <2>2. artifact'[t] # Absent
    BY <2>1, PresentInRow
  <2>3. /\ artifact'[t].status = st
        /\ artifact'[t].revision = artifact[t].revision
        /\ artifact'[t].sources = artifact[t].sources
        /\ artifact'[t].seen = artifact[t].seen
    BY <1>1 DEF ArtifactRow
  <2> QED
    BY <2>1, <2>2, <2>3
<1>3. \A t \in Artifacts \ T : artifact'[t] = artifact[t]
  BY DEF Move
<1>4. artifact' \in [Artifacts -> ArtifactRow \cup {Absent}]
  BY <1>2 DEF CanonInv, Move
<1>5. ASSUME NEW s \in Artifacts, artifact'[s] # Absent
      PROVE  /\ DOMAIN artifact'[s].seen = artifact'[s].sources
             /\ artifact'[s].revision <= version' + 1
  <2>1. artifact[s] # Absent /\ artifact[s] \in ArtifactRow
    BY <1>1, <1>3, <1>5 DEF CanonInv
  <2>2. /\ artifact[s].revision \in Nat /\ version \in Nat
        /\ artifact[s].revision <= version + 1
        /\ DOMAIN artifact[s].seen = artifact[s].sources
    BY <2>1, SynthesisAssumption DEF CanonInv, ArtifactRow, Revisions
  <2> QED
    BY <1>2, <1>3, <2>2
<1>6. \A s \in Artifacts : Onwards(s)
  BY <1>2, <1>3 DEF Onwards, Move
<1> QED
  BY <1>2, <1>3, <1>4, <1>5, <1>6 DEF RowsWellFormed

LEMMA OneStatusMoves ==
  ASSUME CanonInv, version' = version + 1,
         NEW s \in Artifacts, NEW st \in Statuses,
         artifact[s].status \in Statuses,
         artifact[s].status \in {"stale", "contested"} => st \in {"stale", "contested"},
         artifact' = [artifact EXCEPT ![s].status = st]
  PROVE  /\ RowsWellFormed /\ artifact'[s].status = st /\ artifact'[s] # Absent
         /\ artifact'[s].revision = artifact[s].revision
         /\ \A t \in Artifacts \ {s} : artifact'[t] = artifact[t]
<1> DEFINE T == {s}
<1>1. T \in SUBSET Artifacts /\ s \in T /\ \A t \in T : t = s
  OBVIOUS
<1>2. Move(T, st)
  BY DEF CanonInv, Move
<1> HIDE DEF T
<1>3. /\ RowsWellFormed
      /\ \A t \in T : /\ artifact'[t].status = st /\ artifact'[t] # Absent
                      /\ artifact'[t].revision = artifact[t].revision
      /\ \A t \in Artifacts \ T : artifact'[t] = artifact[t]
  BY <1>1, <1>2, StatusMoves
<1> QED
  BY <1>1, <1>3

(* A draft of usable sources takes the slot of an absent artifact, or of   *)
(* one at the revision before.                                             *)
LEMMA DraftMoves ==
  ASSUME CanonInv, version' = version + 1, version \in Nat,
         NEW s \in Artifacts, NEW S \in Recipes, NEW n \in Revisions,
         SourcesUsable(S), n <= version + 2,
         artifact[s] # Absent => n > artifact[s].revision,
         artifact' = [artifact EXCEPT ![s] = Drafted(S, n)]
  PROVE  /\ RowsWellFormed
         /\ artifact'[s].status = "draft" /\ artifact'[s].revision = n
         /\ artifact'[s] # Absent
         /\ \A t \in Artifacts \ {s} : artifact'[t] = artifact[t]
<1> DEFINE row == Drafted(S, n)
<1>1. S \subseteq Memories
  BY SynthesisAssumption DEF Memories
<1>2. \A m \in S : m \in Artifacts => artifact[m] # Absent
  BY ServedIsVerified, SynthesisAssumption DEF SourcesUsable, Absent
<1>3. ASSUME NEW m \in S
      PROVE  Current(m) \in Binds
  <2>1. CASE m \in Ordinary
    BY <2>1 DEF CanonInv, Current, Binds
  <2>2. CASE m \notin Ordinary
    <3>1. m \in Artifacts /\ artifact[m] \in ArtifactRow
      BY <1>1, <1>2, <2>2 DEF Memories, CanonInv
    <3> QED
      BY <2>2, <3>1 DEF Current, ArtifactRow, Binds
  <2> QED
    BY <2>1, <2>2
<1>4. /\ row.status = "draft" /\ row.revision = n /\ row.sources = S
      /\ DOMAIN row.seen = row.sources
  BY DEF Drafted
<1>5. row \in ArtifactRow
  <2>1. [m \in S |-> Current(m)] \in [S -> Binds]
    BY <1>3
  <2>2. [m \in S |-> Current(m)] \in UNION {[R -> Binds] : R \in Recipes}
    BY <2>1
  <2>3. "draft" \in Statuses
    BY DEF Statuses
  <2> QED
    BY <2>2, <2>3 DEF Drafted, ArtifactRow
<1>6. row # Absent
  BY <1>5, PresentInRow
<1> HIDE DEF row
<1>7. artifact'[s] = row /\ \A t \in Artifacts \ {s} : artifact'[t] = artifact[t]
  BY DEF row, CanonInv
<1>8. artifact' \in [Artifacts -> ArtifactRow \cup {Absent}]
  BY <1>5 DEF row, CanonInv
<1>9. ASSUME NEW t \in Artifacts, artifact'[t] # Absent
      PROVE  /\ DOMAIN artifact'[t].seen = artifact'[t].sources
             /\ artifact'[t].revision <= version' + 1
  <2>1. CASE t = s
    BY <1>4, <1>7, <2>1, SynthesisAssumption DEF Revisions
  <2>2. CASE t # s
    <3>1. artifact[t] # Absent /\ artifact[t] \in ArtifactRow /\ artifact'[t] = artifact[t]
      BY <1>7, <1>9, <2>2 DEF CanonInv
    <3>2. artifact[t].revision \in Nat /\ artifact[t].revision <= version + 1
      BY <3>1, SynthesisAssumption DEF CanonInv, ArtifactRow, Revisions
    <3> QED
      BY <3>1, <3>2 DEF CanonInv
  <2> QED
    BY <2>1, <2>2
<1>10. \A t \in Artifacts : Onwards(t)
  BY <1>4, <1>6, <1>7 DEF Onwards
<1> QED
  BY <1>4, <1>6, <1>7, <1>8, <1>9, <1>10 DEF RowsWellFormed

-----------------------------------------------------------------------------
(***************************************************************************)
(* Each transaction in turn.                                               *)
(***************************************************************************)
LEMMA MutateStep ==
  ASSUME IInv, UNCHANGED indexVars,
         NEW m \in Ordinary, NEW row \in [hash : Hashes, available : BOOLEAN],
         NEW action \in {"upsert", "delete"}, row.available => action = "upsert",
         NEW peers \in SUBSET Peers, m \notin peers,
         Mutate(m, row, action, peers, DependentsOf(m))
  PROVE  IInv'
<1> DEFINE staled == DependentsOf(m)
           own == {Job(m, action, row.hash)}
           others == {Job(p, "upsert", memory[p].hash) : p \in peers}
           deletes == {Job(t, "delete", artifact[t].revision) : t \in staled}
           new == own \cup others \cup deletes
<1>1. staled \in SUBSET Artifacts /\ \A t \in staled : artifact[t].status = "verified"
  BY DEF DependentsOf
<1>2. artifact' = [t \in Artifacts |-> IF t \in staled
                                       THEN [artifact[t] EXCEPT !.status = "stale"]
                                       ELSE artifact[t]]
  BY DEF Mutate
<1>3. outbox' = outbox \cup own \cup others
                       \cup UNION {Publish(t, "delete", artifact[t].revision) : t \in staled}
  BY DEF Mutate
<1>4. Bump /\ UNCHANGED <<edges, scan>> /\ memory' = [memory EXCEPT ![m] = row]
  BY DEF Mutate
<1> HIDE DEF staled
<1>5. CanonInv /\ version' = version + 1 /\ version' \in 0..MaxVersion
  BY <1>4, BumpType DEF IInv
<1>6. /\ RowsWellFormed
      /\ \A t \in staled : /\ artifact'[t].status = "stale" /\ artifact'[t] # Absent
                           /\ artifact'[t].revision = artifact[t].revision
      /\ \A t \in Artifacts \ staled : artifact'[t] = artifact[t]
  <2>1. "stale" \in Statuses /\ \A t \in staled : artifact[t].status \in Statuses
    BY <1>1 DEF Statuses
  <2>2. Move(staled, "stale")
    BY <1>2, <2>1 DEF Move
  <2> QED
    BY <1>1, <1>5, <2>1, <2>2, StatusMoves
<1>7. outbox' = outbox \cup new
  BY <1>1, <1>3, BlockPublishes
<1>8. /\ Job(m, action, row.hash).id = m
      /\ Job(m, action, row.hash).action = action /\ Job(m, action, row.hash).bind = row.hash
      /\ Fresh(Job(m, action, row.hash))
  BY <1>4, <1>5, JobIsFresh DEF Binds, Memories
<1>9. \A p \in peers : LET j == Job(p, "upsert", memory[p].hash)
                       IN  Fresh(j) /\ j.id = p /\ p \in Ordinary /\ p # m
  <2> SUFFICES ASSUME NEW p \in peers
               PROVE  LET j == Job(p, "upsert", memory[p].hash)
                      IN  Fresh(j) /\ j.id = p /\ p \in Ordinary /\ p # m
    OBVIOUS
  <2>1. p \in Ordinary /\ p \in Memories
    BY SynthesisAssumption DEF Memories
  <2>2. memory[p].hash \in Binds
    BY <1>5, <2>1 DEF CanonInv, Binds
  <2> QED
    BY <1>4, <1>5, <2>1, <2>2, JobIsFresh
<1>10. \A t \in staled : LET j == Job(t, "delete", artifact[t].revision)
                         IN  /\ Fresh(j) /\ j.id = t /\ j.action = "delete"
                             /\ j.bind = artifact[t].revision /\ j.bind \in Revisions
  <2> SUFFICES ASSUME NEW t \in staled
               PROVE  LET j == Job(t, "delete", artifact[t].revision)
                      IN  /\ Fresh(j) /\ j.id = t /\ j.action = "delete"
                          /\ j.bind = artifact[t].revision /\ j.bind \in Revisions
    OBVIOUS
  <2>1. t \in Memories
    BY <1>1 DEF Memories
  <2>2. artifact[t].revision \in Revisions /\ artifact[t].revision \in Binds
    BY <1>1, <1>5, PresentRow DEF ArtifactRow, Binds
  <2> QED
    BY <1>4, <1>5, <2>1, <2>2, JobIsFresh
<1>11. Commits(new)
  <2>1. \A j \in new : Fresh(j)
    BY <1>8, <1>9, <1>10
  <2>2. \A i, j \in new : i.id = j.id => i = j
    <3>1. \A i, j \in others : i.id = j.id => i = j
      BY <1>9
    <3>2. \A i, j \in deletes : i.id = j.id => i = j
      BY <1>10
    <3>3. /\ \A i \in own : i.id = m
          /\ \A i \in others : i.id \in Ordinary /\ i.id # m
          /\ \A i \in deletes : i.id \in Artifacts
      BY <1>1, <1>8, <1>9, <1>10
    <3> QED
      BY <3>1, <3>2, <3>3, SynthesisAssumption
  <2> QED
    BY <1>5, <1>7, <2>1, <2>2 DEF Commits
<1>12. \A j \in new : j.id \in Artifacts /\ j.action = "delete" => Behind(j)'
  <2>1. \A j \in new : j.id \in Artifacts => j \in deletes
    BY <1>8, <1>9, SynthesisAssumption
  <2>2. \A j \in deletes : Behind(j)'
    <3> SUFFICES ASSUME NEW j \in deletes
                 PROVE  Behind(j)'
      OBVIOUS
    <3>1. PICK t \in staled : j = Job(t, "delete", artifact[t].revision)
      OBVIOUS
    <3>2. j.id = t /\ j.bind = artifact[t].revision /\ j.bind \in Revisions
      BY <1>10, <3>1
    <3> QED
      BY <1>6, <3>2 DEF Behind
  <2> QED
    BY <2>1, <2>2
<1>13. ASSUME NEW o \in Ordinary
       PROVE  \/ memory'[o] = memory[o]
              \/ \E j \in new : /\ j.id = o
                                /\ memory'[o].available =>
                                     j.action = "upsert" /\ j.bind = memory'[o].hash
  <2>1. CASE o = m
    <3>1. memory'[m] = row
      BY <1>4, <1>5 DEF CanonInv
    <3> QED
      BY <1>8, <2>1, <3>1
  <2>2. CASE o # m
    BY <1>4, <1>5, <2>2 DEF CanonInv
  <2> QED
    BY <2>1, <2>2
<1>14. ASSUME NEW s \in Artifacts, artifact'[s].status # "verified"
       PROVE  \/ artifact[s].status # "verified"
              \/ \E j \in new : j.id = s /\ j.action = "delete"
  BY <1>6, <1>10, <1>14
<1>15. /\ memory' \in [Ordinary -> [hash : Hashes, available : BOOLEAN]]
       /\ edges' \subseteq {"contradicts", "supersedes"} \X Disputable
       /\ scan' = scan
  BY <1>4, <1>5 DEF CanonInv
<1> HIDE DEF new
<1> QED
  BY <1>6, <1>11, <1>12, <1>13, <1>14, <1>15, CommitKeepsInvariant

LEMMA CreateDraftStep ==
  ASSUME IInv, UNCHANGED indexVars, NEW s \in Artifacts, NEW S \in Recipes, CreateDraft(s, S)
  PROVE  IInv'
<1>1. /\ artifact[s] = Absent /\ SourcesUsable(S) /\ Bump
      /\ artifact' = [artifact EXCEPT ![s] = Drafted(S, 1)]
      /\ UNCHANGED <<memory, edges, outbox, scan>>
  BY DEF CreateDraft
<1>2. /\ CanonInv /\ version \in Nat /\ version' = version + 1
      /\ version' \in 0..MaxVersion
  BY <1>1, BumpType DEF IInv
<1>3. 1 \in Revisions /\ 1 <= version + 2
  BY <1>2, SynthesisAssumption DEF Revisions
<1>4. /\ RowsWellFormed
      /\ \A t \in Artifacts \ {s} : artifact'[t] = artifact[t]
  BY <1>1, <1>2, <1>3, DraftMoves
<1>5. Commits({})
  BY <1>1, <1>2 DEF Commits
<1>6. \A t \in Artifacts : artifact'[t].status # "verified" => artifact[t].status # "verified"
  BY <1>1, <1>4 DEF Absent
<1>7. /\ memory' = memory /\ scan' = scan
      /\ memory' \in [Ordinary -> [hash : Hashes, available : BOOLEAN]]
      /\ edges' \subseteq {"contradicts", "supersedes"} \X Disputable
  BY <1>1, <1>2 DEF CanonInv
<1> QED
  BY <1>4, <1>5, <1>6, <1>7, CommitKeepsInvariant

(* What is published for an artifact and its revision.                     *)
LEMMA PublishedRows ==
  ASSUME CanonInv, Bump, NEW s \in Artifacts, artifact[s] \in ArtifactRow,
         NEW action \in {"upsert", "delete"}
  PROVE  /\ \A j \in Publish(s, action, artifact[s].revision) :
              Fresh(j) /\ j.id = s /\ j.action = action /\ j.bind = artifact[s].revision
         /\ \A i, j \in Publish(s, action, artifact[s].revision) : i = j
<1>1. s \in Memories /\ artifact[s].revision \in Binds
  BY DEF Memories, ArtifactRow, Binds
<1> QED
  BY <1>1, JobIsFresh DEF Publish

LEMMA RefreshStep ==
  ASSUME IInv, UNCHANGED indexVars, NEW s \in Artifacts, NEW S \in Recipes, Refresh(s, S)
  PROVE  IInv'
<1> DEFINE n == artifact[s].revision + 1
           new == Publish(s, "delete", artifact[s].revision)
<1>1. /\ artifact[s].status \in {"stale", "contested"} /\ SourcesUsable(S) /\ Bump
      /\ artifact' = [artifact EXCEPT ![s] = Drafted(S, n)]
      /\ outbox' = outbox \cup new
      /\ UNCHANGED <<memory, edges, scan>>
  BY DEF Refresh
<1>2. /\ CanonInv /\ version \in Nat /\ version' = version + 1
      /\ version' \in 0..MaxVersion
  BY <1>1, BumpType DEF IInv
<1>3. artifact[s] # Absent /\ artifact[s] \in ArtifactRow
  BY <1>1, <1>2, PresentRow
<1>4. /\ n \in Revisions /\ n <= version + 2 /\ n > artifact[s].revision
      /\ artifact[s].revision \in Revisions
  BY <1>2, <1>3, SynthesisAssumption DEF ArtifactRow, Revisions, CanonInv
<1>5. \A j \in new : Fresh(j) /\ j.id = s /\ j.bind = artifact[s].revision
  BY <1>1, <1>2, <1>3, PublishedRows
<1>6. \A i, j \in new : i = j
  BY <1>1, <1>2, <1>3, PublishedRows
<1> HIDE DEF n, new
<1>7. /\ RowsWellFormed /\ artifact'[s].revision = n /\ artifact'[s] # Absent
      /\ \A t \in Artifacts \ {s} : artifact'[t] = artifact[t]
  BY <1>1, <1>2, <1>4, DraftMoves
<1>8. Commits(new)
  BY <1>1, <1>2, <1>5, <1>6 DEF Commits
<1>9. \A t \in Artifacts : artifact'[t].status # "verified" => artifact[t].status # "verified"
  BY <1>1, <1>7
<1>10. \A j \in new : Behind(j)'
  BY <1>4, <1>5, <1>7 DEF Behind
<1>11. /\ memory' = memory /\ scan' = scan
       /\ memory' \in [Ordinary -> [hash : Hashes, available : BOOLEAN]]
       /\ edges' \subseteq {"contradicts", "supersedes"} \X Disputable
  BY <1>1, <1>2 DEF CanonInv
<1> QED
  BY <1>7, <1>8, <1>9, <1>10, <1>11, CommitKeepsInvariant

LEMMA VerifyStep ==
  ASSUME IInv, UNCHANGED indexVars, NEW s \in Artifacts, Verify(s)
  PROVE  IInv'
<1> DEFINE new == Publish(s, "upsert", artifact[s].revision)
<1>1. /\ artifact[s].status = "draft" /\ Bump
      /\ artifact' = [artifact EXCEPT ![s].status = "verified"]
      /\ outbox' = outbox \cup new
      /\ UNCHANGED <<memory, edges, scan>>
  BY DEF Verify
<1>2. CanonInv /\ version' = version + 1 /\ version' \in 0..MaxVersion
  BY <1>1, BumpType DEF IInv
<1>3. artifact[s] # Absent /\ artifact[s] \in ArtifactRow
  BY <1>1, <1>2, PresentRow
<1>4. /\ \A j \in new : Fresh(j) /\ j.action = "upsert"
      /\ \A i, j \in new : i = j
  BY <1>1, <1>2, <1>3, PublishedRows
<1> HIDE DEF new
<1>5. /\ RowsWellFormed /\ artifact'[s].status = "verified"
      /\ \A t \in Artifacts \ {s} : artifact'[t] = artifact[t]
  <2>1. "verified" \in Statuses /\ artifact[s].status \in Statuses
    BY <1>1 DEF Statuses
  <2> QED
    BY <1>1, <1>2, <2>1, OneStatusMoves
<1>6. Commits(new)
  BY <1>1, <1>2, <1>4 DEF Commits
<1>7. \A t \in Artifacts : artifact'[t].status # "verified" => artifact[t].status # "verified"
  BY <1>5
<1>8. /\ memory' = memory /\ scan' = scan
      /\ memory' \in [Ordinary -> [hash : Hashes, available : BOOLEAN]]
      /\ edges' \subseteq {"contradicts", "supersedes"} \X Disputable
  BY <1>1, <1>2 DEF CanonInv
<1> QED
  BY <1>4, <1>5, <1>6, <1>7, <1>8, CommitKeepsInvariant

(* mark_contested and the integrity scan.                                  *)
LEMMA BlockedStep ==
  ASSUME IInv, UNCHANGED indexVars, NEW s \in Artifacts,
         NEW status \in {"stale", "contested"},
         NEW allowed \in SUBSET {"draft", "verified"},
         MarkBlocked(s, status, allowed),
         UNCHANGED <<memory, edges>>, scan' = scan \/ scan' = Idle
  PROVE  IInv'
<1> DEFINE new == Publish(s, "delete", artifact[s].revision)
<1>1. /\ artifact[s].status \in {"draft", "verified"} /\ Bump
      /\ artifact' = [artifact EXCEPT ![s].status = status]
      /\ outbox' = outbox \cup new
  BY DEF MarkBlocked
<1>2. CanonInv /\ version' = version + 1 /\ version' \in 0..MaxVersion
  BY <1>1, BumpType DEF IInv
<1>3. artifact[s] # Absent /\ artifact[s] \in ArtifactRow /\ artifact[s].revision \in Revisions
  BY <1>1, <1>2, PresentRow DEF ArtifactRow
<1>4. /\ \A j \in new : Fresh(j) /\ j.id = s /\ j.action = "delete" /\ j.bind = artifact[s].revision
      /\ \A i, j \in new : i = j
  BY <1>1, <1>2, <1>3, PublishedRows
<1>5. \E j \in new : j.id = s /\ j.action = "delete"
  <2>1. new = {Job(s, "delete", artifact[s].revision)}
    BY <1>1, BlockPublishes
  <2> QED
    BY <1>4, <2>1
<1> HIDE DEF new
<1>6. /\ RowsWellFormed /\ artifact'[s].status = status /\ artifact'[s] # Absent
      /\ artifact'[s].revision = artifact[s].revision
      /\ \A t \in Artifacts \ {s} : artifact'[t] = artifact[t]
  <2>1. status \in Statuses /\ artifact[s].status \in Statuses
    BY <1>1 DEF Statuses
  <2> QED
    BY <1>1, <1>2, <2>1, OneStatusMoves
<1>7. Commits(new)
  BY <1>1, <1>2, <1>4 DEF Commits
<1>8. \A t \in Artifacts : artifact'[t].status # "verified" =>
        \/ artifact[t].status # "verified"
        \/ \E j \in new : j.id = t /\ j.action = "delete"
  BY <1>5, <1>6
<1>9. \A j \in new : Behind(j)'
  BY <1>3, <1>4, <1>6 DEF Behind
<1>10. /\ memory' = memory
       /\ memory' \in [Ordinary -> [hash : Hashes, available : BOOLEAN]]
       /\ edges' \subseteq {"contradicts", "supersedes"} \X Disputable
  BY <1>2 DEF CanonInv
<1> QED
  BY <1>6, <1>7, <1>8, <1>9, <1>10, CommitKeepsInvariant

(* Graph writes publish nothing.                                           *)
LEMMA EdgeStep ==
  ASSUME IInv, UNCHANGED indexVars, Bump,
         edges' \subseteq {"contradicts", "supersedes"} \X Disputable,
         UNCHANGED <<memory, artifact, outbox, scan>>
  PROVE  IInv'
<1>1. /\ CanonInv /\ version \in Nat /\ version' = version + 1
      /\ version' \in 0..MaxVersion
  BY BumpType DEF IInv
<1>2. Commits({})
  BY <1>1 DEF Commits
<1>3. RowsWellFormed
  <2>1. \A s \in Artifacts : artifact[s] # Absent => artifact[s].revision \in Nat
    BY <1>1, SynthesisAssumption DEF CanonInv, ArtifactRow, Revisions
  <2> QED
    BY <1>1, <2>1 DEF CanonInv, RowsWellFormed, Onwards
<1>4. memory' \in [Ordinary -> [hash : Hashes, available : BOOLEAN]]
  BY <1>1 DEF CanonInv
<1> QED
  BY <1>2, <1>3, <1>4, CommitKeepsInvariant

(* The lint of the scan and the gate write none of these rows.             *)
LEMMA QuietStep ==
  ASSUME IInv, UNCHANGED indexVars, UNCHANGED canonVars,
         \/ scan' = scan \/ scan' = Idle
         \/ scan' \in [phase : {"found"}, id : Artifacts, revision : Revisions,
                       status : {"contested", "stale"}]
  PROVE  IInv'
<1>1. UNCHANGED <<memory, artifact, edges, version, outbox, index, replay, faults>>
  BY DEF canonVars, indexVars
<1>2. CanonInv' /\ ReplayInv' /\ DeletesBehind'
  BY <1>1 DEF IInv, CanonInv, ReplayInv, DeletesBehind, Behind
<1>3. RowsApart'
  BY <1>1 DEF IInv, RowsApart, Claimed
<1>4. \A m : Wanted(m)' = Wanted(m)
  <2>1. Served' = Served
    BY <1>1 DEF Served, SoundIn, SourceIn, Superseded, Contradicted
  <2> QED
    BY <1>1, <2>1 DEF Wanted
<1>5. Owed'
  BY <1>1, <1>4 DEF IInv, Owed, Lacking, Fills, Decided, Claimed
<1> QED
  BY <1>2, <1>3, <1>5 DEF IInv

LEMMA CanonicalStep ==
  ASSUME IInv, SynNext, UNCHANGED indexVars
  PROVE  IInv'
<1>1. ASSUME NEW m \in Editable, NEW peers \in SUBSET Peers, m \notin peers,
             NEW h \in Hashes, ReplaceContent(m, h, peers)
      PROVE  IInv'
  <2>1. m \in Ordinary /\ [hash |-> h, available |-> TRUE] \in [hash : Hashes, available : BOOLEAN]
    BY SynthesisAssumption
  <2>2. Mutate(m, [hash |-> h, available |-> TRUE], "upsert", peers, DependentsOf(m))
    BY <1>1 DEF ReplaceContent
  <2> QED
    BY <1>1, <2>1, <2>2, MutateStep
<1>2. ASSUME NEW m \in Editable, NEW peers \in SUBSET Peers, m \notin peers,
             MarkUnavailable(m, peers)
      PROVE  IInv'
  <2> DEFINE row == [memory[m] EXCEPT !.available = FALSE]
  <2>1. m \in Ordinary
    BY SynthesisAssumption
  <2>2. row \in [hash : Hashes, available : BOOLEAN] /\ ~row.available
    BY <2>1 DEF IInv, CanonInv
  <2>3. Mutate(m, row, "delete", peers, DependentsOf(m))
    BY <1>2 DEF MarkUnavailable
  <2> HIDE DEF row
  <2> QED
    BY <1>2, <2>1, <2>2, <2>3, MutateStep
<1>3. ASSUME NEW s \in Artifacts, NEW S \in Recipes, CreateDraft(s, S) \/ Refresh(s, S)
      PROVE  IInv'
  BY <1>3, CreateDraftStep, RefreshStep
<1>4. ASSUME NEW s \in Artifacts, Verify(s)
      PROVE  IInv'
  BY <1>4, VerifyStep
<1>5. ASSUME NEW s \in Artifacts, MarkContested(s)
      PROVE  IInv'
  <2>1. MarkBlocked(s, "contested", {"draft", "verified"}) /\ UNCHANGED <<memory, edges>>
        /\ scan' = scan
    BY <1>5 DEF MarkContested
  <2> QED
    BY <2>1, BlockedStep
<1>6. ASSUME NEW s \in Artifacts, ScanLint(s)
      PROVE  IInv'
  <2>1. artifact[s] \in ArtifactRow
    BY <1>6, PresentRow DEF ScanLint, IInv
  <2>2. scan' \in [phase : {"found"}, id : Artifacts, revision : Revisions,
                   status : {"contested", "stale"}]
    BY <1>6, <2>1 DEF ScanLint, ArtifactRow
  <2> QED
    BY <1>6, <2>2, QuietStep DEF ScanLint
<1>7. ASSUME NEW relation \in {"contradicts", "supersedes"}, NEW m \in Disputable,
             OpenEdge(relation, m)
      PROVE  IInv'
  <2>1. edges' \subseteq {"contradicts", "supersedes"} \X Disputable
    BY <1>7 DEF OpenEdge, IInv, CanonInv
  <2> QED
    BY <1>7, <2>1, EdgeStep DEF OpenEdge
<1>8. ASSUME NEW e \in edges, CloseEdge(e)
      PROVE  IInv'
  <2>1. edges' \subseteq {"contradicts", "supersedes"} \X Disputable
    BY <1>8 DEF CloseEdge, IInv, CanonInv
  <2> QED
    BY <1>8, <2>1, EdgeStep DEF CloseEdge
<1>9. CASE ScanMark
  <2>1. scan.id \in Artifacts /\ scan.status \in {"stale", "contested"}
    BY <1>9 DEF ScanMark, IInv, CanonInv, Idle
  <2>2. MarkBlocked(scan.id, scan.status, {"verified"}) /\ UNCHANGED <<memory, edges>>
        /\ scan' = Idle
    BY <1>9 DEF ScanMark
  <2> QED
    BY <2>1, <2>2, BlockedStep
<1>10. CASE ScanDrop
  BY <1>10, QuietStep DEF ScanDrop
<1>11. ASSUME NEW q \in Readers,
              \/ \E s \in Artifacts : GateOpen(q, s)
              \/ \E m \in Memories : GateSource(q, m)
              \/ GateClose(q) \/ GateAnswer(q)
       PROVE  IInv'
  <2>1. UNCHANGED canonVars /\ scan' = scan
    BY <1>11 DEF GateOpen, GateSource, GateClose, GateAnswer
  <2> QED
    BY <2>1, QuietStep
<1> QED
  BY <1>1, <1>2, <1>3, <1>4, <1>5, <1>6, <1>7, <1>8, <1>9, <1>10, <1>11 DEF SynNext

-----------------------------------------------------------------------------
(***************************************************************************)
(* Replaying.  The canonical rows stand still.  A row is rewritten in      *)
(* place, under its key and with what it says, or marked done, and what a  *)
(* replayer holds of a row does not change while it holds it.              *)
(***************************************************************************)
LEMMA WantedStays ==
  ASSUME UNCHANGED <<memory, artifact, edges>>, NEW m
  PROVE  Wanted(m)' = Wanted(m)
<1>1. Served' = Served
  BY DEF Served, SoundIn, SourceIn, Superseded, Contradicted
<1> QED
  BY <1>1 DEF Wanted

SaysTheSame(x, y) ==
  x.id = y.id /\ x.version = y.version /\ x.action = y.action /\ x.bind = y.bind

Rewrites(j, k) ==
  /\ j \in outbox /\ k \in JobRow /\ SaysTheSame(j, k)
  /\ k.status # "parked" => k.tries < MaxTries
  /\ outbox' = (outbox \ {j}) \cup {k}

KeepsHold(r) == replay'[r] # Idle => replay[r] # Idle /\ SaysTheSame(replay'[r], replay[r])

(* Rows are marked done, or none is touched.                               *)
LEMMA RowsStayApart ==
  ASSUME IInv, outbox' \subseteq outbox, UNCHANGED <<memory, artifact, edges, version, scan>>,
         \A r \in Replayers : KeepsHold(r)
  PROVE  CanonInv' /\ RowsApart' /\ DeletesBehind'
<1>1. CanonInv'
  BY DEF IInv, CanonInv
<1>2. DeletesBehind'
  BY DEF IInv, DeletesBehind, Behind
<1>3. ASSUME NEW r \in Replayers, replay'[r] # Idle
      PROVE  /\ replay'[r].version <= version'
             /\ \A j \in Claimed(r)' : j.action = replay'[r].action /\ j.bind = replay'[r].bind
  <2>1. replay[r] # Idle /\ SaysTheSame(replay'[r], replay[r])
    BY <1>3 DEF KeepsHold
  <2>2. Claimed(r)' \subseteq Claimed(r)
    BY <2>1 DEF Claimed, SaysTheSame
  <2> QED
    BY <2>1, <2>2 DEF IInv, RowsApart, SaysTheSame
<1> QED
  BY <1>1, <1>2, <1>3 DEF IInv, RowsApart

(* A row is rewritten: whatever it owed it owes still, unless it is now    *)
(* decided on.                                                             *)
LEMMA RewriteStep ==
  ASSUME IInv, NEW j, NEW k, Rewrites(j, k),
         UNCHANGED <<memory, artifact, edges, version, scan, index>>, ReplayInv',
         \A r \in Replayers : KeepsHold(r) \/ SaysTheSame(replay'[r], j),
         \A r \in Replayers :
           replay'[r].phase \in {"delete", "settle"} => replay'[r] = replay[r],
         k.status = "processing" =>
           \A r \in Replayers : replay'[r].phase \in {"delete", "settle"} => k.owner # r
  PROVE  IInv'
<1>1. /\ outbox' = (outbox \ {j}) \cup {k} /\ j \in outbox /\ k \in JobRow
      /\ SaysTheSame(j, k)
  BY DEF Rewrites
<1>2. CanonInv'
  BY DEF IInv, CanonInv, Rewrites
<1>3. DeletesBehind'
  BY <1>1 DEF IInv, DeletesBehind, Behind, SaysTheSame
<1>4. RowsApart'
  <2>1. \A x, y \in outbox' : x.id = y.id /\ x.version = y.version => x = y
    BY <1>1 DEF IInv, RowsApart, SaysTheSame
  <2>2. \A x \in outbox' : x.version <= version'
    BY <1>1 DEF IInv, RowsApart, SaysTheSame
  <2>3. ASSUME NEW r \in Replayers, replay'[r] # Idle
        PROVE  /\ replay'[r].version <= version'
               /\ \A x \in Claimed(r)' : x.action = replay'[r].action /\ x.bind = replay'[r].bind
    <3>1. CASE SaysTheSame(replay'[r], j)
      <4>1. \A x \in Claimed(r)' : x = k
        BY <1>1, <2>1, <3>1 DEF Claimed, SaysTheSame
      <4> QED
        BY <1>1, <3>1, <4>1 DEF IInv, RowsApart, SaysTheSame
    <3>2. CASE KeepsHold(r)
      <4>1. replay[r] # Idle /\ SaysTheSame(replay'[r], replay[r])
        BY <2>3, <3>2 DEF KeepsHold
      <4>2. \A x \in Claimed(r)' : \E y \in Claimed(r) : SaysTheSame(x, y)
        BY <1>1, <4>1 DEF Claimed, SaysTheSame
      <4> QED
        BY <4>1, <4>2 DEF IInv, RowsApart, SaysTheSame
    <3> QED
      BY <3>1, <3>2
  <2> QED
    BY <2>1, <2>2, <2>3 DEF RowsApart
<1>5. Owed'
  <2> SUFFICES ASSUME NEW m \in Memories, Lacking(m)'
               PROVE  \E x \in outbox' : Fills(x, m)' /\ ~Decided(x)'
    BY DEF Owed
  <2>1. Wanted(m)' = Wanted(m) /\ Lacking(m)
    BY WantedStays DEF Lacking
  <2>2. PICK x \in outbox : Fills(x, m) /\ ~Decided(x)
    BY <2>1 DEF IInv, Owed
  <2>3. CASE x = j
    <3>1. Fills(k, m)'
      BY <1>1, <2>1, <2>2, <2>3 DEF Fills, SaysTheSame
    <3>2. ~Decided(k)'
      BY DEF Decided
    <3> QED
      BY <1>1, <3>1, <3>2
  <2>4. CASE x # j
    <3>1. x \in outbox' /\ Fills(x, m)'
      BY <1>1, <2>1, <2>2, <2>4 DEF Fills
    <3>2. Wanted(x.id)' = Wanted(x.id)
      BY WantedStays
    <3>3. \A r \in Replayers : replay'[r] = replay[r] /\ x \in Claimed(r)' => x \in Claimed(r)
      BY <2>2 DEF Claimed
    <3>4. ~Decided(x)'
      BY <2>2, <3>2, <3>3 DEF Decided
    <3> QED
      BY <3>1, <3>4
  <2> QED
    BY <2>3, <2>4
<1> QED
  BY <1>2, <1>3, <1>4, <1>5 DEF IInv

(* A replayer lets go, or has only read: what is owed stays owed.          *)
LEMMA ReleaseStep ==
  ASSUME IInv, NEW r \in Replayers, Release(r), faults' \in 0..MaxFaults,
         UNCHANGED <<memory, artifact, edges, version, outbox, scan, index>>
  PROVE  IInv'
<1>1. /\ replay'[r] = Idle /\ \A q \in Replayers \ {r} : replay'[q] = replay[q]
      /\ ReplayInv'
  BY DEF Release, IInv, ReplayInv
<1>2. \A q \in Replayers : KeepsHold(q)
  BY <1>1 DEF KeepsHold, SaysTheSame
<1>3. CanonInv' /\ RowsApart' /\ DeletesBehind'
  BY <1>2, RowsStayApart
<1>4. \A m : Wanted(m)' = Wanted(m)
  BY WantedStays
<1>5. \A x : Decided(x)' => Decided(x)
  BY <1>1, <1>4 DEF Decided, Claimed, Idle
<1> QED
  BY <1>1, <1>3, <1>4, <1>5 DEF IInv, Owed, Lacking, Fills

LEMMA ClaimStep ==
  ASSUME IInv, NEW r \in Replayers, NEW j \in outbox, Claim(r, j)
  PROVE  IInv'
<1> DEFINE k == [j EXCEPT !.status = "processing", !.owner = r]
           hold == [phase |-> "claimed", id |-> j.id, version |-> j.version,
                    action |-> j.action, bind |-> j.bind]
<1>1. /\ replay[r] = Idle
      /\ j.status \in {"pending", "processing"}
      /\ outbox' = (outbox \ {j}) \cup {k}
      /\ replay' = [replay EXCEPT ![r] = hold]
      /\ UNCHANGED <<memory, artifact, edges, version, scan, index, faults>>
  BY DEF Claim, Claimable
<1>2. j \in JobRow /\ j.tries < MaxTries
  BY <1>1 DEF IInv, CanonInv
<1>3. k \in JobRow /\ SaysTheSame(j, k) /\ k.tries < MaxTries /\ k.owner = r
  BY <1>2 DEF JobRow, SaysTheSame
<1>4. hold \in HeldRow /\ SaysTheSame(hold, j) /\ hold.phase = "claimed"
  BY <1>2 DEF JobRow, HeldRow, SaysTheSame
<1> HIDE DEF k, hold
<1>5. replay'[r] = hold /\ \A q \in Replayers \ {r} : replay'[q] = replay[q]
  BY <1>1 DEF IInv, ReplayInv
<1>6. ReplayInv'
  BY <1>1, <1>4 DEF IInv, ReplayInv
<1>7. Rewrites(j, k)
  BY <1>1, <1>3 DEF Rewrites
<1>8. \A q \in Replayers : KeepsHold(q) \/ SaysTheSame(replay'[q], j)
  BY <1>4, <1>5 DEF KeepsHold, SaysTheSame
<1>9. \A q \in Replayers :
        replay'[q].phase \in {"delete", "settle"} => replay'[q] = replay[q] /\ q # r
  BY <1>4, <1>5
<1> QED
  BY <1>1, <1>3, <1>6, <1>7, <1>8, <1>9, RewriteStep

(* A lapsed lease, and a parked row put back.                              *)
LEMMA LapseStep ==
  ASSUME IInv, NEW j \in outbox, Lapse(j)
  PROVE  IInv'
<1> DEFINE k == [j EXCEPT !.owner = "nobody"]
<1>1. /\ j.status = "processing" /\ outbox' = (outbox \ {j}) \cup {k}
      /\ UNCHANGED <<memory, artifact, edges, version, scan, index, replay>>
  BY DEF Lapse
<1>2. faults' \in 0..MaxFaults
  <2>1. faults \in Nat /\ MaxFaults \in Nat
    BY IndexAssumption DEF IInv, ReplayInv
  <2> QED
    BY <2>1 DEF Lapse
<1>3. j \in JobRow /\ j.tries < MaxTries
  BY <1>1 DEF IInv, CanonInv
<1>4. k \in JobRow /\ SaysTheSame(j, k) /\ k.tries < MaxTries /\ k.owner = "nobody"
  BY <1>3 DEF JobRow, SaysTheSame
<1> HIDE DEF k
<1>5. Rewrites(j, k)
  BY <1>1, <1>4 DEF Rewrites
<1>6. ReplayInv' /\ \A q \in Replayers : KeepsHold(q)
  BY <1>1, <1>2 DEF IInv, ReplayInv, KeepsHold, SaysTheSame
<1> QED
  BY <1>1, <1>4, <1>5, <1>6, IndexAssumption, RewriteStep

LEMMA RequeueStep ==
  ASSUME IInv, NEW j \in outbox, Requeue(j)
  PROVE  IInv'
<1> DEFINE k == [j EXCEPT !.status = "pending", !.tries = 0]
<1>1. /\ outbox' = (outbox \ {j}) \cup {k}
      /\ UNCHANGED <<memory, artifact, edges, version, scan, index, replay>>
  BY DEF Requeue
<1>2. faults' \in 0..MaxFaults
  BY IndexAssumption DEF IInv, ReplayInv, Requeue
<1>3. j \in JobRow
  BY DEF IInv, CanonInv
<1>4. k \in JobRow /\ SaysTheSame(j, k) /\ k.tries < MaxTries /\ k.status = "pending"
  <2>1. 0 \in 0..MaxTries /\ 0 < MaxTries
    BY IndexAssumption
  <2>2. k.tries = 0 /\ k.status = "pending" /\ SaysTheSame(j, k)
    BY <1>3 DEF JobRow, SaysTheSame
  <2>3. k \in JobRow
    BY <1>3, <2>1 DEF JobRow
  <2> QED
    BY <2>1, <2>2, <2>3
<1> HIDE DEF k
<1>5. Rewrites(j, k)
  BY <1>1, <1>4 DEF Rewrites
<1>6. ReplayInv' /\ \A q \in Replayers : KeepsHold(q)
  BY <1>1, <1>2 DEF IInv, ReplayInv, KeepsHold, SaysTheSame
<1> QED
  BY <1>1, <1>4, <1>5, <1>6, RewriteStep

(* The row a replayer owns is the only one it claimed.                     *)
LEMMA OwnedRow ==
  ASSUME IInv, NEW r \in Replayers, Owns(r)
  PROVE  \E j \in outbox : Claimed(r) = {j} /\ j.status = "processing" /\ j.owner = r
BY DEF IInv, RowsApart, Owns, Claimed

LEMMA FailStep ==
  ASSUME IInv, NEW r \in Replayers, NEW permanent \in BOOLEAN, Fail(r, permanent)
  PROVE  IInv'
<1>1. /\ Release(r)
      /\ UNCHANGED <<memory, artifact, edges, version, scan, index, faults>>
  BY DEF Fail
<1>2. faults' \in 0..MaxFaults
  BY <1>1 DEF IInv, ReplayInv
<1>3. CASE ~Owns(r)
  <2>1. outbox' = outbox
    BY <1>3 DEF Fail
  <2> QED
    BY <1>1, <1>2, <2>1, ReleaseStep
<1>4. CASE Owns(r)
  <2>1. PICK j \in outbox : Claimed(r) = {j} /\ j.status = "processing" /\ j.owner = r
    BY <1>4, OwnedRow
  <2> DEFINE k == Failed(j, permanent)
  <2>2. outbox' = (outbox \ {j}) \cup {k}
    BY <1>4, <2>1 DEF Fail
  <2>3. j \in JobRow /\ j.tries < MaxTries
    BY <2>1 DEF IInv, CanonInv
  <2>4. /\ k \in JobRow /\ SaysTheSame(j, k)
        /\ k.status # "parked" => k.tries < MaxTries
        /\ k.status # "processing"
    <3>1. j.tries + 1 \in 0..MaxTries /\ j.tries \in Nat /\ MaxTries \in Nat
      BY <2>3, IndexAssumption DEF JobRow
    <3>2. /\ k.tries = j.tries + 1 /\ k.owner = "nobody"
          /\ k.status = IF permanent \/ j.tries + 1 >= MaxTries THEN "parked" ELSE "pending"
          /\ SaysTheSame(j, k)
      BY <2>3 DEF Failed, JobRow, SaysTheSame
    <3>3. k \in JobRow
      BY <2>3, <3>1 DEF Failed, JobRow
    <3> QED
      BY <3>1, <3>2, <3>3
  <2> HIDE DEF k
  <2>5. Rewrites(j, k)
    BY <2>1, <2>2, <2>4 DEF Rewrites
  <2>6. /\ replay'[r] = Idle /\ \A q \in Replayers \ {r} : replay'[q] = replay[q]
        /\ ReplayInv'
    BY <1>1 DEF Release, IInv, ReplayInv
  <2>7. /\ \A q \in Replayers : KeepsHold(q)
        /\ \A q \in Replayers :
             replay'[q].phase \in {"delete", "settle"} => replay'[q] = replay[q]
    BY <2>6 DEF KeepsHold, SaysTheSame, Idle
  <2> QED
    BY <1>1, <2>4, <2>5, <2>6, <2>7, RewriteStep
<1> QED
  BY <1>3, <1>4

LEMMA CrashStep ==
  ASSUME IInv, NEW r \in Replayers, Crash(r)
  PROVE  IInv'
<1>1. faults' \in 0..MaxFaults
  BY IndexAssumption DEF IInv, ReplayInv, Crash
<1> QED
  BY <1>1, ReleaseStep DEF Crash, synVars, canonVars

(* What is marked done had been decided on.                                *)
LEMMA SettleStep ==
  ASSUME IInv, NEW r \in Replayers, Settle(r)
  PROVE  IInv'
<1>1. /\ replay[r].phase = "settle" /\ Release(r)
      /\ outbox' = IF Owns(r) THEN outbox \ Claimed(r) ELSE outbox
      /\ UNCHANGED <<memory, artifact, edges, version, scan, index, faults>>
  BY DEF Settle
<1>2. /\ replay'[r] = Idle /\ \A q \in Replayers \ {r} : replay'[q] = replay[q]
      /\ ReplayInv'
  BY <1>1 DEF Release, IInv, ReplayInv
<1>3. \A q \in Replayers : KeepsHold(q)
  BY <1>2 DEF KeepsHold, SaysTheSame
<1>4. outbox' \subseteq outbox
  BY <1>1
<1>5. CanonInv' /\ RowsApart' /\ DeletesBehind'
  BY <1>1, <1>3, <1>4, RowsStayApart
<1>6. \A x \in outbox : x \in outbox' \/ Decided(x)
  <2>1. CASE Owns(r)
    <3>1. PICK j \in outbox : Claimed(r) = {j} /\ j.status = "processing" /\ j.owner = r
      BY <2>1, OwnedRow
    <3>2. Decided(j)
      BY <1>1, <3>1 DEF Decided
    <3> QED
      BY <1>1, <2>1, <3>1, <3>2
  <2> QED
    BY <1>1, <2>1
<1>7. \A m : Wanted(m)' = Wanted(m)
  BY <1>1, WantedStays
<1>8. \A x \in outbox : Decided(x)' => Decided(x)
  BY <1>2, <1>4, <1>7 DEF Decided, Claimed, Idle
<1>9. Owed'
  BY <1>1, <1>6, <1>7, <1>8 DEF IInv, Owed, Lacking, Fills
<1> QED
  BY <1>2, <1>5, <1>9 DEF IInv

(* A row that owes something is read as what it is: it is not decided on.  *)
LEMMA ReadStep ==
  ASSUME IInv, NEW r \in Replayers, Read(r)
  PROVE  IInv'
<1> DEFINE job == replay[r]
           next == IF Wanted(job.id) = NoRow THEN "delete"
                   ELSE IF job.action = "upsert" /\ Matches(job) THEN "write"
                   ELSE IF job.action = "delete" /\ job.id \in Ordinary THEN "delete"
                   ELSE "settle"
<1>1. /\ replay[r].phase = "claimed" /\ replay' = [replay EXCEPT ![r].phase = next]
      /\ UNCHANGED <<memory, artifact, edges, version, outbox, scan, index, faults>>
  BY DEF Read, synVars, canonVars
<1>2. job \in HeldRow /\ job # Idle
  BY <1>1, HeldIsNotIdle DEF IInv
<1>3. next \in {"delete", "write", "settle"}
  OBVIOUS
<1>4. /\ next = "settle" => Wanted(job.id) # NoRow /\ ~(job.action = "upsert" /\ Matches(job))
      /\ next = "delete" /\ Wanted(job.id) # NoRow => job.action = "delete"
  OBVIOUS
<1> HIDE DEF next
<1>5. /\ replay'[r] \in HeldRow /\ replay'[r].phase = next /\ SaysTheSame(replay'[r], job)
      /\ \A q \in Replayers \ {r} : replay'[q] = replay[q]
  BY <1>1, <1>2, <1>3 DEF IInv, ReplayInv, HeldRow, SaysTheSame
<1>6. ReplayInv'
  BY <1>1, <1>5 DEF IInv, ReplayInv
<1>7. \A q \in Replayers : KeepsHold(q)
  BY <1>2, <1>5 DEF KeepsHold, SaysTheSame
<1>8. CanonInv' /\ RowsApart' /\ DeletesBehind'
  BY <1>1, <1>7, RowsStayApart
<1>9. \A m : Wanted(m)' = Wanted(m)
  BY <1>1, WantedStays
<1>10. Owed'
  <2> SUFFICES ASSUME NEW m \in Memories, Lacking(m)'
               PROVE  \E x \in outbox' : Fills(x, m)' /\ ~Decided(x)'
    BY DEF Owed
  <2>1. Lacking(m)
    BY <1>1, <1>9 DEF Lacking
  <2>2. PICK x \in outbox : Fills(x, m) /\ ~Decided(x)
    BY <2>1 DEF IInv, Owed
  <2>3. x \in outbox' /\ Fills(x, m)'
    BY <1>1, <1>9, <2>2 DEF Fills
  <2>4. ASSUME x \in Claimed(r)'
        PROVE  next # "settle" /\ ~(next = "delete" /\ Wanted(m) # NoRow)
    <3>1. x \in Claimed(r)
      BY <1>1, <1>5, <2>4 DEF Claimed, SaysTheSame
    <3>2. job.id = m /\ x.action = job.action /\ x.bind = job.bind
      BY <1>2, <2>2, <3>1 DEF IInv, RowsApart, Claimed, Fills
    <3>3. Wanted(m) # NoRow => job.action = "upsert" /\ Matches(job)
      BY <2>2, <3>2 DEF Fills, Matches
    <3> QED
      BY <1>4, <3>2, <3>3
  <2>5. \A q \in Replayers \ {r} : x \in Claimed(q)' => x \in Claimed(q)
    BY <1>1, <1>5 DEF Claimed
  <2>6. Wanted(x.id)' = Wanted(m) /\ Wanted(x.id) = Wanted(m)
    BY <1>9, <2>2 DEF Fills
  <2>7. ~Decided(x)'
    BY <1>1, <1>5, <2>2, <2>4, <2>5, <2>6 DEF Decided
  <2> QED
    BY <2>3, <2>7
<1> QED
  BY <1>6, <1>8, <1>10 DEF IInv

(* The write transaction brings the index to what is wanted, or finds that *)
(* this row is not the one that owes it.                                   *)
LEMMA WriteStep ==
  ASSUME IInv, NEW r \in Replayers, Write(r)
  PROVE  IInv'
<1> DEFINE job == replay[r]
<1>1. /\ job.phase \in {"delete", "write"}
      /\ UNCHANGED <<memory, artifact, edges, version, outbox, scan, faults>>
  BY DEF Write, synVars, canonVars
<1>2. job \in HeldRow /\ job # Idle
  BY <1>1, HeldIsNotIdle DEF IInv
<1>3. CASE ~Owns(r)
  <2>1. Release(r) /\ index' = index
    BY <1>3 DEF Write
  <2>2. faults' \in 0..MaxFaults
    BY <1>1 DEF IInv, ReplayInv
  <2> QED
    BY <1>1, <2>1, <2>2, ReleaseStep
<1>4. CASE Owns(r)
  <2>1. /\ index' = [index EXCEPT ![job.id] = Entry(job)]
        /\ replay' = [replay EXCEPT ![r].phase = "settle"]
    BY <1>4 DEF Write
  <2>2. Entry(job) \in Binds \cup {NoRow} /\ job.id \in Memories
    BY <1>2 DEF Entry, HeldRow, IInv, ReplayInv
  <2>3. /\ replay'[r] \in HeldRow /\ replay'[r].phase = "settle" /\ SaysTheSame(replay'[r], job)
        /\ \A q \in Replayers \ {r} : replay'[q] = replay[q]
    BY <1>2, <2>1 DEF IInv, ReplayInv, HeldRow, SaysTheSame
  <2>4. /\ index'[job.id] = Entry(job)
        /\ \A m \in Memories \ {job.id} : index'[m] = index[m]
    BY <2>1, <2>2 DEF IInv, ReplayInv
  <2>5. ReplayInv'
    BY <1>1, <2>1, <2>2, <2>3 DEF IInv, ReplayInv
  <2>6. \A q \in Replayers : KeepsHold(q)
    BY <1>2, <2>3 DEF KeepsHold, SaysTheSame
  <2>7. CanonInv' /\ RowsApart' /\ DeletesBehind'
    BY <1>1, <2>6, RowsStayApart
  <2>8. \A m : Wanted(m)' = Wanted(m)
    BY <1>1, WantedStays
  <2>9. Owed'
    <3> SUFFICES ASSUME NEW m \in Memories, Lacking(m)'
                 PROVE  \E x \in outbox' : Fills(x, m)' /\ ~Decided(x)'
      BY DEF Owed
    <3>1. /\ index'[m] = index[m]
          /\ m = job.id => Wanted(m) # NoRow /\ ~(job.phase = "write" /\ Matches(job))
      <4>1. index'[m] # Wanted(m)
        BY <2>8 DEF Lacking
      <4> QED
        BY <2>4, <4>1 DEF Entry, Matches
    <3>2. Lacking(m)
      BY <1>1, <2>8, <3>1 DEF Lacking
    <3>3. PICK x \in outbox : Fills(x, m) /\ ~Decided(x)
      BY <3>2 DEF IInv, Owed
    <3>4. x \in outbox' /\ Fills(x, m)'
      BY <1>1, <2>8, <3>3 DEF Fills
    <3>5. ~(x \in Claimed(r)' /\ x.status = "processing" /\ x.owner = r)
      <4> SUFFICES ASSUME x \in Claimed(r)', x.status = "processing", x.owner = r
                   PROVE  FALSE
        OBVIOUS
      <4>1. x \in Claimed(r)
        BY <1>1, <2>3 DEF Claimed, SaysTheSame
      <4>2. job.id = m /\ x.id = m /\ x.action = job.action /\ x.bind = job.bind
        BY <1>2, <3>3, <4>1 DEF IInv, RowsApart, Claimed, Fills
      <4>3. Wanted(m) # NoRow /\ Matches(job)
        BY <3>1, <3>3, <4>2 DEF Fills, Matches
      <4>4. job.phase = "delete"
        BY <1>1, <3>1, <4>2, <4>3
      <4> QED
        BY <3>3, <4>1, <4>2, <4>3, <4>4 DEF Decided
    <3>6. \A q \in Replayers \ {r} : x \in Claimed(q)' => x \in Claimed(q)
      BY <1>1, <2>3 DEF Claimed
    <3>7. Wanted(x.id)' = Wanted(x.id)
      BY <2>8
    <3>8. ~Decided(x)'
      BY <2>3, <3>3, <3>5, <3>6, <3>7 DEF Decided
    <3> QED
      BY <3>4, <3>8
  <2> QED
    BY <2>5, <2>7, <2>9 DEF IInv
<1> QED
  BY <1>3, <1>4

-----------------------------------------------------------------------------
LEMMA InitInvariant ==
  ASSUME Init
  PROVE  IInv
<1> DEFINE h0 == CHOOSE h \in Hashes : TRUE
<1>1. h0 \in Hashes
  BY SynthesisAssumption
<1>2. /\ memory \in [Ordinary -> [hash : {h0}, available : {TRUE}]]
      /\ artifact = [s \in Artifacts |-> Absent]
      /\ edges = {} /\ version = 0 /\ outbox = {} /\ scan = Idle
      /\ index = [m \in Memories |-> IF m \in Ordinary THEN memory[m].hash ELSE NoRow]
      /\ replay = [r \in Replayers |-> Idle] /\ faults = 0
  BY DEF Init, SynInit
<1> HIDE DEF h0
<1>3. memory \in [Ordinary -> [hash : Hashes, available : BOOLEAN]]
  <2>1. {h0} \subseteq Hashes /\ {TRUE} \subseteq BOOLEAN
    BY <1>1
  <2>2. [hash : {h0}, available : {TRUE}] \subseteq [hash : Hashes, available : BOOLEAN]
    BY <2>1
  <2> QED
    BY <1>2, <2>2
<1>4. CanonInv
  BY <1>2, <1>3, SynthesisAssumption DEF CanonInv
<1>5. ReplayInv
  <2>1. \A m \in Ordinary : memory[m].hash \in Binds
    BY <1>3 DEF Binds
  <2>2. index \in [Memories -> Binds \cup {NoRow}]
    BY <1>2, <2>1
  <2> QED
    BY <1>2, <2>2, IndexAssumption DEF ReplayInv
<1>6. RowsApart /\ DeletesBehind
  BY <1>2 DEF RowsApart, DeletesBehind
<1>7. ASSUME NEW m \in Memories
      PROVE  ~Lacking(m)
  <2>1. CASE m \in Ordinary
    BY <1>2, <2>1 DEF Lacking, Wanted
  <2>2. CASE m \notin Ordinary
    <3>1. m \in Artifacts /\ artifact[m].status # "verified"
      BY <1>2, <2>2 DEF Memories, Absent
    <3>2. Wanted(m) = NoRow
      BY <3>1, BlockedIsUnwanted
    <3> QED
      BY <1>2, <2>2, <3>2 DEF Lacking
  <2> QED
    BY <2>1, <2>2
<1> QED
  BY <1>4, <1>5, <1>6, <1>7 DEF IInv, Owed

LEMMA StepInvariant ==
  ASSUME IInv, [Next]_vars
  PROVE  IInv'
<1>1. ASSUME SynNext, UNCHANGED indexVars
      PROVE  IInv'
  BY <1>1, CanonicalStep
<1>2. ASSUME NEW r \in Replayers, Replaying(r)
      PROVE  IInv'
  BY <1>2, ClaimStep, ReadStep, WriteStep, SettleStep DEF Replaying
<1>3. ASSUME NEW r \in Replayers, Crash(r)
      PROVE  IInv'
  BY <1>3, CrashStep
<1>4. ASSUME NEW r \in Replayers, NEW permanent \in BOOLEAN, Fail(r, permanent)
      PROVE  IInv'
  BY <1>4, FailStep
<1>5. ASSUME NEW j \in outbox, Lapse(j) \/ Requeue(j)
      PROVE  IInv'
  BY <1>5, LapseStep, RequeueStep
<1>6. CASE UNCHANGED vars
  BY <1>6, QuietStep DEF vars, synVars
<1> QED
  BY <1>1, <1>2, <1>3, <1>4, <1>5, <1>6 DEF Next

(* The inductive invariant of the index: whatever it lacks is owed by a    *)
(* queued row that no replayer has already decided on.                     *)
THEOREM Invariant == Spec => []IInv
BY InitInvariant, StepInvariant, PTL DEF Spec

(* Memories, artifacts, rows, index and what the replayers hold keep their *)
(* types, for any memories, artifacts and replayers.                       *)
THEOREM TypeCorrect == Spec => []TypeOK
<1>1. IInv => TypeOK
  BY InvariantTypes DEF IInv
<1> QED
  BY <1>1, Invariant, PTL

(* Whenever the index disagrees with an ordinary memory, a row that will   *)
(* correct it is in the outbox (_replay_memory_index_job, _require_lease_  *)
(* owner).                                                                 *)
THEOREM OrdinaryIsOwed == Spec => []OrdinaryRowIsOwed
<1>1. IInv => OrdinaryRowIsOwed
  BY OwedToOrdinary DEF IInv
<1> QED
  BY <1>1, Invariant, PTL

(* A vector of an artifact that is no longer verified is in the index only *)
(* while a row that will remove it is queued (enqueue_synthesis_index_job, *)
(* _delete_if_currently_ineligible).                                       *)
THEOREM SynthesisIsOwed == Spec => []SynthesisRowIsOwed
<1>1. IInv => SynthesisRowIsOwed
  BY OwedToSynthesis DEF IInv
<1> QED
  BY <1>1, Invariant, PTL
=============================================================================

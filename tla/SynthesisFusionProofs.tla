----------------------- MODULE SynthesisFusionProofs -----------------------
(***************************************************************************)
(* Theorems about the governed synthesis store and the fusion workers, for *)
(* any memories, artifacts, recipes, readers and workers.                  *)
(***************************************************************************)
EXTENDS SynthesisFusion, TLAPS

(***************************************************************************)
(* The rows as the transactions leave them.  What a verified artifact may  *)
(* say of its sources rests on two facts about every artifact: its sources *)
(* were once there, and the revisions it has seen are not of the future.   *)
(***************************************************************************)
ArtifactRow ==
  [status : Statuses, revision : Revisions, sources : Recipes,
   seen : UNION {[S -> Hashes \cup Revisions] : S \in Recipes}]

SeenIsPast(s) ==
  /\ DOMAIN artifact[s].seen = artifact[s].sources
  /\ artifact[s].revision <= version + 1
  /\ \A t \in artifact[s].sources \cap Artifacts :
       /\ artifact[t] # Absent
       /\ artifact[s].seen[t] \in Revisions
       /\ artifact[s].seen[t] <= artifact[t].revision

CanonInv ==
  /\ memory \in [Ordinary -> [hash : Hashes, available : BOOLEAN]]
  /\ artifact \in [Artifacts -> ArtifactRow \cup {Absent}]
  /\ edges \subseteq {"contradicts", "supersedes"} \X Disputable
  /\ version \in 0..MaxVersion
  /\ \A j \in outbox : j.id \in Memories /\ j.version \in 1..MaxVersion
  /\ \A s \in Artifacts : artifact[s] # Absent => SeenIsPast(s)

ScanInv ==
  \/ scan = Idle
  \/ scan \in [phase : {"found"}, id : Artifacts, revision : Revisions,
               status : {"contested", "stale"}]

ReaderRow ==
  [phase : {"reading"}, id : Artifacts, version : 0..MaxVersion,
   row : ArtifactRow, todo : SUBSET Memories]
    \cup [phase : {"admitted"}, id : Artifacts] \cup {Idle}

SynInv == CanonInv /\ ScanInv /\ reader \in [Readers -> ReaderRow]

-----------------------------------------------------------------------------
(* A row is not the absent one exactly when it has one of the statuses.    *)
LEMMA PresentRow ==
  ASSUME CanonInv, NEW s \in Artifacts, artifact[s].status # "absent"
  PROVE  artifact[s] # Absent /\ artifact[s] \in ArtifactRow
BY DEF CanonInv, Absent

LEMMA PresentInRow ==
  ASSUME NEW row \in ArtifactRow
  PROVE  row # Absent
<1>1. row.status \in Statuses
  BY DEF ArtifactRow
<1> QED
  BY <1>1 DEF Absent, Statuses

(* Whoever is served is verified: the verified artifacts are closed under  *)
(* the gate.                                                               *)
LEMMA ServedIsVerified ==
  ASSUME NEW s \in Served
  PROVE  s \in Artifacts /\ artifact[s].status = "verified"
<1> DEFINE V == {t \in Artifacts : artifact[t].status = "verified"}
<1>1. V \in SUBSET Artifacts
  OBVIOUS
<1>2. s \in V
  BY <1>1 DEF Served
<1> QED
  BY <1>2

(* The gate admits from the served artifacts only served ones.             *)
LEMMA ServedIsClosed ==
  ASSUME NEW s \in Artifacts, artifact[s].status = "verified", SoundIn(Served, s)
  PROVE  s \in Served
<1> SUFFICES ASSUME NEW V \in SUBSET Artifacts,
                    {t \in Artifacts : artifact[t].status = "verified" /\ SoundIn(V, t)}
                      \subseteq V
             PROVE  s \in V
  BY DEF Served
<1>1. Served \subseteq V
  BY DEF Served
<1>2. SoundIn(V, s)
  BY <1>1 DEF SoundIn, SourceIn
<1> QED
  BY <1>2

(* A verified artifact that names m, or an artifact that names m, is one   *)
(* of the dependents a mutation of m stales.                               *)
LEMMA DependentsReach ==
  ASSUME NEW m, NEW t \in Artifacts, artifact[t].status = "verified",
         \/ m \in artifact[t].sources
         \/ \E u \in artifact[t].sources \cap Artifacts :
              artifact[u] # Absent /\ m \in artifact[u].sources
  PROVE  t \in DependentsOf(m)
<1> DEFINE Sources(x) == IF artifact[x] = Absent THEN {} ELSE artifact[x].sources
           Above(D) == {x \in Artifacts : Sources(x) \cap (D \cup {m}) # {}}
<1>1. Sources(t) = artifact[t].sources
  BY DEF Absent
<1>2. ASSUME NEW D \in SUBSET Artifacts, Above(D) \subseteq D
      PROVE  t \in D
  <2>1. CASE m \in artifact[t].sources
    BY <1>1, <1>2, <2>1
  <2>2. ASSUME NEW u \in artifact[t].sources \cap Artifacts,
               artifact[u] # Absent, m \in artifact[u].sources
        PROVE  t \in D
    <3>1. u \in D
      BY <1>2, <2>2
    <3> QED
      BY <1>1, <1>2, <3>1
  <2> QED
    BY <2>1, <2>2
<1> QED
  BY <1>2 DEF DependentsOf

-----------------------------------------------------------------------------
(* Rows keep their sources and never go back in revision; a row that is    *)
(* written anew has seen revisions of artifacts that are there.            *)
SameText(s) ==
  /\ artifact[s] # Absent
  /\ artifact'[s].revision = artifact[s].revision
  /\ artifact'[s].sources = artifact[s].sources
  /\ artifact'[s].seen = artifact[s].seen

WrittenAnew(s) ==
  /\ artifact'[s].revision <= version' + 1
  /\ DOMAIN artifact'[s].seen = artifact'[s].sources
  /\ \A t \in artifact'[s].sources \cap Artifacts :
       /\ artifact[t] # Absent
       /\ artifact'[s].seen[t] \in Revisions
       /\ artifact'[s].seen[t] <= artifact[t].revision

Onwards(s) ==
  artifact[s] # Absent => artifact'[s] # Absent /\ artifact'[s].revision >= artifact[s].revision

LEMMA SeenStaysPast ==
  ASSUME CanonInv,
         version' \in Nat, version' >= version,
         artifact' \in [Artifacts -> ArtifactRow \cup {Absent}],
         \A s \in Artifacts : artifact'[s] # Absent => SameText(s) \/ WrittenAnew(s),
         \A s \in Artifacts : Onwards(s)
  PROVE  \A s \in Artifacts : artifact'[s] # Absent => SeenIsPast(s)'
<1> SUFFICES ASSUME NEW s \in Artifacts, artifact'[s] # Absent
             PROVE  SeenIsPast(s)'
  OBVIOUS
<1>1. \A t \in Artifacts : artifact[t] # Absent =>
         /\ artifact[t].revision \in Nat
         /\ artifact'[t] # Absent /\ artifact'[t].revision \in Nat
         /\ artifact'[t].revision >= artifact[t].revision
  BY SynthesisAssumption DEF CanonInv, Onwards, ArtifactRow, Revisions
<1>2. version \in Nat
  BY SynthesisAssumption DEF CanonInv
<1>3. CASE SameText(s)
  <2>1. SeenIsPast(s)
    BY <1>3 DEF CanonInv, SameText
  <2>2. /\ DOMAIN artifact'[s].seen = artifact'[s].sources
        /\ artifact'[s].revision <= version' + 1
    BY <1>1, <1>2, <1>3, <2>1 DEF SeenIsPast, SameText
  <2>3. ASSUME NEW t \in artifact'[s].sources \cap Artifacts
        PROVE  /\ artifact'[t] # Absent
               /\ artifact'[s].seen[t] \in Revisions
               /\ artifact'[s].seen[t] <= artifact'[t].revision
    <3>1. /\ artifact[t] # Absent
          /\ artifact'[s].seen[t] \in Revisions
          /\ artifact'[s].seen[t] <= artifact[t].revision
      BY <1>3, <2>1 DEF SeenIsPast, SameText
    <3> QED
      BY <1>1, <3>1, SynthesisAssumption DEF Revisions
  <2> QED
    BY <2>2, <2>3 DEF SeenIsPast
<1>4. CASE WrittenAnew(s)
  <2>1. ASSUME NEW t \in artifact'[s].sources \cap Artifacts
        PROVE  /\ artifact'[t] # Absent
               /\ artifact'[s].seen[t] \in Revisions
               /\ artifact'[s].seen[t] <= artifact'[t].revision
    BY <1>1, <1>4, SynthesisAssumption DEF Revisions, WrittenAnew
  <2> QED
    BY <1>4, <2>1 DEF SeenIsPast, WrittenAnew
<1> QED
  BY <1>3, <1>4

(* A step that moves only the status of some rows.                         *)
LEMMA StatusStep ==
  ASSUME CanonInv,
         version' \in 0..MaxVersion, version' >= version,
         NEW st \in Statuses, NEW T \in SUBSET Artifacts,
         \A t \in T : artifact[t] # Absent,
         artifact' = [t \in Artifacts |-> IF t \in T THEN [artifact[t] EXCEPT !.status = st]
                                          ELSE artifact[t]]
  PROVE  /\ artifact' \in [Artifacts -> ArtifactRow \cup {Absent}]
         /\ \A s \in Artifacts : artifact'[s] # Absent => SeenIsPast(s)'
         /\ \A s \in Artifacts : artifact[s] # Absent => SameText(s)
<1>1. ASSUME NEW s \in Artifacts, artifact[s] # Absent
      PROVE  /\ artifact'[s] \in ArtifactRow
             /\ SameText(s)
  <2>1. artifact[s] \in ArtifactRow
    BY <1>1 DEF CanonInv
  <2>2. CASE s \in T
    <3>1. artifact'[s] = [artifact[s] EXCEPT !.status = st]
      BY <2>2
    <3> QED
      BY <1>1, <2>1, <3>1 DEF ArtifactRow, SameText
  <2>3. CASE s \notin T
    BY <1>1, <2>1, <2>3 DEF SameText
  <2> QED
    BY <2>2, <2>3
<1>2. ASSUME NEW s \in Artifacts, artifact[s] = Absent
      PROVE  artifact'[s] = Absent
  BY <1>2
<1>3. artifact' \in [Artifacts -> ArtifactRow \cup {Absent}]
  BY <1>1, <1>2
<1>4. \A s \in Artifacts : artifact[s] # Absent => SameText(s)
  BY <1>1
<1>5. \A s \in Artifacts : artifact[s] # Absent => artifact'[s] # Absent
  BY <1>1, PresentInRow
<1>6. \A s \in Artifacts : Onwards(s)
  BY <1>1, <1>5, SynthesisAssumption DEF Onwards, SameText, CanonInv, ArtifactRow, Revisions
<1>7. version' \in Nat
  BY SynthesisAssumption
<1>8. \A s \in Artifacts : artifact'[s] # Absent => SameText(s)
  BY <1>2, <1>4
<1> QED
  BY <1>3, <1>4, <1>6, <1>7, <1>8, SeenStaysPast

(* A draft of usable sources takes the slot of an absent artifact, or of   *)
(* one at an earlier revision.                                             *)
LEMMA DraftStep ==
  ASSUME CanonInv,
         version' = version + 1, version' \in 0..MaxVersion,
         NEW s \in Artifacts, NEW S \in Recipes, NEW n \in Nat \ {0},
         SourcesUsable(S),
         n <= version + 2,
         artifact[s] # Absent => n > artifact[s].revision,
         artifact' = [artifact EXCEPT ![s] = Drafted(S, n)]
  PROVE  /\ artifact' \in [Artifacts -> ArtifactRow \cup {Absent}]
         /\ \A t \in Artifacts : artifact'[t] # Absent => SeenIsPast(t)'
<1> DEFINE row == Drafted(S, n)
<1>1. S \subseteq Memories
  BY SynthesisAssumption DEF Memories
<1>2. \A m \in S : m \in Artifacts => m \in Served /\ artifact[m] # Absent
  BY ServedIsVerified, SynthesisAssumption DEF SourcesUsable, Absent
<1>3. \A m \in S : Current(m) \in Hashes \cup Revisions
  <2> SUFFICES ASSUME NEW m \in S
               PROVE  Current(m) \in Hashes \cup Revisions
    OBVIOUS
  <2>1. CASE m \in Ordinary
    BY <2>1 DEF CanonInv, Current
  <2>2. CASE m \notin Ordinary
    <3>1. m \in Artifacts /\ artifact[m] \in ArtifactRow
      BY <1>1, <1>2, <2>2 DEF Memories, CanonInv
    <3> QED
      BY <2>2, <3>1 DEF Current, ArtifactRow
  <2> QED
    BY <2>1, <2>2
<1>4. /\ row.status = "draft" /\ row.revision = n /\ row.sources = S
      /\ row.seen = [m \in S |-> Current(m)]
  BY DEF Drafted
<1>5. row \in ArtifactRow
  <2>1. n \in Revisions
    BY SynthesisAssumption DEF CanonInv, Revisions
  <2>2. [m \in S |-> Current(m)] \in [S -> Hashes \cup Revisions]
    BY <1>3
  <2>3. [m \in S |-> Current(m)] \in UNION {[R -> Hashes \cup Revisions] : R \in Recipes}
    BY <2>2
  <2>4. "draft" \in Statuses
    BY DEF Statuses
  <2> QED
    BY <2>1, <2>3, <2>4 DEF Drafted, ArtifactRow
<1> HIDE DEF row
<1>6. artifact'[s] = row /\ \A t \in Artifacts \ {s} : artifact'[t] = artifact[t]
  BY DEF row, CanonInv
<1>7. artifact' \in [Artifacts -> ArtifactRow \cup {Absent}]
  BY <1>5 DEF row, CanonInv
<1>8. row # Absent
  BY <1>5, PresentInRow
<1>9. WrittenAnew(s)
  <2>1. ASSUME NEW t \in S \cap Artifacts
        PROVE  /\ artifact[t] # Absent
               /\ row.seen[t] \in Revisions
               /\ row.seen[t] <= artifact[t].revision
    <3>1. artifact[t] # Absent /\ artifact[t] \in ArtifactRow
      BY <1>2 DEF CanonInv
    <3>2. row.seen[t] = artifact[t].revision
      BY <1>4, SynthesisAssumption DEF Current
    <3> QED
      BY <3>1, <3>2, SynthesisAssumption DEF ArtifactRow, Revisions
  <2> QED
    BY <1>4, <1>6, <2>1, SynthesisAssumption DEF WrittenAnew, CanonInv
<1>10. ASSUME NEW t \in Artifacts
       PROVE  Onwards(t)
  <2>1. artifact[t] # Absent => artifact[t].revision \in Nat
    BY SynthesisAssumption DEF CanonInv, ArtifactRow, Revisions
  <2> QED
    BY <1>4, <1>6, <1>8, <2>1 DEF Onwards
<1>11. \A t \in Artifacts : artifact'[t] # Absent => SameText(t) \/ WrittenAnew(t)
  BY <1>6, <1>9 DEF SameText
<1>12. version' \in Nat /\ version' >= version
  BY SynthesisAssumption DEF CanonInv
<1> QED
  BY <1>7, <1>10, <1>11, <1>12, SeenStaysPast

-----------------------------------------------------------------------------
(* The jobs a transaction adds are of its own version.                     *)
LEMMA PublishedJobs ==
  ASSUME NEW id \in Memories, NEW action, NEW bind, version \in Nat
  PROVE  /\ Job(id, action, bind).id \in Memories
         /\ Job(id, action, bind).version = version + 1
         /\ \A j \in Publish(id, action, bind) : j.id \in Memories /\ j.version = version + 1
BY DEF Job, Publish

LEMMA BumpType ==
  ASSUME version \in 0..MaxVersion, Bump
  PROVE  /\ version \in Nat /\ version' = version + 1
         /\ version' \in 0..MaxVersion /\ version' >= version
         /\ version + 1 \in 1..MaxVersion
BY SynthesisAssumption DEF Bump

LEMMA MutateType ==
  ASSUME CanonInv, NEW m \in Ordinary, NEW row \in [hash : Hashes, available : BOOLEAN],
         NEW action, NEW peers \in SUBSET Peers,
         Mutate(m, row, action, peers, DependentsOf(m))
  PROVE  CanonInv' /\ \A s \in Artifacts : artifact[s] # Absent => SameText(s)
<1> DEFINE staled == DependentsOf(m)
<1>1. staled \in SUBSET Artifacts /\ \A t \in staled : artifact[t] # Absent
  BY DEF DependentsOf, Absent
<1>2. artifact' = [t \in Artifacts |-> IF t \in staled
                                       THEN [artifact[t] EXCEPT !.status = "stale"]
                                       ELSE artifact[t]]
  BY DEF Mutate
<1>3. /\ version \in Nat /\ version' = version + 1
      /\ version' \in 0..MaxVersion /\ version' >= version
      /\ version + 1 \in 1..MaxVersion
  BY BumpType DEF Mutate, CanonInv
<1>4. memory' \in [Ordinary -> [hash : Hashes, available : BOOLEAN]]
  BY DEF Mutate, CanonInv
<1>5. \A j \in outbox' : j.id \in Memories /\ j.version \in 1..MaxVersion
  <2>1. outbox' = outbox \cup {Job(m, action, row.hash)}
                         \cup {Job(p, "upsert", memory[p].hash) : p \in peers}
                         \cup UNION {Publish(t, "delete", artifact[t].revision) : t \in staled}
    BY DEF Mutate
  <2>2. m \in Memories /\ peers \subseteq Memories /\ staled \subseteq Memories
    BY <1>1, SynthesisAssumption DEF Memories
  <2>3. \A j \in outbox : j.id \in Memories /\ j.version \in 1..MaxVersion
    BY DEF CanonInv
  <2>4. \A p \in peers : /\ Job(p, "upsert", memory[p].hash).id \in Memories
                         /\ Job(p, "upsert", memory[p].hash).version \in 1..MaxVersion
    BY <1>3, <2>2, PublishedJobs
  <2>5. \A t \in staled : \A j \in Publish(t, "delete", artifact[t].revision) :
           j.id \in Memories /\ j.version \in 1..MaxVersion
    BY <1>3, <2>2, PublishedJobs
  <2>6. /\ Job(m, action, row.hash).id \in Memories
        /\ Job(m, action, row.hash).version \in 1..MaxVersion
    BY <1>3, <2>2, PublishedJobs
  <2> QED
    BY <2>1, <2>3, <2>4, <2>5, <2>6
<1>6. "stale" \in Statuses
  BY DEF Statuses
<1> HIDE DEF staled
<1>7. /\ artifact' \in [Artifacts -> ArtifactRow \cup {Absent}]
      /\ \A s \in Artifacts : artifact'[s] # Absent => SeenIsPast(s)'
      /\ \A s \in Artifacts : artifact[s] # Absent => SameText(s)
  BY <1>1, <1>2, <1>3, <1>6, StatusStep
<1>8. edges' = edges
  BY DEF Mutate
<1> QED
  BY <1>3, <1>4, <1>5, <1>7, <1>8 DEF CanonInv

LEMMA CreateDraftType ==
  ASSUME CanonInv, NEW s \in Artifacts, NEW S \in Recipes, CreateDraft(s, S)
  PROVE  CanonInv'
<1>1. /\ version \in Nat /\ version' = version + 1
      /\ version' \in 0..MaxVersion /\ version' >= version
  BY BumpType DEF CreateDraft, CanonInv
<1>2. /\ artifact[s] = Absent /\ SourcesUsable(S)
      /\ artifact' = [artifact EXCEPT ![s] = Drafted(S, 1)]
      /\ UNCHANGED <<memory, edges, outbox>>
  BY DEF CreateDraft
<1>3. 1 \in Nat \ {0} /\ 1 <= version + 2
  BY <1>1
<1>4. /\ artifact' \in [Artifacts -> ArtifactRow \cup {Absent}]
      /\ \A t \in Artifacts : artifact'[t] # Absent => SeenIsPast(t)'
  BY <1>1, <1>2, <1>3, DraftStep
<1> QED
  BY <1>1, <1>2, <1>4 DEF CanonInv

LEMMA RefreshType ==
  ASSUME CanonInv, NEW s \in Artifacts, NEW S \in Recipes, Refresh(s, S)
  PROVE  CanonInv'
<1> DEFINE n == artifact[s].revision + 1
<1>1. /\ version \in Nat /\ version' = version + 1
      /\ version' \in 0..MaxVersion /\ version' >= version
      /\ version + 1 \in 1..MaxVersion
  BY BumpType DEF Refresh, CanonInv
<1>2. /\ artifact[s].status \in {"stale", "contested"} /\ SourcesUsable(S)
      /\ artifact' = [artifact EXCEPT ![s] = Drafted(S, n)]
      /\ outbox' = outbox \cup Publish(s, "delete", artifact[s].revision)
      /\ UNCHANGED <<memory, edges>>
  BY DEF Refresh
<1>3. /\ artifact[s] # Absent /\ artifact[s] \in ArtifactRow /\ SeenIsPast(s)
  BY <1>2, PresentRow DEF CanonInv
<1>4. n \in Nat \ {0} /\ n <= version + 2 /\ n > artifact[s].revision
  BY <1>1, <1>3, SynthesisAssumption DEF ArtifactRow, Revisions, SeenIsPast
<1> HIDE DEF n
<1>5. /\ artifact' \in [Artifacts -> ArtifactRow \cup {Absent}]
      /\ \A t \in Artifacts : artifact'[t] # Absent => SeenIsPast(t)'
  BY <1>1, <1>2, <1>4, DraftStep
<1>6. \A j \in outbox' : j.id \in Memories /\ j.version \in 1..MaxVersion
  BY <1>1, <1>2, PublishedJobs DEF CanonInv, Memories
<1> QED
  BY <1>1, <1>2, <1>5, <1>6 DEF CanonInv

(* Verify and the two ways an artifact is blocked.                         *)
LEMMA StatusType ==
  ASSUME CanonInv, NEW s \in Artifacts, NEW st \in Statuses, NEW action,
         artifact[s].status # "absent",
         Bump,
         artifact' = [artifact EXCEPT ![s].status = st],
         outbox' = outbox \cup Publish(s, action, artifact[s].revision),
         UNCHANGED <<memory, edges>>
  PROVE  CanonInv' /\ \A t \in Artifacts : artifact[t] # Absent => SameText(t)
<1>1. /\ version \in Nat /\ version' = version + 1
      /\ version' \in 0..MaxVersion /\ version' >= version
      /\ version + 1 \in 1..MaxVersion
  BY BumpType DEF CanonInv
<1>2. artifact[s] # Absent
  BY PresentRow
<1>3. artifact' = [t \in Artifacts |-> IF t \in {s} THEN [artifact[t] EXCEPT !.status = st]
                                       ELSE artifact[t]]
  BY DEF CanonInv
<1>4. /\ artifact' \in [Artifacts -> ArtifactRow \cup {Absent}]
      /\ \A t \in Artifacts : artifact'[t] # Absent => SeenIsPast(t)'
      /\ \A t \in Artifacts : artifact[t] # Absent => SameText(t)
  BY <1>1, <1>2, <1>3, StatusStep
<1>5. \A j \in outbox' : j.id \in Memories /\ j.version \in 1..MaxVersion
  BY <1>1, PublishedJobs DEF CanonInv, Memories
<1> QED
  BY <1>1, <1>4, <1>5 DEF CanonInv

-----------------------------------------------------------------------------
(* A step that verifies nothing and corrects no source.                    *)
LEMMA QuietStaysCurrent ==
  ASSUME CanonInv, VerifiedIsCurrent,
         memory' = memory,
         \A t \in Artifacts : artifact[t] # Absent => SameText(t),
         \A t \in Artifacts : artifact'[t].status = "verified" => artifact[t].status = "verified"
  PROVE  VerifiedIsCurrent'
<1> SUFFICES ASSUME NEW s \in Artifacts, artifact'[s].status = "verified"
             PROVE  /\ NamesCurrent(s)'
                    /\ \A t \in artifact'[s].sources \cap Artifacts :
                         artifact'[t].revision = artifact'[s].seen[t] => NamesCurrent(t)'
  BY DEF VerifiedIsCurrent
<1>1. /\ artifact[s].status = "verified" /\ artifact[s] # Absent
      /\ SameText(s) /\ SeenIsPast(s)
  BY DEF Absent, CanonInv
<1>2. NamesCurrent(s)'
  BY <1>1 DEF VerifiedIsCurrent, NamesCurrent, SameText
<1>3. ASSUME NEW t \in artifact'[s].sources \cap Artifacts,
             artifact'[t].revision = artifact'[s].seen[t]
      PROVE  NamesCurrent(t)'
  <2>1. t \in artifact[s].sources \cap Artifacts /\ artifact[t] # Absent /\ SameText(t)
    BY <1>1 DEF SameText, SeenIsPast
  <2>2. NamesCurrent(t)
    BY <1>1, <1>3, <2>1 DEF VerifiedIsCurrent, SameText
  <2> QED
    BY <2>1, <2>2 DEF NamesCurrent, SameText
<1> QED
  BY <1>2, <1>3

(* A mutation leaves nothing verified that rests on what it changes.       *)
LEMMA MutateStaysCurrent ==
  ASSUME CanonInv, VerifiedIsCurrent,
         NEW m \in Ordinary, NEW row \in [hash : Hashes, available : BOOLEAN],
         NEW action, NEW peers \in SUBSET Peers,
         Mutate(m, row, action, peers, DependentsOf(m))
  PROVE  VerifiedIsCurrent'
<1> SUFFICES ASSUME NEW s \in Artifacts, artifact'[s].status = "verified"
             PROVE  /\ NamesCurrent(s)'
                    /\ \A t \in artifact'[s].sources \cap Artifacts :
                         artifact'[t].revision = artifact'[s].seen[t] => NamesCurrent(t)'
  BY DEF VerifiedIsCurrent
<1>1. \A t \in Artifacts : artifact[t] # Absent => SameText(t)
  BY MutateType
<1>2. artifact' = [t \in Artifacts |-> IF t \in DependentsOf(m)
                                       THEN [artifact[t] EXCEPT !.status = "stale"]
                                       ELSE artifact[t]]
  BY DEF Mutate
<1>3. \A o \in Ordinary \ {m} : memory'[o] = memory[o]
  BY DEF Mutate, CanonInv
<1>4. s \notin DependentsOf(m) /\ artifact[s].status = "verified" /\ artifact[s] # Absent
  <2>1. s \in DependentsOf(m) => artifact[s] # Absent /\ artifact[s] \in ArtifactRow
    BY PresentRow DEF DependentsOf
  <2>2. s \in DependentsOf(m) => artifact'[s].status = "stale"
    BY <1>2, <2>1 DEF ArtifactRow
  <2> QED
    BY <1>2, <2>2 DEF Absent
<1>5. SameText(s) /\ SeenIsPast(s)
  BY <1>1, <1>4 DEF CanonInv
<1>6. /\ m \notin artifact[s].sources
      /\ \A u \in artifact[s].sources \cap Artifacts : m \notin artifact[u].sources
  BY <1>4, <1>5, DependentsReach DEF SeenIsPast
<1>7. NamesCurrent(s)'
  BY <1>3, <1>4, <1>5, <1>6 DEF VerifiedIsCurrent, NamesCurrent, SameText
<1>8. ASSUME NEW t \in artifact'[s].sources \cap Artifacts,
             artifact'[t].revision = artifact'[s].seen[t]
      PROVE  NamesCurrent(t)'
  <2>1. t \in artifact[s].sources \cap Artifacts /\ artifact[t] # Absent /\ SameText(t)
    BY <1>1, <1>5, <1>8 DEF SameText, SeenIsPast
  <2>2. NamesCurrent(t)
    BY <1>4, <1>5, <1>8, <2>1 DEF VerifiedIsCurrent, SameText
  <2> QED
    BY <1>3, <1>6, <2>1, <2>2 DEF NamesCurrent, SameText
<1> QED
  BY <1>7, <1>8

(* A new draft is no revision that any verified artifact has seen.         *)
LEMMA DraftStaysCurrent ==
  ASSUME CanonInv, VerifiedIsCurrent,
         NEW s \in Artifacts, NEW S, NEW n \in Nat,
         artifact[s] # Absent => n > artifact[s].revision,
         artifact' = [artifact EXCEPT ![s] = Drafted(S, n)],
         memory' = memory
  PROVE  VerifiedIsCurrent'
<1> SUFFICES ASSUME NEW t \in Artifacts, artifact'[t].status = "verified"
             PROVE  /\ NamesCurrent(t)'
                    /\ \A u \in artifact'[t].sources \cap Artifacts :
                         artifact'[u].revision = artifact'[t].seen[u] => NamesCurrent(u)'
  BY DEF VerifiedIsCurrent
<1>1. \A u \in Artifacts \ {s} : artifact'[u] = artifact[u]
  BY DEF CanonInv
<1>2. artifact'[s].status = "draft" /\ artifact'[s].revision = n
  BY DEF CanonInv, Drafted
<1>3. t # s /\ artifact'[t] = artifact[t] /\ artifact[t].status = "verified"
  BY <1>1, <1>2
<1>4. SeenIsPast(t)
  BY <1>3 DEF CanonInv, Absent
<1>5. NamesCurrent(t)'
  BY <1>3 DEF VerifiedIsCurrent, NamesCurrent
<1>6. ASSUME NEW u \in artifact'[t].sources \cap Artifacts,
             artifact'[u].revision = artifact'[t].seen[u]
      PROVE  NamesCurrent(u)'
  <2>1. u # s
    <3>1. /\ artifact[u] # Absent /\ artifact[u].revision \in Nat
          /\ artifact[t].seen[u] \in Nat /\ artifact[t].seen[u] <= artifact[u].revision
      BY <1>3, <1>4, SynthesisAssumption DEF SeenIsPast, CanonInv, ArtifactRow, Revisions
    <3> QED
      BY <1>2, <1>3, <1>6, <3>1
  <2>2. artifact'[u] = artifact[u]
    BY <1>1, <2>1
  <2> QED
    BY <1>3, <1>6, <2>2 DEF VerifiedIsCurrent, NamesCurrent
<1> QED
  BY <1>5, <1>6

(* The lint of verify looks at every source.                               *)
LEMMA VerifyStaysCurrent ==
  ASSUME CanonInv, VerifiedIsCurrent, NEW s \in Artifacts, Verify(s)
  PROVE  VerifiedIsCurrent'
<1>1. /\ artifact[s].status = "draft" /\ SoundIn(Served, s)
      /\ artifact' = [artifact EXCEPT ![s].status = "verified"]
      /\ memory' = memory
  BY DEF Verify, Sound
<1>2. artifact[s] # Absent /\ artifact[s] \in ArtifactRow
  BY <1>1, PresentRow
<1>3. \A t \in Artifacts : /\ artifact'[t].revision = artifact[t].revision
                           /\ artifact'[t].sources = artifact[t].sources
                           /\ artifact'[t].seen = artifact[t].seen
                           /\ t # s => artifact'[t] = artifact[t]
  BY <1>1, <1>2 DEF CanonInv, ArtifactRow
<1>4. \A t \in Artifacts : NamesCurrent(t)' <=> NamesCurrent(t)
  BY <1>1, <1>3 DEF NamesCurrent
<1>5. \A m \in artifact[s].sources : SourceIn(Served, m, artifact[s].seen[m])
  BY <1>1 DEF SoundIn
<1>6. NamesCurrent(s)
  BY <1>5 DEF NamesCurrent, SourceIn
<1>7. \A t \in artifact[s].sources \cap Artifacts : NamesCurrent(t)
  <2> TAKE t \in artifact[s].sources \cap Artifacts
  <2>1. t \in Served
    BY <1>5, SynthesisAssumption DEF SourceIn
  <2> QED
    BY <2>1, ServedIsVerified DEF VerifiedIsCurrent
<1> SUFFICES ASSUME NEW t \in Artifacts, artifact'[t].status = "verified"
             PROVE  /\ NamesCurrent(t)'
                    /\ \A u \in artifact'[t].sources \cap Artifacts :
                         artifact'[u].revision = artifact'[t].seen[u] => NamesCurrent(u)'
  BY DEF VerifiedIsCurrent
<1>8. CASE t = s
  BY <1>3, <1>4, <1>6, <1>7, <1>8
<1>9. CASE t # s
  BY <1>3, <1>4, <1>9 DEF VerifiedIsCurrent
<1> QED
  BY <1>8, <1>9

-----------------------------------------------------------------------------
(* Every step of the store keeps its rows in order, keeps what is verified *)
(* current, and advances memory_version when it writes a canonical row.    *)
CanonKept == UNCHANGED <<memory, artifact, edges, version>>

StoreStep ==
  /\ SynInv'
  /\ VerifiedIsCurrent'
  /\ CanonKept \/ (version' = version + 1 /\ reader' = reader)

LEMMA KeptCanon ==
  ASSUME CanonInv, VerifiedIsCurrent, CanonKept, outbox' = outbox
  PROVE  CanonInv' /\ VerifiedIsCurrent'
<1>1. CanonInv'
  BY DEF CanonInv, CanonKept, SeenIsPast
<1>2. VerifiedIsCurrent'
  BY DEF CanonKept, VerifiedIsCurrent, NamesCurrent
<1> QED
  BY <1>1, <1>2

LEMMA MutateStep ==
  ASSUME SynInv, VerifiedIsCurrent, NEW m \in Editable, NEW peers \in SUBSET Peers,
         (\E h \in Hashes : ReplaceContent(m, h, peers)) \/ MarkUnavailable(m, peers)
  PROVE  StoreStep
<1>1. m \in Ordinary
  BY SynthesisAssumption
<1>2. \E row \in [hash : Hashes, available : BOOLEAN], action \in {"upsert", "delete"} :
         Mutate(m, row, action, peers, DependentsOf(m))
  <2>1. CASE \E h \in Hashes : ReplaceContent(m, h, peers)
    BY <2>1 DEF ReplaceContent
  <2>2. CASE MarkUnavailable(m, peers)
    <3>1. [memory[m] EXCEPT !.available = FALSE] \in [hash : Hashes, available : BOOLEAN]
      BY <1>1 DEF SynInv, CanonInv
    <3> QED
      BY <2>2, <3>1 DEF MarkUnavailable
  <2> QED
    BY <2>1, <2>2
<1>3. PICK row \in [hash : Hashes, available : BOOLEAN], action \in {"upsert", "delete"} :
         Mutate(m, row, action, peers, DependentsOf(m))
  BY <1>2
<1>4. CanonInv' /\ VerifiedIsCurrent'
  BY <1>1, <1>3, MutateType, MutateStaysCurrent DEF SynInv
<1>5. scan' = scan /\ reader' = reader /\ version' = version + 1
  BY <1>3 DEF Mutate, Bump
<1> QED
  BY <1>4, <1>5 DEF StoreStep, SynInv, ScanInv

LEMMA DraftingStep ==
  ASSUME SynInv, VerifiedIsCurrent, NEW s \in Artifacts, NEW S \in Recipes,
         CreateDraft(s, S) \/ Refresh(s, S)
  PROVE  StoreStep
<1>1. CASE CreateDraft(s, S)
  <2>1. CanonInv' /\ VerifiedIsCurrent'
    BY <1>1, CreateDraftType, DraftStaysCurrent DEF SynInv, CreateDraft
  <2>2. scan' = scan /\ reader' = reader /\ version' = version + 1
    BY <1>1 DEF CreateDraft, Bump
  <2> QED
    BY <2>1, <2>2 DEF StoreStep, SynInv, ScanInv
<1>2. CASE Refresh(s, S)
  <2>1. artifact[s].revision \in Nat
    BY <1>2, PresentRow, SynthesisAssumption DEF SynInv, Refresh, ArtifactRow, Revisions
  <2>2. /\ artifact[s].revision + 1 \in Nat /\ artifact[s].revision + 1 > artifact[s].revision
        /\ artifact' = [artifact EXCEPT ![s] = Drafted(S, artifact[s].revision + 1)]
        /\ memory' = memory
    BY <1>2, <2>1 DEF Refresh
  <2>3. CanonInv' /\ VerifiedIsCurrent'
    BY <1>2, <2>2, RefreshType, DraftStaysCurrent DEF SynInv
  <2>4. scan' = scan /\ reader' = reader /\ version' = version + 1
    BY <1>2 DEF Refresh, Bump
  <2> QED
    BY <2>3, <2>4 DEF StoreStep, SynInv, ScanInv
<1> QED
  BY <1>1, <1>2

LEMMA BlockedCanon ==
  ASSUME CanonInv, VerifiedIsCurrent, NEW s \in Artifacts,
         NEW st \in {"contested", "stale"}, NEW allowed \in SUBSET {"draft", "verified"},
         MarkBlocked(s, st, allowed), UNCHANGED <<memory, edges>>
  PROVE  CanonInv' /\ VerifiedIsCurrent' /\ version' = version + 1
<1>1. /\ artifact[s].status # "absent" /\ st \in Statuses /\ Bump
      /\ artifact' = [artifact EXCEPT ![s].status = st]
      /\ outbox' = outbox \cup Publish(s, "delete", artifact[s].revision)
  BY DEF MarkBlocked, Statuses
<1>2. CanonInv' /\ \A t \in Artifacts : artifact[t] # Absent => SameText(t)
  BY <1>1, StatusType
<1>3. ASSUME NEW t \in Artifacts, artifact'[t].status = "verified"
      PROVE  artifact[t].status = "verified"
  <2>1. artifact[s] \in ArtifactRow
    BY <1>1, PresentRow
  <2>2. artifact'[s].status = st
    BY <1>1, <2>1 DEF CanonInv, ArtifactRow
  <2> QED
    BY <1>1, <1>3, <2>2 DEF CanonInv
<1> QED
  BY <1>1, <1>2, <1>3, QuietStaysCurrent DEF Bump

LEMMA LifecycleStep ==
  ASSUME SynInv, VerifiedIsCurrent, NEW s \in Artifacts,
         Verify(s) \/ MarkContested(s) \/ ScanLint(s)
  PROVE  StoreStep
<1>1. CASE Verify(s)
  <2>1. CanonInv'
    <3>1. /\ artifact[s].status # "absent" /\ "verified" \in Statuses /\ Bump
          /\ artifact' = [artifact EXCEPT ![s].status = "verified"]
          /\ outbox' = outbox \cup Publish(s, "upsert", artifact[s].revision)
          /\ UNCHANGED <<memory, edges>>
      BY <1>1 DEF Verify, Statuses
    <3> QED
      BY <3>1, StatusType DEF SynInv
  <2>2. VerifiedIsCurrent'
    BY <1>1, VerifyStaysCurrent DEF SynInv
  <2>3. scan' = scan /\ reader' = reader /\ version' = version + 1
    BY <1>1 DEF Verify, Bump
  <2> QED
    BY <2>1, <2>2, <2>3 DEF StoreStep, SynInv, ScanInv
<1>2. CASE MarkContested(s)
  <2>1. CanonInv' /\ VerifiedIsCurrent' /\ version' = version + 1
    BY <1>2, BlockedCanon DEF SynInv, MarkContested
  <2>2. scan' = scan /\ reader' = reader
    BY <1>2 DEF MarkContested
  <2> QED
    BY <2>1, <2>2 DEF StoreStep, SynInv, ScanInv
<1>3. CASE ScanLint(s)
  <2>1. CanonKept /\ outbox' = outbox /\ reader' = reader
    BY <1>3 DEF ScanLint, CanonKept, canonVars
  <2>2. artifact[s].revision \in Revisions
    BY <1>3, PresentRow DEF SynInv, ScanLint, ArtifactRow
  <2>3. ScanInv'
    BY <1>3, <2>2 DEF ScanLint, ScanInv
  <2> QED
    BY <2>1, <2>3, KeptCanon DEF StoreStep, SynInv
<1> QED
  BY <1>1, <1>2, <1>3

LEMMA EdgeStep ==
  ASSUME SynInv, VerifiedIsCurrent,
         \/ \E relation \in {"contradicts", "supersedes"}, m \in Disputable : OpenEdge(relation, m)
         \/ \E e \in edges : CloseEdge(e)
  PROVE  StoreStep
<1>1. /\ Bump /\ UNCHANGED <<memory, artifact, outbox, scan, reader>>
      /\ edges' \subseteq {"contradicts", "supersedes"} \X Disputable
  <2>1. edges \subseteq {"contradicts", "supersedes"} \X Disputable
    BY DEF SynInv, CanonInv
  <2>2. ASSUME NEW relation \in {"contradicts", "supersedes"}, NEW m \in Disputable,
               OpenEdge(relation, m)
        PROVE  /\ Bump /\ UNCHANGED <<memory, artifact, outbox, scan, reader>>
               /\ edges' \subseteq {"contradicts", "supersedes"} \X Disputable
    <3>1. <<relation, m>> \in {"contradicts", "supersedes"} \X Disputable
      OBVIOUS
    <3>2. /\ Bump /\ UNCHANGED <<memory, artifact, outbox, scan, reader>>
          /\ edges' = edges \cup {<<relation, m>>}
      BY <2>2 DEF OpenEdge
    <3> QED
      BY <2>1, <3>1, <3>2
  <2>3. ASSUME NEW e \in edges, CloseEdge(e)
        PROVE  /\ Bump /\ UNCHANGED <<memory, artifact, outbox, scan, reader>>
               /\ edges' \subseteq {"contradicts", "supersedes"} \X Disputable
    BY <2>1, <2>3 DEF CloseEdge
  <2> QED
    BY <2>2, <2>3
<1>2. version' = version + 1 /\ version' \in 0..MaxVersion /\ version' >= version
  BY <1>1, BumpType DEF SynInv, CanonInv
<1>3. \A s \in Artifacts : artifact[s] # Absent => SeenIsPast(s)'
  BY <1>1, <1>2, SynthesisAssumption DEF SynInv, CanonInv, SeenIsPast, ArtifactRow, Revisions
<1>4. CanonInv'
  BY <1>1, <1>2, <1>3 DEF SynInv, CanonInv
<1>5. VerifiedIsCurrent'
  BY <1>1 DEF VerifiedIsCurrent, NamesCurrent
<1> QED
  BY <1>1, <1>2, <1>4, <1>5 DEF StoreStep, SynInv, ScanInv

LEMMA ScanStep ==
  ASSUME SynInv, VerifiedIsCurrent, ScanMark \/ ScanDrop
  PROVE  StoreStep
<1>1. CASE ScanMark
  <2>1. scan.id \in Artifacts /\ scan.status \in {"contested", "stale"}
    BY <1>1 DEF SynInv, ScanInv, ScanMark, Idle
  <2>2. CanonInv' /\ VerifiedIsCurrent' /\ version' = version + 1
    BY <1>1, <2>1, BlockedCanon DEF SynInv, ScanMark
  <2>3. scan' = Idle /\ reader' = reader
    BY <1>1 DEF ScanMark
  <2> QED
    BY <2>2, <2>3 DEF StoreStep, SynInv, ScanInv
<1>2. CASE ScanDrop
  <2>1. CanonKept /\ outbox' = outbox /\ reader' = reader /\ scan' = Idle
    BY <1>2 DEF ScanDrop, CanonKept, canonVars
  <2> QED
    BY <2>1, KeptCanon DEF StoreStep, SynInv, ScanInv
<1> QED
  BY <1>1, <1>2

LEMMA GateType ==
  ASSUME SynInv, VerifiedIsCurrent, NEW q \in Readers,
         \/ \E s \in Artifacts : GateOpen(q, s)
         \/ \E m \in Memories : GateSource(q, m)
         \/ GateClose(q) \/ GateAnswer(q)
  PROVE  StoreStep /\ CanonKept
<1>1. CanonKept /\ outbox' = outbox /\ scan' = scan
  BY DEF GateOpen, GateSource, GateClose, GateAnswer, CanonKept, canonVars
<1>2. reader[q] \in ReaderRow
  BY DEF SynInv
<1>3. reader' \in [Readers -> ReaderRow]
  <2>1. ASSUME NEW s \in Artifacts, GateOpen(q, s)
        PROVE  reader' \in [Readers -> ReaderRow]
    <3>1. artifact[s] \in ArtifactRow /\ version \in 0..MaxVersion
      BY <2>1, PresentRow DEF SynInv, CanonInv, GateOpen
    <3>2. artifact[s].sources \subseteq Memories
      BY <3>1, SynthesisAssumption DEF ArtifactRow, Memories
    <3>3. [phase |-> "reading", id |-> s, version |-> version,
           row |-> artifact[s], todo |-> artifact[s].sources] \in ReaderRow
      BY <3>1, <3>2 DEF ReaderRow
    <3> QED
      BY <2>1, <3>3 DEF SynInv, GateOpen
  <2>2. ASSUME NEW m \in Memories, GateSource(q, m)
        PROVE  reader' \in [Readers -> ReaderRow]
    <3>1. reader[q] \in [phase : {"reading"}, id : Artifacts, version : 0..MaxVersion,
                         row : ArtifactRow, todo : SUBSET Memories]
      BY <1>2, <2>2 DEF ReaderRow, GateSource, Idle
    <3>2. [reader[q] EXCEPT !.todo = @ \ {m}] \in ReaderRow
      BY <3>1 DEF ReaderRow
    <3>3. Idle \in ReaderRow
      BY DEF ReaderRow
    <3> QED
      BY <2>2, <3>2, <3>3 DEF SynInv, GateSource
  <2>3. CASE GateClose(q)
    <3>1. reader[q].id \in Artifacts
      BY <1>2, <2>3 DEF ReaderRow, GateClose, Idle
    <3>2. [phase |-> "admitted", id |-> reader[q].id] \in ReaderRow /\ Idle \in ReaderRow
      BY <3>1 DEF ReaderRow
    <3> QED
      BY <2>3, <3>2 DEF SynInv, GateClose
  <2>4. CASE GateAnswer(q)
    <3>1. Idle \in ReaderRow
      BY DEF ReaderRow
    <3> QED
      BY <2>4, <3>1 DEF SynInv, GateAnswer
  <2> QED
    BY <2>1, <2>2, <2>3, <2>4
<1> QED
  BY <1>1, <1>3, KeptCanon DEF StoreStep, SynInv, ScanInv

LEMMA StoreSteps ==
  ASSUME SynInv, VerifiedIsCurrent, SynNext \/ UNCHANGED synVars
  PROVE  StoreStep
<1>1. ASSUME NEW m \in Editable, NEW peers \in SUBSET Peers,
             (\E h \in Hashes : ReplaceContent(m, h, peers)) \/ MarkUnavailable(m, peers)
      PROVE  StoreStep
  BY <1>1, MutateStep
<1>2. ASSUME NEW s \in Artifacts, NEW S \in Recipes, CreateDraft(s, S) \/ Refresh(s, S)
      PROVE  StoreStep
  BY <1>2, DraftingStep
<1>3. ASSUME NEW s \in Artifacts, Verify(s) \/ MarkContested(s) \/ ScanLint(s)
      PROVE  StoreStep
  BY <1>3, LifecycleStep
<1>4. ASSUME \/ \E relation \in {"contradicts", "supersedes"}, m \in Disputable : OpenEdge(relation, m)
             \/ \E e \in edges : CloseEdge(e)
      PROVE  StoreStep
  BY <1>4, EdgeStep
<1>5. ASSUME ScanMark \/ ScanDrop
      PROVE  StoreStep
  BY <1>5, ScanStep
<1>6. ASSUME NEW q \in Readers,
             \/ \E s \in Artifacts : GateOpen(q, s)
             \/ \E m \in Memories : GateSource(q, m)
             \/ GateClose(q) \/ GateAnswer(q)
      PROVE  StoreStep
  BY <1>6, GateType
<1>7. CASE UNCHANGED synVars
  <2>1. CanonKept /\ outbox' = outbox /\ scan' = scan /\ reader' = reader
    BY <1>7 DEF synVars, canonVars, CanonKept
  <2> QED
    BY <2>1, KeptCanon DEF StoreStep, SynInv, ScanInv
<1>8. CASE SynNext
  BY <1>1, <1>2, <1>3, <1>4, <1>5, <1>6, <1>8 DEF SynNext
<1> QED
  BY <1>7, <1>8

-----------------------------------------------------------------------------
(* What a gate has read holds as long as memory_version is what it was     *)
(* when the gate was opened.                                               *)
GateHolds(q) ==
  /\ reader[q].version <= version
  /\ reader[q].version = version =>
       /\ artifact[reader[q].id] = reader[q].row
       /\ reader[q].row.status = "verified"
       /\ \A m \in reader[q].row.sources \ reader[q].todo :
            SourceIn(Served, m, reader[q].row.seen[m])

GateInv == \A q \in Readers : reader[q].phase = "reading" => GateHolds(q)

LEMMA KeptServed ==
  ASSUME CanonKept
  PROVE  Served' = Served
BY DEF CanonKept, Served, SoundIn, SourceIn, Superseded, Contradicted

LEMMA GateStep ==
  ASSUME SynInv, VerifiedIsCurrent, GateInv, SynNext \/ UNCHANGED synVars
  PROVE  GateInv'
<1>1. StoreStep
  BY StoreSteps
<1>2. CASE version' = version + 1 /\ reader' = reader
  <2>1. version \in Nat
    BY SynthesisAssumption DEF SynInv, CanonInv
  <2>2. \A q \in Readers : reader[q].phase = "reading" => reader[q].version \in Nat
    BY SynthesisAssumption DEF SynInv, ReaderRow, Idle
  <2> QED
    BY <1>2, <2>1, <2>2 DEF GateInv, GateHolds
<1>3. CASE CanonKept
  <2>1. version' = version /\ artifact' = artifact
    BY <1>3 DEF CanonKept
  <2> SUFFICES ASSUME NEW q \in Readers, reader'[q].phase = "reading"
               PROVE  GateHolds(q)'
    BY DEF GateInv
  <2>0. Served' = Served /\ memory' = memory
    BY <1>3, KeptServed DEF CanonKept
  <2>3. CASE reader'[q] = reader[q]
    <3>1. GateHolds(q)
      BY <2>3 DEF GateInv
    <3> QED
      BY <2>0, <2>1, <2>3, <3>1 DEF GateHolds, SourceIn
  <2>4. ASSUME NEW s \in Artifacts, GateOpen(q, s)
        PROVE  GateHolds(q)'
    <3>1. reader'[q] = [phase |-> "reading", id |-> s, version |-> version,
                        row |-> artifact[s], todo |-> artifact[s].sources]
      BY <2>4 DEF GateOpen, SynInv
    <3>2. artifact[s].status = "verified" /\ version \in Nat
      BY <2>4, SynthesisAssumption DEF GateOpen, SynInv, CanonInv
    <3> QED
      BY <2>1, <3>1, <3>2 DEF GateHolds
  <2>5. ASSUME NEW m \in Memories, GateSource(q, m)
        PROVE  GateHolds(q)'
    <3>1. /\ reader[q].phase = "reading"
          /\ reader'[q] = IF SourceIn(Served, m, reader[q].row.seen[m])
                          THEN [reader[q] EXCEPT !.todo = @ \ {m}] ELSE Idle
      BY <2>5 DEF GateSource, SynInv
    <3>2. SourceIn(Served, m, reader[q].row.seen[m])
      BY <3>1 DEF Idle
    <3>3. reader[q] \in [phase : {"reading"}, id : Artifacts, version : 0..MaxVersion,
                         row : ArtifactRow, todo : SUBSET Memories]
      BY <3>1 DEF SynInv, ReaderRow, Idle
    <3>4. reader'[q] = [reader[q] EXCEPT !.todo = reader[q].todo \ {m}]
      BY <3>1, <3>2
    <3>5. /\ reader'[q].version = reader[q].version /\ reader'[q].id = reader[q].id
          /\ reader'[q].row = reader[q].row
          /\ reader'[q].todo = reader[q].todo \ {m}
      BY <3>3, <3>4
    <3>6. GateHolds(q)
      BY <3>1 DEF GateInv
    <3> QED
      BY <2>0, <2>1, <3>2, <3>5, <3>6 DEF GateHolds, SourceIn
  <2>6. ASSUME NEW p \in Readers,
               \/ \E s \in Artifacts : GateOpen(p, s)
               \/ \E m \in Memories : GateSource(p, m)
               \/ GateClose(p) \/ GateAnswer(p)
        PROVE  \/ reader'[q] = reader[q]
               \/ \E s \in Artifacts : GateOpen(q, s)
               \/ \E m \in Memories : GateSource(q, m)
    <3>1. CASE p # q
      BY <2>6, <3>1 DEF GateOpen, GateSource, GateClose, GateAnswer, SynInv
    <3>2. CASE p = q
      <4>1. ~GateClose(q) /\ ~GateAnswer(q)
        BY DEF GateClose, GateAnswer, SynInv, Idle
      <4> QED
        BY <2>6, <3>2, <4>1
    <3> QED
      BY <3>1, <3>2
  <2>7. CASE UNCHANGED synVars
    BY <2>3, <2>7 DEF synVars
  <2>8. CASE reader' = reader
    BY <2>3, <2>8
  <2>9. reader' = reader \/ \E p \in Readers :
               \/ \E s \in Artifacts : GateOpen(p, s)
               \/ \E m \in Memories : GateSource(p, m)
               \/ GateClose(p) \/ GateAnswer(p)
    BY DEF SynNext, ReplaceContent, MarkUnavailable, Mutate, CreateDraft, Refresh, Verify,
           MarkContested, ScanLint, OpenEdge, CloseEdge, ScanMark, ScanDrop, synVars
  <2> QED
    BY <2>3, <2>4, <2>5, <2>6, <2>8, <2>9
<1> QED
  BY <1>1, <1>2, <1>3 DEF StoreStep

LEMMA AdmissionIsServed ==
  ASSUME SynInv, VerifiedIsCurrent, GateInv, SynNext \/ UNCHANGED synVars,
         NEW q \in Readers, reader[q].phase # "admitted", reader'[q].phase = "admitted"
  PROVE  reader[q].id \in Served
<1>1. GateClose(q)
  <2>1. reader' # reader
    OBVIOUS
  <2>2. \E p \in Readers : \/ \E s \in Artifacts : GateOpen(p, s)
                           \/ \E m \in Memories : GateSource(p, m)
                           \/ GateClose(p) \/ GateAnswer(p)
    BY <2>1 DEF SynNext, ReplaceContent, MarkUnavailable, Mutate, CreateDraft, Refresh, Verify,
           MarkContested, ScanLint, OpenEdge, CloseEdge, ScanMark, ScanDrop, synVars
  <2>3. PICK p \in Readers : \/ \E s \in Artifacts : GateOpen(p, s)
                             \/ \E m \in Memories : GateSource(p, m)
                             \/ GateClose(p) \/ GateAnswer(p)
    BY <2>2
  <2>4. p = q
    BY <2>1, <2>3 DEF GateOpen, GateSource, GateClose, GateAnswer, SynInv
  <2>5. ~GateAnswer(q)
    BY DEF GateAnswer, SynInv, Idle
  <2>6. \A s \in Artifacts : ~GateOpen(q, s)
    BY DEF GateOpen, SynInv
  <2>7. ASSUME NEW m \in Memories, GateSource(q, m)
        PROVE  FALSE
    <3>1. /\ reader[q].phase = "reading"
          /\ reader'[q] = IF SourceIn(Served, m, reader[q].row.seen[m])
                          THEN [reader[q] EXCEPT !.todo = @ \ {m}] ELSE Idle
      BY <2>7 DEF GateSource, SynInv
    <3>2. reader[q] \in [phase : {"reading"}, id : Artifacts, version : 0..MaxVersion,
                         row : ArtifactRow, todo : SUBSET Memories]
      BY <3>1 DEF SynInv, ReaderRow, Idle
    <3>3. [reader[q] EXCEPT !.todo = @ \ {m}].phase = "reading"
      BY <3>2
    <3> QED
      BY <3>1, <3>3 DEF Idle
  <2> QED
    BY <2>3, <2>4, <2>5, <2>6, <2>7
<1>2. GatePasses(q) /\ reader[q].phase = "reading" /\ reader[q].todo = {}
  BY <1>1 DEF GateClose, SynInv, Idle
<1>3. /\ reader[q].id \in Artifacts
      /\ artifact[reader[q].id] = reader[q].row
      /\ reader[q].row.status = "verified"
      /\ \A m \in reader[q].row.sources : SourceIn(Served, m, reader[q].row.seen[m])
  <2>1. reader[q].id \in Artifacts
    BY <1>2 DEF SynInv, ReaderRow, Idle
  <2> QED
    BY <1>2, <2>1 DEF GateInv, GateHolds, GatePasses
<1>4. SoundIn(Served, reader[q].id)
  BY <1>2, <1>3 DEF GatePasses, SoundIn
<1> QED
  BY <1>3, <1>4, ServedIsClosed

-----------------------------------------------------------------------------
(* The fusion workers.  A job that is done stays done, a lease is held by  *)
(* one worker, and a draft's text names jobs that are done.                *)
JobRow == [status : {"none", "queued", "leased", "done", "dead"}, owner : Workers \cup {"nobody"}]
WorkerRow == {Idle} \cup [phase : {"claimed", "fusing"}, batch : SUBSET Jobs]

FusionInv ==
  /\ fusionJob \in [Jobs -> JobRow]
  /\ \A k \in Jobs : fusionJob[k].owner \in Workers <=> fusionJob[k].status = "leased"
  /\ worker \in [Workers -> WorkerRow]
  /\ text \in [Artifacts -> SUBSET Jobs]
  /\ FusedDraftHasReceipts

(* Jobs that are not done are settled; nothing else changes.               *)
LEMMA SettledJobs ==
  ASSUME FusionInv, NEW batch \in SUBSET Jobs,
         NEW status \in {"queued", "done", "dead"},
         fusionJob' = Settled(batch, status),
         \A k \in batch : fusionJob[k].status = "done" => status = "done"
  PROVE  /\ fusionJob' \in [Jobs -> JobRow]
         /\ \A k \in Jobs : fusionJob'[k].owner \in Workers <=> fusionJob'[k].status = "leased"
         /\ \A k \in Jobs : fusionJob[k].status = "done" => fusionJob'[k].status = "done"
         /\ \A k \in batch : fusionJob'[k].status = status
<1>1. [status |-> status, owner |-> "nobody"] \in JobRow
  BY DEF JobRow
<1>2. \A k \in Jobs : fusionJob'[k] = IF k \in batch THEN [status |-> status, owner |-> "nobody"]
                                      ELSE fusionJob[k]
  BY DEF Settled
<1>3. fusionJob' \in [Jobs -> JobRow]
  BY <1>1 DEF Settled, FusionInv
<1> QED
  BY <1>2, <1>3, WorkersAssumption DEF FusionInv

LEMMA HeldJobs ==
  ASSUME FusionInv, NEW w \in Workers, worker[w] # Idle
  PROVE  /\ worker[w] \in [phase : {"claimed", "fusing"}, batch : SUBSET Jobs]
         /\ Held(w) \in SUBSET worker[w].batch
         /\ \A k \in Held(w) : fusionJob[k].status = "leased"
BY DEF FusionInv, WorkerRow, Held

LEMMA FreedWorker ==
  ASSUME FusionInv, NEW w \in Workers, Free(w)
  PROVE  worker' \in [Workers -> WorkerRow]
BY DEF FusionInv, Free, WorkerRow

LEMMA FailLeasesStep ==
  ASSUME FusionInv, NEW w \in Workers, worker[w] # Idle, NEW status \in {"queued", "dead"},
         FailLeases(w, status), text' = text
  PROVE  FusionInv'
<1>1. Held(w) \in SUBSET Jobs /\ \A k \in Held(w) : fusionJob[k].status # "done"
  BY HeldJobs
<1>2. fusionJob' = Settled(Held(w), status) /\ Free(w)
  BY DEF FailLeases
<1>3. /\ fusionJob' \in [Jobs -> JobRow]
      /\ \A k \in Jobs : fusionJob'[k].owner \in Workers <=> fusionJob'[k].status = "leased"
      /\ \A k \in Jobs : fusionJob[k].status = "done" => fusionJob'[k].status = "done"
  BY <1>1, <1>2, SettledJobs
<1> QED
  BY <1>2, <1>3, FreedWorker DEF FusionInv, FusedDraftHasReceipts

LEMMA CommitStep ==
  ASSUME FusionInv, NEW w \in Workers, NEW s \in Artifacts, NEW chunk \in SUBSET Jobs,
         Commit(w, s, chunk)
  PROVE  FusionInv'
<1>1. /\ worker[w].phase = "fusing" /\ Held(w) = worker[w].batch
      /\ chunk \subseteq worker[w].batch
      /\ text' = [text EXCEPT ![s] = chunk]
      /\ fusionJob' = Settled(Held(w), "done") /\ Free(w)
  BY DEF Commit, AllLeases
<1>2. worker[w] # Idle
  BY <1>1 DEF Idle
<1>3. Held(w) \in SUBSET Jobs
  BY <1>2, HeldJobs
<1>4. /\ fusionJob' \in [Jobs -> JobRow]
      /\ \A k \in Jobs : fusionJob'[k].owner \in Workers <=> fusionJob'[k].status = "leased"
      /\ \A k \in Jobs : fusionJob[k].status = "done" => fusionJob'[k].status = "done"
      /\ \A k \in Held(w) : fusionJob'[k].status = "done"
  BY <1>1, <1>3, SettledJobs
<1>5. text' \in [Artifacts -> SUBSET Jobs]
  BY <1>1 DEF FusionInv
<1>6. FusedDraftHasReceipts'
  BY <1>1, <1>4 DEF FusionInv, FusedDraftHasReceipts
<1> QED
  BY <1>1, <1>4, <1>5, <1>6, FreedWorker DEF FusionInv

LEMMA WorkerStep ==
  ASSUME FusionInv, NEW w \in Workers,
         \/ \E batch \in SUBSET Jobs :
              ClaimBatch(w, batch) \/ \E s \in Artifacts : Commit(w, s, batch)
         \/ LoadSources(w) \/ ProviderFails(w) \/ CommitNothing(w) \/ Rollback(w) \/ Crash(w)
  PROVE  FusionInv'
<1>1. ASSUME NEW batch \in SUBSET Jobs, ClaimBatch(w, batch)
      PROVE  FusionInv'
  <2>1. fusionJob' \in [Jobs -> JobRow]
    BY <1>1 DEF ClaimBatch, FusionInv, JobRow
  <2>2. \A k \in Jobs : /\ fusionJob'[k].owner \in Workers <=> fusionJob'[k].status = "leased"
                        /\ fusionJob[k].status = "done" => fusionJob'[k].status = "done"
    BY <1>1 DEF ClaimBatch, FusionInv
  <2>3. worker' \in [Workers -> WorkerRow]
    BY <1>1 DEF ClaimBatch, FusionInv, WorkerRow
  <2> QED
    BY <1>1, <2>1, <2>2, <2>3 DEF ClaimBatch, FusionInv, FusedDraftHasReceipts
<1>2. ASSUME NEW batch \in SUBSET Jobs, NEW s \in Artifacts, Commit(w, s, batch)
      PROVE  FusionInv'
  BY <1>2, CommitStep
<1>3. CASE LoadSources(w)
  <2>1. worker[w] # Idle /\ text' = text
    BY <1>3 DEF LoadSources, Idle
  <2>2. CASE FailLeases(w, "dead")
    BY <2>1, <2>2, FailLeasesStep
  <2>3. CASE worker' = [worker EXCEPT ![w].phase = "fusing"] /\ UNCHANGED fusionJob
    <3>1. [worker[w] EXCEPT !.phase = "fusing"] \in WorkerRow
      BY <2>1, HeldJobs DEF WorkerRow
    <3>2. worker' \in [Workers -> WorkerRow]
      BY <2>3, <3>1 DEF FusionInv
    <3> QED
      BY <2>1, <2>3, <3>2 DEF FusionInv, FusedDraftHasReceipts
  <2> QED
    BY <1>3, <2>2, <2>3 DEF LoadSources
<1>4. CASE ProviderFails(w)
  BY <1>4, FailLeasesStep DEF ProviderFails, Idle
<1>5. CASE Rollback(w)
  BY <1>5, FailLeasesStep DEF Rollback, Idle
<1>6. CASE CommitNothing(w)
  <2>1. /\ worker[w] # Idle /\ text' = text
        /\ fusionJob' = Settled(worker[w].batch, "done") /\ Free(w)
    BY <1>6 DEF CommitNothing, Idle
  <2>2. /\ fusionJob' \in [Jobs -> JobRow]
        /\ \A k \in Jobs : fusionJob'[k].owner \in Workers <=> fusionJob'[k].status = "leased"
        /\ \A k \in Jobs : fusionJob[k].status = "done" => fusionJob'[k].status = "done"
    BY <2>1, HeldJobs, SettledJobs
  <2> QED
    BY <2>1, <2>2, FreedWorker DEF FusionInv, FusedDraftHasReceipts
<1>7. CASE Crash(w)
  BY <1>7, FreedWorker DEF Crash, FusionInv, FusedDraftHasReceipts
<1> QED
  BY <1>1, <1>2, <1>3, <1>4, <1>5, <1>6, <1>7

LEMMA FusionStep ==
  ASSUME FusionInv, SynInv, [Next]_vars
  PROVE  FusionInv'
<1>1. CASE Governed
  <2>1. \A s \in Artifacts : text'[s] \in {{}, text[s]}
    BY <1>1 DEF Governed
  <2>2. text' \in [Artifacts -> SUBSET Jobs]
    BY <1>1 DEF Governed, FusionInv
  <2>3. fusionJob' = fusionJob /\ worker' = worker
    BY <1>1 DEF Governed
  <2> QED
    BY <2>1, <2>2, <2>3 DEF FusionInv, FusedDraftHasReceipts
<1>2. ASSUME NEW m \in Ordinary, Enqueue(m)
      PROVE  FusionInv'
  <2>1. <<m, memory[m].hash>> \in Jobs
    BY DEF Jobs, SynInv, CanonInv
  <2>2. /\ fusionJob[<<m, memory[m].hash>>].status = "none"
        /\ fusionJob' = Settled({<<m, memory[m].hash>>}, "queued")
        /\ worker' = worker /\ text' = text
    BY <1>2 DEF Enqueue
  <2>3. /\ {<<m, memory[m].hash>>} \in SUBSET Jobs
        /\ \A k \in {<<m, memory[m].hash>>} : fusionJob[k].status # "done"
    BY <2>1, <2>2
  <2>4. /\ fusionJob' \in [Jobs -> JobRow]
        /\ \A k \in Jobs : fusionJob'[k].owner \in Workers <=> fusionJob'[k].status = "leased"
        /\ \A k \in Jobs : fusionJob[k].status = "done" => fusionJob'[k].status = "done"
    BY <2>2, <2>3, SettledJobs
  <2> QED
    BY <2>2, <2>4 DEF FusionInv, FusedDraftHasReceipts
<1>3. ASSUME NEW k \in Jobs, Lapse(k)
      PROVE  FusionInv'
  <2>1. fusionJob[k].status = "leased" /\ fusionJob' = Settled({k}, "queued")
        /\ worker' = worker /\ text' = text
    BY <1>3 DEF Lapse
  <2>2. {k} \in SUBSET Jobs /\ \A i \in {k} : fusionJob[i].status # "done"
    BY <2>1
  <2>3. /\ fusionJob' \in [Jobs -> JobRow]
        /\ \A i \in Jobs : fusionJob'[i].owner \in Workers <=> fusionJob'[i].status = "leased"
        /\ \A i \in Jobs : fusionJob[i].status = "done" => fusionJob'[i].status = "done"
    BY <2>1, <2>2, SettledJobs
  <2> QED
    BY <2>1, <2>3 DEF FusionInv, FusedDraftHasReceipts
<1>4. CASE UNCHANGED vars
  BY <1>4 DEF vars, fusionVars, FusionInv, FusedDraftHasReceipts
<1> QED
  BY <1>1, <1>2, <1>3, <1>4, WorkerStep DEF Next

(* To the store a step of a worker is one of its own steps, or none.       *)
LEMMA NextIsStoreStep ==
  ASSUME [Next]_vars
  PROVE  SynNext \/ UNCHANGED synVars
<1>1. ASSUME NEW w \in Workers, NEW s \in Artifacts, NEW chunk \in SUBSET Jobs, Commit(w, s, chunk)
      PROVE  SynNext
  BY <1>1 DEF Commit, SynNext
<1>2. ASSUME NEW w \in Workers, NEW batch \in SUBSET Jobs,
             \/ ClaimBatch(w, batch) \/ LoadSources(w) \/ ProviderFails(w)
             \/ CommitNothing(w) \/ Rollback(w) \/ Crash(w)
      PROVE  UNCHANGED synVars
  BY <1>2 DEF ClaimBatch, LoadSources, ProviderFails, CommitNothing, Rollback, Crash
<1>3. ASSUME (\E m \in Ordinary : Enqueue(m)) \/ (\E k \in Jobs : Lapse(k))
      PROVE  UNCHANGED synVars
  BY <1>3 DEF Enqueue, Lapse
<1>4. {} \in SUBSET Jobs
  OBVIOUS
<1> QED
  BY <1>1, <1>2, <1>3, <1>4 DEF Next, Governed, vars

-----------------------------------------------------------------------------
IInv == SynInv /\ FusionInv /\ VerifiedIsCurrent /\ GateInv

LEMMA InitInv == Init => IInv
<1> SUFFICES ASSUME Init PROVE IInv
  OBVIOUS
<1> USE DEF Init, SynInit
<1>1. (CHOOSE h \in Hashes : TRUE) \in Hashes
  BY SynthesisAssumption
<1>2. memory \in [Ordinary -> [hash : Hashes, available : BOOLEAN]]
  BY <1>1
<1>3. CanonInv
  BY <1>2, SynthesisAssumption DEF CanonInv
<1>4. ScanInv /\ reader \in [Readers -> ReaderRow] /\ GateInv
  BY DEF ScanInv, ReaderRow, GateInv, Idle
<1>5. VerifiedIsCurrent
  BY DEF VerifiedIsCurrent, Absent
<1>6. fusionJob \in [Jobs -> JobRow] /\ \A k \in Jobs : fusionJob[k] = [status |-> "none", owner |-> "nobody"]
  BY DEF JobRow
<1>7. FusionInv
  BY <1>6, WorkersAssumption DEF FusionInv, WorkerRow, FusedDraftHasReceipts
<1> QED
  BY <1>3, <1>4, <1>5, <1>7 DEF IInv, SynInv

LEMMA StepInv == IInv /\ [Next]_vars => IInv'
BY NextIsStoreStep, StoreSteps, GateStep, FusionStep DEF IInv, StoreStep

(* The conjuncts support each other in every reachable state.              *)
LEMMA Invariant == Spec => []IInv
BY InitInv, StepInv, PTL DEF Spec

-----------------------------------------------------------------------------
(* The rows of the store, the fusion jobs and the workers keep their types.*)
THEOREM TypeCorrect == Spec => []TypeOK
<1>1. IInv => TypeOK
  <2> SUFFICES ASSUME IInv PROVE TypeOK
    OBVIOUS
  <2>1. SynTypeOK
    BY DEF IInv, SynInv, CanonInv, SynTypeOK, SeenIsPast, ArtifactRow
  <2>2. \A w \in Workers : worker[w].phase \in {"idle", "claimed", "fusing"}
    BY DEF IInv, FusionInv, WorkerRow, Idle
  <2>3. \A k \in Jobs : /\ fusionJob[k].status \in {"none", "queued", "leased", "done", "dead"}
                        /\ (fusionJob[k].owner \in Workers <=> fusionJob[k].status = "leased")
    BY DEF IInv, FusionInv, JobRow
  <2> QED
    BY <2>1, <2>2, <2>3 DEF IInv, FusionInv, TypeOK
<1> QED
  BY <1>1, Invariant, PTL

(* A verified artifact names what its ordinary sources hold, and so do its *)
(* artifact sources while they are the revisions it saw: whatever is       *)
(* corrected or removed, in any order (stale_verified_dependents, verify). *)
THEOREM VerifiedStaysCurrent == Spec => []VerifiedIsCurrent
<1>1. IInv => VerifiedIsCurrent
  BY DEF IInv
<1> QED
  BY <1>1, Invariant, PTL

(* A fused draft is on disk only with the receipts of all its jobs,        *)
(* however leases lapse and move between workers (_commit_result).         *)
THEOREM DraftsHaveReceipts == Spec => []FusedDraftHasReceipts
<1>1. IInv => FusedDraftHasReceipts
  BY DEF IInv, FusionInv
<1> QED
  BY <1>1, Invariant, PTL

(* The gate admits no artifact that the canonical rows do not serve at     *)
(* that moment, although it read them one by one (evaluate_synthesis_ids). *)
THEOREM GateAdmitsServed == Spec => AdmitsOnlyServed
<1> DEFINE Admits == \A q \in Readers :
                       reader[q].phase # "admitted" /\ reader'[q].phase = "admitted"
                         => reader[q].id \in Served
<1>1. IInv /\ [Next]_vars => [Admits]_synVars
  BY NextIsStoreStep, AdmissionIsServed DEF IInv
<1>2. Spec => [][Admits]_synVars
  BY <1>1, Invariant, PTL DEF Spec
<1> QED
  BY <1>2 DEF AdmitsOnlyServed
=============================================================================

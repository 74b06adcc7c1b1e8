----------------------------- MODULE Synthesis -----------------------------
(***************************************************************************)
(* Ordinary memories, the governed synthesis artifacts derived from them,  *)
(* and the index jobs both publish, as one SQLite transaction changes them *)
(* (core/synthesis.py, core/ordinary_memory_mutation.py, the integrity     *)
(* scan of core/synthesis_maintenance.py), and the retrieval gate that     *)
(* reads them without a transaction (core/synthesis_retrieval.py).         *)
(*                                                                         *)
(* A memory's content is a hash; a snapshot of a source is the hash of an  *)
(* ordinary memory or the revision of an artifact.  Projects, visibility   *)
(* and the wording of a finding are left out.                              *)
(***************************************************************************)
EXTENDS Naturals, FiniteSets

CONSTANTS Ordinary,     \* ordinary memories
          Artifacts,    \* slots for synthesis artifacts
          Hashes,       \* contents an ordinary memory may have
          Recipes,      \* the source sets callers ask a synthesis of
          Editable,     \* ordinary memories that are corrected or removed
          Peers,        \* ordinary memories compared with an edited one
          Disputable,   \* memories a contradicts/supersedes edge may touch
          Readers,      \* concurrent retrieval gates
          MaxVersion    \* bound on memory_version

ASSUME SynthesisAssumption ==
    /\ Ordinary \cap Artifacts = {} /\ Hashes # {}
    /\ Recipes \subseteq {S \in SUBSET (Ordinary \cup Artifacts) : Cardinality(S) >= 2}
    /\ Editable \subseteq Ordinary /\ Peers \subseteq Ordinary
    /\ Disputable \subseteq Ordinary \cup Artifacts
    /\ MaxVersion \in Nat

VARIABLES memory,     \* memories: content hash and availability
          artifact,   \* synthesis_artifacts with their derived_from edges
          edges,      \* open contradicts and supersedes edges
          version,    \* memory_version
          outbox,     \* store_outbox rows that are not done
          scan,       \* the finding the integrity scan is about to act on
          reader      \* the retrieval gate of each reader

canonVars == <<memory, artifact, edges, version, outbox>>
synVars == <<canonVars, scan, reader>>

Memories == Ordinary \cup Artifacts
Revisions == 1..(MaxVersion + 1)
Statuses == {"draft", "verified", "contested", "stale"}
Absent == [status |-> "absent"]
Idle == [phase |-> "idle"]

(***************************************************************************)
(* The gate.  An artifact is sound when every source is what its edge      *)
(* observed and nothing disputes it; it is served when it is also verified *)
(* and its synthesis sources are served (a cycle of sources never is).     *)
(***************************************************************************)
Superseded == {m \in Memories : <<"supersedes", m>> \in edges}
Contradicted == {m \in Memories : <<"contradicts", m>> \in edges}

Current(m) == IF m \in Ordinary THEN memory[m].hash ELSE artifact[m].revision

SourceIn(V, m, seen) ==
    IF m \in Ordinary
    THEN memory[m].available /\ memory[m].hash = seen
    ELSE m \in V /\ artifact[m].revision = seen

SoundIn(V, s) ==
    /\ \A m \in artifact[s].sources : SourceIn(V, m, artifact[s].seen[m])
    /\ artifact[s].sources \cap Superseded = {}
    /\ (artifact[s].sources \cup {s}) \cap Contradicted = {}

Served ==
    LET Passed(V) == {s \in Artifacts : artifact[s].status = "verified" /\ SoundIn(V, s)}
    IN  {s \in Artifacts : \A V \in SUBSET Artifacts : Passed(V) \subseteq V => s \in V}

Sound(s) == SoundIn(Served, s)

\* What create_draft and refresh demand of the sources they are given.
SourcesUsable(S) ==
    /\ \A m \in S : IF m \in Ordinary THEN memory[m].available ELSE m \in Served
    /\ S \cap (Superseded \cup Contradicted) = {}

\* Faulty: only the dependents one edge away.
DirectDependentsOf(m) ==
    {t \in Artifacts : artifact[t].status = "verified" /\ m \in artifact[t].sources}

\* Every verified artifact reachable from m over derived_from edges.
DependentsOf(m) ==
    LET Sources(t) == IF artifact[t] = Absent THEN {} ELSE artifact[t].sources
        Above(D) == {t \in Artifacts : Sources(t) \cap (D \cup {m}) # {}}
        Reached == {t \in Artifacts : \A D \in SUBSET Artifacts : Above(D) \subseteq D => t \in D}
    IN  {t \in Reached : artifact[t].status = "verified"}

(***************************************************************************)
(* The outbox.  A row is bound to the embedding hash of an ordinary memory *)
(* or to the revision of an artifact; the version it was published at is   *)
(* part of an ordinary row's dedupe key.                                   *)
(***************************************************************************)
Active == {"pending", "processing"}
Job(id, action, bind) ==
    [id |-> id, version |-> version + 1, action |-> action, bind |-> bind,
     status |-> "pending", tries |-> 0, owner |-> "nobody"]

\* enqueue_synthesis_index_job: one active row per artifact, revision and action.
Publish(s, action, revision) ==
    IF \E j \in outbox : /\ j.id = s /\ j.action = action /\ j.bind = revision
                         /\ j.status \in Active
    THEN {}
    ELSE {Job(s, action, revision)}

Bump == version < MaxVersion /\ version' = version + 1

-----------------------------------------------------------------------------
(***************************************************************************)
(* Ordinary sources.  One transaction patches the row and the peers it was *)
(* compared with, stales the dependents, advances memory_version and       *)
(* publishes every index job.                                              *)
(***************************************************************************)
Mutate(m, row, action, peers, staled) ==
    /\ Bump
    /\ \A p \in peers : memory[p].available
    /\ memory' = [memory EXCEPT ![m] = row]
    /\ artifact' = [t \in Artifacts |-> IF t \in staled
                                        THEN [artifact[t] EXCEPT !.status = "stale"]
                                        ELSE artifact[t]]
    /\ outbox' = outbox \cup {Job(m, action, row.hash)}
                        \cup {Job(p, "upsert", memory[p].hash) : p \in peers}
                        \cup UNION {Publish(t, "delete", artifact[t].revision) : t \in staled}
    /\ UNCHANGED <<edges, scan, reader>>

\* A correction restores an unavailable source.
ReplaceContent(m, h, peers) ==
    Mutate(m, [hash |-> h, available |-> TRUE], "upsert", peers, DependentsOf(m))

MarkUnavailable(m, peers) ==
    Mutate(m, [memory[m] EXCEPT !.available = FALSE], "delete", peers, DependentsOf(m))

-----------------------------------------------------------------------------
(***************************************************************************)
(* The lifecycle of an artifact.                                           *)
(***************************************************************************)
Drafted(S, revision) ==
    [status |-> "draft", revision |-> revision, sources |-> S,
     seen |-> [m \in S |-> Current(m)]]

CreateDraft(s, S) ==
    /\ artifact[s] = Absent
    /\ SourcesUsable(S)
    /\ Bump
    /\ artifact' = [artifact EXCEPT ![s] = Drafted(S, 1)]
    /\ UNCHANGED <<memory, edges, outbox, scan, reader>>

Verify(s) ==
    /\ artifact[s].status = "draft"
    /\ Sound(s)
    /\ Bump
    /\ artifact' = [artifact EXCEPT ![s].status = "verified"]
    /\ outbox' = outbox \cup Publish(s, "upsert", artifact[s].revision)
    /\ UNCHANGED <<memory, edges, scan, reader>>

\* Faulty: the transition publishes no index job.
MarkBlockedSilently(s, status, allowed) ==
    /\ artifact[s].status \in allowed
    /\ Bump
    /\ artifact' = [artifact EXCEPT ![s].status = status]
    /\ UNCHANGED outbox

MarkBlocked(s, status, allowed) ==
    /\ artifact[s].status \in allowed
    /\ Bump
    /\ artifact' = [artifact EXCEPT ![s].status = status]
    /\ outbox' = outbox \cup Publish(s, "delete", artifact[s].revision)

MarkContested(s) ==
    /\ MarkBlocked(s, "contested", {"draft", "verified"})
    /\ UNCHANGED <<memory, edges, scan, reader>>

Refresh(s, S) ==
    /\ artifact[s].status \in {"stale", "contested"}
    /\ SourcesUsable(S)
    /\ Bump
    /\ artifact' = [artifact EXCEPT ![s] = Drafted(S, artifact[s].revision + 1)]
    /\ outbox' = outbox \cup Publish(s, "delete", artifact[s].revision)
    /\ UNCHANGED <<memory, edges, scan, reader>>

\* Graph writes advance memory_version and publish nothing.
OpenEdge(relation, m) ==
    /\ <<relation, m>> \notin edges
    /\ Bump
    /\ edges' = edges \cup {<<relation, m>>}
    /\ UNCHANGED <<memory, artifact, outbox, scan, reader>>

CloseEdge(e) ==
    /\ e \in edges
    /\ Bump
    /\ edges' = edges \ {e}
    /\ UNCHANGED <<memory, artifact, outbox, scan, reader>>

(***************************************************************************)
(* The integrity scan lints a verified artifact outside its transaction    *)
(* and then moves it, if status and revision are still those it linted.    *)
(***************************************************************************)
ScanLint(s) ==
    /\ scan = Idle
    /\ artifact[s].status = "verified"
    /\ ~Sound(s)
    /\ scan' = [phase |-> "found", id |-> s, revision |-> artifact[s].revision,
                status |-> IF (artifact[s].sources \cup {s}) \cap Contradicted # {}
                           THEN "contested" ELSE "stale"]
    /\ UNCHANGED <<canonVars, reader>>

ScanMark ==
    /\ scan.phase = "found"
    /\ artifact[scan.id].revision = scan.revision
    /\ MarkBlocked(scan.id, scan.status, {"verified"})
    /\ scan' = Idle
    /\ UNCHANGED <<memory, edges, reader>>

\* The transition is refused or the scanning process ends.
ScanDrop ==
    /\ scan.phase = "found"
    /\ scan' = Idle
    /\ UNCHANGED <<canonVars, reader>>

-----------------------------------------------------------------------------
(***************************************************************************)
(* evaluate_synthesis_ids: the version is read, then the control row, then *)
(* the sources one by one, then the edges and the version again.           *)
(***************************************************************************)
GateOpen(q, s) ==
    /\ reader[q] = Idle
    /\ artifact[s].status = "verified"
    /\ reader' = [reader EXCEPT ![q] =
                   [phase |-> "reading", id |-> s, version |-> version,
                    row |-> artifact[s], todo |-> artifact[s].sources]]
    /\ UNCHANGED <<canonVars, scan>>

GateSource(q, m) ==
    /\ reader[q].phase = "reading"
    /\ m \in reader[q].todo
    /\ reader' = [reader EXCEPT ![q] =
                   IF SourceIn(Served, m, reader[q].row.seen[m])
                   THEN [reader[q] EXCEPT !.todo = @ \ {m}]
                   ELSE Idle]
    /\ UNCHANGED <<canonVars, scan>>

\* Faulty: the version is not read again.
UnversionedGate(q) ==
    /\ reader[q].row.sources \cap Superseded = {}
    /\ (reader[q].row.sources \cup {reader[q].id}) \cap Contradicted = {}

GatePasses(q) ==
    /\ reader[q].row.sources \cap Superseded = {}
    /\ (reader[q].row.sources \cup {reader[q].id}) \cap Contradicted = {}
    /\ version = reader[q].version

GateClose(q) ==
    /\ reader[q].phase = "reading"
    /\ reader[q].todo = {}
    /\ reader' = [reader EXCEPT ![q] =
                   IF GatePasses(q) THEN [phase |-> "admitted", id |-> reader[q].id] ELSE Idle]
    /\ UNCHANGED <<canonVars, scan>>

GateAnswer(q) ==
    /\ reader[q].phase = "admitted"
    /\ reader' = [reader EXCEPT ![q] = Idle]
    /\ UNCHANGED <<canonVars, scan>>

-----------------------------------------------------------------------------
SynInit ==
    /\ memory \in [Ordinary -> [hash : {CHOOSE h \in Hashes : TRUE}, available : {TRUE}]]
    /\ artifact = [s \in Artifacts |-> Absent]
    /\ edges = {}
    /\ version = 0
    /\ outbox = {}
    /\ scan = Idle
    /\ reader = [q \in Readers |-> Idle]

SynNext ==
    \/ \E m \in Editable, peers \in SUBSET Peers :
         /\ m \notin peers
         /\ \/ \E h \in Hashes : ReplaceContent(m, h, peers)
            \/ MarkUnavailable(m, peers)
    \/ \E s \in Artifacts, S \in Recipes : CreateDraft(s, S) \/ Refresh(s, S)
    \/ \E s \in Artifacts : Verify(s) \/ MarkContested(s) \/ ScanLint(s)
    \/ \E relation \in {"contradicts", "supersedes"}, m \in Disputable : OpenEdge(relation, m)
    \/ \E e \in edges : CloseEdge(e)
    \/ ScanMark \/ ScanDrop
    \/ \E q \in Readers : \/ \E s \in Artifacts : GateOpen(q, s)
                          \/ \E m \in Memories : GateSource(q, m)
                          \/ GateClose(q) \/ GateAnswer(q)

-----------------------------------------------------------------------------
SynTypeOK ==
    /\ memory \in [Ordinary -> [hash : Hashes, available : BOOLEAN]]
    /\ \A s \in Artifacts :
         artifact[s] # Absent =>
           /\ artifact[s].status \in Statuses
           /\ artifact[s].revision \in Revisions
           /\ artifact[s].sources \in Recipes
           /\ DOMAIN artifact[s].seen = artifact[s].sources
    /\ edges \subseteq {"contradicts", "supersedes"} \X Disputable
    /\ version \in 0..MaxVersion
    /\ \A j \in outbox : j.id \in Memories /\ j.version \in 1..MaxVersion

\* A verified artifact names what its ordinary sources hold now, and as long as
\* its artifact sources are the revisions it saw, so do they, whatever became of
\* their own status: a correction or a removal stales every verified dependent in
\* its own transaction, at any depth, and a draft overtaken by one cannot be
\* verified (stale_verified_dependents, verify's lint).
NamesCurrent(s) ==
    \A o \in artifact[s].sources \cap Ordinary :
        memory[o].available /\ memory[o].hash = artifact[s].seen[o]

VerifiedIsCurrent ==
    \A s \in Artifacts : artifact[s].status = "verified" =>
        /\ NamesCurrent(s)
        /\ \A t \in artifact[s].sources \cap Artifacts :
              artifact[t].revision = artifact[s].seen[t] => NamesCurrent(t)

\* A synthesis the gate admits is served by the canonical rows at the moment
\* of admission, although its rows were read one by one while others wrote
\* (the version check of evaluate_synthesis_ids).
AdmitsOnlyServed ==
    [][\A q \in Readers :
         reader[q].phase # "admitted" /\ reader'[q].phase = "admitted"
            => reader[q].id \in Served]_synVars
=============================================================================

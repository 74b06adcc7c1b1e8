---------------------------- MODULE MemoryIndex ----------------------------
(***************************************************************************)
(* The derived vector index and the replay of its outbox                   *)
(* (core/synthesis_maintenance.py).  A replayer, the one that runs after a *)
(* commit or the maintenance daemon's, claims a row under a lease, reads   *)
(* the canonical row, embeds outside any transaction, and writes the index *)
(* inside a write transaction that checks its lease and the canonical row  *)
(* again.  A lease may lapse under a replayer that is only slow.           *)
(***************************************************************************)
EXTENDS Synthesis

CONSTANTS Replayers,
          NoRow,        \* a memory the index has no vector of
          MaxTries,     \* _MAX_OUTBOX_ATTEMPTS
          MaxFaults     \* bound on crashed and overtaken replayers and requeued rows

ASSUME IndexAssumption == /\ "nobody" \notin Replayers
                          /\ NoRow \notin Hashes \cup Nat
                          /\ MaxTries \in Nat \ {0}
                          /\ MaxFaults \in Nat

VARIABLES index,      \* memory -> the material its vector was made of
          replay,     \* what each replayer holds
          faults

indexVars == <<index, replay, faults>>
vars == <<synVars, indexVars>>

\* The row replayer r claimed, as the outbox has it now.
Claimed(r) == {j \in outbox : j.id = replay[r].id /\ j.version = replay[r].version}
\* _require_lease_owner: the row is still processing under r's own claim.
Owns(r) == \E j \in Claimed(r) : j.status = "processing" /\ j.owner = r

Release(r) == replay' = [replay EXCEPT ![r] = Idle]

\* What the index should hold for m.
Wanted(m) ==
    IF m \in Ordinary
    THEN IF memory[m].available THEN memory[m].hash ELSE NoRow
    ELSE IF m \in Served THEN artifact[m].revision ELSE NoRow

\* A row that names what the canonical row wants: the material of an ordinary
\* memory, or the revision of a served artifact.
Matches(job) == Wanted(job.id) # NoRow /\ job.bind = Wanted(job.id)

-----------------------------------------------------------------------------
\* Faulty: rows left processing by a replayer that ended are not taken over.
PendingOnly(r, j) == replay[r] = Idle /\ j.status = "pending"

\* _claim_job takes a pending row, or a processing one whose lease lapsed.
Claimable(r, j) ==
    /\ replay[r] = Idle
    /\ j.status = "pending" \/ (j.status = "processing" /\ j.owner = "nobody")

Claim(r, j) ==
    /\ Claimable(r, j)
    /\ outbox' = (outbox \ {j}) \cup {[j EXCEPT !.status = "processing", !.owner = r]}
    /\ replay' = [replay EXCEPT ![r] =
                   [phase |-> "claimed", id |-> j.id, version |-> j.version,
                    action |-> j.action, bind |-> j.bind]]
    /\ UNCHANGED <<memory, artifact, edges, version, scan, reader, index, faults>>

\* The lease of a processing row lapses: the holder crashed, or is slow and
\* does not notice.
Held(j) == replay[j.owner].phase # "idle" /\ j \in Claimed(j.owner)

Lapse(j) ==
    /\ j.status = "processing" /\ j.owner # "nobody"
    /\ faults' = IF Held(j) THEN faults + 1 ELSE faults
    /\ faults' <= MaxFaults
    /\ outbox' = (outbox \ {j}) \cup {[j EXCEPT !.owner = "nobody"]}
    /\ UNCHANGED <<memory, artifact, edges, version, scan, reader, index, replay>>

\* The canonical row is read with no lock: what is unavailable is to be
\* deleted, what no longer matches needs nothing, the rest is embedded (which takes
\* as long as it takes) and then written.
Read(r) ==
    /\ replay[r].phase = "claimed"
    /\ LET job == replay[r]
           next == IF Wanted(job.id) = NoRow THEN "delete"
                   ELSE IF job.action = "upsert" /\ Matches(job) THEN "write"
                   ELSE IF job.action = "delete" /\ job.id \in Ordinary THEN "delete"
                   ELSE "settle"
       IN  replay' = [replay EXCEPT ![r].phase = next]
    /\ UNCHANGED <<synVars, index, faults>>

\* What a replayer leaves in the index under the write lock.
\* Faulty: the canonical row is not read again.
StaleEntry(job) == IF job.phase = "write" THEN job.bind ELSE NoRow

Entry(job) ==
    IF Wanted(job.id) = NoRow THEN NoRow
    ELSE IF job.phase = "write" /\ Matches(job) THEN job.bind
    ELSE index[job.id]

\* The index is written and the canonical row read in one write transaction.
Write(r) ==
    /\ replay[r].phase \in {"delete", "write"}
    /\ IF Owns(r)
       THEN /\ index' = [index EXCEPT ![replay[r].id] = Entry(replay[r])]
            /\ replay' = [replay EXCEPT ![r].phase = "settle"]
       ELSE Release(r) /\ UNCHANGED index
    /\ UNCHANGED <<synVars, faults>>

\* The row is marked done if this claim still holds it.
Settle(r) ==
    /\ replay[r].phase = "settle"
    /\ outbox' = IF Owns(r) THEN outbox \ Claimed(r) ELSE outbox
    /\ Release(r)
    /\ UNCHANGED <<memory, artifact, edges, version, scan, reader, index, faults>>

\* Embedding or the index failed: retried until MaxTries, parked at once when
\* the failure is permanent or blocked on configuration (the two parked
\* statuses, failed and blocked, are treated alike everywhere).
Failed(j, permanent) ==
    [j EXCEPT !.tries = @ + 1, !.owner = "nobody",
              !.status = IF permanent \/ j.tries + 1 >= MaxTries THEN "parked" ELSE "pending"]

Fail(r, permanent) ==
    /\ replay[r].phase \in {"delete", "write"}
    /\ outbox' = IF Owns(r)
                 THEN (outbox \ Claimed(r)) \cup {Failed(j, permanent) : j \in Claimed(r)}
                 ELSE outbox
    /\ Release(r)
    /\ UNCHANGED <<memory, artifact, edges, version, scan, reader, index, faults>>

Crash(r) ==
    /\ replay[r] # Idle
    /\ faults < MaxFaults
    /\ faults' = faults + 1
    /\ Release(r)
    /\ UNCHANGED <<synVars, index>>

\* requeue_index_outbox_jobs: an operator puts a parked row back; a row whose
\* dedupe key is active again is refused by the unique index.
SameKey(i, j) == /\ i.id = j.id /\ i.action = j.action /\ i.bind = j.bind
                 /\ (i.id \in Ordinary => i.version = j.version)

Requeue(j) ==
    /\ j.status = "parked"
    /\ ~\E i \in outbox : i.status \in Active /\ SameKey(i, j)
    /\ outbox' = (outbox \ {j}) \cup {[j EXCEPT !.status = "pending", !.tries = 0]}
    /\ faults < MaxFaults /\ faults' = faults + 1
    /\ UNCHANGED <<memory, artifact, edges, version, scan, reader, index, replay>>

-----------------------------------------------------------------------------
Init == /\ SynInit
        /\ index = [m \in Memories |-> IF m \in Ordinary THEN memory[m].hash ELSE NoRow]
        /\ replay = [r \in Replayers |-> Idle]
        /\ faults = 0

Replaying(r) == \/ \E j \in outbox : Claim(r, j)
                \/ Read(r) \/ Write(r) \/ Settle(r)

Next ==
    \/ SynNext /\ UNCHANGED indexVars
    \/ \E r \in Replayers :
         \/ Replaying(r) \/ Crash(r)
         \/ \E permanent \in BOOLEAN : Fail(r, permanent)
    \/ \E j \in outbox : Lapse(j) \/ Requeue(j)

Spec == Init /\ [][Next]_vars

\* The daemon's passes and the replay after each commit go on while a row is
\* due; time passes, so an abandoned lease lapses.
Fairness ==
    /\ \A r \in Replayers : WF_vars(Replaying(r))
    /\ WF_vars(\E j \in outbox : j.owner # "nobody" /\ ~Held(j) /\ Lapse(j))

FairSpec == Spec /\ Fairness

-----------------------------------------------------------------------------
TypeOK ==
    /\ SynTypeOK
    /\ \A m \in Memories : index[m] \in Hashes \cup Revisions \cup {NoRow}
    /\ \A r \in Replayers : replay[r].phase \in {"idle", "claimed", "delete", "write", "settle"}
    /\ \A j \in outbox : j.status \in Active \cup {"parked"} /\ j.tries \in 0..MaxTries
                         /\ j.owner \in Replayers \cup {"nobody"}
    /\ faults \in 0..MaxFaults

\* Whenever the index disagrees with an ordinary memory, a row that will
\* correct it is still in the outbox: no replay is marked done on the strength
\* of what was canonical before, and a row that lost its lease settles nothing
\* (_replay_memory_index_job, _require_lease_owner).
OrdinaryRowIsOwed ==
    \A m \in Ordinary : index[m] # Wanted(m) =>
        \E j \in outbox : j.id = m /\ (Wanted(m) # NoRow => j.action = "upsert" /\ Matches(j))

\* A vector of an artifact that is no longer verified stays in the index only
\* while a row that will remove it is queued: no transition out of verified
\* leaves it to a row already decided on (enqueue_synthesis_index_job's dedupe
\* key, _delete_if_currently_ineligible).
SynthesisRowIsOwed ==
    \A s \in Artifacts : index[s] # NoRow /\ artifact[s].status # "verified" =>
        \E j \in outbox : j.id = s /\ j.action = "delete"

\* The index catches up with every memory unless the row that would bring it
\* there is parked for an operator (_replay_outbox_jobs, run by the daemon).
IndexCatchesUp ==
    \A m \in Ordinary :
        index[m] # Wanted(m) ~> \/ index[m] = Wanted(m)
                                \/ \E j \in outbox : j.id = m /\ j.status = "parked"
=============================================================================

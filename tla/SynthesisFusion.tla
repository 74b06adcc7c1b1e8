-------------------------- MODULE SynthesisFusion --------------------------
(***************************************************************************)
(* Structured fusion over the governed synthesis store: durable workers    *)
(* lease the derived work of several sources, read the sources, call a     *)
(* provider with no lock held, and commit the drafts it returns together   *)
(* with the completion of every job (DurableFusionWorker and               *)
(* GovernedSynthesisDraftSink of core/structured_memory_fusion.py).        *)
(* The queue itself is module DerivedWork; here a job is a source and the  *)
(* hash it was queued with, and a lapsed lease is a job without an owner.  *)
(***************************************************************************)
EXTENDS Synthesis

CONSTANT Workers

ASSUME WorkersAssumption == "nobody" \notin Workers

VARIABLES fusionJob,    \* (source, hash) -> status and owner
          worker,       \* the batch each worker holds
          text          \* artifact -> the jobs its text was fused from

fusionVars == <<fusionJob, worker, text>>
vars == <<synVars, fusionVars>>

Jobs == Ordinary \X Hashes
Held(w) == {k \in worker[w].batch : fusionJob[k] = [status |-> "leased", owner |-> w]}
Settled(batch, status) ==
    [k \in Jobs |-> IF k \in batch THEN [status |-> status, owner |-> "nobody"] ELSE fusionJob[k]]
Free(w) == worker' = [worker EXCEPT ![w] = Idle]

\* enqueue_source: the dedupe key holds the source and its hash, for ever.
Enqueue(m) ==
    /\ fusionJob[<<m, memory[m].hash>>].status = "none"
    /\ memory[m].available
    /\ fusionJob' = Settled({<<m, memory[m].hash>>}, "queued")
    /\ UNCHANGED <<synVars, worker, text>>

ClaimBatch(w, batch) ==
    /\ worker[w] = Idle
    /\ batch # {}
    /\ \A k \in batch : fusionJob[k].status = "queued"
    /\ fusionJob' = [k \in Jobs |-> IF k \in batch THEN [status |-> "leased", owner |-> w]
                                    ELSE fusionJob[k]]
    /\ worker' = [worker EXCEPT ![w] = [phase |-> "claimed", batch |-> batch]]
    /\ UNCHANGED <<synVars, text>>

\* _fail_leases: whatever went wrong with one source fails every lease still held.
FailLeases(w, status) ==
    /\ fusionJob' = Settled(Held(w), status)
    /\ Free(w)

\* _load_sources: the rows must still have the queued hashes; their lifecycle
\* is not looked at.
LoadSources(w) ==
    /\ worker[w].phase = "claimed"
    /\ IF \A k \in worker[w].batch : memory[k[1]].hash = k[2]
       THEN worker' = [worker EXCEPT ![w].phase = "fusing"] /\ UNCHANGED fusionJob
       ELSE FailLeases(w, "dead")
    /\ UNCHANGED <<synVars, text>>

ProviderFails(w) ==
    /\ worker[w].phase = "fusing"
    /\ FailLeases(w, "queued")
    /\ UNCHANGED <<synVars, text>>

\* complete_in_transaction demands every lease.
\* Faulty: a batch is committed on the strength of one live lease.
AnyLease(w) == Held(w) # {}

AllLeases(w) == Held(w) = worker[w].batch

\* _commit_result: in one transaction a chunk becomes a draft of the sources it
\* cites, or is skipped (one source), refused (unusable sources, key taken) or
\* absent, and every job is completed; without the leases all of it is rolled
\* back.  A batch yields at most one draft here.
SourcesOf(chunk) == {k[1] : k \in chunk}

Commit(w, s, chunk) ==
    /\ worker[w].phase = "fusing"
    /\ AllLeases(w)
    /\ chunk \subseteq worker[w].batch
    /\ SourcesOf(chunk) \in Recipes
    /\ CreateDraft(s, SourcesOf(chunk))
    /\ text' = [text EXCEPT ![s] = chunk]
    /\ fusionJob' = Settled(Held(w), "done")
    /\ Free(w)

CommitNothing(w) ==
    /\ worker[w].phase = "fusing"
    /\ AllLeases(w)
    /\ fusionJob' = Settled(worker[w].batch, "done")
    /\ Free(w)
    /\ UNCHANGED <<synVars, text>>

Rollback(w) ==
    /\ worker[w].phase = "fusing"
    /\ ~AllLeases(w)
    /\ FailLeases(w, "queued")
    /\ UNCHANGED <<synVars, text>>

\* The heartbeat stops renewing, or the worker dies: the job is claimable again.
Lapse(k) ==
    /\ fusionJob[k].status = "leased"
    /\ fusionJob' = Settled({k}, "queued")
    /\ UNCHANGED <<synVars, worker, text>>

Crash(w) ==
    /\ worker[w] # Idle
    /\ Free(w)
    /\ UNCHANGED <<synVars, fusionJob, text>>

-----------------------------------------------------------------------------
Init ==
    /\ SynInit
    /\ fusionJob = [k \in Jobs |-> [status |-> "none", owner |-> "nobody"]]
    /\ worker = [w \in Workers |-> Idle]
    /\ text = [s \in Artifacts |-> {}]

\* A refresh replaces the fused text by its caller's.
Governed ==
    /\ SynNext
    /\ text' = [s \in Artifacts |->
                  IF artifact'[s] # Absent /\ artifact[s] # Absent
                     /\ artifact'[s].revision # artifact[s].revision
                  THEN {} ELSE text[s]]
    /\ UNCHANGED <<fusionJob, worker>>

Next ==
    \/ Governed
    \/ \E m \in Ordinary : Enqueue(m)
    \/ \E k \in Jobs : Lapse(k)
    \/ \E w \in Workers :
         \/ \E batch \in SUBSET Jobs :
              ClaimBatch(w, batch) \/ \E s \in Artifacts : Commit(w, s, batch)
         \/ LoadSources(w) \/ ProviderFails(w) \/ CommitNothing(w) \/ Rollback(w) \/ Crash(w)

Spec == Init /\ [][Next]_vars

-----------------------------------------------------------------------------
TypeOK ==
    /\ SynTypeOK
    /\ \A k \in Jobs : /\ fusionJob[k].status \in {"none", "queued", "leased", "done", "dead"}
                       /\ (fusionJob[k].owner \in Workers <=> fusionJob[k].status = "leased")
    /\ \A w \in Workers : worker[w].phase \in {"idle", "claimed", "fusing"}
    /\ text \in [Artifacts -> SUBSET Jobs]

\* A fused draft is on disk only with the receipts of all the jobs it was made
\* of, however their leases moved between workers meanwhile (_commit_result).
FusedDraftHasReceipts ==
    \A s \in Artifacts : \A k \in text[s] : fusionJob[k].status = "done"
=============================================================================

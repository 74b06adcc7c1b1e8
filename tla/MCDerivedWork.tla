--------------------------- MODULE MCDerivedWork ---------------------------
(* Instances of DerivedWork for TLC. *)
EXTENDS DerivedWork, TLC

CONSTANTS j1, j2, j3, w1, w2, pa, pb, bg, fg, s1

Column(project, kind, priority, max) ==
  [project |-> project, kind |-> kind, priority |-> priority, max |-> max]

\* Two jobs of one partition, the first urgent and retried once
MCColumns ==
  [j \in Jobs |-> IF j = j1 THEN Column(pa, fg, 1, 2) ELSE Column(pa, fg, 0, 1)]

\* One background job that may be retried, one in another project, and a
\* foreground job above the priority floor
MCMixedColumns ==
  [j \in Jobs |-> CASE j = j1 -> Column(pa, bg, 0, 2)
                     [] j = j2 -> Column(pb, bg, 0, 1)
                     [] OTHER -> Column(pa, fg, 1, 1)]

MCProjectOf == [j \in Jobs |-> MCColumns[j].project]
MCKindOf == [j \in Jobs |-> MCColumns[j].kind]
MCPriorityOf == [j \in Jobs |-> MCColumns[j].priority]
MCMaxAttemptsOf == [j \in Jobs |-> MCColumns[j].max]
MixedProjectOf == [j \in Jobs |-> MCMixedColumns[j].project]
MixedKindOf == [j \in Jobs |-> MCMixedColumns[j].kind]
MixedPriorityOf == [j \in Jobs |-> MCMixedColumns[j].priority]
MixedMaxAttemptsOf == [j \in Jobs |-> MCMixedColumns[j].max]
MCScopeOf == [j \in Jobs |-> s1]

WorkerSymmetry == Permutations(Workers)

(***************************************************************************)
(* Liveness.  Time passes while something waits for it, so that a bounded  *)
(* clock is not used up by idling; heartbeats are left out, because a      *)
(* worker that renews for ever keeps its job for ever.                     *)
(***************************************************************************)
TimerPending ==
  \E j \in Jobs :
    \/ rows[j].status = "leased" /\ rows[j].lease_expires_at > clock
    \/ rows[j].status \in Queued /\ (rows[j].not_before_at > clock
                                     \/ rows[j].created_at + MaxWait > clock)

TimedTick == TimerPending /\ Tick

LiveNext ==
  \/ TimedTick
  \/ Admission
  \/ \E w \in Workers : Sample(w) \/ Return(w) \/ Claiming(w) \/ Settling(w) \/ Crash(w)

\* Worker threads poll for ever (_worker_loop), and a call that found the
\* database busy is made again
WorkersPoll ==
  /\ WF_vars(TimedTick)
  /\ \A w \in Workers : /\ WF_vars(Sample(w))
                        /\ \A k \in ForegroundKinds : SF_vars(ClaimBatch(w, k))

LiveSpec == Init /\ [][LiveNext]_vars /\ WorkersPoll

(* Whatever the workers do with it (lose it, crash, fail it), an admitted  *)
(* job is completed or dead in the end: no lease is lost for ever, and a   *)
(* job alone in its partition is not kept waiting for a full batch.        *)
EveryJobSettles ==
  \A j \in Jobs :
    rows[j].status \in Queued \cup {"leased"} ~> rows[j].status \in {"completed", "dead"}
=============================================================================

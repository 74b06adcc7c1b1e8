------------------------- MODULE MCMemoryProposals -------------------------
(***************************************************************************)
(* Instances of MemoryProposals for TLC: a reviewer and the recorder in    *)
(* the server, and the worker in the maintenance process, which drains     *)
(* jobs in its only thread, as with                                        *)
(* PP_PROPOSAL_PROMOTION_WORKER_AUTOSTART=0 in the server.                 *)
(* MemoryProposals.cfg checks what holds then; MemoryProposalsThread.cfg   *)
(* what the threads of the server do to each other even then.              *)
(***************************************************************************)
EXTENDS MemoryProposals, TLC

CONSTANTS p1, w1
=============================================================================

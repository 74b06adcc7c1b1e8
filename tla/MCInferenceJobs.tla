-------------------------- MODULE MCInferenceJobs --------------------------
(* Instances of InferenceJobs for TLC. *)
EXTENDS InferenceJobs, TLC

CONSTANTS k1, k2, e1, e2, e3, q1, q2, i1, i2, i3, t1, t2, t3

\* Two outcomes of preparing one request, and a request that reuses its key
MCRequestOf == [e \in Executions |-> IF e = e3 THEN q2 ELSE q1]

IdSymmetry == Permutations(JobIds) \cup Permutations(Tokens)

KeySymmetry == IdSymmetry \cup Permutations(Keys)
=============================================================================

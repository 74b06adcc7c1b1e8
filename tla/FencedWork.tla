----------------------------- MODULE FencedWork -----------------------------
(***************************************************************************)
(* What DerivedWorkStore promises of a job, as its docstring puts it:      *)
(* at-least-once provider work and exactly-once local state transition     *)
(* (plastic_promise/core/derived_work.py:163-166).  A job is granted a     *)
(* bounded number of times, each grant supersedes the one before, and at   *)
(* most one grant wins, the latest, after which nothing is granted.  There *)
(* is no clock, no worker and no ledger here.                              *)
(***************************************************************************)
EXTENDS Naturals

CONSTANTS Jobs, MaxGrants

VARIABLES phase, grants, winner

work == <<phase, grants, winner>>

Init ==
  /\ phase = [j \in Jobs |-> "absent"]
  /\ grants = [j \in Jobs |-> 0]
  /\ winner = [j \in Jobs |-> 0]

Keeps(j) == grants'[j] = grants[j] /\ winner'[j] = winner[j]

Same(j) == phase'[j] = phase[j] /\ Keeps(j)

Admitted(j) == phase[j] = "absent" /\ phase'[j] = "open" /\ Keeps(j)

Granted(j) ==
  /\ phase[j] \in {"open", "granted"}
  /\ grants[j] < MaxGrants[j]
  /\ phase'[j] = "granted"
  /\ grants'[j] = grants[j] + 1
  /\ winner'[j] = winner[j]

Withdrawn(j) ==
  /\ phase[j] = "granted"
  /\ phase'[j] = IF grants[j] < MaxGrants[j] THEN "open" ELSE "dead"
  /\ Keeps(j)

Abandoned(j) == phase[j] = "granted" /\ phase'[j] = "dead" /\ Keeps(j)

Won(j) ==
  /\ phase[j] = "granted"
  /\ phase'[j] = "done"
  /\ grants'[j] = grants[j]
  /\ winner'[j] = grants[j]

Move(j) == Admitted(j) \/ Granted(j) \/ Withdrawn(j) \/ Abandoned(j) \/ Won(j) \/ Same(j)

\* One transaction may move several jobs, each at most once
Next ==
  /\ phase' \in [Jobs -> {"absent", "open", "granted", "done", "dead"}]
  /\ DOMAIN grants' = Jobs /\ DOMAIN winner' = Jobs
  /\ \A j \in Jobs : Move(j)

Spec == Init /\ [][Next]_work
=============================================================================

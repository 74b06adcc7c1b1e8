---------------------------- MODULE MCTaskQueue ----------------------------
(* Instances of TaskQueue and TaskDaemon for TLC. *)
EXTENDS TaskDaemon, TLC

CONSTANTS h1, h2, claude, f1

AgentSymmetry == Permutations(Agents \ {Elder})

\* Without the daemon.  Bound: the longer time runs, the fewer rows the board
\* may have, so that three rows meet in a moment and one row sees every timeout;
\* two claims are in flight at once while there are at most two rows; only the
\* hunters' trust moves.
BoardFits ==
  LET rows == Cardinality({t \in TaskIds : tasks[t].status # "absent"})
      inFlight == Cardinality({h \in Agents : reads[h] # {}})
  IN /\ rows <= MaxTasks - (clock + 1) \div 2 /\ rows + inFlight <= MaxTasks + 1
     /\ \A score \in TrustScores : score <= trust[Elder]

BoardInit == DaemonInit /\ BoardFits

BoardSpec == BoardInit /\ [][Next /\ BoardFits' /\ UNCHANGED daemonVars]_allVars
=============================================================================

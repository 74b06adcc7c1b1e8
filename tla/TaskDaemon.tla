---------------------------- MODULE TaskDaemon -----------------------------
(***************************************************************************)
(* scan_task_heartbeats (daemons/maintenance_daemon.py): the maintenance   *)
(* daemon, a process of its own on the database of TaskQueue, lists the    *)
(* overdue claims and then takes them back one by one, by id alone.  The   *)
(* timeout penalties are scheduled on the daemon's event loop, so they run *)
(* when the scan has returned, and each books its failure in a transaction *)
(* of its own.                                                             *)
(***************************************************************************)
EXTENDS TaskQueue

CONSTANT UtcOffset      \* the host's local time minus UTC

ASSUME ZoneAssumption == UtcOffset \in Int

VARIABLES
  overdue,    \* rows the daemon's scan in flight has yet to release
  owed        \* penalties scheduled and not yet applied

daemonVars == <<overdue, owed>>
allVars == <<vars, daemonVars>>

DaemonEscalations == 3      \* the daemon does not read max_escalations

DaemonInit == Init /\ overdue = {} /\ owed = {}

Listed == [task: TaskIds, claimed_by: Agents, escalation_count: Nat]
Penalty == [task: TaskIds, agent: Agents]

IsExecutingStale(task, now) ==      \* faulty: a claim without a heartbeat is missed
  task.status = "executing" /\ now - UtcOffset - task.heartbeat_at > Timeout

\* heartbeat_at is in local time (datetime.now()), SQLite's now is UTC
IsOverdue(task, now) ==
  task.status \in Active /\ now - UtcOffset - task.heartbeat_at > Timeout

ScanOverdue ==
  /\ overdue = {} /\ owed = {}
  /\ overdue' = {[task |-> t, claimed_by |-> tasks[t].claimed_by,
                  escalation_count |-> tasks[t].escalation_count] :
                   t \in {u \in TaskIds : IsOverdue(tasks[u], clock)}}
  /\ UNCHANGED <<vars, owed>>

\* UPDATE ... WHERE id=?, then the penalty of the hunter the scan saw
ReleaseOverdue(o) ==
  LET elder == o.escalation_count + 1 >= DaemonEscalations
  IN /\ o \in overdue
     /\ tasks' = [tasks EXCEPT
          ![o.task].status = "pending",
          ![o.task].claimed_by = NONE,
          ![o.task].to_agent = IF elder THEN Elder ELSE @,
          ![o.task].priority = IF elder THEN 1 ELSE @,
          ![o.task].escalation_count = @ + 1]
     /\ overdue' = overdue \ {o}
     /\ owed' = owed \cup {[task |-> o.task, agent |-> o.claimed_by]}
     /\ UNCHANGED <<clock, trust, claims, failures, reads, scan>>

\* apply_penalty: the failure is logged; the trust it takes away is taken
\* from a TrustManager without a store
ApplyPenalty(p) ==
  /\ overdue = {}
  /\ p \in owed
  /\ failures' = [failures EXCEPT ![p.task][p.agent] = @ + 1]
  /\ trust' = Adjusted(p.agent, Decayed(trust[p.agent], 1))
  /\ owed' = owed \ {p}
  /\ UNCHANGED <<clock, tasks, claims, reads, scan, overdue>>

DaemonDies ==
  /\ overdue # {} \/ owed # {}
  /\ overdue' = {}
  /\ owed' = {}
  /\ UNCHANGED vars

Daemon ==
  \/ ScanOverdue
  \/ \E o \in overdue : ReleaseOverdue(o)
  \/ \E p \in owed : ApplyPenalty(p)
  \/ DaemonDies

DaemonNext == Daemon \/ (Next /\ UNCHANGED daemonVars)

DaemonSpec == DaemonInit /\ [][DaemonNext]_allVars

(***************************************************************************)
(* The daemon's cycle comes round for ever; it is not killed every time    *)
(* between its scan and its release.                                       *)
(***************************************************************************)
DaemonCycles ==
  /\ WF_allVars(ScanOverdue)
  /\ SF_allVars(\E o \in overdue : ReleaseOverdue(o))
  /\ WF_allVars(\E p \in owed : ApplyPenalty(p))

FairDaemonSpec == DaemonSpec /\ DaemonCycles

-----------------------------------------------------------------------------
(***************************************************************************)
(* A hunter who fell silent does not keep his task: every overdue claim is *)
(* given up, settled, renewed or released in the end.                      *)
(***************************************************************************)
SilentHunterIsReleased ==
  \A t \in TaskIds : IsStale(tasks[t], clock) ~> ~IsStale(tasks[t], clock)
=============================================================================

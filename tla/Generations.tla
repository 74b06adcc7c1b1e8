---------------------------- MODULE Generations ----------------------------
(***************************************************************************)
(* Immutable generations of the vector index, and the writable view bound  *)
(* to the one that is selected (core/lancedb_generation.py,                *)
(* core/index_outbox_reconciliation.py, core/generation_live_index.py).    *)
(*                                                                         *)
(* An operator builds a candidate from a snapshot of the memories,         *)
(* reconciles the index jobs it covers, verifies it, moves the `current`   *)
(* pointer to it and copies it into a live root; the server opens that     *)
(* live root and replays newer jobs into it.  A command changes the        *)
(* manifest and the pointer on disk under the lifecycle lock and the       *)
(* database's write lock, one file at a time: it may crash between any two *)
(* steps, and undoes what it did when it fails.                            *)
(*                                                                         *)
(* The content of a memory is the row id of the job its last write         *)
(* published.  Projects, quality reports, the digests of trees and         *)
(* manifests, and file permissions are left out.                           *)
(***************************************************************************)
EXTENDS Naturals, Sequences, FiniteSets

CONSTANTS Memories, Gens, Roots,
          Operators,    \* processes that run manage_lancedb_generations.py
          MaxJobs,      \* bound on writes
          MaxMoves,     \* bound on activations
          MaxReceipts,  \* bound on reconciliations of one generation
          MaxCrashes    \* bound on crashes and failed replays

ASSUME GenerationsAssumption ==
    /\ {MaxJobs, MaxMoves, MaxReceipts, MaxCrashes} \subseteq Nat

VARIABLES memory,      \* memory -> the job that published its content
          outbox,      \* row id -> [id, status]
          receipt,     \* index_generation_reconciliation: generation -> receipt
          manifest,    \* generation -> its manifest.json
          selections,  \* activation id -> generation, never removed
          current,     \* the activation `current` links to, 0 when unset
          live,        \* live root -> what it is bound to and holds
          server,      \* the process that serves and replays
          command,     \* what each operator is running
          crashes

files == <<manifest, selections, current, live>>
store == <<memory, outbox, receipt>>
vars == <<files, store, server, command, crashes>>

Jobs == 1..Len(outbox)
None == [state |-> "none"]
Idle == [phase |-> "idle"]
Down == [phase |-> "down"]

Selected == selections[current]
Known(g) == manifest[g].state = "complete"

(***************************************************************************)
(* Locks.  A command past its checks holds the lifecycle lock until it     *)
(* ends, and the write lock until it commits or rolls back.                *)
(***************************************************************************)
Working == {"checked", "stamped", "linked", "switched"}
Exclusive(o) == command[o].phase \in Working \cup {"building", "undo", "unstamp"}

\* Faulty: the transaction ends with the checks it was opened for.
WhileChecking(o) == command[o].phase \in {"checked", "stamped"}

\* A failed mark_reconciled restores the manifest before it rolls back, the
\* other commands after.
InTransaction(o) == \/ command[o].phase \in Working
                    \/ command[o].phase = "unstamp" /\ command[o].name = "mark"

LifecycleFree == \A o \in Operators : ~Exclusive(o)
DatabaseFree == \A o \in Operators : ~InTransaction(o)

\* The runtime services are stopped while a command moves the pointer or copies
\* a live root; each activation gets one live root.
CuttingOver == \E o \in Operators : /\ command[o].phase # "idle"
                                    /\ command[o].name \in {"promote", "rollback", "bootstrap"}

(***************************************************************************)
(* The evidence of a generation is the snapshot of the source it was built *)
(* from, and the last index job in it.                                     *)
(***************************************************************************)
Window(g) == {j \in Jobs : j <= manifest[g].watermark}
Newer(g) == {j \in Jobs : j > manifest[g].watermark}

\* The window exists unchanged, all of it is done, nothing is newer and the
\* source is what the snapshot saw (assert_index_outbox_fresh).
Covers(g) == /\ memory = manifest[g].snapshot
             /\ Newer(g) = {}
             /\ \A j \in Window(g) : outbox[j].status = "done"

Fresh(g) == manifest[g].reconciled /\ Covers(g)

\* assert_index_outbox_base_covered: what a live view over g needs.
BaseCovered(g) == /\ \A j \in Window(g) : outbox[j].status = "done"
                  /\ receipt[g] = manifest[g].receipt

\* _resolve_verified_current: the generation a reader may be given.
Sound(g) == Known(g) /\ manifest[g].reconciled /\ manifest[g].verified

Ends(o) == command' = [command EXCEPT ![o] = Idle]
Becomes(o, phase) == command' = [command EXCEPT ![o].phase = phase]

-----------------------------------------------------------------------------
(***************************************************************************)
(* Memories and their index jobs.                                          *)
(***************************************************************************)
Write(m) ==
    /\ DatabaseFree /\ Len(outbox) < MaxJobs
    /\ outbox' = Append(outbox, [id |-> m, status |-> "pending"])
    /\ memory' = [memory EXCEPT ![m] = Len(outbox')]
    /\ UNCHANGED <<receipt, files, server, command, crashes>>

\* requeue_index_outbox_jobs
Requeue(j) ==
    /\ DatabaseFree /\ outbox[j].status = "parked"
    /\ outbox' = [outbox EXCEPT ![j].status = "pending"]
    /\ UNCHANGED <<memory, receipt, files, server, command, crashes>>

-----------------------------------------------------------------------------
(***************************************************************************)
(* Building.  The snapshot is a backup of the database taken before the    *)
(* lifecycle lock; a directory left by a crash keeps its name for ever.    *)
(***************************************************************************)
Clone(o, g) ==
    /\ command[o] = Idle
    /\ command' = [command EXCEPT ![o] =
                     [phase |-> "cloned", name |-> "build", gen |-> g,
                      snapshot |-> memory, watermark |-> Len(outbox)]]
    /\ UNCHANGED <<store, files, server, crashes>>

Build(o) ==
    /\ command[o].phase = "cloned" /\ LifecycleFree
    /\ manifest[command[o].gen] = None
    /\ manifest' = [manifest EXCEPT ![command[o].gen] = [state |-> "building"]]
    /\ Becomes(o, "building")
    /\ UNCHANGED <<store, selections, current, live, server, crashes>>

\* The build completes, or its staging directory is removed.
Complete(o, built) ==
    /\ command[o].phase = "building"
    /\ manifest' = [manifest EXCEPT ![command[o].gen] =
                      IF built
                      THEN [state |-> "complete", snapshot |-> command[o].snapshot,
                            watermark |-> command[o].watermark,
                            reconciled |-> FALSE, receipt |-> None, verified |-> FALSE]
                      ELSE None]
    /\ Ends(o)
    /\ UNCHANGED <<store, selections, current, live, server, crashes>>

-----------------------------------------------------------------------------
(***************************************************************************)
(* Reconciling: one transaction acknowledges the jobs of the window and    *)
(* stores a receipt, a second one, under both locks, checks it all again   *)
(* while it seals the manifest with that receipt.                          *)
(***************************************************************************)
Seal(g) == <<manifest[g].reconciled, manifest[g].verified>>

Load(o, g) ==
    /\ command[o] = Idle /\ LifecycleFree /\ Known(g)
    /\ command' = [command EXCEPT ![o] = [phase |-> "loaded", name |-> "reconcile",
                                          gen |-> g, seal |-> Seal(g)]]
    /\ UNCHANGED <<store, files, server, crashes>>

\* reconcile_index_outbox
Acknowledge(o) ==
    LET g == command[o].gen
        issued == [number |-> IF receipt[g] = None THEN 1 ELSE receipt[g].number + 1,
                   seal |-> command[o].seal]
    IN  /\ command[o].phase = "loaded" /\ DatabaseFree
        /\ memory = manifest[g].snapshot /\ Newer(g) = {}
        /\ \A j \in Window(g) : outbox[j].status # "processing"
        /\ issued.number <= MaxReceipts
        /\ outbox' = [j \in Jobs |-> IF j \in Window(g) THEN [outbox[j] EXCEPT !.status = "done"]
                                     ELSE outbox[j]]
        /\ receipt' = [receipt EXCEPT ![g] = issued]
        /\ command' = [command EXCEPT ![o] = [phase |-> "issued", name |-> "reconcile",
                                              gen |-> g, receipt |-> issued]]
        /\ UNCHANGED <<memory, files, server, crashes>>

\* What a command under both locks remembers, to undo what it changes.
Started(name, g, r) == [phase |-> "checked", name |-> name, gen |-> g, receipt |-> r,
                        manifest |-> manifest[g], pointer |-> current]

\* mark_reconciled: a manifest that is sealed already only accepts the receipt
\* it holds, which no new receipt equals.
Mark(o) ==
    LET g == command[o].gen
    IN  /\ command[o].phase = "issued" /\ LifecycleFree /\ DatabaseFree
        /\ Known(g) /\ ~manifest[g].reconciled
        /\ Covers(g)
        /\ command[o].receipt = receipt[g] /\ receipt[g].seal = Seal(g)
        /\ command' = [command EXCEPT ![o] = Started("mark", g, receipt[g])]
        /\ UNCHANGED <<store, files, server, crashes>>

-----------------------------------------------------------------------------
(***************************************************************************)
(* Verifying a candidate and moving the pointer to a generation.           *)
(***************************************************************************)
Moves == {"promote", "rollback"}

Begin(o, name, g) ==
    /\ command[o] = Idle /\ LifecycleFree /\ DatabaseFree
    /\ Known(g) /\ Fresh(g)
    /\ name = "verify" => ~(current # 0 /\ Selected = g)
    /\ name = "rollback" => manifest[g].verified
    /\ name \in Moves => server = Down /\ Len(selections) < MaxMoves
    /\ command' = [command EXCEPT ![o] = Started(name, g, None)]
    /\ UNCHANGED <<store, files, server, crashes>>

\* The manifest is replaced before anything points at it.
Stamps(o) == /\ command[o].phase = "checked"
             /\ command[o].name = "mark" \/ ~manifest[command[o].gen].verified

Stamped(o) ==
    LET sealed == manifest[command[o].gen]
    IN  IF command[o].name = "mark"
        THEN [sealed EXCEPT !.reconciled = TRUE, !.receipt = command[o].receipt]
        ELSE [sealed EXCEPT !.verified = TRUE]

Stamp(o) ==
    /\ Stamps(o)
    /\ manifest' = [manifest EXCEPT ![command[o].gen] = Stamped(o)]
    /\ Becomes(o, "stamped")
    /\ UNCHANGED <<store, selections, current, live, server, crashes>>

Ready(o) == command[o].phase = "stamped" \/ (command[o].phase = "checked" /\ ~Stamps(o))

\* _create_selection_link
Link(o) ==
    /\ Ready(o) /\ command[o].name \in Moves
    /\ selections' = Append(selections, command[o].gen)
    /\ Becomes(o, "linked")
    /\ UNCHANGED <<store, manifest, current, live, server, crashes>>

\* _atomic_switch
Switch(o) ==
    /\ command[o].phase = "linked"
    /\ current' = Len(selections)
    /\ Becomes(o, "switched")
    /\ UNCHANGED <<store, manifest, selections, live, server, crashes>>

Commit(o) ==
    /\ command[o].phase = "switched" \/ (Ready(o) /\ command[o].name \notin Moves)
    /\ Ends(o)
    /\ UNCHANGED <<store, files, server, crashes>>

Fault == crashes < MaxCrashes /\ crashes' = crashes + 1

\* Faulty: the pointer stays where the failed command moved it.
FirstUndoesManifest == "unstamp"
\* A failed command rolls back, restores the pointer and then the manifest.
FirstUndone == "undo"

Abort(o) ==
    /\ command[o].phase \in Working /\ Fault
    /\ Becomes(o, IF command[o].name = "mark" THEN "unstamp" ELSE FirstUndone)
    /\ UNCHANGED <<store, files, server>>

RestorePointer(o) ==
    /\ command[o].phase = "undo"
    /\ current' = command[o].pointer
    /\ Becomes(o, "unstamp")
    /\ UNCHANGED <<store, manifest, selections, live, server, crashes>>

RestoreManifest(o) ==
    /\ command[o].phase = "unstamp"
    /\ manifest' = [manifest EXCEPT ![command[o].gen] = command[o].manifest]
    /\ Ends(o)
    /\ UNCHANGED <<store, selections, current, live, server, crashes>>

-----------------------------------------------------------------------------
(***************************************************************************)
(* Live roots.  The selection is resolved under the lock, the copy is made *)
(* without it; a root whose publication was cut short is unusable.         *)
(***************************************************************************)
\* An activation that has a live root, or is being given one, gets no other.
HasRoot(a) == \/ \E q \in Roots : live[q].state = "bound" /\ live[q].act = a
              \/ \E p \in Operators : command[p].phase = "copying" /\ command[p].act = a

Bootstrap(o, r) ==
    /\ command[o] = Idle /\ LifecycleFree
    /\ current # 0 /\ Sound(Selected)
    /\ live[r] = None /\ server = Down
    /\ ~HasRoot(current)
    /\ command' = [command EXCEPT ![o] =
                     [phase |-> "copying", name |-> "bootstrap", gen |-> Selected,
                      act |-> current, root |-> r]]
    /\ UNCHANGED <<store, files, server, crashes>>

Publish(o) ==
    LET c == command[o]
    IN  /\ c.phase = "copying" /\ live[c.root] = None
        /\ live' = [live EXCEPT ![c.root] = [state |-> "bound", gen |-> c.gen, act |-> c.act,
                                             index |-> manifest[c.gen].snapshot]]
        /\ Ends(o)
        /\ UNCHANGED <<store, manifest, selections, current, server, crashes>>

PublishPart(o) ==
    /\ command[o].phase = "copying" /\ live[command[o].root] = None /\ Fault
    /\ live' = [live EXCEPT ![command[o].root] = [state |-> "partial"]]
    /\ Ends(o)
    /\ UNCHANGED <<store, manifest, selections, current, server>>

\* A command that holds no lock is refused, or killed.
Quit(o) ==
    /\ command[o].phase \in {"cloned", "loaded", "issued", "copying"}
    /\ Ends(o)
    /\ UNCHANGED <<store, files, server, crashes>>

Crash(o) ==
    /\ Exclusive(o) /\ Fault
    /\ Ends(o)
    /\ UNCHANGED <<store, files, server>>

-----------------------------------------------------------------------------
(***************************************************************************)
(* The server.  Which selection is current is read first, the database and *)
(* the live root are checked after; it replays jobs newer than its base.   *)
(***************************************************************************)
Resolve ==
    /\ server = Down /\ LifecycleFree /\ ~CuttingOver
    /\ current # 0 /\ Sound(Selected)
    /\ server' = [phase |-> "resolved", act |-> current, gen |-> Selected]
    /\ UNCHANGED <<store, files, command, crashes>>

\* Faulty: any live root of the same or another activation is opened.
BoundToAny(r) == live[r].state = "bound"

\* resolve_generation_live_index
BoundTo(r) == /\ live[r].state = "bound"
              /\ live[r].gen = server.gen /\ live[r].act = server.act

Open(r) ==
    /\ server.phase = "resolved"
    /\ BaseCovered(server.gen)
    /\ BoundTo(r)
    /\ server' = [phase |-> "serving", gen |-> server.gen, root |-> r, job |-> 0]
    /\ UNCHANGED <<store, files, command, crashes>>

\* Refused, stopped or crashed; a job it had claimed stays processing.
Stop ==
    /\ server # Down
    /\ server' = Down
    /\ UNCHANGED <<store, files, command, crashes>>

\* A processing job that is not this server's has lost its lease.
Claim(j) ==
    /\ server.phase = "serving" /\ server.job = 0 /\ DatabaseFree
    /\ j \in Newer(server.gen) /\ outbox[j].status \in {"pending", "processing"}
    /\ outbox' = [outbox EXCEPT ![j].status = "processing"]
    /\ server' = [server EXCEPT !.job = j]
    /\ UNCHANGED <<memory, receipt, files, command, crashes>>

\* The row is written if the job is still about the memory's content.
Replay ==
    /\ server.phase = "serving" /\ server.job # 0 /\ DatabaseFree
    /\ LET m == outbox[server.job].id
       IN  live' = IF memory[m] = server.job
                   THEN [live EXCEPT ![server.root].index[m] = server.job]
                   ELSE live
    /\ outbox' = [outbox EXCEPT ![server.job].status = "done"]
    /\ server' = [server EXCEPT !.job = 0]
    /\ UNCHANGED <<memory, receipt, manifest, selections, current, command, crashes>>

Fail(parked) ==
    /\ server.phase = "serving" /\ server.job # 0 /\ DatabaseFree
    /\ outbox' = [outbox EXCEPT ![server.job].status = IF parked THEN "parked" ELSE "pending"]
    /\ server' = [server EXCEPT !.job = 0]
    /\ UNCHANGED <<memory, receipt, files, command, crashes>>

-----------------------------------------------------------------------------
Init == /\ memory = [m \in Memories |-> 0] /\ outbox = <<>>
        /\ receipt = [g \in Gens |-> None]
        /\ manifest = [g \in Gens |-> None]
        /\ selections = <<>> /\ current = 0
        /\ live = [r \in Roots |-> None]
        /\ server = Down
        /\ command = [o \in Operators |-> Idle]
        /\ crashes = 0

Run(o) ==
    \/ \E g \in Gens : \/ Clone(o, g) \/ Load(o, g)
                       \/ \E name \in {"verify"} \cup Moves : Begin(o, name, g)
    \/ \E built \in BOOLEAN : Complete(o, built)
    \/ Build(o) \/ Acknowledge(o) \/ Mark(o)
    \/ Stamp(o) \/ Link(o) \/ Switch(o) \/ Commit(o)
    \/ Abort(o) \/ RestorePointer(o) \/ RestoreManifest(o)
    \/ \E r \in Roots : Bootstrap(o, r)
    \/ Publish(o) \/ PublishPart(o) \/ Quit(o) \/ Crash(o)

Serve ==
    \/ Resolve \/ Stop \/ Replay
    \/ \E r \in Roots : Open(r)
    \/ \E j \in Jobs : Claim(j)
    \/ \E parked \in BOOLEAN : Fail(parked)

Next ==
    \/ \E m \in Memories : Write(m)
    \/ \E j \in Jobs : Requeue(j)
    \/ \E o \in Operators : Run(o)
    \/ Serve

Spec == Init /\ [][Next]_vars

-----------------------------------------------------------------------------
TypeOK ==
    /\ memory \in [Memories -> 0..MaxJobs]
    /\ \A j \in Jobs : /\ outbox[j].id \in Memories
                       /\ outbox[j].status \in {"pending", "processing", "parked", "done"}
    /\ \A g \in Gens : Known(g) /\ manifest[g].reconciled => manifest[g].receipt # None
    /\ current \in 0..Len(selections) /\ Len(selections) <= MaxMoves
    /\ crashes \in 0..MaxCrashes
    /\ \A o, p \in Operators : Exclusive(o) /\ Exclusive(p) => o = p

\* Whatever crashes or fails half-way, the pointer is at a generation that is
\* complete, reconciled and verified, so readers are never left without one
\* (promote, rollback, _restore_current_state).
SelectedIsSound == current # 0 => Sound(Selected)

\* The pointer only ever moves forward to a generation that holds every memory
\* as it is at that moment, with no index job outstanding: no write slips in
\* between the check and the switch (_begin_source_freshness_transaction).
SwitchCoversSource == [][current' > current => Covers(selections[current'])]_vars

\* Acknowledged for the sake of a candidate that is not selected.
ForCandidate(j) == \E g \in Gens \ {Selected} : receipt[g] # None /\ j <= manifest[g].watermark

\* What the live root of the selected generation lacks is a job newer than its
\* base that is still to be replayed, unless preparing a candidate acknowledged it
\* (resolve_generation_live_index, reconcile_index_outbox).
LiveViewIsOwed ==
    \A r \in Roots : live[r].state = "bound" /\ live[r].act = current =>
        \A m \in Memories : live[r].index[m] # memory[m] =>
            /\ memory[m] \in Newer(Selected)
            /\ outbox[memory[m]].status # "done" \/ ForCandidate(memory[m])
=============================================================================

------------------------- MODULE GenerationsProofs -------------------------
(***************************************************************************)
(* Theorems about the generations of the vector index.  Nothing but the    *)
(* invariant IInv is needed: what each command remembers fits the files on *)
(* disk at every step it can crash or fail at, and what the view of each   *)
(* activation that may be served lacks is still queued.                    *)
(***************************************************************************)
EXTENDS Generations, TLAPS

Flags == BOOLEAN \X BOOLEAN
Contents == [Memories -> Nat]
Statuses == {"pending", "processing", "parked", "done"}
Row == [id : Memories, status : Statuses]
Receipt == [number : Nat, seal : Flags]
Unfinished == [state |-> "building"]
Partial == [state |-> "partial"]
Sealed == [state : {"complete"}, snapshot : Contents, watermark : Nat,
           reconciled : BOOLEAN, receipt : Receipt \cup {None}, verified : BOOLEAN]
Bound == [state : {"bound"}, gen : Gens, act : Nat, index : Contents]

Locking == Working \cup {"undo", "unstamp"}
BuildCommand == [phase : {"cloned", "building"}, name : {"build"}, gen : Gens,
                 snapshot : Contents, watermark : Nat]
LoadCommand == [phase : {"loaded"}, name : {"reconcile"}, gen : Gens, seal : Flags]
IssueCommand == [phase : {"issued"}, name : {"reconcile"}, gen : Gens, receipt : Receipt]
LockCommand == [phase : Locking, name : {"mark", "verify", "promote", "rollback"}, gen : Gens,
                receipt : Receipt \cup {None}, manifest : Sealed, pointer : Nat]
CopyCommand == [phase : {"copying"}, name : {"bootstrap"}, gen : Gens, act : Nat, root : Roots]
Commands == {Idle} \cup BuildCommand \cup LoadCommand \cup IssueCommand
                   \cup LockCommand \cup CopyCommand

Resolved == [phase : {"resolved"}, act : Nat, gen : Gens]
Serving == [phase : {"serving"}, gen : Gens, root : Roots, job : Nat]

StoreTypes == /\ memory \in Contents
              /\ outbox \in Seq(Row) /\ Len(outbox) <= MaxJobs
              /\ receipt \in [Gens -> Receipt \cup {None}]
FileTypes == /\ manifest \in [Gens -> {None, Unfinished} \cup Sealed]
             /\ selections \in Seq(Gens) /\ Len(selections) <= MaxMoves
             /\ current \in 0..Len(selections)
             /\ live \in [Roots -> {None, Partial} \cup Bound]
ProcessTypes == /\ server \in {Down} \cup Resolved \cup Serving
                /\ command \in [Operators -> Commands]
                /\ crashes \in 0..MaxCrashes
Types == StoreTypes /\ FileTypes /\ ProcessTypes

Locks == \A o, p \in Operators : Exclusive(o) /\ Exclusive(p) => o = p

\* A memory's content is that of a job about it.
Published == \A m \in Memories : /\ memory[m] <= Len(outbox)
                                 /\ memory[m] # 0 => outbox[memory[m]].id = m

\* What was seen with watermark w differs from the memories by newer jobs only.
Seen(s, w) == /\ w <= Len(outbox)
              /\ \A m \in Memories : memory[m] # s[m] => memory[m] > w

Receipted(man) == man.reconciled => man.receipt # None

Manifests ==
    \A g \in Gens : /\ receipt[g] # None => Known(g)
                    /\ Known(g) => /\ Receipted(manifest[g])
                                   /\ Seen(manifest[g].snapshot, manifest[g].watermark)

HoldsLock(o) == command[o].phase \in Locking

\* What a command that has not taken the locks, or only builds, knows.
Preparing(o) ==
    LET c == command[o]
    IN  /\ c.phase \in {"cloned", "building"} => Seen(c.snapshot, c.watermark)
        /\ c.phase = "building" => manifest[c.gen] = Unfinished
        /\ c.phase \in {"loaded", "issued"} => Known(c.gen)

\* What it undoes to: the manifest it found, and the pointer it found.
Remembers(o) ==
    LET c == command[o]
    IN  HoldsLock(o) =>
        /\ Known(c.gen) /\ Receipted(c.manifest)
        /\ c.manifest.snapshot = manifest[c.gen].snapshot
        /\ c.manifest.watermark = manifest[c.gen].watermark
        /\ c.pointer <= current /\ current <= Len(selections)
        /\ c.pointer # 0 => Sound(selections[c.pointer])
        /\ c.pointer # 0 /\ selections[c.pointer] = c.gen =>
              c.manifest.reconciled /\ c.manifest.verified
        /\ c.phase \notin {"switched", "undo"} \/ c.name \notin Moves => current = c.pointer

\* How far it has come.
Progress(o) ==
    LET c == command[o]
    IN  HoldsLock(o) =>
        /\ c.name = "mark" => /\ c.receipt # None
                              /\ c.phase \in {"checked", "stamped", "unstamp"}
        /\ c.name # "mark" => /\ manifest[c.gen].reconciled
                              /\ c.phase = "stamped" => manifest[c.gen].verified
                              /\ c.phase \in Working => Covers(c.gen)
        /\ c.name \in Moves /\ c.phase \in {"checked", "stamped"} => Len(selections) < MaxMoves
        /\ c.phase \in {"linked", "switched"} =>
              /\ c.name \in Moves /\ manifest[c.gen].verified
              /\ selections # <<>> /\ selections[Len(selections)] = c.gen
        /\ c.phase = "linked" =>
              /\ \A r \in Roots : live[r].state = "bound" => live[r].act < Len(selections)
              /\ \A p \in Operators : command[p].phase = "copying" =>
                                        command[p].act < Len(selections)

\* A live root is that of the generation its activation selected; an activation
\* has one at most, or one on its way.
BoundRoot(g, a) == a \in 1..Len(selections) /\ selections[a] = g /\ Known(g)
LiveRoots ==
    /\ \A r \in Roots : live[r].state = "bound" => BoundRoot(live[r].gen, live[r].act)
    /\ \A q, r \in Roots : /\ live[q].state = "bound" /\ live[r].state = "bound"
                           /\ live[q].act = live[r].act
                           => q = r
    /\ \A o \in Operators : command[o].phase = "copying" =>
          /\ BoundRoot(command[o].gen, command[o].act)
          /\ \A r \in Roots : live[r].state = "bound" => live[r].act # command[o].act
    /\ \A o, p \in Operators : /\ command[o].phase = "copying" /\ command[p].phase = "copying"
                               /\ command[o].act = command[p].act
                               => o = p

ServerKnows ==
    server # Down =>
        /\ ~CuttingOver
        /\ current # 0 /\ server.gen = Selected
        /\ server.phase = "resolved" => server.act = current
        /\ server.phase = "serving" =>
              /\ live[server.root].state = "bound" /\ live[server.root].act = current
              /\ server.job # 0 => server.job \in Newer(server.gen)

\* Everything a view of generation g lacks is queued for it, or was acknowledged
\* for another generation.
Owed(g, view) ==
    \A m \in Memories : view[m] # memory[m] =>
        /\ memory[m] \in Newer(g)
        /\ \/ outbox[memory[m]].status # "done"
           \/ \E h \in Gens \ {g} : receipt[h] # None /\ memory[m] <= manifest[h].watermark

\* The activations that are, or may become by undoing, the current one.
Active(a) == a # 0 /\ (a = current \/ \E o \in Operators : HoldsLock(o) /\ command[o].pointer = a)
Rooted(a) == \E r \in Roots : live[r].state = "bound" /\ live[r].act = a
ViewOwed(a) ==
    /\ \A r \in Roots : live[r].state = "bound" /\ live[r].act = a =>
          Owed(selections[a], live[r].index)
    /\ ~Rooted(a) => Owed(selections[a], manifest[selections[a]].snapshot)
ViewsOwed == \A a \in 1..Len(selections) : Active(a) => ViewOwed(a)

CommandInv == Locks /\ (\A o \in Operators : Preparing(o) /\ Remembers(o) /\ Progress(o))
FileInv == Published /\ Manifests /\ SelectedIsSound
LiveInv == LiveRoots /\ ServerKnows /\ ViewsOwed
IInv == Types /\ FileInv /\ CommandInv /\ LiveInv


-----------------------------------------------------------------------------
(***************************************************************************)
(* Types.                                                                  *)
(***************************************************************************)

\* The phase of a command says which kind of record it is.
LEMMA Kinds ==
  ASSUME NEW c \in Commands
  PROVE  /\ c.phase = "idle" => c = Idle
         /\ c.phase \in {"cloned", "building"} => c \in BuildCommand
         /\ c.phase = "loaded" => c \in LoadCommand
         /\ c.phase = "issued" => c \in IssueCommand
         /\ c.phase \in Locking => c \in LockCommand
         /\ c.phase = "copying" => c \in CopyCommand
         /\ c.phase \in {"idle", "cloned", "building", "loaded", "issued", "copying"} \cup Locking
  BY DEF Commands, Idle, BuildCommand, LoadCommand, IssueCommand, LockCommand, CopyCommand,
         Locking, Working

\* A receipt is not the absence of one.
LEMMA NoReceipt == None \notin Receipt
  BY DEF None, Receipt

\* The state column says which kind of manifest, or of live root, a file is.
LEMMA FileKinds ==
  /\ \A man \in {None, Unfinished} \cup Sealed :
        /\ man.state = "complete" <=> man \in Sealed
        /\ man = None => man.state # "complete"
        /\ man = Unfinished => man.state # "complete"
  /\ \A root \in {None, Partial} \cup Bound :
        /\ root.state = "bound" <=> root \in Bound
        /\ root = None => root.state # "bound"
        /\ root = Partial => root.state # "bound"
  BY DEF None, Unfinished, Sealed, Partial, Bound

\* And the phase of the server which kind of record it is.
LEMMA ServerKinds ==
  ASSUME NEW s \in {Down} \cup Resolved \cup Serving
  PROVE  /\ s.phase = "resolved" <=> s \in Resolved
         /\ s.phase = "serving" <=> s \in Serving
         /\ s.phase = "down" <=> s = Down
         /\ s = Down \/ s.phase = "resolved" \/ s.phase = "serving"
  BY DEF Down, Resolved, Serving

\* Another phase of the same command.
LEMMA Rephased ==
  ASSUME NEW c, NEW ph
  PROVE  /\ c \in BuildCommand /\ ph \in {"cloned", "building"} =>
              [c EXCEPT !.phase = ph] \in BuildCommand
         /\ c \in LockCommand /\ ph \in Locking =>
              /\ [c EXCEPT !.phase = ph] \in LockCommand
              /\ [c EXCEPT !.phase = ph].phase = ph
              /\ [c EXCEPT !.phase = ph].name = c.name
              /\ [c EXCEPT !.phase = ph].gen = c.gen
              /\ [c EXCEPT !.phase = ph].receipt = c.receipt
              /\ [c EXCEPT !.phase = ph].manifest = c.manifest
              /\ [c EXCEPT !.phase = ph].pointer = c.pointer
  BY DEF BuildCommand, LockCommand

\* What every case below may use of the state it starts from.
LEMMA Typed ==
  ASSUME Types
  PROVE  /\ Len(outbox) \in Nat /\ Len(selections) \in Nat /\ current \in Nat
         /\ \A j \in Jobs : outbox[j] \in Row
         /\ \A a \in 1..Len(selections) : selections[a] \in Gens
         /\ \A g \in Gens : Known(g) <=> manifest[g] \in Sealed
         /\ \A g \in Gens : manifest[g] \in {None, Unfinished} => ~Known(g)
         /\ \A r \in Roots : live[r].state = "bound" <=> live[r] \in Bound
         /\ \A r \in Roots : live[r] \in {None, Partial} => live[r].state # "bound"
         /\ \A o \in Operators : command[o] \in Commands
         /\ \A m \in Memories : memory[m] \in Nat
  BY FileKinds DEF Types, StoreTypes, FileTypes, ProcessTypes, Jobs, Known, Contents

LEMMA WriteTypes ==
  ASSUME IInv, NEW m \in Memories, Write(m)
  PROVE  Types'
  <1>1. StoreTypes'
    <2>1. [id |-> m, status |-> "pending"] \in Row
      BY DEF Row, Statuses
    <2>2. outbox' \in Seq(Row) /\ Len(outbox') = Len(outbox) + 1
      BY <2>1 DEF Write, IInv, Types, StoreTypes
    <2>. QED  BY <2>2, GenerationsAssumption, Typed
              DEF Write, IInv, Types, StoreTypes, Contents
  <1>. QED  BY <1>1 DEF Write, IInv, Types, FileTypes, ProcessTypes, files

\* A row whose status alone is written.
LEMMA Rewritten ==
  ASSUME IInv, NEW j \in Jobs, NEW st \in Statuses,
         outbox' = [outbox EXCEPT ![j].status = st]
  PROVE  /\ outbox' \in Seq(Row) /\ Len(outbox') = Len(outbox)
         /\ outbox'[j].id = outbox[j].id /\ outbox'[j].status = st
         /\ \A k \in Jobs \ {j} : outbox'[k] = outbox[k]
  <1> DEFINE row == [outbox[j] EXCEPT !.status = st]
  <1>1. outbox[j] \in Row
    BY Typed DEF IInv
  <1>2. row \in Row /\ row.id = outbox[j].id /\ row.status = st
    BY <1>1 DEF Row
  <1>3. outbox' = [outbox EXCEPT ![j] = row]
    OBVIOUS
  <1> HIDE DEF row
  <1>. QED  BY <1>2, <1>3 DEF IInv, Types, StoreTypes, Jobs

LEMMA RequeueTypes ==
  ASSUME IInv, NEW j \in Jobs, Requeue(j)
  PROVE  Types'
  <1>1. outbox' \in Seq(Row) /\ Len(outbox') = Len(outbox)
    <2>1. "pending" \in Statuses
      BY DEF Statuses
    <2>. QED  BY <2>1, Rewritten DEF Requeue
  <1>. QED  BY <1>1 DEF Requeue, IInv, Types, StoreTypes, FileTypes, ProcessTypes, files

LEMMA ServeTypes ==
  ASSUME IInv, Serve
  PROVE  Types'
  <1> USE DEF IInv, Types, StoreTypes, FileTypes, ProcessTypes, files, store
  <1>1. CASE Resolve
    <2>1. Selected \in Gens
      BY <1>1, Typed DEF Resolve, Selected
    <2>. QED  BY <1>1, <2>1 DEF Resolve, Resolved
  <1>2. CASE Stop
    BY <1>2 DEF Stop
  <1>3. ASSUME NEW r \in Roots, Open(r) PROVE Types'
    BY <1>3, ServerKinds DEF Open, Resolved, Serving
  <1>4. ASSUME server.phase = "serving", NEW j \in Nat
        PROVE  [server EXCEPT !.job = j] \in Serving
    BY <1>4, ServerKinds DEF Serving
  <1>5. ASSUME NEW j \in Jobs, Claim(j) PROVE Types'
    <2>1. "processing" \in Statuses
      BY DEF Statuses
    <2>2. outbox' \in Seq(Row) /\ Len(outbox') = Len(outbox)
      BY <1>5, <2>1, Rewritten DEF Claim
    <2>. QED  BY <1>4, <1>5, <2>2 DEF Claim, Jobs
  <1>6. ASSUME server.phase = "serving", server.job # 0
        PROVE  server.job \in Jobs
    BY <1>6 DEF LiveInv, ServerKnows, Newer, Down
  <1>7. CASE Replay
    <2>1. "done" \in Statuses
      BY DEF Statuses
    <2>2. outbox' \in Seq(Row) /\ Len(outbox') = Len(outbox)
      BY <1>6, <1>7, <2>1, Rewritten DEF Replay
    <2>3. live' \in [Roots -> {None, Partial} \cup Bound]
      <3> DEFINE m == outbox[server.job].id
                 rt == live[server.root]
                 ix == [rt.index EXCEPT ![m] = server.job]
                 new == [rt EXCEPT !.index = ix]
      <3>1. rt \in Bound /\ server \in Serving /\ server.root \in Roots
        BY <1>7, ServerKinds, Typed DEF Replay, LiveInv, ServerKnows, Down, Serving
      <3>2. rt.index \in Contents /\ server.job \in Nat
        BY <3>1 DEF Bound, Serving
      <3>3. ix \in Contents
        BY <3>2 DEF Contents
      <3>4. new \in Bound
        BY <3>1, <3>3 DEF Bound
      <3>5. live' = live \/ live' = [live EXCEPT ![server.root] = new]
        BY <1>7 DEF Replay
      <3> HIDE DEF new
      <3>. QED  BY <3>1, <3>4, <3>5
    <2>. QED  BY <1>4, <1>7, <2>2, <2>3 DEF Replay
  <1>8. ASSUME NEW parked \in BOOLEAN, Fail(parked) PROVE Types'
    <2> DEFINE st == IF parked THEN "parked" ELSE "pending"
    <2>1. st \in Statuses
      BY DEF Statuses
    <2> HIDE DEF st
    <2>2. outbox' = [outbox EXCEPT ![server.job].status = st]
      BY <1>8 DEF Fail, st
    <2>3. outbox' \in Seq(Row) /\ Len(outbox') = Len(outbox)
      BY <1>6, <1>8, <2>1, <2>2, Rewritten DEF Fail
    <2>. QED  BY <1>4, <1>8, <2>3 DEF Fail
  <1>. QED  BY <1>1, <1>2, <1>3, <1>5, <1>7, <1>8 DEF Serve

\* A command that goes on to another phase, and one that ends.
LEMMA CommandTypes ==
  ASSUME IInv, NEW o \in Operators, NEW c \in Commands,
         command' = [command EXCEPT ![o] = c]
  PROVE  /\ command' \in [Operators -> Commands]
         /\ command'[o] = c
         /\ \A p \in Operators \ {o} : command'[p] = command[p]
  BY DEF IInv, Types, ProcessTypes

LEMMA BecomesTypes ==
  ASSUME IInv, NEW o \in Operators, NEW ph \in Locking, HoldsLock(o), Becomes(o, ph)
  PROVE  /\ command' \in [Operators -> Commands]
         /\ command[o] \in LockCommand
         /\ command'[o] \in LockCommand
         /\ command'[o].phase = ph
         /\ command'[o].name = command[o].name /\ command'[o].gen = command[o].gen
         /\ command'[o].receipt = command[o].receipt
         /\ command'[o].manifest = command[o].manifest
         /\ command'[o].pointer = command[o].pointer
         /\ \A p \in Operators \ {o} : command'[p] = command[p]
  <1> DEFINE c == [command[o] EXCEPT !.phase = ph]
  <1>1. command[o] \in LockCommand
    BY Kinds, Typed DEF IInv, HoldsLock
  <1>2. command' = [command EXCEPT ![o] = c]
    BY DEF Becomes
  <1>3. /\ c \in LockCommand /\ c.phase = ph /\ c.name = command[o].name
        /\ c.gen = command[o].gen /\ c.receipt = command[o].receipt
        /\ c.manifest = command[o].manifest /\ c.pointer = command[o].pointer
    BY <1>1, Rephased
  <1> HIDE DEF c
  <1>4. c \in Commands
    BY <1>3 DEF Commands
  <1>. QED  BY <1>1, <1>2, <1>3, <1>4, CommandTypes

LEMMA EndsTypes ==
  ASSUME IInv, NEW o \in Operators, Ends(o)
  PROVE  /\ command' \in [Operators -> Commands]
         /\ command'[o] = Idle
         /\ \A p \in Operators \ {o} : command'[p] = command[p]
  <1>1. Idle \in Commands
    BY DEF Commands
  <1>. QED  BY <1>1, CommandTypes DEF Ends

LEMMA StartedTypes ==
  ASSUME IInv, NEW g \in Gens, Known(g), NEW n \in {"mark", "verify", "promote", "rollback"},
         NEW r \in Receipt \cup {None}
  PROVE  Started(n, g, r) \in LockCommand
  BY Typed DEF IInv, Started, LockCommand, Locking, Working

\* Writing one manifest.
LEMMA ManifestTypes ==
  ASSUME IInv, NEW g \in Gens, NEW man \in {None, Unfinished} \cup Sealed,
         manifest' = [manifest EXCEPT ![g] = man]
  PROVE  /\ manifest' \in [Gens -> {None, Unfinished} \cup Sealed]
         /\ manifest'[g] = man
         /\ \A h \in Gens \ {g} : manifest'[h] = manifest[h]
  BY DEF IInv, Types, FileTypes

LEMMA CloneTypes ==
  ASSUME IInv, NEW o \in Operators, NEW g \in Gens, Clone(o, g)
  PROVE  /\ command' \in [Operators -> Commands]
         /\ command'[o].phase = "cloned" /\ command'[o].gen = g
         /\ command'[o].name = "build"
         /\ command'[o].snapshot = memory /\ command'[o].watermark = Len(outbox)
         /\ \A p \in Operators \ {o} : command'[p] = command[p]
  <1> DEFINE c == [phase |-> "cloned", name |-> "build", gen |-> g,
                   snapshot |-> memory, watermark |-> Len(outbox)]
  <1>1. c \in BuildCommand
    BY Typed DEF BuildCommand, IInv, Types, StoreTypes
  <1>2. command' = [command EXCEPT ![o] = c]
    BY DEF Clone
  <1>3. c.phase = "cloned" /\ c.gen = g /\ c.name = "build" /\ c.snapshot = memory /\ c.watermark = Len(outbox)
    OBVIOUS
  <1> HIDE DEF c
  <1>. QED  BY <1>1, <1>2, <1>3, CommandTypes DEF Commands

LEMMA BuildTypes ==
  ASSUME IInv, NEW o \in Operators, Build(o)
  PROVE  /\ command[o] \in BuildCommand
         /\ command' \in [Operators -> Commands]
         /\ command'[o].phase = "building" /\ command'[o].gen = command[o].gen
         /\ command'[o].name = "build"
         /\ command'[o].snapshot = command[o].snapshot
         /\ command'[o].watermark = command[o].watermark
         /\ \A p \in Operators \ {o} : command'[p] = command[p]
         /\ manifest' \in [Gens -> {None, Unfinished} \cup Sealed]
         /\ manifest'[command[o].gen] = Unfinished
         /\ \A h \in Gens \ {command[o].gen} : manifest'[h] = manifest[h]
  <1> DEFINE c == [command[o] EXCEPT !.phase = "building"]
  <1>1. command[o] \in BuildCommand
    BY Kinds, Typed DEF IInv, Build
  <1>2. command' = [command EXCEPT ![o] = c]
    BY DEF Build, Becomes
  <1>3. c.phase = "building" /\ c.gen = command[o].gen /\ c.name = "build"
        /\ c.snapshot = command[o].snapshot /\ c.watermark = command[o].watermark
        /\ c \in BuildCommand
    BY <1>1 DEF BuildCommand
  <1> HIDE DEF c
  <1>4. command[o].gen \in Gens
    BY <1>1 DEF BuildCommand
  <1>5. manifest' = [manifest EXCEPT ![command[o].gen] = Unfinished]
    BY DEF Build, Unfinished
  <1>. QED  BY <1>1, <1>2, <1>3, <1>4, <1>5, CommandTypes, ManifestTypes DEF Commands

LEMMA CompleteTypes ==
  ASSUME IInv, NEW o \in Operators, NEW built \in BOOLEAN, Complete(o, built)
  PROVE  /\ command[o] \in BuildCommand /\ command[o].gen \in Gens
         /\ manifest' \in [Gens -> {None, Unfinished} \cup Sealed]
         /\ \A h \in Gens \ {command[o].gen} : manifest'[h] = manifest[h]
         /\ \/ manifest'[command[o].gen] = None
            \/ /\ manifest'[command[o].gen].snapshot = command[o].snapshot
               /\ manifest'[command[o].gen].watermark = command[o].watermark
               /\ manifest'[command[o].gen].reconciled = FALSE
  <1> DEFINE c == command[o]
             man == [state |-> "complete", snapshot |-> c.snapshot, watermark |-> c.watermark,
                     reconciled |-> FALSE, receipt |-> None, verified |-> FALSE]
  <1>1. c \in BuildCommand
    BY Kinds, Typed DEF IInv, Complete
  <1>2. man \in Sealed
    BY <1>1 DEF BuildCommand, Sealed
  <1>3. man.snapshot = c.snapshot /\ man.watermark = c.watermark /\ man.reconciled = FALSE
    OBVIOUS
  <1>4. c.gen \in Gens
    BY <1>1 DEF BuildCommand
  <1>5. \/ manifest' = [manifest EXCEPT ![c.gen] = man]
        \/ manifest' = [manifest EXCEPT ![c.gen] = None]
    BY DEF Complete
  <1> HIDE DEF man
  <1>. QED  BY <1>1, <1>2, <1>3, <1>4, <1>5, ManifestTypes

LEMMA LoadTypes ==
  ASSUME IInv, NEW o \in Operators, NEW g \in Gens, Load(o, g)
  PROVE  /\ command' \in [Operators -> Commands]
         /\ command'[o].phase = "loaded" /\ command'[o].gen = g /\ command'[o].name = "reconcile"
         /\ \A p \in Operators \ {o} : command'[p] = command[p]
  <1> DEFINE c == [phase |-> "loaded", name |-> "reconcile", gen |-> g, seal |-> Seal(g)]
  <1>1. manifest[g] \in Sealed
    BY Typed DEF Load, IInv
  <1>2. Seal(g) \in Flags
    BY <1>1 DEF Seal, Sealed, Flags
  <1>3. c \in LoadCommand
    BY <1>2 DEF LoadCommand
  <1>4. command' = [command EXCEPT ![o] = c]
    BY DEF Load
  <1>5. c.phase = "loaded" /\ c.gen = g /\ c.name = "reconcile"
    OBVIOUS
  <1> HIDE DEF c
  <1>. QED  BY <1>3, <1>4, <1>5, CommandTypes DEF Commands

LEMMA AcknowledgeTypes ==
  ASSUME IInv, NEW o \in Operators, Acknowledge(o)
  PROVE  /\ command[o] \in LoadCommand /\ command[o].gen \in Gens
         /\ command' \in [Operators -> Commands]
         /\ command'[o].phase = "issued" /\ command'[o].gen = command[o].gen
         /\ command'[o].name = "reconcile"
         /\ \A p \in Operators \ {o} : command'[p] = command[p]
         /\ receipt' \in [Gens -> Receipt \cup {None}]
         /\ \A h \in Gens \ {command[o].gen} : receipt'[h] = receipt[h]
         /\ receipt'[command[o].gen] # None
         /\ outbox' \in Seq(Row) /\ Len(outbox') = Len(outbox)
         /\ \A j \in Jobs : outbox'[j].id = outbox[j].id
         /\ \A j \in Jobs : outbox'[j].status # outbox[j].status =>
                              j \in Window(command[o].gen)
  <1> DEFINE g == command[o].gen
             n == IF receipt[g] = None THEN 1 ELSE receipt[g].number + 1
             issued == [number |-> n, seal |-> command[o].seal]
             c == [phase |-> "issued", name |-> "reconcile", gen |-> g, receipt |-> issued]
  <1>1. command[o] \in LoadCommand
    BY Kinds, Typed DEF IInv, Acknowledge
  <1>2. g \in Gens /\ command[o].seal \in Flags
    BY <1>1 DEF LoadCommand
  <1>3. receipt[g] \in Receipt \cup {None}
    BY <1>2 DEF IInv, Types, StoreTypes
  <1>4. n \in Nat
    BY <1>3 DEF Receipt
  <1>5. command' = [command EXCEPT ![o] = c] /\ receipt' = [receipt EXCEPT ![g] = issued]
    BY DEF Acknowledge
  <1> HIDE DEF n
  <1>6. issued \in Receipt
    BY <1>2, <1>4 DEF Receipt
  <1> HIDE DEF issued
  <1>7. c \in IssueCommand /\ c.phase = "issued" /\ c.gen = g /\ c.name = "reconcile"
    BY <1>2, <1>6 DEF IssueCommand
  <1> HIDE DEF c
  <1>8. outbox' = [j \in Jobs |-> IF j \in Window(g) THEN [outbox[j] EXCEPT !.status = "done"]
                                  ELSE outbox[j]]
    BY DEF Acknowledge
  <1>9. \A j \in Jobs : /\ outbox'[j] \in Row /\ outbox'[j].id = outbox[j].id
                        /\ outbox'[j].status # outbox[j].status => j \in Window(g)
    <2> SUFFICES ASSUME NEW j \in Jobs
                 PROVE  /\ outbox'[j] \in Row /\ outbox'[j].id = outbox[j].id
                        /\ outbox'[j].status # outbox[j].status => j \in Window(g)
      OBVIOUS
    <2>1. outbox[j] \in Row
      BY Typed DEF IInv
    <2>2. /\ [outbox[j] EXCEPT !.status = "done"] \in Row
          /\ [outbox[j] EXCEPT !.status = "done"].id = outbox[j].id
      BY <2>1 DEF Row, Statuses
    <2>. QED  BY <1>8, <2>1, <2>2
  <1>10. outbox' \in Seq(Row) /\ Len(outbox') = Len(outbox)
    BY <1>8, <1>9, Typed DEF Jobs, IInv
  <1>. QED  BY <1>1, <1>2, <1>3, <1>5, <1>6, <1>7, <1>9, <1>10, CommandTypes, NoReceipt
            DEF Commands, IInv, Types, StoreTypes

\* A command that has passed its checks and taken both locks.
LEMMA StartTypes ==
  ASSUME IInv, NEW o \in Operators, NEW g \in Gens, Known(g),
         NEW n \in {"mark", "verify", "promote", "rollback"}, NEW r \in Receipt \cup {None},
         command' = [command EXCEPT ![o] = Started(n, g, r)]
  PROVE  /\ command' \in [Operators -> Commands]
         /\ command'[o].phase = "checked" /\ command'[o].name = n /\ command'[o].gen = g
         /\ command'[o].receipt = r
         /\ command'[o].manifest = manifest[g] /\ command'[o].pointer = current
         /\ \A p \in Operators \ {o} : command'[p] = command[p]
  <1> DEFINE c == Started(n, g, r)
  <1>1. c \in LockCommand
    BY StartedTypes
  <1>2. /\ c.phase = "checked" /\ c.name = n /\ c.gen = g /\ c.receipt = r
        /\ c.manifest = manifest[g] /\ c.pointer = current
    BY DEF Started
  <1> HIDE DEF c
  <1>. QED  BY <1>1, <1>2, CommandTypes DEF Commands, c

LEMMA MarkTypes ==
  ASSUME IInv, NEW o \in Operators, Mark(o)
  PROVE  /\ command[o].gen \in Gens
         /\ command' \in [Operators -> Commands]
         /\ command'[o].phase = "checked" /\ command'[o].name = "mark"
         /\ command'[o].gen = command[o].gen
         /\ command'[o].receipt # None
         /\ command'[o].manifest = manifest[command[o].gen] /\ command'[o].pointer = current
         /\ \A p \in Operators \ {o} : command'[p] = command[p]
  <1>1. command[o] \in IssueCommand
    BY Kinds, Typed DEF IInv, Mark
  <1>2. PICK g \in Gens : g = command[o].gen
    BY <1>1 DEF IssueCommand
  <1>3. PICK r \in Receipt : r = receipt[g]
    BY <1>1, <1>2 DEF IssueCommand, Mark
  <1> DEFINE c == Started("mark", g, r)
  <1>4. command' = [command EXCEPT ![o] = c] /\ Known(g)
    BY <1>2, <1>3 DEF Mark
  <1>5. r # None
    BY <1>3, NoReceipt
  <1>6. manifest[g] \in Sealed
    BY <1>4, Typed DEF IInv
  <1>7. /\ c \in LockCommand /\ c.phase = "checked" /\ c.name = "mark" /\ c.gen = g
        /\ c.receipt = r /\ c.manifest = manifest[g] /\ c.pointer = current
    BY <1>6, Typed DEF IInv, Started, LockCommand, Locking, Working
  <1> HIDE DEF c
  <1>. QED  BY <1>2, <1>4, <1>5, <1>7, CommandTypes DEF Commands

LEMMA BeginTypes ==
  ASSUME IInv, NEW o \in Operators, NEW g \in Gens, NEW n \in {"verify"} \cup Moves, Begin(o, n, g)
  PROVE  /\ command' \in [Operators -> Commands]
         /\ command'[o].phase = "checked" /\ command'[o].name = n /\ command'[o].gen = g
         /\ command'[o].manifest = manifest[g] /\ command'[o].pointer = current
         /\ \A p \in Operators \ {o} : command'[p] = command[p]
  <1>1. n \in {"mark", "verify", "promote", "rollback"} /\ None \in Receipt \cup {None}
    BY DEF Moves
  <1>2. command' = [command EXCEPT ![o] = Started(n, g, None)] /\ Known(g)
    BY DEF Begin
  <1>. QED  BY <1>1, <1>2, StartTypes, ZenonT(60)

LEMMA LockingPhases ==
  ASSUME NEW o \in Operators
  PROVE  /\ Stamps(o) \/ Ready(o) => HoldsLock(o) /\ command[o].phase \in {"checked", "stamped"}
         /\ command[o].phase \in {"checked", "stamped", "linked", "switched", "undo", "unstamp"} =>
              HoldsLock(o)
         /\ HoldsLock(o) => Exclusive(o)
  BY DEF Stamps, Ready, HoldsLock, Locking, Working, Exclusive

LEMMA StampTypes ==
  ASSUME IInv, NEW o \in Operators, Stamp(o)
  PROVE  LET g == command[o].gen
         IN  /\ g \in Gens /\ command[o] \in LockCommand
             /\ manifest' \in [Gens -> {None, Unfinished} \cup Sealed]
             /\ manifest'[g] \in Sealed /\ manifest[g] \in Sealed
             /\ manifest'[g].snapshot = manifest[g].snapshot
             /\ manifest'[g].watermark = manifest[g].watermark
             /\ command[o].name = "mark" => /\ manifest'[g].reconciled
                                            /\ manifest'[g].receipt = command[o].receipt
                                            /\ manifest'[g].verified = manifest[g].verified
             /\ command[o].name # "mark" => /\ manifest'[g].verified
                                            /\ manifest'[g].receipt = manifest[g].receipt
                                            /\ manifest'[g].reconciled = manifest[g].reconciled
             /\ \A h \in Gens \ {g} : manifest'[h] = manifest[h]
  <1> DEFINE g == command[o].gen
             man == manifest[g]
             marked == [[man EXCEPT !.reconciled = TRUE] EXCEPT !.receipt = command[o].receipt]
             checked == [man EXCEPT !.verified = TRUE]
  <1>1. command[o] \in LockCommand /\ HoldsLock(o)
    BY Kinds, Typed, LockingPhases DEF IInv, Stamp, HoldsLock
  <1>2. g \in Gens /\ command[o].receipt \in Receipt \cup {None}
    BY <1>1 DEF LockCommand
  <1>3. man \in Sealed
    BY <1>1, <1>2, Typed DEF IInv, CommandInv, Remembers
  <1>4. /\ marked \in Sealed /\ marked.snapshot = man.snapshot
        /\ marked.watermark = man.watermark /\ marked.reconciled = TRUE
        /\ marked.receipt = command[o].receipt /\ marked.verified = man.verified
    BY <1>2, <1>3 DEF Sealed
  <1>5. /\ checked \in Sealed /\ checked.snapshot = man.snapshot
        /\ checked.watermark = man.watermark /\ checked.reconciled = man.reconciled
        /\ checked.receipt = man.receipt /\ checked.verified = TRUE
    BY <1>3 DEF Sealed
  <1>6. manifest' = [manifest EXCEPT ![g] = IF command[o].name = "mark" THEN marked ELSE checked]
    BY DEF Stamp, Stamped
  <1> HIDE DEF marked, checked
  <1>. QED  BY <1>1, <1>2, <1>3, <1>4, <1>5, <1>6, ManifestTypes

LEMMA BootstrapTypes ==
  ASSUME IInv, NEW o \in Operators, NEW r \in Roots, Bootstrap(o, r)
  PROVE  /\ command' \in [Operators -> Commands]
         /\ command'[o].phase = "copying" /\ command'[o].gen = Selected
         /\ command'[o].act = current /\ Selected \in Gens
         /\ command'[o].name = "bootstrap"
         /\ \A p \in Operators \ {o} : command'[p] = command[p]
  <1> DEFINE c == [phase |-> "copying", name |-> "bootstrap", gen |-> Selected,
                   act |-> current, root |-> r]
  <1>1. Selected \in Gens
    BY Typed DEF Bootstrap, IInv, Selected, Types, FileTypes
  <1>2. /\ c \in CopyCommand /\ c.phase = "copying" /\ c.gen = Selected /\ c.act = current
        /\ c.name = "bootstrap"
    BY <1>1, Typed DEF CopyCommand, IInv
  <1>3. command' = [command EXCEPT ![o] = c]
    BY DEF Bootstrap
  <1> HIDE DEF c
  <1>. QED  BY <1>1, <1>2, <1>3, CommandTypes DEF Commands

LEMMA PublishTypes ==
  ASSUME IInv, NEW o \in Operators, Publish(o)
  PROVE  LET c == command[o]
         IN  /\ c \in CopyCommand /\ c.root \in Roots /\ live[c.root] = None
             /\ live' \in [Roots -> {None, Partial} \cup Bound]
             /\ live'[c.root].state = "bound" /\ live'[c.root].gen = c.gen
             /\ live'[c.root].act = c.act
             /\ live'[c.root].index = manifest[c.gen].snapshot
             /\ \A r \in Roots \ {c.root} : live'[r] = live[r]
  <1> DEFINE c == command[o]
             root == [state |-> "bound", gen |-> c.gen, act |-> c.act,
                      index |-> manifest[c.gen].snapshot]
  <1>1. c \in CopyCommand
    BY Kinds, Typed DEF IInv, Publish
  <1>2. c.gen \in Gens /\ c.root \in Roots /\ c.act \in Nat
    BY <1>1 DEF CopyCommand
  <1>3. manifest[c.gen].snapshot \in Contents
    BY <1>2, Typed DEF IInv, LiveInv, LiveRoots, BoundRoot, Publish, Sealed
  <1>4. /\ root \in Bound /\ root.state = "bound" /\ root.gen = c.gen /\ root.act = c.act
        /\ root.index = manifest[c.gen].snapshot
    BY <1>2, <1>3 DEF Bound
  <1>5. live' = [live EXCEPT ![c.root] = root] /\ live[c.root] = None
    BY DEF Publish
  <1> HIDE DEF root
  <1>. QED  BY <1>1, <1>2, <1>4, <1>5 DEF IInv, Types, FileTypes

LEMMA PublishPartTypes ==
  ASSUME IInv, NEW o \in Operators, PublishPart(o)
  PROVE  LET c == command[o]
         IN  /\ c.root \in Roots /\ live[c.root] = None
             /\ live' \in [Roots -> {None, Partial} \cup Bound]
             /\ live'[c.root] = Partial
             /\ \A r \in Roots \ {c.root} : live'[r] = live[r]
  <1>1. command[o] \in CopyCommand
    BY Kinds, Typed DEF IInv, PublishPart
  <1>. QED  BY <1>1 DEF PublishPart, Partial, CopyCommand, IInv, Types, FileTypes

LEMMA RunTypes ==
  ASSUME IInv, NEW o \in Operators, Run(o)
  PROVE  Types'
  <1> USE DEF IInv, Types, StoreTypes, FileTypes, ProcessTypes, files, store
  <1>1. ASSUME NEW g \in Gens, Clone(o, g) PROVE Types'
    BY <1>1, CloneTypes DEF Clone
  <1>2. ASSUME NEW g \in Gens, Load(o, g) PROVE Types'
    BY <1>2, LoadTypes DEF Load
  <1>3. ASSUME NEW g \in Gens, NEW n \in {"verify"} \cup Moves, Begin(o, n, g) PROVE Types'
    BY <1>3, BeginTypes DEF Begin
  <1>4. ASSUME NEW built \in BOOLEAN, Complete(o, built) PROVE Types'
    BY <1>4, CompleteTypes, EndsTypes DEF Complete
  <1>5. CASE Build(o)
    BY <1>5, BuildTypes DEF Build
  <1>6. CASE Acknowledge(o)
    BY <1>6, AcknowledgeTypes DEF Acknowledge
  <1>7. CASE Mark(o)
    BY <1>7, MarkTypes DEF Mark
  <1>8. ASSUME NEW ph \in Locking, HoldsLock(o), Becomes(o, ph)
        PROVE  command' \in [Operators -> Commands]
    BY <1>8, BecomesTypes
  <1>9. CASE Stamp(o)
    <2>1. HoldsLock(o) /\ Becomes(o, "stamped") /\ "stamped" \in Locking
      BY <1>9, LockingPhases DEF Stamp, Locking, Working
    <2>. QED  BY <1>8, <1>9, <2>1, StampTypes DEF Stamp
  <1>10. CASE Link(o)
    <2>1. HoldsLock(o) /\ Becomes(o, "linked") /\ "linked" \in Locking
      BY <1>10, LockingPhases DEF Link, Locking, Working
    <2>2. command[o].gen \in Gens
      BY <2>1, Kinds, Typed DEF HoldsLock, LockCommand
    <2>3. Len(selections) < MaxMoves
      BY <1>10, <2>1, LockingPhases DEF Link, CommandInv, Progress
    <2>. QED  BY <1>8, <1>10, <2>1, <2>2, <2>3, Typed, GenerationsAssumption DEF Link
  <1>11. CASE Switch(o)
    <2>1. HoldsLock(o) /\ Becomes(o, "switched") /\ "switched" \in Locking
      BY <1>11, LockingPhases DEF Switch, Locking, Working
    <2>. QED  BY <1>8, <1>11, <2>1, Typed DEF Switch
  <1>12. CASE Commit(o)
    BY <1>12, EndsTypes DEF Commit
  <1>13. CASE Abort(o)
    <2>1. /\ HoldsLock(o) /\ {"undo", "unstamp"} \subseteq Locking
          /\ Becomes(o, "undo") \/ Becomes(o, "unstamp")
      BY <1>13 DEF Abort, HoldsLock, Locking, FirstUndone
    <2>. QED  BY <1>8, <1>13, <2>1, GenerationsAssumption DEF Abort, Fault
  <1>14. CASE RestorePointer(o)
    <2>1. HoldsLock(o) /\ Becomes(o, "unstamp") /\ "unstamp" \in Locking
      BY <1>14, LockingPhases DEF RestorePointer, Locking
    <2>2. command[o].pointer \in 0..Len(selections)
      BY <2>1, Kinds, Typed DEF HoldsLock, LockCommand, CommandInv, Remembers
    <2>. QED  BY <1>8, <1>14, <2>1, <2>2 DEF RestorePointer
  <1>15. CASE RestoreManifest(o)
    <2>1. command[o] \in LockCommand
      BY <1>15, Kinds, Typed, LockingPhases DEF RestoreManifest, HoldsLock
    <2>. QED  BY <1>15, <2>1, EndsTypes DEF RestoreManifest, LockCommand
  <1>16. ASSUME NEW r \in Roots, Bootstrap(o, r) PROVE Types'
    BY <1>16, BootstrapTypes DEF Bootstrap
  <1>17. CASE Publish(o)
    BY <1>17, PublishTypes, EndsTypes DEF Publish
  <1>18. CASE PublishPart(o)
    <2>1. live' \in [Roots -> {None, Partial} \cup Bound]
      BY <1>18, PublishPartTypes
    <2>2. command' \in [Operators -> Commands]
      BY <1>18, EndsTypes DEF PublishPart
    <2>. QED  BY <1>18, <2>1, <2>2, GenerationsAssumption DEF PublishPart, Fault
  <1>19. CASE Quit(o)
    BY <1>19, EndsTypes DEF Quit
  <1>20. CASE Crash(o)
    BY <1>20, EndsTypes, GenerationsAssumption DEF Crash, Fault
  <1>. QED  BY <1>1, <1>2, <1>3, <1>4, <1>5, <1>6, <1>7, <1>9, <1>10, <1>11, <1>12, <1>13,
               <1>14, <1>15, <1>16, <1>17, <1>18, <1>19, <1>20 DEF Run

LEMMA NextTypes ==
  ASSUME IInv, Next
  PROVE  Types'
  BY WriteTypes, RequeueTypes, RunTypes, ServeTypes DEF Next

-----------------------------------------------------------------------------
(***************************************************************************)
(* What the locks give.                                                    *)
(***************************************************************************)

\* A step of one operator as the others see it: it runs while nobody else holds
\* the lifecycle lock, or leaves the manifests and the pointer alone.
LEMMA RunAlone ==
  ASSUME IInv, NEW o \in Operators, Run(o)
  PROVE  /\ \A p \in Operators \ {o} : command'[p] = command[p]
         /\ \/ LifecycleFree
            \/ Exclusive(o)
            \/ UNCHANGED <<manifest, selections, current>> /\ ~Exclusive(o)'
         /\ command'[o].phase = "copying" => LifecycleFree /\ command'[o].act = current
         /\ Acknowledge(o) \/ UNCHANGED <<memory, outbox, receipt>>
         /\ server' = server
  <1> DEFINE Goal == /\ \A p \in Operators \ {o} : command'[p] = command[p]
                     /\ \/ LifecycleFree
                        \/ Exclusive(o)
                        \/ UNCHANGED <<manifest, selections, current>> /\ ~Exclusive(o)'
                     /\ command'[o].phase = "copying" =>
                          LifecycleFree /\ command'[o].act = current
                     /\ Acknowledge(o) \/ UNCHANGED <<memory, outbox, receipt>>
                     /\ server' = server
  <1> USE DEF files, store
  <1>1. ASSUME NEW g \in Gens, Clone(o, g) PROVE Goal
    BY <1>1, CloneTypes DEF Clone, Exclusive, Working
  <1>2. ASSUME NEW g \in Gens, Load(o, g) PROVE Goal
    BY <1>2, LoadTypes DEF Load
  <1>3. ASSUME NEW g \in Gens, NEW n \in {"verify"} \cup Moves, Begin(o, n, g) PROVE Goal
    BY <1>3, BeginTypes DEF Begin
  <1>4. ASSUME NEW built \in BOOLEAN, Complete(o, built) PROVE Goal
    BY <1>4, EndsTypes DEF Complete, Exclusive, Idle
  <1>5. CASE Build(o)
    BY <1>5, BuildTypes DEF Build
  <1>6. CASE Acknowledge(o)
    BY <1>6, AcknowledgeTypes DEF Acknowledge, Exclusive, Working
  <1>7. CASE Mark(o)
    BY <1>7, MarkTypes DEF Mark
  <1>8. ASSUME NEW ph \in Locking, HoldsLock(o), Becomes(o, ph)
        PROVE  /\ \A p \in Operators \ {o} : command'[p] = command[p]
               /\ Exclusive(o) /\ command'[o].phase # "copying"
    BY <1>8, BecomesTypes, LockingPhases DEF Locking, Working
  <1>9. CASE Stamp(o)
    <2>1. HoldsLock(o) /\ Becomes(o, "stamped") /\ "stamped" \in Locking
      BY <1>9, LockingPhases DEF Stamp, Locking, Working
    <2>. QED  BY <1>8, <1>9, <2>1 DEF Stamp
  <1>10. CASE Link(o)
    <2>1. HoldsLock(o) /\ Becomes(o, "linked") /\ "linked" \in Locking
      BY <1>10, LockingPhases DEF Link, Locking, Working
    <2>. QED  BY <1>8, <1>10, <2>1 DEF Link
  <1>11. CASE Switch(o)
    <2>1. HoldsLock(o) /\ Becomes(o, "switched") /\ "switched" \in Locking
      BY <1>11, LockingPhases DEF Switch, Locking, Working
    <2>. QED  BY <1>8, <1>11, <2>1 DEF Switch
  <1>12. CASE Commit(o)
    <2>1. HoldsLock(o)
      BY <1>12, LockingPhases DEF Commit
    <2>. QED  BY <1>12, <2>1, EndsTypes, LockingPhases DEF Commit, Idle
  <1>13. CASE Abort(o)
    <2>1. /\ HoldsLock(o) /\ {"undo", "unstamp"} \subseteq Locking
          /\ Becomes(o, "undo") \/ Becomes(o, "unstamp")
      BY <1>13 DEF Abort, HoldsLock, Locking, FirstUndone
    <2>. QED  BY <1>8, <1>13, <2>1 DEF Abort
  <1>14. CASE RestorePointer(o)
    <2>1. HoldsLock(o) /\ Becomes(o, "unstamp") /\ "unstamp" \in Locking
      BY <1>14, LockingPhases DEF RestorePointer, Locking
    <2>. QED  BY <1>8, <1>14, <2>1 DEF RestorePointer
  <1>15. CASE RestoreManifest(o)
    BY <1>15, EndsTypes DEF RestoreManifest, Exclusive, Idle
  <1>16. ASSUME NEW r \in Roots, Bootstrap(o, r) PROVE Goal
    BY <1>16, BootstrapTypes DEF Bootstrap
  <1>17. CASE Publish(o)
    BY <1>17, EndsTypes DEF Publish, Exclusive, Working, Idle
  <1>18. CASE PublishPart(o)
    BY <1>18, EndsTypes DEF PublishPart, Exclusive, Working, Idle
  <1>19. CASE Quit(o)
    BY <1>19, EndsTypes DEF Quit, Exclusive, Working, Idle
  <1>20. CASE Crash(o)
    BY <1>20, EndsTypes DEF Crash, Idle
  <1>. QED  BY <1>1, <1>2, <1>3, <1>4, <1>5, <1>6, <1>7, <1>9, <1>10, <1>11, <1>12, <1>13,
               <1>14, <1>15, <1>16, <1>17, <1>18, <1>19, <1>20 DEF Run

\* Steps that are no operator's leave commands, manifests and pointer alone.
LEMMA OtherSteps ==
  ASSUME Next, \A o \in Operators : ~Run(o)
  PROVE  UNCHANGED <<command, manifest, selections, current>>
  BY DEF Next, Write, Requeue, Serve, Resolve, Stop, Replay, Open, Claim, Fail, files

\* Only one command is under the lifecycle lock.
LEMMA LocksStep ==
  ASSUME IInv, Next
  PROVE  Locks'
  <1>1. CASE \A o \in Operators : ~Run(o)
    BY <1>1, OtherSteps DEF IInv, CommandInv, Locks, Exclusive
  <1>2. ASSUME NEW o \in Operators, Run(o) PROVE Locks'
    <2> SUFFICES ASSUME NEW p \in Operators, p # o, Exclusive(o)', Exclusive(p)' PROVE FALSE
      <3>1. \A p \in Operators \ {o} : Exclusive(p)' <=> Exclusive(p)
        BY <1>2, RunAlone DEF Exclusive
      <3>. QED  BY <3>1 DEF IInv, CommandInv, Locks
    <2>1. Exclusive(p)
      BY <1>2, RunAlone DEF Exclusive
    <2>. QED  BY <1>2, <2>1, RunAlone DEF IInv, CommandInv, Locks, LifecycleFree
  <1>. QED  BY <1>1, <1>2

\* Whoever holds the lifecycle lock sees nobody else change a manifest, the
\* activations or the pointer, nor start to copy a live root.
LEMMA LockedOut ==
  ASSUME IInv, NEW o \in Operators, Run(o), NEW p \in Operators, p # o, Exclusive(p)
  PROVE  /\ UNCHANGED <<manifest, selections, current>>
         /\ command'[p] = command[p] /\ command'[o].phase # "copying"
  BY RunAlone DEF IInv, CommandInv, Locks, LifecycleFree

\* Nobody writes the database inside a command's transaction.
LEMMA StoreLocked ==
  ASSUME IInv, Next, NEW p \in Operators, InTransaction(p)
  PROVE  UNCHANGED <<memory, outbox, receipt>>
  <1>1. ~DatabaseFree
    BY DEF DatabaseFree
  <1>2. ASSUME NEW o \in Operators, Run(o) PROVE UNCHANGED <<memory, outbox, receipt>>
    BY <1>1, <1>2, RunAlone DEF Acknowledge
  <1>. QED  BY <1>1, <1>2 DEF Next, Write, Requeue, Serve, Resolve, Stop, Replay, Open, Claim,
                              Fail, store

-----------------------------------------------------------------------------
(***************************************************************************)
(* What a step changes.                                                    *)
(***************************************************************************)

\* Which actions write which file.
LEMMA Writers ==
  ASSUME NEW o \in Operators, Run(o)
  PROVE  /\ \/ manifest' = manifest
            \/ Build(o) \/ Stamp(o) \/ RestoreManifest(o)
            \/ \E built \in BOOLEAN : Complete(o, built)
         /\ selections' = selections \/ Link(o)
         /\ current' = current \/ Switch(o) \/ RestorePointer(o)
         /\ live' = live \/ Publish(o) \/ PublishPart(o)
  BY DEF Run, Clone, Load, Begin, Complete, Build, Acknowledge, Mark, Stamp, Link, Switch, Commit,
         Abort, RestorePointer, RestoreManifest, Bootstrap, Publish, PublishPart, Quit, Crash, files

\* A complete generation stays complete, with the same content.
LEMMA KnownStays ==
  ASSUME IInv, Next, NEW g \in Gens, Known(g)
  PROVE  /\ Known(g)'
         /\ manifest'[g].snapshot = manifest[g].snapshot
         /\ manifest'[g].watermark = manifest[g].watermark
  <1> DEFINE Goal == /\ Known(g)'
                     /\ manifest'[g].snapshot = manifest[g].snapshot
                     /\ manifest'[g].watermark = manifest[g].watermark
  <1>1. CASE manifest' = manifest
    BY <1>1 DEF Known
  <1>2. ASSUME NEW o \in Operators, Build(o) PROVE Goal
    <2>1. g # command[o].gen
      BY <1>2, Typed DEF Build, IInv
    <2>. QED  BY <1>2, <2>1, BuildTypes DEF Known
  <1>3. ASSUME NEW o \in Operators, NEW built \in BOOLEAN, Complete(o, built) PROVE Goal
    <2>1. g # command[o].gen
      BY <1>3, Typed DEF Complete, IInv, CommandInv, Preparing
    <2>. QED  BY <1>3, <2>1, CompleteTypes DEF Known
  <1>4. ASSUME NEW o \in Operators, Stamp(o) PROVE Goal
    BY <1>4, StampTypes DEF Known, Sealed
  <1>5. ASSUME NEW o \in Operators, RestoreManifest(o) PROVE Goal
    <2>1. command[o] \in LockCommand /\ HoldsLock(o)
      BY <1>5, Kinds, Typed, LockingPhases DEF RestoreManifest, HoldsLock, IInv
    <2>2. /\ command[o].gen \in Gens /\ command[o].manifest.state = "complete"
      BY <2>1 DEF LockCommand, Sealed
    <2>. QED  BY <1>5, <2>1, <2>2 DEF RestoreManifest, Known, IInv, Types, FileTypes,
                                      CommandInv, Remembers
  <1>6. CASE \A o \in Operators : ~Run(o)
    BY <1>1, <1>6, OtherSteps
  <1>. QED  BY <1>1, <1>2, <1>3, <1>4, <1>5, <1>6, Writers

\* Rows of the outbox stay, and a memory changes with a new row about it.
LEMMA StoreMoves ==
  ASSUME IInv, Next
  PROVE  /\ Len(outbox') >= Len(outbox) /\ Len(outbox') \in Nat
         /\ \A j \in Jobs : j \in Jobs' /\ outbox'[j].id = outbox[j].id
         /\ \A m \in Memories : \/ memory'[m] = memory[m]
                                \/ /\ memory'[m] = Len(outbox') /\ memory'[m] > Len(outbox)
                                   /\ outbox'[memory'[m]].id = m
                                   /\ outbox'[memory'[m]].status = "pending"
  <1> DEFINE Goal == /\ Len(outbox') >= Len(outbox) /\ Len(outbox') \in Nat
                     /\ \A j \in Jobs : j \in Jobs' /\ outbox'[j].id = outbox[j].id
                     /\ \A m \in Memories :
                          \/ memory'[m] = memory[m]
                          \/ /\ memory'[m] = Len(outbox') /\ memory'[m] > Len(outbox)
                             /\ outbox'[memory'[m]].id = m
                             /\ outbox'[memory'[m]].status = "pending"
  <1>0. Types'
    BY NextTypes
  <1>1. CASE UNCHANGED <<memory, outbox>>
    BY <1>1, Typed DEF IInv, Jobs
  <1>2. ASSUME NEW m \in Memories, Write(m) PROVE Goal
    <2> DEFINE row == [id |-> m, status |-> "pending"]
    <2>1. outbox' = Append(outbox, row) /\ row \in Row /\ row.id = m /\ row.status = "pending"
      BY <1>2 DEF Write, Row, Statuses
    <2> HIDE DEF row
    <2>2. outbox \in Seq(Row) /\ Len(outbox) \in Nat
      BY Typed DEF IInv, Types, StoreTypes
    <2>3. /\ Len(outbox') = Len(outbox) + 1 /\ outbox'[Len(outbox')] = row
          /\ \A j \in 1..Len(outbox) : outbox'[j] = outbox[j]
      BY <2>1, <2>2
    <2>4. memory' = [memory EXCEPT ![m] = Len(outbox')] /\ memory \in Contents
      BY <1>2 DEF Write, IInv, Types, StoreTypes
    <2>. QED  BY <2>1, <2>2, <2>3, <2>4 DEF Jobs, Contents
  <1>3. ASSUME NEW j \in Jobs, NEW st \in Statuses, outbox' = [outbox EXCEPT ![j].status = st],
               memory' = memory
        PROVE  Goal
    BY <1>3, Rewritten, Typed DEF IInv, Jobs
  <1>4. ASSUME NEW j \in Jobs, Requeue(j) PROVE Goal
    <2>1. "pending" \in Statuses
      BY DEF Statuses
    <2>. QED  BY <1>3, <1>4, <2>1 DEF Requeue
  <1>5. ASSUME NEW o \in Operators, Acknowledge(o) PROVE Goal
    BY <1>5, AcknowledgeTypes, Typed DEF Acknowledge, IInv, Jobs
  <1>6. ASSUME server.phase = "serving", server.job # 0
        PROVE  server.job \in Jobs
    BY <1>6 DEF IInv, LiveInv, ServerKnows, Newer, Down
  <1>7. CASE Serve
    <2>1. ASSUME NEW j \in Jobs, Claim(j) PROVE Goal
      <3>1. "processing" \in Statuses
        BY DEF Statuses
      <3>. QED  BY <1>3, <2>1, <3>1 DEF Claim
    <2>2. CASE Replay
      <3>1. "done" \in Statuses
        BY DEF Statuses
      <3>. QED  BY <1>3, <1>6, <2>2, <3>1 DEF Replay
    <2>3. ASSUME NEW parked \in BOOLEAN, Fail(parked) PROVE Goal
      <3>1. "pending" \in Statuses /\ "parked" \in Statuses
        BY DEF Statuses
      <3>2. CASE parked
        BY <1>3, <1>6, <2>3, <3>1, <3>2 DEF Fail
      <3>3. CASE ~parked
        BY <1>3, <1>6, <2>3, <3>1, <3>3 DEF Fail
      <3>. QED  BY <3>2, <3>3
    <2>. QED  BY <1>1, <1>7, <2>1, <2>2, <2>3 DEF Serve, Resolve, Stop, Open, store
  <1>8. ASSUME NEW o \in Operators, Run(o) PROVE Goal
    BY <1>1, <1>5, <1>8, RunAlone
  <1>. QED  BY <1>2, <1>4, <1>7, <1>8 DEF Next

LEMMA SeenStays ==
  ASSUME IInv, Next, NEW s \in Contents, NEW w \in Nat, Seen(s, w)
  PROVE  Seen(s, w)'
  BY StoreMoves, Typed DEF Seen, IInv

LEMMA PublishedStep ==
  ASSUME IInv, Next
  PROVE  Published'
  <1> SUFFICES ASSUME NEW m \in Memories
               PROVE  /\ memory'[m] <= Len(outbox')
                      /\ memory'[m] # 0 => outbox'[memory'[m]].id = m
    BY DEF Published
  <1>1. memory[m] <= Len(outbox) /\ (memory[m] # 0 => memory[m] \in Jobs /\ outbox[memory[m]].id = m)
    BY Typed DEF IInv, FileInv, Published, Jobs
  <1>. QED  BY <1>1, StoreMoves, Typed DEF IInv

\* A bound root was bound before, or has just been published.
LEMMA RootsStep ==
  ASSUME IInv, Next, NEW r \in Roots, live'[r].state = "bound"
  PROVE  \/ /\ live[r].state = "bound"
            /\ live'[r].act = live[r].act /\ live'[r].gen = live[r].gen
         \/ \E o \in Operators : /\ Publish(o) /\ command[o].root = r /\ live[r].state # "bound"
                                 /\ live'[r].act = command[o].act
                                 /\ live'[r].gen = command[o].gen
  <1> DEFINE Goal == \/ /\ live[r].state = "bound"
                        /\ live'[r].act = live[r].act /\ live'[r].gen = live[r].gen
                     \/ \E o \in Operators : /\ Publish(o) /\ command[o].root = r
                                             /\ live[r].state # "bound"
                                             /\ live'[r].act = command[o].act
                                             /\ live'[r].gen = command[o].gen
  <1>1. CASE live' = live
    BY <1>1
  <1>2. ASSUME NEW o \in Operators, Publish(o) PROVE Goal
    BY <1>2, PublishTypes, Typed DEF IInv
  <1>3. ASSUME NEW o \in Operators, PublishPart(o) PROVE Goal
    <2>1. r # command[o].root
      BY <1>3, PublishPartTypes, FileKinds
    <2>. QED  BY <1>3, <2>1, PublishPartTypes
  <1>4. CASE Replay
    <2> DEFINE m == outbox[server.job].id
               rt == live[server.root]
               ix == [rt.index EXCEPT ![m] = server.job]
               new == [rt EXCEPT !.index = ix]
    <2>1. rt \in Bound /\ rt.state = "bound" /\ server.root \in Roots
      BY <1>4, ServerKinds, Typed DEF Replay, IInv, LiveInv, ServerKnows, Down, Serving, Types,
                                      ProcessTypes
    <2>2. new.state = "bound" /\ new.act = rt.act /\ new.gen = rt.gen
      BY <2>1 DEF Bound
    <2>3. live' = live \/ live' = [live EXCEPT ![server.root] = new]
      BY <1>4 DEF Replay
    <2> HIDE DEF new
    <2>. QED  BY <2>1, <2>2, <2>3 DEF IInv, Types, FileTypes
  <1>5. ASSUME NEW o \in Operators, Run(o) PROVE Goal
    BY <1>1, <1>2, <1>3, <1>5, Writers
  <1>. QED  BY <1>1, <1>4, <1>5 DEF Next, Write, Requeue, Serve, Resolve, Stop, Open, Claim, Fail,
                                    files

\* Receipts belong to complete generations; these are receipted once reconciled,
\* and hold what the memories were at their watermark.
LEMMA ManifestsStep ==
  ASSUME IInv, Next
  PROVE  Manifests'
  <1>1. Types'
    BY NextTypes
  <1>2. ASSUME NEW g \in Gens, receipt'[g] # None PROVE Known(g)'
    <2>1. ASSUME NEW o \in Operators, Acknowledge(o), receipt[g] = None PROVE Known(g)
      <3>1. g = command[o].gen
        BY <1>2, <2>1, AcknowledgeTypes
      <3>. QED  BY <2>1, <3>1 DEF Acknowledge, IInv, CommandInv, Preparing
    <2>2. ASSUME NEW o \in Operators, Run(o), ~Acknowledge(o) PROVE receipt' = receipt
      BY <2>2, RunAlone
    <2>3. Known(g)
      BY <1>2, <2>1, <2>2 DEF Next, Write, Requeue, Serve, Resolve, Stop, Open, Claim, Fail, Replay,
                              store, IInv, FileInv, Manifests
    <2>. QED  BY <2>3, KnownStays
  <1>3. ASSUME NEW g \in Gens, Known(g)'
        PROVE  Seen(manifest[g].snapshot, manifest[g].watermark)'
    <2>1. ASSUME NEW s \in Contents, NEW w \in Nat, Seen(s, w),
                 manifest'[g].snapshot = s, manifest'[g].watermark = w
          PROVE  Seen(manifest[g].snapshot, manifest[g].watermark)'
      <3>1. Seen(s, w)'
        BY <2>1, SeenStays
      <3>. QED  BY <2>1, <3>1 DEF Seen
    <2>2. CASE Known(g)
      <3>1. manifest[g] \in Sealed
        BY <2>2, Typed DEF IInv
      <3>2. PICK s \in Contents, w \in Nat : s = manifest[g].snapshot /\ w = manifest[g].watermark
        BY <3>1 DEF Sealed
      <3>3. Seen(s, w)
        BY <2>2, <3>2 DEF IInv, FileInv, Manifests
      <3>. QED  BY <2>1, <2>2, <3>2, <3>3, KnownStays
    <2>3. CASE ~Known(g)
      <3>1. ASSUME NEW o \in Operators, Stamp(o) PROVE FALSE
        BY <1>3, <2>3, <3>1, StampTypes, FileKinds DEF Known
      <3>2. ASSUME NEW o \in Operators, RestoreManifest(o) PROVE FALSE
        <4>1. command[o] \in LockCommand /\ HoldsLock(o)
          BY <3>2, Kinds, Typed, LockingPhases DEF RestoreManifest, HoldsLock, IInv
        <4>. QED  BY <1>3, <2>3, <3>2, <4>1 DEF RestoreManifest, Known, IInv, Types, FileTypes,
                                      CommandInv, Remembers, LockCommand
      <3>3. ASSUME NEW o \in Operators, Build(o) PROVE FALSE
        BY <1>3, <2>3, <3>3, BuildTypes, FileKinds DEF Known, BuildCommand
      <3>4. ASSUME NEW o \in Operators, Run(o) PROVE \E built \in BOOLEAN : Complete(o, built)
        BY <1>3, <2>3, <3>1, <3>2, <3>3, <3>4, Writers DEF Known
      <3>5. PICK o \in Operators : \E built \in BOOLEAN : Complete(o, built)
        BY <1>3, <2>3, <3>4, OtherSteps DEF Known
      <3>6. PICK built \in BOOLEAN : Complete(o, built)
        BY <3>5
      <3>7. /\ command[o] \in BuildCommand /\ g = command[o].gen
            /\ manifest'[g].snapshot = command[o].snapshot
            /\ manifest'[g].watermark = command[o].watermark
        BY <1>3, <2>3, <3>6, CompleteTypes, FileKinds, ZenonT(60) DEF Known
      <3>8. PICK s \in Contents, w \in Nat : s = command[o].snapshot /\ w = command[o].watermark
        BY <3>7 DEF BuildCommand
      <3>9. Seen(s, w)
        BY <3>6, <3>8 DEF IInv, CommandInv, Preparing, Complete
      <3>. QED  BY <2>1, <3>7, <3>8, <3>9
    <2>. QED  BY <2>2, <2>3
  <1>4. ASSUME NEW g \in Gens, Known(g)' PROVE Receipted(manifest[g])'
    <2> DEFINE Goal == Receipted(manifest[g])'
    <2>1. CASE manifest' = manifest
      BY <1>4, <2>1 DEF Known, Receipted, IInv, FileInv, Manifests
    <2>2. ASSUME NEW o \in Operators, Build(o) PROVE Goal
      BY <1>4, <2>2, BuildTypes, FileKinds DEF Known, Receipted, IInv, FileInv, Manifests, BuildCommand
    <2>3. ASSUME NEW o \in Operators, NEW built \in BOOLEAN, Complete(o, built) PROVE Goal
      BY <1>4, <2>3, CompleteTypes, FileKinds, ZenonT(60) DEF Known, Receipted, IInv, FileInv, Manifests
    <2>4. ASSUME NEW o \in Operators, Stamp(o) PROVE Goal
      <3>1. HoldsLock(o)
        BY <2>4, LockingPhases DEF Stamp
      <3>2. Known(command[o].gen) /\ (command[o].name = "mark" => command[o].receipt # None)
        BY <3>1 DEF IInv, CommandInv, Remembers, Progress
      <3>. QED  BY <1>4, <2>4, <3>2, StampTypes DEF Known, Receipted, IInv, FileInv, Manifests
    <2>5. ASSUME NEW o \in Operators, RestoreManifest(o) PROVE Goal
      <3>1. command[o] \in LockCommand /\ HoldsLock(o)
        BY <2>5, Kinds, Typed, LockingPhases DEF RestoreManifest, HoldsLock, IInv
      <3>. QED  BY <1>4, <2>5, <3>1 DEF RestoreManifest, Known, IInv, Types, FileTypes, Receipted,
                     CommandInv, Remembers, LockCommand, FileInv, Manifests
    <2>. QED  BY <2>1, <2>2, <2>3, <2>4, <2>5, Writers, OtherSteps
  <1>. QED  BY <1>2, <1>3, <1>4 DEF Manifests

-----------------------------------------------------------------------------
(***************************************************************************)
(* The commands.                                                           *)
(***************************************************************************)

\* What a command can do next, if it does not end.
LEMMA Going ==
  ASSUME NEW o \in Operators, Run(o)
  PROVE  \/ Ends(o)
         \/ \E g \in Gens : Clone(o, g) \/ Load(o, g)
         \/ \E g \in Gens : \E n \in {"verify"} \cup Moves : Begin(o, n, g)
         \/ Build(o) \/ Acknowledge(o) \/ Mark(o)
         \/ Stamp(o) \/ Link(o) \/ Switch(o) \/ Abort(o) \/ RestorePointer(o)
         \/ \E r \in Roots : Bootstrap(o, r)
  BY DEF Run, Complete, Commit, RestoreManifest, Publish, PublishPart, Quit, Crash

LEMMA PreparingStep ==
  ASSUME IInv, Next, NEW p \in Operators
  PROVE  Preparing(p)'
  <1>1. ASSUME NEW s \in Contents, NEW w \in Nat, Seen(s, w),
               command'[p].snapshot = s, command'[p].watermark = w
        PROVE  Seen(command[p].snapshot, command[p].watermark)'
    <2>1. Seen(s, w)'
      BY <1>1, SeenStays
    <2>. QED  BY <1>1, <2>1 DEF Seen
  <1>2. CASE ~Run(p)
    <2>0. command'[p] = command[p]
      BY <1>2, RunAlone, OtherSteps
    <2>1. ASSUME command[p].phase \in {"cloned", "building"}
          PROVE  Seen(command[p].snapshot, command[p].watermark)'
      <3>1. command[p] \in BuildCommand
        BY <2>1, Kinds, Typed DEF IInv
      <3>2. PICK s \in Contents, w \in Nat : s = command[p].snapshot /\ w = command[p].watermark
        BY <3>1 DEF BuildCommand
      <3>3. Seen(s, w)
        BY <2>1, <3>2 DEF IInv, CommandInv, Preparing
      <3>. QED  BY <1>1, <2>0, <3>2, <3>3
    <2>2. ASSUME command[p].phase = "building" PROVE manifest'[command[p].gen] = Unfinished
      <3>1. manifest[command[p].gen] = Unfinished /\ Exclusive(p)
        BY <2>2 DEF IInv, CommandInv, Preparing, Exclusive
      <3>3. ASSUME NEW o \in Operators, Run(o) PROVE manifest' = manifest
        BY <1>2, <3>1, <3>3, LockedOut
      <3>. QED  BY <3>1, <3>3, OtherSteps
    <2>3. ASSUME command[p].phase \in {"loaded", "issued"} PROVE Known(command[p].gen)'
      <3>1. command[p] \in LoadCommand \cup IssueCommand
        BY <2>3, Kinds, Typed DEF IInv
      <3>2. PICK g \in Gens : g = command[p].gen
        BY <3>1 DEF LoadCommand, IssueCommand
      <3>3. Known(g)
        BY <2>3, <3>2 DEF IInv, CommandInv, Preparing
      <3>4. Known(g)'
        BY <3>3, KnownStays
      <3>. QED  BY <2>0, <3>2, <3>4 DEF Known
    <2>. QED  BY <2>0, <2>1, <2>2, <2>3 DEF Preparing
  <1>3. ASSUME Run(p) PROVE Preparing(p)'
    <2>1. ASSUME Ends(p) PROVE Preparing(p)'
      BY <2>1, EndsTypes DEF Preparing, Idle
    <2>2. ASSUME NEW g \in Gens, Clone(p, g) PROVE Preparing(p)'
      <3>1. memory' = memory /\ outbox' = outbox /\ memory \in Contents /\ Len(outbox) \in Nat
        BY <2>2, Typed DEF Clone, store, IInv, Types, StoreTypes
      <3>. QED  BY <2>2, <3>1, CloneTypes DEF Preparing, Seen
    <2>3. ASSUME NEW g \in Gens, Load(p, g) PROVE Preparing(p)'
      BY <2>3, LoadTypes DEF Preparing, Load, Known, files
    <2>4. CASE Build(p)
      <3>1. command[p] \in BuildCommand
        BY <2>4, BuildTypes
      <3>2. PICK s \in Contents, w \in Nat : s = command[p].snapshot /\ w = command[p].watermark
        BY <3>1 DEF BuildCommand
      <3>3. Seen(s, w)
        BY <2>4, <3>2 DEF Build, IInv, CommandInv, Preparing
      <3>. QED  BY <1>1, <2>4, <3>2, <3>3, BuildTypes DEF Preparing
    <2>5. CASE Acknowledge(p)
      BY <2>5, AcknowledgeTypes DEF Preparing, Acknowledge, Known, files, IInv, CommandInv
    <2>6. ASSUME NEW g \in Gens, NEW n \in {"verify"} \cup Moves, Begin(p, n, g) PROVE Preparing(p)'
      BY <2>6, BeginTypes DEF Preparing
    <2>7. CASE Mark(p)
      BY <2>7, MarkTypes DEF Preparing
    <2>8. ASSUME NEW ph \in Locking, HoldsLock(p), Becomes(p, ph) PROVE Preparing(p)'
      BY <2>8, BecomesTypes DEF Preparing, Locking, Working
    <2>9. CASE Stamp(p) \/ Link(p) \/ Switch(p) \/ Abort(p) \/ RestorePointer(p)
      <3>1. /\ HoldsLock(p) /\ {"stamped", "linked", "switched", "undo", "unstamp"} \subseteq Locking
            /\ \/ Becomes(p, "stamped") \/ Becomes(p, "linked") \/ Becomes(p, "switched")
               \/ Becomes(p, "undo") \/ Becomes(p, "unstamp")
        BY <2>9, LockingPhases DEF Stamp, Link, Switch, Abort, RestorePointer, Locking, Working,
                                   HoldsLock, FirstUndone
      <3>. QED  BY <2>8, <3>1
    <2>10. ASSUME NEW r \in Roots, Bootstrap(p, r) PROVE Preparing(p)'
      BY <2>10, BootstrapTypes DEF Preparing
    <2>. QED  BY <1>3, <2>1, <2>2, <2>3, <2>4, <2>5, <2>6, <2>7, <2>9, <2>10, Going
  <1>. QED  BY <1>2, <1>3

\* A command that has not moved sees what it remembers unchanged.
LEMMA UnmovedLocked ==
  ASSUME IInv, Next, NEW p \in Operators, ~Run(p), HoldsLock(p)'
  PROVE  /\ HoldsLock(p) /\ command'[p] = command[p]
         /\ UNCHANGED <<manifest, selections, current>>
         /\ \A o \in Operators : command'[o].phase = "copying" => command'[o] = command[o]
         /\ command[p].phase \in Working => UNCHANGED <<memory, outbox>>
  <1>1. command'[p] = command[p] /\ HoldsLock(p)
    BY RunAlone, OtherSteps DEF HoldsLock
  <1>2. Exclusive(p)
    BY <1>1, LockingPhases
  <1>3. UNCHANGED <<manifest, selections, current>>
    BY <1>2, LockedOut, OtherSteps
  <1>4. ASSUME NEW o \in Operators, command'[o].phase = "copying" PROVE command'[o] = command[o]
    BY <1>2, <1>4, LockedOut, RunAlone, OtherSteps
  <1>5. ASSUME command[p].phase \in Working PROVE UNCHANGED <<memory, outbox>>
    BY <1>5, StoreLocked DEF InTransaction
  <1>. QED  BY <1>1, <1>3, <1>4, <1>5

LEMMA StartRemembers ==
  ASSUME IInv, NEW o \in Operators, NEW g \in Gens, Known(g),
         command'[o].phase = "checked", command'[o].gen = g,
         command'[o].manifest = manifest[g], command'[o].pointer = current,
         UNCHANGED <<manifest, selections, current>>
  PROVE  Remembers(o)'
  <1>1. Receipted(manifest[g]) /\ (current # 0 => Sound(Selected))
    BY DEF IInv, FileInv, Manifests, SelectedIsSound
  <1>2. current <= Len(selections) /\ current \in Nat
    BY Typed DEF IInv, Types, FileTypes
  <1>. QED  BY <1>1, <1>2 DEF Remembers, Known, Receipted, Sound, Selected

\* What a command remembers stays true until it ends.
LEMMA RemembersStep ==
  ASSUME IInv, Next, NEW p \in Operators
  PROVE  Remembers(p)'
  <1>1. CASE ~HoldsLock(p)'
    BY <1>1 DEF Remembers
  <1>2. CASE HoldsLock(p)' /\ ~Run(p)
    BY <1>2, UnmovedLocked DEF IInv, CommandInv, Remembers, HoldsLock, Known, Sound, Receipted
  <1>3. ASSUME Run(p), HoldsLock(p)' PROVE Remembers(p)'
    <2>0. ~Ends(p)
      BY <1>3, EndsTypes DEF HoldsLock, Locking, Working, Idle
    <2>1. ASSUME NEW g \in Gens, Clone(p, g) \/ Load(p, g) PROVE FALSE
      BY <1>3, <2>1, CloneTypes, LoadTypes DEF HoldsLock, Locking, Working
    <2>2. CASE Build(p) \/ Acknowledge(p)
      BY <1>3, <2>2, BuildTypes, AcknowledgeTypes DEF HoldsLock, Locking, Working
    <2>3. ASSUME NEW r \in Roots, Bootstrap(p, r) PROVE FALSE
      BY <1>3, <2>3, BootstrapTypes DEF HoldsLock, Locking, Working
    <2>4. ASSUME NEW g \in Gens, NEW n \in {"verify"} \cup Moves, Begin(p, n, g) PROVE Remembers(p)'
      BY <2>4, BeginTypes, StartRemembers DEF Begin, files
    <2>5. CASE Mark(p)
      <3>1. PICK g \in Gens : g = command[p].gen
        BY <2>5, MarkTypes
      <3>. QED  BY <2>5, <3>1, MarkTypes, StartRemembers DEF Mark, files
    <2>6. HoldsLock(p) =>
            /\ command[p] \in LockCommand /\ command[p].gen \in Gens /\ command[p].pointer \in Nat
            /\ Len(selections) \in Nat /\ current \in 0..Len(selections)
            /\ \A a \in 1..Len(selections) : selections[a] \in Gens
      BY Kinds, Typed DEF HoldsLock, LockCommand, IInv, Types, FileTypes
    <2>7. CASE Stamp(p)
      <3>1. HoldsLock(p) /\ Becomes(p, "stamped") /\ "stamped" \in Locking
        BY <2>7, LockingPhases DEF Stamp, Locking, Working
      <3>2. UNCHANGED <<selections, current>>
        BY <2>7 DEF Stamp
      <3>3. command[p].phase = "checked"
        BY <2>7 DEF Stamp, Stamps
      <3>4. \A g \in Gens : Sound(g) => Sound(g)'
        BY <2>7, StampTypes DEF Sound, Known, Sealed
      <3>5. Known(command[p].gen)'
        BY <2>7, StampTypes, FileKinds, <3>1, BecomesTypes DEF Known
      <3>. QED  BY <2>6, <2>7, <3>1, <3>2, <3>3, <3>4, <3>5, StampTypes, BecomesTypes
                DEF IInv, CommandInv, Remembers, Receipted
    <2>8. CASE Link(p)
      <3>1. HoldsLock(p) /\ Becomes(p, "linked") /\ "linked" \in Locking
        BY <2>8, LockingPhases DEF Link, Locking, Working
      <3>2. /\ UNCHANGED <<manifest, current>>
            /\ selections' = Append(selections, command[p].gen)
            /\ command[p].phase \in {"checked", "stamped"}
        BY <2>8, LockingPhases DEF Link
      <3>3. /\ Len(selections') = Len(selections) + 1
            /\ \A a \in 1..Len(selections) : selections'[a] = selections[a]
        BY <2>6, <3>1, <3>2 DEF IInv, Types, FileTypes
      <3>. QED  BY <2>6, <3>1, <3>2, <3>3, BecomesTypes
                DEF IInv, CommandInv, Remembers, Receipted, Sound, Known
    <2>9. CASE Switch(p)
      <3>1. HoldsLock(p) /\ Becomes(p, "switched") /\ "switched" \in Locking
        BY <2>9, LockingPhases DEF Switch, Locking, Working
      <3>2. /\ UNCHANGED <<manifest, selections>> /\ current' = Len(selections)
            /\ command[p].name \in Moves
        BY <2>9, <3>1 DEF Switch, IInv, CommandInv, Progress
      <3>. QED  BY <2>6, <3>1, <3>2, BecomesTypes
                DEF IInv, CommandInv, Remembers, Receipted, Sound, Known
    <2>10. CASE Abort(p)
      <3>1. /\ HoldsLock(p) /\ {"undo", "unstamp"} \subseteq Locking
            /\ IF command[p].name = "mark" THEN Becomes(p, "unstamp") ELSE Becomes(p, "undo")
        BY <2>10 DEF Abort, HoldsLock, Locking, FirstUndone
      <3>2. /\ UNCHANGED <<manifest, selections, current>>
            /\ command[p].name = "mark" => command[p].phase \notin {"switched", "undo"}
        BY <2>10, <3>1 DEF Abort, files, IInv, CommandInv, Progress
      <3>. QED  BY <2>6, <3>1, <3>2, BecomesTypes
                DEF IInv, CommandInv, Remembers, Receipted, Sound, Known
    <2>11. CASE RestorePointer(p)
      <3>1. HoldsLock(p) /\ Becomes(p, "unstamp") /\ "unstamp" \in Locking
        BY <2>11, LockingPhases DEF RestorePointer, Locking
      <3>2. UNCHANGED <<manifest, selections>> /\ current' = command[p].pointer
        BY <2>11 DEF RestorePointer
      <3>. QED  BY <2>6, <3>1, <3>2, BecomesTypes
                DEF IInv, CommandInv, Remembers, Receipted, Sound, Known
    <2>. QED  BY <1>3, <2>0, <2>1, <2>2, <2>3, <2>4, <2>5, <2>7, <2>8, <2>9, <2>10, <2>11, Going
  <1>. QED  BY <1>1, <1>2, <1>3

LEMMA CoversStays ==
  ASSUME NEW g \in Gens, UNCHANGED <<memory, outbox>>,
         manifest'[g].snapshot = manifest[g].snapshot,
         manifest'[g].watermark = manifest[g].watermark, Covers(g)
  PROVE  Covers(g)'
  BY DEF Covers, Newer, Window, Jobs

\* How far a command has come stays true: its generation still covers the
\* source, and nothing refers to the activation it has linked.
LEMMA ProgressStep ==
  ASSUME IInv, Next, NEW p \in Operators
  PROVE  Progress(p)'
  <1>1. CASE ~HoldsLock(p)'
    BY <1>1 DEF Progress
  <1>2. CASE HoldsLock(p)' /\ ~Run(p)
    <2>1. /\ HoldsLock(p) /\ command'[p] = command[p]
          /\ UNCHANGED <<manifest, selections, current>>
          /\ \A o \in Operators : command'[o].phase = "copying" => command'[o] = command[o]
          /\ command[p].phase \in Working => UNCHANGED <<memory, outbox>>
      BY <1>2, UnmovedLocked
    <2>2. PICK g \in Gens : g = command[p].gen
      BY <2>1, Kinds, Typed DEF HoldsLock, LockCommand, IInv
    <2>3. ASSUME command[p].name # "mark", command[p].phase \in Working PROVE Covers(command[p].gen)'
      <3>1. Covers(g)
        BY <2>1, <2>2, <2>3 DEF IInv, CommandInv, Progress
      <3>2. Covers(g)'
        BY <2>1, <2>3, <3>1, CoversStays
      <3>. QED  BY <2>1, <2>2, <3>2 DEF Covers, Newer, Window
    <2>4. ASSUME command[p].phase = "linked", NEW r \in Roots, live'[r].state = "bound"
          PROVE  live'[r].act < Len(selections)
      <3>1. /\ \A q \in Roots : live[q].state = "bound" => live[q].act < Len(selections)
            /\ \A o \in Operators : command[o].phase = "copying" =>
                                      command[o].act < Len(selections)
        BY <2>1, <2>4 DEF IInv, CommandInv, Progress
      <3>2. \A o \in Operators : Publish(o) => command[o].phase = "copying"
        BY DEF Publish
      <3>. QED  BY <2>4, <3>1, <3>2, RootsStep
    <2>. QED  BY <2>1, <2>3, <2>4 DEF IInv, CommandInv, Progress, HoldsLock
  <1>3. ASSUME Run(p), HoldsLock(p)' PROVE Progress(p)'
    <2>0. ~Ends(p)
      BY <1>3, EndsTypes DEF HoldsLock, Locking, Working, Idle
    <2>1. ASSUME NEW g \in Gens, Clone(p, g) \/ Load(p, g) PROVE FALSE
      BY <1>3, <2>1, CloneTypes, LoadTypes DEF HoldsLock, Locking, Working
    <2>2. CASE Build(p) \/ Acknowledge(p)
      BY <1>3, <2>2, BuildTypes, AcknowledgeTypes DEF HoldsLock, Locking, Working
    <2>3. ASSUME NEW r \in Roots, Bootstrap(p, r) PROVE FALSE
      BY <1>3, <2>3, BootstrapTypes DEF HoldsLock, Locking, Working
    <2>4. ASSUME NEW g \in Gens, NEW n \in {"verify"} \cup Moves, Begin(p, n, g) PROVE Progress(p)'
      <3>1. Covers(g)'
        BY <2>4, CoversStays DEF Begin, Fresh, files, store
      <3>2. /\ command'[p].phase = "checked" /\ command'[p].name = n /\ command'[p].gen = g
            /\ n # "mark"
        BY <2>4, BeginTypes DEF Moves
      <3>3. Covers(command[p].gen)'
        BY <3>1, <3>2 DEF Covers, Newer, Window
      <3>4. /\ manifest[g].reconciled /\ UNCHANGED <<manifest, selections>>
            /\ n \in Moves => Len(selections) < MaxMoves
        BY <2>4 DEF Begin, Fresh, files
      <3>. QED  BY <3>2, <3>3, <3>4 DEF Progress
    <2>5. CASE Mark(p)
      BY <2>5, MarkTypes DEF Progress, Moves
    <2>6. HoldsLock(p) =>
            /\ command[p] \in LockCommand /\ command[p].gen \in Gens
            /\ Len(selections) \in Nat /\ selections \in Seq(Gens)
      BY Kinds, Typed DEF HoldsLock, LockCommand, IInv, Types, FileTypes
    <2>7. ASSUME HoldsLock(p), command'[p].gen = command[p].gen, UNCHANGED <<memory, outbox>>,
                 command[p].phase \in Working, command[p].name # "mark"
          PROVE  Covers(command[p].gen)'
      <3>1. PICK g \in Gens : g = command[p].gen
        BY <2>6, <2>7
      <3>2. Known(g) /\ Covers(g)
        BY <2>7, <3>1 DEF IInv, CommandInv, Progress, Remembers
      <3>3. Covers(g)'
        BY <2>7, <3>2, KnownStays, CoversStays
      <3>. QED  BY <2>7, <3>1, <3>3 DEF Covers, Newer, Window
    <2>8. CASE Stamp(p)
      <3>1. HoldsLock(p) /\ Becomes(p, "stamped") /\ "stamped" \in Locking
        BY <2>8, LockingPhases DEF Stamp, Locking, Working
      <3>2. /\ UNCHANGED <<memory, outbox, selections>> /\ command[p].phase = "checked"
            /\ command[p].phase \in Working
        BY <2>8 DEF Stamp, Stamps, store, Working
      <3>3. command[p].name # "mark" => Covers(command[p].gen)'
        BY <2>7, <3>1, <3>2, BecomesTypes
      <3>. QED  BY <2>6, <2>8, <3>1, <3>2, <3>3, StampTypes, BecomesTypes
                DEF IInv, CommandInv, Progress
    <2>9. CASE Link(p)
      <3>1. HoldsLock(p) /\ Becomes(p, "linked") /\ "linked" \in Locking
        BY <2>9, LockingPhases DEF Link, Locking, Working
      <3>2. /\ UNCHANGED <<memory, outbox, manifest, live>>
            /\ selections' = Append(selections, command[p].gen)
            /\ command[p].phase \in {"checked", "stamped"} /\ command[p].name \in Moves
            /\ command[p].phase \in Working /\ command[p].name # "mark"
        BY <2>9, LockingPhases DEF Link, store, Moves, Working
      <3>3. Covers(command[p].gen)'
        BY <2>7, <3>1, <3>2, BecomesTypes
      <3>4. /\ Len(selections') = Len(selections) + 1
            /\ selections'[Len(selections')] = command[p].gen /\ selections' # <<>>
        BY <2>6, <3>1, <3>2
      <3>5. manifest[command[p].gen].verified
        BY <2>9, <3>1, <3>2 DEF Link, Ready, Stamps, IInv, CommandInv, Progress
      <3>6. \A r \in Roots : live'[r].state = "bound" => live'[r].act < Len(selections')
        BY <2>6, <3>1, <3>2, <3>4 DEF IInv, LiveInv, LiveRoots, BoundRoot
      <3>7. \A o \in Operators : command'[o].phase = "copying" => command'[o].act < Len(selections')
        <4> SUFFICES ASSUME NEW o \in Operators, command'[o].phase = "copying"
                     PROVE  command'[o].act < Len(selections')
          OBVIOUS
        <4>1. o # p /\ command'[o] = command[o]
          BY <3>1, BecomesTypes
        <4>2. command[o].act \in 1..Len(selections)
          BY <4>1 DEF IInv, LiveInv, LiveRoots, BoundRoot
        <4>. QED  BY <2>6, <3>1, <3>4, <4>1, <4>2
      <3>8. manifest[command[p].gen].reconciled
        BY <3>1, <3>2 DEF IInv, CommandInv, Progress
      <3>. QED  BY <3>1, <3>2, <3>3, <3>4, <3>5, <3>6, <3>7, <3>8, BecomesTypes DEF Progress
    <2>10. CASE Switch(p)
      <3>1. HoldsLock(p) /\ Becomes(p, "switched") /\ "switched" \in Locking
        BY <2>10, LockingPhases DEF Switch, Locking, Working
      <3>2. /\ UNCHANGED <<memory, outbox, manifest, selections>>
            /\ command[p].phase = "linked" /\ command[p].phase \in Working
            /\ command[p].name \in Moves /\ command[p].name # "mark"
        BY <2>10, <3>1 DEF Switch, store, Working, IInv, CommandInv, Progress, Moves
      <3>3. Covers(command[p].gen)'
        BY <2>7, <3>1, <3>2, BecomesTypes
      <3>. QED  BY <3>1, <3>2, <3>3, BecomesTypes DEF IInv, CommandInv, Progress
    <2>11. CASE Abort(p)
      <3>1. /\ HoldsLock(p) /\ {"undo", "unstamp"} \subseteq Locking
            /\ IF command[p].name = "mark" THEN Becomes(p, "unstamp") ELSE Becomes(p, "undo")
        BY <2>11 DEF Abort, HoldsLock, Locking, FirstUndone
      <3>2. UNCHANGED <<manifest, selections>>
        BY <2>11 DEF Abort, files
      <3>. QED  BY <3>1, <3>2, BecomesTypes DEF IInv, CommandInv, Progress, Working
    <2>12. CASE RestorePointer(p)
      <3>1. /\ HoldsLock(p) /\ Becomes(p, "unstamp") /\ "unstamp" \in Locking
            /\ UNCHANGED <<manifest, selections>>
        BY <2>12, LockingPhases DEF RestorePointer, Locking
      <3>. QED  BY <3>1, BecomesTypes DEF IInv, CommandInv, Progress, Working
    <2>. QED  BY <1>3, <2>0, <2>1, <2>2, <2>3, <2>4, <2>5, <2>8, <2>9, <2>10, <2>11, <2>12, Going
  <1>. QED  BY <1>1, <1>2, <1>3

\* The pointer stays at a generation readers may be given.
LEMMA SelectedStep ==
  ASSUME IInv, Next
  PROVE  SelectedIsSound'
  <1>0. Types /\ Types' /\ (current # 0 => Sound(Selected) /\ Selected \in Gens)
    BY NextTypes, Typed DEF IInv, FileInv, SelectedIsSound, Selected, Types, FileTypes
  <1>1. CASE UNCHANGED <<manifest, selections, current>>
    BY <1>1 DEF IInv, FileInv, SelectedIsSound, Selected, Sound, Known
  <1>2. ASSUME NEW o \in Operators, Run(o) PROVE SelectedIsSound'
    <2>1. ASSUME manifest' # manifest, NEW g \in Gens, Sound(g),
                 RestoreManifest(o) => current # 0 /\ g = Selected
          PROVE  Sound(g)'
      <3>1. ASSUME Build(o) PROVE Sound(g)'
        <4>1. g # command[o].gen
          BY <2>1, <3>1, Typed DEF Build, IInv, Sound
        <4>. QED  BY <2>1, <3>1, <4>1, BuildTypes DEF Sound, Known
      <3>2. ASSUME NEW built \in BOOLEAN, Complete(o, built) PROVE Sound(g)'
        <4>1. g # command[o].gen
          BY <2>1, <3>2, Typed DEF Complete, IInv, CommandInv, Preparing, Sound
        <4>. QED  BY <2>1, <3>2, <4>1, CompleteTypes DEF Sound, Known
      <3>3. ASSUME Stamp(o) PROVE Sound(g)'
        BY <2>1, <3>3, StampTypes DEF Sound, Known, Sealed
      <3>4. ASSUME RestoreManifest(o) PROVE Sound(g)'
        <4>1. command[o] \in LockCommand /\ HoldsLock(o) /\ command[o].phase = "unstamp"
          BY <3>4, Kinds, Typed, LockingPhases DEF RestoreManifest, HoldsLock, IInv
        <4>2. /\ command[o].manifest.state = "complete" /\ command[o].gen \in Gens
              /\ command[o].pointer = current
          BY <4>1 DEF LockCommand, Sealed, IInv, CommandInv, Remembers
        <4>3. g = command[o].gen => command[o].manifest.reconciled /\ command[o].manifest.verified
          BY <2>1, <3>4, <4>1, <4>2 DEF IInv, CommandInv, Remembers, Selected
        <4>. QED  BY <2>1, <3>4, <4>2, <4>3 DEF RestoreManifest, Sound, Known, IInv, Types, FileTypes
      <3>. QED  BY <1>2, <2>1, <3>1, <3>2, <3>3, <3>4, Writers
    <2>2. CASE Link(o)
      <3>1. /\ UNCHANGED <<manifest, current>> /\ selections' = Append(selections, command[o].gen)
        BY <2>2 DEF Link
      <3>2. HoldsLock(o)
        BY <2>2, LockingPhases DEF Link
      <3>3. command[o].gen \in Gens
        BY <3>2, Kinds, Typed DEF HoldsLock, LockCommand, IInv
      <3>4. current # 0 => selections'[current] = selections[current]
        BY <3>1, <3>3, <1>0 DEF Types, FileTypes
      <3>. QED  BY <1>0, <3>1, <3>4 DEF SelectedIsSound, Selected, Sound, Known
    <2>3. CASE Switch(o)
      <3>1. /\ UNCHANGED <<manifest, selections>> /\ current' = Len(selections)
            /\ HoldsLock(o) /\ command[o].phase = "linked"
        BY <2>3, LockingPhases DEF Switch
      <3>2. /\ selections[Len(selections)] = command[o].gen
            /\ Sound(command[o].gen)
        BY <3>1 DEF IInv, CommandInv, Progress, Remembers, Sound, Moves
      <3>. QED  BY <3>1, <3>2 DEF SelectedIsSound, Selected, Sound, Known
    <2>4. CASE RestorePointer(o)
      <3>1. /\ UNCHANGED <<manifest, selections>> /\ current' = command[o].pointer
            /\ HoldsLock(o)
        BY <2>4, LockingPhases DEF RestorePointer
      <3>. QED  BY <3>1 DEF IInv, CommandInv, Remembers, SelectedIsSound, Selected, Sound, Known
    <2>5. CASE UNCHANGED <<selections, current>>
      BY <1>0, <1>1, <2>1, <2>5 DEF SelectedIsSound, Selected, Sound, Known
    <2>. QED  BY <1>2, <2>2, <2>3, <2>4, <2>5, Writers
  <1>. QED  BY <1>1, <1>2, OtherSteps

-----------------------------------------------------------------------------
(***************************************************************************)
(* Live roots and the server.                                              *)
(***************************************************************************)

\* An activation keeps its generation.
LEMMA ActivationsStay ==
  ASSUME IInv, Next
  PROVE  /\ Len(selections') >= Len(selections) /\ Len(selections') \in Nat
         /\ \A a \in 1..Len(selections) : selections'[a] = selections[a] /\ selections[a] \in Gens
  <1>0. selections \in Seq(Gens)
    BY DEF IInv, Types, FileTypes
  <1>1. CASE selections' = selections
    BY <1>0, <1>1
  <1>2. ASSUME NEW o \in Operators, Link(o)
        PROVE  command[o].gen \in Gens
    <2>1. HoldsLock(o)
      BY <1>2, LockingPhases DEF Link
    <2>. QED  BY <2>1, Kinds, Typed DEF HoldsLock, LockCommand, IInv
  <1>3. ASSUME NEW o \in Operators, Link(o)
        PROVE  /\ Len(selections') = Len(selections) + 1
               /\ \A a \in 1..Len(selections) : selections'[a] = selections[a]
    BY <1>0, <1>2, <1>3 DEF Link
  <1>4. CASE \E o \in Operators : Link(o)
    BY <1>0, <1>3, <1>4
  <1>. QED  BY <1>1, <1>4, Writers, OtherSteps

\* What a copy under way copies was decided when it started.
LEMMA CopiesStep ==
  ASSUME IInv, Next, NEW o \in Operators, command'[o].phase = "copying"
  PROVE  \/ command'[o] = command[o] /\ ~Publish(o)
         \/ /\ \E r \in Roots : Bootstrap(o, r)
            /\ command'[o].gen = Selected /\ command'[o].act = current
            /\ \A p \in Operators \ {o} : command'[p] = command[p]
  <1>1. CASE ~Run(o)
    <2>1. command'[o] = command[o]
      BY <1>1, RunAlone, OtherSteps
    <2>. QED  BY <1>1, <2>1 DEF Run
  <1>2. ASSUME Run(o), ~(\E r \in Roots : Bootstrap(o, r)) PROVE FALSE
    <2>0. ~Ends(o)
      BY EndsTypes DEF Idle
    <2>1. ASSUME NEW g \in Gens, Clone(o, g) \/ Load(o, g) PROVE FALSE
      BY <2>1, CloneTypes, LoadTypes
    <2>2. CASE Build(o) \/ Acknowledge(o) \/ Mark(o)
      BY <2>2, BuildTypes, AcknowledgeTypes, MarkTypes
    <2>3. ASSUME NEW g \in Gens, NEW n \in {"verify"} \cup Moves, Begin(o, n, g) PROVE FALSE
      BY <2>3, BeginTypes
    <2>4. ASSUME NEW ph \in Locking, HoldsLock(o), Becomes(o, ph) PROVE FALSE
      BY <2>4, BecomesTypes DEF Locking, Working
    <2>5. CASE Stamp(o) \/ Link(o) \/ Switch(o) \/ Abort(o) \/ RestorePointer(o)
      <3>1. /\ HoldsLock(o) /\ {"stamped", "linked", "switched", "undo", "unstamp"} \subseteq Locking
            /\ \/ Becomes(o, "stamped") \/ Becomes(o, "linked") \/ Becomes(o, "switched")
               \/ Becomes(o, "undo") \/ Becomes(o, "unstamp")
        BY <2>5, LockingPhases DEF Stamp, Link, Switch, Abort, RestorePointer, Locking, Working,
                                   HoldsLock, FirstUndone
      <3>. QED  BY <2>4, <3>1
    <2>. QED  BY <1>2, <2>0, <2>1, <2>2, <2>3, <2>5, Going
  <1>3. ASSUME NEW r \in Roots, Bootstrap(o, r)
        PROVE  /\ command'[o].gen = Selected /\ command'[o].act = current
               /\ \A p \in Operators \ {o} : command'[p] = command[p]
    BY <1>3, BootstrapTypes
  <1>. QED  BY <1>1, <1>2, <1>3

LEMMA BoundRootStays ==
  ASSUME IInv, Next, NEW g \in Gens, NEW a \in Nat, BoundRoot(g, a)
  PROVE  BoundRoot(g, a)'
  BY ActivationsStay, KnownStays, Typed DEF BoundRoot, IInv

\* Each activation has one live root at most, which is of its generation.
LEMMA LiveRootsStep ==
  ASSUME IInv, Next
  PROVE  LiveRoots'
  <1>0. LiveRoots /\ Types
    BY DEF IInv, LiveInv
  <1>1. ASSUME NEW o \in Operators, command[o].phase = "copying"
        PROVE  command[o].gen \in Gens /\ command[o].act \in Nat
    BY <1>1, Kinds, Typed DEF IInv, CopyCommand
  <1>2. ASSUME NEW o \in Operators, command'[o].phase = "copying"
        PROVE  BoundRoot(command[o].gen, command[o].act)'
    <2>1. PICK g \in Gens, a \in Nat : g = command'[o].gen /\ a = command'[o].act /\ BoundRoot(g, a)
      <3>1. CASE command'[o] = command[o]
        BY <1>0, <1>1, <1>2, <3>1 DEF LiveRoots
      <3>2. ASSUME NEW r \in Roots, Bootstrap(o, r)
            PROVE  Selected \in Gens /\ current \in Nat /\ BoundRoot(Selected, current)
        BY <3>2, Typed, BootstrapTypes DEF Bootstrap, BoundRoot, Sound, Selected, IInv, Types, FileTypes
      <3>. QED  BY <1>2, <3>1, <3>2, CopiesStep
    <2>2. BoundRoot(g, a)'
      BY <2>1, BoundRootStays
    <2>. QED  BY <2>1, <2>2 DEF BoundRoot, Known
  <1>3. ASSUME NEW r \in Roots, live'[r].state = "bound"
        PROVE  BoundRoot(live[r].gen, live[r].act)'
    <2>1. PICK g \in Gens, a \in Nat : g = live'[r].gen /\ a = live'[r].act /\ BoundRoot(g, a)
      <3>1. CASE live[r].state = "bound"
        BY <1>0, <1>3, <3>1, Typed, RootsStep DEF LiveRoots, Bound, Publish
      <3>2. CASE live[r].state # "bound"
        <4>1. PICK o \in Operators : /\ Publish(o) /\ live'[r].act = command[o].act
                                     /\ live'[r].gen = command[o].gen
          BY <1>3, <3>2, RootsStep
        <4>2. command[o].phase = "copying"
          BY <4>1 DEF Publish
        <4>. QED  BY <1>0, <1>1, <4>1, <4>2 DEF LiveRoots
      <3>. QED  BY <3>1, <3>2
    <2>2. BoundRoot(g, a)'
      BY <2>1, BoundRootStays
    <2>. QED  BY <2>1, <2>2 DEF BoundRoot, Known
  <1>4. ASSUME NEW o \in Operators, Publish(o), NEW r \in Roots,
               live[r].state # "bound", live'[r].state = "bound"
        PROVE  /\ command[o].phase = "copying" /\ live'[r].act = command[o].act
               /\ r = command[o].root
               /\ \A q \in Roots \ {r} : live'[q] = live[q]
               /\ \A p \in Operators : command'[p].phase = "copying" =>
                     p # o /\ command'[p] = command[p]
    <2>1. /\ command[o].phase = "copying" /\ live'[r].act = command[o].act
          /\ r = command[o].root
          /\ \A q \in Roots \ {r} : live'[q] = live[q]
      BY <1>4, PublishTypes DEF Publish
    <2>2. Ends(o)
      BY <1>4 DEF Publish
    <2>. QED  BY <2>1, <2>2, EndsTypes DEF Idle
  <1>5. ASSUME NEW q \in Roots, NEW r \in Roots, live'[q].state = "bound", live'[r].state = "bound",
               live'[q].act = live'[r].act
        PROVE  q = r
    <2>1. CASE live[q].state = "bound" /\ live[r].state = "bound"
      BY <1>0, <1>5, <2>1, RootsStep DEF LiveRoots
    <2>2. ASSUME NEW s \in Roots, NEW t \in Roots, live[s].state # "bound",
                 live'[s].state = "bound", live'[t].state = "bound", s # t,
                 live'[s].act = live'[t].act
          PROVE  FALSE
      <3>1. PICK o \in Operators : Publish(o)
        BY <2>2, RootsStep
      <3>2. /\ command[o].phase = "copying" /\ live'[s].act = command[o].act
            /\ live'[t] = live[t]
        BY <1>4, <2>2, <3>1
      <3>. QED  BY <1>0, <2>2, <3>2 DEF LiveRoots
    <2>. QED  BY <1>5, <2>1, <2>2
  <1>6. ASSUME NEW o \in Operators, command'[o].phase = "copying", NEW r \in Roots,
               live'[r].state = "bound"
        PROVE  live'[r].act # command'[o].act
    <2>1. CASE command'[o] = command[o] /\ live[r].state = "bound"
      BY <1>0, <1>6, <2>1, RootsStep DEF LiveRoots
    <2>2. ASSUME NEW s \in Roots, Bootstrap(o, s), command'[o].act = current
          PROVE  live'[r].act # command'[o].act
      BY <1>6, <2>2 DEF Bootstrap, HasRoot, files
    <2>3. CASE live[r].state # "bound"
      <3>1. PICK p \in Operators : Publish(p)
        BY <1>6, <2>3, RootsStep
      <3>. QED  BY <1>0, <1>4, <1>6, <2>3, <3>1 DEF LiveRoots
    <2>. QED  BY <1>6, <2>1, <2>2, <2>3, CopiesStep
  <1>7. ASSUME NEW o \in Operators, NEW p \in Operators, command'[o].phase = "copying",
               command'[p].phase = "copying", command'[o].act = command'[p].act
        PROVE  o = p
    <2>1. CASE command'[o] = command[o] /\ command'[p] = command[p]
      BY <1>0, <1>7, <2>1 DEF LiveRoots
    <2>2. ASSUME NEW q \in Operators, NEW s \in Operators, q # s, NEW r \in Roots, Bootstrap(q, r),
                 command'[q].act = current, command'[s] = command[s],
                 command'[s].phase = "copying", command'[s].act = command'[q].act
          PROVE  FALSE
      BY <2>2 DEF Bootstrap, HasRoot
    <2>. QED  BY <1>7, <2>1, <2>2, CopiesStep
  <1>. QED  BY <1>2, <1>3, <1>5, <1>6, <1>7 DEF LiveRoots

\* A bound root stays bound to what it was bound to, and only a replay changes
\* what it holds.
LEMMA BoundStays ==
  ASSUME IInv, Next, NEW r \in Roots, live[r].state = "bound"
  PROVE  /\ live'[r].state = "bound" /\ live'[r].act = live[r].act /\ live'[r].gen = live[r].gen
         /\ live'[r].index = live[r].index \/ Replay
  <1> DEFINE Goal == /\ live'[r].state = "bound" /\ live'[r].act = live[r].act
                     /\ live'[r].gen = live[r].gen
                     /\ live'[r].index = live[r].index \/ Replay
  <1>1. CASE live' = live
    BY <1>1
  <1>2. ASSUME NEW o \in Operators, Publish(o) PROVE Goal
    BY <1>2, PublishTypes, FileKinds
  <1>3. ASSUME NEW o \in Operators, PublishPart(o) PROVE Goal
    BY <1>3, PublishPartTypes, FileKinds
  <1>4. CASE Replay
    <2> DEFINE m == outbox[server.job].id
               rt == live[server.root]
               ix == [rt.index EXCEPT ![m] = server.job]
               new == [rt EXCEPT !.index = ix]
    <2>1. rt \in Bound /\ rt.state = "bound" /\ server.root \in Roots
      BY <1>4, ServerKinds, Typed DEF Replay, IInv, LiveInv, ServerKnows, Down, Serving, Types,
                                      ProcessTypes
    <2>2. new.state = "bound" /\ new.act = rt.act /\ new.gen = rt.gen
      BY <2>1 DEF Bound
    <2>3. live' = live \/ live' = [live EXCEPT ![server.root] = new]
      BY <1>4 DEF Replay
    <2> HIDE DEF new
    <2>. QED  BY <1>4, <2>1, <2>2, <2>3 DEF IInv, Types, FileTypes
  <1>5. ASSUME NEW o \in Operators, Run(o) PROVE Goal
    BY <1>1, <1>2, <1>3, <1>5, Writers
  <1>. QED  BY <1>1, <1>4, <1>5 DEF Next, Write, Requeue, Serve, Resolve, Stop, Open, Claim, Fail,
                                    files

\* No cut-over begins while the server runs.
LEMMA CutOverNeedsStop ==
  ASSUME IInv, Next, server # Down
  PROVE  ~CuttingOver'
  <1> DEFINE Cut == {"promote", "rollback", "bootstrap"}
  <1>0. \A p \in Operators : command[p].phase # "idle" => command[p].name \notin Cut
    BY DEF IInv, LiveInv, ServerKnows, CuttingOver
  <1>1. CASE \A o \in Operators : ~Run(o)
    BY <1>0, <1>1, OtherSteps DEF CuttingOver
  <1>2. ASSUME NEW o \in Operators, Run(o)
        PROVE  command'[o].phase = "idle" \/ command'[o].name \notin Cut
    <2> DEFINE Goal == command'[o].phase = "idle" \/ command'[o].name \notin Cut
    <2>1. CASE Ends(o)
      BY <2>1, EndsTypes DEF Idle
    <2>2. ASSUME NEW g \in Gens, Clone(o, g) \/ Load(o, g) PROVE Goal
      BY <2>2, CloneTypes, LoadTypes
    <2>3. CASE Build(o) \/ Acknowledge(o) \/ Mark(o)
      BY <2>3, BuildTypes, AcknowledgeTypes, MarkTypes
    <2>4. ASSUME NEW g \in Gens, NEW n \in {"verify"} \cup Moves, Begin(o, n, g) PROVE Goal
      BY <2>4, BeginTypes, ZenonT(60) DEF Begin, Moves
    <2>5. ASSUME NEW ph \in Locking, HoldsLock(o), Becomes(o, ph) PROVE Goal
      BY <1>0, <2>5, BecomesTypes DEF HoldsLock, Locking, Working
    <2>6. CASE Stamp(o) \/ Link(o) \/ Switch(o) \/ Abort(o) \/ RestorePointer(o)
      <3>1. /\ HoldsLock(o) /\ {"stamped", "linked", "switched", "undo", "unstamp"} \subseteq Locking
            /\ \/ Becomes(o, "stamped") \/ Becomes(o, "linked") \/ Becomes(o, "switched")
               \/ Becomes(o, "undo") \/ Becomes(o, "unstamp")
        BY <2>6, LockingPhases DEF Stamp, Link, Switch, Abort, RestorePointer, Locking, Working,
                                   HoldsLock, FirstUndone
      <3>. QED  BY <2>5, <3>1
    <2>7. ASSUME NEW r \in Roots, Bootstrap(o, r) PROVE FALSE
      BY <2>7 DEF Bootstrap
    <2>. QED  BY <1>2, <2>1, <2>2, <2>3, <2>4, <2>6, <2>7, Going
  <1>3. ASSUME NEW o \in Operators, Run(o) PROVE ~CuttingOver'
    BY <1>0, <1>2, <1>3, RunAlone DEF CuttingOver
  <1>. QED  BY <1>1, <1>3

\* The pointer does not move while the server runs.
LEMMA PointerNeedsStop ==
  ASSUME IInv, Next, server # Down
  PROVE  current' = current /\ current # 0 /\ current \in 1..Len(selections)
  <1>0. /\ ~CuttingOver /\ current # 0 /\ current \in 1..Len(selections)
    BY DEF IInv, LiveInv, ServerKnows, Types, FileTypes
  <1>1. ASSUME NEW o \in Operators, Switch(o) PROVE FALSE
    <2>1. HoldsLock(o) /\ command[o].phase = "linked"
      BY <1>1, LockingPhases DEF Switch
    <2>2. command[o].name \in Moves
      BY <2>1 DEF IInv, CommandInv, Progress
    <2>. QED  BY <1>0, <2>1, <2>2 DEF CuttingOver, Moves
  <1>2. ASSUME NEW o \in Operators, RestorePointer(o) PROVE current' = current
    <2>1. HoldsLock(o) /\ command[o].phase = "undo"
      BY <1>2, LockingPhases DEF RestorePointer
    <2>2. command[o].name \notin Moves
      BY <1>0, <2>1 DEF CuttingOver, Moves
    <2>3. current = command[o].pointer
      BY <2>1, <2>2 DEF IInv, CommandInv, Remembers
    <2>. QED  BY <1>2, <2>3 DEF RestorePointer
  <1>. QED  BY <1>0, <1>1, <1>2, Writers, OtherSteps

\* What the server knows of the selection and its live root stays true.
LEMMA ServerStep ==
  ASSUME IInv, Next
  PROVE  ServerKnows'
  <1> USE DEF IInv, LiveInv
  <1>0. Types
    OBVIOUS
  <1>1. ASSUME server # Down
        PROVE  /\ ~CuttingOver' /\ current' # 0 /\ current' = current
               /\ Selected' = Selected /\ Selected \in Gens /\ server.gen = Selected
               /\ \A j \in Newer(server.gen) : j \in Jobs' /\ j > manifest'[server.gen].watermark
    <2>1. /\ current' = current /\ current # 0 /\ current \in 1..Len(selections)
          /\ server.gen = Selected
      BY <1>1, PointerNeedsStop DEF ServerKnows
    <2>2. Selected' = Selected /\ Selected \in Gens
      BY <2>1, ActivationsStay DEF Selected
    <2>3. PICK g \in Gens : g = Selected
      BY <2>2
    <2>4. Known(g)
      BY <2>1, <2>3 DEF FileInv, SelectedIsSound, Sound
    <2>5. manifest'[g].watermark = manifest[g].watermark
      BY <2>4, KnownStays
    <2>6. \A j \in Newer(g) : j \in Jobs' /\ j > manifest'[g].watermark
      BY <2>5, StoreMoves DEF Newer
    <2>. QED  BY <1>1, <2>1, <2>2, <2>3, <2>6, CutOverNeedsStop
  <1>2. CASE server' = server
    <2>1. ASSUME server # Down, server.phase = "serving"
          PROVE  live'[server.root].state = "bound" /\ live'[server.root].act = current
      <3>1. server.root \in Roots
        BY <1>0, <2>1, ServerKinds DEF Types, ProcessTypes, Serving
      <3>. QED  BY <2>1, <3>1, BoundStays DEF ServerKnows
    <2>2. ASSUME server # Down, server.phase = "serving", server.job # 0
          PROVE  server.job \in Jobs' /\ server.job > manifest'[server.gen].watermark
      BY <1>1, <2>2 DEF ServerKnows
    <2>. QED  BY <1>1, <1>2, <2>1, <2>2 DEF ServerKnows, Newer
  <1>3. CASE Serve
    <2>0. UNCHANGED <<command, manifest, selections, current>>
      BY <1>3 DEF Serve, Resolve, Stop, Replay, Open, Claim, Fail, files
    <2>1. CASE Resolve
      BY <2>0, <2>1 DEF Resolve, ServerKnows, CuttingOver, Selected
    <2>2. CASE Stop
      BY <2>2 DEF Stop, ServerKnows
    <2>3. ASSUME NEW r \in Roots, Open(r) PROVE ServerKnows'
      <3>1. /\ server # Down /\ server.gen = Selected /\ server.act = current /\ ~CuttingOver
            /\ current # 0
        BY <2>3 DEF Open, ServerKnows, Down
      <3>. QED  BY <2>0, <2>3, <3>1 DEF Open, ServerKnows, CuttingOver, Selected, BoundTo, files
    <2>4. ASSUME server.phase = "serving"
          PROVE  /\ server \in Serving /\ server # Down
                 /\ \A j \in Nat : /\ [server EXCEPT !.job = j].phase = "serving"
                                   /\ [server EXCEPT !.job = j].gen = server.gen
                                   /\ [server EXCEPT !.job = j].root = server.root
                                   /\ [server EXCEPT !.job = j].job = j
                                   /\ [server EXCEPT !.job = j] # Down
      <3>1. server \in Serving
        BY <1>0, <2>4, ServerKinds DEF Types, ProcessTypes
      <3>2. \A j \in Nat : /\ [server EXCEPT !.job = j].phase = "serving"
                           /\ [server EXCEPT !.job = j].gen = server.gen
                           /\ [server EXCEPT !.job = j].root = server.root
                           /\ [server EXCEPT !.job = j].job = j
        BY <3>1 DEF Serving
      <3>. QED  BY <2>4, <3>1, <3>2 DEF Down
    <2>5. ASSUME server.phase = "serving", NEW j \in Nat, server' = [server EXCEPT !.job = j],
                 j = 0 \/ j \in Newer(server.gen)
          PROVE  ServerKnows'
      <3>1. /\ server'.phase = "serving" /\ server'.gen = server.gen /\ server'.root = server.root
            /\ server'.job = j /\ server \in Serving /\ server # Down
        BY <2>4, <2>5
      <3>2. live'[server.root].state = "bound" /\ live'[server.root].act = current
        BY <3>1, <2>5, BoundStays DEF ServerKnows, Serving
      <3>. QED  BY <1>1, <2>5, <3>1, <3>2 DEF ServerKnows, Newer
    <2>6. ASSUME NEW j \in Jobs, Claim(j) PROVE ServerKnows'
      BY <2>5, <2>6 DEF Claim, Jobs
    <2>7. CASE Replay
      BY <2>5, <2>7 DEF Replay
    <2>8. ASSUME NEW parked \in BOOLEAN, Fail(parked) PROVE ServerKnows'
      BY <2>5, <2>8 DEF Fail
    <2>. QED  BY <1>3, <2>1, <2>2, <2>3, <2>6, <2>7, <2>8 DEF Serve
  <1>4. ASSUME NEW o \in Operators, Run(o) PROVE server' = server
    BY <1>4, RunAlone
  <1>. QED  BY <1>2, <1>3, <1>4 DEF Next, Write, Requeue

-----------------------------------------------------------------------------
(***************************************************************************)
(* What the live views lack.                                               *)
(***************************************************************************)

\* Besides a replay, only an acknowledgement settles a job.
LEMMA StatusStep ==
  ASSUME IInv, Next, ~Replay, NEW j \in Jobs, outbox'[j].status = "done"
  PROVE  \/ outbox[j].status = "done"
         \/ \E o \in Operators : Acknowledge(o) /\ j \in Window(command[o].gen)
  <1> DEFINE Goal == \/ outbox[j].status = "done"
                     \/ \E o \in Operators : Acknowledge(o) /\ j \in Window(command[o].gen)
  <1>1. CASE outbox' = outbox
    BY <1>1
  <1>2. ASSUME NEW m \in Memories, Write(m) PROVE Goal
    <2>1. outbox \in Seq(Row) /\ [id |-> m, status |-> "pending"] \in Row
      BY DEF IInv, Types, StoreTypes, Row, Statuses
    <2>2. outbox'[j] = outbox[j]
      BY <1>2, <2>1 DEF Write, Jobs
    <2>. QED  BY <2>2
  <1>3. ASSUME NEW k \in Jobs, NEW st \in Statuses, st # "done",
               outbox' = [outbox EXCEPT ![k].status = st]
        PROVE  Goal
    BY <1>3, Rewritten
  <1>4. ASSUME NEW k \in Jobs, Requeue(k) \/ Claim(k) PROVE Goal
    <2>1. "pending" \in Statuses /\ "processing" \in Statuses
      BY DEF Statuses
    <2>. QED  BY <1>3, <1>4, <2>1 DEF Requeue, Claim
  <1>5. ASSUME NEW parked \in BOOLEAN, Fail(parked) PROVE Goal
    <2>1. "pending" \in Statuses /\ "parked" \in Statuses
      BY DEF Statuses
    <2>2. server.job \in Jobs
      BY <1>5 DEF Fail, IInv, LiveInv, ServerKnows, Newer, Down
    <2>3. CASE parked
      BY <1>3, <1>5, <2>1, <2>2, <2>3 DEF Fail
    <2>4. CASE ~parked
      BY <1>3, <1>5, <2>1, <2>2, <2>4 DEF Fail
    <2>. QED  BY <2>3, <2>4
  <1>6. ASSUME NEW o \in Operators, Acknowledge(o) PROVE Goal
    BY <1>6, AcknowledgeTypes
  <1>7. ASSUME NEW o \in Operators, Run(o) PROVE Goal
    BY <1>1, <1>6, <1>7, RunAlone
  <1>8. CASE Serve
    BY <1>1, <1>4, <1>5, <1>8 DEF Serve, Resolve, Stop, Open, store
  <1>. QED  BY <1>2, <1>4, <1>7, <1>8 DEF Next

\* Jobs acknowledged for a candidate stay so.
LEMMA ReceiptsStay ==
  ASSUME IInv, Next, NEW h \in Gens, receipt[h] # None
  PROVE  receipt'[h] # None /\ manifest'[h].watermark = manifest[h].watermark
  <1>1. Known(h)
    BY DEF IInv, FileInv, Manifests
  <1>2. ASSUME NEW o \in Operators, Acknowledge(o) PROVE receipt'[h] # None
    BY <1>2, AcknowledgeTypes
  <1>3. ASSUME NEW o \in Operators, Run(o) PROVE receipt'[h] # None
    BY <1>2, <1>3, RunAlone
  <1>4. receipt'[h] # None
    BY <1>3 DEF Next, Write, Requeue, Serve, Resolve, Stop, Open, Claim, Fail, Replay, store
  <1>. QED  BY <1>1, <1>4, KnownStays

\* A view that does not change stays owed what it lacks.
LEMMA OwedStays ==
  ASSUME IInv, Next, ~Replay, NEW g \in Gens, Known(g), NEW view, Owed(g, view)
  PROVE  Owed(g, view)'
  <1> SUFFICES ASSUME NEW m \in Memories, view[m] # memory'[m]
               PROVE  /\ memory'[m] \in Newer(g)'
                      /\ \/ outbox'[memory'[m]].status # "done"
                         \/ \E h \in Gens \ {g} :
                              receipt'[h] # None /\ memory'[m] <= manifest'[h].watermark
    BY DEF Owed
  <1>0. manifest'[g].watermark = manifest[g].watermark
    BY KnownStays
  <1>1. CASE memory'[m] = memory[m]
    <2>1. /\ memory[m] \in Newer(g) /\ memory[m] \in Jobs
          /\ \/ outbox[memory[m]].status # "done"
             \/ \E h \in Gens \ {g} : receipt[h] # None /\ memory[m] <= manifest[h].watermark
      BY <1>1 DEF Owed, Newer
    <2>2. memory'[m] \in Newer(g)'
      BY <1>0, <1>1, <2>1, StoreMoves DEF Newer
    <2>3. ASSUME NEW h \in Gens \ {g}, receipt[h] # None, memory[m] <= manifest[h].watermark
          PROVE  receipt'[h] # None /\ memory'[m] <= manifest'[h].watermark
      BY <1>1, <2>3, ReceiptsStay
    <2>4. ASSUME outbox[memory[m]].status # "done", outbox'[memory[m]].status = "done"
          PROVE  \E h \in Gens \ {g} : receipt'[h] # None /\ memory'[m] <= manifest'[h].watermark
      <3>1. PICK o \in Operators : Acknowledge(o) /\ memory[m] \in Window(command[o].gen)
        BY <2>1, <2>4, StatusStep
      <3>2. PICK h \in Gens : h = command[o].gen
        BY <3>1, AcknowledgeTypes
      <3>3. h # g
        BY <2>1, <3>1, <3>2, SMTT(30) DEF Acknowledge
      <3>4. receipt'[h] # None /\ manifest' = manifest /\ memory[m] <= manifest[h].watermark
        BY <3>1, <3>2, AcknowledgeTypes DEF Acknowledge, files, Window
      <3>. QED  BY <1>1, <3>3, <3>4
    <2>. QED  BY <1>1, <2>1, <2>2, <2>3, <2>4
  <1>2. CASE memory'[m] # memory[m]
    <2>1. /\ memory'[m] = Len(outbox') /\ memory'[m] > Len(outbox)
          /\ outbox'[memory'[m]].status = "pending" /\ Len(outbox') \in Nat
      BY <1>2, StoreMoves
    <2>2. manifest[g].watermark <= Len(outbox) /\ manifest[g].watermark \in Nat
      BY Typed DEF IInv, FileInv, Manifests, Seen, Sealed
    <2>. QED  BY <1>0, <2>1, <2>2, Typed DEF Newer, Jobs, IInv
  <1>. QED  BY <1>1, <1>2

\* What may become the current activation could before, except by a switch.
LEMMA ActiveStep ==
  ASSUME IInv, Next, NEW a, Active(a)'
  PROVE  \/ a \in 1..Len(selections) /\ Active(a) /\ Sound(selections[a])
         \/ \E o \in Operators : Switch(o) /\ a = Len(selections)
  <1>1. ASSUME Active(a) PROVE a \in 1..Len(selections) /\ Sound(selections[a])
    <2>1. CASE a = current
      BY <1>1, <2>1 DEF Active, IInv, FileInv, SelectedIsSound, Selected, Types, FileTypes
    <2>2. ASSUME NEW o \in Operators, HoldsLock(o), command[o].pointer = a
          PROVE  a \in 1..Len(selections) /\ Sound(selections[a])
      <3>1. command[o].pointer \in Nat /\ Len(selections) \in Nat /\ current \in Nat
        BY <2>2, Kinds, Typed DEF HoldsLock, LockCommand, IInv
      <3>. QED  BY <1>1, <2>2, <3>1 DEF Active, IInv, CommandInv, Remembers
    <2>. QED  BY <1>1, <2>1, <2>2 DEF Active
  <1>2. CASE a = current'
    <2>1. ASSUME NEW o \in Operators, RestorePointer(o) PROVE Active(a)
      BY <1>2, <2>1, LockingPhases DEF RestorePointer, Active
    <2>. QED  BY <1>1, <1>2, <2>1, Writers, OtherSteps DEF Active, Switch
  <1>3. ASSUME NEW p \in Operators, HoldsLock(p)', command'[p].pointer = a PROVE Active(a)
    <2>1. CASE ~Run(p)
      BY <1>3, <2>1, UnmovedLocked DEF Active
    <2>2. CASE Run(p)
      <3>0. ~Ends(p)
        BY <1>3, EndsTypes DEF HoldsLock, Locking, Working, Idle
      <3>1. ASSUME NEW g \in Gens, Clone(p, g) \/ Load(p, g) PROVE FALSE
        BY <1>3, <3>1, CloneTypes, LoadTypes DEF HoldsLock, Locking, Working
      <3>2. CASE Build(p) \/ Acknowledge(p)
        BY <1>3, <3>2, BuildTypes, AcknowledgeTypes DEF HoldsLock, Locking, Working
      <3>3. ASSUME NEW r \in Roots, Bootstrap(p, r) PROVE FALSE
        BY <1>3, <3>3, BootstrapTypes DEF HoldsLock, Locking, Working
      <3>4. ASSUME NEW g \in Gens, NEW n \in {"verify"} \cup Moves, Begin(p, n, g) PROVE Active(a)
        BY <1>3, <3>4, BeginTypes DEF Active
      <3>5. CASE Mark(p)
        BY <1>3, <3>5, MarkTypes DEF Active
      <3>6. ASSUME NEW ph \in Locking, HoldsLock(p), Becomes(p, ph) PROVE Active(a)
        BY <1>3, <3>6, BecomesTypes DEF Active
      <3>7. CASE Stamp(p) \/ Link(p) \/ Switch(p) \/ Abort(p) \/ RestorePointer(p)
        <4>1. /\ HoldsLock(p)
              /\ {"stamped", "linked", "switched", "undo", "unstamp"} \subseteq Locking
              /\ \/ Becomes(p, "stamped") \/ Becomes(p, "linked") \/ Becomes(p, "switched")
                 \/ Becomes(p, "undo") \/ Becomes(p, "unstamp")
          BY <3>7, LockingPhases DEF Stamp, Link, Switch, Abort, RestorePointer, Locking, Working,
                                     HoldsLock, FirstUndone
        <4>. QED  BY <3>6, <4>1
      <3>. QED  BY <2>2, <3>0, <3>1, <3>2, <3>3, <3>4, <3>5, <3>7, Going
    <2>. QED  BY <2>1, <2>2
  <1>. QED  BY <1>1, <1>2, <1>3 DEF Active

\* A replay brings the one live root of the current activation up to date.
LEMMA ReplayOwed ==
  ASSUME IInv, Next, Replay, NEW a \in 1..Len(selections), Active(a)
  PROVE  ViewOwed(a)'
  <1> DEFINE m0 == outbox[server.job].id
             rt == live[server.root]
             ix == [rt.index EXCEPT ![m0] = server.job]
             new == [rt EXCEPT !.index = ix]
  <1>1. /\ server \in Serving /\ server # Down /\ server.root \in Roots /\ server.job \in Nat
        /\ server.phase = "serving"
    BY ServerKinds DEF Replay, IInv, Types, ProcessTypes, Serving, Down
  <1>2. /\ ~CuttingOver /\ current # 0 /\ server.gen = Selected
        /\ rt.state = "bound" /\ rt.act = current /\ server.job \in Newer(Selected)
    BY <1>1 DEF Replay, IInv, LiveInv, ServerKnows
  <1>3. a = current
    <2>1. ASSUME NEW o \in Operators, HoldsLock(o) PROVE command[o].pointer = current
      <3>1. command[o].name \notin Moves
        BY <1>2, <2>1 DEF CuttingOver, HoldsLock, Locking, Working, Moves
      <3>. QED  BY <2>1, <3>1 DEF IInv, CommandInv, Remembers
    <2>. QED  BY <2>1 DEF Active
  <1>4. UNCHANGED <<memory, receipt, manifest, selections, current, command>>
    BY DEF Replay
  <1>5. rt \in Bound /\ rt.index \in Contents
    BY <1>1, <1>2, Typed DEF IInv, Bound
  <1>6. /\ new.state = "bound" /\ new.act = rt.act /\ new.index = ix
        /\ ix[m0] = server.job \/ m0 \notin Memories
        /\ \A m \in Memories \ {m0} : ix[m] = rt.index[m]
    BY <1>5 DEF Bound, Contents
  <1>7. live' = IF memory[m0] = server.job THEN [live EXCEPT ![server.root] = new] ELSE live
    BY DEF Replay
  <1> HIDE DEF new, ix
  <1>8. /\ live'[server.root].state = "bound" /\ live'[server.root].act = current
        /\ live'[server.root].index = IF memory[m0] = server.job THEN ix ELSE rt.index
    BY <1>1, <1>2, <1>6, <1>7 DEF IInv, Types, FileTypes
  <1>9. \A r \in Roots : live'[r].state = "bound" /\ live'[r].act = a => r = server.root
    <2>1. LiveRoots'
      BY LiveRootsStep
    <2>. QED  BY <1>1, <1>3, <1>8, <2>1 DEF LiveRoots
  <1>10. server.job \in Jobs /\ (\A j \in Jobs \ {server.job} : outbox'[j] = outbox[j])
         /\ Jobs' = Jobs
    <2>1. server.job \in Jobs /\ "done" \in Statuses
      BY <1>2 DEF Newer, Statuses
    <2>. QED  BY <2>1, Rewritten DEF Replay, Jobs
  <1>11. Owed(Selected, rt.index)
    <2>1. ViewOwed(current)
      BY <1>3 DEF IInv, LiveInv, ViewsOwed
    <2>. QED  BY <1>1, <1>2, <2>1 DEF ViewOwed, Selected
  <1>12. Owed(selections[a], live[server.root].index)'
    <2> SUFFICES ASSUME NEW m \in Memories, live'[server.root].index[m] # memory[m]
                 PROVE  /\ memory[m] \in Newer(Selected)
                        /\ \/ outbox'[memory[m]].status # "done"
                           \/ \E h \in Gens \ {Selected} :
                                receipt[h] # None /\ memory[m] <= manifest[h].watermark
      <3>1. (server.root)' = server.root
        BY <1>1 DEF Replay, Serving
      <3>. QED  BY <1>3, <1>4, <1>10, <3>1 DEF Owed, Newer, Selected
    <2>1. memory[m] # server.job /\ rt.index[m] # memory[m]
      <3>1. memory[m] = server.job => m = m0
        BY <1>10 DEF IInv, FileInv, Published, Jobs
      <3>. QED  BY <1>6, <1>8, <3>1
    <2>2. memory[m] \in Jobs /\ outbox'[memory[m]] = outbox[memory[m]]
      BY <1>10, <1>11, <2>1 DEF Owed, Newer
    <2>. QED  BY <1>11, <2>1, <2>2 DEF Owed
  <1>13. (server.root)' = server.root
    BY <1>1 DEF Replay, Serving
  <1>14. Rooted(a)'
    BY <1>1, <1>3, <1>8 DEF Rooted
  <1>. QED  BY <1>9, <1>12, <1>13, <1>14 DEF ViewOwed

\* A switch selects a generation that holds every memory.
LEMMA SwitchOwed ==
  ASSUME IInv, Next, NEW o \in Operators, Switch(o)
  PROVE  /\ ViewOwed(Len(selections))'
         /\ Covers(selections[Len(selections)])
  <1>1. HoldsLock(o) /\ command[o].phase = "linked"
    BY LockingPhases DEF Switch
  <1>2. command[o].name \in Moves /\ selections[Len(selections)] = command[o].gen
    BY <1>1 DEF IInv, CommandInv, Progress
  <1>3. Covers(command[o].gen)
    BY <1>1, <1>2 DEF IInv, CommandInv, Progress, Moves, Working
  <1>4. UNCHANGED <<memory, outbox, receipt, manifest, selections, live>>
    BY DEF Switch, store
  <1>5. \A r \in Roots : live[r].state = "bound" => live[r].act < Len(selections)
    BY <1>1 DEF IInv, CommandInv, Progress
  <1>6. Len(selections) \in Nat
    BY Typed DEF IInv
  <1>. QED  BY <1>2, <1>3, <1>4, <1>5, <1>6 DEF ViewOwed, Rooted, Owed, Covers

\* Every view that may be served stays owed what it lacks.
LEMMA ViewsStep ==
  ASSUME IInv, Next
  PROVE  ViewsOwed'
  <1> SUFFICES ASSUME NEW a \in 1..Len(selections'), Active(a)' PROVE ViewOwed(a)'
    BY DEF ViewsOwed
  <1>1. ASSUME NEW o \in Operators, Switch(o), a = Len(selections) PROVE ViewOwed(a)'
    <2>1. UNCHANGED selections
      BY <1>1 DEF Switch
    <2>. QED  BY <1>1, <2>1, SwitchOwed DEF ViewOwed, Rooted
  <1>2. ASSUME a \in 1..Len(selections), Active(a), Sound(selections[a]) PROVE ViewOwed(a)'
    <2>1. PICK g \in Gens : g = selections[a] /\ selections'[a] = g
      BY <1>2, ActivationsStay
    <2>2. Known(g) /\ ViewOwed(a)
      BY <1>2, <2>1 DEF Sound, IInv, LiveInv, ViewsOwed
    <2>3. CASE Replay
      BY <1>2, <2>3, ReplayOwed
    <2>4. CASE ~Replay
      <3>1. ASSUME NEW view, Owed(g, view) PROVE Owed(g, view)'
        BY <2>2, <2>4, <3>1, OwedStays
      <3>2. ASSUME ~Rooted(a) PROVE \E v : v = manifest[g].snapshot /\ Owed(g, v)'
        BY <2>1, <2>2, <3>1, <3>2 DEF ViewOwed
      <3>3. ~Rooted(a)' => ~Rooted(a)
        BY BoundStays DEF Rooted
      <3>4. ~Rooted(a)' => Owed(selections[a], manifest[selections[a]].snapshot)'
        BY <2>1, <2>2, <3>2, <3>3, KnownStays DEF Owed, Newer
      <3>5. ASSUME NEW r \in Roots, live'[r].state = "bound", live'[r].act = a
            PROVE  \E v : v = live'[r].index /\ Owed(g, v)'
        <4>1. CASE live[r].state = "bound"
          <5>1. live'[r].index = live[r].index /\ live[r].act = a
            BY <2>4, <3>5, <4>1, BoundStays
          <5>. QED  BY <2>1, <2>2, <3>1, <4>1, <5>1 DEF ViewOwed
        <4>2. CASE live[r].state # "bound"
          <5>1. PICK o \in Operators : /\ Publish(o) /\ command[o].root = r
                                       /\ command[o].act = a
            BY <3>5, <4>2, RootsStep
          <5>2. ~Rooted(a) /\ command[o].gen = g
            BY <2>1, <5>1 DEF IInv, LiveInv, LiveRoots, BoundRoot, Rooted, Publish
          <5>3. live'[r].index = manifest[g].snapshot
            BY <5>1, <5>2, PublishTypes
          <5>. QED  BY <3>2, <5>2, <5>3
        <4>. QED  BY <4>1, <4>2
      <3>6. ASSUME NEW r \in Roots, live'[r].state = "bound", live'[r].act = a
            PROVE  Owed(selections[a], live[r].index)'
        BY <2>1, <3>5, <3>6 DEF Owed, Newer
      <3>. QED  BY <3>4, <3>6 DEF ViewOwed
    <2>. QED  BY <2>3, <2>4
  <1>. QED  BY <1>1, <1>2, ActiveStep

-----------------------------------------------------------------------------
(***************************************************************************)
(* Theorems.                                                               *)
(***************************************************************************)

LEMMA InitInv == Init => IInv
  <1> SUFFICES ASSUME Init PROVE IInv
    OBVIOUS
  <1> USE DEF Init
  <1>1. Types
    BY GenerationsAssumption DEF Types, StoreTypes, FileTypes, ProcessTypes, Contents, Commands
  <1>2. FileInv
    <2>1. \A g \in Gens : ~Known(g)
      BY DEF Known, None
    <2>. QED  BY <2>1 DEF FileInv, Published, Manifests, SelectedIsSound
  <1>3. CommandInv
    BY DEF CommandInv, Locks, Preparing, Remembers, Progress, HoldsLock, Locking, Working, Exclusive,
           Idle
  <1>4. LiveInv
    <2>1. \A r \in Roots : live[r].state # "bound"
      BY DEF None
    <2>2. \A o \in Operators : command[o].phase # "copying"
      BY DEF Idle
    <2>3. ViewsOwed
      <3>1. 1..Len(selections) = {}
        OBVIOUS
      <3>. QED  BY <3>1 DEF ViewsOwed
    <2>. QED  BY <2>1, <2>2, <2>3 DEF LiveInv, LiveRoots, ServerKnows
  <1>. QED  BY <1>1, <1>2, <1>3, <1>4 DEF IInv

LEMMA NextInv == IInv /\ [Next]_vars => IInv'
  <1> SUFFICES ASSUME IInv, [Next]_vars PROVE IInv'
    OBVIOUS
  <1>1. CASE Next
    BY <1>1, NextTypes, PublishedStep, ManifestsStep, SelectedStep, LocksStep, PreparingStep,
       RemembersStep, ProgressStep, LiveRootsStep, ServerStep, ViewsStep
       DEF IInv, FileInv, CommandInv, LiveInv
  <1>2. CASE UNCHANGED vars
    <2> USE <1>2 DEF vars, files, store
    <2>1. Types'
      BY DEF IInv, Types, StoreTypes, FileTypes, ProcessTypes
    <2>2. FileInv'
      BY DEF IInv, FileInv, Published, Manifests, Known, Receipted, Seen, SelectedIsSound, Selected,
             Sound
    <2>3. CommandInv'
      BY DEF IInv, CommandInv, Locks, Exclusive, Preparing, Remembers, Progress, HoldsLock, Seen,
             Known, Receipted, Sound, Covers, Newer, Window, Jobs
    <2>4. LiveInv'
      BY DEF IInv, LiveInv, LiveRoots, BoundRoot, Known, ServerKnows, CuttingOver, Selected, Newer,
             Jobs, ViewsOwed, Active, HoldsLock, ViewOwed, Rooted, Owed
    <2>. QED  BY <2>1, <2>2, <2>3, <2>4 DEF IInv
  <1>. QED  BY <1>1, <1>2

\* The inductive invariant: the types of files, rows and commands; what each
\* command remembers and how far it has come; one live root for each activation;
\* and what every view that may be served is still owed.
THEOREM Invariance == Spec => []IInv
  BY InitInv, NextInv, PTL DEF Spec

\* Files, rows and counters keep their types, a reconciled manifest holds its
\* receipt, and one command at a time holds the lifecycle lock (_lifecycle_lock).
THEOREM TypeCorrect == Spec => []TypeOK
  <1>1. IInv => TypeOK
    <2> SUFFICES ASSUME IInv PROVE TypeOK
      OBVIOUS
    <2>1. memory \in [Memories -> 0..MaxJobs]
      BY Typed, GenerationsAssumption DEF IInv, Types, StoreTypes, Contents, FileInv, Published
    <2>2. \A j \in Jobs : outbox[j].id \in Memories /\ outbox[j].status \in Statuses
      BY Typed DEF IInv, Row
    <2>. QED  BY <2>1, <2>2 DEF IInv, Types, FileTypes, ProcessTypes, FileInv, Manifests, Receipted,
                                CommandInv, Locks, TypeOK, Statuses
  <1>. QED  BY <1>1, Invariance, PTL

\* Whatever crashes or fails half-way, the pointer is at a complete, reconciled
\* and verified generation (promote, rollback, _restore_current_state).
THEOREM SelectionsSound == Spec => []SelectedIsSound
  <1>1. IInv => SelectedIsSound
    BY DEF IInv, FileInv
  <1>. QED  BY <1>1, Invariance, PTL

\* The pointer moves forward only to a generation that holds every memory as it
\* is at that moment (_begin_source_freshness_transaction, _atomic_switch).
THEOREM SwitchesCover == Spec => SwitchCoversSource
  <1>1. IInv /\ [Next]_vars => [current' > current => Covers(selections[current'])]_vars
    <2> SUFFICES ASSUME IInv, Next, current' > current PROVE Covers(selections[current'])
      BY DEF vars
    <2>1. current \in Nat
      BY Typed DEF IInv
    <2>2. ASSUME NEW o \in Operators, RestorePointer(o) PROVE FALSE
      <3>1. HoldsLock(o) /\ current' = command[o].pointer
        BY <2>2, LockingPhases DEF RestorePointer
      <3>2. command[o].pointer <= current /\ command[o].pointer \in Nat
        BY <3>1, Kinds, Typed DEF IInv, CommandInv, Remembers, HoldsLock, LockCommand
      <3>. QED  BY <2>1, <3>1, <3>2
    <2>3. PICK o \in Operators : Switch(o)
      BY <2>1, <2>2, Writers, OtherSteps
    <2>4. current' = Len(selections)
      BY <2>3 DEF Switch
    <2>. QED  BY <2>3, <2>4, SwitchOwed
  <1>. QED  BY <1>1, Invariance, PTL DEF Spec, SwitchCoversSource

\* What the live root of the selected generation lacks is a job newer than its
\* base that is still to be replayed, or that preparing another generation
\* acknowledged (resolve_generation_live_index, reconcile_index_outbox).
THEOREM LiveViewsOwed == Spec => []LiveViewIsOwed
  <1>1. IInv => LiveViewIsOwed
    <2> SUFFICES ASSUME IInv, NEW r \in Roots, live[r].state = "bound", live[r].act = current
                 PROVE  Owed(Selected, live[r].index)
      BY DEF LiveViewIsOwed, Owed, ForCandidate
    <2>1. current \in 1..Len(selections) /\ current # 0
      BY DEF IInv, LiveInv, LiveRoots, BoundRoot
    <2>2. ViewOwed(current)
      BY <2>1 DEF IInv, LiveInv, ViewsOwed, Active
    <2>. QED  BY <2>2 DEF ViewOwed, Selected
  <1>. QED  BY <1>1, Invariance, PTL
=============================================================================

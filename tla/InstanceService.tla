-------------------------- MODULE InstanceService --------------------------
(***************************************************************************)
(* The instances of kacho-compute and the asynchronous operations that     *)
(* change them.                                                            *)
(*                                                                         *)
(* Every mutating RPC stores a row in `operations' and starts a worker;    *)
(* the worker reads and writes the `instances' table, calls the peers that *)
(* own the attachments (kacho-storage for volumes, kacho-vpc for NICs) and *)
(* finally writes the operation's outcome.  Each database transaction and  *)
(* each peer call is one step, so the workers of different operations      *)
(* interleave between them.  A worker can be lost at any point (process    *)
(* crash, full backlog, exhausted terminal write); the LRO reconciler then *)
(* settles its operation by looking at the instance row.                   *)
(***************************************************************************)
EXTENDS Naturals, FiniteSets

CONSTANTS
  Instances,    \* instance ids; ids.NewID never issues one twice
  Volumes,      \* volumes owned by kacho-storage
  Nics,         \* network interfaces owned by kacho-vpc
  Ops,          \* operation ids: bounds the number of RPCs of a behaviour
  Values,       \* values of the `labels' and `resources_spec' columns
  MetaKeys,     \* keys of the `metadata' map
  Kinds,        \* the RPCs that clients call
  NoInstance,   \* "attached to nothing"
  NoRequest,    \* "this operation id has not been used"
  Place         \* selector of a detach that names a device or slot, not an id

Objects == Volumes \cup Nics

(***************************************************************************)
(* The asynchronous RPCs of InstanceService.                               *)
(***************************************************************************)
LifecycleKinds == {"Start", "Stop", "Restart"}

AllKinds == LifecycleKinds \cup
  {"Create", "Update", "UpdateMetadata", "AttachDisk", "DetachDisk",
   "AttachNetworkInterface", "DetachNetworkInterface",
   "SimulateMaintenanceEvent", "Delete"}

VARIABLES
  status,   \* status[i]: the status column; "NONE" no row yet, "GONE" deleted
  cols,     \* cols[i]: the mutable columns of the row
  want,     \* history: the last value a committed request gave each column
  event,    \* event[i]: the last compute_outbox event of i
  intent,   \* intent[i]: the last FGA register/unregister intent of i
  holder,   \* holder[x]: the instance volume or NIC x is attached to (peers)
  boot,     \* the volumes attached as boot volume (kacho-storage), by no RPC of ours
  raced,    \* history: attachments that landed on an instance being deleted
  req,      \* req[o]: the request of operation o
  pc,       \* pc[o]: where the worker of o is
  snap,     \* snap[o]: the worker's in-memory copy of the row
  todo,     \* todo[o]: attachments the worker has listed and not released
  done      \* done[o]: the operation row

rowVars  == <<status, cols, want, event, intent>>
peerVars == <<holder, boot, raced>>
opVars   == <<req, pc, snap, todo, done>>
vars     == <<rowVars, peerVars, opVars>>

-----------------------------------------------------------------------------
(***************************************************************************)
(* The row                                                                 *)
(***************************************************************************)
\* Statuses a stored row can have (control plane: PROVISIONING is instant).
RowStatus == {"RUNNING", "STOPPED", "DELETING"}
Status    == RowStatus \cup {"NONE", "GONE"}

Exists(i) == status[i] \in RowStatus

\* The mutable columns: `labels' stands for every column that may change in
\* any status, `resources_spec' for the sizing columns (with platform_id).
Columns == {"labels", "resources_spec"}
Row     == [labels : Values, resources_spec : Values, metadata : SUBSET MetaKeys]

Copy   == [status : Status, cols : Row]
Event  == [type : {"NONE", "CREATED", "UPDATED", "DELETED"}, status : Status, cols : Row,
           noop : BOOLEAN]   \* noop, history: of an Update that wrote no column
Intent == [type : {"NONE", "fga.register", "fga.unregister"}, labels : Values]

\* Requests after the synchronous validation.  A detach names its attachment
\* by id or, with Place, by device_name or slot index.  No attach is of a boot
\* volume: attachDiskReqFromSpec leaves IsBoot unset.
AllRequests ==
  [kind : {"Create"}, inst : Instances, labels : Values, resources_spec : Values]
    \cup [kind : {"Update"}, inst : Instances, mask : SUBSET Columns, value : Values]
    \cup [kind : {"UpdateMetadata"}, inst : Instances,
          del : SUBSET MetaKeys, upsert : SUBSET MetaKeys]
    \cup [kind : LifecycleKinds \cup {"SimulateMaintenanceEvent", "Delete"}, inst : Instances]
    \cup [kind : {"AttachDisk"}, inst : Instances, obj : Volumes]
    \cup [kind : {"DetachDisk"}, inst : Instances, obj : Volumes \cup {Place}]
    \cup [kind : {"AttachNetworkInterface"}, inst : Instances, obj : Nics]
    \cup [kind : {"DetachNetworkInterface"}, inst : Instances, obj : Nics \cup {Place}]

Requests == {r \in AllRequests : r.kind \in Kinds}

\* The placeholders are distinct from what they stand in for.
ASSUME ConstantsAssumption ==
  /\ NoInstance \notin Instances
  /\ NoRequest \notin Requests
  /\ Place \notin Objects
  /\ Volumes \cap Nics = {}
  /\ Kinds \subseteq AllKinds
  /\ Values # {}

Attached(i, S) == {x \in S : holder[x] = i}

\* Control points of a worker; "ok" and "err" are outcomes not yet written.
Points == {"idle", "start", "write", "emit", "attach", "reload", "detach", "list",
           "relnics", "relvols", "ok", "err", "lost", "end"}
Working == Points \ {"idle", "ok", "err", "lost", "end"}

TypeOK ==
  /\ status \in [Instances -> Status]
  /\ cols   \in [Instances -> Row]
  /\ want   \in [Instances -> Row]
  /\ event  \in [Instances -> Event]
  /\ intent \in [Instances -> Intent]
  /\ holder \in [Objects -> Instances \cup {NoInstance}]
  /\ boot   \in SUBSET Volumes
  /\ raced  \in SUBSET (Objects \X Instances)
  /\ req    \in [Ops -> Requests \cup {NoRequest}]
  /\ pc     \in [Ops -> Points]
  /\ snap   \in [Ops -> Copy]
  /\ todo   \in [Ops -> SUBSET Objects]
  /\ done   \in [Ops -> {"NONE", "RUNNING", "OK", "ERROR"}]

-----------------------------------------------------------------------------
(***************************************************************************)
(* Initially some instances may already exist, created by operations that  *)
(* have finished, with volumes and NICs attached to them: any state the    *)
(* program is in when all its operations are done.                         *)
(***************************************************************************)
SomeValue == CHOOSE v \in Values : TRUE
FirstRow  == [labels |-> SomeValue, resources_spec |-> SomeValue, metadata |-> {}]

OneBoot(i) == Cardinality(Attached(i, boot)) <= 1

Init ==
  /\ status \in [Instances -> {"NONE", "RUNNING", "STOPPED"}]
  /\ cols   = [i \in Instances |-> FirstRow]
  /\ want   = cols
  /\ event  = [i \in Instances |->
       [type   |-> IF Exists(i) THEN "CREATED" ELSE "NONE",
        status |-> status[i], cols |-> cols[i], noop |-> FALSE]]
  /\ intent = [i \in Instances |->
       [type |-> IF Exists(i) THEN "fga.register" ELSE "NONE", labels |-> SomeValue]]
  /\ holder \in [Objects -> {i \in Instances : Exists(i)} \cup {NoInstance}]
  /\ boot \in SUBSET {v \in Volumes : holder[v] # NoInstance}
  /\ \A i \in Instances : OneBoot(i)
  /\ raced  = {}
  /\ req    = [o \in Ops |-> NoRequest]
  /\ pc     = [o \in Ops |-> "idle"]
  /\ snap   = [o \in Ops |-> [status |-> "NONE", cols |-> FirstRow]]
  /\ todo   = [o \in Ops |-> {}]
  /\ done   = [o \in Ops |-> "NONE"]

-----------------------------------------------------------------------------
(***************************************************************************)
(* Steps shared by the workers                                             *)
(***************************************************************************)
Goto(o, p) == pc' = [pc EXCEPT ![o] = p]

\* The call took effect; its reply arrives, or is lost and counts as an error.
Reply(o, p) == Goto(o, p) \/ Goto(o, "err")

At(o, kinds, p) == pc[o] = p /\ req[o].kind \in kinds

\* emitCompute and emitFGARegisterIntent, inside the writer transaction.
EmitExceptDeleting(i, type, st, row) ==   \* mutant: the idempotence check hides the transition
  event' = IF st = "DELETING" THEN event
           ELSE [event EXCEPT ![i] = [type |-> type, status |-> st, cols |-> row,
                                      noop |-> FALSE]]

Emit(i, type, st, row) ==
  event' = [event EXCEPT ![i] = [type |-> type, status |-> st, cols |-> row,
                                 noop |-> FALSE]]

EmitIntent(i, type, row) ==
  intent' = [intent EXCEPT ![i] = [type |-> type, labels |-> row.labels]]

\* ids.NewID returns an id that no row and no other Create has.
Issued(i) ==
  \/ status[i] # "NONE"
  \/ \E o \in Ops : req[o] # NoRequest /\ req[o].kind = "Create" /\ req[o].inst = i

\* Every other handler reads the row first and refuses an id without one; when
\* its operation starts, the row may already be gone.
Known(i) == status[i] # "NONE"

\* runOp: store the operation with done=false and start its worker.
RunOp(o, r) ==
  /\ done[o] = "NONE"
  /\ IF r.kind = "Create" THEN ~Issued(r.inst) ELSE Known(r.inst)
  /\ req'  = [req EXCEPT ![o] = r]
  /\ done' = [done EXCEPT ![o] = "RUNNING"]
  /\ Goto(o, "start")
  /\ UNCHANGED <<rowVars, peerVars, snap, todo>>

\* The worker returned: its response or error becomes the operation's result.
Finish(o) ==
  /\ pc[o] \in {"ok", "err"}
  /\ done' = [done EXCEPT ![o] = IF pc[o] = "ok" THEN "OK" ELSE "ERROR"]
  /\ Goto(o, "end")
  /\ UNCHANGED <<rowVars, peerVars, req, snap, todo>>

\* A transaction rolls back or a peer call is refused without an effect
\* (database or peer unavailable): every worker returns the error at once.
StepFails(o) ==
  /\ pc[o] \in Working
  /\ Goto(o, "err")
  /\ UNCHANGED <<rowVars, peerVars, req, snap, todo, done>>

\* The process dies, or the worker cannot write its outcome.
LoseWorker(o) ==
  /\ pc[o] \in Working \cup {"ok", "err"}
  /\ Goto(o, "lost")
  /\ UNCHANGED <<rowVars, peerVars, req, snap, todo, done>>

-----------------------------------------------------------------------------
(***************************************************************************)
(* Create, Update, UpdateMetadata, Start/Stop/Restart                      *)
(***************************************************************************)
\* The row doCreate builds once its project and zone checks have passed.
CreatedRow(r) ==
  [labels |-> r.labels, resources_spec |-> r.resources_spec, metadata |-> {}]

Insert(o) ==
  LET i   == req[o].inst
      row == CreatedRow(req[o])
  IN  /\ At(o, {"Create"}, "start")
      /\ status' = [status EXCEPT ![i] = "RUNNING"]
      /\ cols'   = [cols EXCEPT ![i] = row]
      /\ want'   = [want EXCEPT ![i] = row]
      /\ Emit(i, "CREATED", "RUNNING", row)
      /\ EmitIntent(i, "fga.register", row)
      /\ Reply(o, "ok")
      /\ UNCHANGED <<peerVars, req, snap, todo, done>>

\* The row with the masked columns set to the request's value.
Masked(row, mask, value) ==
  [labels         |-> IF "labels" \in mask THEN value ELSE row.labels,
   resources_spec |-> IF "resources_spec" \in mask THEN value ELSE row.resources_spec,
   metadata       |-> row.metadata]

\* Update reads the row, applies the mask to its copy and checks the status.
UpdateGet(o) ==
  LET i == req[o].inst
  IN  /\ At(o, {"Update"}, "start")
      /\ IF /\ Exists(i)
            /\ "resources_spec" \in req[o].mask => status[i] = "STOPPED"
           THEN /\ snap' = [snap EXCEPT ![o] =
                     [status |-> status[i],
                      cols   |-> Masked(cols[i], req[o].mask, req[o].value)]]
                /\ Goto(o, "write")
           ELSE /\ Goto(o, "err")
                /\ UNCHANGED snap
      /\ UNCHANGED <<rowVars, peerVars, req, todo, done>>

UpdateMatchesAnyStatus(i, mask) == Exists(i)   \* mutant: only the worker's own check

\* The UPDATE's WHERE clause: sizing columns only while the row is STOPPED.
UpdateMatches(i, mask) ==
  Exists(i) /\ ("resources_spec" \in mask => status[i] = "STOPPED")

UpdateSetWholeRow(row, copy, mask) == copy   \* mutant: writes every column it has read

\* The UPDATE's SET clause: from the worker's copy, the changed columns only.
UpdateSet(row, copy, mask) ==
  [labels         |-> IF "labels" \in mask THEN copy.labels ELSE row.labels,
   resources_spec |-> IF "resources_spec" \in mask THEN copy.resources_spec
                                                    ELSE row.resources_spec,
   metadata       |-> row.metadata]

\* InstanceRepo.Update, with at least one column to write.
UpdateWrite(o) ==
  LET i   == req[o].inst
      row == UpdateSet(cols[i], snap[o].cols, req[o].mask)
  IN  /\ At(o, {"Update"}, "write")
      /\ req[o].mask # {}
      /\ IF UpdateMatches(i, req[o].mask)
           THEN /\ cols' = [cols EXCEPT ![i] = row]
                /\ want' = [want EXCEPT ![i] = Masked(@, req[o].mask, req[o].value)]
                /\ Emit(i, "UPDATED", status[i], row)
                /\ IF "labels" \in req[o].mask
                     THEN EmitIntent(i, "fga.register", row)
                     ELSE UNCHANGED intent
                /\ Reply(o, "ok")
           ELSE /\ Goto(o, "err")
                /\ UNCHANGED <<cols, want, event, intent>>
      /\ UNCHANGED <<status, peerVars, req, snap, todo, done>>

\* A mask that touches no column (network_settings or platform_id left empty):
\* the row is read again, without a lock, ...
UpdateReread(o) ==
  LET i == req[o].inst
  IN  /\ At(o, {"Update"}, "write")
      /\ req[o].mask = {}
      /\ IF Exists(i)
           THEN /\ snap' = [snap EXCEPT ![o] = [status |-> status[i], cols |-> cols[i]]]
                /\ Goto(o, "emit")
           ELSE /\ Goto(o, "err")
                /\ UNCHANGED snap
      /\ UNCHANGED <<rowVars, peerVars, req, todo, done>>

\* ... and what was read is published as an UPDATED event all the same.
EmitReread(o) ==
  /\ At(o, {"Update"}, "emit")
  /\ event' = [event EXCEPT ![req[o].inst] =
       [type |-> "UPDATED", status |-> snap[o].status, cols |-> snap[o].cols,
        noop |-> TRUE]]
  /\ Reply(o, "ok")
  /\ UNCHANGED <<status, cols, want, intent, peerVars, req, snap, todo, done>>

\* metadata = (metadata - del) || upsert, in one statement.
Merged(row, del, upsert) ==
  [labels         |-> row.labels,
   resources_spec |-> row.resources_spec,
   metadata       |-> (row.metadata \ del) \cup upsert]

MergeMetadata(o) ==
  LET i      == req[o].inst
      merged == Merged(cols[i], req[o].del, req[o].upsert)
  IN  /\ At(o, {"UpdateMetadata"}, "start")
      /\ IF Exists(i)
           THEN /\ cols' = [cols EXCEPT ![i] = merged]
                /\ want' = [want EXCEPT ![i] = Merged(@, req[o].del, req[o].upsert)]
                /\ Emit(i, "UPDATED", status[i], merged)
                /\ Reply(o, "ok")
           ELSE /\ Goto(o, "err")
                /\ UNCHANGED <<cols, want, event>>
      /\ UNCHANGED <<status, intent, peerVars, req, snap, todo, done>>

ToRestarting(kind) ==   \* mutant: a status the row model does not know
  CASE kind = "Stop" -> "STOPPED" [] kind = "Start" -> "RUNNING" [] OTHER -> "RESTARTING"

\* The transitions of Start, Stop and Restart.
From(kind) == IF kind = "Start" THEN "STOPPED" ELSE "RUNNING"
To(kind)   == IF kind = "Stop" THEN "STOPPED" ELSE "RUNNING"

StatusMatchesRow(i, expected) == Exists(i)   \* mutant: UPDATE ... WHERE id only

\* The WHERE clause of SetStatusCAS.
StatusMatches(i, expected) == status[i] = expected

SetStatusCAS(o) ==
  LET i == req[o].inst
      k == req[o].kind
  IN  /\ At(o, LifecycleKinds, "start")
      /\ IF StatusMatches(i, From(k))
           THEN /\ status' = [status EXCEPT ![i] = To(k)]
                /\ Emit(i, "UPDATED", To(k), cols[i])
                /\ Reply(o, "ok")
           ELSE /\ Goto(o, "err")
                /\ UNCHANGED <<status, event>>
      /\ UNCHANGED <<cols, want, intent, peerVars, req, snap, todo, done>>

\* SimulateMaintenanceEvent reads the row and returns it.
SimulateMaintenanceEvent(o) ==
  /\ At(o, {"SimulateMaintenanceEvent"}, "start")
  /\ Goto(o, IF Exists(req[o].inst) THEN "ok" ELSE "err")
  /\ UNCHANGED <<rowVars, peerVars, req, snap, todo, done>>

-----------------------------------------------------------------------------
(***************************************************************************)
(* Attachments, owned by the peers                                         *)
(***************************************************************************)
\* The gate in front of an attach: GateForAttach (a SELECT) for volumes, Get
\* and a status comparison for NICs.  Neither keeps a lock.
GateMatches(i) == status[i] \in {"RUNNING", "STOPPED"}

AttachKinds == {"AttachDisk", "AttachNetworkInterface"}

GateForAttach(o) ==
  /\ At(o, AttachKinds, "start")
  /\ Goto(o, IF GateMatches(req[o].inst) THEN "attach" ELSE "err")
  /\ UNCHANGED <<rowVars, peerVars, req, snap, todo, done>>

\* What the peers accept: a free object.
PeerAccepts(o) == holder[req[o].obj] = NoInstance

\* AttachDisk reloads the row afterwards, AttachNetworkInterface does not.
AfterAttach(kind) == IF kind = "AttachDisk" THEN "reload" ELSE "ok"

\* storage.Attach / vpc.Attach: attaches, accepts what is already so, or refuses.
PeerAttach(o) ==
  LET i == req[o].inst
      x == req[o].obj
  IN  /\ At(o, AttachKinds, "attach")
      /\ \/ /\ PeerAccepts(o)
            /\ holder' = [holder EXCEPT ![x] = i]
            /\ raced' = IF GateMatches(i) THEN raced ELSE raced \cup {<<x, i>>}
            /\ UNCHANGED boot
            /\ Reply(o, AfterAttach(req[o].kind))
         \/ /\ holder[x] = i
            /\ Goto(o, AfterAttach(req[o].kind))
            /\ UNCHANGED peerVars
         \/ /\ holder[x] # i /\ ~PeerAccepts(o)
            /\ Goto(o, "err")
            /\ UNCHANGED peerVars
      /\ UNCHANGED <<rowVars, req, snap, todo, done>>

\* reloadWithMirror: the row must still be there; the mirrors never fail.
Reload(o) ==
  /\ At(o, {"AttachDisk", "DetachDisk"}, "reload")
  /\ Goto(o, IF Exists(req[o].inst) THEN "ok" ELSE "err")
  /\ UNCHANGED <<rowVars, peerVars, req, snap, todo, done>>

\* The attachments a detach selector can mean among the listed ones.
Selected(x, listed) == IF x = Place THEN listed ELSE listed \cap {x}

ListForDetachAnyDisk(o) ==   \* mutant: boot volumes are not refused
  LET chosen == Selected(req[o].obj, Attached(req[o].inst, Volumes))
  IN  /\ At(o, {"DetachDisk"}, "start")
      /\ \/ \E v \in chosen :
               /\ todo' = [todo EXCEPT ![o] = {v}]
               /\ Goto(o, "detach")
         \/ /\ chosen = {} \/ req[o].obj = Place
            /\ Goto(o, "reload")
            /\ UNCHANGED todo
      /\ UNCHANGED <<rowVars, peerVars, req, snap, done>>

\* DetachDisk lists the volumes and picks its target; a boot volume is refused,
\* nothing found (for a device name: possibly) is a no-op.
ListForDetachDisk(o) ==
  LET listed == Attached(req[o].inst, Volumes)
      chosen == Selected(req[o].obj, listed)
  IN  /\ At(o, {"DetachDisk"}, "start")
      /\ \/ \E v \in chosen \ boot :
               /\ todo' = [todo EXCEPT ![o] = {v}]
               /\ Goto(o, "detach")
         \/ /\ chosen \cap boot # {}
            /\ Goto(o, "err")
            /\ UNCHANGED todo
         \/ /\ chosen = {} \/ req[o].obj = Place
            /\ Goto(o, "reload")
            /\ UNCHANGED todo
      /\ UNCHANGED <<rowVars, peerVars, req, snap, done>>

\* DetachNetworkInterface needs the row; by index it lists first.
GetForDetachNic(o) ==
  /\ At(o, {"DetachNetworkInterface"}, "start")
  /\ IF ~Exists(req[o].inst)
       THEN Goto(o, "err") /\ UNCHANGED todo
       ELSE IF req[o].obj = Place
              THEN Goto(o, "list") /\ UNCHANGED todo
              ELSE /\ todo' = [todo EXCEPT ![o] = {req[o].obj}]
                   /\ Goto(o, "detach")
  /\ UNCHANGED <<rowVars, peerVars, req, snap, done>>

ListForDetachNic(o) ==
  /\ At(o, {"DetachNetworkInterface"}, "list")
  /\ \/ \E n \in Attached(req[o].inst, Nics) :
           /\ todo' = [todo EXCEPT ![o] = {n}]
           /\ Goto(o, "detach")
     \/ Goto(o, "ok") /\ UNCHANGED todo
  /\ UNCHANGED <<rowVars, peerVars, req, snap, done>>

\* storage.Detach / vpc.Detach of x from i: a no-op unless x is attached to i.
Released(x, i) ==
  /\ holder' = IF holder[x] = i THEN [holder EXCEPT ![x] = NoInstance] ELSE holder
  /\ boot'   = IF holder[x] = i THEN boot \ {x} ELSE boot
  /\ raced'  = raced \ {<<x, i>>}

PeerDetach(o) ==
  /\ At(o, {"DetachDisk", "DetachNetworkInterface"}, "detach")
  /\ \E x \in todo[o] : Released(x, req[o].inst)
  /\ Reply(o, IF req[o].kind = "DetachDisk" THEN "reload" ELSE "ok")
  /\ UNCHANGED <<rowVars, req, snap, todo, done>>

-----------------------------------------------------------------------------
(***************************************************************************)
(* The Delete saga: mark, release NICs, release volumes, delete the row    *)
(***************************************************************************)
\* MarkDeleting; without a row the saga takes the instance as already deleted.
MarkDeleting(o) ==
  LET i == req[o].inst
  IN  /\ At(o, {"Delete"}, "start")
      /\ IF Exists(i)
           THEN /\ status' = [status EXCEPT ![i] = "DELETING"]
                /\ IF status[i] # "DELETING"
                     THEN Emit(i, "UPDATED", "DELETING", cols[i])
                     ELSE UNCHANGED event
                /\ Reply(o, "list")
           ELSE /\ Goto(o, "ok")
                /\ UNCHANGED <<status, event>>
      /\ UNCHANGED <<cols, want, intent, peerVars, req, snap, todo, done>>

\* nicClient.ListByInstance, on every run of the saga.
ListNics(o) ==
  /\ At(o, {"Delete"}, "list")
  /\ todo' = [todo EXCEPT ![o] = Attached(req[o].inst, Nics)]
  /\ Goto(o, "relnics")
  /\ UNCHANGED <<rowVars, peerVars, req, snap, done>>

ListVolumesFailOpen(o) ==   \* mutant: a failed listing is taken as an empty one
  /\ At(o, {"Delete"}, "relnics")
  /\ todo[o] = {}
  /\ \/ todo' = [todo EXCEPT ![o] = Attached(req[o].inst, Volumes)]
     \/ UNCHANGED todo
  /\ Goto(o, "relvols")
  /\ UNCHANGED <<rowVars, peerVars, req, snap, done>>

\* storageClient.ListAttachments, once every listed NIC is released.
ListVolumes(o) ==
  /\ At(o, {"Delete"}, "relnics")
  /\ todo[o] = {}
  /\ todo' = [todo EXCEPT ![o] = Attached(req[o].inst, Volumes)]
  /\ Goto(o, "relvols")
  /\ UNCHANGED <<rowVars, peerVars, req, snap, done>>

\* One Detach of the loops over the listed NICs and volumes.
ReleaseNext(o) ==
  /\ pc[o] \in {"relnics", "relvols"}
  /\ \E x \in todo[o] :
       /\ Released(x, req[o].inst)
       /\ todo' = [todo EXCEPT ![o] = @ \ {x}]
  /\ Reply(o, pc[o])
  /\ UNCHANGED <<rowVars, req, snap, done>>

\* InstanceRepo.Delete, the last step; a row already gone counts as success.
DeleteRow(o) ==
  LET i == req[o].inst
  IN  /\ At(o, {"Delete"}, "relvols")
      /\ todo[o] = {}
      /\ IF Exists(i)
           THEN /\ status' = [status EXCEPT ![i] = "GONE"]
                /\ Emit(i, "DELETED", "GONE", cols[i])
                /\ EmitIntent(i, "fga.unregister", cols[i])
                /\ Reply(o, "ok")
           ELSE /\ Goto(o, "ok")
                /\ UNCHANGED <<status, event, intent>>
      /\ UNCHANGED <<cols, want, peerVars, req, snap, todo, done>>

-----------------------------------------------------------------------------
(***************************************************************************)
(* The reconciler settles operations whose worker is lost                  *)
(***************************************************************************)
ResolvableCrud(kind) == kind \in {"Create", "Update", "Delete"}   \* mutant: no lifecycle types

\* The metadata types the resolver's switch knows; it skips all others.
Resolvable(kind) ==
  kind \notin {"AttachNetworkInterface", "DetachNetworkInterface"}

ResolvedOkPresent(o) ==   \* mutant: a lost Delete is always reported done
  req[o].kind = "Delete" \/ Exists(req[o].inst)

\* resolveExistence: a Delete is done when the row is absent, any other
\* operation when it is present; otherwise the operation is interrupted.
ResolvedOk(o) == Exists(req[o].inst) <=> req[o].kind # "Delete"

Resolve(o) ==
  /\ pc[o] = "lost"
  /\ Resolvable(req[o].kind)
  /\ done' = [done EXCEPT ![o] = IF ResolvedOk(o) THEN "OK" ELSE "ERROR"]
  /\ Goto(o, "end")
  /\ UNCHANGED <<rowVars, peerVars, req, snap, todo>>

-----------------------------------------------------------------------------
\* A step the worker of o takes towards its outcome.
WorkerStep(o) ==
  \/ Insert(o) \/ UpdateGet(o) \/ UpdateWrite(o) \/ UpdateReread(o) \/ EmitReread(o)
  \/ MergeMetadata(o)
  \/ SetStatusCAS(o) \/ SimulateMaintenanceEvent(o)
  \/ GateForAttach(o) \/ PeerAttach(o) \/ Reload(o)
  \/ ListForDetachDisk(o) \/ GetForDetachNic(o) \/ ListForDetachNic(o) \/ PeerDetach(o)
  \/ MarkDeleting(o) \/ ListNics(o) \/ ListVolumes(o) \/ ReleaseNext(o) \/ DeleteRow(o)
  \/ StepFails(o) \/ Finish(o)

\* No operation is under way: the service waits for a client that may never call.
Quiescent ==
  /\ \A o \in Ops : pc[o] \in {"idle", "end"} \/ (pc[o] = "lost" /\ ~Resolvable(req[o].kind))
  /\ UNCHANGED vars

Next ==
  \/ \E o \in Ops, r \in Requests : RunOp(o, r)
  \/ \E o \in Ops : WorkerStep(o) \/ LoseWorker(o) \/ Resolve(o)
  \/ Quiescent

Spec == Init /\ [][Next]_vars

\* Goroutines are scheduled and the reconciler sweeps periodically; peers and
\* database may fail a step but every call ends, by timeout at the latest.
Fairness == \A o \in Ops : WF_vars(WorkerStep(o)) /\ WF_vars(Resolve(o))

FairSpec == Spec /\ Fairness

-----------------------------------------------------------------------------
(***************************************************************************)
(* Properties                                                              *)
(***************************************************************************)
\* Once Delete has removed the row, nothing is left attached to the instance
\* except what an attach that had passed its gate before the saga began landed
\* afterwards: whatever crashed, failed or was retried on the way, the saga
\* never drops the row while a listed NIC or volume is still held.
NoLeakedAttachment ==
  \A i \in Instances : status[i] = "GONE" =>
    \A x \in Attached(i, Objects) : <<x, i>> \in raced

\* What the comments on GateForAttach and Delete promise: an attach racing a
\* Delete cannot leave a volume or NIC attached to a deleted instance.
NoDanglingAttachment ==
  \A i \in Instances : status[i] = "GONE" => Attached(i, Objects) = {}

\* Start, Stop, Restart and Create never bring an instance back once a Delete
\* has marked it, and a deleted row never returns.
DeletingIsFinal ==
  [][\A i \in Instances :
       /\ status[i] = "DELETING" => status'[i] \in {"DELETING", "GONE"}
       /\ status[i] = "GONE" => status'[i] = "GONE"]_vars

\* The sizing columns of a stored row change only while it is STOPPED, however
\* a Start interleaves between Update's read and its write.
SizingOnlyWhenStopped ==
  [][\A i \in Instances :
       (Exists(i) /\ cols'[i].resources_spec # cols[i].resources_spec)
         => status[i] = "STOPPED" /\ status'[i] = "STOPPED"]_vars

\* Concurrent updates of different columns all survive: each column holds what
\* the last committed request that named it asked for.
NoLostUpdate ==
  \A i \in Instances : Exists(i) => cols[i] = want[i]

\* The event last published for i describes its row as it is.
EventFits(i) ==
  /\ Exists(i) => /\ event[i].type \in {"CREATED", "UPDATED"}
                  /\ event[i].status = status[i]
                  /\ event[i].cols = cols[i]
  /\ status[i] = "GONE" => event[i].type = "DELETED"

\* The last FGA intent of an instance always describes its row, and so does its
\* last outbox event unless an Update that wrote nothing published it: no change
\* of a row commits without the event and intent that announce it.
PublishedRow ==
  \A i \in Instances :
    /\ ~event[i].noop => EventFits(i)
    /\ Exists(i) => intent[i] = [type |-> "fga.register", labels |-> cols[i].labels]
    /\ status[i] = "GONE" => intent[i].type = "fga.unregister"

\* A Delete that reports success, from the worker or from the reconciler, has
\* deleted the row for good: its NotFound branch and the reconciler both take an
\* absent row as `already deleted', never as `not created yet'.
DeleteOkMeansGone ==
  \A o \in Ops : (done[o] = "OK" /\ req[o].kind = "Delete") => status[req[o].inst] = "GONE"

\* A volume or NIC leaves an instance that is not being deleted only by a Detach of
\* that instance that named it, by its id or by a place, and a boot volume not even so:
\* no saga that was lost, repeated or is still at work on an old list, and no Detach
\* that finds its target gone or attached elsewhere, releases anything else.
AttachmentsStay ==
  [][\A x \in Objects : (holder[x] # NoInstance /\ holder'[x] # holder[x]) =>
       \/ status[holder[x]] \in {"DELETING", "GONE"}
       \/ /\ x \notin boot
          /\ \E o \in Ops : /\ pc[o] = "detach" /\ req[o].inst = holder[x]
                            /\ req[o].obj \in {x, Place}]_vars

\* Seen as a table, the service is InstanceTable: whatever its workers copy, lose,
\* retry or interleave, each row changes by the whole effect of one unanswered
\* request on the row as it is, announced in the same transaction.
Table == INSTANCE InstanceTable
           WITH row  <- [i \in Instances |-> [status |-> status[i], cols |-> cols[i]]],
                Rows <- [status : RowStatus, cols : Row]

ImplementsTable == Table!Spec

\* Operations reach a terminal state although workers are lost, because the
\* reconciler resolves the orphaned ones: time and again nothing is unfinished but
\* kinds that the resolver does not know.  (An operation runs once and Ops is
\* finite, so this says of each operation that it ends.)
OrphansSettle ==
  []<>(\A o \in Ops : done[o] = "RUNNING" =>
         req[o].kind \in {"AttachNetworkInterface", "DetachNetworkInterface"})

\* What the recovery promises: every operation reaches a terminal state although
\* workers are lost, because the reconciler resolves the orphaned ones.
OperationsSettle ==
  \A o \in Ops : (done[o] = "RUNNING") ~> (done[o] \in {"OK", "ERROR"})

-----------------------------------------------------------------------------
(***************************************************************************)
(* The inductive invariant behind the safety properties                    *)
(***************************************************************************)
\* An operation id is unused until runOp gives it a request.
FreshOps ==
  \A o \in Ops : /\ pc[o] = "idle" <=> done[o] = "NONE"
                 /\ pc[o] = "idle" <=> req[o] = NoRequest

\* Only Delete reaches the release loops.
ReleasePoints ==
  \A o \in Ops : pc[o] \in {"relnics", "relvols"} => req[o].kind = "Delete"

\* The id of a Create is its own, and has no row before the Insert.
CreateOwnsId ==
  \A o \in Ops : (pc[o] # "idle" /\ req[o].kind = "Create") =>
    /\ pc[o] = "start" => status[req[o].inst] = "NONE"
    /\ \A p \in Ops \ {o} :
         (pc[p] # "idle" /\ req[p].kind = "Create") => req[p].inst # req[o].inst

\* An operation on an existing instance never finds the id without a history.
NamesKnown ==
  \A o \in Ops : (pc[o] # "idle" /\ req[o].kind # "Create") => Known(req[o].inst)

\* A Delete whose worker is about to report success has seen the row gone.
DeleteReached ==
  \A o \in Ops : (req[o] # NoRequest /\ req[o].kind = "Delete" /\ pc[o] = "ok")
                   => status[req[o].inst] = "GONE"

\* A Delete that has passed MarkDeleting works on a row no attach can pass.
MarkedFirst ==
  \A o \in Ops :
    (pc[o] \in {"list", "relnics", "relvols"} /\ req[o].kind = "Delete")
      => status[req[o].inst] \in {"DELETING", "GONE"}

\* What is attached to i beside the attachments that raced its deletion.
Held(i, S) == {x \in Attached(i, S) : <<x, i>> \notin raced}

\* The worker's list covers all of it, NICs first and then volumes.
ListsCover ==
  /\ \A o \in Ops : pc[o] = "relnics" => Held(req[o].inst, Nics) \subseteq todo[o]
  /\ \A o \in Ops : pc[o] = "relvols" => Held(req[o].inst, Objects) \subseteq todo[o]
  /\ \A i \in Instances : status[i] = "GONE" => Held(i, Objects) = {}

\* What a Detach is about to release is what its request named, and no boot volume.
DetachTargets ==
  \A o \in Ops :
    /\ pc[o] = "detach" => /\ req[o].kind \in {"DetachDisk", "DetachNetworkInterface"}
                           /\ todo[o] \cap boot = {}
                           /\ req[o].obj # Place => todo[o] \subseteq {req[o].obj}
    /\ (pc[o] = "list" /\ req[o].kind = "DetachNetworkInterface") => req[o].obj = Place

\* At its write, the copy of an Update holds the requested values.
CopyIsMasked ==
  \A o \in Ops : (pc[o] = "write") =>
    /\ req[o].kind = "Update"
    /\ "labels" \in req[o].mask => snap[o].cols.labels = req[o].value
    /\ "resources_spec" \in req[o].mask => snap[o].cols.resources_spec = req[o].value

IndInv ==
  /\ TypeOK
  /\ FreshOps
  /\ ReleasePoints
  /\ CreateOwnsId
  /\ NamesKnown
  /\ DeleteReached
  /\ DeleteOkMeansGone
  /\ MarkedFirst
  /\ ListsCover
  /\ DetachTargets
  /\ CopyIsMasked
  /\ NoLostUpdate
  /\ PublishedRow
=============================================================================

----------------------- MODULE InstanceServiceProofs -----------------------
(***************************************************************************)
(* Proofs about InstanceService, for any number of instances, volumes,     *)
(* NICs and concurrent operations.                                         *)
(***************************************************************************)
EXTENDS InstanceService, TLAPS

-----------------------------------------------------------------------------
(***************************************************************************)
(* What a request of each kind carries                                     *)
(***************************************************************************)
\* Every request names an instance of the model and one RPC (AllRequests).
LEMMA RequestInst ==
  \A r \in Requests : r.inst \in Instances /\ r.kind \in AllKinds
  BY DEF Requests, AllRequests, AllKinds, LifecycleKinds

\* The fields of Create, Update and UpdateMetadata requests.
LEMMA RequestRowFields ==
  \A r \in Requests :
    /\ r.kind = "Create" => r.labels \in Values /\ r.resources_spec \in Values
    /\ r.kind = "Update" => r.mask \in SUBSET Columns /\ r.value \in Values
    /\ r.kind = "UpdateMetadata" => r.del \in SUBSET MetaKeys /\ r.upsert \in SUBSET MetaKeys
  BY DEF Requests, AllRequests, LifecycleKinds

\* The fields of attach and detach requests.
LEMMA RequestAttachFields ==
  \A r \in Requests :
    /\ r.kind = "AttachDisk" => r.obj \in Volumes
    /\ r.kind = "DetachDisk" => r.obj \in Volumes \cup {Place}
    /\ r.kind = "AttachNetworkInterface" => r.obj \in Nics
    /\ r.kind = "DetachNetworkInterface" => r.obj \in Nics \cup {Place}
  BY DEF Requests, AllRequests, LifecycleKinds

-----------------------------------------------------------------------------
(***************************************************************************)
(* What the row operators and the outbox writes produce                    *)
(***************************************************************************)
\* An Update's mask and its SET clause turn rows into rows.
LEMMA RowOperators ==
  \A row, copy \in Row, mask \in SUBSET Columns, value \in Values :
    /\ Masked(row, mask, value) \in Row
    /\ UpdateSet(row, copy, mask) \in Row
  BY DEF Masked, UpdateSet, Row

\* A metadata merge turns a row into a row.
LEMMA MergedTyped ==
  \A row \in Row, del, upsert \in SUBSET MetaKeys : Merged(row, del, upsert) \in Row
  BY DEF Merged, Row

\* An outbox event carries the row it describes.
LEMMA EmitTyped ==
  ASSUME event \in [Instances -> Event], NEW i \in Instances, NEW st \in Status,
         NEW row \in Row, NEW type \in {"CREATED", "UPDATED", "DELETED"},
         Emit(i, type, st, row)
  PROVE  event' \in [Instances -> Event]
  <1>1. [type |-> type, status |-> st, cols |-> row, noop |-> FALSE] \in Event
    BY DEF Event
  <1> QED
    BY <1>1 DEF Emit

\* A register intent carries the labels of the row it describes.
LEMMA EmitIntentTyped ==
  ASSUME intent \in [Instances -> Intent], NEW i \in Instances, NEW row \in Row,
         NEW type \in {"fga.register", "fga.unregister"}, EmitIntent(i, type, row)
  PROVE  intent' \in [Instances -> Intent]
  <1>1. [type |-> type, labels |-> row.labels] \in Intent
    BY DEF Intent, Row
  <1> QED
    BY <1>1 DEF EmitIntent

-----------------------------------------------------------------------------
\* The initial states are well typed.
LEMMA InitTypeOK == Init => TypeOK
  <1> SUFFICES ASSUME Init PROVE TypeOK
    OBVIOUS
  <1>1. SomeValue \in Values
    BY ConstantsAssumption DEF SomeValue
  <1>2. FirstRow \in Row
    BY <1>1 DEF FirstRow, Row
  <1>3. status \in [Instances -> Status]
    BY DEF Init, Status, RowStatus
  <1>4. cols \in [Instances -> Row] /\ want \in [Instances -> Row]
    BY <1>2 DEF Init
  <1>5. event \in [Instances -> Event]
    BY <1>3, <1>4 DEF Init, Event
  <1>6. intent \in [Instances -> Intent]
    BY <1>1 DEF Init, Intent
  <1>7. /\ holder \in [Objects -> Instances \cup {NoInstance}]
        /\ boot \in SUBSET Volumes
        /\ raced \in SUBSET (Objects \X Instances)
    BY DEF Init
  <1>8. /\ req \in [Ops -> Requests \cup {NoRequest}]
        /\ pc \in [Ops -> Points]
        /\ snap \in [Ops -> Copy]
        /\ todo \in [Ops -> SUBSET Objects]
        /\ done \in [Ops -> {"NONE", "RUNNING", "OK", "ERROR"}]
    BY <1>2 DEF Init, Points, Status, Copy
  <1> QED
    BY <1>3, <1>4, <1>5, <1>6, <1>7, <1>8 DEF TypeOK

\* Every step keeps the types.
LEMMA NextTypeOK == TypeOK /\ FreshOps /\ [Next]_vars => TypeOK'
  <1> SUFFICES ASSUME TypeOK, FreshOps, [Next]_vars PROVE TypeOK'
    OBVIOUS
  <1> USE DEF Goto, Reply, At, rowVars, peerVars
  <1>a. \A o \in Ops : pc[o] # "idle" => req[o] \in Requests
    BY DEF TypeOK, FreshOps
  <1>b. \A o \in Ops : pc[o] # "idle" => req[o].inst \in Instances
    BY <1>a, RequestInst
  <1>1. ASSUME NEW o \in Ops, NEW r \in Requests, RunOp(o, r) PROVE TypeOK'
    BY <1>1 DEF TypeOK, RunOp, Points
  <1>2. ASSUME NEW o \in Ops, Insert(o) PROVE TypeOK'
    <2>1. req[o] \in Requests /\ req[o].inst \in Instances
      BY <1>a, <1>b, <1>2 DEF Insert
    <2>2. req[o].labels \in Values /\ req[o].resources_spec \in Values
      BY <2>1, <1>2, RequestRowFields DEF Insert
    <2>3. CreatedRow(req[o]) \in Row /\ "RUNNING" \in Status
      BY <2>2 DEF CreatedRow, Row, Status, RowStatus
    <2>4. event' \in [Instances -> Event]
      BY <1>2, <2>1, <2>3, EmitTyped DEF TypeOK, Insert
    <2>5. intent' \in [Instances -> Intent]
      BY <1>2, <2>1, <2>3, EmitIntentTyped DEF TypeOK, Insert
    <2> QED
      BY <1>2, <2>1, <2>3, <2>4, <2>5 DEF TypeOK, Insert, Points
  <1>3. ASSUME NEW o \in Ops, UpdateGet(o) PROVE TypeOK'
    <2>1. req[o] \in Requests /\ req[o].inst \in Instances
      BY <1>a, <1>b, <1>3 DEF UpdateGet
    <2>2. req[o].value \in Values /\ req[o].mask \in SUBSET Columns
      BY <2>1, <1>3, RequestRowFields DEF UpdateGet
    <2>3. Masked(cols[req[o].inst], req[o].mask, req[o].value) \in Row
      BY <2>1, <2>2, RowOperators DEF TypeOK
    <2>4. [status |-> status[req[o].inst],
           cols |-> Masked(cols[req[o].inst], req[o].mask, req[o].value)]
             \in Copy
      BY <2>1, <2>3 DEF TypeOK, Copy
    <2> QED
      BY <1>3, <2>4 DEF TypeOK, UpdateGet, Points
  <1>4. ASSUME NEW o \in Ops, UpdateWrite(o) PROVE TypeOK'
    <2> DEFINE i == req[o].inst
    <2> DEFINE row == UpdateSet(cols[i], snap[o].cols, req[o].mask)
    <2>1. req[o] \in Requests /\ i \in Instances
      BY <1>a, <1>b, <1>4 DEF UpdateWrite
    <2>2. req[o].value \in Values /\ req[o].mask \in SUBSET Columns
      BY <2>1, <1>4, RequestRowFields DEF UpdateWrite
    <2>7. snap[o].cols \in Row /\ cols[i] \in Row /\ want[i] \in Row
      BY <2>1 DEF TypeOK, Copy
    <2>3. row \in Row /\ Masked(want[i], req[o].mask, req[o].value) \in Row
      BY <2>2, <2>7, RowOperators
    <2>4. cols' \in [Instances -> Row] /\ want' \in [Instances -> Row]
      BY <1>4, <2>1, <2>3 DEF TypeOK, UpdateWrite
    <2>5. event' \in [Instances -> Event]
      BY <1>4, <2>1, <2>3, EmitTyped DEF TypeOK, UpdateWrite
    <2>6. intent' \in [Instances -> Intent]
      BY <1>4, <2>1, <2>3, EmitIntentTyped DEF TypeOK, UpdateWrite
    <2> QED
      BY <1>4, <2>4, <2>5, <2>6 DEF TypeOK, UpdateWrite, Points
  <1>5. ASSUME NEW o \in Ops, MergeMetadata(o) PROVE TypeOK'
    <2> DEFINE i == req[o].inst
    <2>1. req[o] \in Requests /\ i \in Instances
      BY <1>a, <1>b, <1>5 DEF MergeMetadata
    <2>2. req[o].del \in SUBSET MetaKeys /\ req[o].upsert \in SUBSET MetaKeys
      BY <2>1, <1>5, RequestRowFields DEF MergeMetadata
    <2>3. /\ Merged(cols[i], req[o].del, req[o].upsert) \in Row
          /\ Merged(want[i], req[o].del, req[o].upsert) \in Row
      BY <2>1, <2>2, MergedTyped DEF TypeOK
    <2>4. cols' \in [Instances -> Row] /\ want' \in [Instances -> Row]
      BY <1>5, <2>1, <2>3 DEF TypeOK, MergeMetadata
    <2>5. event' \in [Instances -> Event]
      BY <1>5, <2>1, <2>3, EmitTyped DEF TypeOK, MergeMetadata
    <2> QED
      BY <1>5, <2>4, <2>5 DEF TypeOK, MergeMetadata, Points
  <1>6. ASSUME NEW o \in Ops, SetStatusCAS(o) PROVE TypeOK'
    <2>1. req[o].inst \in Instances
      BY <1>b, <1>6 DEF SetStatusCAS
    <2>2. To(req[o].kind) \in Status
      BY DEF To, Status, RowStatus
    <2>3. event' \in [Instances -> Event]
      BY <1>6, <2>1, <2>2, EmitTyped DEF TypeOK, SetStatusCAS
    <2> QED
      BY <1>6, <2>1, <2>2, <2>3 DEF TypeOK, SetStatusCAS, Points
  <1>7. ASSUME NEW o \in Ops,
               SimulateMaintenanceEvent(o) \/ GateForAttach(o) \/ Reload(o) \/ StepFails(o)
                 \/ LoseWorker(o)
        PROVE TypeOK'
    BY <1>7 DEF TypeOK, SimulateMaintenanceEvent, GateForAttach, Reload, StepFails, LoseWorker, Points
  <1>8. ASSUME NEW o \in Ops, PeerAttach(o) PROVE TypeOK'
    <2>1. req[o] \in Requests /\ req[o].inst \in Instances
      BY <1>a, <1>b, <1>8 DEF PeerAttach
    <2>2. req[o].obj \in Objects /\ (req[o].kind = "AttachDisk" => req[o].obj \in Volumes)
      BY <2>1, <1>8, RequestAttachFields DEF PeerAttach, AttachKinds, Objects
    <2>3. AfterAttach(req[o].kind) \in Points
      BY DEF AfterAttach, Points
    <2> QED
      BY <1>8, <2>1, <2>2, <2>3 DEF TypeOK, PeerAttach, Points
  <1>9. ASSUME NEW o \in Ops, ListForDetachDisk(o) PROVE TypeOK'
    <2>1. todo' \in [Ops -> SUBSET Objects]
      BY <1>9 DEF TypeOK, ListForDetachDisk, Selected, Attached, Objects
    <2> QED
      BY <1>9, <2>1 DEF TypeOK, ListForDetachDisk, Points
  <1>10. ASSUME NEW o \in Ops, GetForDetachNic(o) PROVE TypeOK'
    <2>1. req[o] \in Requests /\ req[o].kind = "DetachNetworkInterface"
      BY <1>a, <1>10 DEF GetForDetachNic
    <2>2. req[o].obj # Place => req[o].obj \in Objects
      BY <2>1, RequestAttachFields DEF Objects
    <2>3. todo' \in [Ops -> SUBSET Objects]
      BY <1>10, <2>2 DEF TypeOK, GetForDetachNic
    <2> QED
      BY <1>10, <2>3 DEF TypeOK, GetForDetachNic, Points
  <1>11. ASSUME NEW o \in Ops, ListForDetachNic(o) PROVE TypeOK'
    BY <1>11 DEF TypeOK, ListForDetachNic, Attached, Objects, Points
  <1>12. ASSUME NEW o \in Ops, PeerDetach(o) PROVE TypeOK'
    BY <1>12 DEF TypeOK, PeerDetach, Released, Points
  <1>13. ASSUME NEW o \in Ops, MarkDeleting(o) PROVE TypeOK'
    <2>1. req[o].inst \in Instances /\ "DELETING" \in Status
      BY <1>b, <1>13 DEF MarkDeleting, Status, RowStatus
    <2>2. event' \in [Instances -> Event]
      BY <1>13, <2>1, EmitTyped DEF TypeOK, MarkDeleting
    <2> QED
      BY <1>13, <2>1, <2>2 DEF TypeOK, MarkDeleting, Points
  <1>14. ASSUME NEW o \in Ops, ListNics(o) \/ ListVolumes(o) PROVE TypeOK'
    BY <1>14 DEF TypeOK, ListNics, ListVolumes, Attached, Objects, Points
  <1>15. ASSUME NEW o \in Ops, ReleaseNext(o) PROVE TypeOK'
    BY <1>15 DEF TypeOK, ReleaseNext, Released, Points
  <1>16. ASSUME NEW o \in Ops, DeleteRow(o) PROVE TypeOK'
    <2>1. req[o].inst \in Instances /\ "GONE" \in Status
      BY <1>b, <1>16 DEF DeleteRow, Status
    <2>2. event' \in [Instances -> Event]
      BY <1>16, <2>1, EmitTyped DEF TypeOK, DeleteRow
    <2>3. intent' \in [Instances -> Intent]
      BY <1>16, <2>1, EmitIntentTyped DEF TypeOK, DeleteRow
    <2> QED
      BY <1>16, <2>1, <2>2, <2>3 DEF TypeOK, DeleteRow, Points
  <1>17. ASSUME NEW o \in Ops, Finish(o) \/ Resolve(o) PROVE TypeOK'
    BY <1>17 DEF TypeOK, Finish, Resolve, Points
  <1>19. ASSUME NEW o \in Ops, UpdateReread(o) PROVE TypeOK'
    <2>1. req[o].inst \in Instances
      BY <1>b, <1>19 DEF UpdateReread
    <2>2. [status |-> status[req[o].inst], cols |-> cols[req[o].inst]]
            \in Copy
      BY <2>1 DEF TypeOK, Copy
    <2> QED
      BY <1>19, <2>2 DEF TypeOK, UpdateReread, Points
  <1>20. ASSUME NEW o \in Ops, EmitReread(o) PROVE TypeOK'
    <2>1. req[o].inst \in Instances
      BY <1>b, <1>20 DEF EmitReread
    <2>2. [type |-> "UPDATED", status |-> snap[o].status, cols |-> snap[o].cols,
           noop |-> TRUE] \in Event
      BY DEF TypeOK, Event, Copy
    <2> QED
      BY <1>20, <2>1, <2>2 DEF TypeOK, EmitReread, Points
  <1>18. CASE Quiescent \/ UNCHANGED vars
    BY <1>18 DEF TypeOK, Quiescent, vars, opVars
  <1> QED
    BY <1>1, <1>2, <1>3, <1>4, <1>5, <1>6, <1>7, <1>8, <1>9, <1>10, <1>11, <1>12, <1>13,
       <1>14, <1>15, <1>16, <1>17, <1>18, <1>19, <1>20 DEF Next, WorkerStep

-----------------------------------------------------------------------------
(***************************************************************************)
(* Frames: what a step of one operation leaves alone                       *)
(***************************************************************************)
\* A step of operation o other than runOp.
OpStep(o) == WorkerStep(o) \/ LoseWorker(o) \/ Resolve(o)

\* Only runOp writes requests; a worker touches no other worker's memory, and
\* an operation in use stays in use.
LEMMA OpFrame ==
  ASSUME TypeOK, FreshOps, NEW o \in Ops, OpStep(o)
  PROVE  /\ req' = req
         /\ pc[o] # "idle" /\ pc'[o] # "idle"
         /\ done[o] # "NONE" /\ done'[o] # "NONE"
         /\ \A p \in Ops \ {o} : pc'[p] = pc[p] /\ todo'[p] = todo[p]
                                 /\ snap'[p] = snap[p] /\ done'[p] = done[p]
  <1> USE DEF Goto, Reply, At, TypeOK, FreshOps
  <1>1. CASE Insert(o) \/ UpdateGet(o) \/ UpdateWrite(o) \/ UpdateReread(o) \/ EmitReread(o)
          \/ MergeMetadata(o)
    BY <1>1 DEF Insert, UpdateGet, UpdateWrite, UpdateReread, EmitReread, MergeMetadata
  <1>2. CASE SetStatusCAS(o) \/ SimulateMaintenanceEvent(o) \/ GateForAttach(o) \/ Reload(o)
    BY <1>2 DEF SetStatusCAS, SimulateMaintenanceEvent, GateForAttach, Reload
  <1>3. CASE PeerAttach(o)
    BY <1>3 DEF PeerAttach, AfterAttach
  <1>4. CASE ListForDetachDisk(o) \/ GetForDetachNic(o) \/ ListForDetachNic(o) \/ PeerDetach(o)
    BY <1>4 DEF ListForDetachDisk, GetForDetachNic, ListForDetachNic, PeerDetach
  <1>5. CASE MarkDeleting(o) \/ ListNics(o) \/ ListVolumes(o) \/ DeleteRow(o)
    BY <1>5 DEF MarkDeleting, ListNics, ListVolumes, DeleteRow
  <1>6. CASE ReleaseNext(o)
    BY <1>6 DEF ReleaseNext
  <1>7. CASE StepFails(o) \/ LoseWorker(o)
    BY <1>7 DEF StepFails, LoseWorker, Working, Points
  <1>8. CASE Finish(o) \/ Resolve(o)
    BY <1>8 DEF Finish, Resolve
  <1> QED
    BY <1>1, <1>2, <1>3, <1>4, <1>5, <1>6, <1>7, <1>8 DEF OpStep, WorkerStep

\* The instance an operation in use works on.
LEMMA InstOf ==
  ASSUME TypeOK, FreshOps, NEW o \in Ops, pc[o] # "idle"
  PROVE  req[o] \in Requests /\ req[o].inst \in Instances
  BY RequestInst DEF TypeOK, FreshOps

\* A step of o moves only the status of its own instance: forward once a Delete
\* has marked it, out of NONE only by Insert, into GONE only by DeleteRow.
LEMMA StatusFrame ==
  ASSUME TypeOK, FreshOps, CreateOwnsId, NEW o \in Ops, OpStep(o)
  PROVE  /\ \A i \in Instances : i # req[o].inst => status'[i] = status[i]
         /\ \A i \in Instances : status[i] \in {"DELETING", "GONE"} =>
              status'[i] \in {"DELETING", "GONE"}
         /\ \A i \in Instances : status[i] = "GONE" => status'[i] = "GONE"
         /\ \A i \in Instances : status[i] = "NONE" => status'[i] = "NONE" \/ Insert(o)
         /\ \A i \in Instances : Known(i) => Known(i)'
         /\ \A i \in Instances : status'[i] = "GONE" => status[i] = "GONE" \/ DeleteRow(o)
  <1> USE DEF TypeOK, Known
  <1>a. req[o].inst \in Instances
    BY OpFrame, InstOf
  <1>1. CASE Insert(o)
    <2>1. status[req[o].inst] = "NONE"
      BY <1>1 DEF Insert, At, CreateOwnsId
    <2>2. status' = [status EXCEPT ![req[o].inst] = "RUNNING"]
      BY <1>1 DEF Insert
    <2> QED
      BY <1>1, <2>1, <2>2, <1>a
  <1>2. CASE SetStatusCAS(o)
    BY <1>2, <1>a DEF SetStatusCAS, StatusMatches, From, To
  <1>3. CASE MarkDeleting(o)
    BY <1>3, <1>a DEF MarkDeleting, Exists, RowStatus
  <1>4. CASE DeleteRow(o)
    BY <1>4, <1>a DEF DeleteRow, Exists, RowStatus
  <1>5. CASE status' = status
    BY <1>5
  <1> QED
    BY <1>1, <1>2, <1>3, <1>4, <1>5
    DEF OpStep, WorkerStep, rowVars, UpdateGet, UpdateWrite, UpdateReread, EmitReread, MergeMetadata, SimulateMaintenanceEvent,
        GateForAttach, PeerAttach, Reload, ListForDetachDisk, GetForDetachNic, ListForDetachNic,
        PeerDetach, ListNics, ListVolumes, ReleaseNext, StepFails, Finish, LoseWorker, Resolve

\* A release takes x away from i and adds to nobody's attachments.
LEMMA ReleasedHeld ==
  ASSUME TypeOK, NEW x \in Objects, NEW i \in Instances, Released(x, i),
         NEW j \in Instances, NEW S \in SUBSET Objects
  PROVE  /\ Held(j, S)' \subseteq Held(j, S)
         /\ x \notin Held(i, S)'
  BY ConstantsAssumption DEF TypeOK, Released, Held, Attached

\* Attachments that did not race a deletion are added only while the instance
\* is RUNNING or STOPPED.
LEMMA HeldFrame ==
  ASSUME TypeOK, FreshOps, NEW o \in Ops, OpStep(o),
         NEW j \in Instances, ~GateMatches(j), NEW S \in SUBSET Objects
  PROVE  Held(j, S)' \subseteq Held(j, S)
  <1>a. req[o] \in Requests /\ req[o].inst \in Instances
    BY OpFrame, InstOf
  <1>1. CASE PeerAttach(o)
    <2>1. req[o].obj \in Objects
      BY <1>1, <1>a, RequestAttachFields DEF PeerAttach, At, AttachKinds, Objects
    <2>2. CASE UNCHANGED peerVars
      BY <2>2 DEF peerVars, Held, Attached
    <2>3. CASE PeerAccepts(o)
      <3>1. /\ holder' = [holder EXCEPT ![req[o].obj] = req[o].inst]
            /\ raced' = IF GateMatches(req[o].inst) THEN raced
                        ELSE raced \cup {<<req[o].obj, req[o].inst>>}
        BY <1>1, <2>3, <1>a, ConstantsAssumption DEF PeerAttach, PeerAccepts
      <3> SUFFICES ASSUME NEW x \in S, holder'[x] = j, <<x, j>> \notin raced'
                   PROVE  holder[x] = j /\ <<x, j>> \notin raced
        BY DEF Held, Attached
      <3>2. x # req[o].obj
        <4>1. CASE req[o].inst = j
          BY <4>1, <3>1
        <4>2. CASE req[o].inst # j
          BY <4>2, <3>1, <2>1 DEF TypeOK
        <4> QED
          BY <4>1, <4>2
      <3>3. raced \subseteq raced'
        BY <3>1
      <3> QED
        BY <3>1, <3>2, <3>3, <2>1 DEF TypeOK
    <2> QED
      BY <1>1, <2>2, <2>3 DEF PeerAttach
  <1>2. CASE PeerDetach(o)
    <2>1. PICK x \in todo[o] : Released(x, req[o].inst)
      BY <1>2 DEF PeerDetach
    <2> QED
      BY <2>1, <1>a, ReleasedHeld DEF TypeOK
  <1>3. CASE ReleaseNext(o)
    <2>1. PICK x \in todo[o] : Released(x, req[o].inst)
      BY <1>3 DEF ReleaseNext
    <2> QED
      BY <2>1, <1>a, ReleasedHeld DEF TypeOK
  <1>4. CASE UNCHANGED peerVars
    BY <1>4 DEF peerVars, Held, Attached
  <1> QED
    BY <1>1, <1>2, <1>3, <1>4
    DEF OpStep, WorkerStep, Insert, UpdateGet, UpdateWrite, UpdateReread, EmitReread, MergeMetadata, SetStatusCAS,
        SimulateMaintenanceEvent, GateForAttach, Reload, ListForDetachDisk, GetForDetachNic,
        ListForDetachNic, MarkDeleting, ListNics, ListVolumes, DeleteRow, StepFails, Finish,
        LoseWorker, Resolve

-----------------------------------------------------------------------------
(***************************************************************************)
(* The parts of the inductive invariant, one lemma each                    *)
(***************************************************************************)
\* A step of Next is runOp, a step of one operation, or no change at all.
LEMMA NextCases ==
  ASSUME [Next]_vars
  PROVE  \/ \E o \in Ops, r \in Requests : RunOp(o, r)
         \/ \E o \in Ops : OpStep(o)
         \/ UNCHANGED vars
  BY DEF Next, OpStep, Quiescent

\* What runOp does to the operations and what it leaves alone.
LEMMA RunOpEffect ==
  ASSUME TypeOK, FreshOps, NEW o \in Ops, NEW r \in Requests, RunOp(o, r)
  PROVE  /\ pc[o] = "idle" /\ pc'[o] = "start" /\ req'[o] = r /\ done'[o] = "RUNNING"
         /\ \A p \in Ops \ {o} : /\ pc'[p] = pc[p] /\ req'[p] = req[p]
                                 /\ done'[p] = done[p]
         /\ UNCHANGED <<rowVars, peerVars, snap, todo>>
  BY DEF RunOp, Goto, TypeOK, FreshOps

\* runOp takes an unused id, every other step works on a used one.
LEMMA NextFreshOps == TypeOK /\ FreshOps /\ [Next]_vars => FreshOps'
  <1> SUFFICES ASSUME TypeOK, FreshOps, [Next]_vars PROVE FreshOps'
    OBVIOUS
  <1>1. ASSUME NEW o \in Ops, NEW r \in Requests, RunOp(o, r) PROVE FreshOps'
    BY <1>1, RunOpEffect, ConstantsAssumption DEF FreshOps
  <1>2. ASSUME NEW o \in Ops, OpStep(o) PROVE FreshOps'
    BY <1>2, OpFrame DEF FreshOps
  <1>3. CASE UNCHANGED vars
    BY <1>3 DEF FreshOps, vars, opVars
  <1> QED
    BY <1>1, <1>2, <1>3, NextCases

\* A worker enters a release loop from Delete's own control points only.
LEMMA NextReleasePoints ==
  TypeOK /\ FreshOps /\ ReleasePoints /\ [Next]_vars => ReleasePoints'
  <1> SUFFICES ASSUME TypeOK, FreshOps, ReleasePoints, [Next]_vars PROVE ReleasePoints'
    OBVIOUS
  <1>1. ASSUME NEW o \in Ops, NEW r \in Requests, RunOp(o, r) PROVE ReleasePoints'
    BY <1>1, RunOpEffect DEF ReleasePoints
  <1>2. ASSUME NEW o \in Ops, OpStep(o) PROVE ReleasePoints'
    <2>1. pc'[o] \in {"relnics", "relvols"} => req[o].kind = "Delete"
      <3> USE DEF Goto, Reply, At, TypeOK
      <3>1. CASE ListNics(o) \/ ListVolumes(o)
        BY <3>1 DEF ListNics, ListVolumes
      <3>2. CASE ReleaseNext(o)
        BY <3>2 DEF ReleaseNext, ReleasePoints
      <3>3. CASE Insert(o) \/ UpdateGet(o) \/ UpdateWrite(o) \/ UpdateReread(o) \/ EmitReread(o)
          \/ MergeMetadata(o) \/ SetStatusCAS(o)
        BY <3>3 DEF Insert, UpdateGet, UpdateWrite, UpdateReread, EmitReread, MergeMetadata, SetStatusCAS
      <3>4. CASE SimulateMaintenanceEvent(o) \/ GateForAttach(o) \/ Reload(o) \/ PeerAttach(o)
        BY <3>4 DEF SimulateMaintenanceEvent, GateForAttach, Reload, PeerAttach, AfterAttach
      <3>5. CASE ListForDetachDisk(o) \/ GetForDetachNic(o) \/ ListForDetachNic(o) \/ PeerDetach(o)
        BY <3>5 DEF ListForDetachDisk, GetForDetachNic, ListForDetachNic, PeerDetach
      <3>6. CASE MarkDeleting(o) \/ DeleteRow(o)
        BY <3>6 DEF MarkDeleting, DeleteRow
      <3>7. CASE StepFails(o) \/ LoseWorker(o) \/ Finish(o) \/ Resolve(o)
        BY <3>7 DEF StepFails, LoseWorker, Finish, Resolve
      <3> QED
        BY <1>2, <3>1, <3>2, <3>3, <3>4, <3>5, <3>6, <3>7 DEF OpStep, WorkerStep
    <2> QED
      BY <1>2, <2>1, OpFrame DEF ReleasePoints
  <1>3. CASE UNCHANGED vars
    BY <1>3 DEF ReleasePoints, vars, opVars
  <1> QED
    BY <1>1, <1>2, <1>3, NextCases

\* ids.NewID issues an id once, so only its own Create inserts the row.
LEMMA NextCreateOwnsId ==
  TypeOK /\ FreshOps /\ CreateOwnsId /\ [Next]_vars => CreateOwnsId'
  <1> SUFFICES ASSUME TypeOK, FreshOps, CreateOwnsId, [Next]_vars PROVE CreateOwnsId'
    OBVIOUS
  <1>1. ASSUME NEW o \in Ops, NEW r \in Requests, RunOp(o, r) PROVE CreateOwnsId'
    <2>1. \A p \in Ops \ {o} : (pc[p] # "idle" /\ req[p].kind = "Create" /\ r.kind = "Create")
                                => req[p].inst # r.inst
      BY <1>1 DEF RunOp, Issued, FreshOps
    <2>2. r.kind = "Create" => status[r.inst] = "NONE"
      BY <1>1 DEF RunOp, Issued
    <2> QED
      BY <1>1, <2>1, <2>2, RunOpEffect DEF CreateOwnsId, rowVars
  <1>2. ASSUME NEW o \in Ops, OpStep(o) PROVE CreateOwnsId'
    <2> SUFFICES ASSUME NEW p \in Ops, (pc[p] # "idle")', (req[p].kind = "Create")'
                 PROVE  /\ (pc[p] = "start" => status[req[p].inst] = "NONE")'
                        /\ (\A q \in Ops \ {p} : (pc[q] # "idle" /\ req[q].kind = "Create")
                                                 => req[q].inst # req[p].inst)'
      BY DEF CreateOwnsId
    <2>1. req' = req /\ pc[p] # "idle" /\ req[p].inst \in Instances
      BY <1>2, OpFrame, InstOf
    <2>2. (\A q \in Ops \ {p} : (pc[q] # "idle" /\ req[q].kind = "Create")
                                => req[q].inst # req[p].inst)'
      BY <1>2, <2>1, OpFrame DEF CreateOwnsId
    <2>3. pc'[o] # "start" \/ UNCHANGED <<pc, status>>
      <3> USE DEF Goto, Reply, At, TypeOK
      <3>1. CASE Insert(o) \/ UpdateGet(o) \/ UpdateWrite(o) \/ UpdateReread(o) \/ EmitReread(o)
          \/ MergeMetadata(o) \/ SetStatusCAS(o)
        BY <3>1 DEF Insert, UpdateGet, UpdateWrite, UpdateReread, EmitReread, MergeMetadata, SetStatusCAS
      <3>2. CASE SimulateMaintenanceEvent(o) \/ GateForAttach(o) \/ Reload(o) \/ PeerAttach(o)
        BY <3>2 DEF SimulateMaintenanceEvent, GateForAttach, Reload, PeerAttach, AfterAttach
      <3>3. CASE ListForDetachDisk(o) \/ GetForDetachNic(o) \/ ListForDetachNic(o) \/ PeerDetach(o)
        BY <3>3 DEF ListForDetachDisk, GetForDetachNic, ListForDetachNic, PeerDetach
      <3>4. CASE MarkDeleting(o) \/ ListNics(o) \/ ListVolumes(o) \/ DeleteRow(o)
        BY <3>4 DEF MarkDeleting, ListNics, ListVolumes, DeleteRow
      <3>5. CASE ReleaseNext(o)
        BY <3>5 DEF ReleaseNext
      <3>6. CASE StepFails(o) \/ LoseWorker(o) \/ Finish(o) \/ Resolve(o)
        BY <3>6 DEF StepFails, LoseWorker, Finish, Resolve
      <3> QED
        BY <1>2, <3>1, <3>2, <3>3, <3>4, <3>5, <3>6 DEF OpStep, WorkerStep
    <2>4. ASSUME pc'[p] = "start" PROVE status'[req[p].inst] = "NONE"
      <3>1. pc[p] = "start" /\ status[req[p].inst] = "NONE"
        BY <1>2, <2>1, <2>3, <2>4, OpFrame DEF CreateOwnsId
      <3>2. CASE p = o
        BY <2>3, <2>4, <3>1, <3>2
      <3>3. CASE p # o /\ Insert(o)
        <4>1. req[o].kind = "Create" /\ pc[o] # "idle"
          BY <3>3 DEF Insert, At
        <4>2. req[o].inst # req[p].inst
          BY <4>1, <3>3, <2>1 DEF CreateOwnsId
        <4> QED
          BY <1>2, <4>2, <2>1, <3>1, StatusFrame
      <3>4. CASE ~Insert(o)
        BY <1>2, <2>1, <3>1, <3>4, StatusFrame
      <3> QED
        BY <3>2, <3>3, <3>4
    <2> QED
      BY <2>1, <2>2, <2>4
  <1>3. CASE UNCHANGED vars
    BY <1>3 DEF CreateOwnsId, vars, opVars, rowVars
  <1> QED
    BY <1>1, <1>2, <1>3, NextCases

\* Which control points of Delete and Update a step can reach, and from where.
LEMMA PcEffect ==
  ASSUME TypeOK, NEW o \in Ops, OpStep(o)
  PROVE  /\ pc'[o] = "list" => MarkDeleting(o) \/ GetForDetachNic(o)
         /\ pc'[o] = "relnics" => ListNics(o) \/ (ReleaseNext(o) /\ pc[o] = "relnics")
         /\ pc'[o] = "relvols" => ListVolumes(o) \/ (ReleaseNext(o) /\ pc[o] = "relvols")
         /\ pc'[o] = "write" => UpdateGet(o)
         /\ pc'[o] = "detach" => ListForDetachDisk(o) \/ GetForDetachNic(o) \/ ListForDetachNic(o)
  <1> USE DEF Goto, Reply, At, TypeOK
  <1>1. CASE Insert(o) \/ UpdateWrite(o) \/ UpdateReread(o) \/ EmitReread(o) \/ MergeMetadata(o)
          \/ SetStatusCAS(o)
    BY <1>1 DEF Insert, UpdateWrite, UpdateReread, EmitReread, MergeMetadata, SetStatusCAS
  <1>2. CASE SimulateMaintenanceEvent(o) \/ GateForAttach(o) \/ Reload(o) \/ PeerAttach(o)
    BY <1>2 DEF SimulateMaintenanceEvent, GateForAttach, Reload, PeerAttach, AfterAttach
  <1>3. CASE ListForDetachDisk(o) \/ ListForDetachNic(o) \/ PeerDetach(o)
    BY <1>3 DEF ListForDetachDisk, ListForDetachNic, PeerDetach
  <1>4. CASE UpdateGet(o) \/ GetForDetachNic(o) \/ MarkDeleting(o)
    BY <1>4 DEF UpdateGet, GetForDetachNic, MarkDeleting
  <1>5. CASE ListNics(o) \/ ListVolumes(o) \/ DeleteRow(o)
    BY <1>5 DEF ListNics, ListVolumes, DeleteRow
  <1>6. CASE ReleaseNext(o)
    BY <1>6 DEF ReleaseNext
  <1>7. CASE StepFails(o) \/ LoseWorker(o) \/ Finish(o) \/ Resolve(o)
    BY <1>7 DEF StepFails, LoseWorker, Finish, Resolve
  <1> QED
    BY <1>1, <1>2, <1>3, <1>4, <1>5, <1>6, <1>7 DEF OpStep, WorkerStep

\* A Delete succeeds in its first or in its last transaction.
LEMMA OkOfDelete ==
  ASSUME TypeOK, ReleasePoints, NEW o \in Ops, OpStep(o), req[o].kind = "Delete", pc'[o] = "ok"
  PROVE  MarkDeleting(o) \/ DeleteRow(o)
  <1> USE DEF Goto, Reply, At, TypeOK
  <1>1. ~(Insert(o) \/ UpdateGet(o) \/ UpdateWrite(o) \/ UpdateReread(o) \/ EmitReread(o)
          \/ MergeMetadata(o) \/ SetStatusCAS(o) \/ SimulateMaintenanceEvent(o))
    BY DEF Insert, UpdateGet, UpdateWrite, UpdateReread, EmitReread, MergeMetadata,
           SetStatusCAS, SimulateMaintenanceEvent, LifecycleKinds
  <1>2. ~(GateForAttach(o) \/ PeerAttach(o) \/ Reload(o) \/ ListForDetachDisk(o)
          \/ GetForDetachNic(o) \/ ListForDetachNic(o) \/ PeerDetach(o))
    BY DEF GateForAttach, PeerAttach, AttachKinds, Reload, ListForDetachDisk, GetForDetachNic,
           ListForDetachNic, PeerDetach
  <1>3. ~(ListNics(o) \/ ListVolumes(o) \/ ReleaseNext(o))
    BY DEF ListNics, ListVolumes, ReleaseNext
  <1>4. ~(StepFails(o) \/ LoseWorker(o) \/ Finish(o) \/ Resolve(o))
    BY DEF StepFails, LoseWorker, Finish, Resolve
  <1> QED
    BY <1>1, <1>2, <1>3, <1>4 DEF OpStep, WorkerStep

\* An id with a row never becomes an id without a history, so every operation
\* but Create keeps a known instance.
LEMMA NextNamesKnown ==
  TypeOK /\ FreshOps /\ CreateOwnsId /\ NamesKnown /\ [Next]_vars => NamesKnown'
  <1> SUFFICES ASSUME TypeOK, FreshOps, CreateOwnsId, NamesKnown, [Next]_vars
               PROVE  NamesKnown'
    OBVIOUS
  <1>1. ASSUME NEW o \in Ops, NEW r \in Requests, RunOp(o, r) PROVE NamesKnown'
    <2>1. r.kind # "Create" => Known(r.inst)
      BY <1>1 DEF RunOp
    <2> QED
      BY <1>1, <2>1, RunOpEffect DEF NamesKnown, Known, rowVars
  <1>2. ASSUME NEW o \in Ops, OpStep(o) PROVE NamesKnown'
    <2> SUFFICES ASSUME NEW p \in Ops, pc'[p] # "idle", req'[p].kind # "Create"
                 PROVE  Known(req[p].inst)' /\ req' = req
      BY DEF NamesKnown, Known
    <2>1. req' = req /\ pc[p] # "idle" /\ req[p].inst \in Instances
      BY <1>2, OpFrame, InstOf
    <2>2. Known(req[p].inst)
      BY <2>1 DEF NamesKnown
    <2>3. \A i \in Instances : status[i] # "NONE" => status'[i] # "NONE"
      BY <1>2, StatusFrame DEF Known
    <2> QED
      BY <2>1, <2>2, <2>3 DEF Known
  <1>3. CASE UNCHANGED vars
    BY <1>3 DEF NamesKnown, Known, vars, opVars, rowVars
  <1> QED
    BY <1>1, <1>2, <1>3, NextCases

\* A known instance without a row has been deleted.
LEMMA AbsentIsGone ==
  ASSUME TypeOK, NEW i \in Instances, Known(i), ~Exists(i)
  PROVE  status[i] = "GONE"
  BY DEF TypeOK, Known, Exists, Status, RowStatus

\* Delete reports success from two places: MarkDeleting that finds no row and
\* DeleteRow; both leave the instance deleted.
LEMMA NextDeleteReached ==
  TypeOK /\ FreshOps /\ ReleasePoints /\ CreateOwnsId /\ NamesKnown /\ DeleteReached
    /\ [Next]_vars => DeleteReached'
  <1> SUFFICES ASSUME TypeOK, FreshOps, ReleasePoints, CreateOwnsId, NamesKnown, DeleteReached,
                      [Next]_vars
               PROVE  DeleteReached'
    OBVIOUS
  <1>1. ASSUME NEW o \in Ops, NEW r \in Requests, RunOp(o, r) PROVE DeleteReached'
    BY <1>1, RunOpEffect DEF DeleteReached, rowVars
  <1>2. ASSUME NEW o \in Ops, OpStep(o) PROVE DeleteReached'
    <2> SUFFICES ASSUME NEW p \in Ops, pc'[p] = "ok", req'[p].kind = "Delete"
                 PROVE  status'[req'[p].inst] = "GONE"
      BY DEF DeleteReached
    <2>1. req' = req /\ pc[p] # "idle" /\ req[p].inst \in Instances
      BY <1>2, OpFrame, InstOf
    <2>2. CASE p # o
      <3>1. status[req[p].inst] = "GONE"
        BY <1>2, <2>1, <2>2, OpFrame DEF DeleteReached, FreshOps
      <3> QED
        BY <1>2, <2>1, <3>1, StatusFrame
    <2>3. CASE p = o
      <3>1. MarkDeleting(o) \/ DeleteRow(o)
        BY <1>2, <2>1, <2>3, OkOfDelete
      <3>2. CASE ~Exists(req[o].inst)
        <4>1. status[req[o].inst] = "GONE"
          BY <2>1, <2>3, <3>2, AbsentIsGone DEF NamesKnown
        <4> QED
          BY <1>2, <2>1, <2>3, <4>1, StatusFrame
      <3>3. CASE Exists(req[o].inst)
        <4>1. ~MarkDeleting(o)
          BY <2>3, <3>3 DEF MarkDeleting, Reply, Goto, TypeOK
        <4> QED
          BY <2>1, <2>3, <3>1, <3>3, <4>1 DEF DeleteRow, TypeOK
      <3> QED
        BY <3>2, <3>3
    <2> QED
      BY <2>2, <2>3
  <1>3. CASE UNCHANGED vars
    BY <1>3 DEF DeleteReached, vars, opVars, rowVars
  <1> QED
    BY <1>1, <1>2, <1>3, NextCases

\* The outcome of a Delete is written by Finish, after DeleteReached, or by the
\* reconciler, which has just seen that the row is absent.
LEMMA NextDeleteOkMeansGone == IndInv /\ [Next]_vars => DeleteOkMeansGone'
  <1> SUFFICES ASSUME IndInv, [Next]_vars PROVE DeleteOkMeansGone'
    OBVIOUS
  <1> USE DEF IndInv
  <1>1. ASSUME NEW o \in Ops, NEW r \in Requests, RunOp(o, r) PROVE DeleteOkMeansGone'
    BY <1>1, RunOpEffect DEF DeleteOkMeansGone, rowVars
  <1>2. ASSUME NEW o \in Ops, OpStep(o) PROVE DeleteOkMeansGone'
    <2> SUFFICES ASSUME NEW p \in Ops, done'[p] = "OK", req'[p].kind = "Delete"
                 PROVE  status'[req'[p].inst] = "GONE"
      BY DEF DeleteOkMeansGone
    <2>1. req' = req /\ pc[p] # "idle"
      BY <1>2, OpFrame DEF FreshOps
    <2>2. req[p] \in Requests /\ req[p].inst \in Instances
      BY <2>1, InstOf
    <2>3. ASSUME status[req[p].inst] = "GONE" PROVE status'[req'[p].inst] = "GONE"
      BY <1>2, <2>1, <2>2, <2>3, StatusFrame
    <2>4. CASE done[p] = "OK"
      BY <2>1, <2>3, <2>4 DEF DeleteOkMeansGone
    <2>5. CASE done[p] # "OK"
      <3>1. p = o
        BY <1>2, <2>5, OpFrame
      <3>2. Finish(o) \/ Resolve(o)
        BY <1>2, <2>5, <3>1
        DEF OpStep, WorkerStep, Insert, UpdateGet, UpdateWrite, UpdateReread, EmitReread,
            MergeMetadata, SetStatusCAS, SimulateMaintenanceEvent, GateForAttach, PeerAttach,
            Reload, ListForDetachDisk, GetForDetachNic, ListForDetachNic, PeerDetach,
            MarkDeleting, ListNics, ListVolumes, ReleaseNext, DeleteRow, StepFails, LoseWorker
      <3>3. CASE Finish(o)
        <4>1. pc[o] = "ok"
          BY <2>5, <3>1, <3>3 DEF Finish, TypeOK
        <4> QED
          BY <2>1, <2>2, <2>3, <3>1, <4>1, ConstantsAssumption DEF DeleteReached
      <3>4. CASE Resolve(o)
        <4>1. ~Exists(req[o].inst)
          BY <2>1, <2>5, <3>1, <3>4 DEF Resolve, ResolvedOk, TypeOK
        <4> QED
          BY <2>1, <2>2, <2>3, <3>1, <4>1, AbsentIsGone DEF NamesKnown
      <3> QED
        BY <3>2, <3>3, <3>4
    <2> QED
      BY <2>4, <2>5
  <1>3. CASE UNCHANGED vars
    BY <1>3 DEF DeleteOkMeansGone, vars, opVars, rowVars
  <1> QED
    BY <1>1, <1>2, <1>3, NextCases

\* MarkDeleting comes first and DELETING is never taken back.
LEMMA NextMarkedFirst ==
  TypeOK /\ FreshOps /\ ReleasePoints /\ CreateOwnsId /\ MarkedFirst /\ [Next]_vars
    => MarkedFirst'
  <1> SUFFICES ASSUME TypeOK, FreshOps, ReleasePoints, CreateOwnsId, MarkedFirst, [Next]_vars
               PROVE  MarkedFirst'
    OBVIOUS
  <1>1. ASSUME NEW o \in Ops, NEW r \in Requests, RunOp(o, r) PROVE MarkedFirst'
    BY <1>1, RunOpEffect DEF MarkedFirst, rowVars
  <1>2. ASSUME NEW o \in Ops, OpStep(o) PROVE MarkedFirst'
    <2> SUFFICES ASSUME NEW p \in Ops, pc'[p] \in {"list", "relnics", "relvols"},
                        req'[p].kind = "Delete"
                 PROVE  status'[req'[p].inst] \in {"DELETING", "GONE"}
      BY DEF MarkedFirst
    <2>1. req' = req /\ pc[p] # "idle" /\ req[p].inst \in Instances
      BY <1>2, OpFrame, InstOf
    <2>2. CASE p = o /\ pc'[o] = "list"
      <3>1. MarkDeleting(o)
        BY <1>2, <2>1, <2>2, PcEffect DEF GetForDetachNic, At
      <3> QED
        BY <3>1, <2>1, <2>2 DEF MarkDeleting, TypeOK, Goto
    <2>3. CASE p = o /\ pc'[o] # "list"
      <3>1. pc[o] \in {"list", "relnics", "relvols"} /\ status' = status
        BY <1>2, <2>3, PcEffect DEF ListNics, ListVolumes, ReleaseNext, At, rowVars
      <3> QED
        BY <3>1, <2>1, <2>3 DEF MarkedFirst
    <2>4. CASE p # o
      <3>1. status[req[p].inst] \in {"DELETING", "GONE"}
        BY <1>2, <2>1, <2>4, OpFrame DEF MarkedFirst
      <3> QED
        BY <1>2, <2>1, <3>1, StatusFrame
    <2> QED
      BY <2>2, <2>3, <2>4
  <1>3. CASE UNCHANGED vars
    BY <1>3 DEF MarkedFirst, vars, opVars, rowVars
  <1> QED
    BY <1>1, <1>2, <1>3, NextCases

\* Each listing covers what is held, each release shortens both alike, and no
\* attach adds to it once the row is marked.
LEMMA NextListsCover ==
  IndInv /\ [Next]_vars => ListsCover'
  <1> SUFFICES ASSUME IndInv, [Next]_vars PROVE ListsCover'
    OBVIOUS
  <1> USE DEF IndInv
  <1>1. ASSUME NEW o \in Ops, NEW r \in Requests, RunOp(o, r) PROVE ListsCover'
    BY <1>1, RunOpEffect DEF ListsCover, Held, Attached, rowVars, peerVars
  <1>2. ASSUME NEW o \in Ops, OpStep(o) PROVE ListsCover'
    <2>a. Nics \in SUBSET Objects /\ Volumes \in SUBSET Objects /\ Objects \in SUBSET Objects
      BY DEF Objects
    <2>b. req' = req
      BY <1>2, OpFrame
    \* No attach can add to what an instance in deletion holds.
    <2>c. ASSUME NEW i \in Instances, status[i] \in {"DELETING", "GONE"},
                 NEW S \in SUBSET Objects
          PROVE  Held(i, S)' \subseteq Held(i, S)
      BY <1>2, <2>c, HeldFrame DEF GateMatches
    <2>d. ASSUME NEW p \in Ops, pc[p] \in {"list", "relnics", "relvols"}, req[p].kind = "Delete"
          PROVE  req[p].inst \in Instances /\ status[req[p].inst] \in {"DELETING", "GONE"}
      BY <2>d, InstOf DEF MarkedFirst
    <2>1. ASSUME NEW p \in Ops, pc'[p] = "relnics"
          PROVE  Held(req[p].inst, Nics)' \subseteq todo'[p]
      <3>1. CASE p # o
        <4>1. pc[p] = "relnics" /\ todo'[p] = todo[p]
          BY <1>2, <2>1, <3>1, OpFrame
        <4>2. Held(req[p].inst, Nics)' \subseteq Held(req[p].inst, Nics)
          BY <4>1, <2>a, <2>b, <2>c, <2>d DEF ReleasePoints
        <4> QED
          BY <4>1, <4>2 DEF ListsCover
      <3>2. CASE p = o /\ ListNics(o)
        BY <3>2, <2>b DEF ListNics, Held, Attached, TypeOK, peerVars
      <3>3. CASE p = o /\ ReleaseNext(o) /\ pc[o] = "relnics"
        <4>1. PICK x \in todo[o] : /\ Released(x, req[o].inst)
                                   /\ todo' = [todo EXCEPT ![o] = @ \ {x}]
          BY <3>3 DEF ReleaseNext
        <4>2. req[o].inst \in Instances /\ x \in Objects
          BY <3>3, <2>d DEF ReleasePoints, TypeOK
        <4>3. Held(req[o].inst, Nics)' \subseteq Held(req[o].inst, Nics) \ {x}
          BY <4>1, <4>2, <2>a, <2>b, ReleasedHeld
        <4> QED
          BY <4>1, <4>3, <3>3 DEF ListsCover, TypeOK
      <3> QED
        BY <1>2, <2>1, <3>1, <3>2, <3>3, PcEffect
    <2>2. ASSUME NEW p \in Ops, pc'[p] = "relvols"
          PROVE  Held(req[p].inst, Objects)' \subseteq todo'[p]
      <3>1. CASE p # o
        <4>1. pc[p] = "relvols" /\ todo'[p] = todo[p]
          BY <1>2, <2>2, <3>1, OpFrame
        <4>2. Held(req[p].inst, Objects)' \subseteq Held(req[p].inst, Objects)
          BY <4>1, <2>a, <2>b, <2>c, <2>d DEF ReleasePoints
        <4> QED
          BY <4>1, <4>2 DEF ListsCover
      <3>2. CASE p = o /\ ListVolumes(o)
        <4>1. Held(req[o].inst, Nics) = {}
          BY <3>2 DEF ListVolumes, At, ListsCover
        <4>2. Held(req[o].inst, Objects) \subseteq Attached(req[o].inst, Volumes)
          BY <4>1 DEF Held, Attached, Objects
        <4>3. Held(req[o].inst, Objects)' = Held(req[o].inst, Objects)
          BY <3>2, <2>b DEF ListVolumes, Held, Attached, peerVars
        <4> QED
          BY <3>2, <4>2, <4>3 DEF ListVolumes, TypeOK
      <3>3. CASE p = o /\ ReleaseNext(o) /\ pc[o] = "relvols"
        <4>1. PICK x \in todo[o] : /\ Released(x, req[o].inst)
                                   /\ todo' = [todo EXCEPT ![o] = @ \ {x}]
          BY <3>3 DEF ReleaseNext
        <4>2. req[o].inst \in Instances /\ x \in Objects
          BY <3>3, <2>d DEF ReleasePoints, TypeOK
        <4>3. Held(req[o].inst, Objects)' \subseteq Held(req[o].inst, Objects) \ {x}
          BY <4>1, <4>2, <2>a, <2>b, ReleasedHeld
        <4> QED
          BY <4>1, <4>3, <3>3 DEF ListsCover, TypeOK
      <3> QED
        BY <1>2, <2>2, <3>1, <3>2, <3>3, PcEffect
    <2>3. ASSUME NEW i \in Instances, status'[i] = "GONE"
          PROVE  Held(i, Objects)' = {}
      <3>1. CASE status[i] = "GONE"
        BY <3>1, <2>a, <2>c DEF ListsCover
      <3>2. CASE status[i] # "GONE" /\ DeleteRow(o)
        <4>1. i = req[o].inst
          BY <1>2, <2>3, <3>2, StatusFrame
        <4>2. Held(i, Objects) = {}
          BY <4>1, <3>2 DEF DeleteRow, At, ListsCover
        <4> QED
          BY <3>2, <4>2 DEF DeleteRow, Held, Attached, peerVars
      <3> QED
        BY <1>2, <2>3, <3>1, <3>2, StatusFrame
    <2> QED
      BY <2>1, <2>2, <2>3, <2>b DEF ListsCover
  <1>3. CASE UNCHANGED vars
    BY <1>3 DEF ListsCover, Held, Attached, vars, opVars, rowVars, peerVars
  <1> QED
    BY <1>1, <1>2, <1>3, NextCases

\* Boot volumes only leave: no attach is of one.
LEMMA BootShrinks ==
  ASSUME NEW o \in Ops, OpStep(o)
  PROVE  boot' \subseteq boot
  BY DEF OpStep, WorkerStep, Insert, UpdateGet, UpdateWrite, UpdateReread, EmitReread, MergeMetadata,
     SetStatusCAS, SimulateMaintenanceEvent, GateForAttach, PeerAttach, Reload, ListForDetachDisk,
     GetForDetachNic, ListForDetachNic, PeerDetach, Released, MarkDeleting, ListNics, ListVolumes,
     ReleaseNext, DeleteRow, StepFails, Finish, LoseWorker, Resolve, peerVars

\* What the three steps that lead to a Detach leave for it.
LEMMA TargetsOfDetach ==
  ASSUME TypeOK, FreshOps, DetachTargets, NEW o \in Ops,
         ListForDetachDisk(o) \/ GetForDetachNic(o) \/ ListForDetachNic(o), pc'[o] = "detach"
  PROVE  /\ req[o].kind \in {"DetachDisk", "DetachNetworkInterface"}
         /\ todo'[o] \cap boot = {}
         /\ req[o].obj # Place => todo'[o] \subseteq {req[o].obj}
  <1> USE DEF TypeOK, Goto, At
  <1>1. CASE ListForDetachDisk(o)
    <2>1. PICK v \in Selected(req[o].obj, Attached(req[o].inst, Volumes)) \ boot :
            todo' = [todo EXCEPT ![o] = {v}]
      BY <1>1 DEF ListForDetachDisk
    <2> QED
      BY <1>1, <2>1 DEF ListForDetachDisk, Selected
  <1>2. CASE GetForDetachNic(o)
    <2>1. req[o].kind = "DetachNetworkInterface" /\ todo' = [todo EXCEPT ![o] = {req[o].obj}]
          /\ req[o].obj # Place
      BY <1>2 DEF GetForDetachNic
    <2>2. req[o].obj \in Nics
      BY <1>2, <2>1, InstOf, RequestAttachFields DEF GetForDetachNic
    <2> QED
      BY <2>1, <2>2, ConstantsAssumption
  <1>3. CASE ListForDetachNic(o)
    <2>1. PICK n \in Attached(req[o].inst, Nics) : todo' = [todo EXCEPT ![o] = {n}]
      BY <1>3 DEF ListForDetachNic
    <2>2. req[o].kind = "DetachNetworkInterface" /\ req[o].obj = Place
      BY <1>3 DEF ListForDetachNic, DetachTargets
    <2> QED
      BY <2>1, <2>2, ConstantsAssumption DEF Attached
  <1> QED
    BY <1>1, <1>2, <1>3

\* Every Detach is preceded by the choice of its target.
LEMMA NextDetachTargets ==
  TypeOK /\ FreshOps /\ DetachTargets /\ [Next]_vars => DetachTargets'
  <1> SUFFICES ASSUME TypeOK, FreshOps, DetachTargets, [Next]_vars PROVE DetachTargets'
    OBVIOUS
  <1>1. ASSUME NEW o \in Ops, NEW r \in Requests, RunOp(o, r) PROVE DetachTargets'
    <2>1. pc'[o] = "start" /\ boot' = boot /\ todo' = todo
      BY <1>1, RunOpEffect DEF peerVars
    <2>2. ASSUME NEW p \in Ops, p # o PROVE pc'[p] = pc[p] /\ req'[p] = req[p]
      BY <1>1, <2>2, RunOpEffect
    <2> QED
      BY <2>1, <2>2 DEF DetachTargets
  <1>2. ASSUME NEW o \in Ops, OpStep(o) PROVE DetachTargets'
    <2>1. req' = req /\ boot' \subseteq boot
      BY <1>2, OpFrame, BootShrinks
    <2>2. ASSUME NEW p \in Ops, p # o
          PROVE  pc'[p] = pc[p] /\ todo'[p] = todo[p]
      BY <1>2, <2>2, OpFrame
    <2>3. ASSUME pc'[o] = "detach"
          PROVE  /\ req[o].kind \in {"DetachDisk", "DetachNetworkInterface"}
                 /\ todo'[o] \cap boot = {}
                 /\ req[o].obj # Place => todo'[o] \subseteq {req[o].obj}
      BY <1>2, <2>3, PcEffect, TargetsOfDetach
    <2>4. ASSUME pc'[o] = "list", req[o].kind = "DetachNetworkInterface"
          PROVE  req[o].obj = Place
      <3>1. GetForDetachNic(o)
        BY <1>2, <2>4, PcEffect DEF MarkDeleting, At
      <3> QED
        BY <3>1, <2>4 DEF GetForDetachNic, Goto, TypeOK
    <2> QED
      BY <2>1, <2>2, <2>3, <2>4 DEF DetachTargets
  <1>3. CASE UNCHANGED vars
    BY <1>3 DEF DetachTargets, vars, opVars, peerVars
  <1> QED
    BY <1>1, <1>2, <1>3, NextCases

\* Only UpdateGet hands a copy to the write, with the mask already applied.
LEMMA NextCopyIsMasked ==
  TypeOK /\ FreshOps /\ CopyIsMasked /\ [Next]_vars => CopyIsMasked'
  <1> SUFFICES ASSUME TypeOK, FreshOps, CopyIsMasked, [Next]_vars PROVE CopyIsMasked'
    OBVIOUS
  <1>1. ASSUME NEW o \in Ops, NEW r \in Requests, RunOp(o, r) PROVE CopyIsMasked'
    BY <1>1, RunOpEffect DEF CopyIsMasked
  <1>2. ASSUME NEW o \in Ops, OpStep(o) PROVE CopyIsMasked'
    <2>1. req' = req
      BY <1>2, OpFrame
    <2>2. ASSUME NEW p \in Ops, pc'[p] = "write", p # o
          PROVE  pc[p] = "write" /\ snap'[p] = snap[p]
      BY <1>2, <2>2, OpFrame
    <2>3. ASSUME pc'[o] = "write"
          PROVE  /\ req[o].kind = "Update"
                 /\ snap'[o].cols = Masked(cols[req[o].inst], req[o].mask, req[o].value)
      <3>1. UpdateGet(o)
        BY <1>2, <2>3, PcEffect
      <3> QED
        BY <3>1, <2>3 DEF UpdateGet, At, Goto, TypeOK
    <2> QED
      BY <2>1, <2>2, <2>3 DEF CopyIsMasked, Masked
  <1>3. CASE UNCHANGED vars
    BY <1>3 DEF CopyIsMasked, vars, opVars
  <1> QED
    BY <1>1, <1>2, <1>3, NextCases

\* What UpdateWrite stores is the row as it is now with the requested columns:
\* the stale rest of the worker's copy is not written.
LEMMA UpdateStoresRequest ==
  ASSUME TypeOK, CopyIsMasked, NEW o \in Ops, NEW row, pc[o] = "write"
  PROVE  UpdateSet(row, snap[o].cols, req[o].mask) = Masked(row, req[o].mask, req[o].value)
  BY DEF UpdateSet, Masked, CopyIsMasked

\* Each column of a stored row is what the last request that named it set.
LEMMA NextNoLostUpdate == IndInv /\ [Next]_vars => NoLostUpdate'
  <1> SUFFICES ASSUME IndInv, [Next]_vars PROVE NoLostUpdate'
    OBVIOUS
  <1> USE DEF IndInv
  <1>1. ASSUME NEW o \in Ops, NEW r \in Requests, RunOp(o, r) PROVE NoLostUpdate'
    BY <1>1 DEF RunOp, NoLostUpdate, Exists, rowVars
  <1>2. ASSUME NEW o \in Ops, OpStep(o) PROVE NoLostUpdate'
    <2>a. req[o].inst \in Instances
      BY <1>2, OpFrame, InstOf
    <2>1. CASE Insert(o)
      <3>1. \A i \in Instances : i # req[o].inst => status'[i] = status[i]
        BY <1>2, StatusFrame
      <3> QED
        BY <2>1, <2>a, <3>1 DEF Insert, CreatedRow, NoLostUpdate, Exists, TypeOK
    <2>2. ASSUME \A i \in Instances : status'[i] \in RowStatus => status[i] \in RowStatus,
                 UpdateWrite(o)
          PROVE  NoLostUpdate'
      <3>1. UpdateSet(cols[req[o].inst], snap[o].cols, req[o].mask)
              = Masked(cols[req[o].inst], req[o].mask, req[o].value)
        BY <2>2, UpdateStoresRequest DEF UpdateWrite, At
      <3> QED
        BY <2>2, <2>a, <3>1 DEF UpdateWrite, UpdateMatches, NoLostUpdate, Exists, TypeOK
    <2>3. ASSUME MergeMetadata(o) PROVE NoLostUpdate'
      BY <2>3, <2>a DEF MergeMetadata, NoLostUpdate, Exists, TypeOK
    <2>4. ASSUME \A i \in Instances : status'[i] \in RowStatus => status[i] \in RowStatus,
                 UNCHANGED <<cols, want>>
          PROVE  NoLostUpdate'
      BY <2>4 DEF NoLostUpdate, Exists
    <2>5. ~Insert(o) => \A i \in Instances : status'[i] \in RowStatus => status[i] \in RowStatus
      BY <1>2, StatusFrame DEF TypeOK, Status, RowStatus
    <2>6. Insert(o) \/ UpdateWrite(o) \/ MergeMetadata(o) \/ UNCHANGED <<cols, want>>
      BY <1>2
      DEF OpStep, WorkerStep, rowVars, UpdateGet, UpdateReread, EmitReread, SetStatusCAS, SimulateMaintenanceEvent,
          GateForAttach, PeerAttach, Reload, ListForDetachDisk, GetForDetachNic, ListForDetachNic,
          PeerDetach, MarkDeleting, ListNics, ListVolumes, ReleaseNext, DeleteRow, StepFails,
          Finish, LoseWorker, Resolve
    <2> QED
      BY <2>1, <2>2, <2>3, <2>4, <2>5, <2>6
  <1>3. CASE UNCHANGED vars
    BY <1>3 DEF NoLostUpdate, Exists, vars, rowVars
  <1> QED
    BY <1>1, <1>2, <1>3, NextCases

\* A transaction that changes a row emits its event and, when labels may have
\* changed, its intent, so both keep describing the row.
LEMMA NextPublishedRow == IndInv /\ [Next]_vars => PublishedRow'
  <1> SUFFICES ASSUME IndInv, [Next]_vars PROVE PublishedRow'
    OBVIOUS
  <1> USE DEF IndInv, Exists, EventFits
  <1>1. ASSUME NEW o \in Ops, NEW r \in Requests, RunOp(o, r) PROVE PublishedRow'
    BY <1>1 DEF RunOp, PublishedRow, rowVars
  <1>2. ASSUME NEW o \in Ops, OpStep(o) PROVE PublishedRow'
    <2> DEFINE i == req[o].inst
    <2>a. i \in Instances
      BY <1>2, OpFrame, InstOf
    <2>1. CASE UNCHANGED rowVars
      BY <2>1 DEF PublishedRow, rowVars
    <2>2. CASE Insert(o)
      BY <2>2, <2>a DEF Insert, CreatedRow, Emit, EmitIntent, PublishedRow, TypeOK, RowStatus
    <2>3. CASE UpdateWrite(o) /\ ~UNCHANGED rowVars
      <3>1. status' = status /\ UpdateMatches(i, req[o].mask)
        BY <2>3 DEF UpdateWrite, rowVars
      <3> DEFINE row == UpdateSet(cols[i], snap[o].cols, req[o].mask)
      <3>2. /\ cols' = [cols EXCEPT ![i] = row]
            /\ event' = [event EXCEPT ![i] = [type |-> "UPDATED", status |-> status[i],
                                              cols |-> row, noop |-> FALSE]]
        BY <2>3, <3>1 DEF UpdateWrite, Emit
      <3>3. intent'[i].type = "fga.register" /\ intent'[i] =
              [type |-> "fga.register", labels |-> row.labels]
        <4>1. CASE "labels" \in req[o].mask
          BY <2>3, <2>a, <3>1, <4>1 DEF UpdateWrite, EmitIntent, TypeOK
        <4>2. CASE "labels" \notin req[o].mask
          <5>1. intent' = intent /\ row.labels = cols[i].labels
            BY <2>3, <3>1, <4>2 DEF UpdateWrite, UpdateSet
          <5> QED
            BY <5>1, <2>a, <3>1 DEF PublishedRow, UpdateMatches
        <4> QED
          BY <4>1, <4>2
      <3>4. \A j \in Instances : j # i => intent'[j] = intent[j]
        BY <2>3, <3>1, <2>a DEF UpdateWrite, EmitIntent, TypeOK
      <3> HIDE DEF row
      <3> QED
        BY <3>1, <3>2, <3>3, <3>4, <2>a DEF PublishedRow, TypeOK, UpdateMatches, RowStatus
    <2>8. CASE EmitReread(o)
      BY <2>8, <2>a DEF EmitReread, PublishedRow, TypeOK
    <2>4. CASE MergeMetadata(o)
      <3> DEFINE row == Merged(cols[i], req[o].del, req[o].upsert)
      <3>1. CASE ~Exists(i)
        BY <2>4, <3>1 DEF MergeMetadata, PublishedRow
      <3>2. CASE Exists(i)
        <4>1. /\ cols' = [cols EXCEPT ![i] = row]
              /\ event' = [event EXCEPT ![i] = [type |-> "UPDATED", status |-> status[i],
                                                cols |-> row, noop |-> FALSE]]
              /\ UNCHANGED <<status, intent>>
          BY <2>4, <3>2 DEF MergeMetadata, Emit
        <4>2. row.labels = cols[i].labels
          BY DEF Merged
        <4> HIDE DEF row
        <4> QED
          BY <4>1, <4>2, <3>2, <2>a DEF PublishedRow, TypeOK, RowStatus
      <3> QED
        BY <3>1, <3>2
    <2>5. CASE SetStatusCAS(o)
      BY <2>5, <2>a DEF SetStatusCAS, StatusMatches, From, To, Emit, PublishedRow, TypeOK, RowStatus
    <2>6. CASE MarkDeleting(o)
      BY <2>6, <2>a DEF MarkDeleting, Emit, PublishedRow, TypeOK, RowStatus
    <2>7. CASE DeleteRow(o)
      BY <2>7, <2>a DEF DeleteRow, Emit, EmitIntent, PublishedRow, TypeOK, RowStatus
    <2> QED
      BY <1>2, <2>1, <2>2, <2>3, <2>4, <2>5, <2>6, <2>7, <2>8
      DEF OpStep, WorkerStep, UpdateGet, UpdateReread, SimulateMaintenanceEvent,
          GateForAttach, PeerAttach, Reload, ListForDetachDisk, GetForDetachNic, ListForDetachNic,
          PeerDetach, ListNics, ListVolumes, ReleaseNext, StepFails, Finish, LoseWorker, Resolve
  <1>3. CASE UNCHANGED vars
    BY <1>3 DEF PublishedRow, vars, rowVars
  <1> QED
    BY <1>1, <1>2, <1>3, NextCases

-----------------------------------------------------------------------------
(***************************************************************************)
(* The inductive invariant and the theorems                                *)
(***************************************************************************)
\* The initial states satisfy the inductive invariant.
LEMMA InitIndInv == Init => IndInv
  <1> SUFFICES ASSUME Init PROVE IndInv
    OBVIOUS
  <1>1. TypeOK
    BY InitTypeOK
  <1>2. FreshOps /\ ReleasePoints /\ CreateOwnsId /\ MarkedFirst /\ CopyIsMasked
    BY DEF Init, FreshOps, ReleasePoints, CreateOwnsId, MarkedFirst, CopyIsMasked
  <1>7. DetachTargets
    BY DEF Init, DetachTargets
  <1>3. NamesKnown /\ DeleteReached /\ DeleteOkMeansGone
    BY DEF Init, NamesKnown, DeleteReached, DeleteOkMeansGone
  <1>6. ListsCover
    BY DEF Init, ListsCover
  <1>4. NoLostUpdate
    BY DEF Init, NoLostUpdate
  <1>5. PublishedRow
    BY DEF Init, PublishedRow, EventFits, Exists, RowStatus, FirstRow
  <1> QED
    BY <1>1, <1>2, <1>3, <1>4, <1>5, <1>6, <1>7 DEF IndInv

\* Every step preserves the inductive invariant.
LEMMA NextIndInv == IndInv /\ [Next]_vars => IndInv'
  BY NextTypeOK, NextFreshOps, NextReleasePoints, NextCreateOwnsId, NextNamesKnown,
     NextDeleteReached, NextDeleteOkMeansGone, NextMarkedFirst,
     NextListsCover, NextDetachTargets, NextCopyIsMasked, NextNoLostUpdate, NextPublishedRow DEF IndInv

\* The conjunction of all the parts holds in every reachable state.
THEOREM Invariance == Spec => []IndInv
  BY InitIndInv, NextIndInv, PTL DEF Spec

\* Every variable keeps its type: instances have one of the statuses of the row
\* model, workers are at one of their control points.
THEOREM TypeCorrect == Spec => []TypeOK
  <1>1. IndInv => TypeOK
    BY DEF IndInv
  <1> QED
    BY <1>1, Invariance, PTL

\* The Delete saga (instance.go) never removes a row while a NIC or volume that
\* was attached before the mark is still held.
THEOREM SagaLeaksNothing == Spec => []NoLeakedAttachment
  <1>1. IndInv => NoLeakedAttachment
    BY DEF IndInv, ListsCover, Held, NoLeakedAttachment, Attached
  <1> QED
    BY <1>1, Invariance, PTL

\* An operation that reports a successful Delete, be it written by the worker or by
\* the reconciler after a crash, has left no row.
THEOREM DeleteReportsTruth == Spec => []DeleteOkMeansGone
  <1>1. IndInv => DeleteOkMeansGone
    BY DEF IndInv
  <1> QED
    BY <1>1, Invariance, PTL

\* Concurrent Update and UpdateMetadata requests never undo one another.
THEOREM UpdatesSurvive == Spec => []NoLostUpdate
  <1>1. IndInv => NoLostUpdate
    BY DEF IndInv
  <1> QED
    BY <1>1, Invariance, PTL

\* The outbox event and the FGA intent written with a row always describe it.
THEOREM RowIsPublished == Spec => []PublishedRow
  <1>1. IndInv => PublishedRow
    BY DEF IndInv
  <1> QED
    BY <1>1, Invariance, PTL

\* No Start, Stop, Restart or Create brings a marked or deleted instance back.
THEOREM DeletionIsFinal == Spec => DeletingIsFinal
  <1>1. IndInv /\ [Next]_vars =>
          [\A i \in Instances :
             /\ status[i] = "DELETING" => status'[i] \in {"DELETING", "GONE"}
             /\ status[i] = "GONE" => status'[i] = "GONE"]_vars
    <2> SUFFICES ASSUME IndInv, [Next]_vars, NEW i \in Instances
                 PROVE  /\ status[i] = "DELETING" => status'[i] \in {"DELETING", "GONE"}
                        /\ status[i] = "GONE" => status'[i] = "GONE"
      OBVIOUS
    <2>1. ASSUME NEW o \in Ops, OpStep(o)
          PROVE  /\ status[i] = "DELETING" => status'[i] \in {"DELETING", "GONE"}
                 /\ status[i] = "GONE" => status'[i] = "GONE"
      BY <2>1, StatusFrame DEF IndInv
    <2>2. CASE status' = status
      BY <2>2
    <2> QED
      BY <2>1, <2>2, NextCases DEF RunOp, rowVars, vars
  <1> QED
    BY <1>1, Invariance, PTL DEF Spec, DeletingIsFinal

\* The guard in the UPDATE's WHERE clause is enough: whatever a Start does between
\* Update's read and its write, sizing changes only on a STOPPED row.
THEOREM SizingGuarded == Spec => SizingOnlyWhenStopped
  <1> DEFINE Sized(i) == (Exists(i) /\ cols'[i].resources_spec # cols[i].resources_spec)
                           => status[i] = "STOPPED" /\ status'[i] = "STOPPED"
  <1>1. ASSUME IndInv, NEW o \in Ops, OpStep(o), NEW i \in Instances PROVE Sized(i)
    <2>a. req[o].inst \in Instances
      BY <1>1, OpFrame, InstOf DEF IndInv
    <2>1. CASE Insert(o)
      <3>1. status[req[o].inst] = "NONE"
        BY <1>1, <2>1 DEF Insert, At, IndInv, CreateOwnsId
      <3> QED
        BY <1>1, <2>1, <2>a, <3>1 DEF Insert, IndInv, TypeOK, Exists, RowStatus
    <2>2. CASE UpdateWrite(o)
      BY <1>1, <2>2, <2>a DEF UpdateWrite, UpdateMatches, UpdateSet, IndInv, TypeOK
    <2>3. CASE MergeMetadata(o)
      BY <1>1, <2>3, <2>a DEF MergeMetadata, Merged, IndInv, TypeOK
    <2>4. CASE cols' = cols
      BY <2>4
    <2> QED
      BY <1>1, <2>1, <2>2, <2>3, <2>4
      DEF OpStep, WorkerStep, rowVars, UpdateGet, UpdateReread, EmitReread, SetStatusCAS, SimulateMaintenanceEvent,
          GateForAttach, PeerAttach, Reload, ListForDetachDisk, GetForDetachNic, ListForDetachNic,
          PeerDetach, MarkDeleting, ListNics, ListVolumes, ReleaseNext, DeleteRow, StepFails,
          Finish, LoseWorker, Resolve
  <1>2. IndInv /\ [Next]_vars => [\A i \in Instances : Sized(i)]_vars
    BY <1>1, NextCases DEF RunOp, rowVars, vars
  <1> QED
    BY <1>2, Invariance, PTL DEF Spec, SizingOnlyWhenStopped

\* A release takes away x only from i.
LEMMA WhoIsReleased ==
  ASSUME IndInv, NEW o \in Ops, OpStep(o), NEW x \in Objects,
         holder[x] # NoInstance, holder'[x] # holder[x]
  PROVE  /\ PeerDetach(o) \/ ReleaseNext(o)
         /\ x \in todo[o] /\ holder[x] = req[o].inst
  <1> USE DEF IndInv, TypeOK
  <1>1. CASE PeerAttach(o)
    BY <1>1 DEF PeerAttach, PeerAccepts, peerVars
  <1>2. CASE PeerDetach(o)
    BY <1>2 DEF PeerDetach, Released
  <1>3. CASE ReleaseNext(o)
    BY <1>3 DEF ReleaseNext, Released
  <1>4. CASE UNCHANGED peerVars
    BY <1>4 DEF peerVars
  <1> QED
    BY <1>1, <1>2, <1>3, <1>4
    DEF OpStep, WorkerStep, Insert, UpdateGet, UpdateWrite, UpdateReread, EmitReread, MergeMetadata, SetStatusCAS,
        SimulateMaintenanceEvent, GateForAttach, Reload, ListForDetachDisk, GetForDetachNic,
        ListForDetachNic, MarkDeleting, ListNics, ListVolumes, DeleteRow, StepFails, Finish,
        LoseWorker, Resolve

\* DetachDisk, DetachNetworkInterface and the saga of Delete, however they interleave and
\* however old what they have listed is: they release what was asked for, and no boot
\* volume but that of an instance which is being deleted.
THEOREM NothingElseIsReleased == Spec => AttachmentsStay
  <1> DEFINE Stays(x) == (holder[x] # NoInstance /\ holder'[x] # holder[x]) =>
       \/ status[holder[x]] \in {"DELETING", "GONE"}
       \/ /\ x \notin boot
          /\ \E o \in Ops : /\ pc[o] = "detach" /\ req[o].inst = holder[x]
                            /\ req[o].obj \in {x, Place}
  <1>1. ASSUME IndInv, NEW o \in Ops, OpStep(o), NEW x \in Objects PROVE Stays(x)
    <2> SUFFICES ASSUME holder[x] # NoInstance, holder'[x] # holder[x]
                 PROVE  \/ status[holder[x]] \in {"DELETING", "GONE"}
                        \/ /\ x \notin boot /\ pc[o] = "detach"
                           /\ req[o].inst = holder[x] /\ req[o].obj \in {x, Place}
      OBVIOUS
    <2>1. (PeerDetach(o) \/ ReleaseNext(o)) /\ x \in todo[o] /\ holder[x] = req[o].inst
      BY <1>1, WhoIsReleased
    <2>2. CASE PeerDetach(o)
      BY <1>1, <2>1, <2>2 DEF PeerDetach, At, IndInv, DetachTargets
    <2>3. CASE ReleaseNext(o)
      BY <1>1, <2>1, <2>3 DEF ReleaseNext, IndInv, ReleasePoints, MarkedFirst
    <2> QED
      BY <2>1, <2>2, <2>3
  <1>2. IndInv /\ [Next]_vars => [\A x \in Objects : Stays(x)]_vars
    BY <1>1, NextCases DEF RunOp, peerVars, vars
  <1> QED
    BY <1>2, Invariance, PTL DEF Spec, AttachmentsStay
=============================================================================

------------------------ MODULE InstanceTableProofs ------------------------
(***************************************************************************)
(* InstanceService implements InstanceTable, for any number of instances,  *)
(* attachments and concurrent operations.                                  *)
(***************************************************************************)
EXTENDS InstanceServiceProofs

\* The table's row of i.
RowOf(i) == [status |-> status[i], cols |-> cols[i]]

\* A worker that has not ended works for an operation that is not answered yet.
RunningUntilEnd ==
  \A o \in Ops : pc[o] \notin {"idle", "end"} => done[o] = "RUNNING"

\* Only an Update without columns publishes a row that it has read.
RereadPublishes ==
  \A o \in Ops : pc[o] = "emit" => req[o].mask = {} /\ snap[o].status \in RowStatus

\* What the refinement needs beside the invariant of InstanceServiceProofs.
RefInv == IndInv /\ RunningUntilEnd /\ RereadPublishes

-----------------------------------------------------------------------------
\* A step of o that does not end it leaves the operation row alone.
LEMMA DoneFrame ==
  ASSUME TypeOK, FreshOps, NEW o \in Ops, OpStep(o)
  PROVE  /\ pc[o] \notin {"idle", "end"}
         /\ \/ done' = done
            \/ (Finish(o) \/ Resolve(o)) /\ pc'[o] = "end"
  <1> USE DEF Goto, Reply, At, TypeOK
  <1>1. CASE Insert(o) \/ UpdateGet(o) \/ UpdateWrite(o) \/ UpdateReread(o) \/ EmitReread(o)
          \/ MergeMetadata(o)
    BY <1>1 DEF Insert, UpdateGet, UpdateWrite, UpdateReread, EmitReread, MergeMetadata
  <1>2. CASE SetStatusCAS(o) \/ SimulateMaintenanceEvent(o) \/ GateForAttach(o) \/ Reload(o)
          \/ PeerAttach(o)
    BY <1>2 DEF SetStatusCAS, SimulateMaintenanceEvent, GateForAttach, Reload, PeerAttach
  <1>3. CASE ListForDetachDisk(o) \/ GetForDetachNic(o) \/ ListForDetachNic(o) \/ PeerDetach(o)
    BY <1>3 DEF ListForDetachDisk, GetForDetachNic, ListForDetachNic, PeerDetach
  <1>4. CASE MarkDeleting(o) \/ ListNics(o) \/ ListVolumes(o) \/ DeleteRow(o) \/ ReleaseNext(o)
    BY <1>4 DEF MarkDeleting, ListNics, ListVolumes, DeleteRow, ReleaseNext
  <1>5. CASE StepFails(o) \/ LoseWorker(o)
    BY <1>5 DEF StepFails, LoseWorker, Working, Points
  <1>6. CASE Finish(o) \/ Resolve(o)
    BY <1>6 DEF Finish, Resolve
  <1> QED
    BY <1>1, <1>2, <1>3, <1>4, <1>5, <1>6 DEF OpStep, WorkerStep

\* An operation is answered by the last step of its worker or by the reconciler.
LEMMA NextRunningUntilEnd ==
  IndInv /\ RunningUntilEnd /\ [Next]_vars => RunningUntilEnd'
  <1> SUFFICES ASSUME IndInv, RunningUntilEnd, [Next]_vars PROVE RunningUntilEnd'
    OBVIOUS
  <1> USE DEF IndInv
  <1>1. ASSUME NEW o \in Ops, NEW r \in Requests, RunOp(o, r) PROVE RunningUntilEnd'
    BY <1>1, RunOpEffect DEF RunningUntilEnd
  <1>2. ASSUME NEW o \in Ops, OpStep(o) PROVE RunningUntilEnd'
    BY <1>2, OpFrame, DoneFrame DEF RunningUntilEnd
  <1>3. CASE UNCHANGED vars
    BY <1>3 DEF RunningUntilEnd, vars, opVars
  <1> QED
    BY <1>1, <1>2, <1>3, NextCases

\* "emit" is reached only from UpdateReread.
LEMMA EmitReached ==
  ASSUME TypeOK, NEW o \in Ops, OpStep(o), pc'[o] = "emit"
  PROVE  UpdateReread(o) /\ Exists(req[o].inst)
  <1> USE DEF Goto, Reply, At, TypeOK
  <1>1. ~(Insert(o) \/ UpdateGet(o) \/ UpdateWrite(o) \/ EmitReread(o) \/ MergeMetadata(o)
          \/ SetStatusCAS(o))
    BY DEF Insert, UpdateGet, UpdateWrite, EmitReread, MergeMetadata, SetStatusCAS
  <1>2. ~(SimulateMaintenanceEvent(o) \/ GateForAttach(o) \/ Reload(o) \/ PeerAttach(o))
    BY DEF SimulateMaintenanceEvent, GateForAttach, Reload, PeerAttach, AfterAttach
  <1>3. ~(ListForDetachDisk(o) \/ GetForDetachNic(o) \/ ListForDetachNic(o) \/ PeerDetach(o))
    BY DEF ListForDetachDisk, GetForDetachNic, ListForDetachNic, PeerDetach
  <1>4. ~(MarkDeleting(o) \/ ListNics(o) \/ ListVolumes(o) \/ DeleteRow(o) \/ ReleaseNext(o))
    BY DEF MarkDeleting, ListNics, ListVolumes, DeleteRow, ReleaseNext
  <1>5. ~(StepFails(o) \/ LoseWorker(o) \/ Finish(o) \/ Resolve(o))
    BY DEF StepFails, LoseWorker, Finish, Resolve
  <1>6. UpdateReread(o) => Exists(req[o].inst)
    BY DEF UpdateReread
  <1> QED
    BY <1>1, <1>2, <1>3, <1>4, <1>5, <1>6 DEF OpStep, WorkerStep

\* The copy that an empty Update publishes was read from a stored row.
LEMMA NextRereadPublishes ==
  IndInv /\ RereadPublishes /\ [Next]_vars => RereadPublishes'
  <1> SUFFICES ASSUME IndInv, RereadPublishes, [Next]_vars PROVE RereadPublishes'
    OBVIOUS
  <1> USE DEF IndInv
  <1>1. ASSUME NEW o \in Ops, NEW r \in Requests, RunOp(o, r) PROVE RereadPublishes'
    BY <1>1, RunOpEffect DEF RereadPublishes
  <1>2. ASSUME NEW o \in Ops, OpStep(o) PROVE RereadPublishes'
    <2>1. ASSUME pc'[o] = "emit"
          PROVE  req'[o].mask = {} /\ snap'[o].status \in RowStatus
      <3>1. UpdateReread(o) /\ Exists(req[o].inst) /\ req' = req
        BY <1>2, <2>1, EmitReached, OpFrame
      <3> QED
        BY <3>1 DEF UpdateReread, Exists, TypeOK
    <2> QED
      BY <1>2, <2>1, OpFrame DEF RereadPublishes
  <1>3. CASE UNCHANGED vars
    BY <1>3 DEF RereadPublishes, vars, opVars
  <1> QED
    BY <1>1, <1>2, <1>3, NextCases

\* The invariant of the refinement holds in every reachable state.
LEMMA RefInvariance == Spec => []RefInv
  <1>1. Init => RefInv
    BY InitIndInv DEF RefInv, Init, RunningUntilEnd, RereadPublishes
  <1>2. RefInv /\ [Next]_vars => RefInv'
    BY NextIndInv, NextRunningUntilEnd, NextRereadPublishes DEF RefInv
  <1> QED
    BY <1>1, <1>2, PTL DEF Spec

-----------------------------------------------------------------------------
\* The initial states of the service are initial states of the table.
LEMMA InitTable == Init => Table!Init
  <1> SUFFICES ASSUME Init PROVE Table!Init
    OBVIOUS
  <1> DEFINE tbl == [j \in Instances |-> [status |-> status[j], cols |-> cols[j]]]
  <1>1. ASSUME NEW i \in Instances PROVE tbl[i].status = status[i] /\ tbl[i].cols = cols[i]
    OBVIOUS
  <1>2. \A i \in Instances : tbl[i].status \in {"NONE", "RUNNING", "STOPPED"}
    BY <1>1 DEF Init
  <1>3. ASSUME NEW i \in Instances, Table!Live(tbl[i])
        PROVE  /\ event[i] = [type |-> "CREATED", status |-> tbl[i].status,
                              cols |-> tbl[i].cols, noop |-> FALSE]
               /\ intent[i] = Table!IntentOf(tbl[i])
    <2>1. status[i] # "GONE" /\ Exists(i)
      BY <1>3, <1>1, <1>2 DEF Table!Live, Exists, RowStatus
    <2>2. event[i] = [type |-> "CREATED", status |-> status[i], cols |-> cols[i], noop |-> FALSE]
      BY <2>1 DEF Init
    <2>3. intent[i] = [type |-> "fga.register", labels |-> SomeValue] /\ cols[i].labels = SomeValue
      BY <2>1 DEF Init, FirstRow
    <2>4. Table!IntentOf(tbl[i]) = [type |-> "fga.register", labels |-> cols[i].labels]
      BY <2>1, <1>1 DEF Table!IntentOf
    <2> QED
      BY <2>2, <2>3, <2>4, <1>1
  <1>4. req = [o \in Ops |-> NoRequest] /\ done = [o \in Ops |-> "NONE"]
    BY DEF Init
  <1> QED
    BY <1>2, <1>3, <1>4 DEF Table!Init

\* runOp accepts a request: only a Create finds its id without a row.
LEMMA RunOpAccepts ==
  ASSUME IndInv, NEW o \in Ops, NEW r \in Requests, RunOp(o, r)
  PROVE  Table!Accept(o, r)
  <1>1. r.inst \in Instances
    BY RequestInst
  <1>2. (r.kind = "Create") <=> (status[r.inst] = "NONE")
    BY DEF RunOp, Issued, Known
  <1> QED
    BY <1>1, <1>2 DEF RunOp, Table!Accept, rowVars

\* A transaction that writes an outcome of the request, its event and its intent
\* is the table's Commit.
LEMMA CommitMaps ==
  ASSUME TypeOK, NEW o \in Ops, done[o] = "RUNNING", req[o].inst \in Instances,
         NEW st, NEW row,
         [status |-> st, cols |-> row] \in Table!Outcomes(req[o], RowOf(req[o].inst)),
         status' = [status EXCEPT ![req[o].inst] = st],
         cols'   = [cols EXCEPT ![req[o].inst] = row],
         event'  = [event EXCEPT ![req[o].inst] =
                     Table!EventOf(RowOf(req[o].inst), [status |-> st, cols |-> row])],
         intent' = [intent EXCEPT ![req[o].inst] =
                     Table!IntentOf([status |-> st, cols |-> row])],
         UNCHANGED <<req, done>>
  PROVE  Table!Commit(o)
  <1> DEFINE i == req[o].inst
             tbl == [j \in Instances |-> [status |-> status[j], cols |-> cols[j]]]
             new == [status |-> st, cols |-> row]
  <1>1. tbl[i] = RowOf(i)
    BY DEF RowOf
  <1>2. tbl' = [tbl EXCEPT ![i] = new]
    BY DEF TypeOK
  <1> QED
    BY <1>1, <1>2 DEF Table!Commit

-----------------------------------------------------------------------------
(***************************************************************************)
(* The steps that write a row                                              *)
(***************************************************************************)
\* What the invariant says about the operation that takes a step.
LEMMA OpInUse ==
  ASSUME IndInv, RunningUntilEnd, NEW o \in Ops, OpStep(o)
  PROVE  /\ done[o] = "RUNNING" /\ req' = req
         /\ req[o] \in Requests /\ req[o].inst \in Instances
  BY OpFrame, DoneFrame, InstOf DEF IndInv, RunningUntilEnd

\* Insert commits a Create.
LEMMA InsertCommits ==
  ASSUME IndInv, RunningUntilEnd, NEW o \in Ops, Insert(o)
  PROVE  Table!Commit(o)
  <1> DEFINE i == req[o].inst
             row == CreatedRow(req[o])
  <1>1. done[o] = "RUNNING" /\ i \in Instances
    BY OpInUse DEF OpStep, WorkerStep
  <1>2. status[i] = "NONE"
    BY DEF IndInv, CreateOwnsId, Insert, At
  <1>3. [status |-> "RUNNING", cols |-> row] \in Table!Outcomes(req[o], RowOf(i))
    BY <1>2 DEF Insert, At, CreatedRow, RowOf, Table!Outcomes, Table!Created
  <1>4. /\ Table!EventOf(RowOf(i), [status |-> "RUNNING", cols |-> row])
             = [type |-> "CREATED", status |-> "RUNNING", cols |-> row, noop |-> FALSE]
        /\ Table!IntentOf([status |-> "RUNNING", cols |-> row])
             = [type |-> "fga.register", labels |-> row.labels]
    BY <1>2 DEF Table!EventOf, Table!EventType, Table!IntentOf, RowOf
  <1> QED
    BY <1>1, <1>3, <1>4, CommitMaps DEF Insert, Emit, EmitIntent, IndInv

\* An UPDATE of columns commits them on the row as it is, with its status.
LEMMA ColumnsCommit ==
  ASSUME IndInv, RunningUntilEnd, NEW o \in Ops, OpStep(o), NEW row,
         Exists(req[o].inst),
         [status |-> status[req[o].inst], cols |-> row]
           \in Table!Outcomes(req[o], RowOf(req[o].inst)),
         cols'  = [cols EXCEPT ![req[o].inst] = row],
         event' = [event EXCEPT ![req[o].inst] =
                    [type |-> "UPDATED", status |-> status[req[o].inst], cols |-> row,
                     noop |-> FALSE]],
         intent' = [intent EXCEPT ![req[o].inst] =
                     [type |-> "fga.register", labels |-> row.labels]],
         UNCHANGED <<status, done>>
  PROVE  Table!Commit(o)
  <1> DEFINE i == req[o].inst
             st == status[i]
  <1>1. done[o] = "RUNNING" /\ i \in Instances /\ req' = req
    BY OpInUse
  <1>2. st \notin {"NONE", "GONE"} /\ status' = [status EXCEPT ![i] = st]
    BY <1>1 DEF Exists, RowStatus, IndInv, TypeOK
  <1>3. /\ Table!EventOf(RowOf(i), [status |-> st, cols |-> row])
             = [type |-> "UPDATED", status |-> st, cols |-> row, noop |-> FALSE]
        /\ Table!IntentOf([status |-> st, cols |-> row])
             = [type |-> "fga.register", labels |-> row.labels]
    BY <1>2 DEF Table!EventOf, Table!EventType, Table!IntentOf, RowOf
  <1> HIDE DEF st
  <1> QED
    BY <1>1, <1>2, <1>3, CommitMaps DEF IndInv, st

\* The intent of a stored row whose labels do not change needs no new one.
LEMMA IntentStands ==
  ASSUME IndInv, NEW i \in Instances, Exists(i), UNCHANGED intent
  PROVE  intent' = [intent EXCEPT ![i] = [type |-> "fga.register", labels |-> cols[i].labels]]
  BY DEF IndInv, TypeOK, PublishedRow

\* UpdateWrite commits an Update: the masked columns, not the worker's whole copy.
LEMMA UpdateWriteCommits ==
  ASSUME IndInv, RunningUntilEnd, NEW o \in Ops, UpdateWrite(o)
  PROVE  Table!Commit(o) \/ UNCHANGED <<status, cols, event, intent, req, done>>
  <1> DEFINE i == req[o].inst
             row == UpdateSet(cols[i], snap[o].cols, req[o].mask)
  <1>1. CASE ~UpdateMatches(i, req[o].mask)
    BY <1>1 DEF UpdateWrite
  <1>2. CASE UpdateMatches(i, req[o].mask)
    <2>1. i \in Instances /\ Exists(i)
      BY <1>2, OpInUse DEF OpStep, WorkerStep, UpdateMatches
    <2>2. row = Masked(cols[i], req[o].mask, req[o].value)
      BY UpdateStoresRequest DEF IndInv, UpdateWrite, At
    <2>3. [status |-> status[i], cols |-> row] \in Table!Outcomes(req[o], RowOf(i))
      BY <1>2, <2>1, <2>2
      DEF UpdateWrite, At, UpdateMatches, Exists, RowStatus, Masked, RowOf,
          Table!Outcomes, Table!Updated, Table!WithCols, Table!Live
    <2>4. intent' = [intent EXCEPT ![i] = [type |-> "fga.register", labels |-> row.labels]]
      <3>1. CASE "labels" \in req[o].mask
        BY <1>2, <3>1 DEF UpdateWrite, EmitIntent
      <3>2. CASE "labels" \notin req[o].mask
        <4>1. row.labels = cols[i].labels /\ UNCHANGED intent
          BY <1>2, <3>2 DEF UpdateWrite, UpdateSet
        <4> QED
          BY <4>1, <2>1, IntentStands
      <3> QED
        BY <3>1, <3>2
    <2>5. /\ cols' = [cols EXCEPT ![i] = row]
          /\ event' = [event EXCEPT ![i] = [type |-> "UPDATED", status |-> status[i],
                                            cols |-> row, noop |-> FALSE]]
          /\ UNCHANGED <<status, done>>
      BY <1>2 DEF UpdateWrite, Emit
    <2> HIDE DEF row
    <2> QED
      BY <2>1, <2>3, <2>4, <2>5, ColumnsCommit DEF OpStep, WorkerStep
  <1> QED
    BY <1>1, <1>2

\* MergeMetadata commits an UpdateMetadata.
LEMMA MergeMetadataCommits ==
  ASSUME IndInv, RunningUntilEnd, NEW o \in Ops, MergeMetadata(o)
  PROVE  Table!Commit(o) \/ UNCHANGED <<status, cols, event, intent, req, done>>
  <1> DEFINE i == req[o].inst
             row == Merged(cols[i], req[o].del, req[o].upsert)
  <1>1. CASE ~Exists(i)
    BY <1>1 DEF MergeMetadata
  <1>2. CASE Exists(i)
    <2>1. i \in Instances
      BY OpInUse DEF OpStep, WorkerStep
    <2>2. [status |-> status[i], cols |-> row] \in Table!Outcomes(req[o], RowOf(i))
      BY <1>2 DEF MergeMetadata, At, Exists, RowStatus, Merged, RowOf,
                  Table!Outcomes, Table!MetadataUpdated, Table!WithCols, Table!Live
    <2>3. intent' = [intent EXCEPT ![i] = [type |-> "fga.register", labels |-> row.labels]]
      <3>1. row.labels = cols[i].labels /\ UNCHANGED intent
        BY DEF MergeMetadata, Merged
      <3> QED
        BY <3>1, <2>1, <1>2, IntentStands
    <2>4. /\ cols' = [cols EXCEPT ![i] = row]
          /\ event' = [event EXCEPT ![i] = [type |-> "UPDATED", status |-> status[i],
                                            cols |-> row, noop |-> FALSE]]
          /\ UNCHANGED <<status, done>>
      BY <1>2 DEF MergeMetadata, Emit
    <2> HIDE DEF row
    <2> QED
      BY <1>2, <2>2, <2>3, <2>4, ColumnsCommit DEF OpStep, WorkerStep
  <1> QED
    BY <1>1, <1>2

\* A change of status commits with its event.
LEMMA StatusCommit ==
  ASSUME IndInv, RunningUntilEnd, NEW o \in Ops, OpStep(o), NEW st,
         Exists(req[o].inst), st # "GONE",
         [status |-> st, cols |-> cols[req[o].inst]]
           \in Table!Outcomes(req[o], RowOf(req[o].inst)),
         status' = [status EXCEPT ![req[o].inst] = st],
         event'  = [event EXCEPT ![req[o].inst] =
                     [type |-> "UPDATED", status |-> st, cols |-> cols[req[o].inst],
                      noop |-> FALSE]],
         UNCHANGED <<cols, intent, done>>
  PROVE  Table!Commit(o)
  <1> DEFINE i == req[o].inst
             row == cols[i]
  <1>1. done[o] = "RUNNING" /\ i \in Instances /\ req' = req
    BY OpInUse
  <1>2. status[i] # "NONE" /\ cols' = [cols EXCEPT ![i] = row]
    BY <1>1 DEF Exists, RowStatus, IndInv, TypeOK
  <1>3. /\ Table!EventOf(RowOf(i), [status |-> st, cols |-> row])
             = [type |-> "UPDATED", status |-> st, cols |-> row, noop |-> FALSE]
        /\ Table!IntentOf([status |-> st, cols |-> row])
             = [type |-> "fga.register", labels |-> row.labels]
    BY <1>2 DEF Table!EventOf, Table!EventType, Table!IntentOf, RowOf
  <1>4. intent' = [intent EXCEPT ![i] = [type |-> "fga.register", labels |-> row.labels]]
    BY <1>1, IntentStands
  <1> HIDE DEF row
  <1> QED
    BY <1>1, <1>2, <1>3, <1>4, CommitMaps DEF IndInv, row

\* A transition of the lifecycle is an outcome of the request that makes it.
LEMMA TransitionIsOutcome ==
  ASSUME NEW o \in Ops, NEW st,
         req[o].kind \in {"Start", "Stop", "Restart", "Delete"},
         <<status[req[o].inst], st>> \in Table!Transitions(req[o].kind)
  PROVE  [status |-> st, cols |-> cols[req[o].inst]]
           \in Table!Outcomes(req[o], RowOf(req[o].inst))
  <1>1. Table!WithStatus(RowOf(req[o].inst), st) \in Table!Moved(req[o], RowOf(req[o].inst))
    BY DEF Table!Moved, RowOf
  <1> QED
    BY <1>1 DEF Table!Outcomes, Table!WithStatus, RowOf

\* SetStatusCAS commits a Start, Stop or Restart.
LEMMA SetStatusCASCommits ==
  ASSUME IndInv, RunningUntilEnd, NEW o \in Ops, SetStatusCAS(o)
  PROVE  Table!Commit(o) \/ UNCHANGED <<status, cols, event, intent, req, done>>
  <1> DEFINE i == req[o].inst
             k == req[o].kind
  <1>1. CASE ~StatusMatches(i, From(k))
    BY <1>1 DEF SetStatusCAS
  <1>2. CASE StatusMatches(i, From(k))
    <2>1. k \in LifecycleKinds
      BY DEF SetStatusCAS, At
    <2>2. Exists(i) /\ To(k) # "GONE"
      BY <1>2 DEF StatusMatches, From, To, Exists, RowStatus
    <2>3. <<status[i], To(k)>> \in Table!Transitions(k)
      BY <1>2, <2>1 DEF StatusMatches, From, To, LifecycleKinds, Table!Transitions
    <2>5. [status |-> To(k), cols |-> cols[i]] \in Table!Outcomes(req[o], RowOf(i))
      BY <2>1, <2>3, TransitionIsOutcome DEF LifecycleKinds
    <2>6. /\ status' = [status EXCEPT ![i] = To(k)]
          /\ event' = [event EXCEPT ![i] = [type |-> "UPDATED", status |-> To(k),
                                            cols |-> cols[i], noop |-> FALSE]]
          /\ UNCHANGED <<cols, intent, done>>
      BY <1>2 DEF SetStatusCAS, Emit
    <2> QED
      BY <2>2, <2>5, <2>6, StatusCommit DEF OpStep, WorkerStep
  <1> QED
    BY <1>1, <1>2

\* MarkDeleting commits the first half of a Delete, once.
LEMMA MarkDeletingCommits ==
  ASSUME IndInv, RunningUntilEnd, NEW o \in Ops, MarkDeleting(o)
  PROVE  Table!Commit(o) \/ UNCHANGED <<status, cols, event, intent, req, done>>
  <1> DEFINE i == req[o].inst
  <1>1. CASE ~Exists(i)
    BY <1>1 DEF MarkDeleting
  <1>2. CASE Exists(i) /\ status[i] = "DELETING"
    <2>1. i \in Instances
      BY OpInUse DEF OpStep, WorkerStep
    <2> QED
      BY <1>2, <2>1 DEF MarkDeleting, IndInv, TypeOK
  <1>3. CASE Exists(i) /\ status[i] # "DELETING"
    <2>1. status[i] \in {"RUNNING", "STOPPED"}
      BY <1>3 DEF Exists, RowStatus
    <2>2. req[o].kind = "Delete"
      BY DEF MarkDeleting, At
    <2>3. <<status[i], "DELETING">> \in Table!Transitions(req[o].kind)
      BY <2>1, <2>2 DEF Table!Transitions
    <2>4. [status |-> "DELETING", cols |-> cols[i]] \in Table!Outcomes(req[o], RowOf(i))
      BY <2>2, <2>3, TransitionIsOutcome
    <2>5. /\ status' = [status EXCEPT ![i] = "DELETING"]
          /\ event' = [event EXCEPT ![i] = [type |-> "UPDATED", status |-> "DELETING",
                                            cols |-> cols[i], noop |-> FALSE]]
          /\ UNCHANGED <<cols, intent, done>>
      BY <1>3 DEF MarkDeleting, Emit
    <2> QED
      BY <1>3, <2>4, <2>5, StatusCommit DEF OpStep, WorkerStep
  <1> QED
    BY <1>1, <1>2, <1>3

\* DeleteRow commits the second half: it finds the row marked or gone.
LEMMA DeleteRowCommits ==
  ASSUME IndInv, RunningUntilEnd, NEW o \in Ops, DeleteRow(o)
  PROVE  Table!Commit(o) \/ UNCHANGED <<status, cols, event, intent, req, done>>
  <1> DEFINE i == req[o].inst
             row == cols[i]
  <1>1. CASE ~Exists(i)
    BY <1>1 DEF DeleteRow
  <1>2. CASE Exists(i)
    <2>1. done[o] = "RUNNING" /\ i \in Instances /\ req[o].kind = "Delete"
      BY OpInUse DEF OpStep, WorkerStep, DeleteRow, At
    <2>2. status[i] = "DELETING"
      BY <1>2 DEF IndInv, MarkedFirst, DeleteRow, At, Exists, RowStatus
    <2>3. <<status[i], "GONE">> \in Table!Transitions(req[o].kind)
      BY <2>1, <2>2 DEF Table!Transitions
    <2>4. [status |-> "GONE", cols |-> row] \in Table!Outcomes(req[o], RowOf(i))
      BY <2>1, <2>3, TransitionIsOutcome
    <2>5. /\ Table!EventOf(RowOf(i), [status |-> "GONE", cols |-> row])
               = [type |-> "DELETED", status |-> "GONE", cols |-> row, noop |-> FALSE]
          /\ Table!IntentOf([status |-> "GONE", cols |-> row])
               = [type |-> "fga.unregister", labels |-> row.labels]
      BY <2>2 DEF Table!EventOf, Table!EventType, Table!IntentOf, RowOf
    <2>6. cols' = [cols EXCEPT ![i] = row]
      BY <2>1 DEF DeleteRow, IndInv, TypeOK
    <2>7. /\ status' = [status EXCEPT ![i] = "GONE"]
          /\ event' = [event EXCEPT ![i] = [type |-> "DELETED", status |-> "GONE",
                                            cols |-> row, noop |-> FALSE]]
          /\ intent' = [intent EXCEPT ![i] = [type |-> "fga.unregister", labels |-> row.labels]]
          /\ UNCHANGED <<req, done>>
      BY <1>2 DEF DeleteRow, Emit, EmitIntent
    <2> HIDE DEF row
    <2> QED
      BY <2>1, <2>4, <2>5, <2>6, <2>7, CommitMaps DEF IndInv, row
  <1> QED
    BY <1>1, <1>2

-----------------------------------------------------------------------------
(***************************************************************************)
(* The steps that publish without a change, and those that answer          *)
(***************************************************************************)
\* EmitReread is the table's Republish.
LEMMA EmitRereadRepublishes ==
  ASSUME RefInv, NEW o \in Ops, EmitReread(o)
  PROVE  Table!Republish(o)
  <1>1. done[o] = "RUNNING"
    BY OpInUse DEF OpStep, WorkerStep, RefInv
  <1>2. req[o].kind = "Update" /\ req[o].mask = {} /\ snap[o].status \in RowStatus
    BY DEF EmitReread, At, RefInv, RereadPublishes
  <1>3. snap[o] \in Copy
    BY DEF RefInv, IndInv, TypeOK
  <1> DEFINE r == [status |-> snap[o].status, cols |-> snap[o].cols]
  <1>4. r \in [status : RowStatus, cols : Row]
    BY <1>2, <1>3 DEF Copy
  <1>5. event' = [event EXCEPT ![req[o].inst] =
          [type |-> "UPDATED", status |-> r.status, cols |-> r.cols, noop |-> TRUE]]
    BY DEF EmitReread
  <1>6. UNCHANGED <<status, cols, intent, req, done>>
    BY DEF EmitReread
  <1> HIDE DEF r
  <1> QED
    BY <1>1, <1>2, <1>4, <1>5, <1>6 DEF Table!Republish

\* Finish and Resolve are the table's Answer: a Delete succeeds on a row that is gone.
LEMMA AnswerMaps ==
  ASSUME RefInv, NEW o \in Ops, Finish(o) \/ Resolve(o)
  PROVE  \E result \in {"OK", "ERROR"} : Table!Answer(o, result)
  <1> DEFINE i == req[o].inst
  <1>1. done[o] = "RUNNING" /\ i \in Instances
    BY OpInUse DEF OpStep, WorkerStep, RefInv
  <1>2. PICK result \in {"OK", "ERROR"} : done' = [done EXCEPT ![o] = result]
    BY DEF Finish, Resolve
  <1>3. UNCHANGED <<status, cols, event, intent, req>>
    BY DEF Finish, Resolve, rowVars
  <1>4. (result = "OK" /\ req[o].kind = "Delete") => status[i] = "GONE"
    <2> SUFFICES ASSUME result = "OK", req[o].kind = "Delete" PROVE status[i] = "GONE"
      OBVIOUS
    <2>1. done'[o] = "OK" /\ done[o] # "NONE"
      BY <1>1, <1>2 DEF RefInv, IndInv, TypeOK
    <2>2. req[o] # NoRequest /\ pc[o] # "idle"
      BY <2>1 DEF RefInv, IndInv, FreshOps
    <2>3. CASE Finish(o)
      BY <2>1, <2>2, <2>3 DEF Finish, RefInv, IndInv, TypeOK, DeleteReached
    <2>4. CASE Resolve(o)
      <3>1. ~Exists(i)
        BY <2>1, <2>4 DEF Resolve, ResolvedOk, RefInv, IndInv, TypeOK
      <3> QED
        BY <3>1, <1>1, <2>2 DEF RefInv, IndInv, NamesKnown, Known, TypeOK, Exists, Status
    <2> QED
      BY <2>3, <2>4
  <1> QED
    BY <1>1, <1>2, <1>3, <1>4 DEF Table!Answer

-----------------------------------------------------------------------------
\* Every step of the service is a step of the table, or leaves the table alone.
LEMMA NextTable == RefInv /\ [Next]_vars => [Table!Next]_(Table!vars)
  <1> SUFFICES ASSUME RefInv, [Next]_vars PROVE [Table!Next]_(Table!vars)
    OBVIOUS
  <1>a. UNCHANGED <<status, cols, event, intent, req, done>> => UNCHANGED Table!vars
    BY DEF Table!vars
  <1>1. ASSUME NEW o \in Ops, NEW r \in Requests, RunOp(o, r) PROVE Table!Next
    BY <1>1, RunOpAccepts DEF Table!Next, RefInv
  <1>2. ASSUME NEW o \in Ops, OpStep(o)
        PROVE  Table!Next \/ UNCHANGED <<status, cols, event, intent, req, done>>
    <2>1. CASE Insert(o)
      BY <2>1, InsertCommits DEF Table!Next, RefInv
    <2>2. CASE UpdateWrite(o)
      BY <2>2, UpdateWriteCommits DEF Table!Next, RefInv
    <2>3. CASE MergeMetadata(o)
      BY <2>3, MergeMetadataCommits DEF Table!Next, RefInv
    <2>4. CASE SetStatusCAS(o)
      BY <2>4, SetStatusCASCommits DEF Table!Next, RefInv
    <2>5. CASE MarkDeleting(o)
      BY <2>5, MarkDeletingCommits DEF Table!Next, RefInv
    <2>6. CASE DeleteRow(o)
      BY <2>6, DeleteRowCommits DEF Table!Next, RefInv
    <2>7. CASE EmitReread(o)
      BY <2>7, EmitRereadRepublishes DEF Table!Next
    <2>8. CASE Finish(o) \/ Resolve(o)
      BY <2>8, AnswerMaps DEF Table!Next
    <2>9. CASE UNCHANGED <<rowVars, req, done>>
      BY <2>9 DEF rowVars
    <2> QED
      BY <1>2, <2>1, <2>2, <2>3, <2>4, <2>5, <2>6, <2>7, <2>8, <2>9
      DEF OpStep, WorkerStep, UpdateGet, UpdateReread, SimulateMaintenanceEvent,
          GateForAttach, PeerAttach, Reload, ListForDetachDisk, GetForDetachNic, ListForDetachNic,
          PeerDetach, ListNics, ListVolumes, ReleaseNext, StepFails, LoseWorker
  <1>3. CASE UNCHANGED vars
    BY <1>3, <1>a DEF vars, rowVars, opVars
  <1> QED
    BY <1>1, <1>2, <1>3, <1>a, NextCases

\* InstanceService (instance.go, instance_repo.go, resolver.go) implements the
\* table: however the workers of concurrent requests copy, crash and interleave,
\* each committed change is the whole effect of one unanswered request on the row
\* as it is at that moment, announced with it, and every answer is given once.
THEOREM ServiceImplementsTable == Spec => ImplementsTable
  BY InitTable, NextTable, RefInvariance, PTL DEF Spec, Table!Spec, ImplementsTable
=============================================================================

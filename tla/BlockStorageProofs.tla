------------------------- MODULE BlockStorageProofs -------------------------
(***************************************************************************)
(* Proofs about BlockStorage, for any number of resources, projects, sizes *)
(* and concurrent operations.                                              *)
(***************************************************************************)
EXTENDS BlockStorage, TLAPS

-----------------------------------------------------------------------------
(***************************************************************************)
(* Requests and rows                                                       *)
(***************************************************************************)
\* Every request names a resource; a Create names where its copy comes from.
LEMMA RequestFields ==
  \A r \in Requests :
    /\ r.res \in Resources
    /\ r.kind = "Create" =>
         /\ r.project \in Projects /\ r.name \in Names /\ r.labels \in Labels
         /\ r.zone \in Zones /\ r.size \in Sizes
         /\ r.source \in Resources \cup {NoSource} /\ r.source # r.res
    /\ r.kind = "Update" =>
         /\ r.name \in Names /\ r.labels \in Labels /\ r.size \in Sizes
         /\ r.mask \subseteq Mutable(r.res)
    /\ r.kind = "Relocate" => r.res \in Disks /\ r.zone \in Zones
  BY DEF Requests, AllRequests, CreateRequest, UpdateRequest, Resources

\* The request of an operation in use.
LEMMA ReqOf ==
  ASSUME TypeOK, FreshOps, NEW o \in Ops, pc[o] # "idle"
  PROVE  req[o] \in Requests /\ req[o].res \in Resources
  BY RequestFields DEF TypeOK, FreshOps

\* The row operators produce rows.
LEMMA RowOperators ==
  /\ \A r \in Row : \A v, mask :
       (v.name \in Names /\ v.labels \in Labels /\ v.size \in Sizes)
         => SetColumns(r, v, mask) \in Row
  /\ \A r \in Row, z \in Zones : Relocated(r, z) \in Row
  /\ \A r \in Row, n \in Sizes : Sized(r, n) \in Row
  BY DEF SetColumns, Relocated, Sized, Row

\* The fields of a row.
LEMMA RowFields ==
  \A r \in Row : /\ r.name \in Names /\ r.labels \in Labels
                 /\ r.size \in Nat /\ r.storage \in Nat /\ r.size \in Sizes /\ r.storage \in Sizes
                 /\ r.source \in Resources \cup {NoSource} /\ r.project \in Projects
  BY StorageAssumption DEF Row, Sizes

\* A Create builds a row from its request and the source it has read.
LEMMA CreatedTyped ==
  ASSUME TypeOK, NEW r \in Requests, r.kind = "Create"
  PROVE  CreatedRow(r) \in Row
  <1>1. CreatedSize(r) \in Sizes
    <2>1. CASE r.source = NoSource
      BY <2>1, RequestFields DEF CreatedSize
    <2>2. CASE r.source # NoSource
      <3>1. row[r.source] \in Row
        BY <2>2, RequestFields DEF TypeOK
      <3>2. r.size \in Sizes /\ row[r.source].size \in Sizes
        BY <3>1, RequestFields, RowFields
      <3>3. CreatedSize(r) \in {r.size, row[r.source].size}
        BY <2>2 DEF CreatedSize, Larger
      <3> QED
        BY <3>2, <3>3
    <2> QED
      BY <2>1, <2>2
  <1>2. r.source # NoSource => Content(r.source) \in Sizes
    BY RequestFields, RowFields DEF TypeOK, Content
  <1>3. 0 \in Sizes
    BY StorageAssumption DEF Sizes
  <1> QED
    BY <1>1, <1>2, <1>3, RequestFields DEF CreatedRow, Row

\* An event carries the row it announces.
LEMMA EmitTyped ==
  ASSUME TypeOK, NEW x \in Resources, NEW r \in Row, NEW type \in {"CREATED", "UPDATED", "DELETED"},
         Emit(x, type, r)
  PROVE  event' \in [Resources -> Event]
  <1>1. [type |-> type, row |-> r] \in Event
    BY DEF Event
  <1> QED
    BY <1>1 DEF Emit, TypeOK

\* An intent carries the labels of the row it announces.
LEMMA EmitIntentTyped ==
  ASSUME TypeOK, NEW x \in Resources, NEW r \in Row, NEW type \in {"fga.register", "fga.unregister"},
         EmitIntent(x, type, r)
  PROVE  intent' \in [Resources -> Intent]
  <1>1. [type |-> type, labels |-> r.labels] \in Intent
    BY RowFields DEF Intent
  <1> QED
    BY <1>1 DEF EmitIntent, TypeOK

-----------------------------------------------------------------------------
(***************************************************************************)
(* Types                                                                   *)
(***************************************************************************)
\* The row of the initial state is a row.
LEMMA FirstRowTyped == FirstRow \in Row
  <1>1. /\ AnyOf(Projects) \in Projects /\ AnyOf(Names) \in Names
        /\ AnyOf(Labels) \in Labels /\ AnyOf(Zones) \in Zones
    BY StorageAssumption DEF AnyOf
  <1>2. 0 \in Sizes
    BY StorageAssumption DEF Sizes
  <1> QED
    BY <1>1, <1>2 DEF FirstRow, Row

\* The initial states are well typed.
LEMMA InitTypeOK == Init => TypeOK
  <1> SUFFICES ASSUME Init PROVE TypeOK
    OBVIOUS
  <1>1. row \in [Resources -> Row] /\ want \in [Resources -> Row]
    BY FirstRowTyped, RowOperators DEF Init
  <1>2. event \in [Resources -> Event]
    BY <1>1 DEF Init, Event
  <1>3. intent \in [Resources -> Intent]
    BY <1>1, RowFields DEF Init, Intent
  <1>4. phase \in [Resources -> {"NONE", "LIVE", "GONE"}]
    BY DEF Init
  <1>5. /\ req \in [Ops -> Requests \cup {NoRequest}]
        /\ pc \in [Ops -> Points]
        /\ copy \in [Ops -> Row]
    BY FirstRowTyped DEF Init, Points
  <1> QED
    BY <1>1, <1>2, <1>3, <1>4, <1>5 DEF TypeOK

\* Every step keeps the types.
LEMMA NextTypeOK == TypeOK /\ FreshOps /\ [Next]_vars => TypeOK'
  <1> SUFFICES ASSUME TypeOK, FreshOps, [Next]_vars PROVE TypeOK'
    OBVIOUS
  <1> USE DEF Goto, At, tables
  <1>1. ASSUME NEW o \in Ops, NEW r \in Requests, RunOp(o, r) PROVE TypeOK'
    BY <1>1 DEF RunOp, TypeOK, Points
  <1>2. ASSUME NEW o \in Ops, ReadSource(o) PROVE TypeOK'
    <2>1. CreatedRow(req[o]) \in Row
      BY <1>2, ReqOf, CreatedTyped DEF ReadSource
    <2> QED
      BY <1>2, <2>1 DEF ReadSource, TypeOK, Points
  <1>3. ASSUME NEW o \in Ops, Insert(o) PROVE TypeOK'
    <2>1. req[o].res \in Resources /\ copy[o] \in Row
      BY <1>3, ReqOf DEF Insert, TypeOK
    <2>2. event' \in [Resources -> Event] /\ intent' \in [Resources -> Intent]
      BY <1>3, <2>1, EmitTyped, EmitIntentTyped DEF Insert
    <2> QED
      BY <1>3, <2>1, <2>2 DEF Insert, TypeOK, Points
  <1>4. ASSUME NEW o \in Ops, UpdateGet(o) PROVE TypeOK'
    <2>1. req[o] \in Requests /\ row[req[o].res] \in Row
      BY <1>4, ReqOf DEF UpdateGet, TypeOK
    <2>2. SetColumns(row[req[o].res], req[o], req[o].mask) \in Row
      BY <1>4, <2>1, RequestFields, RowOperators DEF UpdateGet
    <2> QED
      BY <1>4, <2>2 DEF UpdateGet, TypeOK, Points
  <1>5. ASSUME NEW o \in Ops, UpdateWrite(o) PROVE TypeOK'
    <2> DEFINE x == req[o].res
               r == Written(row[x], copy[o], req[o].mask)
    <2>1. req[o] \in Requests /\ x \in Resources
      BY <1>5, ReqOf DEF UpdateWrite
    <2>2. row[x] \in Row /\ want[x] \in Row /\ copy[o] \in Row
      BY <2>1 DEF TypeOK
    <2>3. r \in Row
      BY <2>2, RowOperators, RowFields DEF Written
    <2>4. SetColumns(want[x], req[o], req[o].mask) \in Row
      BY <1>5, <2>1, <2>2, RowOperators, RequestFields DEF UpdateWrite
    <2>5. event' \in [Resources -> Event]
      BY <1>5, <2>1, <2>3, EmitTyped DEF UpdateWrite
    <2>6. intent' \in [Resources -> Intent]
      BY <1>5, <2>1, <2>3, EmitIntentTyped DEF UpdateWrite, TypeOK
    <2> HIDE DEF r
    <2>7. row' \in [Resources -> Row] /\ want' \in [Resources -> Row]
      BY <1>5, <2>1, <2>3, <2>4 DEF UpdateWrite, TypeOK, r
    <2> QED
      BY <1>5, <2>5, <2>6, <2>7 DEF UpdateWrite, TypeOK, Points
  <1>6. ASSUME NEW o \in Ops, Relocate(o) PROVE TypeOK'
    <2> DEFINE x == req[o].res
               r == Relocated(row[x], req[o].zone)
    <2>1. req[o] \in Requests /\ x \in Resources /\ req[o].zone \in Zones
      BY <1>6, ReqOf, RequestFields DEF Relocate
    <2>2. r \in Row /\ Relocated(want[x], req[o].zone) \in Row
      BY <2>1, RowOperators DEF TypeOK
    <2>3. event' \in [Resources -> Event]
      BY <1>6, <2>1, <2>2, EmitTyped DEF Relocate
    <2>4. row' \in [Resources -> Row] /\ want' \in [Resources -> Row]
      BY <1>6, <2>1, <2>2 DEF Relocate, TypeOK
    <2> QED
      BY <1>6, <2>3, <2>4 DEF Relocate, TypeOK, Points
  <1>7. ASSUME NEW o \in Ops, DeleteRow(o) PROVE TypeOK'
    <2>1. req[o].res \in Resources /\ row[req[o].res] \in Row
      BY <1>7, ReqOf DEF DeleteRow, TypeOK
    <2>2. event' \in [Resources -> Event] /\ intent' \in [Resources -> Intent]
      BY <1>7, <2>1, EmitTyped, EmitIntentTyped DEF DeleteRow, EmitUnregister
    <2> QED
      BY <1>7, <2>1, <2>2 DEF DeleteRow, TypeOK, Points
  <1>8. ASSUME NEW o \in Ops, Abort(o) PROVE TypeOK'
    BY <1>8 DEF Abort, TypeOK, Points
  <1>9. CASE Quiescent \/ UNCHANGED vars
    BY <1>9 DEF Quiescent, vars, TypeOK
  <1> QED
    BY <1>1, <1>2, <1>3, <1>4, <1>5, <1>6, <1>7, <1>8, <1>9 DEF Next, OpStep

-----------------------------------------------------------------------------
(***************************************************************************)
(* Frames                                                                  *)
(***************************************************************************)
\* A step of Next is runOp, a step of one operation, or no change at all.
LEMMA NextCases ==
  ASSUME [Next]_vars
  PROVE  \/ \E o \in Ops, r \in Requests : RunOp(o, r)
         \/ \E o \in Ops : OpStep(o)
         \/ UNCHANGED vars
  BY DEF Next, Quiescent

\* What runOp does to the operations and what it leaves alone.
LEMMA RunOpEffect ==
  ASSUME TypeOK, FreshOps, NEW o \in Ops, NEW r \in Requests, RunOp(o, r)
  PROVE  /\ pc[o] = "idle" /\ pc'[o] = "start" /\ req'[o] = r
         /\ \A p \in Ops \ {o} : pc'[p] = pc[p] /\ req'[p] = req[p]
         /\ UNCHANGED <<tables, copy>>
  BY DEF RunOp, Goto, TypeOK, FreshOps

\* A worker keeps its request and touches no other worker's memory; it reaches
\* `insert' and `write' only by its own read, and never starts again.
LEMMA OpFrame ==
  ASSUME TypeOK, FreshOps, NEW o \in Ops, OpStep(o)
  PROVE  /\ req' = req
         /\ pc[o] # "idle" /\ pc'[o] \notin {"idle", "start"}
         /\ pc'[o] = "insert" => ReadSource(o)
         /\ pc'[o] = "write" => UpdateGet(o)
         /\ \A p \in Ops \ {o} : pc'[p] = pc[p] /\ copy'[p] = copy[p]
  <1> USE DEF Goto, At, TypeOK
  <1>1. CASE ReadSource(o) \/ UpdateGet(o)
    BY <1>1 DEF ReadSource, UpdateGet
  <1>2. CASE Insert(o) \/ UpdateWrite(o)
    BY <1>2 DEF Insert, UpdateWrite
  <1>3. CASE Relocate(o) \/ DeleteRow(o) \/ Abort(o)
    BY <1>3 DEF Relocate, DeleteRow, Abort
  <1> QED
    BY <1>1, <1>2, <1>3 DEF OpStep

\* Rows appear only by Insert and never lose their history.
LEMMA PhaseFrame ==
  ASSUME TypeOK, FreshOps, CreateOwnsId, NEW o \in Ops, OpStep(o), NEW x \in Resources
  PROVE  /\ phase[x] # "NONE" => phase'[x] # "NONE"
         /\ (phase[x] = "NONE" /\ phase'[x] # "NONE") => Insert(o) /\ x = req[o].res
         /\ (phase[x] # "LIVE" /\ phase'[x] = "LIVE") => Insert(o) /\ x = req[o].res
         /\ Insert(o) => phase[req[o].res] = "NONE"
  <1>a. req[o].res \in Resources
    BY OpFrame, ReqOf
  <1>1. CASE Insert(o)
    BY <1>1, <1>a DEF Insert, At, CreateOwnsId, TypeOK
  <1>2. CASE DeleteRow(o) /\ ~Insert(o)
    BY <1>2, <1>a DEF DeleteRow, Live, TypeOK
  <1>3. CASE phase' = phase /\ ~Insert(o)
    BY <1>3
  <1> QED
    BY <1>1, <1>2, <1>3
    DEF OpStep, ReadSource, UpdateGet, UpdateWrite, Relocate, Abort, tables

\* What a step does to a row that has a history: project, storage and source
\* are fixed, a disk only grows, a snapshot's size is fixed.
LEMMA RowFrame ==
  ASSUME TypeOK, FreshOps, CreateOwnsId, NEW o \in Ops, OpStep(o),
         NEW x \in Resources, phase[x] # "NONE"
  PROVE  /\ row'[x].project = row[x].project
         /\ row'[x].storage = row[x].storage
         /\ row'[x].source = row[x].source
         /\ x \in Disks => row'[x].size >= row[x].size
         /\ x \in Snapshots => row'[x].size = row[x].size
  <1>a. req[o].res \in Resources /\ req[o] \in Requests
    BY OpFrame, ReqOf
  <1>b. row[x].size \in Nat
    BY RowFields DEF TypeOK
  <1>1. CASE Insert(o)
    <2>1. x # req[o].res
      BY <1>1, <1>a, PhaseFrame
    <2>2. row'[x] = row[x]
      BY <1>1, <2>1 DEF Insert, TypeOK
    <2> QED
      BY <1>b, <2>2
  <1>2. CASE UpdateWrite(o)
    <2> DEFINE r == Written(row[x], copy[o], req[o].mask)
    <2>1. CASE x # req[o].res
      BY <1>2, <1>a, <1>b, <2>1 DEF UpdateWrite, TypeOK
    <2>2. CASE x = req[o].res
      <3>1. row'[x] = r
        BY <1>2, <2>2 DEF UpdateWrite, TypeOK
      <3>2. r.project = row[x].project /\ r.storage = row[x].storage /\ r.source = row[x].source
        BY DEF Written, SetColumns
      <3>3. r.size = IF "size" \in req[o].mask THEN copy[o].size ELSE row[x].size
        BY DEF Written, SetColumns
      <3>4. x \in Snapshots => "size" \notin req[o].mask
        BY <1>2, <1>a, <2>2, RequestFields DEF UpdateWrite, At, Mutable
      <3>5. (x \in Disks /\ "size" \in req[o].mask) => row[x].size <= copy[o].size
        BY <1>2, <2>2 DEF UpdateWrite, UpdateMatches
      <3>6. copy[o].size \in Nat
        BY RowFields DEF TypeOK
      <3> HIDE DEF r
      <3> QED
        BY <1>b, <3>1, <3>2, <3>3, <3>4, <3>5, <3>6
    <2> QED
      BY <2>1, <2>2
  <1>3. CASE Relocate(o)
    BY <1>3, <1>a, <1>b DEF Relocate, Relocated, TypeOK
  <1>4. CASE row' = row
    BY <1>4, <1>b
  <1> QED
    BY <1>1, <1>2, <1>3, <1>4 DEF OpStep, ReadSource, UpdateGet, DeleteRow, Abort, tables

-----------------------------------------------------------------------------
(***************************************************************************)
(* The parts of the inductive invariant                                    *)
(***************************************************************************)
\* runOp takes an unused id, every other step works on a used one.
LEMMA NextFreshOps == TypeOK /\ FreshOps /\ [Next]_vars => FreshOps'
  <1> SUFFICES ASSUME TypeOK, FreshOps, [Next]_vars PROVE FreshOps'
    OBVIOUS
  <1>1. ASSUME NEW o \in Ops, NEW r \in Requests, RunOp(o, r) PROVE FreshOps'
    BY <1>1, RunOpEffect, StorageAssumption DEF FreshOps
  <1>2. ASSUME NEW o \in Ops, OpStep(o) PROVE FreshOps'
    BY <1>2, OpFrame DEF FreshOps
  <1>3. CASE UNCHANGED vars
    BY <1>3 DEF FreshOps, vars
  <1> QED
    BY <1>1, <1>2, <1>3, NextCases

\* Only a Create inserts and only an Update writes.
LEMMA NextBetween == TypeOK /\ FreshOps /\ Between /\ [Next]_vars => Between'
  <1> SUFFICES ASSUME TypeOK, FreshOps, Between, [Next]_vars PROVE Between'
    OBVIOUS
  <1>1. ASSUME NEW o \in Ops, NEW r \in Requests, RunOp(o, r) PROVE Between'
    BY <1>1, RunOpEffect DEF Between
  <1>2. ASSUME NEW o \in Ops, OpStep(o) PROVE Between'
    BY <1>2, OpFrame DEF Between, ReadSource, UpdateGet, At
  <1>3. CASE UNCHANGED vars
    BY <1>3 DEF Between, vars
  <1> QED
    BY <1>1, <1>2, <1>3, NextCases

\* ids.NewID issues an id once, so only its own Create inserts the row.
LEMMA NextCreateOwnsId ==
  TypeOK /\ FreshOps /\ CreateOwnsId /\ [Next]_vars => CreateOwnsId'
  <1> SUFFICES ASSUME TypeOK, FreshOps, CreateOwnsId, [Next]_vars PROVE CreateOwnsId'
    OBVIOUS
  <1>1. ASSUME NEW o \in Ops, NEW r \in Requests, RunOp(o, r) PROVE CreateOwnsId'
    <2>1. \A p \in Ops \ {o} : (pc[p] # "idle" /\ req[p].kind = "Create" /\ r.kind = "Create")
                                => req[p].res # r.res
      BY <1>1 DEF RunOp, Issued, FreshOps
    <2>2. r.kind = "Create" => phase[r.res] = "NONE"
      BY <1>1 DEF RunOp, Issued
    <2> QED
      BY <1>1, <2>1, <2>2, RunOpEffect DEF CreateOwnsId, tables
  <1>2. ASSUME NEW o \in Ops, OpStep(o) PROVE CreateOwnsId'
    <2> SUFFICES ASSUME NEW p \in Ops, (pc[p] # "idle")', (req[p].kind = "Create")'
                 PROVE  /\ (pc[p] \in {"start", "insert"} => phase[req[p].res] = "NONE")'
                        /\ (\A q \in Ops \ {p} : (pc[q] # "idle" /\ req[q].kind = "Create")
                                                 => req[q].res # req[p].res)'
      BY DEF CreateOwnsId
    <2>1. req' = req /\ pc[p] # "idle" /\ req[p].res \in Resources
      BY <1>2, OpFrame, ReqOf
    <2>2. (\A q \in Ops \ {p} : (pc[q] # "idle" /\ req[q].kind = "Create")
                                => req[q].res # req[p].res)'
      BY <1>2, <2>1, OpFrame DEF CreateOwnsId
    <2>3. ASSUME pc'[p] \in {"start", "insert"} PROVE phase'[req[p].res] = "NONE"
      <3>1. pc[p] \in {"start", "insert"}
        BY <1>2, <2>3, OpFrame DEF ReadSource, At
      <3>2. phase[req[p].res] = "NONE"
        BY <2>1, <3>1 DEF CreateOwnsId
      <3>3. ~(Insert(o) /\ req[p].res = req[o].res)
        <4>1. CASE p = o
          BY <1>2, <2>3, <4>1 DEF Insert, Goto, TypeOK
        <4>2. CASE p # o
          BY <2>1, <4>2 DEF Insert, At, CreateOwnsId
        <4> QED
          BY <4>1, <4>2
      <3> QED
        BY <1>2, <2>1, <3>2, <3>3, PhaseFrame
    <2> QED
      BY <2>1, <2>2, <2>3
  <1>3. CASE UNCHANGED vars
    BY <1>3 DEF CreateOwnsId, vars, tables
  <1> QED
    BY <1>1, <1>2, <1>3, NextCases

\* What a resource holds only grows, and for snapshots and images it is fixed.
LEMMA ContentFrame ==
  ASSUME TypeOK, FreshOps, CreateOwnsId, NEW o \in Ops, OpStep(o),
         NEW y \in Resources, phase[y] # "NONE"
  PROVE  /\ Content(y) \in Nat /\ Content(y)' \in Nat
         /\ Content(y)' >= Content(y)
         /\ y \in Snapshots => Content(y)' = Content(y)
  <1>1. row[y].size \in Nat /\ row[y].storage \in Nat
    BY RowFields DEF TypeOK
  <1>2. CASE y \in Images
    BY <1>1, <1>2, RowFrame, StorageAssumption DEF Content
  <1>3. CASE y \in Snapshots
    BY <1>1, <1>3, RowFrame, StorageAssumption DEF Content
  <1>4. CASE y \in Disks
    <2>1. row'[y].size \in Nat
      <3>1. TypeOK'
        BY NextTypeOK DEF Next
      <3> QED
        BY <3>1, RowFields DEF TypeOK
    <2> QED
      BY <1>1, <1>4, <2>1, RowFrame, StorageAssumption DEF Content
  <1> QED
    BY <1>2, <1>3, <1>4 DEF Resources

\* Fits in the next state, of a row that may itself be the next one.
FitsAfter(x, r) ==
  r.source # NoSource =>
    LET content == IF r.source \in Images THEN row'[r.source].storage ELSE row'[r.source].size
    IN  /\ phase'[r.source] # "NONE"
        /\ row'[r.source].project = r.project
        /\ x \notin Disks => r.storage <= content
        /\ (x \in Disks /\ r.source \in Snapshots) => r.size >= content

\* A row that fits its source keeps fitting while neither is created anew.
LEMMA FitsFrame ==
  ASSUME TypeOK, FreshOps, CreateOwnsId, NEW o \in Ops, OpStep(o),
         NEW x \in Resources, NEW r \in Row, NEW s \in Row, Fits(x, r),
         s.source = r.source, s.project = r.project, s.storage = r.storage,
         x \in Disks => s.size >= r.size
  PROVE  FitsAfter(x, s)
  <1> SUFFICES ASSUME r.source # NoSource
               PROVE  /\ phase'[r.source] # "NONE"
                      /\ row'[r.source].project = s.project
                      /\ x \notin Disks => s.storage <= Content(r.source)'
                      /\ (x \in Disks /\ r.source \in Snapshots) => s.size >= Content(r.source)'
    BY DEF FitsAfter, Content
  <1>1. r.source \in Resources /\ phase[r.source] # "NONE"
    BY RowFields DEF Fits
  <1>2. /\ r.size \in Nat /\ s.size \in Nat /\ r.storage \in Nat
    BY RowFields
  <1>3. phase'[r.source] # "NONE" /\ row'[r.source].project = row[r.source].project
    BY <1>1, PhaseFrame, RowFrame
  <1>4. /\ Content(r.source) \in Nat /\ Content(r.source)' \in Nat
        /\ Content(r.source)' >= Content(r.source)
        /\ r.source \in Snapshots => Content(r.source)' = Content(r.source)
    BY <1>1, ContentFrame
  <1> QED
    BY <1>2, <1>3, <1>4 DEF Fits

\* A Create builds a row that fits the source it has just read.
LEMMA CreatedFits ==
  ASSUME TypeOK, NEW r \in Requests, r.kind = "Create", SourceUsable(r)
  PROVE  Fits(r.res, CreatedRow(r))
  <1> SUFFICES ASSUME r.source # NoSource PROVE Fits(r.res, CreatedRow(r))
    BY DEF Fits, CreatedRow
  <1>1. r.source \in Resources /\ Live(r.source) /\ row[r.source].project = r.project
    BY RequestFields DEF SourceUsable
  <1>2. Content(r.source) \in Nat /\ row[r.source].size \in Nat
    BY <1>1, RowFields DEF TypeOK, Content
  <1>3. r.source \in Snapshots => Content(r.source) = row[r.source].size
    BY StorageAssumption DEF Content
  <1>4. r.res \in Disks => CreatedRow(r).size >= row[r.source].size
    BY DEF CreatedRow, CreatedSize, SourceUsable
  <1>5. r.res \notin Disks => CreatedRow(r).storage = Content(r.source)
    BY DEF CreatedRow
  <1>6. CreatedRow(r).source = r.source /\ CreatedRow(r).project = r.project
    BY DEF CreatedRow
  <1> QED
    BY <1>1, <1>2, <1>3, <1>4, <1>5, <1>6 DEF Fits, Live

\* Creates check their source when they read it; what they have checked still
\* holds when they insert, and ever after.
LEMMA NextAllFit == IndInv /\ [Next]_vars => AllFit'
  <1> SUFFICES ASSUME IndInv, [Next]_vars PROVE AllFit'
    OBVIOUS
  <1> USE DEF IndInv
  <1>1. ASSUME NEW o \in Ops, NEW r \in Requests, RunOp(o, r) PROVE AllFit'
    BY <1>1, RunOpEffect DEF AllFit, Fits, Content, tables
  <1>2. ASSUME NEW o \in Ops, OpStep(o) PROVE AllFit'
    <2>a. req' = req /\ req[o] \in Requests /\ req[o].res \in Resources
      BY <1>2, OpFrame, ReqOf
    <2>b. TypeOK'
      BY NextTypeOK
    <2>1. ASSUME NEW p \in Ops, pc'[p] = "insert" PROVE Fits(req[p].res, copy[p])'
      <3>1. CASE p # o
        <4>1. pc[p] = "insert" /\ copy'[p] = copy[p]
          BY <1>2, <2>1, <3>1, OpFrame
        <4>2. copy[p] \in Row /\ req[p].res \in Resources /\ Fits(req[p].res, copy[p])
          BY <4>1, ReqOf DEF AllFit, TypeOK
        <4>3. copy[p].size >= copy[p].size
          BY <4>2, RowFields
        <4>4. FitsAfter(req[p].res, copy'[p])
          BY <1>2, <4>1, <4>2, <4>3, FitsFrame
        <4> QED
          BY <2>a, <4>4 DEF Fits, FitsAfter, Content
      <3>2. CASE p = o
        <4>1. ReadSource(o)
          BY <1>2, <2>1, <3>2, OpFrame
        <4>2. /\ copy'[o] = CreatedRow(req[o]) /\ SourceUsable(req[o])
              /\ req[o].kind = "Create" /\ UNCHANGED tables
          BY <2>1, <3>2, <4>1 DEF ReadSource, At, Goto, TypeOK
        <4>3. Fits(req[o].res, CreatedRow(req[o]))
          BY <2>a, <4>2, CreatedFits
        <4> QED
          BY <2>a, <3>2, <4>2, <4>3 DEF Fits, Content, tables
      <3> QED
        BY <3>1, <3>2
    <2>2. ASSUME NEW x \in Resources, phase'[x] # "NONE" PROVE Fits(x, row[x])'
      <3>1. CASE phase[x] # "NONE"
        <4>1. Fits(x, row[x]) /\ row[x] \in Row /\ row'[x] \in Row
          BY <2>b, <3>1 DEF AllFit, TypeOK
        <4>2. FitsAfter(x, row'[x])
          BY <1>2, <3>1, <4>1, FitsFrame, RowFrame
        <4> QED
          BY <4>2 DEF Fits, FitsAfter, Content
      <3>2. CASE phase[x] = "NONE"
        <4>1. Insert(o) /\ x = req[o].res
          BY <1>2, <2>2, <3>2, PhaseFrame
        <4>2. pc[o] = "insert" /\ row'[x] = copy[o] /\ copy[o] \in Row
          BY <4>1, <2>a DEF Insert, At, TypeOK
        <4>3. Fits(x, copy[o])
          BY <4>1, <4>2 DEF AllFit
        <4>4. copy[o].size >= copy[o].size
          BY <4>2, RowFields
        <4>5. FitsAfter(x, row'[x])
          BY <1>2, <4>2, <4>3, <4>4, FitsFrame
        <4> QED
          BY <4>5 DEF Fits, FitsAfter, Content
      <3> QED
        BY <3>1, <3>2
    <2> QED
      BY <2>1, <2>2 DEF AllFit
  <1>3. CASE UNCHANGED vars
    BY <1>3 DEF AllFit, Fits, Content, vars, tables
  <1> QED
    BY <1>1, <1>2, <1>3, NextCases

\* Only UpdateGet hands a copy to the write, with the mask already applied.
LEMMA NextCopyIsMasked ==
  TypeOK /\ FreshOps /\ CopyIsMasked /\ [Next]_vars => CopyIsMasked'
  <1> SUFFICES ASSUME TypeOK, FreshOps, CopyIsMasked, [Next]_vars PROVE CopyIsMasked'
    OBVIOUS
  <1>1. ASSUME NEW o \in Ops, NEW r \in Requests, RunOp(o, r) PROVE CopyIsMasked'
    BY <1>1, RunOpEffect DEF CopyIsMasked
  <1>2. ASSUME NEW o \in Ops, OpStep(o) PROVE CopyIsMasked'
    <2>1. req' = req
      BY <1>2, OpFrame
    <2>2. ASSUME NEW p \in Ops, pc'[p] = "write", p # o
          PROVE  pc[p] = "write" /\ copy'[p] = copy[p]
      BY <1>2, <2>2, OpFrame
    <2>3. ASSUME pc'[o] = "write"
          PROVE  copy'[o] = SetColumns(row[req[o].res], req[o], req[o].mask)
      <3>1. UpdateGet(o)
        BY <1>2, <2>3, OpFrame
      <3> QED
        BY <3>1, <2>3 DEF UpdateGet, Goto, TypeOK
    <2> QED
      BY <2>1, <2>2, <2>3 DEF CopyIsMasked, SetColumns
  <1>3. CASE UNCHANGED vars
    BY <1>3 DEF CopyIsMasked, vars
  <1> QED
    BY <1>1, <1>2, <1>3, NextCases

\* What UpdateWrite stores is the row as it is now with the requested columns.
LEMMA UpdateStoresRequest ==
  ASSUME CopyIsMasked, NEW o \in Ops, NEW r, pc[o] = "write"
  PROVE  Written(r, copy[o], req[o].mask) = SetColumns(r, req[o], req[o].mask)
  BY DEF Written, SetColumns, CopyIsMasked

\* Each column of a stored row is what the last request that named it set.
LEMMA NextNoLostUpdate == IndInv /\ [Next]_vars => NoLostUpdate'
  <1> SUFFICES ASSUME IndInv, [Next]_vars PROVE NoLostUpdate'
    OBVIOUS
  <1> USE DEF IndInv
  <1>1. ASSUME NEW o \in Ops, NEW r \in Requests, RunOp(o, r) PROVE NoLostUpdate'
    BY <1>1 DEF RunOp, NoLostUpdate, Live, tables
  <1>2. ASSUME NEW o \in Ops, OpStep(o) PROVE NoLostUpdate'
    <2>a. req[o].res \in Resources
      BY <1>2, OpFrame, ReqOf
    <2>1. CASE Insert(o)
      BY <2>1, <2>a DEF Insert, NoLostUpdate, Live, TypeOK
    <2>2. CASE UpdateWrite(o)
      <3>1. Written(row[req[o].res], copy[o], req[o].mask)
              = SetColumns(row[req[o].res], req[o], req[o].mask)
        BY <2>2, UpdateStoresRequest DEF UpdateWrite, At
      <3> QED
        BY <2>2, <2>a, <3>1 DEF UpdateWrite, UpdateMatches, NoLostUpdate, Live, TypeOK
    <2>3. CASE Relocate(o)
      BY <2>3, <2>a DEF Relocate, NoLostUpdate, Live, TypeOK
    <2>4. CASE ~Insert(o) /\ UNCHANGED <<row, want>>
      <3>1. \A x \in Resources : phase'[x] = "LIVE" => phase[x] = "LIVE"
        BY <1>2, <2>4, PhaseFrame
      <3> QED
        BY <2>4, <3>1 DEF NoLostUpdate, Live
    <2> QED
      BY <1>2, <2>1, <2>2, <2>3, <2>4 DEF OpStep, ReadSource, UpdateGet, DeleteRow, Abort, tables
  <1>3. CASE UNCHANGED vars
    BY <1>3 DEF NoLostUpdate, Live, vars, tables
  <1> QED
    BY <1>1, <1>2, <1>3, NextCases

\* A transaction that changes a row emits its event and, when labels may have
\* changed, its intent.
LEMMA NextPublishedRow == IndInv /\ [Next]_vars => PublishedRow'
  <1> SUFFICES ASSUME IndInv, [Next]_vars PROVE PublishedRow'
    OBVIOUS
  <1> USE DEF IndInv, Live
  <1>1. ASSUME NEW o \in Ops, NEW r \in Requests, RunOp(o, r) PROVE PublishedRow'
    BY <1>1 DEF RunOp, PublishedRow, tables
  <1>2. ASSUME NEW o \in Ops, OpStep(o) PROVE PublishedRow'
    <2> DEFINE x == req[o].res
    <2>a. x \in Resources
      BY <1>2, OpFrame, ReqOf
    <2>1. CASE Insert(o)
      BY <2>1, <2>a DEF Insert, Emit, EmitIntent, PublishedRow, TypeOK
    <2>2. CASE UpdateWrite(o)
      <3> DEFINE r == Written(row[x], copy[o], req[o].mask)
      <3>1. /\ phase' = phase /\ phase[x] = "LIVE"
            /\ row' = [row EXCEPT ![x] = r]
            /\ event' = [event EXCEPT ![x] = [type |-> "UPDATED", row |-> r]]
        BY <2>2 DEF UpdateWrite, UpdateMatches, Emit
      <3>2. intent'[x] = [type |-> "fga.register", labels |-> r.labels]
        <4>1. CASE "labels" \in req[o].mask
          BY <2>2, <2>a, <4>1 DEF UpdateWrite, EmitIntent, TypeOK
        <4>2. CASE "labels" \notin req[o].mask
          <5>1. intent' = intent /\ r.labels = row[x].labels
            BY <2>2, <4>2 DEF UpdateWrite, Written, SetColumns
          <5> QED
            BY <5>1, <2>a, <3>1 DEF PublishedRow
        <4> QED
          BY <4>1, <4>2
      <3>3. \A y \in Resources : y # x => intent'[y] = intent[y]
        BY <2>2, <2>a DEF UpdateWrite, EmitIntent, TypeOK
      <3> HIDE DEF r
      <3> QED
        BY <2>a, <3>1, <3>2, <3>3 DEF PublishedRow, TypeOK
    <2>3. CASE Relocate(o)
      <3> DEFINE r == Relocated(row[x], req[o].zone)
      <3>1. /\ phase' = phase /\ phase[x] = "LIVE" /\ intent' = intent
            /\ row' = [row EXCEPT ![x] = r]
            /\ event' = [event EXCEPT ![x] = [type |-> "UPDATED", row |-> r]]
        BY <2>3 DEF Relocate, Emit
      <3>2. r.labels = row[x].labels
        BY DEF Relocated
      <3> HIDE DEF r
      <3> QED
        BY <2>a, <3>1, <3>2 DEF PublishedRow, TypeOK
    <2>4. CASE DeleteRow(o)
      BY <2>4, <2>a DEF DeleteRow, Emit, EmitUnregister, EmitIntent, PublishedRow, TypeOK
    <2>5. CASE UNCHANGED tables
      BY <2>5 DEF PublishedRow, tables
    <2> QED
      BY <1>2, <2>1, <2>2, <2>3, <2>4, <2>5 DEF OpStep, ReadSource, UpdateGet, Abort
  <1>3. CASE UNCHANGED vars
    BY <1>3 DEF PublishedRow, vars, tables
  <1> QED
    BY <1>1, <1>2, <1>3, NextCases

-----------------------------------------------------------------------------
(***************************************************************************)
(* The inductive invariant and the theorems                                *)
(***************************************************************************)
\* The initial states satisfy the inductive invariant.
LEMMA InitIndInv == Init => IndInv
  <1> SUFFICES ASSUME Init PROVE IndInv
    OBVIOUS
  <1>1. TypeOK
    BY InitTypeOK
  <1>2. FreshOps /\ Between /\ CreateOwnsId /\ CopyIsMasked
    BY DEF Init, FreshOps, Between, CreateOwnsId, CopyIsMasked
  <1>3. AllFit
    <2>1. \A x \in Resources : row[x].source = NoSource
      BY DEF Init, Sized, FirstRow
    <2> QED
      BY <2>1 DEF Init, AllFit, Fits
  <1>4. NoLostUpdate
    BY DEF Init, NoLostUpdate
  <1>5. PublishedRow
    BY DEF Init, PublishedRow, Live
  <1> QED
    BY <1>1, <1>2, <1>3, <1>4, <1>5 DEF IndInv

\* Every step preserves the inductive invariant.
LEMMA NextIndInv == IndInv /\ [Next]_vars => IndInv'
  BY NextTypeOK, NextFreshOps, NextBetween, NextCreateOwnsId, NextAllFit, NextCopyIsMasked,
     NextNoLostUpdate, NextPublishedRow DEF IndInv

\* The conjunction of all the parts holds in every reachable state.
THEOREM Invariance == Spec => []IndInv
  BY InitIndInv, NextIndInv, PTL DEF Spec

\* Every variable keeps its type, whatever workers do and however many there are.
THEOREM TypeCorrect == Spec => []TypeOK
  <1>1. IndInv => TypeOK
    BY DEF IndInv
  <1> QED
    BY <1>1, Invariance, PTL

\* A copy and its source belong to one project and fit each other for ever,
\* although Create only checks this once, without a lock or a foreign key.
THEOREM CopiesFit == Spec => []SourcesFit
  <1>1. IndInv => SourcesFit
    BY DEF IndInv, AllFit, Fits, SourcesFit, Live
  <1> QED
    BY <1>1, Invariance, PTL

\* Updates and relocations of one resource never undo one another.
THEOREM UpdatesSurvive == Spec => []NoLostUpdate
  <1>1. IndInv => NoLostUpdate
    BY DEF IndInv
  <1> QED
    BY <1>1, Invariance, PTL

\* The last event and intent of a disk, image or snapshot describe its row.
THEOREM RowIsPublished == Spec => []PublishedRow
  <1>1. IndInv => PublishedRow
    BY DEF IndInv
  <1> QED
    BY <1>1, Invariance, PTL

\* The comparison in the UPDATE's WHERE clause is enough: no interleaving of
\* resizes makes a disk smaller.
THEOREM DisksOnlyGrow == Spec => DiskNeverShrinks
  <1> DEFINE Grows(d) == (Live(d) /\ phase'[d] = "LIVE") => row'[d].size >= row[d].size
  <1>1. ASSUME IndInv, NEW d \in Disks, NEW o \in Ops, OpStep(o) PROVE Grows(d)
    BY <1>1, RowFrame DEF IndInv, Live, Resources
  <1>2. ASSUME IndInv, NEW d \in Disks, row' = row PROVE Grows(d)
    BY <1>2, RowFields DEF IndInv, TypeOK, Resources
  <1>3. IndInv /\ [Next]_vars => [\A d \in Disks : Grows(d)]_vars
    BY <1>1, <1>2, NextCases DEF RunOp, tables, vars
  <1> QED
    BY <1>3, Invariance, PTL DEF Spec, DiskNeverShrinks
=============================================================================

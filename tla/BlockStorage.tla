---------------------------- MODULE BlockStorage ----------------------------
(***************************************************************************)
(* The disks, images and snapshots of kacho-compute.                       *)
(*                                                                         *)
(* The three services have one shape.  Create reads the source it copies   *)
(* (a disk from an image or snapshot, a snapshot from a disk, an image     *)
(* from any of them) and then inserts its own row; Update reads the row,   *)
(* applies the mask to its copy and then writes the masked columns;        *)
(* Relocate and Delete are one statement.  Nothing links a row to its      *)
(* source but the id it stores: what the reads have checked must still     *)
(* hold when the writes commit.                                            *)
(***************************************************************************)
EXTENDS Naturals, FiniteSets

CONSTANTS
  Disks, Images, Snapshots,   \* resource ids; ids.NewID never issues one twice
  Projects,    \* owners
  Names,       \* values of `name' (also of `description' and the like)
  NoName,      \* the empty name, which the unique index ignores
  Labels,      \* values of `labels'
  Zones,       \* zones a disk can be in
  MaxCreate,   \* largest size Create accepts (26 TiB)
  MaxUpdate,   \* largest size Disk.Update accepts (4 TiB)
  Ops,         \* operation ids: bounds the number of RPCs of a behaviour
  Kinds,       \* the RPCs that clients call
  Masked,      \* the columns that clients name in update masks
  NoSource,    \* an image from a URI, an empty disk
  NoRequest    \* this operation id has not been used

Resources == Disks \cup Images \cup Snapshots
Sizes     == 0 .. MaxCreate

VARIABLES
  phase,    \* phase[x]: "NONE" no row yet, "LIVE", "GONE" deleted
  row,      \* row[x]: the row (the last one, once deleted)
  want,     \* history: the last value a committed request gave each column
  event,    \* event[x]: the last compute_outbox event of x
  intent,   \* intent[x]: the last FGA register/unregister intent of x
  req,      \* req[o]: the request of operation o
  pc,       \* pc[o]: where the worker of o is
  copy      \* copy[o]: the row the worker has in memory

tables == <<phase, row, want, event, intent>>
vars   == <<tables, req, pc, copy>>

-----------------------------------------------------------------------------
(***************************************************************************)
(* Rows and requests                                                       *)
(***************************************************************************)
\* `size' is a disk's size, an image's min_disk_size, a snapshot's disk_size;
\* `storage' is the storage_size of an image or snapshot.
Row == [project : Projects, name : Names, labels : Labels, zone : Zones,
        size : Sizes, storage : Sizes, source : Resources \cup {NoSource}]

Event  == [type : {"NONE", "CREATED", "UPDATED", "DELETED"}, row : Row]
Intent == [type : {"NONE", "fga.register", "fga.unregister"}, labels : Labels]

\* The columns an Update may name; those of a snapshot have no size.
Columns == {"name", "labels", "size"}
Mutable(x) == IF x \in Snapshots THEN {"name", "labels"} ELSE Columns

\* What a resource may be created from.
SourcesOf(x) ==
  CASE x \in Disks  -> Images \cup Snapshots \cup {NoSource}
    [] x \in Images -> Resources \cup {NoSource}
    [] OTHER        -> Disks

AnyOf(S) == CHOOSE v \in S : TRUE

\* A disk has a size; only disks have a zone, and nobody asks for a snapshot's size.
CreateRequest(r) ==
  /\ r.source \in SourcesOf(r.res) \ {r.res}
  /\ r.res \in Disks => r.size > 0
  /\ r.res \notin Disks => r.zone = AnyOf(Zones)
  /\ r.res \in Snapshots => r.size = 0

\* The values of columns outside the mask are not looked at.
UpdateRequest(r) ==
  /\ r.mask \subseteq Mutable(r.res) \cap Masked
  /\ "name" \notin r.mask => r.name = AnyOf(Names)
  /\ "labels" \notin r.mask => r.labels = AnyOf(Labels)
  /\ "size" \notin r.mask => r.size = 0

\* Requests after the synchronous validation.  An Update without a mask names
\* every column, and leaves the size out when it is zero.
AllRequests ==
  {r \in [kind : {"Create"}, res : Resources, project : Projects, name : Names,
          labels : Labels, zone : Zones, size : Sizes, source : Resources \cup {NoSource}] :
     CreateRequest(r)}
    \cup {r \in [kind : {"Update"}, res : Resources, mask : (SUBSET Columns) \ {{}},
                 name : Names, labels : Labels, size : Sizes] :
            UpdateRequest(r)}
    \cup [kind : {"Relocate"}, res : Disks, zone : Zones]
    \cup [kind : {"Delete"}, res : Resources]

Requests == {r \in AllRequests : r.kind \in Kinds}

\* Every kind of resource has ids of its own, and bounds and placeholders are sane.
ASSUME StorageAssumption ==
  /\ MaxCreate \in Nat /\ MaxUpdate \in Nat
  /\ Disks \cap Images = {} /\ Disks \cap Snapshots = {} /\ Images \cap Snapshots = {}
  /\ NoSource \notin Resources
  /\ NoRequest \notin Requests
  /\ Projects # {} /\ Names # {} /\ Labels # {} /\ Zones # {}

Points == {"idle", "start", "insert", "write", "end"}

TypeOK ==
  /\ phase  \in [Resources -> {"NONE", "LIVE", "GONE"}]
  /\ row    \in [Resources -> Row]
  /\ want   \in [Resources -> Row]
  /\ event  \in [Resources -> Event]
  /\ intent \in [Resources -> Intent]
  /\ req    \in [Ops -> Requests \cup {NoRequest}]
  /\ pc     \in [Ops -> Points]
  /\ copy   \in [Ops -> Row]

-----------------------------------------------------------------------------
(***************************************************************************)
(* Initially some disks exist that were created empty.                     *)
(***************************************************************************)
FirstRow == [project |-> AnyOf(Projects), name |-> AnyOf(Names), labels |-> AnyOf(Labels),
             zone |-> AnyOf(Zones), size |-> 0, storage |-> 0, source |-> NoSource]

\* A row with another size.
Sized(r, n) == [project |-> r.project, name |-> r.name, labels |-> r.labels,
                zone |-> r.zone, size |-> n, storage |-> r.storage, source |-> r.source]

Live(x) == phase[x] = "LIVE"

SameKind(x, y) ==
  \A S \in {Disks, Images, Snapshots} : x \in S <=> y \in S

\* The partial unique index on (project_id, name) of x's table.
NameFree(x, project, name) ==
  name = NoName \/ \A y \in Resources \ {x} :
    (Live(y) /\ SameKind(x, y)) => row[y].project # project \/ row[y].name # name

Init ==
  /\ phase \in [Resources -> {"NONE", "LIVE"}]
  /\ \A x \in Resources : Live(x) => x \in Disks
  /\ \E n \in Sizes \ {0} : row = [x \in Resources |-> Sized(FirstRow, n)]
  /\ \A x \in Resources : Live(x) => NameFree(x, row[x].project, row[x].name)
  /\ want   = row
  /\ event  = [x \in Resources |-> [type |-> IF Live(x) THEN "CREATED" ELSE "NONE",
                                    row |-> row[x]]]
  /\ intent = [x \in Resources |-> [type |-> IF Live(x) THEN "fga.register" ELSE "NONE",
                                    labels |-> row[x].labels]]
  /\ req  = [o \in Ops |-> NoRequest]
  /\ pc   = [o \in Ops |-> "idle"]
  /\ copy = [o \in Ops |-> FirstRow]

-----------------------------------------------------------------------------
Goto(o, p) == pc' = [pc EXCEPT ![o] = p]

At(o, kind, p) == pc[o] = p /\ req[o].kind = kind

Emit(x, type, r) == event' = [event EXCEPT ![x] = [type |-> type, row |-> r]]

EmitIntent(x, type, r) == intent' = [intent EXCEPT ![x] = [type |-> type, labels |-> r.labels]]

\* ids.NewID returns an id that no row and no other Create has.
Issued(x) ==
  \/ phase[x] # "NONE"
  \/ \E o \in Ops : req[o] # NoRequest /\ req[o].kind = "Create" /\ req[o].res = x

\* runOp: store the operation and start its worker.  The handlers of all RPCs
\* but Create have read the row before.
RunOp(o, r) ==
  /\ pc[o] = "idle"
  /\ IF r.kind = "Create" THEN ~Issued(r.res) ELSE phase[r.res] # "NONE"
  /\ req' = [req EXCEPT ![o] = r]
  /\ Goto(o, "start")
  /\ UNCHANGED <<tables, copy>>

\* The worker gives up: a project, zone or disk-type check of Create fails, a
\* transaction rolls back, the process dies.
Abort(o) ==
  /\ pc[o] \notin {"idle", "end"}
  /\ Goto(o, "end")
  /\ UNCHANGED <<tables, req, copy>>

-----------------------------------------------------------------------------
(***************************************************************************)
(* Create                                                                  *)
(***************************************************************************)
\* The bytes a resource holds.
Content(y) == IF y \in Images THEN row[y].storage ELSE row[y].size

SourceUsableAnyOwner(r) ==   \* mutant: no cross-project guard
  r.source # NoSource =>
    /\ Live(r.source)
    /\ r.res \in Disks => r.size >= row[r.source].size

\* The source exists, has the same owner and, for a disk, fits into it.
SourceUsable(r) ==
  r.source # NoSource =>
    /\ Live(r.source)
    /\ row[r.source].project = r.project
    /\ r.res \in Disks => r.size >= row[r.source].size

Larger(m, n) == IF m >= n THEN m ELSE n

\* A disk has the size asked for, an image at least the minimum of its source,
\* a snapshot the size of its disk.
CreatedSize(r) ==
  IF r.res \in Disks \/ r.source = NoSource THEN r.size
  ELSE IF r.res \in Snapshots THEN row[r.source].size
  ELSE Larger(r.size, row[r.source].size)

CreatedRow(r) ==
  [project |-> r.project, name |-> r.name, labels |-> r.labels, zone |-> r.zone,
   size    |-> CreatedSize(r),
   storage |-> IF r.res \in Disks \/ r.source = NoSource THEN 0 ELSE Content(r.source),
   source  |-> r.source]

\* doCreate up to the Insert: one read of the source.
ReadSource(o) ==
  /\ At(o, "Create", "start")
  /\ IF SourceUsable(req[o])
       THEN /\ copy' = [copy EXCEPT ![o] = CreatedRow(req[o])]
            /\ Goto(o, "insert")
       ELSE Goto(o, "end") /\ UNCHANGED copy
  /\ UNCHANGED <<tables, req>>

\* Repo.Insert: row, event and register intent in one transaction.
Insert(o) ==
  LET x == req[o].res
      r == copy[o]
  IN  /\ At(o, "Create", "insert")
      /\ NameFree(x, r.project, r.name)
      /\ phase' = [phase EXCEPT ![x] = "LIVE"]
      /\ row'   = [row EXCEPT ![x] = r]
      /\ want'  = [want EXCEPT ![x] = r]
      /\ Emit(x, "CREATED", r)
      /\ EmitIntent(x, "fga.register", r)
      /\ Goto(o, "end")
      /\ UNCHANGED <<req, copy>>

-----------------------------------------------------------------------------
(***************************************************************************)
(* Update                                                                  *)
(***************************************************************************)
\* Row r with the columns of mask taken from v.
SetColumns(r, v, mask) ==
  [project |-> r.project, zone |-> r.zone, storage |-> r.storage, source |-> r.source,
   name    |-> IF "name" \in mask THEN v.name ELSE r.name,
   labels  |-> IF "labels" \in mask THEN v.labels ELSE r.labels,
   size    |-> IF "size" \in mask THEN v.size ELSE r.size]

\* Get, the mask on the copy, and for disks the check against the size just read.
UpdateGet(o) ==
  LET x == req[o].res
  IN  /\ At(o, "Update", "start")
      /\ IF /\ Live(x)
            /\ (x \in Disks /\ "size" \in req[o].mask) =>
                 req[o].size >= row[x].size /\ req[o].size <= MaxUpdate
           THEN /\ copy' = [copy EXCEPT ![o] = SetColumns(row[x], req[o], req[o].mask)]
                /\ Goto(o, "write")
           ELSE Goto(o, "end") /\ UNCHANGED copy
      /\ UNCHANGED <<tables, req>>

UpdateMatchesAnySize(x, mask, v) == Live(x)   \* mutant: only the check at the read

\* The UPDATE's WHERE clause: a disk's size is compared again.
UpdateMatches(x, mask, v) ==
  Live(x) /\ ((x \in Disks /\ "size" \in mask) => row[x].size <= v.size)

WrittenWhole(r, v, mask) == v   \* mutant: every column of the copy

\* The UPDATE's SET clause: only the masked columns of the copy.
Written(r, v, mask) == SetColumns(r, v, mask)

\* Repo.Update; a name taken meanwhile violates the unique index.
UpdateWrite(o) ==
  LET x == req[o].res
      r == Written(row[x], copy[o], req[o].mask)
  IN  /\ At(o, "Update", "write")
      /\ UpdateMatches(x, req[o].mask, copy[o])
      /\ NameFree(x, r.project, r.name)
      /\ row'  = [row EXCEPT ![x] = r]
      /\ want' = [want EXCEPT ![x] = SetColumns(@, req[o], req[o].mask)]
      /\ Emit(x, "UPDATED", r)
      /\ IF "labels" \in req[o].mask
           THEN EmitIntent(x, "fga.register", r)
           ELSE UNCHANGED intent
      /\ Goto(o, "end")
      /\ UNCHANGED <<phase, req, copy>>

-----------------------------------------------------------------------------
(***************************************************************************)
(* Relocate and Delete: one statement each                                 *)
(***************************************************************************)
Relocated(r, z) == [project |-> r.project, name |-> r.name, labels |-> r.labels, zone |-> z,
                    size |-> r.size, storage |-> r.storage, source |-> r.source]

\* SetZoneIfDetached, after the zone was found to exist.
Relocate(o) ==
  LET x == req[o].res
      r == Relocated(row[x], req[o].zone)
  IN  /\ At(o, "Relocate", "start")
      /\ Live(x)
      /\ row'  = [row EXCEPT ![x] = r]
      /\ want' = [want EXCEPT ![x] = Relocated(@, req[o].zone)]
      /\ Emit(x, "UPDATED", r)
      /\ Goto(o, "end")
      /\ UNCHANGED <<phase, intent, req, copy>>

EmitNoUnregister(x, r) == UNCHANGED intent   \* mutant: the intent is forgotten
EmitUnregisterMistyped(x, r) == EmitIntent(x, "fga.deregister", r)   \* mutant: not in the CHECK

\* The unregister intent of a deletion (its labels, always empty, do not matter).
EmitUnregister(x, r) == EmitIntent(x, "fga.unregister", r)

DeleteRow(o) ==
  LET x == req[o].res
  IN  /\ At(o, "Delete", "start")
      /\ Live(x)
      /\ phase' = [phase EXCEPT ![x] = "GONE"]
      /\ Emit(x, "DELETED", row[x])
      /\ EmitUnregister(x, row[x])
      /\ Goto(o, "end")
      /\ UNCHANGED <<row, want, req, copy>>

-----------------------------------------------------------------------------
OpStep(o) ==
  \/ ReadSource(o) \/ Insert(o) \/ UpdateGet(o) \/ UpdateWrite(o)
  \/ Relocate(o) \/ DeleteRow(o) \/ Abort(o)

\* Every operation is finished or unused, and a client may never call again.
Quiescent == (\A o \in Ops : pc[o] \in {"idle", "end"}) /\ UNCHANGED vars

Next ==
  \/ \E o \in Ops, r \in Requests : RunOp(o, r)
  \/ \E o \in Ops : OpStep(o)
  \/ Quiescent

Spec == Init /\ [][Next]_vars

-----------------------------------------------------------------------------
(***************************************************************************)
(* Properties                                                              *)
(***************************************************************************)
\* A disk never gets smaller, however many resizes race: the size an Update has
\* read and checked may be stale when it writes.
DiskNeverShrinks ==
  [][\A d \in Disks : (Live(d) /\ phase'[d] = "LIVE") => row'[d].size >= row[d].size]_vars

\* A copy fits its source and belongs to the same project, whatever has been
\* resized or deleted since the source was read: a snapshot or image holds no
\* more than its disk has, a disk from a snapshot holds all of the snapshot.
SourcesFit ==
  \A x \in Resources : (Live(x) /\ row[x].source # NoSource) =>
    LET y == row[x].source
    IN  /\ row[y].project = row[x].project
        /\ x \notin Disks => row[x].storage <= Content(y)
        /\ (x \in Disks /\ y \in Snapshots) => row[x].size >= Content(y)

\* Updates of different columns and Relocate never undo one another: every column
\* holds what the last committed request that named it asked for.
NoLostUpdate == \A x \in Resources : Live(x) => row[x] = want[x]

\* The last event and the last FGA intent of a resource describe its row: none of
\* the five writers commits a change without announcing it.
PublishedRow ==
  \A x \in Resources :
    /\ Live(x) => /\ event[x].type \in {"CREATED", "UPDATED"}
                  /\ event[x].row = row[x]
                  /\ intent[x] = [type |-> "fga.register", labels |-> row[x].labels]
    /\ phase[x] = "GONE" => event[x].type = "DELETED" /\ intent[x].type = "fga.unregister"

-----------------------------------------------------------------------------
(***************************************************************************)
(* The inductive invariant behind the safety properties                    *)
(***************************************************************************)
\* An operation id is unused until runOp gives it a request.
FreshOps == \A o \in Ops : pc[o] = "idle" <=> req[o] = NoRequest

\* A worker between its read and its write.
Between ==
  \A o \in Ops : /\ pc[o] = "insert" => req[o].kind = "Create"
                 /\ pc[o] = "write" => req[o].kind = "Update"

\* The id of a Create is its own, and has no row before the Insert.
CreateOwnsId ==
  \A o \in Ops : (pc[o] # "idle" /\ req[o].kind = "Create") =>
    /\ pc[o] \in {"start", "insert"} => phase[req[o].res] = "NONE"
    /\ \A p \in Ops \ {o} :
         (pc[p] # "idle" /\ req[p].kind = "Create") => req[p].res # req[o].res

\* Row r of x fits its source, which is no longer waiting for its own row.
Fits(x, r) ==
  r.source # NoSource =>
    /\ phase[r.source] # "NONE"
    /\ row[r.source].project = r.project
    /\ x \notin Disks => r.storage <= Content(r.source)
    /\ (x \in Disks /\ r.source \in Snapshots) => r.size >= Content(r.source)

\* Deleted rows keep fitting, and so do the rows that Creates have in memory.
AllFit ==
  /\ \A x \in Resources : phase[x] # "NONE" => Fits(x, row[x])
  /\ \A o \in Ops : pc[o] = "insert" => Fits(req[o].res, copy[o])

\* At its write, the copy of an Update holds the requested values.
CopyIsMasked ==
  \A o \in Ops : pc[o] = "write" =>
    /\ "name" \in req[o].mask => copy[o].name = req[o].name
    /\ "labels" \in req[o].mask => copy[o].labels = req[o].labels
    /\ "size" \in req[o].mask => copy[o].size = req[o].size

IndInv ==
  /\ TypeOK
  /\ FreshOps
  /\ Between
  /\ CreateOwnsId
  /\ AllFit
  /\ CopyIsMasked
  /\ NoLostUpdate
  /\ PublishedRow
=============================================================================

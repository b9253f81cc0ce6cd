---------------------------- MODULE InstanceTable ----------------------------
(***************************************************************************)
(* What InstanceService promises about the instances, with no worker, no   *)
(* copy of a row, no peer, no crash and no reconciler in sight: a row      *)
(* changes in one step, by the whole effect of one request on the row as   *)
(* it then is, while that request is under way; the change is announced in *)
(* the same step; and every request is answered once.                      *)
(***************************************************************************)
CONSTANTS
  Instances, Ops, Requests, NoRequest,
  Rows          \* the rows of stored instances: status and columns

VARIABLES
  row,          \* row[i]: status and columns of i
  event,        \* event[i]: the last event about i
  intent,       \* intent[i]: the last register or unregister intent of i
  req,          \* req[o]: the request of operation o
  done          \* done[o]: "NONE", "RUNNING" or the answer

vars == <<row, event, intent, req, done>>

Live(r) == r.status \in {"RUNNING", "STOPPED", "DELETING"}

-----------------------------------------------------------------------------
\* r with columns changed, and r in another status.
WithCols(r, cols)     == [status |-> r.status, cols |-> cols]
WithStatus(r, status) == [status |-> status, cols |-> r.cols]

\* The row after request q on row r, if q has an effect on it.
Created(q, r) ==
  IF r.status = "NONE"
  THEN {[status |-> "RUNNING",
         cols |-> [labels |-> q.labels, resources_spec |-> q.resources_spec, metadata |-> {}]]}
  ELSE {}

Updated(q, r) ==
  IF Live(r) /\ q.mask # {} /\ ("resources_spec" \in q.mask => r.status = "STOPPED")
  THEN {WithCols(r, [labels         |-> IF "labels" \in q.mask THEN q.value ELSE r.cols.labels,
                     resources_spec |-> IF "resources_spec" \in q.mask
                                          THEN q.value ELSE r.cols.resources_spec,
                     metadata       |-> r.cols.metadata])}
  ELSE {}

MetadataUpdated(q, r) ==
  IF Live(r)
  THEN {WithCols(r, [labels         |-> r.cols.labels,
                     resources_spec |-> r.cols.resources_spec,
                     metadata       |-> (r.cols.metadata \ q.del) \cup q.upsert])}
  ELSE {}

\* The transitions of the lifecycle; a Delete marks first and removes later.
Transitions(kind) ==
  CASE kind = "Start"   -> {<<"STOPPED", "RUNNING">>}
    [] kind = "Stop"    -> {<<"RUNNING", "STOPPED">>}
    [] kind = "Restart" -> {<<"RUNNING", "RUNNING">>}
    [] kind = "Delete"  -> {<<"RUNNING", "DELETING">>, <<"STOPPED", "DELETING">>,
                            <<"DELETING", "GONE">>}
    [] OTHER            -> {}

Moved(q, r) == {WithStatus(r, t[2]) : t \in {u \in Transitions(q.kind) : u[1] = r.status}}

Outcomes(q, r) ==
  CASE q.kind = "Create"         -> Created(q, r)
    [] q.kind = "Update"         -> Updated(q, r)
    [] q.kind = "UpdateMetadata" -> MetadataUpdated(q, r)
    [] OTHER                     -> Moved(q, r)

\* What is announced when a row becomes r: its type depends on where it came from.
EventType(old, r) ==
  CASE old.status = "NONE" -> "CREATED" [] r.status = "GONE" -> "DELETED" [] OTHER -> "UPDATED"

EventOf(old, r) ==
  [type |-> EventType(old, r), status |-> r.status, cols |-> r.cols, noop |-> FALSE]

IntentOf(r) ==
  [type |-> IF r.status = "GONE" THEN "fga.unregister" ELSE "fga.register",
   labels |-> r.cols.labels]

-----------------------------------------------------------------------------
\* Initially every row that exists is announced.
Init ==
  /\ \A i \in Instances : row[i].status \in {"NONE", "RUNNING", "STOPPED"}
  /\ \A i \in Instances : Live(row[i]) =>
       /\ event[i] = [type |-> "CREATED", status |-> row[i].status, cols |-> row[i].cols,
                      noop |-> FALSE]
       /\ intent[i] = IntentOf(row[i])
  /\ req  = [o \in Ops |-> NoRequest]
  /\ done = [o \in Ops |-> "NONE"]

\* A Create gets an id of its own, any other request names one that was created.
Accept(o, q) ==
  /\ done[o] = "NONE"
  /\ req'  = [req EXCEPT ![o] = q]
  /\ (q.kind = "Create") <=> (row[q.inst].status = "NONE")
  /\ done' = [done EXCEPT ![o] = "RUNNING"]
  /\ UNCHANGED <<row, event, intent>>

\* The request takes effect.
Commit(o) ==
  LET i == req[o].inst
  IN  /\ done[o] = "RUNNING"
      /\ \E new \in Outcomes(req[o], row[i]) :
           /\ row'    = [row EXCEPT ![i] = new]
           /\ event'  = [event EXCEPT ![i] = EventOf(row[i], new)]
           /\ intent' = [intent EXCEPT ![i] = IntentOf(new)]
      /\ UNCHANGED <<req, done>>

\* An Update that names no column announces a row that may be out of date.
Republish(o) ==
  /\ done[o] = "RUNNING"
  /\ req[o].kind = "Update" /\ req[o].mask = {}
  /\ \E r \in Rows : event' = [event EXCEPT ![req[o].inst] =
       [type |-> "UPDATED", status |-> r.status, cols |-> r.cols, noop |-> TRUE]]
  /\ UNCHANGED <<row, intent, req, done>>

\* The request is answered; a Delete succeeds only when the row is gone.
Answer(o, result) ==
  /\ done[o] = "RUNNING"
  /\ (result = "OK" /\ req[o].kind = "Delete") => row[req[o].inst].status = "GONE"
  /\ done' = [done EXCEPT ![o] = result]
  /\ UNCHANGED <<row, event, intent, req>>

Next ==
  \E o \in Ops :
    \/ \E q \in Requests : Accept(o, q)
    \/ Commit(o) \/ Republish(o)
    \/ \E result \in {"OK", "ERROR"} : Answer(o, result)

Spec == Init /\ [][Next]_vars
=============================================================================

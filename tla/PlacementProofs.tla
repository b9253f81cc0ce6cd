-------------------------- MODULE PlacementProofs --------------------------
(***************************************************************************)
(* Proofs about Placement, for any number of workers, projects, zones and  *)
(* types, any lifetime of a cache entry and any deadline of a call.        *)
(***************************************************************************)
EXTENDS Placement, FiniteSetTheorems, TLAPS

-----------------------------------------------------------------------------
(***************************************************************************)
(* The inductive invariant                                                 *)
(***************************************************************************)
\* The steps of an operation.
StepsOf(kind) ==
  CASE kind = "CreateDisk"                        -> {"project", "zone", "type", "write"}
    [] kind = "CreateInstance"                    -> {"project", "zone", "write"}
    [] kind \in {"CreateImage", "CreateSnapshot"} -> {"project", "write"}
    [] kind = "Relocate"                          -> {"zone", "write"}

\* A worker is at a step of its operation; only two of them call a peer.
WorkerInv ==
  \A w \in Workers :
    /\ at[w] # "idle" => req[w] \in Requests /\ at[w] \in StepsOf(req[w].kind)
    /\ rpc[w] # "none" => at[w] \in {"project", "zone"}

\* The history of a check has the truth of now, and that of the peer's answer.
WasInv ==
  \A w \in Workers :
    /\ at[w] \in Refs => Present(req[w], at[w]) \in was[w]
    /\ rpc[w] = "found"   => TRUE \in was[w]
    /\ rpc[w] = "missing" => FALSE \in was[w]

\* An answer that p exists is out of date by the time of its call at most ...
GoneInv == \A p \in Projects : project[p] # "deleted" => gone[p] = 0

AnswerInv ==
  \A w \in Workers : (at[w] = "project" /\ rpc[w] = "found") =>
    LET p == req[w].project IN project[p] = "live" \/ (project[p] = "deleted" /\ gone[p] <= wait[w])

\* ... and the entry that rests on it by that and the part of its TTL that is over.
CacheInv ==
  \A p \in DOMAIN exists : exists[p] > 0 =>
    project[p] = "live" \/ (project[p] = "deleted" /\ gone[p] + exists[p] <= Horizon)

IInv == TypeOK /\ WorkerInv /\ WasInv /\ GoneInv /\ AnswerInv /\ CacheInv
-----------------------------------------------------------------------------
(***************************************************************************)
(* The steps of an operation                                               *)
(***************************************************************************)
\* What follows each check of each kind of operation.
LEMMA AfterTable ==
  /\ After("CreateDisk", "project") = "zone" /\ After("CreateDisk", "zone") = "type"
  /\ After("CreateDisk", "type") = "write"
  /\ After("CreateInstance", "project") = "zone" /\ After("CreateInstance", "zone") = "write"
  /\ After("CreateImage", "project") = "write" /\ After("CreateSnapshot", "project") = "write"
  /\ After("Relocate", "zone") = "write"
  BY DEF After, Checks

\* A check is followed by another step of the operation, and never by a check of the project.
LEMMA NextStep ==
  ASSUME NEW kind \in Kinds, NEW r \in StepsOf(kind) \cap Refs
  PROVE  /\ After(kind, r) \in StepsOf(kind) /\ After(kind, r) \in {"zone", "type", "write"}
         /\ After(kind, r) # r
  BY AfterTable DEF Kinds, StepsOf, Refs

\* An operation begins with a check.
LEMMA FirstStep ==
  ASSUME NEW kind \in Kinds
  PROVE  Checks(kind)[1] \in StepsOf(kind) /\ Checks(kind)[1] \in {"project", "zone"}
  BY DEF Kinds, StepsOf, Checks

\* A request names what is checked.
LEMMA RequestFields ==
  ASSUME NEW q \in Requests
  PROVE  q.kind \in Kinds /\ q.project \in Projects /\ q.zone \in Zones /\ q.type \in Types
  BY PlacementAssumption DEF Request
-----------------------------------------------------------------------------
(***************************************************************************)
(* The truth about a reference                                             *)
(***************************************************************************)
\* What Present says, now and after a step.
LEMMA PresentIs ==
  ASSUME NEW q
  PROVE  /\ Present(q, "project") <=> project[q.project] = "live"
         /\ Present(q, "zone")    <=> q.zone \in zones
         /\ Present(q, "type")    <=> q.type \in catalog
  BY DEF Present

LEMMA PresentIsNext ==
  ASSUME NEW q
  PROVE  /\ Present(q, "project")' <=> project'[q.project] = "live"
         /\ Present(q, "zone")'    <=> q.zone \in zones'
         /\ Present(q, "type")'    <=> q.type \in catalog'
  <1>1. Present(q, "project")' <=> project'[q.project] = "live"
    BY DEF Present
  <1>2. Present(q, "zone")' <=> q.zone \in zones'
    BY DEF Present
  <1>3. Present(q, "type")' <=> q.type \in catalog'
    BY DEF Present
  <1> QED
    BY <1>1, <1>2, <1>3

LEMMA PresentBoolean ==
  ASSUME NEW q, NEW r \in Refs
  PROVE  Present(q, r) \in BOOLEAN /\ Present(q, r)' \in BOOLEAN
  <1>1. CASE r = "project"
    BY <1>1 DEF Present
  <1>2. CASE r = "zone"
    BY <1>2 DEF Present
  <1>3. CASE r = "type"
    BY <1>3 DEF Present
  <1> QED
    BY <1>1, <1>2, <1>3 DEF Refs

\* A step that leaves the world alone leaves the truth alone.
LEMMA PresentKept ==
  ASSUME UNCHANGED <<envVars, catalog>>, NEW q, NEW r \in Refs
  PROVE  Present(q, r)' = Present(q, r)
  BY DEF Present, Refs, envVars

LEMMA TruthTyped ==
  ASSUME NEW q, NEW r
  PROVE  Truth(q, r) \in SUBSET BOOLEAN /\ Truth(q, r)' \in SUBSET BOOLEAN
  BY PresentBoolean DEF Truth

-----------------------------------------------------------------------------
(***************************************************************************)
(* Types                                                                   *)
(***************************************************************************)
\* Ending an operation and passing a check keep the types of what a worker has.
OpTypes ==
  /\ req \in [Workers -> Requests \cup {None}]
  /\ at \in [Workers -> Refs \cup {"idle", "write"}]
  /\ rpc \in [Workers -> {"none", "sent", "found", "missing"}]
  /\ wait \in [Workers -> 0 .. CallTimeout]
  /\ attempt \in [Workers -> 0 .. MaxAttempts - 1]
  /\ result \in [Workers -> Codes \cup {None}]
  /\ was \in [Workers -> SUBSET BOOLEAN]

LEMMA EndTyped ==
  ASSUME TypeOK, NEW w \in Workers, NEW code \in Codes, End(w, code)
  PROVE  OpTypes'
  BY PlacementAssumption DEF End, TypeOK, OpTypes

LEMMA PassTyped ==
  ASSUME TypeOK, WorkerInv, NEW w \in Workers, at[w] \in Refs, Pass(w)
  PROVE  OpTypes' /\ at'[w] \in {"zone", "type", "write"} /\ at'[w] \in StepsOf(req[w].kind)
         /\ at'[w] # at[w] /\ req' = req
  <1>1. /\ req[w] \in Requests /\ at[w] \in StepsOf(req[w].kind)
    BY DEF WorkerInv, Refs
  <1>2. /\ After(req[w].kind, at[w]) \in StepsOf(req[w].kind)
        /\ After(req[w].kind, at[w]) \in {"zone", "type", "write"}
        /\ After(req[w].kind, at[w]) # at[w]
    BY <1>1, RequestFields, NextStep
  <1>3. Truth(req[w], After(req[w].kind, at[w])) \in SUBSET BOOLEAN
    BY TruthTyped
  <1> QED
    BY <1>1, <1>2, <1>3, PlacementAssumption DEF Pass, TypeOK, OpTypes, Refs

\* Storing an answer yields entries.
LEMMA PutExistsTyped ==
  ASSUME TypeOK, NEW p \in Projects, PutExists(p)
  PROVE  /\ DOMAIN exists' \subseteq Projects /\ p \in DOMAIN exists' /\ exists'[p] = TTL
         /\ \A q \in DOMAIN exists' : q = p \/ (q \in DOMAIN exists /\ exists'[q] = exists[q])
         /\ \A q \in DOMAIN exists' : exists'[q] \in 0 .. TTL
  <1>1. PICK victim : exists' = [q \in (DOMAIN exists \ victim) \cup {p} |->
                                   IF q = p THEN TTL ELSE exists[q]]
    BY DEF PutExists
  <1> QED
    BY <1>1, PlacementAssumption DEF TypeOK

-----------------------------------------------------------------------------
(***************************************************************************)
(* Steps that leave the workers where they are                             *)
(***************************************************************************)
\* The invariant holds initially.
LEMMA InitIInv == Init => IInv
  <1> SUFFICES ASSUME Init PROVE IInv
    OBVIOUS
  <1>1. TypeOK
    BY PlacementAssumption DEF Init, TypeOK, Horizon
  <1>2. WorkerInv /\ WasInv /\ AnswerInv
    BY DEF Init, WorkerInv, WasInv, AnswerInv, Refs
  <1>3. GoneInv /\ CacheInv
    BY DEF Init, GoneInv, CacheInv
  <1> QED
    BY <1>1, <1>2, <1>3 DEF IInv

\* Projects, zones or types change, and the checks under way see it.
WorldChanges ==
  /\ UNCHANGED <<gone, exists, opVars>>
  /\ Observe
  /\ project' \in [Projects -> {"unborn", "live", "deleted"}]
  /\ zones' \subseteq Zones /\ catalog' \subseteq Types
  /\ \A p \in Projects : \/ project'[p] = project[p]
                         \/ project[p] = "unborn" /\ project'[p] = "live"
                         \/ project[p] = "live" /\ project'[p] = "deleted"

LEMMA WorldKeepsIInv ==
  ASSUME IInv, WorldChanges
  PROVE  IInv'
  <1> USE DEF IInv, WorldChanges
  <1>1. /\ req' = req /\ at' = at /\ rpc' = rpc /\ wait' = wait /\ attempt' = attempt
        /\ result' = result /\ exists' = exists /\ gone' = gone
    BY DEF opVars, rpcVars
  <1>2. ASSUME NEW w \in Workers, at[w] \in Refs
        PROVE  Truth(req[w], at[w])' = {Present(req[w], at[w])'} /\ Present(req[w], at[w])' \in BOOLEAN
    <2>1. PICK q, r : q = req'[w] /\ r = at'[w]
      OBVIOUS
    <2>2. r \in Refs
      BY <1>1, <1>2, <2>1
    <2>3. Present(q, r)' \in BOOLEAN
      BY <2>2, PresentBoolean
    <2> QED
      BY <2>1, <2>2, <2>3 DEF Truth
  <1>3. ASSUME NEW w \in Workers
        PROVE  /\ was'[w] \in SUBSET BOOLEAN /\ was[w] \subseteq was'[w]
               /\ at[w] \in Refs => Present(req[w], at[w])' \in was'[w]
    BY <1>2 DEF Observe, TypeOK
  <1>4. TypeOK'
    <2>1. was' \in [Workers -> SUBSET BOOLEAN]
      BY <1>3 DEF Observe
    <2> QED
      BY <1>1, <2>1 DEF TypeOK
  <1>5. WorkerInv'
    BY <1>1 DEF WorkerInv
  <1>6. WasInv'
    BY <1>1, <1>3 DEF WasInv
  <1>7. GoneInv'
    BY <1>1 DEF GoneInv, TypeOK
  <1>8. AnswerInv'
    <2> SUFFICES ASSUME NEW w \in Workers, at[w] = "project", rpc[w] = "found"
                 PROVE  \/ project'[req[w].project] = "live"
                        \/ project'[req[w].project] = "deleted" /\ gone[req[w].project] <= wait[w]
      BY <1>1 DEF AnswerInv
    <2>1. req[w] \in Requests /\ req[w].project \in Projects
      BY RequestFields DEF WorkerInv
    <2> QED
      BY <2>1 DEF AnswerInv, GoneInv, TypeOK
  <1>9. CacheInv'
    <2> SUFFICES ASSUME NEW p \in DOMAIN exists, exists[p] > 0
                 PROVE  \/ project'[p] = "live"
                        \/ project'[p] = "deleted" /\ gone[p] + exists[p] <= Horizon
      BY <1>1 DEF CacheInv
    <2>1. p \in Projects /\ 0 + exists[p] <= Horizon
      BY PlacementAssumption DEF TypeOK, Horizon
    <2>2. CASE project'[p] = project[p]
      BY <2>2 DEF CacheInv
    <2>3. CASE project[p] = "live" /\ project'[p] = "deleted"
      BY <2>1, <2>3 DEF GoneInv
    <2> QED
      BY <2>1, <2>2, <2>3 DEF CacheInv
  <1> QED
    BY <1>4, <1>5, <1>6, <1>7, <1>8, <1>9

\* Time passes.
LEMMA TickKeepsIInv ==
  ASSUME IInv, Tick
  PROVE  IInv'
  <1> USE DEF IInv, Tick
  <1>1. ASSUME NEW p \in DOMAIN exists
        PROVE  /\ p \in Projects /\ exists[p] \in Nat
               /\ exists'[p] = IF exists[p] > 0 THEN exists[p] - 1 ELSE 0
    BY <1>1, PlacementAssumption DEF TypeOK
  <1>2. ASSUME NEW p \in Projects
        PROVE  /\ gone[p] \in Nat /\ gone[p] <= Horizon /\ Horizon \in Nat
               /\ gone'[p] = IF project[p] = "deleted" /\ gone[p] < Horizon THEN gone[p] + 1 ELSE gone[p]
    BY <1>2, PlacementAssumption DEF TypeOK, Horizon
  <1>3. TypeOK'
    <2>1. gone' \in [Projects -> 0 .. Horizon]
      BY <1>2
    <2>2. wait' \in [Workers -> 0 .. CallTimeout]
      BY PlacementAssumption DEF TypeOK
    <2>3. /\ DOMAIN exists' = DOMAIN exists
          /\ \A p \in DOMAIN exists : exists'[p] \in 0 .. TTL
      BY <1>1, PlacementAssumption DEF TypeOK
    <2> QED
      BY <2>1, <2>2, <2>3 DEF TypeOK, envVars
  <1>4. WorkerInv'
    BY DEF WorkerInv
  <1>5. WasInv'
    <2>1. ASSUME NEW w \in Workers, at[w] \in Refs
          PROVE  Present(req[w], at[w])' \in was[w]
      <3>1. PICK q, r : q = req[w] /\ r = at[w]
        OBVIOUS
      <3>2. Present(q, r)' = Present(q, r)
        BY <2>1, <3>1 DEF Present
      <3> QED
        BY <2>1, <3>1, <3>2 DEF WasInv
    <2> QED
      BY <2>1 DEF WasInv
  <1>6. GoneInv'
    BY <1>2 DEF GoneInv
  <1>7. AnswerInv'
    <2> SUFFICES ASSUME NEW w \in Workers, at[w] = "project", rpc[w] = "found"
                 PROVE  \/ project[req[w].project] = "live"
                        \/ project[req[w].project] = "deleted" /\ gone'[req[w].project] <= wait'[w]
      BY DEF AnswerInv
    <2>1. req[w] \in Requests /\ req[w].project \in Projects
      BY RequestFields DEF WorkerInv
    <2>2. wait'[w] = wait[w] + 1 /\ wait[w] \in Nat
      BY PlacementAssumption DEF TypeOK
    <2> QED
      BY <2>1, <2>2, <1>2 DEF AnswerInv
  <1>8. CacheInv'
    <2> SUFFICES ASSUME NEW p \in DOMAIN exists, exists'[p] > 0
                 PROVE  \/ project[p] = "live"
                        \/ project[p] = "deleted" /\ gone'[p] + exists'[p] <= Horizon
      BY DEF CacheInv
    <2> QED
      BY <1>1, <1>2 DEF CacheInv
  <1> QED
    BY <1>3, <1>4, <1>5, <1>6, <1>7, <1>8

-----------------------------------------------------------------------------
(***************************************************************************)
(* Steps of a worker                                                       *)
(***************************************************************************)
\* What the worker's steps leave alone.
WorldStays == UNCHANGED <<envVars, catalog>>

\* Its own operation changes; what other workers have, and their checks, stay.
OthersStay(w) ==
  \A v \in Workers \ {w} : /\ req'[v] = req[v] /\ at'[v] = at[v] /\ rpc'[v] = rpc[v]
                           /\ wait'[v] = wait[v] /\ was'[v] = was[v]

\* It is enough to look at the worker that takes the step.
LEMMA WorkerKeepsIInv ==
  ASSUME IInv, WorldStays, NEW w \in Workers, OthersStay(w), OpTypes',
         DOMAIN exists' \subseteq Projects, \A p \in DOMAIN exists' : exists'[p] \in 0 .. TTL,
         at'[w] # "idle" => req'[w] \in Requests /\ at'[w] \in StepsOf(req'[w].kind),
         rpc'[w] # "none" => at'[w] \in {"project", "zone"},
         at'[w] \in Refs => Present(req'[w], at'[w]) \in was'[w],
         rpc'[w] = "found" => TRUE \in was'[w],
         rpc'[w] = "missing" => FALSE \in was'[w],
         (at'[w] = "project" /\ rpc'[w] = "found") =>
           \/ project[req'[w].project] = "live"
           \/ project[req'[w].project] = "deleted" /\ gone[req'[w].project] <= wait'[w],
         CacheInv'
  PROVE  IInv'
  <1> USE DEF IInv, WorldStays, envVars
  <1>1. TypeOK'
    BY DEF TypeOK, OpTypes
  <1>2. WorkerInv'
    BY DEF WorkerInv, OthersStay
  <1>3. WasInv'
    <2>1. ASSUME NEW v \in Workers, at'[v] \in Refs
          PROVE  Present(req[v], at[v])' \in was'[v]
      <3>1. PICK q, r : q = req'[v] /\ r = at'[v]
        OBVIOUS
      <3>2. Present(q, r)' = Present(q, r)
        BY <2>1, <3>1, PresentKept
      <3>3. Present(q, r) \in was'[v]
        BY <2>1, <3>1 DEF WasInv, OthersStay
      <3> QED
        BY <3>1, <3>2, <3>3
    <2> QED
      BY <2>1 DEF WasInv, OthersStay
  <1>4. GoneInv'
    BY DEF GoneInv
  <1>5. AnswerInv'
    BY DEF AnswerInv, OthersStay
  <1> QED
    BY <1>1, <1>2, <1>3, <1>4, <1>5

\* An operation ends.
LEMMA EndKeepsIInv ==
  ASSUME IInv, WorldStays, UNCHANGED exists, NEW w \in Workers, NEW code \in Codes, End(w, code)
  PROVE  IInv'
  <1> USE DEF IInv
  <1>1. OpTypes'
    BY EndTyped
  <1>2. /\ at'[w] = "idle" /\ rpc'[w] = "none" /\ OthersStay(w)
    BY DEF End, TypeOK, OthersStay
  <1>3. CacheInv'
    BY DEF CacheInv, WorldStays, envVars
  <1> QED
    BY <1>1, <1>2, <1>3, WorkerKeepsIInv DEF TypeOK, Refs

\* A check is passed, and the check after it begins with its own history.
LEMMA PassKeepsIInv ==
  ASSUME IInv, WorldStays, NEW w \in Workers, at[w] \in Refs, Pass(w),
         DOMAIN exists' \subseteq Projects, \A p \in DOMAIN exists' : exists'[p] \in 0 .. TTL,
         CacheInv'
  PROVE  IInv'
  <1> USE DEF IInv
  <1>1. /\ OpTypes' /\ at'[w] \in {"zone", "type", "write"} /\ at'[w] \in StepsOf(req[w].kind)
        /\ req' = req
    BY PassTyped
  <1>2. req[w] \in Requests
    BY DEF WorkerInv, Refs
  <1>3. /\ rpc'[w] = "none" /\ OthersStay(w) /\ at'[w] = After(req[w].kind, at[w])
        /\ was'[w] = Truth(req[w], After(req[w].kind, at[w]))
    BY DEF Pass, TypeOK, OthersStay
  <1>4. at'[w] \in Refs => Present(req'[w], at'[w]) \in was'[w]
    BY <1>1, <1>3 DEF Truth
  <1> QED
    BY <1>1, <1>2, <1>3, <1>4, WorkerKeepsIInv

LEMMA BeginKeepsIInv ==
  ASSUME IInv, NEW w \in Workers, NEW q \in Requests, Begin(w, q)
  PROVE  IInv'
  <1> USE DEF IInv, Begin
  <1>1. /\ q.kind \in Kinds /\ Checks(q.kind)[1] \in StepsOf(q.kind)
        /\ Checks(q.kind)[1] \in {"project", "zone"}
    BY RequestFields, FirstStep
  <1>2. Truth(q, Checks(q.kind)[1]) \in SUBSET BOOLEAN
    BY TruthTyped
  <1>3. OpTypes'
    BY <1>1, <1>2 DEF OpTypes, TypeOK, Refs, rpcVars
  <1>4. /\ rpc'[w] = "none" /\ OthersStay(w) /\ at'[w] = Checks(q.kind)[1] /\ req'[w] = q
        /\ was'[w] = Truth(q, Checks(q.kind)[1])
    BY DEF TypeOK, OthersStay, WorkerInv, rpcVars
  <1>5. Present(req'[w], at'[w]) \in was'[w]
    BY <1>1, <1>4 DEF Truth, Refs
  <1>6. CacheInv' /\ WorldStays
    BY DEF CacheInv, WorldStays, envVars
  <1> QED
    BY <1>1, <1>3, <1>4, <1>5, <1>6, WorkerKeepsIInv DEF TypeOK

LEMMA AskKeepsIInv ==
  ASSUME IInv, NEW w \in Workers, Ask(w)
  PROVE  IInv'
  <1> USE DEF IInv, Ask
  <1>1. OpTypes' /\ CacheInv' /\ WorldStays
    BY DEF OpTypes, TypeOK, CacheInv, WorldStays, envVars
  <1>2. rpc'[w] = "sent" /\ OthersStay(w)
    BY DEF TypeOK, OthersStay
  <1>3. req[w] \in Requests /\ at[w] \in StepsOf(req[w].kind) /\ Present(req[w], at[w]) \in was[w]
    BY DEF WorkerInv, WasInv, Refs
  <1> QED
    BY <1>1, <1>2, <1>3, WorkerKeepsIInv DEF TypeOK

\* The answer is the truth of this moment.
LEMMA PeerAnswersKeepsIInv ==
  ASSUME IInv, NEW w \in Workers, PeerAnswers(w)
  PROVE  IInv'
  <1> USE DEF IInv, PeerAnswers
  <1>1. /\ at[w] \in {"project", "zone"} /\ req[w] \in Requests /\ at[w] \in StepsOf(req[w].kind)
        /\ Present(req[w], at[w]) \in was[w]
    BY DEF WorkerInv, WasInv, Refs
  <1>2. Present(req[w], at[w]) \in BOOLEAN
    <2>1. PICK q, r : q = req[w] /\ r = at[w]
      OBVIOUS
    <2> QED
      BY <1>1, <2>1, PresentBoolean DEF Refs
  <1>3. OpTypes' /\ CacheInv' /\ WorldStays
    BY DEF OpTypes, TypeOK, CacheInv, WorldStays, envVars
  <1>4. /\ rpc'[w] = IF Present(req[w], at[w]) THEN "found" ELSE "missing"
        /\ OthersStay(w)
    BY DEF TypeOK, OthersStay
  <1>5. /\ rpc'[w] = "found" => TRUE \in was'[w]
        /\ rpc'[w] = "missing" => FALSE \in was'[w]
    <2>1. PICK b \in BOOLEAN : b = Present(req[w], at[w])
      BY <1>2
    <2>2. b \in was'[w] /\ (b => rpc'[w] = "found") /\ (~b => rpc'[w] = "missing")
      BY <1>1, <1>4, <2>1
    <2>3. CASE b
      <3>1. b = TRUE /\ rpc'[w] # "missing"
        BY <2>2, <2>3
      <3>2. TRUE \in was'[w]
        BY <2>2, <3>1, Zenon
      <3> QED
        BY <3>1, <3>2
    <2>4. CASE ~b
      <3>1. b = FALSE /\ rpc'[w] # "found"
        BY <2>1, <2>2, <2>4
      <3>2. FALSE \in was'[w]
        BY <2>2, <3>1, Zenon
      <3> QED
        BY <3>1, <3>2
    <2> QED
      BY <2>3, <2>4
  <1>6. (at'[w] = "project" /\ rpc'[w] = "found") => project[req'[w].project] = "live"
    <2> SUFFICES ASSUME at[w] = "project", rpc'[w] = "found"
                 PROVE  project[req[w].project] = "live"
      OBVIOUS
    <2>1. PICK q : q = req[w]
      OBVIOUS
    <2>2. Present(q, "project")
      BY <1>4, <2>1
    <2> QED
      BY <2>1, <2>2, PresentIs
  <1> QED
    BY <1>1, <1>3, <1>4, <1>5, <1>6, WorkerKeepsIInv DEF TypeOK

\* The deadline of the next attempt is its own: until it ends, no answer is on its way.
LEMMA PeerFailsKeepsIInv ==
  ASSUME IInv, NEW w \in Workers, PeerFails(w)
  PROVE  IInv'
  <1> USE DEF IInv, PeerFails
  <1>1. CASE End(w, "Unavailable")
    BY <1>1, EndKeepsIInv DEF WorldStays, Codes
  <1>2. CASE ~End(w, "Unavailable")
    <2>1. /\ rpc[w] = "sent" /\ attempt[w] + 1 < MaxAttempts
          /\ wait' = [wait EXCEPT ![w] = 0] /\ attempt' = [attempt EXCEPT ![w] = @ + 1]
          /\ UNCHANGED <<req, at, rpc, result, was>> /\ UNCHANGED exists
      BY <1>2
    <2>2. OpTypes'
      BY <2>1, PlacementAssumption DEF OpTypes, TypeOK
    <2>3. CacheInv' /\ WorldStays /\ OthersStay(w)
      BY <2>1 DEF CacheInv, WorldStays, envVars, OthersStay, TypeOK
    <2>4. /\ at[w] \in {"project", "zone"} /\ req[w] \in Requests /\ at[w] \in StepsOf(req[w].kind)
          /\ Present(req[w], at[w]) \in was[w]
      BY <2>1 DEF WorkerInv, WasInv, Refs
    <2> QED
      BY <2>1, <2>2, <2>3, <2>4, WorkerKeepsIInv DEF TypeOK
  <1> QED
    BY <1>1, <1>2

\* The entry rests on an answer that is at most the time of one call old.
LEMMA ReceiveFoundKeepsIInv ==
  ASSUME IInv, NEW w \in Workers, ReceiveFound(w)
  PROVE  IInv'
  <1> USE DEF IInv, ReceiveFound
  <1>1. /\ at[w] \in {"project", "zone"} /\ req[w] \in Requests /\ WorldStays
    BY DEF WorkerInv, WorldStays
  <1>2. req[w].project \in Projects
    BY <1>1, RequestFields
  <1>3. CASE at[w] = "project"
    <2>1. PutExists(req[w].project)
      BY <1>3
    <2>2. PICK p \in Projects : p = req[w].project
      BY <1>2
    <2>3. PutExists(p)
      BY <2>1, <2>2
    <2>4. /\ DOMAIN exists' \subseteq Projects /\ p \in DOMAIN exists' /\ exists'[p] = TTL
          /\ \A q \in DOMAIN exists' : q = p \/ (q \in DOMAIN exists /\ exists'[q] = exists[q])
          /\ \A q \in DOMAIN exists' : exists'[q] \in 0 .. TTL
      BY <2>3, PutExistsTyped
    <2>5. project[p] = "live" \/ (project[p] = "deleted" /\ gone[p] + TTL <= Horizon)
      BY <1>3, <2>2, PlacementAssumption DEF AnswerInv, TypeOK, Horizon
    <2>6. CacheInv'
      BY <1>1, <2>4, <2>5 DEF CacheInv, WorldStays, envVars
    <2> QED
      BY <1>1, <2>4, <2>6, PassKeepsIInv DEF Refs
  <1>4. CASE at[w] # "project"
    BY <1>1, <1>4, PassKeepsIInv DEF Refs, CacheInv, TypeOK, WorldStays, envVars
  <1> QED
    BY <1>3, <1>4

LEMMA NextIInv == IInv /\ [Next]_vars => IInv'
  <1> SUFFICES ASSUME IInv, [Next]_vars PROVE IInv'
    OBVIOUS
  <1> USE DEF IInv
  <1>1. ASSUME NEW p \in Projects, CreateProject(p) \/ DeleteProject(p) PROVE IInv'
    <2>1. WorldChanges
      BY <1>1 DEF WorldChanges, CreateProject, DeleteProject, TypeOK
    <2> QED
      BY <2>1, WorldKeepsIInv
  <1>2. ASSUME NEW z \in Zones, ChangeZone(z) PROVE IInv'
    <2>1. WorldChanges
      BY <1>2 DEF WorldChanges, ChangeZone, TypeOK
    <2> QED
      BY <2>1, WorldKeepsIInv
  <1>3. ASSUME NEW t \in Types, CreateType(t) \/ DeleteType(t) PROVE IInv'
    <2>1. WorldChanges
      BY <1>3 DEF WorldChanges, CreateType, DeleteType, TypeOK, envVars
    <2> QED
      BY <2>1, WorldKeepsIInv
  <1>4. CASE UNCHANGED vars
    <2>1. TypeOK' /\ WorkerInv' /\ GoneInv' /\ AnswerInv' /\ CacheInv'
      BY <1>4 DEF TypeOK, WorkerInv, GoneInv, AnswerInv, CacheInv, vars, envVars, opVars, rpcVars
    <2>2. WasInv'
      <3>1. ASSUME NEW w \in Workers, at[w] \in Refs
            PROVE  Present(req[w], at[w])' \in was[w]
        <4>1. PICK q, r : q = req[w] /\ r = at[w]
          OBVIOUS
        <4>2. Present(q, r)' = Present(q, r)
          BY <1>4, <3>1, <4>1, PresentKept DEF vars
        <4> QED
          BY <1>4, <3>1, <4>1, <4>2 DEF WasInv, vars, opVars
      <3> QED
        BY <1>4, <3>1 DEF WasInv, vars, opVars, rpcVars
    <2> QED
      BY <2>1, <2>2
  <1>5. CASE Tick
    BY <1>5, TickKeepsIInv
  <1>6. ASSUME NEW w \in Workers, CacheHit(w) \/ GetType(w) PROVE IInv'
    <2>1. Pass(w) /\ at[w] \in Refs /\ UNCHANGED exists /\ WorldStays
      BY <1>6 DEF CacheHit, GetType, Refs, WorldStays
    <2> QED
      BY <2>1, PassKeepsIInv DEF TypeOK, CacheInv, WorldStays, envVars
  <1>7. ASSUME NEW w \in Workers, ReceiveMissing(w) \/ Deadline(w) \/ GetTypeFails(w) \/ Write(w) PROVE IInv'
    <2>1. PICK code \in Codes : End(w, code)
      BY <1>7 DEF ReceiveMissing, Deadline, GetTypeFails, Write, Codes, MapRefErr
    <2>2. WorldStays /\ UNCHANGED exists
      BY <1>7 DEF ReceiveMissing, Deadline, GetTypeFails, Write, WorldStays
    <2> QED
      BY <2>1, <2>2, EndKeepsIInv
  <1> QED
    BY <1>1, <1>2, <1>3, <1>4, <1>5, <1>6, <1>7, BeginKeepsIInv, AskKeepsIInv,
       PeerAnswersKeepsIInv, PeerFailsKeepsIInv, ReceiveFoundKeepsIInv
    DEF Next, EnvStep, WorkerStep

LEMMA Invariance == Spec => []IInv
  BY InitIInv, NextIInv, PTL DEF Spec

-----------------------------------------------------------------------------
(***************************************************************************)
(* Theorems                                                                *)
(***************************************************************************)
\* Workers, the cache and the calls to peers (CreateDisk and the other operations,
\* ProjectClient, ZoneClient): every variable has its type.
THEOREM TypeCorrect == Spec => []TypeOK
  BY Invariance, PTL DEF IInv

\* A worker moves by a step of its own.
LEMMA WhoMoves ==
  ASSUME IInv, Next, NEW w \in Workers, at'[w] # at[w]
  PROVE  WorkerStep(w) \/ PeerFails(w) \/ \E q \in Requests : Begin(w, q)
  <1>1. ~UNCHANGED at
    OBVIOUS
  <1>2. PICK v \in Workers : WorkerStep(v) \/ PeerAnswers(v) \/ PeerFails(v) \/ \E q \in Requests : Begin(v, q)
    BY <1>1 DEF Next, EnvStep, Tick, CreateProject, DeleteProject, ChangeZone, CreateType, DeleteType, opVars
  <1>3. v = w /\ ~PeerAnswers(v)
    BY <1>2 DEF IInv, TypeOK, WorkerStep, CacheHit, Ask, PeerAnswers, PeerFails, ReceiveFound, ReceiveMissing,
       Deadline, GetType, GetTypeFails, Write, Begin, Pass, End
  <1> QED
    BY <1>2, <1>3

\* A check is passed by an answer, by an entry of the cache or by a type that is there.
LEMMA PassingACheck ==
  ASSUME IInv, Next, NEW w \in Workers, at[w] \in Refs, at'[w] \notin {at[w], "idle"}
  PROVE  \/ rpc[w] = "found"
         \/ at[w] = "project" /\ Cached(req[w].project)
         \/ at[w] = "type" /\ req[w].type \in catalog
  <1>1. ~Ask(w) /\ (\A code \in Codes : ~End(w, code)) /\ at[w] # "write" /\ at[w] # "idle"
    BY DEF IInv, TypeOK, Ask, End, Refs
  <1> QED
    BY <1>1, WhoMoves DEF WorkerStep, CacheHit, ReceiveFound, ReceiveMissing, Deadline, GetType, GetTypeFails,
       Write, Begin, PeerFails, Codes, MapRefErr

\* What is said to be absent was missed by the peer, or is not in the catalog.
LEMMA FailingACheck ==
  ASSUME IInv, Next, NEW w \in Workers, at[w] \in Refs, at'[w] = "idle",
         result'[w] \in {"NotFound", "InvalidArgument"}
  PROVE  rpc[w] = "missing" \/ (at[w] = "type" /\ req[w].type \notin catalog)
  <1>1. at'[w] # at[w] /\ at[w] # "write" /\ at[w] # "idle"
    BY DEF Refs
  <1>2. WorkerStep(w) \/ PeerFails(w)
    BY <1>1, WhoMoves DEF Begin
  <1>3. ~Pass(w)
    BY PassTyped DEF IInv
  <1>4. ~Ask(w) /\ \A code \in Codes : End(w, code) => code \in {"NotFound", "InvalidArgument"}
    BY <1>1 DEF IInv, TypeOK, Ask, End
  <1> QED
    BY <1>1, <1>2, <1>3, <1>4 DEF WorkerStep, CacheHit, ReceiveFound, ReceiveMissing, Deadline, GetType,
       GetTypeFails, Write, PeerFails, Codes, MapRefErr

LEMMA StepStaleProjectBounded ==
  ASSUME IInv, Next, NEW w \in Workers, at[w] = "project", at'[w] \notin {"project", "idle"}
  PROVE  \/ project[req[w].project] = "live"
         \/ project[req[w].project] = "deleted" /\ gone[req[w].project] < Horizon
  <1>1. rpc[w] = "found" \/ Cached(req[w].project)
    BY PassingACheck DEF Refs
  <1>2. PICK p \in Projects : p = req[w].project
    BY RequestFields DEF IInv, WorkerInv
  <1>3. CASE rpc[w] = "found"
    BY <1>2, <1>3, PlacementAssumption DEF IInv, AnswerInv, TypeOK, Horizon
  <1>4. CASE Cached(p)
    BY <1>4, <1>2, PlacementAssumption DEF IInv, CacheInv, TypeOK, Cached, Horizon
  <1> QED
    BY <1>1, <1>2, <1>3, <1>4

\* ProjectClient.Exists, with concurrent checks of one project, a cache between them and
\* answers that are late: a worker lets a deleted project pass for less than
\* projectExistsTTL and the time of one call.
THEOREM StalenessIsBounded == Spec => StaleProjectBounded
  <1>1. IInv /\ [Next]_vars =>
          [\A w \in Workers : (at[w] = "project" /\ at'[w] \notin {"project", "idle"}) =>
             LET p == req[w].project IN project[p] = "live" \/ (project[p] = "deleted" /\ gone[p] < Horizon)]_vars
    BY StepStaleProjectBounded
  <1> QED
    BY <1>1, Invariance, PTL DEF Spec, StaleProjectBounded

LEMMA StepVerdictsAreTrue ==
  ASSUME IInv, Next, NEW w \in Workers
  PROVE  /\ (at[w] \in {"zone", "type"} /\ at'[w] \notin {at[w], "idle"}) => TRUE \in was[w]
         /\ (at[w] \in Refs /\ at'[w] = "idle" /\ result'[w] \in {"NotFound", "InvalidArgument"})
              => FALSE \in was[w]
  <1>1. PICK q : q = req[w]
    OBVIOUS
  <1>2. ASSUME at[w] = "type"
        PROVE  (q.type \in catalog => TRUE \in was[w]) /\ (q.type \notin catalog => FALSE \in was[w])
    <2>1. PICK b \in BOOLEAN : b = Present(q, "type")
      BY PresentBoolean DEF Refs
    <2>2. b \in was[w] /\ (b <=> q.type \in catalog)
      BY <1>1, <1>2, <2>1, PresentIs DEF IInv, WasInv, Refs
    <2>3. CASE b
      <3>1. b = TRUE /\ q.type \in catalog
        BY <2>2, <2>3
      <3>2. TRUE \in was[w]
        BY <2>2, <3>1, Zenon
      <3> QED
        BY <3>1, <3>2
    <2>4. CASE ~b
      <3>1. b = FALSE /\ q.type \notin catalog
        BY <2>1, <2>2, <2>4
      <3>2. FALSE \in was[w]
        BY <2>2, <3>1, Zenon
      <3> QED
        BY <3>1, <3>2
    <2> QED
      BY <2>3, <2>4
  <1>3. (rpc[w] = "found" => TRUE \in was[w]) /\ (rpc[w] = "missing" => FALSE \in was[w])
    BY DEF IInv, WasInv
  <1>4. (at[w] \in {"zone", "type"} /\ at'[w] \notin {at[w], "idle"}) => TRUE \in was[w]
    BY <1>1, <1>2, <1>3, PassingACheck DEF Refs
  <1>5. (at[w] \in Refs /\ at'[w] = "idle" /\ result'[w] \in {"NotFound", "InvalidArgument"})
          => FALSE \in was[w]
    BY <1>1, <1>2, <1>3, FailingACheck
  <1> QED
    BY <1>4, <1>5

\* checkProject, checkZone and the read of the disk type, with peers that fail and are
\* asked again: what they say of a reference was true at some moment of the check.
THEOREM VerdictsWereTrue == Spec => VerdictsAreTrue
  <1>1. IInv /\ [Next]_vars =>
          [\A w \in Workers :
             /\ (at[w] \in {"zone", "type"} /\ at'[w] \notin {at[w], "idle"}) => TRUE \in was[w]
             /\ (at[w] \in Refs /\ at'[w] = "idle" /\ result'[w] \in {"NotFound", "InvalidArgument"})
                  => FALSE \in was[w]]_vars
    BY StepVerdictsAreTrue
  <1> QED
    BY <1>1, Invariance, PTL DEF Spec, VerdictsAreTrue

-----------------------------------------------------------------------------
\* putExists makes room before it adds a project.
LEMMA PutExistsSize ==
  ASSUME TypeOK, ExistsCacheBounded, NEW p \in Projects, PutExists(p)
  PROVE  ExistsCacheBounded'
  <1> DEFINE held == DOMAIN exists
  <1>1. /\ IsFiniteSet(held) /\ Cardinality(held) \in Nat /\ Cardinality(held) <= MaxEntries
        /\ MaxEntries \in Nat \ {0}
    BY PlacementAssumption, FS_Subset, FS_CardinalityType DEF TypeOK, ExistsCacheBounded
  <1>2. CASE p \in held \/ Cardinality(held) < MaxEntries
    <2>1. \E victim \in {{}} : exists' = [q \in (held \ victim) \cup {p} |-> IF q = p THEN TTL ELSE exists[q]]
      BY <1>1, <1>2 DEF PutExists
    <2>2. DOMAIN exists' = held \cup {p}
      BY <2>1
    <2>3. Cardinality(held \cup {p}) = IF p \in held THEN Cardinality(held) ELSE Cardinality(held) + 1
      BY <1>1, FS_AddElement
    <2> QED
      BY <1>1, <1>2, <2>2, <2>3 DEF ExistsCacheBounded
  <1>3. CASE p \notin held /\ Cardinality(held) >= MaxEntries
    <2>1. PICK v \in held : exists' = [q \in (held \ {v}) \cup {p} |-> IF q = p THEN TTL ELSE exists[q]]
      BY <1>3 DEF PutExists
    <2>2. DOMAIN exists' = (held \ {v}) \cup {p}
      BY <2>1
    <2>3. IsFiniteSet(held \ {v}) /\ Cardinality(held \ {v}) = Cardinality(held) - 1
      BY <1>1, FS_RemoveElement
    <2>4. Cardinality((held \ {v}) \cup {p}) = Cardinality(held \ {v}) + 1
      BY <1>3, <2>3, FS_AddElement
    <2> QED
      BY <1>1, <2>2, <2>3, <2>4 DEF ExistsCacheBounded
  <1> QED
    BY <1>1, <1>2, <1>3

LEMMA InitExistsCacheBounded == Init => ExistsCacheBounded
  BY PlacementAssumption, FS_EmptySet DEF Init, ExistsCacheBounded

LEMMA NextExistsCacheBounded == ExistsCacheBounded /\ IInv /\ [Next]_vars => ExistsCacheBounded'
  <1> SUFFICES ASSUME ExistsCacheBounded, IInv, [Next]_vars PROVE ExistsCacheBounded'
    OBVIOUS
  <1>1. ASSUME NEW w \in Workers, ReceiveFound(w) PROVE ExistsCacheBounded'
    <2>1. CASE at[w] = "project"
      <3>1. PICK p \in Projects : p = req[w].project
        BY <2>1, RequestFields DEF IInv, WorkerInv
      <3>2. PutExists(p)
        BY <1>1, <2>1, <3>1 DEF ReceiveFound
      <3> QED
        BY <3>2, PutExistsSize DEF IInv
    <2>2. CASE at[w] # "project"
      BY <1>1, <2>2 DEF ReceiveFound, ExistsCacheBounded
    <2> QED
      BY <2>1, <2>2
  <1>2. CASE Tick
    BY <1>2 DEF Tick, ExistsCacheBounded
  <1>3. CASE UNCHANGED exists
    BY <1>3 DEF ExistsCacheBounded
  <1> QED
    BY <1>1, <1>2, <1>3 DEF Next, vars, EnvStep, CreateProject, DeleteProject, ChangeZone, CreateType, DeleteType,
       WorkerStep, CacheHit, Ask, PeerAnswers, PeerFails, ReceiveMissing, Deadline, GetType, GetTypeFails,
       Write, Begin

\* However checks interleave, putExists keeps the cache within projectExistsCacheMaxEntries.
THEOREM CacheStaysBounded == Spec => []ExistsCacheBounded
  BY InitExistsCacheBounded, NextExistsCacheBounded, Invariance, PTL DEF Spec
=============================================================================

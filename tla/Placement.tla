------------------------------ MODULE Placement ------------------------------
(***************************************************************************)
(* What a worker asks before it writes a row: does the project exist       *)
(* (kacho-iam, behind the positive cache of ProjectClient), does the zone  *)
(* (kacho-geo), is the disk type in the catalog (own database)?  Projects, *)
(* zones and types come and go meanwhile, peers answer late or never, and  *)
(* no foreign key backs any of the answers.                                *)
(*                                                                         *)
(* Time is counted in ticks.  A cache entry holds what is left of its TTL, *)
(* a call the time since the attempt began, a deleted project the time     *)
(* since its deletion.                                                     *)
(***************************************************************************)
EXTENDS Integers, FiniteSets, Sequences

CONSTANTS
  Projects, Zones, Types,
  Changing,     \* the projects that come and go; the others exist throughout
  Workers,      \* workers of operations; bounds how many run at a time
  Requests,     \* the operations that the workers carry out
  TTL,          \* projectExistsTTL
  CallTimeout,  \* defaultProjectCallTimeout, defaultZoneCallTimeout
  MaxEntries,   \* projectExistsCacheMaxEntries
  MaxAttempts,  \* attempts of retry.OnUnavailable
  None

Kinds   == {"CreateDisk", "CreateInstance", "CreateImage", "CreateSnapshot", "Relocate"}
Request == [kind : Kinds, project : Projects, zone : Zones, type : Types]

ASSUME PlacementAssumption ==
  /\ TTL \in Nat \ {0} /\ CallTimeout \in Nat
  /\ MaxEntries \in Nat \ {0} /\ MaxAttempts \in Nat \ {0}
  /\ Requests \subseteq Request
  /\ IsFiniteSet(Projects)
  /\ None \notin Requests

VARIABLES
  project,   \* project[p]: in kacho-iam, "unborn", "live" or "deleted"
  gone,      \* gone[p]: ticks since p was deleted, up to Horizon
  zones,     \* the zones of kacho-geo
  catalog,   \* the ids in disk_types
  exists,    \* ProjectClient.exists: projects -> what is left of their TTL
  req,       \* req[w]: the operation of worker w
  at,        \* at[w]: the check that w is at
  rpc,       \* rpc[w]: the call of w to a peer
  wait,      \* wait[w]: ticks since that attempt began
  attempt,   \* attempt[w]: attempts after the first
  result,    \* result[w]: how the operation ended
  was        \* history: whether what w checks existed, at any time since the check began

envVars == <<project, gone, zones>>
rpcVars == <<rpc, wait, attempt>>
opVars  == <<req, at, rpcVars, result>>
vars    == <<envVars, catalog, exists, opVars, was>>

-----------------------------------------------------------------------------
\* The checks that precede the write, in their order.
Checks(kind) ==
  CASE kind = "CreateDisk"                        -> <<"project", "zone", "type", "write">>
    [] kind = "CreateInstance"                    -> <<"project", "zone", "write">>
    [] kind \in {"CreateImage", "CreateSnapshot"} -> <<"project", "write">>
    [] kind = "Relocate"                          -> <<"zone", "write">>

Refs == {"project", "zone", "type"}

\* The step after check r.
After(kind, r) == LET s == Checks(kind) IN s[(CHOOSE i \in DOMAIN s : s[i] = r) + 1]

\* How an operation may end.
Codes == {"OK", "NotFound", "InvalidArgument", "Unavailable", "Internal"}

\* An answer that is older is of no use to anybody: no cache entry rests on it.
Horizon == TTL + CallTimeout

TypeOK ==
  /\ project \in [Projects -> {"unborn", "live", "deleted"}]
  /\ gone \in [Projects -> 0 .. Horizon]
  /\ zones \subseteq Zones /\ catalog \subseteq Types
  /\ DOMAIN exists \subseteq Projects /\ \A p \in DOMAIN exists : exists[p] \in 0 .. TTL
  /\ req \in [Workers -> Requests \cup {None}]
  /\ at \in [Workers -> Refs \cup {"idle", "write"}]
  /\ rpc \in [Workers -> {"none", "sent", "found", "missing"}]
  /\ wait \in [Workers -> 0 .. CallTimeout]
  /\ attempt \in [Workers -> 0 .. MaxAttempts - 1]
  /\ result \in [Workers -> Codes \cup {None}]
  /\ was \in [Workers -> SUBSET BOOLEAN]

Init ==
  /\ project \in [Projects -> {"unborn", "live"}] /\ \A p \in Projects \ Changing : project[p] = "live"
  /\ gone    = [p \in Projects |-> 0]
  /\ zones   = Zones
  /\ catalog = Types
  /\ exists  = << >>
  /\ req     = [w \in Workers |-> None]
  /\ at      = [w \in Workers |-> "idle"]
  /\ rpc     = [w \in Workers |-> "none"]
  /\ wait    = [w \in Workers |-> 0]
  /\ attempt = [w \in Workers |-> 0]
  /\ result  = [w \in Workers |-> None]
  /\ was     = [w \in Workers |-> {}]

-----------------------------------------------------------------------------
\* Whether what request q names under r exists.
Present(q, r) ==
  CASE r = "project" -> project[q.project] = "live"
    [] r = "zone"    -> q.zone \in zones
    [] r = "type"    -> q.type \in catalog

\* The truth about the reference that check r of request q is about.
Truth(q, r) == IF r \in Refs THEN {Present(q, r)} ELSE {}

\* A change of the world is seen by the checks under way.
Observe ==
  was' = [w \in Workers |-> IF at[w] \in Refs THEN was[w] \cup Truth(req[w], at[w])' ELSE was[w]]

(***************************************************************************)
(* Projects, zones and the catalog                                         *)
(***************************************************************************)
CreateProject(p) ==
  /\ project[p] = "unborn"
  /\ project' = [project EXCEPT ![p] = "live"]
  /\ UNCHANGED <<gone, zones, catalog, exists, opVars>>
  /\ Observe

DeleteProject(p) ==
  /\ project[p] = "live" /\ p \in Changing
  /\ project' = [project EXCEPT ![p] = "deleted"]
  /\ UNCHANGED <<gone, zones, catalog, exists, opVars>>
  /\ Observe

ChangeZone(z) ==
  /\ zones' = IF z \in zones THEN zones \ {z} ELSE zones \cup {z}
  /\ UNCHANGED <<project, gone, catalog, exists, opVars>>
  /\ Observe

\* InternalDiskTypeService.Create: the INSERT of an id that is taken fails.
CreateType(t) ==
  /\ t \notin catalog
  /\ catalog' = catalog \cup {t}
  /\ UNCHANGED <<envVars, exists, opVars>>
  /\ Observe

DeleteType(t) ==
  /\ t \in catalog
  /\ catalog' = catalog \ {t}
  /\ UNCHANGED <<envVars, exists, opVars>>
  /\ Observe

-----------------------------------------------------------------------------
(***************************************************************************)
(* The worker of an operation                                              *)
(***************************************************************************)
End(w, code) ==
  /\ at'      = [at EXCEPT ![w] = "idle"]
  /\ rpc'     = [rpc EXCEPT ![w] = "none"]
  /\ wait'    = [wait EXCEPT ![w] = 0]
  /\ attempt' = [attempt EXCEPT ![w] = 0]
  /\ result'  = [result EXCEPT ![w] = code]
  /\ req'     = [req EXCEPT ![w] = None]
  /\ was'     = [was EXCEPT ![w] = {}]

\* The check that w is at is passed.
Pass(w) ==
  /\ at'      = [at EXCEPT ![w] = After(req[w].kind, at[w])]
  /\ rpc'     = [rpc EXCEPT ![w] = "none"]
  /\ wait'    = [wait EXCEPT ![w] = 0]
  /\ attempt' = [attempt EXCEPT ![w] = 0]
  /\ was'     = [was EXCEPT ![w] = Truth(req[w], After(req[w].kind, at[w]))]
  /\ UNCHANGED <<req, result>>

\* runOp starts the worker.
Begin(w, q) ==
  /\ at[w] = "idle"
  /\ req' = [req EXCEPT ![w] = q]
  /\ at' = [at EXCEPT ![w] = Checks(q.kind)[1]]
  /\ result' = [result EXCEPT ![w] = None]
  /\ was' = [was EXCEPT ![w] = Truth(q, Checks(q.kind)[1])]
  /\ UNCHANGED <<envVars, catalog, exists, rpcVars>>

Cached(p) == p \in DOMAIN exists /\ exists[p] > 0

CacheHitRenews(w) ==   \* mutant: a hit prolongs the entry
  /\ at[w] = "project" /\ rpc[w] = "none" /\ attempt[w] = 0
  /\ Cached(req[w].project)
  /\ exists' = [exists EXCEPT ![req[w].project] = TTL]
  /\ Pass(w)
  /\ UNCHANGED <<envVars, catalog>>

\* ProjectClient.Exists with an entry that has not expired.
CacheHit(w) ==
  /\ at[w] = "project" /\ rpc[w] = "none" /\ attempt[w] = 0
  /\ Cached(req[w].project)
  /\ Pass(w)
  /\ UNCHANGED <<envVars, catalog, exists>>

\* The first attempt of a call to a peer.
Ask(w) ==
  /\ at[w] \in {"project", "zone"} /\ rpc[w] = "none"
  /\ at[w] = "project" => ~Cached(req[w].project)
  /\ rpc' = [rpc EXCEPT ![w] = "sent"]
  /\ UNCHANGED <<envVars, catalog, exists, req, at, wait, attempt, result, was>>

\* The peer looks the id up; the answer is on its way.
PeerAnswers(w) ==
  /\ rpc[w] = "sent"
  /\ rpc' = [rpc EXCEPT ![w] = IF Present(req[w], at[w]) THEN "found" ELSE "missing"]
  /\ UNCHANGED <<envVars, catalog, exists, req, at, wait, attempt, result, was>>

\* It fails: retry.OnUnavailable tries again, with a deadline of its own, or gives
\* up, on the last attempt or because the error is not Unavailable.
PeerFails(w) ==
  /\ rpc[w] = "sent"
  /\ \/ /\ attempt[w] + 1 < MaxAttempts
        /\ wait' = [wait EXCEPT ![w] = 0]
        /\ attempt' = [attempt EXCEPT ![w] = @ + 1]
        /\ UNCHANGED <<req, at, rpc, result, was>>
     \/ End(w, "Unavailable")
  /\ UNCHANGED <<envVars, catalog, exists>>

PutExistsUnbounded(p) ==   \* mutant: no entry is dropped
  exists' = [q \in DOMAIN exists \cup {p} |-> IF q = p THEN TTL ELSE exists[q]]

\* putExists drops an arbitrary entry for one that is new to a full cache.
PutExists(p) ==
  \E victim \in IF p \notin DOMAIN exists /\ Cardinality(DOMAIN exists) >= MaxEntries
                THEN {{q} : q \in DOMAIN exists} ELSE {{}} :
    exists' = [q \in (DOMAIN exists \ victim) \cup {p} |-> IF q = p THEN TTL ELSE exists[q]]

\* The peer knows the id.
ReceiveFound(w) ==
  /\ rpc[w] = "found"
  /\ IF at[w] = "project" THEN PutExists(req[w].project) ELSE UNCHANGED exists
  /\ Pass(w)
  /\ UNCHANGED <<envVars, catalog>>

\* It does not: checkProject answers NotFound, mapZoneRefErr InvalidArgument.
ReceiveMissing(w) ==
  /\ rpc[w] = "missing"
  /\ End(w, IF at[w] = "project" THEN "NotFound" ELSE "InvalidArgument")
  /\ UNCHANGED <<envVars, catalog, exists>>

DeadlineNever(w) ==   \* mutant: the calls have no deadline of their own
  /\ FALSE
  /\ UNCHANGED vars

\* The deadline of the attempt: DeadlineExceeded is not tried again.
Deadline(w) ==
  /\ rpc[w] # "none" /\ wait[w] = CallTimeout
  /\ End(w, "Unavailable")
  /\ UNCHANGED <<envVars, catalog, exists>>

\* DiskTypeRepo.Get finds the type ...
GetType(w) ==
  /\ at[w] = "type" /\ req[w].type \in catalog
  /\ Pass(w)
  /\ UNCHANGED <<envVars, catalog, exists>>

MapRefErrBlind(found) == "NotFound"   \* mutant: every error of the read is NotFound

\* mapRefErr: the code for a read that did not find the row, and for one that failed.
MapRefErr(found) == IF found = "no row" THEN "NotFound" ELSE "Internal"

\* ... or does not, or the database fails.
GetTypeFails(w) ==
  /\ at[w] = "type"
  /\ \/ req[w].type \notin catalog /\ End(w, MapRefErr("no row"))
     \/ End(w, MapRefErr("error"))
  /\ UNCHANGED <<envVars, catalog, exists>>

\* Insert, or SetZoneIfDetached, with the reads of a source before it (BlockStorage,
\* InstanceService have the details); "Internal" stands for every way they fail.
Write(w) ==
  /\ at[w] = "write"
  /\ End(w, "OK") \/ End(w, "Internal")
  /\ UNCHANGED <<envVars, catalog, exists>>

-----------------------------------------------------------------------------
TickOverdue ==   \* mutant: an attempt may outlive its deadline
  /\ exists' = [p \in DOMAIN exists |-> IF exists[p] > 0 THEN exists[p] - 1 ELSE 0]
  /\ wait' = [w \in Workers |-> IF rpc[w] # "none" THEN wait[w] + 1 ELSE 0]
  /\ UNCHANGED <<envVars, catalog, req, at, rpc, attempt, result, was>>

\* Time passes; no attempt outlives its deadline.
Tick ==
  /\ \A w \in Workers : rpc[w] # "none" => wait[w] < CallTimeout
  /\ exists' = [p \in DOMAIN exists |-> IF exists[p] > 0 THEN exists[p] - 1 ELSE 0]
  /\ wait' = [w \in Workers |-> IF rpc[w] # "none" THEN wait[w] + 1 ELSE 0]
  /\ gone' = [p \in Projects |-> IF project[p] = "deleted" /\ gone[p] < Horizon
                                 THEN gone[p] + 1 ELSE gone[p]]
  /\ UNCHANGED <<project, zones, catalog, req, at, rpc, attempt, result, was>>

EnvStep ==
  \/ \E p \in Projects : CreateProject(p) \/ DeleteProject(p)
  \/ \E z \in Zones : ChangeZone(z)
  \/ \E t \in Types : CreateType(t) \/ DeleteType(t)

\* What is up to the process, and to its database.
WorkerStep(w) ==
  \/ CacheHit(w) \/ Ask(w) \/ ReceiveFound(w) \/ ReceiveMissing(w)
  \/ Deadline(w) \/ GetType(w) \/ GetTypeFails(w) \/ Write(w)

Next ==
  \/ EnvStep \/ Tick
  \/ \E w \in Workers : WorkerStep(w) \/ PeerAnswers(w) \/ PeerFails(w)
                         \/ \E q \in Requests : Begin(w, q)

Spec == Init /\ [][Next]_vars

\* Workers are scheduled and time passes.  No peer has to answer.
FairSpec == Spec /\ WF_vars(Tick) /\ \A w \in Workers : WF_vars(WorkerStep(w))

-----------------------------------------------------------------------------
(***************************************************************************)
(* Properties                                                              *)
(***************************************************************************)
\* The project check lets a project pass only if it exists, or was deleted less
\* than projectExistsTTL and the time of one call ago: concurrent checks of the
\* same project cannot keep a deleted one alive between them.
StaleProjectBounded ==
  [][\A w \in Workers : (at[w] = "project" /\ at'[w] \notin {"project", "idle"}) =>
       LET p == req[w].project IN project[p] = "live" \/ (project[p] = "deleted" /\ gone[p] < Horizon)]_vars

\* Every verdict was true at some moment of its check: a zone or a type that was
\* let pass did exist, and a reference that was said not to exist did not.  An
\* error of a peer or of the database is never taken for an absence.
VerdictsAreTrue ==
  [][\A w \in Workers :
       /\ (at[w] \in {"zone", "type"} /\ at'[w] \notin {at[w], "idle"}) => TRUE \in was[w]
       /\ (at[w] \in Refs /\ at'[w] = "idle" /\ result'[w] \in {"NotFound", "InvalidArgument"})
            => FALSE \in was[w]]_vars

\* The cache of projects stays within its bound, whatever the order of the answers.
ExistsCacheBounded == Cardinality(DOMAIN exists) <= MaxEntries

\* Every operation ends, even if no peer ever answers.
OperationEnds == \A w \in Workers : []<>(at[w] = "idle")
=============================================================================

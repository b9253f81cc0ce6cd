------------------------------- MODULE Server -------------------------------
(***************************************************************************)
(* The life of a kacho-compute process: runServe's boot sequence, the      *)
(* supervised tasks it starts, the graceful shutdown that any of them can  *)
(* trigger, and the next process.                                          *)
(*                                                                         *)
(* Tasks run concurrently: the background loops, the diagnostic listener,  *)
(* the two gRPC servers and the shutdown waiter.  The first one to call    *)
(* triggerShutdown runs it (sync.Once), the others wait until it is over.  *)
(* RPCs start workers, which outlive the RPC; what a process leaves        *)
(* unfinished is in the database for the reconciler and the drainer of the *)
(* next one.                                                               *)
(***************************************************************************)
EXTENDS Naturals, FiniteSets

CONSTANTS
  Configs,         \* the configurations
  DrainerLoops,    \* loops that run with the drainer: drainer, reconciler, collector
  Calls,           \* mutating RPCs: bounds their number
  Streams,         \* Watch streams of the internal server
  WorkerTimeout,   \* ticks after which the worker of an operation is cancelled
  OrphanGrace,     \* reconcileOrphanGrace, in ticks
  MaxFaults        \* bounds signals, crashes and failures of a behaviour

\* KACHO_COMPUTE_FGA_REGISTER_DRAINER_ENABLED, _REQUIRE_IAM and a _METRICS_ADDR.
Config == [drainer : BOOLEAN, requireIAM : BOOLEAN, diag : BOOLEAN]

\* A worker is over before the reconciler takes its operation for an orphan.  The
\* names of the loops are theirs.
ASSUME ServerAssumption ==
  /\ Configs \subseteq Config /\ "fga-register-drainer" \in DrainerLoops
  /\ DrainerLoops \cap {"internal", "public", "diag", "waiter", "free", "done"} = {}
  /\ WorkerTimeout \in Nat /\ OrphanGrace \in Nat /\ WorkerTimeout < OrphanGrace
  /\ MaxFaults \in Nat

Loops   == {"lro-reconciler"} \cup DrainerLoops
Servers == {"internal", "public"}
Tasks   == Loops \cup Servers \cup {"diag", "waiter"}

VARIABLES
  cfg,       \* the configuration
  phase,     \* how far runServe has come
  gate,      \* bootGate: SetConnected(true) was called
  lro,       \* operations.Ready(): the dispatcher of the workers runs
  ctxDone,   \* ctx is cancelled, by a signal or by triggerShutdown
  shutting,  \* healthAgg.shutting
  closed,    \* shutdownCh is closed
  once,      \* shutdownOnce: "free", the task inside, or "done"
  stage,     \* what the task inside shutdownOnce does next
  task,      \* task[t]: where the goroutine of t is
  srv,       \* srv[s]: state of gRPC server s
  diag,      \* the diagnostic listener
  timedOut,  \* the 30 s of operations.Wait were over before the workers
  stream,    \* stream[w]: is Watch stream w open?
  call,      \* call[c]: the RPC
  row,       \* row[c]: the operation row of c (database)
  worker,    \* worker[c]: the worker of c
  age,       \* age[c]: age of the operation row
  intent,    \* intent[c]: the register intent of what c created (database)
  early,     \* history: operations the reconciler settled under a running worker
  faults     \* faults so far

bootVars == <<cfg, gate, lro>>
onceVars == <<shutting, closed, once, stage>>
diagVars == <<diag, timedOut>>
procVars == <<bootVars, ctxDone, onceVars, task, srv, diagVars>>
workVars == <<stream, call, row, worker, age, intent, early>>
vars     == <<phase, procVars, workVars, faults>>

-----------------------------------------------------------------------------
BootPhases == {"config", "worker", "recovery", "drainer", "wiring", "listen"}
Dead       == {"failed", "exited", "crashed"}

\* RPCs are told apart by the boot gate, which is about Creates, and by the resolver of
\* the reconciler, which does not know the two that attach and detach a NIC.
Kinds == {"Create", "NIC", "other"}

Call == [kind : {"none"} \cup Kinds, at : {"none", "handler", "over"}]

TypeOK ==
  /\ cfg \in Configs
  /\ phase \in BootPhases \cup {"serving"} \cup Dead
  /\ gate \in BOOLEAN /\ lro \in BOOLEAN /\ ctxDone \in BOOLEAN
  /\ shutting \in BOOLEAN /\ closed \in BOOLEAN /\ timedOut \in BOOLEAN
  /\ once \in {"free", "done"} \cup Tasks
  /\ stage \in {"none", "flag", "channel", "cancel", "internal", "public"}
  /\ task \in [Tasks -> {"off", "start", "run", "trigger", "inside", "drain", "diag", "ended"}]
  /\ srv \in [Servers -> {"off", "serving", "draining", "stopped"}]
  /\ diag \in {"off", "up", "closed"}
  /\ stream \in [Streams -> BOOLEAN]
  /\ call \in [Calls -> Call]
  /\ row \in [Calls -> {"none", "open", "done"}]
  /\ worker \in [Calls -> {"none", "running", "over", "lost"}]
  /\ age \in [Calls -> 0 .. OrphanGrace]
  /\ intent \in [Calls -> {"none", "pending", "sent"}]
  /\ early \subseteq Calls
  /\ faults \in 0 .. MaxFaults

\* A fresh process.
Fresh ==
  /\ phase = "config"
  /\ gate = FALSE /\ lro = FALSE /\ ctxDone = FALSE /\ shutting = FALSE /\ closed = FALSE
  /\ once = "free" /\ stage = "none" /\ diag = "off" /\ timedOut = FALSE
  /\ task = [t \in Tasks |-> "off"]
  /\ srv = [s \in Servers |-> "off"]

Init ==
  /\ cfg \in Configs
  /\ Fresh
  /\ stream = [w \in Streams |-> FALSE]
  /\ call   = [c \in Calls |-> [kind |-> "none", at |-> "none"]]
  /\ row    = [c \in Calls |-> "none"]
  /\ worker = [c \in Calls |-> "none"]
  /\ age    = [c \in Calls |-> 0]
  /\ intent = [c \in Calls |-> "none"]
  /\ early  = {}
  /\ faults = 0

Fault == faults < MaxFaults /\ faults' = faults + 1

-----------------------------------------------------------------------------
(***************************************************************************)
(* Boot                                                                    *)
(***************************************************************************)
BootTo(from, to) == phase = from /\ phase' = to

\* validateAuthMode, NewPool, dialPeers.
Configure ==
  /\ BootTo("config", "worker")
  /\ UNCHANGED <<procVars, workVars, faults>>

StartLROWorker ==
  /\ BootTo("worker", "recovery")
  /\ lro' = TRUE
  /\ UNCHANGED <<cfg, gate, ctxDone, onceVars, task, srv, diagVars, workVars, faults>>

ClaimableAtOnce(c) == row[c] = "open"   \* mutant: no grace window

\* The rows that the reconciler's claim selects.
Claimable(c) == row[c] = "open" /\ age[c] >= OrphanGrace

\* Resolve skips an operation whose metadata its switch does not name.
Resolvable(c) == call[c].kind # "NIC"

\* Of the others, each gets the outcome that its resource shows, unless reading the
\* resource fails: then it waits for a later sweep.
Settle(S) ==
  /\ row'   = [c \in Calls |-> IF c \in S THEN "done" ELSE row[c]]
  /\ early' = early \cup {c \in S : worker[c] = "running"}

\* RecoverAll, which settles what it can; an error is logged and the boot goes on.
StartLRORecovery ==
  /\ BootTo("recovery", "drainer")
  /\ \E S \in SUBSET {c \in Calls : Claimable(c) /\ Resolvable(c)} : Settle(S)
  /\ UNCHANGED <<procVars, stream, call, worker, age, intent, faults>>

\* startRegisterDrainer, SetConnected, startBackstop, if the drainer is enabled.
StartRegisterDrainer ==
  /\ BootTo("drainer", "wiring")
  /\ gate' = cfg.drainer
  /\ UNCHANGED <<cfg, lro, ctxDone, onceVars, task, srv, diagVars, workVars, faults>>

\* Interceptors, authzWiringDecision, credentials, servers, diagnostic listener.
Wire ==
  /\ BootTo("wiring", "listen")
  /\ diag' = IF cfg.diag THEN "up" ELSE "off"
  /\ UNCHANGED <<bootVars, ctxDone, onceVars, task, srv, timedOut, workVars, faults>>

StartedByDrainer(t) ==   \* mutant: every loop is started in the drainer's branch
  /\ t \in Loops => cfg.drainer
  /\ t = "diag" => cfg.diag

\* The background slice, and the other goroutines of the errgroup.
Started(t) ==
  /\ t \in DrainerLoops => cfg.drainer
  /\ t = "diag" => cfg.diag

Listen ==
  /\ BootTo("listen", "serving")
  /\ task' = [t \in Tasks |-> IF ~Started(t) THEN "off"
                              ELSE IF t \in Servers THEN "start" ELSE "run"]
  /\ UNCHANGED <<bootVars, ctxDone, onceVars, srv, diagVars, workVars, faults>>

\* Every step but the recovery may return an error from runServe.
BootFails ==
  /\ phase \in BootPhases \ {"recovery"}
  /\ phase' = "failed"
  /\ Fault
  /\ UNCHANGED <<procVars, workVars>>

-----------------------------------------------------------------------------
(***************************************************************************)
(* The tasks                                                               *)
(***************************************************************************)
Move(t, to) == task' = [task EXCEPT ![t] = to]

\* SIGTERM or SIGINT cancels ctx, at any time after NotifyContext.
Signal ==
  /\ phase \notin Dead
  /\ ~ctxDone
  /\ ctxDone' = TRUE
  /\ Fault
  /\ UNCHANGED <<phase, bootVars, onceVars, task, srv, diagVars, workVars>>

\* superviseBackground: a loop that returns after the cancellation has ended ...
LoopEnds(t) ==
  /\ t \in Loops /\ task[t] = "run"
  /\ ctxDone
  /\ Move(t, "ended")
  /\ UNCHANGED <<phase, bootVars, ctxDone, onceVars, srv, diagVars, workVars, faults>>

LoopDiesUnnoticed(t) ==   \* mutant: fire-and-forget goroutines
  /\ t \in Loops /\ task[t] = "run"
  /\ ~ctxDone
  /\ Move(t, "ended")
  /\ Fault
  /\ UNCHANGED <<phase, bootVars, ctxDone, onceVars, srv, diagVars, workVars>>

\* ... and one that returns before it stops the process.
LoopDies(t) ==
  /\ t \in Loops /\ task[t] = "run"
  /\ ~ctxDone
  /\ Move(t, "trigger")
  /\ Fault
  /\ UNCHANGED <<phase, bootVars, ctxDone, onceVars, srv, diagVars, workVars>>

\* Serve returns at once if the server was stopped before.
Serve(s) ==
  /\ task[s] = "start"
  /\ IF srv[s] = "off"
       THEN Move(s, "run") /\ srv' = [srv EXCEPT ![s] = "serving"]
       ELSE Move(s, "ended") /\ UNCHANGED srv
  /\ UNCHANGED <<phase, bootVars, ctxDone, onceVars, diagVars, workVars, faults>>

\* A listener fails: connections that are open keep their server busy.
ServeFails(t) ==
  /\ t \in Servers \cup {"diag"} /\ task[t] = "run"
  /\ t = "diag" => diag = "up"
  /\ Move(t, "trigger")
  /\ diag' = IF t = "diag" THEN "closed" ELSE diag
  /\ Fault
  /\ UNCHANGED <<phase, bootVars, ctxDone, onceVars, srv, timedOut, workVars>>

\* Serve returns without an error after GracefulStop or Shutdown.
ServeEnds(t) ==
  /\ task[t] = "run"
  /\ \/ t \in Servers /\ srv[t] = "stopped"
     \/ t = "diag" /\ diag = "closed"
  /\ Move(t, "ended")
  /\ UNCHANGED <<phase, bootVars, ctxDone, onceVars, srv, diagVars, workVars, faults>>

\* The shutdown waiter's select.
WaiterWakes ==
  /\ task["waiter"] = "run"
  /\ ctxDone \/ closed
  /\ Move("waiter", "trigger")
  /\ UNCHANGED <<phase, bootVars, ctxDone, onceVars, srv, diagVars, workVars, faults>>

-----------------------------------------------------------------------------
(***************************************************************************)
(* triggerShutdown                                                         *)
(***************************************************************************)
\* What a task does after triggerShutdown: the waiter drains, the others return.
AfterTrigger(t) == IF t = "waiter" THEN "drain" ELSE "ended"

EnterOnceUnflagged(t) ==   \* mutant: the servers stop while /readyz still answers 200
  /\ task[t] = "trigger" /\ once = "free"
  /\ once' = t
  /\ stage' = "channel"
  /\ Move(t, "inside")
  /\ UNCHANGED <<phase, bootVars, ctxDone, shutting, closed, srv, diagVars, workVars, faults>>

EnterOnce(t) ==
  /\ task[t] = "trigger" /\ once = "free"
  /\ once' = t
  /\ stage' = "flag"
  /\ Move(t, "inside")
  /\ UNCHANGED <<phase, bootVars, ctxDone, shutting, closed, srv, diagVars, workVars, faults>>

PassOnceRunning(t) ==   \* mutant: a flag instead of sync.Once, nobody waits
  /\ task[t] = "trigger" /\ once # "free"
  /\ Move(t, AfterTrigger(t))
  /\ UNCHANGED <<phase, bootVars, ctxDone, onceVars, srv, diagVars, workVars, faults>>

\* Do of a sync.Once returns when the first call of it has returned.
PassOnce(t) ==
  /\ task[t] = "trigger" /\ once = "done"
  /\ Move(t, AfterTrigger(t))
  /\ UNCHANGED <<phase, bootVars, ctxDone, onceVars, srv, diagVars, workVars, faults>>

\* healthAgg.SetShuttingDown()
SetShuttingDown ==
  /\ stage = "flag" /\ stage' = "channel"
  /\ shutting' = TRUE
  /\ UNCHANGED <<phase, bootVars, ctxDone, closed, once, task, srv, diagVars, workVars, faults>>

\* close(shutdownCh)
CloseChannel ==
  /\ stage = "channel" /\ stage' = "cancel"
  /\ closed' = TRUE
  /\ UNCHANGED <<phase, bootVars, ctxDone, shutting, once, task, srv, diagVars, workVars, faults>>

\* cancel()
Cancel ==
  /\ stage = "cancel" /\ stage' = "internal"
  /\ ctxDone' = TRUE
  /\ UNCHANGED <<phase, bootVars, shutting, closed, once, task, srv, diagVars, workVars, faults>>

\* GracefulStop refuses new RPCs and streams ...
GracefulStop(s) ==
  /\ stage = s /\ srv[s] \in {"off", "serving"}
  /\ srv' = [srv EXCEPT ![s] = "draining"]
  /\ UNCHANGED <<phase, bootVars, ctxDone, onceVars, task, diagVars, workVars, faults>>

Busy(s) == IF s = "internal" THEN \E w \in Streams : stream[w]
                             ELSE \E c \in Calls : call[c].at = "handler"

\* ... and returns when those under way are over; the public server is last.
Stopped(s) ==
  /\ stage = s /\ srv[s] = "draining"
  /\ ~Busy(s)
  /\ srv' = [srv EXCEPT ![s] = "stopped"]
  /\ IF s = "internal"
       THEN stage' = "public" /\ UNCHANGED <<once, task>>
       ELSE stage' = "none" /\ once' = "done" /\ Move(once, AfterTrigger(once))
  /\ UNCHANGED <<phase, bootVars, ctxDone, shutting, closed, diagVars, workVars, faults>>

\* operations.Wait: all workers are over, or the 30 s are.
WaitWorkers ==
  /\ task["waiter"] = "drain"
  /\ timedOut' = \E c \in Calls : worker[c] = "running"
  /\ Move("waiter", "diag")
  /\ UNCHANGED <<phase, bootVars, ctxDone, onceVars, srv, diag, workVars, faults>>

\* diagShutdown
DiagShutdown ==
  /\ task["waiter"] = "diag"
  /\ diag' = IF diag = "up" THEN "closed" ELSE diag
  /\ Move("waiter", "ended")
  /\ UNCHANGED <<phase, bootVars, ctxDone, onceVars, srv, timedOut, workVars, faults>>

\* g.Wait returns; the deferred calls close the connections and the pool.
Exit ==
  /\ phase = "serving"
  /\ \A t \in Tasks : task[t] \in {"off", "ended"}
  /\ phase' = "exited"
  /\ UNCHANGED <<procVars, workVars, faults>>
-----------------------------------------------------------------------------
(***************************************************************************)
(* What the process does for its clients                                   *)
(***************************************************************************)
AlwaysOpen(kind) == TRUE   \* mutant: the interceptor is not in the chain

\* GuardCreateUnary: with REQUIRE_IAM, no Create before SetConnected.
GuardCreate(kind) == kind = "Create" => (cfg.requireIAM => gate)

\* A public RPC arrives and is refused by the gate or handed to its handler.
Accept(c, kind) ==
  /\ phase = "serving" /\ srv["public"] = "serving"
  /\ call[c].at = "none"
  /\ call' = [call EXCEPT ![c] = [kind |-> kind, at |-> IF GuardCreate(kind) THEN "handler"
                                                                           ELSE "over"]]
  /\ UNCHANGED <<phase, procVars, stream, row, worker, age, intent, early, faults>>

\* The handler stores the operation and starts its worker, unless the backlog of
\* the workers is full, or it refuses the request.
Handle(c) ==
  /\ phase = "serving" /\ call[c].at = "handler"
  /\ call' = [call EXCEPT ![c].at = "over"]
  /\ \/ /\ row' = [row EXCEPT ![c] = "open"]
        /\ \E w \in {"running", "lost"} : worker' = [worker EXCEPT ![c] = w]
     \/ UNCHANGED <<row, worker>>
  /\ UNCHANGED <<phase, procVars, stream, age, intent, early, faults>>

\* The worker is over: what a Create inserted has its register intent, and the
\* outcome is written unless the attempts to write it fail.
WorkerEnds(c) ==
  /\ phase = "serving" /\ worker[c] = "running"
  /\ \/ UNCHANGED intent
     \/ /\ call[c].kind = "Create"
        /\ intent' = [intent EXCEPT ![c] = "pending"]
  /\ \/ /\ row' = [row EXCEPT ![c] = "done"]
        /\ worker' = [worker EXCEPT ![c] = "over"]
     \/ /\ worker' = [worker EXCEPT ![c] = "lost"]
        /\ UNCHANGED row
  /\ UNCHANGED <<phase, procVars, stream, call, age, early, faults>>

\* A sweep of the LRO reconciler in which the resource of c can be read.
Sweep(c) ==
  /\ phase = "serving" /\ task["lro-reconciler"] = "run"
  /\ Claimable(c) /\ Resolvable(c)
  /\ Settle({c})
  /\ UNCHANGED <<phase, procVars, stream, call, worker, age, intent, faults>>

\* The register-drainer delivers an intent (Outbox has the details).
Deliver(c) ==
  /\ phase = "serving" /\ task["fga-register-drainer"] = "run"
  /\ intent[c] = "pending"
  /\ intent' = [intent EXCEPT ![c] = "sent"]
  /\ UNCHANGED <<phase, procVars, stream, call, row, worker, age, early, faults>>

OpenStream(w) ==
  /\ phase = "serving" /\ srv["internal"] = "serving"
  /\ ~stream[w]
  /\ stream' = [stream EXCEPT ![w] = TRUE]
  /\ UNCHANGED <<phase, procVars, call, row, worker, age, intent, early, faults>>

\* A Watch stream ends with its client or its connection, not with ctx.
CloseStream(w) ==
  /\ stream[w]
  /\ stream' = [stream EXCEPT ![w] = FALSE]
  /\ UNCHANGED <<phase, procVars, call, row, worker, age, intent, early, faults>>

TickUncapped ==   \* mutant: the age of an operation is not bounded
  /\ \E c \in Calls : row[c] = "open"
  /\ age' = [c \in Calls |-> IF row[c] = "open" THEN age[c] + 1 ELSE age[c]]
  /\ UNCHANGED <<phase, procVars, stream, call, row, worker, intent, early, faults>>

\* Time passes; a worker is cancelled before it is older than its timeout.
Tick ==
  /\ \E c \in Calls : row[c] = "open" /\ age[c] < OrphanGrace
  /\ \A c \in Calls : worker[c] = "running" => age[c] < WorkerTimeout
  /\ age' = [c \in Calls |-> IF row[c] = "open" /\ age[c] < OrphanGrace
                             THEN age[c] + 1 ELSE age[c]]
  /\ UNCHANGED <<phase, procVars, stream, call, row, worker, intent, early, faults>>

-----------------------------------------------------------------------------
(***************************************************************************)
(* Crashes and restarts                                                    *)
(***************************************************************************)
\* What ends with the process: streams, handlers, workers.
EndWork ==
  /\ stream' = [w \in Streams |-> FALSE]
  /\ call'   = [c \in Calls |-> IF call[c].at = "handler" THEN [call[c] EXCEPT !.at = "over"]
                                                          ELSE call[c]]
  /\ worker' = [c \in Calls |-> IF worker[c] = "running" THEN "lost" ELSE worker[c]]
  /\ UNCHANGED <<row, age, intent, early>>

\* A process's memory as it is before runServe.
Forget ==
  /\ gate' = FALSE /\ lro' = FALSE /\ ctxDone' = FALSE /\ shutting' = FALSE /\ closed' = FALSE
  /\ once' = "free" /\ stage' = "none" /\ diag' = "off" /\ timedOut' = FALSE
  /\ task' = [t \in Tasks |-> "off"]
  /\ srv' = [s \in Servers |-> "off"]

Crash ==
  /\ phase \notin Dead
  /\ phase' = "crashed"
  /\ Fault
  /\ EndWork /\ Forget
  /\ UNCHANGED cfg

\* The orchestrator starts the next process.
Restart ==
  /\ phase \in Dead
  /\ phase' = "config"
  /\ EndWork /\ Forget
  /\ UNCHANGED <<cfg, faults>>

-----------------------------------------------------------------------------
BootStep ==
  Configure \/ StartLROWorker \/ StartLRORecovery \/ StartRegisterDrainer \/ Wire \/ Listen

TaskStep(t) ==
  \/ LoopEnds(t) \/ ServeEnds(t) \/ EnterOnce(t) \/ PassOnce(t)
  \/ t \in Servers /\ Serve(t)
  \/ t = "waiter" /\ (WaiterWakes \/ WaitWorkers \/ DiagShutdown)

ShutdownStep ==
  \/ SetShuttingDown \/ CloseChannel \/ Cancel
  \/ \E s \in Servers : GracefulStop(s) \/ Stopped(s)

WorkStep(c) == Handle(c) \/ WorkerEnds(c)

Next ==
  \/ BootStep \/ BootFails \/ Signal \/ Crash \/ Restart \/ Exit \/ Tick
  \/ \E t \in Tasks : TaskStep(t) \/ LoopDies(t) \/ ServeFails(t)
  \/ ShutdownStep
  \/ \E c \in Calls, k \in Kinds : Accept(c, k)
  \/ \E c \in Calls : WorkStep(c) \/ Sweep(c) \/ Deliver(c)
  \/ \E w \in Streams : OpenStream(w) \/ CloseStream(w)

Spec == Init /\ [][Next]_vars

\* Goroutines are scheduled, handlers and workers have deadlines, the loops go on and
\* the database does not fail all their reads for ever, the orchestrator restarts a
\* dead process.  No subscriber has to leave.
Fairness ==
  /\ WF_vars(BootStep) /\ WF_vars(Exit) /\ WF_vars(Restart) /\ WF_vars(Tick)
  /\ WF_vars(ShutdownStep)
  /\ \A t \in Tasks : WF_vars(TaskStep(t))
  /\ \A c \in Calls : WF_vars(WorkStep(c)) /\ WF_vars(Sweep(c)) /\ WF_vars(Deliver(c))

FairSpec == Spec /\ Fairness

-----------------------------------------------------------------------------
(***************************************************************************)
(* Properties                                                              *)
(***************************************************************************)
\* A process that exits has not cut off a handler or a stream, and has waited
\* for every worker it started, as long as operations.Wait may: whichever task
\* triggered the shutdown, no worker starts after the waiter has looked.
CleanExit ==
  phase = "exited" =>
    /\ \A w \in Streams : ~stream[w]
    /\ \A c \in Calls : call[c].at # "handler" /\ (worker[c] = "running" => timedOut)

\* /readyz answers 200 as far as it is up to the process.
Ready == diag = "up" /\ phase = "serving" /\ ~shutting /\ (cfg.requireIAM => gate) /\ lro

\* A server stops taking calls only when /readyz says so, and the listener that
\* says so is closed last, unless it failed by itself; a process that takes calls
\* is ready before it has seen one.
NotReadyFirst ==
  /\ \A s \in Servers : srv[s] \in {"draining", "stopped"} => ~Ready
  /\ (diag = "closed" /\ task["diag"] = "run") => \A s \in Servers : srv[s] = "stopped"
  /\ (phase = "serving" /\ diag = "up" /\ ~Ready) => shutting \/ (cfg.requireIAM /\ ~cfg.drainer)

\* The reconciler never settles an operation whose worker still runs.
NoEarlySettlement == early = {}

\* A process that was told to stop, or one of whose tasks has died, exits, whatever
\* else fails meanwhile, if no subscriber holds on to a Watch stream for ever.
Stopping == phase = "serving" /\ (ctxDone \/ \E t \in Tasks : task[t] \in {"trigger", "ended"})
StreamsEnd == \A w \in Streams : []<>(~stream[w])
ShutdownCompletes == StreamsEnd => (Stopping ~> phase \in Dead)

\* An operation that some process stored is settled by its worker or by a reconciler of
\* this or a later process; only one on a NIC stays open, when its worker was lost.
SettledAcrossRestarts ==
  StreamsEnd =>
    \A c \in Calls :
      (row[c] = "open") ~> (row[c] = "done" \/ (~Resolvable(c) /\ worker[c] = "lost"))

\* With REQUIRE_IAM, what a Create registers in the outbox is delivered by the
\* drainer of this or a later process.
CreatesAreRegistered ==
  StreamsEnd => \A c \in Calls : (cfg.requireIAM /\ intent[c] = "pending") ~> (intent[c] = "sent")
=============================================================================

---------------------------- MODULE ServerProofs ----------------------------
(***************************************************************************)
(* Proofs about Server, for any configurations, loops, RPCs, streams and   *)
(* numbers of faults, and any timeout of the workers that is shorter than  *)
(* the reconciler's grace.                                                 *)
(***************************************************************************)
EXTENDS Server, Integers, TLAPS

-----------------------------------------------------------------------------
(***************************************************************************)
(* The inductive invariant                                                 *)
(***************************************************************************)
\* Before it serves, and when it has failed, a process does nothing for anybody.
Quiet ==
  /\ once = "free" /\ stage = "none" /\ diag # "closed"
  /\ \A t \in Tasks : task[t] = "off"
  /\ \A s \in Servers : srv[s] = "off"
  /\ \A w \in Streams : ~stream[w]
  /\ \A c \in Calls : call[c].at # "handler" /\ worker[c] # "running"

BootInv ==
  /\ phase \notin {"serving", "exited"} => Quiet
  /\ phase \in {"recovery", "drainer", "wiring", "listen", "serving"} => lro
  /\ phase \in {"wiring", "listen", "serving"} => gate = cfg.drainer

\* shutdownOnce: the flag comes before the servers, the internal one before the
\* public one, and when Do has returned both are stopped.
OnceInv ==
  /\ stage = "none" <=> once \in {"free", "done"}
  /\ stage \in {"channel", "cancel", "internal", "public"} => shutting
  /\ once = "done" => shutting /\ \A s \in Servers : srv[s] = "stopped"
  /\ stage = "public" => srv["internal"] = "stopped"
  /\ \A s \in Servers : srv[s] \in {"draining", "stopped"} => shutting

\* A server that has stopped has nothing under way ...
StoppedInv ==
  /\ srv["internal"] = "stopped" => \A w \in Streams : ~stream[w]
  /\ srv["public"] = "stopped" => \A c \in Calls : call[c].at # "handler"

\* ... which the waiter knows before it waits for the workers.
WaiterInv ==
  /\ task["waiter"] \in {"drain", "diag", "ended"} => once = "done"
  /\ task["waiter"] \in {"diag", "ended"} => \A c \in Calls : worker[c] = "running" => timedOut
  /\ phase = "serving" => task["waiter"] # "off"
  /\ phase = "exited" => task["waiter"] = "ended"

\* The diagnostic listener is closed last, unless it failed.
DiagInv ==
  (diag = "closed" /\ task["diag"] = "run") => \A s \in Servers : srv[s] = "stopped"

\* A worker is younger than its timeout, since its operation was made by its handler.
AgeInv ==
  \A c \in Calls :
    /\ worker[c] = "running" => age[c] <= WorkerTimeout
    /\ call[c].at \in {"none", "handler"} => row[c] = "none" /\ worker[c] = "none"
    /\ row[c] = "none" => age[c] = 0

IInv ==
  TypeOK /\ BootInv /\ OnceInv /\ StoppedInv /\ WaiterInv /\ DiagInv /\ AgeInv /\ NoEarlySettlement
-----------------------------------------------------------------------------
(***************************************************************************)
(* Types                                                                   *)
(***************************************************************************)
\* The initial states are well typed.
LEMMA InitTypeOK == Init => TypeOK
  <1> SUFFICES ASSUME Init PROVE TypeOK
    OBVIOUS
  <1>1. /\ cfg \in Configs /\ phase \in BootPhases
        /\ gate \in BOOLEAN /\ lro \in BOOLEAN /\ ctxDone \in BOOLEAN
        /\ shutting \in BOOLEAN /\ closed \in BOOLEAN /\ timedOut \in BOOLEAN
    BY DEF Init, Fresh, BootPhases
  <1>2. /\ once = "free" /\ stage = "none" /\ diag = "off" /\ early = {}
        /\ task = [t \in Tasks |-> "off"] /\ srv = [s \in Servers |-> "off"]
    BY DEF Init, Fresh
  <1>3. [kind |-> "none", at |-> "none"] \in Call
    BY DEF Call
  <1>4. /\ stream \in [Streams -> BOOLEAN] /\ call \in [Calls -> Call]
        /\ row \in [Calls -> {"none", "open", "done"}]
        /\ worker \in [Calls -> {"none", "running", "over", "lost"}]
        /\ intent \in [Calls -> {"none", "pending", "sent"}]
        /\ age \in [Calls -> 0 .. OrphanGrace] /\ faults \in 0 .. MaxFaults
    BY <1>3, ServerAssumption DEF Init
  <1> QED
    BY <1>1, <1>2, <1>4 DEF TypeOK

LEMMA NextTypeOK == TypeOK /\ [Next]_vars => TypeOK'
  <1> SUFFICES ASSUME TypeOK, [Next]_vars PROVE TypeOK'
    OBVIOUS
  <1> USE ServerAssumption
      DEF TypeOK, BootPhases, Dead, Call, bootVars, onceVars, diagVars, procVars, workVars
  <1>1. CASE Configure
    BY <1>1 DEF Configure, BootTo
  <1>2. CASE StartLROWorker
    BY <1>2 DEF StartLROWorker, BootTo
  <1>3. CASE StartLRORecovery
    BY <1>3 DEF StartLRORecovery, BootTo, Settle
  <1>4. CASE StartRegisterDrainer
    <2>1. cfg.drainer \in BOOLEAN
      BY DEF Config
    <2> QED
      BY <1>4, <2>1 DEF StartRegisterDrainer, BootTo
  <1>5. CASE Wire
    BY <1>5 DEF Wire, BootTo
  <1>6. CASE Listen
    BY <1>6 DEF Listen, BootTo
  <1>7. CASE BootFails
    BY <1>7 DEF BootFails, Fault
  <1>8. CASE Signal
    BY <1>8 DEF Signal, Fault
  <1>9. ASSUME NEW t \in Tasks, LoopEnds(t) PROVE TypeOK'
    BY <1>9 DEF LoopEnds, Move
  <1>10. ASSUME NEW t \in Tasks, LoopDies(t) PROVE TypeOK'
    BY <1>10 DEF LoopDies, Move, Fault
  <1>11. ASSUME NEW s \in Servers, Serve(s) PROVE TypeOK'
    BY <1>11 DEF Serve, Move
  <1>12. ASSUME NEW t \in Tasks, ServeFails(t) PROVE TypeOK'
    BY <1>12 DEF ServeFails, Move, Fault
  <1>13. ASSUME NEW t \in Tasks, ServeEnds(t) PROVE TypeOK'
    BY <1>13 DEF ServeEnds, Move
  <1>14. CASE WaiterWakes
    BY <1>14 DEF WaiterWakes, Move, Tasks
  <1>15. ASSUME NEW t \in Tasks, EnterOnce(t) PROVE TypeOK'
    BY <1>15 DEF EnterOnce, Move
  <1>16. ASSUME NEW t \in Tasks, PassOnce(t) PROVE TypeOK'
    BY <1>16 DEF PassOnce, Move, AfterTrigger
  <1>17. CASE SetShuttingDown
    BY <1>17 DEF SetShuttingDown
  <1>18. CASE CloseChannel
    BY <1>18 DEF CloseChannel
  <1>19. CASE Cancel
    BY <1>19 DEF Cancel
  <1>20. ASSUME NEW s \in Servers, GracefulStop(s) PROVE TypeOK'
    BY <1>20 DEF GracefulStop
  <1>21. ASSUME NEW s \in Servers, Stopped(s) PROVE TypeOK'
    BY <1>21 DEF Stopped, Move, AfterTrigger
  <1>22. CASE WaitWorkers
    <2>1. timedOut' \in BOOLEAN
      BY <1>22 DEF WaitWorkers
    <2>2. task' \in [Tasks -> {"off", "start", "run", "trigger", "inside", "drain", "diag", "ended"}]
      BY <1>22 DEF WaitWorkers, Move, Tasks
    <2> QED
      BY <1>22, <2>1, <2>2 DEF WaitWorkers
  <1>23. CASE DiagShutdown
    BY <1>23 DEF DiagShutdown, Move, Tasks
  <1>24. CASE Exit
    BY <1>24 DEF Exit
  <1>25. ASSUME NEW c \in Calls, NEW k \in Kinds, Accept(c, k) PROVE TypeOK'
    BY <1>25 DEF Accept
  <1>26. ASSUME NEW c \in Calls, Handle(c) PROVE TypeOK'
    <2>1. call' \in [Calls -> Call]
      <3>1. call[c] \in Call /\ [call[c] EXCEPT !.at = "over"] \in Call
        OBVIOUS
      <3>2. call' = [call EXCEPT ![c] = [call[c] EXCEPT !.at = "over"]]
        BY <1>26 DEF Handle
      <3>3. call \in [Calls -> Call]
        OBVIOUS
      <3> HIDE DEF TypeOK, Call
      <3> QED
        BY <3>1, <3>2, <3>3
    <2>2. /\ row' \in [Calls -> {"none", "open", "done"}]
          /\ worker' \in [Calls -> {"none", "running", "over", "lost"}]
      <3>1. /\ row \in [Calls -> {"none", "open", "done"}]
            /\ worker \in [Calls -> {"none", "running", "over", "lost"}]
        OBVIOUS
      <3>2. \/ /\ row' = [row EXCEPT ![c] = "open"]
               /\ \E w \in {"running", "lost"} : worker' = [worker EXCEPT ![c] = w]
            \/ row' = row /\ worker' = worker
        BY <1>26 DEF Handle
      <3> HIDE DEF TypeOK, Call
      <3> QED
        BY <3>1, <3>2
    <2> QED
      BY <1>26, <2>1, <2>2 DEF Handle
  <1>27. ASSUME NEW c \in Calls, WorkerEnds(c) PROVE TypeOK'
    BY <1>27 DEF WorkerEnds
  <1>28. ASSUME NEW c \in Calls, Sweep(c) PROVE TypeOK'
    BY <1>28 DEF Sweep, Settle
  <1>29. ASSUME NEW c \in Calls, Deliver(c) PROVE TypeOK'
    BY <1>29 DEF Deliver
  <1>30. ASSUME NEW w \in Streams, OpenStream(w) PROVE TypeOK'
    BY <1>30 DEF OpenStream
  <1>31. ASSUME NEW w \in Streams, CloseStream(w) PROVE TypeOK'
    BY <1>31 DEF CloseStream
  <1>32. CASE Tick
    BY <1>32 DEF Tick
  <1>33. CASE Crash
    <2>1. faults' \in 0 .. MaxFaults /\ phase' \in Dead /\ cfg' = cfg
      BY <1>33 DEF Crash, Fault
    <2>2. /\ stream' \in [Streams -> BOOLEAN] /\ call' \in [Calls -> Call]
          /\ worker' \in [Calls -> {"none", "running", "over", "lost"}]
          /\ UNCHANGED <<row, age, intent, early>>
      BY <1>33 DEF Crash, EndWork
    <2>3. /\ gate' = FALSE /\ lro' = FALSE /\ ctxDone' = FALSE /\ shutting' = FALSE
          /\ closed' = FALSE /\ once' = "free" /\ stage' = "none" /\ diag' = "off"
          /\ timedOut' = FALSE /\ task' = [t \in Tasks |-> "off"]
          /\ srv' = [s \in Servers |-> "off"]
      BY <1>33 DEF Crash, Forget
    <2> QED
      BY <2>1, <2>2, <2>3
  <1>34. CASE Restart
    BY <1>34 DEF Restart, EndWork, Forget
  <1>35. CASE UNCHANGED vars
    BY <1>35 DEF vars
  <1> QED
    BY <1>1, <1>2, <1>3, <1>4, <1>5, <1>6, <1>7, <1>8, <1>9, <1>10, <1>11, <1>12, <1>13, <1>14,
       <1>15, <1>16, <1>17, <1>18, <1>19, <1>20, <1>21, <1>22, <1>23, <1>24, <1>25, <1>26,
       <1>27, <1>28, <1>29, <1>30, <1>31, <1>32, <1>33, <1>34, <1>35 DEF Next, BootStep,
       TaskStep, ShutdownStep, WorkStep
-----------------------------------------------------------------------------
(***************************************************************************)
(* Every step keeps the invariant                                          *)
(***************************************************************************)
\* The names of the tasks.
LEMMA TaskNames ==
  /\ "waiter" \in Tasks /\ "diag" \in Tasks /\ Servers \subseteq Tasks /\ Loops \subseteq Tasks
  /\ "waiter" \notin Loops \cup Servers /\ "diag" \notin Loops \cup Servers
  /\ "free" \notin Tasks /\ "done" \notin Tasks
  /\ "internal" \in Servers /\ "public" \in Servers /\ \A s \in Servers : s \in {"internal", "public"}
  BY ServerAssumption DEF Tasks, Loops, Servers

\* The invariant but for the types.
ServeInv ==
  BootInv /\ OnceInv /\ StoppedInv /\ WaiterInv /\ DiagInv /\ AgeInv /\ NoEarlySettlement

LEMMA NextIInv == IInv /\ [Next]_vars => IInv'
  <1> SUFFICES ASSUME TypeOK, TypeOK', ServeInv, [Next]_vars PROVE ServeInv'
    BY NextTypeOK DEF IInv, ServeInv
  <1> USE ServerAssumption, TaskNames
      DEF ServeInv, BootInv, Quiet, OnceInv, StoppedInv, WaiterInv, DiagInv, AgeInv, NoEarlySettlement,
          TypeOK, BootPhases, Dead, bootVars, onceVars, diagVars, procVars, workVars
  <1>1. CASE Configure
    BY <1>1 DEF Configure, BootTo
  <1>2. CASE StartLROWorker
    BY <1>2 DEF StartLROWorker, BootTo
  <1>3. CASE StartLRORecovery
    BY <1>3 DEF StartLRORecovery, BootTo, Settle, Claimable
  <1>4. CASE StartRegisterDrainer
    BY <1>4 DEF StartRegisterDrainer, BootTo
  <1>5. CASE Wire
    BY <1>5 DEF Wire, BootTo
  <1>6. CASE Listen
    BY <1>6 DEF Listen, BootTo, Started
  <1>7. CASE BootFails
    BY <1>7 DEF BootFails
  <1>8. CASE Signal
    BY <1>8 DEF Signal
  <1>9. ASSUME NEW t \in Tasks, LoopEnds(t) PROVE ServeInv'
    BY <1>9 DEF LoopEnds, Move
  <1>10. ASSUME NEW t \in Tasks, LoopDies(t) PROVE ServeInv'
    BY <1>10 DEF LoopDies, Move
  <1>11. ASSUME NEW s \in Servers, Serve(s) PROVE ServeInv'
    BY <1>11 DEF Serve, Move
  <1>12. ASSUME NEW t \in Tasks, ServeFails(t) PROVE ServeInv'
    BY <1>12 DEF ServeFails, Move
  <1>13. ASSUME NEW t \in Tasks, ServeEnds(t) PROVE ServeInv'
    BY <1>13 DEF ServeEnds, Move
  <1>14. CASE WaiterWakes
    BY <1>14 DEF WaiterWakes, Move
  <1>15. ASSUME NEW t \in Tasks, EnterOnce(t) PROVE ServeInv'
    BY <1>15 DEF EnterOnce, Move
  <1>16. ASSUME NEW t \in Tasks, PassOnce(t) PROVE ServeInv'
    BY <1>16 DEF PassOnce, Move, AfterTrigger
  <1>17. CASE SetShuttingDown
    BY <1>17 DEF SetShuttingDown
  <1>18. CASE CloseChannel
    BY <1>18 DEF CloseChannel
  <1>19. CASE Cancel
    BY <1>19 DEF Cancel
  <1>20. ASSUME NEW s \in Servers, GracefulStop(s) PROVE ServeInv'
    BY <1>20 DEF GracefulStop
  <1>21. ASSUME NEW s \in Servers, Stopped(s) PROVE ServeInv'
    BY <1>21 DEF Stopped, Move, AfterTrigger, Busy
  <1>22. CASE WaitWorkers
    BY <1>22 DEF WaitWorkers, Move
  <1>23. CASE DiagShutdown
    BY <1>23 DEF DiagShutdown, Move
  <1>24. CASE Exit
    BY <1>24 DEF Exit
  <1>25. ASSUME NEW c \in Calls, NEW k \in Kinds, Accept(c, k) PROVE ServeInv'
    BY <1>25 DEF Accept
  <1>26. ASSUME NEW c \in Calls, Handle(c) PROVE ServeInv'
    BY <1>26 DEF Handle
  <1>27. ASSUME NEW c \in Calls, WorkerEnds(c) PROVE ServeInv'
    <2>1. /\ UNCHANGED <<phase, procVars, stream, call, age, early>>
          /\ \A d \in Calls : worker'[d] = "running" => worker[d] = "running"
          /\ \A d \in Calls : row'[d] = row[d] \/ (d = c /\ row'[d] = "done")
          /\ call[c].at = "over"
          /\ \A d \in Calls : worker[d] = "none" => worker'[d] = "none"
      BY <1>27 DEF WorkerEnds, Call
    <2> QED
      BY <2>1
  <1>28. ASSUME NEW c \in Calls, Sweep(c) PROVE ServeInv'
    BY <1>28 DEF Sweep, Settle, Claimable
  <1>29. ASSUME NEW c \in Calls, Deliver(c) PROVE ServeInv'
    BY <1>29 DEF Deliver
  <1>30. ASSUME NEW w \in Streams, OpenStream(w) PROVE ServeInv'
    BY <1>30 DEF OpenStream
  <1>31. ASSUME NEW w \in Streams, CloseStream(w) PROVE ServeInv'
    BY <1>31 DEF CloseStream
  <1>32. CASE Tick
    BY <1>32 DEF Tick
  <1>33. CASE Crash
    BY <1>33 DEF Crash, EndWork, Forget
  <1>34. CASE Restart
    BY <1>34 DEF Restart, EndWork, Forget
  <1>35. CASE UNCHANGED vars
    BY <1>35 DEF vars
  <1> HIDE DEF ServeInv, BootInv, Quiet, OnceInv, StoppedInv, WaiterInv, DiagInv, AgeInv, TypeOK,
              NoEarlySettlement
  <1> QED
    BY <1>1, <1>2, <1>3, <1>4, <1>5, <1>6, <1>7, <1>8, <1>9, <1>10, <1>11, <1>12, <1>13, <1>14,
       <1>15, <1>16, <1>17, <1>18, <1>19, <1>20, <1>21, <1>22, <1>23, <1>24, <1>25, <1>26,
       <1>27, <1>28, <1>29, <1>30, <1>31, <1>32, <1>33, <1>34, <1>35 DEF Next, BootStep,
       TaskStep, ShutdownStep, WorkStep
LEMMA InitIInv == Init => IInv
  <1> SUFFICES ASSUME Init PROVE ServeInv
    BY InitTypeOK DEF IInv, ServeInv
  <1> QED
    BY ServerAssumption DEF Init, Fresh, ServeInv, BootInv, Quiet, OnceInv, StoppedInv, WaiterInv,
       DiagInv, AgeInv, NoEarlySettlement, Servers, Tasks

LEMMA Invariance == Spec => []IInv
  BY InitIInv, NextIInv, PTL DEF Spec

-----------------------------------------------------------------------------
(***************************************************************************)
(* What follows                                                            *)
(***************************************************************************)
\* The variables keep their types.
THEOREM TypeCorrect == Spec => []TypeOK
  BY InitTypeOK, NextTypeOK, PTL DEF Spec

\* RecoverAll and the reconciler's sweeps: the grace window keeps them off the operations
\* whose workers still run, in every process, since a worker is cancelled before.
THEOREM NothingIsSettledEarly == Spec => []NoEarlySettlement
  BY Invariance, PTL DEF IInv

LEMMA IInvCleanExit == IInv => CleanExit
  BY TaskNames DEF IInv, CleanExit, WaiterInv, OnceInv, StoppedInv

\* runServe: a process that returns has cut off no handler and no stream, and has
\* waited for its workers, whichever task began the shutdown.
THEOREM ExitsAreClean == Spec => []CleanExit
  BY Invariance, IInvCleanExit, PTL

LEMMA IInvNotReadyFirst == IInv => NotReadyFirst
  <1> SUFFICES ASSUME IInv PROVE NotReadyFirst
    OBVIOUS
  <1>1. \A s \in Servers : srv[s] \in {"draining", "stopped"} => ~Ready
    BY DEF IInv, OnceInv, Ready
  <1>2. (phase = "serving" /\ diag = "up" /\ ~Ready) => shutting \/ (cfg.requireIAM /\ ~cfg.drainer)
    BY DEF IInv, BootInv, Ready
  <1> QED
    BY <1>1, <1>2 DEF IInv, DiagInv, NotReadyFirst

\* triggerShutdown: /readyz says so before a server stops taking calls, until both have
\* stopped; and while none has begun to stop, only a gate that no drainer opens says it.
THEOREM NotReadyComesFirst == Spec => []NotReadyFirst
  BY Invariance, IInvNotReadyFirst, PTL
=============================================================================

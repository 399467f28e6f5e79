---------------------------- MODULE HostServices ----------------------------
(***************************************************************************)
(* The services KeeMASH offers for its host behind the Monitor module,     *)
(* composed: process control, the shared daemon, GPU residency and the     *)
(* resource monitor share the table of processes, the module's state and   *)
(* the stop of the application (runtime_dispatch_inner, setup and          *)
(* RunEvent::Exit in src-tauri/src/lib.rs).  A forced stop of the daemon   *)
(* runs process control; the rules of GPU residency are refreshed only     *)
(* after the resource monitor took a sample.                               *)
(*                                                                         *)
(* Bound: the operator uses one service in a behaviour, so that what the   *)
(* services do without each other adds to the instance and does not        *)
(* multiply it.                                                            *)
(***************************************************************************)
EXTENDS CccDaemon, GpuPolicy, SensorHost

CONSTANTS
  Services,   \* of {"control", "daemon", "gpu", "sensors"}
  FirstProcs, \* service -> the tables of processes it starts with
  MaxSwitches \* bound: service -> changes of the module's state

ASSUME ServicesAssumption ==
  /\ Services \subseteq {"control", "daemon", "gpu", "sensors"}
  /\ \A s \in Services : FirstProcs[s] \subseteq [Pids -> Processes \cup {None}]

vars == <<table, control, ccc, gpu, sensors>>

Init ==
  /\ service \in Services
  /\ procs \in FirstProcs[service]
  /\ births = Cardinality(Alive) /\ held = {} /\ covered = {} /\ touched = {}
  /\ InitControl /\ InitCcc /\ InitGpu
  /\ InitSensors(service = "sensors")
-----------------------------------------------------------------------------
\* RuntimeController::authorize: every operation here belongs to the module
\* "monitor".  It is asked once, before any dialog.
Authorized == monitor # "disabled"

ControlStep ==
  /\ service = "control"
  /\ \/ Authorized /\ \E p \in Pids, op \in {"close", "terminate", "tree"} : Request(op, p)
     \/ Confirm \/ Cancel \/ TaskSteps
  /\ UNCHANGED <<ccc, gpu, sensors>>

\* A forced stop is a request of process control without a dialog of its own.
DaemonStep ==
  /\ service = "daemon"
  /\ \/ Authorized /\ \E op \in {"start", "stop", "restart"} : Manage(op)
     \/ CallSteps
     \/ TreeSteps /\ UNCHANGED ccc
     \/ \E p \in Pids : WriteMarker(p)
  /\ UNCHANGED <<gpu, sensors>>

\* snapshot of the window takes a sample itself; the worker waits for one.
Wanted(r) ==
  IF r = "worker" THEN latest # "none" /\ ~stop ELSE Authorized

GpuStep ==
  /\ service = "gpu"
  /\ \/ \E r \in Refreshers :
          Refreshes(r) \/ (Wanted(r) /\ Collect(r))
     \/ /\ Authorized
        /\ \/ \E p \in Pids, prio \in Priorities, persist \in BOOLEAN :
                SetPolicy(p, prio, persist)
           \/ \E p \in Pids : UndoPolicy(p)
           \/ RemoveRule
     \/ PolicySteps \/ TooManyRules \/ SaveFails \/ AutoSaveRules \/ Rebuild
  /\ UNCHANGED <<control, ccc, sensors>>

\* The application crashes and is started again; no sample was taken yet.
Restart ==
  /\ service = "gpu"
  /\ CrashAndLoad
  /\ latest' = "none"
  /\ UNCHANGED <<control, ccc, monitor, enabled, stop, worker, child, reader, lines, late,
                 advanced, timer, faults, switches>>

SensorStep ==
  /\ \/ /\ service = "sensors"
        /\ \/ WorkerSteps \/ SpawnFails
           \/ Emit \/ TooLong \/ HeartbeatMissed
           \/ \E kind \in {"mute", "junk", "ended"} : Turn(kind)
           \/ \E found \in BOOLEAN : ReadTimings(found)
     \/ service \in {"gpu", "sensors"} /\ Authorized /\ Sample
     \/ /\ switches < MaxSwitches[service]
        /\ \E state \in {"disabled", "idle", "active"} : SetModule(state)
     \/ service = "sensors" /\ StopMonitor
  /\ UNCHANGED <<table, control, ccc, gpu>>

\* Other programs start processes, and processes end.
Executables == [control |-> {"app"}, daemon |-> {"daemon", "other"}, gpu |-> {Game},
                sensors |-> {}]

\* Once a tree is listed, what starts below its numbers belongs to it: the code
\* knows a parent by its number, whichever process has that.
Listed ==
  IF task # Free /\ task.op = "tree" /\ task.step \in {"look", "stamp", "validate", "end"}
  THEN DOMAIN task.depths ELSE {}

ProcessStep ==
  /\ \/ \E p \in Pids, exe \in Executables[service], parent \in Alive \cup {Shell} :
          Start(p, exe, parent, Listed)
     \/ \E p \in Pids : Exit(p)
  /\ UNCHANGED <<control, ccc, gpu, sensors>>

Next ==
  \/ ControlStep \/ DaemonStep \/ GpuStep \/ Restart \/ SensorStep \/ ProcessStep
-----------------------------------------------------------------------------
\* Threads run, dialogs are answered, the worker of GPU residency refreshes
\* again and again and every refresh ends, samples are taken while the monitor
\* is in use, and a host that is well writes lines.
Fairness ==
  /\ WF_vars(service = "control" /\ TaskSteps /\ UNCHANGED <<ccc, gpu, sensors>>)
  /\ WF_vars(service = "daemon" /\ TreeSteps /\ UNCHANGED <<ccc, gpu, sensors>>)
  /\ WF_vars(service = "control" /\ (Confirm \/ Cancel) /\ UNCHANGED <<ccc, gpu, sensors>>)
  /\ WF_vars(service = "daemon" /\ CallSteps /\ UNCHANGED <<gpu, sensors>>)
  /\ \A r \in Refreshers :
       WF_vars(service = "gpu" /\ Refreshes(r) /\ UNCHANGED <<control, ccc, sensors>>)
  /\ WF_vars(/\ service = "gpu" /\ Wanted("worker") /\ Collect("worker")
             /\ UNCHANGED <<control, ccc, sensors>>)
  /\ WF_vars(service = "gpu" /\ PolicySteps /\ UNCHANGED <<control, ccc, sensors>>)
  /\ WF_vars(/\ service \in {"gpu", "sensors"} /\ enabled /\ ~stop /\ Sample
             /\ UNCHANGED <<table, control, ccc, gpu>>)
  /\ WF_vars(service = "sensors" /\ WorkerSteps /\ UNCHANGED <<table, control, ccc, gpu>>)
  /\ WF_vars(/\ service = "sensors" /\ Emit /\ child = "good"
             /\ UNCHANGED <<table, control, ccc, gpu>>)
  /\ WF_vars(service = "sensors" /\ HeartbeatMissed /\ UNCHANGED <<table, control, ccc, gpu>>)

Spec == Init /\ [][Next]_vars /\ Fairness
-----------------------------------------------------------------------------
\* KeeMASH ends or rewrites a process only when the operator confirmed or named
\* that very process, an inspection identified it as the daemon, it belongs to
\* a tree that was listed, or a rule is for its executable: whatever exits and
\* whichever numbers are given again between the choice and the act.
RightProcess == touched \subseteq covered

\* Every request, management call and policy command is answered, also when
\* what it waits for never happens.
CallsFinish ==
  /\ []<>(task = Free)
  /\ []<>(call = Hung)
  /\ []<>(policy = NoPolicy)

\* A rule reaches every process of its executable that the counters go on naming,
\* also one whose number an earlier process had, unless there was no sample or
\* the application stops.
EveryProcessReached ==
  []<>(service # "gpu" \/ stop \/ latest = "none" \/ RuleReached)

\* Readings come back whatever a host did.
ReadingsComeBack == []<>(service # "sensors" \/ Reading)

\* A host is ended once nobody uses it.
HostsFollow == []<>HostFollows
=============================================================================

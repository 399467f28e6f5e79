----------------------------- MODULE SensorHost -----------------------------
(***************************************************************************)
(* The resource monitor (src-tauri/src/resource_monitor.rs): the worker    *)
(* that keeps the low-level sensor host running while the Monitor module   *)
(* is in use, the reader of its lines with a bounded queue, the worker     *)
(* that reads memory timings once, and the one that takes samples.  The    *)
(* profile switches it (sync_runtime_lifecycle in lib.rs).                 *)
(*                                                                         *)
(* The host is external: it may say nothing, write lines that are no       *)
(* snapshots, write one that is too long, or end.  How long a wait is      *)
(* (15 to 60 seconds before another host) is left out, not that it ends.   *)
(***************************************************************************)
EXTENDS Naturals, Sequences, SequencesExt

CONSTANTS
  QueueLimit,   \* SENSOR_IPC_QUEUE_LIMIT
  MaxFaults     \* bound: faults of hosts

VARIABLES
  monitor,   \* module_state("monitor"): "disabled", "idle" or "active"
  enabled,   \* ResourceMonitor.enabled
  stop,      \* ResourceMonitor.stop
  worker,    \* low_level_sensor_loop: "off", "ready", "watching", "reaping" or "pausing"
  child,     \* the host: "none", "good", "mute", "junk" or "ended"
  reader,    \* its output is read
  lines,     \* the queue between reader and worker
  late,      \* no valid snapshot came for SENSOR_HEARTBEAT_TIMEOUT
  advanced,  \* AdvancedSnapshot: fresh readings, module list, timings
  timer,     \* the timing worker: "reading" or "done"
  latest,    \* the last sample: "none", "bare" or "full" (with low-level readings)
  faults, switches  \* bound counters; changes of the module are bounded where it is composed

sensors == <<monitor, enabled, stop, worker, child, reader, lines, late, advanced, timer,
             latest, faults, switches>>

\* start: locate_sensor_runtime may find no runtime to trust.
InitSensors(running) ==
  /\ monitor = "active" /\ enabled = TRUE /\ stop = FALSE
  /\ worker \in IF running THEN {"off", "ready"} ELSE {"off"}
  /\ child = "none" /\ reader = FALSE /\ lines = <<>> /\ late = FALSE
  /\ advanced = [fresh |-> FALSE, modules |-> FALSE, timings |-> "none"]
  /\ timer = IF running THEN "reading" ELSE "done"
  /\ latest = "none" /\ faults = 0 /\ switches = 0

Fault == faults < MaxFaults /\ faults' = faults + 1
-----------------------------------------------------------------------------
(* The host *)

\* It begins to do something else, of its own or because its output is closed.
Turn(kind) ==
  /\ child \notin {"none", "ended"} /\ kind # child
  /\ Fault
  /\ child' = kind
  /\ UNCHANGED <<monitor, enabled, stop, worker, reader, lines, late, advanced, timer,
                 latest, switches>>

\* A line; the reader drops it when the queue is full (try_send).
Emit ==
  /\ child \in {"good", "junk"} /\ reader
  /\ Len(lines) < QueueLimit
  /\ lines' = Append(lines, child)
  /\ UNCHANGED <<monitor, enabled, stop, worker, child, reader, late, advanced, timer,
                 latest, faults, switches>>

\* A line over the limit ends the reader, with an error for the worker if it fits.
TooLong ==
  /\ child \in {"good", "junk"} /\ reader
  /\ Fault
  /\ reader' = FALSE
  /\ lines' = IF Len(lines) < QueueLimit THEN Append(lines, "error") ELSE lines
  /\ UNCHANGED <<monitor, enabled, stop, worker, child, late, advanced, timer, latest,
                 switches>>

\* Time passes without a valid snapshot.
HeartbeatMissed ==
  /\ worker = "watching" /\ ~late
  /\ child # "good" \/ ~reader
  /\ late' = TRUE
  /\ UNCHANGED <<monitor, enabled, stop, worker, child, reader, lines, advanced, timer,
                 latest, faults, switches>>
-----------------------------------------------------------------------------
(* low_level_sensor_loop *)

Spawn ==
  /\ worker = "ready" /\ ~stop /\ enabled
  /\ child' = "good" /\ reader' = TRUE /\ lines' = <<>> /\ late' = FALSE
  /\ worker' = "watching"
  /\ UNCHANGED <<monitor, enabled, stop, advanced, timer, latest, faults, switches>>

\* set_backend_state: the readings are no longer current.
Unavailable(a) == [fresh |-> FALSE, modules |-> a.modules, timings |-> a.timings]

SpawnFails ==
  /\ worker = "ready" /\ ~stop /\ enabled
  /\ Fault
  /\ worker' = "pausing"
  /\ advanced' = Unavailable(advanced)
  /\ UNCHANGED <<monitor, enabled, stop, child, reader, lines, late, timer, latest, switches>>

\* classify_advanced: a snapshot replaces all but the timings.
Classified(a) == [fresh |-> TRUE, modules |-> TRUE, timings |-> a.timings]

\* The messages of the queue, one after another.
Drained(a, queue) ==
  FoldLeft(LAMBDA b, line : IF line = "good" THEN Classified(b) ELSE Unavailable(b), a, queue)

\* Does a drained queue prove that the host is well?
\* (mutant) Any line does.
ProvesLife_Mutant(queue) == queue # <<>>
ProvesLife(queue) == "good" \in ToSet(queue)

\* Why the host is ended, or found ended.
\* (mutant) Whether the module is in use is not looked at.
Leaves_Mutant(missed) == stop \/ missed \/ child = "ended"
Leaves(missed) == stop \/ ~enabled \/ missed \/ child = "ended"

\* A round: the queue, then the reasons to give the host up.
Watch ==
  LET missed == late /\ ~ProvesLife(lines)
      drained == Drained(advanced, lines) IN
  /\ worker = "watching"
  /\ lines' = <<>>
  /\ late' = missed
  /\ IF Leaves(missed)
     THEN /\ child' = "ended" /\ worker' = "reaping"
          /\ advanced' = IF missed /\ ~stop /\ enabled THEN Unavailable(drained) ELSE drained
     ELSE advanced' = drained /\ UNCHANGED <<child, worker>>
  /\ UNCHANGED <<monitor, enabled, stop, reader, timer, latest, faults, switches>>

\* The host has ended and the readers are joined, their lines are thrown away.
\* (mutant) Its last readings stay.
Reap_Mutant ==
  /\ worker = "reaping"
  /\ child' = "none" /\ reader' = FALSE /\ lines' = <<>> /\ late' = FALSE
  /\ worker' = "pausing"
  /\ UNCHANGED <<monitor, enabled, stop, advanced, timer, latest, faults, switches>>
Reap ==
  /\ worker = "reaping"
  /\ child' = "none" /\ reader' = FALSE /\ lines' = <<>> /\ late' = FALSE
  /\ worker' = "pausing"
  /\ advanced' = IF stop THEN advanced ELSE Unavailable(advanced)
  /\ UNCHANGED <<monitor, enabled, stop, timer, latest, faults, switches>>

\* sleep_interruptible, after every host.
Pause ==
  /\ worker = "pausing"
  /\ worker' = "ready"
  /\ UNCHANGED <<monitor, enabled, stop, child, reader, lines, late, advanced, timer, latest,
                 faults, switches>>

LeaveLoop ==
  /\ worker = "ready" /\ stop
  /\ worker' = "off"
  /\ UNCHANGED <<monitor, enabled, stop, child, reader, lines, late, advanced, timer, latest,
                 faults, switches>>

WorkerSteps == Spawn \/ Watch \/ Reap \/ Pause \/ LeaveLoop
-----------------------------------------------------------------------------
(* The other workers *)

\* The timing worker ends: a report, with nanoseconds if a snapshot named the
\* modules' data rate before, or an error.
ReadTimings(found) ==
  /\ timer = "reading"
  /\ timer' = "done"
  /\ advanced' = IF found
                 THEN [advanced EXCEPT !.timings = IF advanced.modules THEN "timed" ELSE "cycles"]
                 ELSE advanced
  /\ UNCHANGED <<monitor, enabled, stop, worker, child, reader, lines, late, latest, faults,
                 switches>>

\* AdvancedSnapshot::current: readings are shown while they are current and not too old.
Shown == advanced.fresh /\ ~late

\* A sample, the worker's or the window's, with what is shown of the host.
Sample ==
  /\ latest' = IF Shown THEN "full" ELSE "bare"
  /\ UNCHANGED <<monitor, enabled, stop, worker, child, reader, lines, late, advanced, timer,
                 faults, switches>>

\* runtime_apply_action and sync_runtime_lifecycle after it.
SetModule(state) ==
  /\ ~stop /\ state # monitor
  /\ switches' = switches + 1
  /\ monitor' = state
  /\ enabled' = (state = "active")
  /\ UNCHANGED <<stop, worker, child, reader, lines, late, advanced, timer, latest, faults>>

\* RunEvent::Exit, or an update: stop().
StopMonitor ==
  /\ ~stop
  /\ stop' = TRUE
  /\ UNCHANGED <<monitor, enabled, worker, child, reader, lines, late, advanced, timer,
                 latest, faults, switches>>
-----------------------------------------------------------------------------
\* Readings are not shown as current once the host that gave them is gone:
\* ended, given up, or switched off with the module.
NoStaleReading == worker \in {"ready", "pausing"} /\ ~stop => ~advanced.fresh

\* Readings come back whatever a host did, also one that keeps writing lines,
\* or whose reader is gone: unless the module is off, there is no runtime or
\* the application stops.
Reading == ~enabled \/ stop \/ worker = "off" \/ advanced.fresh

\* No host is left running once the module is off or the application stops.
HostFollows == (enabled /\ ~stop) \/ child = "none"
=============================================================================

----------------------------- MODULE CccDaemon -----------------------------
(***************************************************************************)
(* Control of the shared CocoIndex daemon (src-tauri/src/ccc_daemon.rs):   *)
(* inspection by its PID file and by a scan of the processes, start, stop  *)
(* and restart through its command line tool, the removal of a stale PID   *)
(* file and a forced stop.  One call at a time (the window's cccBusy).     *)
(*                                                                         *)
(* The daemon and its tool are external: other programs start and stop the *)
(* daemon too, it may crash, and it writes its PID file some time after it *)
(* started.  A file is read at one moment and the processes at another.    *)
(***************************************************************************)
EXTENDS ProcessControl

CONSTANTS
  Markers,    \* what the PID file may hold at first
  MaxCalls,   \* bound: management calls
  MaxWaits    \* bound: rounds of a wait before its time is over

VARIABLES
  marker,   \* daemon.pid: a number, "malformed", or None when there is none
  call,     \* the management call in work, or Hung
  calls     \* bound counter

ccc == <<marker, call, calls>>

Hung == [op |-> "none"]

InitCcc ==
  /\ marker \in IF service = "daemon" THEN Markers ELSE {None}
  /\ call = Hung /\ calls = 0

In(at) == call # Hung /\ call.at = at

\* validate_process_identity.
Daemon(p) == p \in Alive /\ procs[p].exe = "daemon"

\* A wait begins with no rounds behind it.
Goto(at) == call' = [call EXCEPT !.at = at, !.rounds = 0]

Answered == call' = Hung

\* A wait's loop: another round, unless its time is over.
\* (mutant) The elapsed time is not looked at.
Again_Mutant(at) == call' = [call EXCEPT !.at = "read"]
Again(at) == /\ call.rounds < MaxWaits
             /\ call' = [call EXCEPT !.at = "read", !.rounds = @ + 1]

\* inspect_at, then at the point "then": the PID file is read...
Inspect(then) == call' = [call EXCEPT !.at = "read", !.then = then, !.rounds = 0]

ReadMarker(file) ==
  /\ In("read")
  /\ call' = [call EXCEPT !.at = "look", !.file = file]
  /\ UNCHANGED <<table, control, marker, calls>>

\* ... and the processes are looked at: recover_unique_daemon when the file
\* does not lead to a process.
Found(state, p, stale) == [state |-> state, pid |-> p, stale |-> stale]

Recovered(file) ==
  LET daemons == {p \in Pids : Daemon(p)} IN
  CASE Cardinality(daemons) = 1 -> Found("running", CHOOSE p \in daemons : TRUE, None)
    [] Cardinality(daemons) > 1 -> Found("unavailable", None, None)
    [] OTHER -> IF file = None THEN Found("stopped", None, None)
                ELSE Found("stale", None, file)

Status(file) ==
  CASE file = "unreadable" -> Found("unavailable", None, None)
    [] file \in Alive /\ Daemon(file) -> Found("running", file, None)
    [] file \in Alive /\ ~Daemon(file) -> Found("mismatch", file, None)
    [] OTHER -> Recovered(file)

\* cleanup_stale_pid: nothing to do unless the state is StalePid.
CleanUp(status, next) ==
  call' = IF status.state = "stale"
          THEN [call EXCEPT !.at = "check", !.stale = status.stale, !.then = next]
          ELSE [call EXCEPT !.at = next, !.rounds = 0]

\* What the call does with an inspection: manage_daemon and its three operations.
Decide(s) ==
  IF s.state \in {"mismatch", "unavailable"} THEN Answered
  ELSE CASE call.op = "start" ->
              IF s.state = "running" THEN Answered ELSE CleanUp(s, "start")
         [] call.op = "stop" ->
              IF s.state = "running"
              THEN call' = [call EXCEPT !.at = "stop", !.expected = s.pid]
              ELSE CleanUp(s, "last")
         [] call.op = "restart" ->
              IF s.state = "running"
              THEN call' = [call EXCEPT !.at = "restart", !.expected = s.pid]
              ELSE CleanUp(s, "again")

\* wait_for_stopped; its failure leads to the forced stop, the second time to the end.
Stopped(s) ==
  LET failed == IF call.then = "stopped" THEN Inspect("force") ELSE Answered IN
  CASE s.state = "stopped" -> IF call.then = "killed" /\ call.op = "restart"
                              THEN Inspect("tidy") ELSE Answered
    [] s.state = "stale" -> CleanUp(s, IF call.then = "killed" /\ call.op = "restart"
                                       THEN "tidied" ELSE "last")
    [] s.state = "mismatch" -> failed
    [] OTHER -> Again(call.then) \/ failed

\* wait_for_state(Running), after the tool was asked to start it.
Started(s) ==
  CASE s.state \in {"running", "mismatch"} -> Answered
    [] OTHER -> Again(call.then) \/ Answered

\* wait_for_restarted.
Restarted(s) ==
  CASE s.state = "running" /\ s.pid # call.expected -> Answered
    [] s.state = "mismatch" -> Inspect("current")
    [] OTHER -> Again(call.then) \/ Inspect("current")

\* restart_daemon when the tool did not restart it in time.
Current(s) ==
  CASE s.state = "running" /\ s.pid = call.expected -> Inspect("force")
    [] s.state = "mismatch" -> Answered
    [] OTHER -> Inspect("tidy")

\* force_kill_after_revalidation: the verified daemon of the expected number.
ForceKill(s) ==
  IF s.state = "running" /\ s.pid = call.expected
  THEN call' = [call EXCEPT !.at = "stamp", !.process = procs[s.pid]]
  ELSE Answered

LookUp ==
  /\ In("look")
  /\ LET s == Status(call.file) IN
     CASE call.then = "decide" -> Decide(s)
       [] call.then \in {"stopped", "killed"} -> Stopped(s)
       [] call.then = "started" -> Started(s)
       [] call.then = "restarted" -> Restarted(s)
       [] call.then = "current" -> Current(s)
       [] call.then = "force" -> ForceKill(s)
       [] call.then = "gone" -> CleanUp(s, "afterKill")
       [] call.then = "tidy" -> CleanUp(s, "start")
       [] call.then = "again" ->
            IF s.state = "running" THEN Answered ELSE CleanUp(s, "start")
       [] call.then = "last" -> Answered
  /\ covered' = covered \cup
       (IF call'.op # "none" /\ call'.at = "stamp" THEN {procs[call.expected].born} ELSE {})
  /\ UNCHANGED <<service, procs, births, held, touched, control, marker, calls>>

\* The points that only inspect.
InspectAgain ==
  /\ \/ In("last") /\ Inspect("last")
     \/ In("again") /\ Inspect("again")
     \/ In("tidied") /\ Inspect("tidy")
     \/ In("afterKill") /\ Inspect("killed")
  /\ UNCHANGED <<table, control, marker, calls>>
-----------------------------------------------------------------------------
(* A stale PID file *)

\* cleanup_marker_if_matches, or the same for a malformed file: it is read
\* again, and its number must still be missing; a failure is the call's, but
\* for the first wait for the stop, which goes on to force it.
CheckMarker(file) ==
  /\ In("check")
  /\ IF file = None THEN Goto(call.then)
     ELSE IF file = call.stale /\ file \notin Alive THEN Goto("remove")
     ELSE IF call.op = "stop" /\ call.then = "last" /\ call.expected # None /\ ~call.forced
          THEN Inspect("force")
     ELSE Answered
  /\ UNCHANGED <<table, control, marker, calls>>

RemoveMarker ==
  /\ In("remove")
  /\ marker' = None
  /\ Goto(call.then)
  /\ UNCHANGED <<table, control, calls>>
-----------------------------------------------------------------------------
(* The command line tool, run_ccc: bounded, and it may fail or be ended after *)
(* any part of its work                                                       *)

DaemonStarts(p) == Start(p, "daemon", Shell, {})

Stops(p) == Daemon(p) /\ Exit(p)

\* ccc daemon status: starts the daemon unless one runs.
ToolStarts(ok) ==
  /\ In("start")
  /\ \/ UNCHANGED table
     \/ (\A q \in Pids : ~Daemon(q)) /\ \E p \in Pids : DaemonStarts(p)
  /\ IF ok THEN Inspect("started") ELSE Answered
  /\ UNCHANGED <<control, marker, calls>>

\* ccc daemon stop: its result is not looked at.
ToolStops ==
  /\ In("stop")
  /\ \/ UNCHANGED <<table, marker>>
     \/ \E p \in Pids : Stops(p) /\ marker' = IF marker = p THEN None ELSE marker
  /\ Inspect("stopped")
  /\ UNCHANGED <<control, calls>>

\* ccc daemon restart: it stops the daemon, and then starts one or fails to.
ToolRestarts ==
  /\ In("restart")
  /\ \/ UNCHANGED <<table, marker>> /\ Inspect("restarted")
     \/ /\ \E p \in Pids : Stops(p) /\ marker' = IF marker = p THEN None ELSE marker
        /\ Goto("restarting")
  /\ UNCHANGED <<control, calls>>
ToolRestarts2 ==
  /\ In("restarting")
  /\ \/ UNCHANGED table
     \/ (\A q \in Pids : ~Daemon(q)) /\ \E p \in Pids : DaemonStarts(p)
  /\ Inspect("restarted")
  /\ UNCHANGED <<control, marker, calls>>
-----------------------------------------------------------------------------
(* The forced stop *)

\* The identity of the inspection with the exact creation time the number has
\* now goes to terminate_process_tree.
ForceStop ==
  /\ In("stamp")
  /\ IF call.expected \in Alive
     THEN /\ task' = [op |-> "tree", step |-> "open",
                      id |-> Identity(call.expected, call.process.born,
                                      procs[call.expected].born, call.process.exe)]
          /\ outcome' = "none"
          /\ call' = [call EXCEPT !.at = "ending", !.forced = TRUE, !.process = None]
     ELSE Answered /\ UNCHANGED <<task, outcome>>
  /\ UNCHANGED <<table, tasks, marker, calls>>

ForceEnded ==
  /\ In("ending") /\ task = Free
  /\ IF outcome = "ok" THEN Goto("wait") ELSE Answered
  /\ UNCHANGED <<table, control, marker, calls>>

\* Until the number is missing, for at most five seconds.
WaitGone ==
  /\ In("wait")
  /\ IF call.expected \in Alive
     THEN \/ call.rounds < MaxWaits /\ call' = [call EXCEPT !.rounds = @ + 1]
          \/ Answered
     ELSE Inspect("gone")
  /\ UNCHANGED <<table, control, marker, calls>>
-----------------------------------------------------------------------------
\* ccc.start, ccc.stop and ccc.restart of runtime_dispatch_inner; the dialog of
\* the last two names what an inspection found, which the call does not use.
Manage(op) ==
  /\ call = Hung /\ calls < MaxCalls
  /\ calls' = calls + 1
  /\ call' = [op |-> op, at |-> "read", then |-> "decide", file |-> None, stale |-> None,
              expected |-> None, process |-> None, forced |-> FALSE, rounds |-> 0]
  /\ UNCHANGED <<table, control, marker>>

\* The daemon writes its number some time after it started.
WriteMarker(p) ==
  /\ Daemon(p) /\ marker # p
  /\ marker' = p
  /\ UNCHANGED <<table, control, call, calls>>

CallSteps ==
  \/ \E file \in {marker, "unreadable"} : ReadMarker(file)
  \/ LookUp \/ InspectAgain
  \/ (\E file \in {marker, "unreadable"} : CheckMarker(file)) \/ RemoveMarker
  \/ (\E ok \in BOOLEAN : ToolStarts(ok)) \/ ToolStops \/ ToolRestarts \/ ToolRestarts2
  \/ ForceStop \/ ForceEnded \/ WaitGone
=============================================================================

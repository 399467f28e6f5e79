--------------------------- MODULE ProcessControl ---------------------------
(***************************************************************************)
(* process.close, process.terminate and process.terminateTree              *)
(* (src-tauri/src/lib.rs, process_control.rs): one request at a time, the  *)
(* window's gpuResidencyBusy flag sees to that.  Terminations ask the      *)
(* operator first, in a dialog that stays open while processes come and    *)
(* go; the tree is listed by parent numbers, captured, validated as a      *)
(* whole and ended from its leaves, and the first failure stops it.        *)
(* The forced stop of the shared daemon (CccDaemon) uses the same code.    *)
(***************************************************************************)
EXTENDS ProcessTable

CONSTANTS
  MaxTasks   \* bound: requests of the window

VARIABLES
  task,      \* the request in work, or Free
  outcome,   \* of the last one: "none", "ok" or "failed"
  tasks      \* bound counter

control == <<task, outcome, tasks>>

Free == [op |-> "none"]

At(step) == task # Free /\ task.step = step

Step(step) == task' = [task EXCEPT !.step = step]

Closed == held' = held \ {task.id.pid}

Answer(what) == task' = Free /\ outcome' = what /\ UNCHANGED tasks

InitControl == task = Free /\ outcome = "none" /\ tasks = 0

\* runtime_dispatch_inner for a process operation the profile authorises; the
\* window names a process it was shown.
Request(op, p) ==
  /\ task = Free /\ tasks < MaxTasks /\ p \in Alive
  /\ tasks' = tasks + 1 /\ outcome' = "none"
  /\ task' = [op |-> op, id |-> IdentityOf(p),
              step |-> IF op = "close" THEN "open" ELSE "dialog"]
  /\ covered' = covered \cup (IF op = "close" THEN {procs[p].born} ELSE {})
  /\ UNCHANGED <<service, procs, births, held, touched>>

\* require_native_confirmation.
Confirm ==
  /\ At("dialog")
  /\ Step("open")
  /\ covered' = covered \cup {task.id.born}
  /\ UNCHANGED <<service, procs, births, held, touched, outcome, tasks>>
Cancel == At("dialog") /\ Answer("failed") /\ UNCHANGED table

\* VerifiedProcessHandle::open, of the process itself or of the tree's root.
OpenRoot ==
  /\ At("open") /\ task.op \in {"close", "tree"}
  /\ IF Verified(task.id)
     THEN /\ Step(IF task.op = "close" THEN "windows" ELSE "list")
          /\ held' = held \cup {task.id.pid}
          /\ UNCHANGED <<service, procs, births, covered, touched, outcome, tasks>>
     ELSE Answer("failed") /\ UNCHANGED table
-----------------------------------------------------------------------------
(* close_process *)

\* WM_CLOSE is posted to the windows of the number, or it has none.
PostClose(windows) ==
  /\ At("windows")
  /\ IF windows THEN Step("wait") /\ UNCHANGED <<held, outcome, tasks>>
     ELSE Answer("failed") /\ Closed
  /\ UNCHANGED <<service, procs, births, covered, touched>>

\* It left within GRACEFUL_CLOSE_TIMEOUT, or not.
CloseWaited ==
  /\ At("wait")
  /\ Answer(IF task.id.pid \in Alive THEN "failed" ELSE "ok")
  /\ Closed
  /\ UNCHANGED <<service, procs, births, covered, touched>>
-----------------------------------------------------------------------------
(* terminate_process *)

Terminate(gone) ==
  /\ At("open") /\ task.op = "terminate"
  /\ IF Verified(task.id)
     THEN /\ Ended(task.id.pid, gone)
          /\ Answer(IF gone THEN "ok" ELSE "failed")
          /\ UNCHANGED <<service, births, held, covered>>
     ELSE Answer("failed") /\ UNCHANGED table
-----------------------------------------------------------------------------
(* terminate_process_tree *)

\* process_tree_pairs.
Pairs == [p \in Alive |-> procs[p].parent]

\* derive_tree_depths: how many parent numbers lead from a number to the root, for
\* all the numbers from which they do.
Depths(pairs, root) ==
  {depths \in UNION {[tree -> 0..Cardinality(Pids)] : tree \in SUBSET (DOMAIN pairs \cup {root})} :
     /\ root \in DOMAIN depths /\ depths[root] = 0
     /\ \A p \in DOMAIN depths \ {root} :
          pairs[p] \in DOMAIN depths /\ depths[p] = depths[pairs[p]] + 1
     /\ \A p \in DOMAIN pairs \ DOMAIN depths : pairs[p] \notin DOMAIN depths}

\* process_tree_targets: the listing...
ListTree ==
  /\ At("list")
  /\ LET root == task.id.pid IN
     \E depths \in Depths(Pairs, root) :
       /\ task' = [op |-> "tree", id |-> task.id, step |-> "look", depths |-> depths,
                   parents |-> [p \in DOMAIN depths |->
                                  IF p = root THEN None ELSE Pairs[p]]]
       /\ covered' = covered \cup {procs[p].born : p \in (DOMAIN depths \cap Alive) \ {root}}
  /\ UNCHANGED <<service, procs, births, held, touched, outcome, tasks>>

\* ... then what sysinfo knows of each...
LookAtTree ==
  /\ At("look")
  /\ LET others == DOMAIN task.depths \ {task.id.pid} IN
     IF others \subseteq Alive
     THEN /\ task' = [op |-> "tree", id |-> task.id, step |-> "stamp",
                      depths |-> task.depths, parents |-> task.parents,
                      seen |-> [p \in others |-> procs[p]]]
          /\ UNCHANGED <<table, outcome, tasks>>
     ELSE Answer("failed") /\ Closed /\ UNCHANGED <<service, procs, births, covered, touched>>

\* ... and its exact creation time, read by its number.
StampTree ==
  /\ At("stamp")
  /\ IF DOMAIN task.seen \subseteq Alive
     THEN /\ task' = [op |-> "tree", id |-> task.id, step |-> "validate",
                      depths |-> task.depths,
                      targets |->
                        {[id |-> task.id, parent |-> None]} \cup
                        {[id |-> Identity(p, task.seen[p].born, procs[p].born,
                                          task.seen[p].exe),
                          parent |-> task.parents[p]] : p \in DOMAIN task.seen}]
          /\ UNCHANGED <<table, outcome, tasks>>
     ELSE Answer("failed") /\ Closed /\ UNCHANGED <<service, procs, births, covered, touched>>

\* validate_tree_target.
ValidTarget(t) ==
  /\ Verified(t.id)
  /\ t.parent # None => procs[t.id.pid].parent = t.parent

\* All of them are valid before the first is ended.
ValidateTree ==
  /\ At("validate")
  /\ IF \A t \in task.targets : ValidTarget(t)
     THEN Step("end") /\ UNCHANGED <<table, outcome, tasks>>
     ELSE Answer("failed") /\ Closed /\ UNCHANGED <<service, procs, births, covered, touched>>

\* The deepest first; those of one depth have an order that does not matter.
NextTargets ==
  {t \in task.targets : \A u \in task.targets :
     task.depths[u.id.pid] <= task.depths[t.id.pid]}

EndTarget(t, gone) ==
  /\ At("end") /\ t \in NextTargets
  /\ IF ValidTarget(t)
     THEN /\ Ended(t.id.pid, gone)
          /\ IF ~gone THEN Answer("failed") /\ Closed
             ELSE IF task.targets = {t} THEN Answer("ok") /\ Closed
             ELSE /\ task' = [task EXCEPT !.targets = @ \ {t}]
                  /\ UNCHANGED <<held, outcome, tasks>>
     ELSE Answer("failed") /\ Closed /\ UNCHANGED <<procs, touched>>
  /\ UNCHANGED <<service, births, covered>>

EndTree == At("end") /\ \E t \in task.targets, gone \in BOOLEAN : EndTarget(t, gone)

TreeSteps == OpenRoot \/ ListTree \/ LookAtTree \/ StampTree \/ ValidateTree \/ EndTree

TaskSteps == TreeSteps \/ (\E w \in BOOLEAN : PostClose(w)) \/ CloseWaited
             \/ (\E gone \in BOOLEAN : Terminate(gone))
=============================================================================

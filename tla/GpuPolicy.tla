----------------------------- MODULE GpuPolicy -----------------------------
(***************************************************************************)
(* GPU residency (src-tauri/src/gpu_residency.rs): rules by executable,    *)
(* written once to every process of it by whoever refreshes the snapshot,  *)
(* the worker's thread or the window's request; and the commands that      *)
(* write one process, save or forget its rule and undo that.               *)
(* One executable stands for them all.  One command at a time (the         *)
(* window's gpuResidencyBusy); refreshes run beside it and each other.     *)
(* The store plugin is the one of RuntimeProfile (external).               *)
(* The code tells processes under one number apart by the second they      *)
(* started in: a number is taken not to be given twice within a second.    *)
(***************************************************************************)
EXTENDS ProcessTable, Functions

CONSTANTS
  Refreshers,   \* threads in collect_snapshot, the worker's is "worker"
  Priorities,   \* pairs of GPU and RAM priorities a command may ask for
  UndoLimit,    \* MAX_UNDO_ENTRIES
  MaxPolicies,  \* bound: commands
  MaxIncidents  \* bound: failed saves, rules too many, new builds, crashes, refreshes of
                \* others than the worker and processes the counters do not name

ASSUME PolicyAssumption == Priorities \subseteq STRING

VARIABLES
  rules,      \* the rule of the executable in memory, or None
  ruleStore, ruleDisk,
  applied,    \* applied_instances
  undo,       \* process -> what undo_policy restores
  views,      \* refresher -> where it is and what it saw
  writer,     \* the refresher with the lock of applied_instances, or None
  policy,     \* the command in work, or NoPolicy
  verdict,    \* of the last one: "none", "ok", or the error: "failed", "refused", "unread"
  before,     \* history: the rule when it began, kept when it failed or was refused
  build,      \* the executable's content on the disk
  policies, incidents  \* bound counters

gpu == <<rules, ruleStore, ruleDisk, applied, undo, views, writer, policy, verdict,
         before, build, policies, incidents>>

Game == "game"
Away == [at |-> "away"]
NoPolicy == [op |-> "none"]

\* A rule may be left from an earlier run of the application.
InitGpu ==
  /\ ruleDisk \in {None} \cup
       (IF service = "gpu" THEN [prio : Priorities, build : {0}] ELSE {})
  /\ rules = ruleDisk /\ ruleStore = ruleDisk
  /\ applied = {} /\ undo = <<>> /\ writer = None
  /\ views = [r \in Refreshers |-> Away]
  /\ policy = NoPolicy /\ verdict = "none" /\ before = None
  /\ build = 0 /\ policies = 0 /\ incidents = 0

Incident == incidents < MaxIncidents /\ incidents' = incidents + 1

Wrote(p, prio) ==
  /\ procs' = [procs EXCEPT ![p].prio = prio]
  /\ touched' = touched \cup {procs[p].born}

\* The key of applied_instances and of the undo map: number and second of the
\* start.
\* (mutant) The number alone.
Key_Mutant(p, born) == <<p, 0>>
Key(p, born) == <<p, born>>

Keys(seen) == {Key(p, seen[p].born) : p \in DOMAIN seen}
-----------------------------------------------------------------------------
(* collect_snapshot *)

\* The counters are read, the rules cloned and the processes listed; a change
\* between these reads is as one before or after them, and a collector that
\* fails changes nothing...
Collect(r) ==
  /\ views[r] = Away /\ IF r = "worker" THEN UNCHANGED incidents ELSE Incident
  /\ views' = [views EXCEPT ![r] =
       [at |-> "enter", rule |-> rules, left |-> Alive,
        seen |-> [p \in Alive |-> [born |-> procs[p].born, exe |-> procs[p].exe]]]]
  /\ covered' = covered \cup
       {procs[p].born : p \in {q \in Alive : rules # None /\ procs[q].exe = Game}}
  /\ UNCHANGED <<service, procs, births, held, touched, rules, ruleStore, ruleDisk, applied,
                 undo, writer, policy, verdict, before, build, policies>>

\* ... what is remembered of others is forgotten, under the lock...
Enter(r) ==
  /\ views[r].at = "enter" /\ writer = None
  /\ writer' = r
  /\ views' = [views EXCEPT ![r].at = "write"]
  /\ undo' = Restrict(undo, DOMAIN undo \cap Keys(views[r].seen))
  /\ applied' = applied \cap Keys(views[r].seen)
  /\ UNCHANGED <<table, rules, ruleStore, ruleDisk, policy, verdict, before, build,
                 policies, incidents>>

\* ... the processes the counters do not name, because they do not use the GPU,
\* are left out...
PassOver(r, p) ==
  /\ views[r].at = "write" /\ p \in views[r].left /\ Incident
  /\ views' = [views EXCEPT ![r].left = @ \ {p}]
  /\ UNCHANGED <<table, rules, ruleStore, ruleDisk, applied, undo, writer, policy, verdict,
                 before, build, policies>>

\* ... and to the others a rule is written that they have not got, if their
\* executable is the one it was made for.
WriteRule(r, p) ==
  LET seen == views[r].seen[p]
      rule == views[r].rule
      key == Key(p, seen.born)
      writes == /\ rule # None /\ seen.exe = Game
                /\ key \notin applied
                /\ rule.build = build
                /\ p \in Alive
                /\ Verified(Identity(p, seen.born, procs[p].born, seen.exe))
  IN /\ views[r].at = "write" /\ p \in views[r].left
     /\ views' = [views EXCEPT ![r].left = @ \ {p}]
     /\ IF writes THEN Wrote(p, rule.prio) /\ applied' = applied \cup {key}
        ELSE UNCHANGED <<procs, touched, applied>>
     /\ UNCHANGED <<service, births, held, covered, rules, ruleStore, ruleDisk, undo, writer,
                    policy, verdict, before, build, policies, incidents>>

Leave(r) ==
  /\ views[r].at = "write" /\ views[r].left = {}
  /\ writer' = None
  /\ views' = [views EXCEPT ![r] = Away]
  /\ UNCHANGED <<table, rules, ruleStore, ruleDisk, applied, undo, policy, verdict, before,
                 build, policies, incidents>>

Refreshes(r) ==
  /\ views[r] # Away
  /\ Enter(r) \/ Leave(r) \/ \E p \in Pids : PassOver(r, p) \/ WriteRule(r, p)
-----------------------------------------------------------------------------
(* The commands *)

Ask(command) ==
  /\ policy = NoPolicy /\ policies < MaxPolicies
  /\ policies' = policies + 1
  /\ policy' = command /\ verdict' = "none" /\ before' = rules
  /\ UNCHANGED <<rules, ruleStore, ruleDisk, applied, undo, views, writer, build, incidents>>

\* gpu.residency.setProcessPolicy, undoProcessPolicy (of a process a command was
\* applied to) and removeRule.
SetPolicy(p, prio, persist) ==
  /\ p \in Alive
  /\ Ask([op |-> "set", at |-> "write", id |-> IdentityOf(p), prio |-> prio, persist |-> persist])
  /\ covered' = covered \cup {procs[p].born}
  /\ UNCHANGED <<service, procs, births, held, touched>>
UndoPolicy(p) ==
  /\ p \in Alive /\ Key(p, procs[p].born) \in DOMAIN undo
  /\ Ask([op |-> "undo", at |-> "write", id |-> IdentityOf(p)])
  /\ UNCHANGED table
RemoveRule ==
  /\ rules # None
  /\ Ask([op |-> "remove", at |-> "save", candidate |-> None])
  /\ UNCHANGED table

PolicyKey == Key(policy.id.pid, policy.id.born)

Done(what) ==
  /\ policy' = NoPolicy /\ verdict' = what
  /\ before' = IF what \in {"failed", "refused"} THEN before ELSE None

\* apply_policy and undo_policy write the process first, and keep what it had.
WritePolicy ==
  /\ policy # NoPolicy /\ policy.at = "write"
  /\ LET undone == policy.op = "undo"
         possible == Verified(policy.id) /\ (undone => PolicyKey \in DOMAIN undo)
         prio == IF undone THEN undo[PolicyKey].prio ELSE policy.prio
         candidate == IF undone THEN undo[PolicyKey].rule
                      ELSE IF policy.persist THEN [prio |-> prio, build |-> build]
                      ELSE None
     IN IF possible
        THEN /\ Wrote(policy.id.pid, prio)
             /\ policy' = [op |-> policy.op, at |-> "save", id |-> policy.id,
                           candidate |-> candidate, previous |-> procs[policy.id.pid].prio]
             /\ UNCHANGED <<verdict, before>>
        ELSE Done("refused") /\ UNCHANGED <<procs, touched>>
  /\ UNCHANGED <<service, births, held, covered, rules, ruleStore, ruleDisk, applied, undo,
                 views, writer, build, policies, incidents>>

\* The undo map when a command was applied: a full one loses any other entry.
Remembered(entry) ==
  IF PolicyKey \in DOMAIN undo \/ Cardinality(DOMAIN undo) < UndoLimit
  THEN undo' = [k \in DOMAIN undo \cup {PolicyKey} |->
                  IF k = PolicyKey THEN entry ELSE undo[k]]
  ELSE \E old \in DOMAIN undo :
         undo' = [k \in (DOMAIN undo \ {old}) \cup {PolicyKey} |->
                    IF k = PolicyKey THEN entry ELSE undo[k]]

\* persist_rules, then the new rules take over; an undo has still to read the
\* priorities for its answer.
SavePolicy ==
  /\ policy # NoPolicy /\ policy.at = "save"
  /\ ruleStore' = policy.candidate /\ ruleDisk' = policy.candidate
  /\ rules' = policy.candidate
  /\ CASE policy.op = "set" -> Remembered([prio |-> policy.previous, rule |-> rules])
       [] policy.op = "undo" -> undo' = Restrict(undo, DOMAIN undo \ {PolicyKey})
       [] policy.op = "remove" -> UNCHANGED undo
  /\ IF policy.op = "undo"
     THEN policy' = [policy EXCEPT !.at = "read"] /\ UNCHANGED <<verdict, before>>
     ELSE Done("ok")
  /\ UNCHANGED <<table, applied, views, writer, build, policies, incidents>>

\* The process may have ended since: an error, though the undo is done.
ReadBack ==
  /\ policy # NoPolicy /\ policy.at = "read"
  /\ Done(IF Verified(policy.id) THEN "ok" ELSE "unread")
  /\ UNCHANGED <<table, rules, ruleStore, ruleDisk, applied, undo, views, writer, build,
                 policies, incidents>>

\* validate_rule_store refuses one rule too many: for a command before it wrote
\* the process, for an undo after that and without a roll back.
TooManyRules ==
  /\ policy # NoPolicy /\ rules = None /\ Incident
  /\ \/ policy.op = "set" /\ policy.at = "write" /\ policy.persist /\ Done("refused")
     \/ policy.op = "undo" /\ policy.at = "save" /\ policy.candidate # None /\ Done("failed")
  /\ UNCHANGED <<table, rules, ruleStore, ruleDisk, applied, undo, views, writer, build,
                 policies>>

\* The store does not open, or the save fails after the store was changed.
\* (mutant) The new rules take over before they are saved.
SaveFails_Mutant ==
  /\ policy # NoPolicy /\ policy.at = "save" /\ Incident
  /\ ruleStore' \in {ruleStore, policy.candidate} /\ rules' = policy.candidate
  /\ IF policy.op = "remove" THEN Done("failed")
     ELSE policy' = [policy EXCEPT !.at = "rollback"] /\ UNCHANGED <<verdict, before>>
  /\ UNCHANGED <<table, ruleDisk, applied, undo, views, writer, build, policies>>
SaveFails ==
  /\ policy # NoPolicy /\ policy.at = "save" /\ Incident
  /\ ruleStore' \in {ruleStore, policy.candidate}
  /\ IF policy.op = "remove" THEN Done("failed")
     ELSE policy' = [policy EXCEPT !.at = "rollback"] /\ UNCHANGED <<verdict, before>>
  /\ UNCHANGED <<table, rules, ruleDisk, applied, undo, views, writer, build, policies>>

\* restore_process_priorities, which may find the process gone.
RollBack ==
  /\ policy # NoPolicy /\ policy.at = "rollback"
  /\ IF Verified(policy.id) THEN Wrote(policy.id.pid, policy.previous)
     ELSE UNCHANGED <<procs, touched>>
  /\ Done("failed")
  /\ UNCHANGED <<service, births, held, covered, rules, ruleStore, ruleDisk, applied, undo,
                 views, writer, build, policies, incidents>>

PolicySteps == WritePolicy \/ SavePolicy \/ ReadBack \/ RollBack
-----------------------------------------------------------------------------
\* The plugin writes some time after a set.
AutoSaveRules ==
  /\ ruleDisk # ruleStore /\ ruleDisk' = ruleStore
  /\ UNCHANGED <<table, rules, ruleStore, applied, undo, views, writer, policy, verdict, before,
                 build, policies, incidents>>

\* Another build of the executable replaces it on the disk.
Rebuild ==
  /\ Incident /\ build' = 1 - build
  /\ UNCHANGED <<table, rules, ruleStore, ruleDisk, applied, undo, views, writer, policy,
                 verdict, before, policies>>

\* The application crashes and starts again: load().
CrashAndLoad ==
  /\ Incident
  /\ rules' = ruleDisk /\ ruleStore' = ruleDisk
  /\ applied' = {} /\ undo' = <<>> /\ writer' = None
  /\ views' = [r \in Refreshers |-> Away]
  /\ Done("none")
  /\ UNCHANGED <<table, ruleDisk, build, policies>>
-----------------------------------------------------------------------------
\* What the operator was told is true: a policy that was applied is on the disk
\* for the next start, an error changed no rule in memory.  The one error that
\* says less than it should is that of an undo whose process could not be read
\* any more: that undo is done, in memory and on the disk (gpu_residency.rs:597).
PolicyAnswersTrue ==
  /\ verdict \in {"ok", "unread"} => ruleDisk = rules
  /\ verdict \in {"failed", "refused"} => rules = before

\* Every process of the executable a rule was made for was written to, by
\* whichever refresh or command.
RuleReached ==
  (rules # None /\ rules.build = build) =>
    \A p \in Alive : procs[p].exe = Game => procs[p].born \in touched
=============================================================================

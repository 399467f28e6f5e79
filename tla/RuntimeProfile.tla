--------------------------- MODULE RuntimeProfile ---------------------------
(***************************************************************************)
(* The operator's profile: RuntimeController (src-tauri/src/runtime.rs)    *)
(* holds it with a revision and an undo list, persists every change        *)
(* through the store plugin before it takes it over, and tells the window  *)
(* by an event; the window (src/core/workspace.tsx) keeps a canonical      *)
(* snapshot and a queue of actions it sends one by one, each with the      *)
(* revision it was made for.  GraphicsRuntimeManager::set_master changes   *)
(* the master GPU in the profile and in the registry.                      *)
(*                                                                         *)
(* Commands run on the main thread, one after another; answers and events  *)
(* reach the window on different ways.  The store plugin (external) keeps  *)
(* values in memory: set changes them, save, a timer after every set and   *)
(* an orderly exit write them to the disk.                                 *)
(***************************************************************************)
EXTENDS Naturals, Sequences, FiniteSets, SequencesExt

CONSTANTS
  Layouts,      \* what undoable actions change: widgets, layouts, bindings, grants
  Tastes,       \* what the others change: motion, console, telemetry interval
  Masters,      \* master GPUs; the registry holds the preference of one of them
  UndoLimit,    \* UNDO_LIMIT
  MaxActions,   \* bound: actions of the window
  MaxMasters,   \* bound: changes of the master GPU
  MaxFailures,  \* bound: saves that fail
  MaxStops,     \* bound: crashes and exits
  MaxEvents     \* bound: all of these four together

ASSUME ProfileAssumption ==
  /\ Layouts # {} /\ Tastes # {} /\ Masters # {}
  /\ UndoLimit \in Nat \ {0}
  /\ {MaxActions, MaxMasters, MaxFailures, MaxStops, MaxEvents} \subseteq Nat

VARIABLES
  \* The process
  up,          \* it runs
  profile, undo,
  store,       \* the profile in the store plugin's memory
  setting,     \* set_master between the registry and the profile, or Idle
  \* What survives it
  disk, registry,
  \* On the way
  requests, replies, events,
  \* The window
  canonical,   \* canonicalRef.current.profile
  pending,     \* pendingRef
  awaits,      \* what drain awaits: "nothing", "apply" or "bootstrap"
  \* History
  told,        \* action -> what the window was told of it
  applied,     \* actions the controller took over
  blind,       \* an action was applied to a profile its sender had not seen
  made, masters, failures, stops  \* bound counters

process == <<up, profile, undo, store, setting>>
lasting == <<disk, registry>>
ways    == <<requests, replies, events>>
window  == <<canonical, pending, awaits>>
history == <<told, applied, blind>>
bounds  == <<made, masters, failures, stops>>
vars    == <<process, lasting, ways, window, history, bounds>>

Workspaces == {"home", "monitor"}

Profile ==
  [layout : Layouts, taste : Tastes, monitor : BOOLEAN, active : Workspaces,
   master : Masters, revision : Nat]

\* default_profile.
Default ==
  [layout |-> CHOOSE l \in Layouts : TRUE, taste |-> CHOOSE t \in Tastes : TRUE,
   monitor |-> TRUE, active |-> "home", master |-> CHOOSE m \in Masters : TRUE,
   revision |-> 0]

Idle == [busy |-> FALSE]

\* is_undoable.
Undoable(a) == a.kind \in {"layout", "module"}

\* mutate_profile: what the validations let through, and what becomes of it.
Accepted(p, a) == a.kind = "workspace" /\ a.value = "monitor" => p.monitor

Mutated(p, a) ==
  CASE a.kind = "layout"    -> [p EXCEPT !.layout = a.value]
    [] a.kind = "taste"     -> [p EXCEPT !.taste = a.value]
    [] a.kind = "workspace" -> [p EXCEPT !.active = a.value]
    [] a.kind = "module"    ->
         [p EXCEPT !.monitor = a.value,
                   !.active = IF ~a.value /\ @ = "monitor" THEN "home" ELSE @]

\* The checkpoint of an undoable action.
Checkpointed(a) ==
  LET all == Append(undo, profile)
  IN IF ~Undoable(a) THEN undo
     ELSE IF Len(all) > UndoLimit THEN Tail(all) ELSE all

\* The candidate of apply_action, with the revision after the present one.
Candidate(a) ==
  [(IF a.kind = "undo" THEN Last(undo) ELSE Mutated(profile, a))
     EXCEPT !.revision = profile.revision + 1]

\* validate_expected_revision.
\* (mutant) The expected revision is not looked at.
Stale_Mutant(r) == FALSE
Stale(r) == r.expected # profile.revision

Init ==
  /\ up = TRUE /\ profile = Default /\ undo = <<>> /\ store = Default
  /\ setting = Idle
  /\ disk = Default /\ registry = Default.master
  /\ requests = {[kind |-> "load"]} /\ replies = {} /\ events = <<>>
  /\ canonical = Default /\ pending = <<>> /\ awaits = "nothing"
  /\ told = [i \in 1..MaxActions |-> "nothing"] /\ applied = {} /\ blind = FALSE
  /\ made = 0 /\ masters = 0 /\ failures = 0 /\ stops = 0
Room == made + masters + failures + stops < MaxEvents
-----------------------------------------------------------------------------
(* The window *)

\* drain(): the first action is sent with the revision of the canonical snapshot.
Sending(queue, snapshot) ==
  IF queue = <<>>
  THEN awaits' = "nothing" /\ UNCHANGED requests
  ELSE /\ awaits' = "apply"
       /\ requests' = requests \cup
            {[kind |-> "apply", action |-> Head(queue),
              expected |-> snapshot.revision, seen |-> snapshot]}

\* dispatch(action).
Dispatch(kind, value) ==
  /\ up /\ made < MaxActions /\ Room
  /\ made' = made + 1
  /\ pending' = Append(pending, [id |-> made', kind |-> kind, value |-> value])
  /\ IF awaits = "nothing" THEN Sending(pending', canonical)
     ELSE UNCHANGED <<awaits, requests>>
  /\ UNCHANGED <<process, lasting, replies, events, canonical, history,
                 masters, failures, stops>>

Dispatches ==
  \/ \E l \in Layouts : Dispatch("layout", l)
  \/ \E t \in Tastes : Dispatch("taste", t)
  \/ \E on \in BOOLEAN : Dispatch("module", on)
  \/ \E w \in Workspaces : Dispatch("workspace", w)
  \/ Dispatch("undo", "last")

Answer(kind, r) == up /\ r \in replies /\ r.kind = kind /\ replies' = replies \ {r}

\* The first bootstrap: the snapshot becomes canonical.
Loaded(r) ==
  /\ Answer("load", r)
  /\ canonical' = r.profile
  /\ UNCHANGED <<process, lasting, requests, events, pending, awaits, history, bounds>>

\* The action was applied: its snapshot becomes canonical, the next one goes.
Applied(r) ==
  /\ Answer("applied", r)
  /\ canonical' = r.profile
  /\ told' = [told EXCEPT ![Head(pending).id] = "applied"]
  /\ pending' = Tail(pending)
  /\ Sending(pending', canonical')
  /\ UNCHANGED <<process, lasting, events, applied, blind, bounds>>

\* It was refused: the window is told, and asks for the present snapshot.
Refused(r) ==
  /\ Answer("refused", r)
  /\ told' = [told EXCEPT ![Head(pending).id] = "refused"]
  /\ awaits' = "bootstrap"
  /\ requests' = requests \cup {[kind |-> "bootstrap"]}
  /\ UNCHANGED <<process, lasting, events, canonical, pending, applied, blind, bounds>>

\* (mutant) drain returns after an error.
Bootstrapped_Mutant(r) ==
  /\ Answer("bootstrap", r)
  /\ canonical' = r.profile
  /\ pending' = Tail(pending) /\ awaits' = "nothing"
  /\ UNCHANGED <<process, lasting, requests, events, history, bounds>>
Bootstrapped(r) ==
  /\ Answer("bootstrap", r)
  /\ canonical' = r.profile
  /\ pending' = Tail(pending)
  /\ Sending(pending', canonical')
  /\ UNCHANGED <<process, lasting, events, history, bounds>>

\* onSnapshot: an event replaces the canonical snapshot at any time.
SnapshotEvent ==
  /\ up /\ events # <<>>
  /\ canonical' = Head(events) /\ events' = Tail(events)
  /\ UNCHANGED <<process, lasting, requests, replies, pending, awaits, history, bounds>>

WindowReads ==
  \/ \E r \in replies : Loaded(r) \/ Applied(r) \/ Refused(r) \/ Bootstrapped(r)
  \/ SnapshotEvent
-----------------------------------------------------------------------------
(* The controller, on the main thread *)

\* persist_profile: the store is changed, and written unless that fails.
Persist(p, ok) ==
  /\ store' = p
  /\ IF ok THEN disk' = p /\ UNCHANGED failures
     ELSE failures < MaxFailures /\ Room /\ failures' = failures + 1 /\ UNCHANGED disk

Take(r) ==
  /\ up /\ ~setting.busy
  /\ r \in requests
  /\ requests' = requests \ {r}

\* runtime_bootstrap.
Bootstrap(r) ==
  /\ Take(r) /\ r.kind \in {"load", "bootstrap"}
  /\ replies' = replies \cup {[kind |-> r.kind, profile |-> profile]}
  /\ UNCHANGED <<process, lasting, events, window, history, bounds>>

\* runtime_apply_action, refused before anything is changed.
Refuse(r) ==
  /\ Take(r) /\ r.kind = "apply"
  /\ \/ Stale(r)
     \/ r.action.kind = "undo" /\ undo = <<>>
     \/ ~Accepted(profile, r.action)
  /\ replies' = replies \cup {[kind |-> "refused"]}
  /\ UNCHANGED <<process, lasting, events, window, history, bounds>>

Ready(r) ==
  /\ Take(r) /\ r.kind = "apply"
  /\ ~Stale(r)
  /\ r.action.kind = "undo" => undo # <<>>
  /\ Accepted(profile, r.action)

\* It is persisted and taken over.
Commit(r) ==
  /\ Ready(r)
  /\ Persist(Candidate(r.action), TRUE)
  /\ profile' = Candidate(r.action)
  /\ undo' = IF r.action.kind = "undo" THEN Front(undo) ELSE Checkpointed(r.action)
  /\ events' = Append(events, profile')
  /\ replies' = replies \cup {[kind |-> "applied", profile |-> profile']}
  /\ applied' = applied \cup {r.action.id}
  /\ blind' = (blind \/ r.seen # profile)
  /\ UNCHANGED <<up, setting, registry, window, told, made, masters, stops>>

\* The save fails: the controller keeps its profile, the store the candidate.
\* (mutant) The candidate is taken over before it is saved.
SaveFails_Mutant(r) ==
  /\ Ready(r)
  /\ Persist(Candidate(r.action), FALSE)
  /\ profile' = Candidate(r.action)
  /\ applied' = applied \cup {r.action.id}
  /\ replies' = replies \cup {[kind |-> "refused"]}
  /\ UNCHANGED <<up, undo, setting, registry, events, window, told, blind,
                 made, masters, stops>>
SaveFails(r) ==
  /\ Ready(r)
  /\ Persist(Candidate(r.action), FALSE)
  /\ replies' = replies \cup {[kind |-> "refused"]}
  /\ UNCHANGED <<up, profile, undo, setting, registry, events, window, history,
                 made, masters, stops>>

\* set_master for another adapter: the registry is written first...
WriteRegistry(m) ==
  /\ up /\ ~setting.busy
  /\ masters < MaxMasters /\ Room /\ masters' = masters + 1
  /\ m # profile.master
  /\ setting' = [busy |-> TRUE, master |-> m, previous |-> registry]
  /\ registry' = m
  /\ UNCHANGED <<up, profile, undo, store, disk, ways, window, history,
                 made, failures, stops>>

\* ... then the profile...
SetMaster ==
  LET candidate == [profile EXCEPT !.master = setting.master, !.revision = @ + 1] IN
  /\ up /\ setting.busy
  /\ Persist(candidate, TRUE)
  /\ profile' = candidate
  /\ events' = Append(events, candidate)
  /\ setting' = Idle
  /\ UNCHANGED <<up, undo, registry, requests, replies, window, history,
                 made, masters, stops>>

\* ... or the registry is rolled back.
RollBack ==
  LET candidate == [profile EXCEPT !.master = setting.master, !.revision = @ + 1] IN
  /\ up /\ setting.busy
  /\ Persist(candidate, FALSE)
  /\ registry' = setting.previous
  /\ setting' = Idle
  /\ UNCHANGED <<up, profile, undo, ways, window, history, made, masters, stops>>

MainThread ==
  \/ \E r \in requests : Bootstrap(r) \/ Refuse(r) \/ Commit(r) \/ SaveFails(r)
  \/ SetMaster \/ RollBack
-----------------------------------------------------------------------------
(* The store plugin and the process *)

\* The plugin writes some time after a set.
AutoSave ==
  /\ up /\ disk # store
  /\ disk' = store
  /\ UNCHANGED <<process, registry, ways, window, history, bounds>>

\* The process ends: by a crash, or by an exit that writes the store.
Stop(orderly) ==
  /\ up /\ stops < MaxStops /\ Room /\ stops' = stops + 1
  /\ up' = FALSE
  /\ disk' = IF orderly THEN store ELSE disk
  /\ setting' = Idle
  /\ requests' = {} /\ replies' = {} /\ events' = <<>>
  /\ pending' = <<>> /\ awaits' = "nothing"
  /\ UNCHANGED <<profile, undo, store, registry, canonical, history, made, masters,
                 failures>>

\* load(): the profile on the disk, persisted again; the window starts with
\* the default profile and asks for the snapshot.
Start ==
  /\ ~up
  /\ up' = TRUE
  /\ profile' = disk /\ undo' = <<>> /\ store' = disk
  /\ requests' = {[kind |-> "load"]}
  /\ canonical' = Default
  /\ UNCHANGED <<setting, lasting, replies, events, pending, awaits, history, bounds>>

Next ==
  \/ Dispatches \/ WindowReads
  \/ MainThread \/ \E m \in Masters : WriteRegistry(m)
  \/ AutoSave \/ Stop(TRUE) \/ Stop(FALSE) \/ Start

Spec == Init /\ [][Next]_vars
FairSpec == Spec /\ WF_vars(WindowReads) /\ WF_vars(MainThread)
-----------------------------------------------------------------------------
\* An action is applied only to the very profile its sender had before it, also
\* when the master GPU, an undo or another action changed the profile since.
NoBlindWrite == ~blind

\* What the window was told of its actions is true and lasts: a refused one was
\* not applied, an applied one was, and the disk has it whenever the process
\* ends (the present profile, or a candidate that was refused after it).
AnswersAreTrue ==
  /\ \A i \in 1..MaxActions : /\ told[i] = "applied" => i \in applied
                              /\ told[i] = "refused" => i \notin applied
  /\ up => disk = profile \/ (failures > 0 /\ disk.revision = profile.revision + 1)

\* README.md:15, "transactional revisioned profiles": a change whose save failed
\* was refused, and the next start does not bring it.
RefusedIsForgotten == disk.revision <= profile.revision

\* Every action of the window is answered, whatever is refused before it: the
\* window makes finitely many, and its queue empties each time.
QueueDrains == []<>(up => pending = <<>>)
=============================================================================

---------------------------- MODULE ProcessTable ----------------------------
(***************************************************************************)
(* The processes of the machine as KeeMASH sees them: a process number     *)
(* names a process only while that lives, and the system gives it again,   *)
(* unless somebody holds a handle of the old process.  Everything KeeMASH  *)
(* does to a process goes through a handle it opened by number and then    *)
(* verified against an identity it was given (VerifiedProcessHandle in     *)
(* src-tauri/src/process_control.rs).                                      *)
(*                                                                         *)
(* The system itself is external.  A process is told from every other by   *)
(* its creation time, here its place in the order of all starts; seconds   *)
(* tell processes of one number apart as well as exact times do.           *)
(***************************************************************************)
EXTENDS Naturals, FiniteSets

CONSTANTS
  Pids,       \* the process numbers in play
  Shell,      \* the number of the parent nobody looks at
  Protected,  \* executables of critical, protected and KeeMASH processes
  Usual,      \* the priorities a process starts with
  Numbers,    \* bound: service -> numbers the system gives
  MaxBirths,  \* bound: service -> processes that are ever started
  None        \* no process, no file, no rule

\* Executables, each for its path; a game has rules, an app has none.
Programs == Protected \cup {"app", "daemon", "other", "game"}

\* A process, with the priorities KeeMASH writes as one.
Processes == [born : Nat, exe : Programs, parent : Pids \cup {Shell}, prio : STRING]

ASSUME TableAssumption ==
  /\ IsFiniteSet(Pids) /\ Shell \notin Pids
  /\ None \notin Pids \cup {Shell} \cup Processes
  /\ Usual \in STRING

VARIABLES
  service,   \* bound: the service a behaviour is about
  procs,     \* the process behind each number, or None
  births,    \* processes started so far
  held,      \* numbers kept from being given again by an open handle
  covered,   \* history: processes a confirmation, an identity or a rule names
  touched    \* history: processes KeeMASH ended or wrote to

table == <<service, procs, births, held, covered, touched>>

Alive == {p \in Pids : procs[p] # None}

Process(born, exe, parent) ==
  [born |-> born, exe |-> exe, parent |-> parent, prio |-> Usual]

\* ProcessIdentity: the number, the start in seconds and the exact one, the path.
Identity(p, started, born, exe) == [pid |-> p, started |-> started, born |-> born, exe |-> exe]

IdentityOf(p) == Identity(p, procs[p].born, procs[p].born, procs[p].exe)

\* blocked_process and IsProcessCritical.
Blocked(exe) == exe \in Protected

\* VerifiedProcessHandle::verify.
\* (mutant) The exact creation time is not compared.
Verified_Mutant(id) ==
  /\ id.pid \in Alive
  /\ procs[id.pid].exe = id.exe
  /\ ~Blocked(id.exe)
Verified(id) ==
  /\ id.pid \in Alive
  /\ procs[id.pid].born = id.born
  /\ id.started = id.born
  /\ procs[id.pid].exe = id.exe
  /\ ~Blocked(id.exe)

\* TerminateProcess on a verified handle: the process is gone when the wait
\* ends, or it is refused or takes longer.
Ended(p, gone) ==
  /\ procs' = [procs EXCEPT ![p] = IF gone THEN None ELSE @]
  /\ touched' = touched \cup {procs[p].born}

\* The system starts a process under a number nobody holds; what starts below a
\* number of the family is covered.
Start(p, exe, parent, family) ==
  /\ p \in Numbers[service] \ (Alive \cup held)
  /\ births < MaxBirths[service]
  /\ births' = births + 1
  /\ procs' = [procs EXCEPT ![p] = Process(births', exe, parent)]
  /\ covered' = covered \cup (IF parent \in family THEN {births'} ELSE {})
  /\ UNCHANGED <<service, held, touched>>

\* A process ends by itself.
Exit(p) ==
  /\ p \in Alive
  /\ procs' = [procs EXCEPT ![p] = None]
  /\ UNCHANGED <<service, births, held, covered, touched>>
=============================================================================

------------------------- MODULE HostServicesProofs -------------------------
(***************************************************************************)
(* KeeMASH touches no process that nothing covers, its answers to policy   *)
(* commands are true, and no readings are shown for a host that is gone:   *)
(* theorems about HostServices for any process numbers, first tables,      *)
(* refreshers and priorities, and for any bounds.                          *)
(*                                                                         *)
(* A process may have any number, so the invariant speaks of starts: what  *)
(* a request, a call, a view or an undo entry remembers of a process is    *)
(* covered (TaskInv, CallInv, ViewInv, UndoInv, CommandInv).  Members of a *)
(* tree are known by the numbers of their parents only; that whoever has a *)
(* member's number and its expected parent number is covered too (Below)   *)
(* depends on the steps by which processes change (Moves).                 *)
(***************************************************************************)
EXTENDS HostServices, FiniteSetTheorems, TLAPS

USE DEF table, control, ccc, gpu, sensors

(* The table: it holds processes, and what was touched was covered.        *)
TableInv ==
  /\ service \in Services
  /\ procs \in [Pids -> Processes \cup {None}] /\ births \in Nat
  /\ touched \subseteq covered

(* Whichever process has number p, if its parent's number is q it is covered. *)
Below(p, q) == procs[p] # None /\ procs[p].parent = q => procs[p].born \in covered

(* A request names a number; once it was confirmed, or an inspection gave  *)
(* the number, the process of that start is covered.                       *)
NamedInv ==
  /\ task.id.pid \in Pids
  /\ task.step = "dialog" => task.id.started = task.id.born
  /\ task.step # "dialog" => task.id.started \in covered

(* The shapes of a request: without a tree, listed, looked at, captured. *)
Asked ==
  /\ task.step \in {"dialog", "open", "windows", "wait", "list"}
  /\ task = [op |-> task.op, id |-> task.id, step |-> task.step]

(* The members of a listed tree other than its root. *)
Members == DOMAIN task.depths \ {task.id.pid}

(* A listed tree: its members have their expected parents.                 *)
ListedInv ==
  /\ task.op = "tree" /\ task.step \in {"look", "stamp"}
  /\ DOMAIN task.depths \subseteq Pids
  /\ DOMAIN task.parents = DOMAIN task.depths
  /\ \A p \in Members : task.parents[p] \in DOMAIN task.depths /\ Below(p, task.parents[p])
  /\ task.step = "stamp" => DOMAIN task.seen = Members

(* A captured tree: its root, and members with their expected parents.     *)
CapturedInv ==
  /\ task.op = "tree" /\ task.step \in {"validate", "end"}
  /\ task = [op |-> task.op, id |-> task.id, step |-> task.step,
             depths |-> task.depths, targets |-> task.targets]
  /\ DOMAIN task.depths \subseteq Pids
  /\ \A t \in task.targets :
       /\ t.id.pid \in Pids
       /\ \/ t.parent = None /\ t.id.started \in covered
          \/ t.parent \in DOMAIN task.depths /\ Below(t.id.pid, t.parent)

(* The request in work has one of the three shapes.                        *)
TaskInv == task # Free => NamedInv /\ (Asked \/ ListedInv \/ CapturedInv)

(* What a call of the daemon inspects for, and where it may go without.    *)
Inspections ==
  {"decide", "stopped", "killed", "started", "restarted", "current", "force", "gone", "tidy",
   "again", "last"}

(* What a call of the daemon does next once the stale file is gone.        *)
Points == {"start", "last", "again", "tidied", "afterKill"}

(* A management call: what it ends by force is what an inspection found.   *)
CallInv ==
  call # Hung =>
    /\ call = [op |-> call.op, at |-> call.at, then |-> call.then, file |-> call.file,
               stale |-> call.stale, expected |-> call.expected, process |-> call.process,
               forced |-> call.forced, rounds |-> call.rounds]
    /\ call.op \in {"start", "stop", "restart"}
    /\ call.at \in {"read", "look"} => call.then \in Inspections
    /\ call.then \in Inspections \cup Points
    /\ call.at = "stamp" => call.process.born \in covered

(* A rule, or none.                                                        *)
Rules == [prio : STRING, build : {0, 1}] \cup {None}

(* The rules, in memory, in the store and on the disk.                     *)
RuleTypes ==
  rules \in Rules /\ ruleStore \in Rules /\ ruleDisk \in Rules /\ build \in {0, 1}

(* What can be undone was written to a covered process.                    *)
UndoInv ==
  \A k \in DOMAIN undo : undo[k].prio \in STRING /\ undo[k].rule \in Rules /\ k[2] \in covered

(* Whoever refreshes with a rule has listed covered processes of its       *)
(* executable.                                                             *)
Viewed(v) ==
  /\ v = [at |-> v.at, rule |-> v.rule, seen |-> v.seen, left |-> v.left]
  /\ v.rule \in Rules
  /\ v.rule # None =>
       \A p \in v.left : v.seen[p].exe = Game => v.seen[p].born \in covered
(* Every refresher is away or has such a view.                             *)
ViewInv ==
  /\ views = [r \in Refreshers |-> views[r]]
  /\ \A r \in Refreshers : views[r] = Away \/ Viewed(views[r])

(* A command of the operator covers the process it writes.                 *)
CommandInv ==
  policy # NoPolicy =>
    /\ policy.op \in {"set", "undo", "remove"} /\ policy.at \in {"write", "save", "rollback", "read"}
    /\ policy.op # "remove" => policy.id.born \in covered
    /\ policy.op = "remove" => policy.at = "save"
    /\ policy.at = "read" => policy.op = "undo"
    /\ policy.at = "write" /\ policy.op = "set" => policy.prio \in STRING
    /\ policy.at # "write" => policy.candidate \in Rules
    /\ policy.at # "write" /\ policy.op # "remove" =>
         /\ policy = [op |-> policy.op, at |-> policy.at, id |-> policy.id,
                      candidate |-> policy.candidate, previous |-> policy.previous]
         /\ policy.previous \in STRING

(* A command in work has no verdict, and has changed no rule until the     *)
(* rules are saved, whether or not it is answered with an error then; an   *)
(* applied one is in memory, in the store and on the disk.                 *)
VerdictInv ==
  /\ verdict \in {"none", "ok", "failed", "refused", "unread"}
  /\ policy # NoPolicy => verdict = "none"
  /\ policy # NoPolicy /\ policy.at # "read" => before = rules
  /\ \/ verdict \in {"ok", "unread"}
     \/ policy # NoPolicy /\ policy.at = "read"
     => ruleStore = rules /\ ruleDisk = rules
  /\ verdict \in {"failed", "refused"} => rules = before

(* Between two hosts there are no current readings.                        *)
StaleInv ==
  worker \in {"ready", "pausing"} /\ ~stop =>
    advanced = [fresh |-> FALSE, modules |-> advanced.modules, timings |-> advanced.timings]

(* The invariant of GPU residency.                                         *)
GpuInv == RuleTypes /\ UndoInv /\ ViewInv /\ CommandInv /\ VerdictInv

(* The inductive invariant. *)
Inv == TableInv /\ TaskInv /\ CallInv /\ GpuInv /\ StaleInv
-----------------------------------------------------------------------------
(* Processes stay what they are, and what they are told from does not change. *)
Steady ==
  \A p \in Pids : procs'[p] # None =>
    procs[p] # None /\ procs'[p].born = procs[p].born /\ procs'[p].parent = procs[p].parent

(* New ones below a listed number are covered.                             *)
Moves ==
  \A p \in Pids : procs'[p] # None =>
    \/ procs[p] # None /\ procs'[p].born = procs[p].born /\ procs'[p].parent = procs[p].parent
    \/ procs'[p].parent \in Listed => procs'[p].born \in covered'

(* What every step makes of the table.                                     *)
TableKept == TableInv' /\ covered \subseteq covered'

(* A number in use leads to a process.                                     *)
LEMMA AliveIs ==
  ASSUME TableInv, NEW p \in Alive
  PROVE  /\ p \in Pids /\ procs[p] \in Processes /\ procs[p] # None
         /\ procs[p].born \in Nat /\ procs[p].exe \in Programs /\ procs[p].prio \in STRING
         /\ procs[p].parent \in Pids \cup {Shell}
  BY DEF TableInv, Alive, Processes

(* Steps that leave processes alone.                                       *)
LEMMA IdleTable ==
  ASSUME TableInv, UNCHANGED <<service, procs, births, touched>>, covered \subseteq covered'
  PROVE  TableKept /\ Steady
  BY DEF TableInv, TableKept, Steady

(* A covered process is ended.                                             *)
LEMMA EndedTable ==
  ASSUME TableInv, NEW p \in Alive, NEW gone \in BOOLEAN, Ended(p, gone),
         procs[p].born \in covered, UNCHANGED <<service, births, covered>>
  PROVE  TableKept /\ Steady
  BY AliveIs DEF TableInv, TableKept, Steady, Ended

(* A covered process is written.                                           *)
LEMMA WroteTable ==
  ASSUME TableInv, NEW p \in Alive, NEW prio \in STRING, Wrote(p, prio),
         procs[p].born \in covered, UNCHANGED <<service, births, covered>>
  PROVE  TableKept /\ Steady
PROOF
<1>1. procs[p] \in Processes /\ p \in Pids  BY AliveIs
<1>2. PICK q : q = [procs[p] EXCEPT !.prio = prio]  OBVIOUS
<1>3. q \in Processes /\ q.born = procs[p].born /\ q.parent = procs[p].parent
  BY <1>1, <1>2 DEF Processes
<1>4. procs' = [procs EXCEPT ![p] = q]  BY <1>1, <1>2 DEF Wrote, TableInv
<1> QED  BY <1>1, <1>3, <1>4, AliveIs DEF TableInv, TableKept, Steady, Wrote

(* A process starts, and is covered below a number of the family.          *)
LEMMA StartTable ==
  ASSUME TableInv, NEW p \in Pids, NEW exe \in Programs, NEW parent \in Pids \cup {Shell},
         NEW family, Start(p, exe, parent, family), parent \in Listed => parent \in family
  PROVE  TableKept /\ Moves
PROOF
<1>1. births' \in Nat  BY DEF TableInv, Start
<1>2. PICK q : q = Process(births', exe, parent)  OBVIOUS
<1>3. q \in Processes /\ q.born = births' /\ q.parent = parent
  BY <1>1, <1>2, TableAssumption DEF Process, Processes
<1>4. procs' = [procs EXCEPT ![p] = q]  BY <1>2 DEF Start
<1>5. covered \subseteq covered' /\ (parent \in Listed => births' \in covered')
  BY DEF Start
<1> QED  BY <1>1, <1>3, <1>4, <1>5 DEF TableInv, TableKept, Moves, Start

(* A process ends by itself.                                               *)
LEMMA ExitTable ==
  ASSUME TableInv, NEW p \in Pids, Exit(p) PROVE TableKept /\ Steady
  BY DEF TableInv, TableKept, Steady, Exit

(* Where processes stay what they are, there are no new ones.              *)
LEMMA SteadyMoves == Steady => Moves  BY DEF Steady, Moves

(* What a handle is verified for.                                          *)
LEMMA VerifiedIs ==
  ASSUME TableInv, NEW id, Verified(id), id.started \in covered
  PROVE  id.pid \in Alive /\ procs[id.pid].born \in covered /\ id.started = id.born
  BY DEF Verified

(* Nobody has the number of the parent nobody looks at.                    *)
LEMMA ShellIs == ASSUME TaskInv PROVE Shell \notin Listed
  BY TableAssumption DEF TaskInv, Listed, ListedInv, CapturedInv, Asked

(* What does not change the request keeps what is known of it.             *)
LEMMA TaskKept ==
  ASSUME TaskInv, TableKept, Moves, task' = task PROVE TaskInv'
PROOF
<1>1. covered \subseteq covered'  BY DEF TableKept
<1> SUFFICES ASSUME task # Free PROVE (NamedInv /\ (Asked \/ ListedInv \/ CapturedInv))'
  BY DEF TaskInv, Free
<1>2. NamedInv'  BY <1>1 DEF TaskInv, NamedInv
<1>3. CASE Asked
  BY <1>2, <1>3 DEF Asked
<1>4. CASE ListedInv
  <2>1. Listed = DOMAIN task.depths
    BY <1>4 DEF ListedInv, Listed
  <2>2. \A p \in Members : p \in Pids /\ task.parents[p] \in Listed
    BY <1>4, <2>1 DEF ListedInv, Members
  <2>3. \A p \in Members : Below(p, task.parents[p])'
    BY <1>1, <1>4, <2>2 DEF ListedInv, Below, Moves
  <2> QED  BY <1>2, <1>4, <2>3 DEF ListedInv, Members
<1>5. CASE CapturedInv
  <2>1. Listed = DOMAIN task.depths
    BY <1>5 DEF CapturedInv, Listed
  <2>2. \A t \in task.targets :
          \/ t.parent = None /\ t.id.started \in covered'
          \/ t.parent \in DOMAIN task.depths /\ Below(t.id.pid, t.parent)'
    BY <1>1, <1>5, <2>1 DEF CapturedInv, Below, Moves
  <2> QED  BY <1>2, <1>5, <2>2 DEF CapturedInv
<1> QED  BY <1>3, <1>4, <1>5 DEF TaskInv
-----------------------------------------------------------------------------
(* A request that has ended is nobody's. *)
LEMMA FreeTask == ASSUME task' = Free PROVE TaskInv'
  BY DEF TaskInv

(* A step to a point without a tree keeps the request's shape.             *)
LEMMA StepAsked ==
  ASSUME TaskInv, Asked, task # Free, NEW step \in {"open", "windows", "wait", "list"},
         Step(step), task.id.started \in covered', covered \subseteq covered'
  PROVE  TaskInv'
PROOF
<1>1. task' = [op |-> task.op, id |-> task.id, step |-> step]
  BY DEF Asked, Step
<1> QED  BY <1>1 DEF TaskInv, NamedInv, Asked

(* Requests of the window.                                                 *)
LEMMA RequestKept ==
  ASSUME TableInv, NEW p \in Pids, NEW op \in {"close", "terminate", "tree"}, Request(op, p)
  PROVE  TableKept /\ Steady /\ TaskInv'
PROOF
<1>1. TableKept /\ Steady  BY IdleTable DEF Request
<1>2. PICK id : id = IdentityOf(p)  OBVIOUS
<1>3. id.pid = p /\ id.started = procs[p].born /\ id.born = procs[p].born
  BY <1>2 DEF IdentityOf, Identity
<1>4. CASE op = "close"
  <2>1. task' = [op |-> op, id |-> id, step |-> "open"] /\ procs[p].born \in covered'
    BY <1>2, <1>4 DEF Request
  <2> QED  BY <1>1, <1>3, <2>1 DEF TaskInv, NamedInv, Asked
<1>5. CASE op # "close"
  <2>1. task' = [op |-> op, id |-> id, step |-> "dialog"]
    BY <1>2, <1>5 DEF Request
  <2> QED  BY <1>1, <1>3, <2>1 DEF TaskInv, NamedInv, Asked
<1> QED  BY <1>4, <1>5

(* The dialog: what is confirmed is covered.                               *)
LEMMA DialogKept ==
  ASSUME TableInv, TaskInv, Confirm \/ Cancel
  PROVE  TableKept /\ Steady /\ TaskInv'
PROOF
<1>1. CASE Confirm
  <2>1. TableKept /\ Steady  BY <1>1, IdleTable DEF Confirm
  <2>2. Asked /\ task # Free /\ task.id.started = task.id.born
    BY <1>1 DEF Confirm, At, TaskInv, NamedInv, ListedInv, CapturedInv
  <2>3. Step("open") /\ task.id.born \in covered'  BY <1>1 DEF Confirm
  <2> QED  BY <2>1, <2>2, <2>3, StepAsked DEF TableKept
<1>2. CASE Cancel
  <2>1. TableKept /\ Steady /\ task' = Free  BY <1>2, IdleTable DEF Cancel, Answer
  <2> QED  BY <2>1, FreeTask
<1> QED  BY <1>1, <1>2

(* Past the dialog the process of the request's start is covered.          *)
LEMMA PastDialog ==
  ASSUME TaskInv, NEW step, At(step), step # "dialog"
  PROVE  /\ task # Free /\ task.step = step /\ task.id.pid \in Pids
         /\ task.id.started \in covered
         /\ step \in {"open", "windows", "wait", "list"} => Asked
         /\ step \in {"look", "stamp"} => ListedInv
         /\ step \in {"validate", "end"} => CapturedInv
  BY DEF At, TaskInv, NamedInv, Asked, ListedInv, CapturedInv

(* Opening a process, closing its windows and ending it.                   *)
LEMMA SingleKept ==
  ASSUME TableInv, TaskInv,
         \/ OpenRoot \/ (\E w \in BOOLEAN : PostClose(w)) \/ CloseWaited
         \/ \E gone \in BOOLEAN : Terminate(gone)
  PROVE  TableKept /\ Steady /\ TaskInv'
PROOF
<1>1. CASE OpenRoot
  <2>1. TableKept /\ Steady  BY <1>1, IdleTable DEF OpenRoot
  <2>2. task.id.started \in covered /\ Asked /\ task # Free
    BY <1>1, PastDialog DEF OpenRoot
  <2>3. \/ task' = Free
        \/ \E step \in {"windows", "list"} : Step(step)
    BY <1>1 DEF OpenRoot, Answer
  <2> QED  BY <2>1, <2>2, <2>3, StepAsked, FreeTask DEF TableKept
<1>2. ASSUME NEW w \in BOOLEAN, PostClose(w) PROVE TableKept /\ Steady /\ TaskInv'
  <2>1. TableKept /\ Steady  BY <1>2, IdleTable DEF PostClose
  <2>2. task.id.started \in covered /\ Asked /\ task # Free
    BY <1>2, PastDialog DEF PostClose
  <2>3. task' = Free \/ Step("wait")
    BY <1>2 DEF PostClose, Answer
  <2> QED  BY <2>1, <2>2, <2>3, StepAsked, FreeTask DEF TableKept
<1>3. CASE CloseWaited
  <2>1. TableKept /\ Steady /\ task' = Free
    BY <1>3, IdleTable DEF CloseWaited, Answer
  <2> QED  BY <2>1, FreeTask
<1>4. ASSUME NEW gone \in BOOLEAN, Terminate(gone) PROVE TableKept /\ Steady /\ TaskInv'
  <2>1. task.id.started \in covered  BY <1>4, PastDialog DEF Terminate
  <2>2. task' = Free  BY <1>4 DEF Terminate, Answer
  <2>3. CASE Verified(task.id)
    <3>1. task.id.pid \in Alive /\ procs[task.id.pid].born \in covered
      BY <2>1, <2>3, VerifiedIs
    <3>2. Ended(task.id.pid, gone) /\ UNCHANGED <<service, births, covered>>
      BY <1>4, <2>3 DEF Terminate
    <3> QED  BY <2>2, <3>1, <3>2, EndedTable, FreeTask
  <2>4. CASE ~Verified(task.id)
    <3>1. UNCHANGED table  BY <1>4, <2>4 DEF Terminate
    <3> QED  BY <2>2, <3>1, IdleTable, FreeTask
  <2> QED  BY <2>3, <2>4
<1> QED  BY <1>1, <1>2, <1>3, <1>4

(* The listing: its members are covered, and their parents are members.    *)
LEMMA ListKept ==
  ASSUME TableInv, TaskInv, ListTree PROVE TableKept /\ Steady /\ TaskInv'
PROOF
<1>1. TableKept /\ Steady  BY IdleTable DEF ListTree
<1>2. task.id.pid \in Pids /\ task.id.started \in covered
  BY PastDialog DEF ListTree
<1>3. PICK root, pairs, depths :
        /\ root = task.id.pid /\ pairs = Pairs /\ depths \in Depths(pairs, root)
        /\ task' = [op |-> "tree", id |-> task.id, step |-> "look", depths |-> depths,
                    parents |-> [p \in DOMAIN depths |->
                                   IF p = root THEN None ELSE pairs[p]]]
        /\ covered' = covered \cup
                        {procs[p].born : p \in (DOMAIN depths \cap Alive) \ {root}}
  BY DEF ListTree
<1>4. DOMAIN pairs = Alive /\ \A p \in Alive : pairs[p] = procs[p].parent
  BY <1>3 DEF Pairs
<1>5. /\ DOMAIN depths \subseteq Alive \cup {root}
      /\ \A p \in DOMAIN depths \ {root} : pairs[p] \in DOMAIN depths
  BY <1>3, <1>4 DEF Depths
<1>6. PICK parents : /\ task'.parents = parents /\ DOMAIN parents = DOMAIN depths
                     /\ \A p \in DOMAIN depths \ {root} : parents[p] = pairs[p]
  BY <1>3
<1>7. task'.step = "look" /\ task'.op = "tree" /\ task'.id = task.id /\ task'.depths = depths
  BY <1>3
<1>8. Members' = DOMAIN depths \ {root}  BY <1>3, <1>7 DEF Members
<1>9. \A p \in DOMAIN depths \ {root} :
        parents[p] \in DOMAIN depths /\ Below(p, parents[p])'
  BY <1>3, <1>5, <1>6, <1>1 DEF Below, Steady, Alive, ListTree
<1>10. ListedInv'
  BY <1>2, <1>3, <1>5, <1>6, <1>7, <1>8, <1>9 DEF ListedInv, Alive
<1>11. NamedInv'
  BY <1>1, <1>2, <1>7 DEF NamedInv, TableKept
<1> QED  BY <1>1, <1>10, <1>11 DEF TaskInv

(* What is looked at and captured are the members.                         *)
LEMMA CaptureKept ==
  ASSUME TableInv, TaskInv, LookAtTree \/ StampTree PROVE TableKept /\ Steady /\ TaskInv'
PROOF
<1>1. TableKept /\ Steady  BY IdleTable DEF LookAtTree, StampTree
<1>2. /\ task # Free /\ task.id.pid \in Pids /\ task.id.started \in covered /\ ListedInv
      /\ covered \subseteq covered' /\ procs' = procs
  BY PastDialog DEF LookAtTree, StampTree
<1>3. CASE task' = Free
  BY <1>1, <1>3, FreeTask
<1>4. CASE LookAtTree /\ task' # Free
  <2>1. PICK seen :
          /\ task' = [op |-> "tree", id |-> task.id, step |-> "stamp", depths |-> task.depths,
                      parents |-> task.parents, seen |-> seen]
          /\ DOMAIN seen = Members
    BY <1>4 DEF LookAtTree, Answer, Members
  <2>2. /\ task'.step = "stamp" /\ task'.op = "tree" /\ task'.id = task.id
        /\ task'.depths = task.depths /\ task'.parents = task.parents
        /\ DOMAIN task'.seen = Members /\ Members' = Members
    BY <2>1 DEF Members
  <2>3. ListedInv'
    BY <1>2, <2>2 DEF ListedInv, Below
  <2>4. NamedInv'
    BY <1>2, <2>2 DEF NamedInv
  <2> QED  BY <1>1, <2>3, <2>4 DEF TaskInv
<1>5. CASE StampTree /\ task' # Free
  <2>1. task.step = "stamp"  BY <1>5 DEF StampTree, At
  <2>2. PICK targets :
          /\ task' = [op |-> "tree", id |-> task.id, step |-> "validate",
                      depths |-> task.depths, targets |-> targets]
          /\ targets = {[id |-> task.id, parent |-> None]} \cup
               {[id |-> Identity(p, task.seen[p].born, procs[p].born, task.seen[p].exe),
                 parent |-> task.parents[p]] : p \in DOMAIN task.seen}
    BY <1>5 DEF StampTree, Answer
  <2>3. ASSUME NEW t \in targets
        PROVE  /\ t.id.pid \in Pids
               /\ \/ t.parent = None /\ t.id.started \in covered
                  \/ t.parent \in DOMAIN task.depths /\ Below(t.id.pid, t.parent)
    <3>1. CASE t = [id |-> task.id, parent |-> None]
      BY <1>2, <3>1
    <3>2. CASE t # [id |-> task.id, parent |-> None]
      <4>1. PICK p \in Members :
              t = [id |-> Identity(p, task.seen[p].born, procs[p].born, task.seen[p].exe),
                   parent |-> task.parents[p]]
        BY <1>2, <2>1, <2>2, <2>3, <3>2 DEF ListedInv
      <4>2. t.id.pid = p /\ t.parent = task.parents[p]  BY <4>1 DEF Identity
      <4> QED  BY <1>2, <4>1, <4>2 DEF ListedInv, Members
    <3> QED  BY <3>1, <3>2
  <2>4. /\ task'.step = "validate" /\ task'.op = "tree" /\ task'.id = task.id
        /\ task'.depths = task.depths /\ task'.targets = targets
    BY <2>2
  <2>5. CapturedInv'
    BY <1>2, <2>2, <2>3, <2>4 DEF CapturedInv, ListedInv, Below
  <2>6. NamedInv'
    BY <1>2, <2>4 DEF NamedInv
  <2> QED  BY <1>1, <2>5, <2>6 DEF TaskInv
<1> QED  BY <1>3, <1>4, <1>5

(* A valid target is covered.                                              *)
LEMMA ValidIs ==
  ASSUME TableInv, CapturedInv, NEW t \in task.targets, ValidTarget(t)
  PROVE  t.id.pid \in Alive /\ procs[t.id.pid].born \in covered
PROOF
<1>1. t.id.pid \in Alive /\ Verified(t.id)  BY DEF ValidTarget, Verified
<1>2. CASE t.parent = None /\ t.id.started \in covered
  BY <1>1, <1>2, VerifiedIs
<1>3. CASE t.parent \in DOMAIN task.depths /\ Below(t.id.pid, t.parent)
  <2>1. t.parent # None
    BY <1>3, TableAssumption DEF CapturedInv
  <2> QED  BY <1>1, <1>3, <2>1, AliveIs DEF ValidTarget, Below
<1> QED  BY <1>2, <1>3 DEF CapturedInv

(* Ending it, leaf by leaf.                                                *)
LEMMA EndKept ==
  ASSUME TableInv, TaskInv, ValidateTree \/ EndTree PROVE TableKept /\ Steady /\ TaskInv'
PROOF
<1>1. task # Free /\ task.id.pid \in Pids /\ task.id.started \in covered /\ CapturedInv
  BY PastDialog DEF ValidateTree, EndTree
<1>2. CASE ValidateTree
  <2>1. TableKept /\ Steady  BY <1>2, IdleTable DEF ValidateTree
  <2>2. CASE task' = Free  BY <2>1, <2>2, FreeTask
  <2>3. CASE task' # Free
    <3>1. /\ task' = [op |-> task.op, id |-> task.id, step |-> "end",
                      depths |-> task.depths, targets |-> task.targets]
          /\ UNCHANGED table
      BY <1>1, <1>2, <2>3 DEF ValidateTree, Step, Answer, CapturedInv
    <3>2. /\ task'.step = "end" /\ task'.op = task.op /\ task'.id = task.id
          /\ task'.depths = task.depths /\ task'.targets = task.targets
          /\ procs' = procs /\ covered' = covered
      BY <3>1
    <3>3. CapturedInv'  BY <1>1, <3>1, <3>2 DEF CapturedInv, Below
    <3> QED  BY <1>1, <2>1, <3>2, <3>3 DEF TaskInv, NamedInv
  <2> QED  BY <2>2, <2>3
<1>3. ASSUME NEW t \in task.targets, NEW gone \in BOOLEAN, EndTarget(t, gone)
      PROVE  TableKept /\ Steady /\ TaskInv'
  <2>1. CASE ~ValidTarget(t)
    <3>1. task' = Free /\ UNCHANGED <<service, procs, births, touched, covered>>
      BY <1>3, <2>1 DEF EndTarget, Answer
    <3> QED  BY <3>1, IdleTable, FreeTask
  <2>2. CASE ValidTarget(t)
    <3>1. Ended(t.id.pid, gone) /\ UNCHANGED <<service, births, covered>>
      BY <1>3, <2>2 DEF EndTarget
    <3>2. TableKept /\ Steady
      BY <1>1, <2>2, <3>1, ValidIs, EndedTable
    <3>3. CASE task' = Free  BY <3>2, <3>3, FreeTask
    <3>4. CASE task' # Free
      <4>1. /\ task' = [op |-> task.op, id |-> task.id, step |-> task.step,
                        depths |-> task.depths, targets |-> task.targets \ {t}]
        BY <1>1, <1>3, <2>2, <3>4 DEF EndTarget, Answer, CapturedInv
      <4>2. /\ task'.step = task.step /\ task'.op = task.op /\ task'.id = task.id
            /\ task'.depths = task.depths /\ task'.targets \subseteq task.targets
        BY <4>1
      <4>3. \A u \in task.targets :
              u.parent \in DOMAIN task.depths /\ Below(u.id.pid, u.parent) =>
                Below(u.id.pid, u.parent)'
        BY <1>1, <3>1, <3>2 DEF Below, Steady, CapturedInv
      <4>4. CapturedInv'  BY <1>1, <3>1, <4>1, <4>2, <4>3 DEF CapturedInv
      <4>5. NamedInv'  BY <1>1, <3>1, <4>2 DEF NamedInv, CapturedInv
      <4> QED  BY <3>2, <4>4, <4>5 DEF TaskInv
    <3> QED  BY <3>3, <3>4
  <2> QED  BY <2>1, <2>2
<1> QED  BY <1>2, <1>3 DEF EndTree

(* Every step of a tree.                                                   *)
LEMMA TreeKept ==
  ASSUME TableInv, TaskInv, TreeSteps PROVE TableKept /\ Steady /\ TaskInv'
  BY SingleKept, ListKept, CaptureKept, EndKept DEF TreeSteps
(* Every step of process control.                                          *)
LEMMA TaskStepsKept ==
  ASSUME TableInv, TaskInv, TaskSteps PROVE TableKept /\ Steady /\ TaskInv'
  BY SingleKept, TreeKept DEF TaskSteps
-----------------------------------------------------------------------------
(* What the other services leave alone they keep.                          *)
LEMMA CallIdle ==
  ASSUME CallInv, UNCHANGED call, covered \subseteq covered' PROVE CallInv'
  BY DEF CallInv

(* The rules stay as they are.                                             *)
LEMMA RulesIdle ==
  ASSUME GpuInv, UNCHANGED <<rules, ruleStore, ruleDisk, build>> PROVE RuleTypes'
  BY DEF GpuInv, RuleTypes

(* The undo entries stay as they are.                                      *)
LEMMA UndoIdle ==
  ASSUME GpuInv, UNCHANGED undo, covered \subseteq covered' PROVE UndoInv'
  BY DEF GpuInv, UndoInv

(* The views stay as they are.                                             *)
LEMMA ViewIdle ==
  ASSUME GpuInv, UNCHANGED views, covered \subseteq covered' PROVE ViewInv'
  BY DEF GpuInv, ViewInv, Viewed

(* The command in work stays as it is.                                     *)
LEMMA CommandIdle ==
  ASSUME GpuInv, UNCHANGED policy, covered \subseteq covered' PROVE CommandInv'
  BY DEF GpuInv, CommandInv

(* The verdict and what it is about stay as they are.                      *)
LEMMA VerdictIdle ==
  ASSUME GpuInv, UNCHANGED <<rules, ruleStore, ruleDisk, policy, verdict, before>>
  PROVE  VerdictInv'
  BY DEF GpuInv, VerdictInv

(* GPU residency stays as it is.                                           *)
LEMMA GpuIdle ==
  ASSUME GpuInv, UNCHANGED gpu, covered \subseteq covered' PROVE GpuInv'
  BY RulesIdle, UndoIdle, ViewIdle, CommandIdle, VerdictIdle DEF GpuInv

(* One view changes, the others stay.                                      *)
LEMMA ViewChanged ==
  ASSUME GpuInv, covered \subseteq covered', NEW r \in Refreshers, NEW v,
         views' = [views EXCEPT ![r] = v], v = Away \/ Viewed(v)'
  PROVE  ViewInv'
  BY DEF GpuInv, ViewInv, Viewed

(* Collecting, entering, writing and leaving.                              *)
LEMMA RefreshKept ==
  ASSUME TableInv, GpuInv, NEW r \in Refreshers, Collect(r) \/ Refreshes(r)
  PROVE  TableKept /\ Steady /\ GpuInv'
PROOF
<1>1. CASE Collect(r)
  <2>1. TableKept /\ Steady  BY <1>1, IdleTable DEF Collect
  <2>2. PICK v : /\ v = [at |-> "enter", rule |-> rules, left |-> Alive,
                         seen |-> [p \in Alive |-> [born |-> procs[p].born,
                                                    exe |-> procs[p].exe]]]
                 /\ views' = [views EXCEPT ![r] = v]
    BY <1>1 DEF Collect
  <2>3. rules # None => \A p \in Alive : procs[p].exe = Game => procs[p].born \in covered'
    BY <1>1 DEF Collect
  <2>4. Viewed(v)'
    BY <2>2, <2>3 DEF Viewed, GpuInv, RuleTypes
  <2>5. ViewInv'  BY <2>1, <2>2, <2>4, ViewChanged DEF TableKept
  <2> QED
    BY <1>1, <2>1, <2>5, RulesIdle, UndoIdle, CommandIdle, VerdictIdle
    DEF Collect, GpuInv, TableKept
<1>2. CASE Enter(r)
  <2>1. TableKept /\ Steady  BY <1>2, IdleTable DEF Enter
  <2>2. Viewed(views[r])
    BY <1>2 DEF Enter, GpuInv, ViewInv, Away
  <2>3. PICK v : v = [views[r] EXCEPT !.at = "write"] /\ views' = [views EXCEPT ![r] = v]
    BY <1>2 DEF Enter, GpuInv, ViewInv
  <2>4. Viewed(v)'
    BY <1>2, <2>2, <2>3 DEF Viewed, Enter
  <2>5. ViewInv'  BY <2>1, <2>3, <2>4, ViewChanged DEF TableKept
  <2>6. UndoInv'
    BY <1>2 DEF Enter, Restrict, GpuInv, UndoInv
  <2> QED
    BY <1>2, <2>1, <2>5, <2>6, RulesIdle, CommandIdle, VerdictIdle
    DEF Enter, GpuInv, TableKept
<1>3. ASSUME NEW p \in Pids, WriteRule(r, p) PROVE TableKept /\ Steady /\ GpuInv'
  <2>1. Viewed(views[r]) /\ p \in views[r].left
    BY <1>3 DEF WriteRule, GpuInv, ViewInv, Away
  <2>2. TableKept /\ Steady
    <3>1. CASE UNCHANGED <<procs, touched>>
      BY <1>3, <3>1, IdleTable DEF WriteRule
    <3>2. CASE ~UNCHANGED <<procs, touched>>
      <4>1. PICK id, seen :
              /\ seen = views[r].seen[p] /\ views[r].rule # None /\ seen.exe = Game
              /\ id = Identity(p, seen.born, procs[p].born, seen.exe) /\ Verified(id)
              /\ p \in Alive /\ Wrote(p, views[r].rule.prio)
        BY <1>3, <3>2 DEF WriteRule
      <4>2. seen.born \in covered /\ views[r].rule.prio \in STRING
        BY <2>1, <4>1 DEF Viewed, Rules
      <4>3. procs[p].born \in covered
        BY <4>1, <4>2 DEF Verified, Identity
      <4> QED
        BY <1>3, <4>1, <4>2, <4>3, WroteTable DEF WriteRule
    <3> QED  BY <3>1, <3>2
  <2>3. PICK v : /\ v = [views[r] EXCEPT !.left = @ \ {p}] /\ views' = [views EXCEPT ![r] = v]
    BY <1>3 DEF WriteRule, GpuInv, ViewInv
  <2>4. Viewed(v)'
    BY <1>3, <2>1, <2>3 DEF Viewed, WriteRule
  <2>5. ViewInv'  BY <2>2, <2>3, <2>4, ViewChanged DEF TableKept
  <2> QED
    BY <1>3, <2>2, <2>5, RulesIdle, UndoIdle, CommandIdle, VerdictIdle
    DEF WriteRule, GpuInv, TableKept
<1>4. ASSUME NEW p \in Pids, PassOver(r, p) PROVE TableKept /\ Steady /\ GpuInv'
  <2>1. TableKept /\ Steady  BY <1>4, IdleTable DEF PassOver
  <2>2. Viewed(views[r])
    BY <1>4 DEF PassOver, GpuInv, ViewInv, Away
  <2>3. PICK v : /\ v = [views[r] EXCEPT !.left = @ \ {p}] /\ views' = [views EXCEPT ![r] = v]
    BY <1>4 DEF PassOver, GpuInv, ViewInv
  <2>4. Viewed(v)'
    BY <1>4, <2>2, <2>3 DEF Viewed, PassOver
  <2>5. ViewInv'  BY <2>1, <2>3, <2>4, ViewChanged DEF TableKept
  <2> QED
    BY <1>4, <2>1, <2>5, RulesIdle, UndoIdle, CommandIdle, VerdictIdle
    DEF PassOver, GpuInv, TableKept
<1>5. CASE Leave(r)
  <2>1. TableKept /\ Steady  BY <1>5, IdleTable DEF Leave
  <2>2. ViewInv'  BY <1>5, <2>1, ViewChanged DEF Leave, TableKept
  <2> QED
    BY <1>5, <2>1, <2>2, RulesIdle, UndoIdle, CommandIdle, VerdictIdle
    DEF Leave, GpuInv, TableKept
<1> QED  BY <1>1, <1>2, <1>3, <1>4, <1>5 DEF Refreshes

(* The commands are asked for: for a process that lives, or one that was   *)
(* written to.                                                             *)
LEMMA AskKept ==
  ASSUME TableInv, GpuInv,
         \/ \E p \in Pids, prio \in Priorities, persist \in BOOLEAN :
              SetPolicy(p, prio, persist)
         \/ \E p \in Pids : UndoPolicy(p)
         \/ RemoveRule
  PROVE  TableKept /\ Steady /\ GpuInv'
PROOF
<1>1. TableKept /\ Steady
  BY IdleTable DEF SetPolicy, UndoPolicy, RemoveRule
<1>2. PICK p, command :
        /\ Ask(command)
        /\ \/ \E prio \in Priorities, persist \in BOOLEAN :
                /\ command = [op |-> "set", at |-> "write", id |-> IdentityOf(p),
                              prio |-> prio, persist |-> persist]
                /\ procs[p].born \in covered'
           \/ /\ command = [op |-> "undo", at |-> "write", id |-> IdentityOf(p)]
              /\ Key(p, procs[p].born) \in DOMAIN undo
           \/ command = [op |-> "remove", at |-> "save", candidate |-> None]
  BY DEF SetPolicy, UndoPolicy, RemoveRule
<1>3. covered \subseteq covered'  BY <1>1 DEF TableKept
<1>4. Key(p, procs[p].born) \in DOMAIN undo => procs[p].born \in covered
  BY DEF GpuInv, UndoInv, Key
<1>5. IdentityOf(p).born = procs[p].born  BY DEF IdentityOf, Identity
<1>6. policy' = command  BY <1>2 DEF Ask
<1>7. CommandInv'
  <2>1. CASE command.op = "set"
    BY <1>2, <1>5, <1>6, <2>1, PolicyAssumption DEF CommandInv
  <2>2. CASE command.op = "undo"
    BY <1>2, <1>3, <1>4, <1>5, <1>6, <2>2 DEF CommandInv
  <2>3. CASE command.op = "remove"
    BY <1>2, <1>6, <2>3 DEF CommandInv, Rules
  <2> QED  BY <1>2, <2>1, <2>2, <2>3
<1>8. VerdictInv'
  BY <1>2 DEF Ask, VerdictInv
<1> QED
  BY <1>1, <1>2, <1>3, <1>7, <1>8, RulesIdle, UndoIdle, ViewIdle DEF Ask, GpuInv

(* A command that has ended leaves no claim on a process.                  *)
LEMMA DoneIs ==
  ASSUME GpuInv, NEW what \in {"none", "ok", "failed", "refused", "unread"}, Done(what),
         what \in {"ok", "unread"} => ruleStore' = rules' /\ ruleDisk' = rules',
         what \in {"failed", "refused"} => rules' = before
  PROVE  CommandInv' /\ VerdictInv'
  BY DEF Done, CommandInv, VerdictInv

(* The process is written, before the rule is saved.                       *)
LEMMA WriteKept ==
  ASSUME TableInv, GpuInv, WritePolicy PROVE TableKept /\ Steady /\ GpuInv'
PROOF
<1>1. /\ policy # NoPolicy /\ policy.at = "write" /\ policy.op \in {"set", "undo"}
      /\ policy.id.born \in covered
      /\ policy.op = "set" => policy.prio \in STRING
      /\ verdict = "none" /\ before = rules
  BY DEF WritePolicy, GpuInv, CommandInv, VerdictInv
<1>2. UNCHANGED <<service, births, covered, rules, ruleStore, ruleDisk, undo, views, build>>
  BY DEF WritePolicy
<1>3. CASE UNCHANGED <<procs, touched>> /\ Done("refused")
  <2>1. TableKept /\ Steady  BY <1>2, <1>3, IdleTable
  <2> QED
    BY <1>1, <1>2, <1>3, <2>1, DoneIs, RulesIdle, UndoIdle, ViewIdle DEF GpuInv
<1>4. CASE ~(UNCHANGED <<procs, touched>> /\ Done("refused"))
  <2>1. PICK prio, candidate :
          /\ Verified(policy.id)
          /\ policy.op = "undo" => PolicyKey \in DOMAIN undo
          /\ prio = IF policy.op = "undo" THEN undo[PolicyKey].prio ELSE policy.prio
          /\ candidate = IF policy.op = "undo" THEN undo[PolicyKey].rule
                         ELSE IF policy.persist THEN [prio |-> prio, build |-> build]
                         ELSE None
          /\ Wrote(policy.id.pid, prio)
          /\ policy' = [op |-> policy.op, at |-> "save", id |-> policy.id,
                        candidate |-> candidate, previous |-> procs[policy.id.pid].prio]
          /\ UNCHANGED <<verdict, before>>
    BY <1>4 DEF WritePolicy
  <2>2. prio \in STRING /\ candidate \in Rules
    BY <1>1, <2>1 DEF GpuInv, UndoInv, RuleTypes, Rules
  <2>3. policy.id.pid \in Alive /\ procs[policy.id.pid].born \in covered
    BY <1>1, <2>1 DEF Verified
  <2>4. TableKept /\ Steady
    BY <1>2, <2>1, <2>2, <2>3, WroteTable
  <2>5. procs[policy.id.pid].prio \in STRING  BY <2>3, AliveIs
  <2>6. CommandInv'
    BY <1>1, <1>2, <2>1, <2>2, <2>5 DEF CommandInv
  <2>7. VerdictInv'
    BY <1>1, <1>2, <2>1 DEF VerdictInv
  <2> QED
    BY <1>2, <2>4, <2>6, <2>7, RulesIdle, UndoIdle, ViewIdle DEF GpuInv
<1> QED  BY <1>3, <1>4

(* The rule is saved, or not.                                              *)
LEMMA SaveKept ==
  ASSUME TableInv, GpuInv, SavePolicy \/ SaveFails PROVE TableKept /\ Steady /\ GpuInv'
PROOF
<1>1. /\ policy # NoPolicy /\ policy.at = "save" /\ policy.op \in {"set", "undo", "remove"}
      /\ policy.op # "remove" => policy.id.born \in covered
      /\ policy.candidate \in Rules
      /\ policy.op # "remove" =>
           /\ policy = [op |-> policy.op, at |-> policy.at, id |-> policy.id,
                        candidate |-> policy.candidate, previous |-> policy.previous]
           /\ policy.previous \in STRING
      /\ verdict = "none" /\ before = rules
  BY DEF SavePolicy, SaveFails, GpuInv, CommandInv, VerdictInv
<1>2. TableKept /\ Steady /\ UNCHANGED <<covered, views, build>>
  BY IdleTable DEF SavePolicy, SaveFails
<1>3. CASE SavePolicy
  <2>1. /\ rules' = policy.candidate /\ ruleStore' = policy.candidate
        /\ ruleDisk' = policy.candidate
    BY <1>3 DEF SavePolicy
  <2>2. RuleTypes'  BY <1>1, <1>2, <2>1 DEF GpuInv, RuleTypes
  <2>3. CommandInv' /\ VerdictInv'
    <3>1. CASE policy.op = "undo"
      <4>1. /\ policy' = [op |-> policy.op, at |-> "read", id |-> policy.id,
                          candidate |-> policy.candidate, previous |-> policy.previous]
            /\ UNCHANGED <<verdict, before>>
        BY <1>1, <1>3, <3>1 DEF SavePolicy
      <4> QED  BY <1>1, <1>2, <2>1, <3>1, <4>1 DEF CommandInv, VerdictInv
    <3>2. CASE policy.op # "undo"
      <4>1. Done("ok")  BY <1>3, <3>2 DEF SavePolicy
      <4> QED  BY <2>1, <4>1, DoneIs
    <3> QED  BY <3>1, <3>2
  <2>4. UndoInv'
    <3>1. CASE policy.op = "set"
      <4>1. PICK entry : /\ entry = [prio |-> policy.previous, rule |-> rules]
                         /\ Remembered(entry)
        BY <1>3, <3>1 DEF SavePolicy
      <4>2. entry.prio \in STRING /\ entry.rule \in Rules /\ PolicyKey[2] \in covered'
        BY <1>1, <1>2, <3>1, <4>1 DEF GpuInv, RuleTypes, PolicyKey, Key
      <4>3. \A k \in DOMAIN undo' :
              \/ undo'[k] = entry /\ k = PolicyKey
              \/ undo'[k] = undo[k] /\ k \in DOMAIN undo
        <5>1. CASE undo' = [k \in DOMAIN undo \cup {PolicyKey} |->
                              IF k = PolicyKey THEN entry ELSE undo[k]]
          BY <5>1
        <5>2. ASSUME NEW old \in DOMAIN undo,
                     undo' = [k \in (DOMAIN undo \ {old}) \cup {PolicyKey} |->
                                IF k = PolicyKey THEN entry ELSE undo[k]]
              PROVE  \A k \in DOMAIN undo' :
                       \/ undo'[k] = entry /\ k = PolicyKey
                       \/ undo'[k] = undo[k] /\ k \in DOMAIN undo
          BY <5>2
        <5> QED  BY Zenon, <4>1, <5>1, <5>2 DEF Remembered
      <4> QED  BY <1>2, <4>2, <4>3 DEF GpuInv, UndoInv
    <3>2. CASE policy.op = "undo"
      <4>1. undo' = Restrict(undo, DOMAIN undo \ {PolicyKey})
        BY <1>3, <3>2 DEF SavePolicy
      <4> QED  BY <1>2, <4>1 DEF Restrict, GpuInv, UndoInv
    <3>3. CASE policy.op = "remove"
      <4>1. undo' = undo  BY <1>3, <3>3 DEF SavePolicy
      <4> QED  BY <1>2, <4>1, UndoIdle
    <3> QED  BY <1>1, <3>1, <3>2, <3>3
  <2> QED
    BY <1>2, <2>2, <2>3, <2>4, ViewIdle DEF GpuInv
<1>4. CASE SaveFails
  <2>1. ruleStore' \in {ruleStore, policy.candidate} /\ UNCHANGED <<rules, ruleDisk, undo>>
    BY <1>4 DEF SaveFails
  <2>2. RuleTypes'  BY <1>1, <1>2, <2>1 DEF GpuInv, RuleTypes
  <2>3. CommandInv' /\ VerdictInv'
    <3>1. CASE policy.op = "remove"
      <4>1. Done("failed")  BY <1>4, <3>1 DEF SaveFails
      <4> QED  BY <1>1, <2>1, <4>1, DoneIs
    <3>2. CASE policy.op # "remove"
      <4>1. /\ policy' = [op |-> policy.op, at |-> "rollback", id |-> policy.id,
                          candidate |-> policy.candidate, previous |-> policy.previous]
            /\ UNCHANGED <<verdict, before>>
        BY <1>1, <1>4, <3>2 DEF SaveFails
      <4> QED  BY <1>1, <1>2, <2>1, <3>2, <4>1 DEF CommandInv, VerdictInv
    <3> QED  BY <3>1, <3>2
  <2> QED
    BY <1>2, <2>1, <2>2, <2>3, UndoIdle, ViewIdle DEF GpuInv
<1> QED  BY <1>3, <1>4

(* The priorities are read for the answer to an undo, or a rule was one    *)
(* too many.                                                               *)
LEMMA AnswerKept ==
  ASSUME TableInv, GpuInv, ReadBack \/ TooManyRules PROVE TableKept /\ Steady /\ GpuInv'
PROOF
<1>1. /\ TableKept /\ Steady /\ covered' = covered
      /\ UNCHANGED <<rules, ruleStore, ruleDisk, undo, views, build>>
  BY IdleTable DEF ReadBack, TooManyRules
<1>2. CASE ReadBack
  <2>1. PICK what \in {"ok", "unread"} : Done(what)
    BY <1>2 DEF ReadBack
  <2>2. ruleStore = rules /\ ruleDisk = rules
    BY <1>2 DEF ReadBack, GpuInv, VerdictInv
  <2> QED
    BY <1>1, <2>1, <2>2, DoneIs, RulesIdle, UndoIdle, ViewIdle DEF GpuInv
<1>3. CASE TooManyRules
  <2>1. PICK what \in {"refused", "failed"} : Done(what)
    BY <1>3 DEF TooManyRules
  <2>2. rules = before
    BY <1>3 DEF TooManyRules, GpuInv, VerdictInv
  <2> QED
    BY <1>1, <2>1, <2>2, DoneIs, RulesIdle, UndoIdle, ViewIdle DEF GpuInv
<1> QED  BY <1>2, <1>3

(* The process gets its former priority back.                              *)
LEMMA RollBackKept ==
  ASSUME TableInv, GpuInv, RollBack PROVE TableKept /\ Steady /\ GpuInv'
PROOF
<1>1. /\ policy.id.born \in covered /\ policy.previous \in STRING /\ before = rules
      /\ policy # NoPolicy
  BY DEF RollBack, GpuInv, CommandInv, VerdictInv
<1>2. /\ Done("failed")
      /\ UNCHANGED <<service, births, covered, rules, ruleStore, ruleDisk, undo, views, build>>
  BY DEF RollBack
<1>3. TableKept /\ Steady
  <2>1. CASE Verified(policy.id)
    <3>1. policy.id.pid \in Alive /\ procs[policy.id.pid].born \in covered
      BY <1>1, <2>1 DEF Verified
    <3>2. Wrote(policy.id.pid, policy.previous)  BY <2>1 DEF RollBack
    <3> QED  BY <1>1, <1>2, <3>1, <3>2, WroteTable
  <2>2. CASE ~Verified(policy.id)
    BY <1>2, <2>2, IdleTable DEF RollBack
  <2> QED  BY <2>1, <2>2
<1> QED
  BY <1>1, <1>2, <1>3, DoneIs, RulesIdle, UndoIdle, ViewIdle DEF GpuInv

(* The plugin, the builds and the crash of the application.                *)
LEMMA HappensKept ==
  ASSUME TableInv, GpuInv, AutoSaveRules \/ Rebuild \/ CrashAndLoad
  PROVE  TableKept /\ Steady /\ GpuInv'
PROOF
<1>1. TableKept /\ Steady /\ covered' = covered
  BY IdleTable DEF AutoSaveRules, Rebuild, CrashAndLoad
<1>2. CASE AutoSaveRules
  <2>1. RuleTypes' /\ VerdictInv'
    BY <1>2 DEF AutoSaveRules, GpuInv, RuleTypes, VerdictInv
  <2> QED
    BY <1>1, <1>2, <2>1, UndoIdle, ViewIdle, CommandIdle DEF AutoSaveRules, GpuInv
<1>3. CASE Rebuild
  <2>1. RuleTypes'  BY <1>3 DEF Rebuild, GpuInv, RuleTypes
  <2> QED
    BY <1>1, <1>3, <2>1, UndoIdle, ViewIdle, CommandIdle, VerdictIdle DEF Rebuild,
       GpuInv
<1>4. CASE CrashAndLoad
  <2>1. RuleTypes'  BY <1>4 DEF CrashAndLoad, GpuInv, RuleTypes
  <2>2. UndoInv'  BY <1>4 DEF CrashAndLoad, UndoInv
  <2>3. ViewInv'  BY <1>4 DEF CrashAndLoad, ViewInv
  <2>4. Done("none")  BY <1>4 DEF CrashAndLoad
  <2> QED  BY <1>1, <2>1, <2>2, <2>3, <2>4, DoneIs DEF GpuInv
<1> QED  BY <1>2, <1>3, <1>4
-----------------------------------------------------------------------------
(* A call of the daemon in work. *)
Working ==
  /\ call = [op |-> call.op, at |-> call.at, then |-> call.then, file |-> call.file,
             stale |-> call.stale, expected |-> call.expected, process |-> call.process,
             forced |-> call.forced, rounds |-> call.rounds]
  /\ call.op \in {"start", "stop", "restart"}
  /\ call.then \in Inspections \cup Points

(* A call at some point is in work, and has what that point needs.         *)
LEMMA WorkingIs ==
  ASSUME CallInv, NEW at, In(at)
  PROVE  /\ Working /\ call # Hung /\ call.at = at
         /\ at \in {"read", "look"} => call.then \in Inspections
         /\ at = "stamp" => call.process.born \in covered
  BY DEF CallInv, Working, In

(* Where a call may go without a process to end.                           *)
LEMMA Goes ==
  ASSUME Working, covered \subseteq covered'
  PROVE  /\ Answered => CallInv'
         /\ \A then \in Inspections : Inspect(then) => CallInv'
         /\ call.then \in Inspections => \A at : Again(at) => CallInv'
         /\ \A at \in {"start", "last", "again", "tidied", "afterKill", "remove", "wait",
                       "restarting"} : Goto(at) => CallInv'
         /\ \A s : \A at \in {"start", "last", "again", "tidied", "afterKill"} :
              CleanUp(s, at) => CallInv'
PROOF
<1>1. Answered => CallInv'  BY DEF Answered, CallInv
<1>2. ASSUME NEW then \in Inspections, Inspect(then) PROVE CallInv'
  <2>1. call' = [op |-> call.op, at |-> "read", then |-> then, file |-> call.file,
                 stale |-> call.stale, expected |-> call.expected,
                 process |-> call.process, forced |-> call.forced, rounds |-> 0]
    BY <1>2 DEF Inspect, Working
  <2> QED  BY <2>1 DEF CallInv, Working, Inspections, Points
<1>3. ASSUME call.then \in Inspections, NEW at, Again(at) PROVE CallInv'
  <2>1. call' = [op |-> call.op, at |-> "read", then |-> call.then, file |-> call.file,
                 stale |-> call.stale, expected |-> call.expected,
                 process |-> call.process, forced |-> call.forced,
                 rounds |-> call.rounds + 1]
    BY <1>3 DEF Again, Working
  <2> QED  BY <1>3, <2>1 DEF CallInv, Working
<1>4. ASSUME NEW at \in {"start", "last", "again", "tidied", "afterKill", "remove", "wait",
                         "restarting"},
             Goto(at)
      PROVE  CallInv'
  <2>1. call' = [op |-> call.op, at |-> at, then |-> call.then, file |-> call.file,
                 stale |-> call.stale, expected |-> call.expected,
                 process |-> call.process, forced |-> call.forced, rounds |-> 0]
    BY <1>4 DEF Goto, Working
  <2> QED  BY <2>1 DEF CallInv, Working
<1>5. ASSUME NEW s, NEW at \in {"start", "last", "again", "tidied", "afterKill"},
             CleanUp(s, at)
      PROVE  CallInv'
  <2>1. CASE s.state = "stale"
    <3>1. call' = [op |-> call.op, at |-> "check", then |-> at, file |-> call.file,
                   stale |-> s.stale, expected |-> call.expected,
                   process |-> call.process, forced |-> call.forced, rounds |-> call.rounds]
      BY <1>5, <2>1 DEF CleanUp, Working
    <3> QED  BY <3>1 DEF CallInv, Working, Points
  <2>2. CASE s.state # "stale"
    <3>1. Goto(at)  BY <1>5, <2>2 DEF CleanUp, Goto
    <3> QED  BY <1>4, <3>1
  <2> QED  BY <2>1, <2>2
<1> QED  BY <1>1, <1>2, <1>3, <1>4, <1>5

(* Where an inspection leads: nowhere with a process to end, but for the   *)
(* expected daemon, whose process it covers.                               *)
LEMMA LookKept ==
  ASSUME TableInv, CallInv, LookUp PROVE TableKept /\ Steady /\ CallInv'
PROOF
<1>1. TableKept /\ Steady /\ covered \subseteq covered'
  BY IdleTable DEF LookUp
<1>2. Working /\ call.then \in Inspections
  BY WorkingIs DEF LookUp
<1>3. PICK s : s = Status(call.file)  OBVIOUS
<1>4. CASE call.then = "decide"
  <2>1. Decide(s)  BY <1>3, <1>4 DEF LookUp
  <2>2. CASE \E at \in {"stop", "restart"} :
               call' = [call EXCEPT !.at = at, !.expected = s.pid]
    <3>1. PICK at \in {"stop", "restart"} :
            call' = [op |-> call.op, at |-> at, then |-> call.then, file |-> call.file,
                     stale |-> call.stale, expected |-> s.pid, process |-> call.process,
                     forced |-> call.forced, rounds |-> call.rounds]
      BY <1>2, <2>2 DEF Working
    <3> QED  BY <1>1, <1>2, <3>1 DEF CallInv, Working
  <2>3. CASE Answered  BY <1>1, <1>2, <2>3, Goes
  <2>4. CASE \E at \in {"start", "last", "again"} : CleanUp(s, at)
    BY <1>1, <1>2, <2>4, Goes
  <2> QED  BY <1>1, <1>2, <2>1, <2>2, <2>3, <2>4 DEF Decide, Working
<1>5. CASE call.then \in {"stopped", "killed"}
  <2>1. Stopped(s)  BY <1>3, <1>5 DEF LookUp
  <2>2. \/ Answered \/ Inspect("force") \/ Inspect("tidy") \/ Again(call.then)
        \/ CleanUp(s, "tidied") \/ CleanUp(s, "last")
    BY <2>1 DEF Stopped
  <2>3. "force" \in Inspections /\ "tidy" \in Inspections  BY DEF Inspections
  <2> QED  BY <1>1, <1>2, <2>2, <2>3, Goes
<1>6. CASE call.then = "started"
  <2>1. Started(s)  BY <1>3, <1>6 DEF LookUp
  <2> QED  BY <1>1, <1>2, <2>1, Goes DEF Started
<1>7. CASE call.then = "restarted"
  <2>1. Restarted(s)  BY <1>3, <1>7 DEF LookUp
  <2>2. "current" \in Inspections  BY DEF Inspections
  <2> QED  BY <1>1, <1>2, <2>1, <2>2, Goes DEF Restarted
<1>8. CASE call.then = "current"
  <2>1. Current(s)  BY <1>3, <1>8 DEF LookUp
  <2>2. "force" \in Inspections /\ "tidy" \in Inspections  BY DEF Inspections
  <2> QED  BY <1>1, <1>2, <2>1, <2>2, Goes DEF Current
<1>9. CASE call.then = "force"
  <2>1. ForceKill(s)  BY <1>3, <1>9 DEF LookUp
  <2>2. CASE Answered  BY <1>1, <1>2, <2>2, Goes
  <2>3. CASE ~Answered
    <3>0. call' = [call EXCEPT !.at = "stamp", !.process = procs[call.expected]]
      BY <2>1, <2>3 DEF ForceKill
    <3>1. call' = [op |-> call.op, at |-> "stamp", then |-> call.then, file |-> call.file,
                   stale |-> call.stale, expected |-> call.expected,
                   process |-> procs[call.expected], forced |-> call.forced,
                   rounds |-> call.rounds]
      BY <1>2, <3>0 DEF Working
    <3>2. call'.op # "none" /\ call'.at = "stamp"  BY <1>2, <3>1 DEF Working
    <3>3. procs[call.expected].born \in covered'  BY <3>2 DEF LookUp
    <3> QED  BY <1>1, <1>2, <3>1, <3>3 DEF CallInv, Working, Inspections, Points
  <2> QED  BY <2>2, <2>3
<1>10. CASE call.then \in {"gone", "tidy", "again", "last"}
  <2>1. \/ Answered \/ CleanUp(s, "afterKill") \/ CleanUp(s, "start")
    BY <1>3, <1>10 DEF LookUp
  <2> QED  BY <1>1, <1>2, <2>1, Goes
<1> QED
  BY <1>2, <1>4, <1>5, <1>6, <1>7, <1>8, <1>9, <1>10 DEF Inspections

(* The points that leave the processes alone.                              *)
LEMMA MarkerKept ==
  ASSUME TableInv, CallInv,
         \/ \E file : ReadMarker(file)
         \/ InspectAgain
         \/ \E file : CheckMarker(file)
         \/ RemoveMarker \/ ForceEnded \/ WaitGone
  PROVE  TableKept /\ Steady /\ CallInv'
PROOF
<1>1. TableKept /\ Steady /\ covered \subseteq covered'
  BY IdleTable DEF ReadMarker, InspectAgain, CheckMarker, RemoveMarker, ForceEnded,
     WaitGone
<1>2. ASSUME NEW file, ReadMarker(file) PROVE CallInv'
  <2>1. Working /\ call.then \in Inspections  BY <1>2, WorkingIs DEF ReadMarker
  <2>2. call' = [op |-> call.op, at |-> "look", then |-> call.then, file |-> file,
                 stale |-> call.stale, expected |-> call.expected, process |-> call.process,
                 forced |-> call.forced, rounds |-> call.rounds]
    BY <1>2, <2>1 DEF ReadMarker, Working
  <2> QED  BY <2>1, <2>2 DEF CallInv, Working
<1>3. CASE InspectAgain
  <2>1. Working /\ \E then \in Inspections : Inspect(then)
    BY <1>3, WorkingIs DEF InspectAgain, Inspections
  <2> QED  BY <1>1, <2>1, Goes
<1>4. ASSUME NEW file, CheckMarker(file) PROVE CallInv'
  <2>1. Working /\ call.at = "check" /\ call # Hung
    BY <1>4, WorkingIs DEF CheckMarker
  <2>2. "force" \in Inspections  BY DEF Inspections
  <2>3. CASE Goto(call.then)
    <3>1. call' = [op |-> call.op, at |-> call.then, then |-> call.then, file |-> call.file,
                   stale |-> call.stale, expected |-> call.expected,
                   process |-> call.process, forced |-> call.forced, rounds |-> 0]
      BY <2>1, <2>3 DEF Goto, Working
    <3> QED  BY <2>1, <3>1 DEF CallInv, Working, Inspections, Points
  <2>4. Goto(call.then) \/ Goto("remove") \/ Inspect("force") \/ Answered
    BY <1>4 DEF CheckMarker
  <2> QED  BY <1>1, <2>1, <2>2, <2>3, <2>4, Goes
<1>5. CASE RemoveMarker
  <2>1. Working /\ call.at = "remove" /\ call # Hung /\ Goto(call.then)
    BY <1>5, WorkingIs DEF RemoveMarker
  <2>2. call' = [op |-> call.op, at |-> call.then, then |-> call.then, file |-> call.file,
                 stale |-> call.stale, expected |-> call.expected,
                 process |-> call.process, forced |-> call.forced, rounds |-> 0]
    BY <2>1 DEF Goto, Working
  <2> QED  BY <1>1, <2>1, <2>2 DEF CallInv, Working, Inspections, Points
<1>6. CASE ForceEnded
  <2>1. Working /\ (Goto("wait") \/ Answered)
    BY <1>6, WorkingIs DEF ForceEnded
  <2> QED  BY <1>1, <2>1, Goes
<1>7. CASE WaitGone
  <2>1. Working /\ call.at = "wait"  BY <1>7, WorkingIs DEF WaitGone
  <2>2. "gone" \in Inspections  BY DEF Inspections
  <2>3. CASE call' = [call EXCEPT !.rounds = call.rounds + 1]
    <3>1. call' = [op |-> call.op, at |-> call.at, then |-> call.then, file |-> call.file,
                   stale |-> call.stale, expected |-> call.expected,
                   process |-> call.process, forced |-> call.forced,
                   rounds |-> call.rounds + 1]
      BY <2>1, <2>3 DEF Working
    <3> QED  BY <1>1, <2>1, <3>1 DEF CallInv, Working
  <2>4. CASE Answered \/ Inspect("gone")
    BY <1>1, <2>1, <2>2, <2>4, Goes
  <2> QED  BY <1>7, <2>3, <2>4 DEF WaitGone
<1> QED  BY <1>1, <1>2, <1>3, <1>4, <1>5, <1>6, <1>7

(* The command line tool starts and stops a daemon outside every tree.     *)
LEMMA ToolKept ==
  ASSUME TableInv, TaskInv, CallInv, ToolStarts(TRUE) \/ ToolStarts(FALSE) \/ ToolStops
                                     \/ ToolRestarts \/ ToolRestarts2
  PROVE  TableKept /\ Moves /\ CallInv'
PROOF
<1>1. ASSUME NEW p \in Pids, DaemonStarts(p) PROVE TableKept /\ Moves
  <2>1. Start(p, "daemon", Shell, {}) /\ Shell \notin Listed
    BY <1>1, ShellIs DEF DaemonStarts
  <2>2. "daemon" \in Programs  BY DEF Programs
  <2>3. Shell \in Pids \cup {Shell}  OBVIOUS
  <2> QED  BY <2>1, <2>2, <2>3, StartTable
<1>2. ASSUME NEW p \in Pids, Stops(p) PROVE TableKept /\ Moves
  BY <1>2, ExitTable, SteadyMoves DEF Stops
<1>3. ASSUME UNCHANGED table PROVE TableKept /\ Moves
  BY <1>3, IdleTable, SteadyMoves
<1>4. TableKept /\ Moves
  BY <1>1, <1>2, <1>3 DEF ToolStarts, ToolStops, ToolRestarts, ToolRestarts2
<1>5. Working /\ covered \subseteq covered'
  BY <1>4, WorkingIs DEF ToolStarts, ToolStops, ToolRestarts, ToolRestarts2, TableKept
<1>6. \/ Answered \/ Goto("restarting")
      \/ \E then \in Inspections : Inspect(then)
  BY DEF ToolStarts, ToolStops, ToolRestarts, ToolRestarts2, Inspections
<1> QED  BY <1>4, <1>5, <1>6, Goes

(* A forced stop asks process control to end the process it covered.       *)
LEMMA ForceKept ==
  ASSUME TableInv, TaskInv, CallInv, ForceStop
  PROVE  TableKept /\ Steady /\ TaskInv' /\ CallInv'
PROOF
<1>1. TableKept /\ Steady /\ covered' = covered
  BY IdleTable DEF ForceStop
<1>2. Working /\ call.process.born \in covered
  BY WorkingIs DEF ForceStop
<1>3. CASE call.expected \in Alive
  <2>1. PICK id : id = Identity(call.expected, call.process.born,
                                procs[call.expected].born, call.process.exe)
    OBVIOUS
  <2>2. id.pid \in Pids /\ id.started = call.process.born
    BY <1>3, <2>1 DEF Identity, Alive
  <2>3. task' = [op |-> "tree", step |-> "open", id |-> id]
    BY <1>3, <2>1 DEF ForceStop
  <2>4. TaskInv'
    BY <1>1, <1>2, <2>2, <2>3 DEF TaskInv, NamedInv, Asked
  <2>5. call' = [op |-> call.op, at |-> "ending", then |-> call.then, file |-> call.file,
                 stale |-> call.stale, expected |-> call.expected, process |-> None,
                 forced |-> TRUE, rounds |-> call.rounds]
    BY <1>2, <1>3 DEF ForceStop, Working
  <2>6. CallInv'
    BY <1>1, <1>2, <2>5 DEF CallInv, Working
  <2> QED  BY <1>1, <2>4, <2>6
<1>4. CASE call.expected \notin Alive
  <2>1. Answered /\ UNCHANGED task  BY <1>4 DEF ForceStop
  <2> QED  BY <1>1, <1>2, <2>1, TaskKept, SteadyMoves, Goes
<1> QED  BY <1>3, <1>4

(* A new call, and the daemon's file.                                      *)
LEMMA ManageKept ==
  ASSUME TableInv, CallInv,
         \/ \E op \in {"start", "stop", "restart"} : Manage(op)
         \/ \E p \in Pids : WriteMarker(p)
  PROVE  TableKept /\ Steady /\ CallInv'
PROOF
<1>1. TableKept /\ Steady /\ covered \subseteq covered'
  BY IdleTable DEF Manage, WriteMarker
<1>2. ASSUME NEW op \in {"start", "stop", "restart"}, Manage(op) PROVE CallInv'
  BY <1>2 DEF Manage, CallInv, Inspections
<1>3. ASSUME NEW p \in Pids, WriteMarker(p) PROVE CallInv'
  BY <1>1, <1>3, CallIdle DEF WriteMarker
<1> QED  BY <1>1, <1>2, <1>3

(* Every step of the daemon's service.                                     *)
LEMMA DaemonKept ==
  ASSUME Inv, DaemonStep PROVE TableKept /\ TaskInv' /\ CallInv'
PROOF
<1>1. TableInv /\ TaskInv /\ CallInv  BY DEF Inv
<1>2. CASE TreeSteps /\ UNCHANGED ccc
  BY <1>1, <1>2, TreeKept, CallIdle DEF TableKept
<1>3. CASE ForceStop
  BY <1>1, <1>3, ForceKept
<1>4. CASE LookUp
  <2>1. task' = task  BY <1>4 DEF LookUp
  <2> QED  BY <1>1, <1>4, <2>1, LookKept, SteadyMoves, TaskKept
<1>5. CASE ToolStarts(TRUE) \/ ToolStarts(FALSE) \/ ToolStops \/ ToolRestarts \/ ToolRestarts2
  <2>1. task' = task
    BY <1>5 DEF ToolStarts, ToolStops, ToolRestarts, ToolRestarts2
  <2> QED  BY <1>1, <1>5, <2>1, ToolKept, TaskKept
<1>6. CASE \/ \E file : ReadMarker(file)
           \/ InspectAgain
           \/ \E file : CheckMarker(file)
           \/ RemoveMarker \/ ForceEnded \/ WaitGone
  <2>1. task' = task
    BY <1>6 DEF ReadMarker, InspectAgain, CheckMarker, RemoveMarker, ForceEnded,
       WaitGone
  <2> QED  BY <1>1, <1>6, <2>1, MarkerKept, SteadyMoves, TaskKept
<1>7. CASE \/ \E op \in {"start", "stop", "restart"} : Manage(op)
           \/ \E p \in Pids : WriteMarker(p)
  <2>1. task' = task  BY <1>7 DEF Manage, WriteMarker
  <2> QED  BY <1>1, <1>7, <2>1, ManageKept, SteadyMoves, TaskKept
<1> QED
  BY <1>2, <1>3, <1>4, <1>5, <1>6, <1>7 DEF DaemonStep, CallSteps
-----------------------------------------------------------------------------
(* Every step of process control for the window.                           *)
LEMMA ControlKept ==
  ASSUME Inv, ControlStep PROVE TableKept /\ TaskInv'
  BY RequestKept, DialogKept, TaskStepsKept DEF Inv, ControlStep

(* Every step of GPU residency.                                            *)
LEMMA GpuKept ==
  ASSUME Inv, GpuStep PROVE TableKept /\ Steady /\ GpuInv'
PROOF
<1>1. TableInv /\ GpuInv  BY DEF Inv
<1>2. CASE \E r \in Refreshers : Refreshes(r) \/ Collect(r)
  BY <1>1, <1>2, RefreshKept
<1>3. CASE \/ \E p \in Pids, prio \in Priorities, persist \in BOOLEAN :
                SetPolicy(p, prio, persist)
           \/ \E p \in Pids : UndoPolicy(p)
           \/ RemoveRule
  BY <1>1, <1>3, AskKept
<1>4. CASE PolicySteps
  BY <1>1, <1>4, WriteKept, SaveKept, AnswerKept, RollBackKept DEF PolicySteps
<1>5. CASE TooManyRules \/ SaveFails \/ AutoSaveRules \/ Rebuild
  BY <1>1, <1>5, AnswerKept, SaveKept, HappensKept
<1> QED  BY <1>2, <1>3, <1>4, <1>5 DEF GpuStep

(* Every step of the resource monitor: readings are no longer current when *)
(* a host is gone.                                                         *)
LEMMA SensorKept ==
  ASSUME StaleInv, SensorStep PROVE StaleInv'
PROOF
<1>1. CASE Spawn \/ Pause \/ LeaveLoop \/ Emit \/ TooLong \/ HeartbeatMissed \/ Sample
  BY <1>1 DEF Spawn, Pause, LeaveLoop, Emit, TooLong, HeartbeatMissed, Sample,
     StaleInv
<1>2. CASE StopMonitor \/ \E kind \in {"mute", "junk", "ended"} : Turn(kind)
  BY <1>2 DEF StopMonitor, Turn, StaleInv
<1>3. CASE \E state \in {"disabled", "idle", "active"} : SetModule(state)
  BY <1>3 DEF SetModule, StaleInv
<1>4. CASE SpawnFails \/ Reap
  BY <1>4 DEF SpawnFails, Reap, Unavailable, StaleInv
<1>5. CASE Watch
  BY <1>5 DEF Watch, StaleInv
<1>6. ASSUME NEW found \in BOOLEAN, ReadTimings(found) PROVE StaleInv'
  <2>1. UNCHANGED <<worker, stop>>  BY <1>6 DEF ReadTimings
  <2>2. CASE worker \in {"ready", "pausing"} /\ ~stop
    <3>1. PICK modules, timings :
            advanced = [fresh |-> FALSE, modules |-> modules, timings |-> timings]
      BY <2>2 DEF StaleInv
    <3>2. \E t : advanced' = [fresh |-> FALSE, modules |-> modules, timings |-> t]
      BY <1>6, <3>1 DEF ReadTimings
    <3> QED  BY <3>2 DEF StaleInv
  <2>3. CASE ~(worker \in {"ready", "pausing"} /\ ~stop)
    BY <2>1, <2>3 DEF StaleInv
  <2> QED  BY <2>2, <2>3
<1> QED
  BY <1>1, <1>2, <1>3, <1>4, <1>5, <1>6 DEF SensorStep, WorkerSteps

(* Other programs start and end processes.                                 *)
LEMMA ProcessKept ==
  ASSUME Inv, ProcessStep PROVE TableKept /\ Moves
PROOF
<1>1. TableInv /\ service \in {"control", "daemon", "gpu", "sensors"}
  BY ServicesAssumption DEF Inv, TableInv
<1>2. ASSUME NEW p \in Pids, NEW exe \in Executables[service], NEW parent \in Alive \cup {Shell},
             Start(p, exe, parent, Listed)
      PROVE  TableKept /\ Moves
  <2>1. exe \in Programs
    BY <1>1, <1>2 DEF Executables, Programs, Game
  <2>2. parent \in Pids \cup {Shell}  BY DEF Alive
  <2> QED  BY <1>1, <1>2, <2>1, <2>2, StartTable
<1>3. ASSUME NEW p \in Pids, Exit(p) PROVE TableKept /\ Moves
  BY <1>1, <1>3, ExitTable, SteadyMoves
<1> QED  BY <1>2, <1>3 DEF ProcessStep
-----------------------------------------------------------------------------
(* Nothing is known of a process at the start.                             *)
LEMMA Starts ==
  ASSUME Init PROVE Inv
PROOF
<1>1. TableInv
  <2>1. IsFiniteSet(Alive)
    BY TableAssumption, FS_Subset DEF Alive
  <2>2. Cardinality(Alive) \in Nat  BY <2>1, FS_CardinalityType
  <2> QED  BY <2>2, ServicesAssumption DEF Init, TableInv
<1>2. TaskInv /\ CallInv
  BY DEF Init, InitControl, InitCcc, TaskInv, CallInv
<1>3. RuleTypes /\ UndoInv /\ ViewInv
  <2>1. ruleDisk \in Rules
    BY PolicyAssumption DEF Init, InitGpu, Rules
  <2> QED  BY <2>1 DEF Init, InitGpu, RuleTypes, UndoInv, ViewInv
<1>4. CommandInv /\ VerdictInv
  BY DEF Init, InitGpu, CommandInv, VerdictInv
<1>5. StaleInv
  BY DEF Init, InitSensors, StaleInv
<1> QED  BY <1>1, <1>2, <1>3, <1>4, <1>5 DEF Inv, GpuInv

(* Every step keeps the invariant.                                         *)
LEMMA Keeps ==
  ASSUME Inv, [Next]_vars PROVE Inv'
PROOF
<1>1. TableInv /\ TaskInv /\ CallInv /\ GpuInv /\ StaleInv  BY DEF Inv
<1>2. CASE ControlStep
  <2>1. TableKept /\ TaskInv'  BY <1>2, ControlKept
  <2>2. UNCHANGED <<ccc, gpu, sensors>>  BY <1>2 DEF ControlStep
  <2>3. CallInv' /\ GpuInv'  BY <1>1, <2>1, <2>2, CallIdle, GpuIdle DEF TableKept
  <2>4. StaleInv'  BY <1>1, <2>2 DEF StaleInv
  <2> QED  BY <2>1, <2>3, <2>4 DEF Inv, TableKept
<1>3. CASE DaemonStep
  <2>1. TableKept /\ TaskInv' /\ CallInv'  BY <1>3, DaemonKept
  <2>2. UNCHANGED <<gpu, sensors>>  BY <1>3 DEF DaemonStep
  <2>3. GpuInv'  BY <1>1, <2>1, <2>2, GpuIdle DEF TableKept
  <2>4. StaleInv'  BY <1>1, <2>2 DEF StaleInv
  <2> QED  BY <2>1, <2>3, <2>4 DEF Inv, TableKept
<1>4. CASE GpuStep
  <2>1. TableKept /\ Steady /\ GpuInv'  BY <1>4, GpuKept
  <2>2. UNCHANGED <<control, ccc, sensors>>  BY <1>4 DEF GpuStep
  <2>3. TaskInv'  BY <1>1, <2>1, <2>2, SteadyMoves, TaskKept
  <2>4. CallInv'  BY <1>1, <2>1, <2>2, CallIdle DEF TableKept
  <2>5. StaleInv'  BY <1>1, <2>2 DEF StaleInv
  <2> QED  BY <2>1, <2>3, <2>4, <2>5 DEF Inv, TableKept
<1>5. CASE Restart
  <2>1. TableKept /\ Steady /\ GpuInv'  BY <1>1, <1>5, HappensKept DEF Restart
  <2>2. UNCHANGED <<control, ccc, stop, worker, advanced>>  BY <1>5 DEF Restart
  <2>3. TaskInv'  BY <1>1, <2>1, <2>2, SteadyMoves, TaskKept
  <2>4. CallInv'  BY <1>1, <2>1, <2>2, CallIdle DEF TableKept
  <2>5. StaleInv'  BY <1>1, <2>2 DEF StaleInv
  <2> QED  BY <2>1, <2>3, <2>4, <2>5 DEF Inv, TableKept
<1>6. CASE SensorStep
  <2>1. UNCHANGED <<table, control, ccc, gpu>>  BY <1>6 DEF SensorStep
  <2>2. TableKept /\ Steady  BY <1>1, <2>1, IdleTable
  <2>3. TaskInv'  BY <1>1, <2>1, <2>2, SteadyMoves, TaskKept
  <2>4. CallInv' /\ GpuInv'  BY <1>1, <2>1, <2>2, CallIdle, GpuIdle DEF TableKept
  <2>5. StaleInv'  BY <1>1, <1>6, SensorKept
  <2> QED  BY <2>2, <2>3, <2>4, <2>5 DEF Inv, TableKept
<1>7. CASE ProcessStep
  <2>1. TableKept /\ Moves  BY <1>7, ProcessKept
  <2>2. UNCHANGED <<control, ccc, gpu, sensors>>  BY <1>7 DEF ProcessStep
  <2>3. TaskInv'  BY <1>1, <2>1, <2>2, TaskKept
  <2>4. CallInv' /\ GpuInv'  BY <1>1, <2>1, <2>2, CallIdle, GpuIdle DEF TableKept
  <2>5. StaleInv'  BY <1>1, <2>2 DEF StaleInv
  <2> QED  BY <2>1, <2>3, <2>4, <2>5 DEF Inv, TableKept
<1>8. CASE UNCHANGED vars
  <2>1. UNCHANGED <<table, control, ccc, gpu, sensors>>  BY <1>8 DEF vars
  <2>2. TableKept /\ Steady  BY <1>1, <2>1, IdleTable
  <2>3. TaskInv'  BY <1>1, <2>1, <2>2, SteadyMoves, TaskKept
  <2>4. CallInv' /\ GpuInv'  BY <1>1, <2>1, <2>2, CallIdle, GpuIdle DEF TableKept
  <2>5. StaleInv'  BY <1>1, <2>1 DEF StaleInv
  <2> QED  BY <2>2, <2>3, <2>4, <2>5 DEF Inv, TableKept
<1> QED
  BY <1>2, <1>3, <1>4, <1>5, <1>6, <1>7, <1>8 DEF Next

(* The inductive invariant holds in every state: of the table and its      *)
(* history, the request and the call in work, the rules with their undo    *)
(* entries and the refreshes, and the readings.                            *)
THEOREM ServicesInvariant == Spec => []Inv
  BY Starts, Keeps, PTL DEF Spec

(* KeeMASH ends or rewrites only processes that a confirmation, an         *)
(* identity, a listing or a rule covers (VerifiedProcessHandle in          *)
(* process_control.rs), however many processes come and go and numbers are *)
(* given again between the choice and the act.                             *)
THEOREM RightProcessHolds == Spec => []RightProcess
PROOF
<1>1. Inv => RightProcess  BY DEF Inv, TableInv, RightProcess
<1> QED  BY <1>1, ServicesInvariant, PTL

(* The answer to a policy command is true of the disk and of the rules in  *)
(* memory (apply_policy, undo_policy and persist_rules in                  *)
(* gpu_residency.rs), also while the store plugin saves by itself, builds  *)
(* are replaced and the application crashes.                               *)
THEOREM PolicyAnswersHold == Spec => []PolicyAnswersTrue
PROOF
<1>1. Inv => PolicyAnswersTrue  BY DEF Inv, GpuInv, VerdictInv, PolicyAnswersTrue
<1> QED  BY <1>1, ServicesInvariant, PTL

(* Between two hosts no readings are shown as current                      *)
(* (low_level_sensor_loop in resource_monitor.rs), whatever the hosts      *)
(* wrote, for a queue of any length.                                       *)
THEOREM NoStaleReadingHolds == Spec => []NoStaleReading
PROOF
<1>1. Inv => NoStaleReading  BY DEF Inv, StaleInv, NoStaleReading
<1> QED  BY <1>1, ServicesInvariant, PTL
=============================================================================

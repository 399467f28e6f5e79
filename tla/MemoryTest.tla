------------------------------ MODULE MemoryTest ------------------------------
(***************************************************************************)
(* MemoryTestController, src-tauri/src/memory_test.rs: a test has a thread *)
(* of its own and worker threads that write and verify patterns until the  *)
(* deadline or until the cancel flag is set.  All tests share one status   *)
(* and one cancel flag; the status is what start looks at to refuse a      *)
(* second test, and what the window shows.                                 *)
(*                                                                         *)
(* Calls of start and stop come at any time and beside each other: the     *)
(* commands are asynchronous, and the page offers a start whenever the     *)
(* status it last saw is not that of a test (ResourceMonitor.tsx:331).     *)
(* Patterns, counters of bytes and passes and the WHEA query are left out. *)
(***************************************************************************)
EXTENDS Naturals, FiniteSets

CONSTANTS
  Workers,   \* the threads of a test
  MaxTests   \* bound: calls of start that are not refused

ASSUME MemoryAssumption ==
  /\ Workers # {} /\ IsFiniteSet(Workers)
  /\ MaxTests \in Nat

VARIABLES
  status,   \* MemoryTestStatus: its state, and whether errors are shown
  cancel,
  phase,    \* test -> where its start or its thread stands
  worker,   \* test -> worker -> where it stands
  found,    \* test -> a worker found a mismatch
  due,      \* test -> its deadline has passed
  seen,     \* history: test -> the tests that ran when its start looked first
  stopped,  \* history: tests under way when stop was called, until a start clears the flag
  lacked,   \* history: tests of which a worker got no memory
  crossed,  \* history: tests that were under way together with another one
  latest,   \* history: the test whose start set the status last, 0 before
  verdict   \* history: what a test's thread left in the status

threads == <<worker, found, due>>
history == <<seen, stopped, lacked, crossed, latest, verdict>>
vars == <<status, cancel, phase, threads, history>>

Tests == 1..MaxTests

\* A test is under way once its start has cleared the flag, and runs once it has a thread.
Running == {"spawned", "running"}
UnderWay == {"reset"} \cup Running

Init ==
  /\ status = [state |-> "idle", errors |-> FALSE]
  /\ cancel = FALSE
  /\ phase = [i \in Tests |-> "none"]
  /\ worker = [i \in Tests |-> [w \in Workers |-> "none"]]
  /\ found = [i \in Tests |-> FALSE] /\ due = [i \in Tests |-> FALSE]
  /\ seen = [i \in Tests |-> {}] /\ stopped = {} /\ lacked = {} /\ crossed = {}
  /\ latest = 0 /\ verdict = [i \in Tests |-> "none"]

Step(i, from, to) == phase[i] = from /\ phase' = [phase EXCEPT ![i] = to]

\* The tests that a start of i would disturb.
Others(i) == {j \in Tests \ {i} : phase[j] \in UnderWay}
-----------------------------------------------------------------------------
(* start and stop *)

\* The check of start looks at the state twice, under the lock each time: it
\* refuses when the first look finds a running test...
Look(i) ==
  /\ status.state # "running"
  /\ Step(i, "none", "looked")
  /\ seen' = [seen EXCEPT ![i] = {j \in Tests : phase[j] = "running"}]
  /\ UNCHANGED <<status, cancel, threads, stopped, lacked, crossed, latest, verdict>>

\* ... or the second one that is allocating, and later when there is less memory
\* than the request asks for.
Check(i) ==
  /\ status.state # "allocating"
  /\ Step(i, "looked", "checked")
  /\ UNCHANGED <<status, cancel, threads, history>>

Refuse(i) ==
  /\ \/ status.state = "allocating" /\ Step(i, "looked", "none")
     \/ Step(i, "checked", "none")
  /\ seen' = [seen EXCEPT ![i] = {}]
  /\ UNCHANGED <<status, cancel, threads, stopped, lacked, crossed, latest, verdict>>

\* The cancel flag is cleared, also one that was raised for another test...
ClearCancel(i) ==
  /\ Step(i, "checked", "reset")
  /\ cancel' = FALSE
  /\ stopped' = stopped \ Others(i)
  /\ crossed' = crossed \cup (IF Others(i) = {} THEN {} ELSE Others(i) \cup {i})
  /\ UNCHANGED <<status, threads, seen, lacked, latest, verdict>>

\* ... the status set and the thread spawned, or the failure to do so noted.
Launch(i) ==
  /\ status' = [state |-> "allocating", errors |-> FALSE]
  /\ Step(i, "reset", "spawned")
  /\ latest' = i
  /\ UNCHANGED <<cancel, threads, seen, stopped, lacked, crossed, verdict>>

LaunchFails(i) ==
  /\ status' = [state |-> "error", errors |-> FALSE]
  /\ Step(i, "reset", "done")
  /\ latest' = i
  /\ verdict' = [verdict EXCEPT ![i] = "error"]
  /\ UNCHANGED <<cancel, threads, seen, stopped, lacked, crossed>>

\* stop only raises the flag; the state changes when the threads have ended.
\* (mutant) stop sets the state itself.
StateWhenStopping_Mutant ==
  IF status.state \in {"running", "allocating"} THEN "stopped" ELSE status.state
StateWhenStopping == status.state

Stop ==
  /\ cancel' = TRUE
  /\ status' = [status EXCEPT !.state = StateWhenStopping]
  /\ stopped' = stopped \cup {i \in Tests : phase[i] \in UnderWay}
  /\ UNCHANGED <<phase, threads, seen, lacked, crossed, latest, verdict>>
-----------------------------------------------------------------------------
(* The threads of a test *)

\* run_test begins and spawns its workers.
Begin(i) ==
  /\ Step(i, "spawned", "running")
  /\ status' = [status EXCEPT !.state = "running"]
  /\ worker' = [worker EXCEPT ![i] = [w \in Workers |-> "allocating"]]
  /\ UNCHANGED <<cancel, found, due, history>>

Moves(i, w, from, to) == worker[i][w] = from /\ worker' = [worker EXCEPT ![i][w] = to]

Allocate(i, w) ==
  /\ Moves(i, w, "allocating", "testing")
  /\ UNCHANGED <<status, cancel, phase, found, due, history>>

\* A worker that gets no memory raises the flag, which ends all the others...
Lack(i, w) ==
  /\ Moves(i, w, "allocating", "lacking")
  /\ cancel' = TRUE
  /\ lacked' = lacked \cup {i}
  /\ UNCHANGED <<status, phase, found, due, seen, stopped, crossed, latest, verdict>>

\* ... and then sets the state.
NoteLack(i, w) ==
  /\ Moves(i, w, "lacking", "done")
  /\ status' = [status EXCEPT !.state = "error"]
  /\ UNCHANGED <<cancel, phase, found, due, history>>

Mismatch(i, w) ==
  /\ worker[i][w] = "testing" /\ ~found[i]
  /\ found' = [found EXCEPT ![i] = TRUE]
  /\ UNCHANGED <<status, cancel, phase, worker, due, history>>

\* What ends a worker's loop.
\* (mutant) The flag is not looked at.
Over_Mutant(i) == due[i]
Over(i) == cancel \/ due[i]

Finish(i, w) ==
  /\ Over(i)
  /\ Moves(i, w, "testing", "done")
  /\ UNCHANGED <<status, cancel, phase, found, due, history>>

DeadlinePasses(i) ==
  /\ phase[i] = "running" /\ ~due[i]
  /\ due' = [due EXCEPT ![i] = TRUE]
  /\ UNCHANGED <<status, cancel, phase, worker, found, history>>

Joined(i) == \A w \in Workers : worker[i][w] = "done"

\* The thread of the test copies the counters to the status while workers run.
Progress(i) ==
  /\ phase[i] = "running" /\ ~Joined(i) /\ status.errors # found[i]
  /\ status' = [status EXCEPT !.errors = found[i]]
  /\ UNCHANGED <<cancel, phase, threads, history>>

\* (mutant) A stop counts before the errors.
Outcome_Mutant(i) ==
  CASE status.state = "error" -> "error"
    [] status.state # "error" /\ cancel /\ ~due[i] -> "stopped"
    [] status.state # "error" /\ ~(cancel /\ ~due[i]) /\ found[i] -> "failed"
    [] OTHER -> "passed"
Outcome(i) ==
  CASE status.state = "error" -> "error"
    [] status.state # "error" /\ found[i] -> "failed"
    [] status.state # "error" /\ ~found[i] /\ cancel /\ ~due[i] -> "stopped"
    [] OTHER -> "passed"

Conclude(i) ==
  /\ Joined(i)
  /\ Step(i, "running", "done")
  /\ status' = [state |-> Outcome(i), errors |-> found[i]]
  /\ verdict' = [verdict EXCEPT ![i] = Outcome(i)]
  /\ UNCHANGED <<cancel, threads, seen, stopped, lacked, crossed, latest>>

StartNext ==
  \E i \in Tests :
    Look(i) \/ Check(i) \/ Refuse(i) \/ ClearCancel(i) \/ Launch(i) \/ LaunchFails(i)

ThreadsNext ==
  \E i \in Tests :
    \/ Begin(i) \/ Conclude(i)
    \/ \E w \in Workers : Allocate(i, w) \/ Lack(i, w) \/ NoteLack(i, w) \/ Finish(i, w)

Next ==
  \/ StartNext \/ Stop \/ ThreadsNext
  \/ \E i \in Tests : DeadlinePasses(i) \/ Progress(i)
  \/ \E i \in Tests, w \in Workers : Mismatch(i, w)

Spec == Init /\ [][Next]_vars

\* Calls that cleared the flag and threads keep running.  Nothing is assumed of
\* the deadline, which may be a day away.
FairSpec ==
  /\ Spec
  /\ \A i \in Tests :
       /\ WF_vars(Launch(i) \/ LaunchFails(i))
       /\ WF_vars(Begin(i)) /\ WF_vars(Conclude(i))
       /\ \A w \in Workers :
            /\ WF_vars(Allocate(i, w) \/ Lack(i, w)) /\ WF_vars(NoteLack(i, w))
            /\ WF_vars(Finish(i, w))
-----------------------------------------------------------------------------
\* What start says: a test is refused while one runs ("A memory test is already
\* running", memory_test.rs:122).  The code does not keep it.
OneTestAtATime == Cardinality({i \in Tests : phase[i] \in Running}) <= 1

\* Start passes its check beside a test that runs, and runs by itself so far,
\* only when a worker of that test got no memory, which sets the state to error
\* while the others run, or when the test began between the two looks, the first
\* of which did not find it.  Stops, ends of tests and failures to spawn a
\* thread never make the state look free (memory_test.rs:121).
OverlapOnlyThroughWindows ==
  [][\A i, j \in Tests :
       /\ phase[i] \in Running
       /\ phase[j] = "looked" /\ phase'[j] = "checked"
       => i \in lacked \cup crossed \/ (phase[i] = "running" /\ i \notin seen[j])]_vars

\* Errors make a test fail, also one that was stopped, and only its own do.  A
\* test that had the flag and the status for itself passed only if it ran to its
\* deadline, is called stopped only if somebody stopped it, is an error when a
\* worker lacked memory, whatever the others did; and the window shows its verdict
\* until the next test is launched (memory_test.rs:336-352).
VerdictIsTrue ==
  /\ \A i \in Tests :
       /\ verdict[i] \in {"passed", "stopped"} => ~found[i]
       /\ verdict[i] = "failed" => found[i]
  /\ \A i \in Tests \ crossed :
       /\ verdict[i] = "passed" => due[i]
       /\ verdict[i] = "stopped" => i \in stopped
       /\ i \in lacked /\ phase[i] = "done" => verdict[i] = "error"
       /\ i = latest /\ phase[i] = "done" =>
            status.state = verdict[i] /\ (status.errors <=> found[i])

\* A stop ends every test under way without waiting for the deadline, also tests
\* that share the flag, unless a later start clears the flag first
\* (memory_test.rs:157).
StopEnds == \A i \in Tests : i \in stopped ~> phase[i] = "done" \/ i \notin stopped
=============================================================================

--------------------------- MODULE MemoryTestProofs ---------------------------
(***************************************************************************)
(* How memory tests come to run beside each other, and what their verdicts *)
(* are worth, for any number of tests and threads: theorems about          *)
(* MemoryTest.  Nothing is assumed of the calls of start and stop.         *)
(***************************************************************************)
EXTENDS MemoryTest, TLAPS

USE MemoryAssumption DEF Tests, Running, UnderWay, threads, history

(* The values of the variables. *)
States == {"idle", "allocating", "running", "error", "failed", "stopped", "passed"}
Verdicts == {"none", "error", "failed", "stopped", "passed"}
Phases == {"none", "looked", "checked", "reset", "spawned", "running", "done"}
Places == {"none", "allocating", "testing", "lacking", "done"}

TypeOK ==
  /\ status \in [state : States, errors : BOOLEAN]
  /\ cancel \in BOOLEAN /\ latest \in 0..MaxTests
  /\ phase \in [Tests -> Phases]
  /\ worker \in [Tests -> [Workers -> Places]]
  /\ found \in [Tests -> BOOLEAN] /\ due \in [Tests -> BOOLEAN]
  /\ seen \in [Tests -> SUBSET Tests]
  /\ stopped \subseteq Tests /\ lacked \subseteq Tests /\ crossed \subseteq Tests
  /\ verdict \in [Tests -> Verdicts]

(* Tests that are under way together know of it; what a look found running *)
(* although the state was another had lacked memory or was crossed.        *)
CrossInv ==
  /\ \A i, j \in Tests :
       i # j /\ phase[i] \in UnderWay /\ phase[j] \in UnderWay => i \in crossed
  /\ \A j \in Tests : seen[j] \subseteq lacked \cup crossed

(* A test has threads, results and a lack of memory only once it runs, and *)
(* a verdict at its end.                                                   *)
WorkerInv ==
  \A i \in Tests :
    /\ phase[i] \notin {"running", "done"} => ~found[i] /\ i \notin lacked
    /\ verdict[i] # "none" => phase[i] = "done"
    /\ \A w \in Workers :
         /\ worker[i][w] \in {"allocating", "testing", "lacking"} => phase[i] = "running"
         /\ worker[i][w] = "lacking" => i \in lacked

(* The status tells of a test that runs by itself; what it says once a     *)
(* worker got no memory may have to wait for that worker.                  *)
StatusInv ==
  \A i \in Tests \ crossed :
    /\ phase[i] = "spawned" => status.state = "allocating"
    /\ phase[i] = "running" /\ i \notin lacked => status.state = "running"
    /\ phase[i] = "running" /\ i \in lacked =>
         status.state = "error" \/ \E w \in Workers : worker[i][w] = "lacking"
    /\ phase[i] \in Running => latest = i
    /\ phase[i] = "done" /\ latest = i => \A j \in Tests : phase[j] \notin Running

(* The flag of such a test was raised for it, and a worker that is done    *)
(* found it raised or the deadline passed.                                 *)
CancelInv ==
  \A i \in Tests \ crossed :
    /\ phase[i] \in UnderWay /\ cancel => i \in stopped \cup lacked
    /\ phase[i] = "running" =>
         \A w \in Workers : worker[i][w] \in {"lacking", "done"} => due[i] \/ cancel

(* The inductive invariant. *)
Inv == TypeOK /\ CrossInv /\ WorkerInv /\ StatusInv /\ CancelInv /\ VerdictIsTrue

-----------------------------------------------------------------------------
(* The steps *)

(* A look at a state that is not "running" finds no test that runs by      *)
(* itself and has its memory.                                              *)
LEMMA LookKeeps == ASSUME Inv, NEW i \in Tests, Look(i) PROVE Inv'
<1>1. TypeOK'
  BY DEF Look, Step, Inv, TypeOK, Phases
<1>2. CrossInv'
  BY DEF Look, Step, Inv, CrossInv, StatusInv
<1>3. WorkerInv'
  BY DEF Look, Step, Inv, WorkerInv
<1>4. StatusInv'
  BY DEF Look, Step, Inv, StatusInv
<1>5. CancelInv'
  BY DEF Look, Step, Inv, CancelInv
<1>6. VerdictIsTrue'
  BY DEF Look, Step, Inv, VerdictIsTrue
<1> QED BY <1>1, <1>2, <1>3, <1>4, <1>5, <1>6 DEF Inv

(* The second look changes nothing but where the start stands.             *)
LEMMA CheckKeeps == ASSUME Inv, NEW i \in Tests, Check(i) PROVE Inv'
<1>1. TypeOK'
  BY DEF Check, Step, Inv, TypeOK, Phases
<1>2. CrossInv'
  BY DEF Check, Step, Inv, CrossInv
<1>3. WorkerInv'
  BY DEF Check, Step, Inv, WorkerInv
<1>4. StatusInv'
  BY DEF Check, Step, Inv, StatusInv
<1>5. CancelInv'
  BY DEF Check, Step, Inv, CancelInv
<1>6. VerdictIsTrue'
  BY DEF Check, Step, Inv, VerdictIsTrue
<1> QED BY <1>1, <1>2, <1>3, <1>4, <1>5, <1>6 DEF Inv

(* A start is refused.                                                     *)
LEMMA RefuseKeeps == ASSUME Inv, NEW i \in Tests, Refuse(i) PROVE Inv'
<1>1. TypeOK'
  BY DEF Refuse, Step, Inv, TypeOK, Phases
<1>2. CrossInv'
  BY DEF Refuse, Step, Inv, TypeOK, CrossInv
<1>3. WorkerInv'
  BY DEF Refuse, Step, Inv, TypeOK, WorkerInv
<1>4. StatusInv'
  BY DEF Refuse, Step, Inv, TypeOK, StatusInv
<1>5. CancelInv'
  BY DEF Refuse, Step, Inv, TypeOK, CancelInv
<1>6. VerdictIsTrue'
  BY DEF Refuse, Step, Inv, TypeOK, VerdictIsTrue
<1> QED BY <1>1, <1>2, <1>3, <1>4, <1>5, <1>6 DEF Inv

(* The flag is cleared: every other test under way is crossed.             *)
LEMMA ClearCancelKeeps == ASSUME Inv, NEW i \in Tests, ClearCancel(i) PROVE Inv'
<1>1. TypeOK'
  BY DEF ClearCancel, Step, Others, Inv, TypeOK, Phases
<1>2. CrossInv'
  BY DEF ClearCancel, Step, Others, Inv, CrossInv
<1>3. WorkerInv'
  BY DEF ClearCancel, Step, Others, Inv, WorkerInv
<1>4. StatusInv'
  BY DEF ClearCancel, Step, Others, Inv, StatusInv
<1>5. CancelInv'
  BY DEF ClearCancel, Step, Others, Inv, CancelInv
<1>6. VerdictIsTrue'
  BY DEF ClearCancel, Step, Others, Inv, VerdictIsTrue
<1> QED BY <1>1, <1>2, <1>3, <1>4, <1>5, <1>6 DEF Inv

(* The status is set and the thread spawned.                               *)
LEMMA LaunchKeeps == ASSUME Inv, NEW i \in Tests, Launch(i) PROVE Inv'
<1>1. TypeOK'
  BY DEF Launch, Step, Inv, TypeOK, States, Phases
<1>2. CrossInv'
  BY DEF Launch, Step, Inv, CrossInv
<1>3. WorkerInv'
  BY DEF Launch, Step, Inv, WorkerInv
<1>4. StatusInv'
  BY DEF Launch, Step, Inv, CrossInv, StatusInv
<1>5. CancelInv'
  BY DEF Launch, Step, Inv, CancelInv
<1>6. VerdictIsTrue'
  BY DEF Launch, Step, Inv, VerdictIsTrue
<1> QED BY <1>1, <1>2, <1>3, <1>4, <1>5, <1>6 DEF Inv

(* No thread: the test is over, with an error.                             *)
LEMMA LaunchFailsKeeps == ASSUME Inv, NEW i \in Tests, LaunchFails(i) PROVE Inv'
<1>1. TypeOK'
  BY DEF LaunchFails, Step, Inv, TypeOK, States, Verdicts, Phases
<1>2. CrossInv'
  BY DEF LaunchFails, Step, Inv, CrossInv
<1>3. WorkerInv'
  BY DEF LaunchFails, Step, Inv, TypeOK, WorkerInv
<1>4. StatusInv'
  BY DEF LaunchFails, Step, Inv, CrossInv, StatusInv
<1>5. CancelInv'
  BY DEF LaunchFails, Step, Inv, CancelInv
<1>6. VerdictIsTrue'
  BY DEF LaunchFails, Step, Inv, TypeOK, WorkerInv, VerdictIsTrue
<1> QED BY <1>1, <1>2, <1>3, <1>4, <1>5, <1>6 DEF Inv

(* Stop raises the flag for the tests that have cleared it.                *)
LEMMA StopKeeps == ASSUME Inv, Stop PROVE Inv'
<1>1. TypeOK'
  BY DEF Stop, StateWhenStopping, Inv, TypeOK
<1>2. CrossInv'
  BY DEF Stop, StateWhenStopping, Inv, CrossInv
<1>3. WorkerInv'
  BY DEF Stop, StateWhenStopping, Inv, WorkerInv
<1>4. StatusInv'
  BY DEF Stop, StateWhenStopping, Inv, StatusInv
<1>5. CancelInv'
  BY DEF Stop, StateWhenStopping, Inv, CancelInv
<1>6. VerdictIsTrue'
  BY DEF Stop, StateWhenStopping, Inv, VerdictIsTrue
<1> QED BY <1>1, <1>2, <1>3, <1>4, <1>5, <1>6 DEF Inv

(* The test's thread starts its workers.                                   *)
LEMMA BeginKeeps == ASSUME Inv, NEW i \in Tests, Begin(i) PROVE Inv'
<1>1. TypeOK'
  BY DEF Begin, Step, Inv, TypeOK, States, Phases, Places
<1>2. CrossInv'
  BY DEF Begin, Step, Inv, CrossInv
<1>3. WorkerInv'
  BY DEF Begin, Step, Inv, TypeOK, WorkerInv
<1>4. StatusInv'
  BY DEF Begin, Step, Inv, TypeOK, CrossInv, WorkerInv, StatusInv
<1>5. CancelInv'
  BY DEF Begin, Step, Inv, TypeOK, CancelInv
<1>6. VerdictIsTrue'
  BY DEF Begin, Step, Inv, StatusInv, VerdictIsTrue
<1> QED BY <1>1, <1>2, <1>3, <1>4, <1>5, <1>6 DEF Inv

(* A worker has its memory.                                                *)
LEMMA AllocateKeeps ==
  ASSUME Inv, NEW i \in Tests, NEW w \in Workers, Allocate(i, w)
  PROVE  Inv'
<1>1. TypeOK'
  BY DEF Allocate, Moves, Inv, TypeOK, Places
<1>2. CrossInv'
  BY DEF Allocate, Moves, Inv, CrossInv
<1>3. WorkerInv'
  BY DEF Allocate, Moves, Inv, WorkerInv
<1>4. StatusInv'
  BY DEF Allocate, Moves, Inv, StatusInv
<1>5. CancelInv'
  BY DEF Allocate, Moves, Inv, CancelInv
<1>6. VerdictIsTrue'
  BY DEF Allocate, Moves, Inv, VerdictIsTrue
<1> QED BY <1>1, <1>2, <1>3, <1>4, <1>5, <1>6 DEF Inv

(* A worker has none and raises the flag...                                *)
LEMMA LackKeeps ==
  ASSUME Inv, NEW i \in Tests, NEW w \in Workers, Lack(i, w)
  PROVE  Inv'
<1>1. TypeOK'
  BY DEF Lack, Moves, Inv, TypeOK, Places
<1>2. CrossInv'
  BY DEF Lack, Moves, Inv, CrossInv
<1>3. WorkerInv'
  BY DEF Lack, Moves, Inv, WorkerInv
<1>4. StatusInv'
  BY DEF Lack, Moves, Inv, TypeOK, StatusInv
<1>5. CancelInv'
  BY DEF Lack, Moves, Inv, CrossInv, WorkerInv, CancelInv
<1>6. VerdictIsTrue'
  BY DEF Lack, Moves, Inv, WorkerInv, VerdictIsTrue
<1> QED BY <1>1, <1>2, <1>3, <1>4, <1>5, <1>6 DEF Inv

(* ... and sets the status.                                                *)
LEMMA NoteLackKeeps ==
  ASSUME Inv, NEW i \in Tests, NEW w \in Workers, NoteLack(i, w)
  PROVE  Inv'
<1>1. TypeOK'
  BY DEF NoteLack, Moves, Inv, TypeOK, States, Places
<1>2. CrossInv'
  BY DEF NoteLack, Moves, Inv, CrossInv
<1>3. WorkerInv'
  BY DEF NoteLack, Moves, Inv, WorkerInv
<1>4. StatusInv'
  BY DEF NoteLack, Moves, Inv, CrossInv, WorkerInv, StatusInv
<1>5. CancelInv'
  BY DEF NoteLack, Moves, Inv, CancelInv
<1>6. VerdictIsTrue'
  BY DEF NoteLack, Moves, Inv, WorkerInv, StatusInv, VerdictIsTrue
<1> QED BY <1>1, <1>2, <1>3, <1>4, <1>5, <1>6 DEF Inv

(* A worker finds an error.                                                *)
LEMMA MismatchKeeps ==
  ASSUME Inv, NEW i \in Tests, NEW w \in Workers, Mismatch(i, w)
  PROVE  Inv'
<1>1. TypeOK'
  BY DEF Mismatch, Inv, TypeOK
<1>2. CrossInv'
  BY DEF Mismatch, Inv, CrossInv
<1>3. WorkerInv'
  BY DEF Mismatch, Inv, WorkerInv
<1>4. StatusInv'
  BY DEF Mismatch, Inv, StatusInv
<1>5. CancelInv'
  BY DEF Mismatch, Inv, CancelInv
<1>6. VerdictIsTrue'
  BY DEF Mismatch, Inv, WorkerInv, VerdictIsTrue
<1> QED BY <1>1, <1>2, <1>3, <1>4, <1>5, <1>6 DEF Inv

(* A worker ends, by the flag or the deadline.                             *)
LEMMA FinishKeeps ==
  ASSUME Inv, NEW i \in Tests, NEW w \in Workers, Finish(i, w)
  PROVE  Inv'
<1>1. TypeOK'
  BY DEF Finish, Moves, Over, Inv, TypeOK, Places
<1>2. CrossInv'
  BY DEF Finish, Moves, Over, Inv, CrossInv
<1>3. WorkerInv'
  BY DEF Finish, Moves, Over, Inv, WorkerInv
<1>4. StatusInv'
  BY DEF Finish, Moves, Over, Inv, StatusInv
<1>5. CancelInv'
  BY DEF Finish, Moves, Over, Inv, CancelInv
<1>6. VerdictIsTrue'
  BY DEF Finish, Moves, Over, Inv, VerdictIsTrue
<1> QED BY <1>1, <1>2, <1>3, <1>4, <1>5, <1>6 DEF Inv

(* The deadline passes.                                                    *)
LEMMA DeadlinePassesKeeps ==
  ASSUME Inv, NEW i \in Tests, DeadlinePasses(i)
  PROVE  Inv'
<1>1. TypeOK'
  BY DEF DeadlinePasses, Inv, TypeOK
<1>2. CrossInv'
  BY DEF DeadlinePasses, Inv, CrossInv
<1>3. WorkerInv'
  BY DEF DeadlinePasses, Inv, WorkerInv
<1>4. StatusInv'
  BY DEF DeadlinePasses, Inv, StatusInv
<1>5. CancelInv'
  BY DEF DeadlinePasses, Inv, CancelInv
<1>6. VerdictIsTrue'
  BY DEF DeadlinePasses, Inv, VerdictIsTrue
<1> QED BY <1>1, <1>2, <1>3, <1>4, <1>5, <1>6 DEF Inv

(* The counters are copied to the status.                                  *)
LEMMA ProgressKeeps == ASSUME Inv, NEW i \in Tests, Progress(i) PROVE Inv'
<1>1. TypeOK'
  BY DEF Progress, Inv, TypeOK
<1>2. CrossInv'
  BY DEF Progress, Inv, CrossInv
<1>3. WorkerInv'
  BY DEF Progress, Inv, WorkerInv
<1>4. StatusInv'
  BY DEF Progress, Inv, StatusInv
<1>5. CancelInv'
  BY DEF Progress, Inv, CancelInv
<1>6. VerdictIsTrue'
  BY DEF Progress, Inv, StatusInv, VerdictIsTrue
<1> QED BY <1>1, <1>2, <1>3, <1>4, <1>5, <1>6 DEF Inv

(* The verdict, once every worker is done.                                 *)
LEMMA ConcludeKeeps == ASSUME Inv, NEW i \in Tests, Conclude(i) PROVE Inv'
<1>1. TypeOK'
  BY DEF Conclude, Step, Joined, Outcome, Inv, TypeOK, States, Verdicts, Phases
<1>2. CrossInv'
  BY DEF Conclude, Step, Joined, Outcome, Inv, CrossInv
<1>3. WorkerInv'
  BY DEF Conclude, Step, Joined, Outcome, Inv, TypeOK, WorkerInv
<1>4. StatusInv'
  BY DEF Conclude, Step, Joined, Outcome, Inv, TypeOK, CrossInv, StatusInv
<1>5. CancelInv'
  BY DEF Conclude, Step, Joined, Outcome, Inv, CancelInv
<1>6. VerdictIsTrue'
  BY DEF Conclude, Step, Joined, Outcome, Inv, TypeOK, StatusInv, CancelInv, VerdictIsTrue
<1> QED BY <1>1, <1>2, <1>3, <1>4, <1>5, <1>6 DEF Inv

(* The invariant holds at first. *)
LEMMA InvInit == Init => Inv
<1> SUFFICES ASSUME Init PROVE Inv
  OBVIOUS
<1>1. TypeOK
  <2>1. status \in [state : States, errors : BOOLEAN]
    BY DEF Init, States
  <2>2. phase \in [Tests -> Phases] /\ verdict \in [Tests -> Verdicts]
    BY DEF Init, Phases, Verdicts
  <2>3. worker \in [Tests -> [Workers -> Places]]
    BY DEF Init, Places
  <2>4. /\ found \in [Tests -> BOOLEAN] /\ due \in [Tests -> BOOLEAN]
        /\ seen \in [Tests -> SUBSET Tests]
    BY DEF Init
  <2>5. latest \in 0..MaxTests
    BY DEF Init
  <2> QED BY <2>1, <2>2, <2>3, <2>4, <2>5 DEF Init, TypeOK
<1>2. CrossInv
  BY DEF Init, CrossInv
<1>3. WorkerInv
  BY DEF Init, WorkerInv
<1>4. StatusInv
  BY DEF Init, StatusInv
<1>5. CancelInv
  BY DEF Init, CancelInv
<1>6. VerdictIsTrue
  BY DEF Init, VerdictIsTrue
<1> QED BY <1>1, <1>2, <1>3, <1>4, <1>5, <1>6 DEF Inv

(* Every step keeps it. *)
LEMMA InvStep == Inv /\ [Next]_vars => Inv'
<1> SUFFICES ASSUME Inv, [Next]_vars PROVE Inv'
  OBVIOUS
<1>1. CASE StartNext \/ Stop
  BY <1>1, LookKeeps, CheckKeeps, RefuseKeeps, ClearCancelKeeps, LaunchKeeps,
     LaunchFailsKeeps, StopKeeps DEF StartNext
<1>2. CASE ThreadsNext
  BY <1>2, BeginKeeps, ConcludeKeeps, AllocateKeeps, LackKeeps, NoteLackKeeps, FinishKeeps
     DEF ThreadsNext
<1>3. CASE \E i \in Tests : DeadlinePasses(i) \/ Progress(i)
  BY <1>3, DeadlinePassesKeeps, ProgressKeeps
<1>4. CASE \E i \in Tests, w \in Workers : Mismatch(i, w)
  BY <1>4, MismatchKeeps
<1>5. CASE UNCHANGED vars
  BY <1>5 DEF vars, Inv, TypeOK, CrossInv, WorkerInv, StatusInv,
     CancelInv, VerdictIsTrue
<1> QED BY <1>1, <1>2, <1>3, <1>4, <1>5 DEF Next

-----------------------------------------------------------------------------
(* Only Check takes a start from "looked" to "checked".                    *)
LEMMA OnlyCheck ==
  ASSUME Inv, [Next]_vars, NEW j \in Tests, phase[j] = "looked", phase'[j] = "checked"
  PROVE  Check(j)
<1>1. CASE \E i \in Tests : Check(i)
  BY <1>1 DEF Check, Step, Inv, TypeOK
<1>2. CASE \E i \in Tests :
             Look(i) \/ Refuse(i) \/ ClearCancel(i) \/ Launch(i) \/ LaunchFails(i)
  BY <1>2 DEF Look, Refuse, ClearCancel, Launch, LaunchFails, Step, Inv, TypeOK
<1>3. CASE Stop
  BY <1>3 DEF Stop
<1>4. CASE ThreadsNext
  BY <1>4 DEF ThreadsNext, Begin, Conclude, Allocate, Lack, NoteLack, Finish, Step, Inv,
     TypeOK
<1>5. CASE \/ \E i \in Tests : DeadlinePasses(i) \/ Progress(i)
           \/ \E i \in Tests, w \in Workers : Mismatch(i, w)
  BY <1>5 DEF DeadlinePasses, Progress, Mismatch
<1>6. CASE UNCHANGED vars
  BY <1>6 DEF vars
<1> QED BY <1>1, <1>2, <1>3, <1>4, <1>5, <1>6 DEF Next, StartNext

(* A second test starts beside one that runs by itself only when that one  *)
(* lacked memory or began between the looks (memory_test.rs:121).          *)
THEOREM OverlapsAreExplained == Spec => OverlapOnlyThroughWindows
<1> DEFINE Passed(i, j) ==
      /\ phase[i] \in Running
      /\ phase[j] = "looked" /\ phase'[j] = "checked"
<1> DEFINE Explained ==
      \A i, j \in Tests :
        Passed(i, j) =>
          i \in lacked \cup crossed \/ (phase[i] = "running" /\ i \notin seen[j])
<1>1. Init => Inv
  BY InvInit
<1>2. Inv /\ [Next]_vars => Inv'
  BY InvStep
<1>3. Inv /\ [Next]_vars => Explained
  <2> SUFFICES ASSUME Inv, [Next]_vars, NEW i \in Tests, NEW j \in Tests, Passed(i, j),
                      i \notin lacked \cup crossed
               PROVE  phase[i] = "running" /\ i \notin seen[j]
    OBVIOUS
  <2>1. Check(j)
    BY OnlyCheck
  <2>2. phase[i] # "spawned"
    BY <2>1 DEF Check, Inv, StatusInv
  <2>3. i \notin seen[j]
    BY DEF Inv, CrossInv
  <2> QED BY <2>2, <2>3
<1>4. Inv /\ [Next]_vars => [Explained]_vars
  BY <1>3
<1> QED BY <1>1, <1>2, <1>4, PTL DEF Spec, OverlapOnlyThroughWindows

(* The verdict of a test is true of it, and the window shows the verdict   *)
(* of the latest one.                                                      *)
THEOREM VerdictsAreTrue == Spec => []VerdictIsTrue
<1>1. Init => Inv
  BY InvInit
<1>2. Inv /\ [Next]_vars => Inv'
  BY InvStep
<1>3. Inv => VerdictIsTrue
  BY DEF Inv
<1> QED BY <1>1, <1>2, <1>3, PTL DEF Spec
=============================================================================

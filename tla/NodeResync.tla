------------------------------ MODULE NodeResync ------------------------------
(***************************************************************************)
(* NodeResyncCoordinator, desktop/src/lib/nodeResync.ts: after a           *)
(* connection is made, or a node appears in the inventory, the desktop     *)
(* asks the node for its state with the node's status commands, one after  *)
(* another, and tries again after a delay when one of them failed.         *)
(*                                                                         *)
(* The code is single threaded, so an action is the code between two       *)
(* awaits.  A `run' is one call of runAttempt that waits for its send; it  *)
(* goes on waiting when the job it works for has been replaced, and only   *)
(* its token tells it so when it resumes.                                  *)
(***************************************************************************)
EXTENDS Naturals, FiniteSets

CONSTANTS
  Tags,       \* node tags, in lower case
  NumCommands,\* [Tags -> Nat]: status commands of a tag, 0 for node0
  MaxRetries, \* retryDelaysMs.length
  MaxChanges  \* bound: changes of the connection and of the inventory

ASSUME CommandsAssumption == IsFiniteSet(Tags) /\ NumCommands \in [Tags -> Nat]
ASSUME RetriesAssumption == MaxRetries \in Nat
ASSUME ChangesAssumption == MaxChanges \in Nat

VARIABLES
  connected, disposed, live, synced,  \* the fields of the same names
  jobs,       \* tag -> [token, timer, next]; next is the attempt the timer will start
  nextToken,
  runs,       \* calls of runAttempt waiting for `send':
              \* [tag, token, attempt, sent, successful]
  changes,    \* bound counter
  sends,      \* history: commands sent to a tag in its present presence
  verdict     \* history: how the last cycle of a tag's presence ended

vars == <<connected, disposed, live, synced, jobs, nextToken, runs, changes, sends, verdict>>

\* (mutant) After an await only disposal is looked at.
IsCurrent_Mutant(r) == ~disposed

\* isCurrent, for a given state of the coordinator.
IsCurrent(r) ==
  /\ ~disposed /\ connected /\ r.tag \in live
  /\ r.tag \in DOMAIN jobs /\ jobs[r.tag].token = r.token

Only(f, S) == [x \in DOMAIN f \cap S |-> f[x]]

NewJob(token) == [token |-> token, timer |-> FALSE, next |-> 0]
Set(tag, job) == [t \in DOMAIN jobs \cup {tag} |-> IF t = tag THEN job ELSE jobs[t]]

FirstRun(tag, attempt, token) ==
  [tag |-> tag, token |-> token, attempt |-> attempt, sent |-> 1, successful |-> TRUE]

\* (mutant) The token is not advanced over a reconnect.
TokenAfter_Mutant(n) == n

\* The n-th token taken from now on.
TokenAfter(n) == nextToken + n

\* refreshUnsynced: every live tag not yet synced becomes so, and those with
\* commands start attempt 0.  `order' is the iteration order of the live set.
Unsynced(nowLive, nowSynced) == nowLive \ nowSynced
Starting(nowLive, nowSynced) == {t \in Unsynced(nowLive, nowSynced) : NumCommands[t] > 0}

SyncedAfter(nowLive, nowSynced) == nowSynced \cup nowLive

Orders(S) == {o \in [S -> 1..Cardinality(S)] : \A a, b \in S : o[a] = o[b] => a = b}

RefreshUnsynced(nowLive, nowSynced, kept, order) ==
  /\ synced' = SyncedAfter(nowLive, nowSynced)
  /\ nextToken' = TokenAfter(Cardinality(DOMAIN order))
  /\ jobs' = [t \in DOMAIN kept \cup DOMAIN order |->
                IF t \in DOMAIN order THEN NewJob(TokenAfter(order[t])) ELSE kept[t]]
  /\ runs' = runs \cup {FirstRun(t, 0, TokenAfter(order[t])) : t \in DOMAIN order}

Fresh(gone) ==
  /\ sends' = [t \in Tags |-> IF t \in DOMAIN jobs' /\ jobs'[t].token > nextToken THEN 1
                              ELSE IF t \in gone THEN 0 ELSE sends[t]]
  /\ verdict' = [t \in Tags |-> IF t \in gone THEN "none" ELSE verdict[t]]

Init ==
  /\ connected = FALSE /\ disposed = FALSE
  /\ live = {} /\ synced = {}
  /\ jobs = [t \in {} |-> NewJob(0)]
  /\ nextToken = 0 /\ runs = {} /\ changes = 0
  /\ sends = [t \in Tags |-> 0] /\ verdict = [t \in Tags |-> "none"]
-----------------------------------------------------------------------------
Change == changes < MaxChanges /\ changes' = changes + 1

\* (mutant) A new connection keeps what the last one had synced.
SyncedAfterReconnect_Mutant == synced

\* What a change of the connection, or of the inventory, keeps of `synced'
\* and of the jobs.
SyncedAfterReconnect == {}
SyncedStill(gone) == synced \ gone
JobsAfterReconnect == Only(jobs, {})

\* setConnected(TRUE): a new connection asks every live node again.
Connects ==
  /\ Change /\ ~disposed /\ ~connected
  /\ connected' = TRUE
  /\ \E order \in Orders(Starting(live, SyncedAfterReconnect)) :
       RefreshUnsynced(live, SyncedAfterReconnect, JobsAfterReconnect, order)
  /\ Fresh(Tags)
  /\ UNCHANGED <<disposed, live>>

\* setConnected(FALSE).
Disconnects ==
  /\ Change /\ ~disposed /\ connected
  /\ connected' = FALSE
  /\ jobs' = JobsAfterReconnect /\ synced' = SyncedAfterReconnect
  /\ sends' = [t \in Tags |-> 0] /\ verdict' = [t \in Tags |-> "none"]
  /\ UNCHANGED <<disposed, live, nextToken, runs>>

\* updateInventory: tags that left lose their job, new ones are asked.
UpdateInventory(next) ==
  /\ Change /\ ~disposed
  /\ live' = next
  /\ LET gone == live \ next
         kept == Only(jobs, Tags \ gone)
     IN IF connected
        THEN /\ \E order \in Orders(Starting(next, SyncedStill(gone))) :
                  RefreshUnsynced(next, SyncedStill(gone), kept, order)
             /\ Fresh(gone)
        ELSE /\ synced' = SyncedStill(gone) /\ jobs' = kept
             /\ UNCHANGED <<nextToken, runs, sends, verdict>>
  /\ UNCHANGED <<connected, disposed>>

\* dispose: the effect that owns the coordinator ends.
Dispose ==
  /\ Change /\ ~disposed
  /\ disposed' = TRUE
  /\ jobs' = Only(jobs, {}) /\ live' = {} /\ synced' = {}
  /\ sends' = [t \in Tags |-> 0] /\ verdict' = [t \in Tags |-> "none"]
  /\ UNCHANGED <<connected, nextToken, runs>>
-----------------------------------------------------------------------------
\* The send of a run resolves with `ok' and the run goes on.
IsLast(r) == r.sent = NumCommands[r.tag]
Result(r, ok) == r.successful /\ ok
Exhausted(r) == r.attempt >= MaxRetries

\* A run whose job is gone or replaced returns.
Abandon(r) ==
  /\ r \in runs /\ ~IsCurrent(r)
  /\ runs' = runs \ {r}
  /\ UNCHANGED <<connected, disposed, live, synced, jobs, nextToken, changes, sends, verdict>>

\* It sends the next command of the tag.
SendNext(r, ok) ==
  /\ r \in runs /\ IsCurrent(r) /\ ~IsLast(r)
  /\ runs' = (runs \ {r}) \cup {[r EXCEPT !.sent = @ + 1, !.successful = Result(r, ok)]}
  /\ sends' = [sends EXCEPT ![r.tag] = @ + 1]
  /\ UNCHANGED <<connected, disposed, live, synced, jobs, nextToken, changes, verdict>>

\* All commands were answered, or no retry is left: the job ends.
Finish(r, ok) ==
  /\ r \in runs /\ IsCurrent(r) /\ IsLast(r)
  /\ Result(r, ok) \/ Exhausted(r)
  /\ jobs' = Only(jobs, Tags \ {r.tag})
  /\ runs' = runs \ {r}
  /\ verdict' = [verdict EXCEPT ![r.tag] = IF Result(r, ok) THEN "refreshed" ELSE "gaveUp"]
  /\ UNCHANGED <<connected, disposed, live, synced, nextToken, changes, sends>>

\* One failed: the job's timer is armed for the next attempt.
TimerArmed(r) == [jobs[r.tag] EXCEPT !.timer = TRUE, !.next = r.attempt + 1]

RetryLater(r, ok) ==
  /\ r \in runs /\ IsCurrent(r) /\ IsLast(r)
  /\ ~Result(r, ok) /\ ~Exhausted(r)
  /\ r.tag \in DOMAIN jobs
  /\ jobs' = Set(r.tag, TimerArmed(r))
  /\ runs' = runs \ {r}
  /\ UNCHANGED <<connected, disposed, live, synced, nextToken, changes, sends, verdict>>

\* The timer fires.  A cancelled job has cleared its timer, so only armed
\* timers of present jobs fire; startAttempt replaces the job.
TimerFires(t) ==
  /\ t \in DOMAIN jobs /\ jobs[t].timer
  /\ ~disposed /\ connected /\ t \in live
  /\ nextToken' = TokenAfter(1)
  /\ jobs' = Set(t, NewJob(TokenAfter(1)))
  /\ runs' = runs \cup {FirstRun(t, jobs[t].next, TokenAfter(1))}
  /\ sends' = [sends EXCEPT ![t] = @ + 1]
  /\ UNCHANGED <<connected, disposed, live, synced, changes, verdict>>

Settle(r) == Abandon(r) \/ \E ok \in BOOLEAN : SendNext(r, ok) \/ Finish(r, ok) \/ RetryLater(r, ok)

Next ==
  \/ Connects \/ Disconnects \/ Dispose
  \/ \E next \in SUBSET Tags : UpdateInventory(next)
  \/ \E r \in runs : Settle(r)
  \/ \E t \in Tags : TimerFires(t)

\* Sends resolve (the root worker answers every caller) and timers fire.
Fairness ==
  /\ WF_vars(\E r \in runs : Settle(r))
  /\ \A t \in Tags : WF_vars(TimerFires(t))

Spec == Init /\ [][Next]_vars
FairSpec == Spec /\ Fairness
-----------------------------------------------------------------------------
\* One round at a time, and a bounded number of them: two runs never work for
\* the same tag, however many old ones still wait for their sends, and in one
\* presence of a node (it stays in the inventory and the connection holds) its
\* commands are sent in at most 1 + MaxRetries rounds and it is given up only
\* after all of them, however often the inventory repeats.
RoundsInOrder ==
  /\ \A r, s \in runs : IsCurrent(r) /\ IsCurrent(s) /\ r.tag = s.tag => r = s
  /\ \A t \in Tags :
       /\ sends[t] <= (1 + MaxRetries) * NumCommands[t]
       /\ verdict[t] = "gaveUp" => sends[t] = (1 + MaxRetries) * NumCommands[t]

\* Nothing is sent to a node that left, over a connection that ended, or by a
\* coordinator that was disposed, not even by a run that was waiting then.
NoSendToAbsent ==
  [][\A t \in Tags : sends'[t] > sends[t] => connected' /\ ~disposed' /\ t \in live']_vars

\* No live node is forgotten: one that has commands, and that stays, is refreshed
\* or given up, whatever runs and timers its comings and goings left behind.
EveryNodeSettles ==
  \A t \in Tags :
    (connected /\ t \in live /\ NumCommands[t] > 0)
      ~> (verdict[t] # "none" \/ ~connected \/ disposed \/ t \notin live)
=============================================================================

---------------------------- MODULE FrontEndProofs ----------------------------
(***************************************************************************)
(* Theorems about the three parts of the page that keep timers: NodeResync *)
(* (rounds of status commands come one at a time, are bounded, and only go *)
(* to nodes that are there), ClimatePoller (one loop, and nothing of an    *)
(* earlier connection) and CommandFeedback (no mark is given up before its *)
(* status was asked for again); for any commands, tags, retries and        *)
(* changes.  The parts share no state.                                     *)
(***************************************************************************)
EXTENDS NodeResync, ClimatePoller, CommandFeedback, FiniteSetTheorems, SequenceTheorems,
        WellFoundedInduction, TLAPS

-----------------------------------------------------------------------------
(* Node resync *)

USE CommandsAssumption, RetriesAssumption

(* The values of the variables. *)
JobType == [token : Nat, timer : BOOLEAN, next : Nat]
RunType == [tag : Tags, token : Nat, attempt : Nat, sent : Nat, successful : BOOLEAN]

TypeOK ==
  /\ live \subseteq Tags /\ synced \subseteq Tags
  /\ DOMAIN jobs \subseteq Tags /\ \A t \in DOMAIN jobs : jobs[t] \in JobType
  /\ nextToken \in Nat
  /\ runs \subseteq RunType
  /\ sends \in [Tags -> Nat]
  /\ verdict \in [Tags -> {"none", "refreshed", "gaveUp"}]

(* Tokens are taken once: a tag has no two runs with the same one.         *)
TokenInv ==
  /\ \A t \in DOMAIN jobs : jobs[t].token <= nextToken
  /\ \A r \in runs : r.token <= nextToken
  /\ \A r, s \in runs : r.tag = s.tag /\ r.token = s.token => r = s

(* The run works for the present job of its tag. *)
Works(r) == r.tag \in DOMAIN jobs /\ jobs[r.tag].token = r.token

(* The sends of a tag with a job are those of the rounds before and of the *)
(* round under way: a timer is armed between rounds, and then no run works *)
(* for the job.                                                            *)
RoundInv ==
  /\ \A t \in DOMAIN jobs :
       /\ NumCommands[t] > 0
       /\ jobs[t].timer => /\ jobs[t].next \in 1..MaxRetries
                           /\ sends[t] = jobs[t].next * NumCommands[t]
  /\ \A r \in runs : Works(r) =>
       /\ ~jobs[r.tag].timer
       /\ r.attempt <= MaxRetries /\ r.sent \in 1..NumCommands[r.tag]
       /\ sends[r.tag] = r.attempt * NumCommands[r.tag] + r.sent

(* Only what was synced has a job or a verdict, and not both; without a    *)
(* connection nothing is.                                                  *)
PresenceInv ==
  /\ ~connected \/ disposed => synced = {}
  /\ DOMAIN jobs \subseteq synced
  /\ \A t \in Tags : verdict[t] # "none" => t \in synced \ DOMAIN jobs

(* The rounds are bounded, and used up when a node is given up. *)
BoundInv ==
  \A t \in Tags :
    /\ sends[t] <= (1 + MaxRetries) * NumCommands[t]
    /\ verdict[t] = "gaveUp" => sends[t] = (1 + MaxRetries) * NumCommands[t]

Inv == TypeOK /\ TokenInv /\ RoundInv /\ PresenceInv /\ BoundInv

(* A step asks only nodes that are there. *)
AskedPresent ==
  \A t \in Tags : sends'[t] > sends[t] => connected' /\ ~disposed' /\ t \in live'

-----------------------------------------------------------------------------
(* Rounds of n commands *)

(* One round more. *)
LEMMA OneRound == ASSUME NEW a \in Nat, NEW n \in Nat PROVE (a + 1) * n = a * n + n
  OBVIOUS

(* What is sent in the round after a of at most m rounds is within m + 1.  *)
LEMMA WithinRounds ==
  ASSUME NEW a \in Nat, NEW m \in Nat, NEW n \in Nat, a <= m, NEW s \in 0..n
  PROVE  a * n \in Nat /\ (1 + m) * n \in Nat /\ a * n + s <= (1 + m) * n
<1>1. a * n \in Nat /\ m * n \in Nat /\ (m - a) * n \in Nat
  <2>1. m - a \in Nat
    OBVIOUS
  <2> QED BY <2>1
<1>2. m * n = a * n + (m - a) * n
  OBVIOUS
<1>3. (1 + m) * n = m * n + n
  OBVIOUS
<1> QED BY <1>1, <1>2, <1>3

-----------------------------------------------------------------------------
(* A connection, an inventory *)

(* A refresh after the tags in `gone' left, or all of them did. *)
LEMMA RefreshKeeps ==
  ASSUME Inv, NEW gone \in SUBSET Tags, NEW nowLive \in SUBSET Tags,
         NEW order \in Orders(Starting(nowLive, synced \ gone)),
         RefreshUnsynced(nowLive, synced \ gone, Only(jobs, Tags \ gone), order),
         Fresh(gone), live' = nowLive, connected', ~disposed'
  PROVE  Inv' /\ AskedPresent
<1> DEFINE S == Starting(nowLive, synced \ gone)
           kept == Only(jobs, Tags \ gone)
<1>1. /\ S \subseteq nowLive /\ S \cap (synced \ gone) = {} /\ \A t \in S : NumCommands[t] > 0
      /\ S \subseteq Tags
  BY DEF Starting, Unsynced
<1>2. /\ DOMAIN order = S /\ Cardinality(S) \in Nat
      /\ \A t \in S : order[t] \in 1..Cardinality(S)
  <2>1. IsFiniteSet(S)
    BY <1>1, FS_Subset
  <2>2. Cardinality(S) \in Nat
    BY <2>1, FS_CardinalityType
  <2> QED BY <2>2 DEF Orders
<1>3. /\ DOMAIN kept = DOMAIN jobs \ gone /\ \A t \in DOMAIN kept : kept[t] = jobs[t]
  BY DEF Only, Inv, TypeOK
<1>4. /\ synced' = (synced \ gone) \cup nowLive
      /\ nextToken' = nextToken + Cardinality(S)
      /\ DOMAIN jobs' = DOMAIN kept \cup S
      /\ \A t \in S : jobs'[t] = NewJob(nextToken + order[t])
      /\ \A t \in DOMAIN kept \ S : jobs'[t] = kept[t]
      /\ runs' = runs \cup {FirstRun(t, 0, nextToken + order[t]) : t \in S}
  BY <1>2 DEF RefreshUnsynced, SyncedAfter, TokenAfter
<1> HIDE DEF S, kept
<1>5. DOMAIN kept \cap S = {}
  BY <1>1, <1>3 DEF Inv, PresenceInv
<1>6. nextToken \in Nat /\ \A t \in S : nextToken + order[t] \in Nat /\ nextToken + order[t] > nextToken
                                       /\ nextToken + order[t] <= nextToken'
  BY <1>2, <1>4 DEF Inv, TypeOK
<1>7. /\ \A t \in S : /\ jobs'[t] \in JobType /\ jobs'[t].token = nextToken + order[t]
                      /\ jobs'[t].timer = FALSE
      /\ \A t \in DOMAIN kept : /\ t \in DOMAIN jobs \ gone /\ jobs'[t] = jobs[t]
                                /\ jobs'[t] \in JobType /\ jobs'[t].token <= nextToken
  <2>1. ASSUME NEW t \in S
        PROVE  /\ jobs'[t] \in JobType /\ jobs'[t].token = nextToken + order[t]
               /\ jobs'[t].timer = FALSE
    <3>1. jobs'[t] = NewJob(nextToken + order[t]) /\ nextToken + order[t] \in Nat
      BY <1>4, <1>6
    <3> QED BY <3>1 DEF NewJob, JobType
  <2>2. ASSUME NEW t \in DOMAIN kept
        PROVE  /\ t \in DOMAIN jobs \ gone /\ jobs'[t] = jobs[t]
               /\ jobs'[t] \in JobType /\ jobs'[t].token <= nextToken
    <3>1. t \in DOMAIN jobs \ gone /\ jobs'[t] = jobs[t]
      BY <1>3, <1>4, <1>5
    <3> QED BY <3>1 DEF Inv, TypeOK, TokenInv
  <2> QED BY <2>1, <2>2
<1>8. \A r \in runs' \ runs :
        \E t \in S : /\ r \in RunType /\ r.tag = t /\ r.token = nextToken + order[t]
                     /\ r.attempt = 0 /\ r.sent = 1
  <2> SUFFICES ASSUME NEW t \in S
               PROVE  LET r == FirstRun(t, 0, nextToken + order[t])
                      IN /\ r \in RunType /\ r.tag = t /\ r.token = nextToken + order[t]
                         /\ r.attempt = 0 /\ r.sent = 1
    BY <1>4
  <2>1. t \in Tags /\ nextToken + order[t] \in Nat
    BY <1>1, <1>6
  <2> QED BY <2>1 DEF FirstRun, RunType
<1>9. \A t \in Tags : /\ sends'[t] = IF t \in S THEN 1 ELSE IF t \in gone THEN 0 ELSE sends[t]
                      /\ verdict'[t] = IF t \in gone THEN "none" ELSE verdict[t]
  <2>1. \A t \in Tags : t \in S <=> (t \in DOMAIN jobs' /\ jobs'[t].token > nextToken)
    BY <1>4, <1>6, <1>7 DEF JobType
  <2> QED BY <2>1 DEF Fresh
<1>10. TypeOK'
  <2>1. sends' \in [Tags -> Nat] /\ verdict' \in [Tags -> {"none", "refreshed", "gaveUp"}]
    BY <1>9 DEF Fresh, Inv, TypeOK
  <2>2. runs' \subseteq RunType /\ nextToken' \in Nat
    BY <1>2, <1>4, <1>8 DEF Inv, TypeOK
  <2> QED BY <1>1, <1>3, <1>4, <1>7, <2>1, <2>2 DEF Inv, TypeOK
<1>11. TokenInv'
  <2>1. \A r \in runs : r.token <= nextToken /\ r.token \in Nat
    BY DEF Inv, TypeOK, TokenInv, RunType
  <2>2. \A t \in DOMAIN jobs' : jobs'[t].token <= nextToken'
    BY <1>2, <1>4, <1>6, <1>7 DEF JobType
  <2>3. \A r \in runs' : r.token <= nextToken'
    BY <1>2, <1>4, <1>6, <1>8, <2>1
  <2>4. ASSUME NEW r \in runs', NEW s \in runs', r.tag = s.tag, r.token = s.token
        PROVE  r = s
    <3>1. CASE r \in runs /\ s \in runs
      BY <2>4, <3>1 DEF Inv, TokenInv
    <3>2. CASE r \in runs /\ s \notin runs
      BY <1>6, <1>8, <2>1, <2>4, <3>2
    <3>3. CASE r \notin runs /\ s \in runs
      BY <1>6, <1>8, <2>1, <2>4, <3>3
    <3>4. CASE r \notin runs /\ s \notin runs
      <4>1. PICK t \in S : r = FirstRun(t, 0, nextToken + order[t])
        BY <1>4, <3>4
      <4>2. PICK u \in S : s = FirstRun(u, 0, nextToken + order[u])
        BY <1>4, <3>4
      <4>3. r.tag = t /\ s.tag = u
        BY <4>1, <4>2 DEF FirstRun
      <4> QED BY <2>4, <4>1, <4>2, <4>3
    <3> QED BY <3>1, <3>2, <3>3, <3>4
  <2> QED BY <2>2, <2>3, <2>4 DEF TokenInv
<1>12. RoundInv'
  <2>1. ASSUME NEW t \in DOMAIN jobs'
        PROVE  /\ NumCommands[t] > 0
               /\ jobs'[t].timer => /\ jobs'[t].next \in 1..MaxRetries
                                    /\ sends'[t] = jobs'[t].next * NumCommands[t]
    <3>1. CASE t \in S
      BY <1>1, <1>7, <3>1
    <3>2. CASE t \in DOMAIN kept
      BY <1>5, <1>7, <1>9, <3>2 DEF Inv, TypeOK, RoundInv
    <3> QED BY <1>4, <3>1, <3>2
  <2>2. ASSUME NEW r \in runs', Works(r)'
        PROVE  /\ ~jobs'[r.tag].timer
               /\ r.attempt <= MaxRetries /\ r.sent \in 1..NumCommands[r.tag]
               /\ sends'[r.tag] = r.attempt * NumCommands[r.tag] + r.sent
    <3>1. CASE r \in runs
      <4>1. r.token <= nextToken /\ r.token \in Nat /\ r.tag \in Tags
        BY <3>1 DEF Inv, TypeOK, TokenInv, RunType
      <4>2. r.tag \in DOMAIN kept
        BY <1>4, <1>6, <1>7, <2>2, <4>1 DEF Works
      <4>3. Works(r)
        BY <1>7, <2>2, <4>2 DEF Works
      <4> QED BY <1>5, <1>7, <1>9, <3>1, <4>1, <4>2, <4>3 DEF Inv, RoundInv
    <3>2. CASE r \notin runs
      <4>1. r.tag \in S /\ r.attempt = 0 /\ r.sent = 1 /\ NumCommands[r.tag] \in Nat
        BY <1>1, <1>8, <3>2
      <4>2. sends'[r.tag] = 1 /\ NumCommands[r.tag] > 0 /\ jobs'[r.tag].timer = FALSE
        BY <1>1, <1>7, <1>9, <4>1
      <4>3. 0 * NumCommands[r.tag] = 0
        BY <4>1
      <4> QED BY <4>1, <4>2, <4>3
    <3> QED BY <3>1, <3>2
  <2> QED BY <2>1, <2>2 DEF RoundInv
<1>13. PresenceInv'
  BY <1>1, <1>3, <1>4, <1>9 DEF Inv, PresenceInv
<1>14. BoundInv'
  <2> SUFFICES ASSUME NEW t \in Tags
               PROVE  /\ sends'[t] <= (1 + MaxRetries) * NumCommands[t]
                      /\ verdict'[t] = "gaveUp" => sends'[t] = (1 + MaxRetries) * NumCommands[t]
    BY DEF BoundInv
  <2>1. 0 <= (1 + MaxRetries) * NumCommands[t]
    BY WithinRounds
  <2>2. CASE t \in S
    <3>1. 0 * NumCommands[t] + 1 <= (1 + MaxRetries) * NumCommands[t]
      BY <1>1, <2>2, WithinRounds
    <3>2. verdict'[t] = "none"
      BY <1>1, <1>9, <2>2 DEF Inv, TypeOK, PresenceInv
    <3> QED BY <1>9, <2>2, <3>1, <3>2
  <2>3. CASE t \notin S
    BY <1>9, <2>1, <2>3 DEF Inv, BoundInv
  <2> QED BY <2>2, <2>3
<1>15. AskedPresent
  BY <1>1, <1>9 DEF AskedPresent, Inv, TypeOK
<1> QED BY <1>10, <1>11, <1>12, <1>13, <1>14, <1>15 DEF Inv

(* A step that sends nothing. *)
LEMMA NothingSent ==
  ASSUME TypeOK, \A t \in Tags : sends'[t] \in {0, sends[t]}
  PROVE  AskedPresent
  BY DEF TypeOK, AskedPresent

(* A new connection. *)
LEMMA ConnectsKeeps == ASSUME Inv, Connects PROVE Inv' /\ AskedPresent
<1>1. synced \ Tags = {} /\ Tags \ Tags = {}
  BY DEF Inv, TypeOK
<1>2. PICK order \in Orders(Starting(live, synced \ Tags)) :
        RefreshUnsynced(live, synced \ Tags, Only(jobs, Tags \ Tags), order)
  BY <1>1 DEF Connects, SyncedAfterReconnect, JobsAfterReconnect
<1>3. Fresh(Tags) /\ live' = live /\ connected' /\ ~disposed' /\ live \in SUBSET Tags
  BY DEF Connects, Inv, TypeOK
<1> QED BY <1>2, <1>3, RefreshKeeps

(* Nothing is left: the connection ends, or the coordinator. *)
LEMMA NothingLeft ==
  ASSUME Inv, DOMAIN jobs' = {}, synced' = {}, live' \subseteq Tags,
         sends' = [t \in Tags |-> 0], verdict' = [t \in Tags |-> "none"],
         UNCHANGED <<nextToken, runs>>
  PROVE  Inv' /\ AskedPresent
<1>1. TypeOK'
  BY DEF Inv, TypeOK
<1>2. TokenInv' /\ RoundInv' /\ PresenceInv'
  BY DEF Inv, TokenInv, RoundInv, Works, PresenceInv
<1>3. BoundInv'
  <2>1. \A t \in Tags : (1 + MaxRetries) * NumCommands[t] >= 0
    BY WithinRounds
  <2> QED BY <2>1 DEF BoundInv
<1> QED BY <1>1, <1>2, <1>3, NothingSent DEF Inv

(* The connection ends. *)
LEMMA DisconnectsKeeps == ASSUME Inv, Disconnects PROVE Inv' /\ AskedPresent
<1>1. DOMAIN jobs' = {}
  BY DEF Disconnects, JobsAfterReconnect, Only
<1> QED BY <1>1, NothingLeft DEF Disconnects, SyncedAfterReconnect, Inv, TypeOK

(* The coordinator ends. *)
LEMMA DisposeKeeps == ASSUME Inv, Dispose PROVE Inv' /\ AskedPresent
<1>1. DOMAIN jobs' = {}
  BY DEF Dispose, Only
<1> QED BY <1>1, NothingLeft DEF Dispose

(* An inventory: without a connection there is nothing to keep. *)
LEMMA UpdateInventoryKeeps ==
  ASSUME Inv, NEW next \in SUBSET Tags, UpdateInventory(next)
  PROVE  Inv' /\ AskedPresent
<1> DEFINE gone == live \ next
<1>1. gone \in SUBSET Tags
  BY DEF Inv, TypeOK
<1>2. CASE connected
  <2>1. PICK order \in Orders(Starting(next, synced \ gone)) :
          RefreshUnsynced(next, synced \ gone, Only(jobs, Tags \ gone), order)
    BY <1>2 DEF UpdateInventory, SyncedStill
  <2>2. Fresh(gone) /\ live' = next /\ connected' /\ ~disposed'
    BY <1>2 DEF UpdateInventory
  <2> HIDE DEF gone
  <2> QED BY <1>1, <2>1, <2>2, RefreshKeeps
<1>3. CASE ~connected
  <2>1. /\ live' = next /\ synced' = synced \ gone /\ jobs' = Only(jobs, Tags \ gone)
        /\ UNCHANGED <<nextToken, runs, sends, verdict, connected, disposed>>
    BY <1>3 DEF UpdateInventory, SyncedStill
  <2>2. synced = {} /\ DOMAIN jobs = {}
    BY <1>3 DEF Inv, PresenceInv
  <2>3. synced' = {} /\ DOMAIN jobs' = {}
    BY <2>1, <2>2 DEF Only
  <2>4. TypeOK' /\ TokenInv' /\ RoundInv' /\ PresenceInv' /\ BoundInv'
    BY <2>1, <2>2, <2>3 DEF Inv, TypeOK, TokenInv, RoundInv, Works, PresenceInv,
       BoundInv
  <2>5. AskedPresent
    BY <2>1, NothingSent DEF Inv
  <2> QED BY <2>4, <2>5 DEF Inv
<1> QED BY <1>2, <1>3

-----------------------------------------------------------------------------
(* A run goes on *)

(* A run that is current works for the job of its tag, which has no timer. *)
LEMMA CurrentIs ==
  ASSUME Inv, NEW r \in runs, IsCurrent(r)
  PROVE  /\ r \in RunType /\ r.tag \in Tags /\ NumCommands[r.tag] \in Nat
         /\ Works(r) /\ jobs[r.tag] \in JobType /\ ~jobs[r.tag].timer
         /\ r.attempt <= MaxRetries /\ r.sent \in 1..NumCommands[r.tag]
         /\ sends[r.tag] = r.attempt * NumCommands[r.tag] + r.sent
         /\ connected /\ ~disposed /\ r.tag \in synced
<1>1. r \in RunType /\ r.tag \in Tags
  BY DEF Inv, TypeOK, RunType
<1>2. Works(r) /\ r.tag \in DOMAIN jobs /\ connected /\ ~disposed
  BY DEF IsCurrent, Works
<1> QED BY <1>1, <1>2 DEF Inv, TypeOK, RoundInv, PresenceInv

(* A run of a job that is gone returns. *)
LEMMA AbandonKeeps == ASSUME Inv, NEW r, Abandon(r) PROVE Inv' /\ AskedPresent
  BY NothingSent DEF Abandon, Inv, TypeOK, TokenInv, RoundInv, Works, PresenceInv,
     BoundInv

(* The next command of a round. *)
LEMMA SendNextKeeps ==
  ASSUME Inv, NEW r, NEW ok \in BOOLEAN, SendNext(r, ok)
  PROVE  Inv' /\ AskedPresent
<1> DEFINE q == [r EXCEPT !.sent = r.sent + 1, !.successful = Result(r, ok)]
           t == r.tag
<1>1. /\ r \in runs /\ IsCurrent(r) /\ r.sent # NumCommands[t]
      /\ runs' = (runs \ {r}) \cup {q}
      /\ sends' = [sends EXCEPT ![t] = @ + 1]
      /\ UNCHANGED <<connected, disposed, live, synced, jobs, nextToken, verdict>>
  BY DEF SendNext, IsLast
<1>2. /\ r \in RunType /\ t \in Tags /\ NumCommands[t] \in Nat /\ Works(r)
      /\ r.attempt \in Nat /\ r.attempt <= MaxRetries /\ r.sent \in Nat
      /\ r.sent + 1 \in 1..NumCommands[t]
      /\ sends[t] = r.attempt * NumCommands[t] + r.sent
      /\ ~jobs[t].timer
  BY <1>1, CurrentIs DEF RunType
<1>3. /\ q \in RunType /\ q.tag = t /\ q.token = r.token /\ q.attempt = r.attempt
      /\ q.sent = r.sent + 1
  <2> DEFINE n == r.sent + 1
             b == Result(r, ok)
  <2>1. n \in Nat /\ b \in BOOLEAN /\ q = [r EXCEPT !.sent = n, !.successful = b]
    BY <1>2 DEF RunType, Result
  <2> HIDE DEF n, b, q
  <2>2. q \in RunType /\ q.tag = t /\ q.token = r.token /\ q.attempt = r.attempt /\ q.sent = n
    <3>1. q \in RunType
      BY <1>2, <2>1 DEF RunType
    <3>2. q.tag = t /\ q.token = r.token /\ q.attempt = r.attempt /\ q.sent = n
      BY <1>2, <2>1 DEF RunType
    <3> QED BY <3>1, <3>2
  <2> QED BY <2>2 DEF n
<1>4. \A u \in Tags : sends'[u] = IF u = t THEN sends[t] + 1 ELSE sends[u]
  BY <1>1, <1>2 DEF Inv, TypeOK
<1> HIDE DEF q
<1>5. r.attempt * NumCommands[t] \in Nat
  BY <1>2
<1>6. sends'[t] = r.attempt * NumCommands[t] + (r.sent + 1)
  <2> DEFINE p == r.attempt * NumCommands[t]
  <2>1. p \in Nat /\ sends[t] = p + r.sent /\ sends'[t] = sends[t] + 1
    BY <1>2, <1>4, <1>5
  <2> HIDE DEF p
  <2>2. sends'[t] = p + (r.sent + 1)
    BY <1>2, <2>1
  <2> QED BY <2>2 DEF p
<1>7. TypeOK'
  BY <1>1, <1>2, <1>3 DEF Inv, TypeOK
<1>8. TokenInv'
  BY <1>1, <1>3 DEF Inv, TokenInv
<1>9. RoundInv'
  <2>1. \A s \in runs' : s.tag = t /\ s.token = jobs[t].token => s = q
    BY <1>1, <1>2, <1>3 DEF Inv, TokenInv, Works
  <2>2. ASSUME NEW s \in runs', Works(s)'
        PROVE  /\ ~jobs'[s.tag].timer
               /\ s.attempt <= MaxRetries /\ s.sent \in 1..NumCommands[s.tag]
               /\ sends'[s.tag] = s.attempt * NumCommands[s.tag] + s.sent
    <3>1. CASE s.tag = t
      <4>1. s = q
        BY <1>1, <2>1, <2>2, <3>1 DEF Works
      <4> QED BY <1>1, <1>2, <1>3, <1>6, <4>1
    <3>2. CASE s.tag # t
      <4>1. s \in runs /\ Works(s) /\ s.tag \in Tags
        BY <1>1, <1>3, <2>2, <3>2 DEF Works, Inv, TypeOK, RunType
      <4> QED BY <1>1, <1>4, <3>2, <4>1 DEF Inv, RoundInv
    <3> QED BY <3>1, <3>2
  <2>3. ASSUME NEW u \in DOMAIN jobs'
        PROVE  /\ NumCommands[u] > 0
               /\ jobs'[u].timer => /\ jobs'[u].next \in 1..MaxRetries
                                    /\ sends'[u] = jobs'[u].next * NumCommands[u]
    BY <1>1, <1>2, <1>4 DEF Inv, TypeOK, RoundInv
  <2> QED BY <2>2, <2>3 DEF RoundInv
<1>10. PresenceInv'
  BY <1>1 DEF Inv, PresenceInv
<1>11. BoundInv'
  <2>1. sends'[t] <= (1 + MaxRetries) * NumCommands[t]
    <3>1. r.sent + 1 \in 0..NumCommands[t] /\ MaxRetries \in Nat
      BY <1>2
    <3>2. r.attempt * NumCommands[t] + (r.sent + 1) <= (1 + MaxRetries) * NumCommands[t]
      BY <1>2, <3>1, WithinRounds
    <3> QED BY <1>6, <3>2
  <2>2. verdict[t] = "none"
    BY <1>2 DEF Works, Inv, TypeOK, PresenceInv
  <2> QED BY <1>1, <1>4, <2>1, <2>2 DEF Inv, BoundInv
<1>12. AskedPresent
  BY <1>1, <1>4 DEF AskedPresent, IsCurrent, Inv, TypeOK
<1> QED BY <1>7, <1>8, <1>9, <1>10, <1>11, <1>12 DEF Inv

(* The end of the last round: all retries are used up when it is given up. *)
LEMMA FinishKeeps ==
  ASSUME Inv, NEW r, NEW ok \in BOOLEAN, Finish(r, ok)
  PROVE  Inv' /\ AskedPresent
<1> DEFINE t == r.tag
<1>1. /\ r \in runs /\ IsCurrent(r) /\ r.sent = NumCommands[t]
      /\ runs' = runs \ {r} /\ jobs' = Only(jobs, Tags \ {t})
      /\ UNCHANGED <<connected, disposed, live, synced, nextToken, sends>>
  BY DEF Finish, IsLast
<1>2. /\ r \in RunType /\ t \in Tags /\ NumCommands[t] \in Nat /\ t \in synced
      /\ r.attempt \in Nat /\ r.attempt <= MaxRetries
      /\ sends[t] = r.attempt * NumCommands[t] + NumCommands[t]
  BY <1>1, CurrentIs DEF RunType
<1>3. /\ DOMAIN jobs' = DOMAIN jobs \ {t}
      /\ \A u \in DOMAIN jobs' : jobs'[u] = jobs[u]
  BY <1>1 DEF Only, Inv, TypeOK
<1>4. /\ verdict' \in [Tags -> {"none", "refreshed", "gaveUp"}]
      /\ \A u \in Tags : u # t => verdict'[u] = verdict[u]
      /\ verdict'[t] = "gaveUp" => r.attempt = MaxRetries
  <2>1. verdict' = [verdict EXCEPT ![t] = IF Result(r, ok) THEN "refreshed" ELSE "gaveUp"]
    BY DEF Finish
  <2>2. Result(r, ok) \/ r.attempt = MaxRetries
    BY <1>2 DEF Finish, Exhausted
  <2> QED BY <1>2, <2>1, <2>2 DEF Inv, TypeOK
<1>5. TypeOK' /\ TokenInv'
  BY <1>1, <1>3, <1>4 DEF Inv, TypeOK, TokenInv
<1>6. RoundInv'
  BY <1>1, <1>3 DEF Inv, RoundInv, Works
<1>7. PresenceInv'
  BY <1>1, <1>2, <1>3, <1>4 DEF Inv, PresenceInv
<1>8. BoundInv'
  <2>1. verdict'[t] = "gaveUp" => sends[t] = (1 + MaxRetries) * NumCommands[t]
    <3>1. (MaxRetries + 1) * NumCommands[t] = MaxRetries * NumCommands[t] + NumCommands[t]
      BY <1>2, OneRound
    <3>2. MaxRetries + 1 = 1 + MaxRetries
      OBVIOUS
    <3> QED BY <1>2, <1>4, <3>1, <3>2
  <2> QED BY <1>1, <1>4, <2>1 DEF Inv, BoundInv
<1> QED BY <1>1, <1>5, <1>6, <1>7, <1>8, NothingSent DEF Inv

(* Between two rounds. *)
LEMMA RetryLaterKeeps ==
  ASSUME Inv, NEW r, NEW ok \in BOOLEAN, RetryLater(r, ok)
  PROVE  Inv' /\ AskedPresent
<1> DEFINE t == r.tag
           job == TimerArmed(r)
<1>1. /\ r \in runs /\ IsCurrent(r) /\ r.sent = NumCommands[t] /\ ~(r.attempt >= MaxRetries)
      /\ runs' = runs \ {r} /\ jobs' = Set(t, job) /\ t \in DOMAIN jobs
      /\ UNCHANGED <<connected, disposed, live, synced, nextToken, sends, verdict>>
  BY DEF RetryLater, IsLast, Exhausted
<1>2. /\ r \in RunType /\ t \in Tags /\ NumCommands[t] \in Nat /\ Works(r)
      /\ r.attempt \in Nat /\ r.attempt < MaxRetries /\ jobs[t] \in JobType
      /\ sends[t] = r.attempt * NumCommands[t] + NumCommands[t]
  BY <1>1, CurrentIs DEF RunType
<1>3. job \in JobType /\ job.token = jobs[t].token /\ job.next = r.attempt + 1
  <2> DEFINE old == jobs[t]
             n == r.attempt + 1
             b == TRUE
  <2>1. old \in JobType /\ n \in Nat /\ b \in BOOLEAN /\ job = [old EXCEPT !.timer = b, !.next = n]
    BY <1>2 DEF TimerArmed
  <2> HIDE DEF old, n, b, job
  <2>2. job \in JobType /\ job.token = old.token /\ job.next = n
    <3>1. job \in JobType
      BY <2>1 DEF JobType
    <3>2. job.token = old.token /\ job.next = n
      BY <2>1 DEF JobType
    <3> QED BY <3>1, <3>2
  <2> QED BY <2>2 DEF old, n
<1> HIDE DEF job
<1>4. /\ DOMAIN jobs' = DOMAIN jobs /\ jobs'[t] = job
      /\ \A u \in DOMAIN jobs : u # t => jobs'[u] = jobs[u]
  BY <1>1 DEF Set
<1>5. TypeOK'
  BY <1>1, <1>3, <1>4 DEF Inv, TypeOK
<1>6. TokenInv'
  BY <1>1, <1>3, <1>4 DEF Inv, TokenInv
<1>7. sends[t] = (r.attempt + 1) * NumCommands[t] /\ r.attempt + 1 \in 1..MaxRetries
  BY <1>2, OneRound
<1>8. RoundInv'
  <2>1. \A s \in runs' : ~(s.tag = t /\ s.token = job.token)
    BY <1>1, <1>2, <1>3 DEF Works, Inv, TokenInv
  <2>2. ASSUME NEW s \in runs', Works(s)'
        PROVE  s \in runs /\ s.tag # t /\ Works(s)
    BY <1>1, <1>4, <2>1, <2>2 DEF Works
  <2>3. ASSUME NEW u \in DOMAIN jobs'
        PROVE  /\ NumCommands[u] > 0
               /\ jobs'[u].timer => /\ jobs'[u].next \in 1..MaxRetries
                                    /\ sends'[u] = jobs'[u].next * NumCommands[u]
    BY <1>1, <1>3, <1>4, <1>7 DEF Inv, RoundInv
  <2>4. ASSUME NEW s \in runs', Works(s)'
        PROVE  /\ ~jobs'[s.tag].timer
               /\ s.attempt <= MaxRetries /\ s.sent \in 1..NumCommands[s.tag]
               /\ sends'[s.tag] = s.attempt * NumCommands[s.tag] + s.sent
    <3>1. s \in runs /\ s.tag # t /\ Works(s) /\ s.tag \in DOMAIN jobs
      BY <2>2, <2>4 DEF Works
    <3> QED BY <1>1, <1>4, <3>1 DEF Inv, RoundInv
  <2> QED BY <2>3, <2>4 DEF RoundInv
<1>9. PresenceInv' /\ BoundInv'
  BY <1>1, <1>4 DEF Inv, PresenceInv, BoundInv
<1> QED BY <1>1, <1>5, <1>6, <1>8, <1>9, NothingSent DEF Inv

(* The timer starts the next round with a new token. *)
LEMMA TimerFiresKeeps ==
  ASSUME Inv, NEW t \in Tags, TimerFires(t)
  PROVE  Inv' /\ AskedPresent
<1> DEFINE a == jobs[t].next
           q == FirstRun(t, a, nextToken + 1)
           job == NewJob(nextToken + 1)
<1>1. /\ t \in DOMAIN jobs /\ jobs[t].timer /\ nextToken' = nextToken + 1
      /\ jobs' = Set(t, job) /\ runs' = runs \cup {q}
      /\ sends' = [sends EXCEPT ![t] = @ + 1]
      /\ UNCHANGED <<connected, disposed, live, synced, verdict>>
  BY DEF TimerFires, TokenAfter
<1>2. /\ nextToken \in Nat /\ a \in 1..MaxRetries /\ a \in Nat /\ NumCommands[t] \in Nat
      /\ NumCommands[t] > 0 /\ sends[t] = a * NumCommands[t]
  BY <1>1 DEF Inv, TypeOK, RoundInv
<1>3. /\ q \in RunType /\ q.tag = t /\ q.token = nextToken + 1 /\ q.attempt = a /\ q.sent = 1
      /\ job \in JobType /\ job.token = nextToken + 1 /\ job.timer = FALSE
  BY <1>2 DEF FirstRun, NewJob, RunType, JobType
<1> HIDE DEF a, q, job
<1>4. /\ DOMAIN jobs' = DOMAIN jobs /\ jobs'[t] = job
      /\ \A u \in DOMAIN jobs : u # t => jobs'[u] = jobs[u]
  BY <1>1 DEF Set
<1>5. \A u \in Tags : sends'[u] = IF u = t THEN sends[t] + 1 ELSE sends[u]
  BY <1>1 DEF Inv, TypeOK
<1>6. \A r \in runs : r.token \in Nat /\ r.token <= nextToken
  BY DEF Inv, TypeOK, TokenInv, RunType
<1>7. \A u \in DOMAIN jobs : jobs[u].token \in Nat /\ jobs[u].token <= nextToken
  BY DEF Inv, TypeOK, TokenInv, JobType
<1>8. TypeOK'
  BY <1>1, <1>2, <1>3, <1>4 DEF Inv, TypeOK
<1>9. TokenInv'
  <2>1. \A u \in DOMAIN jobs' : jobs'[u].token <= nextToken'
    BY <1>1, <1>2, <1>3, <1>4, <1>7
  <2>2. \A r \in runs' : r.token <= nextToken'
    BY <1>1, <1>2, <1>3, <1>6
  <2>3. \A r, s \in runs' : r.tag = s.tag /\ r.token = s.token => r = s
    BY <1>1, <1>2, <1>3, <1>6 DEF Inv, TokenInv
  <2> QED BY <2>1, <2>2, <2>3 DEF TokenInv
<1>10. RoundInv'
  <2>1. ASSUME NEW s \in runs', Works(s)'
        PROVE  /\ ~jobs'[s.tag].timer
               /\ s.attempt <= MaxRetries /\ s.sent \in 1..NumCommands[s.tag]
               /\ sends'[s.tag] = s.attempt * NumCommands[s.tag] + s.sent
    <3>1. CASE s.tag = t
      <4>1. s = q
        BY <1>1, <1>2, <1>3, <1>4, <1>6, <2>1, <3>1 DEF Works
      <4> QED BY <1>2, <1>3, <1>4, <1>5, <4>1
    <3>2. CASE s.tag # t
      <4>1. s \in runs /\ Works(s) /\ s.tag \in Tags /\ s.tag \in DOMAIN jobs
        BY <1>1, <1>3, <1>4, <2>1, <3>2 DEF Works, Inv, TypeOK, RunType
      <4> QED BY <1>4, <1>5, <3>2, <4>1 DEF Inv, RoundInv
    <3> QED BY <3>1, <3>2
  <2>2. ASSUME NEW u \in DOMAIN jobs'
        PROVE  /\ NumCommands[u] > 0
               /\ jobs'[u].timer => /\ jobs'[u].next \in 1..MaxRetries
                                    /\ sends'[u] = jobs'[u].next * NumCommands[u]
    BY <1>2, <1>3, <1>4, <1>5 DEF Inv, TypeOK, RoundInv
  <2> QED BY <2>1, <2>2 DEF RoundInv
<1>11. PresenceInv'
  BY <1>1, <1>4 DEF Inv, PresenceInv
<1>12. BoundInv'
  <2>1. sends'[t] <= (1 + MaxRetries) * NumCommands[t]
    BY <1>2, <1>5, WithinRounds
  <2>2. verdict[t] = "none"
    BY <1>1 DEF Inv, TypeOK, PresenceInv
  <2> QED BY <1>1, <1>5, <2>1, <2>2 DEF Inv, BoundInv
<1>13. AskedPresent
  BY <1>1, <1>5 DEF AskedPresent, TimerFires, Inv, TypeOK
<1> QED BY <1>8, <1>9, <1>10, <1>11, <1>12, <1>13 DEF Inv

-----------------------------------------------------------------------------
(* The invariant holds at first. *)
LEMMA InvInit == Init => Inv
<1> SUFFICES ASSUME Init PROVE Inv
  OBVIOUS
<1>1. TypeOK /\ TokenInv /\ RoundInv /\ PresenceInv
  BY DEF Init, TypeOK, TokenInv, RoundInv, PresenceInv
<1>2. \A t \in Tags : 0 <= (1 + MaxRetries) * NumCommands[t]
  BY WithinRounds
<1>3. BoundInv
  BY <1>2 DEF Init, BoundInv
<1> QED BY <1>1, <1>3 DEF Inv

(* Every step keeps it. *)
LEMMA InvStep == Inv /\ [Next]_vars => Inv' /\ AskedPresent
<1> SUFFICES ASSUME Inv, [Next]_vars PROVE Inv' /\ AskedPresent
  OBVIOUS
<1>1. CASE Connects \/ Disconnects \/ Dispose
  BY <1>1, ConnectsKeeps, DisconnectsKeeps, DisposeKeeps
<1>2. CASE \E next \in SUBSET Tags : UpdateInventory(next)
  BY <1>2, UpdateInventoryKeeps
<1>3. CASE \E r \in runs : Settle(r)
  BY <1>3, AbandonKeeps, SendNextKeeps, FinishKeeps, RetryLaterKeeps DEF Settle
<1>4. CASE \E t \in Tags : TimerFires(t)
  BY <1>4, TimerFiresKeeps
<1>5. CASE UNCHANGED vars
  BY <1>5, NothingSent DEF vars, Inv, TypeOK, TokenInv, RoundInv, Works, PresenceInv,
     BoundInv
<1> QED BY <1>1, <1>2, <1>3, <1>4, <1>5 DEF Next

(* Old runs that still wait for their sends never join the one that works  *)
(* for a tag, and no sequence of reconnects, inventories and timers makes  *)
(* a node answer for more rounds than there are retries.                   *)
THEOREM RoundsAreInOrder == Spec => []RoundsInOrder
<1>1. Init => Inv
  BY InvInit
<1>2. Inv /\ [Next]_vars => Inv'
  BY InvStep
<1>3. Inv => RoundsInOrder
  BY DEF Inv, TokenInv, BoundInv, RoundsInOrder, IsCurrent
<1> QED BY <1>1, <1>2, <1>3, PTL DEF Spec

(* A node that is absent is not asked. *)
THEOREM AbsentIsNotAsked == Spec => NoSendToAbsent
<1>1. Init => Inv
  BY InvInit
<1>2. Inv /\ [Next]_vars => Inv'
  BY InvStep
<1>3. Inv /\ [Next]_vars =>
        [\A t \in Tags : sends'[t] > sends[t] => connected' /\ ~disposed' /\ t \in live']_vars
  BY InvStep DEF AskedPresent
<1> QED BY <1>1, <1>2, <1>3, PTL DEF Spec, NoSendToAbsent

-----------------------------------------------------------------------------
(* The climate poller *)

(* A call of refresh that waits for an answer has something to send.       *)
Cycle == [generation : Nat, left : Seq(Queries) \ {<<>>}]

(* The values of the variables. *)
PollerTypes ==
  /\ enabled \in BOOLEAN /\ ended \in BOOLEAN /\ running \in BOOLEAN
  /\ timer \in BOOLEAN /\ burst \in BOOLEAN
  /\ generation \in Nat /\ turns \in Nat
  /\ unsupported \subseteq Queries
  /\ verdictOf \in [Queries -> Nat]
  /\ cycles \subseteq Cycle

(* `running' stands for the one cycle there is, and `timer' for the one    *)
(* armed timer; with the poller on there is one of the two and not both.   *)
(* Without the last conjunct the others are not kept: a timer that fires   *)
(* during a cycle would be gone, and the end of a cycle would arm a second *)
(* one.                                                                    *)
LoopInv ==
  /\ IF running THEN \E c : cycles = {c} ELSE cycles = {}
  /\ armed = IF timer THEN 1 ELSE 0
  /\ ~(running /\ timer)
  /\ enabled /\ ~ended => running \/ timer

(* While the poller is on, what it skips was found in this generation. *)
SkippedInv == enabled => \A q \in unsupported : verdictOf[q] = generation

(* The inductive invariant.                                                *)
PollerInv == PollerTypes /\ LoopInv /\ SkippedInv

-----------------------------------------------------------------------------
(* The commands a cycle has still to send *)

(* The order of the numbers, as a relation.                                *)
Below == {p \in Nat \X Nat : p[1] < p[2]}

(* A set of numbers has a smallest one. *)
LEMMA MinIsMember ==
  ASSUME NEW S \in SUBSET Nat, S # {}
  PROVE  Min(S) \in S
<1>1. IsWellFoundedOn(Below, Nat)
  BY NatLessThanWellFounded DEF Below, OpToRel
<1>2. PICK x \in S : \A y \in S : <<y, x>> \notin Below
  BY <1>1, WFMin
<1>3. ASSUME NEW y \in S
      PROVE  x =< y
  <2>1. x \in Nat /\ y \in Nat /\ ~(y < x)
    BY <1>2 DEF Below
  <2> QED BY <2>1
<1> QED BY <1>3 DEF Min

(* What is left after the commands to be skipped is the end of what there  *)
(* was.                                                                    *)
LEMMA ToSendIsEnd ==
  ASSUME NEW left \in Seq(Queries), NEW skip
  PROVE  ToSend(left, skip) \in Seq(Queries)
<1> DEFINE wanted == {i \in 1..Len(left) : left[i] \notin skip}
<1>1. CASE wanted = {}
  BY <1>1 DEF ToSend
<1>2. CASE wanted # {}
  <2>1. Min(wanted) \in 1..Len(left)
    <3>1. wanted \in SUBSET Nat /\ wanted \subseteq 1..Len(left)
      OBVIOUS
    <3> HIDE DEF wanted
    <3> QED BY <1>2, <3>1, MinIsMember
  <2>2. ToSend(left, skip) = SubSeq(left, Min(wanted), Len(left))
    BY <1>2 DEF ToSend
  <2> HIDE DEF wanted
  <2>3. SubSeq(left, Min(wanted), Len(left)) \in Seq(Queries)
    BY <2>1, SubSeqProperties
  <2> QED BY <2>2, <2>3
<1> QED BY <1>1, <1>2

-----------------------------------------------------------------------------
(* The steps *)

(* An action that runs refresh, with no timer armed but what it passes on. *)
LEMMA PollerRefreshKeeps ==
  ASSUME PollerInv, NEW isEnabled \in BOOLEAN, NEW skip \in SUBSET Queries,
         Refresh(isEnabled, skip, 0, FALSE),
         burst' \in BOOLEAN, enabled' = isEnabled, ended' = ended,
         generation' = generation
  PROVE  /\ cycles' \subseteq Cycle /\ running' \in BOOLEAN /\ timer' \in BOOLEAN
         /\ LoopInv'
         /\ \A c \in cycles' \ cycles : enabled' /\ ~ended' /\ c.generation = generation'
<1> DEFINE left == ToSend(IF burst' THEN BurstCycle ELSE FullCycle, skip)
<1>1. left \in Seq(Queries)
  BY ToSendIsEnd, CyclesAssumption
<1>2. Refresh(isEnabled, skip, 0, FALSE) =
        IF running \/ ~isEnabled \/ ended
        THEN /\ armed' = 0 /\ timer' = FALSE
             /\ UNCHANGED <<running, cycles>>
        ELSE IF left = <<>>
             THEN /\ armed' = 0 + 1 /\ timer' = TRUE
                  /\ UNCHANGED <<running, cycles>>
             ELSE /\ running' = TRUE
                  /\ cycles' = cycles \cup {[generation |-> generation, left |-> left]}
                  /\ armed' = 0 /\ timer' = FALSE
  BY DEF Refresh
<1> HIDE DEF left
<1>3. CASE running \/ ~isEnabled \/ ended
  BY <1>2, <1>3 DEF PollerInv, PollerTypes, LoopInv
<1>4. CASE ~(running \/ ~isEnabled \/ ended) /\ left = <<>>
  <2>1. running = FALSE /\ cycles = {} /\ isEnabled = TRUE
    BY <1>4 DEF PollerInv, PollerTypes, LoopInv
  <2>2. armed' = 1 /\ timer' = TRUE /\ running' = FALSE /\ cycles' = {}
    <3>1. armed' = 0 + 1 /\ timer' = TRUE /\ UNCHANGED <<running, cycles>>
      BY <1>2, <1>4, Zenon
    <3> QED BY <2>1, <3>1
  <2> QED BY <2>2 DEF LoopInv
<1>5. CASE ~(running \/ ~isEnabled \/ ended) /\ left # <<>>
  <2>1. cycles' = {[generation |-> generation, left |-> left]}
    BY <1>2, <1>5 DEF PollerInv, LoopInv
  <2>2. [generation |-> generation, left |-> left] \in Cycle
    BY <1>1, <1>5 DEF PollerInv, PollerTypes, Cycle
  <2>3. armed' = 0 /\ timer' = FALSE /\ running' = TRUE
    BY <1>2, <1>5
  <2>4. LoopInv'
    BY <2>1, <2>3 DEF LoopInv
  <2>5. enabled' /\ ~ended'
    BY <1>5
  <2>6. \A c \in cycles' : c.generation = generation'
    BY <2>1
  <2> QED BY <2>1, <2>2, <2>3, <2>4, <2>5, <2>6
<1> QED BY <1>3, <1>4, <1>5

(* What a step of the next-state relation may do, besides keeping Inv. *)
PollerStepOK ==
  /\ PollerInv'
  /\ \A c \in cycles' \ cycles : enabled' /\ ~ended' /\ c.generation = generation'

(* Clearing the timer leaves none armed.                                   *)
LEMMA ClearedIsNone == PollerInv => ClearedTimer = 0
  BY DEF PollerInv, LoopInv, PollerTypes, ClearedTimer

(* refreshSoon.                                                            *)
LEMMA RefreshSoonStep == ASSUME PollerInv, RefreshSoon PROVE PollerStepOK
<1>1. Refresh(enabled, unsupported, 0, FALSE)
  BY ClearedIsNone DEF RefreshSoon
<1>2. /\ burst' \in BOOLEAN /\ turns' \in Nat
      /\ UNCHANGED <<enabled, ended, generation, unsupported, verdictOf>>
  BY DEF RefreshSoon, Turn, PollerInv, PollerTypes
<1>3. enabled \in BOOLEAN /\ unsupported \in SUBSET Queries
  BY DEF PollerInv, PollerTypes
<1> QED BY <1>1, <1>2, <1>3, PollerRefreshKeeps DEF PollerStepOK, PollerInv,
           PollerTypes, SkippedInv

(* configure, with the poller on.                                          *)
LEMMA EnableStep == ASSUME PollerInv, Enable PROVE PollerStepOK
<1>1. Refresh(TRUE, KeptUnsupported, 0, FALSE)
  BY ClearedIsNone DEF Enable
<1>2. /\ burst' \in BOOLEAN /\ turns' \in Nat /\ enabled' = TRUE
      /\ UNCHANGED <<ended, generation, verdictOf>>
      /\ unsupported' = KeptUnsupported
  BY DEF Enable, Turn, PollerInv, PollerTypes
<1>3. KeptUnsupported \in SUBSET Queries
  BY DEF PollerInv, PollerTypes, KeptUnsupported
<1>4. \A q \in KeptUnsupported : verdictOf[q] = generation
  BY DEF PollerInv, SkippedInv, KeptUnsupported
<1> QED BY <1>1, <1>2, <1>3, <1>4, PollerRefreshKeeps DEF PollerStepOK, PollerInv,
           PollerTypes, SkippedInv

(* configure, with the poller off.                                         *)
LEMMA DisableStep == ASSUME PollerInv, Disable PROVE PollerStepOK
<1>1. armed' = 0
  BY ClearedIsNone DEF Disable
<1>2. PollerTypes'
  <2>1. generation' \in Nat /\ turns' \in Nat
    BY DEF Disable, Turn, PollerInv, PollerTypes
  <2>2. enabled' \in BOOLEAN /\ ended' \in BOOLEAN /\ timer' \in BOOLEAN /\ burst' \in BOOLEAN
    BY DEF Disable, PollerInv, PollerTypes
  <2> QED BY <2>1, <2>2 DEF Disable, PollerInv, PollerTypes
<1>3. LoopInv'
  BY <1>1 DEF Disable, PollerInv, LoopInv
<1> QED BY <1>2, <1>3 DEF Disable, PollerStepOK, PollerInv, SkippedInv

(* dispose.                                                                *)
LEMMA PollerDisposed == ASSUME PollerInv, EndPolling PROVE PollerStepOK
<1>1. armed' = 0
  BY ClearedIsNone DEF EndPolling
<1>2. PollerTypes'
  <2>1. generation' \in Nat /\ turns' \in Nat
    BY DEF EndPolling, Turn, PollerInv, PollerTypes
  <2>2. enabled' \in BOOLEAN /\ ended' \in BOOLEAN /\ timer' \in BOOLEAN /\ burst' \in BOOLEAN
    BY DEF EndPolling, PollerInv, PollerTypes
  <2> QED BY <2>1, <2>2 DEF EndPolling, PollerInv, PollerTypes
<1>3. LoopInv'
  BY <1>1 DEF EndPolling, PollerInv, LoopInv
<1> QED BY <1>2, <1>3 DEF EndPolling, PollerStepOK, PollerInv, SkippedInv

(* The timer fires: it is the one the field refers to, as there is no      *)
(* other.                                                                  *)
LEMMA PollTimerStep == ASSUME PollerInv, PollTimerFires PROVE PollerStepOK
<1>1. armed = 1 /\ timer = TRUE
  BY DEF PollTimerFires, PollerInv, LoopInv, PollerTypes
<1>2. PICK named \in {timer} \cup {t \in {FALSE} : armed > 1} :
        Refresh(enabled, unsupported, armed - 1, timer /\ ~named)
  BY DEF PollTimerFires
<1>3. named = TRUE /\ armed - 1 = 0 /\ (timer /\ ~named) = FALSE
  BY <1>1, <1>2
<1>4. Refresh(enabled, unsupported, 0, FALSE)
  BY <1>2, <1>3
<1>5. /\ UNCHANGED <<burst, enabled, ended, generation, unsupported, turns, verdictOf>>
      /\ burst \in BOOLEAN /\ enabled \in BOOLEAN /\ unsupported \in SUBSET Queries
  BY DEF PollTimerFires, PollerInv, PollerTypes
<1> QED BY <1>4, <1>5, PollerRefreshKeeps DEF PollerStepOK, PollerInv, PollerTypes,
           SkippedInv

(* The end of a cycle leaves none, and the timer if the poller is on. *)
LEMMA EndKeeps ==
  ASSUME PollerInv, NEW c \in cycles, End(c), UNCHANGED <<enabled, ended>>
  PROVE  cycles' = {} /\ running' = FALSE /\ timer' \in BOOLEAN /\ LoopInv'
<1>1. running = TRUE /\ cycles = {c} /\ timer = FALSE /\ armed = 0
  BY DEF PollerInv, PollerTypes, LoopInv
<1>2. cycles' = {} /\ running' = FALSE
  BY <1>1 DEF End
<1> QED BY <1>1, <1>2 DEF End, EndsArmed, LoopInv, PollerInv, PollerTypes

(* A stale cycle breaks off.                                               *)
LEMMA BreakStep ==
  ASSUME PollerInv, NEW c, Break(c)
  PROVE  PollerStepOK
<1>1. /\ c \in cycles /\ End(c)
      /\ UNCHANGED <<enabled, ended, generation, unsupported, burst, turns, verdictOf>>
  BY DEF Break
<1> QED BY <1>1, EndKeeps DEF PollerStepOK, PollerInv, PollerTypes, SkippedInv

(* A cycle goes on, or is over.                                            *)
LEMMA SettleStep ==
  ASSUME PollerInv, NEW c, NEW u \in BOOLEAN, QuerySettles(c, u)
  PROVE  PollerStepOK
<1> DEFINE skip == IF u THEN unsupported \cup {Head(c.left)} ELSE unsupported
           left == ToSend(Tail(c.left), skip)
<1>1. c \in cycles /\ c \in Cycle /\ cycles = {c} /\ running = TRUE /\ timer = FALSE /\ armed = 0
  BY DEF QuerySettles, PollerInv, PollerTypes, LoopInv
<1>2. enabled = TRUE /\ ended = FALSE /\ c.generation = generation
  BY DEF QuerySettles, Stale, PollerInv, PollerTypes
<1>3. Head(c.left) \in Queries /\ Tail(c.left) \in Seq(Queries)
  BY <1>1, HeadTailProperties DEF Cycle
<1>4. left \in Seq(Queries)
  BY <1>3, ToSendIsEnd
<1>5. /\ unsupported' = skip
      /\ IF left = <<>>
         THEN End(c)
         ELSE /\ cycles' = (cycles \ {c}) \cup {[c EXCEPT !.left = left]}
              /\ UNCHANGED <<running, armed, timer>>
      /\ verdictOf' = IF u THEN [verdictOf EXCEPT ![Head(c.left)] = c.generation]
                      ELSE verdictOf
      /\ UNCHANGED <<enabled, ended, generation, burst, turns>>
  BY DEF QuerySettles
<1>6. /\ skip \subseteq Queries
      /\ verdictOf' \in [Queries -> Nat]
      /\ \A q \in skip : verdictOf'[q] = generation
  BY <1>2, <1>3, <1>5 DEF PollerInv, PollerTypes, SkippedInv
<1> HIDE DEF skip, left
<1>7. CASE left = <<>>
  <2>1. cycles' = {} /\ running' = FALSE /\ timer' \in BOOLEAN /\ LoopInv'
    BY <1>1, <1>5, <1>7, EndKeeps
  <2> QED BY <1>5, <1>6, <2>1 DEF PollerStepOK, PollerInv, PollerTypes, SkippedInv
<1>8. CASE left # <<>>
  <2>1. [c EXCEPT !.left = left] \in Cycle
    BY <1>1, <1>4, <1>8 DEF Cycle
  <2>2. [c EXCEPT !.left = left].generation = generation
    BY <1>1, <1>2 DEF Cycle
  <2>3. cycles' = {[c EXCEPT !.left = left]}
    BY <1>1, <1>5, <1>8
  <2>4. cycles' \subseteq Cycle /\ LoopInv'
    BY <1>1, <1>5, <1>8, <2>1, <2>3 DEF LoopInv
  <2>5. PollerInv'
    BY <1>1, <1>5, <1>6, <1>8, <2>4 DEF PollerInv, PollerTypes, SkippedInv
  <2> QED BY <1>2, <1>5, <2>2, <2>3, <2>5 DEF PollerStepOK
<1> QED BY <1>7, <1>8

(* The invariant holds at first. *)
LEMMA PollerStarts == PollerInit => PollerInv
<1> SUFFICES ASSUME PollerInit PROVE PollerInv
  OBVIOUS
<1>1. PollerTypes
  BY DEF PollerInit, PollerTypes
<1>2. LoopInv
  BY DEF PollerInit, LoopInv
<1>3. SkippedInv
  BY DEF PollerInit, SkippedInv
<1> QED BY <1>1, <1>2, <1>3 DEF PollerInv

(* Every step keeps the invariant and begins sends only for the present    *)
(* connection.                                                             *)
LEMMA PollerStep == ASSUME PollerInv, [PollerNext]_pollerVars PROVE PollerStepOK
<1>1. CASE RefreshSoon \/ Enable \/ Disable \/ EndPolling
  BY <1>1, RefreshSoonStep, EnableStep, DisableStep, PollerDisposed
<1>2. CASE BurstEnds
  BY <1>2 DEF BurstEnds, PollerStepOK, PollerInv, PollerTypes, LoopInv, SkippedInv
<1>3. CASE PollTimerFires
  BY <1>3, PollTimerStep
<1>4. CASE QueriesSettle
  BY <1>4, BreakStep, SettleStep DEF QueriesSettle
<1>5. CASE UNCHANGED pollerVars
  BY <1>5 DEF pollerVars, PollerStepOK, PollerInv, PollerTypes, LoopInv, SkippedInv
<1> QED BY <1>1, <1>2, <1>3, <1>4, <1>5 DEF PollerNext

-----------------------------------------------------------------------------
(* What the invariant says of the number of loops.                         *)
LEMMA InvImpliesOneLoop == PollerInv => OneLoop
<1> SUFFICES ASSUME PollerInv PROVE OneLoop
  OBVIOUS
<1>1. CASE running
  <2>1. Cardinality(cycles) = 1 /\ armed = 0
    BY <1>1, FS_Singleton DEF PollerInv, PollerTypes, LoopInv
  <2> QED BY <2>1 DEF OneLoop
<1>2. CASE ~running
  <2>1. Cardinality(cycles) = 0
    BY <1>2, FS_EmptySet DEF PollerInv, LoopInv
  <2> QED BY <1>2, <2>1 DEF OneLoop, PollerInv, LoopInv
<1> QED BY <1>1, <1>2

(* A user's action, a reconnection or the end of a cycle never leaves two  *)
(* loops of queries, nor none while the poller is on.                      *)
THEOREM AlwaysOneLoop == PollerSpec => []OneLoop
<1>1. PollerInit => PollerInv
  BY PollerStarts
<1>2. PollerInv /\ [PollerNext]_pollerVars => PollerInv'
  BY PollerStep DEF PollerStepOK
<1>3. PollerInv => OneLoop
  BY InvImpliesOneLoop
<1> QED BY <1>1, <1>2, <1>3, PTL DEF PollerSpec

(* A send that settles after the connection went, or after dispose, has no *)
(* effect on what is sent and skipped later.                               *)
THEOREM StaleHasNoEffect == PollerSpec => NoStaleEffect
<1>1. PollerInit => PollerInv
  BY PollerStarts
<1>2. PollerInv /\ [PollerNext]_pollerVars => PollerInv'
  BY PollerStep DEF PollerStepOK
<1>3. PollerInv /\ [PollerNext]_pollerVars =>
        [/\ \A c \in cycles' \ cycles : enabled' /\ ~ended' /\ c.generation = generation'
         /\ enabled' => \A q \in unsupported' : verdictOf'[q] = generation']_pollerVars
  BY PollerStep DEF PollerStepOK, PollerInv, SkippedInv
<1> QED BY <1>1, <1>2, <1>3, PTL DEF PollerSpec, NoStaleEffect

-----------------------------------------------------------------------------
(* Command feedback *)

(* What a mark, a send on its way and an armed timer are.                  *)
Marks ==
  [id : 1..lastId, command : Commands, phase : Phases, age : 0..GiveUpAge]
PendingSends == [id : 1..lastId, command : Commands, age : 0..SendLimit]
TimerKinds == {"resync", "giveUp", "unmark"}
ArmedTimers ==
  [target : Targets, id : 1..lastId, kind : TimerKinds, left : 0..GiveUpDelay]

(* Types; ids are given once, and the status of a command that has not     *)
(* been sent was not asked for.                                            *)
TypesInv ==
  /\ lastId \in 0..MaxCommands
  /\ feedback \in [Targets -> Marks \cup {Blank}]
  /\ pending \subseteq PendingSends
  /\ timers \subseteq ArmedTimers
  /\ asked \in [1..MaxCommands -> Nat]
  /\ \A i \in 1..MaxCommands : i > lastId => asked[i] = 0

(* A mark is of one command and shown at the control of that command.      *)
MarkInv ==
  /\ \A t \in Targets : Shown(t) => TargetOf[feedback[t].command] = t
  /\ \A t, u \in Targets :
       Shown(t) /\ Shown(u) /\ feedback[t].id = feedback[u].id => t = u

(* A send on its way and the mark of its id are of one command, and while  *)
(* the mark waits for the send both are of one age.                        *)
SendInv ==
  \A s \in pending, t \in Targets :
    Shown(t) /\ feedback[t].id = s.id =>
      /\ feedback[t].command = s.command
      /\ feedback[t].phase = "sending" => feedback[t].age = s.age

(* Nobody asks for the status while the command is being sent.             *)
SendingInv ==
  \A t \in Targets :
    Shown(t) /\ feedback[t].phase = "sending" => asked[feedback[t].id] = 0

(* Every timer is of the mark that is shown; the two deadlines are those   *)
(* of a mark that waits for its status, and one timer ends another mark.   *)
TimerInv ==
  /\ \A m \in timers :
       /\ Current(m)
       /\ m.kind \in {"resync", "giveUp"} => Of(m).phase = "awaiting"
       /\ m.kind = "unmark" => Of(m).phase \notin {"sending", "awaiting"}
  /\ \A m, n \in timers :
       m.kind = "unmark" /\ n.kind = "unmark" /\ m.target = n.target => m = n

(* The first deadline falls into the time in which the mark may ask, and   *)
(* there is one timer for it.                                              *)
ResyncInv ==
  /\ \A m \in timers : m.kind = "resync" =>
       /\ asked[m.id] = 0 /\ Of(m).command \in WithStatus
       /\ Of(m).age + m.left \in ResyncAge..(GiveUpAge - 1)
  /\ \A m, n \in timers :
       m.kind = "resync" /\ n.kind = "resync" /\ m.target = n.target => m = n

(* Before the last deadline comes the first, eight seconds earlier, unless *)
(* the status was asked for.                                               *)
Ahead(m) == \E r \in timers : r.kind = "resync" /\ r.target = m.target /\ r.left + 8 = m.left
GiveUpInv ==
  \A m \in timers : m.kind = "giveUp" /\ Of(m).command \in WithStatus =>
    asked[m.id] = 1 \/ Ahead(m)

FeedbackInv ==
  /\ TypesInv /\ MarkInv /\ SendInv /\ SendingInv /\ TimerInv /\ ResyncInv /\ GiveUpInv
  /\ ResyncBeforeGivingUp

USE DEF Shown, Of, Current, Blank, ResyncAge, GiveUpAge, ResyncDelay,
        GiveUpDelay

(* A mark is shown where there is one. *)
LEMMA ShownMarks ==
  ASSUME TypesInv, NEW t \in Targets
  PROVE  /\ Shown(t) <=> feedback[t] \in Marks
         /\ Shown(t) <=> feedback[t].phase # "none"
<1>1. \A m \in Marks : m # Blank /\ m.phase # "none"  BY DEF Marks, Phases
<1> QED  BY <1>1 DEF TypesInv

(* Nothing is shown at first. *)
LEMMA FeedbackStarts == ASSUME MarksInit PROVE FeedbackInv
<1>1. TypesInv  BY FeedbackAssumption DEF MarksInit, TypesInv
<1> QED
  BY <1>1 DEF MarksInit, FeedbackInv, MarkInv, SendInv, SendingInv, TimerInv, ResyncInv,
  GiveUpInv, ResyncBeforeGivingUp

(* Marks that end: whatever is shown at some of the controls is now        *)
(* confirmed, failed or unconfirmed, the last only if its status was asked *)
(* for.                                                                    *)
LEMMA Finishes ==
  ASSUME FeedbackInv,
         NEW targets \in SUBSET Targets, NEW phase \in {"confirmed", "error", "unconfirmed"},
         FinishFeedback(targets, phase), UNCHANGED <<lastId, asked>>, pending' \subseteq pending,
         phase = "unconfirmed" =>
           \A t \in targets : Shown(t) /\ feedback[t].command \in WithStatus
                                => asked[feedback[t].id] = 1
  PROVE  FeedbackInv'
<1> DEFINE done == {t \in targets : Shown(t)}
<1> DEFINE unmark(t) == Timer(t, "unmark", Unmarked(phase))
<1>1. /\ feedback' = [t \in Targets |->
             IF t \in done THEN [feedback[t] EXCEPT !.phase = phase] ELSE feedback[t]]
      /\ timers' = {m \in timers : m.target \notin done} \cup {unmark(t) : t \in done}
  BY DEF FinishFeedback
<1>2. \A t \in done : /\ feedback[t] \in Marks
                      /\ feedback'[t] = [feedback[t] EXCEPT !.phase = phase]
                      /\ unmark(t) = [target |-> t, id |-> feedback[t].id, kind |-> "unmark",
                                      left |-> Unmarked(phase)]
                      /\ unmark(t).target = t /\ unmark(t).kind = "unmark"
                      /\ unmark(t).id = feedback[t].id
  BY <1>1, ShownMarks DEF FeedbackInv, Timer
<1>3. \A t \in Targets \ done : feedback'[t] = feedback[t]
  BY <1>1
<1> HIDE DEF unmark
<1>4. \A t \in Targets : Shown(t)' <=> Shown(t)
  <2> TAKE t \in Targets
  <2>1. CASE t \in done
    <3>1. feedback'[t].phase = phase /\ Blank.phase = "none"  BY <2>1, <1>2 DEF Marks
    <3> QED  BY <2>1, <3>1
  <2>2. CASE t \notin done  BY <2>2, <1>3
  <2> QED  BY <2>1, <2>2
<1>5. \A t \in Targets : Shown(t) =>
        /\ feedback[t] \in Marks /\ feedback'[t] \in Marks
        /\ feedback'[t].id = feedback[t].id /\ feedback'[t].command = feedback[t].command
        /\ feedback'[t].age = feedback[t].age
        /\ feedback'[t].phase = IF t \in done THEN phase ELSE feedback[t].phase
  <2> TAKE t \in Targets
  <2> HAVE Shown(t)
  <2>1. feedback[t] \in Marks  BY ShownMarks DEF FeedbackInv
  <2>2. CASE t \in done
    <3>1. feedback'[t] = [feedback[t] EXCEPT !.phase = phase]  BY <2>2, <1>2
    <3> QED  BY <2>1, <2>2, <3>1 DEF Marks, Phases
  <2>3. CASE t \notin done  BY <2>1, <2>3, <1>3
  <2> QED  BY <2>2, <2>3
<1>6. TypesInv'
  <2>1. Unmarked(phase) \in 0..12  BY DEF Unmarked
  <2>2. feedback' \in [Targets -> Marks \cup {Blank}]
    BY <1>1, <1>3, <1>5 DEF FeedbackInv, TypesInv
  <2>3. \A t \in done : unmark(t) \in ArmedTimers
    <3> TAKE t \in done
    <3>1. t \in Targets  OBVIOUS
    <3>2. feedback[t].id \in 1..lastId  BY <1>2 DEF Marks
    <3>3. unmark(t) = [target |-> t, id |-> feedback[t].id, kind |-> "unmark",
                       left |-> Unmarked(phase)]
      BY <1>2
    <3> QED  BY <2>1, <3>1, <3>2, <3>3 DEF ArmedTimers, TimerKinds
  <2>4. Marks' = Marks /\ PendingSends' = PendingSends /\ ArmedTimers' = ArmedTimers
    BY DEF Marks, PendingSends, ArmedTimers
  <2> QED  BY <1>1, <2>2, <2>3, <2>4 DEF FeedbackInv, TypesInv
<1>7. MarkInv' /\ SendInv' /\ SendingInv'
  BY <1>4, <1>5 DEF FeedbackInv, MarkInv, SendInv, SendingInv
<1>8. \A m \in timers' :
        \/ m \in timers /\ m.target \in Targets \ done
        \/ /\ m.target \in done /\ m.kind = "unmark" /\ m.id = feedback[m.target].id
           /\ m = unmark(m.target)
  <2> TAKE m \in timers'
  <2>1. CASE m \in timers /\ m.target \notin done
    <3>1. m \in ArmedTimers  BY <2>1 DEF FeedbackInv, TypesInv
    <3>2. m.target \in Targets  BY <3>1 DEF ArmedTimers
    <3> QED  BY <2>1, <3>2
  <2>2. CASE \E t \in done : m = unmark(t)
    <3> PICK t \in done : m = unmark(t)  BY <2>2
    <3> QED  BY <1>2
  <2> QED  BY <2>1, <2>2, <1>1
<1>9. TimerInv'
  BY <1>3, <1>4, <1>5, <1>8 DEF FeedbackInv, TimerInv
<1>10. ResyncInv'
  BY <1>3, <1>8 DEF FeedbackInv, ResyncInv
<1>11. GiveUpInv'
  <2> SUFFICES ASSUME NEW m \in timers', m.kind = "giveUp", Of(m)'.command \in WithStatus
               PROVE  asked[m.id] = 1 \/ Ahead(m)'
    BY DEF GiveUpInv
  <2>1. m \in timers /\ m.target \in Targets \ done  BY <1>8
  <2>2. asked[m.id] = 1 \/ Ahead(m)  BY <2>1, <1>3 DEF FeedbackInv, GiveUpInv
  <2> QED  BY <2>1, <2>2, <1>1 DEF Ahead
<1>12. ResyncBeforeGivingUp'
  BY <1>4, <1>5 DEF FeedbackInv, ResyncBeforeGivingUp
<1> QED
  BY <1>6, <1>7, <1>9, <1>10, <1>11, <1>12 DEF FeedbackInv

(* A command is sent: its mark replaces that of an earlier command.        *)
LEMMA SendCommandKeeps ==
  ASSUME FeedbackInv, NEW c \in Commands, SendCommand(c)
  PROVE  FeedbackInv'
<1> DEFINE new == [id |-> lastId', command |-> c, phase |-> "sending", age |-> 0]
<1> DEFINE sent == [id |-> lastId', command |-> c, age |-> 0]
<1> DEFINE t == TargetOf[c]
<1>1. t \in Targets  BY FeedbackAssumption
<1>2. /\ lastId \in 0..MaxCommands /\ lastId' = lastId + 1 /\ lastId' \in 1..MaxCommands
      /\ MaxCommands \in Nat
  BY FeedbackAssumption DEF SendCommand, FeedbackInv, TypesInv
<1>3. /\ feedback' = [feedback EXCEPT ![t] = new]
      /\ timers' = {m \in timers : m.target # t}
      /\ pending' = pending \cup {sent} /\ asked' = asked
  BY DEF SendCommand, Cleared
<1>4. new \in Marks' /\ sent \in PendingSends' /\ new # Blank
  BY <1>2, FeedbackAssumption DEF Marks, PendingSends, Phases
<1>5. Marks \subseteq Marks' /\ PendingSends \subseteq PendingSends' /\ ArmedTimers \subseteq ArmedTimers'
  BY <1>2 DEF Marks, PendingSends, ArmedTimers
<1>6. feedback'[t] = new /\ \A u \in Targets \ {t} : feedback'[u] = feedback[u]
  BY <1>1, <1>3 DEF FeedbackInv, TypesInv
<1> HIDE DEF t
<1>7. TypesInv'
  <2>1. lastId' \in 0..MaxCommands
    BY <1>2
  <2>2. feedback' \in [Targets -> Marks' \cup {Blank}]
    BY <1>1, <1>3, <1>4, <1>5 DEF FeedbackInv, TypesInv
  <2>3. pending' \subseteq PendingSends' /\ timers' \subseteq ArmedTimers'
    BY <1>3, <1>4, <1>5 DEF FeedbackInv, TypesInv
  <2>4. asked' \in [1..MaxCommands -> Nat] /\ \A i \in 1..MaxCommands : i > lastId' => asked'[i] = 0
    BY <1>2, <1>3 DEF FeedbackInv, TypesInv
  <2> HIDE DEF new, sent
  <2> QED BY <2>1, <2>2, <2>3, <2>4 DEF TypesInv, Blank
<1>8. \A u \in Targets : Shown(u) => feedback[u] \in Marks /\ feedback[u].id # lastId'
  BY <1>2, ShownMarks DEF FeedbackInv, Marks
<1>9. \A s \in pending : s.id # lastId'
  BY <1>2 DEF FeedbackInv, TypesInv, PendingSends
<1>10. new.id = lastId' /\ new.command = c /\ new.phase = "sending" /\ new.age = 0
       /\ sent.id = lastId' /\ sent.command = c /\ sent.age = 0
  OBVIOUS
<1> HIDE DEF new, sent
<1>11. MarkInv'
  <2>1. TargetOf[c] = t  BY DEF t
  <2>2. \A u \in Targets : Shown(u)' =>
          \/ u = t /\ feedback'[u].id = lastId' /\ feedback'[u].command = c
          \/ /\ Shown(u) /\ feedback'[u] = feedback[u] /\ feedback'[u].id # lastId'
    BY <1>6, <1>8, <1>10
  <2> QED  BY <2>1, <2>2 DEF FeedbackInv, MarkInv
<1>12. SendInv'
  <2> SUFFICES ASSUME NEW s \in pending', NEW u \in Targets,
                      Shown(u)', feedback'[u].id = s.id
               PROVE  /\ feedback'[u].command = s.command
                      /\ feedback'[u].phase = "sending" => feedback'[u].age = s.age
    BY DEF SendInv
  <2>1. CASE u = t
    <3>1. s = sent  BY <2>1, <1>3, <1>6, <1>9, <1>10
    <3> QED  BY <2>1, <3>1, <1>6, <1>10
  <2>2. CASE u # t
    <3>1. feedback'[u] = feedback[u] /\ Shown(u)  BY <2>2, <1>6
    <3>2. s \in pending  BY <3>1, <1>3, <1>8, <1>10
    <3> QED  BY <3>1, <3>2 DEF FeedbackInv, SendInv
  <2> QED  BY <2>1, <2>2
<1>13. SendingInv'
  <2>1. asked[lastId'] = 0  BY <1>2 DEF FeedbackInv, TypesInv
  <2> QED  BY <2>1, <1>3, <1>6, <1>10 DEF FeedbackInv, SendingInv
<1>14. \A m \in timers' : m \in timers /\ m.target \in Targets \ {t}
  BY <1>3 DEF FeedbackInv, TypesInv, ArmedTimers
<1>15. TimerInv'
  BY <1>6, <1>14 DEF FeedbackInv, TimerInv
<1>16. ResyncInv'
  BY <1>3, <1>6, <1>14 DEF FeedbackInv, ResyncInv
<1>17. GiveUpInv'
  <2> SUFFICES ASSUME NEW m \in timers', m.kind = "giveUp", Of(m)'.command \in WithStatus
               PROVE  asked[m.id] = 1 \/ Ahead(m)'
    BY <1>3 DEF GiveUpInv
  <2>2. asked[m.id] = 1 \/ Ahead(m)  BY <1>14, <1>6 DEF FeedbackInv, GiveUpInv
  <2> QED  BY <1>14, <2>2, <1>3 DEF Ahead
<1>18. ResyncBeforeGivingUp'
  BY <1>3, <1>6, <1>10 DEF FeedbackInv, ResyncBeforeGivingUp
<1> QED
  BY <1>7, <1>11, <1>12, <1>13, <1>15, <1>16, <1>17, <1>18 DEF FeedbackInv

(* A send settles and was a success: a mark that still waits for it now    *)
(* waits for the status, and its two deadlines are set.                    *)
LEMMA SentKeeps ==
  ASSUME FeedbackInv, NEW s \in pending, Sent(s)
  PROVE  FeedbackInv'
<1> DEFINE t == TargetOf[s.command]
<1> DEFINE giveUp == Timer(t, "giveUp", 12)
<1> DEFINE resync == Timer(t, "resync", 4)
<1>1. /\ pending' = pending \ {s} /\ asked' = asked /\ lastId' = lastId
      /\ Marks' = Marks /\ PendingSends' = PendingSends /\ ArmedTimers' = ArmedTimers
  BY DEF Sent, Marks, PendingSends, ArmedTimers
<1>2. s \in PendingSends /\ t \in Targets
  BY FeedbackAssumption DEF FeedbackInv, TypesInv, PendingSends
<1>3. CASE ~StillSending(s)
  <2>1. feedback' = feedback /\ timers' = timers  BY <1>3 DEF Sent
  <2>2. TypesInv' /\ MarkInv' /\ SendingInv'
    BY <1>1, <2>1 DEF FeedbackInv, TypesInv, MarkInv, SendingInv
  <2>3. SendInv'  BY <1>1, <2>1 DEF FeedbackInv, SendInv
  <2>4. TimerInv' /\ ResyncInv' /\ ResyncBeforeGivingUp'
    BY <1>1, <2>1 DEF FeedbackInv, TimerInv, ResyncInv, ResyncBeforeGivingUp
  <2>5. GiveUpInv'  BY <1>1, <2>1 DEF FeedbackInv, GiveUpInv, Ahead
  <2> QED  BY <2>2, <2>3, <2>4, <2>5 DEF FeedbackInv
<1>4. CASE StillSending(s)
  <2>1. /\ Shown(t) /\ feedback[t].id = s.id /\ feedback[t].phase = "sending"
        /\ feedback[t] \in Marks
    BY <1>2, <1>4, ShownMarks DEF FeedbackInv, StillSending
  <2>2. /\ feedback[t].command = s.command /\ feedback[t].age = s.age
        /\ asked[feedback[t].id] = 0
    BY <1>2, <2>1 DEF FeedbackInv, SendInv, SendingInv
  <2>3. feedback[t].age \in 0..7
    BY <1>2, <2>2, FeedbackAssumption DEF PendingSends
  <2>4. /\ feedback' = [feedback EXCEPT ![t].phase = "awaiting"]
        /\ timers' = timers \cup {giveUp} \cup {resync : c \in {s.command} \cap WithStatus}
    BY <1>4 DEF Sent
  <2>5. /\ giveUp = [target |-> t, id |-> feedback[t].id, kind |-> "giveUp", left |-> 12]
        /\ resync = [target |-> t, id |-> feedback[t].id, kind |-> "resync", left |-> 4]
    BY DEF Timer
  <2> HIDE DEF t, giveUp, resync
  <2>6. /\ feedback'[t] \in Marks /\ Shown(t)' /\ feedback'[t].phase = "awaiting"
        /\ feedback'[t].id = feedback[t].id /\ feedback'[t].command = feedback[t].command
        /\ feedback'[t].age = feedback[t].age
    <3>1. feedback'[t] = [feedback[t] EXCEPT !.phase = "awaiting"]
      BY <1>2, <2>4 DEF FeedbackInv, TypesInv
    <3>2. feedback'[t] \in Marks /\ feedback'[t].phase = "awaiting"
      BY <2>1, <3>1 DEF Marks, Phases
    <3> QED  BY <2>1, <3>1, <3>2 DEF Marks, Phases
  <2>7. \A u \in Targets \ {t} : feedback'[u] = feedback[u]
    BY <2>4 DEF FeedbackInv, TypesInv
  <2>8. \A m \in timers' :
          \/ m \in timers
          \/ m = giveUp
          \/ m = resync /\ s.command \in WithStatus
    BY <2>4
  <2>9. giveUp \in timers' /\ (s.command \in WithStatus => resync \in timers') /\ timers \subseteq timers'
    BY <2>4
  <2>10. giveUp \in ArmedTimers /\ resync \in ArmedTimers
    BY <1>2, <2>1, <2>5 DEF ArmedTimers, Marks, TimerKinds
  <2>11. \A m \in timers : m.target \in Targets /\ (m.target = t => m.kind \notin {"resync", "giveUp"})
    BY <2>1 DEF FeedbackInv, TypesInv, ArmedTimers, TimerInv
  <2>12. TypesInv'
    <3>1. feedback' \in [Targets -> Marks \cup {Blank}]
      BY <1>2, <2>4, <2>6, <2>7 DEF FeedbackInv, TypesInv
    <3>2. timers' \subseteq ArmedTimers  BY <2>8, <2>10 DEF FeedbackInv, TypesInv
    <3> QED  BY <1>1, <3>1, <3>2 DEF FeedbackInv, TypesInv
  <2>13. MarkInv' /\ SendingInv'
    BY <1>1, <1>2, <2>1, <2>6, <2>7 DEF FeedbackInv, MarkInv, SendingInv
  <2>14. SendInv'
    BY <1>1, <2>1, <2>6, <2>7 DEF FeedbackInv, SendInv
  <2>15. TimerInv'
    BY <2>1, <2>5, <2>6, <2>7, <2>8, <2>11 DEF FeedbackInv, TimerInv
  <2>16. \A m \in timers' : m.kind = "resync" =>
           \/ m \in timers /\ m.target \in Targets \ {t}
           \/ m = resync /\ m.target = t /\ m.id = feedback[t].id /\ m.left = 4 /\ s.command \in WithStatus
    BY <2>5, <2>8, <2>11
  <2>17. ResyncInv'
    <3>1. \A m \in timers' : m.kind = "resync" =>
            /\ asked'[m.id] = 0 /\ Of(m)'.command \in WithStatus
            /\ Of(m)'.age + m.left \in 4..11
      <4> SUFFICES ASSUME NEW m \in timers', m.kind = "resync"
                   PROVE  /\ asked'[m.id] = 0 /\ Of(m)'.command \in WithStatus
                          /\ Of(m)'.age + m.left \in 4..11
        OBVIOUS
      <4>1. CASE m \in timers /\ m.target \in Targets \ {t}
        BY <4>1, <1>1, <2>7 DEF FeedbackInv, ResyncInv
      <4>2. CASE /\ m = resync /\ m.target = t /\ m.id = feedback[t].id /\ m.left = 4
                 /\ s.command \in WithStatus
        BY <4>2, <1>1, <2>2, <2>3, <2>6
      <4> QED  BY <4>1, <4>2, <2>16
    <3>2. \A m, n \in timers' :
            m.kind = "resync" /\ n.kind = "resync" /\ m.target = n.target => m = n
      BY <2>16 DEF FeedbackInv, ResyncInv
    <3> QED  BY <3>1, <3>2 DEF ResyncInv
  <2>18. GiveUpInv'
    <3> SUFFICES ASSUME NEW m \in timers', m.kind = "giveUp", Of(m)'.command \in WithStatus
                 PROVE  asked'[m.id] = 1 \/ Ahead(m)'
      BY DEF GiveUpInv
    <3>1. CASE m \in timers
      <4>1. m.target \in Targets \ {t}  BY <3>1, <2>11
      <4>2. asked[m.id] = 1 \/ Ahead(m)  BY <3>1, <4>1, <2>7 DEF FeedbackInv, GiveUpInv
      <4> QED  BY <4>2, <1>1, <2>9 DEF Ahead
    <3>2. CASE m = giveUp
      <4>1. resync \in timers'  BY <3>2, <2>2, <2>5, <2>6, <2>9
      <4>2. /\ resync.kind = "resync" /\ resync.target = m.target
            /\ resync.left + 8 = m.left
        BY <3>2, <2>5
      <4> QED  BY <4>1, <4>2 DEF Ahead
    <3> QED  BY <3>1, <3>2, <2>5, <2>8
  <2>19. ResyncBeforeGivingUp'
    BY <1>1, <2>6, <2>7 DEF FeedbackInv, ResyncBeforeGivingUp
  <2> QED
    BY <2>12, <2>13, <2>14, <2>15, <2>17, <2>18, <2>19 DEF FeedbackInv
<1> QED  BY <1>3, <1>4

(* The timers that fire, other than the last deadline.                     *)
LEMMA ResyncTimerKeeps ==
  ASSUME FeedbackInv, NEW m \in timers, ResyncTimer(m)
  PROVE  FeedbackInv'
<1>1. /\ m.kind = "resync" /\ m.left = 0 /\ timers' = timers \ {m}
      /\ feedback' = feedback /\ pending' = pending /\ lastId' = lastId
      /\ Marks' = Marks /\ PendingSends' = PendingSends /\ ArmedTimers' = ArmedTimers
  BY DEF ResyncTimer, Due, Marks, PendingSends, ArmedTimers
<1>2. /\ m.target \in Targets /\ m.id \in 1..lastId /\ Current(m)
      /\ feedback[m.target] \in Marks /\ feedback[m.target].phase = "awaiting"
  BY <1>1, ShownMarks DEF FeedbackInv, TypesInv, ArmedTimers, TimerInv
<1>3. /\ asked[m.id] = 0 /\ feedback[m.target].command \in WithStatus
      /\ feedback[m.target].age \in 4..11
  BY <1>1, <1>2 DEF FeedbackInv, ResyncInv, Marks
<1>4. DeadlineAction(Of(m)) = "resync"
  BY <1>2, <1>3 DEF DeadlineAction
<1>5. m.id \in 1..MaxCommands /\ asked \in [1..MaxCommands -> Nat]
  BY <1>2, FeedbackAssumption DEF FeedbackInv, TypesInv
<1>6. asked' = [asked EXCEPT ![m.id] = 1]
  BY <1>2, <1>3, <1>4, <1>5 DEF ResyncTimer
<1>7. TypesInv'
  BY <1>1, <1>2, <1>5, <1>6 DEF FeedbackInv, TypesInv
<1>8. MarkInv' /\ SendInv' /\ TimerInv'
  BY <1>1 DEF FeedbackInv, MarkInv, SendInv, TimerInv
<1>9. \A t \in Targets : Shown(t) /\ t # m.target => feedback[t].id # m.id
  BY <1>2 DEF FeedbackInv, MarkInv
<1>10. asked'[m.id] = 1 /\ \A i \in 1..MaxCommands : i # m.id => asked'[i] = asked[i]
  BY <1>5, <1>6
<1>11. \A t \in Targets : Shown(t) => feedback[t].id \in 1..MaxCommands
  BY ShownMarks, FeedbackAssumption DEF FeedbackInv, TypesInv, Marks
<1>12. SendingInv'
  BY <1>1, <1>2, <1>9, <1>10, <1>11 DEF FeedbackInv, SendingInv
<1>13. ResyncBeforeGivingUp'
  BY <1>1, <1>2, <1>9, <1>10, <1>11 DEF FeedbackInv, ResyncBeforeGivingUp
<1>14. \A n \in timers' : /\ n \in timers /\ n # m /\ n.target \in Targets
                          /\ Shown(n.target) /\ n.id = feedback[n.target].id
  BY <1>1 DEF FeedbackInv, TypesInv, ArmedTimers, TimerInv
<1>15. \A n \in timers' : n.kind = "resync" => n.target # m.target
  BY <1>1, <1>14 DEF FeedbackInv, ResyncInv
<1>16. ResyncInv'
  BY <1>1, <1>9, <1>10, <1>11, <1>14, <1>15 DEF FeedbackInv, ResyncInv
<1>17. GiveUpInv'
  <2> SUFFICES ASSUME NEW n \in timers', n.kind = "giveUp", Of(n)'.command \in WithStatus
               PROVE  asked'[n.id] = 1 \/ Ahead(n)'
    BY DEF GiveUpInv
  <2>1. CASE n.target = m.target  BY <2>1, <1>2, <1>10, <1>14
  <2>2. CASE n.target # m.target
    <3>1. asked[n.id] = 1 \/ Ahead(n)  BY <1>1, <1>14 DEF FeedbackInv, GiveUpInv
    <3>2. asked'[n.id] = asked[n.id]  BY <2>2, <1>9, <1>10, <1>11, <1>14
    <3>3. Ahead(n) => Ahead(n)'  BY <2>2, <1>1 DEF Ahead
    <3> QED  BY <3>1, <3>2, <3>3
  <2> QED  BY <2>1, <2>2
<1> QED
  BY <1>7, <1>8, <1>12, <1>13, <1>16, <1>17 DEF FeedbackInv

(* Fewer marks and fewer timers, the timers of marks that stay.            *)
LEMMA FewerMarks ==
  ASSUME FeedbackInv, NEW gone \in SUBSET Targets,
         feedback' = [t \in Targets |-> IF t \in gone THEN Blank ELSE feedback[t]],
         timers' \subseteq timers,
         \A m \in timers' : m.target \notin gone,
         \A m, n \in timers : m \in timers' /\ n.target = m.target => n \in timers',
         pending' = pending, lastId' = lastId, asked' = asked
  PROVE  FeedbackInv'
<1>1. Marks' = Marks /\ PendingSends' = PendingSends /\ ArmedTimers' = ArmedTimers
  BY DEF Marks, PendingSends, ArmedTimers
<1>2. TypesInv'  BY <1>1 DEF FeedbackInv, TypesInv
<1>3. \A t \in Targets : Shown(t)' => Shown(t) /\ feedback'[t] = feedback[t]
  OBVIOUS
<1>4. MarkInv' /\ SendInv' /\ SendingInv' /\ ResyncBeforeGivingUp'
  BY <1>3 DEF FeedbackInv, MarkInv, SendInv, SendingInv, ResyncBeforeGivingUp
<1>5. \A m \in timers' : m \in timers /\ m.target \in Targets /\ feedback'[m.target] = feedback[m.target]
  BY DEF FeedbackInv, TypesInv, ArmedTimers
<1>6. TimerInv' /\ ResyncInv'
  BY <1>5 DEF FeedbackInv, TimerInv, ResyncInv
<1>7. GiveUpInv'
  <2> SUFFICES ASSUME NEW m \in timers', m.kind = "giveUp", Of(m)'.command \in WithStatus
               PROVE  asked'[m.id] = 1 \/ Ahead(m)'
    BY DEF GiveUpInv
  <2>1. asked[m.id] = 1 \/ Ahead(m)  BY <1>5 DEF FeedbackInv, GiveUpInv
  <2> QED  BY <2>1 DEF Ahead
<1> QED  BY <1>2, <1>4, <1>6, <1>7 DEF FeedbackInv

(* The last deadline: the mark waits for its status no more.               *)
LEMMA GiveUpTimerKeeps ==
  ASSUME FeedbackInv, NEW m \in timers, GiveUpTimer(m)
  PROVE  FeedbackInv'
<1>1. /\ m.kind = "giveUp" /\ m.left = 0 /\ m \in ArmedTimers
      /\ pending' = pending /\ lastId' = lastId /\ asked' = asked
  BY DEF GiveUpTimer, Due, FeedbackInv, TypesInv
<1>2. m.target \in Targets /\ Current(m)
  BY <1>1 DEF ArmedTimers, FeedbackInv, TimerInv
<1>3. feedback[m.target].command \in WithStatus => asked[m.id] = 1
  <2> SUFFICES ASSUME feedback[m.target].command \in WithStatus PROVE asked[m.id] = 1
    OBVIOUS
  <2>1. asked[m.id] = 1 \/ Ahead(m)  BY <1>1 DEF FeedbackInv, GiveUpInv
  <2>2. \A r \in timers : r.left \in 0..12  BY DEF FeedbackInv, TypesInv, ArmedTimers
  <2> QED  BY <1>1, <2>1, <2>2 DEF Ahead
<1>4. CASE DeadlineAction(Of(m)) = "unconfirmed"
  <2>1. FinishFeedback({m.target}, "unconfirmed")  BY <1>2, <1>4 DEF GiveUpTimer
  <2>2. {m.target} \in SUBSET Targets  BY <1>2
  <2>3. \A t \in {m.target} : Shown(t) /\ feedback[t].command \in WithStatus
                               => asked[feedback[t].id] = 1
    BY <1>2, <1>3
  <2> QED  BY <1>1, <2>1, <2>2, <2>3, Finishes
<1>5. CASE DeadlineAction(Of(m)) # "unconfirmed"
  <2>1. timers' = timers \ {m} /\ feedback' = feedback  BY <1>5 DEF GiveUpTimer
  <2>2. TypesInv' /\ MarkInv' /\ SendInv' /\ SendingInv' /\ ResyncBeforeGivingUp'
    BY <1>1, <2>1 DEF FeedbackInv, TypesInv, Marks, PendingSends, ArmedTimers,
       MarkInv, SendInv,
    SendingInv, ResyncBeforeGivingUp
  <2>3. TimerInv' /\ ResyncInv'
    BY <1>1, <2>1 DEF FeedbackInv, TimerInv, ResyncInv
  <2>4. GiveUpInv'
    BY <1>1, <2>1 DEF FeedbackInv, GiveUpInv, Ahead
  <2> QED  BY <2>2, <2>3, <2>4 DEF FeedbackInv
<1> QED  BY <1>4, <1>5

(* A mark that was seen long enough goes, and with it its last timer.      *)
LEMMA UnmarkTimerKeeps ==
  ASSUME FeedbackInv, NEW m \in timers, UnmarkTimer(m)
  PROVE  FeedbackInv'
<1>1. /\ m.kind = "unmark" /\ timers' = timers \ {m}
      /\ pending' = pending /\ lastId' = lastId /\ asked' = asked
      /\ Current(m) => feedback' = [feedback EXCEPT ![m.target] = Blank]
  BY DEF UnmarkTimer, Due
<1>2. Current(m) /\ Of(m).phase \notin {"sending", "awaiting"} /\ m.target \in Targets
  BY <1>1 DEF FeedbackInv, TimerInv, TypesInv, ArmedTimers
<1>3. feedback' = [t \in Targets |-> IF t \in {m.target} THEN Blank ELSE feedback[t]]
  BY <1>1, <1>2 DEF FeedbackInv, TypesInv
<1>4. \A n \in timers : n.target = m.target => n = m
  BY <1>1, <1>2 DEF FeedbackInv, TypesInv, ArmedTimers, TimerKinds, TimerInv
<1> QED  BY <1>1, <1>2, <1>3, <1>4, FewerMarks

(* A second passes for marks, sends and timers alike.                      *)
LEMMA TickKeeps ==
  ASSUME FeedbackInv, Tick
  PROVE  FeedbackInv'
<1> DEFINE later(m) == [m EXCEPT !.left = @ - 1]
<1>1. /\ \A m \in timers : m.left > 0
      /\ \A s \in pending : s.age < SendLimit
      /\ timers' = {later(m) : m \in timers}
      /\ pending' = {Older(s) : s \in pending}
      /\ feedback' = [t \in Targets |-> IF Shown(t) THEN Older(feedback[t]) ELSE Blank]
      /\ lastId' = lastId /\ asked' = asked
      /\ Marks' = Marks /\ PendingSends' = PendingSends /\ ArmedTimers' = ArmedTimers
  BY DEF Tick, Marks, PendingSends, ArmedTimers
<1>2. \A t \in Targets : Shown(t) =>
        /\ Shown(t)' /\ feedback[t] \in Marks /\ feedback'[t] \in Marks
        /\ feedback'[t].id = feedback[t].id /\ feedback'[t].command = feedback[t].command
        /\ feedback'[t].phase = feedback[t].phase
        /\ feedback[t].age < 12 => feedback'[t].age = feedback[t].age + 1
  <2> TAKE t \in Targets
  <2> HAVE Shown(t)
  <2>1. feedback[t] \in Marks  BY ShownMarks DEF FeedbackInv
  <2>2. feedback'[t] = Older(feedback[t])  BY <1>1
  <2>3. feedback'[t] \in Marks /\ feedback'[t].phase = feedback[t].phase
    BY <2>1, <2>2 DEF Older, Marks
  <2>4. feedback'[t] # Blank
    <3>1. feedback'[t].phase # "none"  BY <2>3 DEF Marks, Phases
    <3> QED  BY <3>1
  <2> QED  BY <2>1, <2>2, <2>3, <2>4 DEF Older, Marks
<1>3. \A t \in Targets : Shown(t)' => Shown(t)  BY <1>1
<1>4. \A m \in timers :
        /\ m.target \in Targets /\ m.left \in 1..12
        /\ later(m) \in ArmedTimers /\ later(m).target = m.target /\ later(m).id = m.id
        /\ later(m).kind = m.kind /\ later(m).left = m.left - 1
  <2> TAKE m \in timers
  <2>1. m \in ArmedTimers /\ m.left > 0  BY <1>1 DEF FeedbackInv, TypesInv
  <2>2. m.left - 1 \in 0..12  BY <2>1 DEF ArmedTimers
  <2>3. later(m) = [m EXCEPT !.left = m.left - 1]  OBVIOUS
  <2> QED  BY <2>1, <2>2, <2>3 DEF ArmedTimers
<1>5. \A s \in pending :
        /\ Older(s) \in PendingSends /\ Older(s).id = s.id /\ Older(s).command = s.command
        /\ s.age \in 0..6 /\ Older(s).age = s.age + 1
  <2> TAKE s \in pending
  <2>1. s \in PendingSends /\ s.age < SendLimit /\ SendLimit \in 0..7
    BY <1>1, FeedbackAssumption DEF FeedbackInv, TypesInv
  <2>2. s.age \in 0..6  BY <2>1 DEF PendingSends
  <2>3. Older(s) = [s EXCEPT !.age = s.age + 1]  BY <2>2 DEF Older
  <2> QED  BY <2>1, <2>2, <2>3 DEF PendingSends
<1> HIDE DEF later
<1>6. \A m \in timers' : \E n \in timers : m = later(n)  BY <1>1
<1>7. TypesInv'
  BY <1>1, <1>2, <1>4, <1>5 DEF FeedbackInv, TypesInv
<1>8. MarkInv' /\ SendingInv' /\ ResyncBeforeGivingUp'
  BY <1>1, <1>2, <1>3 DEF FeedbackInv, MarkInv, SendingInv, ResyncBeforeGivingUp
<1>9. SendInv'
  <2> SUFFICES ASSUME NEW s \in pending', NEW t \in Targets,
                      Shown(t)', feedback'[t].id = s.id
               PROVE  /\ feedback'[t].command = s.command
                      /\ feedback'[t].phase = "sending" => feedback'[t].age = s.age
    BY DEF SendInv
  <2>1. PICK r \in pending : s = Older(r)  BY <1>1
  <2>2. feedback[t].id = r.id /\ Shown(t)  BY <2>1, <1>2, <1>3, <1>5
  <2> QED  BY <2>1, <2>2, <1>2, <1>5 DEF FeedbackInv, SendInv
<1>10. TimerInv'
  BY <1>2, <1>4, <1>6 DEF FeedbackInv, TimerInv
<1>11. ResyncInv'
  <2>1. \A m \in timers' : m.kind = "resync" =>
          /\ asked'[m.id] = 0 /\ Of(m)'.command \in WithStatus
          /\ Of(m)'.age + m.left \in 4..11
    <3> SUFFICES ASSUME NEW m \in timers', m.kind = "resync"
                 PROVE  /\ asked'[m.id] = 0 /\ Of(m)'.command \in WithStatus
                        /\ Of(m)'.age + m.left \in 4..11
      OBVIOUS
    <3>1. PICK n \in timers : m = later(n)  BY <1>6
    <3>2. /\ asked[n.id] = 0 /\ Of(n).command \in WithStatus
          /\ Of(n).age + n.left \in 4..11 /\ Current(n)
      BY <3>1, <1>4 DEF FeedbackInv, ResyncInv, TimerInv
    <3>3. Of(n).age \in 0..10
      <4>1. Of(n) \in Marks  BY <3>2, <1>4, <1>2
      <4>2. Of(n).age \in 0..12  BY <4>1 DEF Marks
      <4> QED  BY <3>2, <1>4, <4>2
    <3> QED  BY <3>1, <3>2, <3>3, <1>1, <1>2, <1>4
  <2>2. \A m, n \in timers' :
          m.kind = "resync" /\ n.kind = "resync" /\ m.target = n.target => m = n
    BY <1>4, <1>6 DEF FeedbackInv, ResyncInv
  <2> QED  BY <2>1, <2>2 DEF ResyncInv
<1>12. GiveUpInv'
  <2> SUFFICES ASSUME NEW m \in timers', m.kind = "giveUp", Of(m)'.command \in WithStatus
               PROVE  asked'[m.id] = 1 \/ Ahead(m)'
    BY DEF GiveUpInv
  <2>1. PICK n \in timers : m = later(n)  BY <1>6
  <2>2. n.kind = "giveUp" /\ Of(n).command \in WithStatus
    BY <2>1, <1>2, <1>4 DEF FeedbackInv, TimerInv
  <2>3. asked[n.id] = 1 \/ Ahead(n)  BY <2>2 DEF FeedbackInv, GiveUpInv
  <2>4. ASSUME NEW r \in timers, r.kind = "resync", r.target = n.target, r.left + 8 = n.left
        PROVE  Ahead(m)'
    <3>1. later(r) \in timers'  BY <2>4, <1>1
    <3>2. later(r).kind = "resync" /\ later(r).target = m.target /\ later(r).left + 8 = m.left
      BY <2>1, <2>4, <1>4
    <3> QED  BY <3>1, <3>2 DEF Ahead
  <2> QED  BY <2>1, <2>3, <2>4, <1>1, <1>4 DEF Ahead
<1> QED
  BY <1>7, <1>8, <1>9, <1>10, <1>11, <1>12 DEF FeedbackInv

(* Each step of the whole keeps the invariant.                             *)
LEMMA FeedbackStep ==
  ASSUME FeedbackInv, MarksNext
  PROVE  FeedbackInv'
<1>1. CASE \E c \in Commands : SendCommand(c)  BY <1>1, SendCommandKeeps
<1>2. CASE \E about \in SUBSET Targets : StatusLine(about)
  <2>1. PICK about \in SUBSET Targets : StatusLine(about)  BY <1>2
  <2>2. Matching(about) \in SUBSET Targets  BY DEF Matching
  <2> QED  BY <2>1, <2>2, Finishes DEF StatusLine
<1>3. CASE ErrorLine
  BY <1>3, Finishes DEF ErrorLine
<1>4. CASE CloseSerial
  <2>1. feedback' = [t \in Targets |-> IF t \in Targets THEN Blank ELSE feedback[t]]
    BY <1>4 DEF CloseSerial
  <2> QED  BY <1>4, <2>1, FewerMarks DEF CloseSerial
<1>5. CASE EffectRunsAgain
  <2>1. feedback' = [t \in Targets |-> IF t \in {} THEN Blank ELSE feedback[t]]
    BY <1>5 DEF EffectRunsAgain, FeedbackInv, TypesInv
  <2>2. /\ timers' = {} /\ {} \in SUBSET Targets
        /\ pending' = pending /\ lastId' = lastId /\ asked' = asked
    BY <1>5 DEF EffectRunsAgain
  <2> QED  BY <2>1, <2>2, FewerMarks
<1>6. CASE Timers
  <2>1. PICK m \in timers : ResyncTimer(m) \/ GiveUpTimer(m) \/ UnmarkTimer(m)
    BY <1>6 DEF Timers
  <2>2. CASE ResyncTimer(m)  BY <2>2, ResyncTimerKeeps
  <2>3. CASE GiveUpTimer(m)  BY <2>3, GiveUpTimerKeeps
  <2>4. CASE UnmarkTimer(m)  BY <2>4, UnmarkTimerKeeps
  <2> QED  BY <2>1, <2>2, <2>3, <2>4
<1>7. CASE SendsSettle
  <2>1. PICK s \in pending : Sent(s) \/ SendFailed(s)  BY <1>7 DEF SendsSettle
  <2>2. CASE Sent(s)  BY <2>2, SentKeeps
  <2>3. CASE SendFailed(s)
    <3>1. {TargetOf[s.command]} \in SUBSET Targets
      BY FeedbackAssumption DEF FeedbackInv, TypesInv, PendingSends
    <3>2. /\ FinishFeedback({TargetOf[s.command]}, "error")
          /\ pending' \subseteq pending /\ UNCHANGED <<lastId, asked>>
      BY <2>3 DEF SendFailed
    <3> QED  BY <3>1, <3>2, Finishes
  <2> QED  BY <2>1, <2>2, <2>3
<1>8. CASE Tick  BY <1>8, TickKeeps
<1> QED
  BY <1>1, <1>2, <1>3, <1>4, <1>5, <1>6, <1>7, <1>8 DEF MarksNext

(* A control says "not confirmed" only after its status was asked for      *)
(* again (sendCommand and commandDeadlineAction), for any number of        *)
(* commands, controls and disturbances: a send takes seven seconds at      *)
(* most, so the first deadline is passed while the mark may still ask, and *)
(* never after the last.                                                   *)
THEOREM ResyncedBeforeGivingUp == MarksSpec => []ResyncBeforeGivingUp
<1>1. FeedbackInv /\ [MarksNext]_marksVars => FeedbackInv'
  <2>1. FeedbackInv /\ UNCHANGED marksVars => FeedbackInv'
    BY DEF marksVars, FeedbackInv, TypesInv, Marks, PendingSends, ArmedTimers, MarkInv,
       SendInv,
    SendingInv, TimerInv, ResyncInv, GiveUpInv, Ahead, ResyncBeforeGivingUp
  <2> QED  BY <2>1, FeedbackStep
<1>2. MarksInit => FeedbackInv  BY FeedbackStarts
<1>3. FeedbackInv => ResyncBeforeGivingUp  BY DEF FeedbackInv
<1> QED  BY <1>1, <1>2, <1>3, PTL DEF MarksSpec
==============================================================================

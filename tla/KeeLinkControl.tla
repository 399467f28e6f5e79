--------------------------- MODULE KeeLinkControl ---------------------------
(***************************************************************************)
(* Delivery of mesh commands by the KeeLink worker of the desktop          *)
(* (src-tauri/src/root_service.rs): callers queue a command, one worker    *)
(* thread owns the connection to the mesh root (node0), writes the command *)
(* to it, keeps it pending until a result, a deadline or a lost session    *)
(* resolves it, and replays it after a reconnect when that is safe.        *)
(*                                                                         *)
(* The root is not part of the repository.  What is assumed of it is what  *)
(* the desktop relies on: it serves one root session per boot, it executes *)
(* an operation id at most once per session and answers every request it   *)
(* receives over the connection that carried it.                           *)
(*                                                                         *)
(* One Commands element is one call of RootService::send; it stands for    *)
(* its correlation id and, on Fabric, for its operation id (both fresh).   *)
(***************************************************************************)
EXTENDS Naturals, Sequences, Functions

CONSTANTS
  Commands,         \* calls of RootService::send
  Owners,           \* owner tags a command is addressed to
  Macs,             \* mesh nodes
  NoMac,            \* an owner the inventory does not route
  OwnerOf,          \* the owner tag each command names
  Wake, Stop,       \* the control messages of the worker's queue
  RootVersions,     \* what /keelink/info may advertise: TRUE means Fabric
  BleReachable,     \* a BLE adapter and the root's BLE service exist
  PairingChanges,   \* pair_native and revoke may be called
  Restarts,         \* the service may be stopped and started again
  MislabelsResults, \* the root may put another operation's id on a result
  MaxConnections,   \* bound: WSS connections opened
  MaxRootSessions   \* bound: boots of the root

ASSUME ControlAssumption ==
  /\ NoMac \notin Macs
  /\ OwnerOf \in [Commands -> Owners]
  /\ Wake \notin Commands /\ Stop \notin Commands /\ Wake # Stop
  /\ RootVersions \subseteq BOOLEAN /\ RootVersions # {}
  /\ {BleReachable, PairingChanges, Restarts, MislabelsResults} \subseteq BOOLEAN
  /\ MaxConnections \in Nat /\ MaxRootSessions \in Nat \ {0}

VARIABLES
  \* Callers and the worker's queue (RootService::send, WorkerCommand)
  queue,        \* the flume channel: commands, Wake and Stop
  reply,        \* what the worker sent on a command's result channel
  gaveUp,       \* callers whose recv_timeout ended before a reply
  paired,       \* a credential record is stored
  stopFlag,     \* RootInner.stop
  \* The worker (worker_main, run_wss, LiveState, FabricSession)
  phase,        \* where the worker's loop stands
  pending,      \* LiveState.pending, by correlation id
  inventory,    \* LiveState.inventory: owner tag -> route
  enabled,      \* LiveState.fabric_enabled as of the last probe
  conn,         \* id of the latest WSS connection
  welcomed,     \* FabricSession.welcomed
  session,      \* FabricSession.root_session, 0 before WELCOME
  lastSession,  \* LiveState.fabric_root_session
  cursor,       \* LiveState.fabric_cursors of the CONTROL class
  \* The link and the root (external)
  hello,        \* a Fabric HELLO the root has not answered
  requests,     \* CONTROL requests on the way to the root
  inbox,        \* frames on the way to the desktop on this connection
  rootConn,     \* the connection the root holds open, 0 when none
  rootFabric,   \* the root's firmware speaks Fabric
  rootSession,  \* the root's boot session
  rootSeq,      \* last CONTROL sequence number the root used
  seen,         \* operation ids the root executed in this session
  \* History
  runs,         \* how often each command was executed
  written       \* each command's CONTROL writes, in order

callerVars == <<queue, reply, gaveUp, paired, stopFlag>>
workerVars == <<phase, pending, inventory, enabled, conn, welcomed, session,
                lastSession, cursor>>
rootVars   == <<hello, requests, inbox, rootConn, rootFabric, rootSession,
                rootSeq, seen, runs>>
linkVars   == <<hello, requests, inbox, rootConn>>
vars       == <<callerVars, workerVars, rootVars, written>>

-----------------------------------------------------------------------------
(* Vocabulary *)

Connections  == 0..MaxConnections  \* 0: none yet
RootSessions == 1..MaxRootSessions
Routes       == Macs \cup {NoMac}

(* Verdicts that promise the command was not handed to the root. *)
Rejections == {"unpaired", "unavailable", "no_route", "handshake"}

(* Every error text or result the worker may send to a caller. *)
Verdicts == Rejections \cup
  {"answered", "outcome_unknown", "failed", "interrupted", "write_error",
   "mismatch", "ble_error"}

Phases == {"top", "unpaired", "probe", "connect", "offline", "wss", "stopped"}

PendingItem ==
  [conn : Connections, sess : 0..MaxRootSessions, mac : Macs, op : BOOLEAN,
   replay : BOOLEAN, overdue : BOOLEAN]

Request ==
  [cmd : Commands, conn : Connections, sess : 0..MaxRootSessions, mac : Macs,
   op : BOOLEAN]

Without(p, S) == Restrict(p, DOMAIN p \ S)

With(p, c, item) == [d \in DOMAIN p \cup {c} |-> IF d = c THEN item ELSE p[d]]

Elements(s) == {s[i] : i \in 1..Len(s)}

Asked == {c \in Commands :
            \/ c \in Elements(queue)
            \/ c \in DOMAIN pending
            \/ c \in gaveUp
            \/ reply[c] # "none"}

(* The worker sends v on the result channels of the commands in S. *)
Tell(S, v) == [c \in Commands |-> IF c \in S THEN v ELSE reply[c]]

-----------------------------------------------------------------------------
(* The pending map's helpers *)

(* A definition whose name ends in _Mutant, _NoHandshake or _NoRoute is a   *)
(* plausible mistake in the one that follows; the runs must notice it.     *)

PendingError_Mutant(item) == "unavailable"
PendingError(item) == IF item.op THEN "outcome_unknown" ELSE "failed"

Expired_Mutant(p) == {c \in DOMAIN p : p[c].op /\ p[c].overdue}
Expired(p) == {c \in DOMAIN p : p[c].overdue}

NonResumable(p) == {c \in DOMAIN p : ~p[c].op}

ErrorsFor(p, S) ==
  [c \in Commands |-> IF c \in S THEN PendingError(p[c]) ELSE reply[c]]

(* expire_pending_commands *)
ExpirePending_Mutant ==
  /\ pending' = pending
  /\ reply' = ErrorsFor(pending, Expired(pending))
ExpirePending ==
  /\ pending' = Without(pending, Expired(pending))
  /\ reply' = ErrorsFor(pending, Expired(pending))

(* fail_all_pending *)
FailAllPending ==
  /\ pending' = Without(pending, DOMAIN pending)
  /\ reply' = ErrorsFor(pending, DOMAIN pending)

(* The commands a new root session makes unanswerable. *)
LostInReset(p, s) ==
  {c \in DOMAIN p : p[c].op /\ p[c].sess # 0 /\ p[c].sess # s}

(* The commands a WELCOME of the same root session marks for replay. *)
Resumable(p, s, k) ==
  {c \in DOMAIN p : p[c].op /\ p[c].sess = s /\ p[c].conn # k}

(* reconcile_pending_root_session, the pending map it leaves *)
Reconciled_Mutant(p, s, k) ==
  [c \in DOMAIN p |->
     IF p[c].op THEN [p[c] EXCEPT !.replay = TRUE, !.sess = s] ELSE p[c]]
Reconciled(p, s, k) ==
  LET kept == Without(p, LostInReset(p, s))
  IN  [c \in DOMAIN kept |->
         IF c \in Resumable(kept, s, k)
           THEN [kept[c] EXCEPT !.replay = TRUE] ELSE kept[c]]

(* pending_fabric_replays *)
ReplayDue(p) ==
  IF ~enabled \/ ~welcomed \/ session = 0 THEN {}
  ELSE {c \in DOMAIN p : p[c].op /\ p[c].replay /\ p[c].sess = session}

(* mark_pending_replayed *)
MarkReplayed_Mutant(p, c) == [p EXCEPT ![c].conn = conn]
MarkReplayed(p, c) == [p EXCEPT ![c].conn = conn, ![c].replay = FALSE]

-----------------------------------------------------------------------------
Init ==
  /\ queue = <<>>
  /\ reply = [c \in Commands |-> "none"]
  /\ gaveUp = {}
  /\ paired \in BOOLEAN
  /\ stopFlag = FALSE
  /\ phase = "top"
  /\ pending = [c \in {} |-> {}]
  /\ inventory = [o \in Owners |-> NoMac]
  /\ enabled = FALSE
  /\ conn = 0
  /\ welcomed = FALSE
  /\ session = 0
  /\ lastSession = 0
  /\ cursor = 0
  /\ hello = FALSE
  /\ requests = {}
  /\ inbox = <<>>
  /\ rootConn = 0
  /\ rootFabric \in RootVersions
  /\ rootSession = 1
  /\ rootSeq = 0
  /\ seen = {}
  /\ runs = [c \in Commands |-> 0]
  /\ written = [c \in Commands |-> <<>>]

-----------------------------------------------------------------------------
(* Callers *)

(* RootService::send queues the request and blocks on its result channel. *)
Send(c) ==
  /\ c \notin Asked
  /\ phase # "stopped"
  /\ queue' = Append(queue, c)
  /\ UNCHANGED <<reply, gaveUp, paired, stopFlag, workerVars, rootVars, written>>

(* recv_timeout(COMMAND_TIMEOUT + 2 s) ends without a reply.  The select    *)
(* loop takes queued messages within those 7 s, and an operation it wrote   *)
(* is past its 5 s deadline before the caller's 7 s are over.               *)
GiveUp(c) ==
  /\ c \in Asked \ gaveUp /\ reply[c] = "none"
  /\ c \in Elements(queue) => ~welcomed
  /\ c \in DOMAIN pending /\ pending[c].op => pending[c].overdue
  /\ gaveUp' = gaveUp \cup {c}
  /\ UNCHANGED <<queue, reply, paired, stopFlag, workerVars, rootVars, written>>

(* pair_native stores a credential, revoke deletes it; both end in a Wake. *)
(* Bound: at most one Wake is in the queue.                                *)
ChangePairing(stored) ==
  /\ PairingChanges
  /\ stored \/ paired
  /\ phase # "stopped"
  /\ Wake \notin Elements(queue)
  /\ paired' = stored
  /\ queue' = Append(queue, Wake)
  /\ UNCHANGED <<reply, gaveUp, stopFlag, workerVars, rootVars, written>>

(* RootService::stop raises the flag and wakes the worker. *)
StopService ==
  /\ Restarts
  /\ phase # "stopped" /\ ~stopFlag
  /\ stopFlag' = TRUE
  /\ queue' = Append(queue, Stop)
  /\ UNCHANGED <<reply, gaveUp, paired, workerVars, rootVars, written>>

(* RootService::start after a stop: a fresh channel and a fresh LiveState. *)
StartService ==
  /\ phase = "stopped"
  /\ stopFlag' = FALSE
  /\ phase' = "top"
  /\ inventory' = [o \in Owners |-> NoMac]
  /\ enabled' = FALSE
  /\ lastSession' = 0
  /\ cursor' = 0
  /\ UNCHANGED <<queue, reply, gaveUp, paired, pending, conn, welcomed, session,
                 rootVars, written>>

-----------------------------------------------------------------------------
(* The worker outside a connection: worker_main *)

(* The loop ends: pending commands fail, and the queue is dropped with the *)
(* receiver, so every caller still queued sees its channel close.          *)
WorkerExits ==
  /\ phase = "top" /\ stopFlag
  /\ phase' = "stopped"
  /\ FailAllPending
  /\ gaveUp' = gaveUp \cup (Elements(queue) \ {Wake, Stop})
  /\ queue' = <<>>
  /\ UNCHANGED <<paired, stopFlag, inventory, enabled, conn, welcomed, session,
                 lastSession, cursor, rootVars, written>>

(* The top of the loop: expire, then read the credential; a read error     *)
(* retries.                                                                *)
LoopTop(readable) ==
  /\ phase = "top" /\ ~stopFlag
  /\ ExpirePending
  /\ phase' = IF ~readable THEN "top" ELSE IF paired THEN "probe" ELSE "unpaired"
  /\ UNCHANGED <<queue, gaveUp, paired, stopFlag, inventory, enabled, conn,
                 welcomed, session, lastSession, cursor, rootVars, written>>

(* reject_until_wake: one message, or one second without any. *)
RejectUntilWake ==
  /\ phase = "unpaired"
  /\ phase' = "top"
  /\ IF queue = <<>>
       THEN UNCHANGED <<queue, reply, stopFlag>>
       ELSE /\ queue' = Tail(queue)
            /\ reply' = Tell({Head(queue)} \cap Commands, "unpaired")
            /\ stopFlag' = (stopFlag \/ Head(queue) = Stop)
  /\ UNCHANGED <<gaveUp, paired, pending, inventory, enabled, conn, welcomed,
                 session, lastSession, cursor, rootVars, written>>

(* fetch_root_info fails (TRUE), or the probed identity is not the paired  *)
(* one: the latter retries without serving the queue.                      *)
ProbeFails(unreachable) ==
  /\ phase = "probe"
  /\ phase' = IF unreachable THEN "offline" ELSE "top"
  /\ UNCHANGED <<callerVars, pending, inventory, enabled, conn, welcomed,
                 session, lastSession, cursor, rootVars, written>>

(* The probe succeeds; a root that no longer speaks Fabric ends every      *)
(* pending command.                                                        *)
ProbeSucceeds ==
  /\ phase = "probe"
  /\ phase' = "connect"
  /\ enabled' = rootFabric
  /\ IF rootFabric THEN UNCHANGED <<pending, reply>> ELSE FailAllPending
  /\ UNCHANGED <<queue, gaveUp, paired, stopFlag, inventory, conn, welcomed,
                 session, lastSession, cursor, rootVars, written>>

ConnectFails ==
  /\ phase = "connect"
  /\ phase' = "offline"
  /\ UNCHANGED <<callerVars, pending, inventory, enabled, conn, welcomed,
                 session, lastSession, cursor, rootVars, written>>

(* connect_wss and the opening of run_wss: a new connection id, a new      *)
(* FabricSession, HELLO on the wire.                                       *)
ConnectSucceeds ==
  /\ phase = "connect"
  /\ conn < MaxConnections
  /\ phase' = "wss"
  /\ conn' = conn + 1
  /\ welcomed' = FALSE
  /\ session' = 0
  /\ hello' = enabled
  /\ inbox' = <<>>
  /\ rootConn' = conn + 1
  /\ UNCHANGED <<callerVars, pending, inventory, enabled, lastSession, cursor,
                 requests, rootFabric, rootSession, rootSeq, seen, runs, written>>

(* service_offline_commands with nothing to send: recv_timeout elapses, or *)
(* a Wake or Stop is taken.                                                *)
OfflineIdle ==
  /\ phase = "offline"
  /\ queue # <<>> => Head(queue) \in {Wake, Stop}
  /\ phase' = "top"
  /\ queue' = IF queue = <<>> THEN queue ELSE Tail(queue)
  /\ UNCHANGED <<reply, gaveUp, paired, stopFlag, pending, inventory, enabled,
                 conn, welcomed, session, lastSession, cursor, rootVars, written>>

(* ... a command that BLE cannot or may not yet carry. *)
OfflineReject_Mutant ==
  /\ phase = "offline"
  /\ queue # <<>> /\ Head(queue) \in Commands
  /\ phase' = "top"
  /\ reply' = Tell({Head(queue)}, "unavailable")
  /\ UNCHANGED <<queue, gaveUp, paired, stopFlag, pending, inventory, enabled, conn,
                 welcomed, session, lastSession, cursor, rootVars, written>>
OfflineReject ==
  /\ phase = "offline"
  /\ queue # <<>> /\ Head(queue) \in Commands
  /\ phase' = "top"
  /\ queue' = Tail(queue)
  /\ reply' = Tell({Head(queue)}, "unavailable")
  /\ UNCHANGED <<gaveUp, paired, stopFlag, pending, inventory, enabled, conn,
                 welcomed, session, lastSession, cursor, rootVars, written>>

(* ... a command sent over BLE, after refreshing the inventory when the    *)
(* owner is unknown.  The exchange has no operation id: an error may hide  *)
(* an execution.                                                           *)
OfflineBle(fresh, executed, answered) ==
  /\ phase = "offline" /\ BleReachable
  /\ queue # <<>> /\ Head(queue) \in Commands
  /\ LET c == Head(queue) IN
       /\ inventory' = IF inventory[OwnerOf[c]] = NoMac THEN fresh ELSE inventory
       /\ IF inventory'[OwnerOf[c]] = NoMac
            THEN /\ ~executed /\ ~answered
                 /\ reply' = Tell({c}, "no_route")
                 /\ UNCHANGED runs
            ELSE /\ answered => executed
                 /\ reply' = Tell({c}, IF answered THEN "answered" ELSE "ble_error")
                 /\ runs' = [runs EXCEPT ![c] = @ + IF executed THEN 1 ELSE 0]
  /\ queue' = Tail(queue)
  /\ phase' = "top"
  /\ UNCHANGED <<gaveUp, paired, stopFlag, pending, enabled, conn, welcomed,
                 session, lastSession, cursor, linkVars, rootFabric, rootSession,
                 rootSeq, seen, written>>

-----------------------------------------------------------------------------
(* The worker on a connection: the biased select loop of run_wss.  Queued   *)
(* messages go first, then frames, then the maintenance tick; the replays a *)
(* frame calls for are written before the loop continues.                  *)

SelectReady == phase = "wss" /\ ReplayDue(pending) = {}

SelectQueue == SelectReady /\ queue # <<>>

SelectFrame(kind) ==
  SelectReady /\ queue = <<>> /\ inbox # <<>> /\ Head(inbox).kind = kind

(* run_wss returned: fail_non_resumable_commands and                       *)
(* expire_pending_commands on what it left of the pending map and replies. *)
CloseConnection(p, told) ==
  /\ phase' = "top"
  /\ pending' = Without(p, NonResumable(p) \cup Expired(p))
  /\ reply' = [c \in Commands |->
                 IF c \in NonResumable(p) THEN "interrupted"
                 ELSE IF c \in Expired(p) THEN PendingError(p[c])
                 ELSE told[c]]
  /\ welcomed' = FALSE
  /\ session' = 0
  /\ hello' = FALSE
  /\ inbox' = <<>>
  /\ rootConn' = 0

(* A CONTROL write reaches the root only over a connection it still holds. *)
PutOnWire(c, item) ==
  /\ requests' = IF rootConn = conn
                   THEN requests \cup {[cmd |-> c, conn |-> conn, sess |-> item.sess,
                                        mac |-> item.mac, op |-> item.op]}
                   ELSE requests
  /\ written' = [written EXCEPT ![c] =
                   Append(@, [conn |-> conn, sess |-> item.sess, mac |-> item.mac])]

(* A Send that is rejected: the owner has no route, or WELCOME is missing. *)
SendRejected ==
  /\ SelectQueue /\ Head(queue) \in Commands
  /\ LET unrouted == inventory[OwnerOf[Head(queue)]] = NoMac IN
       /\ unrouted \/ (enabled /\ ~welcomed)
       /\ reply' = Tell({Head(queue)}, IF unrouted THEN "no_route" ELSE "handshake")
  /\ queue' = Tail(queue)
  /\ UNCHANGED <<gaveUp, paired, stopFlag, workerVars, rootVars, written>>

(* The item a Send inserts into the pending map. *)
NewItem(c) ==
  [conn |-> conn, sess |-> session, mac |-> inventory[OwnerOf[c]], op |-> enabled,
   replay |-> FALSE, overdue |-> FALSE]

Sendable_NoRoute(c) == enabled => welcomed
Sendable(c) == inventory[OwnerOf[c]] # NoMac /\ (enabled => welcomed)

SendWritten ==
  /\ SelectQueue /\ Head(queue) \in Commands
  /\ Sendable(Head(queue))
  /\ PutOnWire(Head(queue), NewItem(Head(queue)))
  /\ pending' = With(pending, Head(queue), NewItem(Head(queue)))
  /\ queue' = Tail(queue)
  /\ UNCHANGED <<reply, gaveUp, paired, stopFlag, phase, inventory, enabled, conn,
                 welcomed, session, lastSession, cursor, hello, inbox, rootConn,
                 rootFabric, rootSession, rootSeq, seen, runs>>

(* socket.send reports an error; the frame may have left all the same. *)
SendFails(left) ==
  /\ SelectQueue /\ Head(queue) \in Commands
  /\ Sendable(Head(queue))
  /\ IF left THEN PutOnWire(Head(queue), NewItem(Head(queue)))
             ELSE UNCHANGED <<requests, written>>
  /\ CloseConnection(pending, Tell({Head(queue)}, "write_error"))
  /\ queue' = Tail(queue)
  /\ UNCHANGED <<gaveUp, paired, stopFlag, inventory, enabled, conn, lastSession,
                 cursor, rootFabric, rootSession, rootSeq, seen, runs>>

(* Wake and Stop end the connection. *)
ControlMessage ==
  /\ SelectQueue /\ Head(queue) \in {Wake, Stop}
  /\ CloseConnection(pending, reply)
  /\ queue' = Tail(queue)
  /\ UNCHANGED <<gaveUp, paired, stopFlag, inventory, enabled, conn, lastSession,
                 cursor, requests, rootFabric, rootSession, rootSeq, seen, runs,
                 written>>

(* The socket closes or fails, the heartbeat times out, or a replay write  *)
(* fails.                                                                  *)
ConnectionLost ==
  /\ phase = "wss"
  /\ queue = <<>> \/ ReplayDue(pending) # {}
  /\ CloseConnection(pending, reply)
  /\ UNCHANGED <<queue, gaveUp, paired, stopFlag, inventory, enabled, conn,
                 lastSession, cursor, requests, rootFabric, rootSession, rootSeq,
                 seen, runs, written>>

(* An inventory snapshot (v1) or a completed graph (Fabric) replaces the   *)
(* routes.                                                                 *)
InventoryArrives(routes) ==
  /\ SelectReady /\ queue = <<>>
  /\ enabled => welcomed
  /\ rootConn = conn
  /\ routes # inventory
  /\ inventory' = routes
  /\ UNCHANGED <<callerVars, phase, pending, enabled, conn, welcomed, session,
                 lastSession, cursor, rootVars, written>>

CursorAfterWelcome_Mutant(m) == IF ~m.resume THEN 0 ELSE cursor
CursorAfterWelcome(m) ==
  IF ~m.resume \/ lastSession # m.sess THEN 0 ELSE cursor

(* WELCOME: the cursors, the reconciliation of the pending map, the        *)
(* session.  The replays it calls for are the Replay steps that follow.    *)
Welcome ==
  /\ SelectFrame("welcome")
  /\ LET m == Head(inbox) IN
       /\ cursor' = CursorAfterWelcome(m)
       /\ reply' = ErrorsFor(pending, LostInReset(pending, m.sess))
       /\ pending' = Reconciled(pending, m.sess, conn)
       /\ lastSession' = m.sess
       /\ session' = m.sess
  /\ welcomed' = TRUE
  /\ inbox' = Tail(inbox)
  /\ UNCHANGED <<queue, gaveUp, paired, stopFlag, phase, inventory, enabled, conn,
                 hello, requests, rootConn, rootFabric, rootSession, rootSeq, seen,
                 runs, written>>

(* One replay write; HashMap iteration picks the command. *)
Replay(c) ==
  /\ phase = "wss" /\ c \in ReplayDue(pending)
  /\ PutOnWire(c, [pending[c] EXCEPT !.sess = session])
  /\ pending' = MarkReplayed(pending, c)
  /\ UNCHANGED <<callerVars, phase, inventory, enabled, conn, welcomed, session,
                 lastSession, cursor, hello, inbox, rootConn, rootFabric,
                 rootSession, rootSeq, seen, runs>>

(* A CONTROL result of this transport session and root session. *)
ResultValid(m) == welcomed /\ m.ts = conn /\ m.sess = session

Consumed(m) == m.seq # 0 /\ m.seq <= cursor

OperationMatches_Mutant(m) == TRUE
OperationMatches(m) == m.op = m.cmd /\ pending[m.cmd].op

RecordCursor(m) == cursor' = IF m.seq > cursor THEN m.seq ELSE cursor

(* A result already consumed, or one nobody waits for any more. *)
ResultIgnored ==
  /\ SelectFrame("result")
  /\ LET m == Head(inbox) IN
       /\ ResultValid(m)
       /\ Consumed(m) \/ m.cmd \notin DOMAIN pending
       /\ RecordCursor(m)
  /\ inbox' = Tail(inbox)
  /\ UNCHANGED <<callerVars, phase, pending, inventory, enabled, conn, welcomed,
                 session, lastSession, hello, requests, rootConn, rootFabric,
                 rootSession, rootSeq, seen, runs, written>>

ResultAnswers ==
  /\ SelectFrame("result")
  /\ LET m == Head(inbox) IN
       /\ ResultValid(m) /\ ~Consumed(m)
       /\ m.cmd \in DOMAIN pending /\ OperationMatches(m)
       /\ reply' = Tell({m.cmd}, "answered")
       /\ pending' = Without(pending, {m.cmd})
       /\ RecordCursor(m)
  /\ inbox' = Tail(inbox)
  /\ UNCHANGED <<queue, gaveUp, paired, stopFlag, phase, inventory, enabled, conn,
                 welcomed, session, lastSession, hello, requests, rootConn,
                 rootFabric, rootSession, rootSeq, seen, runs, written>>

(* A result that names another operation fails its command and, like a     *)
(* frame of another session, ends the connection.                          *)
ResultMismatch ==
  /\ SelectFrame("result")
  /\ LET m == Head(inbox) IN
       \/ /\ ~ResultValid(m)
          /\ CloseConnection(pending, reply)
       \/ /\ ResultValid(m) /\ ~Consumed(m)
          /\ m.cmd \in DOMAIN pending /\ ~OperationMatches(m)
          /\ CloseConnection(Without(pending, {m.cmd}), Tell({m.cmd}, "mismatch"))
  /\ UNCHANGED <<queue, gaveUp, paired, stopFlag, inventory, enabled, conn,
                 lastSession, cursor, requests, rootFabric, rootSession, rootSeq,
                 seen, runs, written>>

(* A v1 response resolves its command by correlation id alone. *)
Response ==
  /\ SelectFrame("response")
  /\ LET c == Head(inbox).cmd IN
       IF c \in DOMAIN pending
         THEN /\ reply' = Tell({c}, "answered")
              /\ pending' = Without(pending, {c})
         ELSE UNCHANGED <<reply, pending>>
  /\ inbox' = Tail(inbox)
  /\ UNCHANGED <<queue, gaveUp, paired, stopFlag, phase, inventory, enabled, conn,
                 welcomed, session, lastSession, cursor, hello, requests, rootConn,
                 rootFabric, rootSession, rootSeq, seen, runs, written>>

(* The 100 ms maintenance tick. *)
Maintenance ==
  /\ SelectReady /\ queue = <<>>
  /\ Expired(pending) # {}
  /\ ExpirePending
  /\ UNCHANGED <<queue, gaveUp, paired, stopFlag, phase, inventory, enabled, conn,
                 welcomed, session, lastSession, cursor, rootVars, written>>

(* COMMAND_TIMEOUT passes since the command was first written. *)
DeadlinePasses(c) ==
  /\ c \in DOMAIN pending /\ ~pending[c].overdue
  /\ pending' = [pending EXCEPT ![c].overdue = TRUE]
  /\ UNCHANGED <<callerVars, phase, inventory, enabled, conn, welcomed, session,
                 lastSession, cursor, rootVars, written>>

-----------------------------------------------------------------------------
(* The root (external) *)

rootIdle == UNCHANGED <<callerVars, workerVars, written>>

(* HELLO is answered.  Within a session the root resumes only from a cursor *)
(* its numbering has reached, otherwise it numbers anew; after a boot its   *)
(* word on resuming is not trusted.                                        *)
RootWelcomes(resume) ==
  /\ hello /\ rootConn = conn /\ rootFabric
  /\ resume /\ lastSession = rootSession => cursor <= rootSeq
  /\ hello' = FALSE
  /\ rootSeq' = IF resume THEN rootSeq ELSE 0
  /\ inbox' = Append(inbox, [kind |-> "welcome", ts |-> conn, sess |-> rootSession,
                             resume |-> resume])
  /\ UNCHANGED <<requests, rootConn, rootFabric, rootSession, seen, runs>>
  /\ rootIdle

(* A request is executed unless its operation id was, and answered over    *)
(* the connection that carried it.  A request of a connection the desktop  *)
(* has left may still be read, and its answer may turn up on the new one,  *)
(* under its own or the new transport session.                             *)
RootHandles(m, label, ts) ==
  /\ m \in requests
  /\ requests' = requests \ {m}
  /\ IF m.op /\ m.cmd \in seen
       THEN UNCHANGED <<runs, seen>>
       ELSE /\ runs' = [runs EXCEPT ![m.cmd] = @ + 1]
            /\ seen' = IF m.op THEN seen \cup {m.cmd} ELSE seen
  /\ \/ /\ ~m.op
        /\ label = m.cmd /\ ts = m.conn
        /\ inbox' = IF m.conn = rootConn
                      THEN Append(inbox, [kind |-> "response", cmd |-> m.cmd])
                      ELSE inbox
        /\ UNCHANGED rootSeq
     \/ /\ m.op /\ rootConn # 0 /\ enabled /\ ~hello
        /\ label = m.cmd \/ MislabelsResults
        /\ ts \in {m.conn, rootConn}
        /\ rootSeq' = rootSeq + 1
        /\ inbox' = Append(inbox, [kind |-> "result", ts |-> ts, sess |-> rootSession,
                                   seq |-> rootSeq + 1, cmd |-> label, op |-> m.cmd])
     \/ /\ m.op /\ m.conn # rootConn
        /\ label = m.cmd /\ ts = m.conn
        /\ UNCHANGED <<rootSeq, inbox>>
  /\ UNCHANGED <<hello, rootConn, rootFabric, rootSession>>
  /\ rootIdle

(* The link breaks before the desktop notices: what it writes now is lost. *)
LinkBreaks ==
  /\ rootConn # 0
  /\ rootConn' = 0
  /\ hello' = FALSE
  /\ UNCHANGED <<requests, inbox, rootFabric, rootSession, rootSeq, seen, runs>>
  /\ rootIdle

(* A reboot forgets the executed operations and every unread request, and  *)
(* may bring other firmware.                                               *)
RootReboots(fabric) ==
  /\ rootSession < MaxRootSessions
  /\ rootSession' = rootSession + 1
  /\ rootFabric' = fabric
  /\ rootSeq' = 0
  /\ seen' = {}
  /\ requests' = {}
  /\ hello' = FALSE
  /\ rootConn' = 0
  /\ UNCHANGED <<inbox, runs>>
  /\ rootIdle

-----------------------------------------------------------------------------
CallerNext ==
  \/ \E c \in Commands : Send(c) \/ GiveUp(c)
  \/ \E stored \in BOOLEAN : ChangePairing(stored)
  \/ StopService
  \/ StartService

OfflineNext ==
  \/ WorkerExits \/ RejectUntilWake
  \/ \E readable \in BOOLEAN : LoopTop(readable)
  \/ \E unreachable \in BOOLEAN : ProbeFails(unreachable)
  \/ ProbeSucceeds \/ ConnectFails \/ ConnectSucceeds
  \/ OfflineIdle \/ OfflineReject
  \/ \E fresh \in [Owners -> Routes], executed, answered \in BOOLEAN :
       OfflineBle(fresh, executed, answered)

SelectNext ==
  \/ SendRejected \/ SendWritten
  \/ \E left \in BOOLEAN : SendFails(left)
  \/ ControlMessage \/ ConnectionLost
  \/ \E routes \in [Owners -> Routes] : InventoryArrives(routes)
  \/ Welcome \/ \E c \in Commands : Replay(c)
  \/ ResultIgnored \/ ResultAnswers \/ ResultMismatch \/ Response
  \/ Maintenance

RootNext ==
  \/ \E resume \in BOOLEAN : RootWelcomes(resume)
  \/ \E m \in requests, label \in Commands, ts \in Connections :
       RootHandles(m, label, ts)
  \/ LinkBreaks
  \/ \E fabric \in RootVersions : RootReboots(fabric)

Next ==
  \/ CallerNext \/ OfflineNext \/ SelectNext \/ RootNext
  \/ \E c \in Commands : DeadlinePasses(c)

Spec == Init /\ [][Next]_vars

-----------------------------------------------------------------------------
(* Properties *)

Frame ==
  [kind : {"welcome"}, ts : Connections, sess : RootSessions, resume : BOOLEAN]
  \cup [kind : {"result"}, ts : Connections, sess : RootSessions, seq : Nat \ {0},
        cmd : Commands, op : Commands]
  \cup [kind : {"response"}, cmd : Commands]

Write == [conn : Connections, sess : 0..MaxRootSessions, mac : Macs]

CallerTypes ==
  /\ queue \in Seq(Commands \cup {Wake, Stop})
  /\ reply \in [Commands -> Verdicts \cup {"none"}]
  /\ gaveUp \subseteq Commands
  /\ paired \in BOOLEAN
  /\ stopFlag \in BOOLEAN

PendingType ==
  /\ DOMAIN pending \subseteq Commands
  /\ pending \in [DOMAIN pending -> PendingItem]

WorkerTypes ==
  /\ phase \in Phases
  /\ inventory \in [Owners -> Routes]
  /\ enabled \in BOOLEAN
  /\ conn \in Connections
  /\ welcomed \in BOOLEAN
  /\ session \in 0..MaxRootSessions
  /\ lastSession \in 0..MaxRootSessions
  /\ cursor \in Nat

LinkTypes ==
  /\ hello \in BOOLEAN
  /\ requests \subseteq Request
  /\ inbox \in Seq(Frame)
  /\ rootConn \in Connections

RootTypes ==
  /\ rootFabric \in BOOLEAN
  /\ rootSession \in RootSessions
  /\ rootSeq \in Nat
  /\ seen \subseteq Commands
  /\ runs \in [Commands -> Nat]

(* The types of the state: RootInner and the callers, LiveState and        *)
(* FabricSession, the frames between the desktop and the root, the root.   *)
TypeOK ==
  /\ CallerTypes /\ PendingType /\ WorkerTypes /\ LinkTypes /\ RootTypes
  /\ written \in [Commands -> Seq(Write)]

(* A mesh command is executed at most once, through reconnects, replays    *)
(* (pending_fabric_replays), root reboots and BLE: the root deduplicates   *)
(* operation ids only within one boot, so a replay must never cross it.    *)
AtMostOneEffect == \A c \in Commands : runs[c] <= 1

(* A caller told that its command was not sent (unpaired, offline, unknown *)
(* owner, handshake incomplete) can rely on it: the command was not        *)
(* executed and is not on its way to the root.                             *)
RejectedNeverRuns ==
  \A c \in Commands : reply[c] \in Rejections =>
    runs[c] = 0 /\ \A m \in requests : m.cmd # c

(* A caller given a result gets the result of its own command, whatever    *)
(* correlation the root put on it (the operation check of                  *)
(* handle_fabric_frame): the command was executed.                         *)
AnsweredRan == \A c \in Commands : reply[c] = "answered" => runs[c] >= 1

(* Every write of a command goes to the node its owner tag named when it   *)
(* was first written, in the same root session, and at most once per       *)
(* connection, even if the tag moved to another node in between.           *)
ReplaysAreFaithful ==
  \A c \in Commands : \A i, j \in 1..Len(written[c]) :
    /\ written[c][i].mac = written[c][j].mac
    /\ written[c][i].sess = written[c][j].sess
    /\ i < j => written[c][i].conn < written[c][j].conn

(* The CONTROL cursor kept across reconnects never makes the desktop drop  *)
(* the result of a command it still waits for.                             *)
NoResultSwallowed ==
  welcomed => \A i \in 1..Len(inbox) :
    LET m == inbox[i] IN
      m.kind = "result" /\ m.ts = conn /\ m.sess = session
        /\ (\A j \in 1..i : inbox[j].kind # "welcome")
      => m.seq > cursor

(* Nothing is written late: once the worker has told a caller anything     *)
(* about a command it never writes it again, and on Fabric a command is    *)
(* not written for the first time after its caller stopped waiting, since  *)
(* what an outage left in the queue is drained, and rejected, before       *)
(* WELCOME is read.                                                        *)
NoLateWrite ==
  [][\A c \in Commands : written'[c] # written[c] =>
       /\ reply[c] = "none"
       /\ written[c] = <<>> /\ enabled => c \notin gaveUp]_vars

(* The inductive invariant behind the three invariants on effects. *)

(* Nothing has happened to the command yet. *)
Untouched(c) ==
  /\ runs[c] = 0
  /\ \A m \in requests : m.cmd # c
  /\ c \notin DOMAIN pending
  /\ reply[c] = "none"

(* No command occurs twice. *)
OnceEach(q) ==
  \A i, j \in 1..Len(q) : q[i] \in Commands /\ q[i] = q[j] => i = j

(* Queued commands are untouched and queued once, unasked ones untouched. *)
QueueInv ==
  /\ \A c \in Commands : c \in Elements(queue) \/ c \notin Asked => Untouched(c)
  /\ OnceEach(queue)

(* Pending commands are unanswered and belong to a root session that is    *)
(* not in the future; replays and first writes carry the same kind.        *)
PendingInv ==
  /\ \A c \in DOMAIN pending : reply[c] = "none"
  /\ \A c \in DOMAIN pending : pending[c].op => pending[c].sess <= rootSession
  /\ \A m \in requests :
       m.cmd \in DOMAIN pending => m.op = pending[m.cmd].op

(* A live connection belongs to the root's present session. *)
SessionInv ==
  /\ rootConn # 0 => rootConn = conn
  /\ phase = "wss" => conn # 0
  /\ welcomed => session <= rootSession /\ (rootConn # 0 => session = rootSession)
  /\ \A f \in Elements(inbox) : f.kind = "welcome" =>
       f.sess <= rootSession /\ (rootConn # 0 => f.sess = rootSession)

(* A command that ran can only be executed again as an operation the root  *)
(* still remembers.                                                        *)
ReplayInv ==
  /\ \A c \in seen : runs[c] >= 1
  /\ \A m \in requests : m.op => m.sess = rootSession
  /\ \A m, n \in requests : m.cmd = n.cmd /\ ~m.op => m = n
  /\ \A c \in Commands : runs[c] >= 1 =>
       /\ \A m \in requests : m.cmd = c => m.op /\ c \in seen
       /\ c \in DOMAIN pending /\ pending[c].op /\ pending[c].sess = rootSession
            => c \in seen

(* Results and responses on their way tell of effects that happened. *)
FrameInv ==
  \A f \in Elements(inbox) :
    /\ f.kind = "result" => runs[f.op] >= 1
    /\ f.kind = "response" => runs[f.cmd] >= 1

EffectInv ==
  /\ TypeOK
  /\ QueueInv /\ PendingInv /\ SessionInv /\ ReplayInv /\ FrameInv
  /\ AtMostOneEffect /\ RejectedNeverRuns /\ AnsweredRan

(* Refinement: the worker keeps the promise of CommandPromise. *)
OutcomeOf(c) ==
  CASE reply[c] = "none" -> "none"
    [] reply[c] = "answered" -> "answered"
    [] reply[c] \in Rejections -> "rejected"
    [] OTHER -> "unknown"

Promise == INSTANCE CommandPromise
  WITH outcome <- [c \in Commands |-> OutcomeOf(c)], effects <- runs

(* The worker implements what CommandPromise promises callers. *)
KeepsPromise == Promise!Spec

-----------------------------------------------------------------------------
(* Liveness *)

(* The worker thread keeps running: its waits are bounded and time passes. *)
(* Maintenance has a fairness of its own because the biased select polls   *)
(* it last: the socket must not stay readable for ever.  Nothing is        *)
(* assumed of the root, the link or the callers.                           *)
WorkerProgress ==
  \/ OfflineNext
  \/ SendRejected \/ SendWritten \/ ControlMessage \/ Welcome
  \/ \E c \in Commands : Replay(c)
  \/ ResultIgnored \/ ResultAnswers \/ ResultMismatch \/ Response

Fairness ==
  /\ WF_vars(WorkerProgress)
  /\ WF_vars(Maintenance)
  /\ \A c \in Commands : WF_vars(DeadlinePasses(c))

FairSpec == Spec /\ Fairness

(* No command stays in the pending map for ever: a result, its deadline, a *)
(* lost session or the end of the service resolves it.                     *)
PendingResolves ==
  \A c \in Commands : c \in DOMAIN pending ~> reply[c] # "none"
=============================================================================

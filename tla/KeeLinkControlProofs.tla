------------------------ MODULE KeeLinkControlProofs ------------------------
(***************************************************************************)
(* Theorems about KeeLinkControl, for every number of commands, owners,    *)
(* nodes, connections and boots, in three parts:                           *)
(*  - the types of callers, worker, frames and root;                       *)
(*  - EffectInv is inductive, hence a command is executed at most once, a  *)
(*    rejected one never and an answered one was;                          *)
(*  - KeeLinkControl implements CommandPromise, replays repeat the first   *)
(*    write, nothing is written late, and no awaited result is dropped.    *)
(***************************************************************************)
EXTENDS KeeLinkControl, TLAPS

USE ControlAssumption DEF TypeOK, callerVars, workerVars, rootVars, linkVars

-----------------------------------------------------------------------------
(* Types of the helpers *)

(* Taking a message off a queue. *)
LEMMA TailType ==
  ASSUME NEW S, NEW q \in Seq(S), q # <<>>
  PROVE  Tail(q) \in Seq(S)
OBVIOUS

(* Removing commands keeps the pending map's type and its other items. *)
LEMMA WithoutType ==
  ASSUME NEW p, DOMAIN p \subseteq Commands, p \in [DOMAIN p -> PendingItem], NEW S
  PROVE  /\ DOMAIN Without(p, S) = DOMAIN p \ S
         /\ DOMAIN Without(p, S) \subseteq Commands
         /\ Without(p, S) \in [DOMAIN Without(p, S) -> PendingItem]
         /\ \A c \in DOMAIN p \ S : Without(p, S)[c] = p[c]
BY DEF Without, Restrict

(* Removing pending commands keeps the pending map's type. *)
LEMMA PendingWithout ==
  ASSUME PendingType, NEW S, pending' = Without(pending, S)
  PROVE  PendingType'
BY WithoutType DEF PendingType

(* Tell yields a reply function. *)
LEMMA TellType ==
  ASSUME CallerTypes, NEW S, NEW v \in Verdicts \cup {"none"}
  PROVE  Tell(S, v) \in [Commands -> Verdicts \cup {"none"}]
BY DEF Tell, CallerTypes

(* So does ErrorsFor. *)
LEMMA ErrorsType ==
  ASSUME CallerTypes, NEW p, NEW S
  PROVE  ErrorsFor(p, S) \in [Commands -> Verdicts \cup {"none"}]
BY DEF ErrorsFor, PendingError, CallerTypes, Verdicts, Rejections

(* What the end of a connection leaves has the right types. *)
LEMMA CloseTypes ==
  ASSUME NEW p, DOMAIN p \subseteq Commands, p \in [DOMAIN p -> PendingItem],
         NEW told \in [Commands -> Verdicts \cup {"none"}],
         CloseConnection(p, told)
  PROVE  /\ reply' \in [Commands -> Verdicts \cup {"none"}]
         /\ PendingType'
         /\ phase' \in Phases /\ welcomed' \in BOOLEAN
         /\ session' \in 0..MaxRootSessions
         /\ hello' \in BOOLEAN /\ inbox' \in Seq(Frame) /\ rootConn' \in Connections
<1>1. reply' \in [Commands -> Verdicts \cup {"none"}]
  <2>1. \A c : PendingError(p[c]) \in Verdicts
    BY DEF PendingError, Verdicts
  <2>2. "interrupted" \in Verdicts
    BY DEF Verdicts
  <2> QED BY <2>1, <2>2 DEF CloseConnection
<1>2. PendingType'
  <2>1. pending' = Without(p, NonResumable(p) \cup Expired(p))
    BY DEF CloseConnection
  <2>2. ASSUME NEW S
        PROVE  /\ DOMAIN Without(p, S) \subseteq Commands
               /\ Without(p, S) \in [DOMAIN Without(p, S) -> PendingItem]
    BY WithoutType
  <2> QED BY <2>1, <2>2 DEF PendingType
<1>3. phase' \in Phases /\ welcomed' \in BOOLEAN /\ hello' \in BOOLEAN
  BY DEF CloseConnection, Phases
<1>4. session' \in 0..MaxRootSessions /\ rootConn' \in Connections
  BY DEF CloseConnection, Connections
<1>5. inbox' \in Seq(Frame)
  BY DEF CloseConnection
<1> QED BY <1>1, <1>2, <1>3, <1>4, <1>5

(* A CONTROL write is a request on the wire and an entry of the history. *)
LEMMA WireTypes ==
  ASSUME TypeOK, NEW c \in Commands, NEW item \in PendingItem, PutOnWire(c, item)
  PROVE  /\ requests' \subseteq Request
         /\ written' \in [Commands -> Seq(Write)]
<1>1. [cmd |-> c, conn |-> conn, sess |-> item.sess, mac |-> item.mac,
       op |-> item.op] \in Request
  BY DEF Request, PendingItem, WorkerTypes
<1>2. [conn |-> conn, sess |-> item.sess, mac |-> item.mac] \in Write
  BY DEF Write, PendingItem, WorkerTypes
<1> QED BY <1>1, <1>2 DEF PutOnWire, LinkTypes

(* The item of a first write is well formed. *)
LEMMA NewItemType ==
  ASSUME TypeOK, NEW c \in Commands, Sendable(c)
  PROVE  NewItem(c) \in PendingItem
BY DEF NewItem, PendingItem, Sendable, WorkerTypes, Routes

-----------------------------------------------------------------------------
(* Types of the actions *)

(* The calls of RootService keep the types. *)
LEMMA CallerTypeStep == ASSUME TypeOK, CallerNext PROVE TypeOK'
<1>1. ASSUME NEW c \in Commands, Send(c) PROVE TypeOK'
  BY <1>1 DEF Send, CallerTypes, PendingType, WorkerTypes, LinkTypes, RootTypes
<1>2. ASSUME NEW c \in Commands, GiveUp(c) PROVE TypeOK'
  BY <1>2 DEF GiveUp, CallerTypes, PendingType, WorkerTypes, LinkTypes, RootTypes
<1>3. ASSUME NEW stored \in BOOLEAN, ChangePairing(stored) PROVE TypeOK'
  BY <1>3 DEF ChangePairing, CallerTypes, PendingType, WorkerTypes, LinkTypes,
     RootTypes
<1>4. CASE StopService
  BY <1>4 DEF StopService, CallerTypes, PendingType, WorkerTypes, LinkTypes, RootTypes
<1>5. CASE StartService
  <2> USE <1>5 DEF StartService
  <2>1. CallerTypes' /\ PendingType'
    BY DEF CallerTypes, PendingType
  <2>a. (phase \in Phases /\ enabled \in BOOLEAN /\ inventory \in [Owners -> Routes])'
    BY DEF Phases, Routes
  <2>2. WorkerTypes'
    BY <2>a DEF WorkerTypes
  <2>3. LinkTypes' /\ RootTypes' /\ (written \in [Commands -> Seq(Write)])'
    BY DEF LinkTypes, RootTypes
  <2> QED BY <2>1, <2>2, <2>3
<1> QED BY <1>1, <1>2, <1>3, <1>4, <1>5 DEF CallerNext

(* The worker's loop outside a connection keeps the types. *)
LEMMA OfflineTypeStep == ASSUME TypeOK, OfflineNext PROVE TypeOK'
<1>1. CASE WorkerExits
  <2> USE <1>1 DEF WorkerExits, FailAllPending
  <2>1. CallerTypes'
    BY ErrorsType DEF CallerTypes, Elements
  <2>2. PendingType'
    BY PendingWithout
  <2>3. WorkerTypes'
    BY DEF WorkerTypes, Phases
  <2>4. LinkTypes' /\ RootTypes' /\ (written \in [Commands -> Seq(Write)])'
    BY DEF LinkTypes, RootTypes
  <2> QED BY <2>1, <2>2, <2>3, <2>4
<1>2. ASSUME NEW readable \in BOOLEAN, LoopTop(readable) PROVE TypeOK'
  <2> USE <1>2 DEF LoopTop, ExpirePending
  <2>1. CallerTypes'
    BY ErrorsType DEF CallerTypes
  <2>2. PendingType'
    BY PendingWithout
  <2>3. WorkerTypes'
    BY DEF WorkerTypes, Phases
  <2>4. LinkTypes' /\ RootTypes' /\ (written \in [Commands -> Seq(Write)])'
    BY DEF LinkTypes, RootTypes
  <2> QED BY <2>1, <2>2, <2>3, <2>4
<1>3. CASE RejectUntilWake
  <2> USE <1>3 DEF RejectUntilWake
  <2>1. "unpaired" \in Verdicts
    BY DEF Verdicts, Rejections
  <2>2. CallerTypes'
    <3>1. reply' \in [Commands -> Verdicts \cup {"none"}]
      BY <2>1, TellType DEF CallerTypes
    <3>2. queue' \in Seq(Commands \cup {Wake, Stop})
      <4>1. queue \in Seq(Commands \cup {Wake, Stop})
        BY DEF CallerTypes
      <4>2. queue' = queue \/ (queue # <<>> /\ queue' = Tail(queue))
        OBVIOUS
      <4>3. queue # <<>> => Tail(queue) \in Seq(Commands \cup {Wake, Stop})
        BY <4>1, TailType
      <4> QED BY <4>1, <4>2, <4>3
    <3>3. stopFlag' \in BOOLEAN
      BY Zenon DEF CallerTypes
    <3> QED BY <3>1, <3>2, <3>3 DEF CallerTypes
  <2>3. PendingType' /\ WorkerTypes'
    BY DEF PendingType, WorkerTypes, Phases
  <2>4. LinkTypes' /\ RootTypes' /\ (written \in [Commands -> Seq(Write)])'
    BY DEF LinkTypes, RootTypes
  <2> QED BY <2>2, <2>3, <2>4
<1>4. ASSUME NEW unreachable \in BOOLEAN, ProbeFails(unreachable) PROVE TypeOK'
  BY <1>4 DEF ProbeFails, CallerTypes, PendingType, WorkerTypes, Phases, LinkTypes,
     RootTypes
<1>5. CASE ProbeSucceeds
  <2> USE <1>5 DEF ProbeSucceeds, FailAllPending
  <2>1. CallerTypes'
    BY ErrorsType DEF CallerTypes
  <2>2. PendingType'
    <3>1. CASE rootFabric
      BY <3>1 DEF PendingType
    <3>2. CASE ~rootFabric
      <4>1. pending' = Without(pending, DOMAIN pending)
        BY <3>2
      <4> QED BY <4>1, PendingWithout
    <3> QED BY <3>1, <3>2
  <2>3. WorkerTypes'
    BY DEF WorkerTypes, RootTypes, Phases
  <2>4. LinkTypes' /\ RootTypes' /\ (written \in [Commands -> Seq(Write)])'
    BY DEF LinkTypes, RootTypes
  <2> QED BY <2>1, <2>2, <2>3, <2>4
<1>6. CASE ConnectFails
  BY <1>6 DEF ConnectFails, CallerTypes, PendingType, WorkerTypes, Phases, LinkTypes,
     RootTypes
<1>7. CASE ConnectSucceeds
  <2> USE <1>7 DEF ConnectSucceeds
  <2>1. CallerTypes' /\ PendingType'
    BY DEF CallerTypes, PendingType
  <2>b. conn' \in Connections
    BY DEF WorkerTypes, Connections
  <2>a. conn' \in Connections /\ phase' \in Phases /\ welcomed' \in BOOLEAN
    BY <2>b DEF Phases
  <2>2. WorkerTypes'
    BY <2>a DEF WorkerTypes
  <2>3. LinkTypes' /\ RootTypes' /\ (written \in [Commands -> Seq(Write)])'
    <3>1. hello' \in BOOLEAN /\ rootConn' = conn'
      BY DEF WorkerTypes
    <3> QED BY <2>a, <3>1 DEF LinkTypes, RootTypes
  <2> QED BY <2>1, <2>2, <2>3
<1>8. CASE OfflineIdle
  BY <1>8 DEF OfflineIdle, CallerTypes, PendingType, WorkerTypes, Phases, LinkTypes,
     RootTypes
<1>9. CASE OfflineReject
  <2> USE <1>9 DEF OfflineReject
  <2>1. "unavailable" \in Verdicts
    BY DEF Verdicts, Rejections
  <2>2. CallerTypes'
    BY <2>1, TellType DEF CallerTypes
  <2>3. PendingType' /\ WorkerTypes'
    BY DEF PendingType, WorkerTypes, Phases
  <2>4. LinkTypes' /\ RootTypes' /\ (written \in [Commands -> Seq(Write)])'
    BY DEF LinkTypes, RootTypes
  <2> QED BY <2>2, <2>3, <2>4
<1>10. ASSUME NEW fresh \in [Owners -> Routes], NEW executed \in BOOLEAN,
              NEW answered \in BOOLEAN, OfflineBle(fresh, executed, answered)
       PROVE  TypeOK'
  <2> USE <1>10 DEF OfflineBle
  <2>1. {"no_route", "answered", "ble_error"} \subseteq Verdicts
    BY DEF Verdicts, Rejections
  <2>2. CallerTypes'
    BY <2>1, TellType DEF CallerTypes
  <2>3. PendingType' /\ LinkTypes' /\ (written \in [Commands -> Seq(Write)])'
    BY DEF PendingType, LinkTypes
  <2>4. WorkerTypes'
    BY DEF WorkerTypes, Phases
  <2>5. RootTypes'
    <3>1. runs' \in [Commands -> Nat]
      <4>1. CASE inventory'[OwnerOf[Head(queue)]] = NoMac
        BY <4>1 DEF RootTypes
      <4>2. CASE inventory'[OwnerOf[Head(queue)]] # NoMac
        <5>1. ASSUME NEW n \in Nat PROVE n + (IF executed THEN 1 ELSE 0) \in Nat
          OBVIOUS
        <5>2. runs' = [runs EXCEPT ![Head(queue)] = @ + (IF executed THEN 1 ELSE 0)]
          BY <4>2
        <5> QED BY <5>1, <5>2 DEF RootTypes
      <4> QED BY <4>1, <4>2
    <3> QED BY <3>1 DEF RootTypes
  <2> QED BY <2>2, <2>3, <2>4, <2>5
<1> QED BY <1>1, <1>2, <1>3, <1>4, <1>5, <1>6, <1>7, <1>8, <1>9, <1>10
     DEF OfflineNext

(* The steps of the select loop keep the types. *)
LEMMA SelectTypeStep == ASSUME TypeOK, SelectNext PROVE TypeOK'
<1> USE DEF SelectQueue, SelectFrame, SelectReady
<1>a. {"no_route", "handshake", "write_error", "answered", "mismatch", "none"}
        \subseteq Verdicts \cup {"none"}
  BY DEF Verdicts, Rejections
<1>b. ASSUME NEW p, DOMAIN p \subseteq Commands, p \in [DOMAIN p -> PendingItem],
             NEW told \in [Commands -> Verdicts \cup {"none"}],
             CloseConnection(p, told),
             queue' \in Seq(Commands \cup {Wake, Stop}), requests' \subseteq Request,
             written' \in [Commands -> Seq(Write)],
             UNCHANGED <<gaveUp, paired, stopFlag, inventory, enabled, conn,
                         lastSession, cursor, rootFabric, rootSession, rootSeq,
                         seen, runs>>
      PROVE  TypeOK'
  <2>1. CallerTypes' /\ PendingType'
    BY <1>b, CloseTypes DEF CallerTypes
  <2>2. WorkerTypes'
    BY <1>b, CloseTypes DEF WorkerTypes
  <2>3. LinkTypes' /\ RootTypes'
    BY <1>b, CloseTypes DEF LinkTypes, RootTypes
  <2> QED BY <1>b, <2>1, <2>2, <2>3
<1>d. DOMAIN pending \subseteq Commands /\ pending \in [DOMAIN pending -> PendingItem]
  BY DEF PendingType
<1>e. ASSUME NEW S
      PROVE  /\ DOMAIN Without(pending, S) \subseteq Commands
             /\ Without(pending, S) \in [DOMAIN Without(pending, S) -> PendingItem]
  BY <1>d, WithoutType
<1>1. CASE SendRejected
  <2> USE <1>1 DEF SendRejected
  <2>1. CallerTypes'
    BY <1>a, TellType DEF CallerTypes
  <2>2. PendingType' /\ WorkerTypes'
    BY DEF PendingType, WorkerTypes
  <2>3. LinkTypes' /\ RootTypes' /\ (written \in [Commands -> Seq(Write)])'
    BY DEF LinkTypes, RootTypes
  <2> QED BY <2>1, <2>2, <2>3
<1>2. CASE SendWritten
  <2> USE <1>2 DEF SendWritten
  <2> DEFINE c == Head(queue)
  <2>1. NewItem(c) \in PendingItem
    BY NewItemType
  <2>2. requests' \subseteq Request /\ written' \in [Commands -> Seq(Write)]
    BY <2>1, WireTypes
  <2>3. CallerTypes' /\ WorkerTypes'
    BY DEF CallerTypes, WorkerTypes
  <2>4. PendingType'
    BY <2>1 DEF PendingType, With
  <2>5. LinkTypes' /\ RootTypes'
    BY <2>2 DEF LinkTypes, RootTypes
  <2> QED BY <2>2, <2>3, <2>4, <2>5
<1>3. ASSUME NEW left \in BOOLEAN, SendFails(left) PROVE TypeOK'
  <2> USE <1>3 DEF SendFails
  <2> DEFINE c == Head(queue)
  <2>1. NewItem(c) \in PendingItem
    BY NewItemType
  <2>2. requests' \subseteq Request /\ written' \in [Commands -> Seq(Write)]
    BY <2>1, WireTypes DEF LinkTypes
  <2>3. queue' \in Seq(Commands \cup {Wake, Stop})
    BY DEF CallerTypes
  <2>4. Tell({c}, "write_error") \in [Commands -> Verdicts \cup {"none"}]
    BY <1>a, TellType
  <2> QED BY <2>2, <2>3, <2>4, <1>b DEF PendingType
<1>4. CASE ControlMessage
  <2> USE <1>4 DEF ControlMessage
  <2>1. queue' \in Seq(Commands \cup {Wake, Stop})
    BY DEF CallerTypes
  <2> QED BY <2>1, <1>b DEF PendingType, CallerTypes, LinkTypes
<1>5. CASE ConnectionLost
  BY <1>5, <1>b DEF ConnectionLost, PendingType, CallerTypes, LinkTypes
<1>6. ASSUME NEW routes \in [Owners -> Routes], InventoryArrives(routes) PROVE TypeOK'
  <2> USE <1>6 DEF InventoryArrives
  <2>1. CallerTypes' /\ PendingType' /\ WorkerTypes'
    BY DEF CallerTypes, PendingType, WorkerTypes
  <2>2. LinkTypes' /\ RootTypes' /\ (written \in [Commands -> Seq(Write)])'
    BY DEF LinkTypes, RootTypes
  <2> QED BY <2>1, <2>2
<1>7. CASE Welcome
  <2> USE <1>7 DEF Welcome
  <2> DEFINE m == Head(inbox)
  <2>1. m \in Frame /\ m.kind = "welcome"
    BY DEF LinkTypes
  <2>2. m.sess \in RootSessions
    BY <2>1 DEF Frame
  <2>3. inbox' \in Seq(Frame)
    BY DEF LinkTypes
  <2>4. CallerTypes'
    BY ErrorsType DEF CallerTypes
  <2>5. PendingType'
    <3> DEFINE kept == Without(pending, LostInReset(pending, m.sess))
    <3>1. kept \in [DOMAIN kept -> PendingItem] /\ DOMAIN kept \subseteq Commands
      BY <1>e
    <3>2. ASSUME NEW item \in PendingItem
          PROVE  [item EXCEPT !.replay = TRUE] \in PendingItem
      BY DEF PendingItem
    <3>3. pending' = [c \in DOMAIN kept |->
                        IF c \in Resumable(kept, m.sess, conn)
                          THEN [kept[c] EXCEPT !.replay = TRUE] ELSE kept[c]]
      BY DEF Reconciled
    <3>4. DOMAIN pending' = DOMAIN kept
      BY <3>3
    <3>5. ASSUME NEW c \in DOMAIN kept PROVE pending'[c] \in PendingItem
      BY <3>1, <3>2, <3>3
    <3> QED BY <3>1, <3>3, <3>4, <3>5 DEF PendingType
  <2>6. WorkerTypes'
    <3>1. (cursor \in Nat)'
      BY DEF CursorAfterWelcome, WorkerTypes
    <3>2. (session \in 0..MaxRootSessions /\ lastSession \in 0..MaxRootSessions)'
      BY <2>2 DEF RootSessions
    <3> QED BY <3>1, <3>2 DEF WorkerTypes
  <2>7. LinkTypes' /\ RootTypes' /\ (written \in [Commands -> Seq(Write)])'
    BY <2>3 DEF LinkTypes, RootTypes
  <2> QED BY <2>4, <2>5, <2>6, <2>7
<1>8. ASSUME NEW c \in Commands, Replay(c) PROVE TypeOK'
  <2> USE <1>8 DEF Replay
  <2> DEFINE item == [pending[c] EXCEPT !.sess = session]
  <2>1. c \in DOMAIN pending /\ pending[c] \in PendingItem
    BY DEF ReplayDue, PendingType
  <2>2. item \in PendingItem
    BY <2>1 DEF PendingItem, WorkerTypes
  <2>3. requests' \subseteq Request /\ written' \in [Commands -> Seq(Write)]
    BY <2>2, WireTypes
  <2>4. PendingType'
    <3>1. [pending[c] EXCEPT !.conn = conn, !.replay = FALSE] \in PendingItem
      BY <2>1 DEF PendingItem, WorkerTypes
    <3>2. pending' = [pending EXCEPT ![c] =
                        [pending[c] EXCEPT !.conn = conn, !.replay = FALSE]]
      BY <2>1 DEF MarkReplayed, PendingType
    <3> QED BY <2>1, <3>1, <3>2 DEF PendingType
  <2>5. CallerTypes' /\ WorkerTypes'
    BY DEF CallerTypes, WorkerTypes
  <2>6. LinkTypes' /\ RootTypes'
    BY <2>3 DEF LinkTypes, RootTypes
  <2> QED BY <2>3, <2>4, <2>5, <2>6
<1>c. ASSUME inbox # <<>>, Head(inbox).kind = "result"
      PROVE  /\ Head(inbox).seq \in Nat
             /\ inbox' = Tail(inbox) => inbox' \in Seq(Frame)
             /\ RecordCursor(Head(inbox)) => cursor' \in Nat
  <2>1. Head(inbox) \in Frame
    BY <1>c DEF LinkTypes
  <2>2. Head(inbox).seq \in Nat
    BY <1>c, <2>1 DEF Frame
  <2>3. inbox' = Tail(inbox) => inbox' \in Seq(Frame)
    BY <1>c DEF LinkTypes
  <2> QED BY <2>2, <2>3 DEF RecordCursor, WorkerTypes
<1>9. CASE ResultIgnored
  <2> USE <1>9 DEF ResultIgnored
  <2>1. CallerTypes' /\ PendingType'
    BY DEF CallerTypes, PendingType
  <2>2. WorkerTypes'
    BY <1>c DEF WorkerTypes
  <2>3. LinkTypes' /\ RootTypes' /\ (written \in [Commands -> Seq(Write)])'
    BY <1>c DEF LinkTypes, RootTypes
  <2> QED BY <2>1, <2>2, <2>3
<1>10. CASE ResultAnswers
  <2> USE <1>10 DEF ResultAnswers
  <2>1. CallerTypes'
    BY <1>a, TellType DEF CallerTypes
  <2>2. PendingType'
    BY PendingWithout
  <2>3. WorkerTypes'
    BY <1>c DEF WorkerTypes
  <2>4. LinkTypes' /\ RootTypes' /\ (written \in [Commands -> Seq(Write)])'
    BY <1>c DEF LinkTypes, RootTypes
  <2> QED BY <2>1, <2>2, <2>3, <2>4
<1>11. CASE ResultMismatch
  <2> USE <1>11 DEF ResultMismatch
  <2> DEFINE m == Head(inbox)
  <2>1. CASE CloseConnection(pending, reply)
    BY <2>1, <1>b DEF PendingType, CallerTypes, LinkTypes
  <2>2. CASE CloseConnection(Without(pending, {m.cmd}), Tell({m.cmd}, "mismatch"))
    <3>1. Tell({m.cmd}, "mismatch") \in [Commands -> Verdicts \cup {"none"}]
      BY <1>a, TellType
    <3> QED BY <2>2, <3>1, <1>e, <1>b DEF CallerTypes, LinkTypes
  <2> QED BY <2>1, <2>2
<1>12. CASE Response
  <2> USE <1>12 DEF Response
  <2>1. CallerTypes'
    BY <1>a, TellType DEF CallerTypes
  <2>2. PendingType'
    <3>1. pending' = pending \/ pending' = Without(pending, {Head(inbox).cmd})
      OBVIOUS
    <3> QED BY <3>1, <1>d, <1>e DEF PendingType
  <2>3. WorkerTypes'
    BY DEF WorkerTypes
  <2>4. LinkTypes' /\ RootTypes' /\ (written \in [Commands -> Seq(Write)])'
    BY DEF LinkTypes, RootTypes
  <2> QED BY <2>1, <2>2, <2>3, <2>4
<1>13. CASE Maintenance
  <2> USE <1>13 DEF Maintenance, ExpirePending
  <2>1. CallerTypes'
    BY ErrorsType DEF CallerTypes
  <2>2. PendingType'
    BY <1>d, <1>e DEF PendingType
  <2>3. WorkerTypes'
    BY DEF WorkerTypes
  <2>4. LinkTypes' /\ RootTypes' /\ (written \in [Commands -> Seq(Write)])'
    BY DEF LinkTypes, RootTypes
  <2> QED BY <2>1, <2>2, <2>3, <2>4
<1> QED BY <1>1, <1>2, <1>3, <1>4, <1>5, <1>6, <1>7, <1>8, <1>9, <1>10, <1>11,
          <1>12, <1>13 DEF SelectNext

(* The deadline of a pending command passes. *)
LEMMA DeadlineTypeStep ==
  ASSUME TypeOK, NEW c \in Commands, DeadlinePasses(c) PROVE TypeOK'
<1> USE DEF DeadlinePasses
<1>0. c \in DOMAIN pending /\ pending[c] \in PendingItem
  BY DEF PendingType
<1>1. c \in DOMAIN pending /\ [pending[c] EXCEPT !.overdue = TRUE] \in PendingItem
  BY <1>0 DEF PendingItem
<1>2. PendingType'
  BY <1>1 DEF PendingType
<1>3. CallerTypes' /\ WorkerTypes'
  BY DEF CallerTypes, WorkerTypes
<1>4. LinkTypes' /\ RootTypes' /\ (written \in [Commands -> Seq(Write)])'
  BY DEF LinkTypes, RootTypes
<1> QED BY <1>2, <1>3, <1>4

(* What the root and the link do keeps the types. *)
LEMMA RootTypeStep == ASSUME TypeOK, RootNext PROVE TypeOK'
<1> USE DEF rootIdle
<1>a. rootIdle => CallerTypes' /\ PendingType' /\ WorkerTypes'
                  /\ (written \in [Commands -> Seq(Write)])'
  BY DEF CallerTypes, PendingType, WorkerTypes
<1>b. ASSUME NEW f \in Frame PROVE Append(inbox, f) \in Seq(Frame)
  BY DEF LinkTypes
<1>c. 0 \in Connections
  BY DEF Connections
<1>1. ASSUME NEW resume \in BOOLEAN, RootWelcomes(resume) PROVE TypeOK'
  <2> USE <1>1 DEF RootWelcomes
  <2> DEFINE m == [kind |-> "welcome", ts |-> conn, sess |-> rootSession,
                   resume |-> resume]
  <2>1. m \in Frame
    BY DEF Frame, WorkerTypes, RootTypes
  <2>2. inbox' \in Seq(Frame) /\ hello' \in BOOLEAN
    <3>1. inbox' = Append(inbox, m)
      OBVIOUS
    <3>2. hello' = FALSE
      OBVIOUS
    <3> QED BY <1>b, <2>1, <3>1, <3>2
  <2>3. LinkTypes'
    BY <2>2 DEF LinkTypes
  <2>4. RootTypes'
    BY DEF RootTypes
  <2> QED BY <1>a, <2>3, <2>4
<1>2. ASSUME NEW m \in requests, NEW label \in Commands, NEW ts \in Connections,
             RootHandles(m, label, ts)
      PROVE  TypeOK'
  <2> USE <1>2 DEF RootHandles
  <2>1. m \in Request /\ m.cmd \in Commands
    BY DEF LinkTypes, Request
  <2>2. (runs \in [Commands -> Nat] /\ seen \subseteq Commands)'
    <3>1. CASE m.op /\ m.cmd \in seen
      BY <3>1 DEF RootTypes
    <3>2. CASE ~(m.op /\ m.cmd \in seen)
      <4>1. runs' = [runs EXCEPT ![m.cmd] = @ + 1]
        BY <3>2
      <4>2. seen' = seen \/ seen' = seen \cup {m.cmd}
        BY <3>2
      <4> QED BY <2>1, <4>1, <4>2 DEF RootTypes
    <3> QED BY <3>1, <3>2
  <2> DEFINE response == [kind |-> "response", cmd |-> m.cmd]
             result == [kind |-> "result", ts |-> ts, sess |-> rootSession,
                        seq |-> rootSeq + 1, cmd |-> label, op |-> m.cmd]
  <2>3. response \in Frame /\ result \in Frame
    <3>1. rootSeq + 1 \in Nat \ {0}
      BY DEF RootTypes
    <3> QED BY <2>1, <3>1 DEF Frame, RootTypes
  <2>4. \/ inbox' = inbox
        \/ inbox' = Append(inbox, response)
        \/ inbox' = Append(inbox, result)
    OBVIOUS
  <2>5. inbox' \in Seq(Frame)
    BY <1>b, <2>3, <2>4 DEF LinkTypes
  <2>6. rootSeq' \in Nat
    BY DEF RootTypes
  <2>7. LinkTypes'
    BY <2>5 DEF LinkTypes
  <2>8. RootTypes'
    BY <2>2, <2>6 DEF RootTypes
  <2> QED BY <1>a, <2>7, <2>8
<1>3. CASE LinkBreaks
  <2> USE <1>3 DEF LinkBreaks
  <2>1. LinkTypes'
    BY <1>c DEF LinkTypes
  <2>2. RootTypes'
    BY DEF RootTypes
  <2> QED BY <1>a, <2>1, <2>2
<1>4. ASSUME NEW fabric \in RootVersions, RootReboots(fabric) PROVE TypeOK'
  <2> USE <1>4 DEF RootReboots
  <2>1. LinkTypes'
    BY <1>c DEF LinkTypes
  <2>2. rootFabric' \in BOOLEAN
    OBVIOUS
  <2>3. rootSession' \in RootSessions
    BY DEF RootTypes, RootSessions
  <2>4. RootTypes'
    BY <2>2, <2>3 DEF RootTypes
  <2> QED BY <1>a, <2>1, <2>4
<1> QED BY <1>1, <1>2, <1>3, <1>4 DEF RootNext

(* Every step keeps the types. *)
LEMMA TypeStep == ASSUME TypeOK, [Next]_vars PROVE TypeOK'
<1>1. CASE Next
  BY <1>1, CallerTypeStep, OfflineTypeStep, SelectTypeStep, RootTypeStep,
     DeadlineTypeStep DEF Next
<1>2. CASE UNCHANGED vars
  BY <1>2 DEF vars, CallerTypes, PendingType, WorkerTypes, LinkTypes, RootTypes
<1> QED BY <1>1, <1>2

(* The state of a service that was just started is well typed. *)
LEMMA InitTypes == Init => TypeOK
<1> SUFFICES ASSUME Init PROVE TypeOK
  OBVIOUS
<1> USE DEF Init
<1>1. CallerTypes
  <2>1. reply \in [Commands -> Verdicts \cup {"none"}] /\ gaveUp \subseteq Commands
    OBVIOUS
  <2>2. queue \in Seq(Commands \cup {Wake, Stop})
    OBVIOUS
  <2>3. paired \in BOOLEAN /\ stopFlag \in BOOLEAN
    OBVIOUS
  <2> QED BY <2>1, <2>2, <2>3 DEF CallerTypes
<1>2. PendingType
  BY DEF PendingType
<1>3. WorkerTypes
  <2>1. phase \in Phases /\ inventory \in [Owners -> Routes]
    BY DEF Phases, Routes
  <2>2. enabled \in BOOLEAN /\ welcomed \in BOOLEAN
    OBVIOUS
  <2>3. conn \in Connections /\ session \in 0..MaxRootSessions
          /\ lastSession \in 0..MaxRootSessions /\ cursor \in Nat
    BY DEF Connections
  <2> QED BY <2>1, <2>2, <2>3 DEF WorkerTypes
<1>4. LinkTypes
  <2>1. requests \subseteq Request
    OBVIOUS
  <2>2. inbox \in Seq(Frame)
    OBVIOUS
  <2>3. hello \in BOOLEAN
    OBVIOUS
  <2>4. rootConn \in Connections
    BY DEF Connections
  <2> QED BY <2>1, <2>2, <2>3, <2>4 DEF LinkTypes
<1>5. RootTypes
  BY DEF RootTypes, RootSessions
<1>6. written \in [Commands -> Seq(Write)]
  OBVIOUS
<1> QED BY <1>1, <1>2, <1>3, <1>4, <1>5, <1>6

(* The types of the callers, the worker, the frames and the root hold in   *)
(* every reachable state (RootInner, LiveState, FabricSession).            *)
THEOREM TypeCorrect == Spec => []TypeOK
<1>1. Init => TypeOK
  BY InitTypes
<1>2. TypeOK /\ [Next]_vars => TypeOK'
  BY TypeStep
<1> QED BY <1>1, <1>2, PTL DEF Spec

(***************************************************************************)
(* Effects                                                                 *)
(***************************************************************************)
-----------------------------------------------------------------------------
(* Sequences *)

(* What taking the head of a queue leaves in it. *)
LEMMA TailElements ==
  ASSUME NEW S, NEW q \in Seq(S), q # <<>>
  PROVE  /\ Elements(Tail(q)) \subseteq Elements(q)
         /\ Head(q) \in Elements(q)
         /\ Elements(q) \subseteq Elements(Tail(q)) \cup {Head(q)}
<1>1. Len(q) \in Nat /\ Len(q) >= 1 /\ Head(q) = q[1]
  OBVIOUS
<1>2. Len(Tail(q)) = Len(q) - 1 /\ \A i \in 1..Len(Tail(q)) : Tail(q)[i] = q[i + 1]
  OBVIOUS
<1>3. Head(q) \in Elements(q)
  BY <1>1 DEF Elements
<1>4. ASSUME NEW i \in 1..Len(Tail(q)) PROVE Tail(q)[i] \in Elements(q)
  <2>1. i + 1 \in 1..Len(q)
    BY <1>1, <1>2
  <2> QED BY <2>1, <1>2 DEF Elements
<1>5. ASSUME NEW i \in 1..Len(q), i # 1 PROVE q[i] \in Elements(Tail(q))
  <2>1. i - 1 \in 1..Len(Tail(q)) /\ Tail(q)[i - 1] = q[i]
    BY <1>1, <1>2, <1>5
  <2> QED BY <2>1 DEF Elements
<1> QED BY <1>1, <1>3, <1>4, <1>5 DEF Elements

(* What queueing adds. *)
LEMMA AppendElements ==
  ASSUME NEW S, NEW q \in Seq(S), NEW x \in S
  PROVE  Elements(Append(q, x)) = Elements(q) \cup {x}
<1>1. Len(q) \in Nat /\ Len(Append(q, x)) = Len(q) + 1
  OBVIOUS
<1>2. \A i \in 1..Len(q) : Append(q, x)[i] = q[i]
  OBVIOUS
<1>3. Append(q, x)[Len(q) + 1] = x
  OBVIOUS
<1>4. 1..(Len(q) + 1) = 1..Len(q) \cup {Len(q) + 1}
  BY <1>1
<1> QED BY <1>1, <1>2, <1>3, <1>4 DEF Elements

(* An empty queue holds nothing. *)
LEMMA EmptyElements == Elements(<<>>) = {} /\ OnceEach(<<>>)
BY DEF Elements, OnceEach

(* A command taken off the queue is not queued again behind itself. *)
LEMMA OnceTail ==
  ASSUME NEW S, NEW q \in Seq(S), q # <<>>, OnceEach(q)
  PROVE  /\ OnceEach(Tail(q))
         /\ Head(q) \in Commands => Head(q) \notin Elements(Tail(q))
<1>1. Len(q) \in Nat /\ Len(q) >= 1 /\ Head(q) = q[1]
  OBVIOUS
<1>2. Len(Tail(q)) = Len(q) - 1 /\ \A i \in 1..Len(Tail(q)) : Tail(q)[i] = q[i + 1]
  OBVIOUS
<1>3. \A i \in 1..Len(Tail(q)) : i + 1 \in 1..Len(q)
  BY <1>1, <1>2
<1>4. OnceEach(Tail(q))
  <2> SUFFICES ASSUME NEW i \in 1..Len(Tail(q)), NEW j \in 1..Len(Tail(q)),
                      Tail(q)[i] \in Commands, Tail(q)[i] = Tail(q)[j]
               PROVE  i = j
    BY DEF OnceEach
  <2>1. i + 1 = j + 1
    BY <1>2, <1>3 DEF OnceEach
  <2> QED BY <2>1, <1>1, <1>2
<1>5. ASSUME Head(q) \in Commands, NEW i \in 1..Len(Tail(q)) PROVE Tail(q)[i] # Head(q)
  <2>1. SUFFICES ASSUME q[i + 1] = q[1] PROVE FALSE
    BY <1>1, <1>2
  <2>2. i + 1 = 1
    BY <1>1, <1>3, <1>5, <2>1 DEF OnceEach
  <2> QED BY <2>2, <1>1, <1>2
<1> QED BY <1>4, <1>5 DEF Elements

(* Queueing what is not a queued command keeps commands unique. *)
LEMMA OnceAppend ==
  ASSUME NEW S, NEW q \in Seq(S), NEW x \in S, OnceEach(q),
         x \in Commands => x \notin Elements(q)
  PROVE  OnceEach(Append(q, x))
<1> SUFFICES ASSUME NEW i \in 1..Len(Append(q, x)), NEW j \in 1..Len(Append(q, x)),
                    Append(q, x)[i] \in Commands, Append(q, x)[i] = Append(q, x)[j]
             PROVE  i = j
  BY DEF OnceEach
<1>1. Len(q) \in Nat /\ Len(Append(q, x)) = Len(q) + 1
  OBVIOUS
<1>2. \A k \in 1..Len(q) : Append(q, x)[k] = q[k] /\ q[k] \in Elements(q)
  BY DEF Elements
<1>3. Append(q, x)[Len(q) + 1] = x
  OBVIOUS
<1>4. CASE i \in 1..Len(q) /\ j \in 1..Len(q)
  BY <1>2, <1>4 DEF OnceEach
<1>5. CASE i = Len(q) + 1 /\ j \in 1..Len(q)
  BY <1>2, <1>3, <1>5
<1>6. CASE i \in 1..Len(q) /\ j = Len(q) + 1
  BY <1>2, <1>3, <1>6
<1> QED BY <1>1, <1>4, <1>5, <1>6

-----------------------------------------------------------------------------
(* Steps that only resolve commands *)

CommandInv ==
  QueueInv /\ PendingInv /\ ReplayInv /\ AtMostOneEffect /\ RejectedNeverRuns
  /\ AnsweredRan

(* Nothing reaches the root; commands leave the queue and the pending map,  *)
(* the remaining ones keep their kind and session, and a caller is told     *)
(* something true about a command that is in neither afterwards.           *)
Resolving ==
  /\ UNCHANGED <<runs, requests, seen, rootSession>>
  /\ DOMAIN pending' \subseteq DOMAIN pending
  /\ \A c \in DOMAIN pending' :
       pending'[c].op = pending[c].op /\ pending'[c].sess = pending[c].sess
  /\ Elements(queue') \subseteq Elements(queue)
  /\ OnceEach(queue) => OnceEach(queue')
  /\ Asked \subseteq Asked'
  /\ \A c \in Commands : reply'[c] # reply[c] =>
       /\ reply'[c] # "none" 
       /\ c \notin DOMAIN pending' /\ c \notin Elements(queue')
       /\ reply'[c] \in Rejections => Untouched(c)
       /\ reply'[c] = "answered" => runs[c] >= 1

(* Such a step preserves the invariant on commands. *)
LEMMA ResolveStep ==
  ASSUME TypeOK, CommandInv, Resolving
  PROVE  CommandInv'
<1> USE DEF CommandInv, Resolving
<1>1. ASSUME NEW c \in Commands, c \in Elements(queue') \/ c \notin Asked'
      PROVE  Untouched(c)'
  <2>1. c \in Elements(queue) \/ c \notin Asked
    BY <1>1
  <2>2. Untouched(c)
    BY <2>1 DEF QueueInv
  <2>3. reply'[c] = "none"
    <3>1. reply[c] = "none"
      BY <2>2 DEF Untouched
    <3>2. reply'[c] # "none" => c \in Asked'
      BY DEF Asked
    <3> QED BY <1>1, <3>1, <3>2
  <2> QED BY <2>2, <2>3 DEF Untouched
<1>2. QueueInv'
  BY <1>1 DEF QueueInv
<1>3. PendingInv'
  <2>1. \A c \in DOMAIN pending' : reply'[c] = "none"
    BY DEF PendingInv, PendingType
  <2> QED BY <2>1 DEF PendingInv
<1>4. ReplayInv'
  BY DEF ReplayInv
<1>5. AtMostOneEffect'
  BY DEF AtMostOneEffect
<1>6. RejectedNeverRuns'
  BY DEF RejectedNeverRuns, Untouched
<1>7. AnsweredRan'
  BY DEF AnsweredRan
<1> QED BY <1>2, <1>3, <1>4, <1>5, <1>6, <1>7

(* The queue is left alone, or its head is taken. *)
TakesHead == queue # <<>> /\ queue' = Tail(queue)

(* The common form of such steps: the pending commands in S are dropped and *)
(* told, and so is the head of the queue when it is taken.                 *)
LEMMA Resolve ==
  ASSUME TypeOK, CommandInv, NEW S,
         UNCHANGED <<runs, requests, seen, rootSession>>, gaveUp' = gaveUp,
         DOMAIN pending' = DOMAIN pending \ S,
         \A c \in DOMAIN pending' :
           pending'[c].op = pending[c].op /\ pending'[c].sess = pending[c].sess,
         queue' = queue \/ TakesHead,
         TakesHead /\ Head(queue) \in Commands => reply'[Head(queue)] # "none",
         \A c \in Commands : c \in S /\ c \in DOMAIN pending => reply'[c] # "none",
         \A c \in Commands : reply'[c] # reply[c] =>
           \/ /\ c \in S /\ c \in DOMAIN pending /\ reply'[c] \notin Rejections
              /\ reply'[c] = "answered" => runs[c] >= 1
           \/ TakesHead /\ c = Head(queue) /\ reply'[c] # "answered"
  PROVE  CommandInv'
<1>1. queue \in Seq(Commands \cup {Wake, Stop}) /\ OnceEach(queue)
  BY DEF CallerTypes, CommandInv, QueueInv
<1>2. ASSUME TakesHead
      PROVE  /\ Elements(queue') \subseteq Elements(queue)
             /\ Head(queue) \in Elements(queue)
             /\ Elements(queue) \subseteq Elements(queue') \cup {Head(queue)}
             /\ OnceEach(queue')
             /\ Head(queue) \in Commands => Head(queue) \notin Elements(queue')
  <2>1. queue # <<>> /\ queue' = Tail(queue)
    BY <1>2 DEF TakesHead
  <2> HIDE DEF TakesHead
  <2> QED BY <1>1, <2>1, TailElements, OnceTail
<1>3. \A c \in Commands : c \in Elements(queue) => Untouched(c)
  BY DEF CommandInv, QueueInv
<1>4. Elements(queue') \subseteq Elements(queue) /\ OnceEach(queue')
  BY <1>1, <1>2
<1>5. ASSUME NEW c \in Asked PROVE c \in Asked'
  <2>1. c \in Commands
    BY DEF Asked
  <2>2. CASE c \in Elements(queue)
    <3>1. CASE queue' = queue
      BY <2>1, <2>2, <3>1 DEF Asked
    <3>2. CASE TakesHead
      BY <1>2, <2>1, <2>2, <3>2 DEF Asked
    <3> QED BY <3>1, <3>2
  <2>3. CASE c \in DOMAIN pending
    BY <2>1, <2>3 DEF Asked
  <2>4. CASE c \in gaveUp
    BY <2>1, <2>4 DEF Asked
  <2>5. CASE reply[c] # "none"
    <3>1. CASE reply'[c] = reply[c]
      BY <2>1, <2>5, <3>1 DEF Asked
    <3>2. CASE reply'[c] # reply[c]
      <4>1. reply'[c] # "none"
        BY <2>1, <3>2
      <4> QED BY <2>1, <4>1 DEF Asked
    <3> QED BY <3>1, <3>2
  <2> QED BY <2>2, <2>3, <2>4, <2>5 DEF Asked
<1>6. ASSUME NEW c \in Commands, reply'[c] # reply[c]
      PROVE  /\ reply'[c] # "none"
             /\ c \notin DOMAIN pending' /\ c \notin Elements(queue')
             /\ reply'[c] \in Rejections => Untouched(c)
             /\ reply'[c] = "answered" => runs[c] >= 1
  <2>1. CASE /\ c \in S /\ c \in DOMAIN pending /\ reply'[c] \notin Rejections
             /\ reply'[c] = "answered" => runs[c] >= 1
    <3>1. c \notin Elements(queue)
      BY <1>3, <2>1 DEF Untouched
    <3> QED BY <1>4, <2>1, <3>1
  <2>2. CASE TakesHead /\ c = Head(queue) /\ reply'[c] # "answered"
    <3>1. Untouched(c) /\ c \notin Elements(queue')
      BY <1>2, <1>3, <2>2
    <3>2. c \notin DOMAIN pending'
      BY <3>1 DEF Untouched
    <3> QED BY <2>2, <3>1, <3>2
  <2> QED BY <1>6, <2>1, <2>2
<1>7. Resolving
  BY <1>4, <1>5, <1>6 DEF Resolving
<1> QED BY <1>7, ResolveStep

(* What Without leaves of the pending map. *)
LEMMA PendingDropped ==
  ASSUME TypeOK, NEW S
  PROVE  /\ DOMAIN Without(pending, S) = DOMAIN pending \ S
         /\ \A c \in DOMAIN Without(pending, S) : Without(pending, S)[c] = pending[c]
BY DEF Without, Restrict

(* A queue left alone has not lost its head. *)
LEMMA NoHeadTaken == ASSUME TypeOK, queue' = queue PROVE ~TakesHead
<1>1. queue \in Seq(Commands \cup {Wake, Stop})
  BY DEF CallerTypes
<1>2. queue # <<>> => queue # Tail(queue)
  BY <1>1
<1> QED BY <1>2 DEF TakesHead

(* A step that touches none of the variables the invariant speaks of. *)
LEMMA QuietStep ==
  ASSUME TypeOK, CommandInv,
         UNCHANGED <<runs, requests, seen, rootSession, gaveUp, queue, reply, pending>>
  PROVE  CommandInv'
<1>1. \A c \in Commands : reply'[c] = reply[c]
  OBVIOUS
<1>2. Elements(queue') = Elements(queue) /\ Asked' = Asked
  BY DEF Asked
<1>3. Resolving
  BY <1>1, <1>2 DEF Resolving
<1> QED BY <1>3, ResolveStep

(* An error of a pending command is no verdict that promises anything. *)
LEMMA ErrorIsOpen ==
  ASSUME NEW item
  PROVE  /\ PendingError(item) \notin Rejections
         /\ PendingError(item) \notin {"none", "answered"}
BY DEF PendingError, Rejections

(* Dropping pending commands with their errors. *)
LEMMA DropStep ==
  ASSUME TypeOK, CommandInv, NEW S, S \subseteq DOMAIN pending,
         UNCHANGED <<runs, requests, seen, rootSession, gaveUp, queue>>,
         pending' = Without(pending, S), reply' = ErrorsFor(pending, S)
  PROVE  CommandInv'
<1>1. /\ DOMAIN pending' = DOMAIN pending \ S
      /\ \A c \in DOMAIN pending' : pending'[c] = pending[c]
  BY PendingDropped
<1>2. \A c \in Commands :
        /\ c \in S => reply'[c] = PendingError(pending[c])
        /\ c \notin S => reply'[c] = reply[c]
  BY DEF ErrorsFor
<1>3. ~TakesHead
  BY NoHeadTaken
<1>4. \A c \in Commands : c \in S /\ c \in DOMAIN pending => reply'[c] # "none"
  BY <1>2, ErrorIsOpen
<1>5. \A c \in Commands : reply'[c] # reply[c] =>
        /\ c \in S /\ c \in DOMAIN pending /\ reply'[c] \notin Rejections
        /\ reply'[c] = "answered" => runs[c] >= 1
  BY <1>2, ErrorIsOpen
<1> QED BY <1>1, <1>3, <1>4, <1>5, Resolve

(* The end of a connection: p and told are what the frame or message that  *)
(* ended it left of the pending map and the replies.                       *)
LEMMA CloseStep ==
  ASSUME TypeOK, CommandInv, NEW D, NEW p, NEW told, CloseConnection(p, told),
         DOMAIN p = DOMAIN pending \ D,
         p \in [DOMAIN p -> PendingItem],
         \A c \in DOMAIN p : p[c] = pending[c],
         UNCHANGED <<runs, requests, seen, rootSession, gaveUp>>,
         queue' = queue \/ TakesHead,
         TakesHead /\ Head(queue) \in Commands => told[Head(queue)] # "none",
         \A c \in Commands : c \in D /\ c \in DOMAIN pending => told[c] # "none",
         \A c \in Commands : told[c] # reply[c] =>
           \/ /\ c \in D /\ c \in DOMAIN pending
              /\ told[c] \notin Rejections /\ told[c] # "answered"
           \/ TakesHead /\ c = Head(queue) /\ told[c] # "answered"
  PROVE  CommandInv'
<1> DEFINE R == NonResumable(p) \cup Expired(p)
           S == D \cup R
<1>1. R \subseteq DOMAIN p /\ DOMAIN p \subseteq Commands
  BY DEF NonResumable, Expired, PendingType
<1>2. /\ DOMAIN pending' = DOMAIN p \ R
      /\ \A c \in DOMAIN pending' : pending'[c] = p[c]
  <2>1. ASSUME NEW X
        PROVE  /\ DOMAIN Without(p, X) = DOMAIN p \ X
               /\ \A c \in DOMAIN p \ X : Without(p, X)[c] = p[c]
    BY DEF Without, Restrict
  <2> QED BY <2>1 DEF CloseConnection
<1>3. ASSUME NEW c \in Commands
      PROVE  /\ c \in R => reply'[c] \notin Rejections
                           /\ reply'[c] \notin {"none", "answered"}
             /\ c \notin R => reply'[c] = told[c]
  <2>1. reply'[c] = IF c \in NonResumable(p) THEN "interrupted"
                    ELSE IF c \in Expired(p) THEN PendingError(p[c]) ELSE told[c]
    BY DEF CloseConnection
  <2> QED BY <2>1, ErrorIsOpen DEF Rejections
<1>4. DOMAIN pending' = DOMAIN pending \ S
  BY <1>1, <1>2
<1>5. \A c \in DOMAIN pending' :
        pending'[c].op = pending[c].op /\ pending'[c].sess = pending[c].sess
  BY <1>2
<1>6. ASSUME TakesHead, Head(queue) \in Commands PROVE reply'[Head(queue)] # "none"
  BY <1>3, <1>6
<1>7. \A c \in Commands : c \in S /\ c \in DOMAIN pending => reply'[c] # "none"
  BY <1>1, <1>3
<1>8. ASSUME NEW c \in Commands, reply'[c] # reply[c]
      PROVE  \/ /\ c \in S /\ c \in DOMAIN pending /\ reply'[c] \notin Rejections
                /\ reply'[c] = "answered" => runs[c] >= 1
             \/ TakesHead /\ c = Head(queue) /\ reply'[c] # "answered"
  <2>1. CASE c \in R
    BY <1>1, <1>3, <2>1
  <2>2. CASE c \notin R
    BY <1>3, <1>8, <2>2
  <2> QED BY <2>1, <2>2
<1> HIDE DEF S, R
<1> QED BY <1>4, <1>5, <1>6, <1>7, <1>8, Resolve

-----------------------------------------------------------------------------
(* The calls of RootService *)

(* A new message in the queue: a command nobody asked for yet, or Wake or  *)
(* Stop.                                                                   *)
LEMMA EnqueueStep ==
  ASSUME TypeOK, CommandInv, NEW x \in Commands \cup {Wake, Stop},
         queue' = Append(queue, x), x \in Commands => x \notin Asked,
         UNCHANGED <<runs, requests, seen, rootSession, gaveUp, reply, pending>>
  PROVE  CommandInv'
<1>1. queue \in Seq(Commands \cup {Wake, Stop}) /\ OnceEach(queue)
  BY DEF CallerTypes, CommandInv, QueueInv
<1>2. Elements(queue') = Elements(queue) \cup {x}
  BY <1>1, AppendElements
<1>3. x \in Commands => x \notin Elements(queue)
  BY DEF Asked
<1>4. OnceEach(queue')
  BY <1>1, <1>3, OnceAppend
<1>5. \A c \in Commands : Untouched(c)' = Untouched(c)
  BY DEF Untouched
<1>6. ASSUME NEW c \in Commands, c \in Elements(queue') \/ c \notin Asked'
      PROVE  c \in Elements(queue) \/ c \notin Asked
  BY <1>2, <1>6 DEF Asked
<1>7. QueueInv'
  BY <1>4, <1>5, <1>6 DEF CommandInv, QueueInv
<1> QED BY <1>7 DEF CommandInv, PendingInv, ReplayInv, AtMostOneEffect,
           RejectedNeverRuns, AnsweredRan

(* Calls of the service do not change what is known of commands. *)
LEMMA CallerEffectStep == ASSUME TypeOK, CommandInv, CallerNext PROVE CommandInv'
<1>1. ASSUME NEW c \in Commands, Send(c) PROVE CommandInv'
  BY <1>1, EnqueueStep DEF Send
<1>2. ASSUME NEW c \in Commands, GiveUp(c) PROVE CommandInv'
  <2>1. Asked' = Asked
    BY <1>2 DEF GiveUp, Asked
  <2>2. Resolving
    BY <1>2, <2>1 DEF GiveUp, Resolving
  <2> QED BY <2>2, ResolveStep
<1>3. ASSUME NEW stored \in BOOLEAN, ChangePairing(stored) PROVE CommandInv'
  BY <1>3, EnqueueStep DEF ChangePairing
<1>4. CASE StopService
  BY <1>4, EnqueueStep DEF StopService
<1>5. CASE StartService
  BY <1>5, QuietStep DEF StartService
<1> QED BY <1>1, <1>2, <1>3, <1>4, <1>5 DEF CallerNext

-----------------------------------------------------------------------------
(* The worker outside a connection *)

(* The head of the queue is taken, and told if it is a command. *)
LEMMA TakeStep ==
  ASSUME TypeOK, CommandInv, TakesHead,
         UNCHANGED <<runs, requests, seen, rootSession, gaveUp, pending>>,
         Head(queue) \in Commands => reply'[Head(queue)] # "none",
         \A c \in Commands : reply'[c] # reply[c] =>
           c = Head(queue) /\ reply'[c] # "answered"
  PROVE  CommandInv'
<1> DEFINE S == {}
<1>1. DOMAIN pending' = DOMAIN pending \ S
  OBVIOUS
<1>2. \A c \in Commands : c \notin S
  OBVIOUS
<1> HIDE DEF S
<1> QED BY <1>1, <1>2, Resolve

(* A message taken from the queue, told v if it is a command. *)
LEMMA HeadStep ==
  ASSUME TypeOK, CommandInv, TakesHead, NEW v \in Verdicts, v # "answered",
         reply' = Tell({Head(queue)} \cap Commands, v),
         UNCHANGED <<runs, requests, seen, rootSession, gaveUp, pending>>
  PROVE  CommandInv'
<1>1. \A c \in Commands : reply'[c] = IF c = Head(queue) THEN v ELSE reply[c]
  BY DEF Tell
<1>2. v # "none"
  BY DEF Verdicts, Rejections
<1>4. \A c \in Commands : reply'[c] # reply[c] =>
        c = Head(queue) /\ reply'[c] # "answered"
  BY <1>1
<1>5. Head(queue) \in Commands => reply'[Head(queue)] # "none"
  BY <1>1, <1>2
<1> QED BY <1>4, <1>5, TakeStep

(* The worker's loop keeps the invariant on commands. *)
LEMMA OfflineEffectStep == ASSUME TypeOK, CommandInv, OfflineNext PROVE CommandInv'
<1>1. CASE WorkerExits
  <2> USE <1>1 DEF WorkerExits, FailAllPending
  <2>1. Elements(queue') = {} /\ OnceEach(queue')
    BY EmptyElements
  <2>2. DOMAIN pending' = {}
    <3>1. DOMAIN pending' = DOMAIN pending \ DOMAIN pending
      BY PendingDropped
    <3> QED BY <3>1
  <2>3. \A c \in Commands :
          /\ c \in DOMAIN pending => reply'[c] = PendingError(pending[c])
          /\ c \notin DOMAIN pending => reply'[c] = reply[c]
    BY DEF ErrorsFor
  <2>4. ASSUME NEW c \in Asked PROVE c \in Asked'
    <3>1. c \in Commands /\ c \notin {Wake, Stop}
      BY DEF Asked
    <3>2. CASE c \in Elements(queue)
      BY <3>1, <3>2 DEF Asked
    <3>3. CASE c \in DOMAIN pending
      BY <2>3, <3>1, <3>3, ErrorIsOpen DEF Asked
    <3>4. CASE c \in gaveUp
      BY <3>1, <3>4 DEF Asked
    <3>5. CASE reply[c] # "none"
      BY <2>3, <3>1, <3>5, ErrorIsOpen DEF Asked
    <3> QED BY <3>2, <3>3, <3>4, <3>5 DEF Asked
  <2>5. \A c \in Commands : reply'[c] # reply[c] =>
          reply'[c] \notin Rejections /\ reply'[c] \notin {"none", "answered"}
    BY <2>3, ErrorIsOpen
  <2>6. Resolving
    BY <2>1, <2>2, <2>4, <2>5 DEF Resolving
  <2> QED BY <2>6, ResolveStep
<1>2. ASSUME NEW readable \in BOOLEAN, LoopTop(readable) PROVE CommandInv'
  <2>1. Expired(pending) \subseteq DOMAIN pending
    BY DEF Expired
  <2> QED BY <1>2, <2>1, DropStep DEF LoopTop, ExpirePending
<1>3. CASE RejectUntilWake
  <2>1. CASE queue = <<>>
    BY <1>3, <2>1, QuietStep DEF RejectUntilWake
  <2>2. CASE queue # <<>>
    <3>1. TakesHead /\ reply' = Tell({Head(queue)} \cap Commands, "unpaired")
      BY <1>3, <2>2 DEF RejectUntilWake, TakesHead
    <3>2. "unpaired" \in Verdicts /\ "unpaired" # "answered"
      BY DEF Verdicts, Rejections
    <3> QED BY <1>3, <3>1, <3>2, HeadStep DEF RejectUntilWake
  <2> QED BY <2>1, <2>2
<1>4. ASSUME NEW unreachable \in BOOLEAN, ProbeFails(unreachable) PROVE CommandInv'
  BY <1>4, QuietStep DEF ProbeFails
<1>5. CASE ProbeSucceeds
  <2>1. CASE rootFabric
    BY <1>5, <2>1, QuietStep DEF ProbeSucceeds
  <2>2. CASE ~rootFabric
    BY <1>5, <2>2, DropStep DEF ProbeSucceeds, FailAllPending
  <2> QED BY <2>1, <2>2
<1>6. CASE ConnectFails
  BY <1>6, QuietStep DEF ConnectFails
<1>7. CASE ConnectSucceeds
  BY <1>7, QuietStep DEF ConnectSucceeds
<1>8. CASE OfflineIdle
  <2>1. CASE queue = <<>>
    BY <1>8, <2>1, QuietStep DEF OfflineIdle
  <2>2. CASE queue # <<>>
    <3>1. TakesHead /\ Head(queue) \notin Commands
      BY <1>8, <2>2 DEF OfflineIdle, TakesHead
    <3> QED BY <1>8, <3>1, TakeStep DEF OfflineIdle
  <2> QED BY <2>1, <2>2
<1>9. CASE OfflineReject
  <2>1. TakesHead /\ reply' = Tell({Head(queue)} \cap Commands, "unavailable")
    <3>1. {Head(queue)} \cap Commands = {Head(queue)}
      BY <1>9 DEF OfflineReject
    <3> QED BY <1>9, <3>1 DEF OfflineReject, TakesHead
  <2>2. "unavailable" \in Verdicts /\ "unavailable" # "answered"
    BY DEF Verdicts, Rejections
  <2> QED BY <1>9, <2>1, <2>2, HeadStep DEF OfflineReject
<1>10. ASSUME NEW fresh \in [Owners -> Routes], NEW executed \in BOOLEAN,
              NEW answered \in BOOLEAN, OfflineBle(fresh, executed, answered)
       PROVE  CommandInv'
  <2> USE <1>10 DEF OfflineBle
  <2> DEFINE c == Head(queue)
  <2>1. queue \in Seq(Commands \cup {Wake, Stop}) /\ c \in Commands
    BY DEF CallerTypes
  <2>2. /\ c \in Elements(queue) /\ c \notin Elements(queue')
        /\ Elements(queue') \subseteq Elements(queue)
        /\ Elements(queue) \subseteq Elements(queue') \cup {c}
        /\ OnceEach(queue')
    BY <2>1, TailElements, OnceTail DEF CommandInv, QueueInv
  <2>3. Untouched(c)
    BY <2>1, <2>2 DEF CommandInv, QueueInv
  <2>4. /\ runs' \in [Commands -> Nat] /\ runs'[c] \in {0, 1}
        /\ \A d \in Commands : d # c => runs'[d] = runs[d]
    <3>1. CASE inventory'[OwnerOf[c]] = NoMac
      BY <2>3, <3>1 DEF RootTypes, Untouched
    <3>2. CASE inventory'[OwnerOf[c]] # NoMac
      <4>1. runs' = [runs EXCEPT ![c] = @ + (IF executed THEN 1 ELSE 0)]
        BY <3>2
      <4> QED BY <2>1, <2>3, <4>1 DEF RootTypes, Untouched
    <3> QED BY <3>1, <3>2
  <2>5. /\ reply'[c] \in {"no_route", "answered", "ble_error"}
        /\ \A d \in Commands : d # c => reply'[d] = reply[d]
    BY <2>1 DEF Tell
  <2>6. /\ reply'[c] = "no_route" => runs'[c] = 0
        /\ reply'[c] = "answered" => runs'[c] = 1
    <3>1. CASE inventory'[OwnerOf[c]] = NoMac
      BY <2>1, <2>3, <3>1 DEF Untouched, Tell
    <3>2. CASE inventory'[OwnerOf[c]] # NoMac
      <4>1. runs' = [runs EXCEPT ![c] = @ + (IF executed THEN 1 ELSE 0)]
        BY <3>2
      <4>2. reply'[c] = IF answered THEN "answered" ELSE "ble_error"
        BY <2>1, <3>2 DEF Tell
      <4> QED BY <2>1, <2>3, <4>1, <4>2 DEF RootTypes, Untouched
    <3> QED BY <3>1, <3>2
  <2>7. UNCHANGED <<requests, pending, seen, rootSession, gaveUp>>
    OBVIOUS
  <2> HIDE <1>10 DEF c, OfflineBle
  <2>8. \A d \in Commands : d # c => Untouched(d)' = Untouched(d)
    BY <2>4, <2>5, <2>7 DEF Untouched
  <2>9. \A d \in Commands : d \in Elements(queue') \/ d \notin Asked' =>
          d # c /\ (d \in Elements(queue) \/ d \notin Asked)
    BY <2>2, <2>5, <2>7 DEF Asked
  <2>10. QueueInv'
    BY <2>2, <2>8, <2>9 DEF CommandInv, QueueInv
  <2>11. PendingInv'
    BY <2>3, <2>5, <2>7 DEF CommandInv, PendingInv, Untouched, PendingType
  <2>12. ReplayInv'
    <3>1. \A d \in seen : d \in Commands /\ runs[d] >= 1
      BY DEF CommandInv, ReplayInv, RootTypes
    <3>2. \A d \in seen : runs'[d] >= 1
      <4>1. runs[c] = 0
        BY <2>3 DEF Untouched
      <4>2. c \notin seen
        <5>1. SUFFICES ASSUME c \in seen PROVE FALSE
          OBVIOUS
        <5>2. runs[c] >= 1
          BY <3>1, <5>1
        <5> QED BY <4>1, <5>2
      <4> QED BY <2>4, <3>1, <4>2
    <3> QED BY <2>3, <2>4, <2>7, <3>2 DEF CommandInv, ReplayInv, Untouched
  <2>13. AtMostOneEffect'
    <3>1. ASSUME NEW d \in Commands PROVE runs'[d] <= 1
      <4>1. CASE d = c
        BY <2>4, <4>1
      <4>2. CASE d # c
        BY <2>4, <4>2 DEF CommandInv, AtMostOneEffect
      <4> QED BY <4>1, <4>2
    <3> QED BY <3>1 DEF AtMostOneEffect
  <2>14. RejectedNeverRuns'
    BY <2>3, <2>4, <2>5, <2>6, <2>7 DEF CommandInv, RejectedNeverRuns, Rejections,
       Untouched
  <2>15. AnsweredRan'
    <3>1. ASSUME NEW d \in Commands, reply'[d] = "answered" PROVE runs'[d] >= 1
      <4>1. CASE d = c
        BY <2>6, <3>1, <4>1
      <4>2. CASE d # c
        BY <2>4, <2>5, <3>1, <4>2 DEF CommandInv, AnsweredRan
      <4> QED BY <4>1, <4>2
    <3> QED BY <3>1 DEF AnsweredRan
  <2> QED BY <2>10, <2>11, <2>12, <2>13, <2>14, <2>15 DEF CommandInv
<1> QED BY <1>1, <1>2, <1>3, <1>4, <1>5, <1>6, <1>7, <1>8, <1>9, <1>10
     DEF OfflineNext

-----------------------------------------------------------------------------
(* The worker on a connection *)

(* The frame the select loop takes. *)
LEMMA FrameTaken ==
  ASSUME TypeOK, FrameInv, inbox # <<>>
  PROVE  /\ Head(inbox) \in Frame
         /\ Head(inbox).kind = "result" => runs[Head(inbox).op] >= 1
         /\ Head(inbox).kind = "response" => runs[Head(inbox).cmd] >= 1
<1>1. inbox \in Seq(Frame)
  BY DEF LinkTypes
<1>2. Head(inbox) \in Elements(inbox)
  BY <1>1, TailElements
<1>3. Head(inbox) \in Frame
  BY <1>1
<1> QED BY <1>2, <1>3 DEF FrameInv

(* A pending command that is told something leaves the pending map. *)
LEMMA TellPendingStep ==
  ASSUME TypeOK, CommandInv, NEW c \in DOMAIN pending, NEW v \in Verdicts,
         v \notin Rejections, v = "answered" => runs[c] >= 1,
         reply' = Tell({c}, v), pending' = Without(pending, {c}),
         UNCHANGED <<runs, requests, seen, rootSession, gaveUp, queue>>
  PROVE  CommandInv'
<1> DEFINE S == {c}
<1>1. /\ DOMAIN pending' = DOMAIN pending \ S
      /\ \A d \in DOMAIN pending' : pending'[d] = pending[d]
  BY PendingDropped
<1>2. \A d \in Commands :
        (d \in S => reply'[d] = v) /\ (d \notin S => reply'[d] = reply[d])
  BY DEF Tell
<1>3. v # "none"
  BY DEF Verdicts, Rejections
<1>4. ~TakesHead
  BY NoHeadTaken
<1>5. \A d \in Commands : d \in S => d \in DOMAIN pending /\ (v = "answered" => runs[d] >= 1)
  OBVIOUS
<1> HIDE DEF S
<1>6. \A d \in Commands : d \in S /\ d \in DOMAIN pending => reply'[d] # "none"
  BY <1>2, <1>3
<1>7. \A d \in Commands : reply'[d] # reply[d] =>
        /\ d \in S /\ d \in DOMAIN pending /\ reply'[d] \notin Rejections
        /\ reply'[d] = "answered" => runs[d] >= 1
  BY <1>2, <1>5
<1> QED BY <1>1, <1>4, <1>6, <1>7, Resolve

(* The first write of a queued command, with its pending item p. *)
LEMMA FirstWriteStep ==
  ASSUME TypeOK, CommandInv, SessionInv, phase = "wss",
         NEW c \in Commands, queue # <<>>, c = Head(queue), Sendable(c),
         \/ PutOnWire(c, NewItem(c))
         \/ UNCHANGED requests,
         UNCHANGED <<runs, seen, rootSession, gaveUp>>
  PROVE  /\ c \notin DOMAIN pending
         /\ requests \subseteq requests'
         /\ \A m \in requests' : m \notin requests =>
              /\ m.cmd = c /\ m.op = enabled
              /\ m.op => m.sess = rootSession
         /\ \A m, n \in requests' : m.cmd = c /\ n.cmd = c => m = n
         /\ NewItem(c).op = enabled
         /\ NewItem(c).op => NewItem(c).sess <= rootSession
         /\ Untouched(c)
<1>1. c \in Elements(queue)
  <2>1. queue \in Seq(Commands \cup {Wake, Stop})
    BY DEF CallerTypes
  <2> QED BY <2>1, TailElements
<1>2. Untouched(c)
  BY <1>1 DEF CommandInv, QueueInv
<1>3. c \notin DOMAIN pending /\ \A m \in requests : m.cmd # c
  BY <1>2 DEF Untouched
<1>4. NewItem(c).op = enabled /\ NewItem(c).sess = session
  BY DEF NewItem
<1>5. enabled => session <= rootSession /\ (rootConn # 0 => session = rootSession)
  BY DEF Sendable, SessionInv
<1>6. CASE PutOnWire(c, NewItem(c)) /\ rootConn = conn
  <2>1. requests' = requests \cup
          {[cmd |-> c, conn |-> conn, sess |-> session, mac |-> NewItem(c).mac,
            op |-> enabled]}
    BY <1>4, <1>6 DEF PutOnWire
  <2>2. rootConn # 0
    BY <1>6 DEF SessionInv
  <2> QED BY <1>2, <1>3, <1>4, <1>5, <2>1, <2>2
<1>7. CASE requests' = requests
  BY <1>2, <1>3, <1>4, <1>5, <1>7
<1> QED BY <1>6, <1>7 DEF PutOnWire

(* After its first write the command is pending. *)
LEMMA SendWrittenStep ==
  ASSUME TypeOK, CommandInv, SessionInv, SendWritten PROVE CommandInv'
<1> DEFINE c == Head(queue)
           item == NewItem(c)
<1> USE DEF SendWritten, SelectQueue, SelectReady
<1>0. queue \in Seq(Commands \cup {Wake, Stop}) /\ c \in Commands /\ queue # <<>>
  BY DEF CallerTypes
<1>1. /\ c \notin DOMAIN pending
      /\ requests \subseteq requests'
      /\ \A m \in requests' : m \notin requests =>
           m.cmd = c /\ m.op = enabled /\ (m.op => m.sess = rootSession)
      /\ \A m, n \in requests' : m.cmd = c /\ n.cmd = c => m = n
      /\ item.op = enabled
      /\ item.op => item.sess <= rootSession
      /\ Untouched(c)
  BY <1>0, FirstWriteStep
<1>2. /\ c \notin Elements(queue')
      /\ Elements(queue') \subseteq Elements(queue)
      /\ Elements(queue) \subseteq Elements(queue') \cup {c}
      /\ OnceEach(queue')
  BY <1>0, TailElements, OnceTail DEF CommandInv, QueueInv
<1>3. /\ DOMAIN pending' = DOMAIN pending \cup {c}
      /\ pending'[c] = item
      /\ \A d \in DOMAIN pending : d # c => pending'[d] = pending[d]
  BY DEF With
<1>4. UNCHANGED <<reply, gaveUp, runs, seen, rootSession>>
  OBVIOUS
<1>5. requests \subseteq Request /\ \A m \in requests : m.cmd \in Commands
  BY DEF LinkTypes, Request
<1> HIDE DEF c, item, SendWritten
<1>6. \A d \in Commands : d # c => Untouched(d)' = Untouched(d)
  BY <1>1, <1>3, <1>4 DEF Untouched
<1>7. \A d \in Commands : d \in Elements(queue') \/ d \notin Asked' =>
        d # c /\ (d \in Elements(queue) \/ d \notin Asked)
  BY <1>2, <1>3, <1>4 DEF Asked
<1>8. QueueInv'
  BY <1>2, <1>6, <1>7 DEF CommandInv, QueueInv
<1>9. reply[c] = "none" /\ runs[c] = 0 /\ \A m \in requests : m.cmd # c
  BY <1>1 DEF Untouched
<1>10. PendingInv'
  <2>1. \A d \in DOMAIN pending' : reply'[d] = "none"
    BY <1>3, <1>4, <1>9 DEF CommandInv, PendingInv
  <2>2. \A d \in DOMAIN pending' : pending'[d].op => pending'[d].sess <= rootSession'
    BY <1>1, <1>3, <1>4 DEF CommandInv, PendingInv
  <2>3. ASSUME NEW m \in requests', m.cmd \in DOMAIN pending'
        PROVE  m.op = pending'[m.cmd].op
    <3>1. CASE m \in requests
      BY <1>3, <1>9, <2>3, <3>1 DEF CommandInv, PendingInv
    <3>2. CASE m \notin requests
      BY <1>1, <1>3, <3>2
    <3> QED BY <3>1, <3>2
  <2> QED BY <2>1, <2>2, <2>3 DEF PendingInv
<1>11. ReplayInv'
  <2>1. \A d \in seen' : runs'[d] >= 1
    BY <1>4 DEF CommandInv, ReplayInv
  <2>2. \A m \in requests' : m.op => m.sess = rootSession'
    BY <1>1, <1>4 DEF CommandInv, ReplayInv
  <2>3. ASSUME NEW m \in requests', NEW n \in requests', m.cmd = n.cmd, ~m.op
        PROVE  m = n
    <3>1. CASE m.cmd = c
      BY <1>1, <2>3, <3>1
    <3>2. CASE m.cmd # c
      BY <1>1, <2>3, <3>2 DEF CommandInv, ReplayInv
    <3> QED BY <3>1, <3>2
  <2>4. ASSUME NEW d \in Commands, runs'[d] >= 1
        PROVE  /\ \A m \in requests' : m.cmd = d => m.op /\ d \in seen'
               /\ d \in DOMAIN pending' /\ pending'[d].op
                    /\ pending'[d].sess = rootSession' => d \in seen'
    <3>1. d # c
      BY <1>4, <1>9, <2>4
    <3> QED BY <1>1, <1>3, <1>4, <2>4, <3>1 DEF CommandInv, ReplayInv
  <2> QED BY <2>1, <2>2, <2>3, <2>4 DEF ReplayInv
<1>12. RejectedNeverRuns'
  BY <1>1, <1>4, <1>9 DEF CommandInv, RejectedNeverRuns, Rejections
<1> QED BY <1>4, <1>8, <1>10, <1>11, <1>12 DEF CommandInv, AtMostOneEffect,
           AnsweredRan

(* A failed first write tells the caller so, and ends the connection. *)
LEMMA SendFailsStep ==
  ASSUME TypeOK, CommandInv, SessionInv, NEW left \in BOOLEAN, SendFails(left)
  PROVE  CommandInv'
<1> DEFINE c == Head(queue)
           R == NonResumable(pending) \cup Expired(pending)
<1> USE DEF SendFails, SelectQueue, SelectReady
<1>0. queue \in Seq(Commands \cup {Wake, Stop}) /\ c \in Commands /\ queue # <<>>
  BY DEF CallerTypes
<1>a. UNCHANGED <<runs, seen, rootSession, gaveUp>>
  OBVIOUS
<1>1. /\ c \notin DOMAIN pending
      /\ requests \subseteq requests'
      /\ \A m \in requests' : m \notin requests =>
           m.cmd = c /\ m.op = enabled /\ (m.op => m.sess = rootSession)
      /\ \A m, n \in requests' : m.cmd = c /\ n.cmd = c => m = n
      /\ Untouched(c)
  BY <1>0, FirstWriteStep
<1>2. /\ c \notin Elements(queue')
      /\ Elements(queue') \subseteq Elements(queue)
      /\ Elements(queue) \subseteq Elements(queue') \cup {c}
      /\ OnceEach(queue')
  BY <1>0, TailElements, OnceTail DEF CommandInv, QueueInv
<1>3. R \subseteq DOMAIN pending
  BY DEF NonResumable, Expired
<1>4. /\ DOMAIN pending' = DOMAIN pending \ R
      /\ \A d \in DOMAIN pending' : pending'[d] = pending[d]
  BY PendingDropped DEF CloseConnection
<1>5. ASSUME NEW d \in Commands
      PROVE  /\ d \in R => reply'[d] \notin Rejections
                           /\ reply'[d] \notin {"none", "answered"}
             /\ d \notin R /\ d # c => reply'[d] = reply[d]
             /\ d = c => reply'[d] = "write_error"
  <2>1. reply'[d] = IF d \in NonResumable(pending) THEN "interrupted"
                    ELSE IF d \in Expired(pending) THEN PendingError(pending[d])
                    ELSE Tell({c}, "write_error")[d]
    BY DEF CloseConnection
  <2>2. Tell({c}, "write_error")[d] = IF d = c THEN "write_error" ELSE reply[d]
    BY DEF Tell
  <2> QED BY <1>1, <1>3, <2>1, <2>2, ErrorIsOpen DEF Rejections
<1>6. requests \subseteq Request /\ \A m \in requests : m.cmd \in Commands
  BY DEF LinkTypes, Request
<1>9. reply[c] = "none" /\ runs[c] = 0 /\ \A m \in requests : m.cmd # c
  BY <1>1 DEF Untouched
<1>b. DOMAIN pending \subseteq Commands
  BY DEF PendingType
<1> HIDE DEF c, R, SendFails
<1>7. \A d \in Commands : d \in Elements(queue') \/ d \notin Asked' =>
        d # c /\ d \notin R /\ (d \in Elements(queue) \/ d \notin Asked)
  <2>1. ASSUME NEW d \in Commands, d \in Elements(queue') \/ d \notin Asked'
        PROVE  d # c /\ (d \in Elements(queue) \/ d \notin Asked)
    <3>1. d # c
      BY <1>2, <1>5, <2>1 DEF Asked
    <3>2. CASE d \in Elements(queue')
      BY <1>2, <3>1, <3>2
    <3>3. CASE d \notin Asked'
      <4>1. reply'[d] = "none" /\ d \notin gaveUp' /\ d \notin DOMAIN pending'
              /\ d \notin Elements(queue')
        BY <3>3 DEF Asked
      <4>2. d \notin R /\ reply[d] = "none"
        BY <1>5, <3>1, <4>1
      <4> QED BY <1>2, <1>4, <1>a, <3>1, <4>1, <4>2 DEF Asked
    <3> QED BY <2>1, <3>1, <3>2, <3>3
  <2>2. \A d \in Commands : d \in Elements(queue) \/ d \notin Asked => d \notin R
    BY <1>3 DEF CommandInv, QueueInv, Untouched
  <2> QED BY <2>1, <2>2
<1>8. \A d \in Commands : d # c /\ d \notin R /\ Untouched(d) => Untouched(d)'
  BY <1>1, <1>4, <1>5, <1>a DEF Untouched
<1>10. QueueInv'
  BY <1>2, <1>7, <1>8 DEF CommandInv, QueueInv
<1>11. PendingInv'
  <2>1. \A d \in DOMAIN pending' : reply'[d] = "none"
    BY <1>1, <1>4, <1>5, <1>b DEF CommandInv, PendingInv
  <2>2. \A d \in DOMAIN pending' : pending'[d].op => pending'[d].sess <= rootSession'
    BY <1>4, <1>a DEF CommandInv, PendingInv
  <2>3. ASSUME NEW m \in requests', m.cmd \in DOMAIN pending'
        PROVE  m.op = pending'[m.cmd].op
    <3>1. m \in requests
      BY <1>1, <1>4, <2>3
    <3> QED BY <1>4, <2>3, <3>1 DEF CommandInv, PendingInv
  <2> QED BY <2>1, <2>2, <2>3 DEF PendingInv
<1>12. ReplayInv'
  <2>1. \A d \in seen' : runs'[d] >= 1
    BY <1>a DEF CommandInv, ReplayInv
  <2>2. \A m \in requests' : m.op => m.sess = rootSession'
    BY <1>1, <1>a DEF CommandInv, ReplayInv
  <2>3. ASSUME NEW m \in requests', NEW n \in requests', m.cmd = n.cmd, ~m.op
        PROVE  m = n
    <3>1. CASE m.cmd = c
      BY <1>1, <2>3, <3>1
    <3>2. CASE m.cmd # c
      BY <1>1, <2>3, <3>2 DEF CommandInv, ReplayInv
    <3> QED BY <3>1, <3>2
  <2>4. ASSUME NEW d \in Commands, runs'[d] >= 1
        PROVE  /\ \A m \in requests' : m.cmd = d => m.op /\ d \in seen'
               /\ d \in DOMAIN pending' /\ pending'[d].op
                    /\ pending'[d].sess = rootSession' => d \in seen'
    <3>1. d # c
      BY <1>9, <1>a, <2>4
    <3> QED BY <1>1, <1>4, <1>a, <2>4, <3>1 DEF CommandInv, ReplayInv
  <2> QED BY <2>1, <2>2, <2>3, <2>4 DEF ReplayInv
<1>13. RejectedNeverRuns'
  <2>1. ASSUME NEW d \in Commands, reply'[d] \in Rejections
        PROVE  runs'[d] = 0 /\ \A m \in requests' : m.cmd # d
    <3>1. d \notin R /\ d # c /\ reply'[d] = reply[d]
      BY <1>5, <2>1 DEF Rejections
    <3> QED BY <1>1, <1>a, <2>1, <3>1 DEF CommandInv, RejectedNeverRuns
  <2> QED BY <2>1 DEF RejectedNeverRuns
<1>14. AnsweredRan'
  <2>1. \A d \in Commands : reply'[d] = "answered" => reply[d] = "answered"
    BY <1>5
  <2> QED BY <1>a, <2>1 DEF CommandInv, AnsweredRan
<1> QED BY <1>10, <1>11, <1>12, <1>13, <1>14, <1>a DEF CommandInv, AtMostOneEffect

(* A replay carries an operation of the root's present session, so the     *)
(* root remembers it if it executed it.                                    *)
LEMMA ReplayStep ==
  ASSUME TypeOK, CommandInv, SessionInv, NEW c \in Commands, Replay(c)
  PROVE  CommandInv'
<1> USE DEF Replay
<1>1. /\ c \in DOMAIN pending /\ pending[c].op /\ pending[c].sess = session
      /\ session <= rootSession /\ (rootConn # 0 => session = rootSession)
      /\ conn # 0
  BY DEF ReplayDue, SessionInv
<1>2. /\ requests \subseteq requests'
      /\ \A m \in requests' : m \notin requests =>
           m.cmd = c /\ m.op /\ m.sess = session /\ session = rootSession
  <2>1. [pending[c] EXCEPT !.sess = session].op = pending[c].op
          /\ [pending[c] EXCEPT !.sess = session].sess = session
    BY <1>1 DEF PendingType, PendingItem
  <2> QED BY <1>1, <2>1 DEF PutOnWire
<1>3. /\ DOMAIN pending' = DOMAIN pending
      /\ \A d \in DOMAIN pending :
           pending'[d].op = pending[d].op /\ pending'[d].sess = pending[d].sess
  <2>1. pending' = [pending EXCEPT ![c] = [[pending[c] EXCEPT !.conn = conn]
                                             EXCEPT !.replay = FALSE]]
    BY <1>1 DEF MarkReplayed, PendingType
  <2>2. pending[c] \in PendingItem
    BY <1>1 DEF PendingType
  <2>3. LET item == [[pending[c] EXCEPT !.conn = conn] EXCEPT !.replay = FALSE]
        IN  item.op = pending[c].op /\ item.sess = pending[c].sess
    BY <2>2 DEF PendingItem
  <2> QED BY <1>1, <2>1, <2>3 DEF PendingType
<1>4. UNCHANGED <<queue, reply, gaveUp, runs, seen, rootSession>>
  OBVIOUS
<1>5. reply[c] = "none" /\ \A m \in requests : m.cmd = c => m.op
  BY <1>1 DEF CommandInv, PendingInv
<1> HIDE DEF Replay
<1>6. Asked' = Asked
  BY <1>3, <1>4 DEF Asked
<1>7. \A d \in Commands : Untouched(d) => d # c /\ Untouched(d)'
  BY <1>1, <1>2, <1>3, <1>4 DEF Untouched
<1>8. QueueInv'
  BY <1>4, <1>6, <1>7 DEF CommandInv, QueueInv
<1>9. PendingInv'
  <2>1. ASSUME NEW m \in requests', m.cmd \in DOMAIN pending'
        PROVE  m.op = pending'[m.cmd].op
    <3>1. CASE m \in requests
      BY <1>3, <2>1, <3>1 DEF CommandInv, PendingInv
    <3>2. CASE m \notin requests
      <4>1. m.cmd = c /\ m.op
        BY <1>2, <3>2
      <4> QED BY <1>1, <1>3, <4>1, Zenon
    <3> QED BY <3>1, <3>2
  <2> QED BY <1>3, <1>4, <2>1 DEF CommandInv, PendingInv
<1>10. ReplayInv'
  <2>1. \A d \in seen' : runs'[d] >= 1
    BY <1>4 DEF CommandInv, ReplayInv
  <2>2. \A m \in requests' : m.op => m.sess = rootSession'
    BY <1>2, <1>4 DEF CommandInv, ReplayInv
  <2>3. ASSUME NEW m \in requests', NEW n \in requests', m.cmd = n.cmd, ~m.op
        PROVE  m = n
    <3>1. m \in requests
      BY <1>2, <2>3
    <3>2. m.cmd # c
      BY <1>5, <2>3, <3>1
    <3>3. n \in requests
      BY <1>2, <2>3, <3>2
    <3> QED BY <2>3, <3>1, <3>3 DEF CommandInv, ReplayInv
  <2>4. ASSUME NEW d \in Commands, runs'[d] >= 1
        PROVE  /\ \A m \in requests' : m.cmd = d => m.op /\ d \in seen'
               /\ d \in DOMAIN pending' /\ pending'[d].op
                    /\ pending'[d].sess = rootSession' => d \in seen'
    <3>1. runs[d] >= 1
      BY <1>4, <2>4
    <3>2. /\ \A m \in requests : m.cmd = d => m.op /\ d \in seen
          /\ d \in DOMAIN pending /\ pending[d].op /\ pending[d].sess = rootSession
               => d \in seen
      BY <3>1 DEF CommandInv, ReplayInv
    <3>3. ASSUME NEW m \in requests', m.cmd = d PROVE m.op /\ d \in seen
      <4>1. CASE m \in requests
        BY <3>2, <3>3, <4>1
      <4>2. CASE m \notin requests
        BY <1>1, <1>2, <3>2, <3>3, <4>2
      <4> QED BY <4>1, <4>2
    <3>4. d \in DOMAIN pending' /\ pending'[d].op /\ pending'[d].sess = rootSession'
            => d \in seen
      BY <1>3, <1>4, <3>2
    <3> QED BY <1>4, <3>3, <3>4
  <2> QED BY <2>1, <2>2, <2>3, <2>4 DEF ReplayInv
<1>11. RejectedNeverRuns'
  BY <1>2, <1>4, <1>5 DEF CommandInv, RejectedNeverRuns, Rejections
<1> QED BY <1>4, <1>8, <1>9, <1>10, <1>11 DEF CommandInv, AtMostOneEffect, AnsweredRan

(* The select loop keeps the invariant on commands. *)
LEMMA SelectEffectStep ==
  ASSUME TypeOK, CommandInv, SessionInv, FrameInv, SelectNext PROVE CommandInv'
<1> USE DEF SelectQueue, SelectFrame, SelectReady
<1>a. /\ DOMAIN pending = DOMAIN pending \ {}
      /\ pending \in [DOMAIN pending -> PendingItem]
      /\ \A c \in Commands : reply[c] = reply[c]
  BY DEF PendingType
<1>b. ASSUME CloseConnection(pending, reply),
             UNCHANGED <<runs, requests, seen, rootSession, gaveUp>>,
             queue' = queue \/ (TakesHead /\ Head(queue) \notin Commands)
      PROVE  CommandInv'
  <2> DEFINE D == {}
  <2>1. DOMAIN pending = DOMAIN pending \ D /\ \A c \in Commands : c \notin D
    OBVIOUS
  <2>2. queue' = queue => ~TakesHead
    BY NoHeadTaken
  <2> HIDE DEF D
  <2> QED BY <1>a, <1>b, <2>1, <2>2, CloseStep
<1>1. CASE SendRejected
  <2> USE <1>1 DEF SendRejected
  <2>1. TakesHead
    BY DEF TakesHead
  <2>2. Head(queue) \in Commands /\ {Head(queue)} \cap Commands = {Head(queue)}
    OBVIOUS
  <2>3. ASSUME NEW v \in {"no_route", "handshake"},
               reply' = Tell({Head(queue)}, v)
        PROVE  CommandInv'
    <3>1. v \in Verdicts /\ v # "answered"
      BY DEF Verdicts, Rejections
    <3> QED BY <2>1, <2>2, <2>3, <3>1, HeadStep
  <2> QED BY <2>3
<1>2. CASE SendWritten
  BY <1>2, SendWrittenStep
<1>3. ASSUME NEW left \in BOOLEAN, SendFails(left) PROVE CommandInv'
  BY <1>3, SendFailsStep
<1>4. CASE ControlMessage
  <2>1. TakesHead /\ Head(queue) \notin Commands
    BY <1>4 DEF ControlMessage, TakesHead
  <2> QED BY <1>4, <1>b, <2>1 DEF ControlMessage
<1>5. CASE ConnectionLost
  BY <1>5, <1>b DEF ConnectionLost
<1>6. ASSUME NEW routes \in [Owners -> Routes], InventoryArrives(routes)
      PROVE  CommandInv'
  BY <1>6, QuietStep DEF InventoryArrives
<1>7. CASE Welcome
  <2> USE <1>7 DEF Welcome
  <2> DEFINE m == Head(inbox)
             S == LostInReset(pending, m.sess)
             kept == Without(pending, S)
  <2>1. S \subseteq DOMAIN pending
    BY DEF LostInReset
  <2>2. /\ DOMAIN kept = DOMAIN pending \ S
        /\ \A c \in DOMAIN kept : kept[c] = pending[c]
    BY PendingDropped
  <2>3. /\ DOMAIN pending' = DOMAIN kept
        /\ \A c \in DOMAIN kept : pending'[c] = kept[c]
                                  \/ pending'[c] = [kept[c] EXCEPT !.replay = TRUE]
    BY DEF Reconciled
  <2>4. ASSUME NEW c \in DOMAIN pending'
        PROVE  pending'[c].op = pending[c].op /\ pending'[c].sess = pending[c].sess
    <3>1. kept[c] = pending[c] /\ pending[c] \in PendingItem
      BY <2>2, <2>3, <2>4 DEF PendingType
    <3>2. [pending[c] EXCEPT !.replay = TRUE].op = pending[c].op
            /\ [pending[c] EXCEPT !.replay = TRUE].sess = pending[c].sess
      BY <3>1 DEF PendingItem
    <3> QED BY <2>3, <2>4, <3>1, <3>2
  <2>5. \A c \in Commands :
          /\ c \in S => reply'[c] = PendingError(pending[c])
          /\ c \notin S => reply'[c] = reply[c]
    BY DEF ErrorsFor
  <2>6. UNCHANGED <<runs, requests, seen, rootSession, gaveUp, queue>> /\ ~TakesHead
    BY NoHeadTaken
  <2> HIDE <1>7 DEF m, S, kept, Welcome
  <2>7. \A c \in Commands : c \in S /\ c \in DOMAIN pending => reply'[c] # "none"
    BY <2>5, ErrorIsOpen
  <2>8. \A c \in Commands : reply'[c] # reply[c] =>
          /\ c \in S /\ c \in DOMAIN pending /\ reply'[c] \notin Rejections
          /\ reply'[c] = "answered" => runs[c] >= 1
    BY <2>1, <2>5, ErrorIsOpen
  <2> QED BY <2>2, <2>3, <2>4, <2>6, <2>7, <2>8, Resolve
<1>8. ASSUME NEW c \in Commands, Replay(c) PROVE CommandInv'
  BY <1>8, ReplayStep
<1>9. CASE ResultIgnored
  BY <1>9, QuietStep DEF ResultIgnored
<1>c. "answered" \in Verdicts /\ "answered" \notin Rejections
        /\ "mismatch" \in Verdicts /\ "mismatch" \notin Rejections
  BY DEF Verdicts, Rejections
<1>10. CASE ResultAnswers
  <2> USE <1>10 DEF ResultAnswers
  <2>1. runs[Head(inbox).op] >= 1 /\ Head(inbox).op = Head(inbox).cmd
    BY FrameTaken DEF OperationMatches
  <2> QED BY <1>c, <2>1, TellPendingStep
<1>11. CASE ResultMismatch
  <2> USE <1>11 DEF ResultMismatch
  <2> DEFINE c == Head(inbox).cmd
  <2>1. CASE CloseConnection(pending, reply)
    BY <1>b, <2>1
  <2>2. CASE /\ c \in DOMAIN pending
             /\ CloseConnection(Without(pending, {c}), Tell({c}, "mismatch"))
    <3> DEFINE D == {c}
               p == Without(pending, D)
               told == Tell(D, "mismatch")
    <3>1. DOMAIN p = DOMAIN pending \ D /\ \A d \in DOMAIN p : p[d] = pending[d]
      BY PendingDropped
    <3>2. p \in [DOMAIN p -> PendingItem]
      <4>1. DOMAIN pending \subseteq Commands
              /\ pending \in [DOMAIN pending -> PendingItem]
        BY DEF PendingType
      <4> QED BY <4>1 DEF Without, Restrict
    <3>3. \A d \in Commands :
            /\ d \in D => told[d] = "mismatch" /\ d \in DOMAIN pending
            /\ d \notin D => told[d] = reply[d]
      BY <2>2 DEF Tell
    <3>4. ~TakesHead /\ queue' = queue
      <4>1. queue' = queue
        OBVIOUS
      <4> QED BY <4>1, NoHeadTaken
    <3>5. UNCHANGED <<runs, requests, seen, rootSession, gaveUp>>
            /\ CloseConnection(p, told)
      BY <2>2
    <3>6. \A d \in Commands : d \in D /\ d \in DOMAIN pending => told[d] # "none"
      BY <3>3
    <3>7. \A d \in Commands : told[d] # reply[d] =>
            \/ /\ d \in D /\ d \in DOMAIN pending
               /\ told[d] \notin Rejections /\ told[d] # "answered"
            \/ TakesHead /\ d = Head(queue) /\ told[d] # "answered"
      BY <1>c, <3>3
    <3>8. TakesHead /\ Head(queue) \in Commands => told[Head(queue)] # "none"
      BY <3>4
    <3> HIDE <1>11 DEF D, p, told, c, ResultMismatch
    <3> QED BY <3>1, <3>2, <3>4, <3>5, <3>6, <3>7, <3>8, CloseStep, ZenonT(60)
  <2> QED BY <2>1, <2>2
<1>12. CASE Response
  <2> USE <1>12 DEF Response
  <2>1. runs[Head(inbox).cmd] >= 1
    BY FrameTaken
  <2>2. CASE Head(inbox).cmd \in DOMAIN pending
    BY <1>c, <2>1, <2>2, TellPendingStep
  <2>3. CASE Head(inbox).cmd \notin DOMAIN pending
    BY <2>3, QuietStep
  <2> QED BY <2>2, <2>3
<1>13. CASE Maintenance
  <2>1. Expired(pending) \subseteq DOMAIN pending
    BY DEF Expired
  <2> QED BY <1>13, <2>1, DropStep DEF Maintenance, ExpirePending
<1> QED BY <1>1, <1>2, <1>3, <1>4, <1>5, <1>6, <1>7, <1>8, <1>9, <1>10, <1>11,
          <1>12, <1>13 DEF SelectNext

-----------------------------------------------------------------------------
(* The root *)

(* The root handles a request: it executes it unless it remembers it. *)
LEMMA HandlesStep ==
  ASSUME TypeOK, CommandInv, NEW r \in requests, NEW label \in Commands,
         NEW ts \in Connections, RootHandles(r, label, ts)
  PROVE  CommandInv'
<1> DEFINE c == r.cmd
<1>1. /\ requests' = requests \ {r}
      /\ UNCHANGED <<queue, reply, gaveUp, pending, rootSession>>
      /\ IF r.op /\ c \in seen
           THEN UNCHANGED <<runs, seen>>
           ELSE /\ runs' = [runs EXCEPT ![c] = @ + 1]
                /\ seen' = IF r.op THEN seen \cup {c} ELSE seen
  BY DEF RootHandles, rootIdle
<1>2. c \in Commands /\ r.op \in BOOLEAN /\ \A m \in requests : m.cmd \in Commands
  BY DEF LinkTypes, Request
<1>3. runs \in [Commands -> Nat]
  BY DEF RootTypes
<1>a. reply[c] \notin Rejections
  BY <1>2 DEF CommandInv, RejectedNeverRuns
<1>b. runs[c] >= 1 => r.op /\ c \in seen
  BY <1>2 DEF CommandInv, ReplayInv
<1> HIDE DEF c
<1>4. CASE UNCHANGED <<runs, seen>>
  <2>1. \A d \in Commands : Untouched(d) => Untouched(d)'
    BY <1>1, <1>4 DEF Untouched
  <2>2. Asked' = Asked
    BY <1>1 DEF Asked
  <2>3. QueueInv'
    BY <1>1, <2>1, <2>2 DEF CommandInv, QueueInv
  <2>4. PendingInv'
    BY <1>1 DEF CommandInv, PendingInv
  <2>5. ReplayInv'
    BY <1>1, <1>4 DEF CommandInv, ReplayInv
  <2> QED BY <1>1, <1>4, <2>3, <2>4, <2>5
       DEF CommandInv, AtMostOneEffect, RejectedNeverRuns, AnsweredRan
<1>5. CASE /\ ~(r.op /\ c \in seen)
           /\ runs' = [runs EXCEPT ![c] = @ + 1]
           /\ seen' = IF r.op THEN seen \cup {c} ELSE seen
  <2>1. runs[c] = 0
    BY <1>2, <1>3, <1>5, <1>b
  <2>2. runs'[c] = 1 /\ \A d \in Commands : d # c => runs'[d] = runs[d]
    BY <1>2, <1>3, <1>5, <2>1
  <2>3. seen \subseteq seen' /\ (r.op => c \in seen') /\ (\A d \in seen' : d # c => d \in seen)
    BY <1>5
  <2>4. \A d \in Commands : Untouched(d) => d # c /\ Untouched(d)'
    BY <1>1, <2>2 DEF Untouched, c
  <2>5. QueueInv'
    <3>1. Asked' = Asked
      BY <1>1 DEF Asked
    <3> QED BY <1>1, <2>4, <3>1 DEF CommandInv, QueueInv
  <2>6. PendingInv'
    BY <1>1 DEF CommandInv, PendingInv
  <2>7. ReplayInv'
    <3>1. ASSUME NEW d \in seen' PROVE runs'[d] >= 1
      <4>1. CASE d = c
        BY <2>2, <4>1
      <4>2. CASE d # c
        <5>1. d \in seen /\ d \in Commands
          BY <2>3, <4>2 DEF RootTypes
        <5> QED BY <2>2, <4>2, <5>1 DEF CommandInv, ReplayInv
      <4> QED BY <4>1, <4>2
    <3>2. \A m \in requests' : m.op => m.sess = rootSession'
      BY <1>1 DEF CommandInv, ReplayInv
    <3>3. \A m, n \in requests' : m.cmd = n.cmd /\ ~m.op => m = n
      BY <1>1 DEF CommandInv, ReplayInv
    <3>4. ASSUME NEW d \in Commands, runs'[d] >= 1
          PROVE  /\ \A m \in requests' : m.cmd = d => m.op /\ d \in seen'
                 /\ d \in DOMAIN pending' /\ pending'[d].op
                      /\ pending'[d].sess = rootSession' => d \in seen'
      <4>1. CASE d # c
        BY <1>1, <2>2, <2>3, <3>4, <4>1 DEF CommandInv, ReplayInv
      <4>2. CASE d = c
        <5>1. ASSUME NEW m \in requests', m.cmd = c PROVE m.op /\ c \in seen'
          <6>1. m \in requests /\ m # r
            BY <1>1, <5>1
          <6>2. r.op /\ m.op
            BY <5>1, <6>1 DEF CommandInv, ReplayInv, c
          <6> QED BY <2>3, <6>2
        <5>2. ASSUME c \in DOMAIN pending', pending'[c].op PROVE c \in seen'
          <6>1. r.op
            BY <1>1, <5>2 DEF CommandInv, PendingInv, c
          <6> QED BY <2>3, <6>1
        <5> QED BY <4>2, <5>1, <5>2
      <4> QED BY <4>1, <4>2
    <3> QED BY <3>1, <3>2, <3>3, <3>4 DEF ReplayInv
  <2>8. AtMostOneEffect'
    <3>1. ASSUME NEW d \in Commands PROVE runs'[d] <= 1
      <4>1. CASE d = c
        BY <2>2, <4>1
      <4>2. CASE d # c
        BY <2>2, <4>2 DEF CommandInv, AtMostOneEffect
      <4> QED BY <4>1, <4>2
    <3> QED BY <3>1 DEF AtMostOneEffect
  <2>9. RejectedNeverRuns'
    <3>1. ASSUME NEW d \in Commands, reply'[d] \in Rejections
          PROVE  runs'[d] = 0 /\ \A m \in requests' : m.cmd # d
      <4>1. d # c /\ reply[d] \in Rejections
        BY <1>1, <1>a, <3>1
      <4> QED BY <1>1, <2>2, <4>1 DEF CommandInv, RejectedNeverRuns
    <3> QED BY <3>1 DEF RejectedNeverRuns
  <2>10. AnsweredRan'
    <3>1. ASSUME NEW d \in Commands, reply'[d] = "answered" PROVE runs'[d] >= 1
      <4>1. CASE d = c
        BY <2>2, <4>1
      <4>2. CASE d # c
        BY <1>1, <2>2, <3>1, <4>2 DEF CommandInv, AnsweredRan
      <4> QED BY <4>1, <4>2
    <3> QED BY <3>1 DEF AnsweredRan
  <2> QED BY <2>5, <2>6, <2>7, <2>8, <2>9, <2>10 DEF CommandInv
<1> QED BY <1>1, <1>4, <1>5

(* The root keeps the invariant on commands: a boot forgets the executed   *)
(* operations together with every request, and no pending command belongs  *)
(* to the session that it starts.                                          *)
LEMMA RootEffectStep == ASSUME TypeOK, CommandInv, RootNext PROVE CommandInv'
<1>1. ASSUME NEW resume \in BOOLEAN, RootWelcomes(resume) PROVE CommandInv'
  BY <1>1, QuietStep DEF RootWelcomes, rootIdle
<1>2. ASSUME NEW m \in requests, NEW label \in Commands, NEW ts \in Connections,
             RootHandles(m, label, ts)
      PROVE  CommandInv'
  BY <1>2, HandlesStep
<1>3. CASE LinkBreaks
  BY <1>3, QuietStep DEF LinkBreaks, rootIdle
<1>4. ASSUME NEW fabric \in RootVersions, RootReboots(fabric) PROVE CommandInv'
  <2>1. /\ requests' = {} /\ seen' = {} /\ rootSession' = rootSession + 1
        /\ UNCHANGED <<queue, reply, gaveUp, pending, runs>>
    BY <1>4 DEF RootReboots, rootIdle
  <2>2. rootSession \in Nat
    BY DEF RootTypes, RootSessions
  <2>3. \A c \in Commands : Untouched(c) => Untouched(c)'
    BY <2>1 DEF Untouched
  <2>4. QueueInv'
    <3>1. Asked' = Asked
      BY <2>1 DEF Asked
    <3> QED BY <2>1, <2>3, <3>1 DEF CommandInv, QueueInv
  <2>5. \A c \in DOMAIN pending : pending[c].op => pending[c].sess < rootSession'
    <3>1. ASSUME NEW c \in DOMAIN pending, pending[c].op
          PROVE  pending[c].sess < rootSession + 1
      <4>1. pending[c].sess \in Nat
        BY DEF PendingType, PendingItem
      <4>2. pending[c].sess <= rootSession
        BY <3>1 DEF CommandInv, PendingInv
      <4> QED BY <2>2, <4>1, <4>2
    <3> QED BY <2>1, <3>1
  <2>6. PendingInv'
    <3>1. \A c \in DOMAIN pending : pending[c].op => pending[c].sess <= rootSession'
      <4>1. \A c \in DOMAIN pending : pending[c].sess \in Nat
        BY DEF PendingType, PendingItem
      <4> QED BY <2>1, <2>2, <2>5, <4>1
    <3> QED BY <2>1, <3>1 DEF CommandInv, PendingInv
  <2>7. ReplayInv'
    <3>1. \A c \in DOMAIN pending : pending[c].op => pending[c].sess # rootSession'
      <4>1. \A c \in DOMAIN pending : pending[c].sess \in Nat
        BY DEF PendingType, PendingItem
      <4> QED BY <2>1, <2>2, <2>5, <4>1
    <3> QED BY <2>1, <3>1 DEF ReplayInv
  <2> QED BY <2>1, <2>4, <2>6, <2>7
       DEF CommandInv, AtMostOneEffect, RejectedNeverRuns, AnsweredRan
<1> QED BY <1>1, <1>2, <1>3, <1>4 DEF RootNext

(* Every step keeps the invariant on commands. *)
LEMMA CommandStep ==
  ASSUME TypeOK, CommandInv, SessionInv, FrameInv, [Next]_vars PROVE CommandInv'
<1>1. ASSUME NEW c \in Commands, DeadlinePasses(c) PROVE CommandInv'
  <2>1. /\ DOMAIN pending' = DOMAIN pending
        /\ \A d \in DOMAIN pending :
             pending'[d].op = pending[d].op /\ pending'[d].sess = pending[d].sess
    BY <1>1 DEF DeadlinePasses, PendingType, PendingItem
  <2>2. UNCHANGED <<runs, requests, seen, rootSession, gaveUp, queue, reply>>
    BY <1>1 DEF DeadlinePasses
  <2>3. Asked' = Asked /\ Elements(queue') = Elements(queue)
    BY <2>1, <2>2 DEF Asked
  <2>4. Resolving
    BY <2>1, <2>2, <2>3 DEF Resolving
  <2> QED BY <2>4, ResolveStep
<1>2. CASE UNCHANGED vars
  BY <1>2, QuietStep DEF vars
<1> QED BY <1>1, <1>2, CallerEffectStep, OfflineEffectStep, SelectEffectStep,
          RootEffectStep DEF Next

-----------------------------------------------------------------------------
(* The session of the connection and the frames on it *)

LinkInv == SessionInv /\ FrameInv

(* The frames on the way are frames. *)
LEMMA FramesTyped ==
  ASSUME TypeOK
  PROVE  /\ inbox \in Seq(Frame)
         /\ \A f \in Elements(inbox) :
              /\ f \in Frame
              /\ f.kind = "result" => f.op \in Commands
              /\ f.kind = "response" => f.cmd \in Commands
              /\ f.kind = "welcome" => f.sess \in RootSessions
<1>1. inbox \in Seq(Frame)
  BY DEF LinkTypes
<1>2. \A f \in Elements(inbox) : f \in Frame
  BY <1>1 DEF Elements
<1>3. \A f \in Frame :
        /\ f.kind = "result" => f.op \in Commands
        /\ f.kind = "response" => f.cmd \in Commands
        /\ f.kind = "welcome" => f.sess \in RootSessions
  BY DEF Frame
<1> QED BY <1>1, <1>2, <1>3

(* A step that opens no connection, reads no WELCOME and adds no frame. *)
LEMMA SameLink ==
  ASSUME TypeOK, LinkInv, UNCHANGED <<conn, welcomed, session, rootConn, rootSession>>,
         phase' = "wss" => phase = "wss",
         Elements(inbox') \subseteq Elements(inbox),
         \A c \in Commands : runs[c] >= 1 => runs'[c] >= 1
  PROVE  LinkInv'
<1>1. SessionInv'
  BY DEF LinkInv, SessionInv
<1>2. FrameInv'
  BY FramesTyped DEF LinkInv, FrameInv
<1> QED BY <1>1, <1>2 DEF LinkInv

(* ... in particular one that touches none of the variables concerned. *)
LEMMA QuietLink ==
  ASSUME TypeOK, LinkInv,
         UNCHANGED <<conn, welcomed, session, rootConn, rootSession, inbox, runs>>,
         phase' = "wss" => phase = "wss"
  PROVE  LinkInv'
<1>1. Elements(inbox') \subseteq Elements(inbox)
  OBVIOUS
<1> QED BY <1>1, SameLink

(* ... or one that takes a frame. *)
LEMMA FrameGone ==
  ASSUME TypeOK, LinkInv, inbox # <<>>, inbox' = Tail(inbox),
         UNCHANGED <<conn, welcomed, session, rootConn, rootSession, runs, phase>>
  PROVE  LinkInv'
<1>1. Elements(inbox') \subseteq Elements(inbox)
  BY FramesTyped, TailElements
<1> QED BY <1>1, SameLink

(* A closed connection carries nothing. *)
LEMMA ClosedLink ==
  ASSUME TypeOK, LinkInv, NEW p, NEW told, CloseConnection(p, told)
  PROVE  LinkInv'
<1>1. phase' = "top" /\ welcomed' = FALSE /\ rootConn' = 0 /\ inbox' = <<>>
  BY DEF CloseConnection
<1>2. Elements(inbox') = {}
  BY <1>1, EmptyElements
<1> QED BY <1>1, <1>2 DEF LinkInv, SessionInv, FrameInv

(* The calls and the loop of the worker keep the invariant on the link. *)
LEMMA OfflineLinkStep ==
  ASSUME TypeOK, LinkInv, CallerNext \/ OfflineNext PROVE LinkInv'
<1>1. ASSUME NEW c \in Commands, Send(c) \/ GiveUp(c) PROVE LinkInv'
  BY <1>1, QuietLink DEF Send, GiveUp
<1>2. ASSUME NEW stored \in BOOLEAN, ChangePairing(stored) PROVE LinkInv'
  BY <1>2, QuietLink DEF ChangePairing
<1>3. CASE StopService
  BY <1>3, QuietLink DEF StopService
<1>4. CASE StartService
  BY <1>4, QuietLink DEF StartService
<1>5. CASE WorkerExits
  BY <1>5, QuietLink DEF WorkerExits
<1>6. ASSUME NEW readable \in BOOLEAN, LoopTop(readable) PROVE LinkInv'
  BY <1>6, QuietLink DEF LoopTop
<1>7. CASE RejectUntilWake
  BY <1>7, QuietLink DEF RejectUntilWake
<1>8. ASSUME NEW unreachable \in BOOLEAN, ProbeFails(unreachable) PROVE LinkInv'
  BY <1>8, QuietLink DEF ProbeFails
<1>9. CASE ProbeSucceeds
  BY <1>9, QuietLink DEF ProbeSucceeds
<1>10. CASE ConnectFails
  BY <1>10, QuietLink DEF ConnectFails
<1>11. CASE ConnectSucceeds
  <2>1. Elements(inbox') = {}
    BY <1>11, EmptyElements DEF ConnectSucceeds
  <2>2. rootConn' = conn' /\ welcomed' = FALSE /\ conn' # 0
    BY <1>11 DEF ConnectSucceeds, WorkerTypes, Connections
  <2> QED BY <2>1, <2>2 DEF LinkInv, SessionInv, FrameInv
<1>12. CASE OfflineIdle
  BY <1>12, QuietLink DEF OfflineIdle
<1>13. CASE OfflineReject
  BY <1>13, QuietLink DEF OfflineReject
<1>14. ASSUME NEW fresh \in [Owners -> Routes], NEW executed \in BOOLEAN,
              NEW answered \in BOOLEAN, OfflineBle(fresh, executed, answered)
       PROVE  LinkInv'
  <2> USE <1>14 DEF OfflineBle
  <2>1. runs \in [Commands -> Nat]
    BY DEF RootTypes
  <2>2. \A c \in Commands : runs'[c] \in Nat /\ runs'[c] >= runs[c]
    <3>1. CASE runs' = runs
      BY <2>1, <3>1
    <3>2. CASE runs' = [runs EXCEPT ![Head(queue)] = @ + (IF executed THEN 1 ELSE 0)]
      BY <2>1, <3>2
    <3> QED BY <3>1, <3>2
  <2>3. \A c \in Commands : runs[c] >= 1 => runs'[c] >= 1
    BY <2>1, <2>2
  <2>4. /\ UNCHANGED <<conn, welcomed, session, rootConn, rootSession, inbox>>
        /\ phase' = "top"
    OBVIOUS
  <2> HIDE <1>14 DEF OfflineBle
  <2> QED BY <2>3, <2>4, SameLink
<1> QED BY <1>1, <1>2, <1>3, <1>4, <1>5, <1>6, <1>7, <1>8, <1>9, <1>10, <1>11,
          <1>12, <1>13, <1>14 DEF CallerNext, OfflineNext

(* The select loop keeps it: WELCOME brings the root's present session. *)
LEMMA SelectLinkStep ==
  ASSUME TypeOK, LinkInv, SelectNext PROVE LinkInv'
<1>1. CASE SendRejected
  BY <1>1, QuietLink DEF SendRejected
<1>2. CASE SendWritten
  BY <1>2, QuietLink DEF SendWritten
<1>3. ASSUME NEW left \in BOOLEAN, SendFails(left) PROVE LinkInv'
  BY <1>3, ClosedLink DEF SendFails
<1>4. CASE ControlMessage
  BY <1>4, ClosedLink DEF ControlMessage
<1>5. CASE ConnectionLost
  BY <1>5, ClosedLink DEF ConnectionLost
<1>6. ASSUME NEW routes \in [Owners -> Routes], InventoryArrives(routes)
      PROVE  LinkInv'
  BY <1>6, QuietLink DEF InventoryArrives
<1>7. CASE Welcome
  <2> USE <1>7 DEF Welcome, SelectFrame
  <2>1. inbox # <<>> /\ Head(inbox).kind = "welcome"
    OBVIOUS
  <2>2. /\ Elements(Tail(inbox)) \subseteq Elements(inbox)
        /\ Head(inbox) \in Elements(inbox)
    BY <2>1, FramesTyped, TailElements
  <2>3. /\ Head(inbox).sess <= rootSession
        /\ rootConn # 0 => Head(inbox).sess = rootSession
    BY <2>1, <2>2 DEF LinkInv, SessionInv
  <2>4. /\ session' = Head(inbox).sess /\ inbox' = Tail(inbox)
        /\ UNCHANGED <<conn, rootConn, rootSession, runs, phase>>
    OBVIOUS
  <2> HIDE <1>7 DEF Welcome, SelectFrame
  <2>5. SessionInv'
    BY <2>2, <2>3, <2>4 DEF LinkInv, SessionInv
  <2>6. FrameInv'
    BY <2>2, <2>4 DEF LinkInv, FrameInv
  <2> QED BY <2>5, <2>6 DEF LinkInv
<1>8. ASSUME NEW c \in Commands, Replay(c) PROVE LinkInv'
  BY <1>8, QuietLink DEF Replay
<1>9. CASE ResultIgnored
  BY <1>9, FrameGone DEF ResultIgnored, SelectFrame
<1>10. CASE ResultAnswers
  BY <1>10, FrameGone DEF ResultAnswers, SelectFrame
<1>11. CASE ResultMismatch
  <2>1. CASE CloseConnection(pending, reply)
    BY <2>1, ClosedLink
  <2>2. CASE CloseConnection(Without(pending, {Head(inbox).cmd}),
                             Tell({Head(inbox).cmd}, "mismatch"))
    BY <2>2, ClosedLink
  <2> QED BY <1>11, <2>1, <2>2 DEF ResultMismatch
<1>12. CASE Response
  BY <1>12, FrameGone DEF Response, SelectFrame
<1>13. CASE Maintenance
  BY <1>13, QuietLink DEF Maintenance
<1> QED BY <1>1, <1>2, <1>3, <1>4, <1>5, <1>6, <1>7, <1>8, <1>9, <1>10, <1>11,
          <1>12, <1>13 DEF SelectNext

(* The root keeps it: it answers what it executed, on the connection it    *)
(* holds, in its present session.                                          *)
LEMMA RootLinkStep ==
  ASSUME TypeOK, LinkInv, ReplayInv, RootNext PROVE LinkInv'
<1> USE DEF rootIdle
<1>1. ASSUME NEW resume \in BOOLEAN, RootWelcomes(resume) PROVE LinkInv'
  <2> DEFINE f == [kind |-> "welcome", ts |-> conn, sess |-> rootSession,
                   resume |-> resume]
  <2>1. f \in Frame
    BY DEF Frame, WorkerTypes, RootTypes
  <2>2. Elements(inbox') = Elements(inbox) \cup {f}
    BY <1>1, <2>1, FramesTyped, AppendElements DEF RootWelcomes
  <2>3. /\ f.kind = "welcome" /\ f.sess = rootSession /\ rootSession \in Nat
        /\ UNCHANGED <<conn, welcomed, session, rootConn, rootSession, runs, phase>>
    BY <1>1 DEF RootWelcomes, RootTypes, RootSessions
  <2> HIDE DEF f
  <2> QED BY <2>2, <2>3 DEF LinkInv, SessionInv, FrameInv
<1>2. ASSUME NEW r \in requests, NEW label \in Commands, NEW ts \in Connections,
             RootHandles(r, label, ts)
      PROVE  LinkInv'
  <2>1. r.cmd \in Commands /\ r.conn \in Connections
    BY DEF LinkTypes, Request
  <2>2. /\ runs'[r.cmd] >= 1
        /\ \A c \in Commands : runs[c] >= 1 => runs'[c] >= 1
    <3>1. runs \in [Commands -> Nat]
      BY DEF RootTypes
    <3>2. CASE r.cmd \in seen /\ runs' = runs
      BY <3>2 DEF ReplayInv
    <3>3. CASE runs' = [runs EXCEPT ![r.cmd] = @ + 1]
      BY <2>1, <3>1, <3>3
    <3> QED BY <1>2, <3>2, <3>3 DEF RootHandles
  <2>3. UNCHANGED <<conn, welcomed, session, rootConn, rootSession, phase>>
    BY <1>2 DEF RootHandles
  <2>4. PICK f \in Frame :
          /\ inbox' = inbox \/ inbox' = Append(inbox, f)
          /\ f.kind = "result" => f.op = r.cmd
          /\ f.kind = "response" => f.cmd = r.cmd
          /\ f.kind # "welcome"
    <3> DEFINE a == [kind |-> "response", cmd |-> r.cmd]
               b == [kind |-> "result", ts |-> ts, sess |-> rootSession,
                     seq |-> rootSeq + 1, cmd |-> label, op |-> r.cmd]
    <3>1. a \in Frame /\ b \in Frame
      BY <2>1 DEF Frame, RootTypes
    <3>2. inbox' = inbox \/ inbox' = Append(inbox, a) \/ inbox' = Append(inbox, b)
      BY <1>2 DEF RootHandles
    <3>3. /\ a.kind = "response" /\ a.cmd = r.cmd
          /\ b.kind = "result" /\ b.op = r.cmd
      OBVIOUS
    <3> HIDE DEF a, b
    <3> QED BY <3>1, <3>2, <3>3
  <2>5. Elements(inbox') \subseteq Elements(inbox) \cup {f}
    BY <2>4, FramesTyped, AppendElements
  <2>6. SessionInv'
    BY <2>3, <2>4, <2>5 DEF LinkInv, SessionInv
  <2>7. FrameInv'
    BY <2>2, <2>4, <2>5, FramesTyped DEF LinkInv, FrameInv
  <2> QED BY <2>6, <2>7 DEF LinkInv
<1>3. CASE LinkBreaks
  <2>1. /\ rootConn' = 0
        /\ UNCHANGED <<conn, welcomed, session, rootSession, inbox, runs, phase>>
    BY <1>3 DEF LinkBreaks
  <2> QED BY <2>1 DEF LinkInv, SessionInv, FrameInv
<1>4. ASSUME NEW fabric \in RootVersions, RootReboots(fabric) PROVE LinkInv'
  <2>1. /\ rootConn' = 0 /\ rootSession' = rootSession + 1
        /\ UNCHANGED <<conn, welcomed, session, inbox, runs, phase>>
    BY <1>4 DEF RootReboots
  <2>2. rootSession \in Nat /\ session \in Nat
    BY DEF RootTypes, RootSessions, WorkerTypes
  <2>3. welcomed => session <= rootSession'
    BY <2>1, <2>2 DEF LinkInv, SessionInv
  <2>4. ASSUME NEW f \in Elements(inbox), f.kind = "welcome"
        PROVE  f.sess <= rootSession'
    <3>1. f.sess \in Nat /\ f.sess <= rootSession
      BY <2>4, FramesTyped DEF RootSessions, LinkInv, SessionInv
    <3> QED BY <2>1, <2>2, <3>1
  <2> QED BY <2>1, <2>3, <2>4 DEF LinkInv, SessionInv, FrameInv
<1> QED BY <1>1, <1>2, <1>3, <1>4 DEF RootNext

(* Every step keeps the invariant on the link. *)
LEMMA LinkStep ==
  ASSUME TypeOK, LinkInv, ReplayInv, [Next]_vars PROVE LinkInv'
<1>1. ASSUME NEW c \in Commands, DeadlinePasses(c) PROVE LinkInv'
  BY <1>1, QuietLink DEF DeadlinePasses
<1>2. CASE UNCHANGED vars
  BY <1>2, QuietLink DEF vars
<1> QED BY <1>1, <1>2, OfflineLinkStep, SelectLinkStep, RootLinkStep DEF Next

-----------------------------------------------------------------------------
(* The invariant *)

(* Nothing has happened in an initial state. *)
LEMMA EffectInit == Init => EffectInv
<1> SUFFICES ASSUME Init PROVE EffectInv
  OBVIOUS
<1>1. TypeOK
  BY InitTypes
<1>2. /\ Elements(queue) = {} /\ OnceEach(queue) /\ Elements(inbox) = {}
      /\ DOMAIN pending = {} /\ requests = {} /\ seen = {}
      /\ \A c \in Commands : reply[c] = "none" /\ runs[c] = 0
      /\ rootConn = 0 /\ phase = "top" /\ welcomed = FALSE
  BY EmptyElements DEF Init
<1>3. "none" \notin Rejections
  BY DEF Rejections
<1>4. QueueInv /\ PendingInv /\ ReplayInv
  BY <1>2 DEF QueueInv, Untouched, PendingInv, ReplayInv
<1>5. SessionInv /\ FrameInv
  BY <1>2 DEF SessionInv, FrameInv
<1>6. AtMostOneEffect /\ RejectedNeverRuns /\ AnsweredRan
  BY <1>2, <1>3 DEF AtMostOneEffect, RejectedNeverRuns, AnsweredRan
<1> QED BY <1>1, <1>4, <1>5, <1>6 DEF EffectInv

(* EffectInv is inductive: in every reachable state a command that has run *)
(* can reach the root again only as an operation that the root remembers,  *)
(* a rejected command is nowhere and an answered one has run.              *)
THEOREM EffectsCorrect == Spec => []EffectInv
<1>1. ASSUME EffectInv, [Next]_vars PROVE EffectInv'
  <2>1. TypeOK /\ CommandInv /\ SessionInv /\ FrameInv /\ LinkInv /\ ReplayInv
    BY <1>1 DEF EffectInv, CommandInv, LinkInv
  <2>2. TypeOK'
    BY <1>1, <2>1, TypeStep
  <2>3. CommandInv'
    BY <1>1, <2>1, CommandStep
  <2>4. LinkInv'
    BY <1>1, <2>1, LinkStep
  <2> QED BY <2>2, <2>3, <2>4 DEF EffectInv, CommandInv, LinkInv
<1> QED BY <1>1, EffectInit, PTL DEF Spec

(* A mesh command is executed at most once, whatever connections, replays, *)
(* root reboots and service restarts happen in between (run_wss,           *)
(* pending_fabric_replays, reconcile_pending_root_session).                *)
THEOREM EffectAtMostOnce == Spec => []AtMostOneEffect
<1>1. EffectInv => AtMostOneEffect
  BY DEF EffectInv
<1> QED BY <1>1, EffectsCorrect, PTL

(* A command its caller was told was not sent (reject_until_wake,          *)
(* service_offline_commands, the early returns of run_wss) is not executed *)
(* and no request for it is on its way.                                    *)
THEOREM RejectedHasNoEffect == Spec => []RejectedNeverRuns
<1>1. EffectInv => RejectedNeverRuns
  BY DEF EffectInv
<1> QED BY <1>1, EffectsCorrect, PTL

(* A caller that was given a result asked for a command that was executed, *)
(* even when the root mislabels results (handle_fabric_frame).             *)
THEOREM AnswerHasEffect == Spec => []AnsweredRan
<1>1. EffectInv => AnsweredRan
  BY DEF EffectInv
<1> QED BY <1>1, EffectsCorrect, PTL

(***************************************************************************)
(* The promise, replays and results                                        *)
(***************************************************************************)
-----------------------------------------------------------------------------
(* What a step does to replies and effects *)

(* A caller learns once what became of its command. *)
RepliesFinal == \A c \in Commands : reply'[c] # reply[c] => reply[c] = "none"

(* A step executes no command, or one. *)
OneRun ==
  \/ runs' = runs
  \/ \E c \in Commands : runs' = [runs EXCEPT ![c] = @ + 1]

(* Pending commands and those in the queue were told nothing yet. *)
LEMMA Unanswered ==
  ASSUME TypeOK, CommandInv
  PROVE  /\ \A c \in DOMAIN pending : c \in Commands /\ reply[c] = "none"
         /\ queue # <<>> /\ Head(queue) \in Commands =>
              /\ reply[Head(queue)] = "none" /\ Head(queue) \notin DOMAIN pending
              /\ Head(queue) \in Elements(queue)
<1>1. \A c \in DOMAIN pending : c \in Commands /\ reply[c] = "none"
  BY DEF PendingType, CommandInv, PendingInv
<1>2. ASSUME queue # <<>>, Head(queue) \in Commands
      PROVE  /\ reply[Head(queue)] = "none" /\ Head(queue) \notin DOMAIN pending
             /\ Head(queue) \in Elements(queue)
  <2>1. Head(queue) \in Elements(queue)
    BY <1>2, TailElements DEF CallerTypes
  <2> QED BY <1>2, <2>1 DEF CommandInv, QueueInv, Untouched
<1> QED BY <1>1, <1>2

(* The end of a connection tells pending commands only. *)
LEMMA CloseFinal ==
  ASSUME TypeOK, CommandInv, NEW p, NEW told, CloseConnection(p, told),
         DOMAIN p \subseteq DOMAIN pending,
         \A c \in Commands : told[c] # reply[c] => reply[c] = "none"
  PROVE  RepliesFinal
<1>1. NonResumable(p) \cup Expired(p) \subseteq DOMAIN pending
  BY DEF NonResumable, Expired
<1>2. ASSUME NEW c \in Commands
      PROVE  c \in DOMAIN pending \/ reply'[c] = told[c]
  BY <1>1 DEF CloseConnection
<1> QED BY <1>2, Unanswered DEF RepliesFinal

(* So does one without a connection; over BLE it has a command executed. *)
LEMMA OfflineFinal ==
  ASSUME TypeOK, CommandInv, OfflineNext PROVE RepliesFinal /\ OneRun
<1>0. \A S : (\A c \in Commands : ErrorsFor(pending, S)[c] # reply[c] => c \in S)
  BY DEF ErrorsFor
<1>1. CASE WorkerExits
  BY <1>0, <1>1, Unanswered DEF WorkerExits, FailAllPending, RepliesFinal, OneRun
<1>2. ASSUME NEW readable \in BOOLEAN, LoopTop(readable) PROVE RepliesFinal /\ OneRun
  <2>1. Expired(pending) \subseteq DOMAIN pending
    BY DEF Expired
  <2> QED BY <1>0, <1>2, <2>1, Unanswered DEF LoopTop, ExpirePending, RepliesFinal,
             OneRun
<1>3. CASE RejectUntilWake
  <2>1. CASE queue = <<>>
    BY <1>3, <2>1 DEF RejectUntilWake, RepliesFinal, OneRun
  <2>2. CASE queue # <<>>
    BY <1>3, <2>2, Unanswered DEF RejectUntilWake, RepliesFinal, OneRun, Tell
  <2> QED BY <2>1, <2>2
<1>4. ASSUME NEW unreachable \in BOOLEAN, ProbeFails(unreachable)
      PROVE  RepliesFinal /\ OneRun
  BY <1>4 DEF ProbeFails, RepliesFinal, OneRun
<1>5. CASE ProbeSucceeds
  <2>1. CASE rootFabric
    BY <1>5, <2>1 DEF ProbeSucceeds, RepliesFinal, OneRun
  <2>2. CASE ~rootFabric
    BY <1>0, <1>5, <2>2, Unanswered DEF ProbeSucceeds, FailAllPending, RepliesFinal,
       OneRun
  <2> QED BY <2>1, <2>2
<1>6. CASE ConnectFails \/ ConnectSucceeds \/ OfflineIdle
  BY <1>6 DEF ConnectFails, ConnectSucceeds, OfflineIdle, RepliesFinal, OneRun
<1>7. CASE OfflineReject
  BY <1>7, Unanswered DEF OfflineReject, RepliesFinal, OneRun, Tell
<1>8. ASSUME NEW fresh \in [Owners -> Routes], NEW executed \in BOOLEAN,
             NEW answered \in BOOLEAN, OfflineBle(fresh, executed, answered)
      PROVE  RepliesFinal /\ OneRun
  <2> DEFINE c == Head(queue)
  <2>1. /\ c \in Commands /\ queue # <<>>
        /\ \A d \in Commands : d # c => reply'[d] = reply[d]
        /\ runs' = runs \/ runs' = [runs EXCEPT ![c] = @ + (IF executed THEN 1 ELSE 0)]
    BY <1>8 DEF OfflineBle, Tell
  <2>2. RepliesFinal
    BY <2>1, Unanswered DEF RepliesFinal
  <2>3. [runs EXCEPT ![c] = @ + 0] = runs
    BY <2>1 DEF RootTypes
  <2>4. OneRun
    BY <2>1, <2>3 DEF OneRun
  <2> QED BY <2>2, <2>4
<1> QED BY <1>1, <1>2, <1>3, <1>4, <1>5, <1>6, <1>7, <1>8 DEF OfflineNext

(* A connected worker tells pending commands and the head of the queue. *)
LEMMA SelectFinal ==
  ASSUME TypeOK, CommandInv, SelectNext PROVE RepliesFinal
<1> USE DEF SelectQueue, SelectFrame, SelectReady
<1>a. \A c, S, v : c \in Commands /\ Tell(S, v)[c] # reply[c] => c \in S
  BY DEF Tell
<1>b. \A S : (\A c \in Commands : ErrorsFor(pending, S)[c] # reply[c] => c \in S)
  BY DEF ErrorsFor
<1>c. \A S : DOMAIN Without(pending, S) \subseteq DOMAIN pending
  BY DEF Without, Restrict
<1>1. CASE SendRejected
  BY <1>1, <1>a, Unanswered DEF SendRejected, RepliesFinal
<1>2. CASE SendWritten
  BY <1>2 DEF SendWritten, RepliesFinal
<1>3. ASSUME NEW left \in BOOLEAN, SendFails(left) PROVE RepliesFinal
  <2>1. \A c \in Commands :
          Tell({Head(queue)}, "write_error")[c] # reply[c] => reply[c] = "none"
    BY <1>3, <1>a, Unanswered DEF SendFails
  <2> QED BY <1>3, <2>1, CloseFinal DEF SendFails
<1>4. CASE ControlMessage
  BY <1>4, CloseFinal DEF ControlMessage
<1>5. CASE ConnectionLost
  BY <1>5, CloseFinal DEF ConnectionLost
<1>6. ASSUME NEW routes \in [Owners -> Routes], InventoryArrives(routes)
      PROVE  RepliesFinal
  BY <1>6 DEF InventoryArrives, RepliesFinal
<1>7. CASE Welcome
  <2>1. \A s : LostInReset(pending, s) \subseteq DOMAIN pending
    BY DEF LostInReset
  <2> QED BY <1>7, <1>b, <2>1, Unanswered DEF Welcome, RepliesFinal
<1>8. ASSUME NEW c \in Commands, Replay(c) PROVE RepliesFinal
  BY <1>8 DEF Replay, RepliesFinal
<1>9. CASE ResultIgnored
  BY <1>9 DEF ResultIgnored, RepliesFinal
<1>10. CASE ResultAnswers
  BY <1>10, <1>a, Unanswered DEF ResultAnswers, RepliesFinal
<1>11. CASE ResultMismatch
  <2> DEFINE m == Head(inbox)
  <2>1. CASE CloseConnection(pending, reply)
    BY <2>1, CloseFinal
  <2>2. CASE /\ m.cmd \in DOMAIN pending
             /\ CloseConnection(Without(pending, {m.cmd}), Tell({m.cmd}, "mismatch"))
    <3> DEFINE p == Without(pending, {m.cmd})
               told == Tell({m.cmd}, "mismatch")
    <3>1. \A c \in Commands : told[c] # reply[c] => reply[c] = "none"
      BY <1>a, <2>2, Unanswered
    <3>2. DOMAIN p \subseteq DOMAIN pending /\ CloseConnection(p, told)
      BY <1>c, <2>2
    <3> HIDE DEF p, told
    <3> QED BY <3>1, <3>2, CloseFinal
  <2> QED BY <1>11, <2>1, <2>2 DEF ResultMismatch
<1>12. CASE Response
  <2> DEFINE c == Head(inbox).cmd
  <2>1. CASE c \in DOMAIN pending
    <3>1. reply' = Tell({c}, "answered")
      BY <1>12, <2>1 DEF Response
    <3> HIDE DEF c
    <3> QED BY <1>a, <2>1, <3>1, Unanswered DEF RepliesFinal
  <2>2. CASE c \notin DOMAIN pending
    BY <1>12, <2>2 DEF Response, RepliesFinal
  <2> QED BY <2>1, <2>2
<1>13. CASE Maintenance
  <2>1. Expired(pending) \subseteq DOMAIN pending
    BY DEF Expired
  <2> QED BY <1>13, <1>b, <2>1, Unanswered DEF Maintenance, ExpirePending,
             RepliesFinal
<1> QED BY <1>1, <1>2, <1>3, <1>4, <1>5, <1>6, <1>7, <1>8, <1>9, <1>10, <1>11, <1>12,
           <1>13 DEF SelectNext

(* Every step answers a caller at most once and executes at most one command. *)
LEMMA FinalStep ==
  ASSUME TypeOK, CommandInv, [Next]_vars PROVE RepliesFinal /\ OneRun
<1>1. CASE CallerNext
  BY <1>1 DEF CallerNext, Send, GiveUp, ChangePairing, StopService, StartService,
     RepliesFinal, OneRun
<1>2. CASE RootNext
  <2>1. ASSUME NEW m \in requests, NEW label \in Commands, NEW ts \in Connections,
               RootHandles(m, label, ts)
        PROVE  RepliesFinal /\ OneRun
    <3>1. m.cmd \in Commands
      BY DEF LinkTypes, Request
    <3>2. OneRun
      BY <2>1, <3>1 DEF RootHandles, OneRun
    <3> QED BY <2>1, <3>2 DEF RootHandles, rootIdle, RepliesFinal
  <2>2. ASSUME ~ \E m \in requests, label \in Commands, ts \in Connections :
                   RootHandles(m, label, ts)
        PROVE  RepliesFinal /\ OneRun
    BY <1>2, <2>2 DEF RootNext, RootWelcomes, LinkBreaks, RootReboots, rootIdle,
       RepliesFinal, OneRun
  <2> QED BY <2>1, <2>2
<1>3. ASSUME NEW c \in Commands, DeadlinePasses(c) PROVE RepliesFinal /\ OneRun
  BY <1>3 DEF DeadlinePasses, RepliesFinal, OneRun
<1>4. CASE UNCHANGED vars
  BY <1>4 DEF vars, RepliesFinal, OneRun
<1>5. CASE SelectNext
  <2>1. runs' = runs
    BY <1>5 DEF SelectNext, SendRejected, SendWritten, SendFails, ControlMessage,
       ConnectionLost, InventoryArrives, Welcome, Replay, ResultIgnored, ResultAnswers,
       ResultMismatch, Response, Maintenance
  <2> QED BY <1>5, <2>1, SelectFinal DEF OneRun
<1> QED BY <1>1, <1>2, <1>3, <1>4, <1>5, OfflineFinal DEF Next

-----------------------------------------------------------------------------
(* The refinement *)

(* Every step is one of the promise, or leaves what it speaks of alone. *)
LEMMA PromiseStep ==
  ASSUME EffectInv, EffectInv', [Next]_vars
  PROVE  [Promise!Next]_(Promise!promiseVars)
<1> DEFINE f == [c \in Commands |-> OutcomeOf(c)']
<1>1. RepliesFinal /\ OneRun
  BY FinalStep DEF EffectInv, CommandInv
<1>2. \A c \in Commands : runs[c] \in Nat /\ runs[c] <= 1 /\ runs'[c] \in Nat /\ runs'[c] <= 1
  BY DEF EffectInv, AtMostOneEffect, RootTypes
<1>3. ASSUME NEW c \in Commands, runs' = [runs EXCEPT ![c] = @ + 1]
      PROVE  Promise!TakeEffect(c)
  <2>1. runs'[c] = runs[c] + 1 /\ runs[c] = 0
    BY <1>2, <1>3 DEF EffectInv, RootTypes
  <2>2. runs' = [runs EXCEPT ![c] = 1]
    BY <1>3, <2>1
  <2>3. reply[c] \notin Rejections
    <3>1. SUFFICES ASSUME reply[c] \in Rejections PROVE FALSE
      OBVIOUS
    <3>2. reply'[c] = reply[c]
      BY <1>1, <3>1 DEF RepliesFinal, Rejections
    <3>3. runs'[c] = 0
      BY <3>1, <3>2 DEF EffectInv, RejectedNeverRuns
    <3> QED BY <2>1, <3>3
  <2>4. OutcomeOf(c) # "rejected"
    BY <2>3 DEF OutcomeOf
  <2> QED BY <2>1, <2>2, <2>4 DEF Promise!TakeEffect
<1>4. (\E c \in Commands : Promise!TakeEffect(c)) \/ UNCHANGED runs
  BY <1>1, <1>3 DEF OneRun
<1>5. f \in [Commands -> Promise!Outcomes]
  BY DEF OutcomeOf, Promise!Outcomes
<1>6. ASSUME NEW c \in Commands, OutcomeOf(c)' # OutcomeOf(c)
      PROVE  /\ OutcomeOf(c) = "none"
             /\ OutcomeOf(c)' = "answered" => runs'[c] = 1
             /\ OutcomeOf(c)' = "rejected" => runs'[c] = 0
  <2>1. reply'[c] # reply[c]
    BY <1>6 DEF OutcomeOf
  <2>2. OutcomeOf(c) = "none"
    BY <1>1, <2>1 DEF RepliesFinal, OutcomeOf, Rejections
  <2>3. OutcomeOf(c)' = "answered" => reply'[c] = "answered"
    BY DEF OutcomeOf
  <2>4. OutcomeOf(c)' = "rejected" => reply'[c] \in Rejections
    BY DEF OutcomeOf
  <2>5. reply'[c] = "answered" => runs'[c] = 1
    BY <1>2 DEF EffectInv, AnsweredRan
  <2>6. reply'[c] \in Rejections => runs'[c] = 0
    BY DEF EffectInv, RejectedNeverRuns
  <2> QED BY <2>2, <2>3, <2>4, <2>5, <2>6
<1>7. Promise!Resolve(f)
  BY <1>6 DEF Promise!Resolve
<1> QED BY <1>4, <1>5, <1>7 DEF Promise!Next

(* The initial states are initial states of the promise.                   *)
LEMMA PromiseInit == Init => Promise!Init
BY DEF Init, Promise!Init, OutcomeOf, Rejections

(* The worker, its queue, connections, replays and restarts, together with *)
(* the root, implement the promise to callers (RootService::send).         *)
THEOREM PromiseKept == Spec => KeepsPromise
<1>1. EffectInv /\ EffectInv' /\ [Next]_vars => [Promise!Next]_(Promise!promiseVars)
  BY PromiseStep
<1> QED BY <1>1, PromiseInit, EffectsCorrect, PTL DEF Spec, KeepsPromise, Promise!Spec

-----------------------------------------------------------------------------
(* What the worker writes to the root *)

(* What was written is pending, or its caller was told. *)
WrittenInv ==
  \A c \in Commands : written[c] # <<>> => c \in DOMAIN pending \/ reply[c] # "none"

(* A pending command was written as the map has it, last on a connection   *)
(* that is not a later one, and an earlier one if it is to be replayed.    *)
ItemInv ==
  \A c \in DOMAIN pending :
    /\ written[c] # <<>>
    /\ pending[c].conn <= conn
    /\ pending[c].replay => pending[c].conn < conn
    /\ \A i \in 1..Len(written[c]) :
         /\ written[c][i].mac = pending[c].mac
         /\ written[c][i].sess = pending[c].sess
         /\ written[c][i].conn <= pending[c].conn

(* The inductive invariant about what was written.                         *)
WriteInv == WrittenInv /\ ItemInv /\ ReplaysAreFaithful

(* After WELCOME nobody in the queue has given up. *)
LateInv == welcomed => Elements(queue) \cap gaveUp = {}

-----------------------------------------------------------------------------
(* Steps that write nothing *)

(* Items leave the pending map with a reply, or stay as they are; a replay *)
(* is wanted of those written on an earlier connection.                    *)
Kept ==
  /\ written' = written /\ conn' >= conn
  /\ DOMAIN pending' \subseteq DOMAIN pending
  /\ \A c \in DOMAIN pending : c \in DOMAIN pending' \/ reply'[c] # "none"
  /\ \A c \in DOMAIN pending' :
       /\ pending'[c].mac = pending[c].mac
       /\ pending'[c].sess = pending[c].sess
       /\ pending'[c].conn = pending[c].conn
       /\ pending'[c].replay => pending[c].replay \/ pending[c].conn < conn

(* Such a step keeps the invariant.                                        *)
LEMMA KeptStep ==
  ASSUME TypeOK, TypeOK', WriteInv, RepliesFinal, Kept
  PROVE  WriteInv'
<1>1. \A c \in DOMAIN pending : pending[c].conn \in Nat /\ conn \in Nat /\ conn' \in Nat
  BY DEF PendingType, PendingItem, WorkerTypes, Connections
<1>2. WrittenInv'
  BY DEF WriteInv, WrittenInv, Kept, RepliesFinal
<1>3. ItemInv'
  <2> SUFFICES ASSUME NEW c \in DOMAIN pending'
               PROVE  /\ written[c] # <<>>
                      /\ pending'[c].conn <= conn'
                      /\ pending'[c].replay => pending'[c].conn < conn'
                      /\ \A i \in 1..Len(written[c]) :
                           /\ written[c][i].mac = pending'[c].mac
                           /\ written[c][i].sess = pending'[c].sess
                           /\ written[c][i].conn <= pending'[c].conn
    BY DEF ItemInv, Kept
  <2>1. c \in DOMAIN pending
    BY DEF Kept
  <2>2. pending[c].conn <= conn /\ (pending[c].replay => pending[c].conn < conn)
    BY <2>1 DEF WriteInv, ItemInv
  <2>3. pending'[c].conn <= conn' /\ (pending'[c].replay => pending'[c].conn < conn')
    BY <1>1, <2>1, <2>2 DEF Kept
  <2> QED BY <2>1, <2>3 DEF WriteInv, ItemInv, Kept
<1>4. ReplaysAreFaithful'
  BY DEF WriteInv, ReplaysAreFaithful, Kept
<1> QED BY <1>2, <1>3, <1>4 DEF WriteInv

(* The usual way out of the map: with the error of the item. *)
LEMMA DropKept ==
  ASSUME TypeOK, NEW S, pending' = Without(pending, S), reply' = ErrorsFor(pending, S),
         written' = written, conn' = conn
  PROVE  Kept
<1>1. /\ DOMAIN pending' = DOMAIN pending \ S
      /\ \A c \in DOMAIN pending' : pending'[c] = pending[c]
  BY PendingDropped
<1>2. \A c \in DOMAIN pending : c \in DOMAIN pending' \/ reply'[c] # "none"
  BY <1>1, ErrorIsOpen DEF ErrorsFor, PendingType
<1>3. conn \in Nat
  BY DEF WorkerTypes, Connections
<1> QED BY <1>1, <1>2, <1>3 DEF Kept

(* The end of a connection. *)
LEMMA CloseKept ==
  ASSUME TypeOK, NEW p, NEW told, CloseConnection(p, told),
         DOMAIN p \subseteq DOMAIN pending, \A c \in DOMAIN p : p[c] = pending[c],
         \A c \in DOMAIN pending \ DOMAIN p : told[c] # "none",
         written' = written, conn' = conn
  PROVE  Kept
<1> DEFINE R == NonResumable(p) \cup Expired(p)
<1>1. /\ DOMAIN pending' = DOMAIN p \ R
      /\ \A c \in DOMAIN pending' : pending'[c] = p[c]
  <2>1. ASSUME NEW X
        PROVE  /\ DOMAIN Without(p, X) = DOMAIN p \ X
               /\ \A c \in DOMAIN p \ X : Without(p, X)[c] = p[c]
    BY DEF Without, Restrict
  <2> QED BY <2>1 DEF CloseConnection
<1>2. ASSUME NEW c \in DOMAIN pending, c \notin DOMAIN pending' PROVE reply'[c] # "none"
  <2>1. c \in Commands
    BY DEF PendingType
  <2>2. reply'[c] = IF c \in NonResumable(p) THEN "interrupted"
                    ELSE IF c \in Expired(p) THEN PendingError(p[c]) ELSE told[c]
    BY <2>1 DEF CloseConnection
  <2>3. c \in R \/ c \notin DOMAIN p
    BY <1>1, <1>2
  <2> QED BY <2>2, <2>3, ErrorIsOpen DEF NonResumable, Expired
<1>3. conn \in Nat
  BY DEF WorkerTypes, Connections
<1> QED BY <1>1, <1>2, <1>3 DEF Kept

(* Nothing about the pending map changes. *)
LEMMA SameKept ==
  ASSUME TypeOK, UNCHANGED <<pending, written, conn>>
  PROVE  Kept
<1>1. conn \in Nat
  BY DEF WorkerTypes, Connections
<1> QED BY <1>1 DEF Kept

(* Without a connection nothing is written.                                *)
LEMMA OfflineKept == ASSUME TypeOK, OfflineNext PROVE Kept
<1>1. CASE WorkerExits
  BY <1>1, DropKept DEF WorkerExits, FailAllPending
<1>2. ASSUME NEW readable \in BOOLEAN, LoopTop(readable) PROVE Kept
  BY <1>2, DropKept DEF LoopTop, ExpirePending
<1>3. CASE ProbeSucceeds
  <2>1. CASE rootFabric
    BY <1>3, <2>1, SameKept DEF ProbeSucceeds
  <2>2. CASE ~rootFabric
    BY <1>3, <2>2, DropKept DEF ProbeSucceeds, FailAllPending
  <2> QED BY <2>1, <2>2
<1>4. CASE ConnectSucceeds
  <2>1. conn \in Nat /\ conn' = conn + 1 /\ UNCHANGED <<pending, written>>
    BY <1>4 DEF ConnectSucceeds, WorkerTypes, Connections
  <2> QED BY <2>1 DEF Kept
<1>5. ASSUME RejectUntilWake \/ (\E u \in BOOLEAN : ProbeFails(u)) \/ ConnectFails
             \/ OfflineIdle \/ OfflineReject
             \/ \E fresh \in [Owners -> Routes], executed, answered \in BOOLEAN :
                  OfflineBle(fresh, executed, answered)
      PROVE  Kept
  <2>1. UNCHANGED <<pending, written, conn>>
    BY <1>5 DEF RejectUntilWake, ProbeFails, ConnectFails, OfflineIdle, OfflineReject,
       OfflineBle
  <2> QED BY <2>1, SameKept
<1> QED BY <1>1, <1>2, <1>3, <1>4, <1>5 DEF OfflineNext

(* The root, callers and clocks leave items and writes alone. *)
LEMMA OthersKept ==
  ASSUME TypeOK, CallerNext \/ RootNext \/ \E c \in Commands : DeadlinePasses(c)
  PROVE  Kept
<1>1. ASSUME NEW c \in Commands, DeadlinePasses(c) PROVE Kept
  <2>1. /\ DOMAIN pending' = DOMAIN pending /\ UNCHANGED <<written, conn>>
        /\ \A d \in DOMAIN pending :
             /\ pending'[d].mac = pending[d].mac /\ pending'[d].sess = pending[d].sess
             /\ pending'[d].conn = pending[d].conn
             /\ pending'[d].replay = pending[d].replay
    BY <1>1 DEF DeadlinePasses, PendingType, PendingItem
  <2>2. conn \in Nat
    BY DEF WorkerTypes, Connections
  <2> QED BY <2>1, <2>2 DEF Kept
<1>2. CASE CallerNext
  BY <1>2, SameKept DEF CallerNext, Send, GiveUp, ChangePairing, StopService,
     StartService
<1>3. CASE RootNext
  BY <1>3, SameKept DEF RootNext, RootWelcomes, RootHandles, LinkBreaks, RootReboots,
     rootIdle
<1> QED BY <1>1, <1>2, <1>3

(* WELCOME marks for replay what was written on earlier connections. *)
LEMMA WelcomeKept == ASSUME TypeOK, WriteInv, Welcome PROVE Kept
<1> DEFINE s == Head(inbox).sess
           lost == LostInReset(pending, s)
           kept == Without(pending, lost)
<1>1. /\ pending' = Reconciled(pending, s, conn)
      /\ reply' = ErrorsFor(pending, lost) /\ UNCHANGED <<written, conn>>
  BY DEF Welcome
<1> HIDE DEF s
<1>2. DOMAIN kept = DOMAIN pending \ lost /\ \A c \in DOMAIN kept : kept[c] = pending[c]
  BY PendingDropped
<1>3. /\ DOMAIN pending' = DOMAIN kept
      /\ \A c \in DOMAIN kept :
           pending'[c] = IF c \in Resumable(kept, s, conn)
                         THEN [kept[c] EXCEPT !.replay = TRUE] ELSE kept[c]
  BY <1>1 DEF Reconciled
<1>4. \A c \in DOMAIN kept : kept[c] \in PendingItem
  BY <1>2 DEF PendingType
<1>5. conn \in Nat /\ \A c \in DOMAIN pending : pending[c].conn \in Nat
  BY DEF PendingType, PendingItem, WorkerTypes, Connections
<1>6. \A c \in Resumable(kept, s, conn) : kept[c].conn # conn
  BY DEF Resumable
<1> HIDE DEF kept, lost
<1>7. ASSUME NEW c \in DOMAIN pending'
      PROVE  /\ pending'[c].mac = pending[c].mac
             /\ pending'[c].sess = pending[c].sess
             /\ pending'[c].conn = pending[c].conn
             /\ pending'[c].replay => pending[c].replay \/ pending[c].conn < conn
  <2>1. kept[c] \in PendingItem /\ kept[c] = pending[c]
    BY <1>2, <1>3, <1>4
  <2>2. CASE c \in Resumable(kept, s, conn)
    <3>1. pending'[c] = [kept[c] EXCEPT !.replay = TRUE]
      BY <1>3, <2>2
    <3>2. pending[c].conn < conn
      <4>1. pending[c].conn <= conn /\ pending[c].conn # conn
        BY <1>2, <1>3, <1>6, <2>1, <2>2 DEF WriteInv, ItemInv
      <4> QED BY <1>2, <1>3, <1>5, <4>1
    <3> QED BY <2>1, <3>1, <3>2 DEF PendingItem
  <2>3. CASE c \notin Resumable(kept, s, conn)
    BY <1>3, <2>1, <2>3
  <2> QED BY <2>2, <2>3
<1>8. \A c \in DOMAIN pending : c \in DOMAIN pending' \/ reply'[c] # "none"
  BY <1>1, <1>2, <1>3, ErrorIsOpen DEF ErrorsFor, PendingType
<1> QED BY <1>1, <1>2, <1>3, <1>5, <1>7, <1>8 DEF Kept

-----------------------------------------------------------------------------
(* Writes *)

(* A command is written with its item of the pending map. *)
LEMMA WireWrites ==
  ASSUME TypeOK, NEW c \in Commands, NEW item \in PendingItem, PutOnWire(c, item)
  PROVE  /\ \A d \in Commands : d # c => written'[d] = written[d]
         /\ written'[c] = Append(written[c], [conn |-> conn, sess |-> item.sess,
                                              mac |-> item.mac])
         /\ written[c] \in Seq(Write)
BY DEF PutOnWire

(* A first write: the head of the queue was not written before. *)
LEMMA FirstWrite ==
  ASSUME TypeOK, CommandInv, WriteInv, queue # <<>>, Head(queue) \in Commands,
         Sendable(Head(queue)), PutOnWire(Head(queue), NewItem(Head(queue)))
  PROVE  /\ written[Head(queue)] = <<>>
         /\ written'[Head(queue)] =
              << [conn |-> conn, sess |-> session, mac |-> inventory[OwnerOf[Head(queue)]]] >>
         /\ \A d \in Commands : d # Head(queue) => written'[d] = written[d]
<1> DEFINE c == Head(queue)
<1>1. written[c] = <<>>
  BY Unanswered DEF WriteInv, WrittenInv
<1>2. NewItem(c) \in PendingItem
  BY NewItemType
<1>3. NewItem(c).sess = session /\ NewItem(c).mac = inventory[OwnerOf[c]]
  BY DEF NewItem
<1>4. /\ \A d \in Commands : d # c => written'[d] = written[d]
      /\ written'[c] = Append(written[c], [conn |-> conn, sess |-> session,
                                           mac |-> inventory[OwnerOf[c]]])
  BY <1>2, <1>3, WireWrites
<1> QED BY <1>1, <1>4

(* A first write, or a replay, of the head of the queue.                   *)
LEMMA SendWrittenWrites ==
  ASSUME TypeOK, CommandInv, WriteInv, SendWritten PROVE WriteInv'
<1> DEFINE c == Head(queue)
           item == NewItem(c)
           entry == [conn |-> conn, sess |-> session, mac |-> inventory[OwnerOf[c]]]
<1>1. /\ c \in Commands /\ written'[c] = <<entry>>
      /\ \A d \in Commands : d # c => written'[d] = written[d]
      /\ pending' = With(pending, c, item) /\ UNCHANGED <<reply, conn>>
  BY FirstWrite DEF SendWritten, SelectQueue
<1>2. item.conn = conn /\ item.sess = session /\ item.mac = inventory[OwnerOf[c]]
      /\ item.replay = FALSE /\ conn \in Nat
  BY DEF NewItem, WorkerTypes, Connections
<1>3. /\ DOMAIN pending' = DOMAIN pending \cup {c} /\ pending'[c] = item
      /\ \A d \in DOMAIN pending : d # c => pending'[d] = pending[d]
      /\ DOMAIN pending \subseteq Commands
  BY <1>1 DEF With, PendingType
<1> HIDE DEF c, item
<1>4. Len(written'[c]) = 1 /\ written'[c][1] = entry /\ written'[c] # <<>>
  BY <1>1
<1>5. WrittenInv'
  BY <1>1, <1>3 DEF WriteInv, WrittenInv
<1>6. ItemInv'
  <2> SUFFICES ASSUME NEW d \in DOMAIN pending'
               PROVE  /\ written'[d] # <<>>
                      /\ pending'[d].conn <= conn
                      /\ pending'[d].replay => pending'[d].conn < conn
                      /\ \A i \in 1..Len(written'[d]) :
                           /\ written'[d][i].mac = pending'[d].mac
                           /\ written'[d][i].sess = pending'[d].sess
                           /\ written'[d][i].conn <= pending'[d].conn
    BY <1>1 DEF ItemInv
  <2>1. CASE d = c
    BY <1>2, <1>3, <1>4, <2>1
  <2>2. CASE d # c
    BY <1>1, <1>3, <2>2 DEF WriteInv, ItemInv
  <2> QED BY <2>1, <2>2
<1>7. ReplaysAreFaithful'
  BY <1>1, <1>4 DEF WriteInv, ReplaysAreFaithful
<1> QED BY <1>5, <1>6, <1>7 DEF WriteInv

(* A write that fails is not one the root receives.                        *)
LEMMA SendFailsWrites ==
  ASSUME TypeOK, CommandInv, WriteInv, RepliesFinal, NEW left \in BOOLEAN, SendFails(left)
  PROVE  WriteInv'
<1> DEFINE c == Head(queue)
           entry == [conn |-> conn, sess |-> session, mac |-> inventory[OwnerOf[c]]]
           R == NonResumable(pending) \cup Expired(pending)
<1>1. /\ c \in Commands /\ UNCHANGED conn
      /\ \A d \in Commands : d # c => written'[d] = written[d]
      /\ written'[c] = written[c] \/ written'[c] = <<entry>>
  <2>1. CASE left
    BY <2>1, FirstWrite DEF SendFails, SelectQueue
  <2>2. CASE ~left
    BY <2>2 DEF SendFails, SelectQueue
  <2> QED BY <2>1, <2>2
<1>2. c \notin DOMAIN pending
  BY Unanswered DEF SendFails, SelectQueue
<1>3. /\ DOMAIN pending' = DOMAIN pending \ R
      /\ \A d \in DOMAIN pending' : pending'[d] = pending[d]
  BY PendingDropped DEF SendFails, CloseConnection
<1>4. /\ reply'[c] # "none"
      /\ \A d \in DOMAIN pending : d \in DOMAIN pending' \/ reply'[d] # "none"
  <2>1. \A d \in Commands :
          reply'[d] = IF d \in NonResumable(pending) THEN "interrupted"
                      ELSE IF d \in Expired(pending) THEN PendingError(pending[d])
                      ELSE Tell({c}, "write_error")[d]
    BY DEF SendFails, CloseConnection
  <2>2. Tell({c}, "write_error")[c] = "write_error"
    BY <1>1 DEF Tell
  <2>3. \A d \in DOMAIN pending : d \in Commands
    BY DEF PendingType
  <2> HIDE DEF c
  <2> QED BY <1>1, <1>3, <2>1, <2>2, <2>3, ErrorIsOpen
<1> HIDE DEF c, R
<1>5. WrittenInv'
  BY <1>1, <1>4 DEF WriteInv, WrittenInv, RepliesFinal
<1>6. ItemInv'
  <2>1. \A d \in DOMAIN pending' :
          d \in DOMAIN pending /\ d \in Commands /\ d # c /\ written'[d] = written[d]
    BY <1>1, <1>2, <1>3 DEF PendingType
  <2> QED BY <1>1, <1>3, <2>1 DEF WriteInv, ItemInv
<1>7. ReplaysAreFaithful'
  <2>1. CASE written'[c] = written[c]
    BY <1>1, <2>1 DEF WriteInv, ReplaysAreFaithful
  <2>2. CASE written'[c] = <<entry>>
    <3>1. Len(written'[c]) = 1 /\ written'[c][1] = entry
      BY <2>2
    <3> QED BY <1>1, <3>1 DEF WriteInv, ReplaysAreFaithful
  <2> QED BY <1>1, <2>1, <2>2
<1> QED BY <1>5, <1>6, <1>7 DEF WriteInv

(* A replay repeats the first write on a later connection. *)
LEMMA ReplayWrites ==
  ASSUME TypeOK, CommandInv, WriteInv, NEW c \in Commands, Replay(c) PROVE WriteInv'
<1> DEFINE item == [pending[c] EXCEPT !.sess = session]
           entry == [conn |-> conn, sess |-> session, mac |-> pending[c].mac]
<1>1. /\ c \in DOMAIN pending /\ pending[c].sess = session /\ pending[c].replay
      /\ UNCHANGED <<reply, conn>> /\ conn \in Nat
      /\ pending[c] \in PendingItem
  BY DEF Replay, ReplayDue, PendingType, WorkerTypes, Connections
<1>2. item \in PendingItem /\ item.sess = session /\ item.mac = pending[c].mac
  BY <1>1 DEF PendingItem, WorkerTypes
<1>3. /\ \A d \in Commands : d # c => written'[d] = written[d]
      /\ written'[c] = Append(written[c], entry) /\ written[c] \in Seq(Write)
  BY <1>2, WireWrites DEF Replay
<1>4. /\ DOMAIN pending' = DOMAIN pending
      /\ pending'[c].conn = conn /\ pending'[c].replay = FALSE
      /\ pending'[c].mac = pending[c].mac /\ pending'[c].sess = pending[c].sess
      /\ \A d \in DOMAIN pending : d # c => pending'[d] = pending[d]
  BY <1>1 DEF Replay, MarkReplayed, PendingItem
<1> HIDE DEF item
<1>5. /\ Len(written[c]) \in Nat /\ Len(written'[c]) = Len(written[c]) + 1
      /\ written'[c][Len(written[c]) + 1] = entry
      /\ \A i \in 1..Len(written[c]) :
           /\ written'[c][i] = written[c][i] /\ written[c][i].conn \in Nat
           /\ written[c][i].mac = pending[c].mac
           /\ written[c][i].sess = pending[c].sess
           /\ written[c][i].conn < conn
  <2>1. /\ Len(written[c]) \in Nat /\ Len(written'[c]) = Len(written[c]) + 1
        /\ written'[c][Len(written[c]) + 1] = entry
        /\ \A i \in 1..Len(written[c]) : written'[c][i] = written[c][i]
    BY <1>3
  <2>2. ASSUME NEW i \in 1..Len(written[c])
        PROVE  /\ written[c][i].conn \in Nat /\ written[c][i].conn < conn
               /\ written[c][i].mac = pending[c].mac
               /\ written[c][i].sess = pending[c].sess
    <3>1. written[c][i] \in Write
      BY <1>3
    <3>2. written[c][i].conn \in Nat /\ pending[c].conn \in Nat
      BY <1>1, <3>1 DEF Write, Connections, PendingItem
    <3>3. /\ written[c][i].conn <= pending[c].conn /\ pending[c].conn < conn
          /\ written[c][i].mac = pending[c].mac /\ written[c][i].sess = pending[c].sess
      BY <1>1 DEF WriteInv, ItemInv
    <3> QED BY <1>1, <3>2, <3>3
  <2> QED BY <2>1, <2>2
<1>6. WrittenInv'
  BY <1>1, <1>3, <1>4 DEF WriteInv, WrittenInv
<1>7. \A i \in 1..Len(written'[c]) :
        /\ written'[c][i].mac = pending[c].mac
        /\ written'[c][i].sess = pending[c].sess
        /\ written'[c][i].conn <= conn
  BY <1>1, <1>5
<1>8. ItemInv'
  <2> SUFFICES ASSUME NEW d \in DOMAIN pending
               PROVE  /\ written'[d] # <<>>
                      /\ pending'[d].conn <= conn
                      /\ pending'[d].replay => pending'[d].conn < conn
                      /\ \A i \in 1..Len(written'[d]) :
                           /\ written'[d][i].mac = pending'[d].mac
                           /\ written'[d][i].sess = pending'[d].sess
                           /\ written'[d][i].conn <= pending'[d].conn
    BY <1>1, <1>4 DEF ItemInv
  <2>1. CASE d = c
    <3>1. written'[c] # <<>>
      BY <1>5
    <3> QED BY <1>1, <1>4, <1>7, <2>1, <3>1
  <2>2. CASE d # c
    <3>1. d \in Commands
      BY DEF PendingType
    <3> QED BY <1>3, <1>4, <2>2, <3>1 DEF WriteInv, ItemInv
  <2> QED BY <2>1, <2>2
<1>9. \A i, j \in 1..Len(written'[c]) :
        /\ written'[c][i].mac = written'[c][j].mac
        /\ written'[c][i].sess = written'[c][j].sess
        /\ i < j => written'[c][i].conn < written'[c][j].conn
  <2> SUFFICES ASSUME NEW i \in 1..Len(written'[c]), NEW j \in 1..Len(written'[c]), i < j
               PROVE  written'[c][i].conn < written'[c][j].conn
    BY <1>7
  <2>1. i \in 1..Len(written[c])
    BY <1>5
  <2>2. CASE j \in 1..Len(written[c])
    BY <1>5, <2>1, <2>2 DEF WriteInv, ReplaysAreFaithful
  <2>3. CASE j = Len(written[c]) + 1
    BY <1>5, <2>1, <2>3
  <2> QED BY <1>5, <2>2, <2>3
<1>10. ReplaysAreFaithful'
  <2> SUFFICES ASSUME NEW d \in Commands,
                      NEW i \in 1..Len(written'[d]), NEW j \in 1..Len(written'[d])
               PROVE  /\ written'[d][i].mac = written'[d][j].mac
                      /\ written'[d][i].sess = written'[d][j].sess
                      /\ i < j => written'[d][i].conn < written'[d][j].conn
    BY DEF ReplaysAreFaithful
  <2>1. CASE d = c
    BY <1>9, <2>1
  <2>2. CASE d # c
    <3>1. written'[d] = written[d]
      BY <1>3, <2>2
    <3> QED BY <3>1 DEF WriteInv, ReplaysAreFaithful
  <2> QED BY <2>1, <2>2
<1> QED BY <1>6, <1>8, <1>10 DEF WriteInv

-----------------------------------------------------------------------------
(* Every step *)

(* The steps of a connected worker.                                        *)
LEMMA SelectWrites ==
  ASSUME TypeOK, TypeOK', CommandInv, WriteInv, RepliesFinal, SelectNext PROVE WriteInv'
<1> USE DEF SelectQueue, SelectFrame, SelectReady
<1>1. CASE SendWritten
  BY <1>1, SendWrittenWrites
<1>2. ASSUME NEW left \in BOOLEAN, SendFails(left) PROVE WriteInv'
  BY <1>2, SendFailsWrites
<1>3. ASSUME NEW c \in Commands, Replay(c) PROVE WriteInv'
  BY <1>3, ReplayWrites
<1>4. CASE Welcome
  BY <1>4, WelcomeKept, KeptStep
<1>5. ASSUME SendRejected \/ ResultIgnored
             \/ \E routes \in [Owners -> Routes] : InventoryArrives(routes)
      PROVE  WriteInv'
  <2>1. UNCHANGED <<pending, written, conn>>
    BY <1>5 DEF SendRejected, ResultIgnored, InventoryArrives
  <2> QED BY <2>1, SameKept, KeptStep
<1>6. CASE ControlMessage \/ ConnectionLost
  <2>1. CloseConnection(pending, reply) /\ UNCHANGED <<written, conn>>
    BY <1>6 DEF ControlMessage, ConnectionLost
  <2> QED BY <2>1, CloseKept, KeptStep
<1>7. ASSUME NEW c, c \in DOMAIN pending, pending' = Without(pending, {c}),
             reply' = Tell({c}, "answered"), UNCHANGED <<written, conn>>
      PROVE  WriteInv'
  <2>1. /\ DOMAIN pending' = DOMAIN pending \ {c}
        /\ \A d \in DOMAIN pending' : pending'[d] = pending[d]
    BY <1>7, PendingDropped
  <2>2. reply'[c] # "none"
    BY <1>7 DEF Tell, PendingType
  <2>3. conn \in Nat
    BY DEF WorkerTypes, Connections
  <2>4. \A d \in DOMAIN pending : d \in DOMAIN pending' \/ reply'[d] # "none"
    BY <2>1, <2>2
  <2>5. DOMAIN pending' \subseteq DOMAIN pending /\ written' = written /\ conn' >= conn
    BY <1>7, <2>1, <2>3
  <2>6. Kept
    BY <2>1, <2>4, <2>5 DEF Kept
  <2> QED BY <2>6, KeptStep
<1>8. CASE ResultAnswers
  <2> DEFINE c == Head(inbox).cmd
  <2>1. /\ c \in DOMAIN pending /\ pending' = Without(pending, {c})
        /\ reply' = Tell({c}, "answered") /\ UNCHANGED <<written, conn>>
    BY <1>8 DEF ResultAnswers
  <2> HIDE DEF c
  <2> QED BY <1>7, <2>1
<1>9. CASE Response
  <2> DEFINE c == Head(inbox).cmd
  <2>1. CASE c \in DOMAIN pending
    <3>1. /\ pending' = Without(pending, {c})
          /\ reply' = Tell({c}, "answered") /\ UNCHANGED <<written, conn>>
      BY <1>9, <2>1 DEF Response
    <3> HIDE DEF c
    <3> QED BY <1>7, <2>1, <3>1
  <2>2. CASE c \notin DOMAIN pending
    <3>1. UNCHANGED <<pending, written, conn>>
      BY <1>9, <2>2 DEF Response
    <3> QED BY <3>1, SameKept, KeptStep
  <2> QED BY <2>1, <2>2
<1>10. CASE ResultMismatch
  <2> DEFINE c == Head(inbox).cmd
             p == Without(pending, {c})
             told == Tell({c}, "mismatch")
  <2>0. UNCHANGED <<written, conn>>
    BY <1>10 DEF ResultMismatch
  <2>1. CASE CloseConnection(pending, reply)
    BY <2>0, <2>1, CloseKept, KeptStep
  <2>2. CASE c \in DOMAIN pending /\ CloseConnection(p, told)
    <3>1. DOMAIN p = DOMAIN pending \ {c} /\ \A d \in DOMAIN p : p[d] = pending[d]
      BY PendingDropped
    <3>2. told[c] # "none"
      BY <2>2 DEF Tell, PendingType
    <3>3. CloseConnection(p, told)
      BY <2>2
    <3> HIDE DEF p, told, c
    <3>4. DOMAIN p \subseteq DOMAIN pending /\ \A d \in DOMAIN pending \ DOMAIN p : told[d] # "none"
      BY <3>1, <3>2
    <3> QED BY <2>0, <3>1, <3>3, <3>4, CloseKept, KeptStep
  <2> QED BY <1>10, <2>1, <2>2 DEF ResultMismatch
<1>11. CASE Maintenance
  BY <1>11, DropKept, KeptStep DEF Maintenance, ExpirePending
<1> QED BY <1>1, <1>2, <1>3, <1>4, <1>5, <1>6, <1>8, <1>9, <1>10, <1>11 DEF SelectNext

(* Every step keeps both invariants.                                       *)
LEMMA WriteStep ==
  ASSUME TypeOK, TypeOK', CommandInv, WriteInv, [Next]_vars PROVE WriteInv'
<1>1. RepliesFinal
  BY FinalStep
<1>2. CASE UNCHANGED vars
  <2>1. UNCHANGED <<pending, written, conn>>
    BY <1>2 DEF vars
  <2> QED BY <1>1, <2>1, SameKept, KeptStep
<1>3. CASE SelectNext
  BY <1>1, <1>3, SelectWrites
<1>4. CASE OfflineNext
  BY <1>1, <1>4, OfflineKept, KeptStep
<1>5. CASE CallerNext \/ RootNext \/ \E c \in Commands : DeadlinePasses(c)
  BY <1>1, <1>5, OthersKept, KeptStep
<1> QED BY <1>2, <1>3, <1>4, <1>5 DEF Next

(* The queue loses its head or grows by a command nobody asked for. *)
LEMMA LateStep == ASSUME TypeOK, LateInv, [Next]_vars PROVE LateInv'
<1>0. queue \in Seq(Commands \cup {Wake, Stop}) /\ gaveUp \subseteq Commands
  BY DEF CallerTypes
<1>1. ASSUME gaveUp' = gaveUp, queue' = queue \/ (queue # <<>> /\ queue' = Tail(queue)),
             welcomed' => welcomed
      PROVE  LateInv'
  <2>1. Elements(queue') \subseteq Elements(queue)
    BY <1>0, <1>1, TailElements
  <2> QED BY <1>1, <2>1 DEF LateInv
<1>2. ASSUME NEW x \in Commands \cup {Wake, Stop}, queue' = Append(queue, x),
             x \notin gaveUp, UNCHANGED <<gaveUp, welcomed>>
      PROVE  LateInv'
  <2>1. Elements(queue') = Elements(queue) \cup {x}
    BY <1>0, <1>2, AppendElements
  <2> QED BY <1>2, <2>1 DEF LateInv
<1>3. ASSUME queue' = <<>> PROVE LateInv'
  BY <1>3, EmptyElements DEF LateInv
<1>4. CASE CallerNext
  <2>1. ASSUME NEW c \in Commands, Send(c) PROVE LateInv'
    BY <1>2, <2>1 DEF Send, Asked
  <2>2. ASSUME NEW c \in Commands, GiveUp(c) PROVE LateInv'
    BY <2>2 DEF GiveUp, LateInv
  <2>3. ASSUME NEW stored \in BOOLEAN, ChangePairing(stored) PROVE LateInv'
    BY <1>0, <1>2, <2>3 DEF ChangePairing
  <2>4. CASE StopService
    BY <1>0, <1>2, <2>4 DEF StopService
  <2>5. CASE StartService
    BY <1>1, <2>5 DEF StartService
  <2> QED BY <1>4, <2>1, <2>2, <2>3, <2>4, <2>5 DEF CallerNext
<1>5. CASE OfflineNext
  <2>1. CASE WorkerExits
    BY <1>3, <2>1 DEF WorkerExits
  <2>2. CASE ~WorkerExits
    BY <1>1, <1>5, <2>2 DEF OfflineNext, LoopTop, RejectUntilWake, ProbeFails,
       ProbeSucceeds, ConnectFails, ConnectSucceeds, OfflineIdle, OfflineReject, OfflineBle
  <2> QED BY <2>1, <2>2
<1>6. CASE SelectNext
  <2> USE DEF SelectQueue, SelectFrame, SelectReady
  <2>1. CASE Welcome
    BY <1>3, <2>1 DEF Welcome
  <2>2. CASE ~Welcome
    <3>1. gaveUp' = gaveUp
      BY <1>6, <2>2 DEF SelectNext, SendRejected, SendWritten, SendFails,
         ControlMessage,
         ConnectionLost, InventoryArrives, Replay, ResultIgnored, ResultAnswers,
         ResultMismatch, Response, Maintenance
    <3>2. queue' = queue \/ (queue # <<>> /\ queue' = Tail(queue))
      BY <1>6, <2>2 DEF SelectNext, SendRejected, SendWritten, SendFails,
         ControlMessage,
         ConnectionLost, InventoryArrives, Replay, ResultIgnored, ResultAnswers,
         ResultMismatch, Response, Maintenance
    <3>3. welcomed' => welcomed
      BY <1>6, <2>2 DEF SelectNext, SendRejected, SendWritten, SendFails,
         ControlMessage,
         ConnectionLost, InventoryArrives, Replay, ResultIgnored, ResultAnswers,
         ResultMismatch, Response, Maintenance, CloseConnection
    <3> QED BY <1>1, <3>1, <3>2, <3>3
  <2> QED BY <2>1, <2>2
<1>7. CASE RootNext \/ (\E c \in Commands : DeadlinePasses(c)) \/ UNCHANGED vars
  <2>1. UNCHANGED <<queue, gaveUp, welcomed>>
    BY <1>7 DEF RootNext, RootWelcomes, RootHandles, LinkBreaks, RootReboots,
       rootIdle,
       DeadlinePasses, vars
  <2> QED BY <1>1, <2>1
<1> QED BY <1>4, <1>5, <1>6, <1>7 DEF Next

(* Nothing is written at first.                                            *)
LEMMA WriteInit == Init => WriteInv /\ LateInv
<1> SUFFICES ASSUME Init PROVE WriteInv /\ LateInv
  OBVIOUS
<1>1. DOMAIN pending = {} /\ welcomed = FALSE /\ \A c \in Commands : written[c] = <<>>
  BY DEF Init
<1>2. \A c \in Commands : 1..Len(written[c]) = {}
  BY <1>1
<1> QED BY <1>1, <1>2 DEF WriteInv, WrittenInv, ItemInv, ReplaysAreFaithful, LateInv

(* The invariant behind both theorems. *)
LEMMA WritesCorrect == Spec => [](WriteInv /\ LateInv)
<1>1. EffectInv /\ EffectInv' /\ WriteInv /\ LateInv /\ [Next]_vars
        => (WriteInv /\ LateInv)'
  BY WriteStep, LateStep DEF EffectInv, CommandInv
<1> QED BY <1>1, WriteInit, EffectsCorrect, PTL DEF Spec

(* A replay (pending_fabric_replays, mark_pending_replayed) goes to the    *)
(* node and the root session of the first write, once per connection.      *)
THEOREM ReplaysFaithful == Spec => []ReplaysAreFaithful
<1>1. WriteInv => ReplaysAreFaithful
  BY DEF WriteInv
<1> QED BY <1>1, WritesCorrect, PTL

(* A command is written only while its caller was told nothing, and on     *)
(* Fabric first written only while its caller waits (run_wss drains its    *)
(* queue before it reads WELCOME).                                         *)
THEOREM NothingWrittenLate == Spec => NoLateWrite
<1> DEFINE OnTime ==
      \A c \in Commands : written'[c] # written[c] =>
        /\ reply[c] = "none"
        /\ written[c] = <<>> /\ enabled => c \notin gaveUp
<1>1. ASSUME TypeOK, CommandInv, WriteInv, LateInv, [Next]_vars PROVE OnTime
  <2> SUFFICES ASSUME NEW c \in Commands, written'[c] # written[c]
               PROVE  /\ reply[c] = "none"
                      /\ written[c] = <<>> /\ enabled => c \notin gaveUp
    OBVIOUS
  <2>1. ASSUME NEW item, PutOnWire(c, item), queue # <<>>, c = Head(queue), Sendable(c)
        PROVE  reply[c] = "none" /\ (enabled => c \notin gaveUp)
    <3>1. reply[c] = "none" /\ c \in Elements(queue)
      BY <1>1, <2>1, Unanswered
    <3> QED BY <1>1, <2>1, <3>1 DEF Sendable, LateInv
  <2>2. ASSUME NEW d, NEW item, PutOnWire(d, item) PROVE d = c
    BY <2>2 DEF PutOnWire
  <2>3. CASE SendWritten
    BY <2>1, <2>2, <2>3 DEF SendWritten, SelectQueue
  <2>4. ASSUME NEW left \in BOOLEAN, SendFails(left)
        PROVE  reply[c] = "none" /\ (enabled => c \notin gaveUp)
    BY <2>1, <2>2, <2>4 DEF SendFails, SelectQueue
  <2>5. ASSUME NEW d \in Commands, Replay(d)
        PROVE  reply[c] = "none" /\ written[c] # <<>>
    <3>1. d = c /\ c \in DOMAIN pending
      BY <2>2, <2>5 DEF Replay, ReplayDue
    <3> QED BY <1>1, <3>1, Unanswered DEF WriteInv, ItemInv
  <2>6. ASSUME ~SendWritten, ~ \E left \in BOOLEAN : SendFails(left),
               ~ \E d \in Commands : Replay(d)
        PROVE  written' = written
    <3>1. CASE CallerNext
      BY <3>1 DEF CallerNext, Send, GiveUp, ChangePairing, StopService, StartService
    <3>2. CASE OfflineNext
      BY <3>2 DEF OfflineNext, WorkerExits, LoopTop, RejectUntilWake, ProbeFails,
         ProbeSucceeds, ConnectFails, ConnectSucceeds, OfflineIdle, OfflineReject,
         OfflineBle
    <3>3. CASE SelectNext
      BY <2>6, <3>3 DEF SelectNext, SendRejected, ControlMessage, ConnectionLost,
         InventoryArrives, Welcome, ResultIgnored, ResultAnswers, ResultMismatch,
         Response, Maintenance
    <3>4. CASE RootNext \/ (\E d \in Commands : DeadlinePasses(d)) \/ UNCHANGED vars
      BY <3>4 DEF RootNext, RootWelcomes, RootHandles, LinkBreaks, RootReboots,
         rootIdle, DeadlinePasses, vars
    <3> QED BY <1>1, <3>1, <3>2, <3>3, <3>4 DEF Next
  <2> QED BY <2>3, <2>4, <2>5, <2>6
<1>2. EffectInv => TypeOK /\ CommandInv
  BY DEF EffectInv, CommandInv
<1>3. EffectInv /\ WriteInv /\ LateInv /\ [Next]_vars => [OnTime]_vars
  BY <1>1, <1>2
<1> QED BY <1>3, WritesCorrect, EffectsCorrect, PTL DEF Spec, NoLateWrite

-----------------------------------------------------------------------------
(* Results and the CONTROL cursor *)

(* The results and the WELCOME among the frames to the desktop.            *)
IsResult(i) == i \in 1..Len(inbox) /\ inbox[i].kind = "result"
IsWelcome(i) == i \in 1..Len(inbox) /\ inbox[i].kind = "welcome"

(* The root's connection is that of run_wss, which begins with HELLO.      *)
HelloInv ==
  /\ rootConn # 0 => phase = "wss"
  /\ phase # "wss" => inbox = <<>> /\ ~welcomed /\ ~hello
  /\ \A m \in requests : m.conn # 0
  /\ hello => ~welcomed /\ \A i \in 1..Len(inbox) : ~IsResult(i) /\ ~IsWelcome(i)

(* One WELCOME answers it, before any result.                              *)
WelcomeInv ==
  /\ welcomed => \A i \in 1..Len(inbox) : ~IsWelcome(i)
  /\ \A i, j \in 1..Len(inbox) : IsWelcome(i) /\ IsWelcome(j) => i = j
  /\ \A i \in 1..Len(inbox) : IsResult(i) =>
       welcomed \/ \E j \in 1..Len(inbox) : IsWelcome(j) /\ j < i
  /\ rootConn # 0 /\ enabled /\ ~hello =>
       welcomed \/ \E j \in 1..Len(inbox) : IsWelcome(j)

(* The results under way are numbered in order, up to the root's last      *)
(* number and after the cursor there is, or will be after WELCOME.         *)
NumberInv ==
  /\ \A i, j \in 1..Len(inbox) :
       IsResult(i) /\ IsResult(j) /\ i < j => inbox[i].seq < inbox[j].seq
  /\ rootConn # 0 => \A i \in 1..Len(inbox) : IsResult(i) => inbox[i].seq <= rootSeq
  /\ welcomed => \A i \in 1..Len(inbox) : IsResult(i) => inbox[i].seq > cursor
  /\ welcomed /\ rootConn # 0 => cursor <= rootSeq
  /\ \A j \in 1..Len(inbox) : IsWelcome(j) =>
       /\ \A i \in 1..Len(inbox) : IsResult(i) => inbox[i].seq > CursorAfterWelcome(inbox[j])
       /\ rootConn # 0 => CursorAfterWelcome(inbox[j]) <= rootSeq

(* The inductive invariant about results.                                  *)
ResultInv == HelloInv /\ WelcomeInv /\ NumberInv

(* A step that ends a connection, or is out of one.                        *)
HungUp ==
  /\ phase' # "wss" /\ inbox' = <<>> /\ ~welcomed' /\ ~hello' /\ rootConn' = 0
  /\ \A m \in requests' : m.conn # 0

(* Nothing is under way then.                                              *)
LEMMA HungUpStep == ASSUME HungUp PROVE ResultInv'
<1>1. Len(inbox') = 0 /\ \A i \in 1..Len(inbox') : FALSE
  BY DEF HungUp
<1>2. HelloInv'
  BY <1>1 DEF HelloInv, HungUp
<1>3. WelcomeInv'
  BY <1>1 DEF WelcomeInv, HungUp
<1>4. NumberInv'
  BY <1>1 DEF NumberInv, HungUp
<1> QED BY <1>2, <1>3, <1>4 DEF ResultInv

(* A step that leaves the frames and their numbers alone keeps the          *)
(* invariant.                                                              *)
Silent ==
  /\ UNCHANGED <<inbox, hello, rootConn, welcomed, cursor, lastSession, rootSeq, enabled>>
  /\ phase' = phase \/ (phase # "wss" /\ phase' # "wss")
  /\ \A m \in requests' : m \in requests \/ m.conn # 0

(* Nothing of it has changed.                                              *)
LEMMA SilentStep == ASSUME ResultInv, Silent PROVE ResultInv'
<1>1. \A i \in 1..Len(inbox') : (IsResult(i)' <=> IsResult(i)) /\ (IsWelcome(i)' <=> IsWelcome(i))
  BY DEF Silent, IsResult, IsWelcome
<1>2. \A m : CursorAfterWelcome(m)' = CursorAfterWelcome(m)
  BY DEF Silent, CursorAfterWelcome
<1>3. HelloInv'
  BY <1>1 DEF ResultInv, HelloInv, Silent
<1>4. WelcomeInv'
  BY <1>1 DEF ResultInv, WelcomeInv, Silent
<1>5. NumberInv'
  <2>1. inbox' = inbox /\ cursor' = cursor /\ rootSeq' = rootSeq /\ rootConn' = rootConn
        /\ welcomed' = welcomed
    BY DEF Silent
  <2> QED BY <1>1, <2>1 DEF ResultInv, NumberInv, CursorAfterWelcome, Silent
<1> QED BY <1>3, <1>4, <1>5 DEF ResultInv

(* The end of a connection, with what the worker wrote last.               *)
LEMMA ClosedStep ==
  ASSUME NEW p, NEW told, CloseConnection(p, told), \A m \in requests' : m.conn # 0
  PROVE  ResultInv'
<1>1. HungUp
  BY DEF CloseConnection, HungUp
<1> QED BY <1>1, HungUpStep

(* What remains in the inbox after its head.                               *)
LEMMA TailOfInbox ==
  ASSUME LinkTypes, inbox # <<>>, inbox' = Tail(inbox)
  PROVE  /\ Len(inbox) \in Nat /\ Len(inbox) >= 1 /\ Head(inbox) = inbox[1]
         /\ \A i \in 1..Len(inbox') : /\ i + 1 \in 1..Len(inbox) /\ inbox'[i] = inbox[i + 1]
                                      /\ (IsResult(i)' <=> IsResult(i + 1))
                                      /\ (IsWelcome(i)' <=> IsWelcome(i + 1))
         /\ \A i \in 1..Len(inbox) : i = 1 \/ i - 1 \in 1..Len(inbox')
<1>1. /\ Len(inbox) \in Nat /\ Len(inbox) >= 1 /\ Head(inbox) = inbox[1]
      /\ Len(inbox') = Len(inbox) - 1 /\ \A i \in 1..Len(inbox') : inbox'[i] = inbox[i + 1]
  BY DEF LinkTypes
<1>2. \A i \in 1..Len(inbox') : i + 1 \in 1..Len(inbox)
  BY <1>1
<1>3. \A i \in 1..Len(inbox) : i = 1 \/ i - 1 \in 1..Len(inbox')
  BY <1>1
<1> QED BY <1>1, <1>2, <1>3 DEF IsResult, IsWelcome

(* A frame that is read and is no WELCOME; the cursor follows a result.    *)
Popped ==
  /\ inbox # <<>> /\ inbox' = Tail(inbox) /\ Head(inbox).kind # "welcome"
  /\ phase = "wss" /\ phase' = phase
  /\ UNCHANGED <<hello, rootConn, welcomed, lastSession, rootSeq, enabled, requests>>
  /\ IF Head(inbox).kind = "result" THEN welcomed /\ RecordCursor(Head(inbox))
     ELSE UNCHANGED cursor

(* The results behind it are numbered after it.                            *)
LEMMA PoppedStep == ASSUME TypeOK, ResultInv, Popped PROVE ResultInv'
<1>1. /\ Len(inbox) \in Nat /\ Len(inbox) >= 1 /\ Head(inbox) = inbox[1]
      /\ \A i \in 1..Len(inbox') : /\ i + 1 \in 1..Len(inbox) /\ inbox'[i] = inbox[i + 1]
                                   /\ (IsResult(i)' <=> IsResult(i + 1))
                                   /\ (IsWelcome(i)' <=> IsWelcome(i + 1))
      /\ \A i \in 1..Len(inbox) : i = 1 \/ i - 1 \in 1..Len(inbox')
  BY TailOfInbox DEF Popped
<1>2. ~IsWelcome(1)
  BY <1>1 DEF Popped, IsWelcome
<1>3. HelloInv'
  BY <1>1 DEF ResultInv, HelloInv, Popped
<1>4. ASSUME NEW k \in 1..Len(inbox), IsWelcome(k)
      PROVE  k - 1 \in 1..Len(inbox') /\ IsWelcome(k - 1)'
  <2>1. k # 1
    BY <1>2, <1>4
  <2>2. k - 1 \in 1..Len(inbox')
    BY <1>1, <2>1
  <2>3. (k - 1) + 1 = k
    OBVIOUS
  <2>4. IsWelcome(k - 1)' <=> IsWelcome((k - 1) + 1)
    BY <1>1, <2>2
  <2> QED BY <1>4, <2>2, <2>3, <2>4
<1>5. WelcomeInv'
  <2>1. welcomed' => \A i \in 1..Len(inbox') : ~IsWelcome(i)'
    BY <1>1 DEF ResultInv, WelcomeInv, Popped
  <2>2. ASSUME NEW i \in 1..Len(inbox'), NEW j \in 1..Len(inbox'), IsWelcome(i)', IsWelcome(j)'
        PROVE  i = j
    <3>1. i + 1 = j + 1
      BY <1>1, <2>2 DEF ResultInv, WelcomeInv
    <3> QED BY <3>1
  <2>3. ASSUME NEW i \in 1..Len(inbox'), IsResult(i)', ~welcomed'
        PROVE  \E j \in 1..Len(inbox') : IsWelcome(j)' /\ j < i
    <3>1. PICK k \in 1..Len(inbox) : IsWelcome(k) /\ k < i + 1
      BY <1>1, <2>3 DEF ResultInv, WelcomeInv, Popped
    <3>2. k - 1 \in 1..Len(inbox') /\ IsWelcome(k - 1)' /\ k - 1 < i
      BY <1>4, <3>1
    <3> QED BY <3>2
  <2>4. rootConn' # 0 /\ enabled' /\ ~hello' =>
          welcomed' \/ \E j \in 1..Len(inbox') : IsWelcome(j)'
    BY <1>4 DEF ResultInv, WelcomeInv, Popped
  <2> QED BY <2>1, <2>2, <2>3, <2>4 DEF WelcomeInv
<1>6. ASSUME NEW i \in 1..Len(inbox), IsResult(i)
      PROVE  inbox[i].seq \in Nat
  BY <1>6 DEF LinkTypes, Frame, IsResult
<1>7. cursor \in Nat /\ rootSeq \in Nat
  BY DEF WorkerTypes, RootTypes
<1>8. /\ welcomed => \A i \in 1..Len(inbox') : IsResult(i)' => inbox'[i].seq > cursor'
      /\ welcomed /\ rootConn # 0 => cursor' <= rootSeq
      /\ welcomed \/ cursor' = cursor
  <2>1. CASE Head(inbox).kind = "result"
    <3>1. welcomed /\ IsResult(1) /\ cursor' = IF inbox[1].seq > cursor THEN inbox[1].seq ELSE cursor
      BY <1>1, <2>1 DEF Popped, RecordCursor, IsResult
    <3>2. rootConn # 0 => inbox[1].seq <= rootSeq
      BY <1>1, <3>1 DEF ResultInv, NumberInv
    <3>3. ASSUME NEW i \in 1..Len(inbox'), IsResult(i)'
          PROVE  inbox'[i].seq > cursor'
      <4>1. i + 1 \in 1..Len(inbox) /\ IsResult(i + 1) /\ 1 < i + 1 /\ 1 \in 1..Len(inbox)
        BY <1>1, <3>3
      <4>2. inbox[1].seq < inbox[i + 1].seq /\ inbox[i + 1].seq > cursor
        BY <3>1, <4>1 DEF ResultInv, NumberInv
      <4> QED BY <1>1, <3>1, <4>2
    <3> QED BY <1>7, <3>1, <3>2, <3>3 DEF ResultInv, NumberInv
  <2>2. CASE Head(inbox).kind # "result"
    BY <1>1, <2>2 DEF Popped, ResultInv, NumberInv
  <2> QED BY <2>1, <2>2
<1>9. NumberInv'
  <2>1. \A i, j \in 1..Len(inbox') :
          IsResult(i)' /\ IsResult(j)' /\ i < j => inbox'[i].seq < inbox'[j].seq
    <3>1. \A i, j \in 1..Len(inbox') : i < j => i + 1 < j + 1
      OBVIOUS
    <3> QED BY <1>1, <3>1 DEF ResultInv, NumberInv
  <2>2. rootConn' # 0 => \A i \in 1..Len(inbox') : IsResult(i)' => inbox'[i].seq <= rootSeq'
    BY <1>1 DEF ResultInv, NumberInv, Popped
  <2>3. ASSUME NEW j \in 1..Len(inbox'), IsWelcome(j)'
        PROVE  /\ \A i \in 1..Len(inbox') :
                    IsResult(i)' => inbox'[i].seq > CursorAfterWelcome(inbox[j])'
               /\ rootConn' # 0 => CursorAfterWelcome(inbox[j])' <= rootSeq'
    <3>1. j + 1 \in 1..Len(inbox) /\ IsWelcome(j + 1) /\ inbox'[j] = inbox[j + 1]
      BY <1>1, <2>3
    <3>2. ~welcomed
      BY <3>1 DEF ResultInv, WelcomeInv
    <3>3. CursorAfterWelcome(inbox[j])' = CursorAfterWelcome(inbox[j + 1])
      BY <1>8, <3>1, <3>2 DEF CursorAfterWelcome, Popped
    <3> QED BY <1>1, <3>1, <3>3 DEF ResultInv, NumberInv, Popped
  <2> QED BY <1>8, <2>1, <2>2, <2>3 DEF NumberInv, Popped
<1> QED BY <1>3, <1>5, <1>9 DEF ResultInv

(* WELCOME is read: the cursor is what it was numbered for.                *)
LEMMA WelcomeStep ==
  ASSUME TypeOK, SessionInv, ResultInv, Welcome
  PROVE  ResultInv'
<1>1. /\ inbox # <<>> /\ inbox' = Tail(inbox) /\ Head(inbox).kind = "welcome"
      /\ phase = "wss" /\ cursor' = CursorAfterWelcome(Head(inbox)) /\ welcomed'
      /\ UNCHANGED <<phase, hello, requests, rootConn, rootSeq, enabled>>
  BY DEF Welcome, SelectFrame, SelectReady
<1>2. /\ Len(inbox) \in Nat /\ Len(inbox) >= 1 /\ Head(inbox) = inbox[1]
      /\ \A i \in 1..Len(inbox') : /\ i + 1 \in 1..Len(inbox) /\ inbox'[i] = inbox[i + 1]
                                   /\ (IsResult(i)' <=> IsResult(i + 1))
                                   /\ (IsWelcome(i)' <=> IsWelcome(i + 1))
  BY <1>1, TailOfInbox
<1>3. 1 \in 1..Len(inbox) /\ IsWelcome(1)
  BY <1>1, <1>2 DEF IsWelcome
<1>4. ASSUME NEW i \in 1..Len(inbox')
      PROVE  ~IsWelcome(i)'
  <2>1. i + 1 # 1 /\ i + 1 \in 1..Len(inbox)
    BY <1>2
  <2> QED BY <1>2, <1>3, <2>1 DEF ResultInv, WelcomeInv
<1>5. HelloInv'
  BY <1>1, <1>3 DEF ResultInv, HelloInv
<1>6. WelcomeInv'
  BY <1>1, <1>4 DEF WelcomeInv
<1>7. NumberInv'
  <2>1. \A i, j \in 1..Len(inbox') :
          IsResult(i)' /\ IsResult(j)' /\ i < j => inbox'[i].seq < inbox'[j].seq
    <3>1. \A i, j \in 1..Len(inbox') : i < j => i + 1 < j + 1
      OBVIOUS
    <3> QED BY <1>2, <3>1 DEF ResultInv, NumberInv
  <2>2. rootConn' # 0 => \A i \in 1..Len(inbox') : IsResult(i)' => inbox'[i].seq <= rootSeq'
    BY <1>1, <1>2 DEF ResultInv, NumberInv
  <2>3. \A i \in 1..Len(inbox') : IsResult(i)' => inbox'[i].seq > cursor'
    BY <1>1, <1>2, <1>3 DEF ResultInv, NumberInv
  <2>4. rootConn' # 0 => cursor' <= rootSeq'
    BY <1>1, <1>2, <1>3 DEF ResultInv, NumberInv
  <2> QED BY <1>4, <2>1, <2>2, <2>3, <2>4 DEF NumberInv
<1> QED BY <1>5, <1>6, <1>7 DEF ResultInv

(* A frame behind the others.                                              *)
LEMMA Appended ==
  ASSUME LinkTypes, NEW f, NEW n, n = Len(inbox) + 1, inbox' = Append(inbox, f)
  PROVE  /\ Len(inbox) \in Nat /\ n \in 1..Len(inbox') /\ inbox'[n] = f
         /\ \A i \in 1..Len(inbox) : /\ i \in 1..Len(inbox') /\ i < n /\ inbox'[i] = inbox[i]
                                     /\ (IsResult(i)' <=> IsResult(i))
                                     /\ (IsWelcome(i)' <=> IsWelcome(i))
         /\ \A i \in 1..Len(inbox') : i \in 1..Len(inbox) \/ i = n
         /\ (IsResult(n)' <=> f.kind = "result")
         /\ (IsWelcome(n)' <=> f.kind = "welcome")
<1>1. /\ Len(inbox) \in Nat /\ Len(inbox') = Len(inbox) + 1
      /\ inbox'[n] = f /\ \A i \in 1..Len(inbox) : inbox'[i] = inbox[i]
  BY DEF LinkTypes
<1>2. \A i \in 1..Len(inbox') : i \in 1..Len(inbox) \/ i = n
  BY <1>1
<1>3. \A i \in 1..Len(inbox) : i \in 1..Len(inbox') /\ i < n
  BY <1>1
<1>4. n \in 1..Len(inbox')
  BY <1>1
<1>5. IsResult(n)' <=> f.kind = "result"
  BY <1>1, <1>4 DEF IsResult
<1>6. IsWelcome(n)' <=> f.kind = "welcome"
  BY <1>1, <1>4 DEF IsWelcome
<1>7. \A i \in 1..Len(inbox) : (IsResult(i)' <=> IsResult(i)) /\ (IsWelcome(i)' <=> IsWelcome(i))
  BY <1>1, <1>3 DEF IsResult, IsWelcome
<1> QED BY <1>1, <1>2, <1>3, <1>4, <1>5, <1>6, <1>7

(* The root answers HELLO, on whose connection no result came before.      *)
LEMMA RootWelcomesStep ==
  ASSUME TypeOK, SessionInv, ResultInv, NEW resume \in BOOLEAN, RootWelcomes(resume)
  PROVE  ResultInv'
<1> PICK f : f = [kind |-> "welcome", ts |-> conn, sess |-> rootSession, resume |-> resume]
  OBVIOUS
<1> PICK n : n = Len(inbox) + 1
  OBVIOUS
<1>1. /\ hello /\ ~hello' /\ rootSeq' = IF resume THEN rootSeq ELSE 0
      /\ resume /\ lastSession = rootSession => cursor <= rootSeq
      /\ inbox' = Append(inbox, f)
      /\ UNCHANGED <<phase, welcomed, enabled, cursor, lastSession, requests, rootConn>>
  BY DEF RootWelcomes, rootIdle
<1>2. f.kind = "welcome" /\ f.resume = resume /\ f.sess = rootSession
  OBVIOUS
<1>3. /\ Len(inbox) \in Nat /\ inbox'[n] = f /\ n \in 1..Len(inbox')
      /\ \A i \in 1..Len(inbox) : /\ (IsResult(i)' <=> IsResult(i))
                                  /\ (IsWelcome(i)' <=> IsWelcome(i))
      /\ \A i \in 1..Len(inbox') : i \in 1..Len(inbox) \/ i = n
      /\ ~IsResult(n)' /\ IsWelcome(n)'
  BY <1>1, <1>2, Appended
<1>4. /\ ~welcomed /\ \A i \in 1..Len(inbox') : ~IsResult(i)'
      /\ \A i \in 1..Len(inbox') : IsWelcome(i)' => i = n
  BY <1>1, <1>3 DEF ResultInv, HelloInv
<1>5. HelloInv'
  BY <1>1 DEF ResultInv, HelloInv
<1>6. WelcomeInv'
  BY <1>1, <1>3, <1>4 DEF WelcomeInv
<1>7. CursorAfterWelcome(inbox[n])' <= rootSeq'
  <2>1. CursorAfterWelcome(inbox[n])' =
          IF ~resume \/ lastSession # rootSession THEN 0 ELSE cursor
    BY <1>1, <1>2, <1>3 DEF CursorAfterWelcome
  <2> QED BY <1>1, <2>1 DEF WorkerTypes, RootTypes
<1>8. NumberInv'
  BY <1>1, <1>3, <1>4, <1>7 DEF NumberInv
<1> QED BY <1>5, <1>6, <1>8 DEF ResultInv

(* A result is numbered after those before it; other answers are no        *)
(* results.                                                                *)
LEMMA RootHandlesStep ==
  ASSUME TypeOK, SessionInv, ResultInv, NEW m \in requests, NEW label \in Commands,
         NEW ts \in Connections, RootHandles(m, label, ts)
  PROVE  ResultInv'
<1>1. /\ requests' = requests \ {m}
      /\ UNCHANGED <<phase, hello, welcomed, enabled, cursor, lastSession, rootConn>>
      /\ m.conn # 0
  BY DEF RootHandles, rootIdle, ResultInv, HelloInv
<1>2. CASE UNCHANGED <<rootSeq, inbox>>
  BY <1>1, <1>2, SilentStep DEF Silent
<1>3. ASSUME rootConn # 0, UNCHANGED rootSeq,
             NEW f, f.kind = "response", inbox' = Append(inbox, f)
      PROVE  ResultInv'
  <2> PICK n : n = Len(inbox) + 1
    OBVIOUS
  <2>1. /\ \A i \in 1..Len(inbox) : /\ i \in 1..Len(inbox') /\ inbox'[i] = inbox[i]
                                    /\ (IsResult(i)' <=> IsResult(i))
                                    /\ (IsWelcome(i)' <=> IsWelcome(i))
        /\ \A i \in 1..Len(inbox') : i \in 1..Len(inbox) \/ i = n
        /\ ~IsResult(n)' /\ ~IsWelcome(n)'
    BY <1>3, Appended
  <2>2. HelloInv'
    BY <1>1, <1>3, <2>1 DEF ResultInv, HelloInv
  <2>3. WelcomeInv'
    BY <1>1, <2>1 DEF ResultInv, WelcomeInv
  <2>4. \A i \in 1..Len(inbox) : CursorAfterWelcome(inbox[i])' = CursorAfterWelcome(inbox[i])
    BY <1>1, <2>1 DEF CursorAfterWelcome
  <2>5. NumberInv'
    <3>1. \A i \in 1..Len(inbox') : IsResult(i)' \/ IsWelcome(i)' =>
            i \in 1..Len(inbox) /\ inbox'[i] = inbox[i]
      BY <2>1
    <3>2. \A i, j \in 1..Len(inbox') :
            IsResult(i)' /\ IsResult(j)' /\ i < j => inbox'[i].seq < inbox'[j].seq
      BY <2>1, <3>1 DEF ResultInv, NumberInv
    <3>3. \A i \in 1..Len(inbox') : IsResult(i)' =>
            inbox'[i].seq <= rootSeq' /\ (welcomed => inbox'[i].seq > cursor)
      BY <1>3, <2>1, <3>1 DEF ResultInv, NumberInv
    <3>4. ASSUME NEW j \in 1..Len(inbox'), IsWelcome(j)'
          PROVE  /\ \A i \in 1..Len(inbox') :
                      IsResult(i)' => inbox'[i].seq > CursorAfterWelcome(inbox[j])'
                 /\ CursorAfterWelcome(inbox[j])' <= rootSeq'
      <4>1. j \in 1..Len(inbox) /\ IsWelcome(j)
        BY <2>1, <3>1, <3>4
      <4>2. CursorAfterWelcome(inbox[j])' = CursorAfterWelcome(inbox[j])
        BY <2>4, <4>1
      <4> QED BY <1>3, <2>1, <3>1, <4>1, <4>2 DEF ResultInv, NumberInv
    <3>5. welcomed => cursor <= rootSeq'
      BY <1>3 DEF ResultInv, NumberInv
    <3> QED BY <1>1, <3>2, <3>3, <3>4, <3>5 DEF NumberInv
  <2> QED BY <2>2, <2>3, <2>5 DEF ResultInv
<1>4. ASSUME rootConn # 0, enabled, ~hello, rootSeq' = rootSeq + 1,
             NEW f, f.kind = "result", f.seq = rootSeq + 1, inbox' = Append(inbox, f)
      PROVE  ResultInv'
  <2> PICK n : n = Len(inbox) + 1
    OBVIOUS
  <2>1. /\ \A i \in 1..Len(inbox) : /\ i \in 1..Len(inbox') /\ i < n /\ inbox'[i] = inbox[i]
                                    /\ (IsResult(i)' <=> IsResult(i))
                                    /\ (IsWelcome(i)' <=> IsWelcome(i))
        /\ \A i \in 1..Len(inbox') : i \in 1..Len(inbox) \/ i = n
        /\ IsResult(n)' /\ ~IsWelcome(n)' /\ inbox'[n] = f /\ n \in 1..Len(inbox')
        /\ Len(inbox) \in Nat
    BY <1>4, Appended
  <2>2. HelloInv'
    BY <1>1, <1>4, <2>1 DEF ResultInv, HelloInv
  <2>3. welcomed \/ \E j \in 1..Len(inbox') : IsWelcome(j)' /\ j < n
    BY <1>4, <2>1 DEF ResultInv, WelcomeInv
  <2>4. WelcomeInv'
    <3>1. \A i \in 1..Len(inbox') : IsWelcome(i)' => i \in 1..Len(inbox) /\ IsWelcome(i)
      BY <2>1
    <3>2. \A i \in 1..Len(inbox) : IsWelcome(i) => i \in 1..Len(inbox') /\ IsWelcome(i)'
      BY <2>1
    <3>3. welcomed' => \A i \in 1..Len(inbox') : ~IsWelcome(i)'
      BY <1>1, <3>1 DEF ResultInv, WelcomeInv
    <3>4. \A i, j \in 1..Len(inbox') : IsWelcome(i)' /\ IsWelcome(j)' => i = j
      BY <3>1 DEF ResultInv, WelcomeInv
    <3>5. ASSUME NEW i \in 1..Len(inbox'), IsResult(i)', ~welcomed
          PROVE  \E j \in 1..Len(inbox') : IsWelcome(j)' /\ j < i
      <4>1. CASE i \in 1..Len(inbox)
        <5>1. PICK j \in 1..Len(inbox) : IsWelcome(j) /\ j < i
          BY <2>1, <3>5, <4>1 DEF ResultInv, WelcomeInv
        <5> QED BY <3>2, <5>1
      <4>2. CASE i = n
        BY <2>3, <3>5, <4>2
      <4> QED BY <2>1, <4>1, <4>2
    <3>6. welcomed' \/ \E j \in 1..Len(inbox') : IsWelcome(j)'
      BY <1>1, <2>3
    <3> QED BY <1>1, <3>3, <3>4, <3>5, <3>6 DEF WelcomeInv
  <2>5. \A i \in 1..Len(inbox) : CursorAfterWelcome(inbox[i])' = CursorAfterWelcome(inbox[i])
    BY <1>1, <2>1 DEF CursorAfterWelcome
  <2>6. \A i \in 1..Len(inbox) : IsResult(i) => inbox[i].seq <= rootSeq /\ inbox[i].seq \in Nat
    BY <1>4 DEF ResultInv, NumberInv, LinkTypes, Frame, IsResult
  <2>7. rootSeq \in Nat /\ cursor \in Nat /\ \A i \in 1..Len(inbox) : i # n
    BY <2>1 DEF RootTypes, WorkerTypes
  <2>8. \A i, j \in 1..Len(inbox') :
          IsResult(i)' /\ IsResult(j)' /\ i < j => inbox'[i].seq < inbox'[j].seq
    <3>1. ASSUME NEW i \in 1..Len(inbox'), NEW j \in 1..Len(inbox'),
                 IsResult(i)', IsResult(j)', i < j
          PROVE  inbox'[i].seq < inbox'[j].seq
      <4>1. i \in 1..Len(inbox)
        <5>1. j \in 1..Len(inbox) \/ j = n
          BY <2>1
        <5>2. i # n
          BY <2>1, <3>1, <5>1
        <5> QED BY <2>1, <5>2
      <4>2. CASE j \in 1..Len(inbox)
        BY <2>1, <3>1, <4>1, <4>2 DEF ResultInv, NumberInv
      <4>3. CASE j = n
        BY <1>4, <2>1, <2>6, <2>7, <3>1, <4>1, <4>3
      <4> QED BY <2>1, <4>2, <4>3
    <3> QED BY <3>1
  <2>9. \A i \in 1..Len(inbox') : IsResult(i)' => inbox'[i].seq <= rootSeq'
    BY <1>4, <2>1, <2>6, <2>7
  <2>10. welcomed => cursor <= rootSeq /\ rootSeq + 1 > cursor
    BY <1>4, <2>7 DEF ResultInv, NumberInv
  <2>11. welcomed => \A i \in 1..Len(inbox') : IsResult(i)' => inbox'[i].seq > cursor
    BY <1>4, <2>1, <2>10 DEF ResultInv, NumberInv
  <2>12. ASSUME NEW j \in 1..Len(inbox'), IsWelcome(j)'
         PROVE  /\ \A i \in 1..Len(inbox') :
                     IsResult(i)' => inbox'[i].seq > CursorAfterWelcome(inbox[j])'
                /\ CursorAfterWelcome(inbox[j])' <= rootSeq'
    <3>1. j \in 1..Len(inbox) /\ IsWelcome(j)
      BY <2>1, <2>12
    <3> PICK k : k = CursorAfterWelcome(inbox[j])
      OBVIOUS
    <3>2. CursorAfterWelcome(inbox[j])' = k
      BY <2>5, <3>1
    <3>3. k \in Nat
      BY <2>7 DEF CursorAfterWelcome
    <3>4. k <= rootSeq /\ \A i \in 1..Len(inbox) : IsResult(i) => inbox[i].seq > k
      BY <1>4, <3>1 DEF ResultInv, NumberInv
    <3>5. rootSeq + 1 > k
      BY <2>7, <3>3, <3>4
    <3>6. \A i \in 1..Len(inbox') : IsResult(i)' => inbox'[i].seq > k
      BY <1>4, <2>1, <3>4, <3>5
    <3> QED BY <1>4, <2>7, <3>2, <3>3, <3>4, <3>6
  <2>13. NumberInv'
    BY <1>1, <1>4, <2>7, <2>8, <2>9, <2>10, <2>11, <2>12 DEF NumberInv
  <2> QED BY <2>2, <2>4, <2>13 DEF ResultInv
<1>5. CASE ~m.op /\ inbox' # inbox
  <2>1. inbox' = Append(inbox, [kind |-> "response", cmd |-> m.cmd]) /\ UNCHANGED rootSeq
        /\ rootConn # 0
    BY <1>1, <1>5 DEF RootHandles
  <2> QED BY <1>3, <2>1
<1>6. CASE /\ m.op /\ rootConn # 0 /\ enabled /\ ~hello
           /\ rootSeq' = rootSeq + 1
           /\ inbox' = Append(inbox, [kind |-> "result", ts |-> ts, sess |-> rootSession,
                                      seq |-> rootSeq + 1, cmd |-> label, op |-> m.cmd])
  BY <1>4, <1>6
<1>7. UNCHANGED <<rootSeq, inbox>>
        \/ (~m.op /\ inbox' # inbox)
        \/ /\ m.op /\ rootConn # 0 /\ enabled /\ ~hello
           /\ rootSeq' = rootSeq + 1
           /\ inbox' = Append(inbox, [kind |-> "result", ts |-> ts, sess |-> rootSession,
                                      seq |-> rootSeq + 1, cmd |-> label, op |-> m.cmd])
  BY DEF RootHandles
<1> QED BY <1>2, <1>5, <1>6, <1>7

-----------------------------------------------------------------------------
(* All steps *)

(* Requests leave on a connection.                                         *)
LEMMA PutOnWireConn ==
  ASSUME ResultInv, SessionInv, phase = "wss", NEW c, NEW item, PutOnWire(c, item)
  PROVE  \A m \in requests' : m \in requests \/ m.conn # 0
  BY DEF PutOnWire, SessionInv

(* Callers, and time. *)
LEMMA CallerResult ==
  ASSUME ResultInv, CallerNext \/ \E c \in Commands : DeadlinePasses(c)
  PROVE  ResultInv'
<1>1. CASE StartService
  <2>1. HungUp
    BY <1>1 DEF StartService, HungUp, ResultInv, HelloInv
  <2> QED BY <2>1, HungUpStep
<1>2. CASE ~StartService
  <2>1. Silent
    BY <1>2 DEF CallerNext, Send, GiveUp, ChangePairing, StopService, DeadlinePasses,
       Silent
  <2> QED BY <2>1, SilentStep
<1> QED BY <1>1, <1>2

(* The worker outside a connection, and the opening of the next one.       *)
LEMMA OfflineResult == ASSUME ResultInv, OfflineNext PROVE ResultInv'
<1>1. CASE ConnectSucceeds
  <2>1. /\ inbox' = <<>> /\ phase' = "wss" /\ ~welcomed' /\ (hello' <=> enabled)
        /\ enabled' = enabled /\ requests' = requests
    BY <1>1 DEF ConnectSucceeds
  <2>2. \A i \in 1..Len(inbox') : FALSE
    BY <2>1
  <2>3. HelloInv'
    BY <2>1, <2>2 DEF HelloInv, ResultInv
  <2>4. WelcomeInv'
    BY <2>1, <2>2 DEF WelcomeInv
  <2>5. NumberInv'
    BY <2>1, <2>2 DEF NumberInv
  <2> QED BY <2>3, <2>4, <2>5 DEF ResultInv
<1>2. CASE ~ConnectSucceeds
  <2>1. /\ phase # "wss" /\ phase' # "wss"
        /\ UNCHANGED <<inbox, welcomed, hello, rootConn, requests>>
    BY <1>2 DEF OfflineNext, WorkerExits, RejectUntilWake, LoopTop, ProbeFails,
       ProbeSucceeds,
                ConnectFails, OfflineIdle, OfflineReject, OfflineBle
  <2>2. HungUp
    BY <2>1 DEF HungUp, ResultInv, HelloInv
  <2> QED BY <2>2, HungUpStep
<1> QED BY <1>1, <1>2

(* The worker on a connection. *)
LEMMA SelectResult == ASSUME TypeOK, SessionInv, ResultInv, SelectNext PROVE ResultInv'
<1>1. CASE SendRejected
  BY <1>1, SilentStep DEF SendRejected, Silent
<1>2. CASE SendWritten
  <2>1. phase = "wss" /\ UNCHANGED <<inbox, hello, rootConn, welcomed, cursor, lastSession,
                                     rootSeq, enabled, phase>>
    BY <1>2 DEF SendWritten, SelectQueue, SelectReady
  <2>2. \A m \in requests' : m \in requests \/ m.conn # 0
    BY <1>2, <2>1, PutOnWireConn DEF SendWritten
  <2> QED BY <2>1, <2>2, SilentStep DEF Silent
<1>3. ASSUME NEW left \in BOOLEAN, SendFails(left) PROVE ResultInv'
  <2>1. phase = "wss"
    BY <1>3 DEF SendFails, SelectQueue, SelectReady
  <2>2. \A m \in requests' : m \in requests \/ m.conn # 0
    BY <1>3, <2>1, PutOnWireConn DEF SendFails
  <2>3. \A m \in requests' : m.conn # 0
    BY <2>2 DEF ResultInv, HelloInv
  <2> QED BY <1>3, <2>3, ClosedStep DEF SendFails
<1>4. CASE ControlMessage \/ ConnectionLost
  <2>1. requests' = requests
    BY <1>4 DEF ControlMessage, ConnectionLost
  <2>2. \A m \in requests' : m.conn # 0
    BY <2>1 DEF ResultInv, HelloInv
  <2> QED BY <1>4, <2>2, ClosedStep DEF ControlMessage, ConnectionLost
<1>5. ASSUME NEW routes, InventoryArrives(routes) PROVE ResultInv'
  BY <1>5, SilentStep DEF InventoryArrives, Silent
<1>6. CASE Welcome
  BY <1>6, WelcomeStep
<1>7. ASSUME NEW c \in Commands, Replay(c) PROVE ResultInv'
  <2>1. phase = "wss" /\ UNCHANGED <<inbox, hello, rootConn, welcomed, cursor, lastSession,
                                     rootSeq, enabled, phase>>
    BY <1>7 DEF Replay
  <2>2. \A m \in requests' : m \in requests \/ m.conn # 0
    BY <1>7, <2>1, PutOnWireConn DEF Replay
  <2> QED BY <2>1, <2>2, SilentStep DEF Silent
<1>8. CASE ResultIgnored
  BY <1>8, PoppedStep DEF ResultIgnored, SelectFrame, SelectReady, ResultValid, Popped
<1>9. CASE ResultAnswers
  BY <1>9, PoppedStep DEF ResultAnswers, SelectFrame, SelectReady, ResultValid, Popped
<1>10. CASE ResultMismatch
  <2>1. \A m \in requests' : m.conn # 0
    BY <1>10 DEF ResultMismatch, ResultInv, HelloInv
  <2> QED BY <1>10, <2>1, ClosedStep DEF ResultMismatch
<1>11. CASE Response
  BY <1>11, PoppedStep DEF Response, SelectFrame, SelectReady, Popped
<1>12. CASE Maintenance
  BY <1>12, SilentStep DEF Maintenance, Silent
<1> QED BY <1>1, <1>2, <1>3, <1>4, <1>5, <1>6, <1>7, <1>8, <1>9, <1>10, <1>11, <1>12
        DEF SelectNext

(* The root, and its link. *)
LEMMA RootResult == ASSUME TypeOK, SessionInv, ResultInv, RootNext PROVE ResultInv'
<1>1. ASSUME rootConn' = 0, ~hello', requests' \subseteq requests,
             UNCHANGED <<inbox, welcomed, cursor, lastSession, enabled, phase>>
      PROVE  ResultInv'
  <2>1. \A i \in 1..Len(inbox') : (IsResult(i)' <=> IsResult(i)) /\ (IsWelcome(i)' <=> IsWelcome(i))
    BY <1>1 DEF IsResult, IsWelcome
  <2>2. HelloInv'
    BY <1>1 DEF ResultInv, HelloInv
  <2>3. WelcomeInv'
    BY <1>1, <2>1 DEF ResultInv, WelcomeInv
  <2>4. NumberInv'
    BY <1>1, <2>1 DEF ResultInv, NumberInv, CursorAfterWelcome
  <2> QED BY <2>2, <2>3, <2>4 DEF ResultInv
<1>2. CASE LinkBreaks
  BY <1>1, <1>2 DEF LinkBreaks, rootIdle
<1>3. ASSUME NEW fabric, RootReboots(fabric) PROVE ResultInv'
  BY <1>1, <1>3 DEF RootReboots, rootIdle
<1> QED BY <1>2, <1>3, RootWelcomesStep, RootHandlesStep DEF RootNext

(* ResultInv is kept by every step. *)
LEMMA ResultStep == ASSUME TypeOK, SessionInv, ResultInv, [Next]_vars PROVE ResultInv'
<1>1. CASE UNCHANGED vars
  BY <1>1, SilentStep DEF vars, Silent
<1> QED BY <1>1, CallerResult, OfflineResult, SelectResult, RootResult DEF Next

(* The CONTROL cursor kept over reconnects (reset_fabric_cursors,           *)
(* already_consumed) never drops the result of a command still awaited,     *)
(* whatever the root boots, resumes or numbers anew.                        *)
THEOREM NoResultIsSwallowed == Spec => []NoResultSwallowed
<1>1. Init => ResultInv
  <2> SUFFICES ASSUME Init PROVE ResultInv
    OBVIOUS
  <2>1. \A i \in 1..Len(inbox) : FALSE
    BY DEF Init
  <2>2. HelloInv /\ WelcomeInv /\ NumberInv
    BY <2>1 DEF Init, HelloInv, WelcomeInv, NumberInv
  <2> QED BY <2>2 DEF ResultInv
<1>2. EffectInv /\ ResultInv /\ [Next]_vars => ResultInv'
  BY ResultStep DEF EffectInv
<1>3. ResultInv => NoResultSwallowed
  BY DEF ResultInv, NumberInv, IsResult, NoResultSwallowed
<1> QED BY <1>1, <1>2, <1>3, EffectsCorrect, PTL DEF Spec
=============================================================================

---------------------------- MODULE FabricGraph ----------------------------
(***************************************************************************)
(* The data plane of a Fabric session (src-tauri/src/root_service.rs): the *)
(* root publishes revisions of the mesh graph in pages, the worker         *)
(* assembles them, adopts a complete revision as its inventory, attributes *)
(* sensor samples to routed nodes and keeps one resume cursor per traffic  *)
(* class.  Cursors and inventory outlive a connection, the assembler does  *)
(* not.                                                                    *)
(*                                                                         *)
(* The root is not part of the repository.  It numbers the frames of a     *)
(* class from 1.  After a HELLO it resumes at the cursors the desktop      *)
(* reported, if they are of the present numbering (how it knows is its own *)
(* affair), or starts a new numbering.                                     *)
(***************************************************************************)
EXTENDS Naturals, Sequences, FiniteSets

CONSTANTS
  Macs,               \* mesh nodes
  Tags,               \* their owner tags
  NoMac,              \* a tag the inventory does not route
  Graphs,             \* graphs the root may publish
  PagesOf,            \* in how many pages each of them is sent
  PageOf,             \* the page a node is put on, modulo the page count
  RootKinds,          \* what the root may be like, see RootKind
  MaxConnections,     \* bound: connections opened
  MaxBoots,           \* bound: boots of the root
  MaxRevisions,       \* bound: revisions of the first boot, one fewer of each later one
  MaxFrames           \* bound: frames of one numbering, both classes

(* A node of a graph: its tag and whether it is online. *)
Node == [tag : Tags, online : BOOLEAN]

(* Some of the nodes, as a graph or one of its pages describes them. *)
NodeMaps == UNION {[S -> Node] : S \in SUBSET Macs}

(* A resumed session starts with the whole graph; a revision may be sent   *)
(* again on a connection; pages may be sent that the desktop refuses.      *)
RootKind == [snapshot : BOOLEAN, repeats : BOOLEAN, faults : BOOLEAN]

ASSUME GraphAssumption ==
  /\ NoMac \notin Macs
  /\ Graphs \subseteq NodeMaps /\ Graphs # {}
  /\ PagesOf \in [Graphs -> Nat \ {0}]
  /\ PageOf \in [Macs -> Nat]
  /\ RootKinds \subseteq RootKind /\ RootKinds # {}
  /\ {MaxConnections, MaxBoots, MaxRevisions, MaxFrames} \subseteq Nat

VARIABLES
  \* The worker
  alive,        \* the worker thread has not panicked
  connected,    \* run_wss holds a connection
  connections,  \* how many it has opened
  welcomed,     \* FabricSession.welcomed
  lastSession,  \* LiveState.fabric_root_session
  cursor,       \* LiveState.fabric_cursors
  asm,          \* FabricGraphAssembler
  inventory,    \* LiveState.inventory: tag -> MAC
  tasks,        \* LiveState.task_inventory
  gapReported,  \* FabricSession.source_gap_reported
  \* The root and the link (external)
  open,         \* the root still holds the connection
  hello,        \* the unanswered HELLO
  inbox,        \* frames on their way
  root,         \* its kind
  boot,         \* root session
  revision, graph, pageCount,
  toSend,       \* pages of the revision still to be sent
  seq,          \* last sequence number, per class
  log,          \* frames sent in this numbering
  \* History
  epoch,        \* numberings started
  published,    \* graphs published
  numbering,    \* the numbering the cursors belong to
  processed,    \* frames handled to the end, by epoch, class and number
  unrouted,     \* samples passed over because no tag routes to their source
  emitted       \* samples passed on as mesh-event, in order

sessionVars == <<alive, connected, connections, welcomed, lastSession, gapReported>>
dataVars    == <<cursor, asm, inventory, tasks>>
linkVars    == <<open, hello, inbox>>
rootVars    == <<root, boot, revision, graph, pageCount, toSend, seq, log, epoch, published>>
deskHistory == <<numbering, processed, unrouted, emitted>>
vars        == <<sessionVars, dataVars, linkVars, rootVars, deskHistory>>

-----------------------------------------------------------------------------
(* Vocabulary *)

Classes == {"graph", "sensor"}

NoHello == [known |-> 0, epoch |-> 0, cursor |-> [k \in {} |-> 0]]

(* The assembler before its first page, and its pages after a completion. *)
NoPages  == [i \in {} |-> {}]
EmptyAsm == [revision |-> 0, count |-> 0, pages |-> NoPages]

(* A page that has not arrived, and one with a node that                   *)
(* update_fabric_inventory refuses: nothing that describes nodes.          *)
Missing == [m \in {NoMac} |-> FALSE]
Forged  == [m \in {NoMac} |-> TRUE]

(* The nodes of graph g on page i of n. *)
PageNodes(g, i, n) == {m \in DOMAIN g : PageOf[m] % n = i}

PageContent(g, i, n) == [m \in PageNodes(g, i, n) |-> g[m]]

AllPages(n) == 0..(n - 1)

Online(g) == {m \in DOMAIN g : g[m].online}

Tagged(g, t) == {m \in Online(g) : g[m].tag = t}

(* update_fabric_inventory: a tag routes to the one online node that has it. *)
Routes(g) ==
  [t \in Tags |-> IF Cardinality(Tagged(g, t)) = 1
                    THEN CHOOSE m \in Tagged(g, t) : TRUE ELSE NoMac]

(* fabric_source_mac: the samples of nodes the inventory routes are known. *)
Known(m) == \E t \in Tags : inventory[t] = m

FrameId(f) == <<f.epoch, f.class, f.seq>>

Consumed(f) == f.seq <= cursor[f.class]

RecordCursor(f) ==
  IF f.seq > cursor[f.class] THEN [cursor EXCEPT ![f.class] = f.seq] ELSE cursor

-----------------------------------------------------------------------------
Init ==
  /\ alive = TRUE
  /\ connected = FALSE /\ connections = 0 /\ welcomed = FALSE
  /\ lastSession = 0
  /\ cursor = [k \in Classes |-> 0]
  /\ asm = EmptyAsm
  /\ inventory = [t \in Tags |-> NoMac]
  /\ tasks = {}
  /\ gapReported = FALSE
  /\ open = FALSE /\ hello = NoHello /\ inbox = <<>>
  /\ root \in RootKinds /\ boot = 1 /\ revision = 1
  /\ graph \in Graphs /\ pageCount = PagesOf[graph]
  /\ toSend = AllPages(pageCount)
  /\ seq = [k \in Classes |-> 0]
  /\ log = <<>>
  /\ epoch = 1
  /\ published = {graph}
  /\ numbering = 0 /\ processed = {} /\ unrouted = {}
  /\ emitted = <<>>

-----------------------------------------------------------------------------
(* The worker *)

(* run_wss: a fresh FabricSession and SnapshotState, HELLO with the cursors *)
(* of LiveState.                                                           *)
Connect_Mutant ==
  /\ alive /\ ~connected /\ connections < MaxConnections
  /\ connected' = TRUE
  /\ connections' = connections + 1
  /\ welcomed' = FALSE
  /\ gapReported' = FALSE
  /\ open' = TRUE
  /\ hello' = [known |-> lastSession, epoch |-> numbering, cursor |-> cursor]
  /\ inbox' = <<>>
  /\ UNCHANGED <<alive, lastSession, cursor, asm, inventory, tasks, rootVars, deskHistory>>
Connect ==
  /\ alive /\ ~connected /\ connections < MaxConnections
  /\ connected' = TRUE
  /\ connections' = connections + 1
  /\ welcomed' = FALSE
  /\ gapReported' = FALSE
  /\ asm' = EmptyAsm
  /\ open' = TRUE
  /\ hello' = [known |-> lastSession, epoch |-> numbering, cursor |-> cursor]
  /\ inbox' = <<>>
  /\ UNCHANGED <<alive, lastSession, cursor, inventory, tasks, rootVars, deskHistory>>

(* run_wss returns. *)
Hangup ==
  /\ connected' = FALSE
  /\ open' = FALSE /\ hello' = NoHello /\ inbox' = <<>>

(* The socket fails, the heartbeat times out, a Wake or Stop is queued. *)
Disconnect ==
  /\ alive /\ connected
  /\ Hangup
  /\ UNCHANGED <<alive, connections, welcomed, lastSession, gapReported, dataVars,
                 rootVars, deskHistory>>

(* The next frame, of one kind. *)
Incoming(kind) ==
  /\ alive /\ connected
  /\ inbox # <<>> /\ Head(inbox).kind = kind

Keep == <<alive, connected, connections, rootVars, open, hello>>

ResetCursors_Mutant(f) == lastSession # f.session
ResetCursors(f) == ~f.resume \/ lastSession # f.session

HandleWelcome ==
  /\ Incoming("welcome")
  /\ cursor' = IF ResetCursors(Head(inbox)) THEN [k \in Classes |-> 0] ELSE cursor
  /\ lastSession' = Head(inbox).session
  /\ welcomed' = TRUE
  /\ numbering' = Head(inbox).epoch
  /\ inbox' = Tail(inbox)
  /\ UNCHANGED <<Keep, asm, inventory, tasks, gapReported, processed, unrouted, emitted>>

(* fabric_sequence_consumed: the frame was handled before. *)
SkipConsumed ==
  /\ Incoming("page") \/ Incoming("sample")
  /\ Consumed(Head(inbox))
  /\ inbox' = Tail(inbox)
  /\ UNCHANGED <<Keep, welcomed, lastSession, dataVars, gapReported, deskHistory>>

(* The bounds check of FabricGraphAssembler::push. *)
Malformed(f) == f.index >= f.count

(* The assembler as a page finds it: started anew for another revision. *)
Fitted(f) ==
  IF asm.revision # f.revision \/ asm.count # f.count
    THEN [revision |-> f.revision, count |-> f.count,
          pages |-> [i \in AllPages(f.count) |-> Missing]]
    ELSE asm

Filled(f) == [Fitted(f).pages EXCEPT ![f.index] = f.content]

Complete(pages) == \A i \in DOMAIN pages : pages[i] # Missing

Genuine(pages) == \A i \in DOMAIN pages : pages[i] # Forged

(* The nodes of all pages together. *)
Assembled(pages) ==
  [m \in UNION {DOMAIN pages[i] : i \in DOMAIN pages} |->
     pages[CHOOSE i \in DOMAIN pages : m \in DOMAIN pages[i]][m]]

(* A page the worker has no use for yet. *)
PageStored ==
  /\ Incoming("page")
  /\ LET f == Head(inbox) IN
       /\ ~Consumed(f) /\ ~Malformed(f)
       /\ f.index \in DOMAIN Fitted(f).pages
       /\ ~Complete(Filled(f))
       /\ asm' = [Fitted(f) EXCEPT !.pages = Filled(f)]
       /\ cursor' = RecordCursor(f)
       /\ processed' = processed \cup {FrameId(f)}
  /\ inbox' = Tail(inbox)
  /\ UNCHANGED <<Keep, welcomed, lastSession, inventory, tasks, gapReported, numbering, unrouted,
                 emitted>>

(* The page that completes a revision: the inventory is replaced. *)
GraphAdopted ==
  /\ Incoming("page")
  /\ LET f == Head(inbox) IN
       /\ ~Consumed(f) /\ ~Malformed(f) /\ Genuine(Filled(f))
       /\ f.index \in DOMAIN Fitted(f).pages
       /\ Complete(Filled(f))
       /\ asm' = [Fitted(f) EXCEPT !.pages = NoPages]
       /\ inventory' = Routes(Assembled(Filled(f)))
       /\ tasks' = Online(Assembled(Filled(f)))
       /\ cursor' = RecordCursor(f)
       /\ processed' = processed \cup {FrameId(f)}
  /\ gapReported' = FALSE
  /\ inbox' = Tail(inbox)
  /\ UNCHANGED <<Keep, welcomed, lastSession, numbering, unrouted, emitted>>

(* A page out of bounds, or a complete graph with an invalid, forged or    *)
(* repeated node: an error that ends the connection and records nothing.   *)
GraphRefused ==
  /\ Incoming("page")
  /\ LET f == Head(inbox) IN
       /\ ~Consumed(f)
       /\ \/ Malformed(f)
          \/ /\ f.index \in DOMAIN Fitted(f).pages
             /\ Complete(Filled(f)) /\ ~Genuine(Filled(f))
  /\ Hangup
  /\ UNCHANGED <<alive, connections, welcomed, lastSession, gapReported, dataVars,
                 rootVars, deskHistory>>

(* A page of the revision completed last: its slot is gone, the index      *)
(* panics and the worker thread ends.                                      *)
WorkerPanics ==
  /\ Incoming("page")
  /\ LET f == Head(inbox) IN
       /\ ~Consumed(f) /\ ~Malformed(f)
       /\ f.index \notin DOMAIN Fitted(f).pages
  /\ alive' = FALSE
  /\ Hangup
  /\ UNCHANGED <<connections, welcomed, lastSession, gapReported, dataVars, rootVars,
                 deskHistory>>

SampleEmitted ==
  /\ Incoming("sample")
  /\ LET f == Head(inbox) IN
       /\ ~Consumed(f) /\ Known(f.mac)
       /\ emitted' = Append(emitted, FrameId(f))
       /\ processed' = processed \cup {FrameId(f)}
       /\ cursor' = RecordCursor(f)
  /\ inbox' = Tail(inbox)
  /\ UNCHANGED <<Keep, welcomed, lastSession, asm, inventory, tasks, gapReported,
                 numbering, unrouted>>

(* fabric_source_mac_or_report_gap: the source is not routed.  The cursor  *)
(* stays, so that the root may send the sample again.                      *)
SampleUnknown ==
  /\ Incoming("sample")
  /\ ~Consumed(Head(inbox)) /\ ~Known(Head(inbox).mac)
  /\ gapReported' = TRUE
  /\ unrouted' = unrouted \cup {FrameId(Head(inbox))}
  /\ inbox' = Tail(inbox)
  /\ UNCHANGED <<Keep, welcomed, lastSession, dataVars, numbering, processed, emitted>>

-----------------------------------------------------------------------------
(* The root (external) *)

deskIdle == UNCHANGED <<sessionVars, dataVars, deskHistory>>

Serving == open /\ hello = NoHello

(* Where in the log the frames are that a desktop with these cursors has   *)
(* not had, and the last `again' frames of a class that it has.            *)
Unseen(reported, classes, again) ==
  {i \in 1..Len(log) :
     log[i].class \in classes /\ log[i].seq + again > reported[log[i].class]}

(* The places of a set in their order. *)
InOrder(S) ==
  {places \in [1..Cardinality(S) -> S] :
     \A i, j \in DOMAIN places : i < j => places[i] < places[j]}

FramesAt(places) == [i \in DOMAIN places |-> log[places[i]]]

WelcomeFrame(resume, numberingOf) ==
  [kind |-> "welcome", session |-> boot, resume |-> resume, epoch |-> numberingOf]

(* The root resumes behind the reported cursors, or a frame before them... *)
RootResumes(again) ==
  /\ open /\ hello # NoHello
  /\ hello.known = boot /\ hello.epoch = epoch
  /\ LET classes == IF root.snapshot THEN {"sensor"} ELSE Classes IN
       \E places \in InOrder(Unseen(hello.cursor, classes, again)) :
         inbox' = <<WelcomeFrame(TRUE, epoch)>> \o FramesAt(places)
  /\ toSend' = IF root.snapshot THEN AllPages(pageCount) ELSE toSend
  /\ hello' = NoHello
  /\ UNCHANGED <<open, root, boot, revision, graph, pageCount, seq, log, epoch, published>>
  /\ deskIdle

(* ... or numbers anew and sends the whole graph. *)
RootStartsOver ==
  /\ open /\ hello # NoHello
  /\ inbox' = Append(inbox, WelcomeFrame(FALSE, epoch + 1))
  /\ toSend' = AllPages(pageCount)
  /\ seq' = [k \in Classes |-> 0]
  /\ log' = <<>>
  /\ epoch' = epoch + 1
  /\ hello' = NoHello
  /\ UNCHANGED <<open, root, boot, revision, graph, pageCount, published>>
  /\ deskIdle

RootPublishes(g, n) ==
  /\ revision + boot <= MaxRevisions
  /\ revision' = revision + 1
  /\ graph' = g /\ pageCount' = n
  /\ toSend' = AllPages(n)
  /\ published' = published \cup {g}
  /\ UNCHANGED <<linkVars, root, boot, seq, log, epoch>>
  /\ deskIdle

(* Put a frame on the wire and in the log. *)
Emit(f) ==
  /\ Len(log) < MaxFrames
  /\ inbox' = Append(inbox, f)
  /\ log' = Append(log, f)
  /\ seq' = [seq EXCEPT ![f.class] = f.seq]

PageFrame(i, fault) ==
  [kind |-> "page", class |-> "graph", epoch |-> epoch, seq |-> seq["graph"] + 1,
   revision |-> revision, count |-> pageCount,
   index |-> IF fault = "bounds" THEN pageCount ELSE i,
   content |-> IF fault = "node" THEN Forged ELSE PageContent(graph, i, pageCount)]

RootSendsPage(i, fault) ==
  /\ Serving /\ i \in toSend
  /\ fault = "none" \/ root.faults
  /\ Emit(PageFrame(i, fault))
  /\ toSend' = toSend \ {i}
  /\ UNCHANGED <<open, hello, root, boot, revision, graph, pageCount, epoch, published>>
  /\ deskIdle

RootRepeats ==
  /\ root.repeats /\ Serving /\ toSend = {}
  /\ toSend' = AllPages(pageCount)
  /\ UNCHANGED <<linkVars, root, boot, revision, graph, pageCount, seq, log, epoch, published>>
  /\ deskIdle

RootSamples(m) ==
  /\ Serving /\ m \in Online(graph)
  /\ Emit([kind |-> "sample", class |-> "sensor", epoch |-> epoch,
           seq |-> seq["sensor"] + 1, mac |-> m])
  /\ UNCHANGED <<open, hello, root, boot, revision, graph, pageCount, toSend, epoch, published>>
  /\ deskIdle

(* A boot counts its revisions and its frames anew. *)
RootReboots(g, n) ==
  /\ boot < MaxBoots
  /\ boot' = boot + 1
  /\ revision' = 1 /\ graph' = g /\ pageCount' = n
  /\ toSend' = AllPages(n)
  /\ published' = published \cup {g}
  /\ seq' = [k \in Classes |-> 0]
  /\ log' = <<>>
  /\ epoch' = epoch + 1
  /\ open' = FALSE
  /\ UNCHANGED <<hello, inbox, root>>
  /\ deskIdle

-----------------------------------------------------------------------------
WorkerNext ==
  \/ Connect \/ Disconnect
  \/ HandleWelcome \/ SkipConsumed
  \/ PageStored \/ GraphAdopted \/ GraphRefused \/ WorkerPanics
  \/ SampleEmitted \/ SampleUnknown

RootNext ==
  \/ RootResumes(0) \/ RootResumes(1) \/ RootStartsOver \/ RootRepeats
  \/ \E g \in Graphs : RootPublishes(g, PagesOf[g]) \/ RootReboots(g, PagesOf[g])
  \/ \E i \in AllPages(pageCount), fault \in {"none", "bounds", "node"} :
       RootSendsPage(i, fault)
  \/ \E m \in Macs : RootSamples(m)

Next == WorkerNext \/ RootNext

Spec == Init /\ [][Next]_vars

-----------------------------------------------------------------------------
(* Properties *)

(* The inventory that routes commands is that of one graph the root        *)
(* published: never a mixture of two revisions, two boots or of pages that *)
(* did not all arrive (FabricGraphAssembler::push).                        *)
InventoryIsPublished ==
  \/ inventory = [t \in Tags |-> NoMac] /\ tasks = {}
  \/ \E g \in published : inventory = Routes(g) /\ tasks = Online(g)

(* The cursors drop neither too much nor too little, however often the     *)
(* connection is resumed or numbered anew: a frame dropped because its     *)
(* number is not above the cursor was handled before, in this numbering,   *)
(* or was passed over as a sample of an unrouted node, which a later       *)
(* sample of its class makes final; and no sample is passed on twice       *)
(* (handle_fabric_frame's cursors and their reset).                        *)
CursorsAreExact ==
  /\ \A i \in 1..Len(inbox) :
       inbox[i].kind # "welcome" /\ (\A j \in 1..i : inbox[j].kind # "welcome")
         /\ Consumed(inbox[i])
       => FrameId(inbox[i]) \in processed \cup unrouted
  /\ \A i, j \in 1..Len(emitted) : emitted[i] = emitted[j] => i = j

(* When everything was read that a root had to say on this connection, and *)
(* it sends its graph after every WELCOME, the worker routes by the root's *)
(* latest graph.                                                           *)
QuietMeansCurrent ==
  root.snapshot /\ connected /\ Serving /\ inbox = <<>> /\ toSend = {} =>
    inventory = Routes(graph) /\ tasks = Online(graph)
=============================================================================

------------------------- MODULE FabricGraphProofs -------------------------
(***************************************************************************)
(* The graph a worker shows is one that its root published, its cursors    *)
(* skip nothing it has not dealt with, and no page is lost: theorems about *)
(* FabricGraph for any nodes, graphs and page counts, and for any bounds   *)
(* on reboots, revisions and frames.                                       *)
(*                                                                         *)
(* LinkInv says what the wire carries, OrderInv and CursorInv how numbers, *)
(* cursors and log relate, HistInv that pages of a revision belong to one  *)
(* published graph, and FreshInv where each page is that the root has      *)
(* sent.  Lemma Kinds sorts the steps into nine kinds; each part of the    *)
(* invariant is kept by each of them.                                      *)
(***************************************************************************)
EXTENDS FabricGraph, FiniteSetTheorems, SequenceTheorems, TLAPS

(* The values of the variables. *)
Revisions == 1..(MaxRevisions + 1)
Content == NodeMaps \cup {Forged}
WelcomeFrames == [kind : {"welcome"}, session : Nat, resume : BOOLEAN, epoch : Nat]
PageFrames ==
  [kind : {"page"}, class : {"graph"}, epoch : Nat, seq : Nat \ {0}, revision : Nat,
   count : Nat, index : Nat, content : Content]
SampleFrames ==
  [kind : {"sample"}, class : {"sensor"}, epoch : Nat, seq : Nat \ {0}, mac : Macs]
DataFrames == PageFrames \cup SampleFrames
Frames == WelcomeFrames \cup DataFrames
PageSlots == UNION {[AllPages(n) -> Content \cup {Missing}] : n \in Nat}
Hellos == [known : Nat, epoch : Nat, cursor : [Classes -> Nat]] \cup {NoHello}

(* Every variable that the proofs read holds a value of its type, and the  *)
(* page count is that of the graph being served.                           *)
TypeOK ==
  /\ alive \in BOOLEAN /\ connected \in BOOLEAN /\ open \in BOOLEAN
  /\ lastSession \in Nat /\ numbering \in Nat /\ epoch \in Nat
  /\ cursor \in [Classes -> Nat] /\ seq \in [Classes -> Nat]
  /\ asm \in [revision : Nat, count : Nat, pages : PageSlots]
  /\ inbox \in Seq(Frames) /\ log \in Seq(DataFrames)
  /\ hello \in Hellos
  /\ root \in RootKinds /\ boot \in Nat \ {0} /\ revision \in Revisions
  /\ graph \in published /\ published \subseteq Graphs
  /\ pageCount = PagesOf[graph]
  /\ toSend \subseteq AllPages(pageCount)
  /\ emitted \in Seq(Nat \X Classes \X Nat)

-----------------------------------------------------------------------------
(* What taking the head off a sequence leaves. *)
LEMMA TailIs ==
  ASSUME NEW S, NEW s \in Seq(S), s # <<>>
  PROVE  /\ Len(s) \in Nat \ {0} /\ Head(s) = s[1] /\ s[1] \in S
         /\ Tail(s) \in Seq(S) /\ Len(Tail(s)) = Len(s) - 1
         /\ \A i \in 1..Len(Tail(s)) : i + 1 \in 1..Len(s) /\ Tail(s)[i] = s[i + 1]
  OBVIOUS

(* What appending to a sequence adds and keeps. *)
LEMMA AppendIs ==
  ASSUME NEW S, NEW s \in Seq(S), NEW e \in S
  PROVE  /\ Append(s, e) \in Seq(S) /\ Len(Append(s, e)) = Len(s) + 1 /\ Len(s) \in Nat
         /\ Append(s, e)[Len(s) + 1] = e
         /\ \A i \in 1..Len(s) : Append(s, e)[i] = s[i]
  OBVIOUS

(* A function on 1..n is a sequence of n elements. *)
LEMMA SequenceIs ==
  ASSUME NEW S, NEW n \in Nat, NEW s \in [1..n -> S]
  PROVE  s \in Seq(S) /\ Len(s) = n
  OBVIOUS

(* What putting an element before a sequence adds and keeps. *)
LEMMA ConsIs ==
  ASSUME NEW S, NEW e \in S, NEW s \in Seq(S), NEW r, r = <<e>> \o s
  PROVE  /\ r \in Seq(S) /\ Len(r) = 1 + Len(s) /\ Len(s) \in Nat
         /\ r[1] = e
         /\ \A i \in 2..Len(r) : r[i] = s[i - 1] /\ i - 1 \in 1..Len(s)
  OBVIOUS

(* A residue is the number of a page. *)
LEMMA Residue == ASSUME NEW a \in Nat, NEW n \in Nat \ {0} PROVE a % n \in AllPages(n)
  BY DEF AllPages

(* The pages a root cuts a graph into, put together, are the graph again:  *)
(* every node is on exactly one page.                                      *)
LEMMA Assemble ==
  ASSUME NEW g \in NodeMaps, NEW n \in Nat \ {0}, NEW pages,
         DOMAIN pages = AllPages(n),
         \A i \in AllPages(n) : pages[i] = PageContent(g, i, n)
  PROVE  Assembled(pages) = g
PROOF
<1>1. PICK S \in SUBSET Macs : g \in [S -> Node]  BY DEF NodeMaps
<1>2. \A i \in AllPages(n) : DOMAIN pages[i] = PageNodes(g, i, n)
  BY DEF PageContent
<1>3. \A m \in S : PageOf[m] % n \in AllPages(n) /\ m \in PageNodes(g, PageOf[m] % n, n)
  BY <1>1, Residue, GraphAssumption DEF PageNodes
<1>4. UNION {DOMAIN pages[i] : i \in DOMAIN pages} = S
  BY <1>1, <1>2, <1>3 DEF PageNodes
<1>5. ASSUME NEW m \in S
      PROVE  pages[CHOOSE i \in DOMAIN pages : m \in DOMAIN pages[i]][m] = g[m]
  <2>1. PICK i \in DOMAIN pages : /\ i = (CHOOSE j \in DOMAIN pages : m \in DOMAIN pages[j])
                                  /\ m \in DOMAIN pages[i]
    BY <1>2, <1>3
  <2> QED
    BY <2>1, <1>2 DEF PageContent
<1> QED
  BY <1>1, <1>4, <1>5 DEF Assembled

-----------------------------------------------------------------------------
(* A page of a graph is neither a missing page nor one with a refused      *)
(* node.                                                                   *)
LEMMA ContentIsNot ==
  ASSUME NEW g \in NodeMaps, NEW i, NEW n
  PROVE  /\ PageContent(g, i, n) \in NodeMaps
         /\ PageContent(g, i, n) # Missing /\ PageContent(g, i, n) # Forged
         /\ Missing # Forged
PROOF
<1>1. PICK S \in SUBSET Macs : g \in [S -> Node]  BY DEF NodeMaps
<1>2. PageNodes(g, i, n) \in SUBSET Macs  BY <1>1 DEF PageNodes
<1>3. PageContent(g, i, n) \in [PageNodes(g, i, n) -> Node]
  BY <1>1 DEF PageContent, PageNodes
<1>4. PageContent(g, i, n) \in NodeMaps  BY <1>2, <1>3 DEF NodeMaps
<1>5. NoMac \notin DOMAIN PageContent(g, i, n)
  BY <1>2, <1>3, GraphAssumption
<1>6. DOMAIN Missing = {NoMac} /\ DOMAIN Forged = {NoMac} /\ Missing[NoMac] = FALSE /\ Forged[NoMac] = TRUE
  BY DEF Missing, Forged
<1>7. Missing # Forged
  BY <1>6
<1> QED BY <1>4, <1>5, <1>6, <1>7

(* The kinds of a frame, and the numbers a data frame carries. *)
LEMMA FrameIs ==
  ASSUME NEW f \in Frames
  PROVE  /\ f.kind \in {"welcome", "page", "sample"} /\ f.epoch \in Nat
         /\ f.kind = "welcome" => f \in WelcomeFrames
         /\ f.kind = "page" => f \in PageFrames
         /\ f.kind = "sample" => f \in SampleFrames
         /\ f.kind # "welcome" => /\ f \in DataFrames /\ f.class \in Classes /\ f.seq \in Nat \ {0}
                                  /\ FrameId(f) = <<f.epoch, f.class, f.seq>>
                                  /\ FrameId(f) \in Nat \X Classes \X Nat
         /\ f \in DataFrames => f.kind # "welcome"
  BY DEF Frames, WelcomeFrames, PageFrames, SampleFrames, DataFrames, FrameId, Classes

(* A welcome followed by frames of the log, in their order, is an inbox:   *)
(* each frame of it is the one at some place of the log, and the places    *)
(* grow.                                                                   *)
LEMMA Resent ==
  ASSUME NEW w \in WelcomeFrames, TypeOK, NEW c \in [Classes -> Nat], NEW K, NEW again \in Nat,
         NEW places \in InOrder(Unseen(c, K, again)),
         NEW s, s = <<w>> \o FramesAt(places)
  PROVE  /\ s \in Seq(Frames) /\ Len(s) \in Nat \ {0} /\ s[1] = w
         /\ \A i \in 2..Len(s) :
              /\ i - 1 \in DOMAIN places
              /\ places[i - 1] \in Unseen(c, K, again)
              /\ s[i] = log[places[i - 1]]
              /\ s[i] \in DataFrames
         /\ \A i, j \in 2..Len(s) : i < j => places[i - 1] < places[j - 1]
PROOF
<1>1. PICK U : U = Unseen(c, K, again)  OBVIOUS
<1>2. U \subseteq 1..Len(log) /\ Len(log) \in Nat  BY <1>1 DEF Unseen, TypeOK
<1>3. IsFiniteSet(U) /\ Cardinality(U) \in Nat
  <2>1. IsFiniteSet(1..Len(log))  BY <1>2, FS_Interval
  <2> QED  BY <1>2, <2>1, FS_Subset, FS_CardinalityType
<1>4. /\ places \in [1..Cardinality(U) -> U]
      /\ \A i, j \in DOMAIN places : i < j => places[i] < places[j]
  BY <1>1 DEF InOrder
<1>5. \A i \in 1..Len(log) : log[i] \in DataFrames
  BY DEF TypeOK
<1>6. \A i \in DOMAIN places : log[places[i]] \in DataFrames
  BY <1>2, <1>4, <1>5
<1>7. PICK t : t = FramesAt(places)  OBVIOUS
<1>8. t \in [1..Cardinality(U) -> DataFrames] /\ \A i \in DOMAIN places : t[i] = log[places[i]]
  BY <1>4, <1>6, <1>7 DEF FramesAt
<1>9. t \in Seq(DataFrames) /\ Len(t) = Cardinality(U)
  BY <1>3, <1>8, SequenceIs
<1>10. t \in Seq(Frames) /\ w \in Frames
  BY <1>9 DEF Frames
<1>11. s = <<w>> \o t  BY <1>7
<1>12. /\ s \in Seq(Frames) /\ Len(s) = 1 + Len(t) /\ Len(t) \in Nat /\ s[1] = w
       /\ \A i \in 2..Len(s) : s[i] = t[i - 1] /\ i - 1 \in 1..Len(t)
  <2>1. s \in Seq(Frames)
    BY <1>10, <1>11, ConsIs
  <2>2. Len(s) = 1 + Len(t) /\ Len(t) \in Nat
    BY <1>10, <1>11, ConsIs
  <2>3. s[1] = w
    BY <1>10, <1>11, ConsIs
  <2>4. \A i \in 2..Len(s) : s[i] = t[i - 1] /\ i - 1 \in 1..Len(t)
    BY <1>10, <1>11, ConsIs
  <2> QED
    BY <2>1, <2>2, <2>3, <2>4
<1>13. \A i \in 2..Len(s) : i - 1 \in DOMAIN places
  BY <1>4, <1>9, <1>12
<1>14. \A i \in 2..Len(s) : places[i - 1] \in U /\ s[i] = log[places[i - 1]] /\ s[i] \in DataFrames
  BY <1>4, <1>6, <1>8, <1>12, <1>13
<1>15. \A i, j \in 2..Len(s) : i < j => places[i - 1] < places[j - 1]
  <2>1. SUFFICES ASSUME NEW i \in 2..Len(s), NEW j \in 2..Len(s), i < j
                 PROVE  places[i - 1] < places[j - 1]
    OBVIOUS
  <2>2. i - 1 < j - 1  BY <2>1, <1>12
  <2> QED  BY <1>4, <1>13, <2>2
<1> QED
  BY <1>1, <1>12, <1>13, <1>14, <1>15

(* The inbox and the log are sequences of frames. *)
LEMMA FramesInbox ==
  ASSUME TypeOK
  PROVE  /\ Len(inbox) \in Nat /\ DOMAIN inbox = 1..Len(inbox)
         /\ \A i \in 1..Len(inbox) : inbox[i] \in Frames
         /\ inbox # <<>> => /\ Len(inbox) > 0 /\ Head(inbox) = inbox[1] /\ Head(inbox) \in Frames
                            /\ Tail(inbox) \in Seq(Frames)
         /\ Len(log) \in Nat /\ DOMAIN log = 1..Len(log)
         /\ \A i \in 1..Len(log) : log[i] \in DataFrames
  BY DEF TypeOK

(* The slots a page goes into. *)
LEMMA FilledIs ==
  ASSUME TypeOK, NEW f \in PageFrames, ~Malformed(f)
  PROVE  /\ Fitted(f) \in [revision : Nat, count : Nat, pages : PageSlots]
         /\ Fitted(f).revision = f.revision /\ Fitted(f).count = f.count
         /\ f.index \in AllPages(f.count)
         /\ f.index \in DOMAIN Fitted(f).pages =>
              /\ Filled(f) \in PageSlots /\ DOMAIN Filled(f) = DOMAIN Fitted(f).pages
              /\ Filled(f)[f.index] = f.content
              /\ \A i \in DOMAIN Filled(f) : i # f.index => Filled(f)[i] = Fitted(f).pages[i]
PROOF
<1>1. f.index \in AllPages(f.count)
  BY DEF Malformed, AllPages, PageFrames
<1>2. [i \in AllPages(f.count) |-> Missing] \in PageSlots
  BY DEF PageSlots, PageFrames
<1>3. Fitted(f) \in [revision : Nat, count : Nat, pages : PageSlots]
      /\ Fitted(f).revision = f.revision /\ Fitted(f).count = f.count
  BY <1>2 DEF Fitted, TypeOK, PageFrames
<1>4. ASSUME f.index \in DOMAIN Fitted(f).pages
      PROVE  /\ Filled(f) \in PageSlots /\ DOMAIN Filled(f) = DOMAIN Fitted(f).pages
             /\ Filled(f)[f.index] = f.content
             /\ \A i \in DOMAIN Filled(f) : i # f.index => Filled(f)[i] = Fitted(f).pages[i]
  <2>1. PICK n \in Nat : Fitted(f).pages \in [AllPages(n) -> Content \cup {Missing}]
    BY <1>3 DEF PageSlots
  <2>2. f.content \in Content  BY DEF PageFrames
  <2>3. Filled(f) \in [AllPages(n) -> Content \cup {Missing}]
    BY <2>1, <2>2 DEF Filled
  <2> QED
    BY <1>4, <2>1, <2>3 DEF Filled, PageSlots
<1> QED
  BY <1>1, <1>3, <1>4

(* The empty slots that follow an adopted graph. *)
LEMMA NoPagesIs == NoPages \in PageSlots /\ DOMAIN NoPages = {}
PROOF
<1>1. AllPages(0) = {}  BY DEF AllPages
<1>2. NoPages \in [AllPages(0) -> Content \cup {Missing}]  BY <1>1 DEF NoPages
<1> QED  BY <1>2 DEF PageSlots, NoPages

(* The bounds and the graphs that the assumption speaks of. *)
LEMMA BoundsAre ==
  /\ MaxRevisions \in Nat /\ Revisions \subseteq Nat \ {0} /\ 1 \in Revisions
  /\ \A g \in Graphs : g \in NodeMaps /\ PagesOf[g] \in Nat \ {0}
PROOF
<1>1. MaxRevisions \in Nat  BY GraphAssumption
<1> QED  BY <1>1, GraphAssumption DEF Revisions

-----------------------------------------------------------------------------
(* The first state has the types. *)
LEMMA InitType == Init => TypeOK
PROOF
<1> SUFFICES ASSUME Init PROVE TypeOK  OBVIOUS
<1>1. NoPages \in PageSlots  BY NoPagesIs
<1>2. EmptyAsm \in [revision : Nat, count : Nat, pages : PageSlots]
  BY <1>1 DEF EmptyAsm
<1>3. <<>> \in Seq(Frames) /\ <<>> \in Seq(DataFrames) /\ <<>> \in Seq(Nat \X Classes \X Nat)
  OBVIOUS
<1>4. asm \in [revision : Nat, count : Nat, pages : PageSlots]
  BY <1>2 DEF Init
<1>5. inbox \in Seq(Frames) /\ log \in Seq(DataFrames) /\ emitted \in Seq(Nat \X Classes \X Nat)
  BY <1>3 DEF Init
<1>6. cursor \in [Classes -> Nat] /\ seq \in [Classes -> Nat] /\ hello \in Hellos
  BY DEF Init, Hellos
<1> QED
  BY <1>4, <1>5, <1>6, BoundsAre DEF Init, TypeOK

(* What the root sends for a page is a page frame. *)
LEMMA PageFrameIs ==
  ASSUME TypeOK, NEW i \in AllPages(pageCount), NEW fault
  PROVE  PageFrame(i, fault) \in PageFrames
PROOF
<1>1. graph \in NodeMaps /\ pageCount \in Nat \ {0}
  BY GraphAssumption DEF TypeOK
<1>2. PageContent(graph, i, pageCount) \in NodeMaps
  BY <1>1, ContentIsNot
<1>3. i \in Nat  BY <1>1 DEF AllPages
<1>4. revision \in Nat /\ epoch \in Nat /\ seq["graph"] + 1 \in Nat \ {0}
  BY BoundsAre DEF TypeOK, Classes
<1> QED
  BY <1>1, <1>2, <1>3, <1>4 DEF PageFrame, PageFrames, Content

(* record_cursor moves the cursor of the frame's class only. *)
LEMMA RecordCursorIs ==
  ASSUME TypeOK, NEW f \in DataFrames
  PROVE  /\ RecordCursor(f) \in [Classes -> Nat]
         /\ ~Consumed(f) => RecordCursor(f) = [cursor EXCEPT ![f.class] = f.seq]
PROOF
<1>1. f.class \in Classes /\ f.seq \in Nat
  BY FrameIs DEF Frames, DataFrames, PageFrames, SampleFrames, Classes
<1> QED
  BY <1>1 DEF RecordCursor, Consumed, TypeOK

(* A step of the worker keeps the types. *)
LEMMA WorkerKeepsType == ASSUME TypeOK, WorkerNext PROVE TypeOK'
PROOF
<1> USE FramesInbox
<1>1. CASE Connect
  <2>1. NoPages \in PageSlots  BY NoPagesIs
  <2>2. asm' \in [revision : Nat, count : Nat, pages : PageSlots]
    BY <1>1, <2>1 DEF EmptyAsm, Connect
  <2>3. hello' \in Hellos
    BY <1>1 DEF Connect, Hellos, TypeOK
  <2>4. inbox' \in Seq(Frames)
    BY <1>1 DEF Connect
  <2> QED
    BY <1>1, <2>2, <2>3, <2>4 DEF Connect, TypeOK, rootVars, deskHistory
<1>2. CASE Disconnect \/ GraphRefused \/ WorkerPanics
  <2>1. inbox' = <<>> /\ hello' = NoHello /\ <<>> \in Seq(Frames)
    BY <1>2 DEF Disconnect, GraphRefused, WorkerPanics, Hangup
  <2>2. inbox' \in Seq(Frames) /\ hello' \in Hellos
    BY <2>1 DEF Hellos
  <2>3. alive' \in BOOLEAN /\ connected' = FALSE /\ open' = FALSE
    BY <1>2 DEF Disconnect, GraphRefused, WorkerPanics, Hangup, TypeOK
  <2>4. UNCHANGED <<lastSession, dataVars, rootVars, deskHistory>>
    BY <1>2 DEF Disconnect, GraphRefused, WorkerPanics
  <2> QED
    BY <2>2, <2>3, <2>4 DEF TypeOK, rootVars, deskHistory, dataVars
<1>3. CASE HandleWelcome
  <2>1. Head(inbox) \in WelcomeFrames
    BY <1>3, FrameIs DEF HandleWelcome, Incoming
  <2>2. /\ Head(inbox).session \in Nat /\ Head(inbox).epoch \in Nat
        /\ cursor' \in [Classes -> Nat]
    BY <1>3, <2>1 DEF HandleWelcome, WelcomeFrames, TypeOK
  <2> QED
    BY <1>3, <2>2 DEF HandleWelcome, Incoming, TypeOK, Keep, rootVars
<1>4. CASE SkipConsumed
  BY <1>4 DEF SkipConsumed, Incoming, TypeOK, Keep, rootVars, dataVars, deskHistory
<1>5. CASE PageStored \/ GraphAdopted
  <2>1. /\ Head(inbox) \in PageFrames /\ Head(inbox) \in DataFrames /\ ~Consumed(Head(inbox))
        /\ inbox # <<>> /\ ~Malformed(Head(inbox))
        /\ Head(inbox).index \in DOMAIN Fitted(Head(inbox)).pages
        /\ inbox' = Tail(inbox)
    BY <1>5, FrameIs DEF PageStored, GraphAdopted, Incoming, DataFrames
  <2>2. cursor' \in [Classes -> Nat]
    BY <1>5, <2>1, RecordCursorIs DEF PageStored, GraphAdopted
  <2>3. NoPages \in PageSlots  BY NoPagesIs
  <2>4. asm' \in [revision : Nat, count : Nat, pages : PageSlots]
    BY <1>5, <2>1, <2>3, FilledIs DEF PageStored, GraphAdopted
  <2> QED
    BY <1>5, <2>1, <2>2, <2>4 DEF PageStored, GraphAdopted, TypeOK, Keep, rootVars
<1>6. CASE SampleEmitted
  <2>1. /\ Head(inbox) \in DataFrames /\ inbox # <<>> /\ inbox' = Tail(inbox)
        /\ FrameId(Head(inbox)) \in Nat \X Classes \X Nat
    BY <1>6, FrameIs DEF SampleEmitted, Incoming
  <2>2. cursor' \in [Classes -> Nat]
    BY <1>6, <2>1, RecordCursorIs DEF SampleEmitted
  <2>3. emitted' \in Seq(Nat \X Classes \X Nat)
    BY <1>6, <2>1 DEF SampleEmitted, TypeOK
  <2> QED
    BY <1>6, <2>1, <2>2, <2>3 DEF SampleEmitted, TypeOK, Keep, rootVars
<1>7. CASE SampleUnknown
  BY <1>7 DEF SampleUnknown, Incoming, TypeOK, Keep, rootVars, dataVars
<1> QED
  BY <1>1, <1>2, <1>3, <1>4, <1>5, <1>6, <1>7 DEF WorkerNext

(* A step of the root keeps the types. *)
LEMMA RootKeepsType == ASSUME TypeOK, RootNext PROVE TypeOK'
PROOF
<1> USE FramesInbox
<1> USE DEF deskIdle, sessionVars, dataVars, deskHistory
<1>1. CASE RootResumes(0) \/ RootResumes(1)
  <2>1. PICK again \in {0, 1} : RootResumes(again)  BY <1>1
  <2>2. WelcomeFrame(TRUE, epoch) \in WelcomeFrames
    BY DEF WelcomeFrame, WelcomeFrames, TypeOK
  <2>3. hello.cursor \in [Classes -> Nat]
    BY <2>1 DEF RootResumes, TypeOK, Hellos
  <2>4. PICK w, c, K, places, s :
          /\ w = WelcomeFrame(TRUE, epoch) /\ c = hello.cursor
          /\ places \in InOrder(Unseen(c, K, again))
          /\ s = <<w>> \o FramesAt(places) /\ inbox' = s
    BY <2>1 DEF RootResumes
  <2>5. inbox' \in Seq(Frames)
    <3>1. w \in WelcomeFrames  BY <2>2, <2>4
    <3>3. c \in [Classes -> Nat]  BY <2>3, <2>4
    <3>4. again \in Nat  BY <2>1
    <3>2. s \in Seq(Frames)
      BY <3>1, <3>3, <3>4, <2>4, Resent
    <3> QED  BY <2>4, <3>2
  <2>6. toSend' \subseteq AllPages(pageCount) /\ hello' \in Hellos
    BY <2>1 DEF RootResumes, Hellos, TypeOK
  <2> QED
    BY <2>1, <2>5, <2>6 DEF RootResumes, TypeOK
<1>2. CASE RootStartsOver
  <2>1. WelcomeFrame(FALSE, epoch + 1) \in Frames
    BY DEF WelcomeFrame, WelcomeFrames, TypeOK, Frames
  <2>2. inbox' \in Seq(Frames)
    BY <1>2, <2>1, AppendIs DEF RootStartsOver, TypeOK
  <2>3. seq' \in [Classes -> Nat] /\ hello' \in Hellos /\ epoch' \in Nat
    BY <1>2 DEF RootStartsOver, TypeOK, Hellos
  <2>4. log' \in Seq(DataFrames) /\ toSend' \subseteq AllPages(pageCount')
    BY <1>2 DEF RootStartsOver
  <2> QED
    BY <1>2, <2>2, <2>3, <2>4 DEF RootStartsOver, TypeOK
<1>3. CASE RootRepeats
  BY <1>3 DEF RootRepeats, TypeOK, linkVars
<1>4. ASSUME NEW g \in Graphs, RootPublishes(g, PagesOf[g]) PROVE TypeOK'
  <2>1. revision' \in Revisions
    BY <1>4, BoundsAre DEF RootPublishes, TypeOK, Revisions
  <2> QED
    BY <1>4, <2>1 DEF RootPublishes, TypeOK, linkVars
<1>5. ASSUME NEW g \in Graphs, RootReboots(g, PagesOf[g]) PROVE TypeOK'
  <2>1. revision' \in Revisions /\ boot' \in Nat \ {0} /\ epoch' \in Nat
    BY <1>5, BoundsAre DEF RootReboots, TypeOK
  <2>2. log' \in Seq(DataFrames) /\ seq' \in [Classes -> Nat]
    BY <1>5 DEF RootReboots
  <2> QED
    BY <1>5, <2>1, <2>2 DEF RootReboots, TypeOK
<1>6. ASSUME NEW f \in DataFrames, Emit(f)
      PROVE  inbox' \in Seq(Frames) /\ log' \in Seq(DataFrames) /\ seq' \in [Classes -> Nat]
  <2>1. f \in Frames /\ f.class \in Classes /\ f.seq \in Nat
    BY FrameIs DEF Frames
  <2> QED
    BY <1>6, <2>1 DEF Emit, TypeOK
<1>7. ASSUME NEW i \in AllPages(pageCount), NEW fault, RootSendsPage(i, fault) PROVE TypeOK'
  <2>1. PageFrame(i, fault) \in DataFrames
    BY PageFrameIs DEF DataFrames
  <2>2. Emit(PageFrame(i, fault))  BY <1>7 DEF RootSendsPage
  <2> QED
    BY <1>6, <1>7, <2>1, <2>2 DEF RootSendsPage, TypeOK
<1>8. ASSUME NEW m \in Macs, RootSamples(m) PROVE TypeOK'
  <2>1. seq["sensor"] + 1 \in Nat \ {0} /\ epoch \in Nat  BY DEF TypeOK, Classes
  <2>2. PICK f : /\ f = [kind |-> "sample", class |-> "sensor", epoch |-> epoch,
                         seq |-> seq["sensor"] + 1, mac |-> m]
                 /\ Emit(f)
    BY <1>8 DEF RootSamples
  <2>3. f \in DataFrames
    BY <2>1, <2>2 DEF DataFrames, SampleFrames
  <2> QED
    BY <1>6, <1>8, <2>2, <2>3 DEF RootSamples, TypeOK
<1> QED
  BY <1>1, <1>2, <1>3, <1>4, <1>5, <1>7, <1>8 DEF RootNext

-----------------------------------------------------------------------------
(* A welcome is on its way, ahead of every other frame. *)
Pending == inbox # <<>> /\ inbox[1].kind = "welcome"

(* The numbering and the cursors that the frames on the wire will be       *)
(* compared with: those after the welcome that comes first, if one does.   *)
LinkEpoch == IF Pending THEN inbox[1].epoch ELSE numbering

LinkCursor(k) == IF Pending /\ ~inbox[1].resume THEN 0 ELSE cursor[k]

(* What the wire carries.  Without a connection it carries nothing; a      *)
(* hello that waits for its answer tells the root what the worker still    *)
(* holds; a welcome comes first, and finds no pages stored; it resumes     *)
(* the numbering the worker has or starts a later one.  Every data frame   *)
(* has the numbering the worker will have when it takes the frame, and     *)
(* while the root serves the connection that numbering is its own.         *)
LinkInv ==
  /\ ~connected => inbox = <<>> /\ ~open /\ hello = NoHello
  /\ hello # NoHello =>
       /\ inbox = <<>> /\ asm = EmptyAsm
       /\ hello = [known |-> lastSession, epoch |-> numbering, cursor |-> cursor]
  /\ \A i \in 1..Len(inbox) :
       IF inbox[i].kind = "welcome"
         THEN /\ i = 1 /\ asm = EmptyAsm /\ inbox[i].epoch <= epoch
              /\ inbox[i].resume => /\ inbox[i].epoch = numbering
                                    /\ inbox[i].session = lastSession
              /\ ~inbox[i].resume => inbox[i].epoch > numbering
         ELSE inbox[i].epoch = LinkEpoch
  /\ numbering <= epoch
  /\ Serving => LinkEpoch = epoch

(* The frames of a class are in the order of their numbers, on the wire    *)
(* and in the log, and no number, no cursor runs ahead of the root's       *)
(* count.                                                                  *)
OrderInv ==
  /\ \A i, j \in 1..Len(inbox) :
       i < j /\ inbox[i].kind # "welcome" /\ inbox[i].class = inbox[j].class
         => inbox[i].seq < inbox[j].seq
  /\ LinkEpoch = epoch =>
       \A i \in 1..Len(inbox) : inbox[i].kind # "welcome" => inbox[i].seq <= seq[inbox[i].class]
  /\ numbering = epoch => \A k \in Classes : cursor[k] <= seq[k]
  /\ \A i \in 1..Len(log) : log[i].epoch = epoch /\ log[i].seq <= seq[log[i].class]
  /\ \A i, j \in 1..Len(log) : i < j /\ log[i].class = log[j].class => log[i].seq < log[j].seq

(* A frame on the wire that the cursors will have passed is one the        *)
(* worker has already dealt with, and each cursor stands at such a frame.  *)
CursorInv ==
  /\ \A i \in 1..Len(inbox) :
       inbox[i].kind # "welcome" /\ inbox[i].seq <= LinkCursor(inbox[i].class)
         => FrameId(inbox[i]) \in processed \cup unrouted
  /\ \A k \in Classes : cursor[k] > 0 => <<numbering, k, cursor[k]>> \in processed

(* A sample that was handed on is behind the sensor cursor of its          *)
(* numbering, and none was handed on twice.                                *)
EmittedInv ==
  /\ \A i \in 1..Len(emitted) :
       /\ emitted[i][1] <= numbering /\ emitted[i][2] = "sensor"
       /\ emitted[i][1] = numbering => emitted[i][3] <= cursor["sensor"]
  /\ \A i, j \in 1..Len(emitted) : emitted[i] = emitted[j] => i = j

-----------------------------------------------------------------------------
(* The steps that end a connection. *)
Hangs == Disconnect \/ GraphRefused \/ WorkerPanics

(* The steps that take a page, and all those that take a data frame.       *)
TakesPage == PageStored \/ GraphAdopted
Takes == SkipConsumed \/ TakesPage \/ SampleEmitted \/ SampleUnknown

(* The root puts one frame on the wire, numbered next in its class.        *)
Sends(f) ==
  /\ Serving /\ Emit(f) /\ f.epoch = epoch /\ f.seq = seq[f.class] + 1
  /\ UNCHANGED <<open, hello, root, boot, revision, graph, pageCount, epoch, published,
                 sessionVars, dataVars, deskHistory>>

(* Hanging up empties the wire and keeps what the worker holds.            *)
LEMMA HangupIs ==
  ASSUME Hangs
  PROVE  /\ connected' = FALSE /\ open' = FALSE /\ hello' = NoHello
         /\ inbox' = <<>> /\ Len(inbox') = 0
         /\ ~Pending' /\ LinkEpoch' = numbering /\ ~Serving'
         /\ UNCHANGED <<lastSession, cursor, asm, inventory, tasks, numbering,
                        processed, unrouted, emitted, rootVars>>
PROOF
<1>1. /\ connected' = FALSE /\ open' = FALSE /\ hello' = NoHello /\ inbox' = <<>>
      /\ UNCHANGED <<lastSession, cursor, asm, inventory, tasks, numbering, processed,
                     unrouted, emitted, rootVars>>
  BY DEF Hangs, Disconnect, GraphRefused, WorkerPanics, Hangup, dataVars, deskHistory
<1> QED
  BY <1>1 DEF Pending, LinkEpoch, Serving

(* Taking a data frame removes it from the wire and changes nothing of     *)
(* the connection or of the root.                                          *)
LEMMA TakeIs ==
  ASSUME TypeOK, LinkInv, Takes
  PROVE  /\ connected /\ Len(inbox) > 0 /\ Head(inbox) = inbox[1]
         /\ inbox[1] \in DataFrames /\ inbox[1].epoch = numbering
         /\ Len(inbox') \in Nat /\ Len(inbox') = Len(inbox) - 1
         /\ \A i \in 1..Len(inbox') : i + 1 \in 1..Len(inbox) /\ inbox'[i] = inbox[i + 1]
                                      /\ inbox[i + 1] \in DataFrames
         /\ hello = NoHello
         /\ UNCHANGED <<connected, open, hello, lastSession, numbering, rootVars>>
         /\ processed \subseteq processed' /\ unrouted \subseteq unrouted'
PROOF
<1>1. /\ inbox # <<>> /\ Head(inbox).kind # "welcome" /\ inbox' = Tail(inbox) /\ connected
      /\ UNCHANGED <<connected, open, hello, lastSession, numbering, rootVars>>
      /\ processed \subseteq processed' /\ unrouted \subseteq unrouted'
  BY DEF Takes, TakesPage, SkipConsumed, PageStored, GraphAdopted, SampleEmitted,
     SampleUnknown, Incoming, Keep,
         deskHistory
<1>2. inbox \in Seq(Frames)  BY DEF TypeOK
<1>3. /\ Len(inbox) \in Nat /\ Len(inbox) > 0 /\ Head(inbox) = inbox[1] /\ inbox[1] \in Frames
      /\ inbox' \in Seq(Frames) /\ Len(inbox') \in Nat /\ Len(inbox') = Len(inbox) - 1
      /\ \A i \in 1..Len(inbox') : i + 1 \in 1..Len(inbox) /\ inbox'[i] = inbox[i + 1]
  BY <1>1, <1>2, TailIs
<1>4. \A i \in 1..Len(inbox) : inbox[i].kind # "welcome"
  <2>1. \A i \in 1..Len(inbox) : inbox[i].kind = "welcome" => i = 1
    BY DEF LinkInv
  <2> QED  BY <1>1, <1>3, <2>1
<1>5. \A i \in 1..Len(inbox) : inbox[i] \in DataFrames
  BY <1>2, <1>3, <1>4, FrameIs
<1>6. inbox[1].epoch = numbering
  BY <1>3, <1>4 DEF LinkInv, LinkEpoch, Pending
<1>7. hello = NoHello
  BY <1>1 DEF LinkInv
<1> QED
  BY <1>1, <1>3, <1>5, <1>6, <1>7

(* It leaves the numbering and the cursors to compare with as the worker   *)
(* has them.                                                               *)
LEMMA TakeLeaves ==
  ASSUME TypeOK, LinkInv, Takes
  PROVE  /\ ~Pending /\ ~Pending' /\ LinkEpoch = numbering /\ LinkEpoch' = numbering
         /\ \A k : LinkCursor(k) = cursor[k] /\ LinkCursor(k)' = cursor'[k]
PROOF
<1>1. ~Pending
  BY TakeIs, FrameIs DEF Pending, Frames
<1>2. ~Pending'
  <2>1. inbox' # <<>> => inbox'[1] \in DataFrames
    <3>1. inbox' \in Seq(Frames)  BY WorkerKeepsType DEF Takes, TakesPage, WorkerNext, TypeOK
    <3>2. inbox' # <<>> => 1 \in 1..Len(inbox')  BY <3>1
    <3> QED  BY <3>2, TakeIs
  <2> QED  BY <2>1, FrameIs DEF Pending, Frames
<1> QED
  BY <1>1, <1>2, TakeIs DEF LinkEpoch, LinkCursor

(* It leaves the cursors, or moves that of the frame's class forward to    *)
(* the frame, which is then processed.                                     *)
LEMMA TakeCursor ==
  ASSUME TypeOK, LinkInv, Takes
  PROVE  \/ UNCHANGED cursor
         \/ /\ inbox[1].class \in Classes /\ inbox[1].seq > cursor[inbox[1].class]
            /\ cursor' = [cursor EXCEPT ![inbox[1].class] = inbox[1].seq]
            /\ processed' = processed \cup {FrameId(inbox[1])}
PROOF
<1>1. inbox[1] \in DataFrames /\ Head(inbox) = inbox[1]  BY TakeIs
<1>2. inbox[1].class \in Classes /\ inbox[1].seq \in Nat  BY <1>1, FrameIs DEF Frames
<1>3. CASE SkipConsumed \/ SampleUnknown
  BY <1>3 DEF SkipConsumed, SampleUnknown, dataVars
<1>4. CASE TakesPage \/ SampleEmitted
  <2>1. /\ ~Consumed(inbox[1]) /\ cursor' = RecordCursor(inbox[1])
        /\ processed' = processed \cup {FrameId(inbox[1])}
    BY <1>1, <1>4 DEF TakesPage, PageStored, GraphAdopted, SampleEmitted
  <2> QED
    BY <1>1, <1>2, <2>1 DEF TypeOK, Consumed, RecordCursor
<1> QED
  BY <1>3, <1>4 DEF Takes

(* A welcome keeps numbering and cursors, or starts a later numbering      *)
(* with cursors at zero; the frames behind it move up.                     *)
LEMMA WelcomeIs ==
  ASSUME TypeOK, LinkInv, HandleWelcome
  PROVE  /\ connected /\ Len(inbox) > 0 /\ inbox[1] \in WelcomeFrames /\ asm = EmptyAsm
         /\ Len(inbox') \in Nat /\ Len(inbox') = Len(inbox) - 1
         /\ \A i \in 1..Len(inbox') : i + 1 \in 1..Len(inbox) /\ inbox'[i] = inbox[i + 1]
                                      /\ inbox[i + 1] \in DataFrames
         /\ hello = NoHello /\ inbox[1].epoch <= epoch
         /\ numbering <= numbering' /\ numbering' = inbox[1].epoch
         /\ \/ numbering' = numbering /\ cursor' = cursor
            \/ numbering' > numbering /\ cursor' = [k \in Classes |-> 0]
         /\ UNCHANGED <<connected, open, hello, asm, inventory, tasks, processed,
                        unrouted, emitted, rootVars>>
PROOF
<1>1. /\ inbox # <<>> /\ Head(inbox).kind = "welcome" /\ inbox' = Tail(inbox) /\ connected
      /\ numbering' = Head(inbox).epoch
      /\ cursor' = IF ~Head(inbox).resume \/ lastSession # Head(inbox).session
                     THEN [k \in Classes |-> 0] ELSE cursor
      /\ UNCHANGED <<connected, open, hello, asm, inventory, tasks, processed,
                     unrouted, emitted, rootVars>>
  BY DEF HandleWelcome, Incoming, Keep, ResetCursors
<1>2. inbox \in Seq(Frames)  BY DEF TypeOK
<1>3. /\ Len(inbox) \in Nat /\ Len(inbox) > 0 /\ Head(inbox) = inbox[1] /\ inbox[1] \in Frames
      /\ inbox' \in Seq(Frames) /\ Len(inbox') \in Nat /\ Len(inbox') = Len(inbox) - 1
      /\ \A i \in 1..Len(inbox') : i + 1 \in 1..Len(inbox) /\ inbox'[i] = inbox[i + 1]
  BY <1>1, <1>2, TailIs
<1>4. inbox[1] \in WelcomeFrames /\ inbox[1].epoch \in Nat /\ inbox[1].resume \in BOOLEAN
  BY <1>1, <1>3, FrameIs DEF WelcomeFrames
<1>5. /\ asm = EmptyAsm /\ inbox[1].epoch <= epoch
      /\ inbox[1].resume => inbox[1].epoch = numbering /\ inbox[1].session = lastSession
      /\ ~inbox[1].resume => inbox[1].epoch > numbering
  BY <1>1, <1>3 DEF LinkInv
<1>6. \A i \in 1..Len(inbox) : i # 1 => inbox[i] \in DataFrames
  BY <1>2, FrameIs DEF LinkInv
<1>7. hello = NoHello
  BY <1>1 DEF LinkInv
<1>8. \A i \in 1..Len(inbox') : inbox[i + 1] \in DataFrames
  BY <1>3, <1>6
<1>9. \/ numbering' = numbering /\ cursor' = cursor
      \/ numbering' > numbering /\ cursor' = [k \in Classes |-> 0]
  BY <1>1, <1>3, <1>5
<1>10. numbering <= numbering'
  BY <1>1, <1>3, <1>4, <1>9 DEF TypeOK
<1> QED
  BY <1>1, <1>3, <1>4, <1>5, <1>7, <1>8, <1>9, <1>10

(* A welcome does not change what the frames behind it will be compared    *)
(* with: it had been counted in already.                                   *)
LEMMA WelcomeLeaves ==
  ASSUME TypeOK, LinkInv, HandleWelcome
  PROVE  /\ Pending /\ ~Pending' /\ LinkEpoch' = LinkEpoch /\ LinkEpoch' = numbering'
         /\ \A k \in Classes : LinkCursor(k)' = LinkCursor(k) /\ LinkCursor(k)' = cursor'[k]
PROOF
<1>1. Pending
  BY WelcomeIs DEF Pending, WelcomeFrames, TypeOK
<1>2. ~Pending'
  <2>1. inbox' # <<>> => inbox'[1] \in DataFrames
    <3>1. inbox' \in Seq(Frames)  BY WorkerKeepsType DEF WorkerNext, TypeOK
    <3>2. inbox' # <<>> => 1 \in 1..Len(inbox')  BY <3>1
    <3> QED  BY <3>2, WelcomeIs
  <2> QED  BY <2>1, FrameIs DEF Pending, Frames
<1>3. \A k \in Classes : LinkCursor(k)' = cursor'[k]
  BY <1>2 DEF LinkCursor
<1>4. ASSUME NEW k \in Classes PROVE LinkCursor(k) = cursor'[k]
  <2>1. inbox[1].resume \in BOOLEAN /\ Head(inbox) = inbox[1] /\ 1 \in 1..Len(inbox)
        /\ inbox[1].kind = "welcome"
    <3>1. inbox \in Seq(Frames)  BY DEF TypeOK
    <3> QED  BY <3>1, WelcomeIs DEF WelcomeFrames
  <2>2. inbox[1].resume => inbox[1].session = lastSession
    BY <2>1 DEF LinkInv
  <2>3. cursor' = IF ~inbox[1].resume \/ lastSession # inbox[1].session
                     THEN [j \in Classes |-> 0] ELSE cursor
    BY <2>1 DEF HandleWelcome, ResetCursors
  <2> QED
    BY <1>1, <2>1, <2>2, <2>3 DEF LinkCursor
<1>5. LinkEpoch' = numbering' /\ LinkEpoch = numbering'
  BY <1>1, <1>2, WelcomeIs DEF LinkEpoch
<1> QED
  BY <1>1, <1>2, <1>3, <1>4, <1>5

(* A sent frame is the last on the wire and the last of the log, and the   *)
(* rest stays where it was.                                                *)
LEMMA SendIs ==
  ASSUME TypeOK, LinkInv, NEW f \in DataFrames, Sends(f)
  PROVE  /\ f.kind # "welcome" /\ f.class \in Classes /\ f.seq \in Nat \ {0} /\ f.epoch = epoch
         /\ LinkEpoch = epoch /\ Serving /\ connected
         /\ Len(inbox) \in Nat /\ Len(inbox') = Len(inbox) + 1
         /\ inbox'[Len(inbox) + 1] = f /\ \A i \in 1..Len(inbox) : inbox'[i] = inbox[i]
         /\ Len(log) \in Nat /\ Len(log') = Len(log) + 1
         /\ log'[Len(log) + 1] = f /\ \A i \in 1..Len(log) : log'[i] = log[i]
         /\ f.seq = seq[f.class] + 1 /\ seq' = [seq EXCEPT ![f.class] = f.seq]
         /\ LinkEpoch' = LinkEpoch /\ (\A k : LinkCursor(k)' = LinkCursor(k)) /\ Serving'
         /\ Pending' = Pending /\ epoch' = epoch
         /\ UNCHANGED <<sessionVars, dataVars, deskHistory, epoch>>
PROOF
<1>1. f \in Frames /\ inbox \in Seq(Frames) /\ log \in Seq(DataFrames)
  BY DEF TypeOK, Frames
<1>2. inbox' = Append(inbox, f) /\ log' = Append(log, f) /\ Serving
      /\ f.seq = seq[f.class] + 1 /\ seq' = [seq EXCEPT ![f.class] = f.seq] /\ f.epoch = epoch
      /\ UNCHANGED <<sessionVars, dataVars, deskHistory, open, hello, epoch>>
  BY DEF Sends, Emit
<1>3. f.kind # "welcome" /\ f.class \in Classes /\ f.seq \in Nat \ {0}
  BY <1>1, FrameIs
<1>4. /\ Len(inbox) \in Nat /\ Len(inbox') = Len(inbox) + 1
      /\ inbox'[Len(inbox) + 1] = f /\ \A i \in 1..Len(inbox) : inbox'[i] = inbox[i]
  BY <1>1, <1>2, AppendIs
<1>5. /\ Len(log) \in Nat /\ Len(log') = Len(log) + 1
      /\ log'[Len(log) + 1] = f /\ \A i \in 1..Len(log) : log'[i] = log[i]
  BY <1>1, <1>2, AppendIs
<1>6. Pending' = Pending /\ (Pending => inbox'[1] = inbox[1])
  <2>1. inbox' # <<>>  BY <1>1, <1>2
  <2>2. CASE inbox = <<>>
    <3>1. inbox'[1] = f  BY <1>4, <2>2
    <3> QED  BY <1>3, <2>2, <3>1 DEF Pending
  <2>3. CASE inbox # <<>>
    <3>1. inbox'[1] = inbox[1]  BY <1>1, <1>4, <2>3
    <3> QED  BY <2>1, <2>3, <3>1 DEF Pending
  <2> QED  BY <2>2, <2>3
<1>7. LinkEpoch' = LinkEpoch /\ (\A k : LinkCursor(k)' = LinkCursor(k))
  BY <1>2, <1>6 DEF LinkEpoch, LinkCursor, dataVars, deskHistory
<1>8. connected /\ LinkEpoch = epoch /\ Serving'
  BY <1>2 DEF LinkInv, Serving
<1> QED
  BY <1>2, <1>3, <1>4, <1>5, <1>6, <1>7, <1>8

(* A resumed connection starts with a welcome and frames of the log, in    *)
(* their order and behind the reported cursors or one before them.         *)
LEMMA ResumeIs ==
  ASSUME TypeOK, LinkInv, NEW again \in {0, 1}, RootResumes(again)
  PROVE  /\ connected /\ open /\ hello # NoHello /\ asm = EmptyAsm /\ inbox = <<>>
         /\ lastSession = boot /\ numbering = epoch
         /\ inbox' \in Seq(Frames) /\ Len(inbox') \in Nat \ {0}
         /\ inbox'[1] = WelcomeFrame(TRUE, epoch)
         /\ Pending' /\ LinkEpoch' = epoch /\ Serving'
         /\ \A k \in Classes : LinkCursor(k)' = cursor[k]
         /\ hello' = NoHello
         /\ \E at : /\ \A i \in 2..Len(inbox') :
                         /\ at[i] \in 1..Len(log) /\ inbox'[i] = log[at[i]]
                         /\ root.snapshot => log[at[i]].class = "sensor"
                         /\ log[at[i]].seq + 1 > cursor[log[at[i]].class]
                    /\ \A i, j \in 2..Len(inbox') : i < j => at[i] < at[j]
PROOF
<1>1. /\ open /\ hello # NoHello /\ hello.known = boot /\ hello.epoch = epoch
      /\ hello' = NoHello
      /\ UNCHANGED <<open, root, boot, revision, graph, pageCount, seq, log, epoch,
                     published>>
      /\ deskIdle
  BY DEF RootResumes
<1>2. /\ connected /\ inbox = <<>> /\ asm = EmptyAsm
      /\ hello = [known |-> lastSession, epoch |-> numbering, cursor |-> cursor]
  BY <1>1 DEF LinkInv
<1>3. lastSession = boot /\ numbering = epoch /\ hello.cursor = cursor
  BY <1>1, <1>2
<1>4. PICK w, K, places :
        /\ w = WelcomeFrame(TRUE, epoch)
        /\ root.snapshot => K = {"sensor"}
        /\ places \in InOrder(Unseen(cursor, K, again))
        /\ inbox' = <<w>> \o FramesAt(places)
  BY <1>3 DEF RootResumes
<1>5. w \in WelcomeFrames /\ w.kind = "welcome" /\ w.resume /\ w.epoch = epoch
  <2>1. boot \in Nat /\ epoch \in Nat  BY DEF TypeOK
  <2>2. w = [kind |-> "welcome", session |-> boot, resume |-> TRUE, epoch |-> epoch]
    BY <1>4 DEF WelcomeFrame
  <2>3. w \in WelcomeFrames  BY <2>1, <2>2 DEF WelcomeFrames
  <2> QED  BY <2>2, <2>3
<1>6. cursor \in [Classes -> Nat] /\ again \in Nat  BY DEF TypeOK
<1>7. PICK s : s = <<w>> \o FramesAt(places) /\ s = inbox'  BY <1>4
<1>8. /\ s \in Seq(Frames) /\ Len(s) \in Nat \ {0} /\ s[1] = w
      /\ \A i \in 2..Len(s) :
              /\ i - 1 \in DOMAIN places
              /\ places[i - 1] \in Unseen(cursor, K, again)
              /\ s[i] = log[places[i - 1]]
      /\ \A i, j \in 2..Len(s) : i < j => places[i - 1] < places[j - 1]
  <2>1. /\ w \in WelcomeFrames /\ cursor \in [Classes -> Nat] /\ again \in Nat
        /\ places \in InOrder(Unseen(cursor, K, again))
        /\ s = <<w>> \o FramesAt(places)
    BY <1>4, <1>5, <1>6, <1>7
  <2>2. s \in Seq(Frames)  BY <2>1, Resent
  <2>3. Len(s) \in Nat \ {0}  BY <2>1, Resent
  <2>4. s[1] = w  BY <2>1, Resent
  <2>5. \A i \in 2..Len(s) : i - 1 \in DOMAIN places
    BY <2>1, Resent
  <2>6. \A i \in 2..Len(s) : places[i - 1] \in Unseen(cursor, K, again)
    BY <2>1, Resent
  <2>7. \A i \in 2..Len(s) : s[i] = log[places[i - 1]]
    BY <2>1, Resent
  <2>8. \A i, j \in 2..Len(s) : i < j => places[i - 1] < places[j - 1]
    BY <2>1, Resent
  <2> QED  BY <2>2, <2>3, <2>4, <2>5, <2>6, <2>7, <2>8
<1>9. s # <<>>  BY <1>8
<1>10. /\ Pending' /\ LinkEpoch' = epoch /\ Serving' /\ \A k \in Classes : LinkCursor(k)' = cursor[k]
  <2>1. Pending'  BY <1>5, <1>7, <1>8, <1>9 DEF Pending
  <2>2. inbox'[1].resume /\ inbox'[1].epoch = epoch  BY <1>5, <1>7, <1>8
  <2> QED
    BY <1>1, <2>1, <2>2 DEF LinkEpoch, LinkCursor, Serving, deskIdle, dataVars
<1>11. \E at : /\ \A i \in 2..Len(s) :
                         /\ at[i] \in 1..Len(log) /\ s[i] = log[at[i]]
                         /\ root.snapshot => log[at[i]].class = "sensor"
                         /\ log[at[i]].seq + 1 > cursor[log[at[i]].class]
               /\ \A i, j \in 2..Len(s) : i < j => at[i] < at[j]
  <2>1. PICK at : at = [i \in 2..Len(s) |-> places[i - 1]]  OBVIOUS
  <2>2. \A i \in 2..Len(s) : at[i] = places[i - 1]  BY <2>1
  <2>3. ASSUME NEW i \in 2..Len(s)
        PROVE  /\ at[i] \in 1..Len(log) /\ s[i] = log[at[i]]
               /\ root.snapshot => log[at[i]].class = "sensor"
               /\ log[at[i]].seq + 1 > cursor[log[at[i]].class]
    <3>1. at[i] \in Unseen(cursor, K, again) /\ s[i] = log[at[i]]
      BY <1>8, <2>2
    <3>2. at[i] \in 1..Len(log) /\ log[at[i]].class \in K
          /\ log[at[i]].seq + again > cursor[log[at[i]].class]
      BY <3>1 DEF Unseen
    <3>3. log[at[i]] \in Frames /\ log[at[i]] \in DataFrames
      BY <3>2, FramesInbox DEF Frames
    <3>4. log[at[i]].seq \in Nat /\ log[at[i]].class \in Classes
      BY <3>3, FrameIs
    <3>5. cursor[log[at[i]].class] \in Nat
      BY <3>4 DEF TypeOK
    <3>6. log[at[i]].seq + 1 > cursor[log[at[i]].class]
      BY <3>2, <3>4, <3>5
    <3>7. root.snapshot => log[at[i]].class = "sensor"
      BY <1>4, <3>2
    <3> QED
      BY <3>1, <3>2, <3>6, <3>7
  <2>4. \A i, j \in 2..Len(s) : i < j => at[i] < at[j]
    BY <1>8, <2>2
  <2> QED
    BY <2>3, <2>4
<1>12. inbox' \in Seq(Frames) /\ Len(inbox') \in Nat \ {0} /\ inbox'[1] = WelcomeFrame(TRUE, epoch)
  BY <1>4, <1>7, <1>8
<1>13. \E at : /\ \A i \in 2..Len(inbox') :
                         /\ at[i] \in 1..Len(log) /\ inbox'[i] = log[at[i]]
                         /\ root.snapshot => log[at[i]].class = "sensor"
                         /\ log[at[i]].seq + 1 > cursor[log[at[i]].class]
               /\ \A i, j \in 2..Len(inbox') : i < j => at[i] < at[j]
  BY <1>7, <1>11
<1> QED
  BY <1>1, <1>2, <1>3, <1>10, <1>12, <1>13

(* A connection that starts over carries a welcome with a new numbering    *)
(* and nothing else.                                                       *)
LEMMA StartOverIs ==
  ASSUME TypeOK, LinkInv, RootStartsOver
  PROVE  /\ connected /\ open /\ asm = EmptyAsm /\ Len(inbox') = 1
         /\ inbox'[1] = WelcomeFrame(FALSE, epoch + 1)
         /\ hello' = NoHello /\ epoch' = epoch + 1 /\ Serving'
         /\ Pending' /\ LinkEpoch' = epoch + 1
         /\ \A k : LinkCursor(k)' = 0
         /\ numbering <= epoch
         /\ seq' = [k \in Classes |-> 0] /\ log' = <<>> /\ toSend' = AllPages(pageCount)
         /\ UNCHANGED <<open, root, boot, revision, graph, pageCount, published,
                        sessionVars, dataVars, deskHistory>>
PROOF
<1>1. /\ open /\ hello # NoHello /\ inbox' = Append(inbox, WelcomeFrame(FALSE, epoch + 1))
      /\ hello' = NoHello /\ epoch' = epoch + 1
      /\ seq' = [k \in Classes |-> 0] /\ log' = <<>> /\ toSend' = AllPages(pageCount)
      /\ UNCHANGED <<open, root, boot, revision, graph, pageCount, published,
                        sessionVars, dataVars, deskHistory>>
  BY DEF RootStartsOver, deskIdle
<1>2. inbox = <<>> /\ asm = EmptyAsm /\ connected /\ numbering <= epoch
  BY <1>1 DEF LinkInv
<1>3. inbox' = <<WelcomeFrame(FALSE, epoch + 1)>>
  BY <1>1, <1>2
<1>4. Len(inbox') = 1 /\ inbox'[1] = WelcomeFrame(FALSE, epoch + 1) /\ inbox' # <<>>
  BY <1>3
<1>5. inbox'[1].kind = "welcome" /\ ~inbox'[1].resume /\ inbox'[1].epoch = epoch + 1
  BY <1>4 DEF WelcomeFrame
<1>6. Pending' /\ LinkEpoch' = epoch + 1 /\ \A k : LinkCursor(k)' = 0
  BY <1>4, <1>5 DEF Pending, LinkEpoch, LinkCursor
<1> QED
  BY <1>1, <1>2, <1>4, <1>6 DEF Serving

(* The steps of the root that leave the wire alone. *)
Idles == RootRepeats \/ \E g \in Graphs : RootPublishes(g, PagesOf[g])

(* They touch neither the worker nor the numbering. *)
LEMMA IdleIs ==
  ASSUME Idles
  PROVE  /\ UNCHANGED <<alive, connected, lastSession, open, hello, inbox, cursor, asm,
                        inventory, tasks,
                        numbering, processed, unrouted, emitted, epoch, seq, log, root, boot>>
         /\ Pending' = Pending /\ LinkEpoch' = LinkEpoch /\ (\A k : LinkCursor(k)' = LinkCursor(k))
         /\ Serving' = Serving
PROOF
<1>1. UNCHANGED <<alive, connected, lastSession, open, hello, inbox, cursor, asm,
                  inventory, tasks,
                  numbering, processed, unrouted, emitted, epoch, seq, log, root, boot>>
  BY DEF Idles, RootRepeats, RootPublishes, linkVars, deskIdle, sessionVars, dataVars,
     deskHistory
<1> QED
  BY <1>1 DEF Pending, LinkEpoch, LinkCursor, Serving

(* A reboot closes the connection on the root's side; what was sent stays  *)
(* on the wire.                                                            *)
LEMMA RebootIs ==
  ASSUME NEW g \in Graphs, RootReboots(g, PagesOf[g])
  PROVE  /\ UNCHANGED <<alive, connected, lastSession, hello, inbox, cursor, asm,
                        inventory, tasks,
                        numbering, processed, unrouted, emitted, root>>
         /\ Pending' = Pending /\ LinkEpoch' = LinkEpoch /\ (\A k : LinkCursor(k)' = LinkCursor(k))
         /\ ~open' /\ ~Serving' /\ epoch' = epoch + 1 /\ boot' = boot + 1
         /\ seq' = [k \in Classes |-> 0] /\ log' = <<>> /\ Len(log') = 0
         /\ revision' = 1 /\ graph' = g /\ published' = published \cup {g}
PROOF
<1>1. /\ UNCHANGED <<alive, connected, lastSession, hello, inbox, cursor, asm,
                     inventory, tasks,
                     numbering, processed, unrouted, emitted, root>>
      /\ open' = FALSE /\ epoch' = epoch + 1 /\ boot' = boot + 1
      /\ seq' = [k \in Classes |-> 0] /\ log' = <<>>
      /\ revision' = 1 /\ graph' = g /\ published' = published \cup {g}
  BY DEF RootReboots, deskIdle, sessionVars, dataVars, deskHistory
<1> QED
  BY <1>1 DEF Pending, LinkEpoch, LinkCursor, Serving

(* A new connection starts with an empty wire and no pages stored, and     *)
(* reports what the worker holds.                                          *)
LEMMA ConnectIs ==
  ASSUME TypeOK, Connect
  PROVE  /\ connected' /\ asm' = EmptyAsm /\ open' /\ inbox' = <<>> /\ Len(inbox') = 0
         /\ hello' = [known |-> lastSession, epoch |-> numbering, cursor |-> cursor]
         /\ hello' # NoHello /\ ~Serving' /\ ~Pending' /\ LinkEpoch' = numbering
         /\ UNCHANGED <<alive, lastSession, cursor, inventory, tasks, numbering,
                        processed, unrouted,
                        emitted, rootVars>>
PROOF
<1>1. /\ connected' = TRUE /\ asm' = EmptyAsm /\ open' = TRUE /\ inbox' = <<>>
      /\ hello' = [known |-> lastSession, epoch |-> numbering, cursor |-> cursor]
      /\ UNCHANGED <<alive, lastSession, cursor, inventory, tasks, numbering,
                     processed, unrouted,
                        emitted, rootVars>>
  BY DEF Connect, deskHistory
<1>2. hello' # NoHello
  <2>1. cursor # [k \in {} |-> 0]  BY DEF TypeOK, Classes
  <2>2. hello'.cursor = cursor /\ NoHello.cursor = [k \in {} |-> 0]  BY <1>1 DEF NoHello
  <2> QED  BY <2>1, <2>2
<1> QED
  BY <1>1, <1>2 DEF Serving, Pending, LinkEpoch

(* Every action is one of nine kinds. *)
LEMMA Kinds ==
  ASSUME TypeOK, LinkInv, [Next]_vars
  PROVE  \/ Connect \/ Hangs \/ HandleWelcome \/ Takes
         \/ \E again \in {0, 1} : RootResumes(again)
         \/ RootStartsOver \/ Idles
         \/ \E g \in Graphs : RootReboots(g, PagesOf[g])
         \/ \E f \in DataFrames : Sends(f)
         \/ UNCHANGED vars
PROOF
<1>1. ASSUME NEW i \in AllPages(pageCount), NEW fault, RootSendsPage(i, fault)
      PROVE  \E f \in DataFrames : Sends(f)
  <2>1. PageFrame(i, fault) \in DataFrames
    BY PageFrameIs DEF DataFrames
  <2>2. Sends(PageFrame(i, fault))
    BY <1>1 DEF RootSendsPage, Sends, PageFrame, deskIdle
  <2> QED  BY <2>1, <2>2
<1>2. ASSUME NEW m \in Macs, RootSamples(m)
      PROVE  \E f \in DataFrames : Sends(f)
  <2>1. seq["sensor"] + 1 \in Nat \ {0} /\ epoch \in Nat  BY DEF TypeOK, Classes
  <2>2. PICK f : /\ f = [kind |-> "sample", class |-> "sensor", epoch |-> epoch,
                         seq |-> seq["sensor"] + 1, mac |-> m]
                 /\ Emit(f)
    BY <1>2 DEF RootSamples
  <2>3. f \in DataFrames
    BY <2>1, <2>2 DEF DataFrames, SampleFrames
  <2>4. Sends(f)
    BY <1>2, <2>2 DEF RootSamples, Sends, deskIdle
  <2> QED  BY <2>3, <2>4
<1>3. RootNext => \/ \E again \in {0, 1} : RootResumes(again)
                  \/ RootStartsOver \/ Idles
                  \/ \E g \in Graphs : RootReboots(g, PagesOf[g])
                  \/ \E f \in DataFrames : Sends(f)
  BY <1>1, <1>2 DEF RootNext, Idles
<1>4. WorkerNext => Connect \/ Hangs \/ HandleWelcome \/ Takes
  BY DEF WorkerNext, Hangs, Takes, TakesPage
<1> QED
  BY <1>3, <1>4 DEF Next

-----------------------------------------------------------------------------
(* Every step keeps LinkInv. *)
LEMMA LinkKept == ASSUME TypeOK, LinkInv, OrderInv, [Next]_vars PROVE LinkInv'
PROOF
<1>1. CASE Connect
  BY <1>1, ConnectIs DEF LinkInv, rootVars, TypeOK
<1>2. CASE Hangs
  BY <1>2, HangupIs DEF LinkInv, rootVars
<1>3. CASE HandleWelcome
  <2>1. UNCHANGED <<epoch, open, hello>>  BY <1>3, WelcomeIs DEF rootVars
  <2>2. \A i \in 1..Len(inbox') : inbox'[i].kind # "welcome" /\ inbox'[i].epoch = LinkEpoch
    <3>1. SUFFICES ASSUME NEW i \in 1..Len(inbox')
                   PROVE  inbox'[i].kind # "welcome" /\ inbox'[i].epoch = LinkEpoch
      OBVIOUS
    <3>2. i + 1 \in 1..Len(inbox) /\ inbox'[i] = inbox[i + 1] /\ inbox[i + 1] \in DataFrames
      BY <1>3, WelcomeIs
    <3>3. inbox[i + 1].kind # "welcome"  BY <3>2, FrameIs DEF Frames
    <3> QED  BY <3>2, <3>3 DEF LinkInv
  <2>3. Serving' = Serving  BY <2>1 DEF Serving
  <2> QED
    BY <1>3, <2>1, <2>2, <2>3, WelcomeIs, WelcomeLeaves DEF LinkInv
<1>4. CASE Takes
  <2>1. UNCHANGED <<epoch, open, hello, numbering, connected>> /\ hello = NoHello /\ connected
    BY <1>4, TakeIs DEF rootVars
  <2>2. \A i \in 1..Len(inbox') : inbox'[i].kind # "welcome" /\ inbox'[i].epoch = LinkEpoch
    <3>1. SUFFICES ASSUME NEW i \in 1..Len(inbox')
                   PROVE  inbox'[i].kind # "welcome" /\ inbox'[i].epoch = LinkEpoch
      OBVIOUS
    <3>2. i + 1 \in 1..Len(inbox) /\ inbox'[i] = inbox[i + 1] /\ inbox[i + 1] \in DataFrames
      BY <1>4, TakeIs
    <3>3. inbox[i + 1].kind # "welcome"  BY <3>2, FrameIs DEF Frames
    <3> QED  BY <3>2, <3>3 DEF LinkInv
  <2>3. Serving' = Serving  BY <2>1 DEF Serving
  <2>4. LinkEpoch' = LinkEpoch  BY <1>4, TakeLeaves
  <2> QED
    BY <2>1, <2>2, <2>3, <2>4 DEF LinkInv
<1>5. ASSUME NEW again \in {0, 1}, RootResumes(again) PROVE LinkInv'
  <2>1. /\ connected' /\ hello' = NoHello /\ asm' = EmptyAsm /\ numbering' = epoch /\ epoch' = epoch
        /\ lastSession' = boot /\ LinkEpoch' = epoch
        /\ Len(inbox') \in Nat \ {0} /\ inbox'[1] = WelcomeFrame(TRUE, epoch)
    BY <1>5, ResumeIs DEF RootResumes, deskIdle, sessionVars, dataVars, deskHistory
  <2>2. /\ inbox'[1].kind = "welcome" /\ inbox'[1].resume /\ inbox'[1].epoch = epoch
        /\ inbox'[1].session = boot
    BY <2>1 DEF WelcomeFrame
  <2>3. ASSUME NEW i \in 2..Len(inbox')
        PROVE  inbox'[i].kind # "welcome" /\ inbox'[i].epoch = epoch
    <3>1. PICK l \in 1..Len(log) : inbox'[i] = log[l]  BY <1>5, ResumeIs
    <3>2. log[l] \in DataFrames /\ log[l].epoch = epoch  BY FramesInbox DEF OrderInv
    <3> QED  BY <3>1, <3>2, FrameIs DEF Frames
  <2>4. \A i \in 1..Len(inbox') : i = 1 \/ i \in 2..Len(inbox')
    BY <2>1
  <2>5. epoch <= epoch /\ lastSession' = boot  BY <2>1 DEF TypeOK
  <2>6. (\A i \in 1..Len(inbox) :
       IF inbox[i].kind = "welcome"
         THEN /\ i = 1 /\ asm = EmptyAsm /\ inbox[i].epoch <= epoch
              /\ inbox[i].resume => /\ inbox[i].epoch = numbering
                                    /\ inbox[i].session = lastSession
              /\ ~inbox[i].resume => inbox[i].epoch > numbering
         ELSE inbox[i].epoch = LinkEpoch)'
    BY <2>1, <2>2, <2>3, <2>4, <2>5
  <2> QED
    BY <2>1, <2>5, <2>6 DEF LinkInv
<1>6. CASE RootStartsOver
  <2>1. /\ connected' /\ hello' = NoHello /\ asm' = EmptyAsm /\ numbering' = numbering
        /\ LinkEpoch' = epoch' /\ epoch' = epoch + 1 /\ numbering <= epoch
        /\ Len(inbox') = 1 /\ inbox'[1] = WelcomeFrame(FALSE, epoch + 1)
    <3>1. UNCHANGED <<sessionVars, dataVars, deskHistory>>  BY <1>6, StartOverIs
    <3>2. UNCHANGED <<connected, asm, numbering>>
      BY <3>1 DEF sessionVars, dataVars, deskHistory
    <3>3. /\ connected /\ hello' = NoHello /\ asm = EmptyAsm
          /\ LinkEpoch' = epoch' /\ epoch' = epoch + 1 /\ numbering <= epoch
          /\ Len(inbox') = 1 /\ inbox'[1] = WelcomeFrame(FALSE, epoch + 1)
      BY <1>6, StartOverIs
    <3> QED  BY <3>2, <3>3
  <2>2. inbox'[1].kind = "welcome" /\ ~inbox'[1].resume /\ inbox'[1].epoch = epoch + 1
    BY <2>1 DEF WelcomeFrame
  <2>3. numbering < epoch + 1 /\ epoch \in Nat /\ numbering \in Nat
    BY <2>1 DEF TypeOK
  <2>4. \A i \in 1..Len(inbox') : i = 1  BY <2>1
  <2>5. (\A i \in 1..Len(inbox) :
       IF inbox[i].kind = "welcome"
         THEN /\ i = 1 /\ asm = EmptyAsm /\ inbox[i].epoch <= epoch
              /\ inbox[i].resume => /\ inbox[i].epoch = numbering
                                    /\ inbox[i].session = lastSession
              /\ ~inbox[i].resume => inbox[i].epoch > numbering
         ELSE inbox[i].epoch = LinkEpoch)'
    <3>1. epoch + 1 <= epoch' /\ epoch + 1 > numbering'  BY <2>1, <2>3
    <3>2. \A i \in 1..Len(inbox') : /\ i = 1 /\ inbox'[i].kind = "welcome" /\ ~inbox'[i].resume
                                   /\ inbox'[i].epoch = epoch + 1
      BY <2>2, <2>4
    <3> QED  BY <2>1, <3>1, <3>2
  <2>6. numbering' <= epoch' BY <2>1, <2>3
  <2> QED
    BY <2>1, <2>5, <2>6 DEF LinkInv
<1>7. CASE Idles
  BY <1>7, IdleIs DEF LinkInv
<1>8. ASSUME NEW g \in Graphs, RootReboots(g, PagesOf[g]) PROVE LinkInv'
  <2>1. epoch \in Nat /\ numbering \in Nat  BY DEF TypeOK
  <2>2. \A i \in 1..Len(inbox) : inbox[i].epoch \in Nat  BY FrameIs, FramesInbox
  <2> QED
    BY <1>8, <2>1, <2>2, RebootIs DEF LinkInv
<1>9. ASSUME NEW f \in DataFrames, Sends(f) PROVE LinkInv'
  <2>1. UNCHANGED <<connected, hello, lastSession, numbering, cursor, asm, epoch>>
    BY <1>9, SendIs DEF Sends, sessionVars, dataVars, deskHistory
  <2>2. /\ connected /\ hello = NoHello /\ LinkEpoch' = LinkEpoch /\ LinkEpoch = epoch
        /\ f.kind # "welcome" /\ f.epoch = epoch
        /\ Len(inbox) \in Nat /\ Len(inbox') = Len(inbox) + 1
        /\ inbox'[Len(inbox) + 1] = f /\ \A i \in 1..Len(inbox) : inbox'[i] = inbox[i]
    BY <1>9, SendIs DEF Serving
  <2>3. \A i \in 1..Len(inbox') : i \in 1..Len(inbox) \/ i = Len(inbox) + 1
    BY <2>2
  <2> QED
    BY <2>1, <2>2, <2>3 DEF LinkInv
<1>10. CASE UNCHANGED vars
  BY <1>10 DEF vars, sessionVars, dataVars, linkVars, rootVars, deskHistory, LinkInv,
     LinkEpoch, Pending, Serving
<1> QED
  BY <1>1, <1>2, <1>3, <1>4, <1>5, <1>6, <1>7, <1>8, <1>9, <1>10, Kinds

-----------------------------------------------------------------------------
(* The numbers of a data frame. *)
LEMMA DataIs ==
  ASSUME NEW f \in DataFrames
  PROVE  /\ f.kind # "welcome" /\ f.class \in Classes /\ f.seq \in Nat \ {0} /\ f.epoch \in Nat
         /\ FrameId(f) = <<f.epoch, f.class, f.seq>>
  BY FrameIs DEF Frames

(* Every step keeps the order of the frames. *)
LEMMA OrderKept == ASSUME TypeOK, LinkInv, OrderInv, [Next]_vars PROVE OrderInv'
PROOF
<1> DEFINE Rising == \A i, j \in 1..Len(inbox) :
              i < j /\ inbox[i].kind # "welcome" /\ inbox[i].class = inbox[j].class
                => inbox[i].seq < inbox[j].seq
           Below == LinkEpoch = epoch =>
              \A i \in 1..Len(inbox) : inbox[i].kind # "welcome" => inbox[i].seq <= seq[inbox[i].class]
           Reached == numbering = epoch => \A k \in Classes : cursor[k] <= seq[k]
           Logged == /\ \A i \in 1..Len(log) : log[i].epoch = epoch /\ log[i].seq <= seq[log[i].class]
                     /\ \A i, j \in 1..Len(log) :
                          i < j /\ log[i].class = log[j].class => log[i].seq < log[j].seq
<1>a. Rising /\ Below /\ Reached /\ Logged  BY DEF OrderInv
<1>b. ASSUME Rising', Below', Reached', Logged' PROVE OrderInv'
  BY <1>b DEF OrderInv
<1>1. CASE Connect \/ Hangs
  <2>1. inbox' = <<>> /\ Len(inbox') = 0 /\ UNCHANGED <<numbering, cursor, epoch, seq, log>>
    BY <1>1, ConnectIs, HangupIs DEF rootVars
  <2> QED
    BY <2>1, <1>a, <1>b
<1>2. CASE HandleWelcome
  <2>1. UNCHANGED <<epoch, seq, log>> /\ LinkEpoch' = LinkEpoch /\ LinkEpoch' = numbering' /\ numbering <= epoch
    BY <1>2, WelcomeIs, WelcomeLeaves DEF rootVars, LinkInv
  <2>2. /\ Len(inbox') \in Nat /\ Len(inbox') = Len(inbox) - 1
        /\ \A i \in 1..Len(inbox') : i + 1 \in 1..Len(inbox) /\ inbox'[i] = inbox[i + 1]
                                      /\ inbox[i + 1] \in DataFrames
    BY <1>2, WelcomeIs
  <2>3. Rising'
    BY <1>a, <2>2, DataIs
  <2>4. Below'
    BY <1>a, <2>1, <2>2, DataIs
  <2>5. Reached'
    BY <1>2, <1>a, <2>1, WelcomeIs DEF TypeOK
  <2> QED
    BY <2>1, <2>3, <2>4, <2>5, <1>a, <1>b
<1>3. CASE Takes
  <2>1. UNCHANGED <<epoch, seq, log, numbering>> /\ LinkEpoch' = LinkEpoch /\ LinkEpoch = numbering
    BY <1>3, TakeIs, TakeLeaves DEF rootVars
  <2>2. /\ Len(inbox) > 0 /\ inbox[1] \in DataFrames
        /\ Len(inbox') \in Nat /\ Len(inbox') = Len(inbox) - 1
        /\ \A i \in 1..Len(inbox') : i + 1 \in 1..Len(inbox) /\ inbox'[i] = inbox[i + 1]
                                      /\ inbox[i + 1] \in DataFrames
    BY <1>3, TakeIs
  <2>3. Rising'
    BY <1>a, <2>2, DataIs
  <2>4. Below'
    BY <1>a, <2>1, <2>2, DataIs
  <2>5. Reached'
    <3>1. 1 \in 1..Len(inbox)  BY <2>2, FramesInbox
    <3>2. LinkEpoch = epoch => inbox[1].seq <= seq[inbox[1].class]
      BY <3>1, <1>a, <2>2, DataIs
    <3> QED
      BY <1>3, <1>a, <2>1, <3>2, TakeCursor DEF TypeOK
  <2> QED
    BY <2>1, <2>3, <2>4, <2>5, <1>a, <1>b
<1>4. ASSUME NEW again \in {0, 1}, RootResumes(again) PROVE OrderInv'
  <2>1. UNCHANGED <<epoch, seq, log, numbering, cursor>> /\ LinkEpoch' = epoch
    BY <1>4, ResumeIs DEF RootResumes, deskIdle, dataVars, deskHistory
  <2>2. PICK at : /\ \A i \in 2..Len(inbox') : at[i] \in 1..Len(log) /\ inbox'[i] = log[at[i]]
                  /\ \A i, j \in 2..Len(inbox') : i < j => at[i] < at[j]
    BY <1>4, ResumeIs
  <2>3. Len(inbox') \in Nat \ {0} /\ inbox'[1].kind = "welcome"
    BY <1>4, ResumeIs DEF WelcomeFrame
  <2>4. \A i \in 1..Len(inbox') : i = 1 \/ i \in 2..Len(inbox')  BY <2>3
  <2>5. Rising'
    BY <1>a, <2>2, <2>3, <2>4
  <2>6. Below'
    BY <1>a, <2>1, <2>2, <2>3, <2>4
  <2> QED
    BY <2>1, <2>5, <2>6, <1>a, <1>b
<1>5. CASE RootStartsOver
  <2>1. /\ UNCHANGED <<numbering, cursor>> /\ epoch' = epoch + 1 /\ numbering <= epoch
        /\ log' = <<>> /\ Len(inbox') = 1 /\ inbox'[1].kind = "welcome"
    BY <1>5, StartOverIs DEF dataVars, deskHistory, WelcomeFrame
  <2>2. numbering' # epoch' /\ Len(log') = 0  BY <2>1 DEF TypeOK
  <2>3. Rising' /\ Below'
    BY <2>1
  <2> QED
    BY <2>2, <2>3, <1>b
<1>6. CASE Idles
  BY <1>6, <1>a, <1>b, IdleIs
<1>7. ASSUME NEW g \in Graphs, RootReboots(g, PagesOf[g]) PROVE OrderInv'
  <2>1. UNCHANGED <<inbox, numbering, cursor>> /\ LinkEpoch' = LinkEpoch /\ epoch' = epoch + 1 /\ Len(log') = 0
    BY <1>7, RebootIs
  <2>2. numbering' # epoch'
    BY <2>1 DEF TypeOK, LinkInv
  <2>3. LinkEpoch <= epoch
    <3>1. Pending => 1 \in 1..Len(inbox)  BY FramesInbox DEF Pending
    <3> QED  BY <3>1 DEF LinkEpoch, LinkInv, Pending
  <2>4. LinkEpoch \in Nat
    <3>1. Pending => inbox[1] \in Frames  BY FramesInbox DEF Pending
    <3> QED  BY <3>1, FrameIs DEF LinkEpoch, TypeOK
  <2>5. LinkEpoch' # epoch'
    BY <2>1, <2>3, <2>4 DEF TypeOK
  <2> QED
    BY <2>1, <2>2, <2>5, <1>a, <1>b
<1>8. ASSUME NEW f \in DataFrames, Sends(f) PROVE OrderInv'
  <2>1. /\ UNCHANGED <<numbering, cursor, epoch>> /\ LinkEpoch' = epoch /\ LinkEpoch = epoch
        /\ f.epoch = epoch /\ f.seq = seq[f.class] + 1 /\ seq' = [seq EXCEPT ![f.class] = f.seq]
    BY <1>8, SendIs DEF dataVars, deskHistory
  <2>2. /\ Len(inbox) \in Nat /\ Len(inbox') = Len(inbox) + 1
        /\ inbox'[Len(inbox) + 1] = f /\ \A i \in 1..Len(inbox) : inbox'[i] = inbox[i]
        /\ Len(log) \in Nat /\ Len(log') = Len(log) + 1
        /\ log'[Len(log) + 1] = f /\ \A i \in 1..Len(log) : log'[i] = log[i]
    BY <1>8, SendIs
  <2>3. f.class \in Classes /\ f.seq \in Nat /\ seq \in [Classes -> Nat] /\ cursor \in [Classes -> Nat]
    BY DataIs DEF TypeOK
  <2>4. \A k \in Classes : seq[k] <= seq'[k] /\ seq[k] \in Nat /\ seq'[k] \in Nat
    BY <2>1, <2>3
  <2>5. /\ \A i \in 1..Len(inbox) : inbox[i].kind # "welcome" =>
              inbox[i].class \in Classes /\ inbox[i].seq \in Nat
        /\ \A i \in 1..Len(log) : log[i].class \in Classes /\ log[i].seq \in Nat
    BY FramesInbox, FrameIs, DataIs
  <2>6. (\A i \in 1..Len(inbox') : i \in 1..Len(inbox) \/ i = Len(inbox) + 1)
        /\ (\A i \in 1..Len(log') : i \in 1..Len(log) \/ i = Len(log) + 1)
    BY <2>2
  <2>7. Rising'
    <3>1. SUFFICES ASSUME NEW i \in 1..Len(inbox'), NEW j \in 1..Len(inbox'), i < j,
                          inbox'[i].kind # "welcome", inbox'[i].class = inbox'[j].class
                   PROVE  inbox'[i].seq < inbox'[j].seq
      OBVIOUS
    <3>2. i \in 1..Len(inbox)  BY <3>1, <2>2
    <3>3. CASE j \in 1..Len(inbox)  BY <3>1, <3>2, <3>3, <2>2, <1>a
    <3>4. CASE j = Len(inbox) + 1
      <4>1. inbox[i].seq <= seq[f.class]  BY <3>1, <3>2, <3>4, <2>1, <2>2, <1>a
      <4> QED  BY <4>1, <3>1, <3>2, <3>4, <2>1, <2>2, <2>3, <2>5
    <3> QED  BY <3>3, <3>4, <2>6
  <2>8. Below'
    <3>1. SUFFICES ASSUME NEW i \in 1..Len(inbox'), inbox'[i].kind # "welcome"
                   PROVE  inbox'[i].seq <= seq'[inbox'[i].class]
      OBVIOUS
    <3>2. CASE i \in 1..Len(inbox)  BY <3>1, <3>2, <2>1, <2>2, <2>4, <2>5, <1>a
    <3>3. CASE i = Len(inbox) + 1  BY <3>3, <2>1, <2>2, <2>3
    <3> QED  BY <3>2, <3>3, <2>6
  <2>9. Reached'
    BY <2>1, <2>3, <2>4, <1>a
  <2>10. Logged'
    <3>1. ASSUME NEW i \in 1..Len(log')
          PROVE  log'[i].epoch = epoch' /\ log'[i].seq <= seq'[log'[i].class]
      <4>2. CASE i \in 1..Len(log)  BY <4>2, <2>1, <2>2, <2>4, <2>5, <1>a
      <4>3. CASE i = Len(log) + 1  BY <4>3, <2>1, <2>2, <2>3
      <4> QED  BY <4>2, <4>3, <2>6
    <3>2. ASSUME NEW i \in 1..Len(log'), NEW j \in 1..Len(log'), i < j,
                 log'[i].class = log'[j].class
          PROVE  log'[i].seq < log'[j].seq
      <4>1. i \in 1..Len(log)  BY <3>2, <2>2
      <4>2. CASE j \in 1..Len(log)  BY <3>2, <4>1, <4>2, <2>2, <1>a
      <4>3. CASE j = Len(log) + 1
        <5>1. log[i].seq <= seq[f.class]  BY <3>2, <4>1, <4>3, <2>1, <2>2, <1>a
        <5> QED  BY <5>1, <4>1, <4>3, <3>2, <2>1, <2>2, <2>3, <2>5
      <4> QED  BY <4>2, <4>3, <2>6
    <3> QED  BY <3>1, <3>2
  <2> QED
    BY <2>7, <2>8, <2>9, <2>10, <1>b
<1>9. CASE UNCHANGED vars
  BY <1>9 DEF vars, sessionVars, dataVars, linkVars, rootVars, deskHistory, OrderInv,
     LinkEpoch, Pending
<1> QED
  BY <1>1, <1>2, <1>3, <1>4, <1>5, <1>6, <1>7, <1>8, <1>9, Kinds

-----------------------------------------------------------------------------
(* Every step keeps the cursors behind what was dealt with. *)
LEMMA CursorKept == ASSUME TypeOK, LinkInv, OrderInv, CursorInv, [Next]_vars PROVE CursorInv'
PROOF
<1> DEFINE Dealt == \A i \in 1..Len(inbox) :
             inbox[i].kind # "welcome" /\ inbox[i].seq <= LinkCursor(inbox[i].class)
               => FrameId(inbox[i]) \in processed \cup unrouted
           Backed == \A k \in Classes : cursor[k] > 0 => <<numbering, k, cursor[k]>> \in processed
<1>a. Dealt /\ Backed  BY DEF CursorInv
<1>b. ASSUME Dealt', Backed' PROVE CursorInv'
  BY <1>b DEF CursorInv
<1>c. cursor \in [Classes -> Nat]  BY DEF TypeOK
<1>1. CASE Connect \/ Hangs
  <2>1. inbox' = <<>> /\ Len(inbox') = 0 /\ UNCHANGED <<numbering, cursor, processed,
                   unrouted>>
    BY <1>1, ConnectIs, HangupIs
  <2> QED
    BY <2>1, <1>a, <1>b
<1>2. CASE HandleWelcome
  <2>1. /\ UNCHANGED <<processed, unrouted>>
        /\ \A k \in Classes : LinkCursor(k)' = LinkCursor(k) /\ LinkCursor(k)' = cursor'[k]
    BY <1>2, WelcomeIs, WelcomeLeaves
  <2>2. \A i \in 1..Len(inbox') : /\ i + 1 \in 1..Len(inbox) /\ inbox'[i] = inbox[i + 1]
                                  /\ inbox[i + 1] \in DataFrames
    BY <1>2, WelcomeIs
  <2>3. Dealt'
    <3>0. \A i \in 1..Len(inbox') : inbox'[i].class \in Classes  BY <2>2, DataIs
    <3>1. SUFFICES ASSUME NEW i \in 1..Len(inbox'), inbox'[i].seq <= cursor'[inbox'[i].class]
                   PROVE  FrameId(inbox'[i]) \in processed \cup unrouted
      BY <2>1, <3>0
    <3>2. inbox[i + 1].class \in Classes /\ inbox[i + 1].kind # "welcome"  BY <2>2, DataIs
    <3>3. inbox[i + 1].seq <= LinkCursor(inbox[i + 1].class)  BY <2>1, <2>2, <3>1, <3>2
    <3> QED  BY <1>a, <2>2, <3>2, <3>3
  <2>4. Backed'
    BY <1>2, <1>a, <2>1, WelcomeIs
  <2> QED
    BY <2>3, <2>4, <1>b
<1>3. CASE Takes
  <2>1. /\ numbering' = numbering /\ processed \subseteq processed' /\ unrouted \subseteq unrouted'
        /\ \A k : LinkCursor(k) = cursor[k] /\ LinkCursor(k)' = cursor'[k]
    BY <1>3, TakeIs, TakeLeaves
  <2>2. /\ Len(inbox) > 0 /\ inbox[1] \in DataFrames /\ inbox[1].epoch = numbering
        /\ \A i \in 1..Len(inbox') : i + 1 \in 1..Len(inbox) /\ inbox'[i] = inbox[i + 1]
                                      /\ inbox[i + 1] \in DataFrames
    BY <1>3, TakeIs
  <2>3. CASE UNCHANGED cursor
    <3>1. Dealt'
      <4>1. SUFFICES ASSUME NEW i \in 1..Len(inbox'), inbox'[i].seq <= cursor'[inbox'[i].class]
                     PROVE  FrameId(inbox'[i]) \in processed' \cup unrouted'
        BY <2>1
      <4>2. inbox[i + 1].seq <= LinkCursor(inbox[i + 1].class) /\ inbox[i + 1].kind # "welcome"
        BY <4>1, <2>1, <2>2, <2>3, DataIs
      <4>3. FrameId(inbox[i + 1]) \in processed \cup unrouted  BY <1>a, <2>2, <4>2
      <4> QED  BY <2>1, <2>2, <4>3
    <3>2. Backed'
      BY <1>a, <2>1, <2>3
    <3> QED  BY <3>1, <3>2, <1>b
  <2>4. CASE /\ inbox[1].class \in Classes /\ inbox[1].seq > cursor[inbox[1].class]
             /\ cursor' = [cursor EXCEPT ![inbox[1].class] = inbox[1].seq]
             /\ processed' = processed \cup {FrameId(inbox[1])}
    <3>1. Dealt'
      <4>1. SUFFICES ASSUME NEW i \in 1..Len(inbox'), inbox'[i].seq <= cursor'[inbox'[i].class]
                     PROVE  FrameId(inbox'[i]) \in processed' \cup unrouted'
        BY <2>1
      <4>2. /\ i + 1 \in 1..Len(inbox) /\ inbox'[i] = inbox[i + 1] /\ inbox[i + 1] \in DataFrames
            /\ 1 \in 1..Len(inbox) /\ 1 < i + 1
        BY <2>2, FramesInbox
      <4>3. /\ inbox[i + 1].class \in Classes /\ inbox[i + 1].seq \in Nat /\ inbox[i + 1].kind # "welcome"
            /\ inbox[1].kind # "welcome" /\ inbox[1].seq \in Nat
        BY <2>2, <4>2, DataIs
      <4>4. inbox[1].class = inbox[i + 1].class => inbox[1].seq < inbox[i + 1].seq
        BY <4>2, <4>3 DEF OrderInv
      <4>5. inbox[i + 1].class # inbox[1].class
        BY <1>c, <2>4, <4>1, <4>2, <4>3, <4>4
      <4>6. inbox[i + 1].seq <= LinkCursor(inbox[i + 1].class)
        BY <1>c, <2>1, <2>4, <4>1, <4>2, <4>3, <4>5
      <4>7. FrameId(inbox[i + 1]) \in processed \cup unrouted  BY <1>a, <4>2, <4>3, <4>6
      <4> QED  BY <2>1, <4>2, <4>7
    <3>2. FrameId(inbox[1]) = <<numbering, inbox[1].class, inbox[1].seq>>
      BY <2>2, DataIs
    <3>3. Backed'
      BY <1>a, <1>c, <2>1, <2>4, <3>2
    <3> QED  BY <3>1, <3>3, <1>b
  <2> QED
    BY <1>3, <2>3, <2>4, TakeCursor
<1>4. ASSUME NEW again \in {0, 1}, RootResumes(again) PROVE CursorInv'
  <2>1. UNCHANGED <<epoch, numbering, cursor, processed, unrouted>> /\ numbering = epoch
        /\ \A k \in Classes : LinkCursor(k)' = cursor[k]
    BY <1>4, ResumeIs DEF RootResumes, deskIdle, dataVars, deskHistory
  <2>2. PICK at : \A i \in 2..Len(inbox') : /\ at[i] \in 1..Len(log) /\ inbox'[i] = log[at[i]]
                                            /\ log[at[i]].seq + 1 > cursor[log[at[i]].class]
    BY <1>4, ResumeIs
  <2>3. Len(inbox') \in Nat \ {0} /\ inbox'[1].kind = "welcome"
    BY <1>4, ResumeIs DEF WelcomeFrame
  <2>4. Dealt'
    <3>0. ASSUME NEW i \in 1..Len(inbox'), inbox'[i].kind # "welcome"
          PROVE  i \in 2..Len(inbox') /\ inbox'[i].class \in Classes
      <4>1. i \in 2..Len(inbox')  BY <2>3, <3>0
      <4> QED  BY <2>2, <4>1, FramesInbox, DataIs
    <3>1. SUFFICES ASSUME NEW i \in 1..Len(inbox'), inbox'[i].kind # "welcome",
                          inbox'[i].seq <= cursor[inbox'[i].class]
                   PROVE  FrameId(inbox'[i]) \in processed \cup unrouted
      BY <2>1, <3>0
    <3>2. i \in 2..Len(inbox')  BY <3>0, <3>1
    <3>3. PICK f : /\ f = inbox'[i] /\ f \in DataFrames /\ f.seq + 1 > cursor[f.class]
                   /\ f.epoch = epoch
      BY <2>2, <3>2, FramesInbox DEF OrderInv
    <3>4. f.class \in Classes /\ f.seq \in Nat \ {0} /\ FrameId(f) = <<f.epoch, f.class, f.seq>>
      BY <3>3, DataIs
    <3>5. f.seq <= cursor[f.class]  BY <2>1, <3>1, <3>3, <3>4
    <3>6. f.seq = cursor[f.class]
      BY <1>c, <3>3, <3>4, <3>5
    <3> QED
      BY <1>a, <2>1, <3>3, <3>4, <3>6
  <2> QED
    BY <2>1, <2>4, <1>a, <1>b
<1>5. CASE RootStartsOver
  <2>1. /\ UNCHANGED <<numbering, cursor, processed>>
        /\ Len(inbox') = 1 /\ inbox'[1].kind = "welcome"
    BY <1>5, StartOverIs DEF dataVars, deskHistory, WelcomeFrame
  <2>2. Dealt'
    BY <2>1
  <2> QED
    BY <2>1, <2>2, <1>a, <1>b
<1>6. CASE Idles
  <2>1. UNCHANGED <<inbox, numbering, cursor, processed, unrouted>> /\ \A k : LinkCursor(k)' = LinkCursor(k)
    BY <1>6, IdleIs
  <2> QED  BY <2>1, <1>a, <1>b
<1>7. ASSUME NEW g \in Graphs, RootReboots(g, PagesOf[g]) PROVE CursorInv'
  <2>1. UNCHANGED <<inbox, numbering, cursor, processed, unrouted>> /\ \A k : LinkCursor(k)' = LinkCursor(k)
    BY <1>7, RebootIs
  <2> QED  BY <2>1, <1>a, <1>b
<1>8. ASSUME NEW f \in DataFrames, Sends(f) PROVE CursorInv'
  <2>1. /\ UNCHANGED <<numbering, cursor, processed, unrouted>> /\ \A k : LinkCursor(k)' = LinkCursor(k)
        /\ f.seq = seq[f.class] + 1 /\ LinkEpoch = epoch
    BY <1>8, SendIs DEF dataVars, deskHistory
  <2>2. /\ Len(inbox) \in Nat /\ Len(inbox') = Len(inbox) + 1
        /\ inbox'[Len(inbox) + 1] = f /\ \A i \in 1..Len(inbox) : inbox'[i] = inbox[i]
    BY <1>8, SendIs
  <2>3. f.class \in Classes /\ f.seq \in Nat \ {0} /\ seq \in [Classes -> Nat]
    BY DataIs DEF TypeOK
  <2>4. LinkCursor(f.class) <= seq[f.class]
    <3>1. CASE Pending /\ ~inbox[1].resume
      BY <2>3, <3>1 DEF LinkCursor
    <3>2. CASE Pending /\ inbox[1].resume
      <4>1. 1 \in 1..Len(inbox) /\ inbox[1].kind = "welcome"  BY <3>2, FramesInbox DEF Pending
      <4>2. numbering = epoch
        BY <3>2, <4>1, <2>1 DEF LinkInv, LinkEpoch
      <4> QED  BY <2>3, <3>2, <4>2 DEF LinkCursor, OrderInv
    <3>3. CASE ~Pending
      BY <2>1, <2>3, <3>3 DEF LinkCursor, LinkEpoch, OrderInv
    <3> QED  BY <3>1, <3>2, <3>3
  <2>5. LinkCursor(f.class) \in Nat
    BY <1>c, <2>3 DEF LinkCursor
  <2>6. Dealt'
    <3>1. SUFFICES ASSUME NEW i \in 1..Len(inbox'), inbox'[i].kind # "welcome",
                          inbox'[i].seq <= LinkCursor(inbox'[i].class)
                   PROVE  FrameId(inbox'[i]) \in processed \cup unrouted
      BY <2>1
    <3>2. i # Len(inbox) + 1
      BY <2>1, <2>2, <2>3, <2>4, <2>5, <3>1
    <3>3. i \in 1..Len(inbox)  BY <2>2, <3>2
    <3> QED  BY <1>a, <2>2, <3>1, <3>3
  <2> QED
    BY <2>1, <2>6, <1>a, <1>b
<1>9. CASE UNCHANGED vars
  BY <1>9 DEF vars, sessionVars, dataVars, linkVars, rootVars, deskHistory, CursorInv,
     LinkCursor, Pending
<1> QED
  BY <1>1, <1>2, <1>3, <1>4, <1>5, <1>6, <1>7, <1>8, <1>9, Kinds

-----------------------------------------------------------------------------
(* No step hands a sample on a second time. *)
LEMMA EmittedKept == ASSUME TypeOK, LinkInv, EmittedInv, [Next]_vars PROVE EmittedInv'
PROOF
<1> DEFINE Passed == \A i \in 1..Len(emitted) :
             /\ emitted[i][1] <= numbering /\ emitted[i][2] = "sensor"
             /\ emitted[i][1] = numbering => emitted[i][3] <= cursor["sensor"]
           Once == \A i, j \in 1..Len(emitted) : emitted[i] = emitted[j] => i = j
<1>a. Passed /\ Once  BY DEF EmittedInv
<1>b. ASSUME Passed', Once' PROVE EmittedInv'
  BY <1>b DEF EmittedInv
<1>c. cursor \in [Classes -> Nat] /\ numbering \in Nat /\ emitted \in Seq(Nat \X Classes \X Nat)
  BY DEF TypeOK
<1>d. Len(emitted) \in Nat
      /\ \A i \in 1..Len(emitted) : emitted[i][1] \in Nat /\ emitted[i][3] \in Nat
  BY <1>c
<1>1. CASE HandleWelcome
  <2>1. emitted' = emitted /\ numbering' \in Nat
        /\ \/ numbering' = numbering /\ cursor' = cursor
           \/ numbering' > numbering
    BY <1>1, WelcomeIs DEF WelcomeFrames
  <2> QED
    BY <2>1, <1>a, <1>b, <1>c, <1>d
<1>2. CASE Takes
  <2>1. numbering' = numbering /\ inbox[1] \in DataFrames /\ inbox[1].epoch = numbering
        /\ Head(inbox) = inbox[1]
    BY <1>2, TakeIs
  <2>2. CASE UNCHANGED emitted
    <3>1. cursor'["sensor"] >= cursor["sensor"] /\ cursor'["sensor"] \in Nat
      <4>1. inbox[1].class \in Classes /\ inbox[1].seq \in Nat  BY <2>1, DataIs
      <4> QED  BY <1>2, <1>c, <4>1, TakeCursor DEF Classes
    <3>2. cursor["sensor"] \in Nat  BY <1>c DEF Classes
    <3>3. Passed'
      <4>1. SUFFICES ASSUME NEW i \in 1..Len(emitted)
                     PROVE  /\ emitted[i][1] <= numbering /\ emitted[i][2] = "sensor"
                            /\ emitted[i][1] = numbering => emitted[i][3] <= cursor'["sensor"]
        BY <2>1, <2>2
      <4> QED  BY <1>a, <1>d, <3>1, <3>2
    <3> QED
      BY <3>3, <2>2, <1>a, <1>b
  <2>3. CASE SampleEmitted
    <3>1. inbox[1] \in SampleFrames /\ FrameId(inbox[1]) = <<numbering, "sensor", inbox[1].seq>>
          /\ inbox[1].class = "sensor" /\ inbox[1].seq \in Nat
      BY <2>1, <2>3, DataIs, FrameIs DEF SampleEmitted, Incoming, SampleFrames, Frames
    <3>2. /\ inbox[1].seq > cursor["sensor"] /\ cursor' = [cursor EXCEPT !["sensor"] = inbox[1].seq]
          /\ emitted' = Append(emitted, <<numbering, "sensor", inbox[1].seq>>)
      <4>1. /\ ~(inbox[1].seq <= cursor["sensor"])
            /\ cursor' = IF inbox[1].seq > cursor["sensor"]
                           THEN [cursor EXCEPT !["sensor"] = inbox[1].seq] ELSE cursor
            /\ emitted' = Append(emitted, FrameId(inbox[1]))
        BY <2>1, <2>3, <3>1 DEF SampleEmitted, Consumed, RecordCursor
      <4>2. cursor["sensor"] \in Nat  BY <1>c DEF Classes
      <4>3. inbox[1].seq > cursor["sensor"]  BY <3>1, <4>1, <4>2
      <4> QED  BY <3>1, <4>1, <4>3
    <3>3. /\ Len(emitted') = Len(emitted) + 1
          /\ emitted'[Len(emitted) + 1] = <<numbering, "sensor", inbox[1].seq>>
          /\ \A i \in 1..Len(emitted) : emitted'[i] = emitted[i]
      <4>1. <<numbering, "sensor", inbox[1].seq>> \in Nat \X Classes \X Nat
        BY <1>c, <3>1 DEF Classes
      <4> QED  BY <1>c, <3>2, <4>1, AppendIs
    <3>4. cursor'["sensor"] = inbox[1].seq  BY <1>c, <3>2 DEF Classes
    <3>5. \A i \in 1..Len(emitted') : i \in 1..Len(emitted) \/ i = Len(emitted) + 1
      BY <1>d, <3>3
    <3>6. cursor["sensor"] \in Nat  BY <1>c DEF Classes
    <3>7. \A i \in 1..Len(emitted) : emitted[i] # <<numbering, "sensor", inbox[1].seq>>
      BY <1>a, <1>d, <3>1, <3>2, <3>6
    <3>8. Passed'
      <4>1. SUFFICES ASSUME NEW i \in 1..Len(emitted')
                     PROVE  /\ emitted'[i][1] <= numbering /\ emitted'[i][2] = "sensor"
                            /\ emitted'[i][1] = numbering => emitted'[i][3] <= inbox[1].seq
        BY <2>1, <3>4
      <4>2. CASE i \in 1..Len(emitted)
        BY <4>2, <1>a, <1>d, <3>1, <3>2, <3>3, <3>6
      <4>3. CASE i = Len(emitted) + 1
        BY <4>3, <1>c, <3>1, <3>3
      <4> QED  BY <3>5, <4>2, <4>3
    <3>9. Once'
      BY <1>a, <3>3, <3>5, <3>7
    <3> QED  BY <3>8, <3>9, <1>b
  <2> QED
    BY <1>2, <2>2, <2>3 DEF Takes, TakesPage, SkipConsumed, PageStored, GraphAdopted,
       SampleUnknown, deskHistory
<1>3. ASSUME UNCHANGED <<emitted, numbering, cursor>> PROVE EmittedInv'
  BY <1>3 DEF EmittedInv
<1>4. ASSUME NEW again \in {0, 1}, RootResumes(again) PROVE EmittedInv'
  BY <1>3, <1>4 DEF RootResumes, deskIdle, dataVars, deskHistory
<1>5. CASE RootStartsOver
  BY <1>3, <1>5 DEF RootStartsOver, deskIdle, dataVars, deskHistory
<1>6. ASSUME NEW f \in DataFrames, Sends(f) PROVE EmittedInv'
  BY <1>3, <1>6 DEF Sends, dataVars, deskHistory
<1>7. CASE UNCHANGED vars
  BY <1>3, <1>7 DEF vars, dataVars, deskHistory
<1> QED
  BY <1>1, <1>2, <1>3, <1>4, <1>5, <1>6, <1>7, Kinds, ConnectIs, HangupIs, IdleIs,
     RebootIs

-----------------------------------------------------------------------------
(* A page agrees with a history G, which names the graph of each           *)
(* revision: it belongs to the graph of its revision, unless the root      *)
(* spoilt it.                                                              *)
PageAgrees(f, G) ==
  /\ f.revision \in Revisions /\ f.count = PagesOf[G[f.revision]]
  /\ f.index < f.count =>
       f.content \in {Forged, PageContent(G[f.revision], f.index, f.count)}

(* The same of slots that hold pages of graph g, cut into n. *)
SlotsAgree(pages, g, n) ==
  /\ DOMAIN pages = AllPages(n)
  /\ \A i \in AllPages(n) : pages[i] \in {Missing, Forged, PageContent(g, i, n)}

(* The same of the worker's slots: after an adoption they are empty, and   *)
(* the inventory is the graph of their revision; before it they are        *)
(* incomplete.                                                             *)
AsmAgrees(G) ==
  asm # EmptyAsm =>
    /\ asm.revision \in Revisions /\ asm.count = PagesOf[G[asm.revision]]
    /\ IF asm.pages = NoPages
         THEN inventory = Routes(G[asm.revision]) /\ tasks = Online(G[asm.revision])
         ELSE SlotsAgree(asm.pages, G[asm.revision], asm.count) /\ ~Complete(asm.pages)

(* The same of the worker and its wire. *)
LinkAgrees(G) ==
  /\ AsmAgrees(G)
  /\ \A i \in 1..Len(inbox) : inbox[i].kind = "page" => PageAgrees(inbox[i], G)

(* The wire agrees with some history.  Not with that of the root: once     *)
(* the root has rebooted and counts its revisions anew, the pages of the   *)
(* boot before it may still be on the wire.                                *)
LinkHistory == \E G \in [Revisions -> published] : LinkAgrees(G)

(* The log, and while the root holds the connection the wire too, agree    *)
(* with a history in which the revision of the root is the graph it        *)
(* serves.                                                                 *)
RootHistory ==
  \E G \in [Revisions -> published] :
    /\ G[revision] = graph
    /\ open => LinkAgrees(G)
    /\ \A i \in 1..Len(log) :
         log[i].kind = "page" => log[i].revision <= revision /\ PageAgrees(log[i], G)

(* Nothing on an open connection is newer than the root. *)
NoneNewer ==
  open => /\ \A i \in 1..Len(inbox) : inbox[i].kind = "page" => inbox[i].revision <= revision
          /\ asm.revision <= revision

(* Pages that bear one revision come from one published graph. *)
HistInv == LinkHistory /\ RootHistory /\ NoneNewer

(* The graphs of a history. *)
LEMMA GraphsOf ==
  ASSUME TypeOK, NEW G \in [Revisions -> published], NEW r \in Revisions
  PROVE  G[r] \in published /\ G[r] \in NodeMaps /\ PagesOf[G[r]] \in Nat \ {0}
  BY BoundsAre DEF TypeOK

(* Fitting the slots to a page, and putting the page in, keeps them in     *)
(* agreement: slots of the page's revision have its page count already.    *)
LEMMA FittedAgrees ==
  ASSUME TypeOK, NEW G \in [Revisions -> published], AsmAgrees(G),
         NEW f \in PageFrames, PageAgrees(f, G), ~Malformed(f),
         f.index \in DOMAIN Fitted(f).pages
  PROVE  /\ SlotsAgree(Fitted(f).pages, G[f.revision], f.count)
         /\ SlotsAgree(Filled(f), G[f.revision], f.count)
         /\ Filled(f) # NoPages
         /\ asm.revision = f.revision => Fitted(f) = asm
PROOF
<1> DEFINE g == G[f.revision]
           n == f.count
<1>1. g \in NodeMaps /\ n \in Nat \ {0} /\ f.revision \in Revisions /\ n = PagesOf[g]
  BY GraphsOf DEF PageAgrees
<1>2. SlotsAgree(Fitted(f).pages, g, n) /\ (asm.revision = f.revision => Fitted(f) = asm)
  <2>1. CASE asm.revision = f.revision
    <3>1. asm # EmptyAsm
      <4>1. f.revision # 0  BY <1>1, BoundsAre
      <4> QED  BY <2>1, <4>1 DEF EmptyAsm
    <3>2. asm.count = n  BY <2>1, <3>1, <1>1 DEF AsmAgrees
    <3>3. Fitted(f) = asm  BY <2>1, <3>2 DEF Fitted
    <3>4. asm.pages # NoPages  BY <3>3, NoPagesIs
    <3> QED  BY <2>1, <3>1, <3>2, <3>3, <3>4 DEF AsmAgrees
  <2>2. CASE asm.revision # f.revision
    <3>1. Fitted(f).pages = [i \in AllPages(n) |-> Missing]
      BY <2>2 DEF Fitted
    <3> QED  BY <2>2, <3>1 DEF SlotsAgree
  <2> QED  BY <2>1, <2>2
<1>3. /\ f.index \in AllPages(n) /\ DOMAIN Filled(f) = DOMAIN Fitted(f).pages
      /\ Filled(f)[f.index] = f.content
      /\ \A i \in DOMAIN Filled(f) : i # f.index => Filled(f)[i] = Fitted(f).pages[i]
  BY FilledIs
<1>4. f.content \in {Forged, PageContent(g, f.index, n)}
  <2>1. f.index < f.count  BY DEF Malformed, PageFrames
  <2> QED  BY <2>1 DEF PageAgrees
<1>5. SlotsAgree(Filled(f), g, n)
  BY <1>2, <1>3, <1>4 DEF SlotsAgree
<1>6. Filled(f) # NoPages
  BY <1>3, NoPagesIs
<1> QED
  BY <1>2, <1>5, <1>6

(* Taking a page keeps the slots in agreement; pages that complete a       *)
(* graph make the inventory that graph.                                    *)
LEMMA PageKeepsAsm ==
  ASSUME TypeOK, LinkInv, TakesPage, NEW G \in [Revisions -> published], LinkAgrees(G)
  PROVE  /\ AsmAgrees(G)'
         /\ asm' # EmptyAsm /\ asm'.revision = inbox[1].revision
         /\ inbox[1].kind = "page" /\ inbox[1] \in PageFrames /\ PageAgrees(inbox[1], G)
         /\ asm'.pages = NoPages
              \/ /\ asm'.pages = Filled(inbox[1]) /\ UNCHANGED <<inventory, tasks>>
         /\ ~Malformed(inbox[1]) /\ inbox[1].index \in DOMAIN Fitted(inbox[1]).pages
         /\ GraphAdopted => \E g \in published : inventory' = Routes(g) /\ tasks' = Online(g)
PROOF
<1>1. Takes  BY DEF Takes
<1>2. /\ Len(inbox) > 0 /\ Head(inbox) = inbox[1] /\ inbox[1] \in DataFrames
  BY <1>1, TakeIs
<1>3. PICK f : f = inbox[1]  OBVIOUS
<1>4. /\ f \in PageFrames /\ f.kind = "page" /\ ~Malformed(f) /\ f.index \in DOMAIN Fitted(f).pages
  BY <1>2, <1>3, FrameIs DEF TakesPage, PageStored, GraphAdopted, Incoming, Frames
<1>5. PageAgrees(f, G) /\ AsmAgrees(G)
  <2>1. 1 \in 1..Len(inbox)  BY <1>2, FramesInbox
  <2> QED  BY <1>3, <1>4, <2>1 DEF LinkAgrees
<1>6. /\ SlotsAgree(Filled(f), G[f.revision], f.count)
      /\ Filled(f) # NoPages
  BY <1>4, <1>5, FittedAgrees
<1>7. Fitted(f) \in [revision : Nat, count : Nat, pages : PageSlots]
      /\ Fitted(f).revision = f.revision /\ Fitted(f).count = f.count
  BY <1>4, FilledIs
<1>8. f.revision \in Revisions /\ f.count = PagesOf[G[f.revision]]
      /\ G[f.revision] \in published /\ G[f.revision] \in NodeMaps /\ f.count \in Nat \ {0}
  BY <1>5, GraphsOf DEF PageAgrees
<1>9. CASE PageStored
  <2>1. asm' = [Fitted(f) EXCEPT !.pages = Filled(f)] /\ ~Complete(Filled(f))
        /\ UNCHANGED <<inventory, tasks>>
    BY <1>2, <1>3, <1>9 DEF PageStored
  <2>2. asm'.revision = f.revision /\ asm'.count = f.count /\ asm'.pages = Filled(f)
    BY <1>7, <2>1
  <2>3. AsmAgrees(G)'
    BY <1>6, <1>8, <2>1, <2>2 DEF AsmAgrees
  <2>4. asm' # EmptyAsm  BY <1>6, <2>2 DEF EmptyAsm
  <2>5. ~GraphAdopted
    BY <1>2, <1>3, <2>1 DEF GraphAdopted
  <2> QED
    BY <1>2, <1>3, <1>4, <1>5, <2>1, <2>2, <2>3, <2>4, <2>5
<1>10. CASE GraphAdopted
  <2>1. asm' = [Fitted(f) EXCEPT !.pages = NoPages] /\ Complete(Filled(f)) /\ Genuine(Filled(f))
        /\ inventory' = Routes(Assembled(Filled(f))) /\ tasks' = Online(Assembled(Filled(f)))
    BY <1>2, <1>3, <1>10 DEF GraphAdopted
  <2>2. asm'.revision = f.revision /\ asm'.count = f.count /\ asm'.pages = NoPages
    BY <1>7, <2>1
  <2>3. Assembled(Filled(f)) = G[f.revision]
    <3>1. DOMAIN Filled(f) = AllPages(f.count)  BY <1>6 DEF SlotsAgree
    <3>2. \A i \in AllPages(f.count) : Filled(f)[i] = PageContent(G[f.revision], i, f.count)
      BY <1>6, <2>1, <3>1 DEF SlotsAgree, Complete, Genuine
    <3> QED  BY <1>8, <3>1, <3>2, Assemble
  <2>4. inventory' = Routes(G[f.revision]) /\ tasks' = Online(G[f.revision])
    BY <2>1, <2>3
  <2>5. AsmAgrees(G)'
    BY <1>8, <2>2, <2>4 DEF AsmAgrees
  <2>6. asm' # EmptyAsm
    <3>1. f.revision # 0  BY <1>8, BoundsAre
    <3> QED  BY <2>2, <3>1 DEF EmptyAsm
  <2> QED
    BY <1>3, <1>4, <1>5, <1>8, <2>2, <2>4, <2>5, <2>6
<1> QED
  BY <1>9, <1>10 DEF TakesPage

(* Taking any frame keeps the wire in agreement. *)
LEMMA TakesAgree ==
  ASSUME TypeOK, LinkInv, Takes, NEW G \in [Revisions -> published], LinkAgrees(G)
  PROVE  LinkAgrees(G)'
PROOF
<1>1. AsmAgrees(G)'
  <2>1. CASE TakesPage
    BY <2>1, PageKeepsAsm
  <2>2. CASE ~TakesPage
    <3>1. UNCHANGED <<asm, inventory, tasks>>
      BY <2>2 DEF Takes, SkipConsumed, SampleEmitted, SampleUnknown, dataVars
    <3> QED  BY <3>1 DEF LinkAgrees, AsmAgrees
  <2> QED  BY <2>1, <2>2
<1>2. \A i \in 1..Len(inbox') : inbox'[i].kind = "page" => PageAgrees(inbox'[i], G)
  BY TakeIs DEF LinkAgrees
<1> QED
  BY <1>1, <1>2 DEF LinkAgrees

(* An empty wire agrees when the slots do. *)
LEMMA EmptyAgrees ==
  ASSUME Len(inbox) = 0, NEW G, AsmAgrees(G) PROVE LinkAgrees(G)
  BY DEF LinkAgrees

(* Every step keeps the histories, with the history extended where the     *)
(* root publishes and replaced where it reboots.                           *)
LEMMA HistoryKept ==
  ASSUME TypeOK, TypeOK', LinkInv, HistInv, [Next]_vars PROVE HistInv'
PROOF
<1>a. PICK G \in [Revisions -> published] : LinkAgrees(G)  BY DEF HistInv, LinkHistory
<1>b. PICK H \in [Revisions -> published] :
        /\ H[revision] = graph
        /\ open => LinkAgrees(H)
        /\ \A i \in 1..Len(log) :
             log[i].kind = "page" => log[i].revision <= revision /\ PageAgrees(log[i], H)
  BY DEF HistInv, RootHistory
<1>c. NoneNewer  BY DEF HistInv
<1>d. ASSUME UNCHANGED <<revision, graph, published, log>>, LinkAgrees(G)',
             open' => LinkAgrees(H)', NoneNewer'
      PROVE  HistInv'
  <2>1. LinkHistory'  BY <1>d, <1>a DEF LinkHistory
  <2>2. RootHistory'
    BY <1>d, <1>b DEF RootHistory, PageAgrees
  <2> QED  BY <1>d, <2>1, <2>2 DEF HistInv
<1>1. CASE Connect
  <2>1. asm' = EmptyAsm /\ Len(inbox') = 0 /\ UNCHANGED rootVars
    BY <1>1, ConnectIs
  <2>2. LinkAgrees(G)' /\ LinkAgrees(H)'
    BY <2>1 DEF LinkAgrees, AsmAgrees
  <2>3. NoneNewer'
    <3>1. revision' \in Nat /\ asm'.revision = 0  BY <2>1, BoundsAre DEF TypeOK, EmptyAsm
    <3> QED  BY <2>1, <3>1, BoundsAre DEF NoneNewer
  <2> QED  BY <2>1, <2>2, <2>3, <1>d DEF rootVars
<1>2. CASE Hangs
  <2>1. /\ UNCHANGED <<asm, inventory, tasks>> /\ UNCHANGED rootVars /\ Len(inbox') = 0 /\ open' = FALSE
    BY <1>2, HangupIs
  <2>2. LinkAgrees(G)'
    BY <2>1, <1>a DEF LinkAgrees, AsmAgrees
  <2> QED  BY <2>1, <2>2, <1>d DEF rootVars, NoneNewer
<1>3. CASE HandleWelcome
  <2>1. /\ UNCHANGED <<asm, inventory, tasks, open>> /\ UNCHANGED rootVars
        /\ \A i \in 1..Len(inbox') : i + 1 \in 1..Len(inbox) /\ inbox'[i] = inbox[i + 1]
    BY <1>3, WelcomeIs
  <2>2. LinkAgrees(G)' /\ (open' => LinkAgrees(H)')
    BY <2>1, <1>a, <1>b DEF LinkAgrees, AsmAgrees
  <2>3. NoneNewer'
    BY <2>1, <1>c DEF NoneNewer, rootVars
  <2> QED  BY <2>1, <2>2, <2>3, <1>d DEF rootVars
<1>4. CASE Takes
  <2>1. /\ UNCHANGED open /\ UNCHANGED rootVars
        /\ \A i \in 1..Len(inbox') : i + 1 \in 1..Len(inbox) /\ inbox'[i] = inbox[i + 1]
    BY <1>4, TakeIs
  <2>2. LinkAgrees(G)' /\ (open' => LinkAgrees(H)')
    BY <1>4, <2>1, <1>a, <1>b, TakesAgree
  <2>3. NoneNewer'
    <3>1. asm' = asm \/ /\ asm'.revision = inbox[1].revision /\ inbox[1].kind = "page"
                        /\ 1 \in 1..Len(inbox)
      <4>1. CASE TakesPage  BY <4>1, <1>4, <1>a, PageKeepsAsm, TakeIs, FramesInbox
      <4>2. CASE ~TakesPage
        BY <4>2, <1>4 DEF Takes, SkipConsumed, SampleEmitted, SampleUnknown, dataVars
      <4> QED  BY <4>1, <4>2
    <3> QED  BY <2>1, <3>1, <1>c DEF NoneNewer, rootVars
  <2> QED  BY <2>1, <2>2, <2>3, <1>d DEF rootVars
<1>5. ASSUME NEW again \in {0, 1}, RootResumes(again) PROVE HistInv'
  <2>1. UNCHANGED <<asm, inventory, tasks, open, revision, graph, published, log>> /\ asm = EmptyAsm
    BY <1>5, ResumeIs DEF RootResumes, deskIdle, dataVars
  <2>2. Len(inbox') \in Nat \ {0} /\ inbox'[1].kind = "welcome"
    BY <1>5, ResumeIs DEF WelcomeFrame
  <2>3. \A i \in 1..Len(inbox') : inbox'[i].kind = "page" =>
           \E j \in 1..Len(log) : inbox'[i] = log[j]
    <3>1. \A i \in 2..Len(inbox') : \E j \in 1..Len(log) : inbox'[i] = log[j]
      BY <1>5, ResumeIs
    <3>2. \A i \in 1..Len(inbox') : i = 1 \/ i \in 2..Len(inbox')  BY <2>2
    <3> QED  BY <2>2, <3>1, <3>2
  <2>4. LinkAgrees(H)'
    BY <2>1, <2>3, <1>b DEF LinkAgrees, AsmAgrees
  <2>5. NoneNewer'
    <3>1. asm'.revision = 0 /\ revision \in Nat  BY <2>1, BoundsAre DEF TypeOK, EmptyAsm
    <3> QED  BY <2>1, <2>3, <3>1, <1>b DEF NoneNewer
  <2>6. LinkHistory'  BY <2>1, <2>4, <1>b DEF LinkHistory
  <2>7. RootHistory'
    BY <2>1, <2>4, <1>b DEF RootHistory
  <2> QED  BY <2>5, <2>6, <2>7 DEF HistInv
<1>6. CASE RootStartsOver
  <2>1. UNCHANGED <<sessionVars, dataVars, open, revision, graph, published>> /\ asm = EmptyAsm
        /\ log' = <<>> /\ Len(inbox') = 1 /\ inbox'[1].kind = "welcome"
    BY <1>6, StartOverIs DEF WelcomeFrame
  <2>2. UNCHANGED <<asm, inventory, tasks>> /\ Len(log') = 0
        /\ \A i \in 1..Len(inbox') : inbox'[i].kind # "page"
    BY <2>1 DEF dataVars
  <2>3. LinkAgrees(H)'
    BY <2>1, <2>2 DEF LinkAgrees, AsmAgrees
  <2>4. NoneNewer'
    <3>1. asm'.revision = 0 /\ revision \in Nat
      BY <2>1, <2>2, BoundsAre DEF TypeOK, EmptyAsm
    <3> QED  BY <2>1, <2>2, <3>1, BoundsAre DEF NoneNewer
  <2>5. LinkHistory'  BY <2>1, <2>3, <1>b DEF LinkHistory
  <2>6. RootHistory'
    BY <2>1, <2>2, <2>3, <1>b DEF RootHistory
  <2> QED  BY <2>4, <2>5, <2>6 DEF HistInv
<1>7. CASE RootRepeats
  <2>1. UNCHANGED <<asm, inventory, tasks, inbox, open, revision, graph, published, log>>
    BY <1>7 DEF RootRepeats, linkVars, deskIdle, dataVars
  <2> QED  BY <2>1, <1>a, <1>b, <1>c, <1>d DEF LinkAgrees, AsmAgrees, NoneNewer
<1>8. ASSUME NEW g \in Graphs, RootPublishes(g, PagesOf[g]) PROVE HistInv'
  <2>1. /\ UNCHANGED <<asm, inventory, tasks, inbox, open, log>> /\ revision' = revision + 1
        /\ graph' = g /\ published' = published \cup {g}
    BY <1>8 DEF RootPublishes, linkVars, deskIdle, dataVars
  <2>2. revision' \in Revisions /\ revision \in Nat /\ Revisions \subseteq Nat
    BY BoundsAre DEF TypeOK
  <2>3. PICK N : N = [H EXCEPT ![revision'] = g]  OBVIOUS
  <2>4. N \in [Revisions -> published'] /\ N[revision'] = g
        /\ \A r \in Revisions : r <= revision => N[r] = H[r]
    BY <2>1, <2>2, <2>3
  <2>5. ASSUME NEW f, PageAgrees(f, H), f.revision <= revision PROVE PageAgrees(f, N)
    BY <2>4, <2>5 DEF PageAgrees
  <2>6. ASSUME open PROVE LinkAgrees(N)'
    <3>1. AsmAgrees(N)'
      BY <1>b, <1>c, <2>1, <2>4, <2>6 DEF AsmAgrees, LinkAgrees, NoneNewer
    <3> QED  BY <1>b, <1>c, <2>1, <2>5, <2>6, <3>1 DEF LinkAgrees, NoneNewer
  <2>7. LinkHistory'
    <3>1. G \in [Revisions -> published']  BY <2>1
    <3>2. LinkAgrees(G)'  BY <1>a, <2>1 DEF LinkAgrees, AsmAgrees
    <3> QED  BY <3>1, <3>2 DEF LinkHistory
  <2>8. \A i \in 1..Len(log) : log[i].kind = "page" => log[i].revision <= revision' /\ PageAgrees(log[i], N)
    <3>1. SUFFICES ASSUME NEW i \in 1..Len(log), log[i].kind = "page"
                   PROVE  log[i].revision <= revision' /\ PageAgrees(log[i], N)
      OBVIOUS
    <3>2. log[i].revision <= revision /\ PageAgrees(log[i], H)  BY <3>1, <1>b
    <3>3. log[i].revision \in Nat  BY <2>2, <3>2 DEF PageAgrees
    <3> QED  BY <2>1, <2>2, <2>5, <3>2, <3>3
  <2>9. RootHistory'
    BY <2>1, <2>4, <2>6, <2>8 DEF RootHistory
  <2>10. NoneNewer'
    <3>1. SUFFICES ASSUME open
                   PROVE  /\ \A i \in 1..Len(inbox) : inbox[i].kind = "page" => inbox[i].revision <= revision'
                          /\ asm.revision <= revision'
      BY <2>1 DEF NoneNewer
    <3>2. asm.revision \in Nat  BY DEF TypeOK
    <3>3. \A i \in 1..Len(inbox) : inbox[i].kind = "page" => inbox[i].revision \in Nat
      BY FramesInbox, FrameIs DEF PageFrames
    <3> QED  BY <1>c, <2>1, <2>2, <3>1, <3>2, <3>3 DEF NoneNewer
  <2> QED  BY <2>7, <2>9, <2>10 DEF HistInv
<1>9. ASSUME NEW g \in Graphs, RootReboots(g, PagesOf[g]) PROVE HistInv'
  <2>1. /\ UNCHANGED <<asm, inventory, tasks, inbox>> /\ ~open' /\ Len(log') = 0 /\ revision' = 1
        /\ graph' = g /\ published' = published \cup {g}
    BY <1>9, RebootIs
  <2>2. LinkHistory'
    <3>1. G \in [Revisions -> published']  BY <2>1
    <3>2. LinkAgrees(G)'  BY <1>a, <2>1 DEF LinkAgrees, AsmAgrees
    <3> QED  BY <3>1, <3>2 DEF LinkHistory
  <2>3. PICK N \in [Revisions -> published'] : N = [r \in Revisions |-> g]  BY <2>1
  <2>4. RootHistory'
    <3>1. N[revision'] = graph'  BY <2>1, <2>3, BoundsAre
    <3> QED  BY <2>1, <3>1 DEF RootHistory
  <2> QED  BY <2>1, <2>2, <2>4 DEF HistInv, NoneNewer
<1>10. ASSUME NEW f \in DataFrames, Sends(f),
              f.kind = "page" => f.revision = revision /\ PageAgrees(f, H)
       PROVE HistInv'
  <2>1. UNCHANGED <<asm, inventory, tasks, open, revision, graph, published>> /\ open
    BY <1>10 DEF Sends, dataVars, Serving
  <2>2. /\ Len(inbox) \in Nat /\ Len(inbox') = Len(inbox) + 1
        /\ inbox'[Len(inbox) + 1] = f /\ \A i \in 1..Len(inbox) : inbox'[i] = inbox[i]
        /\ Len(log) \in Nat /\ Len(log') = Len(log) + 1
        /\ log'[Len(log) + 1] = f /\ \A i \in 1..Len(log) : log'[i] = log[i]
    BY <1>10, SendIs
  <2>3. (\A i \in 1..Len(inbox') : i \in 1..Len(inbox) \/ i = Len(inbox) + 1)
        /\ (\A i \in 1..Len(log') : i \in 1..Len(log) \/ i = Len(log) + 1)
    BY <2>2
  <2>4. LinkAgrees(H)'
    BY <1>b, <1>10, <2>1, <2>2, <2>3 DEF LinkAgrees, AsmAgrees
  <2>5. revision \in Nat  BY BoundsAre DEF TypeOK
  <2>6. NoneNewer'
    BY <1>c, <1>10, <2>1, <2>2, <2>3, <2>5 DEF NoneNewer
  <2>7. \A i \in 1..Len(log') : log'[i].kind = "page" => log'[i].revision <= revision /\ PageAgrees(log'[i], H)
    BY <1>b, <1>10, <2>2, <2>3, <2>5
  <2>8. LinkHistory' /\ RootHistory'
    BY <1>b, <2>1, <2>4, <2>7 DEF LinkHistory, RootHistory
  <2> QED  BY <2>6, <2>8 DEF HistInv
<1>11. ASSUME NEW i \in AllPages(pageCount), NEW fault, RootSendsPage(i, fault) PROVE HistInv'
  <2>1. PICK f : f = PageFrame(i, fault) /\ f \in DataFrames /\ f \in PageFrames
    BY PageFrameIs DEF DataFrames
  <2>2. Sends(f)
    BY <1>11, <2>1 DEF RootSendsPage, Sends, PageFrame, deskIdle
  <2>3. f.revision = revision /\ PageAgrees(f, H)
    <3>1. /\ f.revision = revision /\ f.count = pageCount /\ f.index \in {i, pageCount}
          /\ f.content \in {Forged, PageContent(graph, i, pageCount)}
          /\ f.index < f.count => f.index = i
      <4>1. pageCount \in Nat  BY BoundsAre DEF TypeOK
      <4> QED  BY <2>1, <4>1 DEF PageFrame
    <3>2. revision \in Revisions /\ H[revision] = graph /\ pageCount = PagesOf[graph]
      BY <1>b DEF TypeOK
    <3> QED  BY <3>1, <3>2 DEF PageAgrees
  <2> QED  BY <1>10, <2>1, <2>2, <2>3
<1>12. ASSUME NEW m \in Macs, RootSamples(m) PROVE HistInv'
  <2>1. seq["sensor"] + 1 \in Nat \ {0} /\ epoch \in Nat
    <3>1. seq \in [Classes -> Nat] /\ epoch \in Nat  BY DEF TypeOK
    <3> QED  BY <3>1 DEF Classes
  <2>2. PICK f : /\ f = [kind |-> "sample", class |-> "sensor", epoch |-> epoch,
                         seq |-> seq["sensor"] + 1, mac |-> m]
                 /\ Emit(f)
    BY <1>12 DEF RootSamples
  <2>3. f \in DataFrames /\ f.kind = "sample"
    BY <2>1, <2>2 DEF DataFrames, SampleFrames
  <2>4. Sends(f)
    BY <1>12, <2>2 DEF RootSamples, Sends, deskIdle
  <2> QED  BY <1>10, <2>3, <2>4
<1>13. CASE UNCHANGED vars
  BY <1>13, <1>a, <1>b, <1>c, <1>d
  DEF vars, dataVars, linkVars, rootVars, LinkAgrees, AsmAgrees, NoneNewer
<1> QED
  BY <1>1, <1>2, <1>3, <1>4, <1>5, <1>6, <1>7, <1>8, <1>9, <1>11, <1>12, <1>13
  DEF Next, WorkerNext, RootNext, Hangs, Takes, TakesPage

(* Every step keeps the inventory a published graph. *)
LEMMA PublishedKept ==
  ASSUME TypeOK, LinkInv, HistInv, InventoryIsPublished, [Next]_vars
  PROVE  InventoryIsPublished'
PROOF
<1>1. ASSUME UNCHANGED <<inventory, tasks>>, published \subseteq published'
      PROVE  InventoryIsPublished'
  BY <1>1 DEF InventoryIsPublished
<1>2. PICK G \in [Revisions -> published] : LinkAgrees(G)  BY DEF HistInv, LinkHistory
<1>3. CASE Connect \/ Hangs \/ HandleWelcome
  BY <1>3, <1>1, ConnectIs, HangupIs, WelcomeIs DEF rootVars
<1>4. CASE Takes
  <2>1. published' = published  BY <1>4, TakeIs DEF rootVars
  <2>2. CASE GraphAdopted
    <3>1. \E g \in published : inventory' = Routes(g) /\ tasks' = Online(g)
      BY <1>2, <2>2, PageKeepsAsm DEF TakesPage
    <3> QED  BY <2>1, <3>1 DEF InventoryIsPublished
  <2>3. CASE ~GraphAdopted
    <3>1. UNCHANGED <<inventory, tasks>>
      BY <1>4, <2>3 DEF Takes, TakesPage, SkipConsumed, PageStored, SampleEmitted,
         SampleUnknown, dataVars
    <3> QED  BY <2>1, <3>1, <1>1
  <2> QED  BY <2>2, <2>3
<1>5. ASSUME NEW again \in {0, 1}, RootResumes(again) PROVE InventoryIsPublished'
  BY <1>5, <1>1 DEF RootResumes, deskIdle, dataVars
<1>6. CASE RootStartsOver
  BY <1>6, <1>1 DEF RootStartsOver, deskIdle, dataVars
<1>7. CASE Idles
  BY <1>7, <1>1 DEF Idles, RootRepeats, RootPublishes, deskIdle, dataVars
<1>8. ASSUME NEW g \in Graphs, RootReboots(g, PagesOf[g]) PROVE InventoryIsPublished'
  BY <1>8, <1>1 DEF RootReboots, deskIdle, dataVars
<1>9. ASSUME NEW f \in DataFrames, Sends(f) PROVE InventoryIsPublished'
  BY <1>9, <1>1 DEF Sends, dataVars
<1>10. CASE UNCHANGED vars
  BY <1>10, <1>1 DEF vars, dataVars, rootVars
<1> QED
  BY <1>3, <1>4, <1>5, <1>6, <1>7, <1>8, <1>9, <1>10, Kinds

-----------------------------------------------------------------------------
(* Page p of the revision served is on the wire, or a page that makes the  *)
(* worker refuse the graph and reconnect.                                  *)
Underway(p) ==
  \E i \in 1..Len(inbox) :
    /\ inbox[i].kind = "page" /\ inbox[i].revision = revision
    /\ inbox[i].index = p \/ Malformed(inbox[i])

(* Page p of the revision served is in its slot. *)
Stored(p) == asm.revision = revision /\ p \in DOMAIN asm.pages /\ asm.pages[p] # Missing

(* The revision served was adopted. *)
Adopted == asm.revision = revision /\ asm.pages = NoPages

(* The pages on the wire are ones the cursor will not skip, none is older  *)
(* than the slots, and their revisions do not go back.                     *)
NewPages ==
  /\ \A i \in 1..Len(inbox) : inbox[i].kind = "page" =>
       inbox[i].seq > LinkCursor("graph") /\ asm.revision <= inbox[i].revision
  /\ \A i, j \in 1..Len(inbox) :
       i < j /\ inbox[i].kind = "page" /\ inbox[j].kind = "page"
         => inbox[i].revision <= inbox[j].revision

(* A page that the root need not send again is on the wire, in its slot,   *)
(* or part of the adopted graph.                                           *)
NoneLost == \A p \in AllPages(pageCount) \ toSend : Adopted \/ Underway(p) \/ Stored(p)

(* This is so of a root that follows every resume by a snapshot.  One      *)
(* that resends from its log may resend pages of a revision the worker     *)
(* has left behind, and the slots then go back to it.                      *)
FreshInv == root.snapshot /\ Serving => NewPages /\ NoneLost

(* Taking a frame loses no page. *)
LEMMA TakesFresh ==
  ASSUME TypeOK, LinkInv, OrderInv, HistInv, NewPages, NoneLost, Serving, Takes
  PROVE  NewPages' /\ NoneLost'
PROOF
<1>1. /\ Len(inbox) > 0 /\ Len(inbox) \in Nat /\ inbox[1] \in DataFrames /\ Head(inbox) = inbox[1]
      /\ Len(inbox') \in Nat /\ Len(inbox') = Len(inbox) - 1
      /\ \A i \in 1..Len(inbox') : i + 1 \in 1..Len(inbox) /\ inbox'[i] = inbox[i + 1]
                                      /\ inbox[i + 1] \in DataFrames
      /\ 1 \in 1..Len(inbox) /\ UNCHANGED <<revision, pageCount, toSend>>
  BY TakeIs, FramesInbox DEF rootVars
<1>2. \A k : LinkCursor(k) = cursor[k] /\ LinkCursor(k)' = cursor'[k]
  BY TakeLeaves
<1>3. \A i \in 1..Len(inbox) : inbox[i].kind = "page" =>
        /\ inbox[i].class = "graph" /\ inbox[i].seq \in Nat /\ inbox[i].revision \in Nat
        /\ inbox[i].index \in Nat /\ inbox[i].count \in Nat
  BY FramesInbox, FrameIs DEF PageFrames
<1>4. PICK G \in [Revisions -> published] : LinkAgrees(G)
  BY DEF HistInv, LinkHistory
<1>5. cursor \in [Classes -> Nat] /\ inbox[1].class \in Classes /\ inbox[1].seq \in Nat
      /\ inbox[1].kind # "welcome" /\ asm.revision \in Nat /\ revision \in Nat
  BY <1>1, DataIs, BoundsAre DEF TypeOK
<1>6. CASE ~TakesPage
  <2>1. inbox[1].kind # "page"
    <3>1. CASE SkipConsumed
      <4>1. inbox[1].seq <= cursor[inbox[1].class]
        BY <1>1, <3>1 DEF SkipConsumed, Consumed
      <4>2. inbox[1].kind = "page" => inbox[1].seq > cursor["graph"] /\ inbox[1].class = "graph"
        BY <1>1, <1>2, <1>3 DEF NewPages
      <4> QED  BY <1>5, <4>1, <4>2 DEF Classes
    <3>2. CASE SampleEmitted \/ SampleUnknown
      BY <1>1, <3>2 DEF SampleEmitted, SampleUnknown, Incoming
    <3> QED  BY <1>6, <3>1, <3>2 DEF Takes
  <2>2. inbox[1].class = "sensor"
    BY <1>1, <2>1 DEF DataFrames, PageFrames, SampleFrames
  <2>3. asm' = asm
    BY <1>6 DEF Takes, SkipConsumed, SampleEmitted, SampleUnknown, dataVars
  <2>4. cursor'["graph"] = cursor["graph"]
    BY <1>5, <2>2, TakeCursor DEF Classes
  <2>5. NewPages'
    <3>1. ASSUME NEW i \in 1..Len(inbox'), inbox'[i].kind = "page"
          PROVE  /\ inbox'[i].seq > LinkCursor("graph")'
                 /\ asm'.revision <= inbox'[i].revision
      BY <1>1, <1>2, <2>3, <2>4, <3>1 DEF NewPages
    <3>2. ASSUME NEW i \in 1..Len(inbox'), NEW j \in 1..Len(inbox'), i < j,
                 inbox'[i].kind = "page", inbox'[j].kind = "page"
          PROVE  inbox'[i].revision <= inbox'[j].revision
      <4>1. i + 1 < j + 1 /\ i + 1 \in 1..Len(inbox) /\ j + 1 \in 1..Len(inbox)
        BY <1>1, <3>2
      <4> QED  BY <1>1, <3>2, <4>1 DEF NewPages
    <3> QED  BY <3>1, <3>2 DEF NewPages
  <2>6. ASSUME NEW p, Underway(p) PROVE Underway(p)'
    <3>1. PICK i \in 1..Len(inbox) :
            /\ inbox[i].kind = "page" /\ inbox[i].revision = revision
            /\ inbox[i].index = p \/ Malformed(inbox[i])
      BY <2>6 DEF Underway
    <3>2. i - 1 \in 1..Len(inbox') /\ (i - 1) + 1 = i  BY <1>1, <2>1, <3>1
    <3>3. inbox'[i - 1] = inbox[i]  BY <1>1, <3>2
    <3> QED  BY <1>1, <3>1, <3>2, <3>3 DEF Underway
  <2>7. NoneLost'
    BY <1>1, <2>3, <2>6 DEF NoneLost, Adopted, Stored
  <2> QED  BY <2>5, <2>7
<1>7. CASE TakesPage
  <2>1. PICK f : f = inbox[1]  OBVIOUS
  <2>2. /\ asm'.revision = f.revision /\ f.kind = "page" /\ f \in PageFrames /\ PageAgrees(f, G)
        /\ asm'.pages = NoPages \/ asm'.pages = Filled(f)
        /\ ~Malformed(f) /\ f.index \in DOMAIN Fitted(f).pages
    BY <1>4, <1>7, <2>1, PageKeepsAsm
  <2>3. /\ asm.revision <= f.revision /\ f.revision <= revision /\ f.revision \in Nat /\ f.class = "graph"
        /\ f.seq > cursor["graph"]
    BY <1>1, <1>2, <1>3, <2>1, <2>2 DEF NewPages, HistInv, NoneNewer, Serving
  <2>4. asm.revision = f.revision => Fitted(f) = asm
    BY <1>4, <2>2, FittedAgrees DEF LinkAgrees
  <2>5. /\ DOMAIN Filled(f) = DOMAIN Fitted(f).pages /\ Filled(f)[f.index] = f.content
        /\ \A i \in DOMAIN Filled(f) : i # f.index => Filled(f)[i] = Fitted(f).pages[i]
    BY <2>2, FilledIs
  <2>6. f.content # Missing
    <3>1. f.index < f.count  BY <2>2 DEF Malformed, PageFrames
    <3>2. f.content \in {Forged, PageContent(G[f.revision], f.index, f.count)} /\ f.revision \in Revisions
      BY <2>2, <3>1 DEF PageAgrees
    <3> QED  BY <3>2, GraphsOf, ContentIsNot
  <2>7. NewPages'
    <3>1. cursor'["graph"] = cursor["graph"] \/ cursor'["graph"] = f.seq
      BY <1>5, <2>1, <2>3, TakeCursor DEF Classes
    <3>2. ASSUME NEW i \in 1..Len(inbox'), inbox'[i].kind = "page"
          PROVE  inbox'[i].seq > cursor'["graph"] /\ asm'.revision <= inbox'[i].revision
      <4>1. /\ i + 1 \in 1..Len(inbox) /\ inbox'[i] = inbox[i + 1] /\ 1 < i + 1
            /\ inbox[i + 1].kind = "page"
        BY <1>1, <3>2
      <4>2. f.revision <= inbox[i + 1].revision /\ inbox[i + 1].seq > cursor["graph"]
        BY <1>1, <1>2, <2>1, <2>2, <4>1 DEF NewPages
      <4>3. f.seq < inbox[i + 1].seq
        BY <1>1, <1>3, <1>5, <2>1, <2>2, <4>1 DEF OrderInv
      <4>4. inbox[i + 1].seq \in Nat /\ f.seq \in Nat  BY <1>3, <1>5, <2>1, <4>1
      <4> QED  BY <2>2, <3>1, <4>1, <4>2, <4>3, <4>4
    <3>3. ASSUME NEW i \in 1..Len(inbox'), NEW j \in 1..Len(inbox'), i < j,
                 inbox'[i].kind = "page", inbox'[j].kind = "page"
          PROVE  inbox'[i].revision <= inbox'[j].revision
      <4>1. i + 1 < j + 1  BY <1>1, <3>3
      <4> QED  BY <1>1, <3>3, <4>1 DEF NewPages
    <3> QED  BY <1>2, <3>2, <3>3 DEF NewPages
  <2>8. ASSUME NEW p \in AllPages(pageCount) \ toSend PROVE (Adopted \/ Underway(p) \/ Stored(p))'
    <3>1. CASE Adopted
      <4>1. asm.revision = f.revision  BY <1>5, <2>3, <3>1 DEF Adopted
      <4> QED  BY <2>2, <2>4, <3>1, <4>1, NoPagesIs DEF Adopted
    <3>2. CASE Underway(p)
      <4>1. PICK i \in 1..Len(inbox) :
            /\ inbox[i].kind = "page" /\ inbox[i].revision = revision
            /\ inbox[i].index = p \/ Malformed(inbox[i])
        BY <3>2 DEF Underway
      <4>2. CASE i # 1
        <5>1. i - 1 \in 1..Len(inbox') /\ (i - 1) + 1 = i  BY <1>1, <4>1, <4>2
        <5>2. inbox'[i - 1] = inbox[i]  BY <1>1, <5>1
        <5> QED  BY <1>1, <4>1, <5>1, <5>2 DEF Underway
      <4>3. CASE i = 1
        <5>1. f.revision = revision /\ f.index = p  BY <2>1, <2>2, <4>1, <4>3
        <5> QED  BY <1>1, <2>2, <2>5, <2>6, <5>1 DEF Adopted, Stored
      <4> QED  BY <4>2, <4>3
    <3>3. CASE Stored(p)
      <4>1. asm.revision = f.revision /\ f.revision = revision  BY <1>5, <2>3, <3>3 DEF Stored
      <4>2. Fitted(f).pages = asm.pages  BY <2>4, <4>1
      <4>3. p \in DOMAIN Filled(f) /\ Filled(f)[p] # Missing
        BY <2>5, <2>6, <3>3, <4>2 DEF Stored
      <4> QED  BY <1>1, <2>2, <4>1, <4>3 DEF Adopted, Stored
    <3> QED  BY <3>1, <3>2, <3>3 DEF NoneLost
  <2> QED  BY <1>1, <2>7, <2>8 DEF NoneLost
<1> QED
  BY <1>6, <1>7

(* No step loses a page. *)
LEMMA FreshKept ==
  ASSUME TypeOK, LinkInv, OrderInv, HistInv, FreshInv, [Next]_vars
  PROVE  FreshInv'
PROOF
<1>1. CASE Connect \/ Hangs
  BY <1>1, ConnectIs, HangupIs DEF FreshInv
<1>2. CASE HandleWelcome
  <2>1. /\ UNCHANGED <<asm, rootVars, open, hello>> /\ Len(inbox) > 0 /\ inbox[1].kind = "welcome"
        /\ Len(inbox') \in Nat /\ Len(inbox') = Len(inbox) - 1
        /\ \A i \in 1..Len(inbox') : i + 1 \in 1..Len(inbox) /\ inbox'[i] = inbox[i + 1]
        /\ LinkCursor("graph")' = LinkCursor("graph")
    BY <1>2, WelcomeIs, WelcomeLeaves DEF WelcomeFrames, Classes
  <2>2. SUFFICES ASSUME root.snapshot /\ Serving PROVE NewPages' /\ NoneLost'
    BY <2>1 DEF FreshInv, Serving, rootVars
  <2>3. NewPages /\ NoneLost  BY <2>2 DEF FreshInv
  <2>4. NewPages'
    <3>1. \A i \in 1..Len(inbox') : inbox'[i].kind = "page" =>
            inbox'[i].seq > LinkCursor("graph") /\ asm.revision <= inbox'[i].revision
      BY <2>1, <2>3 DEF NewPages
    <3>2. ASSUME NEW i \in 1..Len(inbox'), NEW j \in 1..Len(inbox'), i < j,
                 inbox'[i].kind = "page", inbox'[j].kind = "page"
          PROVE  inbox'[i].revision <= inbox'[j].revision
      <4>1. i + 1 < j + 1  BY <2>1, <3>2
      <4> QED  BY <2>1, <2>3, <3>2, <4>1 DEF NewPages
    <3> QED  BY <2>1, <3>1, <3>2 DEF NewPages
  <2>5. ASSUME NEW p, Underway(p) PROVE Underway(p)'
    <3>1. PICK i \in 1..Len(inbox) :
            /\ inbox[i].kind = "page" /\ inbox[i].revision = revision
            /\ inbox[i].index = p \/ Malformed(inbox[i])
      BY <2>5 DEF Underway
    <3>2. i - 1 \in 1..Len(inbox') /\ (i - 1) + 1 = i  BY <2>1, <3>1
    <3>3. inbox'[i - 1] = inbox[i]  BY <2>1, <3>2
    <3> QED  BY <2>1, <3>1, <3>2, <3>3 DEF Underway, rootVars
  <2>6. NoneLost'
    BY <2>1, <2>3, <2>5 DEF NoneLost, Adopted, Stored, rootVars
  <2> QED  BY <2>4, <2>6
<1>3. CASE Takes
  <2>1. UNCHANGED <<root, open, hello>>  BY <1>3, TakeIs DEF rootVars
  <2> QED  BY <1>3, <2>1, TakesFresh DEF FreshInv, Serving
<1>4. ASSUME NEW again \in {0, 1}, RootResumes(again) PROVE FreshInv'
  <2>1. SUFFICES ASSUME root.snapshot PROVE NewPages' /\ NoneLost'
    BY <1>4 DEF FreshInv, RootResumes
  <2>2. toSend' = AllPages(pageCount) /\ UNCHANGED pageCount
    BY <1>4, <2>1 DEF RootResumes
  <2>3. Len(inbox') \in Nat \ {0} /\ inbox'[1].kind = "welcome"
        /\ \A i \in 2..Len(inbox') : \E l \in 1..Len(log) : inbox'[i] = log[l] /\ log[l].class = "sensor"
    BY <1>4, <2>1, ResumeIs DEF WelcomeFrame
  <2>4. ASSUME NEW i \in 1..Len(inbox') PROVE inbox'[i].kind # "page"
    <3>1. CASE i = 1  BY <2>3, <3>1
    <3>2. CASE i \in 2..Len(inbox')
      <4>1. PICK l \in 1..Len(log) : inbox'[i] = log[l] /\ log[l].class = "sensor"  BY <2>3, <3>2
      <4>2. log[l] \in DataFrames  BY FramesInbox
      <4> QED  BY <4>1, <4>2 DEF DataFrames, PageFrames, SampleFrames
    <3> QED  BY <2>3, <3>1, <3>2
  <2> QED  BY <2>2, <2>4 DEF NewPages, NoneLost
<1>5. CASE RootStartsOver
  <2>1. /\ toSend' = AllPages(pageCount) /\ pageCount' = pageCount
        /\ Len(inbox') = 1 /\ inbox'[1].kind = "welcome"
    BY <1>5, StartOverIs DEF WelcomeFrame
  <2>2. \A i \in 1..Len(inbox') : inbox'[i].kind # "page"  BY <2>1
  <2> QED  BY <2>1, <2>2 DEF FreshInv, NewPages, NoneLost
<1>6. CASE Idles
  <2>1. /\ UNCHANGED <<inbox, asm, root>> /\ Serving' = Serving
        /\ \A k : LinkCursor(k)' = LinkCursor(k)
    BY <1>6, IdleIs
  <2>2. toSend' = AllPages(pageCount')
    BY <1>6 DEF Idles, RootRepeats, RootPublishes
  <2> QED
    BY <2>1, <2>2 DEF FreshInv, NewPages, NoneLost
<1>7. ASSUME NEW g \in Graphs, RootReboots(g, PagesOf[g]) PROVE FreshInv'
  BY <1>7, RebootIs DEF FreshInv
<1>8. ASSUME NEW f \in DataFrames, Sends(f),
             f.kind = "page" => /\ f.revision = revision /\ f \in PageFrames
                                /\ f.index \in toSend \ toSend' \/ Malformed(f),
             f.kind = "page" => \A p \in toSend \ toSend' : f.index = p \/ Malformed(f),
             f.kind # "page" => toSend' = toSend
      PROVE  FreshInv'
  <2>1. UNCHANGED <<asm, root, revision, pageCount>> /\ Serving' = Serving
        /\ LinkCursor("graph")' = LinkCursor("graph") /\ LinkEpoch = epoch
    BY <1>8, SendIs DEF Sends, dataVars
  <2>2. /\ Len(inbox) \in Nat /\ Len(inbox') = Len(inbox) + 1
        /\ inbox'[Len(inbox) + 1] = f /\ \A i \in 1..Len(inbox) : inbox'[i] = inbox[i]
        /\ f.seq = seq[f.class] + 1
    BY <1>8, SendIs
  <2>3. SUFFICES ASSUME root.snapshot /\ Serving PROVE NewPages' /\ NoneLost'
    BY <2>1 DEF FreshInv
  <2>4. NewPages /\ NoneLost  BY <2>3 DEF FreshInv
  <2>5. \A i \in 1..Len(inbox') : i \in 1..Len(inbox) \/ i = Len(inbox) + 1
    BY <2>2
  <2>6. asm.revision <= revision
        /\ \A i \in 1..Len(inbox) : inbox[i].kind = "page" => inbox[i].revision <= revision
    BY <2>3 DEF HistInv, NoneNewer, Serving
  <2>7. seq["graph"] >= LinkCursor("graph") /\ seq["graph"] \in Nat /\ LinkCursor("graph") \in Nat
    <3>1. seq["graph"] \in Nat /\ cursor["graph"] \in Nat  BY DEF TypeOK, Classes
    <3>2. LinkCursor("graph") = 0 \/ LinkCursor("graph") = cursor["graph"]  BY DEF LinkCursor
    <3>3. LinkCursor("graph") = cursor["graph"] => cursor["graph"] <= seq["graph"]
      <4>1. CASE Pending /\ ~inbox[1].resume
        BY <3>1, <4>1 DEF LinkCursor
      <4>2. CASE Pending /\ inbox[1].resume
        <5>1. 1 \in 1..Len(inbox) /\ inbox[1].kind = "welcome"  BY <4>2, FramesInbox DEF Pending
        <5>2. numbering = epoch
          BY <4>2, <5>1, <2>1 DEF LinkInv, LinkEpoch
        <5> QED  BY <5>2 DEF OrderInv, Classes
      <4>3. CASE ~Pending
        BY <2>1, <4>3 DEF LinkEpoch, OrderInv, Classes
      <4> QED  BY <4>1, <4>2, <4>3
    <3> QED  BY <3>1, <3>2, <3>3
  <2>8. f.kind = "page" => f.class = "graph" /\ f.seq > LinkCursor("graph")
    BY <1>8, <2>2, <2>7 DEF PageFrames
  <2>9. NewPages'
    <3>1. ASSUME NEW i \in 1..Len(inbox'), inbox'[i].kind = "page"
          PROVE  inbox'[i].seq > LinkCursor("graph") /\ asm.revision <= inbox'[i].revision
      <4>1. CASE i \in 1..Len(inbox)  BY <2>2, <2>4, <3>1, <4>1 DEF NewPages
      <4>2. CASE i = Len(inbox) + 1  BY <1>8, <2>2, <2>6, <2>8, <3>1, <4>2
      <4> QED  BY <2>5, <4>1, <4>2
    <3>2. ASSUME NEW i \in 1..Len(inbox'), NEW j \in 1..Len(inbox'), i < j,
                 inbox'[i].kind = "page", inbox'[j].kind = "page"
          PROVE  inbox'[i].revision <= inbox'[j].revision
      <4>0. i \in 1..Len(inbox)  BY <2>2, <3>2
      <4>1. CASE j \in 1..Len(inbox)  BY <2>2, <2>4, <3>2, <4>0, <4>1 DEF NewPages
      <4>2. CASE j = Len(inbox) + 1  BY <1>8, <2>2, <2>6, <3>2, <4>0, <4>2
      <4> QED  BY <2>5, <4>1, <4>2
    <3> QED  BY <2>1, <3>1, <3>2 DEF NewPages
  <2>10. ASSUME NEW p, Underway(p) PROVE Underway(p)'
    <3>1. PICK i \in 1..Len(inbox) :
            /\ inbox[i].kind = "page" /\ inbox[i].revision = revision
            /\ inbox[i].index = p \/ Malformed(inbox[i])
      BY <2>10 DEF Underway
    <3>2. i \in 1..Len(inbox') /\ inbox'[i] = inbox[i]  BY <2>2
    <3> QED  BY <2>1, <3>1, <3>2 DEF Underway
  <2>11. ASSUME NEW p \in toSend \ toSend' PROVE Underway(p)'
    <3>1. f.kind = "page" /\ f.revision = revision /\ (f.index = p \/ Malformed(f))
      BY <1>8, <2>11
    <3>2. Len(inbox) + 1 \in 1..Len(inbox')  BY <2>2
    <3> QED  BY <2>1, <2>2, <3>1, <3>2 DEF Underway
  <2>12. NoneLost'
    BY <2>1, <2>4, <2>10, <2>11 DEF NoneLost, Adopted, Stored
  <2> QED  BY <2>9, <2>12
<1>9. ASSUME NEW i \in AllPages(pageCount), NEW fault, RootSendsPage(i, fault) PROVE FreshInv'
  <2>1. PICK f : f = PageFrame(i, fault) /\ f \in DataFrames /\ f \in PageFrames
    BY PageFrameIs DEF DataFrames
  <2>2. Sends(f) /\ i \in toSend /\ toSend' = toSend \ {i}
    BY <1>9, <2>1 DEF RootSendsPage, Sends, PageFrame, deskIdle
  <2>3. f.revision = revision /\ (f.index = i \/ Malformed(f)) /\ f.kind = "page"
    <3>1. pageCount \in Nat  BY BoundsAre DEF TypeOK
    <3> QED  BY <2>1, <3>1 DEF PageFrame, Malformed
  <2>4. toSend \ toSend' = {i}  BY <2>2
  <2> QED  BY <1>8, <2>1, <2>2, <2>3, <2>4
<1>10. ASSUME NEW m \in Macs, RootSamples(m) PROVE FreshInv'
  <2>1. seq["sensor"] + 1 \in Nat \ {0} /\ epoch \in Nat  BY DEF TypeOK, Classes
  <2>2. PICK f : /\ f = [kind |-> "sample", class |-> "sensor", epoch |-> epoch,
                         seq |-> seq["sensor"] + 1, mac |-> m]
                 /\ Emit(f)
    BY <1>10 DEF RootSamples
  <2>3. f \in DataFrames /\ f.kind = "sample"
    BY <2>1, <2>2 DEF DataFrames, SampleFrames
  <2>4. Sends(f) /\ toSend' = toSend
    BY <1>10, <2>2 DEF RootSamples, Sends, deskIdle
  <2> QED  BY <1>8, <2>3, <2>4
<1>11. CASE UNCHANGED vars
  BY <1>11 DEF vars, dataVars, linkVars, rootVars, deskHistory, FreshInv, NewPages,
     NoneLost, Serving,
               LinkCursor, Pending, Underway, Adopted, Stored
<1> QED
  BY <1>1, <1>2, <1>3, <1>4, <1>5, <1>6, <1>7, <1>9, <1>10, <1>11
  DEF Next, WorkerNext, RootNext, Hangs, Takes, TakesPage, Idles

-----------------------------------------------------------------------------
(* The inductive invariant. *)
Inv == /\ TypeOK /\ LinkInv /\ OrderInv /\ CursorInv /\ EmittedInv /\ HistInv /\ FreshInv
       /\ InventoryIsPublished

(* The first state satisfies it. *)
LEMMA InitInv == Init => Inv
PROOF
<1> SUFFICES ASSUME Init PROVE Inv  OBVIOUS
<1>1. TypeOK  BY InitType
<1>2. Len(inbox) = 0 /\ Len(log) = 0 /\ Len(emitted) = 0 /\ ~open /\ ~Pending /\ asm = EmptyAsm
  BY DEF Init, Pending
<1>3. LinkInv /\ OrderInv /\ CursorInv /\ EmittedInv
  BY <1>2 DEF Init, LinkInv, OrderInv, CursorInv, EmittedInv, Serving, LinkEpoch
<1>4. HistInv
  <2>1. PICK G \in [Revisions -> published] : G = [r \in Revisions |-> graph]
    BY DEF Init
  <2>2. LinkAgrees(G) /\ G[revision] = graph
    BY <1>2, <2>1, BoundsAre DEF Init, LinkAgrees, AsmAgrees
  <2> QED  BY <1>2, <2>1, <2>2 DEF HistInv, LinkHistory, RootHistory, NoneNewer
<1>5. FreshInv  BY <1>2 DEF FreshInv, Serving
<1>6. InventoryIsPublished  BY DEF Init, InventoryIsPublished
<1> QED  BY <1>1, <1>3, <1>4, <1>5, <1>6 DEF Inv

(* Every step keeps the types. *)
LEMMA TypeKept == ASSUME TypeOK, [Next]_vars PROVE TypeOK'
PROOF
<1>1. CASE UNCHANGED vars
  BY <1>1 DEF vars, sessionVars, dataVars, linkVars, rootVars, deskHistory, TypeOK
<1> QED  BY <1>1, WorkerKeepsType, RootKeepsType DEF Next

(* The inductive invariant of the fabric data plane holds, however many    *)
(* reconnects, reboots and frames the bounds allow.                        *)
THEOREM FabricInvariant == Spec => []Inv
PROOF
<1>1. Inv /\ [Next]_vars => Inv'
  BY TypeKept, LinkKept, OrderKept, CursorKept, EmittedKept, HistoryKept, FreshKept,
     PublishedKept DEF Inv
<1> QED  BY <1>1, InitInv, PTL DEF Spec

(* The inventory and the sensor tasks are always those of one graph that   *)
(* the root published, whole: pages of two revisions or of two boots are   *)
(* never mixed, and a spoilt page is never adopted (apply_graph_page,      *)
(* update_fabric_inventory).                                               *)
THEOREM InventoryPublished == Spec => []InventoryIsPublished
PROOF
<1>1. Inv => InventoryIsPublished  BY DEF Inv
<1> QED  BY <1>1, FabricInvariant, PTL

(* A frame the cursor skips was dealt with before, a cursor stands at a    *)
(* frame that was, and no sample is handed on twice, across reconnects,    *)
(* resumes and new numberings (fabric_frame_consumed, record_cursor).      *)
THEOREM CursorsExact == Spec => []CursorsAreExact
PROOF
<1>1. ASSUME Inv PROVE CursorsAreExact
  <2>1. TypeOK /\ CursorInv /\ EmittedInv /\ LinkInv  BY <1>1 DEF Inv
  <2>2. ASSUME NEW i \in 1..Len(inbox), \A j \in 1..i : inbox[j].kind # "welcome",
               inbox[i].kind # "welcome", Consumed(inbox[i])
        PROVE  FrameId(inbox[i]) \in processed \cup unrouted
    <3>1. 1 \in 1..i  BY <2>1, FramesInbox
    <3>2. ~Pending  BY <2>2, <3>1 DEF Pending
    <3>3. LinkCursor(inbox[i].class) = cursor[inbox[i].class]  BY <3>2 DEF LinkCursor
    <3> QED  BY <2>1, <2>2, <3>3 DEF CursorInv, Consumed
  <2> QED  BY <2>1, <2>2 DEF CursorsAreExact, EmittedInv
<1> QED  BY <1>1, FabricInvariant, PTL

(* With a root that follows each resume by a snapshot, the worker shows    *)
(* the graph being served whenever the root has sent it all and nothing    *)
(* is left on the wire: no page was lost or skipped.                       *)
THEOREM QuietCurrent == Spec => []QuietMeansCurrent
PROOF
<1>1. ASSUME Inv PROVE QuietMeansCurrent
  <2>1. TypeOK /\ HistInv /\ FreshInv /\ LinkInv  BY <1>1 DEF Inv
  <2>2. SUFFICES ASSUME root.snapshot, Serving, inbox = <<>>, toSend = {}
                 PROVE  inventory = Routes(graph) /\ tasks = Online(graph)
    BY DEF QuietMeansCurrent
  <2>3. PICK H \in [Revisions -> published] : H[revision] = graph /\ LinkAgrees(H)
    BY <2>1, <2>2 DEF HistInv, RootHistory, Serving
  <2>4. pageCount \in Nat \ {0} /\ revision # 0 /\ pageCount = PagesOf[graph]
    BY <2>1, BoundsAre DEF TypeOK
  <2>5. \A p \in AllPages(pageCount) : Adopted \/ Stored(p)
    BY <2>1, <2>2 DEF FreshInv, NoneLost, Underway
  <2>6. 0 \in AllPages(pageCount)  BY <2>4 DEF AllPages
  <2>7. asm.revision = revision /\ asm # EmptyAsm
    BY <2>4, <2>5, <2>6 DEF Adopted, Stored, EmptyAsm
  <2>8. CASE asm.pages = NoPages
    BY <2>3, <2>7, <2>8 DEF LinkAgrees, AsmAgrees
  <2>9. CASE asm.pages # NoPages
    <3>1. SlotsAgree(asm.pages, graph, pageCount) /\ ~Complete(asm.pages)
      BY <2>3, <2>4, <2>7, <2>9 DEF LinkAgrees, AsmAgrees
    <3>2. \A p \in AllPages(pageCount) : asm.pages[p] # Missing
      BY <2>5, <2>9 DEF Adopted, Stored
    <3> QED  BY <3>1, <3>2 DEF SlotsAgree, Complete
  <2> QED  BY <2>8, <2>9
<1> QED  BY <1>1, FabricInvariant, PTL
=============================================================================

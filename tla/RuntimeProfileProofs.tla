------------------------- MODULE RuntimeProfileProofs -------------------------
(***************************************************************************)
(* Nothing is applied to a profile its sender had not seen, and the window *)
(* is told the truth, for any profiles and any number of actions, changes  *)
(* of the master GPU, failed saves and stops: theorems about               *)
(* RuntimeProfile.                                                         *)
(***************************************************************************)
EXTENDS RuntimeProfile, SequenceTheorems, TLAPS

(* What the window asks for.                                               *)
Ids == 1..MaxActions

USE ProfileAssumption DEF Ids

(* Actions as the window numbers them.                                     *)
Action ==
  [id : Ids, kind : {"layout"}, value : Layouts]
    \cup [id : Ids, kind : {"taste"}, value : Tastes]
    \cup [id : Ids, kind : {"module"}, value : BOOLEAN]
    \cup [id : Ids, kind : {"workspace"}, value : Workspaces]
    \cup [id : Ids, kind : {"undo"}, value : {"last"}]

(* What is on the way between the window and the controller.               *)
ApplyRequest == [kind : {"apply"}, action : Action, expected : Nat, seen : Profile]
Request == [kind : {"load", "bootstrap"}] \cup ApplyRequest
Snapshot == [kind : {"load", "bootstrap", "applied"}, profile : Profile]
Reply == [kind : {"refused"}] \cup Snapshot
Setting == [busy : {TRUE}, master : Masters, previous : Masters] \cup {Idle}

ProcessTypes ==
  /\ up \in BOOLEAN /\ blind \in BOOLEAN
  /\ profile \in Profile /\ undo \in Seq(Profile)
  /\ store \in Profile /\ disk \in Profile
  /\ setting \in Setting /\ registry \in Masters
  /\ failures \in Nat

WindowTypes ==
  /\ requests \subseteq Request /\ replies \subseteq Reply
  /\ events \in Seq(Profile) /\ canonical \in Profile
  /\ pending \in Seq(Action) /\ awaits \in {"nothing", "apply", "bootstrap"}
  /\ told \in [Ids -> {"nothing", "applied", "refused"}]
  /\ applied \subseteq Ids /\ made \in 0..MaxActions

(* A snapshot is of an earlier revision, or it is the profile.             *)
Of(x, p) == x.revision <= p.revision /\ (x.revision = p.revision => x = p)

(* All snapshots under way are.  The one of revision 0 is the default, with *)
(* which the window starts.                                                *)
SnapshotInv ==
  /\ Of(canonical, profile)
  /\ \A r \in requests : r.kind = "apply" => Of(r.seen, profile) /\ r.expected = r.seen.revision
  /\ \A r \in replies : r.kind # "refused" => Of(r.profile, profile)
  /\ \A i \in DOMAIN events : Of(events[i], profile)
  /\ \A x \in {profile, store, disk} : x.revision = 0 => x = Default
  /\ ~blind

(* The store and the disk have the profile, or what was refused after it.  *)
DiskInv ==
  up => \A x \in {store, disk} :
          x = profile \/ (failures > 0 /\ x.revision = profile.revision + 1)

(* Actions wait in the order of their numbers; only the head was answered. *)
PendingInv ==
  /\ \A i \in DOMAIN pending : pending[i].id <= made
  /\ \A i, j \in DOMAIN pending : i < j => pending[i].id < pending[j].id
  /\ \A i \in DOMAIN pending :
       i > 1 => pending[i].id \notin applied /\ told[pending[i].id] = "nothing"
  /\ \A n \in Ids : n > made => n \notin applied /\ told[n] = "nothing"

(* The window and the controller speak of one action at a time, the head.  *)
TalkInv ==
  /\ awaits = "nothing" <=> pending = <<>>
  /\ awaits = "apply" => told[pending[1].id] = "nothing"
  /\ awaits = "bootstrap" => told[pending[1].id] = "refused"
  /\ \A r \in requests :
       /\ r.kind = "apply" => /\ awaits = "apply" /\ r.action = pending[1]
                              /\ pending[1].id \notin applied
       /\ r.kind = "bootstrap" => awaits = "bootstrap"
  /\ \A r \in replies :
       /\ r.kind = "applied" => awaits = "apply" /\ pending[1].id \in applied
       /\ r.kind = "refused" => awaits = "apply" /\ pending[1].id \notin applied
       /\ r.kind = "bootstrap" => awaits = "bootstrap"

(* ... and there is one request or answer about it under way.              *)
About == {"apply", "bootstrap", "applied", "refused"}
OneTalk ==
  /\ \A r, s \in requests : r.kind \in About /\ s.kind \in About => r = s
  /\ \A r, s \in replies : r.kind \in About /\ s.kind \in About => r = s
  /\ \A r \in requests, s \in replies : ~(r.kind \in About /\ s.kind \in About)

(* What the window was told is true. *)
ToldInv ==
  \A n \in Ids : /\ told[n] = "applied" => n \in applied
                 /\ told[n] = "refused" => n \notin applied

(* The inductive invariant. *)
Inv ==
  /\ ProcessTypes /\ WindowTypes
  /\ SnapshotInv /\ DiskInv
  /\ PendingInv /\ TalkInv /\ OneTalk /\ ToldInv

-----------------------------------------------------------------------------
(* Requests, answers and profiles *)

(* What a request or an answer says depends on its kind.                   *)
LEMMA Kinds ==
  /\ \A r \in Request : /\ r.kind \in {"load", "bootstrap", "apply"}
                        /\ r.kind = "apply" => r \in ApplyRequest
  /\ \A r \in Reply : /\ r.kind \in {"load", "bootstrap", "applied", "refused"}
                      /\ r.kind # "refused" => r \in Snapshot
  BY DEF Request, ApplyRequest, Reply, Snapshot

(* The numbers of the actions in the window's queue grow.                  *)
LEMMA Numbers ==
  ASSUME WindowTypes, PendingInv
  PROVE  /\ made \in Nat /\ MaxActions \in Nat /\ made <= MaxActions
         /\ \A i \in DOMAIN pending :
              /\ i \in Nat /\ i >= 1 /\ pending[i] \in Action
              /\ pending[i].id \in Ids /\ pending[i].id <= made
              /\ i > 1 => pending[i].id > pending[1].id
<1>1. MaxActions \in Nat
  OBVIOUS
<1>2. made \in Nat /\ made <= MaxActions
  BY <1>1 DEF WindowTypes
<1>3. ASSUME NEW i \in DOMAIN pending
      PROVE  i \in Nat /\ i >= 1 /\ pending[i] \in Action /\ 1 \in DOMAIN pending
  BY DEF WindowTypes
<1>4. \A a \in Action : a.id \in Ids
  BY DEF Action
<1> QED BY <1>1, <1>2, <1>3, <1>4 DEF PendingInv

(* The profile a change leads to has the next revision.                    *)
LEMMA CandidateNext ==
  ASSUME ProcessTypes, NEW a \in Action, a.kind = "undo" => undo # <<>>
  PROVE  Candidate(a) \in Profile /\ Candidate(a).revision = profile.revision + 1
<1>1. profile.revision + 1 \in Nat
  BY DEF ProcessTypes, Profile
<1>2. a.kind = "undo" => Last(undo) \in Profile
  BY DEF ProcessTypes, Last
<1>3. a.kind # "undo" => Mutated(profile, a) \in Profile
  <2>1. CASE a.kind = "layout"
    BY <2>1 DEF ProcessTypes, Profile, Mutated, Action
  <2>2. CASE a.kind = "taste"
    BY <2>2 DEF ProcessTypes, Profile, Mutated, Action
  <2>3. CASE a.kind = "workspace"
    BY <2>3 DEF ProcessTypes, Profile, Mutated, Action
  <2>4. CASE a.kind = "module"
    <3>1. a.value \in BOOLEAN
      BY <2>4 DEF Action
    <3> DEFINE v == a.value
               w == IF ~a.value /\ profile.active = "monitor" THEN "home" ELSE profile.active
    <3>2. w \in Workspaces /\ v \in BOOLEAN
      BY <3>1 DEF ProcessTypes, Profile, Workspaces
    <3>3. Mutated(profile, a) = [profile EXCEPT !.monitor = v, !.active = w]
      BY <2>4 DEF Mutated
    <3> HIDE DEF v, w
    <3> QED BY <3>2, <3>3 DEF ProcessTypes, Profile
  <2> QED BY <2>1, <2>2, <2>3, <2>4 DEF Action
<1> DEFINE base == IF a.kind = "undo" THEN Last(undo) ELSE Mutated(profile, a)
           n == profile.revision + 1
<1>4. base \in Profile /\ n \in Nat /\ Candidate(a) = [base EXCEPT !.revision = n]
  BY <1>1, <1>2, <1>3 DEF Candidate
<1> HIDE DEF base, n
<1>5. Candidate(a) \in Profile /\ Candidate(a).revision = n
  BY <1>4 DEF Profile
<1> QED BY <1>5 DEF n

(* A later profile has the snapshots of an earlier one as earlier ones.    *)
LEMMA OfLater ==
  ASSUME NEW x \in Profile, NEW p \in Profile, NEW q \in Profile,
         Of(x, p), q.revision = p.revision + 1
  PROVE  Of(x, q)
  BY DEF Of, Profile

(* The first action and the others of the window's queue.                  *)
LEMMA TailOf ==
  ASSUME NEW q \in Seq(Action), q # <<>>
  PROVE  /\ Head(q) = q[1] /\ q[1] \in Action /\ 1 \in DOMAIN q
         /\ Tail(q) \in Seq(Action)
         /\ \A i \in DOMAIN Tail(q) : i + 1 \in DOMAIN q /\ Tail(q)[i] = q[i + 1]
         /\ Tail(q) # <<>> => 2 \in DOMAIN q /\ Tail(q)[1] = q[2] /\ 1 \in DOMAIN Tail(q)
<1>1. Len(q) \in Nat /\ Len(q) >= 1 /\ Len(Tail(q)) = Len(q) - 1
  BY HeadTailProperties
<1>2. DOMAIN q = 1..Len(q) /\ DOMAIN Tail(q) = 1..(Len(q) - 1)
  BY <1>1
<1> QED BY <1>1, <1>2

-----------------------------------------------------------------------------
(* The window *)

(* The next action goes out when nothing is under way.                     *)
LEMMA SendingTalks ==
  ASSUME NEW queue \in Seq(Action), NEW snapshot \in Profile, Sending(queue, snapshot),
         WindowTypes, replies' \subseteq Reply, pending' = queue,
         \A r \in requests : r.kind \notin About,
         \A r \in replies' : r.kind \notin About,
         queue # <<>> => queue[1].id \notin applied' /\ told'[queue[1].id] = "nothing"
  PROVE  /\ TalkInv' /\ OneTalk'
         /\ requests' \subseteq Request /\ awaits' \in {"nothing", "apply", "bootstrap"}
         /\ \A r \in requests' :
              r.kind = "apply" => r.seen = snapshot /\ r.expected = snapshot.revision
<1>1. CASE queue = <<>>
  BY <1>1, Kinds DEF Sending, TalkInv, OneTalk, About, WindowTypes
<1>2. CASE queue # <<>>
  <2> DEFINE new == [kind |-> "apply", action |-> Head(queue),
                     expected |-> snapshot.revision, seen |-> snapshot]
  <2>1. /\ Head(queue) = queue[1] /\ Head(queue) \in Action
        /\ awaits' = "apply" /\ requests' = requests \cup {new}
    BY <1>2 DEF Sending
  <2>2. new \in Request /\ new.kind = "apply" /\ new.action = queue[1]
        /\ new.seen = snapshot /\ new.expected = snapshot.revision
    BY <2>1 DEF Request, ApplyRequest, Profile
  <2> HIDE DEF new
  <2>3. TalkInv'
    BY <1>2, <2>1, <2>2 DEF TalkInv, About
  <2>4. OneTalk'
    BY <2>1, <2>2 DEF OneTalk, About
  <2> QED BY <2>1, <2>2, <2>3, <2>4 DEF WindowTypes, About
<1> QED BY <1>1, <1>2

(* An action is queued, and sent if none is before it.                     *)
LEMMA DispatchKeeps ==
  ASSUME Inv, NEW kind, NEW value, Dispatch(kind, value),
         \A n \in Ids : [id |-> n, kind |-> kind, value |-> value] \in Action
  PROVE  Inv'
<1> DEFINE new == [id |-> made + 1, kind |-> kind, value |-> value]
<1>1. /\ made' = made + 1 /\ pending' = Append(pending, new)
      /\ UNCHANGED <<up, profile, undo, store, setting, disk, registry, replies, events,
                     canonical, told, applied, blind, failures>>
  BY DEF Dispatch, process, lasting, history
<1>2. made \in Nat /\ made + 1 \in Ids /\ new \in Action /\ new.id = made + 1
  <2>1. made \in Nat /\ made < MaxActions /\ MaxActions \in Nat
    BY Numbers DEF Dispatch, Inv
  <2> QED BY <2>1
<1>3. IF awaits = "nothing" THEN Sending(pending', canonical)
      ELSE UNCHANGED <<awaits, requests>>
  BY DEF Dispatch
<1> HIDE DEF new
<1>4. /\ pending' \in Seq(Action) /\ pending' # <<>> /\ Len(pending) \in Nat
      /\ DOMAIN pending = 1..Len(pending) /\ DOMAIN pending' = 1..(Len(pending) + 1)
      /\ \A i \in DOMAIN pending : pending'[i] = pending[i]
      /\ pending'[Len(pending) + 1] = new
      /\ 1 \in DOMAIN pending' /\ pending'[1] = IF pending = <<>> THEN new ELSE pending[1]
  <2>1. pending \in Seq(Action) /\ new \in Action
    BY <1>2 DEF Inv, WindowTypes
  <2>2. /\ pending' \in Seq(Action) /\ Len(pending) \in Nat
        /\ DOMAIN pending = 1..Len(pending) /\ DOMAIN pending' = 1..(Len(pending) + 1)
        /\ \A i \in DOMAIN pending : pending'[i] = pending[i]
        /\ pending'[Len(pending) + 1] = new
    BY <1>1, <2>1
  <2>3. CASE pending = <<>>
    BY <1>1, <2>2, <2>3
  <2>4. CASE pending # <<>>
    <3>1. 1 \in DOMAIN pending
      BY <2>1, <2>4
    <3> QED BY <2>2, <2>4, <3>1
  <2> QED BY <2>2, <2>3, <2>4
<1>5. PendingInv'
  <2>1. new.id > made /\ new.id \notin applied /\ told[new.id] = "nothing"
    BY <1>2 DEF Inv, PendingInv
  <2>2. \A i \in DOMAIN pending : pending[i].id <= made /\ pending[i].id \in Nat
    BY Numbers DEF Inv
  <2>3. \A i \in DOMAIN pending' : i \in DOMAIN pending \/ i = Len(pending) + 1
    BY <1>4
  <2>4. \A i \in DOMAIN pending' : pending'[i].id <= made'
    BY <1>1, <1>2, <1>4, <2>2, <2>3
  <2>5. ASSUME NEW i \in DOMAIN pending', NEW j \in DOMAIN pending', i < j
        PROVE  pending'[i].id < pending'[j].id
    <3>1. i \in DOMAIN pending
      BY <1>4, <2>5
    <3>2. CASE j \in DOMAIN pending
      BY <1>4, <2>5, <3>1, <3>2 DEF Inv, PendingInv
    <3>3. CASE j = Len(pending) + 1
      BY <1>2, <1>4, <2>2, <3>1, <3>3
    <3> QED BY <2>3, <3>2, <3>3
  <2>6. ASSUME NEW i \in DOMAIN pending', i > 1
        PROVE  pending'[i].id \notin applied' /\ told'[pending'[i].id] = "nothing"
    <3>1. CASE i \in DOMAIN pending
      BY <1>1, <1>4, <2>6, <3>1 DEF Inv, PendingInv
    <3>2. CASE i = Len(pending) + 1
      BY <1>1, <1>4, <2>1, <3>2
    <3> QED BY <2>3, <3>1, <3>2
  <2>7. \A n \in Ids : n > made' => n \notin applied' /\ told'[n] = "nothing"
    <3>1. \A n \in Ids : n > made + 1 => n > made
      BY <1>2
    <3> QED BY <1>1, <3>1 DEF Inv, PendingInv
  <2> QED BY <2>4, <2>5, <2>6, <2>7 DEF PendingInv
<1>6. /\ TalkInv' /\ OneTalk'
      /\ requests' \subseteq Request /\ awaits' \in {"nothing", "apply", "bootstrap"}
      /\ \A r \in requests' : r.kind = "apply" =>
           r \in requests \/ (r.seen = canonical /\ r.expected = canonical.revision)
  <2>1. CASE awaits = "nothing"
    <3>1. /\ \A r \in requests : r.kind \notin About
          /\ \A r \in replies : r.kind \notin About
      BY <2>1, Kinds DEF Inv, TalkInv, About, WindowTypes
    <3>2. pending = <<>>
      BY <2>1 DEF Inv, TalkInv
    <3>3. pending'[1].id \notin applied' /\ told'[pending'[1].id] = "nothing"
      BY <1>1, <1>2, <1>4, <3>2 DEF Inv, PendingInv
    <3> QED BY <1>1, <1>3, <1>4, <2>1, <3>1, <3>3, SendingTalks DEF Inv, WindowTypes
  <2>2. CASE awaits # "nothing"
    <3>1. pending # <<>> /\ pending'[1] = pending[1]
      BY <1>4, <2>2 DEF Inv, TalkInv
    <3>2. awaits' = awaits /\ requests' = requests
      BY <1>3, <2>2
    <3>3. TalkInv'
      BY <1>1, <1>4, <3>1, <3>2 DEF Inv, TalkInv
    <3>4. OneTalk'
      BY <1>1, <3>2 DEF Inv, OneTalk
    <3> QED BY <3>2, <3>3, <3>4 DEF Inv, WindowTypes
  <2> QED BY <2>1, <2>2
<1>7. SnapshotInv'
  <2>1. \A r \in requests' : r.kind = "apply" =>
          Of(r.seen, profile) /\ r.expected = r.seen.revision
    BY <1>6 DEF Inv, SnapshotInv
  <2> QED BY <1>1, <2>1 DEF Inv, SnapshotInv
<1>8. ProcessTypes' /\ DiskInv' /\ ToldInv'
  BY <1>1 DEF Inv, ProcessTypes, DiskInv, ToldInv
<1>9. WindowTypes'
  <2>1. made' \in 0..MaxActions
    BY <1>1, <1>2
  <2> QED BY <1>1, <1>4, <1>6, <2>1 DEF Inv, WindowTypes
<1> QED BY <1>5, <1>6, <1>7, <1>8, <1>9 DEF Inv

(* What leaves the controller alone keeps what is said of it.              *)
ControllerStays ==
  UNCHANGED <<up, profile, undo, store, setting, disk, registry, applied, blind, made, failures>>

(* A snapshot becomes canonical, of the bootstrap or an event.             *)
LEMMA SnapshotsKept ==
  ASSUME Inv,
         \/ \E r \in replies : Loaded(r)
         \/ SnapshotEvent
  PROVE  Inv'
<1>1. ControllerStays /\ UNCHANGED <<requests, pending, awaits, told>>
  BY DEF Loaded, SnapshotEvent, Answer, ControllerStays, process, lasting, history,
     bounds
<1>2. /\ canonical' \in Profile /\ Of(canonical', profile) /\ replies' \subseteq replies
      /\ events' \in Seq(Profile) /\ \A i \in DOMAIN events' : \E j \in DOMAIN events : events'[i] = events[j]
  <2>1. CASE \E r \in replies : Loaded(r)
    <3>1. PICK r \in replies : Loaded(r)
      BY <2>1
    <3>2. r \in Snapshot /\ r.kind # "refused"
      BY <3>1, Kinds DEF Loaded, Answer, Inv, WindowTypes
    <3> QED BY <3>1, <3>2 DEF Loaded, Answer, Inv, WindowTypes, SnapshotInv, Snapshot
  <2>2. CASE SnapshotEvent
    <3>1. events # <<>> /\ canonical' = Head(events) /\ events' = Tail(events) /\ replies' = replies
      BY <2>2 DEF SnapshotEvent
    <3>2. events \in Seq(Profile)
      BY DEF Inv, WindowTypes
    <3>3. Len(events) \in Nat /\ Len(events) >= 1 /\ Head(events) = events[1]
          /\ Tail(events) \in Seq(Profile) /\ Len(Tail(events)) = Len(events) - 1
          /\ \A i \in 1..(Len(events) - 1) : Tail(events)[i] = events[i + 1]
      BY <3>1, <3>2, HeadTailProperties
    <3>4. DOMAIN events = 1..Len(events) /\ DOMAIN Tail(events) = 1..(Len(events) - 1)
      BY <3>2, <3>3
    <3>5. canonical' \in Profile /\ Of(canonical', profile)
      BY <3>1, <3>2, <3>3, <3>4 DEF Inv, SnapshotInv
    <3>6. \A i \in DOMAIN events' : i + 1 \in DOMAIN events /\ events'[i] = events[i + 1]
      BY <3>1, <3>3, <3>4
    <3> QED BY <3>1, <3>3, <3>5, <3>6
  <2> QED BY <2>1, <2>2
<1>3. ProcessTypes' /\ WindowTypes'
  BY <1>1, <1>2 DEF Inv, ProcessTypes, WindowTypes, ControllerStays
<1>4. SnapshotInv'
  BY <1>1, <1>2 DEF Inv, SnapshotInv, ControllerStays
<1>5. DiskInv' /\ PendingInv' /\ ToldInv'
  BY <1>1 DEF Inv, DiskInv, PendingInv, ToldInv, ControllerStays
<1>6. TalkInv' /\ OneTalk'
  BY <1>1, <1>2 DEF Inv, TalkInv, OneTalk, ControllerStays
<1> QED BY <1>3, <1>4, <1>5, <1>6 DEF Inv

(* The head is done, and the next action goes out with the new snapshot:   *)
(* after it was applied, or after the bootstrap that follows a refusal.    *)
LEMMA NextGoesOut ==
  ASSUME Inv, NEW r \in replies,
         \/ Applied(r)
         \/ Bootstrapped(r)
  PROVE  Inv'
<1>1. /\ r.kind \in {"applied", "bootstrap"} /\ r \in Snapshot
      /\ r.kind = "applied" => awaits = "apply" /\ pending[1].id \in applied
      /\ r.kind = "bootstrap" => awaits = "bootstrap"
      /\ ControllerStays /\ UNCHANGED events
      /\ canonical' = r.profile /\ replies' = replies \ {r}
      /\ pending' = Tail(pending) /\ Sending(pending', canonical')
  BY Kinds DEF Applied, Bootstrapped, Answer, ControllerStays, process, lasting,
     bounds, history,
               Inv, TalkInv, WindowTypes
<1>2. pending # <<>>
  BY <1>1 DEF Inv, TalkInv
<1>3. told' = IF r.kind = "applied" THEN [told EXCEPT ![pending[1].id] = "applied"] ELSE told
  BY <1>1, <1>2, TailOf DEF Applied, Bootstrapped, Answer, history, Inv, WindowTypes
<1>4. /\ pending' \in Seq(Action) /\ pending[1] \in Action /\ 1 \in DOMAIN pending
      /\ \A i \in DOMAIN pending' : i + 1 \in DOMAIN pending /\ pending'[i] = pending[i + 1]
      /\ pending' # <<>> => 2 \in DOMAIN pending /\ pending'[1] = pending[2]
      /\ DOMAIN pending \subseteq Nat \ {0} /\ DOMAIN pending' \subseteq Nat \ {0}
  BY SMTT(60), <1>1, <1>2, TailOf DEF Inv, WindowTypes
<1>5. /\ pending[1].id \in Ids
      /\ \A i \in DOMAIN pending : pending[i].id \in Ids
      /\ \A i \in DOMAIN pending : i > 1 => pending[1].id < pending[i].id
  BY <1>4 DEF Inv, WindowTypes, PendingInv, Action
<1>6. /\ told' \in [Ids -> {"nothing", "applied", "refused"}]
      /\ \A n \in Ids : n # pending[1].id => told'[n] = told[n]
      /\ told'[pending[1].id] = "applied" => pending[1].id \in applied
      /\ told'[pending[1].id] = "refused" => pending[1].id \notin applied
  BY <1>1, <1>3, <1>5 DEF Inv, WindowTypes, ToldInv
<1>13. \A i \in DOMAIN pending : i > 1 => pending[i].id \in Ids /\ pending[i].id # pending[1].id
  BY <1>5
<1>7. PendingInv'
  <2>1. \A i \in DOMAIN pending' : pending'[i].id <= made'
    BY <1>1, <1>4 DEF Inv, PendingInv, ControllerStays
  <2>2. \A i, j \in DOMAIN pending' : i < j => pending'[i].id < pending'[j].id
    <3>1. \A i, j \in DOMAIN pending' : i < j => i + 1 < j + 1
      BY <1>4
    <3> QED BY <1>4, <3>1 DEF Inv, PendingInv
  <2>3. ASSUME NEW i \in DOMAIN pending
        PROVE  i > 1 => pending[i].id \notin applied' /\ told'[pending[i].id] = "nothing"
    BY <1>1, <1>6, <1>13 DEF Inv, PendingInv, ControllerStays
  <2>4. \A i \in DOMAIN pending' : i + 1 > 1
    BY <1>4
  <2>5. \A n \in Ids : n > made => n # pending[1].id
    <3>1. pending[1].id <= made /\ pending[1].id \in Nat /\ made \in Nat
      BY <1>4, Numbers DEF Inv
    <3> QED BY <3>1
  <2>6. \A n \in Ids : n > made' => n \notin applied' /\ told'[n] = "nothing"
    BY <1>1, <1>6, <2>5 DEF Inv, PendingInv, ControllerStays
  <2>7. \A i \in DOMAIN pending' :
          i > 1 => pending'[i].id \notin applied' /\ told'[pending'[i].id] = "nothing"
    BY <1>4, <2>3, <2>4
  <2> QED BY <2>1, <2>2, <2>6, <2>7 DEF PendingInv
<1>8. /\ TalkInv' /\ OneTalk'
      /\ requests' \subseteq Request /\ awaits' \in {"nothing", "apply", "bootstrap"}
      /\ \A q \in requests' :
           q.kind = "apply" => q.seen = canonical' /\ q.expected = canonical'.revision
  <2>1. /\ \A q \in requests : q.kind \notin About
        /\ \A q \in replies' : q.kind \notin About
    BY <1>1 DEF Inv, OneTalk, About
  <2>2. pending' # <<>> => pending'[1].id \notin applied' /\ told'[pending'[1].id] = "nothing"
    <3>1. 2 > 1
      OBVIOUS
    <3> QED BY SMTT(60), <1>1, <1>4, <1>6, <1>13, <3>1 DEF Inv, PendingInv, ControllerStays
  <2>3. canonical' \in Profile /\ replies' \subseteq Reply
    BY <1>1 DEF Snapshot, Inv, WindowTypes
  <2> QED BY <1>1, <1>4, <2>1, <2>2, <2>3, SendingTalks DEF Inv
<1>9. SnapshotInv'
  <2>1. Of(canonical', profile)
    BY <1>1 DEF Inv, SnapshotInv
  <2>2. \A q \in requests' : q.kind = "apply" => Of(q.seen, profile) /\ q.expected = q.seen.revision
    BY <1>8, <2>1
  <2> QED BY <1>1, <2>1, <2>2 DEF Inv, SnapshotInv, ControllerStays
<1>10. ToldInv'
  BY <1>1, <1>6 DEF Inv, ToldInv, ControllerStays
<1>11. ProcessTypes' /\ DiskInv'
  BY <1>1 DEF Inv, ProcessTypes, DiskInv, ControllerStays
<1>12. WindowTypes'
  BY <1>1, <1>4, <1>6, <1>8 DEF Inv, WindowTypes, ControllerStays, Snapshot
<1> QED BY <1>7, <1>8, <1>9, <1>10, <1>11, <1>12 DEF Inv

(* After a refusal the window asks for the present snapshot.               *)
LEMMA RefusedKeeps == ASSUME Inv, NEW r \in replies, Refused(r) PROVE Inv'
<1> DEFINE new == [kind |-> "bootstrap"]
<1>1. /\ r.kind = "refused" /\ awaits = "apply" /\ pending[1].id \notin applied
      /\ ControllerStays /\ UNCHANGED <<events, canonical, pending>>
      /\ replies' = replies \ {r} /\ awaits' = "bootstrap"
      /\ requests' = requests \cup {new}
  BY DEF Refused, Answer, ControllerStays, process, lasting, bounds, Inv, TalkInv
<1>2. pending # <<>> /\ pending[1] \in Action
  BY <1>1, TailOf DEF Inv, TalkInv, WindowTypes
<1>3. pending[1].id \in Ids /\ told' = [told EXCEPT ![pending[1].id] = "refused"]
  BY <1>2, TailOf DEF Refused, Action, Inv, WindowTypes
<1>4. new \in Request /\ new.kind = "bootstrap"
  BY DEF Request
<1> HIDE DEF new
<1>5. ProcessTypes' /\ WindowTypes' /\ DiskInv'
  BY <1>1, <1>3, <1>4 DEF Inv, ProcessTypes, WindowTypes, DiskInv, ControllerStays
<1>6. SnapshotInv'
  BY <1>1, <1>4 DEF Inv, SnapshotInv, ControllerStays
<1>7. ToldInv'
  BY <1>1, <1>3 DEF Inv, ToldInv, ControllerStays, WindowTypes
<1>8. PendingInv'
  <2>1. \A i \in DOMAIN pending : i > 1 => pending[i].id # pending[1].id
    <3>1. \A i \in DOMAIN pending : i > 1 =>
            pending[i].id > pending[1].id /\ pending[i].id \in Nat /\ pending[1].id \in Nat
      BY <1>3, Numbers DEF Inv
    <3> QED BY <3>1
  <2>2. \A n \in Ids : n > made => n # pending[1].id
    <3>1. pending[1].id <= made /\ pending[1].id \in Nat /\ made \in Nat
      BY <1>2, TailOf, Numbers DEF Inv, WindowTypes
    <3> QED BY <3>1
  <2>3. \A i \in DOMAIN pending : pending[i].id \in Ids
    BY DEF Inv, WindowTypes, Action
  <2> QED BY <1>1, <1>3, <2>1, <2>2, <2>3 DEF Inv, PendingInv, ControllerStays,
             WindowTypes
<1>9. \A q \in requests : q.kind \notin About
  BY <1>1 DEF Inv, OneTalk, About
<1>10. \A q \in replies' : q.kind \notin About
  BY <1>1 DEF Inv, OneTalk, About
<1>11. TalkInv'
  BY <1>1, <1>2, <1>3, <1>4, <1>9, <1>10 DEF TalkInv, About, Inv, WindowTypes
<1>12. OneTalk'
  BY <1>1, <1>4, <1>9, <1>10 DEF OneTalk
<1> QED BY <1>5, <1>6, <1>7, <1>8, <1>11, <1>12 DEF Inv

-----------------------------------------------------------------------------
(* The controller *)

(* An answer takes the place of its request.                               *)
LEMMA AnswerTalks ==
  ASSUME Inv, NEW r \in requests, NEW new \in Reply,
         requests' = requests \ {r}, replies' = replies \cup {new},
         UNCHANGED <<pending, awaits, told>>,
         \/ r.kind \in {"load", "bootstrap"} /\ new.kind = r.kind /\ applied' = applied
         \/ r.kind = "apply" /\ new.kind = "refused" /\ applied' = applied
         \/ r.kind = "apply" /\ new.kind = "applied" /\ applied' = applied \cup {pending[1].id}
  PROVE  TalkInv' /\ OneTalk'
<1>1. r.kind \in About =>
        /\ \A q \in requests' : q.kind \notin About
        /\ \A q \in replies : q.kind \notin About
  BY DEF Inv, OneTalk
<1>2. r.kind \notin About => new.kind \notin About /\ applied' = applied /\ new.kind = "load"
  BY Kinds DEF About, Inv, WindowTypes
<1>3. OneTalk'
  <2>1. CASE r.kind \in About
    BY <1>1, <2>1 DEF OneTalk
  <2>2. CASE r.kind \notin About
    BY <1>2, <2>2 DEF OneTalk, Inv
  <2> QED BY <2>1, <2>2
<1>4. TalkInv'
  <2>1. CASE r.kind \in About
    <3>1. \A q \in requests' : q.kind # "apply" /\ q.kind # "bootstrap"
      BY <1>1, <2>1 DEF About
    <3>2. \A q \in replies : q.kind # "applied" /\ q.kind # "refused" /\ q.kind # "bootstrap"
      BY <1>1, <2>1 DEF About
    <3>3. /\ r.kind = "apply" => awaits = "apply" /\ pending[1].id \notin applied
          /\ r.kind = "bootstrap" => awaits = "bootstrap"
      BY DEF Inv, TalkInv
    <3> QED BY <3>1, <3>2, <3>3 DEF Inv, TalkInv
  <2>2. CASE r.kind \notin About
    BY <1>2, <2>2 DEF Inv, TalkInv
  <2> QED BY <2>1, <2>2
<1> QED BY <1>3, <1>4

(* The bootstrap, and refusals that change nothing.                        *)
LEMMA UnchangedKeeps ==
  ASSUME Inv, NEW r,
         \/ Bootstrap(r)
         \/ Refuse(r)
  PROVE  Inv'
<1> DEFINE new == IF r.kind = "apply" THEN [kind |-> "refused"]
                  ELSE [kind |-> r.kind, profile |-> profile]
<1>1. /\ r \in requests /\ r.kind \in {"load", "bootstrap", "apply"}
      /\ requests' = requests \ {r} /\ replies' = replies \cup {new}
      /\ ControllerStays /\ UNCHANGED <<events, canonical, pending, awaits, told>>
  BY DEF Bootstrap, Refuse, Take, ControllerStays, process, lasting, window, history,
     bounds
<1>2. /\ new \in Reply /\ new.kind = IF r.kind = "apply" THEN "refused" ELSE r.kind
      /\ new.kind # "refused" => new.profile = profile
  BY <1>1 DEF Reply, Snapshot, Inv, ProcessTypes
<1> HIDE DEF new
<1>3. TalkInv' /\ OneTalk'
  BY <1>1, <1>2, AnswerTalks DEF ControllerStays
<1>4. SnapshotInv'
  <2>1. Of(profile, profile)
    BY DEF Of, Inv, ProcessTypes, Profile
  <2> QED BY <1>1, <1>2, <2>1 DEF Inv, SnapshotInv, ControllerStays
<1>5. ProcessTypes' /\ WindowTypes'
  BY <1>1, <1>2 DEF Inv, ProcessTypes, WindowTypes, ControllerStays
<1>6. DiskInv' /\ PendingInv' /\ ToldInv'
  BY <1>1 DEF Inv, DiskInv, PendingInv, ToldInv, ControllerStays
<1> QED BY <1>3, <1>4, <1>5, <1>6 DEF Inv

(* A request that is ready was made for the present profile.               *)
LEMMA ReadyIs ==
  ASSUME Inv, NEW r, Ready(r)
  PROVE  /\ r \in requests /\ r.kind = "apply" /\ r \in ApplyRequest
         /\ up /\ ~setting.busy /\ requests' = requests \ {r}
         /\ r.action \in Action /\ r.action = pending[1] /\ r.seen = profile
         /\ awaits = "apply" /\ pending # <<>> /\ told[pending[1].id] = "nothing"
         /\ pending[1].id \in Ids /\ pending[1].id <= made
         /\ Candidate(r.action) \in Profile
         /\ Candidate(r.action).revision = profile.revision + 1
         /\ Candidate(r.action).revision # 0 /\ profile.revision \in Nat
<1>1. /\ r \in requests /\ r.kind = "apply" /\ up /\ ~setting.busy
      /\ requests' = requests \ {r} /\ r.expected = profile.revision
      /\ r.action.kind = "undo" => undo # <<>>
  BY DEF Ready, Take, Stale
<1>2. r \in ApplyRequest /\ r.action \in Action
  BY <1>1, Kinds DEF Inv, WindowTypes, ApplyRequest
<1>3. r.seen = profile
  BY <1>1 DEF Inv, SnapshotInv, Of
<1>4. r.action = pending[1] /\ awaits = "apply" /\ pending # <<>> /\ told[pending[1].id] = "nothing"
  BY <1>1 DEF Inv, TalkInv
<1>5. 1 \in DOMAIN pending /\ pending[1].id \in Ids /\ pending[1].id <= made
  BY <1>4, TailOf, Numbers DEF Inv, WindowTypes
<1>6. /\ Candidate(r.action) \in Profile
      /\ Candidate(r.action).revision = profile.revision + 1
  BY <1>1, <1>2, CandidateNext DEF Inv
<1>7. profile.revision \in Nat
  BY DEF Inv, ProcessTypes, Profile
<1>8. Candidate(r.action).revision # 0
  BY <1>6, <1>7
<1> QED BY <1>1, <1>2, <1>3, <1>4, <1>5, <1>6, <1>7, <1>8

(* A new revision of the profile, persisted: what was under way is of      *)
(* earlier ones.                                                           *)
LEMMA NewRevision ==
  ASSUME Inv, NEW p \in Profile, p.revision = profile.revision + 1,
         profile' = p, store' = p, disk' = p, ~blind', UNCHANGED <<up, canonical, failures>>,
         requests' \subseteq requests, events' = Append(events, p),
         \A q \in replies' : q \in replies \/ q.kind = "refused" \/ q.profile = p
  PROVE  /\ SnapshotInv' /\ DiskInv' /\ events' \in Seq(Profile)
<1>1. profile \in Profile /\ profile.revision \in Nat /\ p.revision # 0
  <2>1. profile \in Profile /\ profile.revision \in Nat
    BY DEF Inv, ProcessTypes, Profile
  <2> QED BY <2>1
<1>2. Of(p, p)
  BY DEF Of, Profile
<1>3. \A x \in Profile : Of(x, profile) => Of(x, p)
  BY <1>1, OfLater
<1>4. events' \in Seq(Profile)
  BY AppendProperties DEF Inv, WindowTypes
<1>5. \A i \in DOMAIN events' : Of(events'[i], p)
  <2>1. /\ Len(events) \in Nat /\ DOMAIN events = 1..Len(events)
        /\ DOMAIN events' = 1..(Len(events) + 1)
        /\ \A i \in DOMAIN events : events'[i] = events[i] /\ events[i] \in Profile
        /\ events'[Len(events) + 1] = p
    BY AppendProperties DEF Inv, WindowTypes
  <2>2. \A i \in DOMAIN events' : i \in DOMAIN events \/ i = Len(events) + 1
    BY <2>1
  <2> QED BY <1>2, <1>3, <2>1, <2>2 DEF Inv, SnapshotInv
<1>6. \A q \in requests' : q.kind = "apply" => Of(q.seen, p) /\ q.expected = q.seen.revision
  <2>1. \A q \in requests : q.kind = "apply" => q.seen \in Profile
    BY Kinds DEF Inv, WindowTypes, ApplyRequest
  <2> QED BY <1>3, <2>1 DEF Inv, SnapshotInv
<1>7. \A q \in replies' : q.kind # "refused" => Of(q.profile, p)
  <2>1. \A q \in replies : q.kind # "refused" => q.profile \in Profile
    BY Kinds DEF Inv, WindowTypes, Snapshot
  <2> QED BY <1>2, <1>3, <2>1 DEF Inv, SnapshotInv
<1>8. Of(canonical, p)
  BY <1>3 DEF Inv, SnapshotInv, WindowTypes
<1>9. SnapshotInv'
  BY <1>1, <1>5, <1>6, <1>7, <1>8 DEF SnapshotInv
<1> QED BY <1>4, <1>9 DEF DiskInv

(* An action is applied to the profile its sender has seen.                *)
LEMMA CommitKeeps == ASSUME Inv, NEW r, Commit(r) PROVE Inv'
<1> DEFINE p == Candidate(r.action)
           new == [kind |-> "applied", profile |-> p]
<1>1. Ready(r)
  BY DEF Commit
<1>2. /\ store' = p /\ disk' = p /\ profile' = p /\ events' = Append(events, p)
      /\ replies' = replies \cup {new}
      /\ applied' = applied \cup {r.action.id}
      /\ blind' = (blind \/ r.seen # profile)
      /\ undo' = IF r.action.kind = "undo" THEN Front(undo) ELSE Checkpointed(r.action)
      /\ UNCHANGED <<up, setting, registry, canonical, pending, awaits, told, made, failures>>
  BY DEF Commit, Persist, window
<1>3. p \in Profile /\ p.revision = profile.revision + 1 /\ new \in Reply
      /\ new.kind = "applied" /\ new.profile = p
  BY <1>1, ReadyIs DEF Reply, Snapshot
<1> HIDE DEF p, new
<1>4. TalkInv' /\ OneTalk'
  BY <1>1, <1>2, <1>3, ReadyIs, AnswerTalks
<1>5. ~blind'
  BY <1>1, <1>2, ReadyIs DEF Inv, SnapshotInv
<1>6. SnapshotInv' /\ DiskInv' /\ events' \in Seq(Profile)
  BY <1>1, <1>2, <1>3, <1>5, ReadyIs, NewRevision
<1>7. undo' \in Seq(Profile)
  <2>1. undo \in Seq(Profile) /\ profile \in Profile
    BY DEF Inv, ProcessTypes
  <2>2. CASE r.action.kind = "undo"
    <3>1. undo # <<>>
      BY <1>1, <2>2 DEF Ready
    <3> QED BY <1>2, <2>1, <2>2, <3>1 DEF Front
  <2>3. CASE r.action.kind # "undo"
    <3> DEFINE all == Append(undo, profile)
    <3>1. all \in Seq(Profile) /\ all # <<>>
      BY <2>1, AppendProperties
    <3>2. Tail(all) \in Seq(Profile)
      BY <3>1, HeadTailProperties
    <3>3. undo' \in {undo, all, Tail(all)}
      BY <1>2, <2>3 DEF Checkpointed
    <3> QED BY <2>1, <3>1, <3>2, <3>3
  <2> QED BY <2>2, <2>3
<1>8. ProcessTypes'
  BY <1>2, <1>3, <1>5, <1>7 DEF Inv, ProcessTypes
<1>9. WindowTypes'
  BY <1>1, <1>2, <1>3, <1>6, ReadyIs DEF Inv, WindowTypes
<1>10. applied' = applied \cup {pending[1].id}
  BY <1>1, <1>2, ReadyIs
<1>11. PendingInv'
  <2>1. \A i \in DOMAIN pending : i > 1 => pending[i].id # pending[1].id
    <3>1. \A i \in DOMAIN pending : i > 1 =>
            pending[i].id > pending[1].id /\ pending[i].id \in Nat
      BY Numbers DEF Inv
    <3>2. pending[1].id \in Nat
      BY <1>1, ReadyIs
    <3> QED BY <3>1, <3>2
  <2>2. \A n \in Ids : n > made => n # pending[1].id
    <3>1. pending[1].id <= made /\ pending[1].id \in Nat /\ made \in Nat
      BY <1>1, ReadyIs, Numbers DEF Inv
    <3> QED BY <3>1
  <2> QED BY <1>2, <1>10, <2>1, <2>2 DEF Inv, PendingInv
<1>12. ToldInv'
  BY <1>1, <1>2, <1>10, ReadyIs DEF Inv, ToldInv
<1> QED BY <1>4, <1>6, <1>8, <1>9, <1>11, <1>12 DEF Inv

(* A save that fails leaves the candidate in the store.                    *)
LEMMA SaveFailsKeeps == ASSUME Inv, NEW r, SaveFails(r) PROVE Inv'
<1> DEFINE p == Candidate(r.action)
           new == [kind |-> "refused"]
<1>1. Ready(r)
  BY DEF SaveFails
<1>2. /\ store' = p /\ failures' = failures + 1 /\ replies' = replies \cup {new}
      /\ UNCHANGED <<up, profile, undo, setting, disk, registry, events, canonical, pending,
                     awaits, told, applied, blind, made>>
  BY DEF SaveFails, Persist, window, history
<1>3. p \in Profile /\ p.revision = profile.revision + 1 /\ p.revision # 0
      /\ new \in Reply /\ new.kind = "refused"
  BY <1>1, ReadyIs DEF Reply
<1>4. failures \in Nat /\ failures' \in Nat /\ failures' > 0
  <2>1. failures \in Nat
    BY DEF Inv, ProcessTypes
  <2> QED BY <1>2, <2>1
<1> HIDE DEF p, new
<1>5. TalkInv' /\ OneTalk'
  BY <1>1, <1>2, <1>3, ReadyIs, AnswerTalks
<1>6. SnapshotInv'
  BY <1>1, <1>2, <1>3, ReadyIs DEF Inv, SnapshotInv
<1>7. DiskInv'
  BY <1>2, <1>3, <1>4 DEF Inv, DiskInv
<1>8. ProcessTypes' /\ WindowTypes'
  BY <1>1, <1>2, <1>3, <1>4, ReadyIs DEF Inv, ProcessTypes, WindowTypes
<1>9. PendingInv' /\ ToldInv'
  BY <1>2 DEF Inv, PendingInv, ToldInv
<1> QED BY <1>5, <1>6, <1>7, <1>8, <1>9 DEF Inv

(* The window and what it is told stay.                                    *)
WindowStays == UNCHANGED <<requests, replies, canonical, pending, awaits, told, applied, made>>

(* The master GPU is another one, in the registry...                       *)
LEMMA RegistryKeeps == ASSUME Inv, NEW m \in Masters, WriteRegistry(m) PROVE Inv'
<1>1. /\ registry' = m /\ setting' = [busy |-> TRUE, master |-> m, previous |-> registry]
      /\ WindowStays /\ UNCHANGED <<up, profile, undo, store, disk, events, blind, failures>>
  BY DEF WriteRegistry, WindowStays, ways, window, history
<1>2. setting' \in Setting
  BY <1>1 DEF Setting, Inv, ProcessTypes
<1>3. ProcessTypes' /\ WindowTypes'
  BY <1>1, <1>2 DEF Inv, ProcessTypes, WindowTypes, WindowStays
<1>4. SnapshotInv' /\ DiskInv' /\ PendingInv'
  BY <1>1 DEF Inv, SnapshotInv, DiskInv, PendingInv, WindowStays
<1>5. TalkInv' /\ OneTalk' /\ ToldInv'
  BY <1>1 DEF Inv, TalkInv, OneTalk, ToldInv, WindowStays
<1> QED BY <1>3, <1>4, <1>5 DEF Inv

(* ... and in the profile, or not.                                         *)
LEMMA MasterKeeps ==
  ASSUME Inv,
         \/ SetMaster
         \/ RollBack
  PROVE  Inv'
<1> DEFINE n == profile.revision + 1
           m == setting.master
           p == [profile EXCEPT !.master = m, !.revision = n]
<1>1. setting.busy /\ WindowStays /\ UNCHANGED <<up, undo, blind>>
  BY DEF SetMaster, RollBack, WindowStays, ways, window, history
<1>2. m \in Masters /\ setting.previous \in Masters
  <2>1. ~Idle.busy
    BY DEF Idle
  <2>2. setting # Idle
    BY <1>1, <2>1
  <2> QED BY <2>2 DEF Inv, ProcessTypes, Setting
<1>3. n \in Nat /\ n # 0
  <2>1. profile.revision \in Nat
    BY DEF Inv, ProcessTypes, Profile
  <2> QED BY <2>1
<1>4. p \in Profile /\ p.revision = n
  <2>1. profile \in Profile
    BY DEF Inv, ProcessTypes
  <2> HIDE DEF n, m
  <2> QED BY <1>2, <1>3, <2>1 DEF Profile
<1>5. p = [profile EXCEPT !.master = setting.master, !.revision = @ + 1]
  BY DEF Inv, ProcessTypes, Profile
<1>6. Idle \in Setting
  BY DEF Setting
<1>7. PendingInv' /\ TalkInv' /\ OneTalk' /\ ToldInv'
  BY <1>1 DEF Inv, PendingInv, TalkInv, OneTalk, ToldInv, WindowStays
<1>8. CASE SetMaster
  <2>1. /\ store' = p /\ disk' = p /\ profile' = p /\ events' = Append(events, p)
        /\ setting' = Idle /\ UNCHANGED <<registry, failures>>
    BY <1>5, <1>8 DEF SetMaster, Persist
  <2> HIDE DEF p
  <2>2. ~blind'
    BY <1>1 DEF Inv, SnapshotInv
  <2>3. SnapshotInv' /\ DiskInv' /\ events' \in Seq(Profile)
    BY <1>1, <1>4, <2>1, <2>2, NewRevision DEF WindowStays
  <2>4. ProcessTypes' /\ WindowTypes'
    BY <1>1, <1>4, <1>6, <2>1, <2>3 DEF Inv, ProcessTypes, WindowTypes, WindowStays
  <2> QED BY <1>7, <2>3, <2>4 DEF Inv
<1>9. CASE RollBack
  <2>1. /\ store' = p /\ failures' = failures + 1 /\ registry' = setting.previous
        /\ setting' = Idle /\ UNCHANGED <<profile, disk, events>>
    BY <1>5, <1>9 DEF RollBack, Persist, ways
  <2>2. failures \in Nat /\ failures' \in Nat /\ failures' > 0
    <3>1. failures \in Nat
      BY DEF Inv, ProcessTypes
    <3> QED BY <2>1, <3>1
  <2> HIDE DEF p
  <2>3. ProcessTypes' /\ WindowTypes'
    BY <1>1, <1>2, <1>4, <1>6, <2>1, <2>2 DEF Inv, ProcessTypes, WindowTypes,
       WindowStays
  <2>4. SnapshotInv'
    BY <1>1, <1>3, <1>4, <2>1 DEF Inv, SnapshotInv, WindowStays
  <2>5. DiskInv'
    BY <1>1, <1>4, <2>1, <2>2 DEF Inv, DiskInv
  <2> QED BY <1>7, <2>3, <2>4, <2>5 DEF Inv
<1> QED BY <1>8, <1>9

-----------------------------------------------------------------------------
(* The store plugin and the process *)

(* The plugin writes what it holds. *)
LEMMA AutoSaveKeeps == ASSUME Inv, AutoSave PROVE Inv'
<1>1. /\ disk' = store /\ WindowStays
      /\ UNCHANGED <<up, profile, undo, store, setting, registry, events, blind, failures>>
  BY DEF AutoSave, WindowStays, process, ways, window, history, bounds
<1>2. ProcessTypes' /\ WindowTypes' /\ SnapshotInv' /\ DiskInv'
  BY <1>1 DEF Inv, ProcessTypes, WindowTypes, SnapshotInv, DiskInv, WindowStays
<1>3. PendingInv' /\ TalkInv' /\ OneTalk' /\ ToldInv'
  BY <1>1 DEF Inv, PendingInv, TalkInv, OneTalk, ToldInv, WindowStays
<1> QED BY <1>2, <1>3 DEF Inv

(* Nothing is under way after a crash or an exit. *)
LEMMA StopKeeps == ASSUME Inv, NEW orderly \in BOOLEAN, Stop(orderly) PROVE Inv'
<1>1. /\ up' = FALSE /\ disk' \in {store, disk} /\ setting' = Idle
      /\ requests' = {} /\ replies' = {} /\ events' = <<>> /\ pending' = <<>>
      /\ awaits' = "nothing"
      /\ UNCHANGED <<profile, undo, store, registry, canonical, told, applied, blind,
                     made, failures>>
  BY DEF Stop, history
<1>2. ProcessTypes'
  BY <1>1 DEF Inv, ProcessTypes, Setting
<1>3. WindowTypes'
  BY <1>1 DEF Inv, WindowTypes
<1>4. SnapshotInv' /\ DiskInv'
  BY <1>1 DEF Inv, SnapshotInv, DiskInv
<1>5. PendingInv' /\ TalkInv' /\ OneTalk' /\ ToldInv'
  BY <1>1 DEF Inv, PendingInv, TalkInv, OneTalk, ToldInv
<1> QED BY <1>2, <1>3, <1>4, <1>5 DEF Inv

(* Nothing is under way while the process is down.                         *)
DownInv ==
  ~up => /\ requests = {} /\ replies = {} /\ events = <<>>
         /\ pending = <<>> /\ awaits = "nothing"

(* The default profile is one. *)
LEMMA DefaultProfile ==
  Default \in Profile /\ Default.revision = 0 /\ Default.master \in Masters
<1> DEFINE l == CHOOSE x \in Layouts : TRUE
           t == CHOOSE x \in Tastes : TRUE
           m == CHOOSE x \in Masters : TRUE
<1>1. l \in Layouts /\ t \in Tastes /\ m \in Masters
  OBVIOUS
<1>2. Default = [layout |-> l, taste |-> t, monitor |-> TRUE, active |-> "home",
                 master |-> m, revision |-> 0]
  BY DEF Default
<1> HIDE DEF l, t, m
<1> QED BY <1>1, <1>2 DEF Profile, Workspaces

(* Only an end and a start of the process change whether it is up.         *)
LEMMA DownStep == ASSUME DownInv, [Next]_vars PROVE DownInv'
<1>1. ASSUME Dispatches PROVE up' /\ up
  <2>1. ASSUME NEW kind, NEW value, Dispatch(kind, value) PROVE up' /\ up
    BY <2>1 DEF Dispatch, process
  <2> QED BY <1>1, <2>1 DEF Dispatches
<1>2. ASSUME WindowReads PROVE up' /\ up
  BY <1>2 DEF WindowReads, Loaded, Applied, Refused, Bootstrapped, SnapshotEvent,
     Answer, process
<1>3. ASSUME MainThread PROVE up' /\ up
  <2>1. ASSUME NEW r, Bootstrap(r) \/ Refuse(r) PROVE up' /\ up
    BY <2>1 DEF Bootstrap, Refuse, Take, process
  <2>2. ASSUME NEW r, Commit(r) \/ SaveFails(r) PROVE up' /\ up
    <3>1. up /\ up' = up
      BY <2>2, Zenon DEF Commit, SaveFails, Ready, Take
    <3> QED BY <3>1
  <2>3. ASSUME SetMaster \/ RollBack PROVE up' /\ up
    <3>1. up /\ up' = up
      BY <2>3, Zenon DEF SetMaster, RollBack
    <3> QED BY <3>1
  <2> QED BY <1>3, <2>1, <2>2, <2>3 DEF MainThread
<1>4. ASSUME NEW m \in Masters, WriteRegistry(m) PROVE up' /\ up
  BY <1>4 DEF WriteRegistry
<1>5. ASSUME AutoSave PROVE up' /\ up
  BY <1>5 DEF AutoSave, process
<1>6. ASSUME NEW orderly \in BOOLEAN, Stop(orderly) PROVE DownInv'
  BY <1>6 DEF Stop, DownInv
<1>7. ASSUME Start PROVE up'
  BY <1>7 DEF Start
<1>8. CASE UNCHANGED vars
  BY <1>8 DEF vars, process, ways, window, DownInv
<1> QED BY <1>1, <1>2, <1>3, <1>4, <1>5, <1>6, <1>7, <1>8 DEF Next, DownInv

(* The window starts with the default profile, which is the snapshot of    *)
(* revision 0 also when the disk has a later one.                          *)
LEMMA StartKeeps == ASSUME Inv, DownInv, Start PROVE Inv'
<1> DEFINE new == [kind |-> "load"]
<1>1. /\ ~up /\ up' = TRUE /\ profile' = disk /\ undo' = <<>> /\ store' = disk
      /\ requests' = {new} /\ canonical' = Default
      /\ UNCHANGED <<setting, disk, registry, replies, events, pending, awaits, told,
                     applied, blind, made, failures>>
  BY DEF Start, lasting, history, bounds
<1>2. replies = {} /\ events = <<>> /\ pending = <<>> /\ awaits = "nothing"
  BY <1>1 DEF DownInv
<1>3. new \in Request /\ new.kind = "load"
  BY DEF Request
<1> HIDE DEF new
<1>4. Default \in Profile /\ Default.revision = 0
  BY DefaultProfile
<1>5. ProcessTypes' /\ WindowTypes'
  BY <1>1, <1>3, <1>4 DEF Inv, ProcessTypes, WindowTypes
<1>6. Of(Default, disk)
  BY <1>4 DEF Of, Inv, ProcessTypes, SnapshotInv, Profile
<1>7. SnapshotInv' /\ DiskInv'
  BY <1>1, <1>2, <1>3, <1>6 DEF Inv, SnapshotInv, DiskInv
<1>8. PendingInv' /\ TalkInv' /\ OneTalk' /\ ToldInv'
  BY <1>1, <1>2, <1>3 DEF Inv, PendingInv, TalkInv, OneTalk, ToldInv, About
<1> QED BY <1>5, <1>7, <1>8 DEF Inv

-----------------------------------------------------------------------------
(* The theorems *)

(* The initial states are in the invariant. *)
LEMMA InvInit == Init => Inv /\ DownInv
<1> SUFFICES ASSUME Init PROVE Inv /\ DownInv
  OBVIOUS
<1> DEFINE new == [kind |-> "load"]
<1>1. new \in Request /\ new.kind = "load" /\ requests = {new}
  BY DEF Request, Init
<1> HIDE DEF new
<1>2. Default \in Profile /\ Default.revision = 0 /\ Default.master \in Masters
  BY DefaultProfile
<1>3. ProcessTypes
  <2>1. up \in BOOLEAN /\ blind \in BOOLEAN /\ failures \in Nat
    BY DEF Init
  <2>2. setting \in Setting /\ registry \in Masters
    BY <1>2 DEF Init, Setting
  <2>3. profile \in Profile /\ undo \in Seq(Profile) /\ store \in Profile /\ disk \in Profile
    BY <1>2 DEF Init
  <2> QED BY <2>1, <2>2, <2>3 DEF ProcessTypes
<1>4. WindowTypes
  BY <1>1, <1>2 DEF Init, WindowTypes
<1>5. Of(Default, Default)
  BY <1>2 DEF Of
<1>6. SnapshotInv
  BY <1>1, <1>2, <1>5 DEF Init, SnapshotInv
<1>7. PendingInv /\ TalkInv /\ OneTalk /\ ToldInv /\ DiskInv /\ DownInv
  BY <1>1 DEF Init, PendingInv, TalkInv, OneTalk, ToldInv, About, DiskInv, DownInv
<1> QED BY <1>3, <1>4, <1>6, <1>7 DEF Inv

(* It is inductive. *)
LEMMA InvStep == ASSUME Inv, DownInv, [Next]_vars PROVE Inv'
<1>1. CASE Dispatches
  BY <1>1, DispatchKeeps DEF Dispatches, Action
<1>2. CASE WindowReads
  <2>1. ASSUME NEW r \in replies, Loaded(r) \/ Applied(r) \/ Refused(r) \/ Bootstrapped(r)
        PROVE  Inv'
    BY <2>1, SnapshotsKept, NextGoesOut, RefusedKeeps
  <2> QED BY <1>2, <2>1, SnapshotsKept DEF WindowReads
<1>3. CASE MainThread
  <2>1. ASSUME NEW r \in requests, Bootstrap(r) \/ Refuse(r) \/ Commit(r) \/ SaveFails(r)
        PROVE  Inv'
    BY <2>1, UnchangedKeeps, CommitKeeps, SaveFailsKeeps
  <2> QED BY <1>3, <2>1, MasterKeeps DEF MainThread
<1>4. ASSUME NEW m \in Masters, WriteRegistry(m) PROVE Inv'
  BY <1>4, RegistryKeeps
<1>5. CASE AutoSave \/ Stop(TRUE) \/ Stop(FALSE) \/ Start
  BY <1>5, AutoSaveKeeps, StopKeeps, StartKeeps
<1>6. CASE UNCHANGED vars
  BY <1>6 DEF vars, process, lasting, ways, window, history, bounds,
              Inv, ProcessTypes, WindowTypes, SnapshotInv, DiskInv, PendingInv, TalkInv,
              OneTalk, ToldInv
<1> QED BY <1>1, <1>2, <1>3, <1>4, <1>5, <1>6 DEF Next

(* validate_expected_revision: an action is applied to the profile its     *)
(* sender had before it, over any events, undos, changes of the master     *)
(* GPU, failed saves and restarts.                                         *)
THEOREM AppliedToWhatWasSeen == Spec => []NoBlindWrite
<1>1. Init => Inv /\ DownInv
  BY InvInit
<1>2. Inv /\ DownInv /\ [Next]_vars => (Inv /\ DownInv)'
  BY InvStep, DownStep
<1>3. Inv => NoBlindWrite
  BY DEF Inv, SnapshotInv, NoBlindWrite
<1> QED BY <1>1, <1>2, <1>3, PTL DEF Spec

(* What drain told the window of an action is true, and what the           *)
(* controller holds is on the disk or was refused after it.                *)
THEOREM ToldTheTruth == Spec => []AnswersAreTrue
<1>1. Init => Inv /\ DownInv
  BY InvInit
<1>2. Inv /\ DownInv /\ [Next]_vars => (Inv /\ DownInv)'
  BY InvStep, DownStep
<1>3. Inv => AnswersAreTrue
  BY DEF Inv, ToldInv, DiskInv, AnswersAreTrue
<1> QED BY <1>1, <1>2, <1>3, PTL DEF Spec
=============================================================================

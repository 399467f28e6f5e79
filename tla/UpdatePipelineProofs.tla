------------------------ MODULE UpdatePipelineProofs ------------------------
(***************************************************************************)
(* What the cache publishes, what the application quits for and when its   *)
(* helper installs, for any releases and any number of calls: theorems     *)
(* about UpdatePipeline.                                                   *)
(***************************************************************************)
EXTENDS UpdatePipeline, WellFoundedInduction, TLAPS

(* Where a call may be: it waits for its helper, *)
Waiting == {"poll", "probe", "kill"}
(* it has a stage, *)
Launching == Waiting \cup {"spawn"}
(* it goes on with a manifest of the cache, *)
Resolved == Launching \cup {"inspect", "hash", "confirm", "close", "stage"}
(* or with one of the release page, *)
Fetched == {"download", "replace", "publish"}
(* or with none. *)
Points == Resolved \cup Fetched \cup {"idle", "fetch", "resolve"}

(* The installers that were uploaded. *)
Contents == {Uploads[n] : n \in DOMAIN Uploads}

(* What a call holds. *)
CallType ==
  [pc : Points, manifest : Manifests \cup {None}, content : Contents \cup {None},
   calls : 0..MaxCalls, answer : Answers \cup {None}]

(* A call that has a manifest was given one that is signed; with content   *)
(* to be renamed it has an installer of that name, and before it publishes *)
(* there is one in the cache.                                              *)
Sure(r, files) ==
  /\ r.pc \in Fetched \cup Resolved => r.manifest \in Manifests /\ r.manifest.sound
  /\ r.pc = "replace" => r.content \in UploadsOf(r.manifest.file)
  /\ r.pc = "publish" => files[r.manifest.file] # None

(* What is announced was uploaded before. *)
PageInv ==
  /\ remote = [uploaded |-> remote.uploaded, announced |-> remote.announced]
  /\ remote.uploaded \in 0..Len(Releases) /\ remote.announced \in 0..remote.uploaded

(* The cache holds uploaded installers, and one for its signed manifest.   *)
FilesInv ==
  /\ cache \in [latest : Manifests \cup {None}, files : [Files -> Contents \cup {None}]]
  /\ \A f \in Files : cache.files[f] \in UploadsOf(f) \cup {None}
  /\ cache.latest # None => cache.latest.sound /\ cache.files[cache.latest.file] # None

(* What the calls hold. *)
CallsInv ==
  /\ call \in [Callers -> CallType]
  /\ \A c \in Callers : Sure(call[c], cache.files)

(* The inductive invariant of the cache. *)
CacheInv == PageInv /\ FilesInv /\ CallsInv

(* The values of the variables of launches. *)
AppType ==
  [running : BOOLEAN, instance : Nat \ {0}, version : Nat, installed : Nat,
   background : BOOLEAN, quitting : BOOLEAN]

(* A staging directory with its request file, *)
StageType ==
  [installer : Contents \cup {None}, request : {"json", "claimed", None},
   manifest : Manifests \cup {None}, ready : BOOLEAN, parent : Nat, current : Nat]

(* how a helper may end, *)
Outcomes ==
  {"killed", "unclaimed", "refused", "timeout", "relaunched", "stranded", "updated"}

(* a helper process, *)
HelperType == [pc : HelperPoints \cup {None}, outcome : Outcomes \cup {None}]

(* and the clean-up thread. *)
CleanupType == [request : Launches \cup {None}, tries : Nat]

(* Types; no stage has a parent of the future.                             *)
LaunchTypes ==
  /\ app \in AppType /\ cleanup \in CleanupType
  /\ stage \in [Launches -> StageType] /\ helper \in [Launches -> HelperType]
  /\ \A l \in Launches : stage[l].parent <= app.instance

(* A call in progress is one of the application that runs, whose version   *)
(* is older than the manifest it goes on with.                             *)
RunningInv ==
  \A c \in Callers :
    /\ call[c].pc # "idle" => app.running /\ call[c].answer = None
    /\ call[c].pc # "idle" \/ call[c].answer # None => call[c].calls > 0
    /\ call[c].pc \in Resolved => Newer(call[c].manifest)

(* The stage was made by the application that runs, and is good.           *)
Good(l) == stage[l].parent = app.instance /\ StageValid(l)

(* Launches under way have a good stage, and a helper once it was started; *)
(* launches to come have none.                                             *)
StageFits(i) ==
  /\ call[i].pc \in Launching => Good(Launch(i))
  /\ call[i].pc \notin Waiting \cup {"idle"} => helper[Launch(i)] = NoHelper
  /\ call[i].pc \in Waiting => helper[Launch(i)].pc # "leaving"
  /\ \A n \in 1..MaxCalls : n > call[i].calls => helper[<<i, n>>] = NoHelper
StageInv == \A i \in Installs : StageFits(i)

(* What is cleaned up is a stage of an earlier application.                *)
CleanInv ==
  cleanup.request \in Launches =>
    /\ helper[cleanup.request].pc \in {"leaving", "exited"}
    /\ stage[cleanup.request].parent < app.instance

(* The application ends for the good stage of a launch that was its last.  *)
QuitInv ==
  app.quitting =>
    /\ app.running
    /\ \E i \in Installs :
         /\ call[i].pc = "idle" /\ Launch(i) \in Launches
         /\ stage[Launch(i)].ready /\ Good(Launch(i))

(* The helper has not finished its work. *)
Active(l) == helper[l].pc \notin {None, "exited", "leaving"}

(* The application waits for the helper of its caller, or quits for it.    *)
Awaited(i) ==
  \/ call[i].pc \in Waiting
  \/ app.quitting /\ call[i].pc = "idle" /\ call[i].answer = "installing"

(* An active helper is that of its caller's latest launch, and its stage   *)
(* is good; the application that runs beside it is its parent, and waits   *)
(* or quits for it; and once the helper has begun to install none runs.    *)
HelperFits(l) ==
  /\ l = Launch(l[1]) /\ StageValid(l)
  /\ app.running => stage[l].parent = app.instance /\ Awaited(l[1])
  /\ helper[l].pc \in {"validate", "install", "installed"} => ~app.running
HelperInv == \A l \in Launches : Active(l) => HelperFits(l)

(* A failed launch leaves no helper.                                       *)
FailedInv == \A i \in Installs : call[i].answer = "failed" => ~HelperAlive(Launch(i))

(* The inductive invariant of the launches. *)
LaunchInv ==
  LaunchTypes /\ RunningInv /\ StageInv /\ CleanInv /\ QuitInv /\ HelperInv /\ FailedInv

(* One caller installs: the page has one button, and the scheduler only    *)
(* checks.  With two installs at once, which a check that ends in between  *)
(* makes possible, one helper could start the application beside the one   *)
(* the other serves; UpdatePipeline has one running application.           *)
OneInstall == \A i, j \in Installs : i = j

(* The inductive invariant. *)
Inv == CacheInv /\ LaunchInv

USE DEF StageFits, HelperFits

-----------------------------------------------------------------------------
(* The cache *)

(* The order of the numbers, as a relation.                                *)
Before == {p \in Nat \X Nat : p[1] < p[2]}

(* Numbers up to a bound have a greatest one: it is the least away from    *)
(* the bound.                                                              *)
LEMMA HasGreatest ==
  ASSUME NEW bound \in Nat, NEW S, S \subseteq 1..bound, S # {}
  PROVE  \E m \in S : \A k \in S : k <= m
<1> DEFINE distances == {bound - k : k \in S}
<1>1. IsWellFoundedOn(Before, Nat)
  BY NatLessThanWellFounded DEF Before, OpToRel
<1>2. distances \subseteq Nat /\ distances # {}
  <2>1. \A k \in S : k \in 1..bound  OBVIOUS
  <2>2. \A k \in S : bound - k \in Nat  BY <2>1
  <2> QED  BY <2>2
<1>3. PICK d \in distances : \A e \in distances : <<e, d>> \notin Before
  <2> HIDE DEF distances
  <2> QED  BY <1>1, <1>2, WFMin
<1>4. PICK m \in S : d = bound - m  OBVIOUS
<1>5. ASSUME NEW k \in S  PROVE k <= m
  <2>1. <<bound - k, bound - m>> \notin Before  BY <1>3, <1>4
  <2>2. k \in 1..bound /\ m \in 1..bound  OBVIOUS
  <2>3. bound - k \in Nat /\ bound - m \in Nat  BY <2>2
  <2>4. ~(bound - k < bound - m)  BY <2>1, <2>3 DEF Before
  <2> QED  BY <2>2, <2>4
<1> QED  BY <1>5

(* An installer found on the page under a name was uploaded under it.      *)
LEMMA AssetIsUpload ==
  ASSUME PageInv, NEW file \in Files, Asset(file) # None
  PROVE  Asset(file) \in UploadsOf(file)
<1> DEFINE mine == {n \in 1 .. remote.uploaded : Releases[n].file = file}
<1> DEFINE newest == CHOOSE n \in mine : \A k \in mine : k <= n
<1>1. mine # {} /\ Asset(file) = Uploads[newest]
  BY DEF Asset
<1>2. \E n \in mine : \A k \in mine : k <= n
  <2> DEFINE P(n) == \A k \in mine : k <= n
  <2>1. PICK m \in mine : \A k \in mine : k <= m
    <3> DEFINE bound == remote.uploaded
    <3>1. bound \in Nat /\ mine \subseteq 1..bound /\ mine # {}
      BY <1>1, ReleasesAssumption DEF PageInv
    <3> HIDE DEF mine, bound
    <3> QED  BY <3>1, HasGreatest
  <2> QED  BY <2>1
<1>3. newest \in mine  BY <1>2
<1>4. newest \in DOMAIN Releases /\ Releases[newest].file = file
  BY <1>3, ReleasesAssumption DEF PageInv
<1> QED  BY <1>1, <1>4 DEF UploadsOf

(* Where the cache is only added to, calls are as sure as before.          *)
LEMMA CallMoves ==
  ASSUME CacheInv, NEW c \in Callers, NEW r \in CallType,
         call' = [call EXCEPT ![c] = r], PageInv', FilesInv',
         \A f \in Files : cache.files[f] # None => cache'.files[f] # None,
         Sure(r, cache'.files)
  PROVE  CacheInv'
<1>1. call' \in [Callers -> CallType]  BY DEF CacheInv, CallsInv
<1>2. \A m \in Manifests : m.file \in Files  BY DEF Files
<1>3. ASSUME NEW d \in Callers  PROVE Sure(call'[d], cache'.files)
  <2>1. CASE d = c
    <3>1. call'[d] = r  BY <2>1 DEF CacheInv, CallsInv
    <3> QED  BY <3>1 DEF Sure
  <2>2. CASE d # c
    <3>1. call'[d] = call[d] /\ Sure(call[d], cache.files)  BY <2>2 DEF CacheInv, CallsInv
    <3>2. call[d].pc = "publish" => call[d].manifest.file \in Files
      BY <3>1, <1>2 DEF Sure, Fetched
    <3> QED  BY <3>1, <3>2 DEF Sure
  <2> QED  BY <2>1, <2>2
<1> QED  BY <1>1, <1>3 DEF CacheInv, CallsInv

(* A call that goes on changes the cache only when it replaces an          *)
(* installer or publishes a manifest.                                      *)
LEMMA CallGoes ==
  ASSUME CacheInv, NEW c \in Callers, NEW r \in CallType,
         call' = [call EXCEPT ![c] = r], cache' = cache, remote' = remote, Sure(r, cache.files)
  PROVE  CacheInv'
<1>1. PageInv' /\ FilesInv'  BY DEF CacheInv, PageInv, FilesInv
<1> QED  BY <1>1, CallMoves

USE DEF At, Goto

(* A call that waits, or asks the page or the cache, need not hold anything. *)
LEMMA CallRests ==
  ASSUME CacheInv, NEW c \in Callers, NEW r \in CallType,
         r.pc \in {"idle", "fetch", "resolve"},
         call' = [call EXCEPT ![c] = r], cache' = cache, remote' = remote
  PROVE  CacheInv'
<1>1. Sure(r, cache.files)  BY DEF Sure, Fetched, Resolved, Launching, Waiting
<1> QED  BY <1>1, CallGoes

(* A call at rest. *)
LEMMA IdleType ==
  /\ Idle \in CallType /\ Idle.pc = "idle" /\ Idle.answer = None
  /\ \A n \in 0..MaxCalls, answer \in Answers :
       LET r == [Idle EXCEPT !.calls = n, !.answer = answer]
       IN  r \in CallType /\ r.pc = "idle" /\ r.calls = n /\ r.answer = answer
<1>1. Idle \in CallType  BY BoundsAssumption DEF Idle, CallType, Points
<1>2. Idle.pc = "idle" /\ Idle.answer = None  BY DEF Idle
<1> HIDE DEF Idle
<1> QED  BY <1>1, <1>2 DEF CallType

(* A call with a manifest of the cache goes on with it.                    *)
LEMMA CallContinues ==
  ASSUME CacheInv, NEW c \in Callers, NEW pc \in Resolved, call[c].pc \in Resolved,
         call' = [call EXCEPT ![c].pc = pc], cache' = cache, remote' = remote
  PROVE  CacheInv'
<1> DEFINE r == [call[c] EXCEPT !.pc = pc]
<1>1. call[c] \in CallType /\ Sure(call[c], cache.files)  BY DEF CacheInv, CallsInv
<1>2. r \in CallType /\ r.pc = pc /\ r.manifest = call[c].manifest
  BY <1>1 DEF CallType, Points
<1>3. call' = [call EXCEPT ![c] = r]  OBVIOUS
<1>4. Sure(r, cache.files)
  <2>1. pc \notin {"replace", "publish"}  BY DEF Resolved, Launching, Waiting
  <2> QED  BY <1>1, <1>2, <2>1 DEF Sure
<1> HIDE DEF r
<1> QED  BY <1>2, <1>3, <1>4, CallGoes

(* An answer ends a call. *)
LEMMA AnswerKeeps ==
  ASSUME CacheInv, NEW c \in Callers, NEW answer \in Answers, Answer(c, answer),
         cache' = cache, remote' = remote
  PROVE  CacheInv'
<1> DEFINE r == [Idle EXCEPT !.calls = call[c].calls, !.answer = answer]
<1>1. call[c] \in CallType  BY DEF CacheInv, CallsInv
<1>2. call[c].calls \in 0..MaxCalls  BY <1>1 DEF CallType
<1>3. r \in CallType /\ r.pc = "idle"  BY <1>2, IdleType
<1>4. call' = [call EXCEPT ![c] = r]  BY DEF Answer
<1> HIDE DEF r
<1> QED  BY <1>3, <1>4, CallRests

(* Begin. *)
LEMMA BeginCache == ASSUME CacheInv, NEW c \in Callers, Begin(c)  PROVE CacheInv'
<1> DEFINE r == [Idle EXCEPT !.pc = "fetch", !.calls = call[c].calls + 1]
<1>1. call[c] \in CallType /\ call[c].calls < MaxCalls  BY DEF Begin, CacheInv, CallsInv
<1>2. call[c].calls + 1 \in 0..MaxCalls  BY <1>1, BoundsAssumption DEF CallType
<1>3. r \in CallType /\ r.pc = "fetch"  BY <1>2, IdleType DEF CallType, Points
<1>4. call' = [call EXCEPT ![c] = r] /\ cache' = cache /\ remote' = remote  BY DEF Begin
<1> HIDE DEF r
<1> QED  BY <1>3, <1>4, CallRests

(* sync_remote_update, and what resolve_local_update reads. *)
LEMMA SyncCache ==
  ASSUME CacheInv, NEW c \in Callers, SyncFails(c) \/ CallStep(c)
  PROVE  CacheInv'
<1> DEFINE held == call[c]
<1>1. held \in CallType /\ Sure(held, cache.files) /\ held.calls \in 0..MaxCalls
  BY DEF CacheInv, CallsInv, CallType
<1> DEFINE bare == [held EXCEPT !.pc = "resolve", !.manifest = None, !.content = None]
<1>2. bare \in CallType /\ bare.pc = "resolve"  BY <1>1 DEF CallType, Points
<1>3. [call EXCEPT ![c].pc = "resolve", ![c].manifest = None, ![c].content = None]
        = [call EXCEPT ![c] = bare]
  BY DEF CacheInv, CallsInv
<1> HIDE DEF bare
<1>4. CASE SyncFails(c)
  <2>1. call' = [call EXCEPT ![c] = bare] /\ cache' = cache /\ remote' = remote
    BY <1>3, <1>4 DEF SyncFails
  <2> QED  BY <1>2, <2>1, CallRests
<1>5. CASE FetchManifest(c)
  <2> DEFINE m == Releases[remote.announced]
  <2>1. m \in Manifests
    BY <1>5, ReleasesAssumption DEF FetchManifest, CacheInv, PageInv, Manifests
  <2> DEFINE r == [held EXCEPT !.pc = AfterFetch(m),
                               !.manifest = IF AfterFetch(m) = "resolve" THEN None ELSE m]
  <2>2. AfterFetch(m) \in {"resolve", "publish", "download"}  BY DEF AfterFetch
  <2>3. /\ r \in CallType /\ r.pc = AfterFetch(m)
        /\ AfterFetch(m) # "resolve" => r.manifest = m
    BY <1>1, <2>1, <2>2 DEF CallType, Points, Fetched
  <2>4. AfterFetch(m) # "resolve" => m.sound
    BY DEF AfterFetch, Accepted
  <2>5. AfterFetch(m) = "publish" => cache.files[m.file] # None
    BY DEF AfterFetch, Complete, SameSize
  <2>6. call' = [call EXCEPT ![c] = r] /\ cache' = cache /\ remote' = remote
    BY <1>5 DEF FetchManifest, CacheInv, CallsInv
  <2> HIDE DEF r, m
  <2>7. Sure(r, cache.files)
    BY <2>1, <2>2, <2>3, <2>4, <2>5 DEF Sure, Fetched, Resolved, Launching, Waiting
  <2> QED  BY <2>3, <2>6, <2>7, CallGoes
<1>6. CASE Download(c)
  <2>1. held.manifest \in Manifests /\ held.manifest.sound /\ held.manifest.file \in Files
    BY <1>1, <1>6 DEF Download, Sure, Fetched, Files
  <2> DEFINE asset == Asset(held.manifest.file)
  <2>2. asset # None  BY <1>6 DEF Download, Complete, SameSize
  <2>3. asset \in UploadsOf(held.manifest.file)
    BY <2>1, <2>2, AssetIsUpload DEF CacheInv
  <2>4. asset \in Contents
    BY <2>3, ReleasesAssumption DEF UploadsOf, Contents
  <2> DEFINE r == [held EXCEPT !.pc = "replace", !.content = asset]
  <2> HIDE DEF asset
  <2>5. r \in CallType /\ r.pc = "replace" /\ r.content = asset /\ r.manifest = held.manifest
    BY <1>1, <2>4 DEF CallType, Points, Fetched
  <2>6. call' = [call EXCEPT ![c] = r] /\ cache' = cache /\ remote' = remote
    BY <1>6 DEF Download, CacheInv, CallsInv, asset
  <2> HIDE DEF r
  <2>7. Sure(r, cache.files)  BY <2>1, <2>3, <2>5 DEF Sure
  <2> QED  BY <2>5, <2>6, <2>7, CallGoes
<1>7. CASE ReplaceInstaller(c)
  <2> DEFINE f == held.manifest.file
  <2>1. held.manifest \in Manifests /\ held.manifest.sound /\ f \in Files
        /\ held.content \in UploadsOf(f)
    BY <1>1, <1>7 DEF ReplaceInstaller, Sure, Fetched, Files
  <2>2. held.content \in Contents /\ held.content # None
    BY <2>1, ReleasesAssumption, NoneAssumption DEF UploadsOf, Contents
  <2> DEFINE r == [held EXCEPT !.pc = "publish"]
  <2>3. r \in CallType /\ r.pc = "publish" /\ r.manifest = held.manifest
    BY <1>1 DEF CallType, Points, Fetched
  <2>4. /\ call' = [call EXCEPT ![c] = r] /\ remote' = remote
        /\ cache' = [cache EXCEPT !.files[f] = held.content]
    BY <1>7 DEF ReplaceInstaller, CacheInv, CallsInv
  <2> HIDE DEF r, f
  <2>5. /\ cache' \in [latest : Manifests \cup {None}, files : [Files -> Contents \cup {None}]]
        /\ cache'.latest = cache.latest
        /\ cache'.files = [cache.files EXCEPT ![f] = held.content]
    BY <2>1, <2>2, <2>4 DEF CacheInv, FilesInv
  <2>6. cache'.files[f] = held.content /\ \A g \in Files : g # f => cache'.files[g] = cache.files[g]
    BY <2>1, <2>5 DEF CacheInv, FilesInv
  <2>7. FilesInv'
    <3>1. \A g \in Files : cache'.files[g] \in UploadsOf(g) \cup {None}
      BY <2>1, <2>6 DEF CacheInv, FilesInv
    <3>2. cache.latest # None => cache.latest \in Manifests /\ cache.latest.file \in Files
      BY DEF CacheInv, FilesInv, Files
    <3>3. cache'.latest # None =>
            cache'.latest.sound /\ cache'.files[cache'.latest.file] # None
      BY <2>2, <2>5, <2>6, <3>2 DEF CacheInv, FilesInv
    <3> QED  BY <2>5, <3>1, <3>3 DEF FilesInv
  <2>8. PageInv'  BY <2>4 DEF CacheInv, PageInv
  <2>9. \A g \in Files : cache.files[g] # None => cache'.files[g] # None
    BY <2>2, <2>6
  <2>10. Sure(r, cache'.files)
    BY <2>1, <2>2, <2>3, <2>6 DEF Sure, f
  <2> QED  BY <2>3, <2>4, <2>7, <2>8, <2>9, <2>10, CallMoves
<1>8. CASE PublishManifest(c)
  <2>1. /\ held.manifest \in Manifests /\ held.manifest.sound
        /\ cache.files[held.manifest.file] # None
    BY <1>1, <1>8 DEF PublishManifest, Sure, Fetched
  <2>2. /\ call' = [call EXCEPT ![c] = bare] /\ remote' = remote
        /\ cache' = [cache EXCEPT !.latest = held.manifest]
    BY <1>3, <1>8 DEF PublishManifest
  <2> HIDE DEF held
  <2>3. FilesInv'  BY <2>1, <2>2 DEF CacheInv, FilesInv
  <2>4. PageInv'  BY <2>2 DEF CacheInv, PageInv
  <2>5. Sure(bare, cache'.files)  BY <1>2 DEF Sure, Fetched, Resolved, Launching, Waiting
  <2>6. \A g \in Files : cache.files[g] # None => cache'.files[g] # None
    BY <2>2 DEF CacheInv, FilesInv
  <2> QED  BY <1>2, <2>2, <2>3, <2>4, <2>5, <2>6, CallMoves
<1>9. CASE ReadManifest(c)
  <2>1. cache' = cache /\ remote' = remote  BY <1>9 DEF ReadManifest
  <2>2. CASE Answer(c, "current")
    BY <2>1, <2>2, AnswerKeeps DEF Answers
  <2>3. CASE /\ cache.latest # None
             /\ call' = [call EXCEPT ![c].pc = "inspect", ![c].manifest = cache.latest]
    <3> DEFINE r == [held EXCEPT !.pc = "inspect", !.manifest = cache.latest]
    <3>1. cache.latest \in Manifests /\ cache.latest.sound
      BY <2>3 DEF CacheInv, FilesInv
    <3>2. r \in CallType /\ r.pc = "inspect" /\ r.manifest = cache.latest
      BY <1>1, <3>1 DEF CallType, Points, Resolved
    <3>3. call' = [call EXCEPT ![c] = r]  BY <2>3 DEF CacheInv, CallsInv
    <3> HIDE DEF r
    <3>4. Sure(r, cache.files)  BY <3>1, <3>2 DEF Sure
    <3> QED  BY <2>1, <3>2, <3>3, <3>4, CallGoes
  <2> QED  BY <1>9, <2>2, <2>3 DEF ReadManifest
<1>10. CASE InspectInstaller(c)
  <2>1. cache' = cache /\ remote' = remote /\ call[c].pc = "inspect"
    BY <1>10 DEF InspectInstaller
  <2>2. CASE Answer(c, "failed") \/ Answer(c, "available")
    BY <2>1, <2>2, AnswerKeeps DEF Answers
  <2>3. CASE call' = [call EXCEPT ![c].pc = "hash"]
    BY <2>1, <2>3, CallContinues DEF Resolved
  <2> QED  BY <1>10, <2>2, <2>3 DEF InspectInstaller
<1> QED
  BY <1>4, <1>5, <1>6, <1>7, <1>8, <1>9, <1>10 DEF CallStep
(* local_update_install: the call continues with what it holds, or ends.   *)
LEMMA InstallShape ==
  ASSUME NEW i \in Installs, InstallStep(i)
  PROVE  /\ cache' = cache /\ remote' = remote /\ call[i].pc \in Resolved
         /\ \/ \E pc \in Resolved : call' = [call EXCEPT ![i].pc = pc]
            \/ \E answer \in Answers : Answer(i, answer)
<1> USE DEF Resolved, Launching, Waiting, Answers
<1>1. CASE HashInstaller(i)  BY <1>1 DEF HashInstaller
<1>2. CASE Confirm(i)  BY <1>2 DEF Confirm
<1>3. CASE StopServices(i)  BY <1>3 DEF StopServices
<1>4. CASE NoExecutable(i)  BY <1>4 DEF NoExecutable
<1>5. CASE StageInstaller(i)  BY <1>5 DEF StageInstaller, LaunchFails
<1>6. CASE SpawnHelper(i)  BY <1>6 DEF SpawnHelper, LaunchFails
<1>7. CASE PollReady(i)  BY <1>7 DEF PollReady
<1>8. CASE ProbeHelper(i)  BY <1>8 DEF ProbeHelper, LaunchFails
<1>9. CASE KillHelper(i)  BY <1>9 DEF KillHelper, LaunchFails
<1> QED
  BY <1>1, <1>2, <1>3, <1>4, <1>5, <1>6, <1>7, <1>8, <1>9 DEF InstallStep

(* An install that goes on leaves the cache alone.                         *)
LEMMA InstallCache ==
  ASSUME CacheInv, NEW i \in Installs, InstallStep(i)
  PROVE  CacheInv'
<1>1. i \in Callers  BY DEF Callers
<1> QED  BY <1>1, InstallShape, CallContinues, AnswerKeeps

(* Helpers and clean-up leave the cache and the calls alone.               *)
LEMMA HelperShape ==
  ASSUME NEW l \in Launches, HandshakeStep(l) \/ HelperStep(l) \/ CleanUp(l)
  PROVE  cache' = cache /\ remote' = remote /\ call' = call
BY DEF HandshakeStep, HelperStep, ClaimRequest, ReadRequest, OpenParent, MarkReady,
   WaitParent,
  ValidateStage, RunInstaller, StartUpdated, HelperLeaves, CleanUp

(* The end of the application forgets what the calls hold.                 *)
LEMMA EndCache == ASSUME CacheInv, EndApp  PROVE CacheInv'
<1>1. \A c \in Callers :
        LET r == [Idle EXCEPT !.calls = call[c].calls, !.answer = call[c].answer]
        IN  r \in CallType /\ r.pc = "idle"
  <2> TAKE c \in Callers
  <2>1. call[c] \in CallType  BY DEF CacheInv, CallsInv
  <2>2. call[c].calls \in 0..MaxCalls /\ call[c].answer \in Answers \cup {None}
    BY <2>1 DEF CallType
  <2> HIDE DEF Idle
  <2> QED  BY <2>2, IdleType DEF CallType
<1>2. call' \in [Callers -> CallType] /\ \A c \in Callers : call'[c].pc = "idle"
  BY <1>1 DEF EndApp
<1>3. \A c \in Callers : Sure(call'[c], cache.files)
  BY <1>2 DEF Sure, Fetched, Resolved, Launching, Waiting
<1>4. cache' = cache /\ remote' = remote  BY DEF EndApp
<1> QED  BY <1>2, <1>3, <1>4 DEF CacheInv, PageInv, FilesInv, CallsInv

(* Every step keeps the cache.                                             *)
LEMMA CacheStep == CacheInv /\ [Next]_vars => CacheInv'
<1> SUFFICES ASSUME CacheInv, [Next]_vars  PROVE CacheInv'
  OBVIOUS
<1>1. ASSUME cache' = cache, call' = call, PageInv'  PROVE CacheInv'
  BY <1>1 DEF CacheInv, FilesInv, CallsInv
<1>2. CASE Upload \/ Announce
  <2>1. remote' \in [uploaded : 0..Len(Releases), announced : Nat] /\ PageInv'
    <3>1. Len(Releases) \in Nat  BY ReleasesAssumption
    <3> QED  BY <1>2, <3>1 DEF Upload, Announce, CacheInv, PageInv
  <2>2. cache' = cache /\ call' = call  BY <1>2 DEF Upload, Announce
  <2> QED  BY <2>1, <2>2, <1>1
<1>3. CASE Exit \/ Lost  BY <1>3, EndCache DEF Exit, Lost
<1>4. ASSUME cache' = cache, call' = call, remote' = remote  PROVE CacheInv'
  BY <1>1, <1>4 DEF CacheInv, PageInv
<1>5. CASE StartAgain  BY <1>4, <1>5 DEF StartAgain
<1>6. CASE \E c \in Callers : Begin(c) \/ SyncFails(c) \/ CallStep(c)
  BY <1>6, BeginCache, SyncCache
<1>7. CASE \E i \in Installs : InstallStep(i)  BY <1>7, InstallCache
<1>8. CASE \E l \in Launches : HandshakeStep(l) \/ HelperStep(l) \/ CleanUp(l)
  BY <1>4, <1>8, HelperShape
<1>9. CASE UNCHANGED vars  BY <1>4, <1>9 DEF vars
<1> QED  BY <1>2, <1>3, <1>5, <1>6, <1>7, <1>8, <1>9 DEF Next

(* An empty cache to begin with. *)
LEMMA CacheStarts == Init => CacheInv
<1> SUFFICES ASSUME Init  PROVE CacheInv
  OBVIOUS
<1>1. PageInv /\ FilesInv
  <2>1. Len(Releases) \in Nat  BY ReleasesAssumption
  <2> QED  BY <2>1 DEF Init, PageInv, FilesInv
<1>2. CallsInv
  BY IdleType DEF Init, CallsInv, Sure, Fetched, Resolved, Launching, Waiting, Idle
<1> QED  BY <1>1, <1>2 DEF CacheInv

(* The application reads no manifest whose installer was never there in    *)
(* full (sync_remote_update, publish_remote_manifest), whatever is         *)
(* released, however often again, and however many callers interleave.     *)
THEOREM ManifestsHaveInstallers == Spec => []PublishedIsCached
<1>1. CacheInv => PublishedIsCached
  <2> SUFFICES ASSUME CacheInv, cache.latest # None
               PROVE  \E n \in DOMAIN Uploads :
                        /\ Releases[n].file = cache.latest.file
                        /\ cache.files[cache.latest.file] = Uploads[n]
    BY DEF PublishedIsCached
  <2>1. cache.latest.file \in Files  BY DEF CacheInv, FilesInv, Files
  <2>2. cache.files[cache.latest.file] \in UploadsOf(cache.latest.file)
    BY <2>1 DEF CacheInv, FilesInv
  <2> QED  BY <2>2, ReleasesAssumption DEF UploadsOf
<1> QED  BY <1>1, CacheStarts, CacheStep, PTL DEF Spec
-----------------------------------------------------------------------------
(* Launches *)

USE DEF Launch, HelperAt, HelperAlive, ParentAlive

(* The launch of a call in progress has a number. *)
LEMMA LaunchExists ==
  ASSUME Inv, NEW i \in Installs
  PROVE  /\ i \in Callers /\ call[i] \in CallType /\ call[i].calls \in 0..MaxCalls
         /\ call[i].pc # "idle" \/ call[i].answer # None => Launch(i) \in Launches
<1>1. i \in Callers  BY DEF Callers
<1>2. call[i] \in CallType  BY <1>1 DEF Inv, CacheInv, CallsInv
<1>3. call[i].calls \in 0..MaxCalls  BY <1>2 DEF CallType
<1> QED
  BY <1>1, <1>2, <1>3, BoundsAssumption DEF Inv, LaunchInv, RunningInv, Launches

(* Launches of different callers differ, and those of one in their number. *)
LEMMA LaunchParts ==
  ASSUME NEW l \in Launches
  PROVE  l[1] \in Installs /\ l[2] \in 1..MaxCalls /\ l = <<l[1], l[2]>>
BY DEF Launches

(* No helper, no life. *)
LEMMA NoHelperIsDead == NoHelper.pc = None /\ NoHelper \in HelperType /\ NoStage \in StageType
BY DEF NoHelper, HelperType, NoStage, StageType

(* The application goes on as the one it was. *)
SameApp ==
  /\ app' \in AppType
  /\ app'.running = app.running /\ app'.instance = app.instance
  /\ app'.version = app.version /\ app'.quitting = app.quitting

(* A call goes on, short of its launch or within its wait for the helper.  *)
LEMMA CallSteps ==
  ASSUME Inv, NEW c \in Callers, NEW r \in CallType, call' = [call EXCEPT ![c] = r],
         SameApp, UNCHANGED <<stage, helper, cleanup>>,
         call[c].pc # "idle", r.calls = call[c].calls,
         r.pc # "idle" => r.answer = None,
         r.pc \in Resolved => Newer(r.manifest),
         r.pc \in Waiting <=> call[c].pc \in Waiting,
         r.pc \in Launching => call[c].pc \in Launching
  PROVE  LaunchInv'
<1> USE DEF Inv, LaunchInv
<1>1. \A d \in Callers : call'[d] = IF d = c THEN r ELSE call[d]
  BY DEF CacheInv, CallsInv
<1>2. \A d \in Callers : call'[d].calls = call[d].calls  BY <1>1
<1>3. Installs \subseteq Callers  BY DEF Callers
<1>4. \A i \in Installs : Launch(i)' = Launch(i)  BY <1>2, <1>3
<1>5. \A l \in Launches : /\ StageValid(l)' <=> StageValid(l)
                          /\ Good(l)' <=> Good(l)
  BY DEF StageValid, Complete, SameSize, SameContent, Good, SameApp
<1>6. LaunchTypes'  BY DEF LaunchTypes, SameApp
<1>7. RunningInv'
  <2>1. app.running /\ call[c].calls > 0  BY DEF RunningInv
  <2>2. \A m : Newer(m)' <=> Newer(m)  BY DEF Newer, SameApp
  <2>3. \A m : (m.version > app'.version) <=> (m.version > app.version)  BY DEF SameApp
  <2> QED  BY <1>1, <2>1, <2>3 DEF RunningInv, Newer, SameApp
<1>8. StageInv'
  <2> SUFFICES ASSUME NEW i \in Installs
               PROVE  StageFits(i)'
    BY DEF StageInv
  <2>1. call[i].pc # "idle" => Launch(i) \in Launches  BY LaunchExists
  <2>2. Launching \subseteq Points \ {"idle"} /\ "idle" \notin Waiting
    BY DEF Launching, Waiting, Points, Resolved
  <2>3. call'[i].pc \in Launching => call[i].pc \in Launching  BY <1>1, <1>3
  <2>4. call'[i].pc \notin Waiting \cup {"idle"} => call[i].pc \notin Waiting \cup {"idle"}
    BY <1>1, <1>3
  <2>5. call'[i].pc \in Waiting => call[i].pc \in Waiting  BY <1>1, <1>3
  <2> QED
    BY <1>2, <1>3, <1>4, <1>5, <2>1, <2>2, <2>3, <2>4, <2>5 DEF StageInv
<1>9. CleanInv'  BY DEF CleanInv, SameApp
<1>10. QuitInv'
  <2> SUFFICES ASSUME app.quitting  PROVE QuitInv'
    BY DEF QuitInv, SameApp
  <2>1. PICK i \in Installs : /\ call[i].pc = "idle" /\ Launch(i) \in Launches
                             /\ stage[Launch(i)].ready /\ Good(Launch(i))
    BY DEF QuitInv
  <2>2. call'[i] = call[i]  BY <2>1, <1>1, <1>3
  <2> QED  BY <2>1, <2>2, <1>4, <1>5 DEF QuitInv, SameApp
<1>11. HelperInv'
  <2> SUFFICES ASSUME NEW l \in Launches, Active(l)
               PROVE  HelperFits(l)'
    BY DEF HelperInv, Active
  <2>1. l[1] \in Installs  BY LaunchParts
  <2>2. Awaited(l[1]) => Awaited(l[1])'
    <3>1. CASE l[1] = c  BY <3>1, <1>1, <1>3, <2>1 DEF Awaited
    <3>2. CASE l[1] # c  BY <3>2, <1>1, <1>3, <2>1 DEF Awaited, SameApp
    <3> QED  BY <3>1, <3>2
  <2> QED  BY <1>4, <1>5, <2>1, <2>2 DEF HelperInv, SameApp
<1>12. FailedInv'
  <2> SUFFICES ASSUME NEW i \in Installs, call'[i].answer = "failed"
               PROVE  ~HelperAlive(Launch(i))'
    BY DEF FailedInv
  <2>1. CASE i # c
    BY <2>1, <1>1, <1>3, <1>4 DEF FailedInv
  <2>2. CASE i = c /\ call[i].pc \notin Waiting
    <3>1. helper[Launch(i)] = NoHelper  BY <2>2 DEF StageInv
    <3> QED  BY <3>1, <1>4, NoHelperIsDead
  <2>3. CASE i = c /\ call[i].pc \in Waiting
    <3>1. r.pc # "idle" /\ r.answer = None  BY <2>3 DEF Waiting
    <3> QED  BY <2>3, <3>1, <1>1, <1>3, NoneAssumption DEF Answers
  <2> QED  BY <2>1, <2>2, <2>3
<1> QED
  BY <1>6, <1>7, <1>8, <1>9, <1>10, <1>11, <1>12

(* A new call begins: it has a launch of its own that no helper serves,    *)
(* and the helper of an earlier one that has not finished would be awaited *)
(* by a call that is not idle, or by an application that quits.            *)
LEMMA BeginStep ==
  ASSUME Inv, NEW c \in Callers, Begin(c)  PROVE LaunchInv'
<1> USE DEF Inv, LaunchInv
<1> DEFINE r == [Idle EXCEPT !.pc = "fetch", !.calls = call[c].calls + 1]
<1>1. /\ app.running /\ call[c].pc = "idle" /\ ~app.quitting /\ call[c].calls < MaxCalls
      /\ call' = [call EXCEPT ![c] = r] /\ UNCHANGED <<stage, helper, app, cleanup>>
  BY DEF Begin
<1>2. call[c] \in CallType /\ call[c].calls \in 0..MaxCalls
  BY DEF CacheInv, CallsInv, CallType
<1>3. r.pc = "fetch" /\ r.calls = call[c].calls + 1 /\ r.answer = None
  <2> HIDE DEF Idle
  <2> QED  BY IdleType DEF CallType
<1> HIDE DEF r
<1>4. \A d \in Callers : call'[d] = IF d = c THEN r ELSE call[d]
  BY <1>1 DEF CacheInv, CallsInv
<1>5. Installs \subseteq Callers  BY DEF Callers
<1>6. "fetch" \notin Resolved \cup Waiting \cup Launching \cup {"idle"}
  BY DEF Resolved, Waiting, Launching
<1>7. \A l \in Launches : (StageValid(l)' <=> StageValid(l)) /\ (Good(l)' <=> Good(l))
  BY <1>1 DEF StageValid, Complete, SameSize, SameContent, Good
<1>8. \A i \in Installs : i # c => call'[i] = call[i] /\ Launch(i)' = Launch(i)
  BY <1>4, <1>5
<1>9. LaunchTypes' /\ CleanInv' /\ QuitInv'
  BY <1>1 DEF LaunchTypes, CleanInv, QuitInv
<1>10. RunningInv'
  BY <1>1, <1>2, <1>3, <1>4, <1>6 DEF RunningInv, Newer
<1>11. StageInv'
  <2> SUFFICES ASSUME NEW i \in Installs
               PROVE  StageFits(i)'
    BY DEF StageInv
  <2>1. CASE i = c
    <3>1. call'[i] = r /\ Launch(i)' = <<c, call[c].calls + 1>>
      BY <2>1, <1>3, <1>4, <1>5
    <3>2. \A n \in 1..MaxCalls : n > call[c].calls => helper[<<c, n>>] = NoHelper
      BY <2>1 DEF StageInv
    <3>3. call[c].calls + 1 \in 1..MaxCalls  BY <1>1, <1>2, BoundsAssumption
    <3> QED  BY <1>1, <1>2, <1>3, <1>6, <2>1, <3>1, <3>2, <3>3
  <2>2. CASE i # c
    <3>1. call[i].pc \in Launching => Launch(i) \in Launches
      BY LaunchExists DEF Launching, Waiting
    <3> QED  BY <2>2, <1>1, <1>7, <1>8, <3>1 DEF StageInv
  <2> QED  BY <2>1, <2>2
<1>12. HelperInv'
  <2> SUFFICES ASSUME NEW l \in Launches, Active(l)
               PROVE  HelperFits(l)'
    BY <1>1 DEF HelperInv, Active
  <2>1. l[1] \in Installs  BY LaunchParts
  <2>2. l[1] # c  BY <1>1 DEF HelperInv, Awaited, Waiting
  <2> QED  BY <1>1, <1>7, <1>8, <2>1, <2>2 DEF HelperInv, Awaited
<1>13. FailedInv'
  BY <1>1, <1>3, <1>4, <1>5, <1>8, NoneAssumption DEF FailedInv, Answers
<1> QED
  BY <1>9, <1>10, <1>11, <1>12, <1>13

(* The application did not start its helper, or it is gone: the stage is   *)
(* removed and the call has failed.                                        *)
LEMMA LaunchFailsStep ==
  ASSUME Inv, NEW i \in Installs, call[i].pc \in Resolved, LaunchFails(i),
         cleanup' = cleanup, helper' \in [Launches -> HelperType],
         \A l \in Launches \ {Launch(i)} : helper'[l] = helper[l],
         helper'[Launch(i)].pc \in {None, "exited"},
         helper'[Launch(i)].pc = None => helper[Launch(i)].pc = None
  PROVE  LaunchInv'
<1> USE DEF Inv, LaunchInv
<1> DEFINE r == [Idle EXCEPT !.calls = call[i].calls, !.answer = "failed"]
<1> DEFINE gone == [NoStage EXCEPT !.request =
                      IF stage[Launch(i)].request = "claimed" THEN "claimed" ELSE None]
<1>1. /\ call' = [call EXCEPT ![i] = r] /\ stage' = [stage EXCEPT ![Launch(i)] = gone]
      /\ app' = [app EXCEPT !.background = TRUE]
  BY DEF LaunchFails, Answer
<1>2. call[i].pc # "idle"  BY DEF Resolved, Launching, Waiting
<1>3. /\ call[i] \in CallType /\ call[i].calls \in 0..MaxCalls /\ Launch(i) \in Launches
      /\ i \in Callers
  BY <1>2, LaunchExists
<1>4. r.pc = "idle" /\ r.calls = call[i].calls /\ r.answer = "failed"
  <2> HIDE DEF Idle
  <2> QED  BY <1>3, IdleType DEF Answers
<1>5. gone \in StageType /\ gone.parent = 0
  <2>1. NoStage.parent = 0  BY DEF NoStage
  <2> QED  BY <2>1, NoHelperIsDead DEF StageType
<1> HIDE DEF r, gone
<1>6. \A d \in Callers : call'[d] = IF d = i THEN r ELSE call[d]
  BY <1>1 DEF CacheInv, CallsInv
<1>7. Installs \subseteq Callers  BY DEF Callers
<1>8. \A j \in Installs : Launch(j)' = Launch(j)
  BY <1>4, <1>6, <1>7
<1>9. stage' \in [Launches -> StageType] /\ stage'[Launch(i)] = gone
      /\ \A l \in Launches \ {Launch(i)} : stage'[l] = stage[l]
  BY <1>1, <1>3, <1>5 DEF LaunchTypes
<1>10. SameApp  BY <1>1 DEF LaunchTypes, AppType, SameApp
<1>11. \A l \in Launches \ {Launch(i)} : (StageValid(l)' <=> StageValid(l)) /\ (Good(l)' <=> Good(l))
  BY <1>9, <1>10 DEF StageValid, Complete, SameSize, SameContent, Good, SameApp
<1>12. \A j \in Installs : j # i => Launch(j) # Launch(i)  OBVIOUS
<1>13. LaunchTypes'
  BY <1>5, <1>9, <1>10 DEF LaunchTypes, SameApp, AppType
<1>14. RunningInv'
  <2>1. "idle" \notin Resolved  BY DEF Resolved, Launching, Waiting
  <2>2. call[i].calls > 0  BY <1>2, <1>3 DEF RunningInv
  <2> QED  BY <1>4, <1>6, <1>10, <2>1, <2>2 DEF RunningInv, Newer, SameApp
<1>15. StageInv'
  <2> SUFFICES ASSUME NEW j \in Installs
               PROVE  StageFits(j)'
    BY DEF StageInv
  <2>1. \A n \in 1..MaxCalls : n > call[j].calls => <<j, n>> \in Launches \ {Launch(i)}
    BY <1>3 DEF Launches
  <2>2. \A n \in 1..MaxCalls : n > call'[j].calls => helper'[<<j, n>>] = NoHelper
    BY <2>1, <1>4, <1>6, <1>7 DEF StageInv
  <2>3. CASE j = i
    <3>1. "idle" \notin Launching /\ "idle" \notin Waiting  BY DEF Launching, Waiting
    <3> QED  BY <2>2, <2>3, <3>1, <1>4, <1>6, <1>7
  <2>4. CASE j # i
    <3>1. call'[j] = call[j]  BY <2>4, <1>6, <1>7
    <3>2. call[j].pc # "idle" => Launch(j) \in Launches \ {Launch(i)}
      BY <2>4, <1>12, LaunchExists
    <3>3. "idle" \notin Launching /\ "idle" \notin Waiting  BY DEF Launching, Waiting
    <3> QED  BY <2>2, <3>1, <3>2, <3>3, <1>8, <1>11 DEF StageInv
  <2> QED  BY <2>3, <2>4
<1>16. CleanInv'
  <2> SUFFICES ASSUME cleanup.request \in Launches
               PROVE  /\ helper'[cleanup.request].pc \in {"leaving", "exited"}
                      /\ stage'[cleanup.request].parent < app'.instance
    BY DEF CleanInv
  <2>1. CASE cleanup.request = Launch(i)
    <3>1. app'.instance > 0  BY <1>10 DEF SameApp, AppType
    <3>2. helper[Launch(i)].pc # None
      BY <2>1, NoneAssumption DEF CleanInv, HelperPoints
    <3> QED  BY <2>1, <1>5, <1>9, <3>1, <3>2
  <2>2. CASE cleanup.request # Launch(i)
    BY <2>2, <1>9, <1>10 DEF CleanInv, SameApp
  <2> QED  BY <2>1, <2>2
<1>17. QuitInv'
  <2> SUFFICES ASSUME app.quitting  PROVE QuitInv'
    BY <1>10 DEF QuitInv, SameApp
  <2>1. PICK j \in Installs : /\ call[j].pc = "idle" /\ Launch(j) \in Launches
                             /\ stage[Launch(j)].ready /\ Good(Launch(j))
    BY DEF QuitInv
  <2>2. j # i  BY <2>1, <1>2
  <2>3. call'[j] = call[j] /\ Launch(j) # Launch(i)  BY <2>2, <1>6, <1>7, <1>12
  <2> QED  BY <2>1, <2>3, <1>8, <1>9, <1>10, <1>11 DEF QuitInv, SameApp
<1>18. HelperInv'
  <2> SUFFICES ASSUME NEW l \in Launches, Active(l)'
               PROVE  HelperFits(l)'
    BY DEF HelperInv
  <2>1. l # Launch(i)  BY DEF Active
  <2>2. Active(l) /\ helper'[l] = helper[l]  BY <2>1 DEF Active
  <2>3. l[1] \in Installs  BY LaunchParts
  <2>4. l[1] # i  BY <2>1, <2>2 DEF HelperInv
  <2>5. Awaited(l[1]) => Awaited(l[1])'
    BY <2>3, <2>4, <1>6, <1>7, <1>10 DEF Awaited, SameApp
  <2> QED  BY <2>1, <2>2, <2>3, <2>5, <1>8, <1>9, <1>10, <1>11 DEF HelperInv, SameApp
<1>19. FailedInv'
  <2> SUFFICES ASSUME NEW j \in Installs, call'[j].answer = "failed"
               PROVE  helper'[Launch(j)].pc \in {None, "exited"}
    BY <1>8 DEF FailedInv
  <2>1. CASE j = i  BY <2>1
  <2>2. CASE j # i
    <3>1. call[j].answer = "failed"  BY <2>2, <1>6, <1>7
    <3>2. Launch(j) \in Launches \ {Launch(i)}
      BY <2>2, <3>1, <1>12, LaunchExists, NoneAssumption DEF Answers
    <3> QED  BY <3>1, <3>2 DEF FailedInv
  <2> QED  BY <2>1, <2>2
<1> QED
  BY <1>13, <1>14, <1>15, <1>16, <1>17, <1>18, <1>19

(* The same, said of the call as it is after the step.                     *)
LEMMA CallRunsOn ==
  ASSUME Inv, CacheInv', NEW c \in Callers, call' = [call EXCEPT ![c] = call'[c]],
         SameApp, UNCHANGED <<stage, helper, cleanup>>,
         call[c].pc # "idle", call'[c].calls = call[c].calls,
         call'[c].pc # "idle" => call'[c].answer = None,
         call'[c].pc \in Resolved => Newer(call'[c].manifest),
         call'[c].pc \in Waiting <=> call[c].pc \in Waiting,
         call'[c].pc \in Launching => call[c].pc \in Launching
  PROVE  LaunchInv'
<1>1. call'[c] \in CallType  BY DEF CacheInv, CallsInv
<1>2. \E r \in CallType : r = call'[c]  BY <1>1
<1>3. PICK r \in CallType : r = call'[c]  BY <1>2
<1> QED  BY <1>3, CallSteps

(* A call that has no helper to wait for ends with an answer.              *)
LEMMA CallEnds ==
  ASSUME Inv, CacheInv', NEW c \in Callers, NEW answer \in Answers, Answer(c, answer),
         SameApp, UNCHANGED <<stage, helper, cleanup>>,
         call[c].pc \notin Waiting \cup {"idle"}
  PROVE  LaunchInv'
<1> DEFINE r == [Idle EXCEPT !.calls = call[c].calls, !.answer = answer]
<1>1. call[c].calls \in 0..MaxCalls  BY DEF Inv, CacheInv, CallsInv, CallType
<1>2. r \in CallType /\ r.pc = "idle" /\ r.calls = call[c].calls  BY <1>1, IdleType
<1>3. call' = [call EXCEPT ![c] = r]  BY DEF Answer
<1>4. "idle" \notin Resolved \cup Waiting \cup Launching  BY DEF Resolved, Launching, Waiting
<1> HIDE DEF r
<1> QED  BY <1>2, <1>3, <1>4, CallSteps

(* A call goes on with what it holds. *)
LEMMA CallAdvances ==
  ASSUME Inv, CacheInv', NEW c \in Callers, NEW pc \in Resolved,
         call' = [call EXCEPT ![c].pc = pc],
         SameApp, UNCHANGED <<stage, helper, cleanup>>,
         call[c].pc \in Resolved,
         pc \in Waiting <=> call[c].pc \in Waiting,
         pc \in Launching => call[c].pc \in Launching
  PROVE  LaunchInv'
<1>1. call[c] \in CallType  BY DEF Inv, CacheInv, CallsInv
<1>2. /\ call'[c].pc = pc /\ call'[c].calls = call[c].calls
      /\ call'[c].answer = call[c].answer /\ call'[c].manifest = call[c].manifest
  BY <1>1 DEF CallType, Inv, CacheInv, CallsInv
<1>3. call' = [call EXCEPT ![c] = call'[c]]
  BY DEF Inv, CacheInv, CallsInv
<1>4. call[c].pc # "idle"  BY DEF Resolved, Launching, Waiting
<1>5. call[c].answer = None /\ Newer(call[c].manifest)
  BY <1>4 DEF Inv, LaunchInv, RunningInv
<1>6. Newer(call'[c].manifest)  BY <1>2, <1>5 DEF Newer
<1> QED  BY <1>2, <1>3, <1>4, <1>5, <1>6, CallRunsOn

(* An unchanged application is the same. *)
LEMMA AppStays == ASSUME Inv, app' = app  PROVE SameApp
BY DEF Inv, LaunchInv, LaunchTypes, SameApp

(* sync_remote_update and resolve_local_update. *)
LEMMA SyncStep ==
  ASSUME Inv, CacheInv', NEW c \in Callers, SyncFails(c) \/ CallStep(c)
  PROVE  LaunchInv'
<1>1. UNCHANGED <<stage, helper, app, cleanup>>
  BY DEF CallStep, SyncFails, FetchManifest, Download, ReplaceInstaller,
     PublishManifest,
         ReadManifest, InspectInstaller
<1>2. SameApp  BY <1>1, AppStays
<1>3. /\ call[c] \in CallType
      /\ call[c].pc \in {"fetch", "download", "replace", "publish", "resolve", "inspect"}
  BY DEF CallStep, SyncFails, FetchManifest, Download, ReplaceInstaller,
     PublishManifest,
         ReadManifest, InspectInstaller, Inv, CacheInv, CallsInv
<1>4. call[c].pc \notin Waiting \cup Launching \cup {"idle"} /\ call[c].answer = None
  BY <1>3 DEF Waiting, Launching, Inv, LaunchInv, RunningInv
<1>5. CASE SyncFails(c) \/ FetchManifest(c) \/ Download(c) \/ ReplaceInstaller(c)
             \/ PublishManifest(c)
  <2>1. call'[c].pc \in {"resolve", "download", "publish", "replace"}
    BY <1>3, <1>5 DEF SyncFails, FetchManifest, Download, ReplaceInstaller,
       PublishManifest, AfterFetch, Inv, CacheInv, CallsInv, CallType
  <2>2. call'[c].calls = call[c].calls /\ call'[c].answer = call[c].answer
    BY <1>3, <1>5 DEF SyncFails, FetchManifest, Download, ReplaceInstaller,
       PublishManifest, Inv, CacheInv, CallsInv, CallType
  <2>3. call' = [call EXCEPT ![c] = call'[c]]
    BY <1>5 DEF SyncFails, FetchManifest, Download, ReplaceInstaller,
       PublishManifest, Inv, CacheInv, CallsInv
  <2>4. call'[c].pc \notin Resolved \cup Waiting \cup Launching \cup {"idle"}
    BY <2>1 DEF Resolved, Waiting, Launching
  <2> QED  BY <1>1, <1>2, <1>4, <2>2, <2>3, <2>4, CallRunsOn
<1>6. CASE ReadManifest(c)
  <2>1. CASE Answer(c, "current")
    BY <1>1, <1>2, <1>4, <2>1, CallEnds DEF Answers
  <2>2. CASE ~Answer(c, "current")
    <3>1. Newer(cache.latest) /\ call' = [call EXCEPT ![c].pc = "inspect", ![c].manifest = cache.latest]
      BY <1>6, <2>2 DEF ReadManifest
    <3>2. /\ call'[c].pc = "inspect" /\ call'[c].manifest = cache.latest
          /\ call'[c].calls = call[c].calls /\ call'[c].answer = call[c].answer
      BY <1>3, <3>1 DEF Inv, CacheInv, CallsInv, CallType
    <3>3. call' = [call EXCEPT ![c] = call'[c]]
      BY <3>1 DEF Inv, CacheInv, CallsInv
    <3>4. Newer(call'[c].manifest)  BY <3>1, <3>2 DEF Newer
    <3>5. "inspect" \notin Waiting \cup Launching \cup {"idle"}  BY DEF Waiting, Launching
    <3> QED  BY <1>1, <1>2, <1>4, <3>2, <3>3, <3>4, <3>5, CallRunsOn
  <2> QED  BY <2>1, <2>2
<1>7. CASE InspectInstaller(c)
  <2>1. CASE Answer(c, "failed")
    BY <1>1, <1>2, <1>4, <2>1, CallEnds DEF Answers
  <2>2. CASE Answer(c, "available")
    BY <1>1, <1>2, <1>4, <2>2, CallEnds DEF Answers
  <2>3. CASE call' = [call EXCEPT ![c].pc = "hash"]
    <3>1. call[c].pc \in Resolved /\ "hash" \in Resolved
      BY <1>7 DEF InspectInstaller, Resolved
    <3>2. "hash" \notin Waiting \cup Launching  BY DEF Waiting, Launching
    <3> QED  BY <1>1, <1>2, <1>4, <2>3, <3>1, <3>2, CallAdvances
  <2> QED  BY <1>7, <2>1, <2>2, <2>3 DEF InspectInstaller
<1> QED  BY <1>5, <1>6, <1>7 DEF CallStep

(* Where an install is in its own steps. *)
LEMMA ResolvedPoints ==
  /\ {"hash", "confirm", "close", "stage"} \cap (Waiting \cup Launching \cup {"idle"}) = {}
  /\ {"hash", "confirm", "close", "stage"} \subseteq Resolved
  /\ Waiting \subseteq Launching /\ Launching \subseteq Resolved
  /\ "spawn" \in Launching \ Waiting /\ "idle" \notin Resolved
BY DEF Waiting, Launching, Resolved

(* The user's confirmation, and the services that are stopped.             *)
LEMMA PrepareStep ==
  ASSUME Inv, CacheInv', NEW i \in Installs,
         HashInstaller(i) \/ Confirm(i) \/ StopServices(i) \/ NoExecutable(i)
  PROVE  LaunchInv'
<1>1. UNCHANGED <<stage, helper, cleanup>> /\ i \in Callers
  BY DEF HashInstaller, Confirm, StopServices, NoExecutable, Callers
<1>2. SameApp
  BY DEF HashInstaller, Confirm, StopServices, NoExecutable, Inv, LaunchInv,
     LaunchTypes,
         AppType, SameApp
<1>3. call[i].pc \in {"hash", "confirm", "close", "stage"}
  BY DEF HashInstaller, Confirm, StopServices, NoExecutable
<1>4. \/ \E answer \in Answers : Answer(i, answer)
      \/ \E pc \in {"confirm", "close", "stage"} : call' = [call EXCEPT ![i].pc = pc]
  BY DEF HashInstaller, Confirm, StopServices, NoExecutable, Answers
<1>5. CASE \E answer \in Answers : Answer(i, answer)
  BY <1>1, <1>2, <1>3, <1>5, ResolvedPoints, CallEnds
<1>6. CASE \E pc \in {"confirm", "close", "stage"} : call' = [call EXCEPT ![i].pc = pc]
  BY <1>1, <1>2, <1>3, <1>6, ResolvedPoints, CallAdvances
<1> QED  BY <1>4, <1>5, <1>6

(* The stage is the confirmed update's and of this application; the launch *)
(* has no helper yet.                                                      *)
LEMMA StageStep ==
  ASSUME Inv, CacheInv', NEW i \in Installs, StageInstaller(i)
  PROVE  LaunchInv'
<1> USE DEF Inv, LaunchInv
<1>1. call[i].pc = "stage" /\ call[i].pc \in Resolved /\ UNCHANGED <<helper, cleanup>>
      /\ call[i].pc \notin Waiting \cup {"idle"}
  BY ResolvedPoints DEF StageInstaller
<1>2. /\ call[i] \in CallType /\ call[i].calls \in 0..MaxCalls /\ Launch(i) \in Launches
      /\ i \in Callers
  BY <1>1, LaunchExists
<1>3. helper[Launch(i)] = NoHelper  BY <1>1 DEF StageInv
<1>4. CASE LaunchFails(i)
  BY <1>1, <1>2, <1>3, <1>4, NoHelperIsDead, LaunchFailsStep DEF LaunchTypes
<1>5. CASE ~LaunchFails(i)
  <2> DEFINE m == call[i].manifest
  <2> DEFINE file == cache.files[m.file]
  <2> DEFINE new == [installer |-> file, request |-> "json", manifest |-> m,
                     ready |-> FALSE, parent |-> app.instance, current |-> app.version]
  <2>1. /\ StagedGood(i) /\ stage' = [stage EXCEPT ![Launch(i)] = new] /\ app' = app
        /\ call' = [call EXCEPT ![i].pc = "spawn"]
    BY <1>5 DEF StageInstaller
  <2>2. m \in Manifests /\ m.sound /\ m.file \in Files /\ m.version > app.version
    BY <1>1, <1>2 DEF CacheInv, CallsInv, Sure, RunningInv, Newer, Files
  <2>3. file \in Contents /\ file # None /\ file.sha = m.sha
    BY <2>1, <2>2 DEF StagedGood, SameContent, CacheInv, FilesInv
  <2>4. Complete(file, m)
    <3>1. PICK n \in DOMAIN Uploads : file = Uploads[n]  BY <2>3 DEF Contents
    <3>2. m.bytes = Uploads[n].bytes
      <4> HIDE DEF m, file
      <4> QED  BY <3>1, <2>2, <2>3, ReleasesAssumption
    <3> QED  BY <3>1, <3>2, <2>3 DEF Complete, SameSize, SameContent
  <2>5. m # None  BY <2>2, NoneAssumption
  <2>6. app.instance \in Nat \ {0} /\ app.version \in Nat  BY DEF LaunchTypes, AppType
  <2>7. new \in StageType
    BY <2>2, <2>3, <2>6 DEF StageType
  <2>8. /\ new.installer = file /\ new.manifest = m /\ new.parent = app.instance
        /\ new.current = app.version
    OBVIOUS
  <2> HIDE DEF new
  <2>9. stage' \in [Launches -> StageType] /\ stage'[Launch(i)] = new
        /\ \A l \in Launches \ {Launch(i)} : stage'[l] = stage[l]
    BY <2>1, <2>7, <1>2 DEF LaunchTypes
  <2>10. /\ \A d \in Callers : call'[d].pc = IF d = i THEN "spawn" ELSE call[d].pc
         /\ \A d \in Callers : call'[d].calls = call[d].calls /\ call'[d].answer = call[d].answer
                               /\ call'[d].manifest = call[d].manifest
    BY <2>1, <1>2 DEF CacheInv, CallsInv, CallType
  <2>11. Installs \subseteq Callers  BY DEF Callers
  <2>12. \A j \in Installs : Launch(j)' = Launch(j)  BY <2>10, <2>11
  <2>13. \A l \in Launches \ {Launch(i)} : (StageValid(l)' <=> StageValid(l)) /\ (Good(l)' <=> Good(l))
    BY <2>1, <2>9 DEF StageValid, Complete, SameSize, SameContent, Good
  <2>14. new.manifest # None /\ new.manifest.sound /\ new.manifest.version > new.current
         /\ Complete(new.installer, new.manifest) /\ new.parent = app.instance
    BY <2>2, <2>4, <2>5, <2>8
  <2>15. Good(Launch(i))'
    BY <2>1, <2>9, <2>12, <2>14 DEF Good, StageValid, Complete, SameSize, SameContent
  <2> HIDE DEF m, file
  <2>16. LaunchTypes'
    BY <2>1, <2>6, <2>8, <2>9, <1>1 DEF LaunchTypes
  <2>17. RunningInv'
    <3> SUFFICES ASSUME NEW c \in Callers
                 PROVE  /\ call'[c].pc # "idle" => app'.running /\ call'[c].answer = None
                        /\ call'[c].pc # "idle" \/ call'[c].answer # None => call'[c].calls > 0
                        /\ call'[c].pc \in Resolved => call'[c].manifest.version > app'.version
      BY DEF RunningInv, Newer
    <3>1. CASE c = i  BY <3>1, <1>1, <2>1, <2>10 DEF RunningInv, Newer
    <3>2. CASE c # i  BY <3>2, <2>1, <2>10 DEF RunningInv, Newer
    <3> QED  BY <3>1, <3>2
  <2>18. StageInv'
    <3> SUFFICES ASSUME NEW j \in Installs
                 PROVE  StageFits(j)'
      BY DEF StageInv
    <3>1. \A n \in 1..MaxCalls : n > call'[j].calls => helper'[<<j, n>>] = NoHelper
      BY <1>1, <2>10, <2>11 DEF StageInv
    <3>2. CASE j = i
      BY <3>1, <3>2, <1>1, <1>3, <2>10, <2>11, <2>12, <2>15, ResolvedPoints
    <3>3. CASE j # i
      <4>1. call'[j].pc = call[j].pc  BY <3>3, <2>10, <2>11
      <4>2. call[j].pc # "idle" => Launch(j) \in Launches \ {Launch(i)}
        BY <3>3, LaunchExists
      <4> QED  BY <3>1, <4>1, <4>2, <1>1, <2>12, <2>13, ResolvedPoints DEF StageInv
    <3> QED  BY <3>2, <3>3
  <2>19. CleanInv'
    <3>1. cleanup.request # Launch(i) \/ cleanup.request \notin Launches
      BY <1>3, NoHelperIsDead, NoneAssumption DEF CleanInv, HelperPoints
    <3> QED  BY <3>1, <1>1, <2>1, <2>9 DEF CleanInv
  <2>20. QuitInv'
    <3> SUFFICES ASSUME app.quitting  PROVE QuitInv'
      BY <2>1 DEF QuitInv
    <3>1. PICK j \in Installs : /\ call[j].pc = "idle" /\ Launch(j) \in Launches
                               /\ stage[Launch(j)].ready /\ Good(Launch(j))
      BY DEF QuitInv
    <3>2. j # i  BY <3>1, <1>1
    <3>3. Launch(j) # Launch(i)  BY <3>2
    <3>4. call'[j].pc = "idle"  BY <3>1, <3>2, <2>10, <2>11
    <3> QED  BY <3>1, <3>3, <3>4, <2>1, <2>9, <2>12, <2>13 DEF QuitInv
  <2>21. HelperInv'
    <3> SUFFICES ASSUME NEW l \in Launches, Active(l)
                 PROVE  HelperFits(l)'
      BY <1>1 DEF HelperInv, Active
    <3>1. l # Launch(i)  BY <1>3, NoHelperIsDead DEF Active
    <3>2. l[1] \in Installs  BY LaunchParts
    <3>3. Awaited(l[1]) => Awaited(l[1])'
      <4>1. l[1] # i  BY <3>1, <3>2 DEF HelperInv
      <4> QED  BY <3>2, <4>1, <2>1, <2>10, <2>11 DEF Awaited
    <3> QED  BY <3>1, <3>2, <3>3, <1>1, <2>1, <2>9, <2>12, <2>13 DEF HelperInv
  <2>22. FailedInv'
    BY <1>1, <2>10, <2>11, <2>12 DEF FailedInv
  <2> QED
    BY <2>16, <2>17, <2>18, <2>19, <2>20, <2>21, <2>22
<1> QED  BY <1>4, <1>5

(* The helper of a launch starts: it is awaited.                           *)
LEMMA SpawnStep ==
  ASSUME Inv, CacheInv', NEW i \in Installs, SpawnHelper(i)
  PROVE  LaunchInv'
<1> USE DEF Inv, LaunchInv
<1>1. call[i].pc = "spawn" /\ call[i].pc \in Launching /\ call[i].pc \notin Waiting \cup {"idle"}
      /\ call[i].pc \in Resolved /\ cleanup' = cleanup
  BY ResolvedPoints DEF SpawnHelper
<1>2. /\ call[i] \in CallType /\ call[i].calls \in 0..MaxCalls /\ Launch(i) \in Launches
      /\ i \in Callers
  BY <1>1, LaunchExists
<1>3. helper[Launch(i)] = NoHelper /\ Good(Launch(i))  BY <1>1 DEF StageInv
<1>4. CASE LaunchFails(i) /\ UNCHANGED helper
  BY <1>1, <1>2, <1>3, <1>4, NoHelperIsDead, LaunchFailsStep DEF LaunchTypes
<1>5. CASE ~(LaunchFails(i) /\ UNCHANGED helper)
  <2> DEFINE new == [pc |-> "started", outcome |-> None]
  <2>1. /\ helper' = [helper EXCEPT ![Launch(i)] = new] /\ UNCHANGED <<stage, app>>
        /\ call' = [call EXCEPT ![i].pc = "poll"]
    BY <1>5 DEF SpawnHelper
  <2>2. new \in HelperType /\ new.pc = "started"
    BY DEF HelperType, HelperPoints
  <2> HIDE DEF new
  <2>3. helper' \in [Launches -> HelperType] /\ helper'[Launch(i)] = new
        /\ \A l \in Launches \ {Launch(i)} : helper'[l] = helper[l]
    BY <2>1, <2>2, <1>2 DEF LaunchTypes
  <2>4. /\ \A d \in Callers : call'[d].pc = IF d = i THEN "poll" ELSE call[d].pc
        /\ \A d \in Callers : call'[d].calls = call[d].calls /\ call'[d].answer = call[d].answer
                              /\ call'[d].manifest = call[d].manifest
    BY <2>1, <1>2 DEF CacheInv, CallsInv, CallType
  <2>5. Installs \subseteq Callers  BY DEF Callers
  <2>6. \A j \in Installs : Launch(j)' = Launch(j)  BY <2>4, <2>5
  <2>7. \A l : (StageValid(l)' <=> StageValid(l)) /\ (Good(l)' <=> Good(l))
    BY <2>1 DEF StageValid, Complete, SameSize, SameContent, Good
  <2>8. "poll" \in Waiting  BY DEF Waiting
  <2>9. app.running /\ call[i].answer = None /\ call[i].calls > 0 /\ Newer(call[i].manifest)
    BY <1>1, <1>2 DEF RunningInv
  <2>10. LaunchTypes'
    BY <2>1, <2>3, <1>1 DEF LaunchTypes
  <2>11. RunningInv'
    <3> SUFFICES ASSUME NEW c \in Callers
                 PROVE  /\ call'[c].pc # "idle" => app'.running /\ call'[c].answer = None
                        /\ call'[c].pc # "idle" \/ call'[c].answer # None => call'[c].calls > 0
                        /\ call'[c].pc \in Resolved => call'[c].manifest.version > app'.version
      BY DEF RunningInv, Newer
    <3>1. CASE c = i  BY <3>1, <1>1, <2>1, <2>4, <2>9 DEF Newer
    <3>2. CASE c # i  BY <3>2, <2>1, <2>4 DEF RunningInv, Newer
    <3> QED  BY <3>1, <3>2
  <2>12. StageInv'
    <3> SUFFICES ASSUME NEW j \in Installs
                 PROVE  StageFits(j)'
      BY DEF StageInv
    <3>1. \A n \in 1..MaxCalls : n > call'[j].calls => helper'[<<j, n>>] = NoHelper
      <4> SUFFICES ASSUME NEW n \in 1..MaxCalls, n > call[j].calls
                   PROVE  helper'[<<j, n>>] = NoHelper
        BY <2>4, <2>5
      <4>1. <<j, n>> \in Launches \ {Launch(i)}  BY <1>2 DEF Launches
      <4> QED  BY <4>1, <2>3 DEF StageInv
    <3>2. CASE j = i
      BY <3>1, <3>2, <1>3, <2>2, <2>3, <2>4, <2>5, <2>6, <2>7, <2>8
    <3>3. CASE j # i
      <4>1. call'[j].pc = call[j].pc  BY <3>3, <2>4, <2>5
      <4>2. call[j].pc # "idle" => Launch(j) \in Launches \ {Launch(i)}
        BY <3>3, LaunchExists
      <4>3. "idle" \notin Launching \cup Waiting  BY ResolvedPoints
      <4> QED  BY <3>1, <4>1, <4>2, <4>3, <2>3, <2>6, <2>7 DEF StageInv
    <3> QED  BY <3>2, <3>3
  <2>13. CleanInv'
    <3>1. cleanup.request # Launch(i) \/ cleanup.request \notin Launches
      BY <1>3, NoHelperIsDead, NoneAssumption DEF CleanInv, HelperPoints
    <3> QED  BY <3>1, <1>1, <2>1, <2>3 DEF CleanInv
  <2>14. QuitInv'
    <3> SUFFICES ASSUME app.quitting  PROVE QuitInv'
      BY <2>1 DEF QuitInv
    <3>1. PICK j \in Installs : /\ call[j].pc = "idle" /\ Launch(j) \in Launches
                               /\ stage[Launch(j)].ready /\ Good(Launch(j))
      BY DEF QuitInv
    <3>2. j # i  BY <3>1, <1>1
    <3>3. call'[j].pc = "idle"  BY <3>1, <3>2, <2>4, <2>5
    <3> QED  BY <3>1, <3>3, <2>1, <2>6, <2>7 DEF QuitInv
  <2>15. HelperInv'
    <3> SUFFICES ASSUME NEW l \in Launches, Active(l)'
                 PROVE  HelperFits(l)'
      BY DEF HelperInv
    <3>1. l[1] \in Installs  BY LaunchParts
    <3>2. CASE l = Launch(i)
      <4>1. call'[l[1]].pc = "poll" /\ l[1] = i  BY <3>1, <3>2, <2>4, <2>5
      <4>2. Awaited(l[1])'  BY <4>1, <2>8 DEF Awaited
      <4>3. helper'[l].pc = "started"  BY <3>2, <2>2, <2>3
      <4> QED  BY <3>2, <4>1, <4>2, <4>3, <1>3, <2>1, <2>6, <2>7 DEF Good
    <3>3. CASE l # Launch(i)
      <4>1. Active(l) /\ helper'[l] = helper[l]  BY <3>3, <2>3 DEF Active
      <4>2. Awaited(l[1]) => Awaited(l[1])'
        <5>1. l[1] # i  BY <3>1, <3>3, <4>1 DEF HelperInv
        <5> QED  BY <3>1, <5>1, <2>1, <2>4, <2>5 DEF Awaited
      <4> QED  BY <3>1, <4>1, <4>2, <2>1, <2>6, <2>7 DEF HelperInv
    <3> QED  BY <3>2, <3>3
  <2>16. FailedInv'
    <3> SUFFICES ASSUME NEW j \in Installs, call'[j].answer = "failed"
                 PROVE  helper'[Launch(j)].pc \in {None, "exited"}
      BY <2>6 DEF FailedInv
    <3>1. j # i /\ call[j].answer = "failed"
      BY <2>4, <2>5, <2>9, NoneAssumption DEF Answers
    <3>2. Launch(j) \in Launches \ {Launch(i)}
      BY <3>1, LaunchExists, NoneAssumption DEF Answers
    <3> QED  BY <3>1, <3>2, <2>3 DEF FailedInv
  <2> QED
    BY <2>10, <2>11, <2>12, <2>13, <2>14, <2>15, <2>16
<1> QED  BY <1>4, <1>5

(* The application found its helper ready and ends itself for it, or looks *)
(* whether it ended.                                                       *)
LEMMA PollStep ==
  ASSUME Inv, CacheInv', NEW i \in Installs, PollReady(i)
  PROVE  LaunchInv'
<1> USE DEF Inv, LaunchInv
<1>1. call[i].pc = "poll" /\ call[i].pc \in Waiting /\ call[i].pc \in Launching
      /\ call[i].pc \in Resolved /\ UNCHANGED <<stage, helper, cleanup>>
  BY ResolvedPoints DEF PollReady, Waiting
<1>2. /\ call[i] \in CallType /\ call[i].calls \in 0..MaxCalls /\ Launch(i) \in Launches
      /\ i \in Callers /\ call[i].pc # "idle"
  BY <1>1, LaunchExists
<1>3. CASE ~stage[Launch(i)].ready
  <2>1. call' = [call EXCEPT ![i].pc = "probe"] /\ SameApp
    BY <1>3, AppStays DEF PollReady
  <2>2. "probe" \in Waiting /\ "probe" \in Resolved  BY DEF Waiting, Launching, Resolved
  <2> QED  BY <1>1, <1>2, <2>1, <2>2, CallAdvances
<1>4. CASE stage[Launch(i)].ready
  <2> DEFINE r == [Idle EXCEPT !.calls = call[i].calls, !.answer = "installing"]
  <2>1. /\ call' = [call EXCEPT ![i] = r] /\ app' = [app EXCEPT !.quitting = TRUE]
    BY <1>4 DEF PollReady, Answer
  <2>2. r.pc = "idle" /\ r.calls = call[i].calls /\ r.answer = "installing"
    BY <1>2, IdleType DEF Answers
  <2> HIDE DEF r
  <2>3. \A d \in Callers : call'[d] = IF d = i THEN r ELSE call[d]
    BY <2>1, <1>2 DEF CacheInv, CallsInv
  <2>4. /\ app' \in AppType /\ app'.running = app.running /\ app'.instance = app.instance
        /\ app'.version = app.version /\ app'.quitting
    BY <2>1 DEF LaunchTypes, AppType
  <2>5. Installs \subseteq Callers  BY DEF Callers
  <2>6. \A j \in Installs : Launch(j)' = Launch(j)  BY <2>2, <2>3, <2>5
  <2>7. \A l : (StageValid(l)' <=> StageValid(l)) /\ (Good(l)' <=> Good(l))
    BY <1>1, <2>4 DEF StageValid, Complete, SameSize, SameContent, Good
  <2>8. app.running /\ call[i].calls > 0 /\ Good(Launch(i))
    BY <1>1, <1>2 DEF RunningInv, StageInv
  <2>9. LaunchTypes'
    BY <2>4, <1>1 DEF LaunchTypes
  <2>10. RunningInv'
    BY <2>2, <2>3, <2>4, <2>8, ResolvedPoints DEF RunningInv, Newer
  <2>11. StageInv'
    <3> SUFFICES ASSUME NEW j \in Installs
                 PROVE  StageFits(j)'
      BY DEF StageInv
    <3>1. \A n \in 1..MaxCalls : n > call'[j].calls => helper'[<<j, n>>] = NoHelper
      BY <1>1, <2>2, <2>3, <2>5 DEF StageInv
    <3>2. "idle" \notin Launching \cup Waiting  BY ResolvedPoints
    <3> QED  BY <3>1, <3>2, <1>1, <2>2, <2>3, <2>5, <2>6, <2>7 DEF StageInv
  <2>12. CleanInv'
    BY <1>1, <2>4 DEF CleanInv
  <2>13. QuitInv'
    BY <1>1, <1>2, <1>4, <2>2, <2>3, <2>4, <2>6, <2>7, <2>8 DEF QuitInv
  <2>14. HelperInv'
    <3> SUFFICES ASSUME NEW l \in Launches, Active(l)
                 PROVE  HelperFits(l)'
      BY <1>1 DEF HelperInv, Active
    <3>1. l[1] \in Installs  BY LaunchParts
    <3>2. Awaited(l[1]) => Awaited(l[1])'
      BY <3>1, <2>2, <2>3, <2>4, <2>5 DEF Awaited
    <3> QED  BY <3>1, <3>2, <1>1, <2>4, <2>6, <2>7 DEF HelperInv
  <2>15. FailedInv'
    BY <1>1, <2>2, <2>3, <2>5, <2>6 DEF FailedInv
  <2> QED
    BY <2>9, <2>10, <2>11, <2>12, <2>13, <2>14, <2>15
<1> QED  BY <1>3, <1>4

(* The application looks whether its helper ended, and kills it past the   *)
(* deadline.                                                               *)
LEMMA ProbeStep ==
  ASSUME Inv, CacheInv', NEW i \in Installs, ProbeHelper(i) \/ KillHelper(i)
  PROVE  LaunchInv'
<1> USE DEF Inv, LaunchInv
<1>1. call[i].pc \in {"probe", "kill"} /\ call[i].pc \in Waiting /\ call[i].pc \in Launching
      /\ call[i].pc \in Resolved /\ cleanup' = cleanup
  BY ResolvedPoints DEF ProbeHelper, KillHelper, Waiting
<1>2. /\ call[i] \in CallType /\ Launch(i) \in Launches /\ i \in Callers /\ call[i].pc # "idle"
  BY <1>1, LaunchExists
<1>3. CASE ProbeHelper(i) /\ HelperAlive(Launch(i))
  <2>1. PICK pc \in {"poll", "kill"} : call' = [call EXCEPT ![i].pc = pc]
    BY <1>3 DEF ProbeHelper
  <2>2. SameApp /\ UNCHANGED <<stage, helper, cleanup>>
    BY <1>3, AppStays DEF ProbeHelper
  <2>3. pc \in Waiting /\ pc \in Resolved  BY <2>1 DEF Waiting, Launching, Resolved
  <2> QED  BY <1>1, <1>2, <2>1, <2>2, <2>3, CallAdvances
<1>4. CASE ProbeHelper(i) /\ ~HelperAlive(Launch(i))
  <2>1. LaunchFails(i) /\ helper' = helper  BY <1>4 DEF ProbeHelper
  <2> QED  BY <1>1, <1>2, <1>4, <2>1, LaunchFailsStep DEF LaunchTypes
<1>5. CASE KillHelper(i)
  <2> DEFINE new == [pc |-> "exited", outcome |-> IF HelperAlive(Launch(i)) THEN "killed"
                                                  ELSE helper[Launch(i)].outcome]
  <2>1. helper' = [helper EXCEPT ![Launch(i)] = new] /\ LaunchFails(i)
    BY <1>5 DEF KillHelper
  <2>2. new \in HelperType /\ new.pc = "exited"
    BY <1>2 DEF LaunchTypes, HelperType, HelperPoints, Outcomes
  <2> HIDE DEF new
  <2>3. helper' \in [Launches -> HelperType] /\ helper'[Launch(i)] = new
        /\ \A l \in Launches \ {Launch(i)} : helper'[l] = helper[l]
    BY <2>1, <2>2, <1>2 DEF LaunchTypes
  <2>4. "exited" # None  BY NoneAssumption DEF HelperPoints
  <2> QED  BY <1>1, <2>1, <2>2, <2>3, <2>4, LaunchFailsStep
<1> QED  BY <1>3, <1>4, <1>5

(* The application ends: its calls are forgotten, a helper goes on.        *)
LEMMA EndStep == ASSUME Inv, EndApp  PROVE LaunchInv'
<1> USE DEF Inv, LaunchInv
<1>1. /\ app' = [app EXCEPT !.running = FALSE, !.background = FALSE, !.quitting = FALSE]
      /\ cleanup' = [request |-> None, tries |-> 0]
      /\ UNCHANGED <<remote, cache, stage, helper>>
  BY DEF EndApp
<1>2. /\ app' \in AppType /\ ~app'.running /\ ~app'.quitting
      /\ app'.instance = app.instance
  BY <1>1 DEF LaunchTypes, AppType
<1>3. ASSUME NEW c \in Callers
      PROVE  call'[c].pc = "idle" /\ call'[c].calls = call[c].calls
             /\ call'[c].answer = call[c].answer
  <2> DEFINE r == [Idle EXCEPT !.calls = call[c].calls, !.answer = call[c].answer]
  <2>1. call'[c] = r  BY DEF EndApp
  <2>2. r.pc = "idle" /\ r.calls = call[c].calls /\ r.answer = call[c].answer
    BY DEF Idle
  <2> QED  BY <2>1, <2>2
<1>4. Installs \subseteq Callers  BY DEF Callers
<1>5. \A j \in Installs : Launch(j)' = Launch(j)  BY <1>3, <1>4
<1>6. \A l : StageValid(l)' <=> StageValid(l)
  BY <1>1 DEF StageValid, Complete, SameSize, SameContent
<1>7. LaunchTypes'
  BY <1>1, <1>2 DEF LaunchTypes, CleanupType
<1>8. RunningInv'
  BY <1>3, ResolvedPoints DEF RunningInv
<1>9. StageInv'
  BY <1>1, <1>3, <1>4, ResolvedPoints DEF StageInv
<1>10. CleanInv'
  BY <1>1, NoneAssumption DEF CleanInv
<1>11. QuitInv'  BY <1>2 DEF QuitInv
<1>12. HelperInv'
  BY <1>1, <1>2, <1>5, <1>6, LaunchParts DEF HelperInv, Active
<1>13. FailedInv'
  BY <1>1, <1>3, <1>4, <1>5 DEF FailedInv
<1> QED
  BY <1>7, <1>8, <1>9, <1>10, <1>11, <1>12, <1>13

(* The application starts while no helper has work left.                   *)
LEMMA StartStep ==
  ASSUME Inv, ~app.running, Started, UNCHANGED <<call, stage>>,
         helper' \in [Launches -> HelperType], cleanup' \in CleanupType, CleanInv',
         \A l \in Launches : /\ ~Active(l)'
                             /\ helper[l] = NoHelper => helper'[l] = NoHelper
                             /\ helper'[l].pc \notin {None, "exited"} => HelperAlive(l)
  PROVE  LaunchInv'
<1> USE DEF Inv, LaunchInv
<1>1. app' = [app EXCEPT !.running = TRUE, !.instance = @ + 1, !.version = app.installed,
                         !.background = TRUE, !.quitting = FALSE]
  BY DEF Started
<1>2. /\ app' \in AppType /\ app'.running /\ ~app'.quitting
      /\ app'.instance = app.instance + 1 /\ app.instance \in Nat
  <2>1. app \in AppType  BY DEF LaunchTypes
  <2>2. app.instance \in Nat /\ app.instance + 1 \in Nat \ {0} /\ app.installed \in Nat
    BY <2>1 DEF AppType
  <2> QED  BY <1>1, <2>1, <2>2 DEF AppType
<1>3. \A c \in Callers : call[c].pc = "idle"  BY DEF RunningInv
<1>4. Installs \subseteq Callers  BY DEF Callers
<1>5. \A j \in Installs : Launch(j)' = Launch(j)  OBVIOUS
<1>6. LaunchTypes'
  <2>1. \A l \in Launches : stage[l].parent \in Nat /\ stage[l].parent <= app.instance
    BY DEF LaunchTypes, StageType
  <2>2. \A l \in Launches : stage[l].parent <= app'.instance
    BY <2>1, <1>2
  <2> QED  BY <1>2, <2>2 DEF LaunchTypes
<1>7. RunningInv'
  BY <1>3, ResolvedPoints DEF RunningInv
<1>8. StageInv'
  <2> SUFFICES ASSUME NEW j \in Installs
               PROVE  StageFits(j)'
    BY DEF StageInv
  <2>1. \A n \in 1..MaxCalls : n > call'[j].calls => helper'[<<j, n>>] = NoHelper
    <3> SUFFICES ASSUME NEW n \in 1..MaxCalls, n > call[j].calls
                 PROVE  helper'[<<j, n>>] = NoHelper
      OBVIOUS
    <3>1. <<j, n>> \in Launches  BY DEF Launches
    <3> QED  BY <3>1 DEF StageInv
  <2> QED  BY <2>1, <1>3, <1>4, ResolvedPoints
<1>9. QuitInv'  BY <1>2 DEF QuitInv
<1>10. HelperInv'  BY DEF HelperInv
<1>11. FailedInv'
  <2> SUFFICES ASSUME NEW j \in Installs, call[j].answer = "failed"
               PROVE  helper'[Launch(j)].pc \in {None, "exited"}
    BY <1>5 DEF FailedInv
  <2>1. Launch(j) \in Launches
    BY LaunchExists, NoneAssumption DEF Answers
  <2> QED  BY <2>1 DEF FailedInv
<1> QED
  BY <1>6, <1>7, <1>8, <1>9, <1>10, <1>11

(* A helper goes on, or ends, while the application stays as it is: it     *)
(* changes no more of its stage than the request and the ready marker.     *)
LEMMA TurnStep ==
  ASSUME Inv, NEW l \in Launches, HelperAlive(l), SameApp, UNCHANGED <<call, cleanup>>,
         helper' \in [Launches -> HelperType], stage' \in [Launches -> StageType],
         \A k \in Launches \ {l} : helper'[k] = helper[k] /\ stage'[k] = stage[k],
         /\ stage'[l].installer = stage[l].installer /\ stage'[l].manifest = stage[l].manifest
         /\ stage'[l].parent = stage[l].parent /\ stage'[l].current = stage[l].current
         /\ stage[l].ready => stage'[l].ready,
         helper'[l].pc \notin {None, "leaving"},
         helper'[l].pc # "exited" => Active(l),
         helper'[l].pc \in {"validate", "install", "installed"} => ~app.running
  PROVE  LaunchInv'
<1> USE DEF Inv, LaunchInv
<1>1. \A k \in Launches : (StageValid(k)' <=> StageValid(k)) /\ (Good(k)' <=> Good(k))
  <2> TAKE k \in Launches
  <2>1. /\ stage'[k].installer = stage[k].installer /\ stage'[k].manifest = stage[k].manifest
        /\ stage'[k].parent = stage[k].parent /\ stage'[k].current = stage[k].current
    OBVIOUS
  <2> QED  BY <2>1 DEF StageValid, Complete, SameSize, SameContent, Good, SameApp
<1>2. \A j \in Installs : Launch(j)' = Launch(j)  OBVIOUS
<1>3. helper[l] # NoHelper  BY NoHelperIsDead
<1>4. LaunchTypes'
  BY DEF LaunchTypes, SameApp
<1>5. RunningInv'
  BY DEF RunningInv, Newer, SameApp
<1>6. StageInv'
  <2> SUFFICES ASSUME NEW j \in Installs
               PROVE  StageFits(j)'
    BY DEF StageInv
  <2>1. \A n \in 1..MaxCalls : n > call'[j].calls => helper'[<<j, n>>] = NoHelper
    <3> SUFFICES ASSUME NEW n \in 1..MaxCalls, n > call[j].calls
                 PROVE  helper'[<<j, n>>] = NoHelper
      OBVIOUS
    <3>1. <<j, n>> \in Launches /\ helper[<<j, n>>] = NoHelper  BY DEF Launches, StageInv
    <3> QED  BY <3>1, <1>3
  <2>2. call[j].pc # "idle" => Launch(j) \in Launches  BY LaunchExists
  <2> QED  BY <2>1, <2>2, <1>1, <1>2, <1>3, ResolvedPoints DEF StageInv
<1>7. CleanInv'
  <2> SUFFICES ASSUME cleanup.request \in Launches
               PROVE  /\ helper'[cleanup.request].pc \in {"leaving", "exited"}
                      /\ stage'[cleanup.request].parent < app.instance
    BY DEF CleanInv, SameApp
  <2>1. CASE cleanup.request = l
    BY <2>1 DEF CleanInv, Active
  <2>2. CASE cleanup.request # l
    BY <2>2 DEF CleanInv
  <2> QED  BY <2>1, <2>2
<1>8. QuitInv'
  <2> SUFFICES ASSUME app.quitting  PROVE QuitInv'
    BY DEF QuitInv, SameApp
  <2>1. PICK j \in Installs : /\ call[j].pc = "idle" /\ Launch(j) \in Launches
                             /\ stage[Launch(j)].ready /\ Good(Launch(j))
    BY DEF QuitInv
  <2>2. stage'[Launch(j)].ready  BY <2>1
  <2> QED  BY <2>1, <2>2, <1>1, <1>2 DEF QuitInv, SameApp
<1>9. HelperInv'
  <2> SUFFICES ASSUME NEW k \in Launches, Active(k)'
               PROVE  HelperFits(k)'
    BY DEF HelperInv
  <2>1. Active(k)  BY DEF Active
  <2>2. stage'[k].parent = stage[k].parent  OBVIOUS
  <2>3. k[1] \in Installs  BY LaunchParts
  <2>4. Awaited(k[1]) <=> Awaited(k[1])'  BY DEF Awaited, SameApp
  <2> QED  BY <2>1, <2>2, <2>3, <2>4, <1>1, <1>2 DEF HelperInv, SameApp
<1>10. FailedInv'
  <2> SUFFICES ASSUME NEW j \in Installs, call[j].answer = "failed"
               PROVE  helper'[Launch(j)].pc \in {None, "exited"}
    BY <1>2 DEF FailedInv
  <2>1. Launch(j) \in Launches /\ ~HelperAlive(Launch(j))
    BY LaunchExists, NoneAssumption DEF Answers, FailedInv
  <2> QED  BY <2>1
<1> QED
  BY <1>4, <1>5, <1>6, <1>7, <1>8, <1>9, <1>10

(* A helper ends, and nothing else happens. *)
LEMMA ExitTurn ==
  ASSUME Inv, NEW l \in Launches, HelperAlive(l), NEW outcome \in Outcomes,
         HelperExits(l, outcome), UNCHANGED <<call, stage, app, cleanup>>
  PROVE  LaunchInv'
<1> DEFINE new == [pc |-> "exited", outcome |-> outcome]
<1>1. new \in HelperType /\ new.pc = "exited"  BY DEF HelperType, HelperPoints
<1>2. helper' = [helper EXCEPT ![l] = new]  BY DEF HelperExits
<1> HIDE DEF new
<1>3. /\ helper' \in [Launches -> HelperType] /\ helper'[l] = new
      /\ \A k \in Launches \ {l} : helper'[k] = helper[k]
  BY <1>1, <1>2 DEF Inv, LaunchInv, LaunchTypes
<1>4. SameApp /\ stage' \in [Launches -> StageType]
  BY AppStays DEF Inv, LaunchInv, LaunchTypes
<1>5. "exited" # None  BY NoneAssumption DEF HelperPoints
<1> QED  BY <1>1, <1>3, <1>4, <1>5, TurnStep

(* A helper goes on to the next point of its work. *)
LEMMA WorkTurn ==
  ASSUME Inv, NEW l \in Launches, NEW pc \in HelperPoints \ {"exited", "leaving"},
         helper' = [helper EXCEPT ![l].pc = pc], Active(l),
         SameApp, UNCHANGED <<call, cleanup>>,
         stage' \in [Launches -> StageType],
         \A k \in Launches \ {l} : stage'[k] = stage[k],
         /\ stage'[l].installer = stage[l].installer /\ stage'[l].manifest = stage[l].manifest
         /\ stage'[l].parent = stage[l].parent /\ stage'[l].current = stage[l].current
         /\ stage[l].ready => stage'[l].ready,
         pc \in {"validate", "install", "installed"} => ~app.running
  PROVE  LaunchInv'
<1>1. helper[l] \in HelperType  BY DEF Inv, LaunchInv, LaunchTypes
<1>2. /\ helper' \in [Launches -> HelperType] /\ helper'[l].pc = pc
      /\ \A k \in Launches \ {l} : helper'[k] = helper[k]
  BY <1>1 DEF Inv, LaunchInv, LaunchTypes, HelperType
<1>3. pc # None /\ pc # "leaving"  BY NoneAssumption
<1>4. HelperAlive(l)  BY DEF Active
<1> QED  BY <1>2, <1>3, <1>4, TurnStep

(* The handshake of a helper with its parent. *)
LEMMA HandshakeTurn ==
  ASSUME Inv, NEW l \in Launches, HandshakeStep(l) \/ WaitParent(l) \/ HelperLeaves(l)
  PROVE  LaunchInv'
<1> USE DEF Inv, LaunchInv
<1>1. /\ UNCHANGED <<call, app, cleanup>> /\ SameApp
      /\ stage[l] \in StageType /\ stage \in [Launches -> StageType]
  BY AppStays DEF HandshakeStep, ClaimRequest, ReadRequest, OpenParent, MarkReady,
     WaitParent,
     HelperLeaves, LaunchTypes
<1>2. /\ HelperAlive(l)
      /\ ~HelperLeaves(l) => Active(l)
  BY NoneAssumption DEF HandshakeStep, ClaimRequest, ReadRequest, OpenParent,
     MarkReady,
     WaitParent, HelperLeaves, Active, HelperPoints
<1>3. CASE stage' = stage /\ \E outcome \in Outcomes : HelperExits(l, outcome)
  BY <1>1, <1>2, <1>3, ExitTurn
<1>4. CASE ClaimRequest(l) /\ ~(stage' = stage)
  <2>1. /\ stage' = [stage EXCEPT ![l].request = "claimed"]
        /\ helper' = [helper EXCEPT ![l].pc = "claimed"]
    BY <1>4 DEF ClaimRequest
  <2>2. /\ stage' \in [Launches -> StageType]
        /\ \A k \in Launches \ {l} : stage'[k] = stage[k]
        /\ stage'[l].installer = stage[l].installer /\ stage'[l].manifest = stage[l].manifest
        /\ stage'[l].parent = stage[l].parent /\ stage'[l].current = stage[l].current
        /\ stage[l].ready => stage'[l].ready
    BY <1>1, <2>1 DEF StageType
  <2>3. ~HelperLeaves(l)  BY <1>4 DEF ClaimRequest, HelperLeaves
  <2>4. "claimed" \in HelperPoints \ {"exited", "leaving"}  BY DEF HelperPoints
  <2> QED  BY <1>1, <1>2, <2>1, <2>2, <2>3, <2>4, WorkTurn
<1>5. CASE /\ stage' = stage
           /\ \/ helper' = [helper EXCEPT ![l].pc = "verified"] /\ ReadRequest(l)
              \/ helper' = [helper EXCEPT ![l].pc = "opened"] /\ OpenParent(l)
  <2>1. ~HelperLeaves(l)  BY <1>5 DEF ReadRequest, OpenParent, HelperLeaves
  <2>2. {"verified", "opened"} \subseteq HelperPoints \ {"exited", "leaving"}
    BY DEF HelperPoints
  <2> QED  BY <1>1, <1>2, <1>5, <2>1, <2>2, WorkTurn
<1>6. CASE MarkReady(l)
  <2>1. /\ stage' = [stage EXCEPT ![l].ready = TRUE]
        /\ helper' = [helper EXCEPT ![l].pc = "ready"]
    BY <1>6 DEF MarkReady
  <2>2. /\ stage' \in [Launches -> StageType]
        /\ \A k \in Launches \ {l} : stage'[k] = stage[k]
        /\ stage'[l].installer = stage[l].installer /\ stage'[l].manifest = stage[l].manifest
        /\ stage'[l].parent = stage[l].parent /\ stage'[l].current = stage[l].current
        /\ stage'[l].ready
    BY <1>1, <2>1 DEF StageType
  <2>3. ~HelperLeaves(l)  BY <1>6 DEF MarkReady, HelperLeaves
  <2>4. "ready" \in HelperPoints \ {"exited", "leaving"}  BY DEF HelperPoints
  <2> QED  BY <1>1, <1>2, <2>1, <2>2, <2>3, <2>4, WorkTurn
<1>7. CASE WaitParent(l) /\ ~ParentAlive(l) /\ helper' = [helper EXCEPT ![l].pc = "validate"]
  <2>1. ~HelperLeaves(l)  BY <1>7 DEF WaitParent, HelperLeaves
  <2>2. ~app.running  BY <1>2, <1>7, <2>1 DEF HelperInv
  <2>3. "validate" \in HelperPoints \ {"exited", "leaving"}  BY DEF HelperPoints
  <2>4. stage' = stage  BY <1>7 DEF WaitParent
  <2> QED  BY <1>1, <1>2, <1>7, <2>1, <2>2, <2>3, <2>4, WorkTurn
<1> HIDE DEF Inv, LaunchInv
<1>8. CASE HandshakeStep(l)
  <2>1. CASE ClaimRequest(l)
    <3>1. CASE stage[l].request = "json"
      <4>1. stage' = [stage EXCEPT ![l].request = "claimed"]  BY <2>1, <3>1 DEF ClaimRequest
      <4>2. stage' # stage  BY <1>1, <3>1, <4>1 DEF StageType
      <4> QED  BY <1>4, <2>1, <4>2
    <3>2. CASE stage[l].request # "json"
      <4>1. stage' = stage /\ HelperExits(l, "unclaimed")  BY <2>1, <3>2 DEF ClaimRequest
      <4> QED  BY <1>3, <4>1 DEF Outcomes
    <3> QED  BY <3>1, <3>2
  <2>2. CASE ReadRequest(l)
    <3>1. stage' = stage  BY <2>2 DEF ReadRequest
    <3>2. CASE HelperExits(l, "refused")
      <4>1. "refused" \in Outcomes  BY DEF Outcomes
      <4>2. HelperAlive(l)  BY <1>2
      <4> QED  BY <1>1, <3>1, <3>2, <4>1, <4>2, ExitTurn
    <3>3. CASE helper' = [helper EXCEPT ![l].pc = "verified"]
      BY <1>5, <2>2, <3>1, <3>3
    <3> QED  BY <2>2, <3>2, <3>3 DEF ReadRequest
  <2>3. CASE OpenParent(l)
    BY <1>3, <1>5, <2>3 DEF OpenParent, Outcomes
  <2> QED  BY <1>6, <1>8, <2>1, <2>2, <2>3 DEF HandshakeStep
<1>9. CASE WaitParent(l)
  BY <1>3, <1>7, <1>9 DEF WaitParent, Outcomes
<1>10. CASE HelperLeaves(l)
  BY <1>3, <1>10 DEF HelperLeaves, Outcomes
<1> QED  BY <1>8, <1>9, <1>10

(* A helper that installs starts the application again when it fails: it   *)
(* is the only one at work.                                                *)
LEMMA RelaunchTurn ==
  ASSUME OneInstall, Inv, NEW l \in Launches, Relaunch(l), Active(l), ~app.running,
         UNCHANGED <<call, stage, cleanup>>
  PROVE  LaunchInv'
<1> USE DEF Inv, LaunchInv
<1>1. CASE HelperExits(l, "stranded") /\ UNCHANGED app
  BY <1>1, ExitTurn DEF Outcomes, Active
<1>2. CASE Started /\ HelperExits(l, "relaunched")
  <2> DEFINE new == [pc |-> "exited", outcome |-> "relaunched"]
  <2>1. new \in HelperType /\ new.pc = "exited"  BY DEF HelperType, HelperPoints, Outcomes
  <2>2. helper' = [helper EXCEPT ![l] = new]  BY <1>2 DEF HelperExits
  <2> HIDE DEF new
  <2>3. /\ helper' \in [Launches -> HelperType] /\ helper'[l] = new
        /\ \A k \in Launches \ {l} : helper'[k] = helper[k]
    BY <2>1, <2>2 DEF LaunchTypes
  <2>4. \A k \in Launches \ {l} : ~Active(k)
    BY LaunchParts DEF HelperInv, OneInstall
  <2>5. \A k \in Launches : /\ ~Active(k)'
                            /\ helper[k] = NoHelper => helper'[k] = NoHelper
                            /\ helper'[k].pc \notin {None, "exited"} => HelperAlive(k)
    BY <2>1, <2>3, <2>4, NoHelperIsDead DEF Active
  <2>6. app'.instance = app.instance + 1 /\ app.instance \in Nat
    BY <1>2 DEF Started, LaunchTypes, AppType
  <2>7. CleanInv'
    <3> SUFFICES ASSUME cleanup.request \in Launches
                 PROVE  /\ helper'[cleanup.request].pc \in {"leaving", "exited"}
                        /\ stage[cleanup.request].parent < app'.instance
      BY DEF CleanInv
    <3>1. cleanup.request # l  BY DEF CleanInv, Active
    <3>2. stage[cleanup.request].parent \in Nat  BY DEF LaunchTypes, StageType
    <3> QED  BY <3>1, <3>2, <2>3, <2>6 DEF CleanInv
  <2>8. cleanup' \in CleanupType  BY DEF LaunchTypes
  <2> QED  BY <1>2, <2>3, <2>5, <2>7, <2>8, StartStep
<1> QED  BY <1>1, <1>2 DEF Relaunch

(* The helper installs, and starts the version it installed.               *)
LEMMA InstallTurn ==
  ASSUME OneInstall, Inv, NEW l \in Launches,
         ValidateStage(l) \/ RunInstaller(l) \/ StartUpdated(l)
  PROVE  LaunchInv'
<1> USE DEF Inv, LaunchInv
<1>1. /\ helper[l].pc \in {"validate", "install", "installed"} /\ Active(l)
      /\ UNCHANGED call
  BY NoneAssumption DEF ValidateStage, RunInstaller, StartUpdated, Active,
     HelperPoints
<1>2. ~app.running /\ StageValid(l)  BY <1>1 DEF HelperInv
<1>3. stage[l] \in StageType /\ stage \in [Launches -> StageType]  BY DEF LaunchTypes
<1>4. CASE UNCHANGED <<stage, cleanup>> /\ Relaunch(l)
  BY <1>1, <1>2, <1>4, RelaunchTurn
<1>5. CASE ValidateStage(l) /\ ~Relaunch(l)
  <2>1. helper' = [helper EXCEPT ![l].pc = "install"] /\ UNCHANGED <<stage, app, cleanup>>
    BY <1>5 DEF ValidateStage
  <2>2. "install" \in HelperPoints \ {"exited", "leaving"}  BY DEF HelperPoints
  <2>3. SameApp  BY <2>1, AppStays
  <2> QED  BY <1>1, <1>2, <1>3, <2>1, <2>2, <2>3, WorkTurn
<1>6. CASE RunInstaller(l) /\ ~(Relaunch(l) /\ UNCHANGED stage)
  <2>1. /\ app' = [app EXCEPT !.installed = stage[l].installer.version]
        /\ stage' = [stage EXCEPT ![l].request = None]
        /\ helper' = [helper EXCEPT ![l].pc = "installed"] /\ UNCHANGED cleanup
    BY <1>6 DEF RunInstaller
  <2>2. stage[l].installer \in Contents
    BY <1>2, <1>3 DEF StageValid, Complete, SameSize, StageType
  <2>3. stage[l].installer.version \in Nat
    BY <2>2, ReleasesAssumption DEF Contents
  <2>4. SameApp
    BY <2>1, <2>3 DEF LaunchTypes, AppType, SameApp
  <2>5. /\ stage' \in [Launches -> StageType]
        /\ \A k \in Launches \ {l} : stage'[k] = stage[k]
        /\ stage'[l].installer = stage[l].installer /\ stage'[l].manifest = stage[l].manifest
        /\ stage'[l].parent = stage[l].parent /\ stage'[l].current = stage[l].current
        /\ stage[l].ready => stage'[l].ready
    BY <1>3, <2>1 DEF StageType
  <2>6. "installed" \in HelperPoints \ {"exited", "leaving"}  BY DEF HelperPoints
  <2> QED  BY <1>1, <1>2, <2>1, <2>4, <2>5, <2>6, WorkTurn
<1>7. CASE StartUpdated(l) /\ HelperExits(l, "stranded") /\ UNCHANGED <<app, cleanup>>
  BY <1>1, <1>7, ExitTurn DEF Outcomes, StartUpdated, Active
<1>8. CASE StartUpdated(l) /\ ~(HelperExits(l, "stranded") /\ UNCHANGED <<app, cleanup>>)
  <2>1. /\ Started /\ cleanup' = [request |-> l, tries |-> 0]
        /\ helper' = [helper EXCEPT ![l].pc = "leaving"] /\ UNCHANGED <<call, stage>>
    BY <1>8 DEF StartUpdated
  <2>2. /\ helper' \in [Launches -> HelperType] /\ helper'[l].pc = "leaving"
        /\ \A k \in Launches \ {l} : helper'[k] = helper[k]
    BY <2>1 DEF LaunchTypes, HelperType, HelperPoints
  <2>3. \A k \in Launches \ {l} : ~Active(k)
    BY <1>1, LaunchParts DEF HelperInv, OneInstall
  <2>4. \A k \in Launches : /\ ~Active(k)'
                            /\ helper[k] = NoHelper => helper'[k] = NoHelper
                            /\ helper'[k].pc \notin {None, "exited"} => HelperAlive(k)
    BY <1>1, <2>2, <2>3, NoHelperIsDead DEF Active
  <2>5. app'.instance = app.instance + 1 /\ app.instance \in Nat
    BY <2>1 DEF Started, LaunchTypes, AppType
  <2>6. stage[l].parent \in Nat /\ stage[l].parent <= app.instance
    BY <1>3 DEF LaunchTypes, StageType
  <2>7. CleanInv'
    BY <2>1, <2>2, <2>5, <2>6 DEF CleanInv
  <2>8. cleanup' \in CleanupType  BY <2>1 DEF CleanupType
  <2> QED  BY <1>2, <2>1, <2>2, <2>4, <2>7, <2>8, StartStep
<1>9. CASE ValidateStage(l)
  BY <1>4, <1>5, <1>9 DEF ValidateStage
<1>10. CASE RunInstaller(l)
  <2>1. UNCHANGED cleanup  BY <1>10 DEF RunInstaller
  <2> QED  BY <2>1, <1>4, <1>6, <1>10
<1> QED  BY <1>7, <1>8, <1>9, <1>10

(* The clean-up thread removes a stage of an earlier application.          *)
LEMMA CleanStep ==
  ASSUME Inv, NEW l \in Launches, CleanUp(l)
  PROVE  LaunchInv'
<1> USE DEF Inv, LaunchInv
<1>1. /\ app.running /\ cleanup.request = l /\ UNCHANGED <<call, helper, app>>
  BY DEF CleanUp
<1>2. /\ helper[l].pc \in {"leaving", "exited"} /\ ~Active(l)
      /\ stage[l].parent < app.instance /\ app.instance \in Nat \ {0}
  BY <1>1 DEF CleanInv, Active, LaunchTypes, AppType
<1>3. stage[l] \in StageType /\ stage \in [Launches -> StageType] /\ cleanup \in CleanupType
      /\ cleanup.tries + 1 \in Nat
  BY DEF LaunchTypes, CleanupType
<1>4. /\ stage' \in [Launches -> StageType] /\ stage'[l].parent < app.instance
      /\ \A k \in Launches \ {l} : stage'[k] = stage[k]
      /\ cleanup' \in CleanupType /\ cleanup'.request \in {l, None}
  <2>1. CASE HelperAlive(l)
    <3>1. /\ cleanup' = [request |-> IF cleanup.tries + 1 = MaxTries THEN None ELSE l,
                         tries |-> cleanup.tries + 1]
          /\ stage' = [stage EXCEPT ![l].request = None]
      BY <2>1 DEF CleanUp
    <3>2. cleanup' \in CleanupType /\ cleanup'.request \in {l, None}
      BY <1>3, <3>1 DEF CleanupType
    <3> QED  BY <1>2, <1>3, <3>1, <3>2 DEF StageType
  <2>2. CASE ~HelperAlive(l)
    <3>1. /\ cleanup' = [request |-> None, tries |-> 0] /\ stage' = [stage EXCEPT ![l] = NoStage]
      BY <2>2 DEF CleanUp
    <3>2. NoStage.parent = 0  BY DEF NoStage
    <3> QED  BY <1>2, <1>3, <3>1, <3>2, NoHelperIsDead DEF CleanupType
  <2> QED  BY <2>1, <2>2
<1>5. \A k \in Launches \ {l} : (StageValid(k)' <=> StageValid(k)) /\ (Good(k)' <=> Good(k))
  BY <1>1, <1>4 DEF StageValid, Complete, SameSize, SameContent, Good
<1>6. ~Good(l)  BY <1>2, <1>3 DEF Good, StageType
<1>7. \A j \in Installs : Launch(j)' = Launch(j)  BY <1>1
<1>8. LaunchTypes'
  <2>1. \A k \in Launches : stage'[k].parent <= app.instance
    BY <1>2, <1>4 DEF LaunchTypes, StageType
  <2> QED  BY <2>1, <1>1, <1>4 DEF LaunchTypes
<1>9. RunningInv'  BY <1>1 DEF RunningInv, Newer
<1>10. StageInv'
  <2> SUFFICES ASSUME NEW j \in Installs
               PROVE  StageFits(j)'
    BY DEF StageInv
  <2>1. call[j].pc \in Launching => Launch(j) \in Launches \ {l}
    BY <1>6, LaunchExists, ResolvedPoints DEF StageInv
  <2> QED  BY <2>1, <1>1, <1>5, <1>7 DEF StageInv
<1>11. CleanInv'
  BY <1>1, <1>2, <1>4, NoneAssumption DEF CleanInv
<1>12. QuitInv'
  <2> SUFFICES ASSUME app.quitting  PROVE QuitInv'
    BY <1>1 DEF QuitInv
  <2>1. PICK j \in Installs : /\ call[j].pc = "idle" /\ Launch(j) \in Launches
                             /\ stage[Launch(j)].ready /\ Good(Launch(j))
    BY DEF QuitInv
  <2>2. Launch(j) # l  BY <2>1, <1>6
  <2> QED  BY <2>1, <2>2, <1>1, <1>4, <1>5, <1>7 DEF QuitInv
<1>13. HelperInv'
  <2> SUFFICES ASSUME NEW k \in Launches, Active(k)
               PROVE  HelperFits(k)'
    BY <1>1 DEF HelperInv, Active
  <2>1. k # l  BY <1>2
  <2>2. k[1] \in Installs  BY LaunchParts
  <2>3. Awaited(k[1])' <=> Awaited(k[1])  BY <1>1 DEF Awaited
  <2> QED  BY <2>1, <2>2, <2>3, <1>1, <1>4, <1>5, <1>7 DEF HelperInv
<1>14. FailedInv'  BY <1>1, <1>7 DEF FailedInv
<1> QED
  BY <1>8, <1>9, <1>10, <1>11, <1>12, <1>13, <1>14

(* The user starts the application, when no helper is alive.               *)
LEMMA StartAgainStep == ASSUME Inv, StartAgain  PROVE LaunchInv'
<1>1. /\ ~app.running /\ Started /\ UNCHANGED <<call, stage, helper, cleanup>>
      /\ \A l \in Launches : ~HelperAlive(l)
  BY DEF StartAgain
<1>2. \A l \in Launches : /\ ~Active(l)'
                          /\ helper[l] = NoHelper => helper'[l] = NoHelper
                          /\ helper'[l].pc \notin {None, "exited"} => HelperAlive(l)
  BY <1>1 DEF Active
<1>3. helper' \in [Launches -> HelperType] /\ cleanup' \in CleanupType
  BY <1>1 DEF Inv, LaunchInv, LaunchTypes
<1>4. app'.instance = app.instance + 1 /\ app.instance \in Nat
  BY <1>1 DEF Started, Inv, LaunchInv, LaunchTypes, AppType
<1>5. CleanInv'
  <2>1. \A l \in Launches : stage[l].parent \in Nat
    BY DEF Inv, LaunchInv, LaunchTypes, StageType
  <2> QED  BY <1>1, <1>4, <2>1 DEF Inv, LaunchInv, CleanInv
<1> QED  BY <1>1, <1>2, <1>3, <1>5, StartStep

(* What launches need is kept where only the page changes.                 *)
LEMMA LaunchFrame ==
  ASSUME Inv, UNCHANGED <<call, stage, helper, app, cleanup>>
  PROVE  LaunchInv'
<1>1. \A l : (StageValid(l)' <=> StageValid(l)) /\ (Good(l)' <=> Good(l))
  BY DEF StageValid, Complete, SameSize, SameContent, Good
<1>2. LaunchTypes' /\ RunningInv' /\ CleanInv' /\ FailedInv'
  BY DEF Inv, LaunchInv, LaunchTypes, RunningInv, CleanInv, FailedInv, Newer
<1>3. StageInv'
  BY <1>1 DEF Inv, LaunchInv, StageInv
<1>4. QuitInv' /\ HelperInv'
  BY <1>1 DEF Inv, LaunchInv, QuitInv, HelperInv, Active, Awaited
<1> QED
  BY <1>2, <1>3, <1>4 DEF LaunchInv

(* At the start nothing is under way. *)
LEMMA LaunchStarts == Init => LaunchInv
<1> SUFFICES ASSUME Init  PROVE LaunchInv
  OBVIOUS
<1>1. \A c \in Callers : call[c] = Idle  BY DEF Init
<1>2. Idle.pc = "idle" /\ Idle.answer = None /\ Idle.calls = 0  BY DEF Idle
<1>3. Installs \subseteq Callers  BY DEF Callers
<1>4. /\ app \in AppType /\ cleanup \in CleanupType
      /\ app.instance = 1 /\ ~app.quitting /\ cleanup.request = None
  BY DEF Init, AppType, CleanupType
<1>5. /\ stage \in [Launches -> StageType] /\ helper \in [Launches -> HelperType]
      /\ \A l \in Launches : helper[l] = NoHelper /\ stage[l].parent = 0
  <2>1. NoStage.parent = 0  BY DEF NoStage
  <2> QED  BY <2>1, NoHelperIsDead DEF Init
<1>6. \A l \in Launches : ~Active(l)  BY <1>5, NoHelperIsDead DEF Active
<1>7. LaunchTypes  BY <1>4, <1>5 DEF LaunchTypes
<1>8. RunningInv  BY <1>1, <1>2, ResolvedPoints DEF RunningInv
<1>9. StageInv
  BY <1>1, <1>2, <1>3, <1>5, ResolvedPoints DEF StageInv, Launches
<1>10. CleanInv /\ QuitInv  BY <1>4, NoneAssumption DEF CleanInv, QuitInv
<1>11. HelperInv  BY <1>6 DEF HelperInv
<1>12. FailedInv  BY <1>1, <1>2, <1>3, NoneAssumption DEF FailedInv, Answers
<1> QED
  BY <1>7, <1>8, <1>9, <1>10, <1>11, <1>12 DEF LaunchInv

(* Every step keeps the invariant. *)
LEMMA InvStep == ASSUME OneInstall, Inv, [Next]_vars  PROVE Inv'
<1>1. CacheInv'  BY CacheStep DEF Inv
<1>2. LaunchInv'
  <2>1. CASE Upload \/ Announce \/ UNCHANGED vars
    BY <2>1, LaunchFrame DEF Upload, Announce, vars
  <2>2. CASE Exit \/ Lost
    BY <2>2, EndStep DEF Exit, Lost
  <2>3. CASE StartAgain
    BY <2>3, StartAgainStep
  <2>4. ASSUME NEW c \in Callers, Begin(c) \/ SyncFails(c) \/ CallStep(c)
        PROVE  LaunchInv'
    BY <1>1, <2>4, BeginStep, SyncStep
  <2>5. ASSUME NEW i \in Installs, InstallStep(i)
        PROVE  LaunchInv'
    BY <1>1, <2>5, PrepareStep, StageStep, SpawnStep, PollStep, ProbeStep
       DEF InstallStep
  <2>6. ASSUME NEW l \in Launches, HandshakeStep(l) \/ HelperStep(l) \/ CleanUp(l)
        PROVE  LaunchInv'
    BY <2>6, HandshakeTurn, InstallTurn, CleanStep DEF HelperStep
  <2> QED  BY <2>1, <2>2, <2>3, <2>4, <2>5, <2>6 DEF Next
<1> QED  BY <1>1, <1>2 DEF Inv

(* The invariant holds throughout. *)
LEMMA InvHolds == OneInstall => (Spec => []Inv)
<1> SUFFICES ASSUME OneInstall  PROVE Spec => []Inv
  OBVIOUS
<1>1. Init => Inv  BY CacheStarts, LaunchStarts DEF Inv
<1>2. Inv /\ [Next]_vars => Inv'  BY InvStep
<1> QED  BY <1>1, <1>2, PTL DEF Spec

(* Where one caller installs, the application ends itself only for the     *)
(* signed installer it staged, newer than the version that runs, although  *)
(* the cache and the page go on changing (launch_update_helper).           *)
THEOREM QuitsForGood == OneInstall => (Spec => []QuitsForGoodUpdate)
<1>1. Inv => QuitsForGoodUpdate
  BY DEF Inv, LaunchInv, QuitInv, QuitsForGoodUpdate, Good
<1> QED  BY <1>1, InvHolds, PTL

(* Where one caller installs, no launch that was reported as failed leaves *)
(* a helper, and none installs beside the application that asked for it    *)
(* (launch_update_helper, run_update_helper).                              *)
THEOREM HelperObeys == OneInstall => (Spec => []HelperObeysParent)
<1>1. Inv => HelperObeysParent
  <2> SUFFICES ASSUME Inv  PROVE HelperObeysParent
    OBVIOUS
  <2>1. ASSUME NEW l \in Launches, helper[l].pc = "install"
        PROVE  ~ParentAlive(l)
    <3>1. Active(l)  BY <2>1, NoneAssumption DEF Active, HelperPoints
    <3> QED  BY <2>1, <3>1 DEF Inv, LaunchInv, HelperInv
  <2> QED  BY <2>1 DEF HelperObeysParent, Inv, LaunchInv, FailedInv
<1> QED  BY <1>1, InvHolds, PTL
=============================================================================

--------------------------- MODULE UpdatePipeline ---------------------------
(***************************************************************************)
(* The updater (local_updater.rs with local_update_check and               *)
(* local_update_install of lib.rs).  Calls share a cache of one manifest   *)
(* and the installers it names; an install copies the installer it was     *)
(* confirmed for into a protected stage, starts a helper from that stage,  *)
(* and ends the application once the helper says it is ready.  The helper  *)
(* installs after its parent is gone and starts the application again.     *)
(***************************************************************************)
EXTENDS Naturals, Sequences, FiniteSets

CONSTANTS
    Checks,        \* callers of local_update_check: the scheduler, the page
    Installs,      \* callers of local_update_install
    Releases,      \* the manifests in the order they are released
    Uploads,       \* the installer each of them was released with
    MaxCalls,      \* bound: calls made by each caller
    MaxInstances,  \* bound: times the application is started
    MaxTries,      \* bound: CLEANUP_RETRY_COUNT
    None           \* nothing: no manifest, no file, no answer

Callers == Checks \cup Installs
Manifests == {Releases[n] : n \in DOMAIN Releases}
Files == {m.file : m \in Manifests}

\* The installers that were uploaded under a file name.
UploadsOf(file) ==
    {Uploads[n] : n \in {k \in DOMAIN Releases : Releases[k].file = file}}

\* Every release was built from an installer with the file name it declares.
\* A signed manifest has the size of the installer with its digest.
ASSUME ReleasesAssumption ==
    /\ Checks \cap Installs = {}
    /\ Releases \in Seq(Manifests) /\ DOMAIN Uploads = DOMAIN Releases
    /\ \A n \in DOMAIN Releases : {Releases[n].version, Uploads[n].version} \subseteq Nat
    /\ \A m \in Manifests, n \in DOMAIN Uploads :
        m.sound /\ m.sha = Uploads[n].sha => m.bytes = Uploads[n].bytes

\* Every install that is begun has a request of its own, with its staging
\* directory and its helper: the n-th of caller i is <<i, n>>.
Launches == Installs \X (1 .. MaxCalls)

\* Where a helper may be, and the answers of a call.
HelperPoints ==
    {"started", "claimed", "verified", "opened", "ready",
     "validate", "install", "installed", "leaving", "exited"}

Answers == {"current", "failed", "available", "cancelled", "installing"}

ASSUME NoneAssumption ==
    None \notin Manifests \cup {Uploads[n] : n \in DOMAIN Uploads}
              \cup Launches \cup HelperPoints \cup Answers

ASSUME BoundsAssumption == MaxCalls \in Nat

VARIABLES
    remote,   \* the release page: how many are uploaded and announced
    cache,    \* latest.json and the installers below the update root
    call,     \* the calls in progress, one per caller
    stage,    \* the staging directory and request file of each launch
    helper,   \* the helper process of each launch
    app,      \* the application: running, instance, version, installed version
    cleanup   \* the cleanup thread of an application the helper started

vars == <<remote, cache, call, stage, helper, app, cleanup>>

Idle == [pc |-> "idle", manifest |-> None, content |-> None, calls |-> 0,
         answer |-> None]
NoStage == [installer |-> None, request |-> None, manifest |-> None,
            ready |-> FALSE, parent |-> 0, current |-> 0]
NoHelper == [pc |-> None, outcome |-> None]

Init ==
    /\ remote = [uploaded |-> 0, announced |-> 0]
    /\ cache = [latest |-> None, files |-> [f \in Files |-> None]]
    /\ call = [c \in Callers |-> Idle]
    /\ stage = [l \in Launches |-> NoStage]
    /\ helper = [l \in Launches |-> NoHelper]
    /\ app = [running |-> TRUE, instance |-> 1, version |-> 1, installed |-> 1,
              background |-> TRUE, quitting |-> FALSE]
    /\ cleanup = [request |-> None, tries |-> 0]

(***************************************************************************)
(* The release page.  A version that is released again keeps its file.     *)
(***************************************************************************)
Asset(file) ==
    LET mine == {n \in 1 .. remote.uploaded : Releases[n].file = file}
    IN  IF mine = {} THEN None
        ELSE Uploads[CHOOSE n \in mine : \A k \in mine : k <= n]

Upload ==
    /\ remote.uploaded < Len(Releases)
    /\ remote.uploaded = remote.announced
    /\ remote' = [remote EXCEPT !.uploaded = @ + 1]
    /\ UNCHANGED <<cache, call, stage, helper, app, cleanup>>

Announce ==
    /\ remote.announced < remote.uploaded
    /\ remote' = [remote EXCEPT !.announced = remote.uploaded]
    /\ UNCHANGED <<cache, call, stage, helper, app, cleanup>>

(***************************************************************************)
(* What the code compares.                                                 *)
(***************************************************************************)
Newer(manifest) == manifest.version > app.version

\* Schema, channel, size, signature and version.
Accepted(manifest) == manifest.sound /\ Newer(manifest)

SameSize(content, manifest) == content # None /\ content.bytes = manifest.bytes

SameContent(content, manifest) ==
    content # None /\ content.sha = manifest.sha

Complete(content, manifest) ==
    SameSize(content, manifest) /\ SameContent(content, manifest)

At(c, pc) == app.running /\ call[c].pc = pc

\* The launch a caller is at.
Launch(i) == <<i, call[i].calls>>

\* The call goes on at pc; what it holds is kept.
Goto(c, pc) == call' = [call EXCEPT ![c].pc = pc]

\* The call ends with an answer and forgets what it held.
Answer(c, answer) ==
    call' = [call EXCEPT ![c] = [Idle EXCEPT !.calls = call[c].calls,
                                             !.answer = answer]]

(***************************************************************************)
(* sync_remote_update: whatever goes wrong, the cache is still resolved.   *)
(***************************************************************************)
Begin(c) ==
    /\ At(c, "idle")
    /\ ~app.quitting
    /\ call[c].calls < MaxCalls
    /\ call' = [call EXCEPT ![c] = [Idle EXCEPT !.pc = "fetch",
                                                !.calls = call[c].calls + 1]]
    /\ UNCHANGED <<remote, cache, stage, helper, app, cleanup>>

SyncFails(c) ==
    /\ \E pc \in {"fetch", "download", "replace", "publish"} : At(c, pc)
    /\ call' = [call EXCEPT ![c].pc = "resolve", ![c].manifest = None,
                            ![c].content = None]
    /\ UNCHANGED <<remote, cache, stage, helper, app, cleanup>>

\* An installer that is in the cache already is not downloaded again.
AfterFetch(m) ==
    IF ~Accepted(m) THEN "resolve"
    ELSE IF Complete(cache.files[m.file], m) THEN "publish" ELSE "download"

FetchManifest(c) ==
    /\ At(c, "fetch")
    /\ remote.announced > 0
    /\ LET m == Releases[remote.announced]
       IN  call' = [call EXCEPT ![c].pc = AfterFetch(m),
                ![c].manifest = IF AfterFetch(m) = "resolve" THEN None ELSE m]
    /\ UNCHANGED <<remote, cache, stage, helper, app, cleanup>>

\* Mutant: the manifest is published before the download.
Download_Mutant(c) ==
    /\ At(c, "download")
    /\ cache' = [cache EXCEPT !.latest = call[c].manifest]
    /\ call' = [call EXCEPT ![c].pc = "replace",
                            ![c].content = Asset(call[c].manifest.file)]
    /\ UNCHANGED <<remote, stage, helper, app, cleanup>>

Download(c) ==
    /\ At(c, "download")
    /\ Complete(Asset(call[c].manifest.file), call[c].manifest)
    /\ call' = [call EXCEPT ![c].pc = "replace",
                            ![c].content = Asset(call[c].manifest.file)]
    /\ UNCHANGED <<remote, cache, stage, helper, app, cleanup>>

ReplaceInstaller(c) ==
    /\ At(c, "replace")
    /\ cache' = [cache EXCEPT !.files[call[c].manifest.file] = call[c].content]
    /\ Goto(c, "publish")
    /\ UNCHANGED <<remote, stage, helper, app, cleanup>>

PublishManifest(c) ==
    /\ At(c, "publish")
    /\ cache' = [cache EXCEPT !.latest = call[c].manifest]
    /\ call' = [call EXCEPT ![c].pc = "resolve", ![c].manifest = None,
                            ![c].content = None]
    /\ UNCHANGED <<remote, stage, helper, app, cleanup>>

(***************************************************************************)
(* resolve_local_update: the manifest is read first, its installer later.  *)
(***************************************************************************)
ReadManifest(c) ==
    /\ At(c, "resolve")
    /\ IF cache.latest = None \/ ~Newer(cache.latest)
       THEN Answer(c, "current")
       ELSE call' = [call EXCEPT ![c].pc = "inspect",
                                 ![c].manifest = cache.latest]
    /\ UNCHANGED <<remote, cache, stage, helper, app, cleanup>>

InspectInstaller(c) ==
    /\ At(c, "inspect")
    /\ CASE ~SameSize(cache.files[call[c].manifest.file], call[c].manifest) ->
                Answer(c, "failed")
         [] c \in Checks -> Answer(c, "available")
         [] OTHER -> Goto(c, "hash")
    /\ UNCHANGED <<remote, cache, stage, helper, app, cleanup>>

(***************************************************************************)
(* local_update_install                                                    *)
(***************************************************************************)
HashInstaller(i) ==
    /\ At(i, "hash")
    /\ IF SameContent(cache.files[call[i].manifest.file], call[i].manifest)
       THEN Goto(i, "confirm")
       ELSE Answer(i, "failed")
    /\ UNCHANGED <<remote, cache, stage, helper, app, cleanup>>

Confirm(i) ==
    /\ At(i, "confirm")
    /\ Goto(i, "close") \/ Answer(i, "cancelled")
    /\ UNCHANGED <<remote, cache, stage, helper, app, cleanup>>

\* The monitors stop, then the port closes; a failure starts them again.
StopServices(i) ==
    /\ At(i, "close")
    /\ \/ /\ app' = [app EXCEPT !.background = FALSE]
          /\ Goto(i, "stage")
       \/ /\ app' = [app EXCEPT !.background = TRUE]
          /\ Answer(i, "failed")
    /\ UNCHANGED <<remote, cache, stage, helper, cleanup>>

\* The name of the running executable: without it the monitors stay stopped.
NoExecutable(i) ==
    /\ At(i, "stage")
    /\ Answer(i, "failed")
    /\ UNCHANGED <<remote, cache, stage, helper, app, cleanup>>

\* cleanup_failed_launch, then the monitors start again.
LaunchFails(i) ==
    /\ stage' = [stage EXCEPT ![Launch(i)] = [NoStage EXCEPT !.request =
                    IF stage[Launch(i)].request = "claimed" THEN "claimed" ELSE None]]
    /\ app' = [app EXCEPT !.background = TRUE]
    /\ Answer(i, "failed")

\* Mutant: the staged copy is only compared by its size.
StagedGood_Mutant(i) ==
    SameSize(cache.files[call[i].manifest.file], call[i].manifest)

\* The copy is made from the cache as it is now, not as it was confirmed.
StagedGood(i) ==
    SameContent(cache.files[call[i].manifest.file], call[i].manifest)

StageInstaller(i) ==
    /\ At(i, "stage")
    /\ \/ /\ StagedGood(i)
          /\ stage' = [stage EXCEPT ![Launch(i)] =
                [installer |-> cache.files[call[i].manifest.file],
                 request |-> "json", manifest |-> call[i].manifest,
                 ready |-> FALSE, parent |-> app.instance,
                 current |-> app.version]]
          /\ Goto(i, "spawn")
          /\ UNCHANGED app
       \/ LaunchFails(i)
    /\ UNCHANGED <<remote, cache, helper, cleanup>>

SpawnHelper(i) ==
    /\ At(i, "spawn")
    /\ \/ /\ helper' = [helper EXCEPT ![Launch(i)] = [pc |-> "started", outcome |-> None]]
          /\ Goto(i, "poll")
          /\ UNCHANGED <<stage, app>>
       \/ /\ LaunchFails(i)
          /\ UNCHANGED helper
    /\ UNCHANGED <<remote, cache, cleanup>>

\* The loop looks for the marker first; finding it ends the application soon.
PollReady(i) ==
    /\ At(i, "poll")
    /\ IF stage[Launch(i)].ready
       THEN /\ Answer(i, "installing")
            /\ app' = [app EXCEPT !.quitting = TRUE]
       ELSE /\ Goto(i, "probe")
            /\ UNCHANGED app
    /\ UNCHANGED <<remote, cache, stage, helper, cleanup>>

HelperAlive(l) == helper[l].pc \notin {None, "exited"}


\* Then for a helper that ended, then for the deadline.
ProbeHelper(i) ==
    /\ At(i, "probe")
    /\ IF HelperAlive(Launch(i))
       THEN /\ Goto(i, "poll") \/ Goto(i, "kill")
            /\ UNCHANGED <<stage, app>>
       ELSE LaunchFails(i)
    /\ UNCHANGED <<remote, cache, helper, cleanup>>

\* Mutant: a helper past its deadline is given up, not killed.
KillHelper_Mutant(i) ==
    /\ At(i, "kill")
    /\ LaunchFails(i)
    /\ UNCHANGED <<remote, cache, helper, cleanup>>

KillHelper(i) ==
    /\ At(i, "kill")
    /\ helper' = [helper EXCEPT ![Launch(i)] = [pc |-> "exited", outcome |->
                    IF HelperAlive(Launch(i)) THEN "killed" ELSE @.outcome]]
    /\ LaunchFails(i)
    /\ UNCHANGED <<remote, cache, cleanup>>

(***************************************************************************)
(* The application ends: for the update, by its user, or in a crash.       *)
(***************************************************************************)
EndApp ==
    /\ app' = [app EXCEPT !.running = FALSE, !.background = FALSE,
                          !.quitting = FALSE]
    /\ call' = [c \in Callers |-> [Idle EXCEPT !.calls = call[c].calls,
                                               !.answer = call[c].answer]]
    /\ cleanup' = [request |-> None, tries |-> 0]
    /\ UNCHANGED <<remote, cache, stage, helper>>

Exit == app.running /\ app.quitting /\ EndApp

Lost == app.running /\ app.instance < MaxInstances /\ EndApp

\* The installed version starts.
Started ==
    app' = [app EXCEPT !.running = TRUE, !.instance = @ + 1,
                       !.version = app.installed, !.background = TRUE,
                       !.quitting = FALSE]

\* Its user starts it again, not while a helper is at work.
StartAgain ==
    /\ ~app.running
    /\ app.instance < MaxInstances
    /\ \A l \in Launches : ~HelperAlive(l)
    /\ Started
    /\ UNCHANGED <<remote, cache, call, stage, helper, cleanup>>

(***************************************************************************)
(* run_update_helper                                                       *)
(***************************************************************************)
HelperExits(l, outcome) ==
    helper' = [helper EXCEPT ![l] = [pc |-> "exited", outcome |-> outcome]]

HelperAt(l, pc) == helper[l].pc = pc

ClaimRequest(l) ==
    /\ HelperAt(l, "started")
    /\ IF stage[l].request = "json"
       THEN /\ stage' = [stage EXCEPT ![l].request = "claimed"]
            /\ helper' = [helper EXCEPT ![l].pc = "claimed"]
       ELSE /\ HelperExits(l, "unclaimed")
            /\ UNCHANGED stage
    /\ UNCHANGED <<remote, cache, call, app, cleanup>>

\* The request is read and the helper finds itself to be the staged copy.
ReadRequest(l) ==
    /\ HelperAt(l, "claimed")
    /\ \/ helper' = [helper EXCEPT ![l].pc = "verified"]
       \/ HelperExits(l, "refused")
    /\ UNCHANGED <<remote, cache, call, stage, app, cleanup>>

\* The parent's handle opens only on the process that wrote the request.
ParentAlive(l) == app.running /\ app.instance = stage[l].parent

OpenParent(l) ==
    /\ HelperAt(l, "verified")
    /\ \/ /\ ParentAlive(l)
          /\ helper' = [helper EXCEPT ![l].pc = "opened"]
       \/ HelperExits(l, "refused")
    /\ UNCHANGED <<remote, cache, call, stage, app, cleanup>>

MarkReady(l) ==
    /\ HelperAt(l, "opened")
    /\ stage' = [stage EXCEPT ![l].ready = TRUE]
    /\ helper' = [helper EXCEPT ![l].pc = "ready"]
    /\ UNCHANGED <<remote, cache, call, app, cleanup>>

WaitParent(l) ==
    /\ HelperAt(l, "ready")
    /\ \/ /\ ~ParentAlive(l)
          /\ helper' = [helper EXCEPT ![l].pc = "validate"]
       \/ /\ ParentAlive(l)
          /\ HelperExits(l, "timeout")
    /\ UNCHANGED <<remote, cache, call, stage, app, cleanup>>

\* The stage is checked once more with the installer held open.
StageValid(l) ==
    /\ stage[l].manifest # None
    /\ stage[l].manifest.sound
    /\ stage[l].manifest.version > stage[l].current
    /\ Complete(stage[l].installer, stage[l].manifest)

\* Mutant: a helper that fails just ends.
Relaunch_Mutant(l) ==
    /\ HelperExits(l, "relaunched")
    /\ UNCHANGED app

\* relaunch_installed_after_failure; the executable may not be found.
Relaunch(l) ==
    \/ /\ Started
       /\ HelperExits(l, "relaunched")
    \/ /\ HelperExits(l, "stranded")
       /\ UNCHANGED app

ValidateStage(l) ==
    /\ HelperAt(l, "validate")
    /\ \/ /\ StageValid(l)
          /\ helper' = [helper EXCEPT ![l].pc = "install"]
          /\ UNCHANGED app
       \/ Relaunch(l)
    /\ UNCHANGED <<remote, cache, call, stage, cleanup>>

RunInstaller(l) ==
    /\ HelperAt(l, "install")
    /\ \/ /\ app' = [app EXCEPT !.installed = stage[l].installer.version]
          /\ stage' = [stage EXCEPT ![l].request = None]
          /\ helper' = [helper EXCEPT ![l].pc = "installed"]
       \/ /\ Relaunch(l)
          /\ UNCHANGED stage
    /\ UNCHANGED <<remote, cache, call, cleanup>>

\* The new version starts with the cleanup flag while its helper still runs.
StartUpdated(l) ==
    /\ HelperAt(l, "installed")
    /\ \/ /\ Started
          /\ cleanup' = [request |-> l, tries |-> 0]
          /\ helper' = [helper EXCEPT ![l].pc = "leaving"]
       \/ /\ HelperExits(l, "stranded")
          /\ UNCHANGED <<app, cleanup>>
    /\ UNCHANGED <<remote, cache, call, stage>>

HelperLeaves(l) ==
    /\ HelperAt(l, "leaving")
    /\ HelperExits(l, "updated")
    /\ UNCHANGED <<remote, cache, call, stage, app, cleanup>>

\* schedule_update_cleanup: a stage in use cannot be removed.
CleanUp(l) ==
    /\ app.running
    /\ cleanup.request = l
    /\ IF HelperAlive(l)
       THEN /\ cleanup' = [request |-> IF cleanup.tries + 1 = MaxTries
                                       THEN None ELSE l,
                           tries |-> cleanup.tries + 1]
            /\ stage' = [stage EXCEPT ![l].request = None]
       ELSE /\ cleanup' = [request |-> None, tries |-> 0]
            /\ stage' = [stage EXCEPT ![l] = NoStage]
    /\ UNCHANGED <<remote, cache, call, helper, app>>

(***************************************************************************)
(* The specification.                                                      *)
(***************************************************************************)
CallStep(c) ==
    \/ FetchManifest(c) \/ Download(c) \/ ReplaceInstaller(c)
    \/ PublishManifest(c) \/ ReadManifest(c) \/ InspectInstaller(c)

InstallStep(i) ==
    \/ HashInstaller(i) \/ Confirm(i) \/ StopServices(i) \/ NoExecutable(i)
    \/ StageInstaller(i) \/ SpawnHelper(i) \/ PollReady(i) \/ ProbeHelper(i)
    \/ KillHelper(i)

HandshakeStep(l) ==
    ClaimRequest(l) \/ ReadRequest(l) \/ OpenParent(l) \/ MarkReady(l)

HelperStep(l) ==
    \/ WaitParent(l) \/ ValidateStage(l) \/ RunInstaller(l)
    \/ StartUpdated(l) \/ HelperLeaves(l)

Next ==
    \/ Upload \/ Announce \/ Exit \/ Lost \/ StartAgain
    \/ \E c \in Callers : Begin(c) \/ SyncFails(c) \/ CallStep(c)
    \/ \E i \in Installs : InstallStep(i)
    \/ \E l \in Launches : HandshakeStep(l) \/ HelperStep(l) \/ CleanUp(l)

\* Threads run on, an operation that does not succeed fails, the user answers
\* the dialog, the deadline passes, and a process told to end ends.  A helper
\* that is not ready yet may hang; one that is ready goes on.
Fairness ==
    /\ \A c \in Callers : WF_vars(CallStep(c) \/ SyncFails(c))
    /\ \A i \in Installs : WF_vars(InstallStep(i))
    /\ \A l \in Launches : WF_vars(HelperStep(l))
    /\ \A i \in Installs : SF_vars(At(i, "probe") /\ ProbeHelper(i)
                                    /\ call'[i].pc # "poll")
    /\ WF_vars(Exit)

Spec == Init /\ [][Next]_vars /\ Fairness

(***************************************************************************)
(* Properties.                                                             *)
(***************************************************************************)
\* The application reads no manifest whose installer was never there in full:
\* the manifest is published after the installer it names, each by one rename,
\* whichever calls interleave and wherever the application is lost
\* (sync_remote_update).
PublishedIsCached ==
    cache.latest # None => \E n \in DOMAIN Uploads :
        /\ Releases[n].file = cache.latest.file
        /\ cache.files[cache.latest.file] = Uploads[n]

\* The application ends itself only for an installer it staged itself, that is
\* the signed one its user confirmed, newer than the version that runs, although
\* the cache may have changed while the dialog was open, and another clean-up or
\* helper may be at work (launch_update_helper).
QuitsForGoodUpdate ==
    app.quitting => \E l \in Launches :
        stage[l].ready /\ stage[l].parent = app.instance /\ StageValid(l)

\* A helper installs only after the process that asked has ended, and never
\* for a launch that was reported as failed, however readiness, deadline and
\* kill race (launch_update_helper, run_update_helper).
HelperObeysParent ==
    /\ \A i \in Installs :
        call[i].answer = "failed" => ~HelperAlive(Launch(i))
    /\ \A l \in Launches : HelperAt(l, "install") => ~ParentAlive(l)

\* An application that ended for an update runs again, updated or not, unless
\* the helper gave up waiting for it or the executable cannot be started
\* (run_update_helper).
AppComesBack ==
    app.quitting ~>
        \/ app.running /\ ~app.quitting
        \/ \E l \in Launches : helper[l].outcome \in {"timeout", "stranded"}

=============================================================================

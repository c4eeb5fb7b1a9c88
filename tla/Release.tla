------------------------------ MODULE Release ------------------------------
(***************************************************************************)
(* The publication of a release: the workflow release.yml with its         *)
(* registry inspection (scripts/release/registry), over Docker Hub and     *)
(* GitHub's releases, when a run may be cut off after any step, started    *)
(* again from the beginning or from the failed job, and when building the  *)
(* same commit twice need not give the same image.                         *)
(*                                                                         *)
(* An image is a version, the commit it was built from and a build; the    *)
(* manifest digest and the config digest both identify it.  The versions   *)
(* are those of one stable line.  The concurrency group allows one active  *)
(* run.  Dry runs, which change nothing outside the runner, and the text   *)
(* of the notes are left out.                                              *)
(***************************************************************************)
EXTENDS Naturals, Sequences

CONSTANTS
    Versions,       \* the patch numbers of one stable line
    Revisions,      \* commits a version tag may name
    Builds,         \* what building one commit may give
    NoImage,        \* no such tag, no such asset, not built yet
    MaxDrafts,      \* bound on the drafts that gh creates for one tag
    MaxFailures,    \* bound on the steps that fail for reasons of their own
    MaxMoves        \* bound on how often a version tag is moved

Images == [version: Versions, rev: Revisions, build: Builds]

ASSUME ReleaseAssumption ==
    /\ Versions \subseteq Nat
    /\ NoImage \notin Images
    /\ MaxDrafts \in Nat /\ MaxFailures \in Nat /\ MaxMoves \in Nat

VARIABLES
    head,           \* the commit each version tag names
    hub, alias,     \* Docker Hub: the full version tags and the stable tag
    releases,       \* GitHub: the releases of each version tag
    job,            \* the active workflow run
    failed,         \* failed publish jobs: the inputs a re-run takes again
    failures, moves

worldVars == <<head, hub, alias, releases>>
vars == <<worldVars, job, failed, failures, moves>>

Assets == Images \cup {NoImage}
Idle == [step |-> "none"]

Draft(image, bundle) ==
    [draft |-> TRUE, bundle |-> bundle, checkpoint |-> image,
     metadata |-> NoImage, digest |-> NoImage]

-----------------------------------------------------------------------------
(* What a run sees and how it stops.                                        *)

\* Mutant of Inspect: an answer other than 200 reads as "absent".
InspectLenient(tag) == {tag, NoImage}

\* inspect: the image a tag names.  Only 404 means absent; every other failure
\* ends the step, which is Fail.
Inspect(tag) == {tag}

Named(image, v) == image # NoImage /\ image.version = v
Newer(image, v) == image # NoImage /\ image.version > v

Published(v) == {k \in DOMAIN releases[v] : ~releases[v][k].draft}

\* The releases "gh release view" may answer with: a published one first.
Found(v) == IF Published(v) # {} THEN Published(v) ELSE DOMAIN releases[v]

Proceed(step) == job' = [job EXCEPT !.step = step]

\* The run ends without success; of the publish job, GitHub keeps the inputs.
Stop ==
    /\ job' = Idle
    /\ failed' = IF job.step = "preflight" THEN failed
                 ELSE failed \cup {job.input}

\* A check of the shell script ("set -e"): act when it holds, else the job fails.
OrStop(check, act) ==
    \/ check /\ act /\ UNCHANGED failed
    \/ ~check /\ Stop /\ UNCHANGED worldVars

Counters == <<failures, moves>>

-----------------------------------------------------------------------------
(* The environment.                                                         *)

\* The inputs of a publish job: the outputs of source and preflight.
Input(action, config, digest) ==
    [version |-> job.version, rev |-> job.rev, action |-> action,
     config |-> config, digest |-> digest]

\* The publish job begins: the steps an action skips are those before this one.
Job(input) ==
    [step |-> CASE input.action = "build" -> "build"
                [] input.action = "resume_finalize" -> "metadata"
                [] input.action = "resume" -> "require",
     version |-> input.version, rev |-> input.rev,
     input |-> input, image |-> input.digest]

\* A tag is pushed, or the workflow is dispatched or run again for it: source.
Dispatch(v) ==
    /\ job = Idle
    /\ job' = [step |-> "preflight", version |-> v, rev |-> head[v]]
    /\ UNCHANGED <<worldVars, failed, Counters>>

\* "Re-run failed jobs": the outputs of the earlier jobs are taken as they were.
RerunFailed(input) ==
    /\ job = Idle
    /\ job' = Job(input)
    /\ failed' = failed \ {input}
    /\ UNCHANGED <<worldVars, Counters>>

\* The network, the runner, a build or a test fails, or somebody cancels.
Fail ==
    /\ job # Idle
    /\ failures < MaxFailures
    /\ failures' = failures + 1
    /\ Stop
    /\ UNCHANGED <<worldVars, moves>>

\* "Never move or recreate the Git tag", and what happens when one is moved.
MoveTag(v, rev) ==
    /\ moves < MaxMoves
    /\ moves' = moves + 1
    /\ rev # head[v]
    /\ head' = [head EXCEPT ![v] = rev]
    /\ UNCHANGED <<hub, alias, releases, job, failed, failures>>

\* "Repair this draft without overwriting existing assets, then rerun".
Repair(v) ==
    /\ \E k \in DOMAIN releases[v] :
          /\ releases[v][k].draft /\ ~releases[v][k].bundle
          /\ releases' = [releases EXCEPT ![v][k].bundle = TRUE]
    /\ UNCHANGED <<head, hub, alias, job, failed, Counters>>

-----------------------------------------------------------------------------
(* Preflight: the state of the destination decides how the job begins.      *)

\* Neither the release nor the stable tag contradicts this source.
Compatible(stable) ==
    LET v == job.version
    IN  /\ Len(releases[v]) <= 1
        /\ \A k \in DOMAIN releases[v] :
              /\ releases[v][k].checkpoint # NoImage
              /\ releases[v][k].checkpoint.rev = job.rev
        /\ Named(stable, v) => stable.rev = job.rev
        /\ ~Newer(stable, v)

\* The full version is on Docker Hub and is what the release and the alias say.
Agrees(full, stable) ==
    LET v == job.version
    IN  /\ full.version = v /\ full.rev = job.rev
        /\ releases[v] # <<>>
        /\ releases[v][1].checkpoint = full
        /\ releases[v][1].digest \in
              {full} \cup IF releases[v][1].draft THEN {NoImage} ELSE {}
        /\ Named(stable, v) => stable = full
        /\ ~releases[v][1].draft => Named(stable, v)

PreflightBuild(full, stable) ==
    /\ full = NoImage
    /\ OrStop(/\ Compatible(stable)
              /\ ~Named(stable, job.version)
              /\ Published(job.version) = {},
              /\ job' = Job(Input("build",
                               IF releases[job.version] = <<>> THEN NoImage
                               ELSE releases[job.version][1].checkpoint, NoImage))
              /\ UNCHANGED worldVars)

PreflightResume(full, stable) ==
    LET release == releases[job.version][1]
    IN  /\ full # NoImage
        /\ OrStop(Compatible(stable) /\ Agrees(full, stable),
                  /\ job' = IF ~release.draft THEN Idle
                            ELSE Job(Input(IF release.digest = NoImage
                                           THEN "resume_finalize" ELSE "resume",
                                           full, full))
                  /\ UNCHANGED worldVars)

Preflight ==
    /\ job.step = "preflight"
    /\ \E full \in Inspect(hub[job.version]), stable \in Inspect(alias) :
          PreflightBuild(full, stable) \/ PreflightResume(full, stable)
    /\ UNCHANGED Counters

-----------------------------------------------------------------------------
(* The publish job.                                                         *)

\* Every gate, the image and its tests.  What a build gives is not determined.
Build ==
    /\ job.step = "build"
    /\ \E b \in Builds :
          job' = [job EXCEPT !.step = "checkpoint", !.image =
                    [version |-> job.version, rev |-> job.rev, build |-> b]]
    /\ UNCHANGED <<worldVars, failed, Counters>>

\* Mutant of Recover: a checkpoint is taken for whatever was built.
RecoverAnyBuild ==
    /\ job.step = "checkpoint" /\ job.input.config # NoImage
    /\ Proceed("push")
    /\ UNCHANGED <<worldVars, failed, Counters>>

\* The draft of an earlier run names the image that may be pushed.
Recover ==
    /\ job.step = "checkpoint" /\ job.input.config # NoImage
    /\ OrStop(job.image = job.input.config,
              Proceed("push") /\ UNCHANGED worldVars)
    /\ UNCHANGED Counters

\* gh release create: a second draft for the tag is not refused, a published
\* release is.
CreateDraft ==
    LET v == job.version
    IN  /\ job.step = "checkpoint" /\ job.input.config = NoImage
        /\ OrStop(Len(releases[v]) < MaxDrafts /\ Published(v) = {},
                  /\ releases' = [releases EXCEPT ![v] =
                                    Append(@, Draft(job.image, TRUE))]
                  /\ Proceed("push")
                  /\ UNCHANGED <<head, hub, alias>>)
        /\ UNCHANGED Counters

\* gh release create is cut off: some attachments are missing.
CreatePartialDraft ==
    LET v == job.version
    IN  /\ job.step = "checkpoint" /\ job.input.config = NoImage
        /\ failures < MaxFailures
        /\ Len(releases[v]) < MaxDrafts /\ Published(v) = {}
        /\ \E checkpoint \in {job.image, NoImage} :
              releases' = [releases EXCEPT ![v] =
                             Append(@, Draft(checkpoint, FALSE))]
        /\ failures' = failures + 1
        /\ Stop
        /\ UNCHANGED <<head, hub, alias, moves>>

\* The second absence check and the push.
Push ==
    /\ job.step = "push"
    /\ \E full \in Inspect(hub[job.version]) :
          OrStop(full = NoImage,
                 /\ hub' = [hub EXCEPT ![job.version] = job.image]
                 /\ Proceed("verify")
                 /\ UNCHANGED <<head, alias, releases>>)
    /\ UNCHANGED Counters

\* The registry answers with what was pushed.
Verify ==
    /\ job.step = "verify"
    /\ \E full \in Inspect(hub[job.version]) :
          OrStop(full = job.image, Proceed("metadata") /\ UNCHANGED worldVars)
    /\ UNCHANGED Counters

\* ensure_asset: an attachment of a draft is uploaded once and never replaced.
MayUpload(release, asset) == release.draft /\ asset \in {NoImage, job.image}

UploadMetadata(next) ==
    LET v == job.version
    IN  \E k \in Found(v) :
          OrStop(MayUpload(releases[v][k], releases[v][k].metadata),
                 /\ releases' = [releases EXCEPT ![v][k].metadata = job.image]
                 /\ Proceed(next)
                 /\ UNCHANGED <<head, hub, alias>>)

UploadDigest(next) ==
    LET v == job.version
    IN  \E k \in Found(v) :
          OrStop(MayUpload(releases[v][k], releases[v][k].digest),
                 /\ releases' = [releases EXCEPT ![v][k].digest = job.image]
                 /\ Proceed(next)
                 /\ UNCHANGED <<head, hub, alias>>)

\* Mutant of Complete: the completion marker is uploaded before the metadata.
CompleteMarkerFirst ==
    /\ \/ job.step = "metadata" /\ UploadDigest("digest")
       \/ job.step = "digest" /\ UploadMetadata("require")
    /\ UNCHANGED Counters

\* The metadata, then the digest that marks the draft as complete.
Complete ==
    /\ \/ job.step = "metadata" /\ UploadMetadata("digest")
       \/ job.step = "digest" /\ UploadDigest("require")
    /\ UNCHANGED Counters

\* Every attachment is there before anything is promoted.
Require ==
    LET v == job.version
    IN  /\ job.step = "require"
        /\ \E k \in Found(v) :
              OrStop(/\ releases[v][k].draft /\ releases[v][k].bundle
                     /\ NoImage \notin {releases[v][k].checkpoint,
                                        releases[v][k].metadata,
                                        releases[v][k].digest},
                     Proceed("promote") /\ UNCHANGED worldVars)
        /\ UNCHANGED Counters

\* Mutant of MayPromote: the stable tag is not looked at again.
MayPromoteUnseen(full, stable) == full = job.image

\* The full version still is this image, and the stable tag is not newer.
MayPromote(full, stable) == full = job.image /\ ~Newer(stable, job.version)

Promote ==
    /\ job.step = "promote"
    /\ \E full \in Inspect(hub[job.version]), stable \in Inspect(alias) :
          OrStop(MayPromote(full, stable),
                 /\ alias' = job.image
                 /\ Proceed("publish")
                 /\ UNCHANGED <<head, hub, releases>>)
    /\ UNCHANGED Counters

\* gh release edit --draft=false
Publish ==
    /\ job.step = "publish"
    /\ \E k \in Found(job.version) :
          releases' = [releases EXCEPT ![job.version][k].draft = FALSE]
    /\ job' = Idle
    /\ UNCHANGED <<head, hub, alias, failed, Counters>>

JobStep ==
    \/ Preflight \/ Build \/ Recover \/ CreateDraft \/ Push \/ Verify
    \/ Complete \/ Require \/ Promote \/ Publish

-----------------------------------------------------------------------------
Init ==
    /\ head \in [Versions -> Revisions]
    /\ hub = [v \in Versions |-> NoImage]
    /\ alias = NoImage
    /\ releases = [v \in Versions |-> <<>>]
    /\ job = Idle
    /\ failed = {}
    /\ failures = 0 /\ moves = 0

Next ==
    \/ JobStep
    \/ CreatePartialDraft
    \/ Fail
    \/ \E v \in Versions : Dispatch(v) \/ Repair(v)
    \/ \E v \in Versions, rev \in Revisions : MoveTag(v, rev)
    \/ \E input \in failed : RerunFailed(input)

Spec == Init /\ [][Next]_vars

\* A step of a run ends, and a maintainer repairs an incomplete draft and runs
\* the workflow again for each version.
FairSpec ==
    /\ Spec
    /\ WF_vars(JobStep)
    /\ \A v \in Versions : WF_vars(Repair(v)) /\ SF_vars(Dispatch(v))

-----------------------------------------------------------------------------
(* Properties.                                                              *)

\* "Immutable full version": once Docker Hub has an image for a version, no
\* run, resumed run or re-run of a failed job puts another one in its place.
FullTagsNeverMove ==
    [][\A v \in Versions : hub[v] # NoImage => hub'[v] = hub[v]]_vars

\* "Older-version retries must not move 2.1 backwards": the stable tag only
\* ever changes to the image of a newer version, also by a re-run whose
\* preflight was made long ago.
AliasNeverRollsBack ==
    [][alias' # alias /\ alias # NoImage => Newer(alias', alias.version)]_vars

\* A published release, the only one of its tag, is complete, its attachments
\* and the full tag name one image, and the stable tag is at this version or a
\* newer one.
PublishedIsWhole ==
    \A v \in Versions : \A k \in Published(v) : Len(releases[v]) = 1 =>
        LET release == releases[v][k]
        IN  /\ release.bundle /\ hub[v] # NoImage
            /\ {release.checkpoint, release.metadata, release.digest} = {hub[v]}
            /\ alias = hub[v] \/ Newer(alias, v)

Pushed(v) == Named(hub[v], v) /\ hub[v].rev = head[v]

\* An image that was pushed gets its release published, although runs are cut
\* off at any step (as often as MaxFailures allows), unless a newer version took the stable tag, the tag was moved or
\* has several drafts.
PushedGetsPublished ==
    \A v \in Versions :
        Pushed(v) ~> \/ Published(v) # {} \/ Newer(alias, v)
                     \/ Len(releases[v]) > 1 \/ ~Pushed(v)
=============================================================================

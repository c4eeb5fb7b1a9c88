--------------------------- MODULE ReleaseProofs ---------------------------
(* Theorems about the publication of releases, for any set of versions,     *)
(* commits, builds and operators and any number of failures and re-runs.    *)
EXTENDS ServerRelease, TLAPS

-----------------------------------------------------------------------------
(* The workflow.                                                            *)

Later == {"checkpoint", "push", "verify", "metadata", "digest", "require",
          "promote", "publish"}

OfVersion(image, v) == image \in Images /\ image.version = v

\* What preflight passes on, also to a re-run of the publish job.
InputOk(input) ==
    /\ input.version \in Versions /\ input.rev \in Revisions
    /\ input.action \in {"build", "resume", "resume_finalize"}
    /\ input.action # "build" => OfVersion(input.digest, input.version)

HubNamed ==
    /\ head \in [Versions -> Revisions]
    /\ hub \in [Versions -> Assets]
    /\ \A v \in Versions : hub[v] # NoImage => hub[v].version = v

\* A run in its publish job works on an image of its version.
JobOk ==
    /\ job.step \in {"none", "preflight", "build"} \cup Later
    /\ job.step = "none" => job = Idle
    /\ job.step = "preflight" =>
          /\ job = [step |-> job.step, version |-> job.version, rev |-> job.rev]
          /\ job.version \in Versions /\ job.rev \in Revisions
    /\ job.step \in {"build"} \cup Later =>
          /\ job = [step |-> job.step, version |-> job.version, rev |-> job.rev,
                    input |-> job.input, image |-> job.image]
          /\ job.version \in Versions /\ job.rev \in Revisions
          /\ InputOk(job.input)
    /\ job.step \in Later => OfVersion(job.image, job.version)
    /\ \A input \in failed : InputOk(input)

\* The stable tag names what the full version has.
AliasOk == alias # NoImage => alias.version \in Versions /\ alias = hub[alias.version]

WorkflowInv == HubNamed /\ JobOk /\ AliasOk

\* The invariant holds before the first run.
LEMMA WorkflowInit == Init => WorkflowInv
  BY DEF Init, WorkflowInv, HubNamed, JobOk, AliasOk, Idle, Assets, Later

\* The publish job that an input begins.
LEMMA JobBegins ==
  ASSUME NEW input, InputOk(input), job' = Job(input)
  PROVE  /\ job' = [step |-> job'.step, version |-> job'.version,
                    rev |-> job'.rev, input |-> job'.input, image |-> job'.image]
         /\ job'.step \in {"build", "metadata", "require"}
         /\ job'.version \in Versions /\ job'.rev \in Revisions
         /\ InputOk(job'.input)
         /\ job'.step \in Later => OfVersion(job'.image, job'.version)
<1>1. input.action \in {"build", "resume", "resume_finalize"}
  BY DEF InputOk
<1>2. CASE input.action = "build"
  BY <1>2 DEF InputOk, Job, Later
<1>3. CASE input.action = "resume"
  BY <1>3 DEF InputOk, Job, Later
<1>4. CASE input.action = "resume_finalize"
  BY <1>4 DEF InputOk, Job, Later
<1> QED  BY <1>1, <1>2, <1>3, <1>4

\* A run that ends, whatever its inputs, leaves nothing else to remember.
LEMMA JobEnds ==
  ASSUME JobOk, job.step # "none", Stop
  PROVE  JobOk'
<1>1. job' = Idle /\ job'.step = "none"  BY DEF Stop, Idle
<1>2. \A input \in failed' : InputOk(input)
  <2>1. CASE job.step = "preflight"  BY <2>1 DEF Stop, JobOk
  <2>2. CASE job.step # "preflight"
    <3>1. InputOk(job.input)  BY <2>2 DEF JobOk
    <3> QED  BY <2>2, <3>1 DEF Stop, JobOk
  <2> QED  BY <2>1, <2>2
<1> QED  BY <1>1, <1>2 DEF JobOk, Later, InputOk, OfVersion

\* A step of the publish job that keeps the image.
LEMMA JobProceeds ==
  ASSUME JobOk, job.step \in Later, NEW step \in Later, Proceed(step),
         UNCHANGED failed
  PROVE  JobOk'
<1>1. job' = [step |-> step, version |-> job.version, rev |-> job.rev,
              input |-> job.input, image |-> job.image]
  BY DEF JobOk, Proceed
<1>2. step \notin {"none", "preflight"}  BY DEF Later
<1> QED  BY <1>1, <1>2 DEF JobOk, InputOk, OfVersion

\* Steps outside the jobs keep what is known of the jobs,
LEMMA JobKept ==
  ASSUME JobOk, UNCHANGED <<job, failed>>
  PROVE  JobOk'
  BY DEF JobOk, InputOk, OfVersion

\* and steps that publish nothing what is known of Docker Hub.
LEMMA WorldKept ==
  ASSUME HubNamed, AliasOk, UNCHANGED <<head, hub, alias>>
  PROVE  HubNamed' /\ AliasOk'
  BY DEF HubNamed, AliasOk

\* The preflight hands on inputs of the version it was made for.
LEMMA PreflightStep ==
  ASSUME WorkflowInv, Preflight
  PROVE  JobOk' /\ UNCHANGED worldVars
<1>1. job.step = "preflight" /\ job.version \in Versions /\ job.rev \in Revisions
  BY DEF WorkflowInv, JobOk, Preflight
<1>2. CASE Stop /\ UNCHANGED worldVars
  BY <1>1, <1>2, JobEnds DEF WorkflowInv
<1>3. ASSUME NEW config, UNCHANGED <<failed, worldVars>>,
             job' = Job(Input("build", config, NoImage))
      PROVE  JobOk'
  <2>1. InputOk(Input("build", config, NoImage))
    BY <1>1 DEF InputOk, Input
  <2>2. \A input \in failed' : InputOk(input)
    BY <1>3 DEF WorkflowInv, JobOk
  <2> QED  BY <1>3, <2>1, <2>2, JobBegins DEF JobOk, Later
<1>4. ASSUME NEW action \in {"resume", "resume_finalize"}, NEW full,
             OfVersion(full, job.version), UNCHANGED <<failed, worldVars>>,
             job' = Job(Input(action, full, full))
      PROVE  JobOk'
  <2>1. InputOk(Input(action, full, full))
    BY <1>1, <1>4 DEF InputOk, Input
  <2>2. \A input \in failed' : InputOk(input)
    BY <1>4 DEF WorkflowInv, JobOk
  <2> QED  BY <1>4, <2>1, <2>2, JobBegins DEF JobOk, Later
<1>5. CASE UNCHANGED <<failed, worldVars>> /\ job' = Idle
  BY <1>5 DEF WorkflowInv, JobOk, Idle, Later, InputOk, OfVersion
<1>6. PICK full \in Inspect(hub[job.version]), stable \in Inspect(alias) :
        PreflightBuild(full, stable) \/ PreflightResume(full, stable)
  BY DEF Preflight
<1>7. CASE PreflightBuild(full, stable)
  BY <1>2, <1>3, <1>7 DEF PreflightBuild, OrStop
<1>8. CASE PreflightResume(full, stable)
  <2>1. full \in Assets /\ full # NoImage
    BY <1>1, <1>6, <1>8 DEF WorkflowInv, HubNamed, PreflightResume, Inspect
  <2>2. CASE ~(Compatible(stable) /\ Agrees(full, stable))
    BY <1>2, <1>8, <2>2 DEF PreflightResume, OrStop
  <2>3. CASE Compatible(stable) /\ Agrees(full, stable)
    <3>1. OfVersion(full, job.version)
      BY <2>1, <2>3 DEF Agrees, OfVersion, Assets
    <3>2. UNCHANGED <<failed, worldVars>>
      BY <1>8, <2>3 DEF PreflightResume, OrStop
    <3>3. \/ job' = Idle
          \/ \E action \in {"resume", "resume_finalize"} :
                job' = Job(Input(action, full, full))
      BY <1>8, <2>3 DEF PreflightResume, OrStop
    <3> QED  BY <1>4, <1>5, <3>1, <3>2, <3>3
  <2> QED  BY <2>2, <2>3
<1> QED  BY <1>6, <1>7, <1>8

\* Steps that write neither Docker Hub nor a version tag.
LEMMA LocalStep ==
  ASSUME WorkflowInv,
         Build \/ Recover \/ CreateDraft \/ Verify \/ Complete \/ Require \/ Publish
  PROVE  JobOk' /\ UNCHANGED <<head, hub, alias>>
<1>0. JobOk  BY DEF WorkflowInv
<1>1. CASE Build
  <2>1. PICK b \in Builds : job' = [job EXCEPT !.step = "checkpoint", !.image =
                 [version |-> job.version, rev |-> job.rev, build |-> b]]
    BY <1>1 DEF Build
  <2>2. /\ job = [step |-> job.step, version |-> job.version, rev |-> job.rev,
                  input |-> job.input, image |-> job.image]
        /\ job.version \in Versions /\ job.rev \in Revisions /\ InputOk(job.input)
    BY <1>0, <1>1 DEF JobOk, Build
  <2>3. job' = [step |-> "checkpoint", version |-> job.version, rev |-> job.rev,
                input |-> job.input, image |->
                  [version |-> job.version, rev |-> job.rev, build |-> b]]
    BY <2>1, <2>2
  <2>4. OfVersion(job'.image, job'.version)
    BY <2>2, <2>3 DEF OfVersion, Images
  <2> QED  BY <1>0, <1>1, <2>2, <2>3, <2>4 DEF Build, JobOk, Later, InputOk, worldVars
<1>2. CASE Recover
  <2>1. job.step \in Later /\ job.step # "none" /\ "push" \in Later
    BY <1>2 DEF Recover, Later
  <2> QED  BY <1>0, <1>2, <2>1, JobEnds, JobProceeds DEF Recover, OrStop, worldVars
<1>3. CASE CreateDraft
  <2>1. job.step \in Later /\ job.step # "none" /\ "push" \in Later
    BY <1>3 DEF CreateDraft, Later
  <2> QED  BY <1>0, <1>3, <2>1, JobEnds, JobProceeds DEF CreateDraft, OrStop, worldVars
<1>4. CASE Verify
  <2>1. job.step \in Later /\ job.step # "none" /\ "metadata" \in Later
    BY <1>4 DEF Verify, Later
  <2> QED  BY <1>0, <1>4, <2>1, JobEnds, JobProceeds DEF Verify, OrStop, worldVars
<1>5. CASE Complete
  <2>1. /\ job.step \in Later /\ job.step # "none"
        /\ "digest" \in Later /\ "require" \in Later
    BY <1>5 DEF Complete, Later
  <2>2. ASSUME NEW step \in Later, UploadMetadata(step) \/ UploadDigest(step)
        PROVE  JobOk' /\ UNCHANGED <<head, hub, alias>>
    BY <1>0, <2>1, <2>2, JobEnds, JobProceeds
       DEF UploadMetadata, UploadDigest, OrStop, worldVars
  <2> QED  BY <1>5, <2>1, <2>2 DEF Complete
<1>6. CASE Require
  <2>1. job.step \in Later /\ job.step # "none" /\ "promote" \in Later
    BY <1>6 DEF Require, Later
  <2> QED  BY <1>0, <1>6, <2>1, JobEnds, JobProceeds DEF Require, OrStop, worldVars
<1>7. CASE Publish
  BY <1>0, <1>7 DEF Publish, JobOk, Idle, Later, InputOk, OfVersion
<1> QED  BY <1>1, <1>2, <1>3, <1>4, <1>5, <1>6, <1>7

\* The push: only an absent full version is written.
LEMMA PushStep ==
  ASSUME WorkflowInv, Push
  PROVE  /\ WorkflowInv' /\ UNCHANGED alias
         /\ \A v \in Versions : hub[v] # NoImage => hub'[v] = hub[v]
<1>1. /\ job.step \in Later /\ job.step # "none" /\ "verify" \in Later
      /\ JobOk /\ HubNamed /\ AliasOk
  BY DEF Push, Later, WorkflowInv
<1>2. OfVersion(job.image, job.version) /\ job.version \in Versions
  BY <1>1 DEF JobOk
<1>3. \/ Stop /\ UNCHANGED worldVars
      \/ /\ hub[job.version] = NoImage
         /\ hub' = [hub EXCEPT ![job.version] = job.image]
         /\ Proceed("verify")
         /\ UNCHANGED <<head, alias, releases, failed>>
  BY DEF Push, OrStop, Inspect
<1>4. CASE Stop /\ UNCHANGED worldVars
  BY <1>1, <1>4, JobEnds, WorldKept DEF WorkflowInv, worldVars
<1>5. CASE /\ hub[job.version] = NoImage
           /\ hub' = [hub EXCEPT ![job.version] = job.image]
           /\ Proceed("verify")
           /\ UNCHANGED <<head, alias, releases, failed>>
  <2>1. JobOk'  BY <1>1, <1>5, JobProceeds
  <2>2. HubNamed'
    BY <1>1, <1>2, <1>5 DEF HubNamed, OfVersion, Assets
  <2>3. \A v \in Versions : hub[v] # NoImage => hub'[v] = hub[v]
    BY <1>1, <1>5 DEF HubNamed
  <2>4. AliasOk'
    BY <1>1, <1>5, <2>3 DEF AliasOk
  <2> QED  BY <1>5, <2>1, <2>2, <2>3, <2>4 DEF WorkflowInv
<1> QED  BY <1>3, <1>4, <1>5

\* The promotion: the stable tag advances or stays.
LEMMA PromoteStep ==
  ASSUME WorkflowInv, Promote
  PROVE  /\ WorkflowInv' /\ UNCHANGED hub
         /\ alias' # alias /\ alias # NoImage => Newer(alias', alias.version)
<1>1. /\ job.step \in Later /\ job.step # "none" /\ "publish" \in Later
      /\ JobOk /\ HubNamed /\ AliasOk
  BY DEF Promote, Later, WorkflowInv
<1>2. OfVersion(job.image, job.version) /\ job.version \in Versions
  BY <1>1 DEF JobOk
<1>3. \/ Stop /\ UNCHANGED worldVars
      \/ /\ MayPromote(hub[job.version], alias)
         /\ alias' = job.image
         /\ Proceed("publish")
         /\ UNCHANGED <<head, hub, releases, failed>>
  BY DEF Promote, OrStop, Inspect
<1>4. CASE Stop /\ UNCHANGED worldVars
  BY <1>1, <1>4, JobEnds, WorldKept DEF WorkflowInv, worldVars
<1>5. CASE /\ MayPromote(hub[job.version], alias)
           /\ alias' = job.image
           /\ Proceed("publish")
           /\ UNCHANGED <<head, hub, releases, failed>>
  <2>1. JobOk'  BY <1>1, <1>5, JobProceeds
  <2>2. HubNamed'  BY <1>1, <1>5 DEF HubNamed
  <2>3. hub[job.version] = job.image /\ ~Newer(alias, job.version)
    BY <1>5 DEF MayPromote
  <2>4. job.image.version = job.version /\ job.image # NoImage
    BY <1>2, ReleaseAssumption DEF OfVersion
  <2>5. AliasOk'  BY <1>2, <1>5, <2>3, <2>4 DEF AliasOk
  <2>6. ASSUME alias' # alias, alias # NoImage
        PROVE  Newer(alias', alias.version)
    <3>1. alias.version \in Versions /\ alias = hub[alias.version]
      BY <1>1, <2>6 DEF AliasOk
    <3>2. alias.version # job.version
      BY <1>5, <2>3, <2>6, <3>1
    <3>3. alias.version \in Nat /\ job.version \in Nat
      BY <1>2, <3>1, ReleaseAssumption
    <3>4. job.version > alias.version
      BY <2>3, <2>6, <3>2, <3>3 DEF Newer
    <3> QED  BY <1>5, <2>4, <3>4 DEF Newer
  <2> QED  BY <1>5, <2>1, <2>2, <2>5, <2>6 DEF WorkflowInv
<1> QED  BY <1>3, <1>4, <1>5

\* The environment.
LEMMA OutsideStep ==
  ASSUME WorkflowInv,
         \/ CreatePartialDraft \/ Fail
         \/ \E v \in Versions : Dispatch(v) \/ Repair(v)
         \/ \E v \in Versions, rev \in Revisions : MoveTag(v, rev)
         \/ \E input \in failed : RerunFailed(input)
  PROVE  WorkflowInv' /\ UNCHANGED <<hub, alias>>
<1>0. JobOk /\ HubNamed /\ AliasOk  BY DEF WorkflowInv
<1>1. CASE CreatePartialDraft \/ Fail
  <2>1. job.step # "none"
    BY <1>0, <1>1 DEF CreatePartialDraft, Fail, Idle, JobOk, Later
  <2> QED  BY <1>0, <1>1, <2>1, JobEnds, WorldKept
              DEF CreatePartialDraft, Fail, WorkflowInv, worldVars
<1>2. ASSUME NEW v \in Versions, Dispatch(v)
      PROVE  WorkflowInv' /\ UNCHANGED <<hub, alias>>
  <2>1. job' = [step |-> "preflight", version |-> v, rev |-> head[v]]
    BY <1>2 DEF Dispatch
  <2>2. JobOk'
    BY <1>0, <1>2, <2>1 DEF Dispatch, HubNamed, JobOk, Later, InputOk, OfVersion
  <2> QED  BY <1>0, <1>2, <2>2, WorldKept DEF Dispatch, WorkflowInv, worldVars
<1>3. ASSUME NEW v \in Versions, Repair(v)
      PROVE  WorkflowInv' /\ UNCHANGED <<hub, alias>>
  BY <1>0, <1>3, JobKept, WorldKept DEF Repair, WorkflowInv
<1>4. ASSUME NEW v \in Versions, NEW rev \in Revisions, MoveTag(v, rev)
      PROVE  WorkflowInv' /\ UNCHANGED <<hub, alias>>
  <2>1. HubNamed' /\ AliasOk'
    BY <1>0, <1>4 DEF MoveTag, HubNamed, AliasOk
  <2> QED  BY <1>0, <1>4, <2>1, JobKept DEF MoveTag, WorkflowInv
<1>5. ASSUME NEW input \in failed, RerunFailed(input)
      PROVE  WorkflowInv' /\ UNCHANGED <<hub, alias>>
  <2>1. InputOk(input) /\ \A i \in failed' : InputOk(i)
    BY <1>0, <1>5 DEF RerunFailed, JobOk
  <2>2. JobOk'
    BY <1>5, <2>1, JobBegins DEF RerunFailed, JobOk, Later
  <2> QED  BY <1>0, <1>5, <2>2, WorldKept DEF RerunFailed, WorkflowInv, worldVars
<1> QED  BY <1>1, <1>2, <1>3, <1>4, <1>5

\* What every step of the workflow and of its environment keeps.
LEMMA WorkflowStep ==
  ASSUME WorkflowInv, [Next]_vars
  PROVE  /\ WorkflowInv'
         /\ \A v \in Versions : hub[v] # NoImage => hub'[v] = hub[v]
         /\ alias' # alias /\ alias # NoImage => Newer(alias', alias.version)
<1>0. JobOk /\ HubNamed /\ AliasOk  BY DEF WorkflowInv
<1>1. CASE Preflight
  BY <1>0, <1>1, PreflightStep, WorldKept DEF WorkflowInv, worldVars
<1>2. CASE Build \/ Recover \/ CreateDraft \/ Verify \/ Complete \/ Require \/ Publish
  BY <1>0, <1>2, LocalStep, WorldKept DEF WorkflowInv
<1>3. CASE Push  BY <1>3, PushStep
<1>4. CASE Promote  BY <1>4, PromoteStep
<1>5. CASE \/ CreatePartialDraft \/ Fail
           \/ \E v \in Versions : Dispatch(v) \/ Repair(v)
           \/ \E v \in Versions, rev \in Revisions : MoveTag(v, rev)
           \/ \E input \in failed : RerunFailed(input)
  BY <1>5, OutsideStep
<1>6. CASE UNCHANGED vars
  BY <1>0, <1>6, JobKept, WorldKept DEF vars, worldVars, WorkflowInv
<1> QED  BY <1>1, <1>2, <1>3, <1>4, <1>5, <1>6 DEF Next, JobStep

\* WorkflowInv always holds.
LEMMA WorkflowInvariant == Spec => []WorkflowInv
<1>1. Init => WorkflowInv  BY WorkflowInit
<1>2. WorkflowInv /\ [Next]_vars => WorkflowInv'  BY WorkflowStep
<1> QED  BY <1>1, <1>2, PTL DEF Spec

\* No run of the workflow, resumed, re-run or cut off anywhere, replaces the
\* image of a full version: Push is the only write, after an absence check that
\* the concurrency group keeps valid.
THEOREM FullTagsNeverMoveHolds == Spec => FullTagsNeverMove
<1>1. WorkflowInv /\ [Next]_vars =>
        [\A v \in Versions : hub[v] # NoImage => hub'[v] = hub[v]]_vars
  BY WorkflowStep
<1> QED  BY <1>1, WorkflowInvariant, PTL DEF Spec, FullTagsNeverMove

\* The stable tag only advances, whatever preflight a re-run still relies on:
\* it always names the immutable image of its version, so a promotion that is
\* not to a newer version changes nothing.
THEOREM AliasNeverRollsBackHolds == Spec => AliasNeverRollsBack
<1>1. WorkflowInv /\ [Next]_vars =>
        [alias' # alias /\ alias # NoImage => Newer(alias', alias.version)]_vars
  BY WorkflowStep
<1> QED  BY <1>1, WorkflowInvariant, PTL DEF Spec, AliasNeverRollsBack

-----------------------------------------------------------------------------
(* What a published release holds.  While a tag has one release, every     *)
(* attachment of it names the image of the full version: the checkpoint    *)
(* decides what may be pushed, and what was pushed what may be attached.   *)
(* Inputs of failed jobs stay true, because neither a checkpoint nor a     *)
(* full version ever changes.                                               *)

Records == [draft: BOOLEAN, bundle: BOOLEAN, checkpoint: Assets,
            metadata: Assets, digest: Assets]

RecordsOk == releases \in [Versions -> Seq(Records)]

First(v) == releases[v][1]

\* What preflight saw still holds.
InputNow(input) ==
    /\ input.config # NoImage =>
          /\ releases[input.version] # <<>>
          /\ First(input.version).checkpoint = input.config
    /\ input.action # "build" => input.digest = hub[input.version]

InputsNow ==
    /\ \A input \in failed : InputNow(input)
    /\ job.step \in {"build"} \cup Later =>
          InputNow(job.input) /\ job.input.version = job.version

Whole(v) ==
    /\ First(v).bundle
    /\ NoImage \notin {First(v).checkpoint, First(v).metadata, First(v).digest}

AfterPush == {"verify", "metadata", "digest", "require", "promote", "publish"}

\* What the steps of the publish job have established.
JobNow ==
    LET v == job.version
    IN  /\ job.step = "push" =>
              /\ releases[v] # <<>>
              /\ Len(releases[v]) = 1 => First(v).checkpoint = job.image
        /\ job.step \in AfterPush => hub[v] = job.image
        /\ job.step \in {"promote", "publish"} /\ Len(releases[v]) = 1 => Whole(v)
        /\ job.step = "publish" => alias = job.image

\* The only release of a tag.
OnlyRelease(v) ==
    /\ hub[v] # NoImage => First(v).checkpoint = hub[v]
    /\ First(v).metadata \in {NoImage, hub[v]}
    /\ First(v).digest \in {NoImage, hub[v]}
    /\ ~First(v).draft => /\ Whole(v) /\ hub[v] # NoImage
                          /\ alias = hub[v] \/ Newer(alias, v)

VersionOk(v) ==
    /\ hub[v] # NoImage => releases[v] # <<>>
    /\ Len(releases[v]) = 1 => OnlyRelease(v)

VersionsOk == \A v \in Versions : VersionOk(v)

PublicationInv == RecordsOk /\ InputsNow /\ JobNow /\ VersionsOk

\* gh release create adds a release behind the others.
LEMMA Appended ==
  ASSUME RecordsOk, NEW v \in Versions, NEW d \in Records,
         releases' = [releases EXCEPT ![v] = Append(@, d)]
  PROVE  /\ RecordsOk'
         /\ \A w \in Versions \ {v} : releases'[w] = releases[w]
         /\ releases'[v] # <<>> /\ Len(releases'[v]) = Len(releases[v]) + 1
         /\ releases[v] = <<>> => First(v)' = d
         /\ releases[v] # <<>> => First(v)' = First(v)
<1>1. releases[v] \in Seq(Records) /\ Append(releases[v], d) \in Seq(Records)
  BY DEF RecordsOk
<1>2. /\ releases'[v] = Append(releases[v], d)
      /\ \A w \in Versions \ {v} : releases'[w] = releases[w]
      /\ releases' \in [Versions -> Seq(Records)]
  BY <1>1 DEF RecordsOk
<1> QED  BY <1>1, <1>2 DEF RecordsOk, First

\* gh release upload and edit change one of the releases.
LEMMA Edited ==
  ASSUME RecordsOk, NEW v \in Versions, NEW k \in DOMAIN releases[v],
         NEW r \in Records, releases' = [releases EXCEPT ![v][k] = r]
  PROVE  /\ RecordsOk'
         /\ \A w \in Versions \ {v} : releases'[w] = releases[w]
         /\ releases'[v] # <<>> /\ Len(releases'[v]) = Len(releases[v])
         /\ k = 1 => First(v)' = r
         /\ k # 1 => First(v)' = First(v)
<1>1. /\ releases[v] \in Seq(Records) /\ k \in 1 .. Len(releases[v])
      /\ Len(releases[v]) \in Nat
  BY DEF RecordsOk
<1>2. [releases[v] EXCEPT ![k] = r] \in Seq(Records)
  BY <1>1
<1>3. /\ releases'[v] = [releases[v] EXCEPT ![k] = r]
      /\ \A w \in Versions \ {v} : releases'[w] = releases[w]
      /\ releases' \in [Versions -> Seq(Records)]
  BY <1>2 DEF RecordsOk
<1>4. Len(releases'[v]) = Len(releases[v])
  BY <1>1, <1>3
<1> QED  BY <1>1, <1>3, <1>4 DEF RecordsOk, First

\* Where a tag has one release, gh release view answers with it.
LEMMA FoundIsFirst ==
  ASSUME RecordsOk, NEW v \in Versions, NEW k \in Found(v)
  PROVE  /\ k \in DOMAIN releases[v] /\ releases[v][k] \in Records
         /\ releases[v] # <<>>
         /\ Len(releases[v]) = 1 => k = 1
<1>1. releases[v] \in Seq(Records) /\ k \in DOMAIN releases[v]
  BY DEF RecordsOk, Found, Published
<1> QED  BY <1>1

\* The releases keep their checkpoints and the full versions stay.
Grown ==
    \A v \in Versions :
        /\ releases[v] # <<>> =>
              /\ releases'[v] # <<>>
              /\ First(v)'.checkpoint = First(v).checkpoint
        /\ hub[v] # NoImage => hub'[v] = hub[v]

\* Then what preflight saw stays true.
LEMMA InputStays ==
  ASSUME Grown, NEW input, InputOk(input), InputNow(input)
  PROVE  InputNow(input)'
<1>1. input.version \in Versions
  BY DEF InputOk
<1>2. input.action # "build" => hub[input.version] # NoImage
  BY ReleaseAssumption DEF InputOk, InputNow, OfVersion
<1> QED  BY <1>1, <1>2 DEF Grown, InputNow

\* A run that ends is remembered by its input.
LEMMA InputsEnd ==
  ASSUME JobOk, InputsNow, Grown, job.step # "none", Stop
  PROVE  InputsNow' /\ JobNow'
<1>1. job' = Idle /\ job'.step = "none"
  BY DEF Stop, Idle
<1>2. ASSUME NEW input, input \in failed' PROVE InputNow(input)'
  <2>1. CASE input \in failed
    BY <2>1, InputStays DEF JobOk, InputsNow
  <2>2. CASE input \notin failed
    <3>1. input = job.input /\ job.step \in {"build"} \cup Later
      BY <1>2, <2>2 DEF Stop, JobOk
    <3> QED  BY <3>1, InputStays DEF JobOk, InputsNow
  <2> QED  BY <2>1, <2>2
<1> QED  BY <1>1, <1>2 DEF InputsNow, JobNow, Later, AfterPush

\* A step of the publish job keeps what its input says.
LEMMA InputsProceed ==
  ASSUME JobOk, InputsNow, Grown, UNCHANGED failed,
         job.step \in {"build"} \cup Later,
         job'.input = job.input, job'.version = job.version
  PROVE  InputsNow'
<1>1. \A input \in failed' : InputNow(input)'
  BY InputStays DEF JobOk, InputsNow
<1>2. PICK input : input = job.input
  OBVIOUS
<1>3. InputNow(input)' /\ input.version = job'.version /\ input = job'.input
  BY <1>2, InputStays DEF JobOk, InputsNow
<1> QED  BY <1>1, <1>3 DEF InputsNow, InputNow, First

\* The other fields of a run that proceeds.
LEMMA Proceeds ==
  ASSUME JobOk, job.step \in Later, NEW step, Proceed(step)
  PROVE  /\ job'.step = step /\ job'.version = job.version
         /\ job'.input = job.input /\ job'.image = job.image
<1>1. job = [step |-> job.step, version |-> job.version, rev |-> job.rev,
             input |-> job.input, image |-> job.image]
  BY DEF JobOk
<1> QED  BY <1>1 DEF Proceed

\* A publish job that begins with an input that holds.
LEMMA InputsBegin ==
  ASSUME NEW input, InputOk(input), InputNow(input), UNCHANGED <<hub, releases>>,
         \A i \in failed' : InputNow(i), job' = Job(input)
  PROVE  InputsNow' /\ JobNow'
<1>1. input.action \in {"build", "resume", "resume_finalize"}
  BY DEF InputOk
<1>2. /\ job'.version = input.version /\ job'.input = input
      /\ job'.image = input.digest
      /\ job'.step \in {"build", "metadata", "require"}
      /\ job'.step # "build" => input.action # "build"
  BY <1>1 DEF Job
<1>3. InputNow(input)' /\ \A i \in failed' : InputNow(i)'
  BY DEF InputNow, First
<1>4. InputsNow'
  BY <1>2, <1>3 DEF InputsNow, InputNow, First
<1>5. JobNow'
  BY <1>2, <1>3 DEF JobNow, InputNow, AfterPush
<1> QED  BY <1>4, <1>5

\* Steps that change neither releases nor Docker Hub.
LEMMA VersionsKept ==
  ASSUME RecordsOk, VersionsOk, UNCHANGED <<hub, alias, releases>>
  PROVE  RecordsOk' /\ VersionsOk' /\ Grown
  BY DEF RecordsOk, VersionsOk, VersionOk, OnlyRelease, Whole, First, Grown

\* A new draft, whole or partial: nothing was pushed for a tag without release.
LEMMA DraftAdded ==
  ASSUME HubNamed, RecordsOk, VersionsOk, NEW v \in Versions,
         NEW checkpoint \in Assets, NEW bundle \in BOOLEAN,
         releases' = [releases EXCEPT ![v] = Append(@, Draft(checkpoint, bundle))],
         UNCHANGED <<hub, alias>>
  PROVE  /\ RecordsOk' /\ VersionsOk' /\ Grown
         /\ releases'[v] # <<>>
         /\ Len(releases'[v]) = 1 => First(v)'.checkpoint = checkpoint
<1> DEFINE d == Draft(checkpoint, bundle)
<1>1. /\ d \in Records /\ d.draft = TRUE /\ d.checkpoint = checkpoint
      /\ d.metadata = NoImage /\ d.digest = NoImage
  BY DEF Draft, Records, Assets
<1> HIDE DEF d
<1>2. /\ RecordsOk'
      /\ \A w \in Versions \ {v} : releases'[w] = releases[w]
      /\ releases'[v] # <<>> /\ Len(releases'[v]) = Len(releases[v]) + 1
      /\ releases[v] = <<>> => First(v)' = d
      /\ releases[v] # <<>> => First(v)' = First(v)
  BY <1>1, Appended DEF d
<1>3. \A w \in Versions \ {v} : First(w)' = First(w)
  BY <1>2 DEF First
<1>4. Grown
  BY <1>2, <1>3 DEF Grown
<1>5. Len(releases'[v]) = 1 => releases[v] = <<>>
  BY <1>2 DEF RecordsOk
<1>6. VersionOk(v)'
  <2>1. releases[v] = <<>> => hub[v] = NoImage
    BY DEF VersionsOk, VersionOk
  <2> QED  BY <1>1, <1>2, <1>5, <2>1 DEF VersionOk, OnlyRelease
<1>7. \A w \in Versions \ {v} : VersionOk(w)'
  BY <1>2, <1>3 DEF VersionsOk, VersionOk, OnlyRelease, Whole
<1>8. Len(releases'[v]) = 1 => First(v)'.checkpoint = checkpoint
  BY <1>1, <1>2, <1>5
<1> QED  BY <1>2, <1>4, <1>6, <1>7, <1>8 DEF VersionsOk

\* A release is edited in a way that keeps its checkpoint; what holds of it
\* when it is the only one is shown by the caller.
LEMMA ReleaseEdited ==
  ASSUME RecordsOk, VersionsOk, NEW v \in Versions, NEW k \in DOMAIN releases[v],
         Len(releases[v]) = 1 => k = 1,
         NEW r \in Records, releases' = [releases EXCEPT ![v][k] = r],
         r.checkpoint = releases[v][k].checkpoint, UNCHANGED <<hub, alias>>,
         Len(releases[v]) = 1 => OnlyRelease(v)'
  PROVE  /\ RecordsOk' /\ VersionsOk' /\ Grown
         /\ Len(releases'[v]) = Len(releases[v])
         /\ \A w \in Versions \ {v} : releases'[w] = releases[w]
<1>1. /\ RecordsOk'
      /\ \A w \in Versions \ {v} : releases'[w] = releases[w]
      /\ releases'[v] # <<>> /\ Len(releases'[v]) = Len(releases[v])
      /\ k = 1 => First(v)' = r
      /\ k # 1 => First(v)' = First(v)
  BY Edited
<1>2. \A w \in Versions \ {v} : First(w)' = First(w)
  BY <1>1 DEF First
<1>3. First(v)'.checkpoint = First(v).checkpoint
  BY <1>1 DEF First
<1>4. Grown
  BY <1>1, <1>2, <1>3 DEF Grown
<1>5. VersionOk(v)'
  BY <1>1 DEF VersionOk
<1>6. \A w \in Versions \ {v} : VersionOk(w)'
  BY <1>1, <1>2 DEF VersionsOk, VersionOk, OnlyRelease, Whole
<1> QED  BY <1>1, <1>4, <1>5, <1>6 DEF VersionsOk

\* The preflight adopts a draft only as it is, or starts afresh.
LEMMA PublicationPreflight ==
  ASSUME WorkflowInv, PublicationInv, Preflight
  PROVE  PublicationInv'
<1>1. /\ JobOk /\ HubNamed /\ RecordsOk /\ InputsNow /\ VersionsOk
      /\ job.step = "preflight" /\ job.step # "none"
      /\ job.version \in Versions /\ job.rev \in Revisions
  BY DEF WorkflowInv, PublicationInv, JobOk, Preflight
<1>2. UNCHANGED <<hub, alias, releases>>
  BY PreflightStep DEF worldVars
<1>3. RecordsOk' /\ VersionsOk' /\ Grown
  BY <1>1, <1>2, VersionsKept
<1>4. CASE Stop
  BY <1>1, <1>3, <1>4, InputsEnd DEF PublicationInv
<1>5. ASSUME NEW input, InputOk(input), InputNow(input), UNCHANGED failed,
             job' = Job(input)
      PROVE  PublicationInv'
  <2>1. \A i \in failed' : InputNow(i)
    BY <1>1, <1>5 DEF InputsNow
  <2> QED  BY <1>2, <1>3, <1>5, <2>1, InputsBegin DEF PublicationInv
<1>6. CASE UNCHANGED failed /\ job' = Idle
  <2>1. \A input \in failed' : InputNow(input)'
    BY <1>1, <1>2, <1>6 DEF InputsNow, InputNow, First
  <2>2. InputsNow' /\ JobNow'
    BY <1>6, <2>1 DEF InputsNow, JobNow, Idle, Later, AfterPush
  <2> QED  BY <1>3, <2>2 DEF PublicationInv
<1>7. PICK full \in Inspect(hub[job.version]), stable \in Inspect(alias) :
        PreflightBuild(full, stable) \/ PreflightResume(full, stable)
  BY DEF Preflight
<1>8. full = hub[job.version]
  BY <1>7 DEF Inspect
<1>9. CASE PreflightBuild(full, stable) /\ ~Stop
  <2> DEFINE config == IF releases[job.version] = <<>> THEN NoImage
                       ELSE releases[job.version][1].checkpoint
             input == Input("build", config, NoImage)
  <2>1. UNCHANGED failed /\ job' = Job(input)
    BY <1>9 DEF PreflightBuild, OrStop
  <2>2. /\ input.version = job.version /\ input.rev = job.rev
        /\ input.action = "build" /\ input.config = config
    BY DEF Input
  <2>3. InputOk(input) /\ InputNow(input)
    <3> HIDE DEF input
    <3> QED  BY <1>1, <2>2 DEF InputOk, InputNow, First
  <2> QED  BY <1>5, <2>1, <2>3
<1>10. CASE PreflightResume(full, stable) /\ ~Stop
  <2>1. Agrees(full, stable) /\ full # NoImage /\ UNCHANGED failed
    BY <1>10 DEF PreflightResume, OrStop
  <2>2. \/ job' = Idle
        \/ \E action \in {"resume", "resume_finalize"} :
              job' = Job(Input(action, full, full))
    BY <1>10 DEF PreflightResume, OrStop
  <2>3. ASSUME NEW action \in {"resume", "resume_finalize"}
        PROVE  InputOk(Input(action, full, full)) /\ InputNow(Input(action, full, full))
    <3> DEFINE input == Input(action, full, full)
    <3>1. /\ input.version = job.version /\ input.rev = job.rev
          /\ input.action = action /\ input.config = full /\ input.digest = full
      BY DEF Input
    <3>2. OfVersion(full, job.version)
      BY <1>1, <1>8, <2>1 DEF Agrees, OfVersion, HubNamed, Assets
    <3>3. releases[job.version] # <<>> /\ First(job.version).checkpoint = full
      BY <2>1 DEF Agrees, First
    <3> HIDE DEF input
    <3>4. InputOk(input) /\ InputNow(input)
      BY <1>1, <1>8, <3>1, <3>2, <3>3 DEF InputOk, InputNow
    <3> QED  BY <3>4 DEF input
  <2> QED  BY <1>5, <1>6, <2>1, <2>2, <2>3
<1> QED  BY <1>4, <1>7, <1>9, <1>10

\* The steps of the publish job that change no release and no tag.
LEMMA PublicationLocal ==
  ASSUME WorkflowInv, PublicationInv, Build \/ Recover \/ Verify \/ Require
  PROVE  PublicationInv'
<1>1. /\ JobOk /\ RecordsOk /\ InputsNow /\ JobNow /\ VersionsOk
  BY DEF WorkflowInv, PublicationInv
<1>2. /\ job.step \in {"build"} \cup Later /\ job.step # "none"
      /\ job.version \in Versions
  BY <1>1 DEF JobOk, Build, Recover, Verify, Require, Later
<1>3. UNCHANGED <<hub, alias, releases>>
  BY DEF Build, Recover, Verify, Require, OrStop, worldVars
<1>4. RecordsOk' /\ VersionsOk' /\ Grown
  BY <1>1, <1>3, VersionsKept
<1>5. CASE Stop
  BY <1>1, <1>2, <1>4, <1>5, InputsEnd DEF PublicationInv
<1>6. CASE Build
  <2>1. PICK b \in Builds : job' = [job EXCEPT !.step = "checkpoint", !.image =
                 [version |-> job.version, rev |-> job.rev, build |-> b]]
    BY <1>6 DEF Build
  <2>2. job = [step |-> job.step, version |-> job.version, rev |-> job.rev,
               input |-> job.input, image |-> job.image]
    BY <1>1, <1>2 DEF JobOk
  <2>3. /\ job'.step = "checkpoint" /\ job'.version = job.version
        /\ job'.input = job.input
    BY <2>1, <2>2
  <2>4. InputsNow'
    BY <1>1, <1>2, <1>4, <1>6, <2>3, InputsProceed DEF Build
  <2>5. JobNow'
    BY <2>3 DEF JobNow, AfterPush
  <2> QED  BY <1>4, <2>4, <2>5 DEF PublicationInv
<1>7. CASE (Recover \/ Verify \/ Require) /\ ~Stop
  <2>1. job.step \in Later /\ UNCHANGED failed
    BY <1>7 DEF Recover, Verify, Require, OrStop, Later
  <2>2. PICK step \in {"push", "metadata", "promote"} : Proceed(step)
    BY <1>7 DEF Recover, Verify, Require, OrStop
  <2>3. /\ job'.step = step /\ job'.version = job.version
        /\ job'.input = job.input /\ job'.image = job.image
    BY <1>1, <2>1, <2>2, Proceeds
  <2>4. InputsNow'
    BY <1>1, <1>2, <1>4, <2>1, <2>3, InputsProceed
  <2>5. CASE Recover
    <3>1. /\ job.image = job.input.config /\ job.input.config # NoImage
          /\ Proceed("push")
      BY <1>7, <2>5 DEF Recover, OrStop
    <3>2. job'.step = "push"
      BY <1>1, <2>1, <3>1, Proceeds
    <3>3. releases[job.version] # <<>> /\ First(job.version).checkpoint = job.image
      BY <1>1, <1>2, <3>1 DEF InputsNow, InputNow
    <3>4. JobNow'
      BY <1>3, <2>3, <3>2, <3>3 DEF JobNow, First, AfterPush
    <3> QED  BY <1>4, <2>4, <3>4 DEF PublicationInv
  <2>6. CASE Verify
    <3>1. job.step = "verify" /\ Proceed("metadata")
      BY <1>7, <2>6 DEF Verify, OrStop
    <3>2. job'.step = "metadata" /\ hub[job.version] = job.image
      BY <1>1, <2>1, <3>1, Proceeds DEF JobNow, AfterPush
    <3>3. JobNow'
      BY <1>3, <2>3, <3>2 DEF JobNow, AfterPush
    <3> QED  BY <1>4, <2>4, <3>3 DEF PublicationInv
  <2>7. CASE Require
    <3>1. job.step = "require" /\ Proceed("promote")
      BY <1>7, <2>7 DEF Require, OrStop
    <3>2. job'.step = "promote" /\ hub[job.version] = job.image
      BY <1>1, <2>1, <3>1, Proceeds DEF JobNow, AfterPush
    <3>3. PICK k \in Found(job.version) :
             /\ releases[job.version][k].bundle
             /\ NoImage \notin {releases[job.version][k].checkpoint,
                                releases[job.version][k].metadata,
                                releases[job.version][k].digest}
      BY <1>7, <2>7 DEF Require, OrStop
    <3>4. Len(releases[job.version]) = 1 => Whole(job.version)
      BY <1>1, <1>2, <3>3, FoundIsFirst DEF Whole, First
    <3>5. JobNow'
      BY <1>3, <2>3, <3>2, <3>4 DEF JobNow, Whole, First, AfterPush
    <3> QED  BY <1>4, <2>4, <3>5 DEF PublicationInv
  <2> QED  BY <1>7, <2>5, <2>6, <2>7
<1> QED  BY <1>5, <1>6, <1>7

\* The checkpoint draft, before anything is pushed.
LEMMA PublicationDraft ==
  ASSUME WorkflowInv, PublicationInv, CreateDraft \/ CreatePartialDraft
  PROVE  PublicationInv'
<1>1. JobOk /\ HubNamed /\ RecordsOk /\ InputsNow /\ JobNow /\ VersionsOk
  BY DEF WorkflowInv, PublicationInv
<1>2. job.step = "checkpoint" /\ job.step \in Later /\ job.step # "none"
  BY DEF CreateDraft, CreatePartialDraft, Later
<1>3. job.version \in Versions /\ job.image \in Assets /\ NoImage \in Assets
  BY <1>1, <1>2 DEF JobOk, OfVersion, Assets
<1>4. CASE Stop /\ UNCHANGED worldVars
  <2>1. RecordsOk' /\ VersionsOk' /\ Grown
    BY <1>1, <1>4, VersionsKept DEF worldVars
  <2> QED  BY <1>1, <1>2, <1>4, <2>1, InputsEnd DEF PublicationInv
<1>5. CASE CreateDraft /\ ~(Stop /\ UNCHANGED worldVars)
  <2>1. /\ releases' = [releases EXCEPT ![job.version] =
                          Append(@, Draft(job.image, TRUE))]
        /\ Proceed("push") /\ UNCHANGED <<hub, alias, failed>>
    BY <1>5 DEF CreateDraft, OrStop
  <2>2. /\ RecordsOk' /\ VersionsOk' /\ Grown
        /\ releases'[job.version] # <<>>
        /\ Len(releases'[job.version]) = 1
             => First(job.version)'.checkpoint = job.image'
    <3>1. PICK v \in Versions, image \in Assets : v = job.version /\ image = job.image
      BY <1>3
    <3>2. releases' = [releases EXCEPT ![v] = Append(@, Draft(image, TRUE))]
      BY <2>1, <3>1
    <3>3. /\ RecordsOk' /\ VersionsOk' /\ Grown
          /\ releases'[v] # <<>>
          /\ Len(releases'[v]) = 1 => First(v)'.checkpoint = image
      BY <1>1, <2>1, <3>2, DraftAdded
    <3>4. job'.version = v /\ job'.image = image
      BY <1>1, <1>2, <2>1, <3>1, Proceeds
    <3> QED  BY <3>1, <3>3, <3>4 DEF First
  <2>3. /\ job'.step = "push" /\ job'.version = job.version
        /\ job'.input = job.input /\ job'.image = job.image
    BY <1>1, <1>2, <2>1, Proceeds
  <2>4. InputsNow'
    BY <1>1, <1>2, <2>1, <2>2, <2>3, InputsProceed
  <2>5. JobNow'
    BY <2>2, <2>3 DEF JobNow, AfterPush, First
  <2> QED  BY <2>2, <2>4, <2>5 DEF PublicationInv
<1>6. CASE CreatePartialDraft
  <2>1. PICK checkpoint \in {job.image, NoImage} :
           releases' = [releases EXCEPT ![job.version] =
                          Append(@, Draft(checkpoint, FALSE))]
    BY <1>6 DEF CreatePartialDraft
  <2>2. Stop /\ UNCHANGED <<hub, alias>>
    BY <1>6 DEF CreatePartialDraft
  <2>3. checkpoint \in Assets
    BY <1>3
  <2>4. RecordsOk' /\ VersionsOk' /\ Grown
    BY <1>1, <1>3, <2>1, <2>2, <2>3, DraftAdded
  <2> QED  BY <1>1, <1>2, <2>2, <2>4, InputsEnd DEF PublicationInv
<1> QED  BY <1>4, <1>5, <1>6

\* The push: the only release has the checkpoint of what is pushed.
LEMMA PublicationPush ==
  ASSUME WorkflowInv, PublicationInv, Push
  PROVE  PublicationInv'
<1>1. JobOk /\ HubNamed /\ RecordsOk /\ InputsNow /\ JobNow /\ VersionsOk
  BY DEF WorkflowInv, PublicationInv
<1>2. job.step = "push" /\ job.step \in Later /\ job.step # "none"
  BY DEF Push, Later
<1>3. job.version \in Versions
  BY <1>1, <1>2 DEF JobOk
<1>4. CASE Stop /\ UNCHANGED worldVars
  <2>1. RecordsOk' /\ VersionsOk' /\ Grown
    BY <1>1, <1>4, VersionsKept DEF worldVars
  <2> QED  BY <1>1, <1>2, <1>4, <2>1, InputsEnd DEF PublicationInv
<1>5. CASE ~(Stop /\ UNCHANGED worldVars)
  <2>1. /\ hub[job.version] = NoImage
        /\ hub' = [hub EXCEPT ![job.version] = job.image]
        /\ Proceed("verify") /\ UNCHANGED <<alias, releases, failed>>
    BY <1>5 DEF Push, OrStop, Inspect
  <2>2. /\ hub'[job.version] = job.image
        /\ \A w \in Versions \ {job.version} : hub'[w] = hub[w]
    BY <1>1, <1>3, <2>1 DEF HubNamed
  <2>3. RecordsOk' /\ Grown
    BY <1>1, <2>1, <2>2 DEF RecordsOk, Grown, First
  <2>4. ASSUME NEW w \in Versions PROVE VersionOk(w)'
    <3>1. VersionOk(w)
      BY <1>1 DEF VersionsOk
    <3>2. CASE w # job.version
      BY <2>1, <2>2, <3>1, <3>2 DEF VersionOk, OnlyRelease, Whole, First
    <3>3. CASE w = job.version
      <4>1. /\ releases[w] # <<>>
            /\ Len(releases[w]) = 1 => First(w).checkpoint = job.image
        BY <1>1, <1>2, <3>3 DEF JobNow
      <4>2. Len(releases[w]) = 1 =>
              /\ First(w).metadata = NoImage /\ First(w).digest = NoImage
              /\ First(w).draft
        BY <2>1, <3>1, <3>3 DEF VersionOk, OnlyRelease
      <4> QED  BY <2>1, <2>2, <3>3, <4>1, <4>2 DEF VersionOk, OnlyRelease, First
    <3> QED  BY <3>2, <3>3
  <2>5. /\ job'.step = "verify" /\ job'.version = job.version
        /\ job'.input = job.input /\ job'.image = job.image
    BY <1>1, <1>2, <2>1, Proceeds
  <2>6. InputsNow'
    BY <1>1, <1>2, <2>1, <2>3, <2>5, InputsProceed
  <2>7. JobNow'
    BY <2>2, <2>5 DEF JobNow, AfterPush
  <2> QED  BY <2>3, <2>4, <2>6, <2>7 DEF PublicationInv, VersionsOk
<1> QED  BY <1>4, <1>5

\* The two uploads: an attachment of the only release names what was pushed.
LEMMA PublicationUpload ==
  ASSUME WorkflowInv, PublicationInv, Complete
  PROVE  PublicationInv'
<1>1. JobOk /\ HubNamed /\ RecordsOk /\ InputsNow /\ JobNow /\ VersionsOk
  BY DEF WorkflowInv, PublicationInv
<1>2. job.step \in {"metadata", "digest"} /\ job.step \in Later /\ job.step # "none"
  BY DEF Complete, Later
<1>3. /\ job.version \in Versions /\ job.image \in Assets
      /\ hub[job.version] = job.image
  BY <1>1, <1>2 DEF JobOk, OfVersion, Assets, JobNow, AfterPush
<1>4. CASE Stop /\ UNCHANGED worldVars
  <2>1. RecordsOk' /\ VersionsOk' /\ Grown
    BY <1>1, <1>4, VersionsKept DEF worldVars
  <2> QED  BY <1>1, <1>2, <1>4, <2>1, InputsEnd DEF PublicationInv
<1>5. CASE ~(Stop /\ UNCHANGED worldVars)
  <2>1. PICK v \in Versions, image \in Assets : v = job.version /\ image = job.image
    BY <1>3
  <2>2. PICK k \in Found(v), step \in {"digest", "require"} :
           /\ releases[v][k].draft
           /\ \/ releases' = [releases EXCEPT ![v][k].metadata = image]
              \/ releases' = [releases EXCEPT ![v][k].digest = image]
           /\ Proceed(step) /\ UNCHANGED <<hub, alias, failed>>
    BY <1>5, <2>1 DEF Complete, UploadMetadata, UploadDigest, MayUpload, OrStop
  <2>3. /\ k \in DOMAIN releases[v] /\ releases[v][k] \in Records
        /\ Len(releases[v]) = 1 => k = 1
    BY <1>1, FoundIsFirst
  <2>4. PICK r \in Records :
           /\ releases' = [releases EXCEPT ![v][k] = r]
           /\ r.draft /\ r.checkpoint = releases[v][k].checkpoint
           /\ r.metadata \in {releases[v][k].metadata, image}
           /\ r.digest \in {releases[v][k].digest, image}
    <3>1. CASE releases' = [releases EXCEPT ![v][k].metadata = image]
      <4> DEFINE r == [releases[v][k] EXCEPT !.metadata = image]
      <4>1. /\ r \in Records /\ r.draft /\ r.checkpoint = releases[v][k].checkpoint
            /\ r.metadata = image /\ r.digest = releases[v][k].digest
        BY <2>2, <2>3 DEF Records
      <4>2. releases' = [releases EXCEPT ![v][k] = r]
        BY <3>1
      <4> QED  BY <4>1, <4>2
    <3>2. CASE releases' = [releases EXCEPT ![v][k].digest = image]
      <4> DEFINE r == [releases[v][k] EXCEPT !.digest = image]
      <4>1. /\ r \in Records /\ r.draft /\ r.checkpoint = releases[v][k].checkpoint
            /\ r.metadata = releases[v][k].metadata /\ r.digest = image
        BY <2>2, <2>3 DEF Records
      <4>2. releases' = [releases EXCEPT ![v][k] = r]
        BY <3>2
      <4> QED  BY <4>1, <4>2
    <3> QED  BY <2>2, <3>1, <3>2
  <2>5. Len(releases[v]) = 1 => OnlyRelease(v)'
    <3> SUFFICES ASSUME Len(releases[v]) = 1 PROVE OnlyRelease(v)'
      OBVIOUS
    <3>1. OnlyRelease(v) /\ hub[v] = image /\ k = 1
      BY <1>1, <1>3, <2>1, <2>3 DEF VersionsOk, VersionOk
    <3>2. First(v)' = r
      BY <1>1, <2>3, <2>4, <3>1, Edited
    <3> QED  BY <2>2, <2>4, <3>1, <3>2 DEF OnlyRelease, First
  <2>6. RecordsOk' /\ VersionsOk' /\ Grown
    BY <1>1, <2>2, <2>3, <2>4, <2>5, ReleaseEdited
  <2>7. /\ job'.step = step /\ job'.version = job.version
        /\ job'.input = job.input /\ job'.image = job.image
    BY <1>1, <1>2, <2>2, Proceeds
  <2>8. InputsNow'
    BY <1>1, <1>2, <2>2, <2>6, <2>7, InputsProceed
  <2>9. JobNow'
    BY <1>3, <2>2, <2>7 DEF JobNow
  <2> QED  BY <2>6, <2>8, <2>9 DEF PublicationInv
<1> QED  BY <1>4, <1>5

\* The stable tag moves on: what was published stays at it or behind it.
LEMMA PublicationPromote ==
  ASSUME WorkflowInv, PublicationInv, Promote
  PROVE  PublicationInv'
<1>1. JobOk /\ HubNamed /\ RecordsOk /\ InputsNow /\ JobNow /\ VersionsOk
  BY DEF WorkflowInv, PublicationInv
<1>2. job.step = "promote" /\ job.step \in Later /\ job.step # "none"
  BY DEF Promote, Later
<1>3. /\ job.version \in Versions /\ hub[job.version] = job.image
      /\ Len(releases[job.version]) = 1 => Whole(job.version)
  BY <1>1, <1>2 DEF JobOk, JobNow, AfterPush
<1>4. CASE Stop /\ UNCHANGED worldVars
  <2>1. RecordsOk' /\ VersionsOk' /\ Grown
    BY <1>1, <1>4, VersionsKept DEF worldVars
  <2> QED  BY <1>1, <1>2, <1>4, <2>1, InputsEnd DEF PublicationInv
<1>5. CASE ~(Stop /\ UNCHANGED worldVars)
  <2>1. /\ alias' = job.image /\ Proceed("publish")
        /\ UNCHANGED <<hub, releases, failed>>
    BY <1>5 DEF Promote, OrStop
  <2>2. alias' # alias /\ alias # NoImage => Newer(alias', alias.version)
    BY PromoteStep
  <2>3. RecordsOk' /\ Grown
    BY <1>1, <2>1 DEF RecordsOk, Grown, First
  <2>4. ASSUME NEW w \in Versions, hub[w] # NoImage,
               alias = hub[w] \/ Newer(alias, w)
        PROVE  alias' = hub[w] \/ Newer(alias', w)
    <3>1. CASE alias' = alias
      BY <2>4, <3>1
    <3>2. CASE alias' # alias
      <4>1. Newer(alias', alias.version)
        BY <2>2, <2>4, <3>2 DEF Newer
      <4>2. alias.version = w \/ alias.version > w
        BY <1>1, <2>4 DEF HubNamed, Newer
      <4>3. alias.version \in Nat /\ alias'.version \in Nat /\ w \in Nat
        <5>1. alias # NoImage
          BY <2>4 DEF Newer
        <5>2. alias.version \in Versions
          BY <5>1 DEF WorkflowInv, AliasOk
        <5>3. alias'.version \in Versions
          BY <1>1, <1>2, <2>1 DEF JobOk, OfVersion
        <5> QED  BY <5>2, <5>3, ReleaseAssumption
      <4> QED  BY <4>1, <4>2, <4>3 DEF Newer
    <3> QED  BY <3>1, <3>2
  <2>5. VersionsOk'
    BY <1>1, <2>1, <2>4 DEF VersionsOk, VersionOk, OnlyRelease, Whole, First
  <2>6. /\ job'.step = "publish" /\ job'.version = job.version
        /\ job'.input = job.input /\ job'.image = job.image
    BY <1>1, <1>2, <2>1, Proceeds
  <2>7. InputsNow'
    BY <1>1, <1>2, <2>1, <2>3, <2>6, InputsProceed
  <2>8. JobNow'
    BY <1>3, <2>1, <2>6 DEF JobNow, AfterPush, Whole, First
  <2> QED  BY <2>3, <2>5, <2>7, <2>8 DEF PublicationInv
<1> QED  BY <1>4, <1>5

\* The publication of a release that Require found complete.
LEMMA PublicationPublish ==
  ASSUME WorkflowInv, PublicationInv, Publish
  PROVE  PublicationInv'
<1>1. JobOk /\ HubNamed /\ RecordsOk /\ InputsNow /\ JobNow /\ VersionsOk
  BY DEF WorkflowInv, PublicationInv
<1>2. job.step = "publish" /\ job.step \in Later
  BY DEF Publish, Later
<1>3. PICK v \in Versions : v = job.version
  BY <1>1, <1>2 DEF JobOk
<1>4. /\ hub[v] = job.image /\ job.image # NoImage /\ alias = job.image
      /\ Len(releases[v]) = 1 => Whole(v)
  BY <1>1, <1>2, <1>3, ReleaseAssumption DEF JobOk, OfVersion, JobNow, AfterPush
<1>5. PICK k \in Found(v) : releases' = [releases EXCEPT ![v][k].draft = FALSE]
  BY <1>3 DEF Publish
<1>6. job' = Idle /\ UNCHANGED <<hub, alias, failed>>
  BY DEF Publish
<1>7. /\ k \in DOMAIN releases[v] /\ releases[v][k] \in Records
      /\ Len(releases[v]) = 1 => k = 1
  BY <1>1, FoundIsFirst
<1> DEFINE r == [releases[v][k] EXCEPT !.draft = FALSE]
<1>8. /\ r \in Records /\ r.checkpoint = releases[v][k].checkpoint
      /\ r.metadata = releases[v][k].metadata /\ r.digest = releases[v][k].digest
      /\ r.bundle = releases[v][k].bundle
  BY <1>7 DEF Records
<1>9. releases' = [releases EXCEPT ![v][k] = r]
  BY <1>5
<1> HIDE DEF r
<1>10. Len(releases[v]) = 1 => OnlyRelease(v)'
  <2> SUFFICES ASSUME Len(releases[v]) = 1 PROVE OnlyRelease(v)'
    OBVIOUS
  <2>1. OnlyRelease(v) /\ k = 1
    BY <1>1, <1>7 DEF VersionsOk, VersionOk
  <2>2. First(v)' = r
    BY <1>1, <1>7, <1>8, <1>9, <2>1, Edited
  <2> QED  BY <1>4, <1>6, <1>8, <2>1, <2>2 DEF OnlyRelease, Whole, First
<1>11. RecordsOk' /\ VersionsOk' /\ Grown
  BY <1>1, <1>6, <1>7, <1>8, <1>9, <1>10, ReleaseEdited
<1>12. \A input \in failed : InputNow(input)'
  BY <1>1, <1>11, InputStays DEF JobOk, InputsNow
<1>13. InputsNow' /\ JobNow'
  BY <1>6, <1>12 DEF InputsNow, JobNow, Idle, Later, AfterPush
<1> QED  BY <1>11, <1>13 DEF PublicationInv

\* Somebody attaches what a draft lacks.
LEMMA PublicationRepair ==
  ASSUME WorkflowInv, PublicationInv, NEW v \in Versions, Repair(v)
  PROVE  PublicationInv'
<1>1. JobOk /\ HubNamed /\ RecordsOk /\ InputsNow /\ JobNow /\ VersionsOk
  BY DEF WorkflowInv, PublicationInv
<1>2. UNCHANGED <<hub, alias, job, failed>>
  BY DEF Repair
<1>3. PICK k \in DOMAIN releases[v] :
         /\ releases[v][k].draft
         /\ releases' = [releases EXCEPT ![v][k].bundle = TRUE]
  BY DEF Repair
<1>4. releases[v][k] \in Records /\ (Len(releases[v]) = 1 => k = 1)
  BY <1>1 DEF RecordsOk
<1> DEFINE r == [releases[v][k] EXCEPT !.bundle = TRUE]
<1>5. /\ r \in Records /\ r.checkpoint = releases[v][k].checkpoint
      /\ r.metadata = releases[v][k].metadata /\ r.digest = releases[v][k].digest
      /\ r.bundle /\ r.draft
  BY <1>3, <1>4 DEF Records
<1>6. releases' = [releases EXCEPT ![v][k] = r]
  BY <1>3
<1> HIDE DEF r
<1>7. Len(releases[v]) = 1 => First(v)' = r
  BY <1>1, <1>4, <1>5, <1>6, Edited
<1>8. Len(releases[v]) = 1 => OnlyRelease(v)'
  BY <1>1, <1>2, <1>4, <1>5, <1>7 DEF VersionsOk, VersionOk, OnlyRelease, First
<1>9. /\ RecordsOk' /\ VersionsOk' /\ Grown
      /\ Len(releases'[v]) = Len(releases[v])
      /\ \A w \in Versions \ {v} : releases'[w] = releases[w]
  BY <1>1, <1>2, <1>4, <1>5, <1>6, <1>8, ReleaseEdited
<1>10. InputsNow'
  <2>1. \A input \in failed : InputNow(input)'
    BY <1>1, <1>9, InputStays DEF JobOk, InputsNow
  <2>2. CASE job.step \in {"build"} \cup Later
    BY <1>1, <1>2, <1>9, <2>2, InputsProceed
  <2>3. CASE job.step \notin {"build"} \cup Later
    BY <1>2, <2>1, <2>3 DEF InputsNow
  <2> QED  BY <2>2, <2>3
<1>11. JobNow'
  <2>1. CASE job.step \in Later
    <3>1. PICK w \in Versions : w = job.version
      BY <1>1, <2>1 DEF JobOk
    <3>2. /\ releases[w] # <<>> => releases'[w] # <<>>
          /\ Len(releases'[w]) = Len(releases[w])
          /\ releases[w] # <<>> => First(w)'.checkpoint = First(w).checkpoint
      BY <1>9 DEF Grown
    <3>3. Len(releases[w]) = 1 => releases[w] # <<>>
      <4>1. Len(<<>>) # 1
        OBVIOUS
      <4> QED  BY <4>1, Zenon
    <3>4. Len(releases[w]) = 1 /\ Whole(w) => Whole(w)'
      <4>1. CASE w = v
        <5>1. k = 1 /\ Len(releases[w]) = 1 =>
                /\ First(w)' = r /\ r.checkpoint = First(w).checkpoint
                /\ r.metadata = First(w).metadata /\ r.digest = First(w).digest
          BY <1>5, <1>7, <4>1 DEF First
        <5> QED  BY <1>4, <1>5, <4>1, <5>1 DEF Whole
      <4>2. CASE w # v
        BY <1>9, <4>2 DEF Whole, First
      <4> QED  BY <4>1, <4>2
    <3> QED  BY <1>1, <1>2, <3>1, <3>2, <3>3, <3>4 DEF JobNow, Whole, First
  <2>2. CASE job.step \notin Later
    BY <1>2, <2>2 DEF JobNow, Later, AfterPush
  <2> QED  BY <2>1, <2>2
<1> QED  BY <1>9, <1>10, <1>11 DEF PublicationInv

\* The other steps of the environment touch neither Docker Hub nor a release.
LEMMA PublicationOutside ==
  ASSUME WorkflowInv, PublicationInv,
         \/ Fail
         \/ \E v \in Versions : Dispatch(v)
         \/ \E v \in Versions, rev \in Revisions : MoveTag(v, rev)
         \/ \E input \in failed : RerunFailed(input)
         \/ UNCHANGED vars
  PROVE  PublicationInv'
<1>1. JobOk /\ HubNamed /\ RecordsOk /\ InputsNow /\ JobNow /\ VersionsOk
  BY DEF WorkflowInv, PublicationInv
<1>2. UNCHANGED <<hub, alias, releases>>
  BY DEF Fail, Dispatch, MoveTag, RerunFailed, vars, worldVars
<1>3. RecordsOk' /\ VersionsOk' /\ Grown
  BY <1>1, <1>2, VersionsKept
<1>4. \A input \in failed : InputNow(input)'
  BY <1>1, <1>3, InputStays DEF JobOk, InputsNow
<1>5. CASE Fail
  <2>1. job.step # "none"
    BY <1>1, <1>5 DEF Fail, Idle, JobOk
  <2> QED  BY <1>1, <1>3, <1>5, <2>1, InputsEnd DEF Fail, PublicationInv
<1>6. ASSUME NEW v \in Versions, Dispatch(v)
      PROVE  PublicationInv'
  <2>1. job'.step = "preflight" /\ UNCHANGED failed
    BY <1>6 DEF Dispatch
  <2> QED  BY <1>3, <1>4, <2>1 DEF PublicationInv, InputsNow, JobNow, Later, AfterPush
<1>7. CASE UNCHANGED <<job, failed>>
  <2>1. InputsNow' /\ JobNow'
    BY <1>1, <1>2, <1>7 DEF InputsNow, InputNow, JobNow, Whole, First
  <2> QED  BY <1>3, <2>1 DEF PublicationInv
<1>8. ASSUME NEW input \in failed, RerunFailed(input)
      PROVE  PublicationInv'
  <2>1. /\ InputOk(input) /\ InputNow(input) /\ job' = Job(input)
        /\ \A i \in failed' : InputNow(i)
    BY <1>1, <1>8 DEF RerunFailed, JobOk, InputsNow
  <2> QED  BY <1>2, <1>3, <2>1, InputsBegin DEF PublicationInv
<1> QED  BY <1>5, <1>6, <1>7, <1>8 DEF MoveTag, vars

\* Require before Promote before Publish, uploads that never overwrite, and a
\* checkpoint that names what may be pushed: a published release that is the
\* only one of its tag is complete and names the image of the full version, and
\* the stable tag is at it or a newer version, wherever runs were cut off and
\* whichever of their inputs were taken again.
THEOREM PublishedIsWholeHolds == Spec => []PublishedIsWhole
<1>1. Init => PublicationInv
  <2> SUFFICES ASSUME Init PROVE PublicationInv
    OBVIOUS
  <2>1. RecordsOk
    BY DEF Init, RecordsOk
  <2>2. VersionsOk
    <3>1. \A v \in Versions : hub[v] = NoImage /\ releases[v] = <<>>
      BY DEF Init
    <3>2. Len(<<>>) # 1
      OBVIOUS
    <3> QED  BY <3>1, <3>2, Zenon DEF VersionsOk, VersionOk
  <2>3. InputsNow /\ JobNow
    BY DEF Init, InputsNow, JobNow, Idle, Later, AfterPush
  <2> QED  BY <2>1, <2>2, <2>3 DEF PublicationInv
<1>2. WorkflowInv /\ PublicationInv /\ [Next]_vars => PublicationInv'
  BY PublicationPreflight, PublicationLocal, PublicationDraft, PublicationPush,
     PublicationUpload, PublicationPromote, PublicationPublish, PublicationRepair,
     PublicationOutside DEF Next, JobStep
<1>3. PublicationInv => PublishedIsWhole
  <2> SUFFICES ASSUME PublicationInv, NEW v \in Versions, NEW k \in Published(v),
                      Len(releases[v]) = 1
               PROVE  /\ releases[v][k].bundle /\ hub[v] # NoImage
                      /\ releases[v][k].checkpoint = hub[v]
                      /\ releases[v][k].metadata = hub[v]
                      /\ releases[v][k].digest = hub[v]
                      /\ alias = hub[v] \/ Newer(alias, v)
    BY DEF PublishedIsWhole
  <2>1. k = 1 /\ ~releases[v][k].draft
    BY DEF PublicationInv, RecordsOk, Published
  <2>2. OnlyRelease(v)
    BY DEF PublicationInv, VersionsOk, VersionOk
  <2> QED  BY <2>1, <2>2 DEF OnlyRelease, Whole, First
<1> QED  BY <1>1, <1>2, <1>3, WorkflowInvariant, PTL DEF Spec

-----------------------------------------------------------------------------
(* The release tool.                                                        *)

\* The invocation of an operator.
ToolOk(o) ==
    tool[o].at # "idle" =>
        /\ tool[o] = [at |-> tool[o].at, mode |-> tool[o].mode,
                      source |-> tool[o].source, image |-> tool[o].image,
                      digest |-> tool[o].digest]
        /\ tool[o].source \in Sources

\* A tag that was reported has an image; Docker Hub never replaces one.
ToolInv ==
    /\ tags = [s \in Sources |-> tags[s]]
    /\ tool = [o \in Operators |-> tool[o]]
    /\ \A o \in Operators : ToolOk(o)
    /\ \A r \in reports : r.source \in Sources /\ r.image # NoImage
    /\ ReportedIsPublished

\* The invariant of the release tool holds initially,
LEMMA ToolInvInit == ToolInit => ToolInv
  BY DEF ToolInit, ToolInv, ToolOk, ReportedIsPublished, ToolIdle

\* One invocation moves to a record of the same source, or ends.
LEMMA ToolMoves ==
  ASSUME ToolInv, NEW o \in Operators, NEW next,
         tool' = [tool EXCEPT ![o] = next],
         \/ next = ToolIdle
         \/ \E at, mode, image, digest : \E source \in Sources :
               next = [at |-> at, mode |-> mode, source |-> source,
                       image |-> image, digest |-> digest]
  PROVE  /\ tool' = [p \in Operators |-> tool'[p]]
         /\ \A p \in Operators : ToolOk(p)'
<1>1. tool' = [p \in Operators |-> IF p = o THEN next ELSE tool[p]]
  BY DEF ToolInv
<1>2. ToolOk(o)'
  BY <1>1 DEF ToolOk, ToolIdle
<1>3. ASSUME NEW p \in Operators, p # o
      PROVE  ToolOk(p)'
  BY <1>1, <1>3 DEF ToolInv, ToolOk
<1> QED  BY <1>1, <1>2, <1>3

\* The record of an invocation.
Invocation(a, m, s, i, d) ==
    [at |-> a, mode |-> m, source |-> s, image |-> i, digest |-> d]

WithAt(r, x) == [r EXCEPT !.at = x]
WithImage(r, x) == [r EXCEPT !.image = x]
WithDigest(r, x) == [r EXCEPT !.digest = x]

\* A record with one field replaced.
LEMMA OneUpdate ==
  ASSUME NEW a, NEW m, NEW s, NEW i, NEW d, NEW x
  PROVE  /\ WithAt(Invocation(a, m, s, i, d), x) = Invocation(x, m, s, i, d)
         /\ WithImage(Invocation(a, m, s, i, d), x) = Invocation(a, m, s, x, d)
         /\ WithDigest(Invocation(a, m, s, i, d), x) = Invocation(a, m, s, i, x)
<1>1. WithAt(Invocation(a, m, s, i, d), x) = Invocation(x, m, s, i, d)
  BY DEF Invocation, WithAt
<1>2. WithImage(Invocation(a, m, s, i, d), x) = Invocation(a, m, s, x, d)
  BY DEF Invocation, WithImage
<1>3. WithDigest(Invocation(a, m, s, i, d), x) = Invocation(a, m, s, i, x)
  BY DEF Invocation, WithDigest
<1> QED  BY <1>1, <1>2, <1>3

\* The shape of an invocation's record after each kind of update.
LEMMA ToolUpdates ==
  ASSUME ToolInv, NEW o \in Operators, tool[o].at # "idle", NEW at, NEW x,
         \/ tool' = [tool EXCEPT ![o].at = at]
         \/ tool' = [tool EXCEPT ![o] = [@ EXCEPT !.at = at, !.image = x]]
         \/ tool' = [tool EXCEPT ![o] = [@ EXCEPT !.at = at, !.digest = x]]
         \/ tool' = [tool EXCEPT ![o] = ToolIdle]
  PROVE  /\ tool' = [p \in Operators |-> tool'[p]]
         /\ \A p \in Operators : ToolOk(p)'
<1>1. PICK a, m, i, d, s : tool[o] = Invocation(a, m, s, i, d) /\ s \in Sources
  <2>1. /\ tool[o].source \in Sources
        /\ tool[o] = Invocation(tool[o].at, tool[o].mode, tool[o].source,
                                tool[o].image, tool[o].digest)
    BY DEF ToolInv, ToolOk, Invocation
  <2> QED  BY <2>1
<1>2. ASSUME NEW j, NEW e, NEW next, next = Invocation(at, m, s, j, e),
             tool' = [tool EXCEPT ![o] = next]
      PROVE  /\ tool' = [p \in Operators |-> tool'[p]]
             /\ \A p \in Operators : ToolOk(p)'
  BY <1>1, <1>2, ToolMoves DEF Invocation
<1>3. CASE tool' = [tool EXCEPT ![o].at = at]
  <2>1. tool' = [tool EXCEPT ![o] = WithAt(tool[o], at)]
    BY <1>3 DEF WithAt
  <2>2. WithAt(tool[o], at) = Invocation(at, m, s, i, d)
    BY <1>1, OneUpdate
  <2> QED  BY <1>2, <2>1, <2>2
<1>4. CASE tool' = [tool EXCEPT ![o] = [@ EXCEPT !.at = at, !.image = x]]
  <2>1. tool' = [tool EXCEPT ![o] = WithImage(WithAt(tool[o], at), x)]
    BY <1>4 DEF WithAt, WithImage
  <2>2. WithImage(WithAt(tool[o], at), x) = Invocation(at, m, s, x, d)
    BY <1>1, OneUpdate
  <2> QED  BY <1>2, <2>1, <2>2
<1>5. CASE tool' = [tool EXCEPT ![o] = [@ EXCEPT !.at = at, !.digest = x]]
  <2>1. tool' = [tool EXCEPT ![o] = WithDigest(WithAt(tool[o], at), x)]
    BY <1>5 DEF WithAt, WithDigest
  <2>2. WithDigest(WithAt(tool[o], at), x) = Invocation(at, m, s, i, x)
    BY <1>1, OneUpdate
  <2> QED  BY <1>2, <2>1, <2>2
<1>6. CASE tool' = [tool EXCEPT ![o] = ToolIdle]
  BY <1>6, ToolMoves
<1> QED  BY <1>3, <1>4, <1>5, <1>6

\* A step that neither pushes nor reports.
LEMMA ToolQuiet ==
  ASSUME ToolInv, UNCHANGED <<tags, reports>>,
         tool' = [p \in Operators |-> tool'[p]],
         \A p \in Operators : ToolOk(p)'
  PROVE  ToolInv'
  BY DEF ToolInv, ReportedIsPublished

\* and is preserved by every command and every deployment.
LEMMA ToolInvStep ==
  ASSUME ToolInv, [ToolNext]_toolVars
  PROVE  ToolInv'
<1>1. CASE Deploy \/ UNCHANGED toolVars
  BY <1>1 DEF Deploy, toolVars, ToolInv, ToolOk, ReportedIsPublished
<1>2. ASSUME NEW o \in Operators, NEW source \in Sources, PublishBegin(o, source)
      PROVE  ToolInv'
  BY <1>2, ToolMoves, ToolQuiet DEF PublishBegin
<1>3. ASSUME NEW o \in Operators, NEW image \in Images,
             VerifyBegin(o, SourceOf(image), image)
      PROVE  ToolInv'
  <2>1. SourceOf(image) \in Sources  BY DEF SourceOf, Sources, Images
  <2> QED  BY <1>3, <2>1, ToolMoves, ToolQuiet DEF VerifyBegin
<1>4. ASSUME NEW o \in Operators,
             \/ InspectContainer(o) \/ InspectImage(o) \/ ExecVersion(o)
             \/ EnsureTagAbsent(o) \/ DockerTag(o) \/ GetDigest(o) \/ ToolStop(o)
      PROVE  ToolInv'
  <2>1. tool[o].at # "idle" /\ UNCHANGED <<tags, reports>>
    BY <1>4 DEF InspectContainer, InspectImage, ExecVersion, EnsureTagAbsent,
                DockerTag, GetDigest, ToolStop, At
  <2>2. /\ tool' = [p \in Operators |-> tool'[p]]
        /\ \A p \in Operators : ToolOk(p)'
    <3>1. CASE InspectContainer(o)
      BY <2>1, <3>1, ToolUpdates DEF InspectContainer
    <3>2. CASE InspectImage(o) \/ ExecVersion(o) \/ EnsureTagAbsent(o) \/ DockerTag(o)
      BY <2>1, <3>2, ToolUpdates
         DEF InspectImage, ExecVersion, EnsureTagAbsent, DockerTag, To
    <3>3. CASE GetDigest(o)
      BY <2>1, <3>3, ToolUpdates DEF GetDigest
    <3>4. CASE ToolStop(o)
      BY <2>1, <3>4, ToolUpdates DEF ToolStop
    <3> QED  BY <1>4, <3>1, <3>2, <3>3, <3>4
  <2> QED  BY <2>1, <2>2, ToolQuiet
<1>5. ASSUME NEW o \in Operators, DockerPush(o)
      PROVE  ToolInv'
  <2>1. tool[o].at # "idle" /\ UNCHANGED reports
    BY <1>5 DEF DockerPush, At
  <2>2. /\ tool' = [p \in Operators |-> tool'[p]]
        /\ \A p \in Operators : ToolOk(p)'
    BY <1>5, <2>1, ToolUpdates DEF DockerPush, To
  <2>3. /\ tags' = [s \in Sources |-> tags'[s]]
        /\ \A s \in Sources : tags[s] # NoImage => tags'[s] = tags[s]
    BY <1>5, <2>1 DEF DockerPush, ToolInv, ToolOk
  <2> QED  BY <2>1, <2>2, <2>3 DEF ToolInv, ReportedIsPublished
<1>6. ASSUME NEW o \in Operators, Report(o)
      PROVE  ToolInv'
  <2>1. /\ tool[o].at # "idle" /\ UNCHANGED tags
        /\ tags[tool[o].source] = Vouched(o) /\ Vouched(o) # NoImage
        /\ reports' = reports \cup
                         {[source |-> tool[o].source, image |-> Vouched(o)]}
    BY <1>6 DEF Report, At, Accepted, Vouched
  <2>2. /\ tool' = [p \in Operators |-> tool'[p]]
        /\ \A p \in Operators : ToolOk(p)'
    BY <1>6, <2>1, ToolUpdates DEF Report
  <2>3. tool[o].source \in Sources
    BY <2>1 DEF ToolInv, ToolOk
  <2> QED  BY <2>1, <2>2, <2>3 DEF ToolInv, ReportedIsPublished
<1> QED  BY <1>1, <1>2, <1>3, <1>4, <1>5, <1>6 DEF ToolNext, ToolStep

\* What the tool reported is what Docker Hub has under the tag, for any number of
\* operators and deployments: the last comparison is with the image that was
\* accepted, and no tag that has an image changes.
THEOREM ReportedIsPublishedHolds == ToolSpec => []ReportedIsPublished
<1>1. ToolInit => ToolInv  BY ToolInvInit
<1>2. ToolInv /\ [ToolNext]_toolVars => ToolInv'  BY ToolInvStep
<1>3. ToolInv => ReportedIsPublished  BY DEF ToolInv
<1> QED  BY <1>1, <1>2, <1>3, PTL DEF ToolSpec
============================================================================

--------------------------- MODULE ServerRelease ---------------------------
(***************************************************************************)
(* The release tool run by hand (scripts/release/main.go): operators       *)
(* publish the image that the SDR server runs under the tag                *)
(* v<version>-<revision>, or verify what was published, while a deployment *)
(* of the server goes on.  One action per external command or request.     *)
(*                                                                         *)
(* A repository of Docker Hub holds these tags beside the workflow's full  *)
(* versions; no tag belongs to both.  Any command, request or check that   *)
(* fails ends the tool, which ToolStop stands for.                         *)
(***************************************************************************)
EXTENDS Release

CONSTANTS
    Operators,      \* invocations of the tool
    MaxDeploys      \* bound on the steps of deployments

ASSUME ServerAssumption == MaxDeploys \in Nat

VARIABLES
    tree,           \* the server's synced source: VERSION and .release-revision
    runtime,        \* what the local tag gsm-system:2.1 names
    container,      \* the image the container gsmsystem-uhd4 runs
    healthy,        \* its health
    refs,           \* what the local tags of releases name
    tags,           \* the release tags on Docker Hub
    tool,           \* the operators' invocations
    reports,        \* the releases the tool reported
    deploys

toolVars == <<tree, runtime, container, healthy, refs, tags, tool, reports, deploys>>
serverVars == <<tree, runtime, container, healthy, deploys>>

Sources == Versions \X Revisions
SourceOf(image) == <<image.version, image.rev>>
ToolIdle == [at |-> "idle"]

-----------------------------------------------------------------------------
(* A deployment: sync, build, restart, and the health of the container.     *)

Deploy ==
    /\ deploys < MaxDeploys
    /\ deploys' = deploys + 1
    /\ \/ \E s \in Sources : tree' = s /\ UNCHANGED <<runtime, container, healthy>>
       \/ \E b \in Builds :
             /\ runtime' = [version |-> tree[1], rev |-> tree[2], build |-> b]
             /\ UNCHANGED <<tree, container, healthy>>
       \/ /\ container' = runtime /\ healthy' = FALSE
          /\ UNCHANGED <<tree, runtime>>
       \/ healthy' = TRUE /\ UNCHANGED <<tree, runtime, container>>
    /\ UNCHANGED <<refs, tags, tool, reports>>

-----------------------------------------------------------------------------
(* The tool.                                                                *)

At(o, at) == tool[o].at = at
To(o, at) == tool' = [tool EXCEPT ![o].at = at]

\* execute up to newRegistry: publish wants the tree that was deployed, verify
\* a checkout of the revision.  The operator gives the confirmations.
PublishBegin(o, source) ==
    /\ At(o, "idle")
    /\ tree = source
    /\ tool' = [tool EXCEPT ![o] =
                  [at |-> "container", mode |-> "publish", source |-> source,
                   image |-> NoImage, digest |-> NoImage]]
    /\ UNCHANGED <<serverVars, refs, tags, reports>>

VerifyBegin(o, source, digest) ==
    /\ At(o, "idle")
    /\ tool' = [tool EXCEPT ![o] =
                  [at |-> "verify", mode |-> "verify", source |-> source,
                   image |-> NoImage, digest |-> digest]]
    /\ UNCHANGED <<serverVars, refs, tags, reports>>

\* checkServer: the container is running and healthy; its image is remembered.
InspectContainer(o) ==
    /\ At(o, "container") /\ healthy
    /\ tool' = [tool EXCEPT ![o] = [@ EXCEPT !.at = "image", !.image = container]]
    /\ UNCHANGED <<serverVars, refs, tags, reports>>

\* checkServer and checkLabels: gsm-system:2.1 is that image, of this source.
InspectImage(o) ==
    /\ At(o, "image")
    /\ runtime = tool[o].image /\ SourceOf(runtime) = tool[o].source
    /\ To(o, "exec")
    /\ UNCHANGED <<serverVars, refs, tags, reports>>

\* checkServer: the binary in the container tells its version and its health.
ExecVersion(o) ==
    /\ At(o, "exec")
    /\ SourceOf(container) = tool[o].source /\ healthy
    /\ To(o, "absent")
    /\ UNCHANGED <<serverVars, refs, tags, reports>>

\* ensureTagAbsent: only an explicit 404.
EnsureTagAbsent(o) ==
    /\ At(o, "absent") /\ tags[tool[o].source] = NoImage
    /\ To(o, "tag")
    /\ UNCHANGED <<serverVars, refs, tags, reports>>

DockerTag(o) ==
    /\ At(o, "tag")
    /\ refs' = [refs EXCEPT ![tool[o].source] = tool[o].image]
    /\ To(o, "push")
    /\ UNCHANGED <<serverVars, tags, reports>>

\* The operator has confirmed, by a flag that the tool cannot check, that the
\* repository's rule for immutable tags covers v<version>-<revision>: a push of
\* other content is refused.  (The rule that docs/RELEASING.md suggests covers
\* the x.y.z tags of the workflow only; without a wider one it is not.)
DockerPush(o) ==
    LET source == tool[o].source
    IN  /\ At(o, "push")
        /\ tags[source] \in {NoImage, refs[source]}
        /\ tags' = [tags EXCEPT ![source] = refs[source]]
        /\ To(o, "digest")
        /\ UNCHANGED <<serverVars, refs, reports>>

GetDigest(o) ==
    /\ At(o, "digest")
    /\ tool' = [tool EXCEPT ![o] =
                  [@ EXCEPT !.at = "verify", !.digest = tags[tool[o].source]]]
    /\ UNCHANGED <<serverVars, refs, tags, reports>>

\* Mutant of Accepted: what the registry has is not compared with the image
\* that was accepted.
AcceptedUnseen(o) ==
    /\ tags[tool[o].source] = tool[o].digest
    /\ SourceOf(tool[o].digest) = tool[o].source

\* verifyRegistry, and for publish the comparison with the accepted image.
Accepted(o) ==
    /\ tags[tool[o].source] = tool[o].digest
    /\ SourceOf(tool[o].digest) = tool[o].source
    /\ tool[o].mode = "publish" => tool[o].digest = tool[o].image

\* The image a report vouches for: the accepted one, or the one asked about.
Vouched(o) == IF tool[o].mode = "publish" THEN tool[o].image ELSE tool[o].digest

Report(o) ==
    /\ At(o, "verify") /\ tool[o].digest # NoImage
    /\ Accepted(o)
    /\ reports' = reports \cup {[source |-> tool[o].source, image |-> Vouched(o)]}
    /\ tool' = [tool EXCEPT ![o] = ToolIdle]
    /\ UNCHANGED <<serverVars, refs, tags>>

\* A check or a command fails, or the operator stops the tool.
ToolStop(o) ==
    /\ ~At(o, "idle")
    /\ tool' = [tool EXCEPT ![o] = ToolIdle]
    /\ UNCHANGED <<serverVars, refs, tags, reports>>

-----------------------------------------------------------------------------
ToolInit ==
    /\ tree \in Sources
    /\ runtime = [version |-> tree[1], rev |-> tree[2],
                  build |-> CHOOSE b \in Builds : TRUE]
    /\ container = runtime /\ healthy = TRUE
    /\ refs = [s \in Sources |-> NoImage] /\ tags = refs
    /\ tool = [o \in Operators |-> ToolIdle]
    /\ reports = {} /\ deploys = 0

ToolStep(o) ==
    \/ \E source \in Sources : PublishBegin(o, source)
    \/ \E image \in Images : VerifyBegin(o, SourceOf(image), image)
    \/ InspectContainer(o) \/ InspectImage(o) \/ ExecVersion(o)
    \/ EnsureTagAbsent(o) \/ DockerTag(o) \/ DockerPush(o) \/ GetDigest(o)
    \/ Report(o) \/ ToolStop(o)

ToolNext == Deploy \/ \E o \in Operators : ToolStep(o)

ToolSpec == ToolInit /\ [][ToolNext]_toolVars

\* "published image differs from accepted local image" is always noticed: what
\* the tool reported is, and remains, what Docker Hub has under the tag, though
\* another operator tags and pushes another build of the same source meanwhile.
ReportedIsPublished == \A r \in reports : tags[r.source] = r.image
=============================================================================

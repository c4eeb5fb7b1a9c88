\* Workflow runs that are cut off, resumed and re-run for two versions, or two operators of the release tool.
SPECIFICATION FairBoth
CONSTANTS
    Versions = {1, 2}
    Revisions = {r1, r2}
    Builds = {b1, b2}
    Operators = {o1, o2}
    NoImage = NoImage
    MaxDrafts = 2
    MaxFailures = 1
    MaxMoves = 1
    MaxDeploys = 3
INVARIANTS
    PublishedIsWhole
    ReportedIsPublished
PROPERTIES
    FullTagsNeverMove
    AliasNeverRollsBack
    PushedGetsPublished

----------------------------- MODULE MCRelease -----------------------------
(* Both ways to publish.  They share neither a tag nor other state, so a    *)
(* behaviour follows one of them: path says which.                          *)
EXTENDS ServerRelease

VARIABLE path

allVars == <<vars, toolVars, path>>

ByWorkflow(act) == path = "workflow" /\ act /\ UNCHANGED <<toolVars, path>>
ByTool(act) == path = "tool" /\ act /\ UNCHANGED <<vars, path>>

InitBoth ==
    /\ Init /\ ToolInit
    /\ path \in {"workflow", "tool"}
    \* The path that is not followed adds no initial states.
    /\ tree = <<1, head[1]>>
    \* Revisions are interchangeable: one of the ways to name them.
    /\ head[1] = CHOOSE rev \in Revisions : TRUE
    /\ path = "tool" => \A v \in Versions : head[v] = head[1]

NextBoth == ByWorkflow(Next) \/ ByTool(ToolNext)

FairBoth ==
    /\ InitBoth /\ [][NextBoth]_allVars
    /\ WF_allVars(ByWorkflow(JobStep))
    /\ \A v \in Versions :
          /\ WF_allVars(ByWorkflow(Repair(v)))
          /\ SF_allVars(ByWorkflow(Dispatch(v)))
=============================================================================

---------------------------- MODULE SearchTools ----------------------------
(***************************************************************************)
(* What is built on searches: their evaluation by a ground truth, the      *)
(* search of a range, and the HTTP servers.  tool says which is at work.   *)
(***************************************************************************)
EXTENDS SearchEvaluation, RangeSearch, RestServer

VARIABLE tool

toolVars == <<evaluationVars, rangeVars, restVars, tool>>

\* The tools that are not at work stand at some start of theirs.
ACommand == CHOOSE c \in Commands : TRUE
Idle ==
    /\ IF tool = "evaluation" THEN TRUE
       ELSE cmd = ACommand /\ eval = CHOOSE e \in Evaluations(ACommand) : TRUE
    /\ IF tool = "range" THEN TRUE ELSE ask = CHOOSE c \in RangeCommands : TRUE
    /\ IF tool = "rest" THEN TRUE ELSE service = CHOOSE s \in Services : TRUE

ToolsInit ==
    /\ tool \in {"evaluation", "range", "rest"}
    /\ Idle /\ EvalInit /\ RangeInit /\ RestInit

Evaluate == tool = "evaluation" /\ EvalNext /\ UNCHANGED <<rangeVars, restVars, tool>>
SearchRange == tool = "range" /\ RangeNext /\ UNCHANGED <<evaluationVars, restVars, tool>>
Serve == tool = "rest" /\ RestNext /\ UNCHANGED <<evaluationVars, rangeVars, tool>>

ToolsNext == Evaluate \/ SearchRange \/ Serve

\* A request that arrived is worked on as long as there are threads to run it.
Handling(c) == tool = "rest" /\ (Handle(c) \/ Lost(c)) /\ UNCHANGED <<evaluationVars, rangeVars, tool>>
ToolsSpec ==
    ToolsInit /\ [][ToolsNext]_toolVars /\ \A c \in Clients : WF_toolVars(Handling(c))
=============================================================================

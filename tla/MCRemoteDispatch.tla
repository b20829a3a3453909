--------------------------- MODULE MCRemoteDispatch ---------------------------
(***************************************************************************)
(* Two jobs on one agent, whose queue has room for one request, while a    *)
(* push asks for both; the agent's configuration may lack the first.       *)
(***************************************************************************)
EXTENDS RemoteDispatch

CONSTANTS j1, j2, a1

MCSelected == <<j1, j2>>
MCAgentOf == [j \in Jobs |-> a1]
MCConfigurations == {[a \in Agents |-> {j1, j2}], [a \in Agents |-> {j2}]}
MCPlatformJobs == [a \in Agents |-> <<j1, j2>>]
===============================================================================

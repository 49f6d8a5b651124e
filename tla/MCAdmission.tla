---------------------------- MODULE MCAdmission ----------------------------
(***************************************************************************)
(* Instances of AgentAdmission for TLC.                                    *)
(***************************************************************************)
EXTENDS AgentAdmission, TLC

\* A directory and a file in it.
MCPaths  == {<<"src">>, <<"src", "api">>}
MCScopes == {{p} : p \in MCPaths}

\* Ids are only compared, so new tasks and threads are symmetric.
Symmetry == Permutations(Tasks \ Existing) \cup Permutations(Handlers)
=============================================================================

-------------------------- MODULE MCPluginResolver --------------------------
(***************************************************************************)
(* Every dependency graph over three names, self-dependencies, cycles and  *)
(* unregistered names included, with every assignment of two declared      *)
(* priorities (one above and one below the default 100) or none.           *)
(***************************************************************************)
EXTENDS PluginResolver

MCPluginName == {"a", "b", "c"}
MCRank == [p \in MCPluginName |-> IF p = "a" THEN 1 ELSE IF p = "b" THEN 2 ELSE 3]
MCPriorities == {5, 200}
=============================================================================

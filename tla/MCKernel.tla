------------------------------ MODULE MCKernel ------------------------------
(***************************************************************************)
(* The two loader plugins of the framework as their classes declare them,  *)
(* and application plugins that between them leave critical unset or set   *)
(* it, lack register() or load(), import services, share a name, depend on *)
(* a plugin that may be absent, and can form a cycle.                      *)
(***************************************************************************)
EXTENDS Kernel

MCPluginName == {"auto-loader-plugin", "bootstrap-loader", "jobs", "audit"}
MCRank == [n \in MCPluginName |->
             CASE n = "audit" -> 1
               [] n = "auto-loader-plugin" -> 2
               [] n = "bootstrap-loader" -> 3
               [] n = "jobs" -> 4]
MCPriorities == {5, 10}

AutoLoaderPlugin ==
  [name |-> "auto-loader-plugin", priority |-> 5, dependsOn |-> {},
   critical |-> "yes", register |-> TRUE, load |-> TRUE]
BootstrapLoaderPlugin ==
  [name |-> "bootstrap-loader", priority |-> 10, dependsOn |-> {"auto-loader-plugin"},
   critical |-> "yes", register |-> FALSE, load |-> TRUE]
Audit ==
  [name |-> "audit", priority |-> NoPriority, dependsOn |-> {},
   critical |-> "no", register |-> TRUE, load |-> TRUE]
\* Another object of the same name; with JobsAfterAudit it forms a cycle.
AuditAfterJobs ==
  [name |-> "audit", priority |-> 5, dependsOn |-> {"jobs"},
   critical |-> "unset", register |-> TRUE, load |-> FALSE]
Jobs ==
  [name |-> "jobs", priority |-> NoPriority, dependsOn |-> {},
   critical |-> "no", register |-> TRUE, load |-> TRUE]
JobsAfterAudit ==
  [name |-> "jobs", priority |-> NoPriority, dependsOn |-> {"audit"},
   critical |-> "no", register |-> TRUE, load |-> TRUE]

MCCatalog == {AutoLoaderPlugin, BootstrapLoaderPlugin, Audit, AuditAfterJobs,
              Jobs, JobsAfterAudit}
MCLegacyCatalog == {Audit, Jobs}

MCService == {"TaskSeeder", "Mailer", "Warmup"}
MCBootstrap == {"TaskSeeder", "Warmup"}
MCImported == {"Warmup"}
MCFinds == [n \in MCPluginName |->
              CASE n = "auto-loader-plugin" -> {"TaskSeeder", "Mailer"}
                [] n = "audit" -> {"Mailer"}
                [] OTHER -> {}]
=============================================================================

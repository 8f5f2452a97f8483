--------------------------- MODULE PluginResolver ---------------------------
(***************************************************************************)
(* PluginRegistry.resolve: the order in which the kernel registers and     *)
(* loads its plugins.  The code sorts the plugins topologically by         *)
(* dependsOn (Kahn's algorithm); among the plugins that are ready it takes *)
(* the one with the least (priority, name).                                *)
(*                                                                         *)
(* The list of plugins handed to resolve has no two plugins of one name    *)
(* (use and register drop the second), so a plugin is its name here.       *)
(* The sorted array `ready` of the code is a set, from which Shift takes   *)
(* the least element: (priority, name) orders distinct plugins strictly.   *)
(***************************************************************************)
EXTENDS Integers, FiniteSets, Sequences

CONSTANTS
  PluginName,   \* names of plugins, registered or only named in a dependsOn
  Rank,         \* position of a name in localeCompare's order
  Priorities,   \* the priorities plugins declare
  NoPriority    \* the priority of a plugin that declares none

ASSUME NamesAssumption ==
  /\ IsFiniteSet(PluginName)
  /\ Rank \in [PluginName -> Int]
  /\ \A p, q \in PluginName : Rank[p] = Rank[q] => p = q
  /\ Priorities \subseteq Int
  /\ NoPriority \notin Int

VARIABLES
  plugins,      \* the plugins to order
  dependsOn,    \* dependsOn[p]: the names p depends on ({} when undeclared)
  priority,     \* priority[p]: an integer or NoPriority
  resolution,   \* "idle", "sorting", "ok", "missing" or "circular"
  pending,      \* dependencyCount: dependencies of p not yet ordered
  ready,        \* plugins with no dependency left, not yet ordered
  ordered       \* the result so far

resolverVars ==
  <<plugins, dependsOn, priority, resolution, pending, ready, ordered>>

Ordered == {ordered[i] : i \in DOMAIN ordered}

DefaultPriority == 100

Weight(p) == IF priority[p] = NoPriority THEN DefaultPriority ELSE priority[p]

Precedes(p, q) ==
  \/ Weight(p) < Weight(q)
  \/ Weight(p) = Weight(q) /\ Rank[p] < Rank[q]

\* Mutant: the ready list is not sorted.
Least_AnyReady(S) == CHOOSE p \in S : TRUE

Least(S) == CHOOSE p \in S : \A q \in S \ {p} : Precedes(p, q)

Dependents(p) == {q \in plugins : p \in dependsOn[q]}

\* Mutant: a plugin is released by the first of its dependencies.
Released_ByFirst(p) == Dependents(p)

\* The plugins whose last dependency is p (nextCount === 0).
Released(p) == {q \in Dependents(p) : pending[q] = 1}
-----------------------------------------------------------------------------

(***************************************************************************)
(* A dependency that is not registered: resolve throws before it sorts.    *)
(***************************************************************************)
RejectMissing ==
  /\ resolution = "idle"
  /\ \E p \in plugins : ~ (dependsOn[p] \subseteq plugins)
  /\ resolution' = "missing"
  /\ UNCHANGED <<plugins, dependsOn, priority, pending, ready, ordered>>

\* Mutant: the missing-dependency check is dropped.
CountDependencies_Unchecked ==
  /\ resolution = "idle"
  /\ resolution' = "sorting"
  /\ pending' = [p \in PluginName |->
                   IF p \in plugins THEN Cardinality(dependsOn[p] \cap plugins) ELSE 0]
  /\ ready' = {p \in plugins : dependsOn[p] \cap plugins = {}}
  /\ ordered' = <<>>
  /\ UNCHANGED <<plugins, dependsOn, priority>>

\* Every dependency is registered: count them and collect the plugins that
\* have none.
CountDependencies ==
  /\ resolution = "idle"
  /\ \A p \in plugins : dependsOn[p] \subseteq plugins
  /\ resolution' = "sorting"
  /\ pending' = [p \in PluginName |->
                   IF p \in plugins THEN Cardinality(dependsOn[p]) ELSE 0]
  /\ ready' = {p \in plugins : dependsOn[p] = {}}
  /\ ordered' = <<>>
  /\ UNCHANGED <<plugins, dependsOn, priority>>

\* Mutant: the plugin stays in the ready list (ready[0] for ready.shift()).
Shift_Kept ==
  /\ resolution = "sorting"
  /\ ready # {}
  /\ LET current == Least(ready)
     IN /\ ordered' = Append(ordered, current)
        /\ pending' = [q \in PluginName |->
                         IF q \in Dependents(current) THEN pending[q] - 1 ELSE pending[q]]
        /\ ready' = ready \cup Released(current)
  /\ UNCHANGED <<plugins, dependsOn, priority, resolution>>

\* One iteration of `while (ready.length > 0)`.
Shift ==
  /\ resolution = "sorting"
  /\ ready # {}
  /\ LET current == Least(ready)
     IN /\ ordered' = Append(ordered, current)
        /\ pending' = [q \in PluginName |->
                         IF q \in Dependents(current) THEN pending[q] - 1 ELSE pending[q]]
        /\ ready' = (ready \ {current}) \cup Released(current)
  /\ UNCHANGED <<plugins, dependsOn, priority, resolution>>

\* Mutant: the length check is off by one.
Finish_OffByOne ==
  /\ resolution = "sorting"
  /\ ready = {}
  /\ resolution' = IF Len(ordered) + 1 >= Cardinality(plugins) THEN "ok" ELSE "circular"
  /\ UNCHANGED <<plugins, dependsOn, priority, pending, ready, ordered>>

\* After the loop: a shorter result than the input means a cycle.
Finish ==
  /\ resolution = "sorting"
  /\ ready = {}
  /\ resolution' = IF Len(ordered) = Cardinality(plugins) THEN "ok" ELSE "circular"
  /\ UNCHANGED <<plugins, dependsOn, priority, pending, ready, ordered>>

ResolveStep == RejectMissing \/ CountDependencies \/ Shift \/ Finish

(***************************************************************************)
(* The resolver on its own: any plugins with any dependencies.             *)
(***************************************************************************)
ResolverIdle ==
  /\ resolution = "idle"
  /\ pending = [p \in PluginName |-> 0]
  /\ ready = {}
  /\ ordered = <<>>

\* The local variables of a new call of resolve().
ResolverReset ==
  /\ resolution' = "idle"
  /\ pending' = [p \in PluginName |-> 0]
  /\ ready' = {}
  /\ ordered' = <<>>

Init ==
  /\ plugins \in SUBSET PluginName
  /\ dependsOn \in [PluginName -> SUBSET PluginName]
  /\ priority \in [PluginName -> Priorities \cup {NoPriority}]
  /\ ResolverIdle

Spec == Init /\ [][ResolveStep]_resolverVars
-----------------------------------------------------------------------------

(***************************************************************************)
(* Types.  A dependency count never goes below zero: each dependency is    *)
(* counted down once.                                                      *)
(***************************************************************************)
TypeOK ==
  /\ plugins \in SUBSET PluginName
  /\ dependsOn \in [PluginName -> SUBSET PluginName]
  /\ priority \in [PluginName -> Priorities \cup {NoPriority}]
  /\ resolution \in {"idle", "sorting", "ok", "missing", "circular"}
  /\ pending \in [PluginName -> Nat]
  /\ ready \in SUBSET plugins
  /\ ordered \in Seq(plugins)

(***************************************************************************)
(* resolve never places a plugin before one it depends on ("uses dependsOn *)
(* relationships before priority"), whatever the priorities are.           *)
(***************************************************************************)
DependenciesFirst ==
  \A j \in DOMAIN ordered : \A d \in dependsOn[ordered[j]] :
    \E i \in 1 .. (j - 1) : ordered[i] = d

(***************************************************************************)
(* A plugin runs before a more urgent one (lower priority, or same         *)
(* priority and lower name) only when the urgent one was waiting: one of   *)
(* its dependencies comes no earlier than the less urgent plugin.          *)
(***************************************************************************)
UrgentFirst ==
  \A i, j \in DOMAIN ordered :
    i < j /\ Precedes(ordered[j], ordered[i])
      => \E k \in i .. (j - 1) : ordered[k] \in dependsOn[ordered[j]]

(***************************************************************************)
(* resolve is right about every graph: it returns all plugins, or there is *)
(* a plugin with an unregistered dependency, or there is a set of plugins  *)
(* each of which waits for another of the set (a cycle).                   *)
(***************************************************************************)
HasCycle ==
  \E S \in SUBSET plugins : S # {} /\ \A p \in S : dependsOn[p] \cap S # {}

VerdictSound ==
  /\ resolution = "ok" => Ordered = plugins /\ ~ HasCycle
  /\ resolution = "missing" => \E p \in plugins : ~ (dependsOn[p] \subseteq plugins)
  /\ resolution = "circular" => HasCycle
=============================================================================

------------------------------- MODULE Kernel -------------------------------
(***************************************************************************)
(* The OneJs kernel: start() registers the decorated services, orders the  *)
(* plugins, awaits every plugin's register() and then every plugin's       *)
(* load().  Loading may import files, whose decorators add services; the   *)
(* bootstrap loader runs the services that extend BootstrapBase.           *)
(*                                                                         *)
(* A plugin object is a record: two objects may share a name.  Awaiting a  *)
(* plugin ends in one of two ways, its promise resolves or rejects.        *)
(* Between two awaits the program may call use() or PluginRegistry.        *)
(* register(); resolvePlugins() is synchronous, so nothing interleaves     *)
(* with the resolver's steps.                                              *)
(***************************************************************************)
EXTENDS PluginResolver

CONSTANTS
  Catalog,          \* the plugin objects the program may use()
  LegacyCatalog,    \* the ones it may register in the static registry
  BootstrapLoader,  \* the name of the plugin that runs the bootstraps
  Service,          \* the classes that carry @Injectable
  Bootstrap,        \* the ones that extend BootstrapBase
  Imported,         \* the services imported before start() is called
  Finds,            \* Finds[n]: the services in the files plugin n's load()
                    \* tries to import
  MaxStarts         \* bound: calls of start() on the instance

Plugin == [name : PluginName, priority : Priorities \cup {NoPriority},
           dependsOn : SUBSET PluginName, critical : {"yes", "no", "unset"},
           register : BOOLEAN, load : BOOLEAN]

ASSUME KernelAssumption ==
  /\ Catalog \subseteq Plugin /\ LegacyCatalog \subseteq Catalog
  /\ BootstrapLoader \in PluginName
  /\ Bootstrap \subseteq Service
  /\ Imported \subseteq Service
  /\ Finds \in [PluginName -> SUBSET Service]
  /\ MaxStarts \in Nat

VARIABLES
  failFast,         \* the option of the constructor: "on", "off" or "unset"
  instancePlugins,  \* plugins of use()
  legacyPlugins,    \* plugins of the static PluginRegistry
  active,           \* the plugins this start() runs
  phase,            \* where start() is
  next,             \* the loop index of the current pass over ordered
  starts,           \* calls of start() so far
  metadata,         \* metadataRegistry: services whose decorator has run
  container,        \* services registered in the container
  store,            \* store[b]: entries of the bootstrap store for b
  todo,             \* entries the bootstrap loader has not reached yet
  attempts,         \* history: times the loader got b and called bootstrap()
  registered,       \* history: outcome of register() per plugin name
  loaded,           \* history: outcome of load() per plugin name
  found             \* history: the services the load() of a plugin imported

programVars == <<failFast, instancePlugins, legacyPlugins, active, starts>>
serviceVars == <<metadata, container, store>>
bootVars == <<todo, attempts>>
outcomeVars == <<registered, loaded, found>>
kernelVars ==
  <<programVars, phase, next, serviceVars, bootVars, outcomeVars>>
vars == <<resolverVars, kernelVars>>

Outcome == {"none", "ok", "failed"}

Names(S) == {p.name : p \in S}

OneOfAName(S) == \A p, q \in S : p.name = q.name => p = q
-----------------------------------------------------------------------------

\* Mutant: a second plugin of the same name is kept.
Add_NoDedup(S, p) == S \cup {p}

\* use() and PluginRegistry.register(): the first plugin of a name stays.
Add(S, p) == IF p.name \in Names(S) THEN S ELSE S \cup {p}

\* resolvePlugins(): a plugin of use() hides a legacy one of its name.
Merged == instancePlugins \cup {p \in legacyPlugins : p.name \notin Names(instancePlugins)}

Object(n) == CHOOSE p \in active : p.name = n

Current == Object(ordered[next])

\* Mutant: critical is only looked at when failFast is off.
ShouldFailFast_OptionFirst(p) ==
  \/ failFast \in {"on", "unset"}
  \/ p.critical = "yes"

ShouldFailFast(p) ==
  \/ failFast = "on"
  \/ p.critical = "yes"
  \/ p.critical = "unset" /\ failFast = "unset"

\* registerServices(): container.register() keeps a first registration, the
\* bootstrap store gets one more entry every time.
RegisterServices(services) ==
  /\ container' = container \cup services
  /\ store' = [b \in Bootstrap |-> IF b \in services THEN store[b] + 1 ELSE store[b]]

(***************************************************************************)
(* GlobModuleLoader: what a load() may import.  The files are imported one *)
(* by one and one that throws is skipped with a warning, so any part of    *)
(* the services may be missing although the load() resolves.               *)
(***************************************************************************)
Imports(n) == SUBSET Finds[n]
-----------------------------------------------------------------------------

(***************************************************************************)
(* Bound: plugins are added only while a start() is still to come; later   *)
(* ones are never run.                                                     *)
(***************************************************************************)
MayAdd == phase # "resolving" /\ starts < MaxStarts

Use(p) ==
  /\ MayAdd
  /\ instancePlugins' = Add(instancePlugins, p)
  /\ UNCHANGED <<resolverVars, failFast, legacyPlugins, active, starts, phase,
                 next, serviceVars, bootVars, outcomeVars>>

RegisterLegacy(p) ==
  /\ MayAdd
  /\ legacyPlugins' = Add(legacyPlugins, p)
  /\ UNCHANGED <<resolverVars, failFast, instancePlugins, active, starts, phase,
                 next, serviceVars, bootVars, outcomeVars>>

(***************************************************************************)
(* start(), up to the call of PluginRegistry.resolve.  The legacy registry *)
(* is emptied before the plugins are resolved.  A start() that failed or   *)
(* finished may be called again.                                           *)
(***************************************************************************)
Start ==
  /\ phase \in {"idle", "ready", "failed"}
  /\ starts < MaxStarts
  /\ starts' = starts + 1
  /\ RegisterServices(metadata)
  /\ active' = Merged
  /\ legacyPlugins' = {}
  /\ plugins' = Names(Merged)
  /\ dependsOn' = [n \in PluginName |-> UNION {p.dependsOn : p \in {q \in Merged : q.name = n}}]
  /\ priority' = [n \in PluginName |->
                    IF n \in Names(Merged) THEN (CHOOSE p \in Merged : p.name = n).priority
                                           ELSE NoPriority]
  /\ ResolverReset
  /\ phase' = "resolving"
  /\ next' = 1
  /\ registered' = [n \in PluginName |-> "none"]
  /\ loaded' = [n \in PluginName |-> "none"]
  /\ found' = [n \in PluginName |-> {}]
  /\ UNCHANGED <<failFast, instancePlugins, metadata, bootVars>>

Resolve ==
  /\ phase = "resolving"
  /\ ResolveStep
  /\ UNCHANGED kernelVars

Resolved ==
  /\ phase = "resolving"
  /\ resolution = "ok"
  /\ phase' = "registering"
  /\ UNCHANGED <<resolverVars, programVars, next, serviceVars, bootVars, outcomeVars>>

ResolveThrows ==
  /\ phase = "resolving"
  /\ resolution \in {"missing", "circular"}
  /\ phase' = "failed"
  /\ UNCHANGED <<resolverVars, programVars, next, serviceVars, bootVars, outcomeVars>>
-----------------------------------------------------------------------------

\* The pass reaches the next plugin, or start() throws.
Advance ==
  /\ next' = next + 1
  /\ UNCHANGED phase

\* Mutant: a failure is logged and never stops the kernel.
Fail_NeverStops(p) == Advance

Fail(p) ==
  IF ShouldFailFast(p)
    THEN phase' = "failed" /\ UNCHANGED next
    ELSE Advance

InPass(pass) == phase = pass /\ next \in DOMAIN ordered

SkipRegister ==
  /\ InPass("registering")
  /\ ~ Current.register
  /\ Advance
  /\ UNCHANGED <<resolverVars, programVars, serviceVars, bootVars, outcomeVars>>

RegisterOk ==
  /\ InPass("registering")
  /\ Current.register
  /\ registered' = [registered EXCEPT ![ordered[next]] = "ok"]
  /\ Advance
  /\ UNCHANGED <<resolverVars, programVars, serviceVars, bootVars, loaded, found>>

RegisterFails ==
  /\ InPass("registering")
  /\ Current.register
  /\ registered' = [registered EXCEPT ![ordered[next]] = "failed"]
  /\ Fail(Current)
  /\ UNCHANGED <<resolverVars, programVars, serviceVars, bootVars, loaded, found>>

RegistrationDone ==
  /\ phase = "registering"
  /\ next > Len(ordered)
  /\ phase' = "loading"
  /\ next' = 1
  /\ UNCHANGED <<resolverVars, programVars, serviceVars, bootVars, outcomeVars>>
-----------------------------------------------------------------------------

SkipLoad ==
  /\ InPass("loading")
  /\ ~ Current.load
  /\ Advance
  /\ UNCHANGED <<resolverVars, programVars, serviceVars, bootVars, outcomeVars>>

\* Mutant: the services a load() found are not registered afterwards.
LoadOk_NoReregister ==
  /\ InPass("loading")
  /\ Current.load
  /\ ordered[next] # BootstrapLoader
  /\ \E part \in Imports(ordered[next]) :
       metadata' = metadata \cup part /\ found' = [found EXCEPT ![ordered[next]] = part]
  /\ loaded' = [loaded EXCEPT ![ordered[next]] = "ok"]
  /\ Advance
  /\ UNCHANGED <<resolverVars, programVars, container, store, bootVars, registered>>

\* load() resolves: what it imported is registered by registerServices().
LoadOk ==
  /\ InPass("loading")
  /\ Current.load
  /\ ordered[next] # BootstrapLoader
  /\ \E part \in Imports(ordered[next]) :
       metadata' = metadata \cup part /\ found' = [found EXCEPT ![ordered[next]] = part]
  /\ RegisterServices(metadata')
  /\ loaded' = [loaded EXCEPT ![ordered[next]] = "ok"]
  /\ Advance
  /\ UNCHANGED <<resolverVars, programVars, bootVars, registered>>

\* load() rejects, some of its files imported; nothing is registered.
LoadFails ==
  /\ InPass("loading")
  /\ Current.load
  /\ ordered[next] # BootstrapLoader
  /\ \E part \in Imports(ordered[next]) :
       metadata' = metadata \cup part /\ found' = [found EXCEPT ![ordered[next]] = part]
  /\ loaded' = [loaded EXCEPT ![ordered[next]] = "failed"]
  /\ Fail(Current)
  /\ UNCHANGED <<resolverVars, programVars, container, store, bootVars, registered>>

(***************************************************************************)
(* BootstrapLoader.load() awaits bootstrap() for every entry of the store. *)
(* An entry whose container.get() or bootstrap() throws is logged and the  *)
(* loop goes on, so it counts as an attempt like the others.  The order of *)
(* the entries is left open.                                               *)
(***************************************************************************)
LoadBootstraps ==
  /\ InPass("loading")
  /\ Current.load
  /\ ordered[next] = BootstrapLoader
  /\ phase' = "bootstrapping"
  /\ todo' = store
  /\ UNCHANGED <<resolverVars, programVars, next, serviceVars, attempts, outcomeVars>>

RunBootstrap(b) ==
  /\ phase = "bootstrapping"
  /\ todo[b] > 0
  /\ todo' = [todo EXCEPT ![b] = @ - 1]
  /\ attempts' = [attempts EXCEPT ![b] = @ + 1]
  /\ UNCHANGED <<resolverVars, programVars, phase, next, serviceVars, outcomeVars>>

\* Mutant: a bootstrap that throws ends the loop.
BootstrapsDone_FirstThrows ==
  /\ phase = "bootstrapping"
  /\ RegisterServices(metadata)
  /\ loaded' = [loaded EXCEPT ![BootstrapLoader] = "ok"]
  /\ phase' = "loading"
  /\ next' = next + 1
  /\ UNCHANGED <<resolverVars, programVars, metadata, bootVars, registered, found>>

BootstrapsDone ==
  /\ phase = "bootstrapping"
  /\ \A b \in Bootstrap : todo[b] = 0
  /\ RegisterServices(metadata)
  /\ loaded' = [loaded EXCEPT ![BootstrapLoader] = "ok"]
  /\ phase' = "loading"
  /\ next' = next + 1
  /\ UNCHANGED <<resolverVars, programVars, metadata, bootVars, registered, found>>

LoadingDone ==
  /\ phase = "loading"
  /\ next > Len(ordered)
  /\ phase' = "ready"
  /\ UNCHANGED <<resolverVars, programVars, next, serviceVars, bootVars, outcomeVars>>
-----------------------------------------------------------------------------

KernelInit ==
  /\ plugins = {}
  /\ dependsOn = [n \in PluginName |-> {}]
  /\ priority = [n \in PluginName |-> NoPriority]
  /\ ResolverIdle
  /\ failFast \in {"on", "off", "unset"}
  /\ instancePlugins = {} /\ legacyPlugins = {} /\ active = {}
  /\ phase = "idle" /\ next = 1 /\ starts = 0
  /\ metadata = Imported
  /\ container = {}
  /\ store = [b \in Bootstrap |-> 0]
  /\ todo = [b \in Bootstrap |-> 0]
  /\ attempts = [b \in Bootstrap |-> 0]
  /\ registered = [n \in PluginName |-> "none"]
  /\ loaded = [n \in PluginName |-> "none"]
  /\ found = [n \in PluginName |-> {}]

KernelStep ==
  \/ Resolve \/ Resolved \/ ResolveThrows
  \/ SkipRegister \/ RegisterOk \/ RegisterFails \/ RegistrationDone
  \/ SkipLoad \/ LoadOk \/ LoadFails
  \/ LoadBootstraps \/ (\E b \in Bootstrap : RunBootstrap(b)) \/ BootstrapsDone
  \/ LoadingDone

KernelNext ==
  \/ \E p \in Catalog : Use(p)
  \/ \E p \in LegacyCatalog : RegisterLegacy(p)
  \/ Start
  \/ KernelStep

KernelSpec == KernelInit /\ [][KernelNext]_vars
-----------------------------------------------------------------------------

(***************************************************************************)
(* Types.  The lists of plugins never hold two plugins of one name, which  *)
(* is what the resolver assumes of its input.                              *)
(***************************************************************************)
KernelTypeOK ==
  /\ TypeOK
  /\ failFast \in {"on", "off", "unset"}
  /\ instancePlugins \in SUBSET Catalog /\ OneOfAName(instancePlugins)
  /\ legacyPlugins \in SUBSET Catalog /\ OneOfAName(legacyPlugins)
  /\ active \in SUBSET Catalog /\ OneOfAName(active)
  /\ phase \in {"idle", "resolving", "registering", "loading", "bootstrapping",
                "ready", "failed"}
  /\ next \in 1 .. (Len(ordered) + 1)
  /\ starts \in 0 .. MaxStarts
  /\ metadata \in SUBSET Service
  /\ container \in SUBSET Service
  /\ store \in [Bootstrap -> Nat]
  /\ todo \in [Bootstrap -> Nat]
  /\ attempts \in [Bootstrap -> Nat]
  /\ registered \in [PluginName -> Outcome]
  /\ loaded \in [PluginName -> Outcome]
  /\ found \in [PluginName -> SUBSET Service]

\* A failure the docs let the kernel survive: critical false, or critical
\* not given and the failFast option false; failFast true survives nothing.
Tolerated(p) ==
  /\ failFast # "on"
  /\ p.critical = "no" \/ (p.critical = "unset" /\ failFast = "off")

(***************************************************************************)
(* start() returns the container only if every plugin of the graph went    *)
(* through its register() and load(), or failed in one and is not critical.*)
(***************************************************************************)
ReadyIsSound ==
  phase = "ready" =>
    /\ Names(active) = Ordered
    /\ \A p \in active :
         /\ p.register => registered[p.name] = "ok"
                           \/ (registered[p.name] = "failed" /\ Tolerated(p))
         /\ p.load => loaded[p.name] = "ok"
                       \/ (loaded[p.name] = "failed" /\ Tolerated(p))

(***************************************************************************)
(* The reason registerServices() runs again after each load(): whatever    *)
(* was imported can be resolved from then on, in whatever load() it was.   *)
(* A service is left out of the container only when the load() that        *)
(* imported it rejected, and no load() after that one resolved.            *)
(***************************************************************************)
LeftOutByFailure ==
  phase # "idle" =>
    \A s \in metadata \ container :
      \E i \in DOMAIN ordered :
        /\ loaded[ordered[i]] = "failed"
        /\ s \in found[ordered[i]]
        /\ \A j \in DOMAIN ordered : j > i => loaded[ordered[j]] # "ok"

(***************************************************************************)
(* Once the bootstrap loader is through, it has tried every bootstrap that *)
(* was imported by the program or by a plugin the loader depends on, the   *)
(* files that could not be imported aside,                                 *)
(* although those were unknown when start() began.                         *)
(***************************************************************************)
BootstrapsReached ==
  loaded[BootstrapLoader] = "ok" =>
    \A b \in Bootstrap :
      (\/ b \in Imported
       \/ \E d \in dependsOn[BootstrapLoader] : loaded[d] = "ok" /\ b \in found[d])
        => attempts[b] > 0

(***************************************************************************)
(* The kernel implements TwoPhaseStart.  The plugins in front of `next`    *)
(* are through; a start() that failed has failed in its second phase if    *)
(* the plugin at `next` has failed to load.                                *)
(***************************************************************************)
SecondPhase ==
  \/ phase \in {"loading", "bootstrapping", "ready"}
  \/ phase = "failed" /\ next \in DOMAIN ordered /\ loaded[ordered[next]] = "failed"

Through == {ordered[i] : i \in 1 .. (next - 1)}

StageOfPhase ==
  IF phase \in {"idle", "ready", "failed"} THEN phase ELSE "starting"

Survivable == {n \in plugins : Tolerated(Object(n))}

PassDone ==
  [ph \in {"register", "load"} |->
     IF ph = "register" THEN (IF SecondPhase THEN plugins ELSE Through)
                        ELSE (IF SecondPhase THEN Through ELSE {})]

Failures == {n \in PluginName : registered[n] = "failed" \/ loaded[n] = "failed"}

TwoPhase == INSTANCE TwoPhaseStart WITH
  Name <- PluginName, stage <- StageOfPhase, wanted <- plugins, needs <- dependsOn,
  mayFail <- Survivable, done <- PassDone, failures <- Failures

(***************************************************************************)
(* Every start() is a start in two phases: each plugin is taken once in    *)
(* each, behind those it depends on; the first failure that is not         *)
(* tolerated ends it, and it returns when all are through.                 *)
(***************************************************************************)
StartsInTwoPhases == TwoPhase!Spec

(***************************************************************************)
(* "container.register() is idempotent, so this is safe" (oneJs.ts:134):   *)
(* running registerServices() again changes nothing for services that were *)
(* registered before, so one start() tries each bootstrap at most once.    *)
(* Violated: the bootstrap store gets a second entry.                      *)
(***************************************************************************)
BootstrapOnce == \A b \in Bootstrap : attempts[b] <= starts
=============================================================================

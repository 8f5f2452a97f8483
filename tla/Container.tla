------------------------------ MODULE Container ------------------------------
(***************************************************************************)
(* The dependency injection container.  get() resolves a class: the        *)
(* parameters of its constructor first, each of them a registered          *)
(* instance, a class, an alias of a class or a fallback, and so on down.   *)
(* The recursion of the code is a stack of frames here.  A call is         *)
(* synchronous: registrations come between calls.  An exception leaves all *)
(* the frames, whose finally blocks run on the way.                        *)
(***************************************************************************)
EXTENDS Integers, Sequences, FiniteSets

CONSTANTS
  Class,      \* classes that may be registered
  Token,      \* other keys: abstract classes, strings, symbols
  Scopes,     \* the scope functions @Injectable may have given the classes
  ParamLists, \* the functions that give each class its parameters
  Aliasing,   \* the pairs <<k, c>> the program may register as aliases
  Instanced,  \* the keys it may register an instance for
  NoClass     \* no class

Key == Class \cup Token
Param == [type : Key, optional : BOOLEAN]

ASSUME ContainerAssumption ==
  /\ Class \cap Token = {}
  /\ NoClass \notin Class
  /\ Scopes \subseteq [Class -> {"singleton", "transient"}]
  /\ \A lists \in ParamLists : lists \in [Class -> Seq(Param)]
  /\ Aliasing \subseteq Key \X Class
  /\ Instanced \subseteq Key

VARIABLES
  scope,            \* scope[c] and params[c]: the metadata of c
  params,
  services,         \* classes that are registered
  aliases,          \* aliases[k]: the class behind k, or NoClass
  instances,        \* singletons that exist
  tokenInstances,   \* keys with a registered instance
  resolutionStack,  \* classes under resolution
  stack,            \* the calls of resolve() in progress, outermost first
  outcome,          \* "running" during a get(), then how it ended, else "none"
  target,           \* history: the class of the last get()
  warm,             \* history: singletons that existed when it began
  built             \* history: how often the singleton c was constructed

metadataVars == <<scope, params>>
registrationVars == <<services, aliases, tokenInstances>>
vars == <<metadataVars, registrationVars, instances, resolutionStack, stack,
          outcome, target, warm, built>>

Idle == outcome # "running"

Top == stack[Len(stack)]

\* The parameter a frame resolves next.
Awaited(f) == params[f.class][f.args + 1]
-----------------------------------------------------------------------------

\* register() and registerClass(): the first registration of a class stays.
Register(c) ==
  /\ Idle
  /\ services' = services \cup {c}
  /\ outcome' = "none"
  /\ UNCHANGED <<metadataVars, aliases, tokenInstances, instances, resolutionStack,
                 stack, target, warm, built>>

RegisterAlias(k, c) ==
  /\ Idle
  /\ aliases' = [aliases EXCEPT ![k] = c]
  /\ outcome' = "none"
  /\ UNCHANGED <<metadataVars, services, tokenInstances, instances, resolutionStack,
                 stack, target, warm, built>>

RegisterInstance(k) ==
  /\ Idle
  /\ tokenInstances' = tokenInstances \cup {k}
  /\ outcome' = "none"
  /\ UNCHANGED <<metadataVars, services, aliases, instances, resolutionStack,
                 stack, target, warm, built>>

Clear ==
  /\ Idle
  /\ services' = {}
  /\ aliases' = [k \in Key |-> NoClass]
  /\ tokenInstances' = {}
  /\ instances' = {}
  /\ resolutionStack' = {}
  /\ outcome' = "none"
  /\ warm' = {}
  /\ built' = [c \in Class |-> 0]
  /\ UNCHANGED <<metadataVars, stack, target>>
-----------------------------------------------------------------------------

\* resolveToken(): a registered class stands for itself, its alias is not
\* looked at.
ResolveToken(k) == IF k \in services THEN k ELSE aliases[k]

\* Mutant: the finally block is missing.
Throw_NoFinally(error) ==
  /\ outcome' = error
  /\ stack' = <<>>
  /\ UNCHANGED <<resolutionStack, instances, built>>

\* An exception leaves every frame.
Throw(error) ==
  /\ outcome' = error
  /\ stack' = <<>>
  /\ resolutionStack' = resolutionStack \ {stack[i].class : i \in DOMAIN stack}
  /\ UNCHANGED <<instances, built>>

\* The frame at the top of `frames` has its next argument; without frames
\* the call of get() returns.
Supply(frames) ==
  IF frames = <<>>
    THEN stack' = <<>> /\ outcome' = "ok"
    ELSE /\ stack' = [frames EXCEPT ![Len(frames)].args = @ + 1]
         /\ UNCHANGED outcome

\* Mutant: the instances are not looked up.
Resolve_NoCache(c) ==
  IF c \in resolutionStack THEN Throw("cyclic")
  ELSE IF c \notin services THEN Throw("missing")
  ELSE /\ stack' = Append(stack, [class |-> c, args |-> 0])
       /\ resolutionStack' = resolutionStack \cup {c}
       /\ UNCHANGED <<outcome, instances, built>>

\* resolve(c), called for the frame on top or, without frames, by get().
Resolve(c) ==
  IF c \in resolutionStack THEN Throw("cyclic")
  ELSE IF c \notin services THEN Throw("missing")
  ELSE IF scope[c] = "singleton" /\ c \in instances
    THEN Supply(stack) /\ UNCHANGED <<resolutionStack, instances, built>>
  ELSE /\ stack' = Append(stack, [class |-> c, args |-> 0])
       /\ resolutionStack' = resolutionStack \cup {c}
       /\ UNCHANGED <<outcome, instances, built>>

\* get(c); it looks neither at the aliases nor at the registered instances.
Get(c) ==
  /\ Idle
  /\ outcome' = "running"
  /\ target' = c
  /\ warm' = instances
  /\ UNCHANGED <<metadataVars, registrationVars, instances, resolutionStack, stack, built>>

Enter ==
  /\ ~ Idle
  /\ stack = <<>>
  /\ Resolve(target)
  /\ UNCHANGED <<metadataVars, registrationVars, target, warm>>
-----------------------------------------------------------------------------

\* resolveParam(), for the next parameter of the top frame: what becomes of
\* a parameter of type k.
Supplied(k) == k \in tokenInstances

HasClass(k) == ~ Supplied(k) /\ ResolveToken(k) # NoClass

AtParam == stack # <<>> /\ Top.args < Len(params[Top.class])

ParamFromInstance ==
  /\ AtParam
  /\ Supplied(Awaited(Top).type)
  /\ Supply(stack)
  /\ UNCHANGED <<metadataVars, registrationVars, instances, resolutionStack, target,
                 warm, built>>

ParamFromClass ==
  /\ AtParam
  /\ HasClass(Awaited(Top).type)
  /\ Resolve(ResolveToken(Awaited(Top).type))
  /\ UNCHANGED <<metadataVars, registrationVars, target, warm>>

\* An optional parameter without a class gets its fallback.
ParamFallback ==
  /\ AtParam
  /\ Awaited(Top).optional
  /\ ~ Supplied(Awaited(Top).type) /\ ~ HasClass(Awaited(Top).type)
  /\ Supply(stack)
  /\ UNCHANGED <<metadataVars, registrationVars, instances, resolutionStack, target,
                 warm, built>>

\* The fallback is a function and throws.
FallbackThrows ==
  /\ AtParam
  /\ Awaited(Top).optional
  /\ ~ Supplied(Awaited(Top).type) /\ ~ HasClass(Awaited(Top).type)
  /\ Throw("fallback")
  /\ UNCHANGED <<metadataVars, registrationVars, target, warm>>

\* Mutant: a parameter that cannot be resolved is undefined.
ParamMissing_Undefined ==
  /\ AtParam
  /\ ~ Awaited(Top).optional
  /\ ~ Supplied(Awaited(Top).type) /\ ~ HasClass(Awaited(Top).type)
  /\ Supply(stack)
  /\ UNCHANGED <<metadataVars, registrationVars, instances, resolutionStack, target,
                 warm, built>>

ParamMissing ==
  /\ AtParam
  /\ ~ Awaited(Top).optional
  /\ ~ Supplied(Awaited(Top).type) /\ ~ HasClass(Awaited(Top).type)
  /\ Throw("missing")
  /\ UNCHANGED <<metadataVars, registrationVars, target, warm>>

AtConstructor == stack # <<>> /\ Top.args = Len(params[Top.class])

\* new serviceCtor(...); a singleton is kept.
Construct ==
  /\ AtConstructor
  /\ IF scope[Top.class] = "singleton"
       THEN /\ instances' = instances \cup {Top.class}
            /\ built' = [built EXCEPT ![Top.class] = @ + 1]
       ELSE UNCHANGED <<instances, built>>
  /\ resolutionStack' = resolutionStack \ {Top.class}
  /\ Supply(SubSeq(stack, 1, Len(stack) - 1))
  /\ UNCHANGED <<metadataVars, registrationVars, target, warm>>

ConstructorThrows ==
  /\ AtConstructor
  /\ Throw("constructor")
  /\ UNCHANGED <<metadataVars, registrationVars, target, warm>>
-----------------------------------------------------------------------------

Init ==
  /\ scope \in Scopes
  /\ params \in ParamLists
  /\ services = {}
  /\ aliases = [k \in Key |-> NoClass]
  /\ tokenInstances = {}
  /\ instances = {}
  /\ resolutionStack = {}
  /\ stack = <<>>
  /\ outcome = "none"
  /\ target = NoClass
  /\ warm = {}
  /\ built = [c \in Class |-> 0]

GetStep ==
  \/ Enter
  \/ ParamFromInstance \/ ParamFromClass \/ ParamFallback \/ FallbackThrows
  \/ ParamMissing \/ Construct \/ ConstructorThrows

Next ==
  \/ \E c \in Class : Register(c)
  \/ \E a \in Aliasing : RegisterAlias(a[1], a[2])
  \/ \E k \in Instanced : RegisterInstance(k)
  \/ Clear
  \/ \E c \in Class : Get(c)
  \/ GetStep

Spec == Init /\ [][Next]_vars
-----------------------------------------------------------------------------

(***************************************************************************)
(* Types.  The resolution stack holds the classes of the calls in progress *)
(* and nothing once get() has returned or thrown: a failed get() does not  *)
(* make a later one report a cycle.                                        *)
(***************************************************************************)
TypeOK ==
  /\ scope \in Scopes /\ params \in ParamLists
  /\ services \in SUBSET Class
  /\ aliases \in [Key -> Class \cup {NoClass}]
  /\ instances \in SUBSET services
  /\ tokenInstances \in SUBSET Key
  /\ stack \in Seq([class : services, args : Nat])
  /\ \A i \in DOMAIN stack : stack[i].args <= Len(params[stack[i].class])
  /\ resolutionStack = {stack[i].class : i \in DOMAIN stack}
  /\ outcome \in {"none", "running", "ok", "cyclic", "missing", "constructor",
                 "fallback"}
  /\ stack # <<>> => outcome = "running"
  /\ target \in Class \cup {NoClass}
  /\ warm \in SUBSET Class
  /\ built \in [Class -> Nat]

(***************************************************************************)
(* A singleton is constructed once, also when several constructors of one  *)
(* get() ask for it and when an earlier get() failed half way: what was    *)
(* constructed then is kept and used.                                      *)
(***************************************************************************)
SingletonOnce ==
  \A c \in Class : built[c] = IF c \in instances THEN 1 ELSE 0

\* What get(target) has to construct, given the singletons that existed.
Constructed(c) == c \in services /\ ~ (scope[c] = "singleton" /\ c \in warm)

Types(c) == {params[c][i].type : i \in DOMAIN params[c]}

Dependencies(c) == {ResolveToken(k) : k \in {j \in Types(c) : HasClass(j)}}

Lacks(c) ==
  \E i \in DOMAIN params[c] :
    ~ params[c][i].optional /\ ~ Supplied(params[c][i].type) /\ ~ HasClass(params[c][i].type)

\* The classes target needs: the least set with target that is closed under
\* the dependencies of what is constructed.
Needed ==
  {c \in Class : \A S \in SUBSET Class :
     target \in S /\ (\A d \in S : Constructed(d) => Dependencies(d) \subseteq S) => c \in S}

Cycle ==
  \E S \in SUBSET {c \in Needed : Constructed(c)} :
    S # {} /\ \A c \in S : Dependencies(c) \cap S # {}

Missing ==
  \E c \in Needed : c \notin services \/ (Constructed(c) /\ Lacks(c))

(***************************************************************************)
(* get() is right about every graph of dependencies: it constructs the     *)
(* class exactly if there is nothing missing and no cycle in what the      *)
(* class needs (if no constructor or fallback throws), and blames what is  *)
(* there.                                                                  *)
(***************************************************************************)
VerdictSound ==
  /\ outcome = "ok" => target \in services /\ ~ Missing /\ ~ Cycle
  /\ outcome = "missing" => Missing
  /\ outcome = "cyclic" => Cycle
=============================================================================

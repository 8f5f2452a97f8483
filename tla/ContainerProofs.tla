--------------------------- MODULE ContainerProofs ---------------------------
(***************************************************************************)
(* The container is right about every graph of dependencies: types and     *)
(* stack, singletons, and the verdict of get().  The frames of a call are  *)
(* a path from the class that was asked for; what has been constructed     *)
(* belongs to sets of classes that need nothing outside of them and in     *)
(* which nothing is missing and nothing depends on itself.                 *)
(***************************************************************************)
EXTENDS Container, SequenceTheorems, TLAPS

\* What the program has registered and what get() was asked for.
Setting == <<metadataVars, registrationVars, target, warm>>

\* No class of T depends on nothing but what lies outside T.
Circular(T) == T # {} /\ \A c \in T : Dependencies(c) \cap T # {}

\* A set of classes with all they need, in an order of construction.
Sound(S) ==
  /\ S \subseteq services
  /\ \A c \in S : Constructed(c) => Dependencies(c) \subseteq S /\ ~ Lacks(c)
  /\ \A T \in SUBSET S : (\A c \in T : Constructed(c)) => ~ Circular(T)

Sufficient == {c \in Class : \E S \in SUBSET Class : c \in S /\ Sound(S)}

\* An argument for the parameter p can be made, the parameters of a frame up
\* to the one it resolves.
AtHand(p) ==
  IF HasClass(p.type) THEN ResolveToken(p.type) \in Sufficient
                      ELSE Supplied(p.type) \/ p.optional

ArgsAtHand ==
  \A i \in DOMAIN stack : \A j \in 1 .. stack[i].args :
    AtHand(params[stack[i].class][j])

\* A frame waits for the class of the frame above it.
Leads(f, c) ==
  /\ f.args < Len(params[f.class])
  /\ HasClass(Awaited(f).type)
  /\ c = ResolveToken(Awaited(f).type)

StackIsPath ==
  /\ stack # <<>> => stack[1].class = target
  /\ \A i \in 1 .. Len(stack) - 1 : Leads(stack[i], stack[i + 1].class)

StackIsNeeded ==
  \A i \in DOMAIN stack : stack[i].class \in Needed /\ Constructed(stack[i].class)

NoneTwice ==
  \A i, j \in DOMAIN stack : stack[i].class = stack[j].class => i = j

InstancesAreSingletons == \A c \in instances : scope[c] = "singleton"

NotYetBuilt == \A i \in DOMAIN stack : stack[i].class \notin instances

CallInProgress ==
  ~ Idle => target \in Class /\ warm \subseteq instances /\ instances \subseteq Sufficient

IInv ==
  /\ TypeOK
  /\ SingletonOnce
  /\ ArgsAtHand
  /\ StackIsPath
  /\ StackIsNeeded
  /\ NoneTwice
  /\ InstancesAreSingletons
  /\ NotYetBuilt
  /\ CallInProgress
  /\ VerdictSound
-----------------------------------------------------------------------------

LEMMA ResolvedIsClass ==
  ASSUME TypeOK, NEW k \in Key, HasClass(k)
  PROVE  ResolveToken(k) \in Class
BY ContainerAssumption DEF TypeOK, HasClass, ResolveToken, Key

LEMMA ParamsTyped ==
  ASSUME TypeOK, NEW c \in Class
  PROVE  /\ params[c] \in Seq(Param)
         /\ Len(params[c]) \in Nat
         /\ DOMAIN params[c] = 1 .. Len(params[c])
         /\ \A i \in 1 .. Len(params[c]) :
              params[c][i].type \in Key /\ params[c][i].optional \in BOOLEAN
<1>1. params[c] \in Seq(Param)
  BY ContainerAssumption DEF TypeOK
<1>2. \A i \in 1 .. Len(params[c]) : params[c][i] \in Param
  BY <1>1
<1> QED BY <1>1, <1>2 DEF Param

LEMMA DependenciesTyped ==
  ASSUME TypeOK, NEW c \in Class
  PROVE  /\ Dependencies(c) \subseteq Class
         /\ \A i \in 1 .. Len(params[c]) :
              HasClass(params[c][i].type) => ResolveToken(params[c][i].type) \in Dependencies(c)
<1>1. Types(c) \subseteq Key
  BY ParamsTyped DEF Types
<1>2. \A i \in 1 .. Len(params[c]) : params[c][i].type \in Types(c)
  BY ParamsTyped DEF Types
<1> QED BY <1>1, <1>2, ResolvedIsClass DEF Dependencies

\* Every class of Sufficient has a set that is Sound, and the union of such
\* sets is Sound: a circle in it would lie in each set it meets.
LEMMA SufficientIsSound ==
  ASSUME TypeOK
  PROVE  Sound(Sufficient)
<1>1. Sufficient \subseteq services
  BY DEF Sufficient, Sound
<1>2. ASSUME NEW c \in Sufficient, Constructed(c)
      PROVE  Dependencies(c) \subseteq Sufficient /\ ~ Lacks(c)
  <2>1. PICK S \in SUBSET Class : c \in S /\ Sound(S)
    BY DEF Sufficient
  <2>2. Dependencies(c) \subseteq S /\ ~ Lacks(c)
    BY <1>2, <2>1 DEF Sound
  <2>3. S \subseteq Sufficient
    BY <2>1 DEF Sufficient
  <2> QED BY <2>2, <2>3
<1>3. ASSUME NEW T \in SUBSET Sufficient, \A c \in T : Constructed(c), Circular(T)
      PROVE  FALSE
  <2>1. PICK c \in T : TRUE
    BY <1>3 DEF Circular
  <2>2. PICK S \in SUBSET Class : c \in S /\ Sound(S)
    BY DEF Sufficient
  <2>3. \A d \in T \cap S : Dependencies(d) \cap (T \cap S) # {}
    <3> SUFFICES ASSUME NEW d \in T \cap S PROVE Dependencies(d) \cap (T \cap S) # {}
      OBVIOUS
    <3>1. Dependencies(d) \subseteq S
      BY <1>3, <2>2 DEF Sound
    <3>2. Dependencies(d) \cap T # {}
      BY <1>3 DEF Circular
    <3> QED BY <3>1, <3>2
  <2>4. Circular(T \cap S)
    BY <2>1, <2>2, <2>3 DEF Circular
  <2>5. T \cap S \in SUBSET S /\ \A d \in T \cap S : Constructed(d)
    BY <1>3
  <2> QED BY <2>2, <2>4, <2>5 DEF Sound
<1> QED BY <1>1, <1>2, <1>3 DEF Sound

\* A registered class is Sufficient once all it depends on is.
LEMMA SufficientGrows ==
  ASSUME TypeOK, NEW c \in services,
         Constructed(c) => Dependencies(c) \subseteq Sufficient /\ ~ Lacks(c)
  PROVE  c \in Sufficient
<1> DEFINE S == Sufficient \cup {c}
<1> SUFFICES ASSUME c \notin Sufficient PROVE FALSE
  OBVIOUS
<1>1. Sound(Sufficient)
  BY SufficientIsSound
<1>2. c \in Class /\ S \in SUBSET Class /\ S \subseteq services
  BY <1>1 DEF TypeOK, Sufficient, Sound
<1>3. \A d \in S : Constructed(d) => Dependencies(d) \subseteq Sufficient /\ ~ Lacks(d)
  BY <1>1 DEF Sound
<1>4. ASSUME NEW T \in SUBSET S, \A d \in T : Constructed(d), Circular(T)
      PROVE  FALSE
  <2> DEFINE R == T \ {c}
  <2>1. \A d \in T : Dependencies(d) \cap R # {}
    <3> SUFFICES ASSUME NEW d \in T PROVE Dependencies(d) \cap R # {}
      OBVIOUS
    <3>1. Dependencies(d) \cap T # {}
      BY <1>4 DEF Circular
    <3>2. Dependencies(d) \subseteq Sufficient
      BY <1>3, <1>4
    <3> QED BY <3>1, <3>2
  <2>2. T # {}
    BY <1>4 DEF Circular
  <2>3. R # {} /\ \A d \in R : Dependencies(d) \cap R # {}
    BY <2>1, <2>2
  <2>4. Circular(R)
    BY <2>3 DEF Circular
  <2>5. R \in SUBSET Sufficient /\ \A d \in R : Constructed(d)
    BY <1>4
  <2> HIDE DEF R
  <2> QED BY <1>1, <2>4, <2>5 DEF Sound
<1>5. Sound(S)
  <2> HIDE DEF S
  <2>1. \A d \in S : Constructed(d) => Dependencies(d) \subseteq S /\ ~ Lacks(d)
    BY <1>3 DEF S
  <2> QED BY <1>2, <1>4, <2>1 DEF Sound
<1>6. c \in S
  OBVIOUS
<1> QED BY <1>2, <1>5, <1>6 DEF Sufficient

\* The needed classes: the target, and what a needed one depends on.
LEMMA NeededIsClosed ==
  ASSUME TypeOK, target \in Class
  PROVE  /\ target \in Needed
         /\ \A c \in Needed : Constructed(c) => Dependencies(c) \subseteq Needed
<1>1. target \in Needed
  BY DEF Needed
<1>2. ASSUME NEW c \in Needed, Constructed(c), NEW d \in Dependencies(c)
      PROVE  d \in Needed
  <2>1. c \in Class /\ d \in Class
    BY <1>2, DependenciesTyped DEF Needed
  <2>2. ASSUME NEW S \in SUBSET Class, target \in S,
               \A e \in S : Constructed(e) => Dependencies(e) \subseteq S
        PROVE  d \in S
    <3>1. c \in S
      BY <2>2 DEF Needed
    <3> QED BY <1>2, <2>2, <3>1
  <2> QED BY <2>1, <2>2 DEF Needed
<1> QED BY <1>1, <1>2

LEMMA SufficientTarget ==
  ASSUME TypeOK, target \in Sufficient
  PROVE  target \in services /\ ~ Missing /\ ~ Cycle
<1>1. Sound(Sufficient) /\ Sufficient \in SUBSET Class
  BY SufficientIsSound DEF Sufficient
<1>2. Needed \subseteq Sufficient
  BY <1>1 DEF Needed, Sound
<1>3. ~ Missing
  BY <1>1, <1>2 DEF Missing, Sound
<1>4. ASSUME NEW T \in SUBSET {c \in Needed : Constructed(c)},
             T # {}, \A c \in T : Dependencies(c) \cap T # {}
      PROVE  FALSE
  BY <1>1, <1>2, <1>4 DEF Sound, Circular
<1> QED BY <1>1, <1>3, <1>4 DEF Cycle, Sound

\* During a call nothing that decides about it changes.
LEMMA SettingDecides ==
  ASSUME UNCHANGED Setting
  PROVE  /\ \A c : Constructed(c)' <=> Constructed(c)
         /\ \A c : Dependencies(c)' = Dependencies(c)
         /\ \A c : Lacks(c)' <=> Lacks(c)
         /\ \A k : ResolveToken(k)' = ResolveToken(k)
         /\ \A k : HasClass(k)' <=> HasClass(k)
         /\ Needed' = Needed
         /\ Missing' <=> Missing
         /\ Cycle' <=> Cycle
         /\ Sufficient' = Sufficient
         /\ \A p : AtHand(p)' <=> AtHand(p)
<1> USE DEF Setting, metadataVars, registrationVars
<1>1. \A c : Constructed(c)' <=> Constructed(c)
  BY DEF Constructed
<1>2. \A k : ResolveToken(k)' = ResolveToken(k)
  BY DEF ResolveToken
<1>3. \A k : (HasClass(k)' <=> HasClass(k)) /\ (Supplied(k)' <=> Supplied(k))
  BY <1>2 DEF HasClass, Supplied
<1>4. \A c : Dependencies(c)' = Dependencies(c)
  BY <1>2, <1>3 DEF Dependencies, Types
<1>5. \A c : Lacks(c)' <=> Lacks(c)
  BY <1>3 DEF Lacks
<1>6. Needed' = Needed
  BY <1>1, <1>4 DEF Needed
<1>7. Missing' <=> Missing
  BY <1>1, <1>5, <1>6 DEF Missing
<1>8. Cycle' <=> Cycle
  BY <1>1, <1>4, <1>6 DEF Cycle
<1>9. \A T : Circular(T)' <=> Circular(T)
  BY <1>4 DEF Circular
<1>10. \A S : Sound(S)' <=> Sound(S)
  BY <1>1, <1>4, <1>5, <1>9 DEF Sound
<1>11. Sufficient' = Sufficient
  BY <1>10 DEF Sufficient
<1>12. \A p : AtHand(p)' <=> AtHand(p)
  BY <1>2, <1>3, <1>11 DEF AtHand
<1> QED BY <1>1, <1>2, <1>3, <1>4, <1>5, <1>6, <1>7, <1>8, <1>11, <1>12
-----------------------------------------------------------------------------

LEMMA InitIsGood == Init => IInv
<1> SUFFICES ASSUME Init PROVE IInv
  OBVIOUS
<1>1. TypeOK
  BY ContainerAssumption DEF Init, TypeOK, Key
<1>2. DOMAIN stack = {} /\ Len(stack) = 0
  BY DEF Init
<1>3. SingletonOnce /\ InstancesAreSingletons /\ Idle /\ VerdictSound
  BY DEF Init, SingletonOnce, InstancesAreSingletons, Idle, VerdictSound
<1> QED BY <1>1, <1>2, <1>3 DEF IInv, ArgsAtHand, StackIsPath, StackIsNeeded, NoneTwice,
        NotYetBuilt, CallInProgress, Init

\* Without a frame there is nothing to say about frames.
LEMMA NoFrames ==
  ASSUME stack = <<>>
  PROVE  ArgsAtHand /\ StackIsPath /\ StackIsNeeded /\ NoneTwice /\ NotYetBuilt
BY DEF ArgsAtHand, StackIsPath, StackIsNeeded, NoneTwice, NotYetBuilt

LEMMA NoFramesNext ==
  ASSUME stack' = <<>>
  PROVE  (ArgsAtHand /\ StackIsPath /\ StackIsNeeded /\ NoneTwice /\ NotYetBuilt)'
BY DEF ArgsAtHand, StackIsPath, StackIsNeeded, NoneTwice, NotYetBuilt

\* What the program does between two calls of get(), whose verdict is then
\* no longer looked at.
Between ==
  \/ \E c \in Class : Register(c)
  \/ \E a \in Aliasing : RegisterAlias(a[1], a[2])
  \/ \E k \in Instanced : RegisterInstance(k)
  \/ Clear

LEMMA BetweenIsGood == ASSUME IInv, Between PROVE IInv'
<1> USE DEF metadataVars
<1>1. stack = <<>> /\ stack' = <<>> /\ outcome' = "none"
  BY DEF IInv, TypeOK, Between, Idle, Register, RegisterAlias, RegisterInstance, Clear
<1>2. TypeOK'
  <2>1. CASE \E c \in Class : Register(c)
    BY <1>1, <2>1 DEF IInv, TypeOK, Register
  <2>2. CASE \E a \in Aliasing : RegisterAlias(a[1], a[2])
    <3>1. PICK a \in Aliasing : RegisterAlias(a[1], a[2])
      BY <2>2
    <3>2. a[1] \in Key /\ a[2] \in Class
      BY ContainerAssumption
    <3> QED BY <1>1, <3>1, <3>2 DEF IInv, TypeOK, RegisterAlias
  <2>3. CASE \E k \in Instanced : RegisterInstance(k)
    BY <1>1, <2>3, ContainerAssumption DEF IInv, TypeOK, RegisterInstance
  <2>4. CASE Clear
    BY <1>1, <2>4 DEF IInv, TypeOK, Clear
  <2> QED BY <2>1, <2>2, <2>3, <2>4 DEF Between
<1>3. SingletonOnce' /\ InstancesAreSingletons'
  BY DEF IInv, SingletonOnce, InstancesAreSingletons, Between, Register, RegisterAlias,
         RegisterInstance, Clear
<1>4. CallInProgress' /\ VerdictSound'
  BY <1>1 DEF CallInProgress, Idle, VerdictSound
<1> QED BY <1>1, <1>2, <1>3, <1>4, NoFramesNext DEF IInv

\* When get() is called, the singletons that exist need nothing.
LEMMA GetIsGood == ASSUME IInv, NEW c \in Class, Get(c) PROVE IInv'
<1>1. stack = <<>> /\ stack' = <<>>
  BY DEF IInv, TypeOK, Get, Idle
<1>2. TypeOK'
  BY <1>1 DEF IInv, TypeOK, Get, metadataVars, registrationVars
<1>3. SingletonOnce' /\ InstancesAreSingletons' /\ VerdictSound'
  BY DEF IInv, SingletonOnce, InstancesAreSingletons, VerdictSound, Get, metadataVars
<1>4. \A d \in instances' : ~ Constructed(d)'
  BY <1>3 DEF Constructed, InstancesAreSingletons, Get
<1>5. Sound(instances)' /\ (instances \in SUBSET Class)'
  BY <1>2, <1>4 DEF Sound, Circular, TypeOK
<1>6. (instances \subseteq Sufficient)'
  BY <1>5 DEF Sufficient
<1>7. CallInProgress'
  BY <1>6 DEF CallInProgress, Get
<1> QED BY <1>1, <1>2, <1>3, <1>7, NoFramesNext DEF IInv
-----------------------------------------------------------------------------

\* An exception leaves no frame; its verdict has to be right.
LEMMA ThrowIsGood ==
  ASSUME IInv, ~ Idle, UNCHANGED Setting, NEW error, Throw(error),
         error \in {"cyclic", "missing", "constructor", "fallback"},
         error = "missing" => Missing, error = "cyclic" => Cycle
  PROVE  IInv'
<1> USE DEF Throw
<1>1. stack' = <<>> /\ resolutionStack' = {}
  BY DEF IInv, TypeOK
<1>2. TypeOK'
  BY <1>1 DEF IInv, TypeOK, Setting, metadataVars, registrationVars
<1>3. SingletonOnce' /\ InstancesAreSingletons'
  BY DEF IInv, SingletonOnce, InstancesAreSingletons, Setting, metadataVars
<1>4. CallInProgress'
  BY DEF CallInProgress, Idle
<1>5. VerdictSound'
  BY SettingDecides DEF VerdictSound
<1> QED BY <1>1, <1>2, <1>3, <1>4, <1>5, NoFramesNext DEF IInv

\* get() returns: the class it was asked for is there.
LEMMA ReturnIsGood ==
  ASSUME TypeOK, UNCHANGED Setting, stack' = <<>>, outcome' = "ok", target \in Sufficient,
         TypeOK', SingletonOnce', InstancesAreSingletons'
  PROVE  IInv'
<1>1. target' \in services' /\ ~ Missing' /\ ~ Cycle'
  BY SettingDecides, SufficientTarget DEF Setting, registrationVars
<1>2. VerdictSound' /\ CallInProgress'
  BY <1>1 DEF VerdictSound, CallInProgress, Idle
<1> QED BY <1>2, NoFramesNext DEF IInv

LEMMA SequenceBasics ==
  ASSUME NEW F, NEW frames \in Seq(F)
  PROVE  /\ Len(frames) \in Nat /\ DOMAIN frames = 1 .. Len(frames)
         /\ \A i \in 1 .. Len(frames) : frames[i] \in F
         /\ frames # <<>> => Len(frames) # 0
<1>1. Len(frames) \in Nat /\ DOMAIN frames = 1 .. Len(frames)
  OBVIOUS
<1>2. \A i \in 1 .. Len(frames) : frames[i] \in F
  OBVIOUS
<1>3. Len(frames) = 0 => frames = <<>>
  BY EmptySeq
<1> QED BY <1>1, <1>2, <1>3

\* What Supply does to frames: the last one has an argument more.
LEMMA NextArgument ==
  ASSUME NEW S, NEW frames \in Seq([class : S, args : Nat]), frames # <<>>,
         NEW next, next = [frames EXCEPT ![Len(frames)].args = @ + 1]
  PROVE  LET n == Len(frames) IN
         /\ n \in Nat \ {0} /\ DOMAIN frames = 1 .. n
         /\ next \in Seq([class : S, args : Nat]) /\ Len(next) = n /\ DOMAIN next = 1 .. n
         /\ \A i \in 1 .. n : next[i].class = frames[i].class
         /\ \A i \in 1 .. n - 1 : next[i] = frames[i]
         /\ next[n].args = frames[n].args + 1
<1> DEFINE n == Len(frames)
           F == [class : S, args : Nat]
<1>1. n \in Nat \ {0} /\ DOMAIN frames = 1 .. n /\ \A i \in 1 .. n : frames[i] \in F
  BY SequenceBasics
<1>2. frames[n].args \in Nat /\ n \in 1 .. n
  BY <1>1
<1>3. next = [frames EXCEPT ![n] = [frames[n] EXCEPT !.args = frames[n].args + 1]]
  OBVIOUS
<1>4. [frames[n] EXCEPT !.args = frames[n].args + 1] \in F
  BY <1>1, <1>2
<1>5. next \in Seq(F) /\ Len(next) = n
  BY <1>2, <1>3, <1>4, ExceptSeq
<1>6. DOMAIN next = 1 .. n
  BY <1>5
<1>7. \A i \in 1 .. n - 1 : next[i] = frames[i]
  BY <1>1, <1>3
<1>8. next[n].args = frames[n].args + 1 /\ next[n].class = frames[n].class
  BY <1>1, <1>2, <1>3
<1>9. \A i \in 1 .. n : i \in 1 .. n - 1 \/ i = n
  BY <1>1
<1> HIDE DEF n
<1> QED BY <1>1, <1>5, <1>6, <1>7, <1>8, <1>9 DEF n

\* The frame on top has its next argument.
LEMMA SupplyIsGood ==
  ASSUME IInv, UNCHANGED Setting, AtParam, Supply(stack),
         UNCHANGED <<resolutionStack, instances, built>>,
         AtHand(Awaited(Top))
  PROVE  IInv'
<1> DEFINE n == Len(stack)
<1>1. /\ n \in Nat \ {0} /\ DOMAIN stack = 1 .. n
      /\ stack \in Seq([class : services, args : Nat])
      /\ \A i \in 1 .. n : stack[i] \in [class : services, args : Nat]
  BY SequenceBasics DEF IInv, TypeOK, AtParam
<1>2. stack' = [stack EXCEPT ![n].args = @ + 1] /\ outcome' = outcome
  BY DEF Supply, AtParam
<1>3. /\ Len(stack') = n /\ DOMAIN stack' = 1 .. n
      /\ \A i \in 1 .. n : stack'[i].class = stack[i].class
      /\ \A i \in 1 .. n - 1 : stack'[i] = stack[i]
      /\ stack'[n].args = stack[n].args + 1
      /\ stack' \in Seq([class : services, args : Nat])
  BY <1>1, <1>2, NextArgument DEF AtParam
<1>4. \A i \in 1 .. n : stack[i].class \in Class /\ stack[i].args \in Nat
  BY <1>1 DEF IInv, TypeOK
<1>5. ~ Idle
  BY DEF AtParam, IInv, TypeOK, Idle
<1> HIDE DEF n
<1>6. TypeOK'
  <2>1. params' = params /\ services' = services
    BY DEF Setting, metadataVars, registrationVars
  <2>2. \A i \in DOMAIN stack' : stack'[i].args <= Len(params'[stack'[i].class])
    <3> SUFFICES ASSUME NEW i \in 1 .. n
                 PROVE stack'[i].args <= Len(params[stack[i].class])
      BY <1>3, <2>1
    <3>1. CASE i \in 1 .. n - 1
      BY <1>1, <1>3, <3>1 DEF IInv, TypeOK
    <3>2. CASE i = n
      <4>1. stack[n].args < Len(params[stack[n].class])
        BY DEF AtParam, Top, n
      <4>2. Len(params[stack[n].class]) \in Nat
        BY <1>4, <3>2, ParamsTyped DEF IInv
      <4> QED BY <1>3, <1>4, <3>2, <4>1, <4>2
    <3> QED BY <1>1, <3>1, <3>2
  <2>3. resolutionStack' = {stack'[i].class : i \in DOMAIN stack'}
    <3>1. resolutionStack' = {stack[i].class : i \in 1 .. n}
      BY <1>1 DEF IInv, TypeOK
    <3>2. DOMAIN stack' = 1 .. n /\ \A i \in 1 .. n : stack'[i].class = stack[i].class
      BY <1>3
    <3> QED BY ONLY <3>1, <3>2
  <2>4. stack' \in Seq([class : services', args : Nat])
    BY <1>3, <2>1
  <2>5. /\ outcome' = "running"
        /\ outcome' \in {"none", "running", "ok", "cyclic", "missing", "constructor", "fallback"}
    BY <1>2, <1>5 DEF Idle
  <2> QED BY <2>1, <2>2, <2>3, <2>4, <2>5
          DEF IInv, TypeOK, Setting, metadataVars, registrationVars
<1>7. SingletonOnce' /\ InstancesAreSingletons' /\ CallInProgress'
  BY <1>2, SettingDecides
     DEF IInv, SingletonOnce, InstancesAreSingletons, CallInProgress, Idle, Setting, metadataVars
<1>8. VerdictSound'
  BY <1>2, <1>5 DEF VerdictSound, Idle
<1>9. StackIsPath'
  <2>1. stack'[1].class = target'
    BY <1>1, <1>3 DEF IInv, StackIsPath, Setting
  <2>2. ASSUME NEW i \in 1 .. n - 1 PROVE Leads(stack[i], stack[i + 1].class)'
    <3>1. Leads(stack[i], stack[i + 1].class)
      BY <2>2 DEF IInv, StackIsPath, n
    <3>2. stack'[i] = stack[i] /\ stack'[i + 1].class = stack[i + 1].class
      BY <1>1, <1>3
    <3> QED BY <3>1, <3>2, SettingDecides DEF Leads, Awaited, Setting, metadataVars
  <2> QED BY <1>3, <2>1, <2>2 DEF StackIsPath
<1>10. StackIsNeeded' /\ NoneTwice' /\ NotYetBuilt'
  BY <1>1, <1>3, SettingDecides DEF IInv, StackIsNeeded, NoneTwice, NotYetBuilt
<1>11. ArgsAtHand'
  <2> SUFFICES ASSUME NEW i \in 1 .. n, NEW j \in 1 .. stack'[i].args
               PROVE AtHand(params[stack[i].class][j])
    BY <1>3, SettingDecides
       DEF ArgsAtHand, Setting, metadataVars
  <2>1. CASE j \in 1 .. stack[i].args
    BY <1>1, <2>1 DEF IInv, ArgsAtHand
  <2>2. CASE j \notin 1 .. stack[i].args
    <3>1. i = n /\ j = stack[n].args + 1
      <4>1. i \notin 1 .. n - 1
        BY <1>3, <2>2
      <4>2. i = n
        BY <1>1, <4>1
      <4> QED BY <1>3, <1>4, <2>2, <4>2
    <3>2. params[stack[i].class][j] = Awaited(Top)
      BY <3>1 DEF Awaited, Top, n
    <3> QED BY <3>2
  <2> QED BY <2>1, <2>2
<1> QED BY <1>6, <1>7, <1>8, <1>9, <1>10, <1>11 DEF IInv

\* A class that is not under resolution and not yet built gets a frame.
LEMMA PushIsGood ==
  ASSUME IInv, ~ Idle, UNCHANGED Setting, UNCHANGED <<outcome, instances, built>>,
         NEW c \in services,
         c \notin resolutionStack, c \in Needed, Constructed(c), c \notin instances,
         stack' = Append(stack, [class |-> c, args |-> 0]),
         resolutionStack' = resolutionStack \cup {c},
         IF stack = <<>> THEN c = target ELSE Leads(Top, c)
  PROVE  IInv'
<1> DEFINE n == Len(stack)
           F == [class : services, args : Nat]
           f == [class |-> c, args |-> 0]
<1>1. /\ n \in Nat /\ DOMAIN stack = 1 .. n /\ stack \in Seq(F)
      /\ \A i \in 1 .. n : stack[i] \in F
      /\ stack = <<>> <=> n = 0
  BY SequenceBasics DEF IInv, TypeOK
<1>2. f \in F /\ f.class = c /\ f.args = 0
  OBVIOUS
<1> HIDE DEF f, F
<1>3. /\ stack' \in Seq(F) /\ Len(stack') = n + 1 /\ DOMAIN stack' = 1 .. n + 1
      /\ \A i \in 1 .. n : stack'[i] = stack[i]
      /\ stack'[n + 1] = f
  BY <1>1, <1>2, AppendProperties DEF f
<1>4. \A i \in 1 .. n + 1 : i \in 1 .. n \/ i = n + 1
  BY <1>1
<1>5. \A i \in 1 .. n : stack[i].class \in resolutionStack
  BY <1>1 DEF IInv, TypeOK
<1> HIDE DEF n
<1>6. TypeOK'
  <2>1. params' = params /\ services' = services
    BY DEF Setting, metadataVars, registrationVars
  <2>2. \A i \in DOMAIN stack' : stack'[i].args <= Len(params'[stack'[i].class])
    <3>1. Len(params[c]) \in Nat
      BY ParamsTyped DEF IInv, TypeOK
    <3>2. \A i \in 1 .. n : stack[i].args <= Len(params[stack[i].class])
      BY <1>1 DEF IInv, TypeOK
    <3>3. f.args <= Len(params[f.class])
      BY <1>2, <3>1
    <3> QED BY <1>3, <1>4, <2>1, <3>2, <3>3
  <2>3. resolutionStack' = {stack'[i].class : i \in DOMAIN stack'}
    <3>1. resolutionStack = {stack[i].class : i \in 1 .. n}
      BY <1>1 DEF IInv, TypeOK
    <3>2. n + 1 \in 1 .. n + 1 /\ 1 .. n \subseteq 1 .. n + 1
      BY <1>1
    <3> QED BY <1>2, <1>3, <1>4, <3>1, <3>2
  <2>4. stack' \in Seq([class : services', args : Nat])
    BY <1>3, <2>1 DEF F
  <2>5. /\ outcome' = "running"
        /\ outcome' \in {"none", "running", "ok", "cyclic", "missing", "constructor", "fallback"}
    BY DEF Idle
  <2> QED BY <2>1, <2>2, <2>3, <2>4, <2>5
          DEF IInv, TypeOK, Setting, metadataVars, registrationVars
<1>7. SingletonOnce' /\ InstancesAreSingletons' /\ CallInProgress'
  BY SettingDecides
     DEF IInv, SingletonOnce, InstancesAreSingletons, CallInProgress, Idle, Setting, metadataVars
<1>8. VerdictSound'
  BY DEF VerdictSound, Idle
<1>9. StackIsPath'
  <2>1. stack'[1].class = target'
    <3>1. CASE n = 0
      BY <1>1, <1>2, <1>3, <3>1 DEF Setting
    <3>2. CASE n # 0
      BY <1>1, <1>3, <3>2 DEF IInv, StackIsPath, Setting
    <3> QED BY <3>1, <3>2
  <2>2. ASSUME NEW i \in 1 .. n PROVE Leads(stack[i], stack'[i + 1].class)
    <3>1. CASE i \in 1 .. n - 1
      <4>1. Leads(stack[i], stack[i + 1].class)
        BY <3>1 DEF IInv, StackIsPath, n
      <4>2. i + 1 \in 1 .. n
        BY <1>1, <3>1
      <4> QED BY <1>3, <4>1, <4>2
    <3>2. CASE i = n
      BY <1>1, <1>2, <1>3, <3>2 DEF Top, n
    <3> QED BY <1>1, <3>1, <3>2
  <2>3. ASSUME NEW i \in 1 .. n PROVE Leads(stack[i], stack[i + 1].class)'
    BY <1>3, <2>2, SettingDecides DEF Leads, Awaited, Setting, metadataVars
  <2> QED BY <1>1, <1>3, <2>1, <2>3 DEF StackIsPath
<1>10. StackIsNeeded' /\ NotYetBuilt'
  BY <1>1, <1>2, <1>3, <1>4, SettingDecides DEF IInv, StackIsNeeded, NotYetBuilt
<1>11. NoneTwice'
  BY <1>1, <1>2, <1>3, <1>4, <1>5 DEF IInv, NoneTwice
<1>12. ArgsAtHand'
  <2>1. ASSUME NEW i \in 1 .. n + 1, NEW j \in 1 .. stack'[i].args
        PROVE AtHand(params[stack'[i].class][j])
    <3>1. i \in 1 .. n
      BY <1>2, <1>3, <1>4
    <3> QED BY <1>1, <1>3, <3>1 DEF IInv, ArgsAtHand
  <2>2. params' = params /\ \A p : AtHand(p)' <=> AtHand(p)
    BY SettingDecides DEF Setting, metadataVars
  <2> QED BY <1>3, <2>1, <2>2 DEF ArgsAtHand
<1> QED BY <1>6, <1>7, <1>8, <1>9, <1>10, <1>11, <1>12 DEF IInv

LEMMA TopFrame ==
  ASSUME TypeOK, stack # <<>>
  PROVE  LET n == Len(stack) IN
         /\ n \in Nat \ {0} /\ n \in 1 .. n /\ DOMAIN stack = 1 .. n
         /\ stack \in Seq([class : services, args : Nat])
         /\ \A i \in 1 .. n : stack[i] \in [class : services, args : Nat]
<1> DEFINE F == [class : services, args : Nat]
           n == Len(stack)
<1>1. stack \in Seq(F)
  BY DEF TypeOK
<1> HIDE DEF F
<1>2. /\ n \in Nat \ {0} /\ DOMAIN stack = 1 .. n
      /\ \A i \in 1 .. n : stack[i] \in F
  BY <1>1, SequenceBasics
<1>3. n \in 1 .. n
  BY <1>2
<1> QED BY <1>1, <1>2, <1>3 DEF F

\* The arguments of the frame on top are complete: its class can be built,
\* and is Sufficient.
LEMMA TopIsSufficient ==
  ASSUME IInv, AtConstructor
  PROVE  /\ Top.class \in Sufficient /\ Top.class \in services
         /\ Top.class \notin instances
<1> DEFINE n == Len(stack)
           c == Top.class
<1>1. /\ n \in 1 .. n /\ DOMAIN stack = 1 .. n
      /\ stack[n] \in [class : services, args : Nat]
  BY TopFrame DEF IInv, AtConstructor
<1>2. c = stack[n].class /\ stack[n].args = Len(params[c])
  BY DEF AtConstructor, Top
<1>3. c \in services /\ c \in Class
  BY <1>1, <1>2 DEF IInv, TypeOK
<1>4. \A j \in 1 .. Len(params[c]) :
        AtHand(params[c][j])
  BY <1>1, <1>2 DEF IInv, ArgsAtHand
<1>5. DOMAIN params[c] = 1 .. Len(params[c])
  BY <1>3, ParamsTyped DEF IInv
<1> HIDE DEF c
<1>6. Dependencies(c) \subseteq Sufficient
  BY <1>4, <1>5 DEF Dependencies, Types, AtHand
<1>7. ~ Lacks(c)
  BY <1>4, <1>5 DEF Lacks, AtHand
<1>8. c \in Sufficient
  BY <1>3, <1>6, <1>7, SufficientGrows DEF IInv
<1>9. c \notin instances
  BY <1>1, <1>2 DEF IInv, NotYetBuilt
<1> QED BY <1>3, <1>8, <1>9 DEF c

\* The class on top is built; its frame gives way, and the one below has
\* one argument more or, if there is none, get() returns.
LEMMA ConstructIsGood ==
  ASSUME IInv, Construct
  PROVE  IInv'
<1> DEFINE n == Len(stack)
           m == n - 1
           c == Top.class
           F == [class : services, args : Nat]
           rest == SubSeq(stack, 1, m)
<1>1. /\ n \in Nat \ {0} /\ n \in 1 .. n /\ DOMAIN stack = 1 .. n /\ stack \in Seq(F)
      /\ \A i \in 1 .. n : stack[i] \in F
      /\ stack # <<>>
  BY TopFrame DEF IInv, Construct, AtConstructor
<1>2. UNCHANGED Setting
  BY DEF Construct, Setting
<1>3. c \in Sufficient /\ c \in services /\ c \notin instances /\ c = stack[n].class
  BY TopIsSufficient DEF Construct, Top
<1>4. outcome = "running"
  BY <1>1 DEF IInv, TypeOK
<1>5. /\ m \in Nat /\ rest \in Seq(F) /\ Len(rest) = m
      /\ \A i \in 1 .. m : rest[i] = stack[i]
  <2>1. m \in Int /\ m \in Nat /\ 1 \in Int
    BY <1>1
  <2>2. \A i \in 1 .. m : stack[i] \in F
    BY <1>1
  <2> HIDE DEF m, F
  <2>3. /\ rest \in Seq(F)
        /\ Len(rest) = IF 1 <= m THEN m - 1 + 1 ELSE 0
        /\ \A i \in 1 .. m - 1 + 1 : rest[i] = stack[1 + i - 1]
    BY <2>1, <2>2, SubSeqProperties
  <2> QED BY <2>1, <2>3
<1>6. 1 .. n = 1 .. m \cup {n} /\ n \notin 1 .. m
  BY <1>1
<1>7. /\ IF scope[c] = "singleton"
            THEN instances' = instances \cup {c} /\ built' = [built EXCEPT ![c] = @ + 1]
            ELSE instances' = instances /\ built' = built
      /\ resolutionStack' = resolutionStack \ {c}
      /\ Supply(rest)
  BY DEF Construct
<1> HIDE DEF c, F, n, m, rest
<1>8. resolutionStack' = {stack[i].class : i \in 1 .. m}
  <2>1. resolutionStack = {stack[i].class : i \in 1 .. n}
    BY <1>1 DEF IInv, TypeOK
  <2>2. \A i \in 1 .. m : stack[i].class # c
    BY <1>1, <1>3, <1>6 DEF IInv, NoneTwice
  <2> QED BY <1>3, <1>6, <1>7, <2>1, <2>2
<1>9. SingletonOnce' /\ InstancesAreSingletons'
  BY <1>2, <1>3, <1>7
     DEF IInv, TypeOK, SingletonOnce, InstancesAreSingletons, Setting, metadataVars
<1>10. instances' \in SUBSET services /\ built' \in [Class -> Nat]
  <2>1. instances \in SUBSET services /\ built \in [Class -> Nat] /\ c \in Class
    BY <1>3 DEF IInv, TypeOK
  <2>2. instances' \in SUBSET services
    BY <1>3, <1>7, <2>1
  <2>3. built' \in [Class -> Nat]
    BY <1>7, <2>1
  <2> QED BY <2>2, <2>3
<1>11. instances' \subseteq Sufficient /\ warm \subseteq instances'
  BY <1>3, <1>4, <1>7 DEF IInv, CallInProgress, Idle
<1>12. CASE rest = <<>>
  <2>1. stack' = <<>> /\ outcome' = "ok"
    BY <1>7, <1>12 DEF Supply
  <2>2. m = 0
    BY <1>5, <1>12
  <2>3. n = 1 /\ c = target
    BY <1>1, <1>3, <2>2 DEF IInv, StackIsPath, m
  <2>4. resolutionStack' = {}
    BY <1>8, <2>2
  <2>5. TypeOK'
    BY <1>2, <1>10, <2>1, <2>4
       DEF IInv, TypeOK, Setting, metadataVars, registrationVars
  <2> QED BY <1>2, <1>3, <1>9, <2>1, <2>3, <2>5, ReturnIsGood DEF IInv
<1>13. CASE rest # <<>>
  <2>1. stack' = [rest EXCEPT ![m].args = @ + 1] /\ outcome' = outcome
    BY <1>5, <1>7, <1>13 DEF Supply
  <2>2. /\ m \in Nat \ {0}
        /\ stack' \in Seq(F) /\ Len(stack') = m /\ DOMAIN stack' = 1 .. m
        /\ \A i \in 1 .. m : stack'[i].class = stack[i].class
        /\ \A i \in 1 .. m - 1 : stack'[i] = stack[i]
        /\ stack'[m].args = stack[m].args + 1
    <3>1. stack' = [rest EXCEPT ![Len(rest)].args = @ + 1]
      BY <1>5, <2>1
    <3> DEFINE l == Len(rest)
    <3>2. /\ l \in Nat \ {0}
          /\ stack' \in Seq(F) /\ Len(stack') = l /\ DOMAIN stack' = 1 .. l
          /\ \A i \in 1 .. l : stack'[i].class = rest[i].class
          /\ \A i \in 1 .. l - 1 : stack'[i] = rest[i]
          /\ stack'[l].args = rest[l].args + 1
      <4>1. rest \in Seq([class : services, args : Nat])
        BY <1>5 DEF F
      <4>2. l \in Nat \ {0} /\ stack' \in Seq([class : services, args : Nat]) /\ Len(stack') = l
        BY <1>13, <3>1, <4>1, NextArgument
      <4>3. DOMAIN stack' = 1 .. l /\ stack'[l].args = rest[l].args + 1
        BY <1>13, <3>1, <4>1, NextArgument
      <4>4. /\ \A i \in 1 .. l : stack'[i].class = rest[i].class
            /\ \A i \in 1 .. l - 1 : stack'[i] = rest[i]
        BY <1>13, <3>1, <4>1, NextArgument
      <4> QED BY <4>2, <4>3, <4>4 DEF F
    <3> HIDE DEF l
    <3>4. l = m
      BY <1>5 DEF l
    <3>3. m \in 1 .. m /\ \A i \in 1 .. m - 1 : i \in 1 .. m
      BY <3>2, <3>4
    <3> QED BY <1>5, <3>2, <3>3, <3>4
  <2>3. m \in 1 .. m /\ m + 1 = n /\ \A i \in 1 .. m : i \in 1 .. m - 1 \/ i = m
    BY <1>1, <2>2 DEF m
  <2>4. Leads(stack[m], c)
    BY <1>1, <1>3, <2>3 DEF IInv, StackIsPath, n, m
  <2>5. \A i \in 1 .. m : stack[i].class \in Class /\ stack[i].args \in Nat
    BY <1>1, <1>6 DEF IInv, TypeOK, F
  <2>6. params' = params /\ services' = services
    BY <1>2 DEF Setting, metadataVars, registrationVars
  <2>7. TypeOK'
    <3>1. \A i \in DOMAIN stack' : stack'[i].args <= Len(params'[stack'[i].class])
      <4>1. Len(params[stack[m].class]) \in Nat
        BY <2>3, <2>5, ParamsTyped DEF IInv
      <4>2. stack[m].args + 1 <= Len(params[stack[m].class])
        BY <2>3, <2>4, <2>5, <4>1 DEF Leads
      <4>3. \A i \in 1 .. m : stack[i].args <= Len(params[stack[i].class])
        BY <1>1, <1>6 DEF IInv, TypeOK
      <4> QED BY <2>2, <2>3, <2>6, <4>2, <4>3
    <3>2. resolutionStack' = {stack'[i].class : i \in DOMAIN stack'}
      BY <1>8, <2>2
    <3>3. stack' \in Seq([class : services', args : Nat])
      BY <2>2, <2>6 DEF F
    <3> QED BY <1>2, <1>4, <1>10, <2>1, <2>6, <3>1, <3>2, <3>3
            DEF IInv, TypeOK, Setting, metadataVars, registrationVars
  <2>8. CallInProgress'
    BY <1>2, <1>4, <1>11, SettingDecides DEF IInv, CallInProgress, Idle, Setting
  <2>9. VerdictSound'
    BY <1>4, <2>1 DEF VerdictSound
  <2>10. StackIsPath'
    <3>1. stack'[1].class = target'
      <4>1. 1 \in 1 .. m /\ stack # <<>>
        BY <2>2 DEF Construct, AtConstructor
      <4> QED BY <1>2, <2>2, <4>1 DEF IInv, StackIsPath, Setting
    <3>2. ASSUME NEW i \in 1 .. m - 1 PROVE Leads(stack[i], stack[i + 1].class)'
      <4>1. i \in 1 .. n - 1 /\ i + 1 \in 1 .. m
        BY <1>1, <2>2 DEF m
      <4>2. Leads(stack[i], stack[i + 1].class)
        BY <4>1 DEF IInv, StackIsPath, n
      <4>3. stack'[i] = stack[i] /\ stack'[i + 1].class = stack[i + 1].class
        BY <2>2, <4>1
      <4> QED BY <1>2, <4>2, <4>3, SettingDecides DEF Leads, Awaited, Setting, metadataVars
    <3> QED BY <2>2, <3>1, <3>2 DEF StackIsPath
  <2>11. StackIsNeeded' /\ NoneTwice'
    BY <1>1, <1>2, <1>6, <2>2, SettingDecides DEF IInv, StackIsNeeded, NoneTwice
  <2>12. NotYetBuilt'
    <3>1. \A i \in 1 .. m : stack[i].class # c
      BY <1>1, <1>3, <1>6 DEF IInv, NoneTwice
    <3>2. \A i \in 1 .. m : stack[i].class \notin instances
      BY <1>1, <1>6 DEF IInv, NotYetBuilt
    <3> QED BY <1>7, <2>2, <3>1, <3>2 DEF NotYetBuilt
  <2>13. ArgsAtHand'
    <3> SUFFICES ASSUME NEW i \in 1 .. m, NEW j \in 1 .. stack'[i].args
                 PROVE AtHand(params[stack[i].class][j])
      BY <1>2, <2>2, SettingDecides
         DEF ArgsAtHand, Setting, metadataVars
    <3>1. CASE j \in 1 .. stack[i].args
      BY <1>1, <1>6, <3>1 DEF IInv, ArgsAtHand
    <3>2. CASE j \notin 1 .. stack[i].args
      <4>1. i \notin 1 .. m - 1
        BY <2>2, <3>2
      <4>2. i = m
        BY <2>3, <4>1
      <4>3. j = stack[m].args + 1
        BY <2>2, <2>5, <3>2, <4>2
      <4> QED BY <1>3, <2>4, <4>2, <4>3 DEF Leads, Awaited, AtHand
    <3> QED BY <3>1, <3>2
  <2> QED BY <1>9, <2>7, <2>8, <2>9, <2>10, <2>11, <2>12, <2>13 DEF IInv
<1> QED BY <1>12, <1>13

\* The target and what a frame waits for are needed.
LEMMA LedToIsNeeded ==
  ASSUME IInv, ~ Idle, NEW c,
         IF stack = <<>> THEN c = target ELSE Leads(Top, c)
  PROVE  c \in Needed
<1>1. target \in Needed /\ \A d \in Needed : Constructed(d) => Dependencies(d) \subseteq Needed
  BY NeededIsClosed DEF IInv, CallInProgress
<1>2. CASE stack # <<>>
  <2>1. Len(stack) \in DOMAIN stack
    BY <1>2, TopFrame DEF IInv
  <2>2. Top.class \in Needed /\ Constructed(Top.class)
    BY <2>1 DEF IInv, StackIsNeeded, Top
  <2>3. Top.class \in Class /\ Top.args \in Nat
    BY <1>2, TopFrame DEF IInv, TypeOK, Top
  <2>4. Top.args + 1 \in 1 .. Len(params[Top.class])
    BY <1>2, <2>3, ParamsTyped DEF IInv, Leads
  <2>5. c \in Dependencies(Top.class)
    BY <1>2, <2>3, <2>4, DependenciesTyped DEF IInv, Leads, Awaited
  <2> QED BY <1>1, <2>2, <2>5
<1> QED BY <1>1, <1>2

\* A class that is under resolution and asked for again closes a circle:
\* the frames from its own to the top.
LEMMA AskedAgainIsCycle ==
  ASSUME IInv, ~ Idle, NEW c \in resolutionStack,
         IF stack = <<>> THEN c = target ELSE Leads(Top, c)
  PROVE  Cycle
<1> DEFINE n == Len(stack)
<1>1. stack # <<>>
  BY DEF IInv, TypeOK
<1>2. /\ n \in Nat \ {0} /\ n \in 1 .. n /\ DOMAIN stack = 1 .. n
      /\ \A i \in 1 .. n : stack[i] \in [class : services, args : Nat]
  BY <1>1, TopFrame DEF IInv
<1>3. PICK k \in 1 .. n : stack[k].class = c
  BY <1>2 DEF IInv, TypeOK
<1> DEFINE T == {stack[i].class : i \in k .. n}
<1>4. ASSUME NEW i \in 1 .. n, NEW d, Leads(stack[i], d)
      PROVE  d \in Dependencies(stack[i].class)
  <2>1. stack[i].class \in Class /\ stack[i].args \in Nat
    BY <1>2 DEF IInv, TypeOK
  <2>2. stack[i].args + 1 \in 1 .. Len(params[stack[i].class])
    BY <1>4, <2>1, ParamsTyped DEF IInv, Leads
  <2> QED BY <1>4, <2>1, <2>2, DependenciesTyped DEF IInv, Leads, Awaited
<1>5. ASSUME NEW i \in k .. n PROVE Dependencies(stack[i].class) \cap T # {}
  <2>1. CASE i = n
    <3>1. c \in Dependencies(stack[n].class)
      BY <1>1, <1>2, <1>4 DEF Top
    <3>2. c \in T
      BY <1>2, <1>3
    <3> QED BY <2>1, <3>1, <3>2
  <2>2. CASE i # n
    <3> HIDE DEF n, T
    <3>1. i \in 1 .. n - 1 /\ i + 1 \in k .. n /\ i \in 1 .. n
      BY <1>2, <1>3, <2>2
    <3> USE DEF n, T
    <3>2. stack[i + 1].class \in Dependencies(stack[i].class)
      BY <1>4, <3>1 DEF IInv, StackIsPath
    <3>3. stack[i + 1].class \in T
      BY <3>1
    <3> QED BY <3>2, <3>3
  <2> QED BY <2>1, <2>2
<1>6. T # {} /\ \A d \in T : Dependencies(d) \cap T # {}
  <2>1. k \in k .. n
    BY <1>2, <1>3
  <2> QED BY <1>5, <2>1
<1>7. T \in SUBSET {d \in Needed : Constructed(d)}
  <2>1. \A i \in k .. n : i \in DOMAIN stack
    BY <1>2, <1>3
  <2> QED BY <2>1 DEF IInv, StackIsNeeded
<1> HIDE DEF T
<1> QED BY <1>6, <1>7 DEF Cycle

\* resolve(): the class asked for is under resolution, not registered,
\* built already, or gets a frame.
LEMMA ResolveIsGood ==
  ASSUME IInv, ~ Idle, UNCHANGED Setting, NEW c, Resolve(c),
         IF stack = <<>> THEN c = target
                         ELSE AtParam /\ Leads(Top, c)
  PROVE  IInv'
<1>1. c \in Needed
  BY LedToIsNeeded
<1>2. CASE c \in resolutionStack
  BY <1>2, AskedAgainIsCycle, ThrowIsGood DEF Resolve
<1>3. CASE c \notin resolutionStack /\ c \notin services
  <2>1. Missing
    BY <1>1, <1>3 DEF Missing
  <2> QED BY <1>3, <2>1, ThrowIsGood DEF Resolve
<1>4. CASE /\ c \notin resolutionStack /\ c \in services
           /\ scope[c] = "singleton" /\ c \in instances
  <2>1. Supply(stack) /\ UNCHANGED <<resolutionStack, instances, built>>
    BY <1>4 DEF Resolve
  <2>2. c \in Sufficient
    BY <1>4 DEF IInv, CallInProgress
  <2>3. CASE stack = <<>>
    <3>1. stack' = <<>> /\ outcome' = "ok"
      BY <2>1, <2>3 DEF Supply
    <3>2. TypeOK'
      BY <2>1, <2>3, <3>1 DEF IInv, TypeOK, Setting, metadataVars, registrationVars
    <3>3. SingletonOnce' /\ InstancesAreSingletons'
      BY <2>1 DEF IInv, SingletonOnce, InstancesAreSingletons, Setting, metadataVars
    <3> QED BY <2>2, <2>3, <3>1, <3>2, <3>3, ReturnIsGood DEF IInv
  <2>4. CASE stack # <<>>
    BY <2>1, <2>2, <2>4, SupplyIsGood DEF Leads, AtHand
  <2> QED BY <2>3, <2>4
<1>5. CASE /\ c \notin resolutionStack /\ c \in services
           /\ ~ (scope[c] = "singleton" /\ c \in instances)
  <2>1. Constructed(c) /\ c \notin instances
    BY <1>5 DEF IInv, CallInProgress, InstancesAreSingletons, Constructed
  <2> QED BY <1>1, <1>5, <2>1, PushIsGood DEF Resolve
<1> QED BY <1>2, <1>3, <1>4, <1>5

LEMMA GetStepIsGood == ASSUME IInv, GetStep PROVE IInv'
<1>1. ~ Idle /\ UNCHANGED Setting
  BY DEF IInv, TypeOK, GetStep, Idle, Setting, Enter, ParamFromInstance, ParamFromClass,
         ParamFallback, FallbackThrows, ParamMissing, Construct, ConstructorThrows,
         AtParam, AtConstructor
<1>2. CASE Enter
  BY <1>1, <1>2, ResolveIsGood DEF Enter
<1>3. CASE ParamFromInstance
  BY <1>1, <1>3, SupplyIsGood DEF ParamFromInstance, HasClass, AtHand
<1>4. CASE ParamFromClass
  <2>1. Leads(Top, ResolveToken(Awaited(Top).type))
    BY <1>4 DEF ParamFromClass, AtParam, Leads
  <2> QED BY <1>1, <1>4, <2>1, ResolveIsGood DEF ParamFromClass, AtParam
<1>5. CASE ParamFallback
  BY <1>1, <1>5, SupplyIsGood DEF ParamFallback, AtHand
<1>6. CASE ParamMissing
  <2>1. Missing
    <3>1. stack # <<>> /\ Top.args < Len(params[Top.class])
      BY <1>6 DEF ParamMissing, AtParam
    <3>2. Top.class \in Class /\ Top.args \in Nat
      BY <3>1, TopFrame DEF IInv, TypeOK, Top
    <3>3. Top.args + 1 \in DOMAIN params[Top.class]
      BY <3>1, <3>2, ParamsTyped DEF IInv
    <3>4. Lacks(Top.class)
      BY <1>6, <3>3 DEF ParamMissing, Awaited, Lacks
    <3>5. Top.class \in Needed /\ Constructed(Top.class)
      BY <3>1, TopFrame DEF IInv, StackIsNeeded, Top
    <3> QED BY <3>4, <3>5 DEF Missing
  <2> QED BY <1>1, <1>6, <2>1, ThrowIsGood DEF ParamMissing
<1>7. CASE Construct
  BY <1>7, ConstructIsGood
<1>8. CASE ConstructorThrows
  BY <1>1, <1>8, ThrowIsGood DEF ConstructorThrows
<1>9. CASE FallbackThrows
  BY <1>1, <1>9, ThrowIsGood DEF FallbackThrows
<1> QED BY <1>2, <1>3, <1>4, <1>5, <1>6, <1>7, <1>8, <1>9 DEF GetStep

LEMMA StepIsGood == IInv /\ [Next]_vars => IInv'
<1> SUFFICES ASSUME IInv, [Next]_vars PROVE IInv'
  OBVIOUS
<1>1. CASE Between
  BY <1>1, BetweenIsGood
<1>2. CASE \E c \in Class : Get(c)
  BY <1>2, GetIsGood
<1>3. CASE GetStep
  BY <1>3, GetStepIsGood
<1>4. CASE UNCHANGED vars
  <2>1. UNCHANGED Setting
    BY <1>4 DEF vars, Setting
  <2>2. UNCHANGED <<instances, resolutionStack, stack, outcome, built>>
    BY <1>4 DEF vars
  <2>3. TypeOK' /\ SingletonOnce' /\ InstancesAreSingletons' /\ NoneTwice' /\ NotYetBuilt'
    BY <2>1, <2>2 DEF IInv, TypeOK, SingletonOnce, InstancesAreSingletons, NoneTwice,
       NotYetBuilt, Setting, metadataVars, registrationVars
  <2>4. VerdictSound' /\ StackIsNeeded' /\ CallInProgress'
    BY <2>1, <2>2, SettingDecides DEF IInv, VerdictSound, StackIsNeeded, CallInProgress, Idle,
       Setting, registrationVars
  <2>5. StackIsPath' /\ ArgsAtHand'
    BY <2>1, <2>2, SettingDecides DEF IInv, StackIsPath, ArgsAtHand, Leads, Awaited,
       Setting, metadataVars
  <2> QED BY <2>3, <2>4, <2>5 DEF IInv
<1> QED BY <1>1, <1>2, <1>3, <1>4 DEF Next, Between

LEMMA Invariance == Spec => []IInv
<1>1. Init => IInv
  BY InitIsGood
<1>2. IInv /\ [Next]_vars => IInv'
  BY StepIsGood
<1> QED BY <1>1, <1>2, PTL DEF Spec
-----------------------------------------------------------------------------

(***************************************************************************)
(* Whatever the program registers and whichever get() fails, the stack of  *)
(* the container holds the classes of the calls in progress and no others. *)
(***************************************************************************)
THEOREM TypeCorrect == Spec => []TypeOK
<1>1. IInv => TypeOK
  BY DEF IInv
<1> QED BY <1>1, Invariance, PTL

(***************************************************************************)
(* For every graph of dependencies a singleton is constructed once.        *)
(***************************************************************************)
THEOREM SingletonsAreSingle == Spec => []SingletonOnce
<1>1. IInv => SingletonOnce
  BY DEF IInv
<1> QED BY <1>1, Invariance, PTL

(***************************************************************************)
(* For every graph of dependencies, with any aliases, instances, fallbacks *)
(* and scopes: get() constructs a class only if it and all it needs is     *)
(* registered and acyclic, and reports a missing or a cyclic dependency    *)
(* only where there is one.                                                *)
(***************************************************************************)
THEOREM VerdictIsSound == Spec => []VerdictSound
<1>1. IInv => VerdictSound
  BY DEF IInv
<1> QED BY <1>1, Invariance, PTL
=============================================================================

---------------------------- MODULE KernelProofs ----------------------------
(***************************************************************************)
(* Proofs about PluginRegistry.resolve and OneJs.start(), for every        *)
(* catalog of plugins, every dependency graph, every assignment of         *)
(* priorities, every set of services and any number of starts.             *)
(*                                                                         *)
(*   1. the resolver;                                                      *)
(*   2. the kernel: its steps of resolution are steps of the resolver, so  *)
(*      that what is proved in 1 is used as it stands;                     *)
(*   3. the kernel implements the abstract TwoPhaseStart.                  *)
(***************************************************************************)
EXTENDS Kernel, FiniteSetTheorems, SequenceTheorems, WellFoundedInduction, TLAPS
-----------------------------------------------------------------------------
(***************************************************************************)
(* (priority, name) orders the plugins strictly and totally.               *)
(***************************************************************************)
LEMMA PrecedesOrder ==
  ASSUME TypeOK
  PROVE  /\ \A p, q \in PluginName : p # q => Precedes(p, q) \/ Precedes(q, p)
         /\ \A p \in PluginName : ~ Precedes(p, p)
         /\ \A p, q, r \in PluginName :
              Precedes(p, q) /\ Precedes(q, r) => Precedes(p, r)
<1>1. \A p \in PluginName : Weight(p) \in Int /\ Rank[p] \in Int
  <2>1. SUFFICES ASSUME NEW p \in PluginName
                 PROVE  Weight(p) \in Int /\ Rank[p] \in Int
    OBVIOUS
  <2>2. priority[p] \in Priorities \/ priority[p] = NoPriority
    BY DEF TypeOK
  <2>3. CASE priority[p] = NoPriority
    BY <2>3, NamesAssumption DEF Weight, DefaultPriority
  <2>4. CASE priority[p] # NoPriority
    <3>1. priority[p] \in Int
      BY <2>2, <2>4, NamesAssumption
    <3>2. QED
      BY <2>4, <3>1, NamesAssumption DEF Weight
  <2>5. QED
    BY <2>3, <2>4
<1>2. \A p, q \in PluginName : Rank[p] = Rank[q] => p = q
  BY NamesAssumption
<1>3. QED
  BY <1>1, <1>2 DEF Precedes

(***************************************************************************)
(* A ready list that is not empty has a first element, the one shift()     *)
(* returns.                                                                *)
(***************************************************************************)
LEMMA LeastOfReady ==
  ASSUME TypeOK, NEW S \in SUBSET PluginName, S # {}
  PROVE  /\ Least(S) \in S
         /\ \A q \in S \ {Least(S)} : Precedes(Least(S), q)
<1> DEFINE Below(x) == {q \in S : Precedes(q, x)}
           Family == {Below(x) : x \in S}
<1>1. IsFiniteSet(S)
  BY NamesAssumption, FS_Subset
<1>2. Family \subseteq FiniteSubsetsOf(S) /\ Family # {}
  <2>1. FiniteSubsetsOf(S) = SUBSET S
    BY <1>1, FS_FiniteSubsetsOfFinite
  <2>2. \A x \in S : Below(x) \in SUBSET S
    OBVIOUS
  <2> HIDE DEF Below
  <2>3. QED
    BY <2>1, <2>2
<1>3. PICK T \in Family : \A U \in Family : ~ (<<U, T>> \in StrictSubsetOrdering(S))
  <2> HIDE DEF Family
  <2> QED
    BY <1>2, FS_StrictSubsetOrderingWellFounded, WFMin
<1>4. PICK x \in S : T = Below(x)
  OBVIOUS
<1>5. Below(x) = {}
  <2>1. SUFFICES ASSUME NEW y \in Below(x)
                 PROVE  FALSE
    OBVIOUS
  <2>2. Below(y) \subseteq Below(x) /\ y \notin Below(y)
    BY <2>1, PrecedesOrder
  <2>3. Below(y) # Below(x)
    BY <2>1, <2>2
  <2>4. Below(y) \in Family
    BY <2>1
  <2>5. <<Below(y), T>> \in StrictSubsetOrdering(S)
    BY <2>2, <2>3, <1>4 DEF StrictSubsetOrdering
  <2>6. QED
    BY <2>4, <2>5, <1>3
<1>6. \A q \in S \ {x} : Precedes(x, q)
  BY <1>5, PrecedesOrder
<1>7. QED
  BY <1>6 DEF Least
-----------------------------------------------------------------------------

(***************************************************************************)
(* The inductive invariant.                                                *)
(*                                                                         *)
(* Counting: dependencyCount counts the dependencies that are not ordered, *)
(* and ready holds exactly the plugins that wait for nothing.              *)
(***************************************************************************)
Counting ==
  resolution \in {"sorting", "ok", "circular"} =>
    /\ \A p \in plugins : /\ dependsOn[p] \subseteq plugins
                          /\ pending[p] = Cardinality(dependsOn[p] \ Ordered)
    /\ ready = {p \in plugins \ Ordered : dependsOn[p] \subseteq Ordered}

NoRepeats ==
  \A i, j \in DOMAIN ordered : ordered[i] = ordered[j] => i = j

\* A plugin that is still out although it precedes the i-th was waiting then.
Waiting ==
  \A i \in DOMAIN ordered : \A p \in plugins \ Ordered :
    Precedes(p, ordered[i]) =>
      \E d \in dependsOn[p] : \A k \in 1 .. (i - 1) : ordered[k] # d

Verdict ==
  /\ resolution \in {"idle", "missing"} => ordered = <<>>
  /\ resolution = "missing" => \E p \in plugins : ~ (dependsOn[p] \subseteq plugins)
  /\ resolution \in {"ok", "circular"} => ready = {}
  /\ resolution = "ok" => Len(ordered) = Cardinality(plugins)
  /\ resolution = "circular" => Len(ordered) # Cardinality(plugins)

IInv ==
  /\ TypeOK
  /\ Counting
  /\ NoRepeats
  /\ DependenciesFirst
  /\ UrgentFirst
  /\ Waiting
  /\ Verdict

(***************************************************************************)
(* A call of resolve begins in the invariant: nothing is counted or        *)
(* ordered yet.                                                            *)
(***************************************************************************)
LEMMA InitIInv == Init => IInv
<1> SUFFICES ASSUME Init
             PROVE  IInv
  OBVIOUS
<1>1. ordered = <<>> /\ DOMAIN ordered = {} /\ resolution = "idle"
  BY DEF Init, ResolverIdle
<1>2. TypeOK
  BY DEF Init, ResolverIdle, TypeOK
<1>3. Counting /\ Verdict
  BY <1>1 DEF Counting, Verdict
<1>4. NoRepeats /\ DependenciesFirst /\ UrgentFirst /\ Waiting
  BY <1>1 DEF NoRepeats, DependenciesFirst, UrgentFirst, Waiting
<1>5. QED
  BY <1>2, <1>3, <1>4 DEF IInv

(***************************************************************************)
(* What one iteration of the loop does to the result and to the counts.    *)
(***************************************************************************)
LEMMA ShiftEffect ==
  ASSUME IInv, Shift
  PROVE  LET c == Least(ready)
             n == Len(ordered)
         IN  /\ c \in plugins \ Ordered
             /\ dependsOn[c] \subseteq Ordered
             /\ \A q \in ready \ {c} : Precedes(c, q)
             /\ n \in Nat
             /\ DOMAIN ordered = 1 .. n
             /\ DOMAIN ordered' = 1 .. (n + 1)
             /\ \A i \in 1 .. n : ordered'[i] = ordered[i]
             /\ ordered'[n + 1] = c
             /\ ordered' \in Seq(plugins)
             /\ Ordered' = Ordered \cup {c}
<1> DEFINE c == Least(ready)
           n == Len(ordered)
<1>1. ready # {} /\ ready \in SUBSET PluginName /\ resolution = "sorting"
  BY DEF Shift, IInv, TypeOK
<1>2. c \in ready /\ \A q \in ready \ {c} : Precedes(c, q)
  <2>1. TypeOK
    BY DEF IInv
  <2>2. QED
    BY <2>1, <1>1, LeastOfReady
<1>3. c \in plugins \ Ordered /\ dependsOn[c] \subseteq Ordered
  BY <1>1, <1>2 DEF IInv, Counting
<1> HIDE DEF c
<1>4. ordered \in Seq(plugins) /\ ordered' = Append(ordered, c)
  BY DEF IInv, TypeOK, Shift, c
<1>5. /\ n \in Nat
      /\ DOMAIN ordered = 1 .. n
      /\ DOMAIN ordered' = 1 .. (n + 1)
      /\ \A i \in 1 .. n : ordered'[i] = ordered[i]
      /\ ordered'[n + 1] = c
      /\ ordered' \in Seq(plugins)
  BY <1>3, <1>4
<1>6. Ordered' = Ordered \cup {c}
  BY <1>5 DEF Ordered
<1>7. QED
  BY <1>2, <1>3, <1>5, <1>6 DEF c

(***************************************************************************)
(* After one iteration the counts are those of the longer result, and the  *)
(* ready list again holds exactly the plugins that wait for nothing.       *)
(***************************************************************************)
LEMMA ShiftCounts ==
  ASSUME IInv, Shift
  PROVE  /\ pending' \in [PluginName -> Nat]
         /\ \A p \in plugins : pending'[p] = Cardinality(dependsOn[p] \ Ordered')
         /\ ready' = {p \in plugins \ Ordered' : dependsOn[p] \subseteq Ordered'}
<1> DEFINE c == Least(ready)
           Left(p) == dependsOn[p] \ Ordered
<1>1. /\ c \in plugins \ Ordered
      /\ dependsOn[c] \subseteq Ordered
      /\ Ordered' = Ordered \cup {c}
  BY ShiftEffect
<1>2. /\ plugins \subseteq PluginName
      /\ pending \in [PluginName -> Nat]
      /\ dependsOn \in [PluginName -> SUBSET PluginName]
  BY DEF IInv, TypeOK
<1>3. /\ \A p \in plugins : pending[p] = Cardinality(Left(p))
      /\ ready = {p \in plugins \ Ordered : dependsOn[p] \subseteq Ordered}
  BY DEF IInv, Counting, Shift
<1>4. /\ pending' = [q \in PluginName |->
                      IF q \in plugins /\ c \in dependsOn[q]
                        THEN pending[q] - 1 ELSE pending[q]]
      /\ ready' = (ready \ {c})
           \cup {q \in plugins : c \in dependsOn[q] /\ pending[q] = 1}
  BY DEF Shift, Dependents, Released
<1> HIDE DEF c
<1>5. \A p \in plugins : IsFiniteSet(Left(p))
  BY <1>2, NamesAssumption, FS_Subset
<1>6. ASSUME NEW p \in plugins
      PROVE  /\ pending'[p] \in Nat
             /\ pending'[p] = Cardinality(dependsOn[p] \ Ordered')
  <2>1. CASE c \in dependsOn[p]
    <3>1. c \in Left(p) /\ dependsOn[p] \ Ordered' = Left(p) \ {c}
      BY <1>1, <2>1
    <3>2. Cardinality(Left(p)) \in Nat /\ Cardinality(Left(p) \ {c}) \in Nat
      BY <1>5, FS_CardinalityType, FS_RemoveElement
    <3>3. Cardinality(Left(p) \ {c}) = Cardinality(Left(p)) - 1
      BY <1>5, <3>1, FS_RemoveElement
    <3>4. pending'[p] = pending[p] - 1
      BY <1>2, <1>4, <2>1
    <3>5. QED
      BY <1>3, <3>1, <3>2, <3>3, <3>4
  <2>2. CASE c \notin dependsOn[p]
    <3>1. dependsOn[p] \ Ordered' = Left(p) /\ pending'[p] = pending[p]
      BY <1>1, <1>2, <1>4, <2>2
    <3>2. QED
      BY <1>2, <1>3, <3>1
  <2>3. QED
    BY <2>1, <2>2
<1>7. pending' \in [PluginName -> Nat]
  BY <1>2, <1>4, <1>6
<1>8. ASSUME NEW p
      PROVE  p \in ready' <=> p \in plugins \ Ordered' /\ dependsOn[p] \subseteq Ordered'
  <2>1. ASSUME p \in ready'
        PROVE  p \in plugins \ Ordered' /\ dependsOn[p] \subseteq Ordered'
    <3>1. CASE p \in ready \ {c}
      BY <1>1, <1>3, <3>1
    <3>2. CASE p \in plugins /\ c \in dependsOn[p] /\ pending[p] = 1
      <4>1. Cardinality(Left(p)) = 1 /\ c \in Left(p)
        BY <1>1, <1>3, <3>2
      <4>2. Left(p) = {c}
        BY <1>5, <3>2, <4>1, FS_Singleton
      <4>3. dependsOn[p] \subseteq Ordered'
        BY <1>1, <4>2
      <4>4. p # c
        BY <1>1, <3>2
      <4>5. p \notin Ordered
        BY <1>1, <3>2 DEF IInv, DependenciesFirst, Ordered, TypeOK
      <4>6. QED
        BY <1>1, <3>2, <4>3, <4>4, <4>5
    <3>3. QED
      BY <1>4, <2>1, <3>1, <3>2
  <2>2. ASSUME p \in plugins \ Ordered', dependsOn[p] \subseteq Ordered'
        PROVE  p \in ready'
    <3>1. CASE c \notin dependsOn[p]
      BY <1>1, <1>3, <1>4, <2>2, <3>1
    <3>2. CASE c \in dependsOn[p]
      <4>1. Left(p) = {c}
        BY <1>1, <2>2, <3>2
      <4>2. pending[p] = 1
        BY <1>3, <2>2, <4>1, FS_Singleton
      <4>3. QED
        BY <1>4, <2>2, <3>2, <4>2
    <3>3. QED
      BY <3>1, <3>2
  <2>3. QED
    BY <2>1, <2>2
<1>9. QED
  BY <1>6, <1>7, <1>8

(***************************************************************************)
(* Appending the least ready plugin keeps the result free of repetitions,  *)
(* dependencies first and urgent plugins first.                            *)
(***************************************************************************)
LEMMA ShiftOrder ==
  ASSUME IInv, Shift
  PROVE  NoRepeats' /\ DependenciesFirst' /\ UrgentFirst' /\ Waiting'
<1> DEFINE c == Least(ready)
           n == Len(ordered)
<1>1. /\ c \in plugins \ Ordered
      /\ dependsOn[c] \subseteq Ordered
      /\ \A q \in ready \ {c} : Precedes(c, q)
      /\ n \in Nat
      /\ DOMAIN ordered = 1 .. n
      /\ DOMAIN ordered' = 1 .. (n + 1)
      /\ \A i \in 1 .. n : ordered'[i] = ordered[i]
      /\ ordered'[n + 1] = c
      /\ Ordered' = Ordered \cup {c}
  BY ShiftEffect
<1>2. UNCHANGED <<plugins, dependsOn, priority>>
  BY DEF Shift
<1>3. \A p, q : Precedes(p, q)' = Precedes(p, q)
  BY <1>2 DEF Precedes, Weight
<1> HIDE DEF c, n
<1>4. NoRepeats /\ DependenciesFirst /\ UrgentFirst /\ Waiting
  BY DEF IInv
<1>5. \A i \in 1 .. n : ordered[i] # c
  BY <1>1 DEF Ordered
<1>6. NoRepeats'
  BY <1>1, <1>4, <1>5 DEF NoRepeats
<1>7. DependenciesFirst'
  <2>1. SUFFICES ASSUME NEW j \in 1 .. (n + 1), NEW d \in dependsOn[ordered'[j]]
                 PROVE  \E i \in 1 .. (j - 1) : ordered'[i] = d
    BY <1>1, <1>2 DEF DependenciesFirst
  <2>2. CASE j = n + 1
    BY <1>1, <2>1, <2>2 DEF Ordered
  <2>3. CASE j \in 1 .. n
    <3>1. PICK i \in 1 .. (j - 1) : ordered[i] = d
      BY <1>1, <1>4, <2>1, <2>3 DEF DependenciesFirst
    <3>2. QED
      BY <1>1, <2>3, <3>1
  <2>4. QED
    BY <1>1, <2>2, <2>3
<1>8. UrgentFirst'
  <2>1. SUFFICES ASSUME NEW i \in 1 .. (n + 1), NEW j \in 1 .. (n + 1),
                        i < j, Precedes(ordered'[j], ordered'[i])
                 PROVE  \E k \in i .. (j - 1) : ordered'[k] \in dependsOn[ordered'[j]]
    BY <1>1, <1>2, <1>3 DEF UrgentFirst
  <2>2. i \in 1 .. n /\ ordered'[i] = ordered[i]
    BY <1>1, <2>1
  <2>3. CASE j \in 1 .. n
    <3>1. PICK k \in i .. (j - 1) : ordered[k] \in dependsOn[ordered[j]]
      BY <1>1, <1>4, <2>1, <2>2, <2>3 DEF UrgentFirst
    <3>2. QED
      BY <1>1, <2>2, <2>3, <3>1
  <2>4. CASE j = n + 1
    <3>1. PICK d \in dependsOn[c] : \A k \in 1 .. (i - 1) : ordered[k] # d
      BY <1>1, <1>4, <2>1, <2>2, <2>4 DEF Waiting
    <3>2. PICK k \in 1 .. n : ordered[k] = d
      BY <1>1, <3>1 DEF Ordered
    <3>3. k \in i .. (j - 1)
      BY <1>1, <2>2, <2>4, <3>1, <3>2
    <3>4. QED
      BY <1>1, <2>4, <3>1, <3>2, <3>3
  <2>5. QED
    BY <1>1, <2>3, <2>4
<1>9. Waiting'
  <2>1. SUFFICES ASSUME NEW i \in 1 .. (n + 1), NEW p \in plugins \ Ordered',
                        Precedes(p, ordered'[i])
                 PROVE  \E d \in dependsOn[p] : \A k \in 1 .. (i - 1) : ordered'[k] # d
    BY <1>1, <1>2, <1>3 DEF Waiting
  <2>2. p \in plugins \ Ordered /\ p # c
    BY <1>1, <2>1
  <2>3. CASE i \in 1 .. n
    <3>1. PICK d \in dependsOn[p] : \A k \in 1 .. (i - 1) : ordered[k] # d
      BY <1>1, <1>4, <2>1, <2>2, <2>3 DEF Waiting
    <3>2. QED
      BY <1>1, <2>3, <3>1
  <2>4. CASE i = n + 1
    <3>1. ~ Precedes(c, p)
      <4>1. TypeOK
        BY DEF IInv
      <4>2. c \in PluginName /\ p \in PluginName /\ Precedes(p, c)
        BY <1>1, <2>1, <2>2, <2>4, <4>1 DEF TypeOK
      <4>3. QED
        BY <4>1, <4>2, PrecedesOrder
    <3>2. p \notin ready
      BY <1>1, <2>2, <3>1
    <3>3. PICK d \in dependsOn[p] : d \notin Ordered
      BY <2>2, <3>2 DEF IInv, Counting, Shift
    <3>4. QED
      BY <1>1, <2>4, <3>3 DEF Ordered
  <2>5. QED
    BY <1>1, <2>3, <2>4
<1>10. QED
  BY <1>6, <1>7, <1>8, <1>9

(***************************************************************************)
(* One iteration of the loop preserves the invariant.                      *)
(***************************************************************************)
LEMMA ShiftIInv ==
  ASSUME IInv, Shift
  PROVE  IInv'
<1>1. UNCHANGED <<plugins, dependsOn, priority, resolution>> /\ resolution = "sorting"
  BY DEF Shift
<1>2. TypeOK'
  <2>1. ready' \in SUBSET plugins /\ ordered' \in Seq(plugins)
    BY ShiftEffect, ShiftCounts
  <2>2. pending' \in [PluginName -> Nat]
    BY ShiftCounts
  <2>3. QED
    BY <1>1, <2>1, <2>2 DEF IInv, TypeOK
<1>3. Counting'
  BY <1>1, ShiftCounts DEF IInv, Counting
<1>4. Verdict'
  BY <1>1 DEF Verdict
<1>5. QED
  BY <1>2, <1>3, <1>4, ShiftOrder DEF IInv

(***************************************************************************)
(* The other steps leave the result alone.                                 *)
(***************************************************************************)
LEMMA OrderKept ==
  ASSUME NoRepeats, DependenciesFirst, UrgentFirst, Waiting,
         UNCHANGED <<plugins, dependsOn, priority, ordered>>
  PROVE  NoRepeats' /\ DependenciesFirst' /\ UrgentFirst' /\ Waiting'
<1>1. \A p, q : Precedes(p, q)' = Precedes(p, q)
  BY DEF Precedes, Weight
<1>2. QED
  BY <1>1 DEF NoRepeats, DependenciesFirst, UrgentFirst, Waiting, Ordered

(***************************************************************************)
(* Counting the dependencies, which begins the sort, preserves the         *)
(* invariant.                                                              *)
(***************************************************************************)
LEMMA CountDependenciesIInv ==
  ASSUME IInv, CountDependencies
  PROVE  IInv'
<1>1. ordered = <<>> /\ ordered' = <<>> /\ resolution' = "sorting"
  BY DEF IInv, Verdict, CountDependencies
<1>2. UNCHANGED <<plugins, dependsOn, priority, ordered>>
  BY <1>1 DEF CountDependencies
<1>3. Ordered' = {}
  BY <1>1 DEF Ordered
<1>4. \A p \in plugins : IsFiniteSet(dependsOn[p])
  BY NamesAssumption, FS_Subset DEF IInv, TypeOK
<1>5. TypeOK'
  <2>1. \A p \in plugins : Cardinality(dependsOn[p]) \in Nat
    BY <1>4, FS_CardinalityType
  <2>2. pending' \in [PluginName -> Nat]
    BY <2>1 DEF CountDependencies
  <2>3. QED
    BY <1>1, <1>2, <2>2 DEF IInv, TypeOK, CountDependencies
<1>6. Counting'
  <2>1. \A p \in plugins : /\ dependsOn[p] \subseteq plugins
                           /\ pending'[p] = Cardinality(dependsOn[p] \ Ordered')
    BY <1>3 DEF IInv, TypeOK, CountDependencies
  <2>2. ready' = {p \in plugins \ Ordered' : dependsOn[p] \subseteq Ordered'}
    BY <1>3 DEF CountDependencies
  <2>3. QED
    BY <1>2, <2>1, <2>2 DEF Counting
<1>7. Verdict'
  BY <1>1 DEF Verdict
<1>8. QED
  BY <1>2, <1>5, <1>6, <1>7, OrderKept DEF IInv

(***************************************************************************)
(* Throwing for a missing dependency, and the length check after the       *)
(* loop, preserve the invariant.                                           *)
(***************************************************************************)
LEMMA VerdictStepsIInv ==
  ASSUME IInv, RejectMissing \/ Finish \/ UNCHANGED resolverVars
  PROVE  IInv'
<1>1. UNCHANGED <<plugins, dependsOn, priority, pending, ready, ordered>>
  BY DEF RejectMissing, Finish, resolverVars
<1>2. TypeOK'
  BY <1>1 DEF IInv, TypeOK, RejectMissing, Finish, resolverVars
<1>3. Ordered' = Ordered
  BY <1>1 DEF Ordered
<1>4. Counting'
  BY <1>1, <1>3 DEF IInv, Counting, RejectMissing, Finish, resolverVars
<1>5. Verdict'
  BY <1>1 DEF IInv, Verdict, RejectMissing, Finish, resolverVars
<1>6. QED
  BY <1>1, <1>2, <1>4, <1>5, OrderKept DEF IInv

(***************************************************************************)
(* Every step of resolve preserves the invariant.                          *)
(***************************************************************************)
LEMMA StepIInv == IInv /\ [ResolveStep]_resolverVars => IInv'
BY ShiftIInv, CountDependenciesIInv, VerdictStepsIInv DEF ResolveStep

(***************************************************************************)
(* The invariant holds in every reachable state of the resolver.           *)
(***************************************************************************)
THEOREM Invariance == Spec => []IInv
BY InitIInv, StepIInv, PTL DEF Spec

(***************************************************************************)
(* Type correctness; in particular no dependency count goes below zero.    *)
(***************************************************************************)
THEOREM TypeCorrect == Spec => []TypeOK
<1>1. IInv => TypeOK
  BY DEF IInv
<1>2. QED
  BY <1>1, Invariance, PTL

(***************************************************************************)
(* Whatever the graph and the priorities, a plugin comes after all it      *)
(* depends on.                                                             *)
(***************************************************************************)
THEOREM DependenciesComeFirst == Spec => []DependenciesFirst
<1>1. IInv => DependenciesFirst
  BY DEF IInv
<1>2. QED
  BY <1>1, Invariance, PTL

(***************************************************************************)
(* A more urgent plugin is overtaken only while a dependency holds it      *)
(* back.                                                                   *)
(***************************************************************************)
THEOREM UrgentComeFirst == Spec => []UrgentFirst
<1>1. IInv => UrgentFirst
  BY DEF IInv
<1>2. QED
  BY <1>1, Invariance, PTL
-----------------------------------------------------------------------------

(***************************************************************************)
(* The test at the end of resolve compares two lengths; it decides whether *)
(* every plugin was ordered because the result has no repetition.          *)
(***************************************************************************)
LEMMA LengthsDecide ==
  ASSUME IInv
  PROVE  Len(ordered) = Cardinality(plugins) <=> Ordered = plugins
<1> DEFINE n == Len(ordered)
<1>1. /\ n \in Nat
      /\ DOMAIN ordered = 1 .. n
      /\ ordered \in [1 .. n -> plugins]
      /\ IsFiniteSet(plugins)
  BY NamesAssumption, FS_Subset, LenProperties DEF IInv, TypeOK
<1>2. ordered \in Injection(1 .. n, plugins)
  BY <1>1 DEF IInv, NoRepeats, Injection, IsInjective
<1>3. Cardinality(1 .. n) = n
  BY <1>1, FS_Interval
<1>4. n = Cardinality(plugins) <=> ordered \in Surjection(1 .. n, plugins)
  <2> HIDE DEF n
  <2>1. QED
    BY <1>1, <1>2, <1>3, FS_Injection
<1>5. ordered \in Surjection(1 .. n, plugins) <=> Ordered = plugins
  BY <1>1 DEF Surjection, Ordered
<1>6. QED
  BY <1>4, <1>5

(***************************************************************************)
(* A set of plugins each waiting for another of the set cannot have a      *)
(* first member in a result that puts dependencies first.                  *)
(***************************************************************************)
LEMMA OrderedIsAcyclic ==
  ASSUME IInv, Ordered = plugins
  PROVE  ~ HasCycle
<1> DEFINE n == Len(ordered)
<1>1. n \in Nat /\ DOMAIN ordered = 1 .. n
  BY LenProperties DEF IInv, TypeOK
<1>2. SUFFICES ASSUME NEW S \in SUBSET plugins, S # {},
                      \A p \in S : dependsOn[p] \cap S # {}
               PROVE  FALSE
  BY DEF HasCycle
<1> DEFINE Prefix(i) == 1 .. i
           Places == {i \in 1 .. n : ordered[i] \in S}
           Family == {Prefix(i) : i \in Places}
<1>3. Places # {}
  BY <1>1, <1>2 DEF Ordered
<1>4. Family \subseteq FiniteSubsetsOf(1 .. n) /\ Family # {}
  <2>1. FiniteSubsetsOf(1 .. n) = SUBSET (1 .. n)
    <3>1. IsFiniteSet(1 .. n)
      BY <1>1, FS_Interval
    <3> HIDE DEF n
    <3>2. QED
      BY <3>1, FS_FiniteSubsetsOfFinite
  <2>2. \A i \in Places : Prefix(i) \in SUBSET (1 .. n)
    BY <1>1
  <2> HIDE DEF Prefix, Places
  <2>3. QED
    BY <2>1, <2>2, <1>3
<1>5. PICK T \in Family : \A U \in Family : ~ (<<U, T>> \in StrictSubsetOrdering(1 .. n))
  <2> HIDE DEF Family
  <2>1. QED
    BY <1>4, FS_StrictSubsetOrderingWellFounded, WFMin
<1>6. PICK j \in Places : T = Prefix(j)
  OBVIOUS
<1>7. PICK d \in dependsOn[ordered[j]] : d \in S
  BY <1>2, <1>6
<1>8. PICK i \in 1 .. (j - 1) : ordered[i] = d
  BY <1>1, <1>6, <1>7 DEF IInv, DependenciesFirst
<1>9. i \in Places /\ Prefix(i) \in Family
  BY <1>1, <1>6, <1>7, <1>8
<1>10. <<Prefix(i), Prefix(j)>> \in StrictSubsetOrdering(1 .. n)
  <2>1. Prefix(i) \subseteq Prefix(j) /\ j \in Prefix(j) /\ j \notin Prefix(i)
    BY <1>1, <1>6, <1>8
  <2>2. Prefix(i) \in SUBSET (1 .. n) /\ Prefix(j) \in SUBSET (1 .. n)
    BY <1>1, <1>6, <1>9
  <2> HIDE DEF Prefix
  <2>3. QED
    BY <2>1, <2>2 DEF StrictSubsetOrdering
<1>11. QED
  BY <1>5, <1>6, <1>9, <1>10

(***************************************************************************)
(* The outcome of resolve tells whether the plugins can be ordered.        *)
(***************************************************************************)
LEMMA VerdictFollows ==
  ASSUME IInv
  PROVE  VerdictSound
<1>1. resolution = "ok" => Ordered = plugins /\ ~ HasCycle
  BY LengthsDecide, OrderedIsAcyclic DEF IInv, Verdict
<1>2. resolution = "missing" => \E p \in plugins : ~ (dependsOn[p] \subseteq plugins)
  BY DEF IInv, Verdict
<1>3. ASSUME resolution = "circular"
      PROVE  HasCycle
  <2>1. Ordered # plugins /\ ready = {}
    BY <1>3, LengthsDecide DEF IInv, Verdict
  <2>2. Ordered \subseteq plugins
    BY DEF IInv, TypeOK, Ordered
  <2>3. /\ \A p \in plugins : dependsOn[p] \subseteq plugins
        /\ \A p \in plugins \ Ordered : ~ (dependsOn[p] \subseteq Ordered)
    BY <1>3, <2>1 DEF IInv, Counting
  <2>4. \A p \in plugins \ Ordered : dependsOn[p] \cap (plugins \ Ordered) # {}
    BY <2>3
  <2>5. QED
    BY <2>1, <2>2, <2>4 DEF HasCycle
<1>4. QED
  BY <1>1, <1>2, <1>3 DEF VerdictSound

(***************************************************************************)
(* resolve returns every plugin of an acyclic graph and throws with the    *)
(* right cause on any other.                                               *)
(***************************************************************************)
THEOREM VerdictIsSound == Spec => []VerdictSound
<1>1. IInv => VerdictSound
  BY VerdictFollows
<1>2. QED
  BY <1>1, Invariance, PTL

-----------------------------------------------------------------------------

(***************************************************************************)
(* 2. The kernel.                                                          *)
(***************************************************************************)

(***************************************************************************)
(* The inductive invariant.                                                *)
(*                                                                         *)
(* The resolver works on the plugins of this start().                      *)
(***************************************************************************)
GraphIsActive ==
  /\ plugins = Names(active)
  /\ \A p \in active : dependsOn[p.name] = p.dependsOn

Untouched == \A n \in PluginName : registered[n] = "none" /\ loaded[n] = "none"

\* Where start() is tells how the resolution ended, and the other way round.
PhaseFits ==
  /\ phase \in {"idle", "resolving"} => next = 1 /\ Untouched
  /\ phase \in {"registering", "loading", "bootstrapping", "ready"} => resolution = "ok"
  /\ phase = "failed" /\ resolution # "ok" => Untouched
  /\ phase = "ready" => next > Len(ordered)
  /\ phase = "bootstrapping" => /\ next \in DOMAIN ordered
                                /\ ordered[next] = BootstrapLoader
                                /\ Current.load

\* The pass that wrote `outcome` got past plugin n.
Passed(outcome, n) ==
  outcome[n] = "ok" \/ (outcome[n] = "failed" /\ Tolerated(Object(n)))

\* In the first pass the plugins before `next` are registered, the rest is
\* untouched.
RegisterProgress ==
  phase = "registering" =>
    /\ \A i \in DOMAIN ordered :
         IF i < next THEN Object(ordered[i]).register => Passed(registered, ordered[i])
                     ELSE registered[ordered[i]] = "none"
    /\ \A n \in PluginName : loaded[n] = "none"

\* In the second all are registered, and those before `next` are loaded.
LoadProgress ==
  phase \in {"loading", "bootstrapping", "ready"} =>
    /\ \A i \in DOMAIN ordered :
         /\ Object(ordered[i]).register => Passed(registered, ordered[i])
         /\ IF i < next THEN Object(ordered[i]).load => Passed(loaded, ordered[i])
                        ELSE loaded[ordered[i]] = "none"
    /\ \A n \in PluginName \ Ordered : loaded[n] = "none"

(***************************************************************************)
(* "names of plugins that must register first" (Plugin.dependsOn): no      *)
(* plugin is registered or loaded before those it depends on have been     *)
(* tried, and no plugin is loaded before every plugin was registered.      *)
(***************************************************************************)
DependenciesReadyFirst ==
  \A p, q \in active :
    /\ q.name \in p.dependsOn /\ q.register /\ registered[p.name] # "none"
         => registered[q.name] # "none"
    /\ q.name \in p.dependsOn /\ q.load /\ loaded[p.name] # "none"
         => loaded[q.name] # "none"
    /\ q.register /\ loaded[p.name] # "none"
         => registered[q.name] # "none"

(***************************************************************************)
(* start() throws for one reason, and nothing runs after it: either the    *)
(* graph cannot be ordered and no plugin was touched, or the plugin at     *)
(* `next` failed, may not fail, and no later plugin was reached.           *)
(***************************************************************************)
FailureStopsThere ==
  phase = "failed" =>
    IF resolution # "ok"
      THEN \A p \in active : registered[p.name] = "none" /\ loaded[p.name] = "none"
      ELSE /\ next \in DOMAIN ordered
           /\ ~ Tolerated(Current)
           /\ \/ /\ loaded[ordered[next]] = "failed"
                 /\ \A i \in DOMAIN ordered : i > next => loaded[ordered[i]] = "none"
              \/ /\ registered[ordered[next]] = "failed"
                 /\ \A i \in DOMAIN ordered : i > next => registered[ordered[i]] = "none"
                 /\ \A p \in active : loaded[p.name] = "none"

\* What a load() found has run its decorators, and the bootstrap store has an
\* entry for every bootstrap that should run.
StoreIsComplete ==
  /\ Imported \subseteq metadata
  /\ \A n \in PluginName : found[n] \subseteq metadata
  /\ phase # "idle" => \A b \in Bootstrap \cap Imported : store[b] > 0
  /\ \A n \in PluginName : loaded[n] = "ok" =>
       \A b \in Bootstrap \cap found[n] : store[b] > 0

\* The bootstrap loader has run an entry or will come to it.
LoopCoversStore ==
  phase = "bootstrapping" =>
    \A b \in Bootstrap : store[b] > 0 => todo[b] > 0 \/ attempts[b] > 0

KInv ==
  /\ IInv
  /\ KernelTypeOK
  /\ GraphIsActive
  /\ PhaseFits
  /\ RegisterProgress
  /\ LoadProgress
  /\ DependenciesReadyFirst
  /\ FailureStopsThere
  /\ StoreIsComplete
  /\ LoopCoversStore
  /\ LeftOutByFailure
  /\ BootstrapsReached
-----------------------------------------------------------------------------

(***************************************************************************)
(* The plugin of a name is the one `active` holds.                         *)
(***************************************************************************)
LEMMA ObjectIsPlugin ==
  ASSUME OneOfAName(active), NEW p \in active
  PROVE  Object(p.name) = p
BY DEF OneOfAName, Object

(***************************************************************************)
(* After a successful resolution every plugin of the start() has its one   *)
(* place in the result, behind the plugins it depends on.                  *)
(***************************************************************************)
LEMMA Places ==
  ASSUME KInv, resolution = "ok"
  PROVE  /\ Ordered = Names(active)
         /\ Len(ordered) \in Nat /\ DOMAIN ordered = 1 .. Len(ordered)
         /\ \A i \in DOMAIN ordered : /\ ordered[i] \in PluginName
                                      /\ Object(ordered[i]) \in active
                                      /\ Object(ordered[i]).name = ordered[i]
         /\ \A p \in active : \E i \in DOMAIN ordered : ordered[i] = p.name
         /\ \A i, j \in DOMAIN ordered : ordered[i] = ordered[j] => i = j
         /\ \A j \in DOMAIN ordered : \A d \in Object(ordered[j]).dependsOn :
              \E i \in 1 .. (j - 1) : ordered[i] = d
<1>1. Ordered = plugins /\ plugins = Names(active)
  BY LengthsDecide DEF KInv, GraphIsActive, IInv, Verdict
<1>2. Len(ordered) \in Nat /\ DOMAIN ordered = 1 .. Len(ordered)
  BY LenProperties DEF KInv, IInv, TypeOK
<1>3. OneOfAName(active)
  BY DEF KInv, KernelTypeOK
<1>4. \A i \in DOMAIN ordered : ordered[i] \in Names(active)
  BY <1>1 DEF Ordered
<1>5. ASSUME NEW i \in DOMAIN ordered
      PROVE  /\ ordered[i] \in PluginName
             /\ Object(ordered[i]) \in active
             /\ Object(ordered[i]).name = ordered[i]
  <2>1. ordered[i] \in PluginName
    BY <1>1, <1>4 DEF KInv, IInv, TypeOK
  <2>2. PICK p \in active : p.name = ordered[i]
    BY <1>4 DEF Names
  <2>3. QED
    BY <1>3, <2>1, <2>2, ObjectIsPlugin
<1>6. \A p \in active : \E i \in DOMAIN ordered : ordered[i] = p.name
  BY <1>1 DEF Ordered, Names
<1>7. \A i, j \in DOMAIN ordered : ordered[i] = ordered[j] => i = j
  BY DEF KInv, IInv, NoRepeats
<1>8. \A j \in DOMAIN ordered : \A d \in Object(ordered[j]).dependsOn :
        \E i \in 1 .. (j - 1) : ordered[i] = d
  BY <1>5 DEF KInv, IInv, DependenciesFirst, GraphIsActive
<1>9. QED
  BY <1>1, <1>2, <1>5, <1>6, <1>7, <1>8

(***************************************************************************)
(* The passes leave the plugins and their order alone.                     *)
(***************************************************************************)
LEMMA PassesKeep ==
  ASSUME KInv, UNCHANGED <<resolverVars, programVars>>
  PROVE  /\ IInv'
         /\ GraphIsActive'
         /\ Ordered' = Ordered
         /\ \A n : Object(n)' = Object(n)
         /\ \A p : Tolerated(p)' = Tolerated(p)
<1>1. IInv'
  BY StepIInv DEF KInv
<1>2. GraphIsActive'
  BY DEF KInv, GraphIsActive, Names, resolverVars, programVars
<1>3. Ordered' = Ordered
  BY DEF Ordered, resolverVars
<1>4. \A n : Object(n)' = Object(n)
  BY DEF Object, programVars
<1>5. \A p : Tolerated(p)' = Tolerated(p)
  BY DEF Tolerated, programVars
<1>6. QED
  BY <1>1, <1>2, <1>3, <1>4, <1>5

(***************************************************************************)
(* shouldFailFast() is the negation of what the docs tolerate.             *)
(***************************************************************************)
LEMMA FailFastOrTolerated ==
  ASSUME KernelTypeOK, NEW p \in active
  PROVE  ShouldFailFast(p) <=> ~ Tolerated(p)
<1>1. p.critical \in {"yes", "no", "unset"} /\ failFast \in {"on", "off", "unset"}
  BY KernelAssumption DEF KernelTypeOK, Plugin
<1>2. QED
  BY <1>1 DEF ShouldFailFast, Tolerated

(***************************************************************************)
(* registerServices() puts what it is given into the container, and every  *)
(* bootstrap of it into the store.                                         *)
(***************************************************************************)
LEMMA RegisterServicesEffect ==
  ASSUME KernelTypeOK, NEW services \in SUBSET Service, RegisterServices(services)
  PROVE  /\ container' \in SUBSET Service
         /\ store' \in [Bootstrap -> Nat]
         /\ container \subseteq container' /\ services \subseteq container'
         /\ \A b \in Bootstrap : store[b] > 0 => store'[b] > 0
         /\ \A b \in Bootstrap \cap services : store'[b] > 0
<1>1. store \in [Bootstrap -> Nat] /\ container \in SUBSET Service
  BY DEF KernelTypeOK
<1>2. /\ container' = container \cup services
      /\ store' = [b \in Bootstrap |-> IF b \in services THEN store[b] + 1 ELSE store[b]]
  BY DEF RegisterServices
<1>3. QED
  BY <1>1, <1>2
-----------------------------------------------------------------------------

(***************************************************************************)
(* Nothing has been added or started.                                      *)
(***************************************************************************)
LEMMA KernelInitKInv == KernelInit => KInv
<1> SUFFICES ASSUME KernelInit
             PROVE  KInv
  OBVIOUS
<1>1. IInv
  <2>1. Init
    BY NamesAssumption DEF KernelInit, Init
  <2>2. QED
    BY <2>1, InitIInv
<1>2. KernelTypeOK
  <2>1. TypeOK
    BY <1>1 DEF IInv
  <2>2. ordered = <<>> /\ Len(ordered) = 0
    BY DEF KernelInit, ResolverIdle
  <2>3. next \in 1 .. (Len(ordered) + 1)
    BY <2>2 DEF KernelInit
  <2>4. starts \in 0 .. MaxStarts
    BY KernelAssumption DEF KernelInit
  <2>5. QED
    BY <2>1, <2>3, <2>4, KernelAssumption DEF KernelInit, KernelTypeOK, OneOfAName, Outcome
<1>3. GraphIsActive /\ PhaseFits
  BY DEF KernelInit, GraphIsActive, PhaseFits, Names, Untouched
<1>4. RegisterProgress /\ LoadProgress /\ LoopCoversStore /\ FailureStopsThere
  BY DEF KernelInit, RegisterProgress, LoadProgress, LoopCoversStore, FailureStopsThere
<1>5. DependenciesReadyFirst
  BY DEF KernelInit, DependenciesReadyFirst
<1>6. StoreIsComplete /\ LeftOutByFailure /\ BootstrapsReached
  BY KernelAssumption DEF KernelInit, StoreIsComplete, LeftOutByFailure, BootstrapsReached
<1>7. QED
  BY <1>1, <1>2, <1>3, <1>4, <1>5, <1>6 DEF KInv

(***************************************************************************)
(* use() and register() keep the first plugin of a name.                   *)
(***************************************************************************)
LEMMA AddKeepsNames ==
  ASSUME NEW S \in SUBSET Catalog, OneOfAName(S), NEW p \in Catalog
  PROVE  Add(S, p) \in SUBSET Catalog /\ OneOfAName(Add(S, p))
BY DEF Add, OneOfAName, Names

(***************************************************************************)
(* Plugins added do not concern the start() that has run or is running.    *)
(***************************************************************************)
LEMMA AddKInv ==
  ASSUME KInv, NEW p \in Catalog, Use(p) \/ RegisterLegacy(p)
  PROVE  KInv'
<1>1. UNCHANGED <<resolverVars, failFast, active, starts, phase, next, serviceVars,
                  bootVars, outcomeVars>>
  BY DEF Use, RegisterLegacy
<1>2. IInv'
  BY <1>1, StepIInv DEF KInv
<1>3. /\ instancePlugins' \in SUBSET Catalog /\ OneOfAName(instancePlugins')
      /\ legacyPlugins' \in SUBSET Catalog /\ OneOfAName(legacyPlugins')
  <2>1. /\ instancePlugins \in SUBSET Catalog /\ OneOfAName(instancePlugins)
        /\ legacyPlugins \in SUBSET Catalog /\ OneOfAName(legacyPlugins)
    BY DEF KInv, KernelTypeOK
  <2>2. CASE Use(p)
    BY <2>1, <2>2, AddKeepsNames DEF Use
  <2>3. CASE RegisterLegacy(p)
    BY <2>1, <2>3, AddKeepsNames DEF RegisterLegacy
  <2>4. QED
    BY <2>2, <2>3
<1>4. KernelTypeOK'
  BY <1>1, <1>2, <1>3 DEF KInv, IInv, KernelTypeOK, OneOfAName, resolverVars, serviceVars,
     bootVars, outcomeVars
<1>5. GraphIsActive' /\ PhaseFits' /\ RegisterProgress' /\ LoadProgress'
  BY <1>1 DEF KInv, GraphIsActive, PhaseFits, RegisterProgress, LoadProgress, Untouched,
     Passed, Tolerated, Current, Object, Names, Ordered, resolverVars, outcomeVars
<1>6. DependenciesReadyFirst' /\ FailureStopsThere'
  BY <1>1 DEF KInv, DependenciesReadyFirst, FailureStopsThere, Tolerated, Current, Object,
     resolverVars, outcomeVars
<1>7. StoreIsComplete' /\ LoopCoversStore' /\ LeftOutByFailure' /\ BootstrapsReached'
  BY <1>1 DEF KInv, StoreIsComplete, LoopCoversStore, LeftOutByFailure, BootstrapsReached,
     resolverVars, serviceVars, bootVars, outcomeVars
<1>8. QED
  BY <1>2, <1>4, <1>5, <1>6, <1>7 DEF KInv

(***************************************************************************)
(* A call of resolve begins in the resolver's invariant, whatever an       *)
(* earlier call has left.                                                  *)
(***************************************************************************)
LEMMA ResetIInv ==
  ASSUME ResolverReset,
         plugins' \in SUBSET PluginName,
         dependsOn' \in [PluginName -> SUBSET PluginName],
         priority' \in [PluginName -> Priorities \cup {NoPriority}]
  PROVE  IInv'
<1>1. ordered' = <<>> /\ DOMAIN ordered' = {} /\ resolution' = "idle"
  BY DEF ResolverReset
<1>2. TypeOK'
  BY DEF ResolverReset, TypeOK
<1>3. Counting' /\ Verdict'
  BY <1>1 DEF Counting, Verdict
<1>4. NoRepeats' /\ DependenciesFirst' /\ UrgentFirst' /\ Waiting'
  BY <1>1 DEF NoRepeats, DependenciesFirst, UrgentFirst, Waiting
<1>5. QED
  BY <1>2, <1>3, <1>4 DEF IInv

(***************************************************************************)
(* The merged list has no two plugins of a name either.                    *)
(***************************************************************************)
LEMMA MergedIsCatalog ==
  ASSUME KernelTypeOK
  PROVE  Merged \in SUBSET Catalog /\ OneOfAName(Merged)
BY DEF KernelTypeOK, Merged, OneOfAName, Names

(***************************************************************************)
(* start() hands the merged plugins to resolve and forgets what an earlier *)
(* start() did.                                                            *)
(***************************************************************************)
LEMMA StartKInv ==
  ASSUME KInv, Start
  PROVE  KInv'
<1>1. /\ phase' = "resolving" /\ next' = 1 /\ starts' = starts + 1 /\ starts < MaxStarts
      /\ active' = Merged /\ legacyPlugins' = {}
      /\ registered' = [n \in PluginName |-> "none"]
      /\ loaded' = [n \in PluginName |-> "none"]
      /\ found' = [n \in PluginName |-> {}]
      /\ RegisterServices(metadata) /\ ResolverReset
      /\ UNCHANGED <<failFast, instancePlugins, metadata, bootVars>>
  BY DEF Start
<1>2. KernelTypeOK /\ metadata \in SUBSET Service /\ Imported \subseteq metadata
  BY DEF KInv, KernelTypeOK, StoreIsComplete
<1>3. Merged \in SUBSET Catalog /\ OneOfAName(Merged)
  BY <1>2, MergedIsCatalog
<1>4. \A p \in Merged : /\ p.name \in PluginName
                         /\ p.dependsOn \in SUBSET PluginName
                         /\ p.priority \in Priorities \cup {NoPriority}
  BY <1>3, KernelAssumption DEF Plugin
<1>5. IInv'
  <2>1. plugins' \in SUBSET PluginName
    BY <1>4 DEF Start, Names
  <2>2. dependsOn' \in [PluginName -> SUBSET PluginName]
    <3>1. \A n \in PluginName :
            UNION {p.dependsOn : p \in {q \in Merged : q.name = n}} \in SUBSET PluginName
      BY <1>4
    <3>2. QED
      BY <3>1 DEF Start
  <2>3. priority' \in [PluginName -> Priorities \cup {NoPriority}]
    <3>1. \A n \in Names(Merged) :
            (CHOOSE p \in Merged : p.name = n).priority \in Priorities \cup {NoPriority}
      BY <1>4 DEF Names
    <3>2. QED
      BY <3>1 DEF Start
  <2>4. QED
    BY <1>1, <2>1, <2>2, <2>3, ResetIInv
<1>6. ordered' = <<>> /\ Len(ordered') = 0
  BY <1>1 DEF ResolverReset
<1>7. /\ container' \in SUBSET Service /\ store' \in [Bootstrap -> Nat]
      /\ metadata \subseteq container'
      /\ \A b \in Bootstrap \cap metadata : store'[b] > 0
  BY <1>1, <1>2, RegisterServicesEffect
<1>8. KernelTypeOK'
  <2>1. next' \in 1 .. (Len(ordered') + 1)
    BY <1>1, <1>6
  <2>2. starts' \in 0 .. MaxStarts
    BY <1>1, <1>2, KernelAssumption DEF KernelTypeOK
  <2>3. OneOfAName(active') /\ OneOfAName(legacyPlugins') /\ OneOfAName(instancePlugins')
    BY <1>1, <1>2, <1>3 DEF KernelTypeOK, OneOfAName
  <2>4. TypeOK'
    BY <1>5 DEF IInv
  <2>5. QED
    BY <1>1, <1>2, <1>3, <1>7, <2>1, <2>2, <2>3, <2>4
    DEF KernelTypeOK, Outcome, bootVars, OneOfAName
<1>9. GraphIsActive'
  <2>1. plugins' = Names(active)'
    BY <1>1 DEF Start, Names
  <2>2. ASSUME NEW p \in Merged
        PROVE  dependsOn'[p.name] = p.dependsOn
    <3>1. {q \in Merged : q.name = p.name} = {p}
      BY <1>3 DEF OneOfAName
    <3>2. dependsOn'[p.name] = UNION {r.dependsOn : r \in {q \in Merged : q.name = p.name}}
      BY <1>4 DEF Start
    <3>3. QED
      BY <3>1, <3>2
  <2>3. QED
    BY <1>1, <2>1, <2>2 DEF GraphIsActive
<1>10. PhaseFits' /\ RegisterProgress' /\ LoadProgress' /\ LoopCoversStore' /\ FailureStopsThere'
  BY <1>1 DEF PhaseFits, Untouched, RegisterProgress, LoadProgress, LoopCoversStore,
     FailureStopsThere
<1>11. DependenciesReadyFirst'
  <2>1. \A p \in active' : registered'[p.name] = "none" /\ loaded'[p.name] = "none"
    BY <1>1, <1>4
  <2>2. QED
    BY <2>1 DEF DependenciesReadyFirst
<1>12. StoreIsComplete' /\ LeftOutByFailure' /\ BootstrapsReached'
  <2>1. loaded'[BootstrapLoader] = "none"
    BY <1>1, KernelAssumption
  <2>2. QED
    BY <1>1, <1>2, <1>7, <2>1 DEF StoreIsComplete, LeftOutByFailure, BootstrapsReached
<1>13. QED
  BY <1>5, <1>8, <1>9, <1>10, <1>11, <1>12 DEF KInv

(***************************************************************************)
(* While the plugins are being ordered, none is touched.                   *)
(***************************************************************************)
LEMMA ResolveKInv ==
  ASSUME KInv, Resolve
  PROVE  KInv'
<1>1. phase = "resolving" /\ ResolveStep /\ UNCHANGED kernelVars
  BY DEF Resolve
<1>2. IInv'
  BY <1>1, StepIInv DEF KInv
<1>3. UNCHANGED <<plugins, dependsOn, priority>>
  BY <1>1 DEF ResolveStep, RejectMissing, CountDependencies, Shift, Finish
<1>4. UNCHANGED <<failFast, instancePlugins, legacyPlugins, active, starts, phase, next,
                  metadata, container, store, todo, attempts, registered, loaded,
                  found>>
  BY <1>1 DEF kernelVars, programVars, serviceVars, bootVars, outcomeVars
<1>5. next = 1 /\ Untouched
  BY <1>1 DEF KInv, PhaseFits
<1>6. KernelTypeOK'
  <2>1. TypeOK' /\ Len(ordered') \in Nat
    BY <1>2, LenProperties DEF IInv, TypeOK
  <2>2. next' \in 1 .. (Len(ordered') + 1)
    BY <1>4, <1>5, <2>1
  <2>3. QED
    BY <1>4, <2>1, <2>2 DEF KInv, KernelTypeOK, OneOfAName
<1>7. GraphIsActive'
  BY <1>3, <1>4 DEF KInv, GraphIsActive, Names
<1>8. PhaseFits' /\ RegisterProgress' /\ LoadProgress' /\ LoopCoversStore' /\ FailureStopsThere'
  BY <1>1, <1>4, <1>5 DEF PhaseFits, Untouched, RegisterProgress, LoadProgress,
     LoopCoversStore, FailureStopsThere
<1>9. DependenciesReadyFirst'
  BY <1>4 DEF KInv, DependenciesReadyFirst
<1>10. StoreIsComplete' /\ LeftOutByFailure' /\ BootstrapsReached'
  <2>1. metadata \subseteq container
    <3>1. \A i \in DOMAIN ordered : loaded[ordered[i]] # "failed"
      <4>1. ordered \in Seq(PluginName)
        BY DEF KInv, IInv, TypeOK
      <4>2. QED
        BY <1>5, <4>1 DEF Untouched
    <3>2. QED
      BY <1>1, <3>1 DEF KInv, LeftOutByFailure
  <2>2. LeftOutByFailure'
    BY <1>4, <2>1 DEF LeftOutByFailure
  <2>3. StoreIsComplete' /\ BootstrapsReached'
    BY <1>3, <1>4 DEF KInv, StoreIsComplete, BootstrapsReached
  <2>4. QED
    BY <2>2, <2>3
<1>11. QED
  BY <1>2, <1>6, <1>7, <1>8, <1>9, <1>10 DEF KInv

(***************************************************************************)
(* The resolution is over: the first pass begins, or start() throws.       *)
(***************************************************************************)
LEMMA ResolvedKInv ==
  ASSUME KInv, Resolved \/ ResolveThrows
  PROVE  KInv'
<1>1. /\ UNCHANGED <<resolverVars, programVars>>
      /\ UNCHANGED <<next, metadata, container, store, todo, attempts, registered, loaded,
                  found>>
  BY DEF Resolved, ResolveThrows, serviceVars, bootVars, outcomeVars
<1>2. /\ phase = "resolving"
      /\ \/ phase' = "registering" /\ resolution = "ok"
         \/ phase' = "failed" /\ resolution # "ok"
  BY DEF Resolved, ResolveThrows
<1>3. next = 1 /\ Untouched
  BY <1>2 DEF KInv, PhaseFits
<1>4. UNCHANGED <<resolution, ordered, dependsOn, failFast, instancePlugins, legacyPlugins,
                  active, starts>>
  BY <1>1 DEF resolverVars, programVars
<1>5. IInv' /\ GraphIsActive' /\ TypeOK'
  BY <1>1, PassesKeep DEF IInv
<1>6. KernelTypeOK'
  BY <1>1, <1>2, <1>4, <1>5 DEF KInv, KernelTypeOK, OneOfAName
<1>7. PhaseFits' /\ LoadProgress' /\ LoopCoversStore'
  BY <1>1, <1>2, <1>3, <1>4 DEF PhaseFits, Untouched, LoadProgress, LoopCoversStore
<1>8. \A n \in PluginName : registered'[n] = "none" /\ loaded'[n] = "none"
  BY <1>1, <1>3 DEF Untouched
<1>9. \A p \in active : p.name \in PluginName
  BY KernelAssumption DEF KInv, KernelTypeOK, Plugin
<1>10. RegisterProgress'
  <2>1. CASE phase' = "failed"
    BY <2>1 DEF RegisterProgress
  <2>2. CASE resolution = "ok"
    <3>1. DOMAIN ordered = 1 .. Len(ordered) /\ \A i \in DOMAIN ordered : ordered[i] \in PluginName
      BY <2>2, Places
    <3>2. \A i \in DOMAIN ordered : ~ (i < next)
      BY <1>3, <3>1
    <3>3. QED
      BY <1>1, <1>4, <1>8, <3>1, <3>2 DEF RegisterProgress
  <2>3. QED
    BY <1>2, <2>1, <2>2
<1>11. DependenciesReadyFirst' /\ FailureStopsThere'
  BY <1>2, <1>4, <1>8, <1>9 DEF DependenciesReadyFirst, FailureStopsThere
<1>12. StoreIsComplete' /\ LeftOutByFailure' /\ BootstrapsReached'
  BY <1>1, <1>2, <1>4 DEF KInv, StoreIsComplete, LeftOutByFailure, BootstrapsReached
<1>13. QED
  BY <1>5, <1>6, <1>7, <1>10, <1>11, <1>12 DEF KInv
-----------------------------------------------------------------------------

(***************************************************************************)
(* What the progress of the passes means after a step that leaves the      *)
(* plugins and their order alone.                                          *)
(***************************************************************************)
LEMMA ProgressAfter ==
  ASSUME UNCHANGED <<resolverVars, programVars>>
  PROVE  /\ RegisterProgress' <=>
              (phase' = "registering" =>
                /\ \A i \in DOMAIN ordered :
                     IF i < next'
                       THEN Object(ordered[i]).register =>
                              \/ registered'[ordered[i]] = "ok"
                              \/ /\ registered'[ordered[i]] = "failed"
                                 /\ Tolerated(Object(ordered[i]))
                       ELSE registered'[ordered[i]] = "none"
                /\ \A n \in PluginName : loaded'[n] = "none")
         /\ LoadProgress' <=>
              (phase' \in {"loading", "bootstrapping", "ready"} =>
                /\ \A i \in DOMAIN ordered :
                     /\ Object(ordered[i]).register =>
                          \/ registered'[ordered[i]] = "ok"
                          \/ /\ registered'[ordered[i]] = "failed"
                             /\ Tolerated(Object(ordered[i]))
                     /\ IF i < next'
                          THEN Object(ordered[i]).load =>
                                 \/ loaded'[ordered[i]] = "ok"
                                 \/ /\ loaded'[ordered[i]] = "failed"
                                    /\ Tolerated(Object(ordered[i]))
                          ELSE loaded'[ordered[i]] = "none"
                /\ \A n \in PluginName \ Ordered : loaded'[n] = "none")
<1>1. UNCHANGED <<ordered, active, failFast>>
  BY DEF resolverVars, programVars
<1>2. QED
  BY <1>1 DEF RegisterProgress, LoadProgress, Passed, Object, Tolerated, Ordered

(***************************************************************************)
(* Whatever becomes of the current plugin in the first pass, the ones it   *)
(* depends on have been tried.                                             *)
(***************************************************************************)
LEMMA RegisterKeepsOrder ==
  ASSUME KInv, InPass("registering"), NEW o \in Outcome,
         registered' = [registered EXCEPT ![ordered[next]] = o],
         UNCHANGED <<ordered, active, loaded>>
  PROVE  DependenciesReadyFirst'
<1>1. phase = "registering" /\ next \in DOMAIN ordered /\ resolution = "ok"
  BY DEF InPass, KInv, PhaseFits
<1>2. Len(ordered) \in Nat /\ DOMAIN ordered = 1 .. Len(ordered)
  BY <1>1, Places
<1>3. /\ registered'[ordered[next]] = o
      /\ \A i \in DOMAIN ordered : i # next => registered'[ordered[i]] = registered[ordered[i]]
  BY <1>1, Places DEF KInv, KernelTypeOK
<1>4. \A p \in active : loaded'[p.name] = "none"
  <2>1. \A p \in active : p.name \in PluginName
    BY KernelAssumption DEF KInv, KernelTypeOK, Plugin
  <2>2. QED
    BY <1>1, <2>1 DEF KInv, RegisterProgress
<1>5. SUFFICES ASSUME NEW p \in active, NEW q \in active, q.name \in p.dependsOn,
                      q.register, registered'[p.name] # "none"
               PROVE  registered'[q.name] # "none"
  BY <1>4 DEF DependenciesReadyFirst
<1>6. PICK j \in DOMAIN ordered : ordered[j] = p.name
  BY <1>1, Places
<1>7. PICK i \in DOMAIN ordered : ordered[i] = q.name
  BY <1>1, Places
<1>8. CASE j # next
  <2>1. registered[p.name] # "none"
    BY <1>3, <1>5, <1>6, <1>8
  <2>2. registered[q.name] # "none"
    BY <1>5, <2>1 DEF KInv, DependenciesReadyFirst
  <2>3. i # next
    BY <1>1, <1>2, <1>7, <2>2 DEF KInv, RegisterProgress
  <2>4. QED
    BY <1>3, <1>7, <2>2, <2>3
<1>9. CASE j = next
  <2>1. Object(ordered[next]) = p
    BY <1>6, <1>9, ObjectIsPlugin DEF KInv, KernelTypeOK
  <2>2. PICK k \in 1 .. (next - 1) : ordered[k] = q.name
    <3>1. \A d \in Object(ordered[next]).dependsOn : \E k \in 1 .. (next - 1) : ordered[k] = d
      BY <1>1, Places, Zenon
    <3>2. QED
      BY <1>5, <2>1, <3>1, Zenon
  <2>3. k \in DOMAIN ordered /\ k < next
    BY <1>1, <1>2, <2>2
  <2>4. Object(ordered[k]) = q
    BY <2>2, ObjectIsPlugin DEF KInv, KernelTypeOK
  <2>5. registered[q.name] # "none"
    <3>1. Object(ordered[k]).register => Passed(registered, ordered[k])
      BY <1>1, <2>3 DEF KInv, RegisterProgress
    <3>2. QED
      BY <1>5, <2>2, <2>4, <3>1 DEF Passed
  <2>6. QED
    BY <1>2, <1>3, <2>2, <2>3, <2>5
<1>10. QED
  BY <1>8, <1>9

(***************************************************************************)
(* The first pass goes on to the next plugin: the current one has no       *)
(* register(), or was registered, or failed and may fail.                  *)
(***************************************************************************)
LEMMA RegisterAdvances ==
  ASSUME KInv, InPass("registering"), NEW o \in Outcome,
         \/ o = "none" /\ ~ Current.register
         \/ o = "ok"
         \/ o = "failed" /\ Tolerated(Current),
         registered' = [registered EXCEPT ![ordered[next]] = o],
         Advance,
         UNCHANGED <<resolverVars, programVars, serviceVars, bootVars, loaded, found>>
  PROVE  KInv'
<1>1. /\ phase = "registering" /\ phase' = "registering"
      /\ next \in DOMAIN ordered /\ next' = next + 1
      /\ resolution = "ok"
  BY DEF InPass, Advance, KInv, PhaseFits
<1>2. /\ UNCHANGED <<resolution, ordered, dependsOn, failFast, instancePlugins,
                     legacyPlugins, active, starts>>
      /\ UNCHANGED <<metadata, container, store, todo, attempts, loaded,
                     found>>
  BY DEF resolverVars, programVars, serviceVars, bootVars
<1>3. registered \in [PluginName -> Outcome]
  BY DEF KInv, KernelTypeOK
<1>4. /\ registered' \in [PluginName -> Outcome]
      /\ registered'[ordered[next]] = o
      /\ \A n \in PluginName : n # ordered[next] => registered'[n] = registered[n]
      /\ \A i \in DOMAIN ordered : i # next => registered'[ordered[i]] = registered[ordered[i]]
  <2>1. /\ ordered[next] \in PluginName
        /\ \A i \in DOMAIN ordered : /\ ordered[i] \in PluginName
                                    /\ i # next => ordered[i] # ordered[next]
    BY <1>1, Places
  <2>2. QED
    BY <1>3, <2>1
<1>5. /\ IInv' /\ GraphIsActive' /\ TypeOK'
      /\ \A n : Object(n)' = Object(n)
      /\ \A p : Tolerated(p)' = Tolerated(p)
  BY PassesKeep DEF IInv
<1>6. Len(ordered) \in Nat /\ DOMAIN ordered = 1 .. Len(ordered)
  BY <1>1, Places
<1>7. KernelTypeOK'
  <2>1. next' \in 1 .. (Len(ordered') + 1)
    BY <1>1, <1>2, <1>6
  <2>2. QED
    BY <1>1, <1>2, <1>4, <1>5, <2>1 DEF KInv, KernelTypeOK, OneOfAName
<1>8. PhaseFits' /\ LoadProgress' /\ LoopCoversStore' /\ FailureStopsThere'
  BY <1>1, <1>2 DEF PhaseFits, LoadProgress, LoopCoversStore, FailureStopsThere
<1>9. RegisterProgress'
  <2>1. SUFFICES
          /\ \A i \in DOMAIN ordered :
               IF i < next + 1
                 THEN Object(ordered[i]).register =>
                        \/ registered'[ordered[i]] = "ok"
                        \/ /\ registered'[ordered[i]] = "failed"
                           /\ Tolerated(Object(ordered[i]))
                 ELSE registered'[ordered[i]] = "none"
          /\ \A n \in PluginName : loaded'[n] = "none"
    BY <1>1, ProgressAfter
  <2>2. /\ \A i \in DOMAIN ordered :
             IF i < next
               THEN Object(ordered[i]).register =>
                      \/ registered[ordered[i]] = "ok"
                      \/ /\ registered[ordered[i]] = "failed"
                         /\ Tolerated(Object(ordered[i]))
               ELSE registered[ordered[i]] = "none"
        /\ \A n \in PluginName : loaded[n] = "none"
    BY <1>1 DEF KInv, RegisterProgress, Passed
  <2>3. \A i \in DOMAIN ordered : i \in Int /\ next \in Int
    BY <1>1, <1>6
  <2>4. QED
    BY <1>2, <1>4, <2>2, <2>3 DEF Current
<1>10. DependenciesReadyFirst'
  BY <1>2, RegisterKeepsOrder
<1>11. StoreIsComplete' /\ LeftOutByFailure' /\ BootstrapsReached'
  BY <1>1, <1>2 DEF KInv, StoreIsComplete, LeftOutByFailure, BootstrapsReached
<1>12. QED
  BY <1>5, <1>7, <1>8, <1>9, <1>10, <1>11 DEF KInv

(***************************************************************************)
(* The first pass stops at a plugin that failed and may not fail.          *)
(***************************************************************************)
LEMMA RegisterStops ==
  ASSUME KInv, InPass("registering"), ~ Tolerated(Current),
         registered' = [registered EXCEPT ![ordered[next]] = "failed"],
         phase' = "failed", UNCHANGED next,
         UNCHANGED <<resolverVars, programVars, serviceVars, bootVars, loaded, found>>
  PROVE  KInv'
<1>1. phase = "registering" /\ next \in DOMAIN ordered /\ resolution = "ok"
  BY DEF InPass, KInv, PhaseFits
<1>2. /\ UNCHANGED <<resolution, ordered, dependsOn, failFast, instancePlugins,
                     legacyPlugins, active, starts>>
      /\ UNCHANGED <<metadata, container, store, todo, attempts, loaded,
                     found>>
  BY DEF resolverVars, programVars, serviceVars, bootVars
<1>3. registered \in [PluginName -> Outcome]
  BY DEF KInv, KernelTypeOK
<1>4. /\ registered' \in [PluginName -> Outcome]
      /\ registered'[ordered[next]] = "failed"
      /\ \A i \in DOMAIN ordered : i # next => registered'[ordered[i]] = registered[ordered[i]]
  <2>1. /\ ordered[next] \in PluginName
        /\ \A i \in DOMAIN ordered : /\ ordered[i] \in PluginName
                                    /\ i # next => ordered[i] # ordered[next]
    BY <1>1, Places
  <2>2. QED
    BY <1>3, <2>1 DEF Outcome
<1>5. IInv' /\ GraphIsActive' /\ TypeOK'
  BY PassesKeep DEF IInv
<1>6. Len(ordered) \in Nat /\ DOMAIN ordered = 1 .. Len(ordered)
  BY <1>1, Places
<1>7. KernelTypeOK'
  BY <1>2, <1>4, <1>5 DEF KInv, KernelTypeOK, OneOfAName
<1>8. PhaseFits' /\ RegisterProgress' /\ LoadProgress' /\ LoopCoversStore'
  BY <1>1, <1>2 DEF PhaseFits, RegisterProgress, LoadProgress, LoopCoversStore
<1>9. FailureStopsThere'
  <2>1. \A i \in DOMAIN ordered : i > next => registered'[ordered[i]] = "none"
    <3>1. \A i \in DOMAIN ordered : i > next => i # next /\ ~ (i < next)
      BY <1>1, <1>6
    <3>2. QED
      BY <1>1, <1>4, <3>1 DEF KInv, RegisterProgress
  <2>2. \A p \in active : loaded'[p.name] = "none"
    <3>1. \A p \in active : p.name \in PluginName
      BY KernelAssumption DEF KInv, KernelTypeOK, Plugin
    <3>2. QED
      BY <1>1, <1>2, <3>1 DEF KInv, RegisterProgress
  <2>3. ~ Tolerated(Current)'
    BY <1>2 DEF Current, Object, Tolerated
  <2>4. QED
    BY <1>1, <1>2, <1>4, <2>1, <2>2, <2>3 DEF FailureStopsThere
<1>10. DependenciesReadyFirst'
  BY <1>2, RegisterKeepsOrder DEF Outcome
<1>11. StoreIsComplete' /\ LeftOutByFailure' /\ BootstrapsReached'
  BY <1>1, <1>2 DEF KInv, StoreIsComplete, LeftOutByFailure, BootstrapsReached
<1>12. QED
  BY <1>5, <1>7, <1>8, <1>9, <1>10, <1>11 DEF KInv

(***************************************************************************)
(* The first pass is over, every plugin that has a register() was tried.   *)
(***************************************************************************)
LEMMA RegistrationDoneKInv ==
  ASSUME KInv, RegistrationDone
  PROVE  KInv'
<1>1. /\ phase = "registering" /\ phase' = "loading"
      /\ next > Len(ordered) /\ next' = 1
      /\ UNCHANGED <<resolverVars, programVars, serviceVars, bootVars, outcomeVars>>
      /\ resolution = "ok"
  BY DEF RegistrationDone, KInv, PhaseFits
<1>2. UNCHANGED <<resolution, ordered, dependsOn, failFast, instancePlugins, legacyPlugins,
                  active, starts, metadata, container, store, todo, attempts,
                  registered, loaded, found>>
  BY <1>1 DEF resolverVars, programVars, serviceVars, bootVars, outcomeVars
<1>3. IInv' /\ GraphIsActive' /\ TypeOK'
  BY <1>1, PassesKeep DEF IInv
<1>4. /\ Len(ordered) \in Nat /\ DOMAIN ordered = 1 .. Len(ordered)
      /\ \A i \in DOMAIN ordered : ordered[i] \in PluginName
      /\ next \in Nat
  BY <1>1, Places DEF KInv, KernelTypeOK
<1>5. KernelTypeOK'
  <2>1. next' \in 1 .. (Len(ordered') + 1)
    BY <1>1, <1>2, <1>4
  <2>2. QED
    BY <1>1, <1>2, <1>3, <2>1 DEF KInv, KernelTypeOK, OneOfAName
<1>6. PhaseFits' /\ RegisterProgress' /\ LoopCoversStore' /\ FailureStopsThere'
  BY <1>1, <1>2 DEF PhaseFits, RegisterProgress, LoopCoversStore, FailureStopsThere
<1>7. LoadProgress'
  <2>1. \A i \in DOMAIN ordered : i < next /\ ~ (i < next')
    BY <1>1, <1>4
  <2>2. /\ \A i \in DOMAIN ordered : Object(ordered[i]).register =>
             \/ registered[ordered[i]] = "ok"
             \/ registered[ordered[i]] = "failed" /\ Tolerated(Object(ordered[i]))
        /\ \A n \in PluginName : loaded[n] = "none"
    BY <1>1, <2>1 DEF KInv, RegisterProgress, Passed
  <2>3. QED
    BY <1>1, <1>2, <1>4, <2>1, <2>2, ProgressAfter
<1>8. DependenciesReadyFirst'
  BY <1>2 DEF KInv, DependenciesReadyFirst
<1>9. StoreIsComplete' /\ LeftOutByFailure' /\ BootstrapsReached'
  BY <1>1, <1>2 DEF KInv, StoreIsComplete, LeftOutByFailure, BootstrapsReached
<1>10. QED
  BY <1>3, <1>5, <1>6, <1>7, <1>8, <1>9 DEF KInv
-----------------------------------------------------------------------------

(***************************************************************************)
(* Whatever becomes of the current plugin in the second pass, the ones it  *)
(* depends on have been tried, and every plugin was registered.            *)
(***************************************************************************)
LEMMA LoadKeepsOrder ==
  ASSUME KInv, phase \in {"loading", "bootstrapping"}, next \in DOMAIN ordered,
         NEW o \in Outcome, loaded' = [loaded EXCEPT ![ordered[next]] = o],
         UNCHANGED <<ordered, active, registered>>
  PROVE  DependenciesReadyFirst'
<1>1. resolution = "ok"
  BY DEF KInv, PhaseFits
<1>2. Len(ordered) \in Nat /\ DOMAIN ordered = 1 .. Len(ordered)
  BY <1>1, Places
<1>3. /\ loaded'[ordered[next]] = o
      /\ \A i \in DOMAIN ordered : i # next => loaded'[ordered[i]] = loaded[ordered[i]]
  BY <1>1, Places DEF KInv, KernelTypeOK
<1>4. ASSUME NEW q \in active, q.register
      PROVE  registered[q.name] # "none"
  <2>1. PICK i \in DOMAIN ordered : ordered[i] = q.name
    BY <1>1, Places
  <2>2. Object(ordered[i]) = q
    BY <2>1, ObjectIsPlugin DEF KInv, KernelTypeOK
  <2>3. QED
    BY <1>4, <2>1, <2>2 DEF KInv, LoadProgress, Passed
<1>5. SUFFICES ASSUME NEW p \in active, NEW q \in active, q.name \in p.dependsOn,
                      q.load, loaded'[p.name] # "none"
               PROVE  loaded'[q.name] # "none"
  BY <1>4 DEF DependenciesReadyFirst
<1>6. PICK j \in DOMAIN ordered : ordered[j] = p.name
  BY <1>1, Places
<1>7. PICK i \in DOMAIN ordered : ordered[i] = q.name
  BY <1>1, Places
<1>8. CASE j # next
  <2>1. loaded[p.name] # "none"
    BY <1>3, <1>5, <1>6, <1>8
  <2>2. loaded[q.name] # "none"
    BY <1>5, <2>1 DEF KInv, DependenciesReadyFirst
  <2>3. i # next
    BY <1>2, <1>7, <2>2 DEF KInv, LoadProgress
  <2>4. QED
    BY <1>3, <1>7, <2>2, <2>3
<1>9. CASE j = next
  <2>1. Object(ordered[next]) = p
    BY <1>6, <1>9, ObjectIsPlugin DEF KInv, KernelTypeOK
  <2>2. PICK k \in 1 .. (next - 1) : ordered[k] = q.name
    <3>1. \A d \in Object(ordered[next]).dependsOn : \E k \in 1 .. (next - 1) : ordered[k] = d
      BY <1>1, Places, Zenon
    <3>2. QED
      BY <1>5, <2>1, <3>1, Zenon
  <2>3. k \in DOMAIN ordered /\ k < next
    BY <1>2, <2>2
  <2>4. Object(ordered[k]) = q
    BY <2>2, ObjectIsPlugin DEF KInv, KernelTypeOK
  <2>5. loaded[q.name] # "none"
    BY <1>5, <2>2, <2>3, <2>4 DEF KInv, LoadProgress, Passed
  <2>6. QED
    BY <1>2, <1>3, <2>2, <2>3, <2>5
<1>10. QED
  BY <1>8, <1>9

(***************************************************************************)
(* The second pass goes on to the next plugin: the current one has no      *)
(* load(), or failed and may fail, or was loaded, what it found is         *)
(* registered, and the bootstrap loader has been through the store.        *)
(***************************************************************************)
LEMMA LoadAdvances ==
  ASSUME KInv, phase \in {"loading", "bootstrapping"}, next \in DOMAIN ordered,
         NEW o \in Outcome,
         \/ o = "none" /\ ~ Current.load
         \/ o = "failed" /\ Tolerated(Current)
         \/ /\ o = "ok"
            /\ metadata' \subseteq container'
            /\ \A b \in Bootstrap \cap metadata' : store'[b] > 0
            /\ ordered[next] = BootstrapLoader =>
                 phase = "bootstrapping" /\ \A b \in Bootstrap : todo[b] = 0,
         loaded' = [loaded EXCEPT ![ordered[next]] = o],
         phase' = "loading", next' = next + 1,
         metadata \subseteq metadata', metadata' \in SUBSET Service,
         found' \in [PluginName -> SUBSET Service],
         \A n \in PluginName : n # ordered[next] => found'[n] = found[n],
         found'[ordered[next]] \subseteq metadata',
         o = "none" => metadata' = metadata,
         o = "failed" => metadata' \subseteq metadata \cup found'[ordered[next]],
         container \subseteq container', container' \in SUBSET Service,
         store' \in [Bootstrap -> Nat],
         \A b \in Bootstrap : store[b] > 0 => store'[b] > 0,
         UNCHANGED <<resolverVars, programVars, bootVars, registered>>
  PROVE  KInv'
<1>1. resolution = "ok"
  BY DEF KInv, PhaseFits
<1>2. UNCHANGED <<resolution, ordered, dependsOn, failFast, instancePlugins,
                  legacyPlugins, active, starts, todo, attempts, registered>>
  BY DEF resolverVars, programVars, bootVars
<1>3. loaded \in [PluginName -> Outcome]
  BY DEF KInv, KernelTypeOK
<1>4. /\ ordered[next] \in PluginName
      /\ loaded' \in [PluginName -> Outcome]
      /\ loaded'[ordered[next]] = o
      /\ \A n \in PluginName : n # ordered[next] => loaded'[n] = loaded[n]
      /\ \A i \in DOMAIN ordered : i # next => loaded'[ordered[i]] = loaded[ordered[i]]
  <2>1. /\ ordered[next] \in PluginName
        /\ \A i \in DOMAIN ordered : /\ ordered[i] \in PluginName
                                    /\ i # next => ordered[i] # ordered[next]
    BY <1>1, Places
  <2>2. QED
    BY <1>3, <2>1
<1>5. IInv' /\ GraphIsActive' /\ TypeOK'
  BY PassesKeep DEF IInv
<1>6. Len(ordered) \in Nat /\ DOMAIN ordered = 1 .. Len(ordered)
  BY <1>1, Places
<1>7. KernelTypeOK'
  <2>1. next' \in 1 .. (Len(ordered') + 1)
    BY <1>2, <1>6
  <2>2. QED
    BY <1>2, <1>4, <1>5, <2>1 DEF KInv, KernelTypeOK, OneOfAName
<1>8. PhaseFits' /\ RegisterProgress' /\ LoopCoversStore' /\ FailureStopsThere'
  BY <1>1, <1>2 DEF PhaseFits, RegisterProgress, LoopCoversStore, FailureStopsThere
<1>9. /\ \A i \in DOMAIN ordered :
           /\ Object(ordered[i]).register =>
                \/ registered[ordered[i]] = "ok"
                \/ registered[ordered[i]] = "failed" /\ Tolerated(Object(ordered[i]))
           /\ IF i < next
                THEN Object(ordered[i]).load =>
                       \/ loaded[ordered[i]] = "ok"
                       \/ loaded[ordered[i]] = "failed" /\ Tolerated(Object(ordered[i]))
                ELSE loaded[ordered[i]] = "none"
      /\ \A n \in PluginName \ Ordered : loaded[n] = "none"
  BY DEF KInv, LoadProgress, Passed
<1>10. \A i \in DOMAIN ordered : i \in Int /\ next \in Int
  BY <1>6
<1>11. LoadProgress'
  <2>1. \A i \in DOMAIN ordered :
          IF i < next + 1
            THEN Object(ordered[i]).load =>
                   \/ loaded'[ordered[i]] = "ok"
                   \/ loaded'[ordered[i]] = "failed" /\ Tolerated(Object(ordered[i]))
            ELSE loaded'[ordered[i]] = "none"
    BY <1>4, <1>9, <1>10 DEF Current
  <2>2. \A n \in PluginName \ Ordered : loaded'[n] = "none"
    BY <1>4, <1>9 DEF Ordered
  <2>3. QED
    BY <1>2, <1>9, <2>1, <2>2, ProgressAfter
<1>12. DependenciesReadyFirst'
  BY <1>2, LoadKeepsOrder
<1>13. StoreIsComplete' /\ LeftOutByFailure'
  <2>1. StoreIsComplete'
    BY <1>4 DEF KInv, StoreIsComplete
  <2>2. ASSUME NEW s \in metadata', s \notin container'
        PROVE  \E i \in DOMAIN ordered :
                 /\ loaded'[ordered[i]] = "failed"
                 /\ s \in found'[ordered[i]]
                 /\ \A j \in DOMAIN ordered : j > i => loaded'[ordered[j]] # "ok"
    <3>1. o # "ok" /\ s \notin container
      BY <2>2
    <3>2. CASE s \in metadata
      <4>1. PICK i \in DOMAIN ordered :
              /\ loaded[ordered[i]] = "failed"
              /\ s \in found[ordered[i]]
              /\ \A j \in DOMAIN ordered : j > i => loaded[ordered[j]] # "ok"
        BY <3>1, <3>2 DEF KInv, LeftOutByFailure
      <4>2. i # next /\ ordered[i] \in PluginName /\ ordered[i] # ordered[next]
        BY <1>1, <1>9, <1>10, <4>1, Places
      <4>3. loaded'[ordered[i]] = "failed" /\ s \in found'[ordered[i]]
        BY <1>4, <4>1, <4>2
      <4>4. \A j \in DOMAIN ordered : j > i => loaded'[ordered[j]] # "ok"
        BY <1>4, <3>1, <4>1
      <4>5. QED
        BY <4>3, <4>4
    <3>3. CASE s \notin metadata
      <4>1. o = "failed" /\ s \in found'[ordered[next]]
        BY <2>2, <3>1, <3>3
      <4>2. \A j \in DOMAIN ordered : j > next => loaded'[ordered[j]] = "none"
        <5>1. \A j \in DOMAIN ordered : j > next => j # next /\ ~ (j < next)
          BY <1>10
        <5>2. QED
          BY <1>4, <1>9, <5>1
      <4>3. QED
        BY <1>4, <4>1, <4>2
    <3>4. QED
      BY <3>2, <3>3
  <2>3. LeftOutByFailure'
    BY <1>2, <2>2 DEF LeftOutByFailure
  <2>4. QED
    BY <2>1, <2>3
<1>14. BootstrapsReached'
  <2>1. SUFFICES ASSUME loaded'[BootstrapLoader] = "ok", NEW b \in Bootstrap,
                        \/ b \in Imported
                        \/ \E d \in dependsOn[BootstrapLoader] :
                             loaded'[d] = "ok" /\ b \in found'[d]
                 PROVE  attempts[b] > 0
    BY <1>2 DEF BootstrapsReached
  <2>2. CASE ordered[next] = BootstrapLoader
    <3>1. o = "ok" /\ phase = "bootstrapping" /\ todo[b] = 0
      <4>1. o = "ok"
        BY <1>4, <2>1, <2>2
      <4>2. QED
        BY <2>2, <4>1
    <3>2. store[b] > 0
      <4>1. CASE b \in Imported
        BY <3>1, <4>1 DEF KInv, StoreIsComplete
      <4>2. CASE b \notin Imported
        <5>1. PICK d \in dependsOn[BootstrapLoader] : loaded'[d] = "ok" /\ b \in found'[d]
          BY <2>1, <4>2
        <5>2. d \in PluginName /\ d # BootstrapLoader
          <6>1. PICK i \in 1 .. (next - 1) : ordered[i] = d
            BY <2>2, <5>1 DEF KInv, IInv, DependenciesFirst
          <6>2. i \in DOMAIN ordered /\ i # next
            BY <1>6, <1>10, <6>1
          <6>3. QED
            BY <1>1, <2>2, <6>1, <6>2, Places
        <5>3. loaded[d] = "ok" /\ b \in found[d]
          BY <1>4, <2>2, <5>1, <5>2
        <5>4. QED
          BY <5>1, <5>2, <5>3 DEF KInv, StoreIsComplete
      <4>3. QED
        BY <4>1, <4>2
    <3>3. todo[b] > 0 \/ attempts[b] > 0
      BY <3>1, <3>2 DEF KInv, LoopCoversStore
    <3>4. QED
      BY <3>1, <3>3
  <2>3. CASE ordered[next] # BootstrapLoader
    <3>1. loaded[BootstrapLoader] = "ok"
      BY <1>4, <2>1, <2>3, KernelAssumption
    <3>2. PICK j \in DOMAIN ordered : ordered[j] = BootstrapLoader
      BY <1>9, <3>1, KernelAssumption DEF Ordered
    <3>3. j < next
      BY <1>9, <3>1, <3>2
    <3>4. ASSUME NEW d \in dependsOn[BootstrapLoader], loaded'[d] = "ok"
          PROVE  loaded[d] = "ok" /\ found'[d] = found[d]
      <4>1. PICK i \in 1 .. (j - 1) : ordered[i] = d
        BY <3>2, <3>4 DEF KInv, IInv, DependenciesFirst
      <4>2. i \in DOMAIN ordered /\ i # next
        BY <1>6, <1>10, <3>2, <3>3, <4>1
      <4>3. d \in PluginName /\ d # ordered[next]
        BY <1>1, <4>1, <4>2, Places
      <4>4. QED
        BY <1>4, <3>4, <4>3
    <3>5. QED
      BY <2>1, <3>1, <3>4 DEF KInv, BootstrapsReached
  <2>4. QED
    BY <2>2, <2>3
<1>15. QED
  BY <1>5, <1>7, <1>8, <1>11, <1>12, <1>13, <1>14 DEF KInv

(***************************************************************************)
(* The second pass stops at a plugin that failed and may not fail.         *)
(***************************************************************************)
LEMMA LoadStops ==
  ASSUME KInv, phase = "loading", next \in DOMAIN ordered, ~ Tolerated(Current),
         loaded' = [loaded EXCEPT ![ordered[next]] = "failed"],
         phase' = "failed", UNCHANGED next,
         metadata \subseteq metadata', metadata' \in SUBSET Service,
         found' \in [PluginName -> SUBSET Service],
         \A n \in PluginName : n # ordered[next] => found'[n] = found[n],
         found'[ordered[next]] \subseteq metadata',
         metadata' \subseteq metadata \cup found'[ordered[next]],
         UNCHANGED <<resolverVars, programVars, container, store, bootVars, registered>>
  PROVE  KInv'
<1>1. resolution = "ok"
  BY DEF KInv, PhaseFits
<1>2. UNCHANGED <<resolution, ordered, dependsOn, failFast, instancePlugins,
                  legacyPlugins, active, starts, container, store, todo, attempts, registered>>
  BY DEF resolverVars, programVars, bootVars
<1>3. loaded \in [PluginName -> Outcome]
  BY DEF KInv, KernelTypeOK
<1>4. /\ loaded' \in [PluginName -> Outcome]
      /\ loaded'[ordered[next]] = "failed"
      /\ \A n \in PluginName : n # ordered[next] => loaded'[n] = loaded[n]
      /\ \A i \in DOMAIN ordered : i # next => loaded'[ordered[i]] = loaded[ordered[i]]
  <2>1. /\ ordered[next] \in PluginName
        /\ \A i \in DOMAIN ordered : /\ ordered[i] \in PluginName
                                    /\ i # next => ordered[i] # ordered[next]
    BY <1>1, Places
  <2>2. QED
    BY <1>3, <2>1 DEF Outcome
<1>5. IInv' /\ GraphIsActive' /\ TypeOK'
  BY PassesKeep DEF IInv
<1>6. Len(ordered) \in Nat /\ DOMAIN ordered = 1 .. Len(ordered)
  BY <1>1, Places
<1>7. KernelTypeOK'
  BY <1>2, <1>4, <1>5 DEF KInv, KernelTypeOK, OneOfAName
<1>8. PhaseFits' /\ RegisterProgress' /\ LoadProgress' /\ LoopCoversStore'
  BY <1>1, <1>2 DEF PhaseFits, RegisterProgress, LoadProgress, LoopCoversStore
<1>9. FailureStopsThere'
  <2>1. \A i \in DOMAIN ordered : i > next => loaded'[ordered[i]] = "none"
    <3>1. \A i \in DOMAIN ordered : i > next => i # next /\ ~ (i < next)
      BY <1>6
    <3>2. QED
      BY <1>4, <3>1 DEF KInv, LoadProgress
  <2>2. ~ Tolerated(Current)'
    BY <1>2 DEF Current, Object, Tolerated
  <2>3. QED
    BY <1>1, <1>2, <1>4, <2>1, <2>2 DEF FailureStopsThere
<1>10. DependenciesReadyFirst'
  BY <1>2, LoadKeepsOrder DEF Outcome
<1>11. \A n \in PluginName : loaded'[n] = "ok" => loaded[n] = "ok" /\ found'[n] = found[n]
  BY <1>4
<1>12. StoreIsComplete' /\ LeftOutByFailure'
  <2>1. StoreIsComplete'
    BY <1>2, <1>11 DEF KInv, StoreIsComplete
  <2>2. \A j \in DOMAIN ordered : j > next => loaded'[ordered[j]] = "none"
    <3>1. \A j \in DOMAIN ordered : j > next => j # next /\ ~ (j < next)
      BY <1>6
    <3>2. QED
      BY <1>4, <3>1 DEF KInv, LoadProgress
  <2>3. ASSUME NEW s \in metadata', s \notin container
        PROVE  \E i \in DOMAIN ordered :
                 /\ loaded'[ordered[i]] = "failed"
                 /\ s \in found'[ordered[i]]
                 /\ \A j \in DOMAIN ordered : j > i => loaded'[ordered[j]] # "ok"
    <3>1. CASE s \in metadata
      <4>1. PICK i \in DOMAIN ordered :
              /\ loaded[ordered[i]] = "failed"
              /\ s \in found[ordered[i]]
              /\ \A j \in DOMAIN ordered : j > i => loaded[ordered[j]] # "ok"
        BY <2>3, <3>1 DEF KInv, LeftOutByFailure
      <4>2. loaded[ordered[next]] = "none"
        BY <1>6 DEF KInv, LoadProgress
      <4>3. i # next /\ ordered[i] \in PluginName /\ ordered[i] # ordered[next]
        BY <1>1, <4>1, <4>2, Places
      <4>4. loaded'[ordered[i]] = "failed" /\ s \in found'[ordered[i]]
        BY <1>4, <4>1, <4>3
      <4>5. \A j \in DOMAIN ordered : j > i => loaded'[ordered[j]] # "ok"
        BY <1>4, <4>1
      <4>6. QED
        BY <4>4, <4>5
    <3>2. CASE s \notin metadata
      <4>1. s \in found'[ordered[next]]
        BY <2>3, <3>2
      <4>2. QED
        BY <1>4, <2>2, <4>1
    <3>3. QED
      BY <3>1, <3>2
  <2>4. LeftOutByFailure'
    BY <1>2, <2>3 DEF LeftOutByFailure
  <2>5. QED
    BY <2>1, <2>4
<1>13. BootstrapsReached'
  <2>1. dependsOn[BootstrapLoader] \subseteq PluginName
    BY KernelAssumption DEF KInv, IInv, TypeOK
  <2>2. QED
    BY <1>2, <1>11, <2>1, KernelAssumption DEF KInv, BootstrapsReached
<1>14. QED
  BY <1>5, <1>7, <1>8, <1>9, <1>10, <1>12, <1>13 DEF KInv

(***************************************************************************)
(* The steps of the second pass that decide no outcome: the bootstrap      *)
(* loader begins with the whole store and turns entries into attempts,     *)
(* and start() returns after the last plugin.                              *)
(***************************************************************************)
LEMMA LoopKInv ==
  ASSUME KInv, LoadBootstraps \/ (\E b \in Bootstrap : RunBootstrap(b)) \/ LoadingDone
  PROVE  KInv'
<1>1. /\ phase \in {"loading", "bootstrapping"}
      /\ phase' \in {"loading", "bootstrapping", "ready"}
      /\ UNCHANGED <<resolverVars, programVars, serviceVars, outcomeVars, next>>
  BY DEF LoadBootstraps, RunBootstrap, LoadingDone, InPass
<1>2. UNCHANGED <<resolution, ordered, dependsOn, failFast, instancePlugins, legacyPlugins,
                  active, starts, next, metadata, container, store, registered, loaded, found>>
  BY <1>1 DEF resolverVars, programVars, serviceVars, outcomeVars
<1>3. resolution = "ok"
  BY <1>1 DEF KInv, PhaseFits
<1>4. /\ store \in [Bootstrap -> Nat]
      /\ todo \in [Bootstrap -> Nat]
      /\ attempts \in [Bootstrap -> Nat]
  BY DEF KInv, KernelTypeOK
<1>5. /\ todo' \in [Bootstrap -> Nat]
      /\ attempts' \in [Bootstrap -> Nat]
      /\ \A b \in Bootstrap : attempts[b] > 0 => attempts'[b] > 0
      /\ LoopCoversStore'
  <2>1. CASE LoadBootstraps
    <3>1. todo' = store /\ attempts' = attempts
      BY <2>1 DEF LoadBootstraps
    <3>2. QED
      BY <1>2, <1>4, <3>1 DEF LoopCoversStore
  <2>2. ASSUME NEW b \in Bootstrap, RunBootstrap(b)
        PROVE  /\ todo' \in [Bootstrap -> Nat]
               /\ attempts' \in [Bootstrap -> Nat]
               /\ \A c \in Bootstrap : attempts[c] > 0 => attempts'[c] > 0
               /\ LoopCoversStore'
    <3>1. /\ phase = "bootstrapping" /\ todo[b] > 0
          /\ todo' = [todo EXCEPT ![b] = todo[b] - 1]
          /\ attempts' = [attempts EXCEPT ![b] = attempts[b] + 1]
      BY <2>2 DEF RunBootstrap
    <3>2. /\ todo[b] \in Nat /\ attempts[b] \in Nat
          /\ todo[b] - 1 \in Nat /\ attempts[b] + 1 \in Nat /\ attempts[b] + 1 > 0
      BY <1>4, <3>1
    <3>3. /\ todo' \in [Bootstrap -> Nat] /\ attempts' \in [Bootstrap -> Nat]
          /\ attempts'[b] > 0
          /\ \A c \in Bootstrap \ {b} : todo'[c] = todo[c] /\ attempts'[c] = attempts[c]
      BY <1>4, <3>1, <3>2
    <3>4. QED
      BY <1>2, <3>1, <3>3 DEF KInv, LoopCoversStore
  <2>3. CASE LoadingDone
    <3>1. phase' = "ready" /\ todo' = todo /\ attempts' = attempts
      BY <2>3 DEF LoadingDone, bootVars
    <3>2. QED
      BY <1>4, <3>1 DEF LoopCoversStore
  <2>4. QED
    BY <2>1, <2>2, <2>3
<1>6. IInv' /\ GraphIsActive' /\ TypeOK'
  BY <1>1, PassesKeep DEF IInv
<1>7. KernelTypeOK'
  BY <1>1, <1>2, <1>5, <1>6 DEF KInv, KernelTypeOK, OneOfAName
<1>8. PhaseFits'
  <2>1. CASE LoadBootstraps
    BY <1>2, <1>3, <2>1 DEF LoadBootstraps, InPass, PhaseFits, Current, Object
  <2>2. CASE \E b \in Bootstrap : RunBootstrap(b)
    BY <1>2, <2>2 DEF RunBootstrap, KInv, PhaseFits, Current, Object
  <2>3. CASE LoadingDone
    BY <1>2, <1>3, <2>3 DEF LoadingDone, PhaseFits
  <2>4. QED
    BY <2>1, <2>2, <2>3
<1>9. RegisterProgress' /\ FailureStopsThere'
  BY <1>1 DEF RegisterProgress, FailureStopsThere
<1>10. LoadProgress'
  BY <1>1, <1>2, ProgressAfter DEF KInv, LoadProgress, Passed
<1>11. DependenciesReadyFirst'
  BY <1>2 DEF KInv, DependenciesReadyFirst
<1>12. StoreIsComplete' /\ LeftOutByFailure'
  BY <1>1, <1>2 DEF KInv, StoreIsComplete, LeftOutByFailure
<1>13. BootstrapsReached'
  BY <1>2, <1>5 DEF KInv, BootstrapsReached
<1>14. QED
  BY <1>5, <1>6, <1>7, <1>8, <1>9, <1>10, <1>11, <1>12, <1>13 DEF KInv
-----------------------------------------------------------------------------

(***************************************************************************)
(* The steps of the first pass are those of the two lemmas about it.       *)
(***************************************************************************)
LEMMA RegisterPassKInv ==
  ASSUME KInv, SkipRegister \/ RegisterOk \/ RegisterFails
  PROVE  KInv'
<1>1. /\ InPass("registering")
      /\ UNCHANGED <<resolverVars, programVars, serviceVars, bootVars, loaded, found>>
  BY DEF SkipRegister, RegisterOk, RegisterFails, outcomeVars
<1>2. resolution = "ok" /\ next \in DOMAIN ordered
  BY <1>1 DEF InPass, KInv, PhaseFits
<1>3. /\ KernelTypeOK /\ Current \in active /\ ordered[next] \in PluginName
      /\ registered \in [PluginName -> Outcome]
  BY <1>2, Places DEF KInv, KernelTypeOK, Current
<1>4. CASE SkipRegister
  <2>1. registered[ordered[next]] = "none"
    BY <1>1, <1>2 DEF InPass, KInv, RegisterProgress, KernelTypeOK
  <2>2. registered' = [registered EXCEPT ![ordered[next]] = "none"]
    BY <1>3, <1>4, <2>1 DEF SkipRegister, outcomeVars
  <2>3. ~ Current.register /\ Advance
    BY <1>4 DEF SkipRegister
  <2>4. QED
    BY <1>1, <2>2, <2>3, RegisterAdvances DEF Outcome
<1>5. CASE RegisterOk
  <2>1. registered' = [registered EXCEPT ![ordered[next]] = "ok"] /\ Advance
    BY <1>5 DEF RegisterOk
  <2>2. QED
    BY <1>1, <2>1, RegisterAdvances DEF Outcome
<1>6. CASE RegisterFails
  <2>1. registered' = [registered EXCEPT ![ordered[next]] = "failed"] /\ Fail(Current)
    BY <1>6 DEF RegisterFails
  <2>2. CASE ShouldFailFast(Current)
    <3>1. ~ Tolerated(Current) /\ phase' = "failed" /\ UNCHANGED next
      BY <1>3, <2>1, <2>2, FailFastOrTolerated DEF Fail
    <3>2. QED
      BY <1>1, <2>1, <3>1, RegisterStops
  <2>3. CASE ~ ShouldFailFast(Current)
    <3>1. Tolerated(Current) /\ Advance
      BY <1>3, <2>1, <2>3, FailFastOrTolerated DEF Fail
    <3>2. QED
      BY <1>1, <2>1, <3>1, RegisterAdvances DEF Outcome
  <2>4. QED
    BY <2>2, <2>3
<1>7. QED
  BY <1>4, <1>5, <1>6

(***************************************************************************)
(* The steps of the second pass that decide the outcome of a plugin.       *)
(***************************************************************************)
LEMMA LoadPassKInv ==
  ASSUME KInv, SkipLoad \/ LoadOk \/ LoadFails \/ BootstrapsDone
  PROVE  KInv'
<1>1. /\ phase \in {"loading", "bootstrapping"} /\ next \in DOMAIN ordered
      /\ UNCHANGED <<resolverVars, programVars, bootVars, registered>>
  BY DEF SkipLoad, LoadOk, LoadFails, BootstrapsDone, InPass, KInv, PhaseFits, outcomeVars
<1>2. resolution = "ok"
  BY <1>1 DEF KInv, PhaseFits
<1>3. /\ KernelTypeOK /\ Current \in active /\ ordered[next] \in PluginName
      /\ loaded \in [PluginName -> Outcome] /\ store \in [Bootstrap -> Nat]
      /\ metadata \in SUBSET Service /\ container \in SUBSET Service
      /\ found \in [PluginName -> SUBSET Service] /\ found[ordered[next]] \subseteq metadata
  BY <1>1, <1>2, Places DEF KInv, KernelTypeOK, StoreIsComplete, Current
<1>4. ASSUME LoadOk \/ LoadFails
      PROVE  /\ metadata \subseteq metadata' /\ metadata' \in SUBSET Service
             /\ found' \in [PluginName -> SUBSET Service]
             /\ \A n \in PluginName : n # ordered[next] => found'[n] = found[n]
             /\ metadata' = metadata \cup found'[ordered[next]]
  <2>1. PICK part \in SUBSET Finds[ordered[next]] :
          metadata' = metadata \cup part /\ found' = [found EXCEPT ![ordered[next]] = part]
    BY <1>4 DEF LoadOk, LoadFails, Imports
  <2>2. part \in SUBSET Service
    BY <1>3, <2>1, KernelAssumption
  <2>3. QED
    BY <1>3, <2>1, <2>2
<1>5. CASE SkipLoad
  <2>1. loaded[ordered[next]] = "none"
    BY <1>1 DEF KInv, LoadProgress, KernelTypeOK
  <2>2. loaded' = [loaded EXCEPT ![ordered[next]] = "none"]
    BY <1>3, <1>5, <2>1 DEF SkipLoad, outcomeVars
  <2>3. /\ ~ Current.load /\ phase' = "loading" /\ next' = next + 1
        /\ UNCHANGED <<metadata, container, store, found>>
    BY <1>5 DEF SkipLoad, InPass, Advance, serviceVars, outcomeVars
  <2>4. QED
    BY <1>1, <1>3, <2>2, <2>3, LoadAdvances DEF Outcome
<1>6. CASE LoadOk
  <2>1. /\ loaded' = [loaded EXCEPT ![ordered[next]] = "ok"]
        /\ phase' = "loading" /\ next' = next + 1 /\ ordered[next] # BootstrapLoader
        /\ RegisterServices(metadata')
    BY <1>6 DEF LoadOk, InPass, Advance
  <2>2. metadata' \in SUBSET Service
    BY <1>4, <1>6
  <2>3. /\ container' \in SUBSET Service /\ store' \in [Bootstrap -> Nat]
        /\ container \subseteq container' /\ metadata' \subseteq container'
        /\ \A b \in Bootstrap : store[b] > 0 => store'[b] > 0
        /\ \A b \in Bootstrap \cap metadata' : store'[b] > 0
    BY <1>3, <2>1, <2>2, RegisterServicesEffect
  <2>4. QED
    BY <1>1, <1>4, <1>6, <2>1, <2>2, <2>3, LoadAdvances DEF Outcome
<1>7. CASE LoadFails
  <2>1. /\ loaded' = [loaded EXCEPT ![ordered[next]] = "failed"]
        /\ phase = "loading" /\ Fail(Current)
        /\ UNCHANGED <<container, store>>
    BY <1>7 DEF LoadFails, InPass
  <2>2. CASE ShouldFailFast(Current)
    <3>1. ~ Tolerated(Current) /\ phase' = "failed" /\ UNCHANGED next
      BY <1>3, <2>1, <2>2, FailFastOrTolerated DEF Fail
    <3>2. QED
      BY <1>1, <1>4, <1>7, <2>1, <3>1, LoadStops
  <2>3. CASE ~ ShouldFailFast(Current)
    <3>1. Tolerated(Current) /\ phase' = "loading" /\ next' = next + 1
      BY <1>3, <2>1, <2>3, FailFastOrTolerated DEF Fail, Advance
    <3>2. QED
      BY <1>1, <1>3, <1>4, <1>7, <2>1, <3>1, LoadAdvances DEF Outcome
  <2>4. QED
    BY <2>2, <2>3
<1>8. CASE BootstrapsDone
  <2>1. /\ phase = "bootstrapping" /\ \A b \in Bootstrap : todo[b] = 0
        /\ ordered[next] = BootstrapLoader
        /\ loaded' = [loaded EXCEPT ![BootstrapLoader] = "ok"]
        /\ phase' = "loading" /\ next' = next + 1
        /\ UNCHANGED <<metadata, found>> /\ RegisterServices(metadata)
    BY <1>8 DEF BootstrapsDone, KInv, PhaseFits
  <2>2. /\ container' \in SUBSET Service /\ store' \in [Bootstrap -> Nat]
        /\ container \subseteq container'
        /\ metadata \subseteq container'
        /\ \A b \in Bootstrap : store[b] > 0 => store'[b] > 0
        /\ \A b \in Bootstrap \cap metadata : store'[b] > 0
    BY <1>3, <2>1, RegisterServicesEffect
  <2>3. QED
    BY <1>1, <1>3, <2>1, <2>2, LoadAdvances DEF Outcome
<1>9. QED
  BY <1>5, <1>6, <1>7, <1>8

(***************************************************************************)
(* Every step of the kernel and of the program preserves the invariant.    *)
(***************************************************************************)
LEMMA KernelNextKInv == KInv /\ [KernelNext]_vars => KInv'
<1> SUFFICES ASSUME KInv, [KernelNext]_vars
             PROVE  KInv'
  OBVIOUS
<1>1. CASE UNCHANGED vars
  <2>1. UNCHANGED <<resolverVars, kernelVars>>
    BY <1>1 DEF vars
  <2>2. IInv'
    BY <2>1, StepIInv DEF KInv
  <2>3. UNCHANGED <<plugins, dependsOn, resolution, ordered, programVars, phase, next,
                    serviceVars, bootVars, outcomeVars>>
    BY <2>1 DEF resolverVars, kernelVars
  <2>4. UNCHANGED <<failFast, instancePlugins, legacyPlugins, active, starts, metadata,
                    container, store, todo, attempts, registered, loaded, found>>
    BY <2>3 DEF programVars, serviceVars, bootVars, outcomeVars
  <2>5. KernelTypeOK'
    BY <2>2, <2>3, <2>4 DEF KInv, IInv, KernelTypeOK, OneOfAName
  <2>6. GraphIsActive' /\ PhaseFits' /\ RegisterProgress' /\ LoadProgress'
    BY <2>3, <2>4 DEF KInv, GraphIsActive, PhaseFits, RegisterProgress, LoadProgress,
       Untouched, Passed, Tolerated, Current, Object, Names, Ordered
  <2>7. DependenciesReadyFirst' /\ FailureStopsThere'
    BY <2>3, <2>4 DEF KInv, DependenciesReadyFirst, FailureStopsThere, Tolerated, Current, Object
  <2>8. StoreIsComplete' /\ LoopCoversStore' /\ LeftOutByFailure' /\ BootstrapsReached'
    BY <2>3, <2>4 DEF KInv, StoreIsComplete, LoopCoversStore, LeftOutByFailure,
       BootstrapsReached
  <2>9. QED
    BY <2>2, <2>5, <2>6, <2>7, <2>8 DEF KInv
<1>2. CASE (\E p \in Catalog : Use(p)) \/ (\E p \in LegacyCatalog : RegisterLegacy(p))
  BY <1>2, AddKInv, KernelAssumption
<1>3. CASE Start
  BY <1>3, StartKInv
<1>4. CASE KernelStep
  <2>1. CASE Resolve \/ Resolved \/ ResolveThrows
    BY <2>1, ResolveKInv, ResolvedKInv
  <2>2. CASE SkipRegister \/ RegisterOk \/ RegisterFails \/ RegistrationDone
    BY <2>2, RegisterPassKInv, RegistrationDoneKInv
  <2>3. CASE SkipLoad \/ LoadOk \/ LoadFails \/ BootstrapsDone
    BY <2>3, LoadPassKInv
  <2>4. CASE LoadBootstraps \/ (\E b \in Bootstrap : RunBootstrap(b)) \/ LoadingDone
    BY <2>4, LoopKInv
  <2>5. QED
    BY <1>4, <2>1, <2>2, <2>3, <2>4 DEF KernelStep
<1>5. QED
  BY <1>1, <1>2, <1>3, <1>4 DEF KernelNext
-----------------------------------------------------------------------------

(***************************************************************************)
(* The invariant holds in every reachable state of the kernel.             *)
(***************************************************************************)
THEOREM KernelInvariance == KernelSpec => []KInv
BY KernelInitKInv, KernelNextKInv, PTL DEF KernelSpec

(***************************************************************************)
(* Type correctness; in particular resolve is never given two plugins of   *)
(* one name, which is what its own proofs assume.                          *)
(***************************************************************************)
THEOREM KernelTypeCorrect == KernelSpec => []KernelTypeOK
<1>1. KInv => KernelTypeOK
  BY DEF KInv
<1>2. QED
  BY <1>1, KernelInvariance, PTL

(***************************************************************************)
(* No plugin is registered or loaded before those it depends on were       *)
(* tried, and none is loaded before all were registered.                   *)
(***************************************************************************)
THEOREM DependenciesAreReady == KernelSpec => []DependenciesReadyFirst
<1>1. KInv => DependenciesReadyFirst
  BY DEF KInv
<1>2. QED
  BY <1>1, KernelInvariance, PTL

(***************************************************************************)
(* When start() throws, nothing runs after the failure that made it throw. *)
(***************************************************************************)
THEOREM FailureStops == KernelSpec => []FailureStopsThere
<1>1. KInv => FailureStopsThere
  BY DEF KInv
<1>2. QED
  BY <1>1, KernelInvariance, PTL

(***************************************************************************)
(* When start() returns, every plugin went through both passes, or failed  *)
(* in one and is not critical.                                             *)
(***************************************************************************)
THEOREM ReadyMeansRun == KernelSpec => []ReadyIsSound
<1>1. KInv => ReadyIsSound
  <2> SUFFICES ASSUME KInv, phase = "ready"
               PROVE  /\ Names(active) = Ordered
                      /\ \A p \in active :
                           /\ p.register => \/ registered[p.name] = "ok"
                                            \/ registered[p.name] = "failed" /\ Tolerated(p)
                           /\ p.load => \/ loaded[p.name] = "ok"
                                        \/ loaded[p.name] = "failed" /\ Tolerated(p)
    BY DEF ReadyIsSound
  <2>1. resolution = "ok" /\ next > Len(ordered)
    BY DEF KInv, PhaseFits
  <2>2. /\ Names(active) = Ordered
        /\ Len(ordered) \in Nat /\ DOMAIN ordered = 1 .. Len(ordered)
    BY <2>1, Places
  <2>3. ASSUME NEW p \in active
        PROVE  /\ p.register => Passed(registered, p.name)
               /\ p.load => Passed(loaded, p.name)
    <3>1. PICK i \in DOMAIN ordered : ordered[i] = p.name
      BY <2>1, Places
    <3>2. Object(ordered[i]) = p
      BY <3>1, ObjectIsPlugin DEF KInv, KernelTypeOK
    <3>3. i < next
      BY <2>1, <2>2, <3>1 DEF KInv, KernelTypeOK
    <3>4. QED
      BY <3>1, <3>2, <3>3 DEF KInv, LoadProgress
  <2>4. \A p \in active : Object(p.name) = p
    BY ObjectIsPlugin DEF KInv, KernelTypeOK
  <2>5. QED
    BY <2>2, <2>3, <2>4 DEF Passed
<1>2. QED
  BY <1>1, KernelInvariance, PTL

(***************************************************************************)
(* Whatever was imported is in the container, unless the load() that       *)
(* imported it rejected and none after it resolved.                        *)
(***************************************************************************)
THEOREM LeftOutOnlyByFailure == KernelSpec => []LeftOutByFailure
<1>1. KInv => LeftOutByFailure
  BY DEF KInv
<1>2. QED
  BY <1>1, KernelInvariance, PTL

(***************************************************************************)
(* The bootstrap loader reaches every bootstrap that was imported by the   *)
(* program or by a plugin the loader depends on.                           *)
(***************************************************************************)
THEOREM BootstrapsAreReached == KernelSpec => []BootstrapsReached
<1>1. KInv => BootstrapsReached
  BY DEF KInv
<1>2. QED
  BY <1>1, KernelInvariance, PTL

-----------------------------------------------------------------------------

(***************************************************************************)
(* 3. The kernel implements TwoPhaseStart: every step of start() is a      *)
(* step of the abstract start, or changes nothing in it, under the mapping *)
(* that Kernel.tla states.                                                 *)
(***************************************************************************)

\* The plugin at `next` is due, and passes when `next` moves on.
AtNext ==
  /\ ordered[next] \in plugins \ Through
  /\ dependsOn[ordered[next]] \subseteq Through

(***************************************************************************)
(* Each plugin comes once, behind those it depends on.                     *)
(***************************************************************************)
LEMMA NextIsDue ==
  ASSUME KInv, resolution = "ok", next \in DOMAIN ordered
  PROVE  /\ AtNext
         /\ ordered[next] \in PluginName
         /\ Current = Object(ordered[next])
         /\ ordered' = ordered /\ next' = next + 1 => Through' = Through \cup {ordered[next]}
<1>1. /\ Ordered = plugins
      /\ Len(ordered) \in Nat /\ DOMAIN ordered = 1 .. Len(ordered)
      /\ \A i, j \in DOMAIN ordered : ordered[i] = ordered[j] => i = j
      /\ ordered[next] \in PluginName
  BY Places DEF KInv, GraphIsActive
<1>2. ordered[next] \in plugins
  BY <1>1 DEF Ordered
<1>3. ordered[next] \notin Through
  <2>1. SUFFICES ASSUME NEW i \in 1 .. (next - 1), ordered[i] = ordered[next]
                 PROVE  FALSE
    BY DEF Through
  <2>2. i \in DOMAIN ordered /\ i # next
    BY <1>1
  <2>3. QED
    BY <1>1, <2>1, <2>2
<1>4. dependsOn[ordered[next]] \subseteq Through
  BY DEF KInv, IInv, DependenciesFirst, Through
<1>5. ASSUME ordered' = ordered, next' = next + 1
      PROVE  Through' = Through \cup {ordered[next]}
  <2>1. 1 .. (next' - 1) = (1 .. (next - 1)) \cup {next}
    BY <1>1, <1>5
  <2>2. QED
    BY <1>5, <2>1 DEF Through
<1>6. QED
  BY <1>1, <1>2, <1>3, <1>4, <1>5 DEF AtNext, Current

(***************************************************************************)
(* At the end of a pass every plugin is through.                           *)
(***************************************************************************)
LEMMA PassIsComplete ==
  ASSUME KInv, resolution = "ok", next > Len(ordered)
  PROVE  Through = plugins
<1>1. /\ Ordered = plugins
      /\ Len(ordered) \in Nat /\ DOMAIN ordered = 1 .. Len(ordered)
  BY Places DEF KInv, GraphIsActive
<1>2. 1 .. (next - 1) = DOMAIN ordered
  BY <1>1 DEF KInv, KernelTypeOK
<1>3. QED
  BY <1>1, <1>2 DEF Through, Ordered

(***************************************************************************)
(* The plan of a start() does not change while it runs.                    *)
(***************************************************************************)
LEMMA PlanKept ==
  ASSUME UNCHANGED <<plugins, dependsOn, active, failFast>>
  PROVE  UNCHANGED <<plugins, dependsOn, Survivable>>
BY DEF Survivable, Tolerated, Object

(***************************************************************************)
(* What each phase is through with, by the phase start() is in.            *)
(***************************************************************************)
LEMMA DoneInPhase ==
  /\ phase \in {"idle", "resolving", "registering"} =>
       PassDone = [ph \in TwoPhase!Phase |-> IF ph = "register" THEN Through ELSE {}]
  /\ phase \in {"loading", "bootstrapping", "ready"} =>
       PassDone = [ph \in TwoPhase!Phase |-> IF ph = "register" THEN plugins ELSE Through]
BY DEF PassDone, SecondPhase, TwoPhase!Phase
-----------------------------------------------------------------------------

(***************************************************************************)
(* The kernel begins where the abstract start does.                        *)
(***************************************************************************)
LEMMA InitImplements == KernelInit => TwoPhase!Init
<1> SUFFICES ASSUME KernelInit
             PROVE  TwoPhase!Init
  OBVIOUS
<1>1. Through = {} /\ Survivable = {} /\ Failures = {} /\ StageOfPhase = "idle"
  BY DEF KernelInit, Through, Survivable, Failures, StageOfPhase
<1>2. PassDone = [ph \in TwoPhase!Phase |-> {}]
  BY <1>1, DoneInPhase DEF KernelInit
<1>3. QED
  BY <1>1, <1>2 DEF KernelInit, TwoPhase!Init

(***************************************************************************)
(* start() begins an abstract start with the merged plugins.               *)
(***************************************************************************)
LEMMA StartImplements ==
  ASSUME KInv, KInv', Start
  PROVE  TwoPhase!Begin
<1>1. /\ phase \in {"idle", "ready", "failed"} /\ phase' = "resolving" /\ next' = 1
      /\ registered' = [n \in PluginName |-> "none"]
      /\ loaded' = [n \in PluginName |-> "none"]
  BY DEF Start
<1>2. StageOfPhase # "starting" /\ StageOfPhase' = "starting"
  BY <1>1 DEF StageOfPhase
<1>3. plugins' \in SUBSET PluginName /\ dependsOn' \in [PluginName -> SUBSET PluginName]
  BY DEF KInv, IInv, TypeOK
<1>4. Survivable' \in SUBSET plugins'
  BY DEF Survivable
<1>5. Failures' = {}
  BY <1>1 DEF Failures
<1>6. PassDone' = [ph \in TwoPhase!Phase |-> {}]
  BY <1>1 DEF PassDone, SecondPhase, Through, TwoPhase!Phase
<1>7. QED
  BY <1>2, <1>3, <1>4, <1>5, <1>6 DEF TwoPhase!Begin

(***************************************************************************)
(* resolve throws only when the plugins cannot be ordered.                 *)
(***************************************************************************)
LEMMA ResolveThrowsImplements ==
  ASSUME KInv, ResolveThrows
  PROVE  TwoPhase!Refuse
<1>1. /\ phase = "resolving" /\ phase' = "failed" /\ resolution \in {"missing", "circular"}
      /\ UNCHANGED <<plugins, dependsOn, ordered, active, failFast, next, registered, loaded>>
  BY DEF ResolveThrows, resolverVars, programVars, outcomeVars
<1>2. next = 1 /\ Untouched
  BY <1>1 DEF KInv, PhaseFits
<1>3. StageOfPhase = "starting" /\ StageOfPhase' = "failed"
  BY <1>1 DEF StageOfPhase
<1>4. Through = {} /\ Through' = {}
  BY <1>1, <1>2 DEF Through
<1>5. ~ SecondPhase /\ ~ SecondPhase'
  <2>1. \A i \in DOMAIN ordered : loaded[ordered[i]] = "none"
    <3>1. ordered \in Seq(PluginName)
      BY DEF KInv, IInv, TypeOK
    <3>2. QED
      BY <1>2, <3>1 DEF Untouched
  <2>2. QED
    BY <1>1, <2>1 DEF SecondPhase
<1>6. PassDone = [ph \in TwoPhase!Phase |-> {}] /\ UNCHANGED PassDone
  BY <1>4, <1>5 DEF PassDone, TwoPhase!Phase
<1>7. ~ TwoPhase!Orderable
  BY <1>1, VerdictFollows DEF KInv, VerdictSound, HasCycle, TwoPhase!Orderable
<1>8. UNCHANGED <<plugins, dependsOn, Survivable, Failures>>
  BY <1>1, PlanKept DEF Failures
<1>9. QED
  BY <1>3, <1>6, <1>7, <1>8 DEF TwoPhase!Refuse
-----------------------------------------------------------------------------

(***************************************************************************)
(* A step of the first pass takes the plugin at `next` through the first   *)
(* phase of the abstract start, or ends it.                                *)
(***************************************************************************)
LEMMA RegisterImplements ==
  ASSUME KInv, SkipRegister \/ RegisterOk \/ RegisterFails
  PROVE  TwoPhase!Succeeds(ordered[next], "register") \/ TwoPhase!Fails(ordered[next], "register")
<1> DEFINE n == ordered[next]
<1>1. /\ phase = "registering" /\ next \in DOMAIN ordered /\ resolution = "ok"
      /\ UNCHANGED <<plugins, dependsOn, ordered, active, failFast, loaded>>
  BY DEF SkipRegister, RegisterOk, RegisterFails, InPass, KInv, PhaseFits, resolverVars,
     programVars, outcomeVars
<1>2. AtNext /\ n \in PluginName /\ Current = Object(n)
  BY <1>1, NextIsDue
<1>3. /\ registered \in [PluginName -> Outcome] /\ loaded \in [PluginName -> Outcome]
      /\ registered[n] = "none" /\ loaded[n] = "none" /\ KernelTypeOK /\ Current \in active
  BY <1>1, <1>2, Places DEF KInv, KernelTypeOK, RegisterProgress, Current
<1>4. PassDone = [ph \in TwoPhase!Phase |-> IF ph = "register" THEN Through ELSE {}]
  BY <1>1, DoneInPhase
<1>5. TwoPhase!Due(n, "register")
  BY <1>1, <1>2, <1>4 DEF TwoPhase!Due, TwoPhase!Phase, AtNext, StageOfPhase
<1>6. UNCHANGED <<plugins, dependsOn, Survivable>>
  BY <1>1, PlanKept
<1>7. ASSUME Advance
      PROVE  TwoPhase!Passes(n, "register")
  <2>1. phase' = "registering" /\ Through' = Through \cup {n}
    BY <1>1, <1>7, NextIsDue DEF Advance
  <2>2. PassDone' = [ph \in TwoPhase!Phase |-> IF ph = "register" THEN Through' ELSE {}]
    BY <2>1 DEF PassDone, SecondPhase, TwoPhase!Phase
  <2>3. PassDone' = [PassDone EXCEPT !["register"] = PassDone["register"] \cup {n}]
    BY <1>4, <2>1, <2>2 DEF TwoPhase!Phase
  <2>4. StageOfPhase' = StageOfPhase
    BY <1>1, <2>1 DEF StageOfPhase
  <2>5. QED
    BY <2>3, <2>4 DEF TwoPhase!Passes
<1>8. CASE SkipRegister
  <2>1. Advance /\ UNCHANGED Failures
    BY <1>8 DEF SkipRegister, outcomeVars, Failures
  <2>2. QED
    BY <1>5, <1>6, <1>7, <2>1 DEF TwoPhase!Succeeds
<1>9. CASE RegisterOk
  <2>1. Advance /\ registered' = [registered EXCEPT ![n] = "ok"]
    BY <1>9 DEF RegisterOk
  <2>2. UNCHANGED Failures
    BY <1>1, <1>2, <1>3, <2>1 DEF Failures
  <2>3. QED
    BY <1>5, <1>6, <1>7, <2>1, <2>2 DEF TwoPhase!Succeeds
<1>10. CASE RegisterFails
  <2>1. Fail(Current) /\ registered' = [registered EXCEPT ![n] = "failed"]
    BY <1>10 DEF RegisterFails
  <2>2. Failures' = Failures \cup {n}
    BY <1>1, <1>2, <1>3, <2>1 DEF Failures
  <2>3. n \in Survivable <=> Tolerated(Current)
    BY <1>2 DEF Survivable, AtNext
  <2>4. CASE ShouldFailFast(Current)
    <3>1. phase' = "failed" /\ UNCHANGED next /\ n \notin Survivable
      BY <1>3, <2>1, <2>3, <2>4, FailFastOrTolerated DEF Fail
    <3>2. ~ SecondPhase' /\ ~ SecondPhase /\ Through' = Through
      BY <1>1, <1>3, <3>1 DEF SecondPhase, Through
    <3>3. UNCHANGED PassDone /\ StageOfPhase' = "failed"
      BY <1>1, <3>1, <3>2 DEF PassDone, StageOfPhase
    <3>4. QED
      BY <1>5, <1>6, <2>2, <3>1, <3>3 DEF TwoPhase!Fails
  <2>5. CASE ~ ShouldFailFast(Current)
    <3>1. Advance /\ n \in Survivable
      BY <1>3, <2>1, <2>3, <2>5, FailFastOrTolerated DEF Fail
    <3>2. QED
      BY <1>5, <1>6, <1>7, <2>2, <3>1 DEF TwoPhase!Fails
  <2>6. QED
    BY <2>4, <2>5
<1>11. QED
  BY <1>8, <1>9, <1>10

(***************************************************************************)
(* A step of the second pass that decides the outcome of a plugin takes it *)
(* through the second phase of the abstract start, or ends it.             *)
(***************************************************************************)
LEMMA LoadImplements ==
  ASSUME KInv, SkipLoad \/ LoadOk \/ LoadFails \/ BootstrapsDone
  PROVE  TwoPhase!Succeeds(ordered[next], "load") \/ TwoPhase!Fails(ordered[next], "load")
<1> DEFINE n == ordered[next]
<1>1. /\ phase \in {"loading", "bootstrapping"} /\ next \in DOMAIN ordered
      /\ UNCHANGED <<plugins, dependsOn, ordered, active, failFast, registered>>
  BY DEF SkipLoad, LoadOk, LoadFails, BootstrapsDone, InPass, KInv, PhaseFits, resolverVars,
     programVars, outcomeVars
<1>2. resolution = "ok"
  BY <1>1 DEF KInv, PhaseFits
<1>3. AtNext /\ n \in PluginName /\ Current = Object(n)
  BY <1>1, <1>2, NextIsDue
<1>4. /\ loaded \in [PluginName -> Outcome] /\ loaded[n] = "none"
      /\ KernelTypeOK /\ Current \in active
  BY <1>1, <1>2, <1>3, Places DEF KInv, KernelTypeOK, LoadProgress, Current
<1>5. PassDone = [ph \in TwoPhase!Phase |-> IF ph = "register" THEN plugins ELSE Through]
  BY <1>1, DoneInPhase
<1>6. TwoPhase!Due(n, "load")
  BY <1>1, <1>3, <1>5 DEF TwoPhase!Due, TwoPhase!Phase, AtNext, StageOfPhase
<1>7. UNCHANGED <<plugins, dependsOn, Survivable>>
  BY <1>1, PlanKept
<1>8. ASSUME phase' = "loading", next' = next + 1
      PROVE  TwoPhase!Passes(n, "load")
  <2>1. Through' = Through \cup {n}
    BY <1>1, <1>2, <1>8, NextIsDue
  <2>2. PassDone' = [ph \in TwoPhase!Phase |-> IF ph = "register" THEN plugins ELSE Through']
    BY <1>1, <1>8 DEF PassDone, SecondPhase, TwoPhase!Phase
  <2>3. PassDone' = [PassDone EXCEPT !["load"] = PassDone["load"] \cup {n}]
    BY <1>5, <2>1, <2>2 DEF TwoPhase!Phase
  <2>4. StageOfPhase' = StageOfPhase
    BY <1>1, <1>8 DEF StageOfPhase
  <2>5. QED
    BY <2>3, <2>4 DEF TwoPhase!Passes
<1>9. CASE SkipLoad
  <2>1. phase' = "loading" /\ next' = next + 1 /\ UNCHANGED Failures
    BY <1>9 DEF SkipLoad, InPass, Advance, outcomeVars, Failures
  <2>2. QED
    BY <1>6, <1>7, <1>8, <2>1 DEF TwoPhase!Succeeds
<1>10. CASE LoadOk \/ BootstrapsDone
  <2>1. phase' = "loading" /\ next' = next + 1 /\ loaded' = [loaded EXCEPT ![n] = "ok"]
    BY <1>10 DEF LoadOk, BootstrapsDone, InPass, Advance, KInv, PhaseFits
  <2>2. UNCHANGED Failures
    BY <1>1, <1>3, <1>4, <2>1 DEF Failures
  <2>3. QED
    BY <1>6, <1>7, <1>8, <2>1, <2>2 DEF TwoPhase!Succeeds
<1>11. CASE LoadFails
  <2>1. /\ phase = "loading" /\ Fail(Current)
        /\ loaded' = [loaded EXCEPT ![n] = "failed"]
    BY <1>11 DEF LoadFails, InPass
  <2>2. Failures' = Failures \cup {n}
    BY <1>1, <1>3, <1>4, <2>1 DEF Failures
  <2>3. n \in Survivable <=> Tolerated(Current)
    BY <1>3 DEF Survivable, AtNext
  <2>4. CASE ShouldFailFast(Current)
    <3>1. phase' = "failed" /\ UNCHANGED next /\ n \notin Survivable
      BY <1>4, <2>1, <2>3, <2>4, FailFastOrTolerated DEF Fail
    <3>2. loaded'[n] = "failed"
      BY <1>3, <1>4, <2>1
    <3>3. SecondPhase' /\ SecondPhase /\ Through' = Through
      BY <1>1, <2>1, <3>1, <3>2 DEF SecondPhase, Through
    <3>4. UNCHANGED PassDone /\ StageOfPhase' = "failed"
      BY <1>1, <3>1, <3>3 DEF PassDone, StageOfPhase
    <3>5. QED
      BY <1>6, <1>7, <2>2, <3>1, <3>4 DEF TwoPhase!Fails
  <2>5. CASE ~ ShouldFailFast(Current)
    <3>1. phase' = "loading" /\ next' = next + 1 /\ n \in Survivable
      BY <1>4, <2>1, <2>3, <2>5, FailFastOrTolerated DEF Fail, Advance
    <3>2. QED
      BY <1>6, <1>7, <1>8, <2>2, <3>1 DEF TwoPhase!Fails
  <2>6. QED
    BY <2>4, <2>5
<1>12. QED
  BY <1>9, <1>10, <1>11

(***************************************************************************)
(* start() returns when every plugin is through both phases.               *)
(***************************************************************************)
LEMMA LoadingDoneImplements ==
  ASSUME KInv, LoadingDone
  PROVE  TwoPhase!Return
<1>1. /\ phase = "loading" /\ phase' = "ready" /\ next > Len(ordered)
      /\ resolution = "ok"
      /\ UNCHANGED <<plugins, dependsOn, ordered, active, failFast, next, registered, loaded>>
  BY DEF LoadingDone, KInv, PhaseFits, resolverVars, programVars, outcomeVars
<1>2. Through = plugins /\ Through' = Through
  BY <1>1, PassIsComplete DEF Through
<1>3. PassDone["load"] = plugins
  BY <1>1, <1>2, DoneInPhase DEF TwoPhase!Phase
<1>4. UNCHANGED PassDone
  BY <1>1, <1>2 DEF PassDone, SecondPhase
<1>5. UNCHANGED <<plugins, dependsOn, Survivable, Failures>>
  BY <1>1, PlanKept DEF Failures
<1>6. StageOfPhase = "starting" /\ StageOfPhase' = "ready"
  BY <1>1 DEF StageOfPhase
<1>7. QED
  BY <1>3, <1>4, <1>5, <1>6 DEF TwoPhase!Return
-----------------------------------------------------------------------------

(***************************************************************************)
(* The other steps change nothing of the abstract start: plugins added     *)
(* concern a later one, and ordering the plugins, passing from one phase   *)
(* to the next and running the bootstraps are part of what it leaves open. *)
(***************************************************************************)
LEMMA OtherStepsStutter ==
  ASSUME KInv,
         \/ \E p \in Catalog : Use(p)
         \/ \E p \in LegacyCatalog : RegisterLegacy(p)
         \/ Resolve \/ Resolved \/ RegistrationDone
         \/ LoadBootstraps \/ (\E b \in Bootstrap : RunBootstrap(b))
         \/ UNCHANGED vars
  PROVE  UNCHANGED TwoPhase!vars
<1>1. UNCHANGED <<plugins, dependsOn, active, failFast, registered, loaded>>
  BY DEF Use, RegisterLegacy, Resolve, ResolveStep, RejectMissing, CountDependencies, Shift,
     Finish, Resolved, RegistrationDone, LoadBootstraps, RunBootstrap, vars, kernelVars,
     resolverVars, programVars, outcomeVars
<1>2. UNCHANGED <<plugins, dependsOn, Survivable, Failures>>
  BY <1>1, PlanKept DEF Failures
<1>3. CASE Resolve
  <2>1. phase = "resolving" /\ UNCHANGED <<phase, next>>
    BY <1>3 DEF Resolve, kernelVars
  <2>2. Through = {} /\ Through' = {}
    BY <2>1 DEF KInv, PhaseFits, Through
  <2>3. UNCHANGED <<StageOfPhase, PassDone>>
    BY <1>1, <2>1, <2>2 DEF StageOfPhase, PassDone, SecondPhase
  <2>4. QED
    BY <1>2, <2>3 DEF TwoPhase!vars
<1>4. CASE RegistrationDone
  <2>1. /\ phase = "registering" /\ phase' = "loading" /\ next > Len(ordered) /\ next' = 1
        /\ resolution = "ok"
    BY <1>4 DEF RegistrationDone, KInv, PhaseFits
  <2>2. Through = plugins /\ Through' = {}
    BY <2>1, PassIsComplete DEF Through
  <2>3. UNCHANGED <<StageOfPhase, PassDone>>
    BY <1>1, <2>1, <2>2 DEF StageOfPhase, PassDone, SecondPhase
  <2>4. QED
    BY <1>2, <2>3 DEF TwoPhase!vars
<1>5. CASE Resolved \/ LoadBootstraps \/ (\E b \in Bootstrap : RunBootstrap(b))
  <2>1. /\ UNCHANGED <<ordered, next>>
        /\ \/ phase = "resolving" /\ phase' = "registering"
           \/ phase = "loading" /\ phase' = "bootstrapping"
           \/ phase = "bootstrapping" /\ phase' = "bootstrapping"
    BY <1>5 DEF Resolved, LoadBootstraps, RunBootstrap, InPass, resolverVars
  <2>2. UNCHANGED Through
    BY <2>1 DEF Through
  <2>3. UNCHANGED <<StageOfPhase, PassDone>>
    BY <1>1, <2>1, <2>2 DEF StageOfPhase, PassDone, SecondPhase
  <2>4. QED
    BY <1>2, <2>3 DEF TwoPhase!vars
<1>6. CASE \/ \E p \in Catalog : Use(p)
           \/ \E p \in LegacyCatalog : RegisterLegacy(p)
           \/ UNCHANGED vars
  <2>1. UNCHANGED <<ordered, next, phase>>
    BY <1>6 DEF Use, RegisterLegacy, vars, kernelVars, resolverVars
  <2>2. UNCHANGED <<StageOfPhase, PassDone>>
    BY <1>1, <2>1 DEF StageOfPhase, PassDone, SecondPhase, Through
  <2>3. QED
    BY <1>2, <2>2 DEF TwoPhase!vars
<1>7. QED
  BY <1>3, <1>4, <1>5, <1>6

(***************************************************************************)
(* Every step of the kernel is one of the abstract start, or a stutter.    *)
(***************************************************************************)
LEMMA StepImplements ==
  KInv /\ KInv' /\ [KernelNext]_vars => [TwoPhase!Next]_(TwoPhase!vars)
<1> SUFFICES ASSUME KInv, KInv', [KernelNext]_vars
             PROVE  [TwoPhase!Next]_(TwoPhase!vars)
  OBVIOUS
<1>1. CASE Start
  BY <1>1, StartImplements DEF TwoPhase!Next
<1>2. CASE ResolveThrows
  BY <1>2, ResolveThrowsImplements DEF TwoPhase!Next
<1>3. CASE SkipRegister \/ RegisterOk \/ RegisterFails
  <2>1. ordered[next] \in PluginName
    BY <1>3, Places DEF SkipRegister, RegisterOk, RegisterFails, InPass, KInv, PhaseFits
  <2>2. QED
    BY <1>3, <2>1, RegisterImplements DEF TwoPhase!Next, TwoPhase!Phase
<1>4. CASE SkipLoad \/ LoadOk \/ LoadFails \/ BootstrapsDone
  <2>1. ordered[next] \in PluginName
    BY <1>4, Places DEF SkipLoad, LoadOk, LoadFails, BootstrapsDone, InPass, KInv, PhaseFits
  <2>2. QED
    BY <1>4, <2>1, LoadImplements DEF TwoPhase!Next, TwoPhase!Phase
<1>5. CASE LoadingDone
  BY <1>5, LoadingDoneImplements DEF TwoPhase!Next
<1>6. CASE \/ \E p \in Catalog : Use(p)
           \/ \E p \in LegacyCatalog : RegisterLegacy(p)
           \/ Resolve \/ Resolved \/ RegistrationDone
           \/ LoadBootstraps \/ (\E b \in Bootstrap : RunBootstrap(b))
           \/ UNCHANGED vars
  BY <1>6, OtherStepsStutter
<1>7. QED
  BY <1>1, <1>2, <1>3, <1>4, <1>5, <1>6 DEF KernelNext, KernelStep

(***************************************************************************)
(* Every start() is a start in two phases: each plugin is taken once in    *)
(* each, behind those it depends on; the first failure that is not         *)
(* tolerated ends it, and it returns when all are through.                 *)
(***************************************************************************)
THEOREM KernelImplementsTwoPhases == KernelSpec => StartsInTwoPhases
BY KernelInvariance, InitImplements, StepImplements, PTL
DEF KernelSpec, StartsInTwoPhases, TwoPhase!Spec
=============================================================================

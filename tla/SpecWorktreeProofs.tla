------------------------- MODULE SpecWorktreeProofs -------------------------
(***************************************************************************)
(* The worktree flow for any number of changes, terminals and commits: its *)
(* types, one worktree per branch, and no work lost without force.  The    *)
(* three rest on what RemovalTypes adds to the types: while a removal that *)
(* was not forced goes on, what it has checked stays in main.              *)
(***************************************************************************)
EXTENDS SpecWorktree, TLAPS

LEMMA InitTyped == Init => TypeOK /\ OneToOne
BY FlowAssumption DEF Init, TypeOK, RemovalTypes, OneToOne, Removing, At, Idle, Branch, Commit, Stage

LEMMA AbsentIsNoSet == Absent \notin SUBSET Commit /\ Absent \notin Change
BY FlowAssumption

\* What a branch holds are commits, and OfBranch leaves a set as it is.
LEMMA BranchHoldsCommits ==
  ASSUME NEW b \in Branch
  PROVE  /\ OfBranch(b) \in SUBSET Commit
         /\ b # Absent => OfBranch(b) = b
         /\ b = Absent => OfBranch(b) = {}
BY AbsentIsNoSet DEF Branch, OfBranch

\* Committing takes the next number, which the bound still allows.
LEMMA NextCommit ==
  ASSUME commits \in 0 .. MaxCommits, commits < MaxCommits
  PROVE  commits + 1 \in Commit /\ commits + 1 \in 0 .. MaxCommits
BY FlowAssumption DEF Commit

\* The steps of the flow leave the removals alone, and main only grows.
LEMMA FlowLeavesRemovals ==
  ASSUME TypeOK, removal' = removal, main \subseteq main'
  PROVE  RemovalTypes'
BY DEF TypeOK, RemovalTypes, At

LEMMA NewTyped == ASSUME TypeOK, NEW c \in Change, New(c) PROVE TypeOK'
<1>1. RemovalTypes'
  BY FlowLeavesRemovals DEF New
<1>2. main \in Branch
  BY DEF TypeOK, Branch
<1>3. local' \in [Change -> Branch]
  BY <1>2 DEF New, TypeOK
<1> QED BY <1>1, <1>3 DEF New, TypeOK

LEMMA EditTyped == ASSUME TypeOK, NEW s, NEW c \in Change, Edit(s, c) PROVE TypeOK'
<1>1. RemovalTypes'
  BY FlowLeavesRemovals DEF Edit
<1> QED BY <1>1 DEF Edit, TypeOK

LEMMA CommitTyped == ASSUME TypeOK, NEW s, NEW c \in Change, CommitWork(s, c) PROVE TypeOK'
<1>1. RemovalTypes'
  BY FlowLeavesRemovals DEF CommitWork
<1>2. commits + 1 \in Commit /\ commits' \in 0 .. MaxCommits
  BY NextCommit DEF CommitWork, TypeOK
<1>3. OfBranch(local[c]) \cup {commits + 1} \in Branch
  BY <1>2, BranchHoldsCommits DEF TypeOK, Branch
<1>4. local' \in [Change -> Branch]
  BY <1>3 DEF CommitWork, TypeOK
<1>5. tree' \in [Change -> {"none", "clean", "dirty"}]
  BY DEF CommitWork, TypeOK
<1> QED BY <1>1, <1>2, <1>4, <1>5 DEF CommitWork, TypeOK

LEMMA PushTyped == ASSUME TypeOK, NEW s, NEW c \in Change, Push(s, c) PROVE TypeOK'
<1>1. RemovalTypes'
  BY FlowLeavesRemovals DEF Push
<1>2. remote' \in [Change -> Branch]
  BY DEF Push, TypeOK
<1> QED BY <1>1, <1>2 DEF Push, TypeOK

LEMMA PushElsewhereTyped == ASSUME TypeOK, NEW c \in Change, PushElsewhere(c) PROVE TypeOK'
<1>1. RemovalTypes'
  BY FlowLeavesRemovals DEF PushElsewhere
<1>2. commits + 1 \in Commit /\ commits' \in 0 .. MaxCommits
  BY NextCommit DEF PushElsewhere, TypeOK
<1>3. OfBranch(remote[c]) \cup {commits + 1} \in Branch
  BY <1>2, BranchHoldsCommits DEF TypeOK, Branch
<1>4. remote' \in [Change -> Branch]
  BY <1>3 DEF PushElsewhere, TypeOK
<1> QED BY <1>1, <1>2, <1>4 DEF PushElsewhere, TypeOK

LEMMA OpenTyped == ASSUME TypeOK, NEW c \in Change, OpenPR(c) PROVE TypeOK'
<1>1. RemovalTypes'
  BY FlowLeavesRemovals DEF OpenPR
<1>2. pr' \in [Change -> SUBSET {"open", "merged"}]
  BY DEF OpenPR, TypeOK
<1> QED BY <1>1, <1>2 DEF OpenPR, TypeOK

LEMMA MergeTyped == ASSUME TypeOK, NEW c \in Change, Merge(c) PROVE TypeOK'
<1>1. remote[c] \in SUBSET Commit
  BY DEF Merge, TypeOK, Branch
<1>2. main \subseteq main' /\ main' \subseteq main \cup remote[c]
  BY DEF Merge
<1>3. RemovalTypes'
  BY <1>2, FlowLeavesRemovals DEF Merge
<1>4. main' \subseteq landed' /\ landed' \subseteq Commit
  BY <1>1, <1>2 DEF Merge, TypeOK
<1>5. remote' \in [Change -> Branch]
  BY DEF Merge, TypeOK, Branch
<1>6. pr' \in [Change -> SUBSET {"open", "merged"}]
  BY DEF Merge, TypeOK
<1> QED BY <1>3, <1>4, <1>5, <1>6 DEF Merge, TypeOK

LEMMA BeginsTyped ==
  ASSUME TypeOK, NEW m \in Remover, NEW c \in Change, NEW force \in BOOLEAN, NEW keepRemote \in BOOLEAN,
         RemoveBegins(m, c, force, keepRemote)
  PROVE  TypeOK'
<1>1. OfBranch(local[c]) \in SUBSET Commit
  BY BranchHoldsCommits DEF TypeOK
<1> DEFINE begun == [change |-> c, at |-> "tree", force |-> force, keepRemote |-> keepRemote,
                     seen |-> OfBranch(local[c])]
<1>2. begun \in [change : Change \cup {Absent}, at : Stage, force : BOOLEAN, keepRemote : BOOLEAN,
                 seen : SUBSET Commit]
  BY <1>1 DEF Stage
<1>3. removal' = [removal EXCEPT ![m] = begun] /\ main' = main
  BY DEF RemoveBegins
<1>4. force \/ OfBranch(local[c]) \subseteq main
  BY DEF RemoveBegins, Checked
<1>5. RemovalTypes'
  BY <1>2, <1>3, <1>4 DEF TypeOK, RemovalTypes, At
<1> QED BY <1>5 DEF RemoveBegins, TypeOK

\* A removal that goes on to a stage keeps what it knows.
LEMMA ToTyped ==
  ASSUME TypeOK, NEW m \in Remover, NEW stage \in Stage, ~ At(m, "idle"), To(m, stage), main' = main
  PROVE  RemovalTypes'
BY DEF TypeOK, RemovalTypes, At, To

LEMMA RemovesTreeTyped == ASSUME TypeOK, NEW m \in Remover, RemovesTree(m) PROVE TypeOK'
<1>1. RemovalTypes'
  BY ToTyped DEF RemovesTree, At, Stage
<1>2. tree' \in [Change -> {"none", "clean", "dirty"}]
  BY DEF RemovesTree, TypeOK
<1> QED BY <1>1, <1>2 DEF RemovesTree, TypeOK

LEMMA DeletesBranchTyped == ASSUME TypeOK, NEW m \in Remover, DeletesBranch(m) PROVE TypeOK'
<1>1. RemovalTypes'
  BY ToTyped DEF DeletesBranch, At, Stage
<1>2. local' \in [Change -> Branch]
  BY DEF DeletesBranch, TypeOK, Branch
<1> QED BY <1>1, <1>2 DEF DeletesBranch, TypeOK

LEMMA DeletesRemoteTyped == ASSUME TypeOK, NEW m \in Remover, DeletesRemote(m) PROVE TypeOK'
<1>1. Idle \in [change : Change \cup {Absent}, at : Stage, force : BOOLEAN, keepRemote : BOOLEAN,
                seen : SUBSET Commit]
  BY DEF Idle, Stage
<1>2. RemovalTypes'
  BY <1>1 DEF DeletesRemote, TypeOK, RemovalTypes, At, Idle
<1>3. remote' \in [Change -> Branch]
  BY DEF DeletesRemote, TypeOK, Branch
<1> QED BY <1>2, <1>3 DEF DeletesRemote, TypeOK

LEMMA InterruptedTyped == ASSUME TypeOK, NEW m \in Remover, Interrupted(m) PROVE TypeOK'
<1>1. Idle \in [change : Change \cup {Absent}, at : Stage, force : BOOLEAN, keepRemote : BOOLEAN,
                seen : SUBSET Commit]
  BY DEF Idle, Stage
<1>2. RemovalTypes'
  BY <1>1 DEF Interrupted, TypeOK, RemovalTypes, At, Idle
<1>3. torn' \subseteq Change
  BY DEF Interrupted, TypeOK, RemovalTypes, At
<1> QED BY <1>2, <1>3 DEF Interrupted, TypeOK

LEMMA StutterTyped == ASSUME TypeOK, UNCHANGED vars PROVE TypeOK'
<1>1. RemovalTypes'
  BY FlowLeavesRemovals DEF vars
<1> QED BY <1>1 DEF vars, TypeOK

LEMMA StepTyped == TypeOK /\ [Next]_vars => TypeOK'
<1> SUFFICES ASSUME TypeOK, [Next]_vars PROVE TypeOK'
  OBVIOUS
<1>1. CASE UNCHANGED vars
  BY <1>1, StutterTyped
<1>2. ASSUME NEW c \in Change, New(c) \/ PushElsewhere(c) \/ OpenPR(c) \/ Merge(c) PROVE TypeOK'
  BY <1>2, NewTyped, PushElsewhereTyped, OpenTyped, MergeTyped
<1>3. ASSUME NEW c \in Change, NEW s \in Session, Edit(s, c) \/ CommitWork(s, c) \/ Push(s, c) PROVE TypeOK'
  BY <1>3, EditTyped, CommitTyped, PushTyped
<1>5. ASSUME NEW m \in Remover, NEW c \in Change, Remove(m, c) \/ Gc(m, c) PROVE TypeOK'
  BY <1>5, BeginsTyped DEF Remove, Gc
<1>6. ASSUME NEW m \in Remover, RemovalStep(m) PROVE TypeOK'
  BY <1>6, RemovesTreeTyped, DeletesBranchTyped, DeletesRemoteTyped, InterruptedTyped DEF RemovalStep
<1> QED BY <1>1, <1>2, <1>3, <1>5, <1>6 DEF Next

(***************************************************************************)
(* Every variable of the flow keeps its type; main holds only work that    *)
(* landed, and an unforced removal has its branch in main.                 *)
(***************************************************************************)
THEOREM FlowTypeCorrect == Spec => []TypeOK
BY InitTyped, StepTyped, PTL DEF Spec
-----------------------------------------------------------------------------

\* A step that leaves the removals alone and takes no worktree away keeps
\* the correspondence, if the branches it leaves fit.
LEMMA FlowKeepsOneToOne ==
  ASSUME OneToOne, UNCHANGED <<removal, torn>>, NEW c \in Change,
         \A d \in Change \ {c} : tree'[d] = tree[d] /\ local'[d] = local[d],
         tree'[c] = "none" <=> tree[c] = "none",
         local'[c] = Absent <=> local[c] = Absent
  PROVE  OneToOne'
BY DEF OneToOne, Removing, At

LEMMA NewOneToOne == ASSUME TypeOK, OneToOne, NEW c \in Change, New(c) PROVE OneToOne'
<1>1. main # Absent
  BY AbsentIsNoSet DEF TypeOK
<1>2. tree'[c] # "none" /\ local'[c] # Absent
  BY <1>1 DEF New, TypeOK
<1>3. \A d \in Change \ {c} : tree'[d] = tree[d] /\ local'[d] = local[d]
  BY DEF New, TypeOK
<1> QED BY <1>2, <1>3 DEF New, OneToOne, Removing, At

LEMMA WorkOneToOne ==
  ASSUME TypeOK, OneToOne, NEW s, NEW c \in Change, Edit(s, c) \/ CommitWork(s, c)
  PROVE  OneToOne'
<1>1. CASE Edit(s, c)
  BY <1>1, FlowKeepsOneToOne DEF Edit, TypeOK
<1>2. CASE CommitWork(s, c)
  <2>1. OfBranch(local[c]) \cup {commits + 1} # Absent
    <3>1. OfBranch(local[c]) \in SUBSET Commit
      BY BranchHoldsCommits DEF TypeOK
    <3>2. commits + 1 \in Commit
      BY <1>2, NextCommit DEF CommitWork, TypeOK
    <3> QED BY <3>1, <3>2, AbsentIsNoSet
  <2>2. tree[c] # "none" /\ tree'[c] # "none" /\ local'[c] # Absent
    BY <1>2, <2>1 DEF CommitWork, TypeOK
  <2>3. local[c] # Absent
    BY <2>2 DEF OneToOne
  <2>4. \A d \in Change \ {c} : tree'[d] = tree[d] /\ local'[d] = local[d]
    BY <1>2 DEF CommitWork, TypeOK
  <2> QED BY <1>2, <2>2, <2>3, <2>4, FlowKeepsOneToOne DEF CommitWork
<1> QED BY <1>1, <1>2

LEMMA RemoteOneToOne ==
  ASSUME OneToOne, UNCHANGED <<local, tree, removal, torn>>
  PROVE  OneToOne'
BY DEF OneToOne, Removing, At

LEMMA BeginsOneToOne ==
  ASSUME TypeOK, OneToOne, NEW m \in Remover, NEW c, NEW force, NEW keepRemote,
         RemoveBegins(m, c, force, keepRemote)
  PROVE  OneToOne'
<1>1. \A n \in Remover : At(n, "branch") => removal'[n] = removal[n]
  BY DEF RemoveBegins, TypeOK, RemovalTypes, At
<1> QED BY <1>1 DEF RemoveBegins, OneToOne, Removing, At

LEMMA RemovesTreeOneToOne == ASSUME TypeOK, OneToOne, NEW m \in Remover, RemovesTree(m) PROVE OneToOne'
<1>1. PICK c \in Change : c = removal[m].change
  BY DEF RemovesTree, TypeOK, RemovalTypes, At
<1>2. removal'[m].at = "branch" /\ removal'[m].change = c
  BY <1>1 DEF RemovesTree, To, TypeOK, RemovalTypes
<1>3. \A n \in Remover \ {m} : removal'[n] = removal[n]
  BY DEF RemovesTree, To, TypeOK, RemovalTypes
<1>4. \A d \in Change \ {c} : tree'[d] = tree[d]
  BY <1>1 DEF RemovesTree, TypeOK
<1>5. tree'[c] # "none" => tree[c] # "none"
  BY <1>1 DEF RemovesTree, TypeOK
<1>6. Removing(c)'
  BY <1>2 DEF Removing, At
<1>7. ASSUME NEW d \in Change \ {c}, Removing(d) PROVE Removing(d)'
  BY <1>1, <1>3, <1>7 DEF Removing, At
<1>8. local' = local /\ torn' = torn
  BY DEF RemovesTree
<1>9. ASSUME NEW d \in Change
      PROVE  /\ tree'[d] # "none" => local'[d] # Absent
             /\ tree'[d] = "none" /\ local'[d] # Absent => Removing(d)' \/ d \in torn'
  <2>1. CASE d = c
    BY <1>5, <1>6, <1>8, <2>1 DEF OneToOne
  <2>2. CASE d # c
    <3>1. tree'[d] = tree[d] /\ local'[d] = local[d]
      BY <1>4, <1>8, <2>2
    <3>2. Removing(d) => Removing(d)'
      BY <1>7, <2>2
    <3>3. /\ tree[d] # "none" => local[d] # Absent
          /\ tree[d] = "none" /\ local[d] # Absent => Removing(d) \/ d \in torn
      BY DEF OneToOne
    <3> QED BY <1>8, <3>1, <3>2, <3>3
  <2> QED BY <2>1, <2>2
<1> QED BY <1>9 DEF OneToOne

LEMMA DeletesBranchOneToOne == ASSUME TypeOK, OneToOne, NEW m \in Remover, DeletesBranch(m) PROVE OneToOne'
<1>1. PICK c \in Change : c = removal[m].change
  BY DEF DeletesBranch, TypeOK, RemovalTypes, At
<1>2. tree' = tree /\ (\A d \in Change \ {c} : local'[d] = local[d])
  BY <1>1 DEF DeletesBranch, TypeOK
<1>3. IF tree[c] = "none" THEN local'[c] = Absent ELSE local'[c] = local[c]
  BY <1>1 DEF DeletesBranch, TypeOK
<1>4. \A n \in Remover \ {m} : removal'[n] = removal[n]
  BY DEF DeletesBranch, To, TypeOK, RemovalTypes
<1>5. ASSUME NEW d \in Change \ {c}, Removing(d) PROVE Removing(d)'
  BY <1>1, <1>4, <1>5 DEF Removing, At
<1>6. torn \ {c} \subseteq torn'
  BY <1>1 DEF DeletesBranch
<1>7. tree[c] # "none" => torn' = torn
  BY <1>1 DEF DeletesBranch
<1> QED BY <1>1, <1>2, <1>3, <1>5, <1>6, <1>7 DEF OneToOne

LEMMA DeletesRemoteOneToOne == ASSUME TypeOK, OneToOne, NEW m \in Remover, DeletesRemote(m) PROVE OneToOne'
<1>1. \A n \in Remover : At(n, "branch") => removal'[n] = removal[n]
  BY DEF DeletesRemote, TypeOK, RemovalTypes, At
<1> QED BY <1>1 DEF DeletesRemote, OneToOne, Removing, At

\* The branch an interrupted removal was to delete is remembered.
LEMMA InterruptedOneToOne == ASSUME TypeOK, OneToOne, NEW m \in Remover, Interrupted(m) PROVE OneToOne'
<1>1. \A n \in Remover \ {m} : removal'[n] = removal[n]
  BY DEF Interrupted, TypeOK, RemovalTypes
<1>2. ASSUME NEW d \in Change, Removing(d) PROVE Removing(d)' \/ d \in torn'
  <2>1. PICK n \in Remover : At(n, "branch") /\ removal[n].change = d
    BY <1>2 DEF Removing
  <2>2. CASE n = m
    BY <2>1, <2>2 DEF Interrupted
  <2>3. CASE n # m
    BY <1>1, <2>1, <2>3 DEF Removing, At
  <2> QED BY <2>2, <2>3
<1>3. torn \subseteq torn' /\ UNCHANGED <<tree, local>>
  BY DEF Interrupted
<1> QED BY <1>2, <1>3 DEF OneToOne

LEMMA StepOneToOne == TypeOK /\ OneToOne /\ [Next]_vars => OneToOne'
<1> SUFFICES ASSUME TypeOK, OneToOne, [Next]_vars PROVE OneToOne'
  OBVIOUS
<1>1. CASE UNCHANGED vars
  BY <1>1, RemoteOneToOne DEF vars
<1>2. ASSUME NEW c \in Change, New(c) PROVE OneToOne'
  BY <1>2, NewOneToOne
<1>3. ASSUME NEW c \in Change, PushElsewhere(c) \/ OpenPR(c) \/ Merge(c) PROVE OneToOne'
  BY <1>3, RemoteOneToOne DEF PushElsewhere, OpenPR, Merge
<1>4. ASSUME NEW c \in Change, NEW s \in Session, Edit(s, c) \/ CommitWork(s, c) \/ Push(s, c) PROVE OneToOne'
  BY <1>4, WorkOneToOne, RemoteOneToOne DEF Push
<1>6. ASSUME NEW m \in Remover, NEW c \in Change, Remove(m, c) \/ Gc(m, c) PROVE OneToOne'
  BY <1>6, BeginsOneToOne DEF Remove, Gc
<1>7. ASSUME NEW m \in Remover, RemovalStep(m) PROVE OneToOne'
  BY <1>7, RemovesTreeOneToOne, DeletesBranchOneToOne, DeletesRemoteOneToOne, InterruptedOneToOne DEF RemovalStep
<1> QED BY <1>1, <1>2, <1>3, <1>4, <1>6, <1>7 DEF Next

(***************************************************************************)
(* Whatever the interleaving of terminals and sessions, every worktree has *)
(* its branch, and a branch without one is about to be deleted.            *)
(***************************************************************************)
THEOREM OneWorktreePerBranch == Spec => []OneToOne
BY InitTyped, StepTyped, StepOneToOne, PTL DEF Spec
-----------------------------------------------------------------------------

\* What WorkKept says of one step.
StepKeepsWork ==
  /\ \A n \in Held \ Held' :
       \E m \in Remover : /\ ~ At(m, "idle")
                          /\ n \in Work(removal[m].change)
                          /\ removal[m].force \/ n \notin removal[m].seen
  /\ \A c \in Change :
       tree[c] = "dirty" /\ tree'[c] = "none" =>
         \E m \in Remover : At(m, "tree") /\ removal[m].change = c /\ removal[m].force

\* Nothing that is held goes where landed and the branches only grow.
LEMMA HeldGrows ==
  ASSUME landed \subseteq landed',
         \A c \in Change : OfBranch(local[c]) \subseteq Held' /\ OfBranch(remote[c]) \subseteq Held'
  PROVE  Held \subseteq Held'
BY DEF Held, Work

LEMMA GrowingHolds ==
  ASSUME NEW c \in Change
  PROVE  OfBranch(local'[c]) \subseteq Held' /\ OfBranch(remote'[c]) \subseteq Held' /\ landed' \subseteq Held'
BY DEF Held, Work

LEMMA NewKeepsWork == ASSUME TypeOK, NEW c \in Change, New(c) PROVE StepKeepsWork
<1>1. \A d \in Change : OfBranch(local[d]) \subseteq OfBranch(local'[d]) /\ remote'[d] = remote[d]
  BY DEF New, TypeOK, OfBranch
<1>2. Held \subseteq Held'
  BY <1>1, HeldGrows, GrowingHolds DEF New
<1> QED BY <1>2 DEF StepKeepsWork, New, TypeOK

LEMMA EditKeepsWork == ASSUME TypeOK, NEW s, NEW c \in Change, Edit(s, c) PROVE StepKeepsWork
<1>1. Held' = Held
  BY DEF Edit, Held, Work
<1> QED BY <1>1 DEF StepKeepsWork, Edit, TypeOK

LEMMA CommitKeepsWork == ASSUME TypeOK, NEW s, NEW c \in Change, CommitWork(s, c) PROVE StepKeepsWork
<1>1. OfBranch(local[c]) \cup {commits + 1} \in SUBSET Commit
  BY NextCommit, BranchHoldsCommits DEF CommitWork, TypeOK
<1>2. OfBranch(OfBranch(local[c]) \cup {commits + 1}) = OfBranch(local[c]) \cup {commits + 1}
  BY <1>1, AbsentIsNoSet DEF OfBranch
<1>3. \A d \in Change : OfBranch(local[d]) \subseteq OfBranch(local'[d]) /\ remote'[d] = remote[d]
  BY <1>2 DEF CommitWork, TypeOK
<1>4. Held \subseteq Held'
  BY <1>3, HeldGrows, GrowingHolds DEF CommitWork
<1> QED BY <1>4 DEF StepKeepsWork, CommitWork, TypeOK

\* A worktree has its branch, so a push never sends an absent one.
LEMMA PushKeepsWork == ASSUME TypeOK, OneToOne, NEW s, NEW c \in Change, Push(s, c) PROVE StepKeepsWork
<1>1. OfBranch(local[c]) = local[c]
  BY DEF Push, OneToOne, OfBranch
<1>2. \A d \in Change : local'[d] = local[d] /\ OfBranch(remote[d]) \subseteq OfBranch(remote'[d])
  BY <1>1 DEF Push, TypeOK
<1>3. Held \subseteq Held'
  BY <1>2, HeldGrows, GrowingHolds DEF Push
<1> QED BY <1>3 DEF StepKeepsWork, Push

LEMMA PushElsewhereKeepsWork == ASSUME TypeOK, NEW c \in Change, PushElsewhere(c) PROVE StepKeepsWork
<1>1. OfBranch(remote[c]) \cup {commits + 1} \in SUBSET Commit
  BY NextCommit, BranchHoldsCommits DEF PushElsewhere, TypeOK
<1>2. OfBranch(OfBranch(remote[c]) \cup {commits + 1}) = OfBranch(remote[c]) \cup {commits + 1}
  BY <1>1, AbsentIsNoSet DEF OfBranch
<1>3. \A d \in Change : local'[d] = local[d] /\ OfBranch(remote[d]) \subseteq OfBranch(remote'[d])
  BY <1>2 DEF PushElsewhere, TypeOK
<1>4. Held \subseteq Held'
  BY <1>3, HeldGrows, GrowingHolds DEF PushElsewhere
<1> QED BY <1>4 DEF StepKeepsWork, PushElsewhere

LEMMA MergeKeepsWork == ASSUME TypeOK, NEW c \in Change, Merge(c) PROVE StepKeepsWork
<1>1. OfBranch(remote[c]) \subseteq landed' /\ landed \subseteq landed'
  BY DEF Merge, OfBranch
<1>2. \A d \in Change : local'[d] = local[d] /\ (d # c => remote'[d] = remote[d])
  BY DEF Merge, TypeOK
<1>3. Held \subseteq Held'
  BY <1>1, <1>2, HeldGrows, GrowingHolds
<1> QED BY <1>3 DEF StepKeepsWork, Merge

\* A step that changes neither branches nor worktrees loses nothing.
LEMMA OthersKeepWork == ASSUME UNCHANGED <<landed, local, remote, tree>> PROVE StepKeepsWork
<1>1. Held' = Held
  BY DEF Held, Work
<1> QED BY <1>1 DEF StepKeepsWork

LEMMA RemovesTreeKeepsWork == ASSUME TypeOK, NEW m \in Remover, RemovesTree(m) PROVE StepKeepsWork
<1>1. Held' = Held
  BY DEF RemovesTree, Held, Work
<1>2. ASSUME NEW c \in Change, tree[c] = "dirty", tree'[c] = "none"
      PROVE  removal[m].change = c /\ removal[m].force
  BY <1>2 DEF RemovesTree, TypeOK
<1> QED BY <1>1, <1>2 DEF StepKeepsWork, RemovesTree

\* What an unforced removal has seen landed, so it stays held.
LEMMA SeenLanded ==
  ASSUME TypeOK, NEW m \in Remover, ~ At(m, "idle"), ~ removal[m].force
  PROVE  removal[m].seen \subseteq landed
BY DEF TypeOK, RemovalTypes

\* A removal that deletes a branch loses only what it did not check.
LEMMA DeletionKeepsWork ==
  ASSUME TypeOK, NEW m \in Remover, ~ At(m, "idle"), landed' = landed, tree' = tree,
         \A d \in Change \ {removal[m].change} : local'[d] = local[d] /\ remote'[d] = remote[d]
  PROVE  StepKeepsWork
<1> DEFINE c == removal[m].change
<1>1. ASSUME NEW n \in Held \ Held' PROVE n \in Work(c) /\ n \notin landed
  BY <1>1 DEF Held, Work
<1>2. ASSUME NEW n \in Held \ Held' PROVE removal[m].force \/ n \notin removal[m].seen
  BY <1>1, <1>2, SeenLanded
<1> QED BY <1>1, <1>2 DEF StepKeepsWork

LEMMA RemovalKeepsWork == ASSUME TypeOK, NEW m \in Remover, RemovalStep(m) PROVE StepKeepsWork
<1>1. CASE RemovesTree(m)
  BY <1>1, RemovesTreeKeepsWork
<1>2. CASE DeletesBranch(m)
  <2>1. \A d \in Change \ {removal[m].change} : local'[d] = local[d] /\ remote'[d] = remote[d]
    BY <1>2 DEF DeletesBranch, TypeOK
  <2> QED BY <1>2, <2>1, DeletionKeepsWork DEF DeletesBranch, At
<1>3. CASE DeletesRemote(m)
  <2>1. \A d \in Change \ {removal[m].change} : local'[d] = local[d] /\ remote'[d] = remote[d]
    BY <1>3 DEF DeletesRemote, TypeOK
  <2> QED BY <1>3, <2>1, DeletionKeepsWork DEF DeletesRemote, At
<1>4. CASE Interrupted(m)
  BY <1>4, OthersKeepWork DEF Interrupted
<1> QED BY <1>1, <1>2, <1>3, <1>4 DEF RemovalStep

LEMMA StepsKeepWork == TypeOK /\ OneToOne /\ [Next]_vars => [StepKeepsWork]_vars
<1> SUFFICES ASSUME TypeOK, OneToOne, Next PROVE StepKeepsWork
  OBVIOUS
<1>1. ASSUME NEW c \in Change, New(c) \/ PushElsewhere(c) \/ OpenPR(c) \/ Merge(c) PROVE StepKeepsWork
  BY <1>1, NewKeepsWork, PushElsewhereKeepsWork, MergeKeepsWork, OthersKeepWork DEF OpenPR
<1>2. ASSUME NEW c \in Change, NEW s \in Session, Edit(s, c) \/ CommitWork(s, c) \/ Push(s, c) PROVE StepKeepsWork
  BY <1>2, EditKeepsWork, CommitKeepsWork, PushKeepsWork
<1>4. ASSUME NEW m \in Remover, NEW c \in Change, Remove(m, c) \/ Gc(m, c) PROVE StepKeepsWork
  BY <1>4, OthersKeepWork DEF Remove, Gc, RemoveBegins
<1>5. ASSUME NEW m \in Remover, RemovalStep(m) PROVE StepKeepsWork
  BY <1>5, RemovalKeepsWork
<1> QED BY <1>1, <1>2, <1>4, <1>5 DEF Next

(***************************************************************************)
(* A commit disappears only by force, or when no check of a removal has    *)
(* seen it; uncommitted changes disappear only by force.                   *)
(***************************************************************************)
THEOREM NoWorkLost == Spec => WorkKept
<1>1. StepKeepsWork <=> 
        /\ \A n \in Held \ Held' :
             \E m \in Remover : /\ ~ At(m, "idle")
                                /\ n \in Work(removal[m].change)
                                /\ removal[m].force \/ n \notin removal[m].seen
        /\ \A c \in Change :
             tree[c] = "dirty" /\ tree'[c] = "none" =>
               \E m \in Remover : At(m, "tree") /\ removal[m].change = c /\ removal[m].force
  BY DEF StepKeepsWork
<1>2. Spec => [][StepKeepsWork]_vars
  BY InitTyped, StepTyped, StepOneToOne, StepsKeepWork, PTL DEF Spec
<1> QED BY <1>1, <1>2, PTL DEF WorkKept
-----------------------------------------------------------------------------

Tool == {"bash", "edit"}

(***************************************************************************)
(* "OpenCode plugin mirroring the Claude Code PreToolUse hooks"            *)
(* (worktree-policy.js:1): the three hooks side by side and the one plugin *)
(* let the same calls through, in every environment.                       *)
(***************************************************************************)
THEOREM HostsAgree ==
  \A env, call : call.tool \in Tool => (ClaudeAllows(env, call) <=> OpenCodeAllows(env, call))
<1> SUFFICES ASSUME NEW env, NEW call, call.tool \in Tool
             PROVE  ClaudeAllows(env, call) <=> OpenCodeAllows(env, call)
  OBVIOUS
<1>1. CASE call.tool = "bash"
  BY <1>1 DEF ClaudeAllows, GitGuard, ProposeGuard, WorktreeGuard, OpenCodeAllows
<1>2. CASE call.tool = "edit"
  BY <1>2 DEF ClaudeAllows, GitGuard, ProposeGuard, WorktreeGuard, OpenCodeAllows
<1> QED BY <1>1, <1>2 DEF Tool

(***************************************************************************)
(* "Inside a linked worktree everything passes" (worktree-policy.js:13):   *)
(* at the top of one, a session is held up by nothing but the rule for     *)
(* merges, so the steps of the flow itself are never refused.              *)
(***************************************************************************)
THEOREM WorktreeIsFree ==
  /\ \A s \in Session : \A call :
       call.tool = "bash" /\ IsLinkedWorktree(call.dir) =>
         (Allows(s, call) <=> ~ OffendingGhMerge(call.command))
  /\ \A s \in Session, c \in Change \ {"main"} : Allows(s, EditCall(c))
<1>1. ASSUME NEW s \in Session, NEW call, call.tool = "bash", IsLinkedWorktree(call.dir)
      PROVE  Allows(s, call) <=> ~ OffendingGhMerge(call.command)
  BY <1>1 DEF Allows, ClaudeAllows, GitGuard, ProposeGuard, WorktreeGuard, OpenCodeAllows
<1>2. ASSUME NEW s \in Session, NEW c \in Change \ {"main"}
      PROVE  Allows(s, EditCall(c))
  <2>1. EditCall(c).tool = "edit" /\ EditCall(c).file.checkout = c
    BY DEF EditCall
  <2>2. ~ BlockedImplEdit(EditCall(c).file) /\ ~ BlockedProposalWrite(EditCall(c).file)
    BY <2>1 DEF BlockedImplEdit, BlockedProposalWrite, InPrimary
  <2> QED BY <2>1, <2>2 DEF Allows, ClaudeAllows, GitGuard, ProposeGuard, WorktreeGuard, OpenCodeAllows
<1> QED BY <1>1, <1>2
=============================================================================

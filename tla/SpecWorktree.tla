---------------------------- MODULE SpecWorktree ----------------------------
(***************************************************************************)
(* The worktree flow: 1 change = 1 branch spec/<change> = 1 git worktree = *)
(* 1 PR into main.  scripts/spec-worktree.sh makes and removes branches    *)
(* and worktrees while sessions commit and push in them and operators      *)
(* merge; the hooks judge what the sessions do (PolicyHooks).  A removal   *)
(* is a shell script, others get in between any two of its git commands.   *)
(*                                                                         *)
(* A branch is the set of the commits reachable from it that are not part  *)
(* of the repository's past; histories are not rewritten.                  *)
(***************************************************************************)
EXTENDS PolicyHooks

CONSTANTS
  Session,      \* the agent sessions: [host, env]
  Remover,      \* the terminals that run spec-worktree.sh remove or gc
  Absent,       \* no such branch, no change
  MaxCommits    \* bound: commits that are ever made

Commit == 1 .. MaxCommits

ASSUME FlowAssumption ==
  /\ MaxCommits \in Nat
  /\ Absent \notin Change
  /\ \A set \in SUBSET Commit : set # Absent

VARIABLES
  main,         \* origin/main
  landed,       \* the commits whose work is in main, squashed ones too
  local,        \* local[c]: refs/heads/spec/c
  remote,       \* remote[c]: spec/c at origin
  tree,         \* tree[c]: the worktree of c, "none", "clean" or "dirty"
  pr,           \* pr[c]: in which states there is a PR of spec/c
  commits,      \* how many commits have been made
  removal,      \* removal[m]: what a run of cmd_remove has got to
  torn          \* history: changes whose removal was interrupted before its
                \* branch was deleted

vars == <<main, landed, local, remote, tree, pr, commits, removal, torn>>

Idle == [change |-> Absent, at |-> "idle", force |-> FALSE, keepRemote |-> FALSE, seen |-> {}]
Stage == {"idle", "tree", "branch", "remote"}
Branch == (SUBSET Commit) \cup {Absent}
OfBranch(b) == IF b = Absent THEN {} ELSE b

\* The commands a session of the model runs.
CommitCall(c) == [tool |-> "bash", command |-> <<<<"git", "commit">>>>, dir |-> [checkout |-> c, top |-> TRUE]]
PushCall(c) == [tool |-> "bash", command |-> <<<<"git", "push">>>>, dir |-> [checkout |-> c, top |-> TRUE]]
EditCall(c) == [tool |-> "edit", file |-> [checkout |-> c, area |-> "impl"]]
-----------------------------------------------------------------------------

\* cmd_new: an existing branch is checked out, a new one starts at origin/main.
New(c) ==
  /\ tree[c] = "none"
  /\ tree' = [tree EXCEPT ![c] = "clean"]
  /\ local' = [local EXCEPT ![c] = IF @ = Absent THEN main ELSE @]
  /\ torn' = torn \ {c}
  /\ UNCHANGED <<main, landed, remote, pr, commits, removal>>

Edit(s, c) ==
  /\ tree[c] = "clean"
  /\ Allows(s, EditCall(c))
  /\ tree' = [tree EXCEPT ![c] = "dirty"]
  /\ UNCHANGED <<main, landed, local, remote, pr, commits, removal, torn>>

CommitWork(s, c) ==
  /\ tree[c] = "dirty"
  /\ Allows(s, CommitCall(c))
  /\ commits < MaxCommits
  /\ commits' = commits + 1
  /\ local' = [local EXCEPT ![c] = OfBranch(@) \cup {commits + 1}]
  /\ tree' = [tree EXCEPT ![c] = "clean"]
  /\ UNCHANGED <<main, landed, remote, pr, removal, torn>>

\* A push that does not fast-forward is rejected.
Push(s, c) ==
  /\ tree[c] # "none"
  /\ Allows(s, PushCall(c))
  /\ OfBranch(remote[c]) \subseteq local[c]
  /\ remote' = [remote EXCEPT ![c] = local[c]]
  /\ UNCHANGED <<main, landed, local, tree, pr, commits, removal, torn>>

\* Another clone of the repository pushes to the branch.
PushElsewhere(c) ==
  /\ remote[c] # Absent
  /\ commits < MaxCommits
  /\ commits' = commits + 1
  /\ remote' = [remote EXCEPT ![c] = OfBranch(@) \cup {commits + 1}]
  /\ UNCHANGED <<main, landed, local, tree, pr, removal, torn>>

OpenPR(c) ==
  /\ remote[c] # Absent
  /\ "open" \notin pr[c]
  /\ pr' = [pr EXCEPT ![c] = @ \cup {"open"}]
  /\ UNCHANGED <<main, landed, local, remote, tree, commits, removal, torn>>

(***************************************************************************)
(* An operator merges the PR on GitHub, with a merge commit or squashed,   *)
(* and may let GitHub delete the branch.                                   *)
(***************************************************************************)
Merge(c) ==
  /\ "open" \in pr[c]
  /\ remote[c] # Absent
  /\ \E squashed \in BOOLEAN : main' = IF squashed THEN main ELSE main \cup remote[c]
  /\ landed' = landed \cup remote[c]
  /\ \E deleted \in BOOLEAN : remote' = IF deleted THEN [remote EXCEPT ![c] = Absent] ELSE remote
  /\ pr' = [pr EXCEPT ![c] = {"merged"}]
  /\ UNCHANGED <<local, tree, commits, removal, torn>>
-----------------------------------------------------------------------------

\* Mutant: the branch is not looked up in origin/main.
Checked_NoAncestor(c, force) == TRUE

\* Without --force a local branch must be an ancestor of the fetched main.
Checked(c, force) == force \/ OfBranch(local[c]) \subseteq main

RemoveBegins(m, c, force, keepRemote) ==
  /\ removal[m].at = "idle"
  /\ Checked(c, force)
  /\ removal' = [removal EXCEPT ![m] =
       [change |-> c, at |-> "tree", force |-> force, keepRemote |-> keepRemote,
        seen |-> OfBranch(local[c])]]
  /\ UNCHANGED <<main, landed, local, remote, tree, pr, commits, torn>>

\* --keep-remote counts only as the second flag, whatever the first one is.
Remove(m, c) == \E force, keepRemote \in BOOLEAN : RemoveBegins(m, c, force, keepRemote)

\* gc removes the clean worktrees whose PR was merged.
Gc(m, c) ==
  /\ tree[c] = "clean"
  /\ "merged" \in pr[c]
  /\ RemoveBegins(m, c, FALSE, FALSE)

At(m, stage) == removal[m].at = stage
To(m, stage) == removal' = [removal EXCEPT ![m].at = stage]

\* Mutant: the worktree is removed with --force whatever the caller said.
RemovesTree_Forced(m) ==
  LET c == removal[m].change IN
  /\ At(m, "tree")
  /\ tree' = [tree EXCEPT ![c] = "none"]
  /\ To(m, "branch")
  /\ UNCHANGED <<main, landed, local, remote, pr, commits, torn>>

\* git refuses to remove a dirty worktree unless forced; the script goes on.
RemovesTree(m) ==
  LET c == removal[m].change IN
  /\ At(m, "tree")
  /\ tree' = IF tree[c] = "dirty" /\ ~ removal[m].force THEN tree ELSE [tree EXCEPT ![c] = "none"]
  /\ To(m, "branch")
  /\ UNCHANGED <<main, landed, local, remote, pr, commits, torn>>

\* Mutant: `branch -d`, which keeps a branch that is not merged.
DeletesBranch_MergedOnly(m) ==
  LET c == removal[m].change IN
  /\ At(m, "branch")
  /\ local' = IF tree[c] = "none" /\ OfBranch(local[c]) \subseteq main THEN [local EXCEPT ![c] = Absent] ELSE local
  /\ To(m, "remote")
  /\ UNCHANGED <<main, landed, remote, tree, pr, commits, torn>>

\* git refuses to delete a branch that a worktree has checked out.
DeletesBranch(m) ==
  LET c == removal[m].change IN
  /\ At(m, "branch")
  /\ local' = IF tree[c] = "none" THEN [local EXCEPT ![c] = Absent] ELSE local
  /\ torn' = IF tree[c] = "none" THEN torn \ {c} ELSE torn
  /\ To(m, "remote")
  /\ UNCHANGED <<main, landed, remote, tree, pr, commits>>

DeletesRemote(m) ==
  LET c == removal[m].change IN
  /\ At(m, "remote")
  /\ remote' = IF removal[m].keepRemote THEN remote ELSE [remote EXCEPT ![c] = Absent]
  /\ removal' = [removal EXCEPT ![m] = Idle]
  /\ UNCHANGED <<main, landed, local, tree, pr, commits, torn>>

\* The script ends between two commands: interrupted, or its terminal closed.
Interrupted(m) ==
  /\ ~ At(m, "idle")
  /\ torn' = IF At(m, "branch") THEN torn \cup {removal[m].change} ELSE torn
  /\ removal' = [removal EXCEPT ![m] = Idle]
  /\ UNCHANGED <<main, landed, local, remote, tree, pr, commits>>
-----------------------------------------------------------------------------

Init ==
  /\ main = {} /\ landed = {}
  /\ local = [c \in Change |-> Absent]
  /\ remote = [c \in Change |-> Absent]
  /\ tree = [c \in Change |-> "none"]
  /\ pr = [c \in Change |-> {}]
  /\ commits = 0
  /\ removal = [m \in Remover |-> Idle]
  /\ torn = {}

RemovalStep(m) == RemovesTree(m) \/ DeletesBranch(m) \/ DeletesRemote(m) \/ Interrupted(m)

Next ==
  \/ \E c \in Change : New(c) \/ PushElsewhere(c) \/ OpenPR(c) \/ Merge(c)
  \/ \E c \in Change, s \in Session : Edit(s, c) \/ CommitWork(s, c) \/ Push(s, c)
  \/ \E m \in Remover, c \in Change : Remove(m, c) \/ Gc(m, c)
  \/ \E m \in Remover : RemovalStep(m)

Spec == Init /\ [][Next]_vars
-----------------------------------------------------------------------------

(***************************************************************************)
(* Types; main holds only work that has landed, and a removal that was not *)
(* forced has found the commits of its branch in main.                     *)
(***************************************************************************)
RemovalTypes ==
  /\ removal \in [Remover -> [change : Change \cup {Absent}, at : Stage, force : BOOLEAN,
                              keepRemote : BOOLEAN, seen : SUBSET Commit]]
  /\ \A m \in Remover : ~ At(m, "idle") =>
       /\ removal[m].change \in Change
       /\ removal[m].force \/ removal[m].seen \subseteq main

TypeOK ==
  /\ main \subseteq landed /\ landed \subseteq Commit
  /\ local \in [Change -> Branch]
  /\ remote \in [Change -> Branch]
  /\ tree \in [Change -> {"none", "clean", "dirty"}]
  /\ pr \in [Change -> SUBSET {"open", "merged"}]
  /\ commits \in 0 .. MaxCommits
  /\ torn \subseteq Change
  /\ RemovalTypes

Removing(c) == \E m \in Remover : At(m, "branch") /\ removal[m].change = c

(***************************************************************************)
(* "1 change = 1 branch = 1 git worktree": a worktree has its branch, and  *)
(* a branch without a worktree is one that a removal is about to delete,   *)
(* or was when it was interrupted (and new takes such a branch up again).  *)
(***************************************************************************)
OneToOne ==
  \A c \in Change : /\ tree[c] # "none" => local[c] # Absent
                    /\ tree[c] = "none" /\ local[c] # Absent => Removing(c) \/ c \in torn

Work(c) == OfBranch(local[c]) \cup OfBranch(remote[c])
Held == landed \cup UNION {Work(c) : c \in Change}

(***************************************************************************)
(* "Refuses unless the branch is in origin/main": a commit disappears only *)
(* by force, or when it reached the branch after the removal had checked   *)
(* it, or reached only the remote branch, which is never checked.  Changes *)
(* that are not committed are only thrown away by force.                   *)
(***************************************************************************)
WorkKept ==
  [][/\ \A n \in Held \ Held' :
          \E m \in Remover : /\ ~ At(m, "idle")
                             /\ n \in Work(removal[m].change)
                             /\ removal[m].force \/ n \notin removal[m].seen
     /\ \A c \in Change :
          tree[c] = "dirty" /\ tree'[c] = "none" =>
            \E m \in Remover : At(m, "tree") /\ removal[m].change = c /\ removal[m].force]_vars
=============================================================================

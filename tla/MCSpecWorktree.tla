---------------------------- MODULE MCSpecWorktree ----------------------------
(***************************************************************************)
(* One change, two terminals that remove, a session of Claude Code without *)
(* any escape and one of OpenCode with the escape for git.                 *)
(*                                                                         *)
(* The assumptions below evaluate the recognisers of PolicyHooks on single *)
(* commands: first a grid of git, gh and openspec behind assignments,      *)
(* prefixes and global options, where they are right by git's manual, then *)
(* commands they misjudge.                                                 *)
(***************************************************************************)
EXTENDS SpecWorktree, TLC

CONSTANTS c1, m1, m2

MCChange == {c1}
MCRemover == {m1, m2}
\* The terminals differ by their name only.
MCSymmetry == Permutations(MCRemover)

MCSession ==
  {[host |-> "claude", env |-> [gitAllow |-> FALSE, mainEdit |-> FALSE]],
   [host |-> "opencode", env |-> [gitAllow |-> TRUE, mainEdit |-> FALSE]]}

MCDashed == {"-C", "-c", "-d", "-a", "-u", "-v", "--no-pager", "--list", "--get", "--draft"}
MCAssignment == {"CI=1"}

Before == {<<>>, <<"sudo">>, <<"CI=1", "time">>}
Options == {<<>>, <<"--no-pager">>, <<"-C", "status">>, <<"-c", "log", "--no-pager">>}
Changing == {<<"commit", "-a">>, <<"push">>, <<"branch", "x">>, <<"branch", "-d", "x">>, <<"tag", "x">>,
             <<"stash">>, <<"stash", "pop">>, <<"worktree", "add">>, <<"notes", "add">>}
Reading == {<<"status">>, <<"log", "commit">>, <<"branch">>, <<"branch", "--list", "x">>, <<"tag">>,
            <<"stash", "list">>, <<"remote">>, <<"worktree", "list">>, <<"config", "--get", "x">>, <<>>}

GitSegments(tails) == {b \o <<"git">> \o o \o t : b \in Before, o \in Options, t \in tails}
MergeSegments == {b \o <<"gh">> \o t : b \in Before, t \in {<<"pr", "merge", "x">>, <<"-v", "pr", "merge">>}}
ScaffoldSegments == {<<"openspec", "new", "change">>, <<"sudo", "openspec", "-v", "new", "change", "x">>}
HarmlessSegments == {<<"echo", "git", "commit">>, <<"gh", "pr", "create", "--draft">>, <<"openspec", "list">>}

\* Alone, or behind or before a segment that does nothing.
Commands(segments) ==
  LET quiet == <<"echo", "git", "commit">> IN
  UNION {{<<s>>, <<quiet, s>>, <<s, quiet>>} : s \in segments}

ASSUME ToldApart ==
  /\ \A command \in Commands(GitSegments(Changing)) : OffendingGit(command)
  /\ \A command \in Commands(MergeSegments) : OffendingGhMerge(command)
  /\ \A command \in Commands(ScaffoldSegments) : OffendingProposeCreate(command)
  /\ \A command \in Commands(GitSegments(Reading) \cup HarmlessSegments) :
       ~ (OffendingGit(command) \/ OffendingGhMerge(command) \/ OffendingProposeCreate(command))

\* Changing commands that pass: one -C stands for every segment, an option of a
\* prefix ends the search for git, -v makes any `remote` a listing.  Reading ones
\* that are refused.
ASSUME Misjudged ==
  /\ GitGuard([gitAllow |-> FALSE],
              [tool |-> "bash", dir |-> [checkout |-> c1, top |-> TRUE],
               command |-> <<<<"git", "-C", "c1", "log">>, <<"git", "commit">>>>]) = "pass"
  /\ ~ OffendingGit(<<<<"sudo", "-u", "x", "git", "commit">>>>)
  /\ ~ OffendingGit(<<<<"git", "remote", "-v", "add", "x", "url">>>>)
  /\ \A read \in {<<"fsck">>, <<"symbolic-ref", "HEAD">>, <<"config", "x">>} : OffendingGit(<<<<"git">> \o read>>)
=============================================================================

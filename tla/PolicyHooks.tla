---------------------------- MODULE PolicyHooks ----------------------------
(***************************************************************************)
(* What the hooks of the two agent hosts let a session do: the PreToolUse  *)
(* hooks of Claude Code (git-guard, propose-guard, worktree-guard) and the *)
(* OpenCode plugin that mirrors them.  A hook judges one tool call from    *)
(* its text, the checkout it aims at and the session's environment; it     *)
(* keeps no state.                                                         *)
(*                                                                         *)
(* A Bash command is what segments() and tokenize() make of it, sequences  *)
(* of tokens, with the one directory that targetDir() finds in it.  The    *)
(* tokens "git" and "gh" stand for paths to these programs too.  A         *)
(* directory or file is the checkout that holds it ("none" outside of any) *)
(* and, of a directory, whether it is the top of the checkout; of a file,  *)
(* the area of the repository.                                             *)
(***************************************************************************)
EXTENDS Naturals, Sequences, FiniteSetsExt

CONSTANTS
  Change,       \* the changes; each has its own worktree, a linked checkout
  Dashed,       \* the tokens that start with a dash
  Assignment    \* the tokens of the form NAME=value

Checkout == Change \cup {"main", "none"}

READONLY ==
  {"status", "diff", "log", "show", "blame", "grep", "rev-parse", "describe", "shortlog", "ls-files",
   "ls-remote", "ls-tree", "cat-file", "show-ref", "for-each-ref", "name-rev", "merge-base", "diff-tree",
   "diff-files", "diff-index", "whatchanged", "rev-list", "count-objects", "var", "help", "version",
   "annotate", "cherry", "show-branch", "verify-commit", "verify-tag", "check-ignore", "check-attr",
   "instaweb"}

GLOBAL_OPTS_WITH_VALUE ==
  {"-C", "-c", "--git-dir", "--work-tree", "--namespace", "--exec-path", "--super-prefix"}

PREFIXES ==
  {"sudo", "env", "command", "builtin", "nice", "nohup", "time", "xargs", "then", "do", "else", "exec",
   "{", "(", "!"}

CONDITIONAL ==
  {"branch", "tag", "stash", "remote", "config", "reflog", "worktree", "submodule", "notes"}
-----------------------------------------------------------------------------

Bare(toks) == {k \in DOMAIN toks : toks[k] \notin Dashed}
Has(toks, flags) == \E k \in DOMAIN toks : toks[k] \in flags

\* The first argument is one of these words.
Asks(args, words) == Bare(args) # {} /\ args[Min(Bare(args))] \in words

BranchReads(args) ==
  /\ ~ Has(args, {"-d", "-D", "-m", "-M", "-c", "-C", "-f", "--delete", "--move", "--copy", "--force",
                  "--edit-description", "--set-upstream-to", "-u", "--unset-upstream"})
  /\ \/ Has(args, {"--list", "-l", "-a", "-r", "-v", "-vv", "-vvv", "--all", "--remotes", "--verbose",
                   "--merged", "--no-merged", "--contains", "--points-at", "--show-current"})
     \/ Bare(args) = {}

TagReads(args) ==
  \/ Has(args, {"-l", "--list", "-n", "--contains", "--points-at", "--merged", "--no-merged"})
  \/ /\ ~ Has(args, {"-d", "--delete", "-a", "-s", "-m", "-f", "--force", "--annotate", "--sign"})
     /\ Bare(args) = {}

ConditionalReadonly(sub, args) ==
  CASE sub = "branch"    -> BranchReads(args)
    [] sub = "tag"       -> TagReads(args)
    [] sub = "stash"     -> Asks(args, {"list", "show"})
    [] sub = "remote"    -> \/ Bare(args) = {}
                            \/ Asks(args, {"show", "get-url", "-v"})
                            \/ Has(args, {"-v", "--verbose"})
    [] sub = "config"    -> Has(args, {"--get", "--get-all", "--get-regexp", "--get-urlmatch", "-l", "--list"})
    [] sub = "reflog"    -> Bare(args) = {} \/ Asks(args, {"show"})
    [] sub = "worktree"  -> Asks(args, {"list"})
    [] sub = "submodule" -> Asks(args, {"status", "summary"})
    [] sub = "notes"     -> Asks(args, {"list", "show"})

\* The command word: the first token behind assignments and prefixes.
CommandWord(toks) == Min({Len(toks) + 1} \cup {k \in DOMAIN toks : toks[k] \notin Assignment \cup PREFIXES})

From(toks, k) == SubSeq(toks, k, Len(toks))

Calls(toks, word) == CommandWord(toks) \in DOMAIN toks /\ toks[CommandWord(toks)] = word

\* The walk past git's global options, some of which consume a value.
Subcommand(toks) ==
  LET walk[k \in 1 .. Len(toks) + 2] ==
        IF k > Len(toks) \/ toks[k] \notin Dashed THEN k
        ELSE IF toks[k] \in GLOBAL_OPTS_WITH_VALUE THEN walk[k + 2] ELSE walk[k + 1]
  IN walk[CommandWord(toks) + 1]

MutatingGitSubcommand(toks) ==
  LET j == Subcommand(toks) IN
  /\ Calls(toks, "git")
  /\ j <= Len(toks)
  /\ toks[j] \notin READONLY
  /\ toks[j] \in CONDITIONAL => ~ ConditionalReadonly(toks[j], From(toks, j + 1))

OffendingGit(command) == \E i \in DOMAIN command : MutatingGitSubcommand(command[i])

\* The words of a segment behind its command word, without the flags.
Words(toks) == SelectSeq(From(toks, CommandWord(toks) + 1), LAMBDA t : t \notin Dashed)

OffendingGhMerge(command) ==
  \E i \in DOMAIN command :
    /\ Calls(command[i], "gh")
    /\ Len(Words(command[i])) >= 2 /\ SubSeq(Words(command[i]), 1, 2) = <<"pr", "merge">>

\* `openspec ... new ... change`, possibly behind one sudo.
OffendingProposeCreate(command) ==
  \E i \in DOMAIN command :
    LET toks == command[i]
        first == IF toks # <<>> /\ toks[1] = "sudo" THEN 2 ELSE 1 IN
    /\ first <= Len(toks) /\ toks[first] = "openspec"
    /\ \E j, k \in DOMAIN toks : first < j /\ j < k /\ toks[j] = "new" /\ toks[k] = "change"

\* Only the directory itself is looked at: below the top there is no .git.
IsLinkedWorktree(dir) == dir.checkout \in Change /\ dir.top

\* repoRootOf() walks up to the .git of the primary checkout.
InPrimary(file) == file.checkout = "main"
BlockedImplEdit(file) == InPrimary(file) /\ file.area = "impl"
BlockedProposalWrite(file) == InPrimary(file) /\ file.area = "proposal"
-----------------------------------------------------------------------------

GitGuard(env, call) ==
  IF call.tool # "bash" THEN "pass"
  ELSE IF OffendingGhMerge(call.command) THEN "deny"
  ELSE IF ~ OffendingGit(call.command) \/ env.gitAllow \/ IsLinkedWorktree(call.dir) THEN "pass"
  ELSE "deny"

ProposeGuard(env, call) ==
  LET blocked == IF call.tool = "bash"
                   THEN OffendingProposeCreate(call.command) /\ ~ IsLinkedWorktree(call.dir)
                   ELSE BlockedProposalWrite(call.file)
  IN IF blocked /\ ~ env.mainEdit THEN "deny" ELSE "pass"

WorktreeGuard(env, call) ==
  IF call.tool = "edit" /\ ~ env.mainEdit /\ BlockedImplEdit(call.file) THEN "deny" ELSE "pass"

\* The hooks of a call run side by side, one that denies is enough.
ClaudeAllows(env, call) ==
  "deny" \notin {GitGuard(env, call), ProposeGuard(env, call), WorktreeGuard(env, call)}

OpenCodeAllows(env, call) ==
  IF call.tool = "bash"
    THEN /\ ~ OffendingGhMerge(call.command)
         /\ ~ OffendingProposeCreate(call.command) \/ env.mainEdit \/ IsLinkedWorktree(call.dir)
         /\ env.gitAllow \/ ~ OffendingGit(call.command) \/ IsLinkedWorktree(call.dir)
    ELSE env.mainEdit \/ (~ BlockedImplEdit(call.file) /\ ~ BlockedProposalWrite(call.file))

Allows(session, call) ==
  IF session.host = "claude" THEN ClaudeAllows(session.env, call) ELSE OpenCodeAllows(session.env, call)
=============================================================================

----------------------------- MODULE Repository -----------------------------
(***************************************************************************)
(* The Git repository under files/ as internal/repository drives it: the   *)
(* work tree of snapshots, the index and the commits of the one branch.    *)
(* Git itself is external; what "git add" and "git commit" do is modelled  *)
(* for the way the package calls them.                                     *)
(***************************************************************************)
EXTENDS Integers, Sequences

CONSTANTS
  Files,        \* the absolute paths that may be monitored
  Contents,     \* what a readable file can hold
  Absent,       \* no file at that path
  Messages,     \* the texts a user may attach to a commit
  NoMessage     \* no text

VARIABLES
  worktree,     \* the snapshot files under files/
  index,        \* what "git add" has staged
  history       \* the commits, oldest first

gitVars == <<worktree, index, history>>

Snapshot == Contents \union {Absent}
Tree == [Files -> Snapshot]

(***************************************************************************)
(* A commit message has a generated line for every file of the batch and   *)
(* the user's text.  A line is kept as a number: n >= 1 for "<file>: n     *)
(* saves", DeletedLine for "<file>: deleted", NoLine for no line.          *)
(***************************************************************************)
NoLine == -1
DeletedLine == 0
NoLines == [f \in Files |-> NoLine]
Lines == [Files -> {NoLine} \union Nat]

Commit == [tree : Tree, lines : Lines, message : Messages \union {NoMessage}]

\* The tree of the newest commit, empty in a repository without commits.
HeadTree ==
  IF history = << >> THEN [f \in Files |-> Absent]
                     ELSE history[Len(history)].tree

(***************************************************************************)
(* The work tree after WriteSnapshot for the files of F that probe found,  *)
(* and RemoveSnapshot (which accepts a snapshot already gone) for the      *)
(* files of F that probe found absent.                                     *)
(***************************************************************************)
Snapshots(F, probe) == [f \in Files |-> IF f \in F THEN probe[f] ELSE worktree[f]]

(***************************************************************************)
(* "git add -- rels" refuses all of rels when one of them is neither in    *)
(* the work tree nor in the index ("pathspec did not match any files").    *)
(***************************************************************************)
Stageable(rels) == \A f \in rels : worktree[f] # Absent \/ index[f] # Absent

Stage(rels) ==
  /\ Stageable(rels)
  /\ index' = [f \in Files |-> IF f \in rels THEN worktree[f] ELSE index[f]]
  /\ UNCHANGED <<worktree, history>>

\* "git commit" exits with an error when the index equals the newest tree.
SomethingStaged == index # HeadTree

CommitIndex(lines, text) ==
  /\ SomethingStaged
  /\ history' = Append(history, [tree |-> index, lines |-> lines, message |-> text])
  /\ UNCHANGED <<worktree, index>>

RepositoryTypeOK ==
  /\ worktree \in Tree
  /\ index \in Tree
  /\ history \in Seq(Commit)
=============================================================================

------------------------------ MODULE Queries ------------------------------
(***************************************************************************)
(* What cm ls and the preview of cm restore show.  The queries run on the  *)
(* goroutines of their connections and change nothing.  What git prints is *)
(* external, and modelled for the calls of repository/history.go.          *)
(***************************************************************************)
EXTENDS CmDaemon
-----------------------------------------------------------------------------
(* cm ls *)

\* fileExists, false for a directory, which is one of the unreadable paths.
FileExists(f) == IF fs[f] = Unreadable THEN BOOLEAN ELSE {fs[f] # Absent}

\* The entries that List may return for f,
Listed(f) == [exists : FileExists(f), state : {mp[f].pending}]

\* and the words that cmdList may print beside it.
Shown(f) == {IF e.exists THEN e.state ELSE "deleted" : e \in Listed(f)}
-----------------------------------------------------------------------------
(* git show *)

TreeBefore(i) == IF i = 1 THEN [f \in Files |-> Absent] ELSE history[i - 1].tree

ChangedBy(i) == {f \in Files : history[i].tree[f] # TreeBefore(i)[f]}

\* The pairs of a removed and a new path that git prints as one row "old => new".
\* Equal contents are always paired, and others when git finds them similar.
RenamesIn(i) ==
  LET Gone == {f \in ChangedBy(i) : history[i].tree[f] = Absent}
      Come == {f \in ChangedBy(i) : TreeBefore(i)[f] = Absent}
      Same(d, c) == TreeBefore(i)[d] = history[i].tree[c]
  IN  {R \in SUBSET (Gone \X Come) :
         /\ \A p, q \in R : p # q => p[1] # q[1] /\ p[2] # q[2]
         /\ \A d \in Gone, c \in Come :
              Same(d, c) => \E p \in R : p[1] = d \/ p[2] = c}

\* AffectedFiles: a row of a rename is the name of no file.
AffectedFiles(i, renames) ==
  ChangedBy(i) \ ({p[1] : p \in renames} \union {p[2] : p \in renames})

\* FileStatement: the content of f in commit i.
FileStatement(i, f) == history[i].tree[f]
-----------------------------------------------------------------------------
(* Properties *)

\* A file that cm ls shows as clean is as it is in the newest commit, while the
\* loop waits and nothing about the file is under way.  After a restart, or for a
\* file that cannot be read, cm ls cannot promise it.
ListedCleanIsCommitted ==
  pc = "idle" /\ crashes = 0 =>
    \A f \in monitored \ (events \union lost) :
      "clean" \in Shown(f) /\ fs[f] # Unreadable => fs[f] = HeadTree[f]
=============================================================================

----------------------------- MODULE Provenance -----------------------------
(***************************************************************************)
(* The daemon with a memory of what the monitored files have been, which   *)
(* the program does not have: where the commits got their contents from.   *)
(***************************************************************************)
EXTENDS CmDaemon

VARIABLE seen   \* what has stood at each path, Absent and Unreadable included

ProvenanceInit == Init /\ seen = [f \in Files |-> {fs[f]}]

ProvenanceNext == Next /\ seen' = [f \in Files |-> seen[f] \union {fs'[f]}]

ProvenanceSpec == ProvenanceInit /\ [][ProvenanceNext]_<<vars, seen>>
-----------------------------------------------------------------------------
(* Properties *)

\* What a commit says of a file has been so: the content it records has stood at
\* the path, and where it records a deletion nothing has.  A snapshot that a kill or
\* a failed write has left half-written is never committed, after any restarts.
NothingInvented ==
  \A i \in 2 .. Len(history) : \A f \in Files :
    history[i].tree[f] # history[i - 1].tree[f] => history[i].tree[f] \in seen[f]
=============================================================================

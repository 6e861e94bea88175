------------------------------ MODULE MCDaemon ------------------------------
(***************************************************************************)
(* Instances of CmDaemon and Queries for TLC.                              *)
(***************************************************************************)
EXTENDS Queries, TLC

AllOutcomes == Contents \union {Absent, Unreadable}
ReadableOutcomes == Contents \union {Absent}

\* One trouble of the two: a fault or a kill.  Nothing fair needs either, so that
\* leaving out the behaviours with both takes no fair step from the others.
OneTrouble == faults + crashes <= 1

Symmetry == Permutations(Files) \union Permutations(Contents) \union Permutations(Messages)
=============================================================================

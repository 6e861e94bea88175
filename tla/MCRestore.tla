----------------------------- MODULE MCRestore -----------------------------
(***************************************************************************)
(* Instances of Restore for TLC.                                           *)
(***************************************************************************)
EXTENDS Restore, TLC

AllOutcomes == Contents \union {Absent, Unreadable}
ReadableOutcomes == Contents \union {Absent}

FileSymmetry == Permutations(Files)
=============================================================================

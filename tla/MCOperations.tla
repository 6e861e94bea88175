---------------------------- MODULE MCOperations ----------------------------
(***************************************************************************)
(* Instances of Operations for TLC.                                        *)
(***************************************************************************)
EXTENDS Operations, TLC

ReadableOutcomes == Contents \union {Absent}

RequestSymmetry == Permutations(Files) \union Permutations(Clients)
=============================================================================

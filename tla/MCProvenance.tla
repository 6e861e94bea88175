---------------------------- MODULE MCProvenance ----------------------------
EXTENDS Provenance, TLC

AllOutcomes == Contents \union {Absent, Unreadable}

Symmetry == Permutations(Files) \union Permutations(Contents) \union Permutations(Messages)
=============================================================================

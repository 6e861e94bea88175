---------------------------- MODULE MonitoredPath ----------------------------
(***************************************************************************)
(* model.MonitoredPath, the record the daemon keeps of a monitored file,   *)
(* and reconcile(), which brings it up to date with what a probe of the    *)
(* file found: a content, Absent, or Unreadable for any other error.       *)
(***************************************************************************)
EXTENDS Integers

CONSTANTS Contents, Absent, Unreadable

Found == Contents \union {Absent, Unreadable}

Record == [last    : Contents \union {Absent},   \* LastContent, nil is Absent
           exists  : BOOLEAN,
           pending : {"clean", "changed", "deleted"},
           saves   : Nat]

\* Pending moves to state, which counts as one save when it was another one.
Mark(m, state) ==
  [m EXCEPT !.pending = state,
            !.saves   = IF m.pending = state THEN @ ELSE @ + 1]

\* What reconcile returns: whether the caller has to open a batch window.
Transition(m, s) ==
  /\ s # Unreadable
  /\ IF s = Absent THEN m.exists ELSE ~m.exists \/ m.last # s

\* Mutant of Reconcile: the new content is not kept.
ReconcileKeepsLast(m, s) ==
  IF s = Unreadable THEN m
  ELSE IF s = Absent THEN [Mark(m, "deleted") EXCEPT !.exists = FALSE]
  ELSE IF m.exists /\ m.last = s THEN m
  ELSE [Mark(m, "changed") EXCEPT !.exists = TRUE]

\* The record that reconcile leaves.
Reconcile(m, s) ==
  IF s = Unreadable THEN m
  ELSE IF s = Absent THEN [Mark(m, "deleted") EXCEPT !.exists = FALSE]
  ELSE IF m.exists /\ m.last = s THEN m
  ELSE [Mark(m, "changed") EXCEPT !.exists = TRUE, !.last = s]

\* What loadRegistry starts a record from: the snapshot in the work tree.
FromSnapshot(s) ==
  [last |-> s, exists |-> s # Absent, pending |-> "clean", saves |-> 0]

\* What a batch commit does to the record of a file it found to be s: only one
\* that was deleted becomes one that exists.
Snapped(m, s) ==
  IF s = Absent THEN m
  ELSE [m EXCEPT !.last    = s,
                 !.exists  = @ \/ m.pending = "deleted",
                 !.pending = "changed"]

Cleared(m) == [m EXCEPT !.pending = "clean", !.saves = 0]
=============================================================================

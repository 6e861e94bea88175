SPECIFICATION ProvenanceSpec
CONSTANTS
  Files = {f, g}
  Contents = {v, w}
  Absent = Absent
  Unreadable = Unreadable
  Messages = {m}
  NoMessage = NoMessage
  Outcomes <- AllOutcomes
  MaxEdits = 3
  MaxFaults = 1
  MaxCrashes = 1
SYMMETRY Symmetry
INVARIANTS
  TypeOK
  AtMostOneWindow
  PendingHasWindow
  NoMissedChange
  SnapshotOfCleanIsCommitted
  LinesExplainTree
  MessageAtMostOnce
  NothingInvented
PROPERTY ImplementsBatchWindow
CHECK_DEADLOCK FALSE

SPECIFICATION Spec
CONSTANTS
  Files = {f}
  Contents = {v, w}
  Absent = Absent
  Unreadable = Unreadable
  Messages = {}
  NoMessage = NoMessage
  Outcomes <- ReadableOutcomes
  MaxEdits = 1
  MaxFaults = 0
  MaxCrashes = 1
INVARIANT CleanMeansCommitted
CHECK_DEADLOCK FALSE

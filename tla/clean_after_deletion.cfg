SPECIFICATION Spec
CONSTANTS
  Files = {f}
  Contents = {v, w}
  Absent = Absent
  Unreadable = Unreadable
  Messages = {}
  NoMessage = NoMessage
  Outcomes <- ReadableOutcomes
  MaxEdits = 3
  MaxFaults = 0
  MaxCrashes = 0
INVARIANT ListedCleanIsCommitted
CHECK_DEADLOCK FALSE

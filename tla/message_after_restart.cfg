SPECIFICATION Spec
CONSTANTS
  Files = {f}
  Contents = {v, w}
  Absent = Absent
  Unreadable = Unreadable
  Messages = {m}
  NoMessage = NoMessage
  Outcomes <- ReadableOutcomes
  MaxEdits = 1
  MaxFaults = 0
  MaxCrashes = 1
INVARIANT NewestMessageKept
CHECK_DEADLOCK FALSE

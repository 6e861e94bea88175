SPECIFICATION ProcessSpec
CONSTANTS
  Files = {f}
  Contents = {v}
  Absent = Absent
  Unreadable = Unreadable
  Messages = {m}
  NoMessage = NoMessage
  Outcomes <- ReadableOutcomes
  MaxEdits = 1
  MaxFaults = 1
  MaxCrashes = 1
  Callers = {a, b}
INVARIANTS ProcessTypeOK NothingServedAfterClose RequestsMeetTheDaemon
PROPERTIES NothingCommittedAfterClose CallsReturn ClosingEnds
CHECK_DEADLOCK FALSE

SPECIFICATION OpsSpec
CONSTANTS
  Files = {f, g}
  Contents = {v, own}
  OwnPath = own
  Clients = {a, b}
  Absent = Absent
  Unreadable = Unreadable
  Messages = {}
  NoMessage = NoMessage
  Outcomes <- ReadableOutcomes
  MaxEdits = 1
  MaxFaults = 0
  MaxCrashes = 1
  MaxRequests = 2
SYMMETRY RequestSymmetry
INVARIANTS OpsTypeOK QuietCleanIsCommitted NoMissedChange MonitoredAreRegistered
CHECK_DEADLOCK FALSE

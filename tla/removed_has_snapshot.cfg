SPECIFICATION OpsSpec
CONSTANTS
  Files = {f, g}
  Contents = {v, own}
  OwnPath = own
  Clients = {a}
  Absent = Absent
  Unreadable = Unreadable
  Messages = {}
  NoMessage = NoMessage
  Outcomes <- ReadableOutcomes
  MaxEdits = 1
  MaxFaults = 0
  MaxCrashes = 0
  MaxRequests = 1
SYMMETRY RequestSymmetry
INVARIANT RemovedHasNoSnapshot
CHECK_DEADLOCK FALSE

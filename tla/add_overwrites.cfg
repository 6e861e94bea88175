SPECIFICATION OpsSpec
CONSTANTS
  Files = {f, g}
  Contents = {v, own}
  OwnPath = own
  Clients = {a}
  Absent = Absent
  Unreadable = Unreadable
  Messages = {}
  NoMessage = NoMessage
  Outcomes <- ReadableOutcomes
  MaxEdits = 1
  MaxFaults = 1
  MaxCrashes = 0
  MaxRequests = 2
PROPERTY AddKeepsTheFile
CHECK_DEADLOCK FALSE

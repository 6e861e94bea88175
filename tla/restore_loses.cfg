SPECIFICATION RestoreSpec
CONSTANTS
  Files = {f, g}
  Contents = {v, own}
  OwnPath = own
  Clients = {}
  Absent = Absent
  Unreadable = Unreadable
  Messages = {}
  NoMessage = NoMessage
  Outcomes <- ReadableOutcomes
  MaxEdits = 1
  MaxFaults = 0
  MaxCrashes = 0
  MaxRequests = 0
  MaxRestores = 1
PROPERTY NothingIsLost
CHECK_DEADLOCK FALSE

SPECIFICATION RestoreSpec
CONSTANTS
  Files = {f, g}
  Contents = {own}
  OwnPath = own
  Clients = {a}
  Absent = Absent
  Unreadable = Unreadable
  Messages = {}
  NoMessage = NoMessage
  Outcomes <- ReadableOutcomes
  MaxEdits = 1
  MaxFaults = 1
  MaxCrashes = 1
  MaxRequests = 1
  MaxRestores = 1
SYMMETRY FileSymmetry
INVARIANTS RestoreTypeOK RestoredAsAsked NoMissedChange MonitoredAreRegistered
CHECK_DEADLOCK FALSE

SPECIFICATION FairSpec
CONSTANTS
  Files = {f, g}
  Contents = {v, w}
  Absent = Absent
  Unreadable = Unreadable
  Messages = {}
  NoMessage = NoMessage
  Outcomes <- ReadableOutcomes
  MaxEdits = 2
  MaxFaults = 0
  MaxCrashes = 0
PROPERTY ChangesAreCommitted
CHECK_DEADLOCK FALSE

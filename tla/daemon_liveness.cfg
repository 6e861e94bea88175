SPECIFICATION FairSpec
CONSTANTS
  Files = {f, g}
  Contents = {v, w}
  Absent = Absent
  Unreadable = Unreadable
  Messages = {}
  NoMessage = NoMessage
  Outcomes = {w, Absent, Unreadable}
  MaxEdits = 3
  MaxFaults = 1
  MaxCrashes = 1
CONSTRAINT OneTrouble
PROPERTIES
  PendingIsTried
  Converges
CHECK_DEADLOCK FALSE

SPECIFICATION StartupSpec
CONSTANTS
  Bin = {"b1", "b2"}
  NoBin = NoBin  Absent = Absent  NoRecord = NoRecord  NoPlan = NoPlan
  NoUpdate = NoUpdate
  MaxLines = 2
  MaxEdits = 0
INVARIANTS RerunRecovers

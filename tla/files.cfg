SPECIFICATION MCSpec
CONSTANTS
  Targets = 2
  Late = {2}
  Managers = {"systemd", "brew", "none"}
  NoJournal = NoJournal
  i1 = i1  i2 = i2  i3 = i3  i4 = i4
  Inode = {i1, i2, i3, i4}
  NoFile = NoFile
  Bin = {"b1", "b2"}
  NoBin = NoBin  Absent = Absent  NoRecord = NoRecord  NoPlan = NoPlan
  NoUpdate = NoUpdate
  MaxLines = 2
  MaxEdits = 1
  ManagedKey = {"key1", "key2"}
  NoKey = NoKey
  Aliases = 2
  MaxChanges = 2
  v1 = v1  v2 = v2  v3 = v3
  Release = {v1, v2, v3}
  NoRelease = NoRelease  Staging = Staging
  NoLedger = NoLedger
  Launchers = 2
  OldLaunchers = 1
  EditedLaunchers = {2}
  EditedReleases = {v2}
INVARIANTS TypeOK AllOrNothing NothingLost RollbackIsQuiet Recoverable
INVARIANTS ContentRetained NoBlindOverwrite RecordMatches SetupSettles
PROPERTIES CommittedIsFinal ServiceRestored LoginReported ForeignUntouched UserTextKept

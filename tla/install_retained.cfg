SPECIFICATION Spec
CONSTANTS
  v1 = v1  v2 = v2  v3 = v3
  Release = {v1, v2, v3}
  NoRelease = NoRelease  Staging = Staging
  NoLedger = NoLedger  NoJournal = NoJournal
  Launchers = 2
  OldLaunchers = 1
  EditedLaunchers = {1}
  EditedReleases = {}
INVARIANTS PreviousRetained


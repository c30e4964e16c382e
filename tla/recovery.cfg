SPECIFICATION RecoverySpec
CONSTANTS
  v1 = v1  v2 = v2  v3 = v3
  Release = {v1, v2, v3}
  NoRelease = NoRelease  Staging = Staging
  NoLedger = NoLedger  NoJournal = NoJournal
  Launchers = 2
  OldLaunchers = 1
  EditedLaunchers = {}
  EditedReleases = {}
  Entries = 5
  Shell = {1, 2}
  Optional = {4, 5}
  Private = {5}
  NoRemoval = NoRemoval
  s1 = s1  Session = {s1}
INVARIANTS UninstallTypeOK Consistent NothingForgotten CurrentNeverDangles
INVARIANTS AllOrNothing NothingLost AcknowledgedSurvives ArgumentsGone
PROPERTIES ImplementsContract ImplementsStore CommittedIsFinal BothRecover

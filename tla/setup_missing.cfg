SPECIFICATION Spec
CONSTANTS
  Targets = 2
  Late = {2}
  Managers = {"systemd", "brew", "none"}
  NoJournal = NoJournal
INVARIANTS OwnArtifactsAccepted

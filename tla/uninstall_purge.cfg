SPECIFICATION UninstallSpec
CONSTANTS
  Entries = 5
  Shell = {1, 2}
  Optional = {4, 5}
  Private = {5}
  NoRemoval = NoRemoval
PROPERTIES PurgeRemovesState

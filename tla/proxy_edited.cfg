SPECIFICATION ProxySpec
CONSTANTS
  ManagedKey = {"key1", "key2"}
  NoKey = NoKey
  Aliases = 2
  MaxChanges = 2
PROPERTIES UnrelatedPreserved

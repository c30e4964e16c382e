SPECIFICATION ListingSpec
CONSTANTS
  s1 = s1  s2 = s2  m1 = m1  m2 = m2  c1 = c1  c2 = c2  r1 = r1  r2 = r2
  Session <- OneSession
  Runner <- TwoRunners
  SessionOf <- SameSessionRunners
  ByHand = {r2}
  Legacy = {{}}
  Manager = {m1}
  Crashable = {}
  Config = {c1}
  CommandsOf <- EveryCommand
  NoRunner = NoRunner  NoManager = NoManager  NoConfig = NoConfig
INVARIANTS LaunchUsedOnce
PROPERTIES StartsUnderClaim StopEndsBackend StoppingSettles

SPECIFICATION Spec
CONSTANTS
  s1 = s1  s2 = s2  m1 = m1  m2 = m2  c1 = c1  c2 = c2  r1 = r1  r2 = r2
  Session <- TwoSessions
  Runner <- TwoRunners
  SessionOf <- OwnSessionRunners
  ByHand = {}
  Legacy = {{r2}}
  Manager = {m1, m2}
  Crashable = {m2}
  Config = {c1, c2}
  CommandsOf <- CreateAndUninstall
  NoRunner = NoRunner  NoManager = NoManager  NoConfig = NoConfig
INVARIANTS UninstallEndsBackends PurgeIsFinal AdmittedCreation
CHECK_DEADLOCK FALSE

SPECIFICATION Spec
CONSTANTS
  s1 = s1  s2 = s2  m1 = m1  m2 = m2  c1 = c1  c2 = c2  r1 = r1  r2 = r2
  Session <- OneSession
  Runner <- OneRunner
  SessionOf <- OneSessionRunner
  ByHand = {}
  Legacy = {{}}
  Manager = {m1, m2}
  Crashable = {m1}
  Config = {c1}
  CommandsOf <- CreateAndUninstall
  NoRunner = NoRunner  NoManager = NoManager  NoConfig = NoConfig
PROPERTIES UnconfirmedExitBlocksUninstall
CHECK_DEADLOCK FALSE

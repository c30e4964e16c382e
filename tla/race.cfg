SPECIFICATION Spec
CONSTANTS
  s1 = s1  s2 = s2  m1 = m1  m2 = m2  c1 = c1  c2 = c2  r1 = r1  r2 = r2
  Session <- OneSession
  Runner <- OneRunner
  SessionOf <- OneSessionRunner
  ByHand = {}
  Legacy = {{}, {r1}}
  Manager = {m1, m2}
  Crashable = {m1}
  Config = {c1}
  CommandsOf <- Rivals
  NoRunner = NoRunner  NoManager = NoManager  NoConfig = NoConfig
INVARIANTS TypeOK NoOrphan
PROPERTIES LifecycleForward StopMeansEnded ImplementsContract

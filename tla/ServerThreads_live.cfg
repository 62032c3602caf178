SPECIFICATION FairSpec
CONSTANTS
  c1 = c1
  c2 = c2
  c3 = c3
  NoJob = NoJob
  Conns <- TwoConns
  Unreachable <- Stalled
PROPERTIES NoLostWakeup LifecycleSpec

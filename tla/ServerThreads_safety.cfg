SPECIFICATION Spec
CONSTANTS
  c1 = c1
  c2 = c2
  c3 = c3
  NoJob = NoJob
  Conns <- ThreeConns
  Unreachable <- Stalled
SYMMETRY Symmetry
INVARIANTS ListIsFifo JobStorageSafe OneWriterPerSocket ClosedAfterLastUse

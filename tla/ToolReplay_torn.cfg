SPECIFICATION Spec
CONSTANTS
  a = a
  b = b
  c = c
  e = e
  x = x
  y = y
  z = z
  short = short
  long = long
  c1 = c1
  c2 = c2
  worker = worker
  Ids = {a, b}
  Blocks = {x, y}
  Texts = {short, long}
  BlocksIn <- MCBlocksIn
  Clients = {c1}
  Worker = worker
  Requests <- OnlyB
  Calls <- TwoCalls
  Buffer = 2
  MaxEntries = 3
  MaxBytes = 100
  IdBytes = 1
  BlockBytes = 2
  MaxFiles = 1
  MaxRequests = 2
  MaxRestarts = 0
INVARIANTS ReplaysSampled
CHECK_DEADLOCK FALSE

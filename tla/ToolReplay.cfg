SPECIFICATION FairSpec
CONSTANTS
  a = a
  b = b
  c = c
  e = e
  x = x
  y = y
  z = z
  short = short
  long = long
  c1 = c1
  c2 = c2
  worker = worker
  Ids = {a, c, e}
  Blocks = {x, y}
  Texts = {short, long}
  BlocksIn <- MCBlocksIn
  Clients = {c1}
  Worker = worker
  Requests <- OneOrMixed
  Calls <- MCCalls
  Buffer = 9
  MaxEntries = 3
  MaxBytes = 6
  IdBytes = 1
  BlockBytes = 2
  MaxFiles = 1
  MaxRequests = 1
  MaxRestarts = 1
INVARIANTS KeepsMostRecent ReplaysSampled
PROPERTIES RequestRendered
CHECK_DEADLOCK FALSE

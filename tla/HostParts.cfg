SPECIFICATION PartsSpec
CONSTANTS
  Requests <- MCRequests
  Turns <- MCTurns
  MaxPiece = 2
  Window = 4
  ClassOf <- MCClassOf
  BytesOf <- MCBytesOf
  Printable = {"a", "b", "1", "."}
  Merges <- MCMerges
  Texts <- MCTexts
  Asks <- MCAsks
  Outputs <- MCOutputs
  LongestPiece = 3
  MaxDrafts = 1
  m1 = m1
  Messages = {m1}
  Pieces <- MCPieces
  System = TRUE
  CtxSizes = {6, 9}
  MaxModeCtx = 9
  PrefixLen = 2
  Predict = 3
  Drafts = TRUE
  TurnBound = 3
  CommandBound = 2
  SignalBound = 1
  FailureBound = 1
  t1 = t1
  t2 = t2
  Threads = 3
  MinRows = 2
  CallLists <- MCCallLists
  Readers = {t1, t2}
  ReadLists <- MCReadLists
  Clients <- MCClients
  Replies <- MCReplies
  ReplayOff = FALSE
  MaxTurns = 3
  xa = xa
  xb = xb
  xc = xc
  xd = xd
  missing = missing
  RecencyWindow = 3
  Lattice = 4
  Never = 1000
  Traces <- MCTraces
  RouterRoutes <- AnyOne
  Layers = 1
  ExpertBytes <- MCExpertBytes
  LayerOf <- MCLayers
  Capacity = 3
  KvTokens = 5
  AttnWindow = 2
  Cuda = TRUE
  Prompts <- MCPrompts
  Tokens = {2, 3}
  MaxTokens = {2}
  MaxRequests = 2
  MaxFaults = 1
INVARIANTS  SentStands BlocksInOrder TracksReference TokenizesByRules ContinuesTranscript PrintsAsWhole EveryRowOnce ReadsAnswered ContinuesLiveSession RowsFollowTranscript WeightsOfSlots SlotCacheIsLru OracleIsBest
PROPERTIES UpdateReturns SyntaxIsGreedy PoolsEnd
CHECK_DEADLOCK FALSE

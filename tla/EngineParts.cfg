SPECIFICATION PartsSpec
CONSTANTS
  Ratios <- ThreeRatios
  Fine = 2
  Hashed <- HashedFirst
  Window = 2
  TopK = 1
  FfnBatch = 2
  SwitchSets <- UpToTwoFlags
  MaxLen = 5
  MaxBatch = 4
  MaxDrafts = 3
  IndexK = 2
  SmallN = 4
  MidN = 4
  ChunkN = 8
  LargeN = 16
  MergeGroup = 4
  RowRatio = 2
  TokTile = 2
  RowTile = 2
  Lookups <- MCLookups
  SwitchChoices <- MCSwitchChoices
  Experts = 8
  Used = 2
  Lanes = 4
  Masks <- MCMasks
  Tile = 2
  BigBatch = 3
  HashRows <- MCHashRows
  Batches <- MCBatches
  Machines <- MCMachines
  MapSize <- MCMapSize
  Tensors <- MCTensors
  Dense <- MCDense
  MaxSpan = 5
  MaxGap = 1
  Buffers = 2
  CopyChunk = 2
  Align = 2
  ArenaUnits = 8
  CacheLimit = 100
  Switches <- MCSwitches
  MaxCalls = 2
  MaxOpens = 2
  MaxFailures = 1
INVARIANTS GraphIsReference DraftBesideTarget AttendsBestRows EveryPairOnce GivesTheWeight MemoryLives
CHECK_DEADLOCK FALSE

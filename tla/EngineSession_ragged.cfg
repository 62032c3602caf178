SPECIFICATION Spec
CONSTANTS
  Token = {0, 1}
  Window = 2
  FineRatio = 3
  CoarseRatio = 6
  Chunk = 6
  Align = 1
  ResumeMin = 2
  MaxDraft = 3
  Ctxs = {7, 11}
  Backends = {"cpu", "graph"}
  Prompts <- MCPrompts
  Greedy <- MCGreedy
  Slots = {s1}
  MaxOps = 3
  Stale = Stale
INVARIANT RaggedPrefillHarmless
CHECK_DEADLOCK FALSE

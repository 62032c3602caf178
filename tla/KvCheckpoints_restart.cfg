SPECIFICATION FairSpec
CONSTANTS
  MinTokens = 2
  ColdMax = 5
  Interval = 3
  Trim = 1
  Align = 2
  RejectQuant = TRUE
  Budget = 8
  Overhead = 1
  TextOf <- MCTextOf
  Tokenize <- MCTokenize
  Runs <- ManyRuns
  Vocab <- MCVocab
  Sampled = {"a", "b", "E"}
  Prompts <- EvictPrompts
  Rerendered <- MCRerendered
  ThinkTag = "T"
  ThinkEnd = "E"
  Eos = "."
  ResumeMin = 2
  MaxGenerated = 1
  MaxJobs = 2
  MaxFaults = 1
  MaxRestarts = 1
INVARIANTS FilesAreCheckpoints
PROPERTIES JobEnds
CHECK_DEADLOCK FALSE

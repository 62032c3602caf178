SPECIFICATION Spec
CONSTANTS
  MinTokens = 2
  ColdMax = 5
  Interval = 3
  Trim = 1
  Align = 2
  RejectQuant = FALSE
  Budget = 100
  Overhead = 1
  TextOf <- MCTextOf
  Tokenize <- MCTokenize
  Runs <- TwoChunks
  Vocab <- MCVocab
  Sampled = {"a", "b", "E"}
  Prompts <- RestartPrompts
  Rerendered <- MCRerendered
  ThinkTag = "T"
  ThinkEnd = "E"
  Eos = "."
  ResumeMin = 2
  MaxGenerated = 1
  MaxJobs = 2
  MaxFaults = 0
  MaxRestarts = 1
PROPERTIES StoreLeavesLoadable
CHECK_DEADLOCK FALSE

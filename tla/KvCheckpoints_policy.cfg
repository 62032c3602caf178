SPECIFICATION Spec
CONSTANTS
  MinTokens = 2
  ColdMax = 5
  Interval = 3
  Trim = 1
  Align = 2
  RejectQuant = FALSE
  Budget = 100
  Overhead = 1
  TextOf <- MCTextOf
  Tokenize <- MCTokenize
  Runs <- OneRun
  Vocab <- MCVocab
  Sampled = {"a", "b", "E"}
  Prompts <- PolicyPrompts
  Rerendered <- MCRerendered
  ThinkTag = "T"
  ThinkEnd = "E"
  Eos = "."
  ResumeMin = 2
  MaxGenerated = 2
  MaxJobs = 2
  MaxFaults = 1
  MaxRestarts = 0
INVARIANTS GeneratesFromPrompt
PROPERTIES HitIsLongest ReplacedIsKept
CHECK_DEADLOCK FALSE

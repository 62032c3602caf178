SPECIFICATION CSpec
CONSTANTS
  Clients <- MCClients
  Replies <- MCReplies
  ReplayOff = TRUE
  MaxTurns = 3
INVARIANTS ToolTurnAligned
CHECK_DEADLOCK FALSE

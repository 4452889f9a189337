SPECIFICATION FairClaudeSpec
CONSTANTS
  PrivateFiles = {"prompt", "mcp"}
  MaxCancels = 2
  ToolUses = {u1, u2}
  MaxTexts = 2
INVARIANTS
  CleanupAfterCli
  NothingLeftBehind
  ErrorResultIsRaised
  EventsMatchMessages
PROPERTIES
  KeepsContract
  CleanupEnds

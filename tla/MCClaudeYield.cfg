SPECIFICATION ClaudeSpec
CONSTANTS
  PrivateFiles = {"prompt", "mcp"}
  MaxCancels = 1
  ToolUses = {}
  MaxTexts = 0
INVARIANTS
  ClosingClosesCli

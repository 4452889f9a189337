SPECIFICATION CodexSpec
CONSTANT MaxCancels = 2
INVARIANTS
  StopKillsGroup

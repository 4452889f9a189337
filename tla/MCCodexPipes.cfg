SPECIFICATION FairPipesSpec
CONSTANTS
  Bytes = {"x", " ", "nl"}
  NL = "nl"
  Blank = {" "}
  Limit = 2
  ChunkSize = 2
  PromptSize = 3
  PipeSize = 2
  MaxBytes = 6
INVARIANTS
  LinesAreWhole
  NoLineLost
  GivenUpAtChunkEnds
PROPERTIES
  CodexNeverStuck
  OutputIsReadToTheEnd

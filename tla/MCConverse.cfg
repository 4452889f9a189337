SPECIFICATION FairConverseSpec
CONSTANTS
  t1 = t1
  k1 = k1
  NoTurn = NoTurn
  NoUser = NoUser
  Turns <- OneTurn
  Keys = {k1}
  Users = {}
  SessionKey <- SameKey
  UserId <- NoUsers
  Stateless = {t1}
  MaxConcurrent = 2
  Provider = "claude"
  MaxEvents = 3
INVARIANTS
  FramesFollowQueue
  TerminalTellsTruth
  EndOfStreamMeansFree
  AbandonedTurnIsStopped
PROPERTIES
  StreamKeepsContract
  ConverseImplementsTurn
  StreamEnds
  ShutdownCompletes

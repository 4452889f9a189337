SPECIFICATION StoreSpec
CONSTANTS
  t1 = t1
  t2 = t2
  t3 = t3
  t4 = t4
  k1 = k1
  k2 = k2
  i1 = i1
  i2 = i2
  i3 = i3
  i4 = i4
  NoTurn = NoTurn
  NoUser = NoUser
  NoId = NoId
  Turns <- MCTurns
  Keys <- MCKeys
  Users = {}
  SessionKey <- MCSessionKey
  UserId <- MCUserId
  MaxConcurrent = 2
  Ids <- MCIds
  Resume <- MCResume
  NewId <- MCNewId
INVARIANTS
  ResumeIsOwn
  TranscriptsStayFindable
  DeletedIsGone
PROPERTIES
  DeletionSparesOthers

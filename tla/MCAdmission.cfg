SPECIFICATION ServiceSpec
CONSTANTS
  t1 = t1
  t2 = t2
  t3 = t3
  t4 = t4
  t5 = t5
  t6 = t6
  t7 = t7
  k1 = k1
  k2 = k2
  k3 = k3
  k4 = k4
  u1 = u1
  u2 = u2
  NoTurn = NoTurn
  NoUser = NoUser
  Unset = Unset
  Turns <- MCTurns
  Keys <- MCKeys
  Users <- MCUsers
  SessionKey <- MCSessionKey
  UserId <- MCUserId
  Body <- MCBody
  Deployments <- MCDeployments
  MaxConcurrent = 3
  MaxPending = 3
INVARIANTS
  UserSlotsMatchTurns
  RunsAsConfigured
  OnlyStreamsHold
  ReadyTellsTruth
PROPERTIES
  ImplementsLimits
  StartupEnds

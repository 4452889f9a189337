SPECIFICATION TurnSpec
CONSTANTS
  t1 = t1
  t2 = t2
  k1 = k1
  u1 = u1
  NoTurn = NoTurn
  NoUser = NoUser
  Turns <- MCTurns
  Users <- MCUsers
  Stateless <- MCStateless
  MaxConcurrent = 2
  Keys = {k1}
  SessionKey <- SameKey
  UserId <- SomeUser
  Provider = "codex"
  MaxEvents = 0
INVARIANTS
  OneCliPerKey

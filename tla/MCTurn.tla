------------------------------- MODULE MCTurn -------------------------------
(***************************************************************************)
(* Two turns of one sessionKey, the second stateless: it is the successor  *)
(* that can meet what the first left behind.                               *)
(***************************************************************************)
EXTENDS Turn

CONSTANTS t1, t2, k1, u1

MCTurns == {t1, t2}
MCUsers == {u1}
MCStateless == {t2}

SameKey == [t \in MCTurns |-> k1]
SomeUser == [t \in MCTurns |-> IF t = t2 THEN u1 ELSE NoUser]
=============================================================================

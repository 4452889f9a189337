--------------------------- MODULE MCSessionStore ---------------------------
(***************************************************************************)
(* Two new conversations of a key, a turn that resumes the first of them,  *)
(* and a turn of another key that asks for that same session.              *)
(***************************************************************************)
EXTENDS SessionStore

CONSTANTS t1, t2, t3, t4, k1, k2, i1, i2, i3, i4

MCTurns == {t1, t2, t3, t4}
MCKeys == {k1, k2}
MCIds == {i1, i2, i3, i4}
MCSessionKey == [t \in MCTurns |-> IF t = t4 THEN k2 ELSE k1]
MCUserId == [t \in MCTurns |-> NoUser]
MCResume == [t \in MCTurns |-> IF t \in {t1, t2} THEN NoId ELSE i1]
MCNewId ==
  [t \in MCTurns |-> CASE t = t1 -> i1 [] t = t2 -> i2 [] t = t3 -> i3 [] t = t4 -> i4]
=============================================================================

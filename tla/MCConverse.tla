----------------------------- MODULE MCConverse -----------------------------
(***************************************************************************)
(* One stateless turn with its stream, its client and the server.  Turns   *)
(* meet only in the registry, which MCTurn checks with two.                *)
(***************************************************************************)
EXTENDS Converse

CONSTANTS t1, k1

OneTurn == {t1}

SameKey == [t \in Turns |-> k1]
NoUsers == [t \in Turns |-> NoUser]
=============================================================================

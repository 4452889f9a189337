----------------------------- MODULE TurnLimits -----------------------------
(***************************************************************************)
(* What the sidecar promises about concurrency, without the registry that  *)
(* keeps the promise: which turns may be in flight together, and that the  *)
(* files of a sessionKey are deleted only while no turn of it is in        *)
(* flight.  Admission implements this with its three tables; Turn          *)
(* implements it with the turns whose task is alive.                       *)
(***************************************************************************)
EXTENDS Integers, FiniteSets

CONSTANTS
  Turns,         \* the requests that may be made
  Keys,          \* sessionKeys
  NoUser,        \* the X-User-Id of a request without one
  SessionKey,    \* the sessionKey of each turn
  UserId,        \* the X-User-Id of each turn, or NoUser
  MaxConcurrent  \* MAX_CONCURRENT

VARIABLES
  inflight,      \* the turns in flight
  deleting       \* the sessionKeys whose files are being deleted

limitsVars == <<inflight, deleting>>

\* Two turns that may not be in flight together.
Conflict(t, u) ==
  \/ SessionKey[t] = SessionKey[u]
  \/ UserId[t] # NoUser /\ UserId[t] = UserId[u]

\* A turn that the limits let in.
Fits(t) ==
  /\ \A u \in inflight : ~Conflict(t, u)
  /\ Cardinality(inflight) < MaxConcurrent
  /\ SessionKey[t] \notin deleting

LimitsInit == inflight = {} /\ deleting = {}

Admit(t) ==
  /\ Fits(t)
  /\ inflight' = inflight \cup {t}
  /\ UNCHANGED deleting

\* Several turns may leave at once: shutdown stops every turn in one step.
Leave(S) ==
  /\ S # {}
  /\ inflight' = inflight \ S
  /\ UNCHANGED deleting

BeginDelete(k) ==
  /\ k \notin deleting
  /\ \A t \in inflight : SessionKey[t] # k
  /\ deleting' = deleting \cup {k}
  /\ UNCHANGED inflight

EndDelete(k) ==
  /\ deleting' = deleting \ {k}
  /\ UNCHANGED inflight

LimitsNext ==
  \/ \E t \in Turns : Admit(t)
  \/ \E S \in SUBSET inflight : Leave(S)
  \/ \E k \in Keys : BeginDelete(k) \/ EndDelete(k)

LimitsSpec == LimitsInit /\ [][LimitsNext]_limitsVars
-----------------------------------------------------------------------------
\* What a client may count on at every moment, which is what MAX_CONCURRENT and the two
\* slots are for: never too many turns, no two of a key or of a user, and none of a key
\* whose files are being deleted.
WithinLimits ==
  /\ Cardinality(inflight) <= MaxConcurrent
  /\ \A t, u \in inflight : t # u => ~Conflict(t, u)
  /\ \A t \in inflight : SessionKey[t] \notin deleting
=============================================================================

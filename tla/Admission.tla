----------------------------- MODULE Admission ------------------------------
(***************************************************************************)
(* sidecar.admission.Admission: which turns may run, and the registry that *)
(* /cancel and shutdown find them in.                                      *)
(*                                                                         *)
(* The class is called from one event loop and never awaits between its    *)
(* tests and its updates (drain, which does await, is modelled where its   *)
(* callers are), so each method is one action.  A turn is an identity: the *)
(* code compares turns with `is`.                                          *)
(***************************************************************************)
EXTENDS Integers, FiniteSets

CONSTANTS
  Turns,         \* the Turn objects
  Keys,          \* sessionKeys
  Users,         \* X-User-Id values
  NoTurn,        \* an absent entry of _by_session
  NoUser,        \* user_id is None (or "", which the code treats alike)
  SessionKey,    \* turn.session_key
  UserId,        \* turn.user_id
  MaxConcurrent  \* MAX_CONCURRENT

ASSUME AdmissionAssumption ==
  /\ SessionKey \in [Turns -> Keys]
  /\ UserId \in [Turns -> Users \cup {NoUser}]
  /\ NoTurn \notin Turns
  /\ NoUser \notin Users
  /\ MaxConcurrent \in Nat \ {0}

VARIABLES
  bySession,     \* _by_session: the turn registered for each key, or NoTurn
  users,         \* _users: the users with a turn in flight
  held           \* _held: the keys that `exclusive` keeps turns off

admissionVars == <<bySession, users, held>>

-----------------------------------------------------------------------------
Inflight == {k \in Keys : bySession[k] # NoTurn}   \* keys of _by_session

Registered(t) == bySession[SessionKey[t]] = t

RegisteredTurns == {t \in Turns : Registered(t)}

UsersOf(S) == {UserId[t] : t \in S} \ {NoUser}

AdmissionInit ==
  /\ bySession = [k \in Keys |-> NoTurn]
  /\ users = {}
  /\ held = {}

\* Mutant of Reservable: the bound is off by one.
ReservableOverCap(t) ==
  /\ bySession[SessionKey[t]] = NoTurn
  /\ SessionKey[t] \notin held
  /\ UserId[t] \notin users
  /\ Cardinality(Inflight) <= MaxConcurrent

\* The four tests of reserve, any of which answers BUSY.
Reservable(t) ==
  /\ bySession[SessionKey[t]] = NoTurn
  /\ SessionKey[t] \notin held
  /\ UserId[t] \notin users
  /\ Cardinality(Inflight) < MaxConcurrent

Reserve(t) ==
  /\ Reservable(t)
  /\ bySession' = [bySession EXCEPT ![SessionKey[t]] = t]
  /\ users' = users \cup UsersOf({t})
  /\ UNCHANGED held

\* Mutant of Release: without the "is not turn" test, a turn that was refused
\* or has left gives back the slots of another one.
ReleaseUnguarded(S) ==
  /\ bySession' = [k \in Keys |-> IF \E t \in S : SessionKey[t] = k
                                    THEN NoTurn ELSE bySession[k]]
  /\ users' = users \ UsersOf(S)
  /\ UNCHANGED held

\* release, for every turn of S in one step of the event loop (shutdown stops
\* all turns in one).  A turn that holds no reservation is skipped.
Release(S) ==
  LET mine == {t \in S : Registered(t)} IN
  /\ bySession' = [k \in Keys |-> IF bySession[k] \in mine THEN NoTurn ELSE bySession[k]]
  /\ users' = users \ UsersOf(mine)
  /\ UNCHANGED held

\* exclusive: the context manager's entry and exit.
Hold(k) ==
  /\ bySession[k] = NoTurn
  /\ k \notin held
  /\ held' = held \cup {k}
  /\ UNCHANGED <<bySession, users>>

Unhold(k) ==
  /\ k \in held
  /\ held' = held \ {k}
  /\ UNCHANGED <<bySession, users>>

\* The callers, free to call in any order: a turn that leaves may be one that
\* never held its slots.  Turn narrows this to what the turns really do.
AdmissionNext ==
  \/ \E t \in Turns : Reserve(t)
  \/ \E S \in SUBSET Turns : Release(S)
  \/ \E k \in Keys : Hold(k) \/ Unhold(k)

AdmissionSpec == AdmissionInit /\ [][AdmissionNext]_admissionVars
-----------------------------------------------------------------------------
\* The tables hold what they are declared to hold; a turn is registered under
\* its own sessionKey, which is where release and /cancel look for it.
AdmissionTypeOK ==
  /\ bySession \in [Keys -> Turns \cup {NoTurn}]
  /\ \A k \in Keys : bySession[k] # NoTurn => SessionKey[bySession[k]] = k
  /\ users \subseteq Users
  /\ held \subseteq Keys

\* No user slot leaks and none is lost: a user is in _users exactly while one
\* registered turn is his.  A leaked slot would answer 429 to him forever.
UserSlotsMatchTurns ==
  /\ users = UsersOf(RegisteredTurns)
  /\ \A t, u \in RegisteredTurns :
       UserId[t] = UserId[u] /\ UserId[t] # NoUser => t = u

\* A key is never deleted from and run on at once, whichever came first.
DeletionExcludesTurns == \A k \in held : bySession[k] = NoTurn

\* The registry implements the promise: its steps are the steps TurnLimits
\* allows, and a request is admitted under exactly the same condition.
Limits == INSTANCE TurnLimits WITH inflight <- RegisteredTurns, deleting <- held

ImplementsLimits == Limits!LimitsSpec

\* A request is refused only for a reason TurnLimits knows: none is turned away
\* because of a slot that nobody holds.
NoFalseBusy == \A t \in Turns : Limits!Fits(t) => Reservable(t)
=============================================================================

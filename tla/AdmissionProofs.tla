-------------------------- MODULE AdmissionProofs ---------------------------
(***************************************************************************)
(* The registry's tables stay consistent, and it implements TurnLimits,    *)
(* for every set of turns, keys and users and every MAX_CONCURRENT.        *)
(*                                                                         *)
(* AdmissionInv is inductive: the type, the user table, the deletions and  *)
(* the finiteness of the registry, which the counting of turns rests on.   *)
(***************************************************************************)
EXTENDS Admission, FiniteSetTheorems, FunctionTheorems, WellFoundedInduction, TLAPS

AdmissionInv ==
  /\ AdmissionTypeOK
  /\ UserSlotsMatchTurns
  /\ DeletionExcludesTurns
  /\ IsFiniteSet(Inflight)

-----------------------------------------------------------------------------
\* Induction, for a property given as the set of the numbers that have it.
LEMMA InductionBySet ==
  ASSUME NEW S, 0 \in S, \A m \in Nat : m \in S => m + 1 \in S
  PROVE  Nat \subseteq S
<1> DEFINE gaps == Nat \ S
           less == OpToRel(<, Nat)
<1> SUFFICES ASSUME gaps # {} PROVE FALSE
  OBVIOUS
<1>1. IsWellFoundedOn(less, Nat)
  BY NatLessThanWellFounded
<1> HIDE DEF less
<1>2. PICK m \in gaps : \A k \in gaps : <<k, m>> \notin less
  <2>1. gaps \subseteq Nat
    OBVIOUS
  <2> HIDE DEF gaps
  <2> QED
    BY <1>1, <2>1, WFMin
<1>3. \A k \in gaps : ~(k < m)
  BY <1>2 DEF less, OpToRel
<1>4. m # 0 /\ m \in Nat /\ m \notin S
  OBVIOUS
<1>5. m - 1 \in S
  BY <1>3, <1>4
<1> QED
  BY <1>4, <1>5

-----------------------------------------------------------------------------
\* The registry as a set of turns: an entry is the turn registered there, and a
\* registered turn is the entry of its own key.
LEMMA EntriesAreRegistered ==
  ASSUME AdmissionTypeOK
  PROVE  /\ \A k \in Keys : bySession[k] # NoTurn =>
              /\ bySession[k] \in RegisteredTurns
              /\ SessionKey[bySession[k]] = k
         /\ \A t \in RegisteredTurns : SessionKey[t] \in Inflight
  BY AdmissionAssumption
  DEF AdmissionTypeOK, RegisteredTurns, Registered, Inflight

\* len(_by_session) is the number of registered turns.
LEMMA EntriesCountTurns ==
  ASSUME AdmissionTypeOK, IsFiniteSet(Inflight)
  PROVE  /\ IsFiniteSet(RegisteredTurns)
         /\ Cardinality(RegisteredTurns) = Cardinality(Inflight)
<1> DEFINE f == [k \in Inflight |-> bySession[k]]
<1>1. f \in Bijection(Inflight, RegisteredTurns)
  <2>1. f \in [Inflight -> RegisteredTurns]
    BY EntriesAreRegistered DEF Inflight
  <2>2. \A k, l \in Inflight : f[k] = f[l] => k = l
    BY EntriesAreRegistered DEF Inflight
  <2>3. \A t \in RegisteredTurns : \E k \in Inflight : f[k] = t
    BY EntriesAreRegistered DEF RegisteredTurns, Registered
  <2> QED
    BY <2>1, <2>2, <2>3, Fun_IsBij
<1>2. ExistsBijection(Inflight, RegisteredTurns)
  BY <1>1 DEF ExistsBijection
<1> QED
  BY <1>2, FS_Bijection

-----------------------------------------------------------------------------
\* What reserve adds to the set of registered turns.
LEMMA ReserveRegisters ==
  ASSUME AdmissionTypeOK, NEW t \in Turns, Reserve(t)
  PROVE  /\ RegisteredTurns' = RegisteredTurns \cup {t}
         /\ t \notin RegisteredTurns
         /\ Inflight' = Inflight \cup {SessionKey[t]}
         /\ \A u \in RegisteredTurns : SessionKey[u] # SessionKey[t]
  BY AdmissionAssumption
  DEF AdmissionTypeOK, Reserve, Reservable, RegisteredTurns, Registered, Inflight

\* What release takes from it: the turns it is called for, if registered.
LEMMA ReleaseUnregisters ==
  ASSUME AdmissionTypeOK, NEW S \in SUBSET Turns, Release(S)
  PROVE  /\ RegisteredTurns' = RegisteredTurns \ S
         /\ Inflight' \subseteq Inflight
  BY AdmissionAssumption
  DEF AdmissionTypeOK, Release, RegisteredTurns, Registered, Inflight

-----------------------------------------------------------------------------
LEMMA AdmissionInvInit == AdmissionInit => AdmissionInv
<1> SUFFICES ASSUME AdmissionInit PROVE AdmissionInv
  OBVIOUS
<1>1. AdmissionTypeOK
  BY DEF AdmissionInit, AdmissionTypeOK
<1>2. RegisteredTurns = {}
  BY AdmissionAssumption DEF AdmissionInit, RegisteredTurns, Registered
<1>3. UserSlotsMatchTurns
  BY <1>2 DEF AdmissionInit, UserSlotsMatchTurns, UsersOf
<1>4. DeletionExcludesTurns
  BY DEF AdmissionInit, DeletionExcludesTurns
<1>5. Inflight = {}
  BY DEF AdmissionInit, Inflight
<1> QED
  BY <1>1, <1>3, <1>4, <1>5, FS_EmptySet DEF AdmissionInv

LEMMA ReserveKeepsInv ==
  ASSUME AdmissionInv, NEW t \in Turns, Reserve(t)
  PROVE  AdmissionInv'
<1> USE DEF AdmissionInv
<1>1. AdmissionTypeOK'
  <2>1. bySession' \in [Keys -> Turns \cup {NoTurn}]
    BY AdmissionAssumption DEF AdmissionTypeOK, Reserve
  <2>2. \A k \in Keys : bySession'[k] # NoTurn => SessionKey[bySession'[k]] = k
    BY AdmissionAssumption DEF AdmissionTypeOK, Reserve
  <2>3. users' \subseteq Users /\ held' \subseteq Keys
    BY AdmissionAssumption DEF AdmissionTypeOK, Reserve, UsersOf
  <2> QED
    BY <2>1, <2>2, <2>3 DEF AdmissionTypeOK
<1>2. UserSlotsMatchTurns'
  <2>1. RegisteredTurns' = RegisteredTurns \cup {t}
    BY ReserveRegisters
  <2>2. users' = UsersOf(RegisteredTurns')
    BY <2>1 DEF UserSlotsMatchTurns, UsersOf, Reserve
  <2>3. \A u \in RegisteredTurns : UserId[t] # NoUser => UserId[u] # UserId[t]
    BY DEF UserSlotsMatchTurns, UsersOf, Reserve, Reservable
  <2> QED
    BY <2>1, <2>2, <2>3 DEF UserSlotsMatchTurns
<1>3. DeletionExcludesTurns'
  BY AdmissionAssumption DEF DeletionExcludesTurns, AdmissionTypeOK, Reserve, Reservable
<1>4. IsFiniteSet(Inflight')
  BY ReserveRegisters, FS_AddElement
<1> QED
  BY <1>1, <1>2, <1>3, <1>4

LEMMA ReleaseKeepsInv ==
  ASSUME AdmissionInv, NEW S \in SUBSET Turns, Release(S)
  PROVE  AdmissionInv'
<1> USE DEF AdmissionInv
<1>1. AdmissionTypeOK'
  BY AdmissionAssumption DEF AdmissionTypeOK, Release
<1>2. UserSlotsMatchTurns'
  <2>1. RegisteredTurns' = RegisteredTurns \ S
    BY ReleaseUnregisters
  <2>2. users' = UsersOf(RegisteredTurns) \ UsersOf(RegisteredTurns \cap S)
    <3>1. {u \in S : Registered(u)} = RegisteredTurns \cap S
      BY DEF RegisteredTurns
    <3> QED
      BY <3>1 DEF Release, UserSlotsMatchTurns
  <2>3. users' = UsersOf(RegisteredTurns')
    BY <2>1, <2>2 DEF UserSlotsMatchTurns, UsersOf
  <2> QED
    BY <2>1, <2>3 DEF UserSlotsMatchTurns
<1>3. DeletionExcludesTurns'
  BY DEF DeletionExcludesTurns, AdmissionTypeOK, Release
<1>4. IsFiniteSet(Inflight')
  BY ReleaseUnregisters, FS_Subset
<1> QED
  BY <1>1, <1>2, <1>3, <1>4

LEMMA HoldKeepsInv ==
  ASSUME AdmissionInv, NEW k \in Keys, Hold(k) \/ Unhold(k)
  PROVE  AdmissionInv'
  BY DEF AdmissionInv, AdmissionTypeOK, UserSlotsMatchTurns, DeletionExcludesTurns, UsersOf,
         RegisteredTurns, Registered, Inflight, Hold, Unhold

LEMMA AdmissionInvNext == AdmissionInv /\ [AdmissionNext]_admissionVars => AdmissionInv'
<1> SUFFICES ASSUME AdmissionInv, [AdmissionNext]_admissionVars
             PROVE  AdmissionInv'
  OBVIOUS
<1>1. CASE \E t \in Turns : Reserve(t)
  BY <1>1, ReserveKeepsInv
<1>2. CASE \E S \in SUBSET Turns : Release(S)
  BY <1>2, ReleaseKeepsInv
<1>3. CASE \E k \in Keys : Hold(k) \/ Unhold(k)
  BY <1>3, HoldKeepsInv
<1>4. CASE UNCHANGED admissionVars
  BY <1>4 DEF AdmissionInv, AdmissionTypeOK, UserSlotsMatchTurns, DeletionExcludesTurns,
              UsersOf, RegisteredTurns, Registered, Inflight, admissionVars
<1> QED
  BY <1>1, <1>2, <1>3, <1>4 DEF AdmissionNext

\* The registry's invariant holds of every execution.
THEOREM AdmissionInvariant == AdmissionSpec => []AdmissionInv
  BY AdmissionInvInit, AdmissionInvNext, PTL DEF AdmissionSpec

\* The tables keep their types, whatever the callers do.
THEOREM AdmissionTypeCorrect == AdmissionSpec => []AdmissionTypeOK
<1>1. AdmissionInv => AdmissionTypeOK
  BY DEF AdmissionInv
<1> QED
  BY <1>1, AdmissionInvariant, PTL

\* No user slot leaks and none is given back too early (release's `is not turn`
\* and the pairing of the two tables in reserve and release).
THEOREM UserSlotsCorrect == AdmissionSpec => []UserSlotsMatchTurns
<1>1. AdmissionInv => UserSlotsMatchTurns
  BY DEF AdmissionInv
<1> QED
  BY <1>1, AdmissionInvariant, PTL

\* A sessionKey that `exclusive` holds has no turn (and reserve lets none in).
THEOREM DeletionIsExclusive == AdmissionSpec => []DeletionExcludesTurns
<1>1. AdmissionInv => DeletionExcludesTurns
  BY DEF AdmissionInv
<1> QED
  BY <1>1, AdmissionInvariant, PTL

-----------------------------------------------------------------------------
(* The registry implements TurnLimits *)

\* TurnLimits counts as FiniteSets does.
LEMMA SameCardinality == \A S : Limits!Cardinality(S) = Cardinality(S)
  BY DEF Limits!Cardinality, Cardinality

\* reserve accepts exactly the turns that the limits let in.
LEMMA ReservableIffFits ==
  ASSUME AdmissionInv, NEW t \in Turns
  PROVE  Reservable(t) <=> Limits!Fits(t)
<1>1. Cardinality(RegisteredTurns) = Cardinality(Inflight)
  BY EntriesCountTurns DEF AdmissionInv
<1>2. bySession[SessionKey[t]] = NoTurn
        <=> \A u \in RegisteredTurns : SessionKey[t] # SessionKey[u]
  BY AdmissionAssumption, EntriesAreRegistered
  DEF AdmissionInv, AdmissionTypeOK, RegisteredTurns, Registered
<1>3. UserId[t] \notin users
        <=> \A u \in RegisteredTurns : ~(UserId[t] # NoUser /\ UserId[t] = UserId[u])
  BY AdmissionAssumption
  DEF AdmissionInv, AdmissionTypeOK, UserSlotsMatchTurns, UsersOf, RegisteredTurns
<1> QED
  BY <1>1, <1>2, <1>3, SameCardinality DEF Reservable, Limits!Fits, Limits!Conflict

\* No request is refused for a slot that nobody holds.
THEOREM NoRequestRefusedInVain == AdmissionSpec => []NoFalseBusy
<1>1. AdmissionInv => NoFalseBusy
  BY ReservableIffFits DEF NoFalseBusy
<1> QED
  BY <1>1, AdmissionInvariant, PTL

LEMMA LimitsInitHolds == AdmissionInit => Limits!LimitsInit
  BY AdmissionAssumption
  DEF AdmissionInit, Limits!LimitsInit, RegisteredTurns, Registered

LEMMA LimitsStep ==
  AdmissionInv /\ [AdmissionNext]_admissionVars => [Limits!LimitsNext]_(Limits!limitsVars)
<1> SUFFICES ASSUME AdmissionInv, [AdmissionNext]_admissionVars
             PROVE  [Limits!LimitsNext]_(Limits!limitsVars)
  OBVIOUS
<1> USE DEF Limits!limitsVars
<1>1. ASSUME NEW t \in Turns, Reserve(t)
      PROVE  Limits!LimitsNext
  <2>1. Limits!Fits(t)
    BY <1>1, ReservableIffFits DEF Reserve
  <2>2. RegisteredTurns' = RegisteredTurns \cup {t} /\ held' = held
    BY <1>1, ReserveRegisters DEF AdmissionInv, Reserve
  <2> QED
    BY <2>1, <2>2 DEF Limits!LimitsNext, Limits!Admit
<1>2. ASSUME NEW S \in SUBSET Turns, Release(S)
      PROVE  [Limits!LimitsNext]_(Limits!limitsVars)
  <2>1. RegisteredTurns' = RegisteredTurns \ S /\ held' = held
    BY <1>2, ReleaseUnregisters DEF AdmissionInv, Release
  <2>2. CASE RegisteredTurns \cap S = {}
    BY <2>1, <2>2
  <2>3. CASE RegisteredTurns \cap S # {}
    <3>1. RegisteredTurns' = RegisteredTurns \ (RegisteredTurns \cap S)
      BY <2>1
    <3>2. Limits!Leave(RegisteredTurns \cap S)
      BY <2>1, <2>3, <3>1 DEF Limits!Leave
    <3> QED
      BY <3>2 DEF Limits!LimitsNext
  <2> QED
    BY <2>2, <2>3
<1>3. ASSUME NEW k \in Keys, Hold(k) \/ Unhold(k)
      PROVE  Limits!LimitsNext
  <2>1. RegisteredTurns' = RegisteredTurns
    BY <1>3 DEF Hold, Unhold, RegisteredTurns, Registered
  <2>2. CASE Hold(k)
    <3>1. \A t \in RegisteredTurns : SessionKey[t] # k
      BY <2>2, AdmissionAssumption DEF Hold, RegisteredTurns, Registered
    <3> QED
      BY <2>1, <2>2, <3>1 DEF Hold, Limits!LimitsNext, Limits!BeginDelete
  <2>3. CASE Unhold(k)
    BY <2>1, <2>3 DEF Unhold, Limits!LimitsNext, Limits!EndDelete
  <2> QED
    BY <1>3, <2>2, <2>3
<1>4. CASE UNCHANGED admissionVars
  BY <1>4 DEF admissionVars, RegisteredTurns, Registered
<1> QED
  BY <1>1, <1>2, <1>3, <1>4 DEF AdmissionNext

\* The registry of admission.py implements the limits that its header states.
THEOREM AdmissionImplementsLimits == AdmissionSpec => ImplementsLimits
  BY AdmissionInvariant, LimitsInitHolds, LimitsStep, PTL
  DEF AdmissionSpec, ImplementsLimits, Limits!LimitsSpec

-----------------------------------------------------------------------------
(* What the limits come to *)

\* Finiteness is what counting needs; the bound alone would not be inductive.
LimitsInv == IsFiniteSet(RegisteredTurns) /\ Limits!WithinLimits

LEMMA LimitsInvInit == Limits!LimitsInit => LimitsInv
<1> SUFFICES ASSUME Limits!LimitsInit PROVE LimitsInv
  OBVIOUS
<1>1. RegisteredTurns = {} /\ held = {}
  BY DEF Limits!LimitsInit
<1>2. IsFiniteSet(RegisteredTurns) /\ Limits!Cardinality(RegisteredTurns) = 0
  BY <1>1, FS_EmptySet, SameCardinality
<1> QED
  BY <1>1, <1>2, AdmissionAssumption DEF LimitsInv, Limits!WithinLimits

\* A turn that fits takes the last free place at most, and conflicts with none.
LEMMA AdmitKeepsLimits ==
  ASSUME LimitsInv, NEW t \in Turns, Limits!Admit(t)
  PROVE  LimitsInv'
<1> USE DEF LimitsInv, Limits!WithinLimits
<1>1. /\ RegisteredTurns' = RegisteredTurns \cup {t} /\ held' = held
      /\ \A u \in RegisteredTurns : ~Limits!Conflict(t, u)
      /\ Cardinality(RegisteredTurns) < MaxConcurrent /\ SessionKey[t] \notin held
  BY SameCardinality DEF Limits!Admit, Limits!Fits
<1>2. /\ IsFiniteSet(RegisteredTurns') /\ Cardinality(RegisteredTurns) \in Nat
      /\ Cardinality(RegisteredTurns') <= Cardinality(RegisteredTurns) + 1
      /\ Cardinality(RegisteredTurns') \in Nat
  <2>1. IsFiniteSet(RegisteredTurns) /\ Cardinality(RegisteredTurns) \in Nat
    BY FS_CardinalityType
  <2> HIDE DEF LimitsInv
  <2>2. /\ IsFiniteSet(RegisteredTurns \cup {t})
        /\ Cardinality(RegisteredTurns \cup {t})
             = IF t \in RegisteredTurns THEN Cardinality(RegisteredTurns)
               ELSE Cardinality(RegisteredTurns) + 1
    BY <2>1, FS_AddElement
  <2> QED
    BY <1>1, <2>1, <2>2
<1>3. Limits!Cardinality(RegisteredTurns') <= MaxConcurrent
  <2>1. MaxConcurrent \in Nat
    BY AdmissionAssumption
  <2> HIDE DEF LimitsInv
  <2>2. Cardinality(RegisteredTurns') <= MaxConcurrent
    BY <1>1, <1>2, <2>1
  <2> QED
    BY <2>2, SameCardinality
<1>4. \A u, v \in RegisteredTurns' : u # v => ~Limits!Conflict(u, v)
  BY <1>1 DEF Limits!Conflict
<1> QED
  BY <1>1, <1>2, <1>3, <1>4

LEMMA LimitsInvNext ==
  ASSUME LimitsInv, [Limits!LimitsNext]_(Limits!limitsVars)
  PROVE  LimitsInv'
<1> USE DEF LimitsInv, Limits!WithinLimits
<1>1. ASSUME NEW S \in SUBSET RegisteredTurns, Limits!Leave(S)
      PROVE  LimitsInv'
  <2>1. RegisteredTurns' = RegisteredTurns \ S /\ held' = held
    BY <1>1 DEF Limits!Leave
  <2>2. /\ IsFiniteSet(RegisteredTurns')
        /\ Cardinality(RegisteredTurns') <= Cardinality(RegisteredTurns)
        /\ Cardinality(RegisteredTurns') \in Nat /\ Cardinality(RegisteredTurns) \in Nat
    BY <2>1, FS_Subset, FS_CardinalityType
  <2>3. Limits!Cardinality(RegisteredTurns') <= MaxConcurrent
    BY <2>2, AdmissionAssumption, SameCardinality
  <2> QED
    BY <2>1, <2>2, <2>3 DEF Limits!Conflict
<1>2. ASSUME NEW k \in Keys, Limits!BeginDelete(k) \/ Limits!EndDelete(k)
      PROVE  LimitsInv'
  <2>1. /\ RegisteredTurns' = RegisteredTurns
        /\ \A u \in RegisteredTurns : SessionKey[u] \notin held'
    BY <1>2 DEF Limits!BeginDelete, Limits!EndDelete
  <2> QED
    BY <2>1, SameCardinality DEF Limits!Conflict
<1>3. CASE UNCHANGED Limits!limitsVars
  BY <1>3, SameCardinality DEF Limits!limitsVars, Limits!Conflict
<1> QED
  BY <1>1, <1>2, <1>3, AdmitKeepsLimits DEF Limits!LimitsNext

\* At every moment the turns of the registry are at most MAX_CONCURRENT, no two of them
\* share a key or a user, and none is on a key that is being deleted.
THEOREM RegistryIsWithinLimits == AdmissionSpec => []Limits!WithinLimits
<1>1. LimitsInv => Limits!WithinLimits
  BY DEF LimitsInv
<1>2. Limits!LimitsSpec => []LimitsInv
  BY LimitsInvInit, LimitsInvNext, PTL DEF Limits!LimitsSpec
<1> QED
  BY <1>1, <1>2, AdmissionImplementsLimits, PTL DEF ImplementsLimits
=============================================================================

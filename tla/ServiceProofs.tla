---------------------------- MODULE ServiceProofs ---------------------------
(***************************************************************************)
(* Theorems of Startup and Service, for every set of deployments, requests *)
(* and bodies.  What a request was checked for still holds when it         *)
(* reserves, two waits later, because a deployment does not change; that   *)
(* is the strengthening.  The loop that splits permission rules is shown   *)
(* to find them by induction over the characters, and start-up to leave no *)
(* login behind.                                                           *)
(***************************************************************************)
EXTENDS Service, AdmissionProofs, SequenceTheorems

Acceptable(t) == Valid(Body[t]) /\ Allowed(Body[t], deployment)

Places == {"idle", "resume", "prompt", "streaming"}

ServiceInv ==
  /\ AdmissionTypeOK
  /\ deployment \in Deployments
  /\ place \in [Turns -> Places]
  /\ \A t \in Turns : place[t] # "idle" => Acceptable(t)
  /\ OnlyStreamsHold

-----------------------------------------------------------------------------
LEMMA ServiceInitInv == ServiceInit => ServiceInv
<1> SUFFICES ASSUME ServiceInit PROVE ServiceInv
  OBVIOUS
<1>1. AdmissionTypeOK
  BY AdmissionInvInit DEF AdmissionInv, ServiceInit
<1>2. RegisteredTurns = {} /\ Streaming = {}
  BY AdmissionAssumption DEF ServiceInit, AdmissionInit, RegisteredTurns, Registered, Streaming
<1> QED
  BY <1>1, <1>2 DEF ServiceInit, StartupInit, ServiceInv, Places, OnlyStreamsHold

\* A deployment does not change, and start-up touches nothing else.
LEMMA StartupKeepsDeployment == StartupNext => UNCHANGED deployment
  BY DEF StartupNext, Lifespan, FilesystemReady, FilesystemFails, NoLoginNeeded, LoginStarts,
         BinaryMissing, SpawnFails, LoginWrites, LoginExits, OperatorProvides, LoginSeen, LoginTimesOut,
         TermGraceOver, KillWaitOver

\* Until it reserves, a request moves along its way and changes nothing else.
LEMMA ProceedKeepsInv ==
  ASSUME ServiceInv, NEW t \in Turns, NEW p \in Places \ {"streaming"}, Proceed(t, p),
         place[t] # "streaming", p # "idle" => Acceptable(t)
  PROVE  ServiceInv'
<1> USE DEF ServiceInv
<1>1. /\ place' = [place EXCEPT ![t] = p]
      /\ UNCHANGED <<bySession, users, held, deployment>>
  BY DEF Proceed, admissionVars, startupVars
<1>2. AdmissionTypeOK' /\ RegisteredTurns' = RegisteredTurns
  BY <1>1 DEF AdmissionTypeOK, RegisteredTurns, Registered
<1>3. Streaming' = Streaming
  BY <1>1 DEF Streaming
<1>4. \A u \in Turns : Acceptable(u)' <=> Acceptable(u)
  BY <1>1 DEF Acceptable
<1> QED
  BY <1>1, <1>2, <1>3, <1>4 DEF OnlyStreamsHold, Places

LEMMA StartedKeepsInv ==
  ASSUME ServiceInv, NEW t \in Turns, Started(t)
  PROVE  ServiceInv'
<1> USE DEF ServiceInv
<1>1. /\ Reserve(t) /\ place[t] = "prompt"
      /\ place' = [place EXCEPT ![t] = "streaming"] /\ UNCHANGED deployment
  BY DEF Started, startupVars
<1>2. RegisteredTurns' = RegisteredTurns \cup {t}
  BY <1>1, ReserveRegisters
<1>3. AdmissionTypeOK'
  <2>1. bySession' \in [Keys -> Turns \cup {NoTurn}]
    BY <1>1, AdmissionAssumption DEF AdmissionTypeOK, Reserve
  <2>2. \A k \in Keys : bySession'[k] # NoTurn => SessionKey[bySession'[k]] = k
    BY <1>1, AdmissionAssumption DEF AdmissionTypeOK, Reserve
  <2>3. users' \subseteq Users
    <3>1. users' = users \cup UsersOf({t}) /\ users \subseteq Users
      BY <1>1 DEF AdmissionTypeOK, Reserve
    <3>2. UsersOf({t}) \subseteq Users
      BY AdmissionAssumption DEF UsersOf
    <3> QED
      BY <3>1, <3>2
  <2>4. held' \subseteq Keys
    BY <1>1 DEF AdmissionTypeOK, Reserve
  <2> QED
    BY <2>1, <2>2, <2>3, <2>4 DEF AdmissionTypeOK
<1>4. Streaming' = Streaming \cup {t}
  BY <1>1 DEF Streaming
<1>5. \A u \in Turns : place'[u] # "idle" => Acceptable(u)'
  BY <1>1 DEF Acceptable
<1> QED
  BY <1>1, <1>2, <1>3, <1>4, <1>5 DEF OnlyStreamsHold, Places

LEMMA LeaveKeepsInv ==
  ASSUME ServiceInv, NEW S \in SUBSET Turns, Leave(S)
  PROVE  ServiceInv'
<1> USE DEF ServiceInv
<1>1. /\ Release(S) /\ UNCHANGED deployment
      /\ place' = [t \in Turns |-> IF t \in S THEN "idle" ELSE place[t]]
  BY DEF Leave, startupVars
<1>2. RegisteredTurns' = RegisteredTurns \ S
  BY <1>1, ReleaseUnregisters
<1>3. AdmissionTypeOK'
  BY <1>1, AdmissionAssumption DEF AdmissionTypeOK, Release
<1>4. Streaming' = Streaming \ S
  BY <1>1 DEF Streaming
<1>5. \A u \in Turns : place'[u] # "idle" => Acceptable(u)'
  BY <1>1 DEF Acceptable
<1> QED
  BY <1>1, <1>2, <1>3, <1>4, <1>5 DEF OnlyStreamsHold, Places

LEMMA ServiceStepInv == ServiceInv /\ [ServiceNext]_serviceVars => ServiceInv'
<1> SUFFICES ASSUME ServiceInv, [ServiceNext]_serviceVars PROVE ServiceInv'
  OBVIOUS
<1> USE DEF ServiceInv
<1>1. ASSUME UNCHANGED <<bySession, users, deployment, place>>, held' \subseteq Keys
      PROVE  ServiceInv'
  BY <1>1 DEF AdmissionTypeOK, OnlyStreamsHold, RegisteredTurns, Registered, Streaming, Acceptable
<1>2. CASE Start
  <2>1. UNCHANGED <<bySession, users, held, deployment, place>>
    BY <1>2, StartupKeepsDeployment DEF Start, admissionVars
  <2> QED
    BY <2>1, <1>1 DEF AdmissionTypeOK
<1>3. ASSUME NEW t \in Turns, Request(t)
      PROVE  ServiceInv'
  <2>1. CASE Unauthorised(t) \/ NotAllowed(t)
    BY <2>1, ProceedKeepsInv DEF Unauthorised, NotAllowed, Arrives, Reject, Places
  <2>2. CASE Checked(t)
    <3>1. \E p \in {"resume", "prompt"} : Proceed(t, p)
      BY <2>2 DEF Checked
    <3> QED
      BY <2>2, <3>1, ProceedKeepsInv DEF Checked, Arrives, Acceptable, Places
  <2>3. CASE Issued(t)
    BY <2>3, ProceedKeepsInv DEF Issued, Places
  <2>4. CASE NotIssued(t) \/ RecordUnreadable(t) \/ PromptUnreadable(t) \/ Busy(t)
    BY <2>4, ProceedKeepsInv DEF NotIssued, RecordUnreadable, PromptUnreadable, Busy, Reject, Places
  <2>5. CASE Started(t)
    BY <2>5, StartedKeepsInv
  <2> QED
    BY <1>3, <2>1, <2>2, <2>3, <2>4, <2>5 DEF Request
<1>4. CASE \E S \in SUBSET Streaming : Leave(S)
  BY <1>4, LeaveKeepsInv DEF Streaming
<1>5. CASE \E t \in Turns \ (Pending \cup Streaming) : Leave({t})
  BY <1>5, LeaveKeepsInv
<1>6. CASE \E k \in Keys : Delete(k)
  BY <1>6, <1>1 DEF Delete, Hold, Unhold, startupVars, AdmissionTypeOK
<1>7. CASE UNCHANGED serviceVars
  BY <1>7, <1>1 DEF serviceVars, admissionVars, startupVars, AdmissionTypeOK
<1> QED
  BY <1>2, <1>3, <1>4, <1>5, <1>6, <1>7 DEF ServiceNext

LEMMA ServiceInvariant == ServiceSpec => []ServiceInv
<1> QED
  BY ServiceInitInv, ServiceStepInv, PTL DEF ServiceSpec

-----------------------------------------------------------------------------
\* Nobody holds a reservation but a turn that streams: a rejected request leaves no slot
\* taken, for every number of requests under way.
THEOREM ReservationIsLast == ServiceSpec => []OnlyStreamsHold
<1>1. ServiceInv => OnlyStreamsHold
  BY DEF ServiceInv
<1> QED
  BY <1>1, ServiceInvariant, PTL

\* What is allowed, completed with the operator's defaults, stays within his ceilings.
LEMMA AllowedHolds ==
  ASSUME NEW d \in Deployments, NEW t \in Turns, Allowed(Body[t], d)
  PROVE  LET limits == RunLimits(Body[t], d)
             OfClaude(ceiling) == IF d.provider = "claude" THEN ceiling ELSE Unset
         IN /\ Holds(limits.timeout, Body[t].timeout, d.timeout)
            /\ Holds(limits.maxTurns, Body[t].maxTurns, OfClaude(d.maxTurns))
            /\ Holds(limits.maxBudget, Body[t].maxBudget, OfClaude(d.maxBudget))
            /\ limits.model \in d.models \cup {Unset}
<1>1. /\ d.timeout \in Nat /\ d.maxTurns \in Nat \cup {Unset} /\ d.maxBudget \in Nat \cup {Unset}
      /\ Body[t].timeout \in Nat \cup {Unset} /\ Body[t].maxTurns \in Nat \cup {Unset}
      /\ Body[t].maxBudget \in Nat \cup {Unset} /\ Unset \notin Nat
      /\ d.provider \in {"claude", "codex"}
  BY ServiceAssumption, StartupAssumption
<1>2. CASE d.provider = "claude"
  BY <1>1, <1>2 DEF Allowed, Within, RunLimits, Or, Holds
<1>3. CASE d.provider = "codex"
  BY <1>1, <1>3 DEF Allowed, Within, RunLimits, Or, Holds
<1> QED
  BY <1>1, <1>2, <1>3

\* Every turn runs within the operator's settings and with the limits its client set, for
\* every combination of settings and body.
THEOREM LimitsAreKept == ServiceSpec => []LimitsHold
<1>1. ServiceInv => LimitsHold
  <2> SUFFICES ASSUME ServiceInv, NEW t \in RegisteredTurns
               PROVE  t \in Turns /\ deployment \in Deployments /\ Allowed(Body[t], deployment)
    BY AllowedHolds DEF LimitsHold
  <2>1. t \in Turns /\ place[t] = "streaming"
    BY DEF ServiceInv, OnlyStreamsHold, Streaming
  <2> QED
    BY <2>1 DEF ServiceInv, Acceptable
<1> QED
  BY <1>1, ServiceInvariant, PTL

\* A sidecar that reports ready can authenticate its CLI unless it looks at a file the CLI
\* does not read, or counts a token it withholds: for every deployment, CLAUDE_AUTH_PATH,
\* CODEX_AUTH_PATH and any CODEX_ENV_PASSTHROUGH included, and whatever became of the login.
THEOREM ReadinessIsTrue == ServiceSpec => []ReadyTellsTruth
<1>1. ServiceInv => ReadyTellsTruth
  <2> SUFFICES ASSUME deployment \in Deployments PROVE ReadyTellsTruth
    BY DEF ServiceInv
  <2>1. CASE deployment.provider = "codex"
    BY <2>1 DEF ReadyTellsTruth, Ready, CodexIdentityReady, CanAuthenticate, CodexEnv, Seen,
      LooksElsewhere
  <2>2. CASE deployment.provider = "claude"
    \* A key that counts reaches claude by way of the settings.
    <3>1. deployment.settingsKey \/ "ANTHROPIC_API_KEY" \in deployment.environ
            => "ANTHROPIC_API_KEY" \in ClaudeEnv(deployment)
      BY StartupAssumption DEF ClaudeEnv
    \* A token reaches it unless its name is passed through to codex.
    <3>2. "CLAUDE_CODE_OAUTH_TOKEN" \in deployment.environ
            => \/ "CLAUDE_CODE_OAUTH_TOKEN" \in ClaudeEnv(deployment)
               \/ "CLAUDE_CODE_OAUTH_TOKEN" \in deployment.passthrough
      BY DEF ClaudeEnv
    <3>3. IdentityReady(deployment)
            => \/ CanAuthenticate(deployment)
               \/ LooksElsewhere(deployment) \/ CountsWithheldToken(deployment)
      <4>1. CASE deployment.anthropicMode = "api"
        BY <2>2, <3>1, <4>1 DEF IdentityReady, CanAuthenticate
      <4>2. CASE deployment.anthropicMode # "api"
        BY <2>2, <3>1, <3>2, <4>2, StartupAssumption
        DEF IdentityReady, CanAuthenticate, Seen, LooksElsewhere, CountsWithheldToken
      <4> QED
        BY <4>1, <4>2
    <3> QED
      BY <2>2, <3>3 DEF ReadyTellsTruth, Ready
  <2> QED
    BY <2>1, <2>2, StartupAssumption
<1> QED
  BY <1>1, ServiceInvariant, PTL

-----------------------------------------------------------------------------
(* The parser of permission rules *)

\* The recursion of the loop defines a function.
LEMMA LoopUnfolds ==
  ASSUME NEW value \in Seq(STRING)
  PROVE  Loop(value) =
           [n \in 0..Len(value) |->
              IF n = 0 THEN [rules |-> <<>>, current |-> <<>>, depth |-> 0]
              ELSE AfterChar(Loop(value)[n - 1], value[n])]
<1> DEFINE body(f, n) == IF n = 0 THEN [rules |-> <<>>, current |-> <<>>, depth |-> 0]
                         ELSE AfterChar(f[n - 1], value[n])
           defined(m) == \E f : f = [n \in 0..m |-> body(f, n)]
           all == {m \in Nat : defined(m)}
<1>1. defined(0)
  <2> DEFINE g == [n \in 0..0 |-> [rules |-> <<>>, current |-> <<>>, depth |-> 0]]
  <2>1. g = [n \in 0..0 |-> body(g, n)]
    OBVIOUS
  <2> QED
    BY <2>1
<1>2. ASSUME NEW m \in Nat \ {0}, defined(m - 1)
      PROVE  defined(m)
  <2>1. PICK f : f = [n \in 0..m - 1 |-> body(f, n)]
    BY <1>2
  <2> HIDE DEF body
  <2> DEFINE g == [n \in 0..m |-> IF n = m THEN body(f, m) ELSE f[n]]
  <2>2. \A n \in 0..m : g[n] = body(g, n)
    <3> SUFFICES ASSUME NEW n \in 0..m PROVE g[n] = body(g, n)
      OBVIOUS
    <3>1. n # 0 => g[n - 1] = f[n - 1]
      OBVIOUS
    <3>2. body(g, n) = body(f, n)
      BY <3>1 DEF body
    <3>3. g[n] = body(f, n)
      BY <2>1
    <3> QED
      BY <3>2, <3>3
  <2>3. g = [n \in 0..m |-> body(g, n)]
    BY <2>2
  <2> HIDE DEF g
  <2> QED
    BY <2>3
<1> HIDE DEF defined
<1>3. Nat \subseteq all
  <2>1. \A m \in Nat : defined(m) => defined(m + 1)
    <3> SUFFICES ASSUME NEW m \in Nat, defined(m) PROVE defined(m + 1)
      OBVIOUS
    <3>1. m + 1 \in Nat \ {0} /\ (m + 1) - 1 = m
      OBVIOUS
    <3> QED
      BY <3>1, <1>2
  <2>2. 0 \in all /\ \A m \in Nat : m \in all => m + 1 \in all
    BY <1>1, <2>1
  <2> HIDE DEF all
  <2> QED
    BY <2>2, InductionBySet
<1>4. defined(Len(value))
  BY <1>3, LenProperties
<1> QED
  BY <1>4 DEF Loop, defined

\* The depth before and after one more character.
LEMMA DepthGrows ==
  ASSUME NEW value \in Seq(STRING)
  PROVE  /\ Depth(value, 0) = 0
         /\ \A n \in 0..Len(value) : Depth(value, n) \in Int
         /\ \A n \in 1..Len(value) :
              Depth(value, n) = Depth(value, n - 1) + Deeper(value[n])
<1> DEFINE at(c, n) == {i \in 1..n : value[i] = c}
<1>1. ASSUME NEW c, NEW n \in Nat
      PROVE  IsFiniteSet(at(c, n)) /\ Cardinality(at(c, n)) \in Nat
  <2>1. IsFiniteSet(1..n)
    BY FS_Interval
  <2>2. at(c, n) \in SUBSET (1..n)
    OBVIOUS
  <2>3. IsFiniteSet(at(c, n))
    BY <2>1, <2>2, FS_Subset
  <2> QED
    BY <2>3, FS_CardinalityType
<1>2. ASSUME NEW c, NEW n \in Nat \ {0}
      PROVE  Cardinality(at(c, n)) =
               Cardinality(at(c, n - 1)) + (IF value[n] = c THEN 1 ELSE 0)
  <2>1. at(c, n) = IF value[n] = c THEN at(c, n - 1) \cup {n} ELSE at(c, n - 1)
    OBVIOUS
  <2>2. n \notin at(c, n - 1)
    OBVIOUS
  <2> HIDE DEF at
  <2>3. n - 1 \in Nat
    OBVIOUS
  <2>4. IsFiniteSet(at(c, n - 1)) /\ Cardinality(at(c, n - 1)) \in Nat
    BY <2>3, <1>1
  <2>5. Cardinality(at(c, n - 1) \cup {n}) = Cardinality(at(c, n - 1)) + 1
    BY <2>2, <2>4, FS_AddElement
  <2> QED
    BY <2>1, <2>4, <2>5
<1>3. at("(", 0) = {} /\ at(")", 0) = {}
  OBVIOUS
<1>4. \A n : Depth(value, n) = Cardinality(at("(", n)) - Cardinality(at(")", n))
  BY DEF Depth
<1> HIDE DEF at
<1>5. Len(value) \in Nat
  BY LenProperties
<1>6. Depth(value, 0) = 0
  <2>1. Cardinality(at("(", 0)) = 0 /\ Cardinality(at(")", 0)) = 0
    BY <1>3, FS_EmptySet
  <2> QED
    BY <2>1, <1>4
<1>7. \A n \in 0..Len(value) : Depth(value, n) \in Int
  BY <1>1, <1>4, <1>5
<1>8. ASSUME NEW n \in 1..Len(value)
      PROVE  Depth(value, n) = Depth(value, n - 1) + Deeper(value[n])
  <2>1. n \in Nat \ {0} /\ n \in Nat /\ n - 1 \in Nat
    BY <1>5
  <2>2. /\ Deeper(value[n]) = (IF value[n] = "(" THEN 1 ELSE 0) - (IF value[n] = ")" THEN 1 ELSE 0)
        /\ Cardinality(at("(", n)) = Cardinality(at("(", n - 1)) + (IF value[n] = "(" THEN 1 ELSE 0)
        /\ Cardinality(at(")", n)) = Cardinality(at(")", n - 1)) + (IF value[n] = ")" THEN 1 ELSE 0)
    BY <2>1, <1>2 DEF Deeper
  <2>3. /\ Cardinality(at("(", n - 1)) \in Nat
        /\ Cardinality(at(")", n - 1)) \in Nat
    BY <2>1, <1>1
  <2> QED
    BY <2>2, <2>3, <1>4
<1> QED
  BY <1>6, <1>7, <1>8

\* The ends are positions, and one more position adds at most itself.
LEMMA EndsGrow ==
  ASSUME NEW value \in Seq(STRING)
  PROVE  /\ Ends(value) \subseteq 1..Len(value) + 1
         /\ \A n \in 0..Len(value) + 1 : /\ IsFiniteSet(EndsUpTo(value, n))
                                         /\ Cardinality(EndsUpTo(value, n)) \in Nat
         /\ Cardinality(EndsUpTo(value, 0)) = 0
         /\ \A n \in 1..Len(value) + 1 :
              Cardinality(EndsUpTo(value, n)) = Cardinality(EndsUpTo(value, n - 1))
                + (IF n \in Ends(value) THEN 1 ELSE 0)
         /\ EndsUpTo(value, Len(value) + 1) = Ends(value)
<1>1. Len(value) \in Nat
  BY LenProperties
<1>2. Ends(value) \subseteq 1..Len(value) + 1
  <2>1. Separators(value) \subseteq 1..Len(value)
    BY DEF Separators
  <2> QED
    BY <1>1, <2>1 DEF Ends
<1>3. ASSUME NEW n \in 0..Len(value) + 1
      PROVE  IsFiniteSet(EndsUpTo(value, n)) /\ Cardinality(EndsUpTo(value, n)) \in Nat
  <2>1. EndsUpTo(value, n) \in SUBSET (1..Len(value) + 1)
    BY <1>2 DEF EndsUpTo
  <2>2. IsFiniteSet(1..Len(value) + 1)
    BY <1>1, FS_Interval
  <2> QED
    BY <2>1, <2>2, FS_Subset, FS_CardinalityType
<1>4. EndsUpTo(value, 0) = {}
  BY <1>1, <1>2 DEF EndsUpTo
<1>5. ASSUME NEW n \in 1..Len(value) + 1
      PROVE  Cardinality(EndsUpTo(value, n)) = Cardinality(EndsUpTo(value, n - 1))
                + (IF n \in Ends(value) THEN 1 ELSE 0)
  <2>1. EndsUpTo(value, n) = IF n \in Ends(value) THEN EndsUpTo(value, n - 1) \cup {n}
                             ELSE EndsUpTo(value, n - 1)
    BY <1>1, <1>2 DEF EndsUpTo
  <2>2. n \notin EndsUpTo(value, n - 1)
    BY <1>1 DEF EndsUpTo
  <2>3. n - 1 \in 0..Len(value) + 1
    BY <1>1
  <2>4. IsFiniteSet(EndsUpTo(value, n - 1)) /\ Cardinality(EndsUpTo(value, n - 1)) \in Nat
    BY <2>3, <1>3
  <2>5. Cardinality(EndsUpTo(value, n - 1) \cup {n}) = Cardinality(EndsUpTo(value, n - 1)) + 1
    BY <2>2, <2>4, FS_AddElement
  <2> QED
    BY <2>1, <2>4, <2>5
<1>6. EndsUpTo(value, Len(value) + 1) = Ends(value)
  BY <1>1, <1>2 DEF EndsUpTo
<1> QED
  BY <1>2, <1>3, <1>4, <1>5, <1>6, FS_EmptySet

\* An end is the one its number says.
LEMMA EndHasItsNumber ==
  ASSUME NEW value \in Seq(STRING), NEW e \in {0} \cup Ends(value)
  PROVE  EndOf(value, Cardinality(EndsUpTo(value, e))) = e
<1> DEFINE d == EndOf(value, Cardinality(EndsUpTo(value, e)))
<1>1. d \in {0} \cup Ends(value) /\ Cardinality(EndsUpTo(value, d)) = Cardinality(EndsUpTo(value, e))
  BY DEF EndOf
<1> HIDE DEF d
<1>2. Len(value) \in Nat /\ Ends(value) \subseteq 1..Len(value) + 1
  BY LenProperties, EndsGrow
<1>3. ASSUME NEW a \in {0} \cup Ends(value), NEW b \in {0} \cup Ends(value), a < b
      PROVE  Cardinality(EndsUpTo(value, a)) # Cardinality(EndsUpTo(value, b))
  <2>1. b \in EndsUpTo(value, b) /\ b \notin EndsUpTo(value, a)
    BY <1>2, <1>3 DEF EndsUpTo
  <2>2. EndsUpTo(value, a) \in SUBSET EndsUpTo(value, b)
    BY <1>2, <1>3 DEF EndsUpTo
  <2>3. IsFiniteSet(EndsUpTo(value, b))
    BY <1>2, EndsGrow
  <2> QED
    BY <2>1, <2>2, <2>3, FS_Subset
<1>4. ~(d < e) /\ ~(e < d)
  BY <1>1, <1>3
<1> QED
  BY <1>1, <1>2, <1>4 DEF d

LEMMA LongerSubSeq ==
  ASSUME NEW S, NEW s \in Seq(S), NEW n \in 1..Len(s), NEW m \in 1..n
  PROVE  Append(SubSeq(s, m, n - 1), s[n]) = SubSeq(s, m, n)
<1>1. Len(s) \in Nat /\ s \in [1..Len(s) -> S]
  BY LenProperties
<1>2. SubSeq(s, m, n) = SubSeq(s, m, n - 1) \o <<s[n]>>
  <2>1. m \in 1..Len(s) /\ n \in m..Len(s)
    BY <1>1
  <2> QED
    BY <2>1, SubSeqRecursiveSecond
<1>3. SubSeq(s, m, n - 1) \in Seq(S) /\ s[n] \in S
  <2>1. m \in Int /\ n - 1 \in Int /\ \A i \in m .. n - 1 : s[i] \in S
    BY <1>1
  <2> QED
    BY <1>1, <2>1, SubSeqProperties
<1> QED
  BY <1>2, <1>3

\* What the loop has in hand after n characters: the rules that end up to there, the text
\* after the last end, and the depth.
RuleAt(value, k) == SubSeq(value, EndOf(value, k - 1) + 1, EndOf(value, k) - 1)

InHand(value, n) ==
  LET ended == Cardinality(EndsUpTo(value, n)) IN
  /\ EndOf(value, ended) \in 0..n
  /\ Loop(value)[n] =
       [rules   |-> [k \in 1..ended |-> RuleAt(value, k)],
        current |-> SubSeq(value, EndOf(value, ended) + 1, n),
        depth   |-> Depth(value, n)]

LEMMA InHandAtFirst ==
  ASSUME NEW value \in Seq(STRING)
  PROVE  InHand(value, 0)
<1>1. Len(value) \in Nat
  BY LenProperties
<1>2. Loop(value)[0] = [rules |-> <<>>, current |-> <<>>, depth |-> 0]
  BY <1>1, LoopUnfolds
<1>3. Cardinality(EndsUpTo(value, 0)) = 0 /\ EndOf(value, 0) = 0
  BY EndsGrow, EndHasItsNumber
<1>4. [k \in 1..0 |-> RuleAt(value, k)] = <<>> /\ SubSeq(value, 1, 0) = <<>>
  BY SubSeqEmpty
<1>5. Depth(value, 0) = 0
  BY DepthGrows
<1> QED
  BY <1>2, <1>3, <1>4, <1>5 DEF InHand

LEMMA InHandAfterEach ==
  ASSUME NEW value \in Seq(STRING), NEW n \in 1..Len(value), InHand(value, n - 1)
  PROVE  InHand(value, n)
<1> DEFINE m == Cardinality(EndsUpTo(value, n - 1))
           last == EndOf(value, m)
           before == [k \in 1..m |-> RuleAt(value, k)]
           was == Loop(value)[n - 1]
           ch == value[n]
<1>1. Len(value) \in Nat /\ m \in Nat /\ n - 1 \in Nat /\ last \in 0..n - 1
  BY LenProperties, EndsGrow DEF InHand
<1>2. was = [rules |-> before, current |-> SubSeq(value, last + 1, n - 1),
             depth |-> Depth(value, n - 1)]
  BY DEF InHand
<1>3. Loop(value)[n] = AfterChar(was, ch)
  BY <1>1, LoopUnfolds
<1>4. /\ Depth(value, n - 1) \in Int
      /\ Depth(value, n) = Depth(value, n - 1) + Deeper(ch)
  BY <1>1, DepthGrows
<1> HIDE DEF m, was, ch
<1>5. n \in Ends(value) <=> ch = "," /\ Depth(value, n - 1) = 0
  <2>1. n \in Ends(value) <=> n \in Separators(value)
    BY <1>1 DEF Ends
  <2>2. n \in Separators(value) <=> ch = "," /\ Depth(value, n) = 0
    BY DEF Separators, ch
  <2> DEFINE d == Deeper(ch)
  <2>3. ch = "," => d = 0
    BY DEF Deeper
  <2>4. Depth(value, n - 1) \in Int /\ Depth(value, n) = Depth(value, n - 1) + d
    BY <1>4
  <2> HIDE DEF d
  <2>5. d = 0 => Depth(value, n) = Depth(value, n - 1)
    BY <2>4
  <2> QED
    BY <2>1, <2>2, <2>3, <2>5
<1>6. Cardinality(EndsUpTo(value, n)) = m + (IF n \in Ends(value) THEN 1 ELSE 0)
  BY <1>1, EndsGrow DEF m
<1>7. CASE n \in Ends(value)
  <2>1. Cardinality(EndsUpTo(value, n)) = m + 1 /\ EndOf(value, m + 1) = n
    BY <1>1, <1>6, <1>7, EndHasItsNumber
  <2>2. Loop(value)[n] = [rules |-> Append(before, SubSeq(value, last + 1, n - 1)),
                          current |-> <<>>, depth |-> Depth(value, n - 1)]
    BY <1>2, <1>3, <1>5, <1>7 DEF AfterChar
  <2>3. RuleAt(value, m + 1) = SubSeq(value, last + 1, n - 1)
    BY <2>1, <1>1 DEF RuleAt
  <2>4. Append(before, SubSeq(value, last + 1, n - 1)) = [k \in 1..m + 1 |-> RuleAt(value, k)]
    BY <2>3, <1>1
  <2>5. SubSeq(value, n + 1, n) = <<>>
    BY <1>1, SubSeqEmpty
  <2>6. Depth(value, n) = Depth(value, n - 1)
    <3>1. ch = ","
      BY <1>5, <1>7
    <3>2. Deeper(ch) = 0
      BY <3>1 DEF Deeper
    <3> QED
      BY <3>2, <1>4
  <2>7. n \in 0..n
    BY <1>1
  <2> HIDE DEF last, before
  <2> QED
    BY <2>1, <2>2, <2>4, <2>5, <2>6, <2>7 DEF InHand
<1>8. CASE n \notin Ends(value)
  <2>1. Cardinality(EndsUpTo(value, n)) = m
    BY <1>1, <1>6, <1>8
  <2>2. Loop(value)[n] = [rules |-> before,
                          current |-> Append(SubSeq(value, last + 1, n - 1), ch),
                          depth |-> Depth(value, n)]
    BY <1>2, <1>3, <1>4, <1>5, <1>8 DEF AfterChar, Joined
  <2>3. Append(SubSeq(value, last + 1, n - 1), ch) = SubSeq(value, last + 1, n)
    <3>1. last + 1 \in 1..n /\ (last + 1) - 1 = last
      BY <1>1
    <3> HIDE DEF last
    <3> QED
      BY <3>1, LongerSubSeq DEF ch
  <2>4. last \in 0..n
    BY <1>1
  <2> QED
    BY <2>1, <2>2, <2>3, <2>4 DEF InHand
<1> QED
  BY <1>7, <1>8

\* The loop finds the rules as the settings mean them, whatever the operator wrote.
THEOREM RulesAreWhole ==
  ASSUME NEW value \in Seq(STRING)
  PROVE  ToolRules(value) = WholeRules(value)
<1> DEFINE all == {n \in Nat : n <= Len(value) => InHand(value, n)}
           l == Len(value)
           m == Cardinality(EndsUpTo(value, l))
           before == [k \in 1..m |-> RuleAt(value, k)]
<1>1. l \in Nat /\ m \in Nat
  BY LenProperties, EndsGrow
<1>2. InHand(value, l)
  <2>1. 0 \in all
    BY InHandAtFirst
  <2>2. \A n \in Nat : n \in all => n + 1 \in all
    <3> SUFFICES ASSUME NEW n \in Nat, n \in all, n + 1 <= l PROVE InHand(value, n + 1)
      OBVIOUS
    <3>1. n + 1 \in 1..l /\ (n + 1) - 1 = n /\ InHand(value, n)
      BY <1>1
    <3> QED
      BY <3>1, InHandAfterEach
  <2> HIDE DEF all
  <2>3. l \in all
    BY <2>1, <2>2, <1>1, InductionBySet
  <2> QED
    BY <2>3, <1>1 DEF all
<1>3. Loop(value)[l] = [rules |-> before, current |-> SubSeq(value, EndOf(value, m) + 1, l),
                        depth |-> Depth(value, l)]
  BY <1>2 DEF InHand
<1>4. Cardinality(Ends(value)) = m + 1 /\ EndOf(value, m + 1) = l + 1
  <2>1. l + 1 \in Ends(value) /\ l + 1 \in 1..Len(value) + 1 /\ (l + 1) - 1 = l
    BY <1>1 DEF Ends
  <2>2. Cardinality(EndsUpTo(value, l + 1)) = m + 1
    BY <2>1, EndsGrow
  <2> QED
    BY <2>1, <2>2, EndsGrow, EndHasItsNumber
<1> HIDE DEF m, l
<1>5. RuleAt(value, m + 1) = SubSeq(value, EndOf(value, m) + 1, l)
  <2>1. (m + 1) - 1 = m
    BY <1>1
  <2>2. EndOf(value, m + 1) - 1 = l
    BY <1>1, <1>4
  <2> QED
    BY <2>1, <2>2 DEF RuleAt
<1>6. Append(before, RuleAt(value, m + 1)) = [k \in 1..m + 1 |-> RuleAt(value, k)]
  BY <1>1
<1> HIDE DEF before
<1>7. ToolRules(value) = Cleaned([k \in 1..m + 1 |-> RuleAt(value, k)])
  <2>1. ToolRules(value) = Cleaned(Append(Loop(value)[l].rules, Loop(value)[l].current))
    BY Zenon DEF ToolRules, l
  <2>2. Loop(value)[l].rules = before /\ Loop(value)[l].current = RuleAt(value, m + 1)
    BY <1>3, <1>5
  <2> QED
    BY <2>1, <2>2, <1>6, Zenon
<1>8. WholeRules(value) = Cleaned([k \in 1..m + 1 |-> RuleAt(value, k)])
  BY <1>4 DEF WholeRules, RuleAt
<1> QED
  BY <1>7, <1>8

\* Every turn that is let in runs as the operator configured and as the client asked, for
\* every deployment and every body.
THEOREM TurnsRunAsConfigured == ServiceSpec => []RunsAsConfigured
<1>1. ServiceInv => RulesHold
  BY ServiceAssumption, RulesAreWhole DEF ServiceInv, RulesHold
<1> QED
  BY <1>1, ServiceInvariant, LimitsAreKept, PTL DEF RunsAsConfigured

-----------------------------------------------------------------------------
(* Start-up *)

Phases ==
  {"filesystem", "authFile", "login", "termGrace", "killWait", "serving", "failed"}

StartInv ==
  /\ phase \in Phases
  /\ LoginIsWatched
  /\ NothingBeforeServing

\* Start-up goes one way, and before a login begins none runs.
LEMMA StartupMoves ==
  ASSUME StartInv, StartupNext
  PROVE  /\ phase' \in Phases /\ LoginIsWatched'
         /\ phase' # phase => StepsLeft(phase') < StepsLeft(phase)
         /\ phase = "serving" => phase' = "serving"
<1> USE DEF StartInv, Phases, LoginIsWatched, StepsLeft, To
<1>1. CASE FilesystemReady \/ FilesystemFails
  BY <1>1 DEF FilesystemReady, FilesystemFails
<1>2. CASE NoLoginNeeded \/ LoginStarts \/ BinaryMissing \/ SpawnFails
  BY <1>2 DEF NoLoginNeeded, LoginStarts, BinaryMissing, SpawnFails
<1>3. CASE LoginWrites \/ LoginExits \/ OperatorProvides
  BY <1>3 DEF LoginWrites, LoginExits, OperatorProvides
<1>4. CASE LoginSeen \/ LoginTimesOut
  BY <1>4 DEF LoginSeen, LoginTimesOut
<1>5. CASE TermGraceOver \/ KillWaitOver
  BY <1>5 DEF TermGraceOver, KillWaitOver
<1> QED
  BY <1>1, <1>2, <1>3, <1>4, <1>5 DEF StartupNext, Lifespan

\* Every other step leaves start-up alone, and only serving does it let anything in.
LEMMA ServiceLeavesStartup ==
  ASSUME ServiceInv, StartInv, [ServiceNext]_serviceVars, ~Start
  PROVE  UNCHANGED startupVars /\ NothingBeforeServing'
<1> USE DEF NothingBeforeServing, Pending, Streaming
<1>1. ASSUME NEW t \in Turns, Request(t)
      PROVE  UNCHANGED startupVars /\ NothingBeforeServing'
  <2>1. UNCHANGED startupVars /\ UNCHANGED held
    BY <1>1 DEF Request, Unauthorised, NotAllowed, Checked, Issued, NotIssued, RecordUnreadable,
      PromptUnreadable, Busy, Started, Reject, Proceed, admissionVars, Reserve
  <2>2. phase = "serving"
    <3>1. CASE Arrives(t)
      BY <3>1 DEF Arrives
    <3>2. CASE place[t] \in {"resume", "prompt"}
      BY <3>2 DEF StartInv
    <3> QED
      BY <1>1, <3>1, <3>2 DEF Request, Unauthorised, NotAllowed, Checked, Issued, NotIssued,
        RecordUnreadable, PromptUnreadable, Busy, Started
  <2> QED
    BY <2>1, <2>2 DEF startupVars
<1>2. ASSUME NEW S \in SUBSET Turns, Leave(S)
      PROVE  UNCHANGED startupVars /\ NothingBeforeServing'
  <2>1. /\ UNCHANGED startupVars /\ held' = held
        /\ \A t \in Turns : place'[t] = place[t] \/ place'[t] = "idle"
    BY <1>2 DEF Leave, Release
  <2> QED
    BY <2>1 DEF StartInv, startupVars
<1>3. ASSUME NEW k \in Keys, Delete(k)
      PROVE  UNCHANGED startupVars /\ NothingBeforeServing'
  BY <1>3 DEF Delete, startupVars
<1>4. CASE UNCHANGED serviceVars
  BY <1>4 DEF serviceVars, startupVars, admissionVars, StartInv
<1>5. \A t \in Turns : {t} \in SUBSET Turns
  OBVIOUS
<1> QED
  BY <1>1, <1>2, <1>3, <1>4, <1>5 DEF ServiceNext

LEMMA StartInvariant == ServiceSpec => [](ServiceInv /\ StartInv)
<1>1. ServiceInit => StartInv
  BY DEF ServiceInit, StartupInit, AdmissionInit, StartInv, Phases, LoginIsWatched,
    NothingBeforeServing, Pending, Streaming
<1>2. ASSUME ServiceInv, StartInv, [ServiceNext]_serviceVars PROVE StartInv'
  <2>1. CASE Start
    <3>1. StartupNext /\ UNCHANGED <<held, place>>
      BY <2>1 DEF Start, admissionVars
    <3>2. NothingBeforeServing'
      BY <1>2, <3>1, StartupMoves DEF StartInv, NothingBeforeServing, Pending, Streaming
    <3> QED
      BY <1>2, <3>1, <3>2, StartupMoves DEF StartInv
  <2>2. CASE ~Start
    BY <1>2, <2>2, ServiceLeavesStartup DEF StartInv, startupVars, LoginIsWatched
  <2> QED
    BY <2>1, <2>2
<1> QED
  BY <1>1, <1>2, ServiceInvariant, PTL DEF ServiceSpec

\* The safe half of StartupEnds: whatever start-up comes to, `codex login` is not left
\* running, also if it hangs and ignores SIGTERM.
THEOREM NoLoginIsLeft == ServiceSpec => []LoginIsWatched
<1>1. StartInv => LoginIsWatched
  BY DEF StartInv
<1> QED
  BY <1>1, StartInvariant, PTL

\* Start-up takes at most five steps.
THEOREM StartupIsOneWay == ServiceSpec => StartupAdvances
<1>1. ASSUME ServiceInv, StartInv, [ServiceNext]_serviceVars
      PROVE  [phase' # phase => StepsLeft(phase') < StepsLeft(phase)]_startupVars
  <2>1. CASE Start
    BY <1>1, <2>1, StartupMoves DEF Start
  <2>2. CASE ~Start
    BY <1>1, <2>2, ServiceLeavesStartup
  <2> QED
    BY <2>1, <2>2
<1> QED
  BY <1>1, StartInvariant, PTL DEF ServiceSpec, StartupAdvances

\* No request is let in, and no session deleted, before the server has started.
THEOREM NothingIsServedEarly == ServiceSpec => []NothingBeforeServing
<1>1. StartInv => NothingBeforeServing
  BY DEF StartInv
<1> QED
  BY <1>1, StartInvariant, PTL

-----------------------------------------------------------------------------
\* The route uses the registry only as Admission says its callers do.
THEOREM ServiceImplementsAdmission == ServiceSpec => AdmissionSpec
<1>1. ServiceInit => AdmissionInit
  BY DEF ServiceInit
<1>2. [ServiceNext]_serviceVars => [AdmissionNext]_admissionVars
  <2> SUFFICES ASSUME [ServiceNext]_serviceVars PROVE [AdmissionNext]_admissionVars
    OBVIOUS
  <2>1. CASE Start \/ UNCHANGED serviceVars
    BY <2>1 DEF Start, serviceVars
  <2>2. ASSUME NEW t \in Turns, Request(t)
        PROVE  [AdmissionNext]_admissionVars
    <3>1. CASE Started(t)
      BY <3>1 DEF Started, AdmissionNext
    <3>2. CASE ~Started(t)
      BY <2>2, <3>2 DEF Request, Unauthorised, NotAllowed, Checked, Issued, NotIssued,
        RecordUnreadable, PromptUnreadable, Busy, Reject, Proceed
    <3> QED
      BY <3>1, <3>2
  <2>3. CASE \E S \in SUBSET Streaming : Leave(S)
    BY <2>3 DEF Leave, AdmissionNext, Streaming
  <2>4. CASE \E t \in Turns \ (Pending \cup Streaming) : Leave({t})
    <3>1. PICK t \in Turns : Release({t})
      BY <2>4 DEF Leave
    <3>2. {t} \in SUBSET Turns
      OBVIOUS
    <3> QED
      BY <3>1, <3>2 DEF AdmissionNext
  <2>5. CASE \E k \in Keys : Delete(k)
    BY <2>5 DEF Delete, AdmissionNext
  <2> QED
    BY <2>1, <2>2, <2>3, <2>4, <2>5 DEF ServiceNext
<1> QED
  BY <1>1, <1>2, PTL DEF ServiceSpec, AdmissionSpec

\* So turns that came through the route, with its two awaits between the checks and the
\* reservation, keep the promise of TurnLimits.
THEOREM ServiceIsWithinLimits == ServiceSpec => []Limits!WithinLimits
BY ServiceImplementsAdmission, RegistryIsWithinLimits, PTL
=============================================================================

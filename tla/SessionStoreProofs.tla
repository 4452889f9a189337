------------------------- MODULE SessionStoreProofs -------------------------
(***************************************************************************)
(* For every set of turns, keys and ids, and for both providers: first the *)
(* isolation of sessionKeys (no key continues a session of another one,    *)
(* and no DELETE takes another key's files), then what a DELETE leaves.    *)
(*                                                                         *)
(* Isolation is not inductive.  Whatever a key has recorded, stored or is  *)
(* about to delete was issued to it (Owned), and what is issued to a key   *)
(* comes, by resumes, from ids that the CLI made for its own turns         *)
(* (Descent): two keys never share an id.                                  *)
(***************************************************************************)
EXTENDS SessionStore, AdmissionProofs

Types ==
  /\ place \in [Turns -> Places]
  /\ session \in [Turns -> Ids \cup {NoId}]
  /\ writer \in [Turns -> {"none", "reading", "appending"}]
  /\ workspace \in [Keys -> BOOLEAN]
  /\ record \in [Keys -> SUBSET Ids]
  /\ stored \in [Keys -> SUBSET Ids]
  /\ deletion \in [Keys -> {"none", "listing", "transcripts", "workspace", "record"}]
  /\ doomed \in [Keys -> SUBSET Ids]
  /\ issued \in [Keys -> SUBSET Ids]
  /\ held = {k \in Keys : deletion[k] # "none"}

\* The CLI of a turn that is under way, or whose id is being recorded, runs a session
\* of the turn's key.
RunsOwn ==
  \A t \in Turns :
    (place[t] \in {"running", "recording", "known"} \/ writer[t] # "none") =>
      session[t] \in issued[Key(t)]

Owned ==
  \A k \in Keys :
    record[k] \subseteq issued[k] /\ stored[k] \subseteq issued[k] /\ doomed[k] \subseteq issued[k]

Descent == \A k \in Keys : \A i \in issued[k] : \E t \in TurnsOf(k) : i = NewId[t]

OwnInv == Types /\ RunsOwn /\ Owned /\ Descent /\ ResumeIsOwn

-----------------------------------------------------------------------------
\* What a DELETE finds was issued to its key.
LEMMA FoundIsOwn ==
  ASSUME OwnInv, NEW k \in Keys
  PROVE  Findable(k) \subseteq issued[k]
BY DEF OwnInv, Owned, Findable

\* No id is issued to two keys.
LEMMA IdsHaveOneKey ==
  ASSUME OwnInv, NEW k \in Keys, NEW l \in Keys, NEW i \in issued[k] \cap issued[l]
  PROVE  k = l
BY StoreAssumption DEF OwnInv, Descent, TurnsOf

\* A turn that passes the check resumes a session of its key.
LEMMA CheckedIsOwn ==
  ASSUME OwnInv, NEW t \in Turns, MayResume(t), Resume[t] # NoId
  PROVE  Resume[t] \in issued[Key(t)]
BY AdmissionAssumption DEF OwnInv, Owned, MayResume, IssuedTo, Key

-----------------------------------------------------------------------------
LEMMA OwnInitially == StoreInit => OwnInv
BY DEF StoreInit, AdmissionInit, OwnInv, Types, Places, RunsOwn, Owned, Descent, ResumeIsOwn

\* Steps of a request or a turn that leave ids and files alone.
LEMMA TurnOwnsNothingNew ==
  ASSUME OwnInv, NEW t \in Turns,
         \/ PreflightRejects(t) \/ Start(t) \/ Busy(t) \/ RecordingEnds(t)
         \/ TurnEnds(t) \/ StopInWorkspace(t) \/ StopInRecording(t) \/ MakeWorkspace(t)
         \/ ReadRecord(t) \/ RecordingFails(t)
  PROVE  OwnInv'
<1> USE AdmissionAssumption, StoreAssumption
<1>1. CASE PreflightRejects(t)
  BY <1>1 DEF OwnInv, Types, Places, RunsOwn, Owned, Descent, ResumeIsOwn, Key, TurnsOf,
     PreflightRejects, threadVars, fileVars, deleteVars, storeHistory, admissionVars
<1>2. CASE Start(t)
  BY <1>2 DEF OwnInv, Types, Places, RunsOwn, Owned, Descent, ResumeIsOwn, Key, TurnsOf,
     Start, Reserve, fileVars, deleteVars
<1>3. CASE Busy(t)
  BY <1>3 DEF OwnInv, Types, Places, RunsOwn, Owned, Descent, ResumeIsOwn, Key, TurnsOf,
     Busy, threadVars, fileVars, deleteVars, storeHistory, admissionVars
<1>4. CASE RecordingEnds(t)
  BY <1>4 DEF OwnInv, Types, Places, RunsOwn, Owned, Descent, ResumeIsOwn, Key, TurnsOf,
     RecordingEnds, threadVars, fileVars, deleteVars, storeHistory, admissionVars
<1>5. CASE TurnEnds(t)
  BY <1>5 DEF OwnInv, Types, Places, RunsOwn, Owned, Descent, ResumeIsOwn, Key, TurnsOf,
     TurnEnds, Release, threadVars, fileVars, deleteVars
<1>6. CASE StopInWorkspace(t)
  BY <1>6 DEF OwnInv, Types, Places, RunsOwn, Owned, Descent, ResumeIsOwn, Key, TurnsOf,
     StopInWorkspace, Release, fileVars, deleteVars, storeHistory
<1>7. CASE StopInRecording(t)
  BY <1>7 DEF OwnInv, Types, Places, RunsOwn, Owned, Descent, ResumeIsOwn, Key, TurnsOf,
     StopInRecording, Release, fileVars, deleteVars
<1>8. CASE MakeWorkspace(t)
  BY <1>8 DEF OwnInv, Types, Places, RunsOwn, Owned, Descent, ResumeIsOwn, Key, TurnsOf,
     MakeWorkspace, requestVars, deleteVars, admissionVars
<1>9. CASE ReadRecord(t)
  BY <1>9 DEF OwnInv, Types, Places, RunsOwn, Owned, Descent, ResumeIsOwn, Key, TurnsOf,
     ReadRecord, requestVars, fileVars, deleteVars, storeHistory, admissionVars
<1>10. CASE RecordingFails(t)
  BY <1>10 DEF OwnInv, Types, Places, RunsOwn, Owned, Descent, ResumeIsOwn, Key, TurnsOf,
     RecordingFails, requestVars, fileVars, deleteVars, admissionVars
<1> QED
  BY <1>1, <1>2, <1>3, <1>4, <1>5, <1>6, <1>7, <1>8, <1>9, <1>10

LEMMA PreflightKeepsOwn ==
  ASSUME OwnInv, NEW t \in Turns, PreflightPasses(t)
  PROVE  OwnInv'
<1>1. Resume[t] # NoId => Resume[t] \in issued[Key(t)]
  BY CheckedIsOwn DEF PreflightPasses
<1> QED
  BY <1>1, AdmissionAssumption DEF OwnInv, Types, Places, RunsOwn, Owned, Descent,
     ResumeIsOwn, Key, TurnsOf, PreflightPasses, threadVars, fileVars, deleteVars,
     storeHistory, admissionVars

LEMMA RecordingKeepsOwn ==
  ASSUME OwnInv, NEW t \in Turns, RecordingBegins(t) \/ AppendRecord(t)
  PROVE  OwnInv'
<1> USE AdmissionAssumption
<1>1. CASE RecordingBegins(t)
  BY <1>1 DEF OwnInv, Types, Places, RunsOwn, Owned, Descent, ResumeIsOwn, Key, TurnsOf,
     RecordingBegins, fileVars, deleteVars, storeHistory, admissionVars
<1>2. CASE AppendRecord(t)
  <2>1. session[t] \in issued[Key(t)] /\ Key(t) \in Keys
    BY <1>2 DEF OwnInv, RunsOwn, AppendRecord, Key
  <2> QED
    BY <1>2, <2>1 DEF OwnInv, Types, Places, RunsOwn, Owned, Descent, ResumeIsOwn, Key,
       TurnsOf, AppendRecord, requestVars, deleteVars, storeHistory, admissionVars
<1> QED
  BY <1>1, <1>2

\* The one step that issues an id: a new one, which no other turn's is, or the resumed
\* one, which is the key's already.
LEMMA CliStartKeepsOwn ==
  ASSUME OwnInv, NEW t \in Turns, CliStarts(t)
  PROVE  OwnInv'
<1> USE AdmissionAssumption, StoreAssumption
<1>1. PICK i \in {NewId[t], Resume[t]} \ {NoId} :
        /\ session' = [session EXCEPT ![t] = i]
        /\ stored' = [stored EXCEPT ![Key(t)] = @ \cup {i}]
        /\ issued' = [issued EXCEPT ![Key(t)] = @ \cup {i}]
  BY DEF CliStarts
<1>2. /\ place[t] = "workspace"
      /\ place' = [place EXCEPT ![t] = "running"]
      /\ UNCHANGED <<writer, workspace, record, deletion, doomed, held>>
  BY DEF CliStarts, threadVars, deleteVars, admissionVars
<1>3. i \in Ids /\ Key(t) \in Keys
  BY DEF Key
<1>4. i = NewId[t] \/ i \in issued[Key(t)]
  BY <1>1, <1>2 DEF OwnInv, ResumeIsOwn
<1>5. Types'
  BY <1>1, <1>2, <1>3 DEF OwnInv, Types, Places
<1>6. \A k \in Keys : issued[k] \subseteq issued'[k]
  BY <1>1, <1>3 DEF OwnInv, Types
<1>7. RunsOwn'
  BY <1>1, <1>2, <1>3, <1>6 DEF OwnInv, Types, RunsOwn, Key
<1>8. Owned'
  BY <1>1, <1>2, <1>3 DEF OwnInv, Types, Owned
<1>9. Descent'
  <2>1. SUFFICES ASSUME NEW k \in Keys, NEW j \in issued'[k]
                 PROVE  \E u \in TurnsOf(k) : j = NewId[u]
    BY DEF Descent, TurnsOf
  <2>2. CASE j \in issued[k]
    BY <2>2 DEF OwnInv, Descent
  <2>3. CASE j \notin issued[k]
    <3>1. k = Key(t) /\ j = i
      BY <1>1, <1>3, <2>3 DEF OwnInv, Types
    <3> QED
      BY <1>4, <2>3, <3>1 DEF Key, TurnsOf
  <2> QED
    BY <2>2, <2>3
<1>10. ResumeIsOwn'
  BY <1>2, <1>3, <1>6 DEF OwnInv, Types, ResumeIsOwn, Key
<1> QED
  BY <1>5, <1>7, <1>8, <1>9, <1>10 DEF OwnInv

LEMMA DeleteKeepsOwn ==
  ASSUME OwnInv, NEW k \in Keys, DeleteSteps(k)
  PROVE  OwnInv'
<1>1. CASE DeleteBegins(k)
  BY <1>1 DEF OwnInv, Types, RunsOwn, Owned, Descent, ResumeIsOwn, Key, TurnsOf,
     DeleteBegins, Hold, requestVars, threadVars, fileVars, storeHistory
<1>2. CASE DeleteLists(k)
  <2>1. Findable(k) \subseteq issued[k]
    BY FoundIsOwn
  <2> QED
    BY <1>2, <2>1 DEF OwnInv, Types, RunsOwn, Owned, Descent, ResumeIsOwn, Key, TurnsOf,
       DeleteLists, Stages, requestVars, threadVars, fileVars, storeHistory, admissionVars
<1>3. CASE DeleteFails(k)
  BY <1>3 DEF OwnInv, Types, RunsOwn, Owned, Descent, ResumeIsOwn, Key, TurnsOf,
     DeleteFails, Unhold, requestVars, threadVars, storeHistory
<1>4. ASSUME NEW n \in 1..3, Remove(k, n)
      PROVE  OwnInv'
  <2>1. UNCHANGED <<place, session, writer, issued>>
    BY <1>4 DEF Remove, requestVars, threadVars
  <2>2. Types'
    <3>1. CASE n = 3
      BY <1>4, <2>1, <3>1 DEF OwnInv, Types, Remove, Stages, Unhold
    <3>2. CASE n # 3
      <4>1. n = 1 \/ n = 2
        BY <3>2
      <4> QED
        BY <1>4, <2>1, <4>1 DEF OwnInv, Types, Remove, Stages, admissionVars
    <3> QED
      BY <3>1, <3>2
  <2>3. \A l \in Keys : /\ record'[l] \subseteq record[l] /\ stored'[l] \subseteq stored[l]
                        /\ doomed'[l] \subseteq doomed[l]
    BY <1>4 DEF OwnInv, Types, Remove
  <2> QED
    BY <2>1, <2>2, <2>3 DEF OwnInv, RunsOwn, Owned, Descent, ResumeIsOwn, Key, TurnsOf
<1> QED
  BY <1>1, <1>2, <1>3, <1>4 DEF DeleteSteps

LEMMA OwnInductive == OwnInv /\ [StoreNext]_storeVars => OwnInv'
<1> SUFFICES ASSUME OwnInv, [StoreNext]_storeVars PROVE OwnInv'
  OBVIOUS
<1>1. ASSUME NEW t \in Turns, TurnSteps(t) PROVE OwnInv'
  BY <1>1, TurnOwnsNothingNew, PreflightKeepsOwn, RecordingKeepsOwn, CliStartKeepsOwn
     DEF TurnSteps
<1>2. ASSUME NEW k \in Keys, DeleteSteps(k) PROVE OwnInv'
  BY <1>2, DeleteKeepsOwn
<1>3. CASE UNCHANGED storeVars
  BY <1>3 DEF OwnInv, Types, RunsOwn, Owned, Descent, ResumeIsOwn, Key, TurnsOf, storeVars,
     requestVars, threadVars, fileVars, deleteVars, storeHistory, admissionVars
<1> QED
  BY <1>1, <1>2, <1>3 DEF StoreNext

LEMMA OwnInvariant == StoreSpec => []OwnInv
BY OwnInitially, OwnInductive, PTL DEF StoreSpec

-----------------------------------------------------------------------------
\* No sessionKey continues the conversation of another, whatever DELETEs, stops and
\* left-over threads do around the check.
THEOREM KeysAreIsolated == StoreSpec => []ResumeIsOwn
<1>1. OwnInv => ResumeIsOwn
  BY DEF OwnInv
<1> QED
  BY <1>1, OwnInvariant, PTL

\* No session is of two keys, for every choice of resumes and however many turns fork them.
THEOREM SessionsHaveOneKey == StoreSpec => []KeysShareNothing
<1>1. OwnInv => KeysShareNothing
  BY IdsHaveOneKey DEF OwnInv, Owned, KeysShareNothing
<1> QED
  BY <1>1, OwnInvariant, PTL

LEMMA StepSparesOthers ==
  ASSUME OwnInv, StoreNext, NEW k \in Keys, k \notin held
  PROVE  /\ stored[k] \subseteq stored'[k] /\ record[k] \subseteq record'[k]
         /\ workspace[k] => workspace'[k]
<1> USE AdmissionAssumption
<1>1. ASSUME NEW t \in Turns, TurnSteps(t)
      PROVE  /\ stored[k] \subseteq stored'[k] /\ record[k] \subseteq record'[k]
             /\ workspace[k] => workspace'[k]
  BY <1>1 DEF OwnInv, Types, Key, TurnSteps, PreflightPasses, PreflightRejects, Start, Busy,
     CliStarts, RecordingBegins, RecordingEnds, TurnEnds, StopInWorkspace, StopInRecording,
     MakeWorkspace, ReadRecord, AppendRecord, RecordingFails, fileVars
<1>2. ASSUME NEW l \in Keys, DeleteSteps(l)
      PROVE  /\ stored[k] \subseteq stored'[k] /\ record[k] \subseteq record'[k]
             /\ workspace[k] => workspace'[k]
  <2>1. doomed[l] \cap stored[k] = {} \/ k = l
    BY IdsHaveOneKey DEF OwnInv, Owned
  <2>2. CASE DeleteBegins(l) \/ DeleteLists(l)
    BY <2>2 DEF DeleteBegins, DeleteLists, fileVars
  <2>3. CASE DeleteFails(l)
    <3>1. k # l
      BY <2>3 DEF OwnInv, Types, DeleteFails
    <3> QED
      BY <2>1, <2>3, <3>1 DEF OwnInv, Types, DeleteFails
  <2>4. ASSUME NEW n \in 1..3, Remove(l, n)
        PROVE  /\ stored[k] \subseteq stored'[k] /\ record[k] \subseteq record'[k]
               /\ workspace[k] => workspace'[k]
    <3>1. Stages[n] # "none"
      BY DEF Stages
    <3>2. k # l
      BY <2>4, <3>1 DEF OwnInv, Types, Remove
    <3> QED
      BY <2>1, <2>4, <3>2 DEF OwnInv, Types, Remove
  <2> QED
    BY <1>2, <2>2, <2>3, <2>4 DEF DeleteSteps
<1> QED
  BY <1>1, <1>2 DEF StoreNext

\* A DELETE takes nothing of another key, and nothing else takes anything at all.
THEOREM OnlyDeletionRemoves == StoreSpec => DeletionSparesOthers
<1>1. ASSUME OwnInv, [StoreNext]_storeVars
      PROVE  [\A k \in Keys :
                \/ k \in held
                \/ /\ stored[k] \subseteq stored'[k] /\ record[k] \subseteq record'[k]
                   /\ workspace[k] => workspace'[k]]_storeVars
  BY <1>1, StepSparesOthers
<1> QED
  BY <1>1, OwnInvariant, PTL DEF StoreSpec, DeletionSparesOthers

-----------------------------------------------------------------------------
(* Turns and deletions exclude each other *)

ActivePlaces == {"workspace", "running", "recording", "known"}
ActiveTurns == {t \in Turns : place[t] \in ActivePlaces}

\* The types OwnInv does not need.
MoreTypes ==
  /\ provider \in {"claude", "codex"}
  /\ makers \subseteq Turns /\ late \subseteq Turns
  /\ lost \subseteq Ids /\ unrecorded \subseteq Ids
  /\ clean \subseteq Keys

ReservedInv == AdmissionInv /\ RegisteredTurns = ActiveTurns /\ MoreTypes

LEMMA ReservedInitially == StoreInit => ReservedInv
<1> SUFFICES ASSUME StoreInit PROVE ReservedInv
  OBVIOUS
<1>1. AdmissionInv
  BY AdmissionInvInit DEF StoreInit
<1> QED
  BY <1>1, AdmissionAssumption DEF StoreInit, AdmissionInit, ReservedInv, MoreTypes,
     ActiveTurns, ActivePlaces, RegisteredTurns, Registered

\* A step lets one turn in, or lets one go, or begins or ends a deletion, or leaves
\* the registry as it is.
StoreStep ==
  \/ \E t \in Turns : Reserve(t) /\ ActiveTurns' = ActiveTurns \cup {t}
  \/ \E t \in Turns : Release({t}) /\ ActiveTurns' = ActiveTurns \ {t}
  \/ \E k \in Keys : (Hold(k) \/ Unhold(k)) /\ ActiveTurns' = ActiveTurns
  \/ UNCHANGED admissionVars /\ ActiveTurns' = ActiveTurns

LEMMA StoreStepKinds ==
  ASSUME OwnInv, [StoreNext]_storeVars
  PROVE  StoreStep
<1> USE DEF OwnInv, Types, StoreStep, ActiveTurns, ActivePlaces, Places
<1>1. ASSUME NEW t \in Turns, TurnSteps(t) PROVE StoreStep
  <2>1. CASE PreflightPasses(t) \/ PreflightRejects(t) \/ Busy(t)
    BY <2>1 DEF PreflightPasses, PreflightRejects, Busy
  <2>2. CASE Start(t)
    BY <2>2 DEF Start
  <2>3. CASE CliStarts(t) \/ RecordingBegins(t) \/ RecordingEnds(t)
    BY <2>3 DEF CliStarts, RecordingBegins, RecordingEnds
  <2>4. CASE TurnEnds(t) \/ StopInWorkspace(t) \/ StopInRecording(t)
    BY <2>4 DEF TurnEnds, StopInWorkspace, StopInRecording
  <2>5. CASE MakeWorkspace(t) \/ ReadRecord(t) \/ AppendRecord(t) \/ RecordingFails(t)
    BY <2>5 DEF MakeWorkspace, ReadRecord, AppendRecord, RecordingFails, requestVars
  <2> QED
    BY <1>1, <2>1, <2>2, <2>3, <2>4, <2>5 DEF TurnSteps
<1>2. ASSUME NEW k \in Keys, DeleteSteps(k) PROVE StoreStep
  BY <1>2 DEF DeleteSteps, DeleteBegins, DeleteLists, DeleteFails, Remove, requestVars
<1>3. CASE UNCHANGED storeVars
  BY <1>3 DEF storeVars, requestVars
<1> QED
  BY <1>1, <1>2, <1>3 DEF StoreNext

\* Session turns and deletions use the registry as Admission says anyone may: what holds
\* of the registry holds of it here.
THEOREM StoreImplementsAdmission == StoreSpec => AdmissionSpec
<1>1. StoreInit => AdmissionInit
  BY DEF StoreInit
<1>2. ASSUME OwnInv, [StoreNext]_storeVars PROVE [AdmissionNext]_admissionVars
  <2>1. StoreStep
    BY <1>2, StoreStepKinds
  <2>2. \A t \in Turns : {t} \in SUBSET Turns
    OBVIOUS
  <2> QED
    BY <2>1, <2>2 DEF StoreStep, AdmissionNext
<1> QED
  BY <1>1, <1>2, OwnInvariant, PTL DEF StoreSpec, AdmissionSpec

\* While records are read, threads go on and deletions run, no two turns share a key or a
\* user, they are at most MAX_CONCURRENT, and none is on a key that is being deleted.
THEOREM StoreIsWithinLimits == StoreSpec => []Limits!WithinLimits
BY StoreImplementsAdmission, RegistryIsWithinLimits, PTL

LEMMA MoreTypesKept ==
  ASSUME OwnInv, MoreTypes, [StoreNext]_storeVars
  PROVE  MoreTypes'
<1>0. UNCHANGED provider
  BY DEF StoreNext, storeVars
<1> USE <1>0, AdmissionAssumption DEF OwnInv, Types, MoreTypes
<1>1. ASSUME NEW t \in Turns, TurnSteps(t) PROVE MoreTypes'
  <2>1. writer[t] # "none" => session[t] \in Ids
    BY DEF RunsOwn, Key
  <2>2. place[t] \in {"running", "recording", "known"} => session[t] \in Ids
    BY DEF RunsOwn, Key
  <2>3. CASE PreflightPasses(t) \/ PreflightRejects(t) \/ Busy(t) \/ Start(t)
    BY <2>3 DEF PreflightPasses, PreflightRejects, Busy, Start, threadVars, storeHistory
  <2>4. CASE CliStarts(t) \/ RecordingBegins(t) \/ RecordingEnds(t)
    BY <2>4 DEF CliStarts, RecordingBegins, RecordingEnds, threadVars, storeHistory
  <2>5. CASE TurnEnds(t)
    BY <2>2, <2>5 DEF TurnEnds, threadVars
  <2>6. CASE StopInWorkspace(t) \/ StopInRecording(t)
    BY <2>2, <2>6 DEF StopInWorkspace, StopInRecording, storeHistory
  <2>7. CASE MakeWorkspace(t) \/ ReadRecord(t) \/ AppendRecord(t)
    BY <2>7 DEF MakeWorkspace, ReadRecord, AppendRecord, storeHistory
  <2>8. CASE RecordingFails(t)
    BY <2>1, <2>8 DEF RecordingFails, Recording
  <2> QED
    BY <1>1, <2>3, <2>4, <2>5, <2>6, <2>7, <2>8 DEF TurnSteps
<1>2. ASSUME NEW k \in Keys, DeleteSteps(k) PROVE MoreTypes'
  BY <1>2 DEF DeleteSteps, DeleteBegins, DeleteLists, DeleteFails, Remove, threadVars,
     storeHistory
<1>3. CASE UNCHANGED storeVars
  BY <1>3 DEF storeVars, threadVars, storeHistory
<1> QED
  BY <1>1, <1>2, <1>3 DEF StoreNext

LEMMA ReservedInductive ==
  OwnInv /\ ReservedInv /\ [StoreNext]_storeVars => ReservedInv'
<1> SUFFICES ASSUME OwnInv, ReservedInv, [StoreNext]_storeVars PROVE ReservedInv'
  OBVIOUS
<1>1. AdmissionTypeOK /\ MoreTypes'
  BY MoreTypesKept DEF ReservedInv, AdmissionInv
<1>2. ASSUME NEW t \in Turns, Reserve(t), ActiveTurns' = ActiveTurns \cup {t}
      PROVE  ReservedInv'
  BY <1>1, <1>2, ReserveKeepsInv, ReserveRegisters DEF ReservedInv
<1>3. ASSUME NEW t \in Turns, Release({t}), ActiveTurns' = ActiveTurns \ {t}
      PROVE  ReservedInv'
  BY <1>1, <1>3, ReleaseKeepsInv, ReleaseUnregisters DEF ReservedInv
<1>4. ASSUME NEW k \in Keys, Hold(k) \/ Unhold(k), ActiveTurns' = ActiveTurns
      PROVE  ReservedInv'
  <2>1. RegisteredTurns' = RegisteredTurns
    BY <1>4 DEF Hold, Unhold, RegisteredTurns, Registered
  <2> QED
    BY <1>1, <1>4, <2>1, HoldKeepsInv DEF ReservedInv
<1>5. ASSUME UNCHANGED admissionVars, ActiveTurns' = ActiveTurns
      PROVE  ReservedInv'
  <2>1. AdmissionInv'
    BY <1>5, AdmissionInvNext DEF ReservedInv
  <2> QED
    BY <1>1, <1>5, <2>1 DEF ReservedInv, admissionVars, RegisteredTurns, Registered
<1> QED
  BY <1>2, <1>3, <1>4, <1>5, StoreStepKinds DEF StoreStep

LEMMA ReservedInvariant == StoreSpec => [](OwnInv /\ ReservedInv)
BY OwnInitially, ReservedInitially, OwnInductive, ReservedInductive, PTL DEF StoreSpec

\* Types, the key held for the time of its deletion, and the reservation held from the
\* start of a turn to its end.
THEOREM StoreTypeCorrect == StoreSpec => []StoreTypeOK
<1>1. OwnInv /\ ReservedInv => StoreTypeOK
  BY DEF OwnInv, Types, ReservedInv, AdmissionInv, MoreTypes, ActiveTurns, ActivePlaces,
     StoreTypeOK
<1> QED
  BY <1>1, ReservedInvariant, PTL

-----------------------------------------------------------------------------
(***************************************************************************)
(* What a DELETE can find, and what is left after one.                     *)
(*                                                                         *)
(* The id of a stored transcript is followed from the CLI to the record:   *)
(* its turn is under way, or the id is recorded, or lost, or could not be  *)
(* recorded (Traced, WriterInv).  A deletion is followed stage by stage    *)
(* (Progress): nothing is added to a key under deletion but by threads of  *)
(* turns that have ended, and what those add is the business of `lost`     *)
(* and `late`.                                                             *)
(***************************************************************************)

Unsettled == {"running", "recording"}

Traced ==
  \A k \in Keys : \A i \in stored[k] :
    \/ i \in record[k] \cup lost \cup unrecorded
    \/ \E t \in TurnsOf(k) : session[t] = i /\ place[t] \in Unsettled

WriterInv ==
  \A t \in Turns :
    /\ place[t] = "recording" /\ writer[t] = "none" =>
         session[t] \in record[Key(t)] \cup unrecorded
    /\ writer[t] # "none" =>
         place[t] = "recording" \/ (place[t] = "over" /\ session[t] \in lost)
    /\ t \in makers => place[t] \in {"workspace", "over"}

\* What a successful DELETE may leave behind.
Left == IF provider = "claude" THEN {} ELSE lost \cup unrecorded

MadeLate(k) == workspace[k] => \E t \in TurnsOf(k) : t \in late

Progress ==
  \A k \in Keys :
    /\ deletion[k] = "transcripts" => stored[k] \subseteq doomed[k] \cup Left
    /\ deletion[k] \in {"workspace", "record"} => stored[k] \subseteq Left
    /\ deletion[k] = "record" => MadeLate(k)

\* No turn of the key is under way.
Quiet(k) == \A t \in TurnsOf(k) : place[t] \notin ActivePlaces

CleanInv ==
  \A k \in clean :
    /\ Quiet(k)
    /\ stored[k] \subseteq Left
    /\ record[k] \subseteq lost
    /\ MadeLate(k)

KeepInv == Traced /\ WriterInv /\ Progress /\ CleanInv

Basis == OwnInv /\ ReservedInv

-----------------------------------------------------------------------------
\* While no turn holds a key, none is under way on it; so it is under a deletion.
LEMMA FreeIsQuiet ==
  ASSUME Basis, NEW k \in Keys, bySession[k] = NoTurn
  PROVE  Quiet(k)
BY AdmissionAssumption DEF Basis, ReservedInv, ActiveTurns, RegisteredTurns, Registered,
   Quiet, TurnsOf

LEMMA HeldIsQuiet ==
  ASSUME Basis, NEW k \in Keys, deletion[k] # "none"
  PROVE  Quiet(k)
BY FreeIsQuiet DEF Basis, OwnInv, Types, ReservedInv, AdmissionInv, DeletionExcludesTurns

LEMMA KeepInitially == StoreInit => KeepInv
BY DEF StoreInit, AdmissionInit, KeepInv, Traced, WriterInv, Progress, CleanInv

\* Steps of a turn that touch none of the files, and end no turn.
LEMMA QuietTurnSteps ==
  ASSUME Basis, KeepInv, UNCHANGED provider, NEW t \in Turns,
         PreflightPasses(t) \/ PreflightRejects(t) \/ Busy(t) \/ RecordingBegins(t)
  PROVE  KeepInv'
<1> USE AdmissionAssumption
<1>1. UNCHANGED <<session, makers, workspace, record, stored, deletion, doomed, lost,
                  unrecorded, late, clean>>
  BY DEF PreflightPasses, PreflightRejects, Busy, RecordingBegins, threadVars, fileVars,
     deleteVars, storeHistory
<1>2. \A u \in Turns : /\ place'[u] \in ActivePlaces <=> place[u] \in ActivePlaces
                       /\ place[u] \in Unsettled <=> place'[u] \in Unsettled
  BY DEF Basis, OwnInv, Types, ActivePlaces, Unsettled, PreflightPasses, PreflightRejects,
     Busy, RecordingBegins
<1>3. Traced'
  BY <1>1, <1>2 DEF KeepInv, Traced, TurnsOf
<1>4. WriterInv'
  BY <1>1 DEF Basis, OwnInv, Types, KeepInv, WriterInv, Key, PreflightPasses,
     PreflightRejects, Busy, RecordingBegins, threadVars
<1>5. Progress'
  BY <1>1 DEF KeepInv, Progress, Left, MadeLate, TurnsOf
<1>6. CleanInv'
  BY <1>1, <1>2 DEF KeepInv, CleanInv, Left, MadeLate, Quiet, TurnsOf
<1> QED
  BY <1>3, <1>4, <1>5, <1>6 DEF KeepInv

\* A turn that starts takes its key out of `clean`.
LEMMA StartKeeps ==
  ASSUME Basis, KeepInv, UNCHANGED provider, NEW t \in Turns, Start(t)
  PROVE  KeepInv'
<1> USE AdmissionAssumption
<1>1. /\ UNCHANGED <<session, writer, workspace, record, stored, deletion, doomed, lost,
                     unrecorded, late>>
      /\ place[t] = "checked" /\ place' = [place EXCEPT ![t] = "workspace"]
      /\ makers' = makers \cup {t} /\ clean' = clean \ {Key(t)}
  BY DEF Start, fileVars, deleteVars
<1>2. Traced'
  BY <1>1 DEF Basis, OwnInv, Types, KeepInv, Traced, TurnsOf, Unsettled
<1>3. WriterInv'
  BY <1>1 DEF Basis, OwnInv, Types, KeepInv, WriterInv, Key
<1>4. Progress'
  BY <1>1 DEF KeepInv, Progress, Left, MadeLate, TurnsOf
<1>5. CleanInv'
  BY <1>1 DEF Basis, OwnInv, Types, KeepInv, CleanInv, Left, MadeLate, Quiet, TurnsOf, Key
<1> QED
  BY <1>2, <1>3, <1>4, <1>5 DEF KeepInv

\* The CLI stores a session whose turn is under way, on a key that is neither clean nor
\* under deletion.
LEMMA CliStartKeeps ==
  ASSUME Basis, KeepInv, UNCHANGED provider, NEW t \in Turns, CliStarts(t)
  PROVE  KeepInv'
<1> USE AdmissionAssumption, StoreAssumption
<1>1. PICK i \in Ids :
        /\ session' = [session EXCEPT ![t] = i]
        /\ stored' = [stored EXCEPT ![Key(t)] = @ \cup {i}]
  BY DEF CliStarts
<1>2. /\ UNCHANGED <<makers, writer, workspace, record, deletion, doomed, lost, unrecorded,
                     late, clean>>
      /\ place[t] = "workspace" /\ t \notin makers
      /\ place' = [place EXCEPT ![t] = "running"]
  BY DEF CliStarts, threadVars, deleteVars
<1>3. Key(t) \in Keys /\ t \in TurnsOf(Key(t)) /\ ~Quiet(Key(t))
  BY <1>2 DEF Key, TurnsOf, Quiet, ActivePlaces
<1>4. deletion[Key(t)] = "none" /\ Key(t) \notin clean
  BY <1>3, HeldIsQuiet DEF KeepInv, CleanInv
<1>5. Traced'
  <2>1. SUFFICES ASSUME NEW k \in Keys, NEW j \in stored'[k],
                        j \notin record'[k] \cup lost' \cup unrecorded'
                 PROVE  \E u \in TurnsOf(k) : session'[u] = j /\ place'[u] \in Unsettled
    BY DEF Traced, TurnsOf
  <2>2. CASE j \in stored[k]
    <3>1. PICK u \in TurnsOf(k) : session[u] = j /\ place[u] \in Unsettled
      BY <1>2, <2>1, <2>2 DEF KeepInv, Traced
    <3>2. u # t /\ u \in Turns
      BY <1>2, <3>1 DEF Unsettled, TurnsOf
    <3> QED
      BY <1>1, <1>2, <3>1, <3>2 DEF Basis, OwnInv, Types
  <2>3. CASE j \notin stored[k]
    BY <1>1, <1>2, <1>3, <2>1, <2>3 DEF Basis, OwnInv, Types, Unsettled
  <2> QED
    BY <2>2, <2>3
<1>6. WriterInv'
  <2>1. writer[t] = "none"
    BY <1>2 DEF KeepInv, WriterInv
  <2> QED
    BY <1>1, <1>2, <2>1 DEF Basis, OwnInv, Types, KeepInv, WriterInv, Key
<1>7. Progress'
  BY <1>1, <1>2, <1>3, <1>4 DEF Basis, OwnInv, Types, KeepInv, Progress, Left, MadeLate, TurnsOf
<1>8. CleanInv'
  <2>1. \A k \in clean : k \in Keys /\ k # Key(t) /\ stored'[k] = stored[k]
    BY <1>1, <1>3, <1>4 DEF Basis, OwnInv, Types, ReservedInv, MoreTypes
  <2>2. \A k \in clean : Quiet(k)'
    BY <1>2, <2>1 DEF Basis, OwnInv, Types, KeepInv, CleanInv, Quiet, TurnsOf, Key
  <2> QED
    BY <1>2, <2>1, <2>2 DEF KeepInv, CleanInv, Left, MadeLate, TurnsOf
<1> QED
  BY <1>5, <1>6, <1>7, <1>8 DEF KeepInv

\* A turn that settles or ends has its id in the record, or among those lost or not
\* recorded; its writer and its mkdir may go on.
LEMMA TurnSettles ==
  ASSUME Basis, KeepInv, UNCHANGED provider, NEW t \in Turns,
         RecordingEnds(t) \/ TurnEnds(t) \/ StopInWorkspace(t) \/ StopInRecording(t)
  PROVE  KeepInv'
<1> USE AdmissionAssumption
<1>1. /\ UNCHANGED <<session, workspace, record, stored, deletion, doomed, unrecorded, late,
                     clean>>
      /\ makers' \subseteq makers
      /\ place[t] \in ActivePlaces
      /\ place' = [place EXCEPT ![t] = "known"] \/ place' = [place EXCEPT ![t] = "over"]
      /\ lost \subseteq lost'
  BY DEF RecordingEnds, TurnEnds, StopInWorkspace, StopInRecording, threadVars, fileVars,
     deleteVars, storeHistory, ActivePlaces
<1>2. place[t] \in Unsettled =>
        session[t] \in record[Key(t)] \cup unrecorded \cup lost'
  BY DEF KeepInv, WriterInv, Unsettled, Recording, RecordingEnds, TurnEnds,
     StopInWorkspace, StopInRecording
<1>3. Traced'
  <2>1. SUFFICES ASSUME NEW k \in Keys, NEW i \in stored[k],
                        i \notin record[k] \cup lost' \cup unrecorded
                 PROVE  \E u \in TurnsOf(k) : session[u] = i /\ place'[u] \in Unsettled
    BY <1>1 DEF Traced, TurnsOf
  <2>2. PICK u \in TurnsOf(k) : session[u] = i /\ place[u] \in Unsettled
    BY <1>1, <2>1 DEF KeepInv, Traced
  <2>3. u # t
    BY <1>2, <2>1, <2>2 DEF TurnsOf, Key
  <2> QED
    BY <1>1, <2>2, <2>3 DEF Basis, OwnInv, Types, TurnsOf
<1>4. WriterInv'
  <2>1. \A u \in Turns : u # t => place'[u] = place[u] /\ writer'[u] = writer[u]
    BY DEF Basis, OwnInv, Types, RecordingEnds, TurnEnds, StopInWorkspace,
       StopInRecording, threadVars
  <2>2. writer'[t] # "none" => place'[t] = "over" /\ session[t] \in lost'
    BY DEF Basis, OwnInv, Types, KeepInv, WriterInv, Recording, RecordingEnds, TurnEnds,
       StopInWorkspace, StopInRecording, threadVars
  <2>3. place'[t] \in {"known", "over"} /\ (t \in makers' => place'[t] = "over")
    BY DEF Basis, OwnInv, Types, KeepInv, WriterInv, RecordingEnds, TurnEnds,
       StopInWorkspace, StopInRecording, threadVars
  <2> QED
    BY <1>1, <2>1, <2>2, <2>3 DEF KeepInv, WriterInv, Key
<1>5. Left \subseteq Left'
  BY <1>1 DEF Left
<1>6. Progress'
  BY <1>1, <1>5 DEF KeepInv, Progress, MadeLate, TurnsOf
<1>7. CleanInv'
  <2>1. ASSUME NEW k \in clean PROVE Quiet(k)'
    BY <1>1 DEF Basis, OwnInv, Types, KeepInv, CleanInv, Quiet, TurnsOf, ActivePlaces
  <2> QED
    BY <1>1, <1>5, <2>1 DEF KeepInv, CleanInv, MadeLate, TurnsOf
<1> QED
  BY <1>3, <1>4, <1>6, <1>7 DEF KeepInv

\* A thread that makes the workspace of a key that is quiet is a late one.
LEMMA MakeWorkspaceKeeps ==
  ASSUME Basis, KeepInv, UNCHANGED provider, NEW t \in Turns, MakeWorkspace(t)
  PROVE  KeepInv'
<1> USE AdmissionAssumption
<1>1. /\ UNCHANGED <<place, session, writer, record, stored, deletion, doomed, lost,
                     unrecorded, clean>>
      /\ t \in makers /\ makers' \subseteq makers /\ late \subseteq late'
      /\ workspace' = [workspace EXCEPT ![Key(t)] = TRUE]
      /\ place[t] = "over" => t \in late'
  BY DEF MakeWorkspace, requestVars, deleteVars
<1>2. ASSUME NEW k \in Keys, Quiet(k), MadeLate(k) PROVE MadeLate(k)'
  <2>1. CASE k = Key(t)
    <3>1. place[t] = "over" /\ t \in TurnsOf(k)
      BY <1>1, <1>2, <2>1 DEF KeepInv, WriterInv, Quiet, TurnsOf, Key, ActivePlaces
    <3> QED
      BY <1>1, <3>1 DEF MadeLate, TurnsOf
  <2>2. CASE k # Key(t)
    BY <1>1, <1>2, <2>2 DEF Basis, OwnInv, Types, MadeLate, TurnsOf
  <2> QED
    BY <2>1, <2>2
<1>3. Traced' /\ WriterInv'
  BY <1>1 DEF KeepInv, Traced, WriterInv, TurnsOf, Key
<1>4. Progress'
  BY <1>1, <1>2, HeldIsQuiet DEF KeepInv, Progress, Left
<1>5. CleanInv'
  BY <1>1, <1>2 DEF KeepInv, CleanInv, Left, Quiet, TurnsOf, Basis, ReservedInv, MoreTypes
<1> QED
  BY <1>3, <1>4, <1>5 DEF KeepInv

\* remember_session_id; on a quiet key it is the writer of a turn that has ended.
LEMMA WriterKeeps ==
  ASSUME Basis, KeepInv, UNCHANGED provider, NEW t \in Turns,
         ReadRecord(t) \/ AppendRecord(t) \/ RecordingFails(t)
  PROVE  KeepInv'
<1> USE AdmissionAssumption
<1>1. /\ UNCHANGED <<place, session, makers, workspace, stored, deletion, doomed, lost, late,
                     clean>>
      /\ writer[t] # "none"
      /\ writer'[t] = "none" => session[t] \in record'[Key(t)] \cup unrecorded'
      /\ \A u \in Turns : u # t => writer'[u] = writer[u]
      /\ record' = record \/ record' = [record EXCEPT ![Key(t)] = @ \cup {session[t]}]
      /\ unrecorded \subseteq unrecorded'
  BY DEF Basis, OwnInv, Types, ReadRecord, AppendRecord, RecordingFails, Recording, Key,
     requestVars, fileVars, deleteVars, storeHistory
<1>2. \A k \in Keys : record[k] \subseteq record'[k]
  BY <1>1 DEF Basis, OwnInv, Types
<1>3. Left \subseteq Left'
  BY <1>1 DEF Left
<1>4. Traced'
  BY <1>1, <1>2 DEF KeepInv, Traced, TurnsOf
<1>5. WriterInv'
  BY <1>1, <1>2 DEF KeepInv, WriterInv, Key
<1>6. Progress'
  BY <1>1, <1>3 DEF KeepInv, Progress, MadeLate, TurnsOf
<1>7. CleanInv'
  <2>1. ASSUME NEW k \in clean PROVE record'[k] \subseteq lost
    <3>1. k \in Keys /\ record[k] \subseteq lost /\ Quiet(k)
      BY DEF Basis, ReservedInv, MoreTypes, KeepInv, CleanInv
    <3>2. k = Key(t) => session[t] \in lost
      BY <1>1, <3>1 DEF KeepInv, WriterInv, Quiet, TurnsOf, Key, ActivePlaces
    <3> QED
      BY <1>1, <3>1, <3>2 DEF Basis, OwnInv, Types
  <2> QED
    BY <1>1, <1>3, <2>1 DEF KeepInv, CleanInv, MadeLate, Quiet, TurnsOf
<1> QED
  BY <1>4, <1>5, <1>6, <1>7 DEF KeepInv

-----------------------------------------------------------------------------
(* DELETE *)

\* On a quiet key, a DELETE finds what is stored, or it is one of those lost.
LEMMA StoredIsFound ==
  ASSUME KeepInv, NEW k \in Keys, Quiet(k)
  PROVE  stored[k] \subseteq Findable(k) \cup Left
<1>1. SUFFICES ASSUME NEW i \in stored[k], provider # "claude"
               PROVE  i \in Findable(k) \cup Left
  BY DEF Findable
<1>2. i \in record[k] \cup lost \cup unrecorded
  BY DEF KeepInv, Traced, Quiet, Unsettled, ActivePlaces
<1> QED
  BY <1>1, <1>2 DEF Findable, Left

\* A deletion begins, lists or fails.
LEMMA DeletionMoves ==
  ASSUME Basis, KeepInv, UNCHANGED provider, NEW k \in Keys,
         DeleteBegins(k) \/ DeleteLists(k) \/ DeleteFails(k)
  PROVE  KeepInv'
<1> USE AdmissionAssumption
<1>1. /\ UNCHANGED <<place, session, makers, writer, workspace, record, lost, unrecorded, late,
                     clean>>
      /\ \A l \in Keys : stored'[l] \subseteq stored[l]
      /\ \A l \in Keys : l # k => deletion'[l] = deletion[l] /\ doomed'[l] = doomed[l]
  BY DEF Basis, OwnInv, Types, DeleteBegins, DeleteLists, DeleteFails, requestVars,
     threadVars, fileVars, storeHistory
<1>2. \/ deletion'[k] \in {"none", "listing"}
      \/ deletion[k] = "listing" /\ deletion'[k] = "transcripts" /\ doomed'[k] = Findable(k)
  BY DEF Basis, OwnInv, Types, DeleteBegins, DeleteLists, DeleteFails, Stages
<1>3. Traced' /\ WriterInv'
  BY <1>1 DEF KeepInv, Traced, WriterInv, TurnsOf, Key
<1>4. Progress'
  <2>1. deletion'[k] = "transcripts" => stored[k] \subseteq doomed'[k] \cup Left
    BY <1>2, HeldIsQuiet, StoredIsFound
  <2> QED
    BY <1>1, <1>2, <2>1 DEF KeepInv, Progress, Left, MadeLate, TurnsOf
<1>5. CleanInv'
  BY <1>1 DEF Basis, ReservedInv, MoreTypes, KeepInv, CleanInv, Left, MadeLate, Quiet, TurnsOf
<1> QED
  BY <1>3, <1>4, <1>5 DEF KeepInv

LEMMA TranscriptsRemoved ==
  ASSUME Basis, KeepInv, UNCHANGED provider, NEW k \in Keys, Remove(k, 1)
  PROVE  KeepInv'
<1> USE AdmissionAssumption
<1>1. /\ UNCHANGED <<place, session, makers, writer, workspace, record, doomed, lost,
                     unrecorded, late, clean>>
      /\ deletion[k] = "transcripts" /\ deletion' = [deletion EXCEPT ![k] = "workspace"]
      /\ stored' = [l \in Keys |-> stored[l] \ doomed[k]]
  BY DEF Remove, Stages, requestVars, threadVars
<1>2. Traced' /\ WriterInv'
  BY <1>1 DEF KeepInv, Traced, WriterInv, TurnsOf, Key
<1>3. Progress'
  BY <1>1 DEF Basis, OwnInv, Types, KeepInv, Progress, Left, MadeLate, TurnsOf
<1>4. CleanInv'
  BY <1>1 DEF Basis, ReservedInv, MoreTypes, KeepInv, CleanInv, Left, MadeLate, Quiet, TurnsOf
<1> QED
  BY <1>2, <1>3, <1>4 DEF KeepInv

LEMMA WorkspaceRemoved ==
  ASSUME Basis, KeepInv, UNCHANGED provider, NEW k \in Keys, Remove(k, 2)
  PROVE  KeepInv'
<1> USE AdmissionAssumption
<1>1. /\ UNCHANGED <<place, session, makers, writer, record, stored, doomed, lost, unrecorded,
                     late, clean>>
      /\ deletion[k] = "workspace" /\ deletion' = [deletion EXCEPT ![k] = "record"]
      /\ workspace' = [workspace EXCEPT ![k] = FALSE]
  BY DEF Remove, Stages, requestVars, threadVars
<1>2. Traced' /\ WriterInv'
  BY <1>1 DEF KeepInv, Traced, WriterInv, TurnsOf, Key
<1>3. Progress'
  BY <1>1 DEF Basis, OwnInv, Types, KeepInv, Progress, Left, MadeLate, TurnsOf
<1>4. CleanInv'
  BY <1>1 DEF Basis, OwnInv, Types, ReservedInv, MoreTypes, KeepInv, CleanInv, Left, MadeLate,
     Quiet, TurnsOf
<1> QED
  BY <1>2, <1>3, <1>4 DEF KeepInv

\* The last stage makes the key clean.
LEMMA RecordRemoved ==
  ASSUME Basis, KeepInv, UNCHANGED provider, NEW k \in Keys, Remove(k, 3)
  PROVE  KeepInv'
<1> USE AdmissionAssumption
<1>1. /\ UNCHANGED <<place, session, makers, writer, workspace, stored, lost, unrecorded, late>>
      /\ deletion[k] = "record" /\ deletion' = [deletion EXCEPT ![k] = "none"]
      /\ record' = [record EXCEPT ![k] = {}]
      /\ doomed' = [doomed EXCEPT ![k] = {}]
      /\ clean' = clean \cup {k}
  BY DEF Remove, Stages, requestVars, threadVars
<1>2. Quiet(k) /\ stored[k] \subseteq Left /\ MadeLate(k) /\ record'[k] = {}
  BY <1>1, HeldIsQuiet DEF Basis, OwnInv, Types, KeepInv, Progress
<1>3. Traced'
  BY <1>1, <1>2 DEF Basis, OwnInv, Types, KeepInv, Traced, Left, TurnsOf
<1>4. WriterInv'
  BY <1>1, <1>2 DEF Basis, OwnInv, Types, KeepInv, WriterInv, Key, Quiet, TurnsOf, ActivePlaces
<1>5. Progress'
  BY <1>1 DEF Basis, OwnInv, Types, KeepInv, Progress, Left, MadeLate, TurnsOf
<1>6. CleanInv'
  BY <1>1, <1>2 DEF Basis, OwnInv, Types, ReservedInv, MoreTypes, KeepInv, CleanInv, Left,
     MadeLate, Quiet, TurnsOf
<1> QED
  BY <1>3, <1>4, <1>5, <1>6 DEF KeepInv

-----------------------------------------------------------------------------
LEMMA KeepInductive == Basis /\ KeepInv /\ [StoreNext]_storeVars => KeepInv'
<1> SUFFICES ASSUME Basis, KeepInv, [StoreNext]_storeVars PROVE KeepInv'
  OBVIOUS
<1>1. UNCHANGED provider
  BY DEF StoreNext, storeVars
<1>2. ASSUME NEW t \in Turns, TurnSteps(t) PROVE KeepInv'
  BY <1>1, <1>2, QuietTurnSteps, StartKeeps, CliStartKeeps, TurnSettles, MakeWorkspaceKeeps,
     WriterKeeps DEF TurnSteps
<1>3. ASSUME NEW k \in Keys, DeleteSteps(k) PROVE KeepInv'
  <2>1. ASSUME NEW n \in 1..3, Remove(k, n) PROVE KeepInv'
    <3>1. n = 1 \/ n = 2 \/ n = 3
      OBVIOUS
    <3> QED
      BY <1>1, <2>1, <3>1, TranscriptsRemoved, WorkspaceRemoved, RecordRemoved
  <2> QED
    BY <1>1, <1>3, <2>1, DeletionMoves DEF DeleteSteps
<1>4. CASE UNCHANGED storeVars
  BY <1>4 DEF KeepInv, Traced, WriterInv, Progress, CleanInv, Left, MadeLate, Quiet, TurnsOf,
     Key, storeVars, requestVars, threadVars, fileVars, deleteVars, storeHistory
<1> QED
  BY <1>2, <1>3, <1>4 DEF StoreNext

LEMMA KeepInvariant == StoreSpec => [](Basis /\ KeepInv)
<1>1. StoreInit => Basis /\ KeepInv
  BY OwnInitially, ReservedInitially, KeepInitially DEF Basis
<1>2. Basis /\ [StoreNext]_storeVars => Basis'
  BY OwnInductive, ReservedInductive DEF Basis
<1> QED
  BY <1>1, <1>2, KeepInductive, PTL DEF StoreSpec

\* While no turn holds a key, a DELETE of it finds every transcript of the key whose id
\* was recorded, however many DELETEs have failed half-way.
THEOREM RetryFindsTranscripts == StoreSpec => []TranscriptsStayFindable
<1>1. Basis /\ KeepInv => TranscriptsStayFindable
  BY FreeIsQuiet, StoredIsFound DEF TranscriptsStayFindable, Left
<1> QED
  BY <1>1, KeepInvariant, PTL

\* After a DELETE that answered "deleted", and until the next turn of the key, nothing is
\* left but what threads of ended turns add, and transcripts no record ever named.
THEOREM DeletionIsComplete == StoreSpec => []DeletedIsGone
<1>1. Basis /\ KeepInv => DeletedIsGone
  BY DEF KeepInv, CleanInv, Left, MadeLate, DeletedIsGone
<1> QED
  BY <1>1, KeepInvariant, PTL
=============================================================================

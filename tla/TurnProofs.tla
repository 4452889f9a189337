----------------------------- MODULE TurnProofs -----------------------------
(***************************************************************************)
(* For every set of turns and every number of events: the types of Turn,   *)
(* that a turn holds its slots exactly while its task is alive, that the   *)
(* turns use the registry as Admission says, and that the tasks themselves *)
(* keep the limits.  Then what the stream and the operator see: the queue  *)
(* of a turn keeps its contract and a stop is announced on it at once; and *)
(* a CLI runs without its reservation, or the directory of a stateless     *)
(* turn stays, only if a cancel kept the runner from closing it (the       *)
(* force-cancel of shutdown, a stop that found the runner already closing  *)
(* by itself, or one that found claude's runner at the yield of its        *)
(* session id).                                                            *)
(***************************************************************************)
EXTENDS Turn, AdmissionProofs, SequenceTheorems

AliveTurns == {t \in Turns : Alive(t)}

\* The part of TurnTypeOK that is not Admission's.
TaskTypeOK ==
  /\ main \in [Turns -> Places]
  /\ stopReason \in [Turns -> StopReasons \cup {"none"}]
  /\ cancelling \in [Turns -> BOOLEAN]
  /\ deadline \in [Turns -> BOOLEAN]
  /\ error \in [Turns -> Errors]
  /\ events \in [Turns -> Seq([kind : Kinds, reason : StopReasons \cup {"none"},
                               error : Errors])]
  /\ cli \in [Turns -> {"none", "running", "exited"}]
  /\ dir \in [Turns -> {"none", "present", "removing", "removed", "kept"}]
  /\ stoppedIn \in [Turns -> Places \cup {"none"}]
  /\ forced \in [Turns -> BOOLEAN]

LEMMA TypeSplits == TurnTypeOK <=> AdmissionTypeOK /\ TaskTypeOK
  BY DEF TurnTypeOK, TaskTypeOK

LEMMA HeldMeansRegistered == HeldWhileAlive <=> RegisteredTurns = AliveTurns
  BY DEF HeldWhileAlive, RegisteredTurns, AliveTurns

-----------------------------------------------------------------------------
(* What the steps do to the registry and to the set of live tasks *)

LEMMA AcceptStep ==
  ASSUME TaskTypeOK, NEW t \in Turns, Accept(t)
  PROVE  Reserve(t) /\ AliveTurns' = AliveTurns \cup {t}
  BY DEF Accept, AliveTurns, Alive, Suspended, TaskTypeOK

LEMMA EndTaskStep ==
  ASSUME TaskTypeOK, NEW t \in Turns, NEW err, EndTask(t, err)
  PROVE  Release({t}) /\ AliveTurns' = AliveTurns \ {t}
  BY DEF EndTask, AliveTurns, Alive, Suspended, TaskTypeOK

LEMMA StopStep ==
  ASSUME TaskTypeOK, NEW S \in SUBSET Turns, NEW reason, Stop(S, reason)
  PROVE  /\ Unstarted(S) \in SUBSET Turns
         /\ Release(Unstarted(S))
         /\ AliveTurns' = AliveTurns \ Unstarted(S)
<1>1. Unstarted(S) \in SUBSET Turns /\ Release(Unstarted(S))
  BY DEF Stop, ReleasedByStop, Unstarted
<1>2. \A t \in Turns : main'[t] = IF t \in Unstarted(S) THEN "done" ELSE main[t]
  BY DEF Stop
<1>3. \A t \in Turns : Alive(t)' <=> (Alive(t) /\ t \notin Unstarted(S))
  BY <1>2 DEF Alive, Suspended
<1> QED
  BY <1>1, <1>3 DEF AliveTurns

\* A step of one of three kinds: a turn is admitted, some turns leave, or the
\* registry and the live tasks stay as they are (the deletions may change).
RegistryStep ==
  \/ \E t \in Turns : Reserve(t) /\ AliveTurns' = AliveTurns \cup {t}
  \/ \E S \in SUBSET Turns : Release(S) /\ AliveTurns' = AliveTurns \ S
  \/ \E k \in Keys : (Hold(k) \/ Unhold(k)) /\ AliveTurns' = AliveTurns
  \/ UNCHANGED admissionVars /\ AliveTurns' = AliveTurns

LEMMA CloseWorkspaceStep ==
  ASSUME TaskTypeOK, NEW t \in Turns, NEW err, main[t] \in Suspended, CloseWorkspace(t, err)
  PROVE  RegistryStep
<1>1. CASE t \in Stateless
  BY <1>1 DEF CloseWorkspace, RegistryStep, AliveTurns, Alive, Suspended, TaskTypeOK
<1>2. CASE t \notin Stateless
  BY <1>2, EndTaskStep DEF CloseWorkspace, RegistryStep
<1> QED
  BY <1>1, <1>2

LEMMA TaskRunsStep ==
  ASSUME TaskTypeOK, NEW t \in Turns, TaskRuns(t)
  PROVE  RegistryStep
<1>1. ASSUME FirstStep(t) PROVE RegistryStep
  BY <1>1 DEF FirstStep, At, RegistryStep, AliveTurns, Alive, Suspended, TaskTypeOK
<1>2. ASSUME FirstStepFails(t) PROVE RegistryStep
  BY <1>2, EndTaskStep DEF FirstStepFails, RegistryStep
<1>3. ASSUME WorkspaceReady(t) PROVE RegistryStep
  BY <1>3 DEF WorkspaceReady, At, RegistryStep, AliveTurns, Alive, Suspended, TaskTypeOK
<1>4. ASSUME WorkspaceFails(t) PROVE RegistryStep
  BY <1>4, EndTaskStep DEF WorkspaceFails, RegistryStep
<1>5. ASSUME CliSpawned(t) PROVE RegistryStep
  BY <1>5 DEF CliSpawned, At, RegistryStep, AliveTurns, Alive, Suspended, TaskTypeOK
<1>6. ASSUME OpeningFails(t) PROVE RegistryStep
  BY <1>6, CloseWorkspaceStep DEF OpeningFails, At, Suspended
<1>7. ASSUME RunnerYields(t) PROVE RegistryStep
  BY <1>7 DEF RunnerYields, RegistryStep, AliveTurns, Alive
<1>12. ASSUME RecordingBegins(t) \/ RecordingEnds(t) PROVE RegistryStep
  BY <1>12
  DEF RecordingBegins, RecordingEnds, At, RegistryStep, AliveTurns, Alive, Suspended,
      TaskTypeOK
<1>8. ASSUME RunnerEnds(t) PROVE RegistryStep
  BY <1>8 DEF RunnerEnds, At, RegistryStep, AliveTurns, Alive, Suspended, TaskTypeOK
<1>9. ASSUME RunnerClosed(t) PROVE RegistryStep
  BY <1>9, CloseWorkspaceStep DEF RunnerClosed, At, Suspended
<1>10. ASSUME WorkspaceLeft(t) PROVE RegistryStep
  BY <1>10, EndTaskStep DEF WorkspaceLeft, RegistryStep
<1>11. ASSUME CancelLands(t) PROVE RegistryStep
  <2>1. ASSUME CancelInWorkspace(t) PROVE RegistryStep
    BY <2>1, EndTaskStep DEF CancelInWorkspace, RegistryStep
  <2>2. ASSUME CancelInOpening(t) PROVE RegistryStep
    BY <2>2, CloseWorkspaceStep DEF CancelInOpening, Suspended
  <2>3. ASSUME CancelInRunning(t) PROVE RegistryStep
    BY <2>3 DEF CancelInRunning, RegistryStep, AliveTurns, Alive, Suspended, TaskTypeOK
  <2>4. ASSUME CancelInClosing(t) PROVE RegistryStep
    BY <2>4, CloseWorkspaceStep DEF CancelInClosing, Suspended
  <2>5. ASSUME CancelInLeaving(t) PROVE RegistryStep
    <3>1. EndTask(t, "cancelled")
      BY <2>5 DEF CancelInLeaving
    <3> QED
      BY <3>1, EndTaskStep DEF RegistryStep
  <2>6. ASSUME CancelInRecording(t) PROVE RegistryStep
    <3>1. CASE Provider = "codex"
      BY <2>6, <3>1
      DEF CancelInRecording, RegistryStep, AliveTurns, Alive, Suspended, TaskTypeOK
    <3>2. CASE Provider # "codex"
      BY <2>6, <3>2, CloseWorkspaceStep DEF CancelInRecording, Suspended
    <3> QED
      BY <3>1, <3>2
  <2> QED
    BY <1>11, <2>1, <2>2, <2>3, <2>4, <2>5, <2>6 DEF CancelLands
<1> QED
  BY <1>1, <1>2, <1>3, <1>4, <1>5, <1>6, <1>7, <1>8, <1>9, <1>10, <1>11, <1>12 DEF TaskRuns

LEMMA StopCalledStep ==
  ASSUME TaskTypeOK, AdmissionTypeOK, StopCalled
  PROVE  RegistryStep
<1>1. ASSUME NEW S \in SUBSET Turns, NEW reason, Stop(S, reason)
      PROVE  RegistryStep
  BY <1>1, StopStep DEF RegistryStep
<1>2. ASSUME NEW t \in Turns, Timeout(t) PROVE RegistryStep
  BY <1>1, <1>2 DEF Timeout
<1>3. ASSUME NEW k \in Keys, CancelRequest(k) PROVE RegistryStep
  <2>1. {bySession[k]} \in SUBSET Turns
    BY <1>3 DEF CancelRequest, AdmissionTypeOK
  <2> QED
    BY <1>1, <1>3, <2>1 DEF CancelRequest
<1>4. ASSUME NEW t \in Turns, NEW reason, StopFromStream(t, reason) PROVE RegistryStep
  BY <1>1, <1>4 DEF StopFromStream
<1>5. ASSUME StopAll PROVE RegistryStep
  BY <1>1, <1>5 DEF StopAll, RegisteredTurns
<1>6. ASSUME NEW S \in SUBSET Turns, ForceCancel(S) PROVE RegistryStep
  BY <1>6 DEF ForceCancel, RegistryStep, AliveTurns, Alive
<1> QED
  BY <1>2, <1>3, <1>4, <1>5, <1>6 DEF StopCalled

\* Every step of the turns is one of the three kinds.
LEMMA TurnStep ==
  ASSUME TurnTypeOK, [TurnNext]_turnVars
  PROVE  RegistryStep
<1> USE TypeSplits
<1>1. ASSUME NEW t \in Turns, Accept(t) PROVE RegistryStep
  BY <1>1, AcceptStep DEF RegistryStep
<1>2. ASSUME NEW t \in Turns, Refuse(t) PROVE RegistryStep
  BY <1>2 DEF Refuse, RegistryStep, AliveTurns, Alive, Suspended, TaskTypeOK
<1>3. ASSUME NEW t \in Turns, WorldMoves(t) PROVE RegistryStep
  BY <1>3
  DEF WorldMoves, CliExits, RmtreeEnds, taskVars, RegistryStep, AliveTurns, Alive
<1>4. ASSUME NEW k \in Keys, DeleteBegins(k) \/ DeleteEnds(k) PROVE RegistryStep
  BY <1>4 DEF DeleteBegins, DeleteEnds, taskVars, RegistryStep, AliveTurns, Alive
<1>5. CASE UNCHANGED turnVars
  BY <1>5 DEF turnVars, taskVars, RegistryStep, AliveTurns, Alive
<1> QED
  BY <1>1, <1>2, <1>3, <1>4, <1>5, TaskRunsStep, StopCalledStep DEF TurnNext

-----------------------------------------------------------------------------
(* Registered and alive are the same *)

LEMMA HeldInit == TurnInit => HeldWhileAlive
  BY AdmissionAssumption
  DEF TurnInit, AdmissionInit, HeldWhileAlive, Alive, Suspended, Registered

LEMMA HeldStep ==
  ASSUME TurnTypeOK, HeldWhileAlive, [TurnNext]_turnVars
  PROVE  HeldWhileAlive'
<1>1. AdmissionTypeOK /\ RegisteredTurns = AliveTurns
  BY TypeSplits, HeldMeansRegistered
<1>2. RegistryStep
  BY TurnStep
<1>3. ASSUME NEW t \in Turns, Reserve(t), AliveTurns' = AliveTurns \cup {t}
      PROVE  RegisteredTurns' = AliveTurns'
  BY <1>1, <1>3, ReserveRegisters
<1>4. ASSUME NEW S \in SUBSET Turns, Release(S), AliveTurns' = AliveTurns \ S
      PROVE  RegisteredTurns' = AliveTurns'
  BY <1>1, <1>4, ReleaseUnregisters
<1>5. ASSUME NEW k \in Keys, Hold(k) \/ Unhold(k), AliveTurns' = AliveTurns
      PROVE  RegisteredTurns' = AliveTurns'
  BY <1>1, <1>5 DEF Hold, Unhold, RegisteredTurns, Registered
<1>6. ASSUME UNCHANGED admissionVars, AliveTurns' = AliveTurns
      PROVE  RegisteredTurns' = AliveTurns'
  BY <1>1, <1>6 DEF admissionVars, RegisteredTurns, Registered
<1>7. RegisteredTurns' = AliveTurns'
  BY <1>2, <1>3, <1>4, <1>5, <1>6 DEF RegistryStep
<1> QED
  BY <1>7 DEF HeldWhileAlive, RegisteredTurns, AliveTurns

\* The registry sees the steps of turns as steps of its own.
LEMMA RegistryNext == RegistryStep => [AdmissionNext]_admissionVars
  BY DEF RegistryStep, AdmissionNext

-----------------------------------------------------------------------------
(* Types *)

Items == [kind : Kinds, reason : StopReasons \cup {"none"}, error : Errors]

LEMMA ItemTypes ==
  /\ \A r \in StopReasons : Stopped(r) \in Items
  /\ \A r \in StopReasons \cup {"none"}, err \in Errors : Ended(r, err) \in Items
  /\ \A k \in {"progress", "done"} : Yielded(k) \in Items
  BY DEF Items, Item, Stopped, Ended, Yielded, Kinds, Errors

LEMMA PutType ==
  ASSUME NEW q \in [Turns -> Seq(Items)], NEW t \in Turns, NEW i \in Items
  PROVE  [q EXCEPT ![t] = Append(@, i)] \in [Turns -> Seq(Items)]
<1>1. Append(q[t], i) \in Seq(Items)
  OBVIOUS
<1> QED
  BY <1>1

LEMMA QueueType == TaskTypeOK => events \in [Turns -> Seq(Items)]
  BY DEF TaskTypeOK, Items

LEMMA TaskTypeInit == TurnInit => TaskTypeOK
  BY DEF TurnInit, TaskTypeOK, Places, Errors

LEMMA EndTaskType ==
  ASSUME TaskTypeOK, NEW t \in Turns, NEW err \in Errors, EndTask(t, err)
  PROVE  /\ main' \in [Turns -> Places]
         /\ deadline' \in [Turns -> BOOLEAN]
         /\ error' \in [Turns -> Errors]
         /\ events' \in [Turns -> Seq(Items)]
<1>1. Ended(stopReason[t], err) \in Items
  BY ItemTypes DEF TaskTypeOK
<1>2. events' \in [Turns -> Seq(Items)]
  BY <1>1, PutType, QueueType DEF EndTask
<1> QED
  BY <1>2 DEF EndTask, TaskTypeOK, Places

LEMMA CloseWorkspaceType ==
  ASSUME TaskTypeOK, NEW t \in Turns, NEW err \in Errors, CloseWorkspace(t, err)
  PROVE  /\ main' \in [Turns -> Places]
         /\ deadline' \in [Turns -> BOOLEAN]
         /\ error' \in [Turns -> Errors]
         /\ events' \in [Turns -> Seq(Items)]
         /\ dir' \in [Turns -> {"none", "present", "removing", "removed", "kept"}]
<1>1. CASE t \in Stateless
  BY <1>1, ZenonT(40) DEF CloseWorkspace, TaskTypeOK, Places, Items
<1>2. CASE t \notin Stateless
  <2>1. EndTask(t, err) /\ UNCHANGED dir
    BY <1>2 DEF CloseWorkspace
  <2> QED
    BY <2>1, EndTaskType DEF TaskTypeOK
<1> QED
  BY <1>1, <1>2

LEMMA StopType ==
  ASSUME TaskTypeOK, NEW S \in SUBSET Turns, NEW reason \in StopReasons, Stop(S, reason),
         deadline' \in [Turns -> BOOLEAN]
  PROVE  TaskTypeOK'
<1>1. stopReason' \in [Turns -> StopReasons \cup {"none"}]
  BY DEF Stop, TaskTypeOK
<1>2. cancelling' \in [Turns -> BOOLEAN]
  BY DEF Stop, TaskTypeOK
<1>3. main' \in [Turns -> Places]
  BY DEF Stop, TaskTypeOK, Places
<1>4. events' \in [Turns -> Seq(Items)]
  <2>1. \A t \in Turns : StopItems(t, reason) \in Seq(Items)
    <3>1. Stopped(reason) \in Items /\ Ended(reason, "none") \in Items
      BY ItemTypes DEF Errors
    <3>2. <<Stopped(reason)>> \in Seq(Items) /\ <<Ended(reason, "none")>> \in Seq(Items)
      BY <3>1
    <3>3. <<>> \in Seq(Items)
      OBVIOUS
    <3> QED
      BY <3>2, <3>3 DEF StopItems
  <2>2. \A t \in Turns : events[t] \in Seq(Items)
    BY DEF TaskTypeOK, Items
  <2>3. \A t \in Turns : events[t] \o StopItems(t, reason) \in Seq(Items)
    BY <2>1, <2>2
  <2> QED
    BY <2>2, <2>3 DEF Stop
<1>5. stoppedIn' \in [Turns -> Places \cup {"none"}]
  BY DEF Stop, TaskTypeOK
<1> QED
  BY <1>1, <1>2, <1>3, <1>4, <1>5 DEF Stop, TaskTypeOK, worldVars, Items

LEMMA TaskRunsType ==
  ASSUME TaskTypeOK, NEW t \in Turns, TaskRuns(t)
  PROVE  TaskTypeOK'
<1> USE DEF worldVars, historyVars
<1>0. {"none", "sdk_error", "internal", "cancelled"} = Errors
  BY DEF Errors
<1>1. ASSUME FirstStep(t) PROVE TaskTypeOK'
  BY <1>1 DEF FirstStep, TaskTypeOK, Places
<1>2. ASSUME FirstStepFails(t) PROVE TaskTypeOK'
  BY <1>2, <1>0, EndTaskType DEF FirstStepFails, TaskTypeOK, Items
<1>3. ASSUME WorkspaceReady(t) PROVE TaskTypeOK'
  BY <1>3 DEF WorkspaceReady, TaskTypeOK, Places
<1>4. ASSUME WorkspaceFails(t) PROVE TaskTypeOK'
  BY <1>4, <1>0, EndTaskType DEF WorkspaceFails, TaskTypeOK, Items
<1>5. ASSUME CliSpawned(t) PROVE TaskTypeOK'
  BY <1>5 DEF CliSpawned, TaskTypeOK, Places
<1>6. ASSUME OpeningFails(t) PROVE TaskTypeOK'
  BY <1>6, <1>0, CloseWorkspaceType DEF OpeningFails, TaskTypeOK, Items
<1>7. ASSUME RunnerYields(t) PROVE TaskTypeOK'
  <2>1. events' \in [Turns -> Seq(Items)]
    BY <1>7, ItemTypes, PutType, QueueType DEF RunnerYields
  <2> QED
    BY <1>7, <2>1 DEF RunnerYields, TaskTypeOK, Items
<1>12. ASSUME RecordingBegins(t) PROVE TaskTypeOK'
  BY <1>12 DEF RecordingBegins, TaskTypeOK, Places
<1>13. ASSUME RecordingEnds(t) PROVE TaskTypeOK'
  <2>1. events' \in [Turns -> Seq(Items)]
    BY <1>13, ItemTypes, PutType, QueueType DEF RecordingEnds
  <2> QED
    BY <1>13, <2>1 DEF RecordingEnds, TaskTypeOK, Items, Places
<1>8. ASSUME RunnerEnds(t) PROVE TaskTypeOK'
  <2>1. error' \in [Turns -> Errors]
    BY <1>8 DEF RunnerEnds, TaskTypeOK, Errors
  <2> QED
    BY <1>8, <2>1 DEF RunnerEnds, TaskTypeOK, Places
<1>9. ASSUME RunnerClosed(t) PROVE TaskTypeOK'
  <2>1. error[t] \in Errors
    BY DEF TaskTypeOK
  <2> QED
    BY <1>9, <2>1, CloseWorkspaceType DEF RunnerClosed, TaskTypeOK, Items
<1>10. ASSUME WorkspaceLeft(t) PROVE TaskTypeOK'
  <2>1. error[t] \in Errors
    BY DEF TaskTypeOK
  <2> QED
    BY <1>10, <2>1, EndTaskType DEF WorkspaceLeft, TaskTypeOK, Items
<1>11. ASSUME CancelLands(t) PROVE TaskTypeOK'
  <2>1. ASSUME CancelInWorkspace(t) PROVE TaskTypeOK'
    BY <2>1, <1>0, EndTaskType DEF CancelInWorkspace, Delivered, TaskTypeOK, Items
  <2>2. ASSUME CancelInOpening(t) \/ CancelInClosing(t) PROVE TaskTypeOK'
    BY <2>2, <1>0, CloseWorkspaceType
    DEF CancelInOpening, CancelInClosing, Delivered, TaskTypeOK, Items
  <2>3. ASSUME CancelInRunning(t) PROVE TaskTypeOK'
    BY <2>3, <1>0 DEF CancelInRunning, Delivered, TaskTypeOK, Places
  <2>4. ASSUME CancelInLeaving(t) PROVE TaskTypeOK'
    <3>1. dir' \in [Turns -> {"none", "present", "removing", "removed", "kept"}]
      BY <2>4 DEF CancelInLeaving, TaskTypeOK
    <3>2. EndTask(t, "cancelled") /\ Delivered(t) /\ UNCHANGED <<stopReason, cli, historyVars>>
      BY <2>4 DEF CancelInLeaving
    <3> QED
      BY <3>1, <3>2, <1>0, EndTaskType DEF Delivered, TaskTypeOK, Items
  <2>5. ASSUME CancelInRecording(t) PROVE TaskTypeOK'
    <3>1. CASE Provider = "codex"
      BY <2>5, <3>1, <1>0 DEF CancelInRecording, Delivered, TaskTypeOK, Places
    <3>2. CASE Provider # "codex"
      BY <2>5, <3>2, <1>0, CloseWorkspaceType
      DEF CancelInRecording, Delivered, TaskTypeOK, Items
    <3> QED
      BY <3>1, <3>2
  <2> QED
    BY <1>11, <2>1, <2>2, <2>3, <2>4, <2>5 DEF CancelLands
<1> QED
  BY <1>1, <1>2, <1>3, <1>4, <1>5, <1>6, <1>7, <1>8, <1>9, <1>10, <1>11, <1>12, <1>13
  DEF TaskRuns

LEMMA TaskTypeStep ==
  ASSUME TurnTypeOK, [TurnNext]_turnVars
  PROVE  TaskTypeOK'
<1> USE TypeSplits
<1>1. ASSUME NEW t \in Turns, Accept(t) \/ Refuse(t) PROVE TaskTypeOK'
  BY <1>1 DEF Accept, Refuse, TaskTypeOK, Places, worldVars, historyVars
<1>2. ASSUME NEW t \in Turns, WorldMoves(t) PROVE TaskTypeOK'
  <2>1. CASE CliExits(t)
    BY <2>1 DEF CliExits, TaskTypeOK, taskVars, historyVars
  <2>2. CASE RmtreeEnds(t)
    <3>1. dir' \in [Turns -> {"none", "present", "removing", "removed", "kept"}]
      BY <2>2 DEF RmtreeEnds, TaskTypeOK
    <3> QED
      BY <2>2, <3>1 DEF RmtreeEnds, TaskTypeOK, taskVars, historyVars
  <2> QED
    BY <1>2, <2>1, <2>2 DEF WorldMoves
<1>3. ASSUME StopCalled PROVE TaskTypeOK'
  <2>1. ASSUME NEW t \in Turns, Timeout(t) PROVE TaskTypeOK'
    <3>1. deadline' \in [Turns -> BOOLEAN]
      BY <2>1 DEF Timeout, TaskTypeOK
    <3> QED
      BY <2>1, <3>1, StopType DEF Timeout, StopReasons
  <2>2. ASSUME NEW k \in Keys, CancelRequest(k) PROVE TaskTypeOK'
    <3>1. bySession[k] \in Turns /\ Stop({bySession[k]}, "cancelled") /\ deadline' = deadline
      BY <2>2 DEF CancelRequest, AdmissionTypeOK
    <3> QED
      BY <3>1, StopType DEF StopReasons, TaskTypeOK
  <2>3. ASSUME NEW t \in Turns, NEW reason \in StopReasons, StopFromStream(t, reason)
        PROVE  TaskTypeOK'
    BY <2>3, StopType DEF StopFromStream, TaskTypeOK
  <2>4. ASSUME StopAll PROVE TaskTypeOK'
    <3>1. Stop(RegisteredTurns, "shutdown") /\ deadline' = deadline
      BY <2>4 DEF StopAll
    <3> QED
      BY <3>1, StopType DEF RegisteredTurns, StopReasons, TaskTypeOK
  <2>5. ASSUME NEW S \in SUBSET Turns, ForceCancel(S) PROVE TaskTypeOK'
    BY <2>5 DEF ForceCancel, TaskTypeOK, worldVars
  <2>6. {"disconnected", "shutdown"} \subseteq StopReasons
    BY DEF StopReasons
  <2> QED
    BY <1>3, <2>1, <2>2, <2>3, <2>4, <2>5, <2>6 DEF StopCalled
<1>4. ASSUME NEW k \in Keys, DeleteBegins(k) \/ DeleteEnds(k) PROVE TaskTypeOK'
  BY <1>4 DEF DeleteBegins, DeleteEnds, TaskTypeOK, taskVars, worldVars, historyVars
<1>5. CASE UNCHANGED turnVars
  BY <1>5 DEF turnVars, TaskTypeOK, taskVars, worldVars, historyVars
<1> QED
  BY <1>1, <1>2, <1>3, <1>4, <1>5, TaskRunsType DEF TurnNext

-----------------------------------------------------------------------------
(* The invariant of the composition, and the theorems that follow from it *)

TurnInv == AdmissionInv /\ TurnTypeOK /\ HeldWhileAlive

LEMMA TurnInvInit == TurnInit => TurnInv
<1>1. TurnInit => AdmissionInit
  BY DEF TurnInit
<1> QED
  BY <1>1, AdmissionInvInit, TaskTypeInit, TypeSplits, HeldInit DEF TurnInv, AdmissionInv

LEMMA TurnInvNext == TurnInv /\ [TurnNext]_turnVars => TurnInv'
<1> SUFFICES ASSUME TurnInv, [TurnNext]_turnVars PROVE TurnInv'
  OBVIOUS
<1>1. [AdmissionNext]_admissionVars
  BY TurnStep, RegistryNext DEF TurnInv
<1>2. AdmissionInv'
  BY <1>1, AdmissionInvNext DEF TurnInv
<1>3. TurnTypeOK'
  <2>1. TaskTypeOK'
    BY TaskTypeStep DEF TurnInv
  <2>2. AdmissionTypeOK'
    BY <1>2 DEF AdmissionInv
  <2> QED
    BY <2>1, <2>2 DEF TurnTypeOK, TaskTypeOK
<1>4. HeldWhileAlive'
  BY HeldStep DEF TurnInv
<1> QED
  BY <1>2, <1>3, <1>4 DEF TurnInv

\* Types, and the reservation held exactly while the task is alive, on every path of _main
\* and stop.
THEOREM TurnInvariant == TurnSpec => []TurnInv
  BY TurnInvInit, TurnInvNext, PTL DEF TurnSpec

\* Every variable of a turn keeps its type.
THEOREM TurnTypeCorrect == TurnSpec => []TurnTypeOK
<1>1. TurnInv => TurnTypeOK
  BY DEF TurnInv
<1> QED
  BY <1>1, TurnInvariant, PTL

\* The reservation is held from start to the end of the task, on every path of
\* _main and stop: it neither leaks nor is given back early.
THEOREM ReservationFollowsTask == TurnSpec => []HeldWhileAlive
<1>1. TurnInv => HeldWhileAlive
  BY DEF TurnInv
<1> QED
  BY <1>1, TurnInvariant, PTL

\* The turns use the registry as Admission says its callers do.
THEOREM TurnImplementsAdmission == TurnSpec => AdmissionSpec
<1>1. TurnInit => AdmissionInit
  BY DEF TurnInit
<1>2. TurnInv /\ [TurnNext]_turnVars => [AdmissionNext]_admissionVars
  BY TurnStep, RegistryNext DEF TurnInv
<1> QED
  BY <1>1, <1>2, TurnInvariant, PTL DEF TurnSpec, AdmissionSpec

-----------------------------------------------------------------------------
(* The limits hold of the tasks *)

LEMMA AliveAreInflight ==
  ASSUME HeldWhileAlive
  PROVE  {t \in Turns : Alive(t)} = RegisteredTurns
  BY DEF HeldWhileAlive, RegisteredTurns

LEMMA TaskLimitsStep ==
  TurnInv /\ [TurnNext]_turnVars => [TaskLimits!LimitsNext]_(TaskLimits!limitsVars)
<1> SUFFICES ASSUME TurnInv, [TurnNext]_turnVars
             PROVE  [TaskLimits!LimitsNext]_(TaskLimits!limitsVars)
  OBVIOUS
<1>1. [Limits!LimitsNext]_(Limits!limitsVars)
  BY TurnStep, RegistryNext, LimitsStep DEF TurnInv
<1>2. {t \in Turns : Alive(t)} = RegisteredTurns
  BY AliveAreInflight DEF TurnInv
<1>3. {t \in Turns : Alive(t)}' = RegisteredTurns'
  BY TurnInvNext, AliveAreInflight DEF TurnInv, HeldWhileAlive, RegisteredTurns
<1>4. \A S : TaskLimits!Cardinality(S) = Limits!Cardinality(S)
  BY DEF TaskLimits!Cardinality, Limits!Cardinality
<1> QED
  BY <1>1, <1>2, <1>3, <1>4
  DEF Limits!LimitsNext, Limits!limitsVars, Limits!Admit, Limits!Leave, Limits!Fits,
      Limits!Conflict, Limits!BeginDelete, Limits!EndDelete,
      TaskLimits!LimitsNext, TaskLimits!limitsVars, TaskLimits!Admit, TaskLimits!Leave,
      TaskLimits!Fits, TaskLimits!Conflict, TaskLimits!BeginDelete, TaskLimits!EndDelete

\* One turn per sessionKey, one per user, MAX_CONCURRENT in all, none on a key being
\* deleted: of the tasks that are alive, not only of the table.
THEOREM TasksImplementLimits == TurnSpec => TasksKeepLimits
<1>1. TurnInit => TaskLimits!LimitsInit
  BY DEF TurnInit, AdmissionInit, TaskLimits!LimitsInit, Alive, Suspended
<1> QED
  BY <1>1, TaskLimitsStep, TurnInvariant, PTL
  DEF TurnSpec, TasksKeepLimits, TaskLimits!LimitsSpec

\* A request is refused only because of turns whose task is alive.
THEOREM RefusalsAreJustified == TurnSpec => []RefusedOnlyIfBusy
<1>1. TurnInv => RefusedOnlyIfBusy
  <2> SUFFICES ASSUME TurnInv, NEW t \in Turns, TaskLimits!Fits(t) PROVE Reservable(t)
    BY DEF RefusedOnlyIfBusy
  <2>1. {u \in Turns : Alive(u)} = RegisteredTurns
    BY AliveAreInflight DEF TurnInv
  <2>2. TaskLimits!Cardinality(RegisteredTurns) = Limits!Cardinality(RegisteredTurns)
    BY DEF TaskLimits!Cardinality, Limits!Cardinality
  <2>3. Limits!Fits(t)
    BY <2>1, <2>2 DEF TaskLimits!Fits, TaskLimits!Conflict, Limits!Fits, Limits!Conflict
  <2> QED
    BY <2>3, ReservableIffFits DEF TurnInv
<1> QED
  BY <1>1, TurnInvariant, PTL

-----------------------------------------------------------------------------
(* The queue *)

\* The contract of a queue e, of a task suspended at place and stopped for reason.
\* To EventsKeepContract it adds that a queue without a stop has no TurnStopped, and
\* that a queue with one has it.
QueueOK(e, place, reason) ==
  /\ place = "done" => Len(e) > 0 /\ e[Len(e)].kind = "ended"
  /\ \A i \in 1..Len(e) :
       /\ e[i].kind = "ended" => i = Len(e) /\ place = "done" /\ e[i].reason = reason
       /\ e[i].kind = "stopped" =>
            /\ e[i].reason = reason
            /\ reason # "none"
            /\ \A j \in i + 1 .. Len(e) : e[j].kind = "ended"
  /\ reason # "none" => \E i \in 1..Len(e) : e[i].kind = "stopped"

\* Between the stop and the runner's cleanup the cancel is pending, so that nothing
\* the runner yields can follow TurnStopped.
StoppedIsPending(t) ==
  stopReason[t] # "none" =>
    \/ main[t] \in {"closing", "leaving", "done"}
    \/ main[t] \in Suspended /\ cancelling[t]

QueueInvAt(t) == QueueOK(events[t], main[t], stopReason[t]) /\ StoppedIsPending(t)
QueueInv == \A t \in Turns : QueueInvAt(t)

-----------------------------------------------------------------------------
(* What each kind of append does to the contract *)

LEMMA QueueMoves ==
  ASSUME NEW e, NEW place, NEW there, NEW reason,
         QueueOK(e, place, reason), place # "done", there # "done"
  PROVE  QueueOK(e, there, reason)
  BY DEF QueueOK

LEMMA QueueYields ==
  ASSUME NEW e \in Seq(Items), NEW place, place # "done", NEW kind \in {"progress", "done"},
         QueueOK(e, place, "none")
  PROVE  QueueOK(Append(e, Yielded(kind)), place, "none")
  BY ItemTypes DEF QueueOK, Yielded, Item

LEMMA QueueEnds ==
  ASSUME NEW e \in Seq(Items), NEW place, place # "done", NEW reason, NEW err,
         QueueOK(e, place, reason)
  PROVE  QueueOK(Append(e, Ended(reason, err)), "done", reason)
<1> DEFINE f == Append(e, Ended(reason, err))
<1>1. /\ Len(f) = Len(e) + 1 /\ Len(e) \in Nat
      /\ \A i \in 1..Len(e) : f[i] = e[i]
      /\ f[Len(e) + 1].kind = "ended" /\ f[Len(e) + 1].reason = reason
  BY DEF Ended, Item
<1>2. \A i \in 1..Len(e) : e[i].kind # "ended"
  BY DEF QueueOK
<1> HIDE DEF f
<1>3. QueueOK(f, "done", reason)
  BY <1>1, <1>2 DEF QueueOK
<1> QED
  BY <1>3 DEF f

LEMMA QueueStops ==
  ASSUME NEW e \in Seq(Items), NEW place, place # "done", NEW reason, reason # "none",
         QueueOK(e, place, "none")
  PROVE  QueueOK(Append(e, Stopped(reason)), place, reason)
<1> DEFINE f == Append(e, Stopped(reason))
<1>1. /\ Len(f) = Len(e) + 1 /\ Len(e) \in Nat
      /\ \A i \in 1..Len(e) : f[i] = e[i]
      /\ f[Len(e) + 1].kind = "stopped" /\ f[Len(e) + 1].reason = reason
  BY DEF Stopped, Item
<1>2. \A i \in 1..Len(e) : e[i].kind \notin {"ended", "stopped"}
  BY DEF QueueOK
<1> HIDE DEF f
<1>3. QueueOK(f, place, reason)
  BY <1>1, <1>2 DEF QueueOK
<1> QED
  BY <1>3 DEF f

\* stop appends one item, or two to the queue of a task that never began.
LEMMA StopAppends ==
  ASSUME NEW t \in Turns, NEW e \in Seq(Items), NEW reason \in StopReasons
  PROVE  e \o StopItems(t, reason) =
           IF t \in Unstarted({t})
             THEN Append(Append(e, Stopped(reason)), Ended(reason, "none"))
             ELSE Append(e, Stopped(reason))
<1>1. Stopped(reason) \in Items /\ Ended(reason, "none") \in Items
  BY ItemTypes DEF Errors
<1> DEFINE a == Stopped(reason)  b == Ended(reason, "none")
<1> HIDE DEF a, b
<1>2. <<a>> \in Seq(Items) /\ <<b>> \in Seq(Items)
  BY <1>1 DEF a, b
<1>3. e \o <<a>> = Append(e, a)
  BY <1>1 DEF a
<1>4. e \o (<<a>> \o <<b>>) = Append(Append(e, a), b)
  <2>1. e \o (<<a>> \o <<b>>) = (e \o <<a>>) \o <<b>>
    BY <1>2, ConcatAssociative
  <2>2. Append(e, a) \in Seq(Items)
    BY <1>1 DEF a
  <2>3. Append(e, a) \o <<b>> = Append(Append(e, a), b)
    BY <1>1, <2>2 DEF b
  <2> QED
    BY <1>3, <2>1, <2>3
<1>5. <<a>> \o <<>> = <<a>>
  BY <1>2, ConcatEmptySeq
<1> QED
  BY <1>3, <1>4, <1>5 DEF StopItems, a, b

-----------------------------------------------------------------------------
(* What each step does to the queues *)

\* A turn none of whose variables changes.
LEMMA QueueUntouched ==
  ASSUME NEW t \in Turns, QueueInvAt(t), main'[t] = main[t],
         stopReason'[t] = stopReason[t], cancelling'[t] = cancelling[t],
         events'[t] = events[t]
  PROVE  QueueInvAt(t)'
  BY DEF QueueInvAt, StoppedIsPending

LEMMA QueueEndTask ==
  ASSUME TaskTypeOK, QueueInv, NEW t \in Turns, main[t] # "done", NEW err \in Errors,
         EndTask(t, err), stopReason' = stopReason,
         \A u \in Turns : u # t => cancelling'[u] = cancelling[u]
  PROVE  QueueInv'
<1> SUFFICES ASSUME NEW u \in Turns PROVE QueueInvAt(u)'
  BY DEF QueueInv
<1>1. CASE u # t
  BY <1>1, QueueUntouched DEF EndTask, QueueInv, TaskTypeOK
<1>2. CASE u = t
  <2>1. /\ main'[t] = "done"
        /\ events'[t] = Append(events[t], Ended(stopReason[t], err))
        /\ events[t] \in Seq(Items)
    BY QueueType DEF EndTask, TaskTypeOK
  <2>2. QueueOK(events'[t], main'[t], stopReason'[t])
    BY <2>1, QueueEnds DEF QueueInv, QueueInvAt
  <2> QED
    BY <1>2, <2>1, <2>2 DEF QueueInvAt, StoppedIsPending
<1> QED
  BY <1>1, <1>2

\* The task goes on without an item put on its queue.
LEMMA QueueTaskMoves ==
  ASSUME TaskTypeOK, QueueInv, NEW t \in Turns, NEW there \in Places \ {"done"},
         main[t] # "done", main' = [main EXCEPT ![t] = there],
         stopReason[t] = "none" \/ there \in {"closing", "leaving"},
         UNCHANGED <<stopReason, events>>,
         \A u \in Turns : u # t => cancelling'[u] = cancelling[u]
  PROVE  QueueInv'
<1> SUFFICES ASSUME NEW u \in Turns PROVE QueueInvAt(u)'
  BY DEF QueueInv
<1>1. CASE u # t
  BY <1>1, QueueUntouched DEF QueueInv, TaskTypeOK
<1>2. CASE u = t
  <2>1. main'[t] = there /\ stopReason'[t] = stopReason[t] /\ events'[t] = events[t]
    BY DEF TaskTypeOK
  <2>2. QueueOK(events'[t], main'[t], stopReason'[t])
    BY <2>1, QueueMoves DEF QueueInv, QueueInvAt
  <2> QED
    BY <1>2, <2>1, <2>2 DEF QueueInvAt, StoppedIsPending
<1> QED
  BY <1>1, <1>2

LEMMA QueueCloseWorkspace ==
  ASSUME TaskTypeOK, QueueInv, NEW t \in Turns, main[t] # "done", NEW err \in Errors,
         CloseWorkspace(t, err), stopReason' = stopReason,
         \A u \in Turns : u # t => cancelling'[u] = cancelling[u]
  PROVE  QueueInv'
<1>1. CASE t \in Stateless
  BY <1>1, QueueTaskMoves DEF CloseWorkspace, Places
<1>2. CASE t \notin Stateless
  BY <1>2, QueueEndTask DEF CloseWorkspace
<1> QED
  BY <1>1, <1>2

LEMMA QueueTaskRuns ==
  ASSUME TaskTypeOK, QueueInv, NEW t \in Turns, TaskRuns(t)
  PROVE  QueueInv'
<1> USE DEF At, historyVars
<1>0. /\ {"none", "sdk_error", "internal", "cancelled"} = Errors
      /\ {"workspace", "opening", "running", "recording", "closing", "leaving"}
           \subseteq Places \ {"done"}
      /\ stopReason[t] # "none" =>
           main[t] \in {"closing", "leaving", "done"} \/ (main[t] # "created" /\ cancelling[t])
      /\ error[t] \in Errors
  BY DEF Errors, Places, Suspended, QueueInv, QueueInvAt, StoppedIsPending, TaskTypeOK
<1>1. ASSUME FirstStep(t) PROVE QueueInv'
  BY <1>0, <1>1, QueueTaskMoves DEF FirstStep
<1>2. ASSUME FirstStepFails(t) PROVE QueueInv'
  BY <1>0, <1>2, QueueEndTask DEF FirstStepFails
<1>3. ASSUME WorkspaceReady(t) PROVE QueueInv'
  BY <1>0, <1>3, QueueTaskMoves DEF WorkspaceReady
<1>4. ASSUME WorkspaceFails(t) PROVE QueueInv'
  BY <1>0, <1>4, QueueEndTask DEF WorkspaceFails
<1>5. ASSUME CliSpawned(t) PROVE QueueInv'
  BY <1>0, <1>5, QueueTaskMoves DEF CliSpawned
<1>6. ASSUME OpeningFails(t) PROVE QueueInv'
  BY <1>0, <1>6, QueueCloseWorkspace DEF OpeningFails
<1>7. ASSUME RunnerYields(t) PROVE QueueInv'
  <2> SUFFICES ASSUME NEW u \in Turns PROVE QueueInvAt(u)'
    BY DEF QueueInv
  <2>1. CASE u # t
    BY <1>7, <2>1, QueueUntouched DEF RunnerYields, QueueInv, TaskTypeOK
  <2>2. CASE u = t
    <3>1. PICK kind \in {"progress", "done"} :
            events' = [events EXCEPT ![t] = Append(@, Yielded(kind))]
      BY <1>7 DEF RunnerYields
    <3>2. events[t] \in Seq(Items) /\ events'[t] = Append(events[t], Yielded(kind))
      BY <3>1, QueueType
    <3>3. main[t] # "done" /\ stopReason[t] = "none"
      BY <1>0, <1>7 DEF RunnerYields
    <3>4. QueueOK(events[t], main[t], "none")
      BY <3>3 DEF QueueInv, QueueInvAt
    <3>5. QueueOK(events'[t], main[t], "none")
      BY <3>2, <3>3, <3>4, QueueYields
    <3>6. main' = main /\ stopReason' = stopReason
      BY <1>7 DEF RunnerYields
    <3> QED
      BY <2>2, <3>3, <3>5, <3>6 DEF QueueInvAt, StoppedIsPending
  <2> QED
    BY <2>1, <2>2
<1>12. ASSUME RecordingBegins(t) PROVE QueueInv'
  BY <1>0, <1>12, QueueTaskMoves DEF RecordingBegins
<1>13. ASSUME RecordingEnds(t) PROVE QueueInv'
  <2> SUFFICES ASSUME NEW u \in Turns PROVE QueueInvAt(u)'
    BY DEF QueueInv
  <2>1. CASE u # t
    BY <1>13, <2>1, QueueUntouched DEF RecordingEnds, QueueInv, TaskTypeOK
  <2>2. CASE u = t
    <3>1. /\ events[t] \in Seq(Items)
          /\ events'[t] = Append(events[t], Yielded("progress"))
          /\ main'[t] = "running" /\ stopReason' = stopReason
      BY <1>13, QueueType DEF RecordingEnds, TaskTypeOK
    <3>2. main[t] # "done" /\ stopReason[t] = "none"
      BY <1>0, <1>13 DEF RecordingEnds
    <3>3. QueueOK(events[t], "running", "none")
      BY <3>2, QueueMoves DEF QueueInv, QueueInvAt
    <3>4. QueueOK(events'[t], "running", "none")
      BY <3>1, <3>3, QueueYields
    <3> QED
      BY <2>2, <3>1, <3>2, <3>4 DEF QueueInvAt, StoppedIsPending
  <2> QED
    BY <2>1, <2>2
<1>8. ASSUME RunnerEnds(t) PROVE QueueInv'
  BY <1>0, <1>8, QueueTaskMoves DEF RunnerEnds
<1>9. ASSUME RunnerClosed(t) PROVE QueueInv'
  BY <1>0, <1>9, QueueCloseWorkspace DEF RunnerClosed
<1>10. ASSUME WorkspaceLeft(t) PROVE QueueInv'
  BY <1>0, <1>10, QueueEndTask DEF WorkspaceLeft
<1>11. ASSUME CancelLands(t) PROVE QueueInv'
  <2>0. Delivered(t) => \A u \in Turns : u # t => cancelling'[u] = cancelling[u]
    BY DEF Delivered, TaskTypeOK
  <2>1. ASSUME CancelInWorkspace(t) PROVE QueueInv'
    BY <1>0, <2>0, <2>1, QueueEndTask DEF CancelInWorkspace
  <2>2. ASSUME CancelInOpening(t) PROVE QueueInv'
    BY <1>0, <2>0, <2>2, QueueCloseWorkspace DEF CancelInOpening
  <2>3. ASSUME CancelInRunning(t) PROVE QueueInv'
    BY <1>0, <2>0, <2>3, QueueTaskMoves DEF CancelInRunning
  <2>4. ASSUME CancelInClosing(t) PROVE QueueInv'
    BY <1>0, <2>0, <2>4, QueueCloseWorkspace DEF CancelInClosing
  <2>5. ASSUME CancelInLeaving(t) PROVE QueueInv'
    BY <1>0, <2>0, <2>5, QueueEndTask DEF CancelInLeaving
  <2>6. ASSUME CancelInRecording(t) PROVE QueueInv'
    <3>1. CASE Provider = "codex"
      BY <1>0, <2>0, <2>6, <3>1, QueueTaskMoves DEF CancelInRecording
    <3>2. CASE Provider # "codex"
      BY <1>0, <2>0, <2>6, <3>2, QueueCloseWorkspace DEF CancelInRecording
    <3> QED
      BY <3>1, <3>2
  <2> QED
    BY <1>11, <2>1, <2>2, <2>3, <2>4, <2>5, <2>6 DEF CancelLands
<1> QED
  BY <1>1, <1>2, <1>3, <1>4, <1>5, <1>6, <1>7, <1>8, <1>9, <1>10, <1>11, <1>12, <1>13
  DEF TaskRuns

LEMMA QueueStop ==
  ASSUME TaskTypeOK, QueueInv, NEW S \in SUBSET Turns, NEW reason \in StopReasons,
         Stop(S, reason)
  PROVE  QueueInv'
<1> SUFFICES ASSUME NEW u \in Turns PROVE QueueInvAt(u)'
  BY DEF QueueInv
<1>0. QueueInvAt(u) /\ reason # "none" /\ events[u] \in Seq(Items)
  BY QueueType DEF QueueInv, StopReasons
<1>1. CASE u \in S /\ Stoppable(u)
  <2>1. /\ stopReason[u] = "none" /\ main[u] \in Suspended \cup {"created"}
        /\ main[u] # "done"
    BY <1>1 DEF Stoppable, Alive, Suspended
  <2>2. /\ stopReason'[u] = reason
        /\ events'[u] = events[u] \o StopItems(u, reason)
        /\ u \in Unstarted(S) <=> main[u] = "created"
        /\ u \in Unstarted({u}) <=> main[u] = "created"
    BY <1>1 DEF Stop, Unstarted
  <2>3. QueueOK(Append(events[u], Stopped(reason)), main[u], reason)
    BY <1>0, <2>1, QueueStops DEF QueueInvAt
  <2>4. CASE main[u] = "created"
    <3>1. events'[u] = Append(Append(events[u], Stopped(reason)), Ended(reason, "none"))
      BY <1>0, <2>2, <2>4, StopAppends
    <3>2. Append(events[u], Stopped(reason)) \in Seq(Items)
      BY <1>0, ItemTypes
    <3>3. QueueOK(events'[u], "done", reason)
      BY <2>1, <2>3, <3>1, <3>2, QueueEnds
    <3>4. main'[u] = "done"
      BY <2>2, <2>4 DEF Stop
    <3> QED
      BY <2>2, <3>3, <3>4 DEF QueueInvAt, StoppedIsPending
  <2>5. CASE main[u] # "created"
    <3>1. events'[u] = Append(events[u], Stopped(reason))
      BY <1>0, <2>2, <2>5, StopAppends
    <3>2. main'[u] = main[u] /\ cancelling'[u] = TRUE
      BY <1>1, <2>2, <2>5 DEF Stop
    <3> QED
      BY <2>1, <2>2, <2>3, <2>5, <3>1, <3>2 DEF QueueInvAt, StoppedIsPending
  <2> QED
    BY <2>4, <2>5
<1>2. CASE ~(u \in S /\ Stoppable(u))
  BY <1>0, <1>2, QueueUntouched DEF Stop, Unstarted
<1> QED
  BY <1>1, <1>2

LEMMA QueueStopCalled ==
  ASSUME TurnTypeOK, QueueInv, StopCalled
  PROVE  QueueInv'
<1> USE TypeSplits
<1>1. ASSUME NEW t \in Turns, Timeout(t) PROVE QueueInv'
  BY <1>1, QueueStop DEF Timeout, StopReasons
<1>2. ASSUME NEW k \in Keys, CancelRequest(k) PROVE QueueInv'
  <2>1. bySession[k] \in Turns /\ Stop({bySession[k]}, "cancelled")
    BY <1>2 DEF CancelRequest, AdmissionTypeOK
  <2> QED
    BY <2>1, QueueStop DEF StopReasons
<1>3. ASSUME NEW t \in Turns, NEW reason \in {"disconnected", "shutdown"},
             StopFromStream(t, reason)
      PROVE  QueueInv'
  BY <1>3, QueueStop DEF StopFromStream, StopReasons
<1>4. ASSUME StopAll PROVE QueueInv'
  BY <1>4, QueueStop DEF StopAll, RegisteredTurns, StopReasons
<1>5. ASSUME NEW S \in SUBSET Turns, ForceCancel(S) PROVE QueueInv'
  BY <1>5 DEF ForceCancel, QueueInv, QueueInvAt, StoppedIsPending, TaskTypeOK
<1> QED
  BY <1>1, <1>2, <1>3, <1>4, <1>5 DEF StopCalled

LEMMA QueueNext ==
  ASSUME TurnTypeOK, QueueInv, [TurnNext]_turnVars
  PROVE  QueueInv'
<1> USE TypeSplits
<1>1. ASSUME NEW t \in Turns, Accept(t) \/ Refuse(t) PROVE QueueInv'
  <2>1. /\ main[t] = "new" /\ stopReason[t] = "none"
        /\ UNCHANGED <<stopReason, events, cancelling>>
    BY <1>1 DEF Accept, Refuse, QueueInv, QueueInvAt, StoppedIsPending, Suspended
  <2>2. {"created", "refused"} \subseteq Places \ {"done"}
    BY DEF Places
  <2> QED
    BY <1>1, <2>1, <2>2, QueueTaskMoves DEF Accept, Refuse
<1>2. ASSUME NEW t \in Turns, WorldMoves(t) PROVE QueueInv'
  BY <1>2
  DEF WorldMoves, CliExits, RmtreeEnds, QueueInv, QueueInvAt, StoppedIsPending, taskVars
<1>3. ASSUME NEW k \in Keys, DeleteBegins(k) \/ DeleteEnds(k) PROVE QueueInv'
  BY <1>3
  DEF DeleteBegins, DeleteEnds, QueueInv, QueueInvAt, StoppedIsPending, taskVars
<1>4. CASE UNCHANGED turnVars
  BY <1>4 DEF turnVars, taskVars, QueueInv, QueueInvAt, StoppedIsPending
<1> QED
  BY <1>1, <1>2, <1>3, <1>4, QueueTaskRuns, QueueStopCalled DEF TurnNext

LEMMA QueueInit == TurnInit => QueueInv
<1>1. Len(<<>>) = 0
  OBVIOUS
<1> QED
  BY <1>1 DEF TurnInit, QueueInv, QueueInvAt, QueueOK, StoppedIsPending

-----------------------------------------------------------------------------
\* The queue of every turn has its one end and its announcement, on every path of _main and
\* stop.
THEOREM QueueInvariant == TurnSpec => []QueueInv
<1>1. TurnInv /\ QueueInv /\ [TurnNext]_turnVars => QueueInv'
  BY QueueNext DEF TurnInv
<1> QED
  BY <1>1, QueueInit, TurnInvariant, PTL DEF TurnSpec

\* Runner events, at most one TurnStopped and after it only TurnEnded, exactly one
\* TurnEnded, last, put there in the step that ends the task.
THEOREM QueueContract == TurnSpec => []EventsKeepContract
<1>1. QueueInv => EventsKeepContract
  BY DEF QueueInv, QueueInvAt, QueueOK, EventsKeepContract
<1> QED
  BY <1>1, QueueInvariant, PTL

\* A stop is on the queue in the step that makes it.
THEOREM StopsAreAnnounced == TurnSpec => []StopIsAnnounced
<1>1. QueueInv => StopIsAnnounced
  BY DEF QueueInv, QueueInvAt, QueueOK, StopIsAnnounced
<1> QED
  BY <1>1, QueueInvariant, PTL
-----------------------------------------------------------------------------
(* The CLI *)

\* The invariant that carries it: the only task that leaves its runner with the CLI
\* running is one whose cleanup, or whose runner at its yield, a cancel reached, and
\* such a cancel has left its mark in stoppedIn or in forced.  For that, the first stop
\* must be the one that sets stoppedIn.
FirstStopIsRemembered(t) == stopReason[t] = "none" => stoppedIn[t] = "none"

CancelOfCleanupIsMarked(t) ==
  main[t] \in {"recording", "closing"} /\ cancelling[t] =>
    forced[t] \/ stoppedIn[t] = main[t]

CliStaysInRunner(t) ==
  cli[t] = "running" => main[t] \in {"running", "recording", "closing"} \/ LeavesCli(t)

CutOK(t) == FirstStopIsRemembered(t) /\ CancelOfCleanupIsMarked(t) /\ CliStaysInRunner(t)

CutInv == \A t \in Turns : CutOK(t)

USE DEF CutOK, FirstStopIsRemembered, CancelOfCleanupIsMarked, CliStaysInRunner, LeavesCli

-----------------------------------------------------------------------------
LEMMA CutInit == TurnInit => CutInv
  BY DEF TurnInit, CutInv

\* A turn none of whose variables changes.
LEMMA CutUntouched ==
  ASSUME NEW t \in Turns, CutOK(t), main'[t] = main[t], stopReason'[t] = stopReason[t],
         cancelling'[t] = cancelling[t], cli'[t] = cli[t],
         stoppedIn'[t] = stoppedIn[t], forced'[t] = forced[t]
  PROVE  CutOK(t)'
  OBVIOUS

\* The task leaves its runner, or its body, for good: what is left to show is that
\* the CLI is not running, or was cut.
LEMMA CutCloseWorkspace ==
  ASSUME TaskTypeOK, NEW t \in Turns, NEW err, CloseWorkspace(t, err) \/ EndTask(t, err)
  PROVE  /\ main' = [main EXCEPT ![t] = main'[t]]
         /\ main'[t] \in {"leaving", "done"}
<1>1. CASE EndTask(t, err)
  BY <1>1 DEF EndTask, TaskTypeOK
<1>2. CASE CloseWorkspace(t, err) /\ t \in Stateless
  BY <1>2 DEF CloseWorkspace, TaskTypeOK
<1>3. CASE CloseWorkspace(t, err) /\ t \notin Stateless
  BY <1>1, <1>3 DEF CloseWorkspace
<1> QED
  BY <1>1, <1>2, <1>3

LEMMA CutTaskRuns ==
  ASSUME TaskTypeOK, CutInv, NEW t \in Turns, TaskRuns(t)
  PROVE  CutInv'
<1> SUFFICES ASSUME NEW u \in Turns PROVE CutOK(u)'
  BY DEF CutInv
<1> USE DEF historyVars, worldVars, At, Delivered, TaskTypeOK
<1>0. CutOK(u)
  BY DEF CutInv
<1>1. ASSUME FirstStep(t) PROVE CutOK(u)'
  BY <1>0, <1>1 DEF FirstStep
<1>2. ASSUME FirstStepFails(t) PROVE CutOK(u)'
  BY <1>0, <1>2, CutCloseWorkspace, ZenonT(40) DEF FirstStepFails
<1>3. ASSUME WorkspaceReady(t) PROVE CutOK(u)'
  BY <1>0, <1>3 DEF WorkspaceReady
<1>4. ASSUME WorkspaceFails(t) PROVE CutOK(u)'
  BY <1>0, <1>4, CutCloseWorkspace, ZenonT(40) DEF WorkspaceFails
<1>5. ASSUME CliSpawned(t) PROVE CutOK(u)'
  BY <1>0, <1>5 DEF CliSpawned
<1>6. ASSUME OpeningFails(t) PROVE CutOK(u)'
  BY <1>0, <1>6, CutCloseWorkspace, ZenonT(40) DEF OpeningFails
<1>7. ASSUME RunnerYields(t) PROVE CutOK(u)'
  BY <1>0, <1>7 DEF RunnerYields
<1>12. ASSUME RecordingBegins(t) \/ RecordingEnds(t) PROVE CutOK(u)'
  BY <1>0, <1>12 DEF RecordingBegins, RecordingEnds
<1>8. ASSUME RunnerEnds(t) PROVE CutOK(u)'
  BY <1>0, <1>8 DEF RunnerEnds
<1>9. ASSUME RunnerClosed(t) PROVE CutOK(u)'
  BY <1>0, <1>9, CutCloseWorkspace DEF RunnerClosed
<1>10. ASSUME WorkspaceLeft(t) PROVE CutOK(u)'
  BY <1>0, <1>10, CutCloseWorkspace, ZenonT(40) DEF WorkspaceLeft
<1>11. ASSUME CancelLands(t) PROVE CutOK(u)'
  <2>1. ASSUME CancelInWorkspace(t) PROVE CutOK(u)'
    BY <1>0, <2>1, CutCloseWorkspace DEF CancelInWorkspace
  <2>2. ASSUME CancelInOpening(t) PROVE CutOK(u)'
    BY <1>0, <2>2, CutCloseWorkspace DEF CancelInOpening
  <2>3. ASSUME CancelInRunning(t) PROVE CutOK(u)'
    BY <1>0, <2>3 DEF CancelInRunning
  <2>4. ASSUME CancelInClosing(t) PROVE CutOK(u)'
    BY <1>0, <2>4, CutCloseWorkspace, ZenonT(40) DEF CancelInClosing
  <2>5. ASSUME CancelInLeaving(t) PROVE CutOK(u)'
    BY <1>0, <2>5, CutCloseWorkspace DEF CancelInLeaving
  <2>6. ASSUME CancelInRecording(t) PROVE CutOK(u)'
    <3>1. CASE Provider = "codex"
      BY <1>0, <2>6, <3>1 DEF CancelInRecording
    <3>2. CASE Provider # "codex"
      <4>1. Provider = "claude"
        BY <3>2, TurnAssumption
      <4> QED
        BY <1>0, <2>6, <3>2, <4>1, CutCloseWorkspace DEF CancelInRecording
    <3> QED
      BY <3>1, <3>2
  <2> QED
    BY <1>11, <2>1, <2>2, <2>3, <2>4, <2>5, <2>6 DEF CancelLands
<1> QED
  BY <1>1, <1>2, <1>3, <1>4, <1>5, <1>6, <1>7, <1>8, <1>9, <1>10, <1>11, <1>12 DEF TaskRuns

\* A first stop that finds the runner closing leaves its mark.
LEMMA CutStop ==
  ASSUME TaskTypeOK, CutInv, NEW S \in SUBSET Turns, NEW reason \in StopReasons,
         Stop(S, reason)
  PROVE  CutInv'
<1> SUFFICES ASSUME NEW u \in Turns PROVE CutOK(u)'
  BY DEF CutInv
<1>0. CutOK(u) /\ reason # "none"
  BY DEF CutInv, StopReasons
<1>1. CASE u \in S /\ Stoppable(u) /\ main[u] = "created"
  <2>1. /\ main'[u] = "done" /\ stopReason'[u] = reason
        /\ cli'[u] = cli[u] /\ forced'[u] = forced[u]
    BY <1>1 DEF Stop, Unstarted, worldVars
  <2>2. cli[u] = "running" => LeavesCli(u)
    BY <1>0, <1>1
  <2>3. stoppedIn[u] # "none" => stoppedIn'[u] = stoppedIn[u]
    BY DEF Stop
  <2> QED
    BY <1>0, <2>1, <2>2, <2>3
<1>2. CASE u \in S /\ Stoppable(u) /\ main[u] # "created"
  <2>1. /\ main'[u] = main[u] /\ stopReason'[u] = reason /\ stoppedIn'[u] = main[u]
        /\ cli'[u] = cli[u] /\ forced'[u] = forced[u]
    BY <1>0, <1>2 DEF Stop, Unstarted, Stoppable, worldVars
  <2>2. stoppedIn[u] = "none"
    BY <1>0, <1>2 DEF Stoppable
  <2> QED
    BY <1>0, <2>1, <2>2
<1>3. CASE ~(u \in S /\ Stoppable(u))
  BY <1>0, <1>3, CutUntouched DEF Stop, Unstarted, worldVars
<1> QED
  BY <1>1, <1>2, <1>3

LEMMA CutStopCalled ==
  ASSUME TurnTypeOK, CutInv, StopCalled
  PROVE  CutInv'
<1> USE TypeSplits
<1>1. ASSUME NEW t \in Turns, Timeout(t) PROVE CutInv'
  BY <1>1, CutStop DEF Timeout, StopReasons
<1>2. ASSUME NEW k \in Keys, CancelRequest(k) PROVE CutInv'
  <2>1. bySession[k] \in Turns /\ Stop({bySession[k]}, "cancelled")
    BY <1>2 DEF CancelRequest, AdmissionTypeOK
  <2> QED
    BY <2>1, CutStop DEF StopReasons
<1>3. ASSUME NEW t \in Turns, NEW reason \in {"disconnected", "shutdown"},
             StopFromStream(t, reason)
      PROVE  CutInv'
  BY <1>3, CutStop DEF StopFromStream, StopReasons
<1>4. ASSUME StopAll PROVE CutInv'
  BY <1>4, CutStop DEF StopAll, RegisteredTurns, StopReasons
<1>5. ASSUME NEW S \in SUBSET Turns, ForceCancel(S) PROVE CutInv'
  BY <1>5 DEF ForceCancel, CutInv, TaskTypeOK, worldVars, Suspended
<1> QED
  BY <1>1, <1>2, <1>3, <1>4, <1>5 DEF StopCalled

LEMMA CutNext ==
  ASSUME TurnTypeOK, CutInv, [TurnNext]_turnVars
  PROVE  CutInv'
<1> USE TypeSplits
<1>1. ASSUME NEW t \in Turns, Accept(t) \/ Refuse(t) PROVE CutInv'
  BY <1>1, ZenonT(40) DEF Accept, Refuse, CutInv, TaskTypeOK, worldVars, historyVars
<1>2. ASSUME NEW t \in Turns, WorldMoves(t) PROVE CutInv'
  BY <1>2
  DEF WorldMoves, CliExits, RmtreeEnds, CutInv, TaskTypeOK, taskVars, historyVars
<1>3. ASSUME NEW k \in Keys, DeleteBegins(k) \/ DeleteEnds(k) PROVE CutInv'
  BY <1>3 DEF DeleteBegins, DeleteEnds, CutInv, taskVars, worldVars, historyVars
<1>4. CASE UNCHANGED turnVars
  BY <1>4 DEF turnVars, CutInv, taskVars, worldVars, historyVars
<1> QED
  BY <1>1, <1>2, <1>3, <1>4, CutTaskRuns, CutStopCalled DEF TurnNext

-----------------------------------------------------------------------------
\* A CLI runs without its reservation only if a cancel kept the runner from closing it.
THEOREM CliIsContained == TurnSpec => []CliOutlivesOnlyCutCleanup
<1>1. TurnInit => CutInv
  BY CutInit
<1>2. TurnInv /\ CutInv /\ [TurnNext]_turnVars => CutInv'
  BY CutNext DEF TurnInv
<1>3. TurnInv /\ CutInv => CliOutlivesOnlyCutCleanup
  <2> SUFFICES ASSUME TurnInv, CutInv, NEW t \in Turns, cli[t] = "running", ~Registered(t)
               PROVE  LeavesCli(t)
    BY DEF CliOutlivesOnlyCutCleanup
  <2>1. main[t] \notin {"running", "recording", "closing"}
    BY DEF TurnInv, HeldWhileAlive, Alive, Suspended
  <2> QED
    BY <2>1 DEF CutInv
<1> QED
  BY <1>1, <1>2, <1>3, TurnInvariant, PTL DEF TurnSpec
-----------------------------------------------------------------------------
(* The directory of a stateless turn *)

\* A removal is begun before the task ends, and only a marked cancel keeps the task from
\* seeing its end; only stateless turns have a directory, and these record no session id.
DirMarked(t) == forced[t] \/ stoppedIn[t] \in {"closing", "leaving"}

DirOK(t) ==
  /\ dir[t] # "none" => t \in Stateless
  /\ t \in Stateless => main[t] # "recording" /\ stoppedIn[t] # "recording"
  /\ dir[t] = "present" => main[t] \in {"opening", "running", "closing"}
  /\ dir[t] = "removing" => main[t] = "leaving" \/ (main[t] = "done" /\ DirMarked(t))
  /\ dir[t] = "kept" => DirMarked(t)
  /\ main[t] = "leaving" /\ cancelling[t] => DirMarked(t)
  /\ main[t] \in {"new", "created", "workspace"} => dir[t] = "none"

DirInv == \A t \in Turns : DirOK(t)

USE DEF DirOK, DirMarked

LEMMA DirInit == TurnInit => DirInv
  BY DEF TurnInit, DirInv

LEMMA DirUntouched ==
  ASSUME NEW t \in Turns, DirOK(t), main'[t] = main[t], dir'[t] = dir[t],
         cancelling'[t] = cancelling[t], stoppedIn'[t] = stoppedIn[t], forced'[t] = forced[t]
  PROVE  DirOK(t)'
  OBVIOUS

\* Leaving the runner begins the removal, with no cancel pending.
LEMMA DirCloseWorkspace ==
  ASSUME TaskTypeOK, NEW t \in Turns, DirOK(t), NEW err, CloseWorkspace(t, err),
         ~cancelling'[t], UNCHANGED historyVars,
         main[t] \in {"opening", "running", "recording", "closing"}
  PROVE  DirOK(t)'
<1> USE DEF historyVars, TaskTypeOK
<1>1. CASE t \in Stateless
  BY <1>1 DEF CloseWorkspace
<1>2. CASE t \notin Stateless
  BY <1>2 DEF CloseWorkspace, EndTask
<1> QED
  BY <1>1, <1>2

LEMMA DirCloseWorkspaceOfOther ==
  ASSUME TaskTypeOK, NEW t \in Turns, NEW u \in Turns, u # t,
         NEW err, CloseWorkspace(t, err) \/ EndTask(t, err)
  PROVE  main'[u] = main[u] /\ (CloseWorkspace(t, err) => dir'[u] = dir[u])
<1> USE DEF TaskTypeOK
<1>1. CASE EndTask(t, err)
  BY <1>1 DEF EndTask, CloseWorkspace
<1>2. CASE CloseWorkspace(t, err)
  BY <1>2 DEF CloseWorkspace, EndTask
<1> QED
  BY <1>1, <1>2

LEMMA DirLeavesRunner ==
  ASSUME TaskTypeOK, DirInv, NEW t \in Turns, NEW u \in Turns, NEW err,
         CloseWorkspace(t, err), UNCHANGED historyVars,
         ~cancelling'[t], \A v \in Turns : v # t => cancelling'[v] = cancelling[v],
         main[t] \in {"opening", "running", "recording", "closing"}
  PROVE  DirOK(u)'
<1>1. DirOK(u) /\ DirOK(t)
  BY DEF DirInv
<1>2. CASE u = t
  BY <1>1, <1>2, DirCloseWorkspace
<1>3. CASE u # t
  BY <1>1, <1>3, DirCloseWorkspaceOfOther, DirUntouched DEF historyVars
<1> QED
  BY <1>2, <1>3

LEMMA DirTaskRuns ==
  ASSUME TaskTypeOK, DirInv, NEW t \in Turns, TaskRuns(t)
  PROVE  DirInv'
<1> SUFFICES ASSUME NEW u \in Turns PROVE DirOK(u)'
  BY DEF DirInv
<1> USE DEF historyVars, worldVars, At, Delivered, TaskTypeOK
<1>0. DirOK(u) /\ DirOK(t)
  BY DEF DirInv
<1>1. ASSUME FirstStep(t) PROVE DirOK(u)'
  BY <1>0, <1>1 DEF FirstStep
<1>2. ASSUME FirstStepFails(t) PROVE DirOK(u)'
  BY <1>0, <1>2 DEF FirstStepFails, EndTask
<1>3. ASSUME WorkspaceReady(t) PROVE DirOK(u)'
  BY <1>0, <1>3 DEF WorkspaceReady
<1>4. ASSUME WorkspaceFails(t) PROVE DirOK(u)'
  BY <1>0, <1>4 DEF WorkspaceFails, EndTask
<1>5. ASSUME CliSpawned(t) PROVE DirOK(u)'
  BY <1>0, <1>5 DEF CliSpawned
<1>6. ASSUME OpeningFails(t) PROVE DirOK(u)'
  BY <1>6, DirLeavesRunner DEF OpeningFails
<1>7. ASSUME RunnerYields(t) PROVE DirOK(u)'
  BY <1>0, <1>7 DEF RunnerYields
<1>8. ASSUME RecordingBegins(t) \/ RecordingEnds(t) PROVE DirOK(u)'
  BY <1>0, <1>8 DEF RecordingBegins, RecordingEnds
<1>9. ASSUME RunnerEnds(t) PROVE DirOK(u)'
  BY <1>0, <1>9 DEF RunnerEnds
<1>10. ASSUME RunnerClosed(t) PROVE DirOK(u)'
  BY <1>10, DirLeavesRunner DEF RunnerClosed
<1>11. ASSUME WorkspaceLeft(t) PROVE DirOK(u)'
  BY <1>0, <1>11 DEF WorkspaceLeft, EndTask
<1>12. ASSUME CancelLands(t) PROVE DirOK(u)'
  <2>1. ASSUME CancelInWorkspace(t) PROVE DirOK(u)'
    BY <1>0, <2>1 DEF CancelInWorkspace, EndTask
  <2>2. ASSUME CancelInOpening(t) PROVE DirOK(u)'
    BY <2>2, DirLeavesRunner DEF CancelInOpening
  <2>3. ASSUME CancelInRunning(t) PROVE DirOK(u)'
    BY <1>0, <2>3 DEF CancelInRunning
  <2>4. ASSUME CancelInClosing(t) PROVE DirOK(u)'
    BY <2>4, DirLeavesRunner DEF CancelInClosing
  <2>5. ASSUME CancelInLeaving(t) PROVE DirOK(u)'
    BY <1>0, <2>5 DEF CancelInLeaving, EndTask
  <2>6. ASSUME CancelInRecording(t) PROVE DirOK(u)'
    <3>1. CASE Provider = "codex"
      BY <1>0, <2>6, <3>1 DEF CancelInRecording
    <3>2. CASE Provider # "codex"
      BY <2>6, <3>2, DirLeavesRunner DEF CancelInRecording
    <3> QED
      BY <3>1, <3>2
  <2> QED
    BY <1>12, <2>1, <2>2, <2>3, <2>4, <2>5, <2>6 DEF CancelLands
<1> QED
  BY <1>1, <1>2, <1>3, <1>4, <1>5, <1>6, <1>7, <1>8, <1>9, <1>10, <1>11, <1>12 DEF TaskRuns

\* A first stop that finds the task removing its directory leaves its mark.
LEMMA DirStop ==
  ASSUME TaskTypeOK, CutInv, DirInv, NEW S \in SUBSET Turns, NEW reason \in StopReasons,
         Stop(S, reason)
  PROVE  DirInv'
<1> SUFFICES ASSUME NEW u \in Turns PROVE DirOK(u)'
  BY DEF DirInv
<1>0. CutOK(u) /\ DirOK(u)
  BY DEF CutInv, DirInv
<1>1. CASE u \in S /\ Stoppable(u)
  <2>1. /\ stoppedIn[u] = "none" /\ stoppedIn'[u] = main[u]
        /\ dir'[u] = dir[u] /\ forced'[u] = forced[u]
        /\ main'[u] = IF main[u] = "created" THEN "done" ELSE main[u]
    BY <1>0, <1>1 DEF Stop, Unstarted, Stoppable, worldVars
  <2>2. CASE main[u] = "created"
    BY <1>0, <2>1, <2>2
  <2>3. CASE main[u] # "created"
    BY <1>0, <2>1, <2>3
  <2> QED
    BY <2>2, <2>3
<1>2. CASE ~(u \in S /\ Stoppable(u))
  BY <1>0, <1>2, DirUntouched DEF Stop, Unstarted, worldVars
<1> QED
  BY <1>1, <1>2

LEMMA DirStopCalled ==
  ASSUME TurnTypeOK, CutInv, DirInv, StopCalled
  PROVE  DirInv'
<1> USE TypeSplits
<1>1. ASSUME NEW t \in Turns, Timeout(t) PROVE DirInv'
  BY <1>1, DirStop DEF Timeout, StopReasons
<1>2. ASSUME NEW k \in Keys, CancelRequest(k) PROVE DirInv'
  <2>1. bySession[k] \in Turns /\ Stop({bySession[k]}, "cancelled")
    BY <1>2 DEF CancelRequest, AdmissionTypeOK
  <2> QED
    BY <2>1, DirStop DEF StopReasons
<1>3. ASSUME NEW t \in Turns, NEW reason \in {"disconnected", "shutdown"},
             StopFromStream(t, reason)
      PROVE  DirInv'
  BY <1>3, DirStop DEF StopFromStream, StopReasons
<1>4. ASSUME StopAll PROVE DirInv'
  BY <1>4, DirStop DEF StopAll, RegisteredTurns, StopReasons
<1>5. ASSUME NEW S \in SUBSET Turns, ForceCancel(S) PROVE DirInv'
  BY <1>5 DEF ForceCancel, DirInv, TaskTypeOK, worldVars, Suspended
<1> QED
  BY <1>1, <1>2, <1>3, <1>4, <1>5 DEF StopCalled

LEMMA DirNext ==
  ASSUME TurnTypeOK, CutInv, DirInv, [TurnNext]_turnVars
  PROVE  DirInv'
<1> USE TypeSplits
<1>1. ASSUME NEW t \in Turns, Accept(t) \/ Refuse(t) PROVE DirInv'
  BY <1>1 DEF Accept, Refuse, DirInv, TaskTypeOK, worldVars, historyVars
<1>2. ASSUME NEW t \in Turns, CliExits(t) PROVE DirInv'
  BY <1>2 DEF CliExits, DirInv, taskVars, historyVars
<1>3. ASSUME NEW t \in Turns, RmtreeEnds(t) PROVE DirInv'
  <2> SUFFICES ASSUME NEW u \in Turns PROVE DirOK(u)'
    BY DEF DirInv
  <2>1. CutOK(t) /\ DirOK(t) /\ DirOK(u)
    BY DEF CutInv, DirInv
  <2>2. cli[t] = "running" => DirMarked(t)
    BY <1>3, <2>1 DEF RmtreeEnds
  <2> QED
    BY <1>3, <2>1, <2>2 DEF RmtreeEnds, TaskTypeOK, taskVars, historyVars
<1>4. ASSUME NEW k \in Keys, DeleteBegins(k) \/ DeleteEnds(k) PROVE DirInv'
  BY <1>4 DEF DeleteBegins, DeleteEnds, DirInv, taskVars, worldVars, historyVars
<1>5. CASE UNCHANGED turnVars
  BY <1>5 DEF turnVars, DirInv, taskVars, worldVars, historyVars
<1> QED
  BY <1>1, <1>2, <1>3, <1>4, <1>5, DirTaskRuns, DirStopCalled DEF TurnNext, WorldMoves

\* The directory of a stateless turn that is over is gone, or a cancel that reached the
\* cleanup, or the removal, kept the task from seeing it gone.
THEOREM StatelessDirsGo == TurnSpec => []StatelessDirRemoved
<1>1. TurnInit => CutInv /\ DirInv
  BY CutInit, DirInit
<1>2. TurnInv /\ CutInv /\ DirInv /\ [TurnNext]_turnVars => CutInv' /\ DirInv'
  BY CutNext, DirNext DEF TurnInv
<1>3. TurnInv /\ DirInv => StatelessDirRemoved
  BY TypeSplits, TurnAssumption DEF DirInv, TurnInv, TaskTypeOK, StatelessDirRemoved
<1> QED
  BY <1>1, <1>2, <1>3, TurnInvariant, PTL DEF TurnSpec

-----------------------------------------------------------------------------
(* What the limits come to, for the tasks and for their CLIs *)

\* At every moment the turns with a live task are at most MAX_CONCURRENT, no two of them
\* share a key or a user, and none is on a key that is being deleted.
THEOREM TasksAreWithinLimits == TurnSpec => []TaskLimits!WithinLimits
<1>1. TurnInv /\ Limits!WithinLimits => TaskLimits!WithinLimits
  <2> SUFFICES ASSUME TurnInv, Limits!WithinLimits PROVE TaskLimits!WithinLimits
    OBVIOUS
  <2>1. {t \in Turns : Alive(t)} = RegisteredTurns
    BY AliveAreInflight DEF TurnInv
  <2>2. TaskLimits!Cardinality(RegisteredTurns) = Limits!Cardinality(RegisteredTurns)
    BY DEF TaskLimits!Cardinality, Limits!Cardinality
  <2> QED
    BY <2>1, <2>2
    DEF TaskLimits!WithinLimits, TaskLimits!Conflict, Limits!WithinLimits, Limits!Conflict
<1> QED
  BY <1>1, TurnInvariant, TurnImplementsAdmission, RegistryIsWithinLimits, PTL

\* Two CLIs run on one key only if a cancel kept a runner from closing one of them: with
\* both turns registered, the registry would hold two turns of the key.
THEOREM OverlapOnlyAfterCut == TurnSpec => []OverlapNeedsCut
<1>1. CliOutlivesOnlyCutCleanup => OverlapNeedsCut
  BY DEF CliOutlivesOnlyCutCleanup, OverlapNeedsCut, Registered
<1> QED
  BY <1>1, CliIsContained, PTL

-----------------------------------------------------------------------------
(* No turn hangs, and none goes back *)

LEMMA TaskTypes ==
  ASSUME TaskTypeOK, NEW t \in Turns
  PROVE  /\ main[t] \in Places /\ stopReason[t] \in StopReasons \cup {"none"}
         /\ cancelling[t] \in BOOLEAN /\ deadline[t] \in BOOLEAN
         /\ cli[t] \in {"none", "running", "exited"}
         /\ dir[t] \in {"none", "present", "removing", "removed", "kept"}
  BY DEF TaskTypeOK

\* NoTurnHangs of one turn, with what its steps need: before the body of the task runs no
\* cancel is pending and no stop is recorded, and a directory under removal is on its way.
HangOK(t) ==
  /\ main[t] \in {"new", "created", "refused"} => ~cancelling[t] /\ stopReason[t] = "none"
  /\ main[t] \in {"workspace", "opening", "running", "recording"} =>
       IF stopReason[t] = "none" THEN deadline[t] ELSE cancelling[t]
  /\ main[t] \in {"running", "recording", "closing"} => cli[t] \in {"running", "exited"}
  /\ main[t] = "leaving" => dir[t] \in {"removing", "removed", "kept"}

HangInv == \A t \in Turns : HangOK(t)

LEMMA HangInit == TurnInit => HangInv
  BY DEF TurnInit, HangInv, HangOK

LEMMA HangUntouched ==
  ASSUME NEW t \in Turns, HangOK(t), main'[t] = main[t], stopReason'[t] = stopReason[t],
         cancelling'[t] = cancelling[t], deadline'[t] = deadline[t], cli'[t] = cli[t],
         dir'[t] = dir[t]
  PROVE  HangOK(t)'
  BY DEF HangOK

\* The task leaves its body, or goes to its directory, whose removal is then begun.
LEMMA HangEndTask ==
  ASSUME TaskTypeOK, HangInv, NEW t \in Turns, NEW err, EndTask(t, err),
         UNCHANGED <<stopReason, cli>>,
         \A u \in Turns : u # t => cancelling'[u] = cancelling[u] /\ dir'[u] = dir[u]
  PROVE  HangInv'
<1> SUFFICES ASSUME NEW u \in Turns PROVE HangOK(u)'
  BY DEF HangInv
<1>1. CASE u = t
  BY <1>1 DEF EndTask, TaskTypeOK, HangOK
<1>2. CASE u # t
  BY <1>2, HangUntouched DEF EndTask, TaskTypeOK, HangInv
<1> QED
  BY <1>1, <1>2

LEMMA HangCloseWorkspace ==
  ASSUME TaskTypeOK, HangInv, NEW t \in Turns, NEW err, CloseWorkspace(t, err),
         UNCHANGED <<stopReason, cli>>,
         \A u \in Turns : u # t => cancelling'[u] = cancelling[u]
  PROVE  HangInv'
<1>1. CASE t \in Stateless
  <2> SUFFICES ASSUME NEW u \in Turns PROVE HangOK(u)'
    BY DEF HangInv
  <2>1. CASE u = t
    BY <1>1, <2>1 DEF CloseWorkspace, TaskTypeOK, HangOK
  <2>2. CASE u # t
    BY <1>1, <2>2, HangUntouched DEF CloseWorkspace, TaskTypeOK, HangInv
  <2> QED
    BY <2>1, <2>2
<1>2. CASE t \notin Stateless
  BY <1>2, HangEndTask DEF CloseWorkspace
<1> QED
  BY <1>1, <1>2

LEMMA HangTaskRuns ==
  ASSUME TaskTypeOK, HangInv, NEW t \in Turns, TaskRuns(t)
  PROVE  HangInv'
<1> USE DEF historyVars, worldVars, At, Delivered
<1>0. Delivered(t) => \A u \in Turns : u # t => cancelling'[u] = cancelling[u]
  BY DEF TaskTypeOK
<1>1. ASSUME FirstStep(t) PROVE HangInv'
  BY <1>1 DEF FirstStep, HangInv, HangOK, TaskTypeOK
<1>2. ASSUME FirstStepFails(t) PROVE HangInv'
  BY <1>2, HangEndTask DEF FirstStepFails
<1>3. ASSUME WorkspaceReady(t) PROVE HangInv'
  BY <1>3 DEF WorkspaceReady, HangInv, HangOK, TaskTypeOK
<1>4. ASSUME WorkspaceFails(t) PROVE HangInv'
  BY <1>4, HangEndTask DEF WorkspaceFails
<1>5. ASSUME CliSpawned(t) PROVE HangInv'
  BY <1>5 DEF CliSpawned, HangInv, HangOK, TaskTypeOK
<1>6. ASSUME OpeningFails(t) PROVE HangInv'
  BY <1>6, HangCloseWorkspace DEF OpeningFails
<1>7. ASSUME RunnerYields(t) PROVE HangInv'
  BY <1>7 DEF RunnerYields, HangInv, HangOK
<1>8. ASSUME RecordingBegins(t) \/ RecordingEnds(t) PROVE HangInv'
  BY <1>8 DEF RecordingBegins, RecordingEnds, HangInv, HangOK, TaskTypeOK
<1>9. ASSUME RunnerEnds(t) PROVE HangInv'
  BY <1>9 DEF RunnerEnds, HangInv, HangOK, TaskTypeOK
<1>10. ASSUME RunnerClosed(t) PROVE HangInv'
  BY <1>10, HangCloseWorkspace DEF RunnerClosed
<1>11. ASSUME WorkspaceLeft(t) PROVE HangInv'
  BY <1>11, HangEndTask DEF WorkspaceLeft
<1>12. ASSUME CancelLands(t) PROVE HangInv'
  <2>1. ASSUME CancelInWorkspace(t) PROVE HangInv'
    BY <1>0, <2>1, HangEndTask DEF CancelInWorkspace
  <2>2. ASSUME CancelInOpening(t) PROVE HangInv'
    BY <1>0, <2>2, HangCloseWorkspace DEF CancelInOpening
  <2>3. ASSUME CancelInRunning(t) PROVE HangInv'
    BY <2>3 DEF CancelInRunning, HangInv, HangOK, TaskTypeOK
  <2>4. ASSUME CancelInClosing(t) PROVE HangInv'
    BY <1>0, <2>4, HangCloseWorkspace DEF CancelInClosing
  <2>5. ASSUME CancelInLeaving(t) PROVE HangInv'
    <3>1. \A u \in Turns : u # t => dir'[u] = dir[u]
      BY <2>5 DEF CancelInLeaving, TaskTypeOK
    <3> QED
      BY <1>0, <2>5, <3>1, HangEndTask DEF CancelInLeaving
  <2>6. ASSUME CancelInRecording(t) PROVE HangInv'
    <3>1. CASE Provider = "codex"
      BY <2>6, <3>1 DEF CancelInRecording, HangInv, HangOK, TaskTypeOK
    <3>2. CASE Provider # "codex"
      BY <1>0, <2>6, <3>2, HangCloseWorkspace DEF CancelInRecording
    <3> QED
      BY <3>1, <3>2
  <2> QED
    BY <1>12, <2>1, <2>2, <2>3, <2>4, <2>5, <2>6 DEF CancelLands
<1> QED
  BY <1>1, <1>2, <1>3, <1>4, <1>5, <1>6, <1>7, <1>8, <1>9, <1>10, <1>11, <1>12 DEF TaskRuns

\* A stop, the timer's included, leaves a cancel on its way or a task that is done.
LEMMA HangStop ==
  ASSUME TaskTypeOK, HangInv, NEW S \in SUBSET Turns, NEW reason \in StopReasons,
         Stop(S, reason), \A u \in Turns \ S : deadline'[u] = deadline[u],
         \A u \in S : deadline'[u] = deadline[u] \/ stopReason'[u] # "none" \/ ~Alive(u)
  PROVE  HangInv'
<1> SUFFICES ASSUME NEW u \in Turns PROVE HangOK(u)'
  BY DEF HangInv
<1>0. HangOK(u) /\ reason # "none"
  BY DEF HangInv, StopReasons
<1>1. cli'[u] = cli[u] /\ dir'[u] = dir[u]
  BY DEF Stop, worldVars
<1>2. CASE u \in S /\ Stoppable(u)
  <2>1. /\ stopReason'[u] = reason
        /\ main'[u] = IF main[u] = "created" THEN "done" ELSE main[u]
        /\ main[u] # "created" => cancelling'[u]
        /\ main[u] \notin {"new", "refused"}
    BY <1>2 DEF Stop, Unstarted, Stoppable, Alive, Suspended
  <2> QED
    BY <1>0, <1>1, <2>1 DEF HangOK
<1>3. CASE ~(u \in S /\ Stoppable(u))
  <2>1. main'[u] = main[u] /\ stopReason'[u] = stopReason[u] /\ cancelling'[u] = cancelling[u]
    BY <1>3 DEF Stop, Unstarted
  <2>2. deadline'[u] = deadline[u] \/ stopReason[u] # "none" \/ ~Alive(u)
    BY <2>1
  <2> QED
    BY <1>0, <1>1, <2>1, <2>2 DEF HangOK, Alive, Suspended
<1> QED
  BY <1>2, <1>3

LEMMA HangStopCalled ==
  ASSUME TurnTypeOK, HangInv, StopCalled
  PROVE  HangInv'
<1> USE TypeSplits
<1>1. ASSUME NEW t \in Turns, Timeout(t) PROVE HangInv'
  <2>1. \A u \in Turns \ {t} : deadline'[u] = deadline[u]
    BY <1>1 DEF Timeout, TaskTypeOK
  <2>2. stopReason'[t] # "none" \/ ~Alive(t)
    BY <1>1 DEF Timeout, Stop, Stoppable
  <2> QED
    BY <1>1, <2>1, <2>2, HangStop DEF Timeout, StopReasons
<1>2. ASSUME NEW k \in Keys, CancelRequest(k) PROVE HangInv'
  <2>1. bySession[k] \in Turns /\ Stop({bySession[k]}, "cancelled") /\ UNCHANGED deadline
    BY <1>2 DEF CancelRequest, AdmissionTypeOK
  <2> QED
    BY <2>1, HangStop DEF StopReasons
<1>3. ASSUME NEW t \in Turns, NEW reason \in {"disconnected", "shutdown"},
             StopFromStream(t, reason)
      PROVE  HangInv'
  BY <1>3, HangStop DEF StopFromStream, StopReasons
<1>4. ASSUME StopAll PROVE HangInv'
  BY <1>4, HangStop DEF StopAll, RegisteredTurns, StopReasons
<1>5. ASSUME NEW S \in SUBSET Turns, ForceCancel(S) PROVE HangInv'
  BY <1>5 DEF ForceCancel, HangInv, HangOK, TaskTypeOK, worldVars, Suspended
<1> QED
  BY <1>1, <1>2, <1>3, <1>4, <1>5 DEF StopCalled

LEMMA HangNext ==
  ASSUME TurnTypeOK, HangInv, [TurnNext]_turnVars
  PROVE  HangInv'
<1> USE TypeSplits
<1>1. ASSUME NEW t \in Turns, Accept(t) \/ Refuse(t) PROVE HangInv'
  <2>1. CASE Accept(t)
    BY <2>1 DEF Accept, HangInv, HangOK, TaskTypeOK, worldVars, historyVars
  <2>2. CASE Refuse(t)
    BY <2>2 DEF Refuse, HangInv, HangOK, TaskTypeOK, worldVars, historyVars
  <2> QED
    BY <1>1, <2>1, <2>2
<1>2. ASSUME NEW t \in Turns, WorldMoves(t) PROVE HangInv'
  <2>1. CASE CliExits(t)
    BY <2>1 DEF CliExits, HangInv, HangOK, TaskTypeOK, taskVars, historyVars
  <2>2. CASE RmtreeEnds(t)
    BY <2>2 DEF RmtreeEnds, HangInv, HangOK, TaskTypeOK, taskVars, historyVars
  <2> QED
    BY <1>2, <2>1, <2>2 DEF WorldMoves
<1>3. ASSUME NEW k \in Keys, DeleteBegins(k) \/ DeleteEnds(k) PROVE HangInv'
  BY <1>3 DEF DeleteBegins, DeleteEnds, HangInv, HangOK, taskVars, worldVars, historyVars
<1>4. CASE UNCHANGED turnVars
  BY <1>4 DEF turnVars, HangInv, HangOK, taskVars, worldVars, historyVars
<1> QED
  BY <1>1, <1>2, <1>3, <1>4, HangTaskRuns, HangStopCalled DEF TurnNext

\* Until it cleans up a task is timed or its cancel is on the way; in its cleanup it waits
\* only for a CLI that was opened or for a removal that was begun.
THEOREM NothingWaitsForever == TurnSpec => []NoTurnHangs
<1>1. TurnInv /\ HangInv /\ [TurnNext]_turnVars => HangInv'
  BY HangNext DEF TurnInv
<1>2. HangInv => NoTurnHangs
  BY DEF HangInv, HangOK, NoTurnHangs
<1> QED
  BY <1>1, <1>2, HangInit, TurnInvariant, PTL DEF TurnSpec

\* Where a step may leave a task that was at from: never behind, and a task that was
\* stopped only at its cleanup or its end.
Onward(from, to, stopped) ==
  /\ Progress(from) <= Progress(to)
  /\ stopped => from = to \/ to \in {"closing", "leaving", "done"}

LEMMA OnwardStays == \A place \in Places, b \in BOOLEAN : Onward(place, place, b)
  BY DEF Places, Onward, Progress

\* From where to where a step of the task may take it.
TaskMoves(t) ==
  /\ stopReason' = stopReason
  /\ \A u \in Turns : u # t => main'[u] = main[u]
  /\ \/ main[t] = "created" /\ main'[t] \in {"workspace", "opening", "done"}
     \/ main[t] = "workspace" /\ main'[t] = "opening" /\ ~cancelling[t]
     \/ main[t] = "opening" /\ main'[t] = "running" /\ ~cancelling[t]
     \/ main[t] \in {"running", "recording"} /\ main'[t] \in {"running", "recording"}
        /\ ~cancelling[t]
     \/ /\ main[t] \in {"workspace", "opening", "running", "recording"}
        /\ main'[t] \in {"closing", "leaving", "done"}
     \/ main[t] = "closing" /\ main'[t] \in {"leaving", "done"}
     \/ main[t] = "leaving" /\ main'[t] = "done"

LEMMA TaskRunsMoves ==
  ASSUME TaskTypeOK, NEW t \in Turns, TaskRuns(t)
  PROVE  TaskMoves(t)
<1> USE DEF At, historyVars, TaskTypeOK
<1>1. \A err : EndTask(t, err) \/ CloseWorkspace(t, err) =>
        main'[t] \in {"leaving", "done"} /\ \A u \in Turns : u # t => main'[u] = main[u]
  BY CutCloseWorkspace
<1>2. ASSUME FirstStep(t) \/ WorkspaceReady(t) \/ CliSpawned(t) PROVE TaskMoves(t)
  BY <1>2 DEF TaskMoves, FirstStep, WorkspaceReady, CliSpawned
<1>3. ASSUME RunnerYields(t) \/ RecordingBegins(t) \/ RecordingEnds(t) \/ RunnerEnds(t)
      PROVE  TaskMoves(t)
  BY <1>3 DEF TaskMoves, RunnerYields, RecordingBegins, RecordingEnds, RunnerEnds
<1>4. ASSUME FirstStepFails(t) \/ WorkspaceFails(t) \/ WorkspaceLeft(t) PROVE TaskMoves(t)
  BY <1>4 DEF TaskMoves, FirstStepFails, WorkspaceFails, WorkspaceLeft, EndTask
<1>5. ASSUME OpeningFails(t) \/ RunnerClosed(t) PROVE TaskMoves(t)
  BY <1>5, <1>1 DEF TaskMoves, OpeningFails, RunnerClosed
<1>6. ASSUME CancelInWorkspace(t) \/ CancelInLeaving(t) PROVE TaskMoves(t)
  BY <1>6 DEF TaskMoves, CancelInWorkspace, CancelInLeaving, EndTask
<1>7. ASSUME CancelInOpening(t) \/ CancelInClosing(t) \/ CancelInRunning(t) PROVE TaskMoves(t)
  BY <1>7, <1>1 DEF TaskMoves, CancelInOpening, CancelInClosing, CancelInRunning
<1>8. ASSUME CancelInRecording(t) PROVE TaskMoves(t)
  <2>1. CASE Provider = "codex"
    BY <1>8, <2>1 DEF TaskMoves, CancelInRecording
  <2>2. CASE Provider # "codex"
    BY <1>8, <2>2, <1>1 DEF TaskMoves, CancelInRecording
  <2> QED
    BY <2>1, <2>2
<1> QED
  BY <1>2, <1>3, <1>4, <1>5, <1>6, <1>7, <1>8 DEF TaskRuns, CancelLands

LEMMA TaskRunsOnward ==
  ASSUME TaskTypeOK, QueueInv, NEW t \in Turns, TaskRuns(t)
  PROVE  /\ stopReason' = stopReason
         /\ \A u \in Turns : u # t => main'[u] = main[u]
         /\ Onward(main[t], main'[t], stopReason[t] # "none")
<1>1. stopReason[t] # "none" =>
        main[t] \in {"closing", "leaving", "done"} \/ (main[t] # "created" /\ cancelling[t])
  BY DEF Suspended, QueueInv, QueueInvAt, StoppedIsPending
<1> QED
  BY <1>1, TaskRunsMoves DEF TaskMoves, Onward, Progress

LEMMA StopOnward ==
  ASSUME TaskTypeOK, NEW S \in SUBSET Turns, NEW reason, Stop(S, reason), NEW t \in Turns
  PROVE  /\ Onward(main[t], main'[t], stopReason[t] # "none")
         /\ stopReason[t] # "none" => stopReason'[t] = stopReason[t]
<1>1. CASE t \in Unstarted(S)
  <2>1. main[t] = "created" /\ main'[t] = "done" /\ stopReason[t] = "none"
    BY <1>1 DEF Stop, Unstarted, Stoppable
  <2> QED
    BY <2>1 DEF Onward, Progress
<1>2. CASE t \notin Unstarted(S)
  <2>1. main'[t] = main[t] /\ (stopReason[t] # "none" => stopReason'[t] = stopReason[t])
    BY <1>2 DEF Stop, Stoppable
  <2> QED
    BY <2>1, TaskTypes, OnwardStays
<1> QED
  BY <1>1, <1>2

LEMMA TurnOnward ==
  ASSUME TurnTypeOK, QueueInv, [TurnNext]_turnVars, NEW t \in Turns
  PROVE  /\ Onward(main[t], main'[t], stopReason[t] # "none")
         /\ stopReason[t] # "none" => stopReason'[t] = stopReason[t]
<1> USE TypeSplits
<1> DEFINE Goal == /\ Onward(main[t], main'[t], stopReason[t] # "none")
                   /\ stopReason[t] # "none" => stopReason'[t] = stopReason[t]
<1>0. ASSUME main'[t] = main[t], stopReason'[t] = stopReason[t] PROVE Goal
  BY <1>0, TaskTypes, OnwardStays
<1>1. ASSUME NEW u \in Turns, Accept(u) \/ Refuse(u) PROVE Goal
  <2>1. CASE u = t
    <3>1. /\ main[t] = "new" /\ main'[t] \in {"created", "refused"}
          /\ stopReason'[t] = stopReason[t] /\ stopReason[t] = "none"
      BY <1>1, <2>1
      DEF Accept, Refuse, TaskTypeOK, QueueInv, QueueInvAt, StoppedIsPending, Suspended
    <3> QED
      BY <3>1 DEF Onward, Progress
  <2>2. CASE u # t
    BY <1>0, <1>1, <2>2 DEF Accept, Refuse, TaskTypeOK
  <2> QED
    BY <2>1, <2>2
<1>2. ASSUME NEW u \in Turns, TaskRuns(u) PROVE Goal
  BY <1>0, <1>2, TaskRunsOnward
<1>3. ASSUME NEW u \in Turns, WorldMoves(u) PROVE Goal
  BY <1>0, <1>3 DEF WorldMoves, CliExits, RmtreeEnds, taskVars
<1>4. ASSUME NEW k \in Keys, DeleteBegins(k) \/ DeleteEnds(k) PROVE Goal
  BY <1>0, <1>4 DEF DeleteBegins, DeleteEnds, taskVars
<1>5. ASSUME StopCalled PROVE Goal
  <2>1. ASSUME NEW S \in SUBSET Turns, ForceCancel(S) PROVE Goal
    BY <1>0, <2>1 DEF ForceCancel
  <2>2. ASSUME NEW S \in SUBSET Turns, NEW reason, Stop(S, reason) PROVE Goal
    BY <2>2, StopOnward
  <2>3. \A k \in Keys : CancelRequest(k) => {bySession[k]} \in SUBSET Turns
    BY DEF CancelRequest, AdmissionTypeOK
  <2> QED
    BY <1>5, <2>1, <2>2, <2>3
    DEF StopCalled, Timeout, CancelRequest, StopFromStream, StopAll, RegisteredTurns
<1>6. CASE UNCHANGED turnVars
  BY <1>0, <1>6 DEF turnVars, taskVars
<1> QED
  BY <1>1, <1>2, <1>3, <1>4, <1>5, <1>6 DEF TurnNext

\* A task never goes back, and a stopped one only winds down.
THEOREM TurnsGoForward == TurnSpec => TurnsOnlyAdvance
<1>1. TurnInv /\ QueueInv /\ [TurnNext]_turnVars =>
        [\A t \in Turns :
           /\ Progress(main[t]) <= Progress(main'[t])
           /\ stopReason[t] # "none" =>
                /\ stopReason'[t] = stopReason[t]
                /\ main'[t] = main[t] \/ main'[t] \in {"closing", "leaving", "done"}]_turnVars
  BY TurnOnward DEF TurnInv, Onward
<1> QED
  BY <1>1, TurnInvariant, QueueInvariant, PTL DEF TurnSpec, TurnsOnlyAdvance
=============================================================================

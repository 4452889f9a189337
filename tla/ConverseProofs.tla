--------------------------- MODULE ConverseProofs ---------------------------
(***************************************************************************)
(* For every set of turns and clients, whatever they do: the stream and    *)
(* the shutdown use a turn only as Turn allows, so all that is proved of   *)
(* turns holds of the service; the client gets the frames of the queue, in *)
(* order and once, and one terminal frame, which tells the truth; a stream *)
(* that ends well ends with its slots free; and no turn is left running    *)
(* with nobody to read it.                                                 *)
(***************************************************************************)
EXTENDS Converse, TurnProofs

-----------------------------------------------------------------------------
(* The turns *)

LEMMA SignalIsTurnStep ==
  ASSUME NEW t \in Turns, SignalTurn(t)
  PROVE  [TurnNext]_turnVars
  BY DEF SignalTurn, TurnNext, StopCalled

LEMMA ConverseStep ==
  ASSUME [ConverseNext]_converseVars
  PROVE  [TurnNext]_turnVars
<1>1. ASSUME NEW t \in Turns, Start(t) \/ Reject(t) \/ TurnMoves(t) PROVE [TurnNext]_turnVars
  BY <1>1 DEF Start, Reject, TurnMoves, TurnNext, StopCalled
<1>2. ASSUME NEW t \in Turns, StreamMoves(t) PROVE [TurnNext]_turnVars
  <2>1. CASE TakeItem(t) \/ ClientLeaves(t) \/ ShutdownSeen(t)
    BY <2>1 DEF TakeItem, ClientLeaves, ShutdownSeen
  <2>2. CASE FrameSent(t)
    BY <2>2, SignalIsTurnStep DEF FrameSent, AfterFrame
  <2>3. CASE SendTimesOut(t) \/ DisconnectSeen(t) \/ GraceOver(t)
    BY <2>3, SignalIsTurnStep DEF SendTimesOut, DisconnectSeen, GraceOver, DropStream
  <2>4. CASE DrainDeadline(t)
    BY <2>4 DEF DrainDeadline, TurnNext, StopCalled
  <2> QED
    BY <1>2, <2>1, <2>2, <2>3, <2>4 DEF StreamMoves
<1>3. ASSUME NEW k \in Keys, Cancel(k) \/ Delete(k) PROVE [TurnNext]_turnVars
  BY <1>3 DEF Cancel, Delete, TurnNext, StopCalled
<1>4. CASE DrainBegins \/ DrainTimesOut
  BY <1>4 DEF DrainBegins, DrainTimesOut, TurnNext, StopCalled
<1>5. CASE Sigterm \/ DrainDone \/ Exited \/ UNCHANGED converseVars
  BY <1>5 DEF Sigterm, DrainDone, Exited, converseVars
<1> QED
  BY <1>1, <1>2, <1>3, <1>4, <1>5 DEF ConverseNext

\* The stream and the shutdown make the turns do nothing that Turn does not allow.
THEOREM ConverseIsTurns == ConverseSpec => ConverseImplementsTurn
<1>1. ConverseInit => TurnInit
  BY DEF ConverseInit
<1> QED
  BY <1>1, ConverseStep, PTL DEF ConverseSpec, ConverseImplementsTurn, TurnSpec

-----------------------------------------------------------------------------
(* What the stream may count on: a queue grows at its end, the first stop  *)
(* is the one, and a task that has ended does not come back.               *)

Grows(e, f) ==
  /\ Len(e) \in Nat /\ Len(f) \in Nat /\ Len(e) <= Len(f)
  /\ \A i \in 1..Len(e) : f[i] = e[i]

GoesOn(t) ==
  /\ Grows(events[t], events'[t])
  /\ stopReason[t] # "none" => stopReason'[t] = stopReason[t]
  /\ main'[t] \in {"new", "refused"} => main[t] \in {"new", "refused"}
  /\ Alive(t)' => Alive(t) \/ main[t] = "new"

LEMMA GrowsByOne ==
  ASSUME NEW e \in Seq(Items)
  PROVE  /\ Grows(e, e)
         /\ \A i : Grows(e, Append(e, i))
  BY DEF Grows

LEMMA GrowsByStop ==
  ASSUME NEW t \in Turns, NEW e \in Seq(Items), NEW reason \in StopReasons
  PROVE  Grows(e, e \o StopItems(t, reason))
<1>1. Append(e, Stopped(reason)) \in Seq(Items)
  BY ItemTypes
<1> DEFINE f == Append(e, Stopped(reason))
<1>2. Grows(e, f)
  BY GrowsByOne
<1>3. Grows(f, Append(f, Ended(reason, "none")))
  BY <1>1, GrowsByOne
<1> HIDE DEF f
<1>4. Grows(e, Append(f, Ended(reason, "none")))
  BY <1>2, <1>3 DEF Grows
<1> QED
  BY <1>2, <1>4, StopAppends DEF f

LEMMA EndTaskGoesOn ==
  ASSUME TaskTypeOK, NEW t \in Turns, NEW u \in Turns, NEW err, EndTask(t, err),
         stopReason' = stopReason
  PROVE  GoesOn(u)
<1>0. events \in [Turns -> Seq(Items)] /\ events[u] \in Seq(Items)
  BY QueueType
<1>1. Grows(events[u], events'[u])
  BY <1>0, GrowsByOne DEF EndTask
<1>2. main'[u] \in {main[u], "done"}
  BY DEF EndTask, TaskTypeOK
<1> QED
  BY <1>1, <1>2 DEF GoesOn, Alive, Suspended

LEMMA CloseWorkspaceGoesOn ==
  ASSUME TaskTypeOK, NEW t \in Turns, NEW u \in Turns, NEW err, CloseWorkspace(t, err),
         stopReason' = stopReason, Alive(t)
  PROVE  GoesOn(u)
<1>1. CASE t \in Stateless
  BY <1>1, QueueType, GrowsByOne
  DEF CloseWorkspace, GoesOn, Alive, Suspended, TaskTypeOK
<1>2. CASE t \notin Stateless
  BY <1>2, EndTaskGoesOn DEF CloseWorkspace
<1> QED
  BY <1>1, <1>2

LEMMA TaskGoesOn ==
  ASSUME TaskTypeOK, NEW t \in Turns, NEW u \in Turns, TaskRuns(t)
  PROVE  GoesOn(u)
<1> USE DEF At
<1>0. events \in [Turns -> Seq(Items)] /\ events[u] \in Seq(Items)
  BY QueueType
<1>1. CASE FirstStep(t)
  BY <1>0, <1>1, GrowsByOne DEF FirstStep, GoesOn, Alive, Suspended, TaskTypeOK
<1>2. CASE FirstStepFails(t)
  BY <1>2, EndTaskGoesOn DEF FirstStepFails
<1>3. CASE WorkspaceReady(t)
  BY <1>0, <1>3, GrowsByOne DEF WorkspaceReady, GoesOn, Alive, Suspended, TaskTypeOK
<1>4. CASE WorkspaceFails(t)
  BY <1>4, EndTaskGoesOn DEF WorkspaceFails
<1>5. CASE CliSpawned(t)
  BY <1>0, <1>5, GrowsByOne DEF CliSpawned, GoesOn, Alive, Suspended, TaskTypeOK
<1>6. CASE OpeningFails(t)
  BY <1>6, CloseWorkspaceGoesOn DEF OpeningFails, Alive, Suspended
<1>7. CASE RunnerYields(t)
  BY <1>0, <1>7, GrowsByOne DEF RunnerYields, GoesOn, Alive, Suspended, TaskTypeOK
<1>8. CASE RecordingBegins(t)
  BY <1>0, <1>8, GrowsByOne DEF RecordingBegins, GoesOn, Alive, Suspended, TaskTypeOK
<1>9. CASE RecordingEnds(t)
  BY <1>0, <1>9, GrowsByOne DEF RecordingEnds, GoesOn, Alive, Suspended, TaskTypeOK
<1>10. CASE RunnerEnds(t)
  BY <1>0, <1>10, GrowsByOne DEF RunnerEnds, GoesOn, Alive, Suspended, TaskTypeOK
<1>11. CASE RunnerClosed(t)
  BY <1>11, CloseWorkspaceGoesOn DEF RunnerClosed, Alive, Suspended
<1>12. CASE WorkspaceLeft(t)
  BY <1>12, EndTaskGoesOn DEF WorkspaceLeft
<1>13. CASE CancelInWorkspace(t)
  BY <1>13, EndTaskGoesOn DEF CancelInWorkspace
<1>14. CASE CancelInOpening(t)
  BY <1>14, CloseWorkspaceGoesOn DEF CancelInOpening, Alive, Suspended
<1>15. CASE CancelInRunning(t)
  BY <1>0, <1>15, GrowsByOne DEF CancelInRunning, GoesOn, Alive, Suspended, TaskTypeOK
<1>16. CASE CancelInRecording(t)
  <2>1. CASE Provider = "codex"
    BY <1>0, <1>16, <2>1, GrowsByOne
    DEF CancelInRecording, GoesOn, Alive, Suspended, TaskTypeOK
  <2>2. CASE Provider # "codex"
    BY <1>16, <2>2, CloseWorkspaceGoesOn DEF CancelInRecording, Alive, Suspended
  <2> QED
    BY <2>1, <2>2
<1>17. CASE CancelInClosing(t)
  BY <1>17, CloseWorkspaceGoesOn DEF CancelInClosing, Alive, Suspended
<1>18. CASE CancelInLeaving(t)
  BY <1>18, EndTaskGoesOn DEF CancelInLeaving
<1> QED
  BY <1>1, <1>2, <1>3, <1>4, <1>5, <1>6, <1>7, <1>8, <1>9, <1>10, <1>11, <1>12, <1>13, <1>14, <1>15, <1>16, <1>17, <1>18
  DEF TaskRuns, CancelLands

LEMMA StopGoesOn ==
  ASSUME TaskTypeOK, NEW S \in SUBSET Turns, NEW reason \in StopReasons, NEW u \in Turns,
         Stop(S, reason)
  PROVE  GoesOn(u)
<1>0. events \in [Turns -> Seq(Items)] /\ events[u] \in Seq(Items)
  BY QueueType
<1>1. Grows(events[u], events'[u])
  BY <1>0, GrowsByOne, GrowsByStop DEF Stop
<1>2. stopReason[u] # "none" => stopReason'[u] = stopReason[u]
  BY DEF Stop, Stoppable
<1>3. main'[u] \in {main[u], "done"}
  BY DEF Stop
<1> QED
  BY <1>1, <1>2, <1>3 DEF GoesOn, Alive, Suspended

LEMMA TurnGoesOn ==
  ASSUME AdmissionTypeOK, TaskTypeOK, [TurnNext]_turnVars, NEW u \in Turns
  PROVE  GoesOn(u)
<1>0. events \in [Turns -> Seq(Items)] /\ events[u] \in Seq(Items)
  BY QueueType
<1>1. ASSUME NEW t \in Turns, Accept(t) \/ Refuse(t) PROVE GoesOn(u)
  BY <1>0, <1>1, GrowsByOne DEF Accept, Refuse, GoesOn, Alive, Suspended, TaskTypeOK
<1>2. ASSUME NEW t \in Turns, TaskRuns(t) PROVE GoesOn(u)
  BY <1>2, TaskGoesOn
<1>3. ASSUME NEW t \in Turns, WorldMoves(t) PROVE GoesOn(u)
  BY <1>0, <1>3, GrowsByOne DEF WorldMoves, CliExits, RmtreeEnds, taskVars, GoesOn, Alive, Suspended
<1>4. CASE StopCalled
  <2> USE DEF StopReasons
  <2>1. ASSUME NEW t \in Turns, Timeout(t) PROVE GoesOn(u)
    BY <2>1, StopGoesOn, {t} \in SUBSET Turns DEF Timeout
  <2>2. ASSUME NEW k \in Keys, CancelRequest(k) PROVE GoesOn(u)
    <3>1. {bySession[k]} \in SUBSET Turns
      BY <2>2 DEF CancelRequest, AdmissionTypeOK
    <3> QED
      BY <2>2, <3>1, StopGoesOn DEF CancelRequest
  <2>3. ASSUME NEW t \in Turns, NEW reason \in {"disconnected", "shutdown"},
               StopFromStream(t, reason)
        PROVE  GoesOn(u)
    BY <2>3, StopGoesOn, {t} \in SUBSET Turns DEF StopFromStream
  <2>4. CASE StopAll
    BY <2>4, StopGoesOn DEF StopAll, RegisteredTurns
  <2>5. ASSUME NEW S \in SUBSET Turns, ForceCancel(S) PROVE GoesOn(u)
    BY <1>0, <2>5, GrowsByOne DEF ForceCancel, GoesOn, Alive, Suspended
  <2> QED
    BY <1>4, <2>1, <2>2, <2>3, <2>4, <2>5 DEF StopCalled
<1>5. ASSUME NEW k \in Keys, DeleteBegins(k) \/ DeleteEnds(k) PROVE GoesOn(u)
  BY <1>0, <1>5, GrowsByOne DEF DeleteBegins, DeleteEnds, taskVars, GoesOn, Alive, Suspended
<1>6. CASE UNCHANGED turnVars
  BY <1>0, <1>6, GrowsByOne DEF turnVars, taskVars, GoesOn, Alive, Suspended
<1> QED
  BY <1>1, <1>2, <1>3, <1>4, <1>5, <1>6 DEF TurnNext

-----------------------------------------------------------------------------
(* Only a stop cancels *)

CancelledWasStopped(t) ==
  stopReason[t] = "none" =>
    /\ ~cancelling[t] /\ error[t] # "cancelled"
    /\ \A i \in 1..Len(events[t]) : events[t][i].error # "cancelled"

StopInv == \A t \in Turns : CancelledWasStopped(t)

LEMMA AppendedErrors ==
  ASSUME NEW e \in Seq(Items), NEW i \in Items, i.error # "cancelled",
         \A j \in 1..Len(e) : e[j].error # "cancelled"
  PROVE  \A j \in 1..Len(Append(e, i)) : Append(e, i)[j].error # "cancelled"
  OBVIOUS

LEMMA StopEndTask ==
  ASSUME TaskTypeOK, NEW t \in Turns, NEW u \in Turns, CancelledWasStopped(u), NEW err \in Errors,
         EndTask(t, err), stopReason' = stopReason,
         \A v \in Turns : cancelling'[v] = cancelling[v] \/ ~cancelling'[v],
         err = "cancelled" => stopReason[t] # "none"
  PROVE  CancelledWasStopped(u)'
<1>1. CASE u # t
  BY <1>1 DEF EndTask, CancelledWasStopped, TaskTypeOK
<1>2. CASE u = t /\ stopReason[t] = "none"
  <2>1. /\ events[t] \in Seq(Items) /\ Ended("none", err) \in Items
        /\ Ended("none", err).error = err
    BY QueueType, ItemTypes DEF Ended, Item
  <2>2. events'[t] = Append(events[t], Ended("none", err)) /\ error'[t] = err
    BY <1>2 DEF EndTask, TaskTypeOK
  <2> QED
    BY <1>2, <2>1, <2>2, AppendedErrors DEF CancelledWasStopped
<1>3. CASE u = t /\ stopReason[t] # "none"
  BY <1>3 DEF CancelledWasStopped
<1> QED
  BY <1>1, <1>2, <1>3

LEMMA StopCloseWorkspace ==
  ASSUME TaskTypeOK, NEW t \in Turns, NEW u \in Turns, CancelledWasStopped(u), NEW err \in Errors,
         CloseWorkspace(t, err), stopReason' = stopReason,
         \A v \in Turns : cancelling'[v] = cancelling[v] \/ ~cancelling'[v],
         err = "cancelled" => stopReason[t] # "none"
  PROVE  CancelledWasStopped(u)'
<1>1. CASE t \in Stateless
  BY <1>1 DEF CloseWorkspace, CancelledWasStopped, TaskTypeOK
<1>2. CASE t \notin Stateless
  BY <1>2, StopEndTask DEF CloseWorkspace
<1> QED
  BY <1>1, <1>2

LEMMA StopTaskRuns ==
  ASSUME TaskTypeOK, StopInv, NEW t \in Turns, NEW u \in Turns, TaskRuns(t)
  PROVE  CancelledWasStopped(u)'
<1> USE DEF At, Delivered
<1>0. /\ CancelledWasStopped(u)
      /\ cancelling[t] \/ error[t] = "cancelled" => stopReason[t] # "none"
      /\ error[t] \in Errors /\ {"none", "sdk_error", "internal", "cancelled"} = Errors
  BY DEF StopInv, CancelledWasStopped, TaskTypeOK, Errors
<1>20. /\ events \in [Turns -> Seq(Items)]
      /\ cancelling \in [Turns -> BOOLEAN]
      /\ \A kind \in {"progress", "done"} :
           Yielded(kind) \in Items /\ Yielded(kind).error = "none"
  BY QueueType, ItemTypes DEF Yielded, Item, TaskTypeOK
<1>1. CASE FirstStep(t)
  BY <1>0, <1>20, <1>1 DEF FirstStep, CancelledWasStopped, TaskTypeOK
<1>2. CASE FirstStepFails(t)
  BY <1>0, <1>20, <1>2, StopEndTask DEF FirstStepFails
<1>3. CASE WorkspaceReady(t)
  BY <1>0, <1>20, <1>3 DEF WorkspaceReady, CancelledWasStopped, TaskTypeOK
<1>4. CASE WorkspaceFails(t)
  BY <1>0, <1>20, <1>4, StopEndTask DEF WorkspaceFails
<1>5. CASE CliSpawned(t)
  BY <1>0, <1>20, <1>5 DEF CliSpawned, CancelledWasStopped, TaskTypeOK
<1>6. CASE OpeningFails(t)
  BY <1>0, <1>20, <1>6, StopCloseWorkspace DEF OpeningFails
<1>7. CASE RunnerYields(t)
  BY <1>0, <1>20, <1>7, AppendedErrors DEF RunnerYields, CancelledWasStopped
<1>8. CASE RecordingBegins(t)
  BY <1>0, <1>20, <1>8 DEF RecordingBegins, CancelledWasStopped, TaskTypeOK
<1>9. CASE RecordingEnds(t)
  BY <1>0, <1>20, <1>9, AppendedErrors DEF RecordingEnds, CancelledWasStopped
<1>10. CASE RunnerEnds(t)
  BY <1>0, <1>20, <1>10 DEF RunnerEnds, CancelledWasStopped, TaskTypeOK
<1>11. CASE RunnerClosed(t)
  BY <1>0, <1>20, <1>11, StopCloseWorkspace DEF RunnerClosed
<1>12. CASE WorkspaceLeft(t)
  BY <1>0, <1>20, <1>12, StopEndTask DEF WorkspaceLeft
<1>13. CASE CancelInWorkspace(t)
  BY <1>0, <1>20, <1>13, StopEndTask DEF CancelInWorkspace
<1>14. CASE CancelInOpening(t)
  BY <1>0, <1>20, <1>14, StopCloseWorkspace DEF CancelInOpening
<1>15. CASE CancelInRunning(t)
  BY <1>0, <1>20, <1>15 DEF CancelInRunning, CancelledWasStopped, TaskTypeOK
<1>16. CASE CancelInRecording(t)
  <2>1. CASE Provider = "codex"
    BY <1>0, <1>20, <1>16, <2>1 DEF CancelInRecording, CancelledWasStopped, TaskTypeOK
  <2>2. CASE Provider # "codex"
    BY <1>0, <1>20, <1>16, <2>2, StopCloseWorkspace DEF CancelInRecording
  <2> QED
    BY <2>1, <2>2
<1>17. CASE CancelInClosing(t)
  BY <1>0, <1>20, <1>17, StopCloseWorkspace DEF CancelInClosing
<1>18. CASE CancelInLeaving(t)
  BY <1>0, <1>20, <1>18, StopEndTask DEF CancelInLeaving
<1> QED
  BY <1>1, <1>2, <1>3, <1>4, <1>5, <1>6, <1>7, <1>8, <1>9, <1>10, <1>11, <1>12, <1>13, <1>14, <1>15, <1>16, <1>17, <1>18
  DEF TaskRuns, CancelLands

LEMMA StopStops ==
  ASSUME TaskTypeOK, NEW S \in SUBSET Turns, NEW reason \in StopReasons, NEW u \in Turns,
         CancelledWasStopped(u), Stop(S, reason)
  PROVE  CancelledWasStopped(u)'
<1>1. CASE u \in S /\ Stoppable(u)
  <2>1. stopReason'[u] = reason /\ reason # "none"
    BY <1>1 DEF Stop, StopReasons
  <2> QED
    BY <2>1 DEF CancelledWasStopped
<1>2. CASE ~(u \in S /\ Stoppable(u))
  BY <1>2 DEF Stop, CancelledWasStopped
<1> QED
  BY <1>1, <1>2

LEMMA StopInvNext ==
  ASSUME AdmissionTypeOK, TaskTypeOK, StopInv, [TurnNext]_turnVars
  PROVE  StopInv'
<1> SUFFICES ASSUME NEW u \in Turns PROVE CancelledWasStopped(u)'
  BY DEF StopInv
<1>0. CancelledWasStopped(u)
  BY DEF StopInv
<1>1. ASSUME NEW t \in Turns, Accept(t) \/ Refuse(t) PROVE CancelledWasStopped(u)'
  BY <1>0, <1>1 DEF Accept, Refuse, CancelledWasStopped
<1>2. ASSUME NEW t \in Turns, TaskRuns(t) PROVE CancelledWasStopped(u)'
  BY <1>2, StopTaskRuns
<1>3. ASSUME NEW t \in Turns, WorldMoves(t) PROVE CancelledWasStopped(u)'
  BY <1>0, <1>3 DEF WorldMoves, CliExits, RmtreeEnds, taskVars, CancelledWasStopped
<1>4. CASE StopCalled
  <2> USE DEF StopReasons
  <2>1. ASSUME NEW t \in Turns, Timeout(t) PROVE CancelledWasStopped(u)'
    BY <1>0, <2>1, StopStops, {t} \in SUBSET Turns DEF Timeout
  <2>2. ASSUME NEW k \in Keys, CancelRequest(k) PROVE CancelledWasStopped(u)'
    <3>1. {bySession[k]} \in SUBSET Turns
      BY <2>2 DEF CancelRequest, AdmissionTypeOK
    <3> QED
      BY <1>0, <2>2, <3>1, StopStops DEF CancelRequest
  <2>3. ASSUME NEW t \in Turns, NEW reason \in {"disconnected", "shutdown"},
               StopFromStream(t, reason)
        PROVE  CancelledWasStopped(u)'
    BY <1>0, <2>3, StopStops, {t} \in SUBSET Turns DEF StopFromStream
  <2>4. CASE StopAll
    BY <1>0, <2>4, StopStops DEF StopAll, RegisteredTurns
  <2>5. ASSUME NEW S \in SUBSET Turns, ForceCancel(S) PROVE CancelledWasStopped(u)'
    BY <1>0, <2>5 DEF ForceCancel, CancelledWasStopped
  <2> QED
    BY <1>4, <2>1, <2>2, <2>3, <2>4, <2>5 DEF StopCalled
<1>5. ASSUME NEW k \in Keys, DeleteBegins(k) \/ DeleteEnds(k) PROVE CancelledWasStopped(u)'
  BY <1>0, <1>5 DEF DeleteBegins, DeleteEnds, taskVars, CancelledWasStopped
<1>6. CASE UNCHANGED turnVars
  BY <1>0, <1>6 DEF turnVars, taskVars, CancelledWasStopped
<1> QED
  BY <1>1, <1>2, <1>3, <1>4, <1>5, <1>6 DEF TurnNext

LEMMA StopInvInit == TurnInit => StopInv
  BY DEF TurnInit, StopInv, CancelledWasStopped

-----------------------------------------------------------------------------
(* The frames *)

LEMMA FrameKinds ==
  ASSUME NEW i \in Items
  PROVE  /\ ErrorCode(i) \in ErrorCodes
         /\ i.kind \in {"stopped", "ended"} => Frame(i) = ErrorCode(i)
         /\ i.kind = "done" => Frame(i) = "done"
         /\ i.kind = "progress" => Frame(i) = "event"
         /\ i.kind \in {"stopped", "ended", "done", "progress"}
         /\ Frame(i) \in Terminals \cup {"event"}
  BY DEF Items, Kinds, Errors, StopReasons, ErrorCode, StopCode, ErrorCodes, Terminals, Frame

\* What a stream has sent of what it has taken, while it is open, was sent without a
\* terminal frame; a terminal frame is the last one.
FramesOK(t) ==
  /\ pos[t] <= Len(events[t])
  /\ \A i \in 1..Len(wire[t]) : i <= pos[t] /\ wire[t][i] = Frame(events[t][i])
  /\ stream[t] = "sending" => Len(wire[t]) < pos[t]
  /\ client[t] = "connected" /\ Open(t) /\ outcome[t] # "ok" =>
       Len(wire[t]) = IF stream[t] = "sending" THEN pos[t] - 1 ELSE pos[t]
  /\ Open(t) /\ outcome[t] # "ok" => \A i \in 1..Len(wire[t]) : wire[t][i] = "event"
  /\ \A i \in 1..Len(wire[t]) : i < Len(wire[t]) => wire[t][i] = "event"
  /\ client[t] = "connected" /\ outcome[t] = "ok" =>
       Len(wire[t]) > 0 /\ wire[t][Len(wire[t])] = "done"

\* Where the generator is, and how it ended.
PlaceOK(t) ==
  /\ stream[t] = "none" =>
       pos[t] = 0 /\ wire[t] = <<>> /\ outcome[t] = "none" /\ client[t] = "connected"
  /\ stream[t] # "none" => main[t] \notin {"new", "refused"}
  /\ stream[t] = "reading" => outcome[t] \in {"none", "ok"}
  /\ stream[t] = "sending" =>
       outcome[t] = IF Current(t).kind \in {"stopped", "ended"}
                      THEN ErrorCode(Current(t)) ELSE "none"
  /\ draining[t] => server # "serving"

\* What has become of the turn when its stream is over.
AfterOK(t) ==
  /\ stream[t] \in {"returned", "dropped"} /\ Alive(t) =>
       stopReason[t] # "none" \/ outcome[t] = "ok"
  /\ stream[t] = "returned" /\ outcome[t] = "ok" /\ server = "serving" => ~Alive(t)

StreamOK(t) == FramesOK(t) /\ PlaceOK(t) /\ AfterOK(t)
StreamInv == ConverseTypeOK /\ \A t \in Turns : StreamOK(t)

\* All that is known of the turns.
TurnsOK == TurnInv /\ QueueInv /\ StopInv

LEMMA TurnsAre ==
  ASSUME TurnsOK
  PROVE  AdmissionTypeOK /\ TaskTypeOK /\ events \in [Turns -> Seq(Items)]
  BY QueueType, TypeSplits DEF TurnsOK, TurnInv

\* What was sent is still what the queue holds, whatever was queued behind it.
LEMMA SentStays ==
  ASSUME NEW t \in Turns, FramesOK(t), pos[t] \in Nat, Len(events[t]) \in Nat, Len(wire[t]) \in Nat,
         \A i \in 1..Len(events[t]) : events'[t][i] = events[t][i]
  PROVE  \A i \in 1..Len(wire[t]) : wire[t][i] = Frame(events'[t][i])
<1> TAKE i \in 1..Len(wire[t])
<1>1. i <= pos[t] /\ pos[t] <= Len(events[t]) /\ wire[t][i] = Frame(events[t][i])
  BY DEF FramesOK
<1>2. i \in 1..Len(events[t])
  BY <1>1
<1>3. events'[t][i] = events[t][i]
  BY <1>2
<1> QED
  BY <1>1, <1>3

\* The stream of a turn does not move; the turn, and time, may.
LEMMA StreamStays ==
  ASSUME NEW t \in Turns, TurnsOK, ConverseTypeOK, StreamOK(t), GoesOn(t),
         stream'[t] = stream[t], pos'[t] = pos[t], outcome'[t] = outcome[t],
         draining'[t] = draining[t], client'[t] = client[t], wire'[t] = wire[t],
         server' = "serving" => server = "serving"
  PROVE  StreamOK(t)'
<1>1. /\ Len(events[t]) \in Nat /\ Len(events'[t]) \in Nat
      /\ Len(events[t]) <= Len(events'[t]) /\ pos[t] \in Nat
      /\ \A i \in 1..Len(events[t]) : events'[t][i] = events[t][i]
      /\ Len(wire[t]) \in Nat
  BY DEF GoesOn, Grows, ConverseTypeOK
<1>2. FramesOK(t)'
  <2>1. pos'[t] <= Len(events'[t])
    BY <1>1 DEF StreamOK, FramesOK
  <2>2. \A i \in 1..Len(wire[t]) : i <= pos[t] /\ wire[t][i] = Frame(events'[t][i])
    BY <1>1 DEF StreamOK, FramesOK
  <2> QED
    BY <2>1, <2>2 DEF StreamOK, FramesOK, Open, Streaming
<1>3. PlaceOK(t)'
  <2>1. stream[t] = "sending" => events'[t][pos[t]] = events[t][pos[t]]
    BY <1>1 DEF StreamOK, FramesOK
  <2> QED
    BY <2>1 DEF StreamOK, PlaceOK, Current, GoesOn
<1>4. AfterOK(t)'
  BY DEF StreamOK, AfterOK, PlaceOK, GoesOn
<1> QED
  BY <1>2, <1>3, <1>4 DEF StreamOK

\* A move of one stream leaves the others where they are.
LEMMA OtherStreams ==
  ASSUME ConverseTypeOK, NEW t \in Turns, StreamMoves(t), NEW u \in Turns, u # t
  PROVE  /\ stream'[u] = stream[u] /\ pos'[u] = pos[u] /\ outcome'[u] = outcome[u]
         /\ draining'[u] = draining[u] /\ client'[u] = client[u] /\ wire'[u] = wire[u]
         /\ server' = server
<1> USE DEF ConverseTypeOK
<1>1. CASE TakeItem(t)
  BY <1>1 DEF TakeItem, SkipAfterDone
<1>2. CASE FrameSent(t)
  BY <1>2 DEF FrameSent, AfterFrame
<1>3. CASE SendTimesOut(t)
  BY <1>3 DEF SendTimesOut, DropStream
<1>4. CASE ClientLeaves(t)
  BY <1>4 DEF ClientLeaves
<1>5. CASE DisconnectSeen(t)
  BY <1>5 DEF DisconnectSeen, DropStream
<1>6. CASE ShutdownSeen(t)
  BY <1>6 DEF ShutdownSeen
<1>7. CASE DrainDeadline(t)
  BY <1>7 DEF DrainDeadline
<1>8. CASE GraceOver(t)
  BY <1>8 DEF GraceOver, DropStream
<1> QED
  BY <1>1, <1>2, <1>3, <1>4, <1>5, <1>6, <1>7, <1>8 DEF StreamMoves

LEMMA OthersStay ==
  ASSUME TurnsOK, StreamInv, [TurnNext]_turnVars, NEW t \in Turns, StreamMoves(t),
         NEW u \in Turns, u # t
  PROVE  StreamOK(u)'
<1>0. GoesOn(u) /\ StreamOK(u) /\ ConverseTypeOK
  BY TurnsAre, TurnGoesOn DEF StreamInv
<1>1. /\ stream'[u] = stream[u] /\ pos'[u] = pos[u] /\ outcome'[u] = outcome[u]
      /\ draining'[u] = draining[u] /\ client'[u] = client[u] /\ wire'[u] = wire[u]
      /\ server' = server
  BY <1>0, OtherStreams
<1> QED
  BY <1>0, <1>1, StreamStays

LEMMA SignalStops ==
  ASSUME TaskTypeOK, NEW t \in Turns, SignalTurn(t), outcome[t] # "ok"
  PROVE  Alive(t)' => stopReason'[t] # "none"
<1>1. Stop({t}, "disconnected")
  BY DEF SignalTurn, StopFromStream
<1>2. CASE Stoppable(t)
  BY <1>1, <1>2 DEF Stop
<1>3. CASE ~Stoppable(t)
  <2>1. stopReason'[t] = stopReason[t] /\ main'[t] = main[t]
    BY <1>1, <1>3 DEF Stop, Unstarted
  <2> QED
    BY <1>3, <2>1 DEF Stoppable, Alive
<1> QED
  BY <1>2, <1>3

LEMMA TypesMove ==
  ASSUME TurnsOK, StreamInv, NEW t \in Turns, StreamMoves(t)
  PROVE  ConverseTypeOK'
<1> USE DEF ConverseTypeOK, Streaming
<1>0. ConverseTypeOK
  BY DEF StreamInv
<1>1. CASE TakeItem(t)
  <2>1. Len(events[t]) \in Nat /\ pos[t] + 1 \in 1..Len(events[t])
    BY <1>0, <1>1, TurnsAre DEF TakeItem, Empty, StreamInv, StreamOK, FramesOK
  <2>2. events[t][pos[t] + 1] \in Items
    BY <2>1, TurnsAre
  <2>3. ErrorCode(events[t][pos[t] + 1]) \in ErrorCodes
    BY <2>2, FrameKinds
  <2> DEFINE code == ErrorCode(events[t][pos[t] + 1])
  <2>4. code \in ErrorCodes
    BY <2>3
  <2>5. /\ outcome' \in [Turns -> ErrorCodes \cup {"none", "ok"}]
        /\ stream' \in [Turns -> {"reading", "sending", "none", "returned", "dropped"}]
    <3>1. CASE SkipAfterDone(t, events[t][pos[t] + 1]) /\ UNCHANGED outcome
      BY <1>0, <3>1 DEF SkipAfterDone
    <3>2. CASE /\ stream' = [stream EXCEPT ![t] = "sending"]
               /\ outcome' = [outcome EXCEPT ![t] =
                    IF events[t][pos[t] + 1].kind \in {"stopped", "ended"} THEN code ELSE @]
      <4> HIDE DEF code
      <4> QED
        BY <1>0, <2>4, <3>2
    <3> QED
      BY <1>1, <3>1, <3>2 DEF TakeItem
  <2>6. pos' \in [Turns -> Nat]
    BY <1>0, <1>1 DEF TakeItem
  <2>7. UNCHANGED <<draining, client, wire, server>>
    BY <1>1 DEF TakeItem
  <2> QED
    BY <1>0, <2>5, <2>6, <2>7
<1>2. CASE FrameSent(t)
  <2>0. pos[t] \in 1..Len(events[t]) /\ events[t] \in Seq(Items)
    <3>1. Len(wire[t]) \in Nat /\ pos[t] \in Nat
      BY <1>0
    <3>2. stream[t] = "sending" /\ StreamOK(t)
      BY <1>2 DEF FrameSent, StreamInv
    <3> QED
      BY <3>1, <3>2, TurnsAre DEF StreamOK, FramesOK
  <2>1. Current(t) \in Items
    BY <2>0 DEF Current
  <2>2. Frame(Current(t)) \in Terminals \cup {"event"}
    BY <2>1, FrameKinds
  <2>3. wire' \in [Turns -> Seq(Terminals \cup {"event"})]
    <3>1. Append(wire[t], Frame(Current(t))) \in Seq(Terminals \cup {"event"})
      BY <1>0, <2>2
    <3> QED
      BY <1>0, <1>2, <3>1 DEF FrameSent
  <2> QED
    BY <1>0, <1>2, <2>3 DEF FrameSent, AfterFrame
<1>3. CASE SendTimesOut(t)
  BY <1>0, <1>3 DEF SendTimesOut, DropStream
<1>4. CASE ClientLeaves(t)
  BY <1>0, <1>4 DEF ClientLeaves
<1>5. CASE DisconnectSeen(t)
  BY <1>0, <1>5 DEF DisconnectSeen, DropStream
<1>6. CASE ShutdownSeen(t)
  BY <1>0, <1>6 DEF ShutdownSeen
<1>7. CASE DrainDeadline(t)
  BY <1>0, <1>7 DEF DrainDeadline
<1>8. CASE GraceOver(t)
  BY <1>0, <1>8 DEF GraceOver, DropStream
<1> QED
  BY <1>1, <1>2, <1>3, <1>4, <1>5, <1>6, <1>7, <1>8 DEF StreamMoves

\* What is known of the turn and the stream that is about to move.
Known(t) ==
  /\ TaskTypeOK /\ ConverseTypeOK /\ ConverseTypeOK' /\ StreamOK(t) /\ GoesOn(t)
  /\ events[t] \in Seq(Items)
  /\ Len(events[t]) \in Nat /\ pos[t] \in Nat /\ Len(wire[t]) \in Nat
  /\ \A i \in 1..Len(events[t]) : events[t][i].kind = "ended" => ~Alive(t)

LEMMA TakeItemKeeps ==
  ASSUME NEW t \in Turns, Known(t), TakeItem(t)
  PROVE  StreamOK(t)'
<1> DEFINE item == events[t][pos[t] + 1]
<1>1. /\ stream[t] = "reading" /\ pos[t] < Len(events[t]) /\ pos'[t] = pos[t] + 1
      /\ wire'[t] = wire[t] /\ client'[t] = client[t] /\ draining'[t] = draining[t]
      /\ UNCHANGED <<turnVars, server>>
  BY DEF Known, TakeItem, Empty, ConverseTypeOK, StreamOK, FramesOK
<1>2. item \in Items /\ ErrorCode(item) \in ErrorCodes /\ events' = events /\ main' = main
  BY <1>1, FrameKinds DEF Known, turnVars, taskVars
<1>3. \/ /\ outcome[t] = "ok" /\ outcome'[t] = "ok"
         /\ stream'[t] = IF item.kind = "ended" THEN "returned" ELSE "reading"
      \/ /\ outcome[t] = "none" /\ stream'[t] = "sending"
         /\ outcome'[t] = IF item.kind \in {"stopped", "ended"} THEN ErrorCode(item) ELSE "none"
  BY <1>1 DEF Known, TakeItem, SkipAfterDone, ConverseTypeOK, StreamOK, PlaceOK
<1> HIDE DEF item
<1>4. FramesOK(t)'
  BY <1>1, <1>2, <1>3 DEF Known, StreamOK, FramesOK, Open, Streaming, ErrorCodes
<1>5. Current(t)' = item
  BY <1>1, <1>2 DEF Current, item
<1>6. PlaceOK(t)'
  BY <1>1, <1>2, <1>3, <1>5 DEF Known, StreamOK, PlaceOK, ErrorCodes
<1>7. Alive(t)' = Alive(t) /\ (item.kind = "ended" => ~Alive(t))
  BY <1>1, <1>2 DEF Known, Alive, item
<1>8. AfterOK(t)'
  BY <1>2, <1>3, <1>7 DEF AfterOK
<1> QED
  BY <1>4, <1>6, <1>8 DEF StreamOK

LEMMA DropKeeps ==
  ASSUME NEW t \in Turns, Known(t), Open(t), DropStream(t)
  PROVE  StreamOK(t)'
<1>1. /\ stream'[t] = "dropped" /\ UNCHANGED <<pos, outcome, draining, client, wire, server>>
      /\ outcome[t] # "ok" => (Alive(t)' => stopReason'[t] # "none")
      /\ Len(events'[t]) \in Nat /\ Len(events[t]) <= Len(events'[t])
      /\ \A i \in 1..Len(events[t]) : events'[t][i] = events[t][i]
  BY SignalStops DEF Known, DropStream, ConverseTypeOK, GoesOn, Grows
<1>2. FramesOK(t)'
  <2>1. \A i \in 1..Len(wire[t]) : wire[t][i] = Frame(events'[t][i])
    BY <1>1, SentStays DEF Known, StreamOK
  <2> QED
    BY <1>1, <2>1 DEF Known, StreamOK, FramesOK, Open, Streaming
<1>3. PlaceOK(t)'
  BY <1>1 DEF Known, StreamOK, PlaceOK, GoesOn, Open, Streaming
<1>4. AfterOK(t)'
  BY <1>1 DEF AfterOK
<1> QED
  BY <1>2, <1>3, <1>4 DEF StreamOK

\* The stream of a turn moves without a frame and without taking an item.
LEMMA QuietKeeps ==
  ASSUME NEW t \in Turns, Known(t), ClientLeaves(t) \/ ShutdownSeen(t) \/ DrainDeadline(t)
  PROVE  StreamOK(t)'
<1>1. /\ UNCHANGED <<pos, outcome, wire, server>>
      /\ Len(events'[t]) \in Nat /\ Len(events[t]) <= Len(events'[t])
      /\ \A i \in 1..Len(events[t]) : events'[t][i] = events[t][i]
      /\ Open(t) /\ client'[t] \in {client[t], "gone"} /\ client[t] # "none"
      /\ \/ stream'[t] = stream[t]
         \/ /\ stream'[t] = "returned" /\ outcome[t] = "ok"
            /\ server # "serving"
      /\ draining'[t] => draining[t] \/ server # "serving"
  BY DEF Known, ClientLeaves, ShutdownSeen, DrainDeadline, ConverseTypeOK, GoesOn, Grows,
         Open, Streaming, StreamOK, PlaceOK
<1>2. FramesOK(t)'
  <2>1. \A i \in 1..Len(wire[t]) : wire[t][i] = Frame(events'[t][i])
    BY <1>1, SentStays DEF Known, StreamOK
  <2> QED
    BY <1>1, <2>1 DEF Known, StreamOK, FramesOK, Open, Streaming
<1>3. PlaceOK(t)'
  <2>1. stream[t] = "sending" => events'[t][pos[t]] = events[t][pos[t]]
    BY <1>1 DEF Known, StreamOK, FramesOK
  <2> QED
    BY <1>1, <2>1 DEF Known, StreamOK, PlaceOK, GoesOn, Open, Streaming, Current
<1>4. AfterOK(t)'
  BY <1>1 DEF Known, StreamOK, AfterOK, PlaceOK, GoesOn, Open, Streaming
<1> QED
  BY <1>2, <1>3, <1>4 DEF StreamOK

LEMMA FrameSentKeeps ==
  ASSUME NEW t \in Turns, Known(t), FrameSent(t)
  PROVE  StreamOK(t)'
<1> DEFINE item == Current(t)
<1>1. /\ stream[t] = "sending" /\ pos[t] > Len(wire[t]) /\ pos[t] <= Len(events[t])
      /\ UNCHANGED <<pos, draining, client, server>>
      /\ wire'[t] = IF client[t] = "connected" THEN Append(wire[t], Frame(item)) ELSE wire[t]
      /\ Len(events'[t]) \in Nat /\ Len(events[t]) <= Len(events'[t])
      /\ \A i \in 1..Len(events[t]) : events'[t][i] = events[t][i]
  BY DEF Known, FrameSent, ConverseTypeOK, StreamOK, FramesOK, GoesOn, Grows
<1>2. /\ item \in Items /\ item = events[t][pos[t]]
      /\ outcome[t] = IF item.kind \in {"stopped", "ended"} THEN ErrorCode(item) ELSE "none"
  BY <1>1 DEF Known, Current, StreamOK, PlaceOK
<1>3. outcome[t] # "ok" /\ ErrorCode(item) \in ErrorCodes
  BY <1>2, FrameKinds DEF ErrorCodes
<1>4. IF item.kind \in {"stopped", "ended"}
        THEN /\ stream'[t] = "returned" /\ outcome'[t] = outcome[t]
             /\ Alive(t)' => stopReason'[t] # "none"
        ELSE /\ stream'[t] = "reading" /\ UNCHANGED turnVars
             /\ outcome'[t] = IF item.kind = "done" THEN "ok" ELSE "none"
  BY <1>2, <1>3, SignalStops DEF Known, FrameSent, AfterFrame, ConverseTypeOK
<1>5. /\ item.kind = "progress" => Frame(item) = "event"
      /\ item.kind = "done" => Frame(item) = "done"
      /\ item.kind \in {"stopped", "ended", "done", "progress"}
  BY <1>2, FrameKinds
<1> HIDE DEF item
<1>6. FramesOK(t)'
  <2>1. CASE client[t] = "gone"
    <3>1. \A i \in 1..Len(wire[t]) : wire[t][i] = Frame(events'[t][i]) /\ wire[t][i] = "event"
      <4>1. FramesOK(t) /\ Open(t)
        BY <1>1 DEF Known, StreamOK, Open, Streaming
      <4>2. \A i \in 1..Len(wire[t]) : wire[t][i] = Frame(events'[t][i])
        BY <1>1, <4>1, SentStays DEF Known
      <4> QED
        BY <1>3, <4>1, <4>2 DEF FramesOK
    <3> QED
      BY <1>1, <2>1, <3>1 DEF Known, StreamOK, FramesOK, Open, Streaming
  <2>2. CASE client[t] = "connected"
    <3>1. Len(wire[t]) = pos[t] - 1 /\ \A i \in 1..Len(wire[t]) : wire[t][i] = "event"
      BY <1>1, <1>3, <2>2 DEF Known, StreamOK, FramesOK, Open, Streaming
    <3> DEFINE w == Append(wire[t], Frame(item))
    <3>2. /\ wire'[t] = w /\ Len(w) = pos[t] /\ w[pos[t]] = Frame(item)
          /\ \A i \in 1..Len(wire[t]) : w[i] = wire[t][i]
      BY <1>1, <2>2, <3>1 DEF Known, ConverseTypeOK
    <3> HIDE DEF w
    <3>3. \A i \in 1..Len(w) : w[i] = Frame(events'[t][i]) /\ (i < Len(w) => w[i] = "event")
      <4> SUFFICES ASSUME NEW i \in 1..Len(w)
                   PROVE  w[i] = Frame(events'[t][i]) /\ (i < Len(w) => w[i] = "event")
        OBVIOUS
      <4>1. pos[t] \in Nat /\ pos[t] \in 1..Len(events[t])
        BY <1>1 DEF Known
      <4>2. CASE i = pos[t]
        BY <1>1, <1>2, <3>2, <4>1, <4>2
      <4>3. CASE i # pos[t]
        <5>1. i \in 1..Len(wire[t]) /\ i \in 1..Len(events[t])
          BY <3>1, <3>2, <4>1, <4>3
        <5>2. wire[t][i] = Frame(events[t][i])
          BY <5>1 DEF Known, StreamOK, FramesOK
        <5> QED
          BY <1>1, <3>1, <3>2, <5>1, <5>2
      <4> QED
        BY <4>2, <4>3
    <3>4. /\ pos'[t] = pos[t] /\ pos[t] \in Nat /\ pos[t] > 0 /\ client'[t] = client[t]
          /\ pos'[t] <= Len(events'[t])
      BY <1>1 DEF Known
    <3>5. CASE item.kind \in {"stopped", "ended"}
      <4>1. stream'[t] = "returned" /\ outcome'[t] # "ok"
        BY <1>3, <1>4, <3>5
      <4>2. \A i \in 1..Len(w) : i <= pos[t]
        BY <3>2, <3>4
      <4> QED
        BY <3>2, <3>3, <3>4, <4>1, <4>2 DEF FramesOK, Open, Streaming
    <3>6. CASE item.kind \notin {"stopped", "ended"}
      <4>1. \A i \in 1..Len(w) : i < pos[t] => w[i] = "event"
        BY <3>2, <3>3
      <4> QED
        BY <1>1, <1>4, <1>5, <2>2, <3>2, <3>3, <3>4, <3>6, <4>1, SMTT(30) DEF FramesOK, Open, Streaming
    <3> QED
      BY <3>5, <3>6
  <2> QED
    BY <2>1, <2>2 DEF Known, ConverseTypeOK
<1>7. PlaceOK(t)'
  BY <1>1, <1>4 DEF Known, StreamOK, PlaceOK, GoesOn
<1>8. AfterOK(t)'
  BY <1>3, <1>4 DEF AfterOK
<1> QED
  BY <1>6, <1>7, <1>8 DEF StreamOK

LEMMA MovingIsKnown ==
  ASSUME TurnsOK, StreamInv, ConverseTypeOK', [TurnNext]_turnVars, NEW t \in Turns
  PROVE  Known(t)
<1>1. \A i \in 1..Len(events[t]) : events[t][i].kind = "ended" => ~Alive(t)
  BY DEF TurnsOK, QueueInv, QueueInvAt, QueueOK, Alive, Suspended
<1>2. AdmissionTypeOK /\ TaskTypeOK /\ GoesOn(t) /\ events[t] \in Seq(Items)
  BY TurnsAre, TurnGoesOn
<1>3. ConverseTypeOK /\ StreamOK(t)
  BY DEF StreamInv
<1>4. pos[t] \in Nat /\ wire[t] \in Seq(Terminals \cup {"event"})
  BY <1>3 DEF ConverseTypeOK
<1> QED
  BY <1>1, <1>2, <1>3, <1>4 DEF Known

LEMMA StreamMovesKeep ==
  ASSUME TurnsOK, StreamInv, [TurnNext]_turnVars, NEW t \in Turns, StreamMoves(t)
  PROVE  StreamInv'
<1>1. ConverseTypeOK' /\ \A u \in Turns : u # t => StreamOK(u)'
  BY TypesMove, OthersStay
<1>2. Known(t)
  BY <1>1, MovingIsKnown
<1>3. StreamOK(t)'
  BY <1>2, TakeItemKeeps, FrameSentKeeps, DropKeeps, QuietKeeps
  DEF StreamMoves, SendTimesOut, DisconnectSeen, GraceOver, Open, Streaming
<1> QED
  BY <1>1, <1>3 DEF StreamInv

\* Steps of the turns, of the requests and of the server.
LEMMA StartKeeps ==
  ASSUME TurnsOK, StreamInv, [TurnNext]_turnVars, NEW t \in Turns, Start(t)
  PROVE  StreamInv'
<1>1. /\ main[t] = "new" /\ main'[t] = "created" /\ events' = events
      /\ stream' = [stream EXCEPT ![t] = "reading"]
      /\ UNCHANGED <<pos, outcome, draining, client, wire, server>>
  BY TurnsAre DEF Start, Accept, TaskTypeOK
<1>2. ConverseTypeOK /\ stream[t] = "none" /\ \A u \in Turns : StreamOK(u) /\ GoesOn(u)
  BY <1>1, TurnsAre, TurnGoesOn DEF StreamInv, StreamOK, PlaceOK
<1>3. ConverseTypeOK'
  BY <1>1, <1>2 DEF ConverseTypeOK, Streaming
<1>4. ASSUME NEW u \in Turns, u # t PROVE StreamOK(u)'
  BY <1>1, <1>2, <1>4, StreamStays DEF ConverseTypeOK
<1>5. StreamOK(t)'
  <2>1. stream'[t] = "reading" /\ pos[t] = 0 /\ wire[t] = <<>> /\ outcome[t] = "none"
        /\ Len(wire[t]) = 0
    BY <1>1, <1>2 DEF ConverseTypeOK, StreamOK, PlaceOK
  <2> QED
    BY <1>1, <1>2, <2>1 DEF StreamOK, FramesOK, PlaceOK, AfterOK
<1> QED
  BY <1>3, <1>4, <1>5 DEF StreamInv

LEMMA StreamInvNext ==
  ASSUME TurnsOK, StreamInv, [ConverseNext]_converseVars
  PROVE  StreamInv'
<1>0. [TurnNext]_turnVars
  BY ConverseStep
<1>1. ASSUME UNCHANGED streamVars, server' \in {"serving", "sigterm", "draining", "stopped"},
             server' = "serving" => server = "serving"
      PROVE  StreamInv'
  <2>1. ConverseTypeOK'
    BY <1>1 DEF streamVars, StreamInv, ConverseTypeOK
  <2>2. ASSUME NEW u \in Turns PROVE StreamOK(u)'
    BY <1>0, <1>1, TurnsAre, TurnGoesOn, StreamStays DEF streamVars, StreamInv
  <2> QED
    BY <2>1, <2>2 DEF StreamInv
<1>2. ASSUME NEW t \in Turns, Start(t) PROVE StreamInv'
  BY <1>0, <1>2, StartKeeps
<1>3. ASSUME NEW t \in Turns, StreamMoves(t) PROVE StreamInv'
  BY <1>0, <1>3, StreamMovesKeep
<1>4. server \in {"serving", "sigterm", "draining", "stopped"}
  BY DEF StreamInv, ConverseTypeOK
<1>5. ASSUME NEW t \in Turns, Reject(t) \/ TurnMoves(t) PROVE StreamInv'
  BY <1>1, <1>4, <1>5 DEF Reject, TurnMoves
<1>6. ASSUME NEW k \in Keys, Cancel(k) \/ Delete(k) PROVE StreamInv'
  BY <1>1, <1>4, <1>6 DEF Cancel, Delete
<1>7. CASE Sigterm \/ DrainBegins \/ DrainDone \/ DrainTimesOut
  BY <1>1, <1>7 DEF Sigterm, DrainBegins, DrainDone, DrainTimesOut
<1>8. CASE Exited \/ UNCHANGED converseVars
  BY <1>1, <1>4, <1>8 DEF Exited, converseVars
<1> QED
  BY <1>2, <1>3, <1>5, <1>6, <1>7, <1>8 DEF ConverseNext

LEMMA StreamInvInit == ConverseInit => StreamInv
<1> SUFFICES ASSUME ConverseInit PROVE StreamInv
  OBVIOUS
<1>1. ConverseTypeOK
  BY DEF ConverseInit, ConverseTypeOK
<1>2. ASSUME NEW t \in Turns PROVE StreamOK(t)
  <2>1. /\ stream[t] = "none" /\ pos[t] = 0 /\ outcome[t] = "none" /\ ~draining[t]
        /\ client[t] = "connected" /\ wire[t] = <<>> /\ events[t] = <<>>
        /\ Len(wire[t]) = 0 /\ Len(events[t]) = 0
    BY DEF ConverseInit, TurnInit
  <2> QED
    BY <2>1 DEF StreamOK, FramesOK, PlaceOK, AfterOK, Open, Streaming
<1> QED
  BY <1>1, <1>2 DEF StreamInv

\* What is known of the turns holds beside the stream and the shutdown, and the stream is
\* always where StreamInv says.
THEOREM ConverseInvariant == ConverseSpec => [](TurnsOK /\ StreamInv)
<1>1. ConverseInit => TurnInit /\ StopInv
  BY StopInvInit DEF ConverseInit
<1>2. TurnsOK /\ [ConverseNext]_converseVars => StopInv'
  BY ConverseStep, TurnsAre, StopInvNext DEF TurnsOK
<1>3. ConverseSpec => TurnSpec
  BY ConverseIsTurns DEF ConverseImplementsTurn
<1>4. TurnInv /\ QueueInv /\ StopInv <=> TurnsOK
  BY DEF TurnsOK
<1>5. ConverseSpec => []TurnsOK
  BY <1>1, <1>2, <1>3, <1>4, TurnInvariant, QueueInvariant, PTL DEF ConverseSpec
<1>6. TurnsOK /\ StreamInv /\ [ConverseNext]_converseVars => StreamInv'
  BY StreamInvNext
<1> QED
  BY <1>5, <1>6, StreamInvInit, PTL DEF ConverseSpec

\* The frames are the items of the queue, in order, none lost and none twice, however
\* often the stream makes its wait again.
THEOREM FramesComeInOrder == ConverseSpec => []FramesFollowQueue
<1>1. StreamInv => FramesFollowQueue
  BY DEF StreamInv, StreamOK, FramesOK, FramesFollowQueue, Open, Streaming
<1> QED
  BY <1>1, ConverseInvariant, PTL

\* A turn nobody reads any more has been stopped, or has delivered its result.
THEOREM NoTurnUnattended == ConverseSpec => []AbandonedTurnIsStopped
<1>1. StreamInv => AbandonedTurnIsStopped
  BY DEF StreamInv, StreamOK, AfterOK, AbandonedTurnIsStopped
<1> QED
  BY <1>1, ConverseInvariant, PTL

\* When a stream ends after `done`, outside shutdown, the slots of its turn are free.
THEOREM EndMeansFree == ConverseSpec => []EndOfStreamMeansFree
<1>1. TurnsOK /\ StreamInv => EndOfStreamMeansFree
  BY DEF TurnsOK, TurnInv, HeldWhileAlive, StreamInv, StreamOK, AfterOK, EndOfStreamMeansFree
<1> QED
  BY <1>1, ConverseInvariant, PTL

LEMMA FrameOfItem ==
  ASSUME NEW i \in Items, i.kind \in {"stopped", "ended"}
  PROVE  /\ Frame(i) = "timeout" => i.reason = "timeout"
         /\ Frame(i) = "cancelled" =>
              i.reason \in StopReasons \ {"timeout"} \/ (i.reason = "none" /\ i.error = "cancelled")
         /\ Frame(i) \in {"sdk_error", "internal"} => i.reason = "none"
         /\ Frame(i) \in ErrorCodes
  BY DEF Items, Kinds, Errors, StopReasons, ErrorCode, StopCode, ErrorCodes, Frame

\* The terminal frame tells what happened to the turn.
THEOREM TerminalFrameIsTrue == ConverseSpec => []TerminalTellsTruth
<1>1. ASSUME TurnsOK, StreamInv, NEW t \in Turns, NEW i \in 1..Len(wire[t])
      PROVE  CASE wire[t][i] = "timeout" -> stopReason[t] = "timeout"
               [] wire[t][i] = "cancelled" -> stopReason[t] \in StopReasons \ {"timeout"}
               [] wire[t][i] \in {"sdk_error", "internal"} ->
                    stopReason[t] = "none" /\ main[t] = "done"
               [] OTHER -> \A j \in 1..i : events[t][j].kind \notin {"stopped", "ended"}
  <2>1. /\ StreamOK(t) /\ Len(wire[t]) \in Nat /\ Len(events[t]) \in Nat
        /\ pos[t] \in Nat /\ events[t] \in Seq(Items)
    BY <1>1, TurnsAre DEF StreamInv, ConverseTypeOK
  <2>2. i \in 1..Len(events[t]) /\ wire[t][i] = Frame(events[t][i])
    BY <2>1 DEF StreamOK, FramesOK
  <2> DEFINE item == events[t][i]
  <2>3. item \in Items
    BY <2>1, <2>2
  <2>4. /\ item.kind = "ended" => main[t] = "done" /\ item.reason = stopReason[t]
        /\ item.kind = "stopped" => item.reason = stopReason[t] /\ stopReason[t] # "none"
        /\ item.error = "cancelled" => stopReason[t] # "none"
    BY <1>1, <2>2 DEF TurnsOK, QueueInv, QueueInvAt, QueueOK, StopInv, CancelledWasStopped
  <2>5. \A j \in 1..i : j < i => events[t][j].kind \notin {"stopped", "ended"}
    <3> SUFFICES ASSUME NEW j \in 1..i, j < i PROVE events[t][j].kind \notin {"stopped", "ended"}
      OBVIOUS
    <3>1. j \in 1..Len(wire[t]) /\ j < Len(wire[t]) /\ j \in 1..Len(events[t])
      BY <2>1, <2>2
    <3>2. events[t][j] \in Items /\ Frame(events[t][j]) = "event"
      BY <2>1, <3>1 DEF StreamOK, FramesOK
    <3> QED
      BY <3>2, FrameOfItem DEF ErrorCodes
  <2> HIDE DEF item
  <2>6. CASE item.kind \in {"stopped", "ended"}
    <3>1. wire[t][i] = Frame(item) /\ Frame(item) \in ErrorCodes
      BY <2>2, <2>3, <2>6, FrameOfItem DEF item
    <3>2. wire[t][i] = "timeout" => stopReason[t] = "timeout"
      BY <2>3, <2>4, <2>6, <3>1, FrameOfItem
    <3>3. wire[t][i] = "cancelled" => stopReason[t] \in StopReasons \ {"timeout"}
      BY <2>3, <2>4, <2>6, <3>1, FrameOfItem
    <3>4. wire[t][i] \in {"sdk_error", "internal"} => stopReason[t] = "none" /\ main[t] = "done"
      BY <2>3, <2>4, <2>6, <3>1, FrameOfItem
    <3> QED
      BY <3>1, <3>2, <3>3, <3>4 DEF ErrorCodes
  <2>7. CASE item.kind \notin {"stopped", "ended"}
    <3>1. Frame(item) \in {"done", "event"}
      BY <2>3, <2>7, FrameKinds
    <3>2. \A j \in 1..i : events[t][j].kind \notin {"stopped", "ended"}
      BY <2>5, <2>7 DEF item
    <3> QED
      BY <2>2, <3>1, <3>2 DEF item
  <2> QED
    BY <2>6, <2>7
<1>2. TurnsOK /\ StreamInv => TerminalTellsTruth
  BY <1>1 DEF TerminalTellsTruth
<1> QED
  BY <1>2, ConverseInvariant, PTL

-----------------------------------------------------------------------------
(* What the client is promised *)

\* The connection, as the client sees it: what Converse puts for `conn`.
Seen(t) ==
  IF client[t] = "gone" THEN "dropped"
  ELSE IF stream[t] = "returned" THEN "ended"
  ELSE IF stream[t] \in Streaming THEN "open" ELSE stream[t]

LEMMA OneStreamMoves ==
  ASSUME ConverseTypeOK, ConverseTypeOK', NEW t \in Turns,
         \A u \in Turns : u # t =>
           stream'[u] = stream[u] /\ client'[u] = client[u] /\ wire'[u] = wire[u]
  PROVE  /\ [u \in Turns |-> Seen(u)]' = [[u \in Turns |-> Seen(u)] EXCEPT ![t] = Seen(t)']
         /\ wire' = [wire EXCEPT ![t] = wire'[t]]
<1>1. \A u \in Turns : u # t => Seen(u)' = Seen(u)
  BY DEF Seen
<1>2. [u \in Turns |-> Seen(u)]' = [[u \in Turns |-> Seen(u)] EXCEPT ![t] = Seen(t)']
  BY <1>1
<1>3. wire' = [wire EXCEPT ![t] = wire'[t]]
  BY DEF ConverseTypeOK
<1> QED
  BY <1>2, <1>3

\* A client still there has its terminal frame when, and only when, the stream is past
\* it.
LEMMA TerminalWhenOver ==
  ASSUME NEW t \in Turns, ConverseTypeOK, StreamOK(t), Open(t), client[t] = "connected"
  PROVE  Contract!HasTerminal(t) <=> outcome[t] = "ok"
<1> USE DEF Contract!HasTerminal
<1>0. wire[t] \in Seq(Terminals \cup {"event"}) /\ Len(wire[t]) \in Nat
  BY DEF ConverseTypeOK
<1>1. CASE outcome[t] = "ok"
  BY <1>0, <1>1 DEF StreamOK, FramesOK, Terminals
<1>2. CASE outcome[t] # "ok"
  <2>1. \A i \in 1..Len(wire[t]) : wire[t][i] = "event"
    BY <1>2 DEF StreamOK, FramesOK
  <2>2. wire[t] # <<>> => Len(wire[t]) \in 1..Len(wire[t])
    BY <1>0
  <2> QED
    BY <1>2, <2>1, <2>2 DEF Terminals, ErrorCodes
<1> QED
  BY <1>1, <1>2

LEMMA StreamMoveIsContractStep ==
  ASSUME NEW t \in Turns, Known(t), StreamMoves(t),
         \A u \in Turns : u # t =>
           stream'[u] = stream[u] /\ client'[u] = client[u] /\ wire'[u] = wire[u]
  PROVE  [Contract!ContractNext]_Contract!contractVars
<1> DEFINE c == [u \in Turns |-> Seen(u)]
<1>0. /\ c' = [c EXCEPT ![t] = Seen(t)'] /\ c[t] = Seen(t)
      /\ wire' = [wire EXCEPT ![t] = wire'[t]]
  BY OneStreamMoves DEF Known
<1>1. client[t] \in {"connected", "gone"} /\ client'[t] \in {"connected", "gone"} /\ Open(t)
  BY DEF Known, ConverseTypeOK, StreamMoves, TakeItem, FrameSent, SendTimesOut, ClientLeaves,
     DisconnectSeen, ShutdownSeen, DrainDeadline, GraceOver, Open, Streaming
<1>2. Contract!ContractNext <=> \E s \in Turns :
        Contract!Open(s) \/ Contract!Send(s) \/ Contract!End(s) \/ Contract!Drop(s)
  BY DEF Contract!ContractNext
<1>3. CASE wire'[t] = wire[t] /\ Seen(t)' = Seen(t)
  <2> HIDE DEF c
  <2>1. c' = c /\ wire' = wire
    <3>1. c = [c EXCEPT ![t] = c[t]]
      BY DEF c
    <3>2. wire = [wire EXCEPT ![t] = wire[t]]
      BY DEF Known, ConverseTypeOK
    <3> QED
      BY <1>0, <1>3, <3>1, <3>2
  <2> QED
    BY <2>1 DEF Contract!contractVars, Seen, c
<1>4. CASE wire'[t] = wire[t] /\ Seen(t) = "open" /\ Seen(t)' = "dropped"
  <2>1. wire' = wire
    BY <1>0, <1>4 DEF Known, ConverseTypeOK
  <2>2. Contract!Drop(t)
    BY <1>0, <1>4, <2>1 DEF Contract!Drop, Seen
  <2> QED
    BY <1>2, <2>2
<1>5. CASE wire'[t] = wire[t] /\ Seen(t) = "open" /\ Seen(t)' = "ended" /\ Contract!HasTerminal(t)
  <2>1. wire' = wire
    BY <1>0, <1>5 DEF Known, ConverseTypeOK
  <2>2. Contract!End(t)
    BY <1>0, <1>5, <2>1 DEF Contract!End, Seen
  <2> QED
    BY <1>2, <2>2
<1>6. CASE FrameSent(t) /\ client[t] = "connected"
  <2>1. /\ Current(t) \in Items /\ outcome[t] # "ok" /\ Seen(t) = "open"
        /\ wire'[t] = Append(wire[t], Frame(Current(t))) /\ client'[t] = "connected"
        /\ stream'[t] = IF Current(t).kind \in {"stopped", "ended"} THEN "returned" ELSE "reading"
    <3>1. stream[t] = "sending" /\ pos[t] \in 1..Len(events[t])
      BY <1>6 DEF Known, FrameSent, StreamOK, FramesOK
    <3>2. Current(t) \in Items
      BY <3>1 DEF Known, Current
    <3>3. outcome[t] # "ok"
      BY <3>1, <3>2, FrameKinds DEF Known, StreamOK, PlaceOK, ErrorCodes
    <3> QED
      BY <1>6, <3>1, <3>2, <3>3 DEF Known, FrameSent, AfterFrame, ConverseTypeOK, Seen, Streaming
  <2>2. ~Contract!HasTerminal(t)
    BY <1>1, <1>6, <2>1, TerminalWhenOver DEF Known
  <2>3. wire' = [wire EXCEPT ![t] = Append(@, Frame(Current(t)))]
    BY <1>0, <2>1
  <2>4. CASE Current(t).kind \in {"stopped", "ended"}
    <3>1. Frame(Current(t)) \in Terminals
      BY <2>1, <2>4, FrameKinds DEF Terminals
    <3>2. Seen(t)' = "ended"
      BY <2>1, <2>4 DEF Seen
    <3>3. Contract!End(t)
      BY <1>0, <2>1, <2>2, <2>3, <3>1, <3>2 DEF Contract!End, Seen
    <3> QED
      BY <1>2, <3>3
  <2>5. CASE Current(t).kind \notin {"stopped", "ended"}
    <3>1. Frame(Current(t)) \in Contract!Frames
      BY <2>1, FrameKinds DEF Contract!Frames
    <3>2. Seen(t)' = "open"
      BY <2>1, <2>5 DEF Seen, Streaming
    <3>3. c' = c
      BY <1>0, <2>1, <3>2
    <3>4. Contract!Send(t)
      BY <1>0, <2>1, <2>2, <2>3, <3>1, <3>3 DEF Contract!Send, Seen
    <3> QED
      BY <1>2, <3>4
  <2> QED
    BY <2>4, <2>5
<1>7. CASE FrameSent(t) /\ client[t] = "gone"
  BY <1>3, <1>7 DEF Known, FrameSent, ConverseTypeOK, Seen
<1>8. CASE SendTimesOut(t) \/ DisconnectSeen(t) \/ GraceOver(t)
  <2>1. wire'[t] = wire[t] /\ client'[t] = client[t] /\ stream'[t] = "dropped"
    BY <1>8 DEF Known, SendTimesOut, DisconnectSeen, GraceOver, DropStream, ConverseTypeOK
  <2>2. Seen(t)' = "dropped"
    BY <1>1, <2>1 DEF Seen, Streaming
  <2>3. Seen(t) = IF client[t] = "gone" THEN "dropped" ELSE "open"
    BY <1>1 DEF Seen, Open, Streaming
  <2>4. CASE client[t] = "gone"
    BY <1>3, <2>1, <2>2, <2>3, <2>4
  <2>5. CASE client[t] = "connected"
    BY <1>4, <2>1, <2>2, <2>3, <2>5
  <2> QED
    BY <1>1, <2>4, <2>5
<1>9. CASE ClientLeaves(t)
  <2>1. /\ wire'[t] = wire[t] /\ client[t] = "connected" /\ client'[t] = "gone"
        /\ stream'[t] = stream[t]
    BY <1>9 DEF Known, ClientLeaves, ConverseTypeOK
  <2>2. Seen(t) = "open" /\ Seen(t)' = "dropped"
    BY <1>1, <2>1 DEF Seen, Open, Streaming
  <2> QED
    BY <1>4, <2>1, <2>2
<1>10. CASE TakeItem(t) \/ ShutdownSeen(t) \/ DrainDeadline(t)
  <2>1. /\ wire'[t] = wire[t] /\ client'[t] = client[t]
        /\ \/ stream'[t] \in Streaming
           \/ stream'[t] = "returned" /\ outcome[t] = "ok"
    BY <1>10 DEF Known, TakeItem, SkipAfterDone, ShutdownSeen, DrainDeadline, ConverseTypeOK, Streaming
  <2> QED
    BY <1>1, <1>3, <1>5, <2>1, TerminalWhenOver DEF Known, Seen, Open, Streaming
<1> QED
  BY <1>1, <1>6, <1>7, <1>8, <1>9, <1>10 DEF StreamMoves

\* On every path the client sees what StreamContract promises: events, one terminal
\* frame, and the end of the stream, unless the connection itself is lost.
THEOREM StreamsKeepTheContract == ConverseSpec => StreamKeepsContract
<1>1. ConverseInit => Contract!ContractInit
  BY DEF ConverseInit, Contract!ContractInit, Streaming
<1>2. ASSUME TurnsOK, StreamInv, StreamInv', [ConverseNext]_converseVars
      PROVE  [Contract!ContractNext]_Contract!contractVars
  <2>0. [TurnNext]_turnVars
    BY <1>2, ConverseStep
  <2>1. CASE UNCHANGED streamVars
    BY <2>1 DEF streamVars, Contract!contractVars
  <2>2. ASSUME NEW t \in Turns, Start(t) PROVE Contract!Open(t)
    <3>1. stream' = [stream EXCEPT ![t] = "reading"] /\ UNCHANGED <<client, wire>> /\ main[t] = "new"
      BY <2>2, <1>2, TurnsAre DEF Start, Accept
    <3>2. stream[t] = "none" /\ client[t] = "connected"
      BY <1>2, <3>1 DEF StreamInv, StreamOK, PlaceOK
    <3>3. ConverseTypeOK /\ ConverseTypeOK'
      BY <1>2 DEF StreamInv
    <3>4. \A u \in Turns : u # t =>
            stream'[u] = stream[u] /\ client'[u] = client[u] /\ wire'[u] = wire[u]
      BY <3>1, <3>3 DEF ConverseTypeOK
    <3>5. Seen(t) = "none" /\ Seen(t)' = "open"
      BY <3>1, <3>2, <3>3 DEF Seen, Streaming, ConverseTypeOK
    <3>6. [u \in Turns |-> Seen(u)]' = [[u \in Turns |-> Seen(u)] EXCEPT ![t] = "open"]
      BY <3>3, <3>4, <3>5, OneStreamMoves
    <3> QED
      BY <3>1, <3>5, <3>6 DEF Contract!Open, Seen
  <2>3. ASSUME NEW t \in Turns, StreamMoves(t) PROVE [Contract!ContractNext]_Contract!contractVars
    <3>1. Known(t)
      BY <1>2, <2>0, MovingIsKnown DEF StreamInv
    <3>2. \A u \in Turns : u # t =>
            stream'[u] = stream[u] /\ client'[u] = client[u] /\ wire'[u] = wire[u]
      BY <1>2, <2>3, OtherStreams DEF StreamInv
    <3> QED
      BY <2>3, <3>1, <3>2, StreamMoveIsContractStep
  <2>4. ASSUME NEW t \in Turns, Reject(t) \/ TurnMoves(t) PROVE UNCHANGED streamVars
    BY <2>4 DEF Reject, TurnMoves
  <2>5. ASSUME NEW k \in Keys, Cancel(k) \/ Delete(k) PROVE UNCHANGED streamVars
    BY <2>5 DEF Cancel, Delete
  <2>6. CASE Sigterm \/ DrainBegins \/ DrainDone \/ DrainTimesOut \/ Exited \/ UNCHANGED converseVars
    BY <2>1, <2>6 DEF Sigterm, DrainBegins, DrainDone, DrainTimesOut, Exited, converseVars
  <2>7. ASSUME NEW t \in Turns, Contract!Open(t) PROVE Contract!ContractNext
    BY <2>7 DEF Contract!ContractNext
  <2> QED
    BY <1>2, <2>1, <2>2, <2>3, <2>4, <2>5, <2>6, <2>7 DEF ConverseNext
<1> QED
  BY <1>1, <1>2, ConverseInvariant, PTL
  DEF ConverseSpec, StreamKeepsContract, Contract!ContractSpec

LEMMA ContractAppend ==
  ASSUME NEW t \in Turns, wire \in [Turns -> Seq(Terminals \cup {"event"})],
         \A i \in 1..Len(wire[t]) : wire[t][i] \in Terminals => i = Len(wire[t]),
         ~Contract!HasTerminal(t), NEW f \in Terminals \cup {"event"},
         wire' = [wire EXCEPT ![t] = Append(@, f)]
  PROVE  /\ \A i \in 1..Len(wire'[t]) : wire'[t][i] \in Terminals => i = Len(wire'[t])
         /\ f \in Terminals => Contract!HasTerminal(t)'
         /\ \A u \in Turns : u # t => wire'[u] = wire[u]
<1>1. /\ wire[t] \in Seq(Terminals \cup {"event"}) /\ Len(wire[t]) \in Nat
      /\ wire'[t] = Append(wire[t], f) /\ Len(wire'[t]) = Len(wire[t]) + 1
      /\ \A i \in 1..Len(wire[t]) : wire'[t][i] = wire[t][i]
      /\ wire'[t][Len(wire'[t])] = f /\ wire'[t] # <<>>
  <2>1. wire[t] \in Seq(Terminals \cup {"event"}) /\ Len(wire[t]) \in Nat
    OBVIOUS
  <2>2. wire'[t] = Append(wire[t], f)
    OBVIOUS
  <2> QED
    BY <2>1, <2>2
<1>2. \A i \in 1..Len(wire[t]) : wire[t][i] \notin Terminals
  <2>1. wire[t] = <<>> => Len(wire[t]) = 0
    OBVIOUS
  <2> QED
    BY <1>1, <2>1 DEF Contract!HasTerminal
<1>3. \A u \in Turns : u # t => wire'[u] = wire[u]
  OBVIOUS
<1> QED
  BY <1>1, <1>2, <1>3 DEF Contract!HasTerminal

LEMMA ContractStep ==
  ASSUME wire \in [Turns -> Seq(Terminals \cup {"event"})], Contract!OneTerminalFrame,
         [Contract!ContractNext]_Contract!contractVars
  PROVE  Contract!OneTerminalFrame'
<1> DEFINE c == [t \in Turns |-> Seen(t)]
<1> DEFINE Fine(t) == /\ \A i \in 1..Len(wire[t]) : wire[t][i] \in Terminals => i = Len(wire[t])
                      /\ c[t] = "ended" => Contract!HasTerminal(t)
<1>0. /\ Contract!OneTerminalFrame <=> \A t \in Turns : Fine(t)
      /\ Contract!OneTerminalFrame' <=> \A t \in Turns : Fine(t)'
  BY DEF Contract!OneTerminalFrame, Seen
<1>1. ASSUME wire' = wire, NEW t \in Turns, NEW place, c' = [c EXCEPT ![t] = place],
             place = "ended" => Contract!HasTerminal(t)
      PROVE  \A u \in Turns : Fine(u)'
  <2>1. \A u \in Turns : c'[u] = IF u = t THEN place ELSE c[u]
    BY <1>1
  <2> HIDE DEF c
  <2> QED
    BY <1>0, <1>1, <2>1 DEF Contract!HasTerminal
<1>2. ASSUME NEW t \in Turns, NEW f \in Terminals \cup {"event"}, ~Contract!HasTerminal(t),
             wire' = [wire EXCEPT ![t] = Append(@, f)], NEW place,
             c' = [c EXCEPT ![t] = place], place = "ended" => f \in Terminals
      PROVE  \A u \in Turns : Fine(u)'
  <2>1. \A u \in Turns : c'[u] = IF u = t THEN place ELSE c[u]
    BY <1>2
  <2> HIDE DEF c
  <2>2. /\ \A i \in 1..Len(wire'[t]) : wire'[t][i] \in Terminals => i = Len(wire'[t])
        /\ f \in Terminals => Contract!HasTerminal(t)'
        /\ \A u \in Turns : u # t => wire'[u] = wire[u]
    BY <1>0, <1>2, ContractAppend
  <2> QED
    BY <1>0, <1>2, <2>1, <2>2 DEF Contract!HasTerminal
<1>3. CASE UNCHANGED Contract!contractVars
  <2>1. wire' = wire /\ c' = c
    BY <1>3 DEF Contract!contractVars, Seen
  <2> HIDE DEF c
  <2> QED
    BY <1>0, <2>1 DEF Contract!HasTerminal
<1>4. ASSUME NEW t \in Turns, Contract!Open(t) \/ Contract!Drop(t)
      PROVE  \A u \in Turns : Fine(u)'
  BY <1>1, <1>4 DEF Contract!Open, Contract!Drop, Seen
<1>5. ASSUME NEW t \in Turns, Contract!Send(t) PROVE \A u \in Turns : Fine(u)'
  <2>1. /\ ~Contract!HasTerminal(t) /\ c' = [c EXCEPT ![t] = "open"]
        /\ \E f \in Terminals \cup {"event"} : wire' = [wire EXCEPT ![t] = Append(@, f)]
    BY <1>5 DEF Contract!Send, Contract!Frames, Seen
  <2> HIDE DEF c, Fine
  <2> QED
    BY <1>2, <2>1
<1>6. ASSUME NEW t \in Turns, Contract!End(t) PROVE \A u \in Turns : Fine(u)'
  <2>1. /\ c' = [c EXCEPT ![t] = "ended"]
        /\ \/ Contract!HasTerminal(t) /\ wire' = wire
           \/ /\ ~Contract!HasTerminal(t)
              /\ \E f \in Terminals : wire' = [wire EXCEPT ![t] = Append(@, f)]
    BY <1>6 DEF Contract!End, Seen
  <2> HIDE DEF c, Fine
  <2> QED
    BY <1>1, <1>2, <2>1
<1> QED
  BY <1>0, <1>3, <1>4, <1>5, <1>6 DEF Contract!ContractNext

\* A client has at most one terminal frame, after which it gets nothing, and one whose
\* stream the server ended has it.
THEOREM ClientsGetOneAnswer == ConverseSpec => []Contract!OneTerminalFrame
<1>1. Contract!ContractInit => Contract!OneTerminalFrame
  BY DEF Contract!ContractInit, Contract!OneTerminalFrame
<1>2. StreamInv => wire \in [Turns -> Seq(Terminals \cup {"event"})]
  BY DEF StreamInv, ConverseTypeOK
<1>3. StreamInv /\ Contract!OneTerminalFrame /\ [Contract!ContractNext]_Contract!contractVars
        => Contract!OneTerminalFrame'
  BY <1>2, ContractStep
<1> QED
  BY <1>1, <1>3, ConverseInvariant, StreamsKeepTheContract, PTL
  DEF StreamKeepsContract, Contract!ContractSpec

-----------------------------------------------------------------------------
(* Nothing waits for ever: the streams *)

\* A stream that waits has not taken the end of its queue.
ReadOK(t) == stream[t] = "reading" /\ pos[t] > 0 => Current(t).kind # "ended"
ReadInv == \A t \in Turns : ReadOK(t)

LEMMA ReadStays ==
  ASSUME NEW t \in Turns, ConverseTypeOK, StreamOK(t), GoesOn(t), ReadOK(t),
         stream'[t] = stream[t], pos'[t] = pos[t]
  PROVE  ReadOK(t)'
<1>1. /\ pos[t] \in Nat /\ pos[t] <= Len(events[t]) /\ Len(events[t]) \in Nat
      /\ \A i \in 1..Len(events[t]) : events'[t][i] = events[t][i]
  BY DEF ConverseTypeOK, StreamOK, FramesOK, GoesOn, Grows
<1>2. pos[t] > 0 => Current(t)' = Current(t)
  BY <1>1 DEF Current
<1> QED
  BY <1>1, <1>2 DEF ReadOK

LEMMA ReadMoves ==
  ASSUME NEW t \in Turns, Known(t), ReadOK(t), StreamMoves(t)
  PROVE  ReadOK(t)'
<1>1. CASE TakeItem(t)
  <2>1. /\ events' = events /\ pos'[t] = pos[t] + 1
        /\ stream'[t] = "reading" => events[t][pos[t] + 1].kind # "ended"
    BY <1>1 DEF Known, TakeItem, SkipAfterDone, ConverseTypeOK, turnVars, taskVars
  <2> QED
    BY <2>1 DEF ReadOK, Current
<1>2. CASE FrameSent(t)
  <2>1. /\ pos' = pos
        /\ stream'[t] = "reading" => events' = events /\ Current(t).kind # "ended"
    BY <1>2 DEF Known, FrameSent, AfterFrame, ConverseTypeOK, turnVars, taskVars
  <2> QED
    BY <2>1 DEF ReadOK, Current
<1>3. CASE SendTimesOut(t) \/ DisconnectSeen(t) \/ GraceOver(t)
  BY <1>3
  DEF Known, SendTimesOut, DisconnectSeen, GraceOver, DropStream, ConverseTypeOK, ReadOK
<1>4. CASE ClientLeaves(t) \/ ShutdownSeen(t) \/ DrainDeadline(t)
  <2>1. pos'[t] = pos[t] /\ (stream'[t] = stream[t] \/ stream'[t] # "reading")
    BY <1>4 DEF Known, ClientLeaves, ShutdownSeen, DrainDeadline, ConverseTypeOK
  <2> QED
    BY <2>1, ReadStays DEF Known, ReadOK
<1> QED
  BY <1>1, <1>2, <1>3, <1>4 DEF StreamMoves

LEMMA ReadInvNext ==
  ASSUME TurnsOK, StreamInv, StreamInv', ReadInv, [ConverseNext]_converseVars
  PROVE  ReadInv'
<1> SUFFICES ASSUME NEW u \in Turns PROVE ReadOK(u)'
  BY DEF ReadInv
<1>0. /\ [TurnNext]_turnVars /\ ConverseTypeOK /\ ConverseTypeOK' /\ StreamOK(u)
      /\ GoesOn(u) /\ ReadOK(u)
  BY ConverseStep, TurnsAre, TurnGoesOn DEF StreamInv, ReadInv
<1>1. CASE UNCHANGED streamVars
  BY <1>0, <1>1, ReadStays DEF streamVars
<1>2. ASSUME NEW t \in Turns, Start(t) PROVE ReadOK(u)'
  <2>1. stream[t] = "none"
    BY <1>2 DEF StreamInv, StreamOK, PlaceOK, Start, Accept
  <2>2. pos'[u] = pos[u] /\ (u # t => stream'[u] = stream[u])
    BY <1>0, <1>2 DEF Start, ConverseTypeOK
  <2>3. CASE u = t
    BY <1>0, <2>1, <2>2, <2>3 DEF StreamOK, PlaceOK, ReadOK
  <2> QED
    BY <1>0, <2>2, <2>3, ReadStays
<1>3. ASSUME NEW t \in Turns, StreamMoves(t) PROVE ReadOK(u)'
  <2>1. CASE u = t
    BY <1>0, <1>3, <2>1, MovingIsKnown, ReadMoves
  <2>2. CASE u # t
    BY <1>0, <1>3, <2>2, OtherStreams, ReadStays
  <2> QED
    BY <2>1, <2>2
<1>4. ASSUME NEW t \in Turns, Reject(t) \/ TurnMoves(t) PROVE UNCHANGED streamVars
  BY <1>4 DEF Reject, TurnMoves
<1>5. ASSUME NEW k \in Keys, Cancel(k) \/ Delete(k) PROVE UNCHANGED streamVars
  BY <1>5 DEF Cancel, Delete
<1>6. CASE Sigterm \/ DrainBegins \/ DrainDone \/ DrainTimesOut \/ Exited
           \/ UNCHANGED converseVars
  BY <1>1, <1>6 DEF Sigterm, DrainBegins, DrainDone, DrainTimesOut, Exited, converseVars, streamVars
<1> QED
  BY <1>1, <1>2, <1>3, <1>4, <1>5, <1>6 DEF ConverseNext

\* A stream that waits at an empty queue waits for a task that will still end it.
THEOREM NoReaderIsForgotten == ConverseSpec => []ReadersHaveWriters
<1>1. ConverseInit => ReadInv
  BY DEF ConverseInit, ReadInv, ReadOK
<1>2. TurnsOK /\ StreamInv /\ StreamInv' /\ ReadInv /\ [ConverseNext]_converseVars => ReadInv'
  BY ReadInvNext
<1>3. TurnsOK /\ StreamInv /\ ReadInv => ReadersHaveWriters
  <2> SUFFICES ASSUME TurnsOK, StreamInv, ReadInv, NEW t \in Turns,
                      stream[t] = "reading", Empty(t), ~Alive(t)
               PROVE  FALSE
    BY DEF ReadersHaveWriters
  <2>1. main[t] = "done"
    BY TurnsAre DEF StreamInv, StreamOK, PlaceOK, TaskTypeOK, Places, Alive, Suspended
  <2>2. Len(events[t]) > 0 /\ events[t][Len(events[t])].kind = "ended"
    BY <2>1 DEF TurnsOK, QueueInv, QueueInvAt, QueueOK
  <2> QED
    BY <2>2 DEF ReadInv, ReadOK, Current, Empty
<1> QED
  BY <1>1, <1>2, <1>3, ConverseInvariant, PTL DEF ConverseSpec

-----------------------------------------------------------------------------
(* Nothing waits for ever: the shutdown *)

\* ShutdownReachesAll, with what its steps need: only the end of the drain cancels a
\* second time.
DrainInv ==
  /\ ShutdownReachesAll
  /\ server # "stopped" => \A t \in Turns : ~forced[t]

\* A stop of every registered turn leaves none that works on.
LEMMA StopAllStops ==
  ASSUME TurnInv, StopAll, NEW t \in Turns, Alive(t)'
  PROVE  stopReason'[t] # "none" /\ Alive(t)
<1>1. Stop(RegisteredTurns, "shutdown")
  BY DEF StopAll
<1>2. Alive(t)
  BY <1>1 DEF Stop, Unstarted, Stoppable, Alive, Suspended
<1>3. t \in RegisteredTurns
  BY <1>2 DEF TurnInv, HeldWhileAlive, RegisteredTurns
<1>4. stopReason'[t] # "none"
  BY <1>1, <1>2, <1>3 DEF Stop, Stoppable
<1> QED
  BY <1>2, <1>4

\* When no stream is open only the tasks move, and no step of theirs begins one.
LEMMA ForcedStays ==
  ASSUME [ConverseNext]_converseVars, ~DrainTimesOut
  PROVE  forced' = forced
<1> USE DEF historyVars
<1>1. ASSUME NEW t \in Turns, TaskRuns(t) \/ WorldMoves(t) PROVE forced' = forced
  BY <1>1
  DEF TaskRuns, CancelLands, FirstStep, FirstStepFails, WorkspaceReady, WorkspaceFails,
      CliSpawned, OpeningFails, RunnerYields, RecordingBegins, RecordingEnds, RunnerEnds,
      RunnerClosed, WorkspaceLeft, CancelInWorkspace, CancelInOpening, CancelInRunning,
      CancelInRecording, CancelInClosing, CancelInLeaving, WorldMoves, CliExits, RmtreeEnds
<1>2. ASSUME NEW t \in Turns, SignalTurn(t) PROVE forced' = forced
  BY <1>2 DEF SignalTurn, StopFromStream, Stop, turnVars
<1>3. ASSUME NEW t \in Turns, Start(t) \/ Reject(t) \/ TurnMoves(t) PROVE forced' = forced
  BY <1>1, <1>3 DEF Start, Accept, Reject, Refuse, TurnMoves, Timeout, Stop
<1>4. ASSUME NEW t \in Turns, StreamMoves(t) PROVE forced' = forced
  BY <1>2, <1>4
  DEF StreamMoves, TakeItem, FrameSent, AfterFrame, SendTimesOut, ClientLeaves,
      DisconnectSeen, ShutdownSeen, DrainDeadline, GraceOver, DropStream, StopFromStream, Stop,
      turnVars
<1>5. ASSUME NEW k \in Keys, Cancel(k) \/ Delete(k) PROVE forced' = forced
  BY <1>5 DEF Cancel, CancelRequest, Stop, Delete, DeleteBegins, DeleteEnds
<1>6. CASE Sigterm \/ DrainBegins \/ DrainDone \/ Exited \/ UNCHANGED converseVars
  BY <1>6 DEF Sigterm, DrainBegins, StopAll, Stop, DrainDone, Exited, converseVars, turnVars
<1> QED
  BY <1>3, <1>4, <1>5, <1>6 DEF ConverseNext

LEMMA LateSteps ==
  ASSUME TurnsOK, StreamInv, [ConverseNext]_converseVars, server \in {"draining", "stopped"},
         \A t \in Turns : ~Open(t), ~DrainDone, ~DrainTimesOut
  PROVE  /\ UNCHANGED <<streamVars, server>>
         /\ \A t \in Turns : Alive(t)' => Alive(t)
<1>0. TaskTypeOK /\ TurnTypeOK
  BY TurnsAre DEF TurnsOK, TurnInv
<1>1. ASSUME NEW t \in Turns, TurnMoves(t)
      PROVE  /\ UNCHANGED <<streamVars, server>>
             /\ \A u \in Turns : Alive(u)' => Alive(u)
  <2>1. ASSUME TaskRuns(t), NEW u \in Turns, Alive(u)' PROVE Alive(u)
    BY <1>0, <2>1, TaskRunsMoves DEF TaskMoves, Alive, Suspended
  <2>2. ASSUME WorldMoves(t), NEW u \in Turns, Alive(u)' PROVE Alive(u)
    BY <2>2 DEF WorldMoves, CliExits, RmtreeEnds, taskVars, Alive
  <2>3. ASSUME Timeout(t), NEW u \in Turns, Alive(u)' PROVE Alive(u)
    BY <2>3 DEF Timeout, Stop, Unstarted, Alive, Suspended
  <2> QED
    BY <1>1, <2>1, <2>2, <2>3 DEF TurnMoves
<1>2. ASSUME NEW t \in Turns, Start(t) \/ Reject(t) \/ StreamMoves(t) PROVE FALSE
  BY <1>2
  DEF Start, Reject, StreamMoves, TakeItem, FrameSent, SendTimesOut, ClientLeaves,
      DisconnectSeen, ShutdownSeen, DrainDeadline, GraceOver, Open, Streaming
<1>3. ASSUME NEW k \in Keys, Cancel(k) \/ Delete(k) PROVE FALSE
  BY <1>3 DEF Cancel, Delete
<1>4. ASSUME Sigterm \/ DrainBegins PROVE FALSE
  BY <1>4 DEF Sigterm, DrainBegins
<1>5. CASE Exited \/ UNCHANGED converseVars
  BY <1>5
  DEF Exited, converseVars, turnVars, taskVars, streamVars, Alive
<1> QED
  BY <1>1, <1>2, <1>3, <1>4, <1>5 DEF ConverseNext

LEMMA DrainInvNext ==
  ASSUME TurnsOK, StreamInv, StreamInv', DrainInv, [ConverseNext]_converseVars
  PROVE  DrainInv'
<1>0. /\ TaskTypeOK /\ [TurnNext]_turnVars /\ server \in {"serving", "sigterm", "draining", "stopped"}
      /\ \A t \in Turns : GoesOn(t)
  BY ConverseStep, TurnsAre, TurnGoesOn DEF StreamInv, ConverseTypeOK
<1> USE DEF DrainInv, ShutdownReachesAll
<1>1. CASE DrainDone
  <2>1. UNCHANGED turnVars /\ server' = "stopped" /\ \A t \in Turns : ~Alive(t) /\ ~Open(t)
    BY <1>1 DEF DrainDone
  <2>2. \A t \in Turns : ~Alive(t)' /\ ~Open(t)'
    BY <1>1, <2>1 DEF DrainDone, turnVars, taskVars, streamVars, Alive, Open
  <2> QED
    BY <2>1, <2>2
<1>2. CASE DrainTimesOut
  <2>1. /\ ForceCancel({t \in Turns : Alive(t)}) /\ server' = "stopped"
        /\ \A t \in Turns : ~Open(t) /\ (Alive(t) => stopReason[t] # "none")
    BY <1>2 DEF DrainTimesOut
  <2>2. ASSUME NEW t \in Turns, Alive(t)
        PROVE  main[t] \in Suspended
    <3>1. stopReason[t] # "none"
      BY <2>1, <2>2
    <3> QED
      BY <2>2, <3>1 DEF TurnsOK, QueueInv, QueueInvAt, StoppedIsPending, Alive, Suspended
  <2>3. /\ main' = main /\ stopReason' = stopReason
        /\ \A t \in Turns : Alive(t) => forced'[t]
    BY <2>1, <2>2 DEF ForceCancel
  <2>4. \A t \in Turns : ~Open(t)'
    BY <1>2, <2>1 DEF DrainTimesOut, streamVars, Open
  <2> QED
    BY <2>1, <2>3, <2>4 DEF Alive
<1>3. CASE server \in {"draining", "stopped"} /\ ~DrainDone /\ ~DrainTimesOut
  <2>1. \A t \in Turns : ~Open(t)
    BY <1>3
  <2>2. /\ UNCHANGED <<streamVars, server, forced>>
        /\ \A t \in Turns : Alive(t)' => Alive(t)
    BY <1>3, <2>1, LateSteps, ForcedStays
  <2>3. \A t \in Turns : stopReason[t] # "none" => stopReason'[t] # "none"
    BY <1>0 DEF GoesOn
  <2> QED
    BY <1>3, <2>1, <2>2, <2>3 DEF Open, streamVars
<1>4. CASE DrainBegins
  <2>1. /\ StopAll /\ server' = "draining" /\ server = "sigterm"
        /\ \A t \in Turns : ~Open(t)' /\ ~forced[t]
    BY <1>4 DEF DrainBegins, streamVars, Open
  <2>2. forced' = forced
    BY <2>1 DEF StopAll, Stop
  <2>3. \A t \in Turns : Alive(t)' => stopReason'[t] # "none"
    BY <2>1, StopAllStops DEF TurnsOK
  <2> QED
    BY <2>1, <2>2, <2>3
<1>5. CASE server \in {"serving", "sigterm"} /\ ~DrainBegins
  <2>1. server' \in {"serving", "sigterm"}
    <3>1. ASSUME NEW t \in Turns, Start(t) \/ Reject(t) \/ TurnMoves(t) \/ StreamMoves(t)
          PROVE  server' = server
      BY <3>1
      DEF Start, Reject, TurnMoves, StreamMoves, TakeItem, FrameSent, SendTimesOut, ClientLeaves,
          DisconnectSeen, ShutdownSeen, DrainDeadline, GraceOver, DropStream
    <3>2. ASSUME NEW k \in Keys, Cancel(k) \/ Delete(k) PROVE server' = server
      BY <3>2 DEF Cancel, Delete
    <3>3. ASSUME DrainDone \/ DrainTimesOut PROVE FALSE
      BY <1>5, <3>3 DEF DrainDone, DrainTimesOut
    <3>4. ASSUME Sigterm \/ Exited \/ UNCHANGED converseVars
          PROVE  server' \in {"serving", "sigterm"}
      BY <1>5, <3>4 DEF Sigterm, Exited, converseVars
    <3> QED
      BY <1>5, <3>1, <3>2, <3>3, <3>4 DEF ConverseNext
  <2>2. ~DrainTimesOut
    BY <1>5 DEF DrainTimesOut
  <2>3. forced' = forced
    BY <2>2, ForcedStays
  <2> QED
    BY <1>5, <2>1, <2>3
<1> QED
  BY <1>0, <1>1, <1>2, <1>3, <1>4, <1>5

\* When the drain has begun no stream is open, no turn is let in, and every task left was
\* stopped and can be cancelled once more; when the server gives up, every one was.
THEOREM ShutdownIsComplete == ConverseSpec => []ShutdownReachesAll
<1>1. ConverseInit => DrainInv
  BY DEF ConverseInit, TurnInit, DrainInv, ShutdownReachesAll
<1>2. TurnsOK /\ StreamInv /\ StreamInv' /\ DrainInv /\ [ConverseNext]_converseVars => DrainInv'
  BY DrainInvNext
<1>3. DrainInv => ShutdownReachesAll
  BY DEF DrainInv
<1> QED
  BY <1>1, <1>2, <1>3, ConverseInvariant, PTL DEF ConverseSpec

-----------------------------------------------------------------------------
\* With streams, clients and the shutdown around it a turn keeps what it was proved to keep
\* alone: its reservation, its queue, the limits, its CLI and its directory, and its end.
THEOREM ServedTurnsKeepGuarantees ==
  ConverseSpec =>
    /\ [](HeldWhileAlive /\ EventsKeepContract /\ StopIsAnnounced /\ RefusedOnlyIfBusy)
    /\ [](TaskLimits!WithinLimits /\ CliOutlivesOnlyCutCleanup /\ OverlapNeedsCut)
    /\ [](StatelessDirRemoved /\ NoTurnHangs)
    /\ TurnsOnlyAdvance
<1>1. ConverseSpec => TurnSpec
  BY ConverseIsTurns DEF ConverseImplementsTurn
<1> QED
  BY <1>1, ReservationFollowsTask, QueueContract, StopsAreAnnounced, RefusalsAreJustified,
     TasksAreWithinLimits, CliIsContained, OverlapOnlyAfterCut, StatelessDirsGo,
     NothingWaitsForever, TurnsGoForward, PTL
=============================================================================

-------------------------------- MODULE Turn --------------------------------
(***************************************************************************)
(* sidecar.turn.Turn: one /v1/converse turn in an asyncio task of its own, *)
(* from the reservation of its slots to the TurnEnded that follows their   *)
(* release, with everything that may stop it on the way.                   *)
(*                                                                         *)
(* An action is what runs between two suspensions of the event loop.       *)
(* task.cancel() only marks the task: the CancelledError is raised where   *)
(* the task is suspended, the next time it runs, so a marked task does     *)
(* nothing but receive it (CancelLands).  The runner (claude or codex) is  *)
(* what Turn sees of it: it opens a CLI, yields events, ends, and on the   *)
(* way out closes the CLI, which takes time and can itself be cancelled.   *)
(***************************************************************************)
EXTENDS Admission, Sequences

CONSTANTS
  Stateless,     \* the turns with mode=stateless: a fresh directory each
  Provider,      \* PROVIDER: "claude" or "codex"
  MaxEvents      \* bound on the events a runner yields

ASSUME TurnAssumption ==
  Stateless \subseteq Turns /\ Provider \in {"claude", "codex"} /\ MaxEvents \in Nat

VARIABLES
  main,          \* where the turn's task is suspended
  stopReason,    \* _stop_reason
  cancelling,    \* task.cancel() was called and has not been delivered
  deadline,      \* the timer of TURN_TIMEOUT_SEC is armed
  error,         \* the exception on its way out of _run
  events,        \* everything ever put on Turn.events, in order
  cli,           \* the CLI process group
  dir,           \* the directory of a stateless turn
  stoppedIn,     \* history: main when stop() acted
  forced         \* history: drain cancelled the task a second time

taskVars == <<main, stopReason, cancelling, deadline, error, events>>
worldVars == <<cli, dir>>
historyVars == <<stoppedIn, forced>>
turnVars == <<taskVars, worldVars, historyVars, admissionVars>>

StopReasons == {"timeout", "cancelled", "disconnected", "shutdown"}
Errors == {"none", "sdk_error", "internal", "cancelled"}
Kinds == {"progress", "done", "stopped", "ended"}

\* "new": no task yet; "refused": start raised BUSY; "created": scheduled, body
\* not begun; "workspace": mkdir in a thread; "opening": in the runner, no CLI
\* yet; "running": the CLI runs; "recording": the runner has yielded the session id,
\* which a thread writes down; "closing": in the runner's cleanup; "leaving": removing
\* the stateless directory; "done".
Places == {"new", "refused", "created", "workspace", "opening", "running", "recording",
           "closing", "leaving", "done"}

Suspended == {"workspace", "opening", "running", "recording", "closing", "leaving"}
Alive(t) == main[t] \in Suspended \cup {"created"}

-----------------------------------------------------------------------------
Item(kind, reason, err) == [kind |-> kind, reason |-> reason, error |-> err]
Stopped(reason) == Item("stopped", reason, "none")
Ended(reason, err) == Item("ended", reason, err)
Yielded(kind) == Item(kind, "none", "none")

TurnInit ==
  /\ AdmissionInit
  /\ main = [t \in Turns |-> "new"]
  /\ stopReason = [t \in Turns |-> "none"]
  /\ cancelling = [t \in Turns |-> FALSE]
  /\ deadline = [t \in Turns |-> FALSE]
  /\ error = [t \in Turns |-> "none"]
  /\ events = [t \in Turns |-> <<>>]
  /\ cli = [t \in Turns |-> "none"]
  /\ dir = [t \in Turns |-> "none"]
  /\ stoppedIn = [t \in Turns |-> "none"]
  /\ forced = [t \in Turns |-> FALSE]

-----------------------------------------------------------------------------
(* start *)

Accept(t) ==
  /\ main[t] = "new"
  /\ Reserve(t)
  /\ main' = [main EXCEPT ![t] = "created"]
  /\ UNCHANGED <<stopReason, cancelling, deadline, error, events, worldVars, historyVars>>

Refuse(t) ==
  /\ main[t] = "new"
  /\ ~Reservable(t)
  /\ main' = [main EXCEPT ![t] = "refused"]
  /\ UNCHANGED <<stopReason, cancelling, deadline, error, events, worldVars,
                 historyVars, admissionVars>>

-----------------------------------------------------------------------------
(* stop *)

\* Mutant of Stoppable: every call acts, not only the first.
StoppableAgain(t) == Alive(t)

Stoppable(t) == stopReason[t] = "none" /\ Alive(t)

\* Cancelled before its first step, the body of a task never runs, nor its
\* finally: stop itself releases the turn and ends its queue.
Unstarted(S) == {t \in S : Stoppable(t) /\ main[t] = "created"}

\* Mutants of ReleasedByStop: none is released, or all are, CLI or not.
ReleasesNone(S) == {}
ReleasesAll(S) == {t \in S : Stoppable(t)}

ReleasedByStop(S) == Unstarted(S)

StopItems(t, reason) ==
  <<Stopped(reason)>> \o
  (IF t \in Unstarted({t}) THEN <<Ended(reason, "none")>> ELSE <<>>)

\* stop(reason) of every turn of S, in one step of the event loop.
Stop(S, reason) ==
  LET stopped == {t \in S : Stoppable(t)} IN
  /\ stopReason' = [t \in Turns |-> IF t \in stopped THEN reason ELSE stopReason[t]]
  /\ cancelling' = [t \in Turns |->
       IF t \in stopped \ Unstarted(S) THEN TRUE ELSE cancelling[t]]
  /\ main' = [t \in Turns |-> IF t \in Unstarted(S) THEN "done" ELSE main[t]]
  /\ events' = [t \in Turns |->
       IF t \in stopped THEN events[t] \o StopItems(t, reason) ELSE events[t]]
  /\ stoppedIn' = [t \in Turns |->
       IF t \in stopped /\ stoppedIn[t] = "none" THEN main[t] ELSE stoppedIn[t]]
  /\ Release(ReleasedByStop(S))
  /\ UNCHANGED <<error, worldVars, forced>>

\* call_later(timeout_sec, stop, "timeout").
Timeout(t) ==
  /\ deadline[t]
  /\ deadline' = [deadline EXCEPT ![t] = FALSE]
  /\ Stop({t}, "timeout")

\* POST /v1/sessions/{key}/cancel finds the turn in the registry.
CancelRequest(k) ==
  /\ bySession[k] # NoTurn
  /\ Stop({bySession[k]}, "cancelled")
  /\ UNCHANGED deadline

\* The stream of the turn, its client or the shutdown stops it.
StopFromStream(t, reason) ==
  /\ Stop({t}, reason)
  /\ UNCHANGED deadline

\* Admission.drain: every registered turn at once.
StopAll ==
  /\ Stop(RegisteredTurns, "shutdown")
  /\ UNCHANGED deadline

\* Admission.drain after its grace: a second cancel of the tasks not done.
ForceCancel(S) ==
  /\ \A t \in S : stopReason[t] # "none" /\ ~forced[t]
  /\ cancelling' = [t \in Turns |->
       IF t \in S /\ main[t] \in Suspended THEN TRUE ELSE cancelling[t]]
  /\ forced' = [t \in Turns |-> forced[t] \/ (t \in S /\ main[t] \in Suspended)]
  /\ UNCHANGED <<main, stopReason, deadline, error, events, worldVars, stoppedIn,
                 admissionVars>>

-----------------------------------------------------------------------------
(* _main and _run *)

\* Mutants of EndTask: TurnEnded is queued and the slots stay; the slots are
\* free but nothing tells the stream.
EndTaskUnreleased(t, err) ==
  /\ main' = [main EXCEPT ![t] = "done"]
  /\ deadline' = [deadline EXCEPT ![t] = FALSE]
  /\ error' = [error EXCEPT ![t] = err]
  /\ events' = [events EXCEPT ![t] = Append(@, Ended(stopReason[t], err))]
  /\ UNCHANGED admissionVars

EndTaskSilently(t, err) ==
  /\ main' = [main EXCEPT ![t] = "done"]
  /\ deadline' = [deadline EXCEPT ![t] = FALSE]
  /\ error' = [error EXCEPT ![t] = err]
  /\ Release({t})
  /\ UNCHANGED events

\* The finally of _main, in one step with the last thing awaited.
EndTask(t, err) ==
  /\ main' = [main EXCEPT ![t] = "done"]
  /\ deadline' = [deadline EXCEPT ![t] = FALSE]
  /\ error' = [error EXCEPT ![t] = err]
  /\ Release({t})
  /\ events' = [events EXCEPT ![t] = Append(@, Ended(stopReason[t], err))]

\* Mutant of CloseWorkspace: removal after a success only (no try/finally).
CloseWorkspaceOnSuccess(t, err) ==
  IF t \in Stateless /\ err = "none"
    THEN /\ main' = [main EXCEPT ![t] = "leaving"]
         /\ error' = [error EXCEPT ![t] = err]
         /\ dir' = [dir EXCEPT ![t] = "removing"]
         /\ UNCHANGED <<deadline, events, admissionVars>>
    ELSE EndTask(t, err) /\ UNCHANGED dir

\* The runner is closed: the workspace is left next.  Only a stateless one has
\* anything to wait for (rmtree in a thread).
CloseWorkspace(t, err) ==
  IF t \in Stateless
    THEN /\ main' = [main EXCEPT ![t] = "leaving"]
         /\ error' = [error EXCEPT ![t] = err]
         /\ dir' = [dir EXCEPT ![t] = "removing"]
         /\ UNCHANGED <<deadline, events, admissionVars>>
    ELSE EndTask(t, err) /\ UNCHANGED dir

\* A task with a cancel pending does nothing but receive it.
At(t, place) == main[t] = place /\ ~cancelling[t]

\* Mutant of FirstStep: no timer.
FirstStepUntimed(t) ==
  /\ At(t, "created")
  /\ IF t \in Stateless
       THEN /\ dir' = [dir EXCEPT ![t] = "present"]
            /\ main' = [main EXCEPT ![t] = "opening"]
       ELSE /\ main' = [main EXCEPT ![t] = "workspace"]
            /\ UNCHANGED dir
  /\ UNCHANGED <<stopReason, cancelling, deadline, error, events, cli, historyVars,
                 admissionVars>>

\* The timer, then the workspace: a stateless directory is made on the spot and
\* the runner entered; a session's is made in a thread.
FirstStep(t) ==
  /\ At(t, "created")
  /\ deadline' = [deadline EXCEPT ![t] = TRUE]
  /\ IF t \in Stateless
       THEN /\ dir' = [dir EXCEPT ![t] = "present"]
            /\ main' = [main EXCEPT ![t] = "opening"]
       ELSE /\ main' = [main EXCEPT ![t] = "workspace"]
            /\ UNCHANGED dir
  /\ UNCHANGED <<stopReason, cancelling, error, events, cli, historyVars, admissionVars>>

\* mkdtemp fails: _main ends without ever being suspended.
FirstStepFails(t) ==
  /\ At(t, "created")
  /\ t \in Stateless
  /\ EndTask(t, "internal")
  /\ UNCHANGED <<stopReason, cancelling, worldVars, historyVars>>

WorkspaceReady(t) ==
  /\ At(t, "workspace")
  /\ main' = [main EXCEPT ![t] = "opening"]
  /\ UNCHANGED <<stopReason, cancelling, deadline, error, events, worldVars, historyVars,
                 admissionVars>>

WorkspaceFails(t) ==
  /\ At(t, "workspace")
  /\ EndTask(t, "internal")
  /\ UNCHANGED <<stopReason, cancelling, worldVars, historyVars>>

CliSpawned(t) ==
  /\ At(t, "opening")
  /\ main' = [main EXCEPT ![t] = "running"]
  /\ cli' = [cli EXCEPT ![t] = "running"]
  /\ UNCHANGED <<stopReason, cancelling, deadline, error, events, dir, historyVars,
                 admissionVars>>

\* The CLI could not be started, or a file it needs could not be written.
OpeningFails(t) ==
  /\ At(t, "opening")
  /\ \E err \in {"sdk_error", "internal"} : CloseWorkspace(t, err)
  /\ UNCHANGED <<stopReason, cancelling, cli, historyVars>>

\* One event of the runner, put on the queue in the step that produced it.
RunnerYields(t) ==
  /\ At(t, "running")
  /\ Len(events[t]) < MaxEvents
  /\ \E kind \in {"progress", "done"} :
       events' = [events EXCEPT ![t] = Append(@, Yielded(kind))]
  /\ UNCHANGED <<main, stopReason, cancelling, deadline, error, worldVars, historyVars,
                 admissionVars>>

\* _remembering_session_ids: the id is recorded, in a thread, before the event goes on.
RecordingBegins(t) ==
  /\ At(t, "running")
  /\ t \notin Stateless
  /\ Len(events[t]) < MaxEvents
  /\ main' = [main EXCEPT ![t] = "recording"]
  /\ UNCHANGED <<stopReason, cancelling, deadline, error, events, worldVars, historyVars,
                 admissionVars>>

RecordingEnds(t) ==
  /\ At(t, "recording")
  /\ main' = [main EXCEPT ![t] = "running"]
  /\ events' = [events EXCEPT ![t] = Append(@, Yielded("progress"))]
  /\ UNCHANGED <<stopReason, cancelling, deadline, error, worldVars, historyVars,
                 admissionVars>>

\* The event stream is over, by its end or by an error; the runner cleans up.
RunnerEnds(t) ==
  /\ At(t, "running")
  /\ main' = [main EXCEPT ![t] = "closing"]
  /\ \E err \in {"none", "sdk_error", "internal"} : error' = [error EXCEPT ![t] = err]
  /\ UNCHANGED <<stopReason, cancelling, deadline, events, worldVars, historyVars,
                 admissionVars>>

\* The cleanup has seen the CLI exit.
RunnerClosed(t) ==
  /\ At(t, "closing")
  /\ cli[t] = "exited"
  /\ CloseWorkspace(t, error[t])
  /\ UNCHANGED <<stopReason, cancelling, cli, historyVars>>

WorkspaceLeft(t) ==
  /\ At(t, "leaving")
  /\ dir[t] # "removing"
  /\ EndTask(t, error[t])
  /\ UNCHANGED <<stopReason, cancelling, worldVars, historyVars>>

-----------------------------------------------------------------------------
(* CancelledError, raised where the task is suspended *)

Delivered(t) == cancelling' = [cancelling EXCEPT ![t] = FALSE]

\* mkdir goes on in its thread; nothing is open.
CancelInWorkspace(t) ==
  /\ main[t] = "workspace" /\ cancelling[t]
  /\ EndTask(t, "cancelled")
  /\ Delivered(t)
  /\ UNCHANGED <<stopReason, worldVars, historyVars>>

CancelInOpening(t) ==
  /\ main[t] = "opening" /\ cancelling[t]
  /\ CloseWorkspace(t, "cancelled")
  /\ Delivered(t)
  /\ UNCHANGED <<stopReason, cli, historyVars>>

\* The case stop() is made for: the runner closes the CLI, undisturbed.
CancelInRunning(t) ==
  /\ main[t] = "running" /\ cancelling[t]
  /\ main' = [main EXCEPT ![t] = "closing"]
  /\ error' = [error EXCEPT ![t] = "cancelled"]
  /\ Delivered(t)
  /\ UNCHANGED <<stopReason, deadline, events, worldVars, historyVars, admissionVars>>

\* The runner is at its yield and is closed from outside.  codex then cleans up; the
\* SDK's query() leaves the CLI to a task of its own (see ClaudeRunner).
CancelInRecording(t) ==
  /\ main[t] = "recording" /\ cancelling[t]
  /\ IF Provider = "codex"
       THEN /\ main' = [main EXCEPT ![t] = "closing"]
            /\ error' = [error EXCEPT ![t] = "cancelled"]
            /\ UNCHANGED <<deadline, events, dir, admissionVars>>
       ELSE CloseWorkspace(t, "cancelled")
  /\ Delivered(t)
  /\ UNCHANGED <<stopReason, cli, historyVars>>

\* The cleanup itself is interrupted: what it had not done yet is not done, and
\* the CLI is left as it is.
CancelInClosing(t) ==
  /\ main[t] = "closing" /\ cancelling[t]
  /\ CloseWorkspace(t, "cancelled")
  /\ Delivered(t)
  /\ UNCHANGED <<stopReason, cli, historyVars>>

\* A removal still queued for a thread is withdrawn; one that runs goes on.
CancelInLeaving(t) ==
  /\ main[t] = "leaving" /\ cancelling[t]
  /\ EndTask(t, "cancelled")
  /\ Delivered(t)
  /\ \E outcome \in {dir[t]} \cup (IF dir[t] = "removing" THEN {"kept"} ELSE {}) :
       dir' = [dir EXCEPT ![t] = outcome]
  /\ UNCHANGED <<stopReason, cli, historyVars>>

CancelLands(t) ==
  \/ CancelInWorkspace(t) \/ CancelInOpening(t) \/ CancelInRunning(t)
  \/ CancelInRecording(t) \/ CancelInClosing(t) \/ CancelInLeaving(t)

-----------------------------------------------------------------------------
(* The world: the CLI and the removal thread *)

CliExits(t) ==
  /\ cli[t] = "running"
  /\ cli' = [cli EXCEPT ![t] = "exited"]
  /\ UNCHANGED <<taskVars, dir, historyVars, admissionVars>>

\* rmtree ignores errors: with a CLI still writing, it may leave files behind.
RmtreeEnds(t) ==
  /\ dir[t] = "removing"
  /\ \E outcome \in {"removed"} \cup (IF cli[t] = "running" THEN {"kept"} ELSE {}) :
       dir' = [dir EXCEPT ![t] = outcome]
  /\ UNCHANGED <<taskVars, cli, historyVars, admissionVars>>

\* DELETE /v1/sessions/{key}: exclusive, around the removal in a thread.
DeleteBegins(k) == Hold(k) /\ UNCHANGED <<taskVars, worldVars, historyVars>>
DeleteEnds(k) == Unhold(k) /\ UNCHANGED <<taskVars, worldVars, historyVars>>

-----------------------------------------------------------------------------
TaskRuns(t) ==
  \/ FirstStep(t) \/ FirstStepFails(t)
  \/ WorkspaceReady(t) \/ WorkspaceFails(t)
  \/ CliSpawned(t) \/ OpeningFails(t)
  \/ RunnerYields(t) \/ RecordingBegins(t) \/ RecordingEnds(t)
  \/ RunnerEnds(t) \/ RunnerClosed(t)
  \/ WorkspaceLeft(t)
  \/ CancelLands(t)

WorldMoves(t) == CliExits(t) \/ RmtreeEnds(t)

StopCalled ==
  \/ \E t \in Turns : Timeout(t)
  \/ \E k \in Keys : CancelRequest(k)
  \/ \E t \in Turns, reason \in {"disconnected", "shutdown"} : StopFromStream(t, reason)
  \/ StopAll
  \/ \E S \in SUBSET Turns : ForceCancel(S)

TurnNext ==
  \/ \E t \in Turns : Accept(t) \/ Refuse(t) \/ TaskRuns(t) \/ WorldMoves(t)
  \/ StopCalled
  \/ \E k \in Keys : DeleteBegins(k) \/ DeleteEnds(k)

TurnSpec == TurnInit /\ [][TurnNext]_turnVars

\* What the event loop and the operating system owe a turn.  The loop runs a task
\* that can run and a timer that is due; a CLI that the cleanup signals exits
\* (SIGKILL is in the end sent to its whole group); rmtree ends.  Nothing is owed
\* by the runner: it may produce events for ever, or never anything.
TurnFairness ==
  \A t \in Turns :
    /\ WF_turnVars(FirstStep(t))
    /\ WF_turnVars(RunnerClosed(t))
    /\ WF_turnVars(WorkspaceLeft(t))
    /\ WF_turnVars(CancelLands(t))
    /\ WF_turnVars(Timeout(t))
    /\ WF_turnVars(main[t] = "closing" /\ CliExits(t))
    /\ WF_turnVars(RmtreeEnds(t))

FairTurnSpec == TurnSpec /\ TurnFairness
-----------------------------------------------------------------------------
TurnTypeOK ==
  /\ AdmissionTypeOK
  /\ main \in [Turns -> Places]
  /\ stopReason \in [Turns -> StopReasons \cup {"none"}]
  /\ cancelling \in [Turns -> BOOLEAN]
  /\ deadline \in [Turns -> BOOLEAN]
  /\ error \in [Turns -> Errors]
  /\ events \in [Turns -> Seq([kind : Kinds, reason : StopReasons \cup {"none"},
                               error : Errors])]
  /\ cli \in [Turns -> {"none", "running", "exited"}]
  /\ dir \in [Turns -> {"none", "present", "removing", "removed", "kept"}]
  /\ stoppedIn \in [Turns -> Places \cup {"none"}]
  /\ forced \in [Turns -> BOOLEAN]

\* A turn holds its slots exactly as long as its task is alive: from start, on
\* every path out of _main and of stop, never longer and never shorter.
HeldWhileAlive == \A t \in Turns : Alive(t) <=> Registered(t)

\* The queue keeps its contract on every path: runner events first, at most one
\* TurnStopped and after it nothing but TurnEnded, exactly one TurnEnded, last, in
\* the very step that ends the task.
EventsKeepContract ==
  \A t \in Turns :
    LET e == events[t] IN
    /\ main[t] = "done" => Len(e) > 0 /\ e[Len(e)].kind = "ended"
    /\ \A i \in 1..Len(e) :
         /\ e[i].kind = "ended" =>
              i = Len(e) /\ main[t] = "done" /\ e[i].reason = stopReason[t]
         /\ e[i].kind = "stopped" =>
              /\ e[i].reason = stopReason[t]
              /\ \A j \in i + 1 .. Len(e) : e[j].kind = "ended"

\* The stream learns of a stop at once, without waiting for the CLI to exit.
StopIsAnnounced ==
  \A t \in Turns : stopReason[t] # "none" =>
    \E i \in 1..Len(events[t]) : events[t][i].kind = "stopped"

\* A CLI runs without its reservation (so that a new turn or a DELETE may meet it)
\* only if a cancel kept the runner from closing it: the force-cancel of shutdown, a
\* stop that found the runner already closing by itself, or one that found claude's
\* runner at the yield of its session id.
LeavesCli(t) ==
  \/ forced[t]
  \/ stoppedIn[t] = "closing"
  \/ stoppedIn[t] = "recording" /\ Provider = "claude"

CliOutlivesOnlyCutCleanup ==
  \A t \in Turns : cli[t] = "running" /\ ~Registered(t) => LeavesCli(t)

\* The directory of a stateless turn is gone when the turn is over, unless its
\* cleanup was cut short or a stop found it already removing the directory.
StatelessDirRemoved ==
  \A t \in Stateless : main[t] = "done" /\ dir[t] \notin {"none", "removed"} =>
    forced[t] \/ stoppedIn[t] \in {"closing", "leaving"}

\* The limits hold of the tasks themselves, not only of the table that counts
\* them: turns whose task is alive start and leave as TurnLimits allows.
TaskLimits == INSTANCE TurnLimits
  WITH inflight <- {t \in Turns : Alive(t)}, deleting <- held

TasksKeepLimits == TaskLimits!LimitsSpec

\* A request is refused only because of turns whose task is alive: whatever ended
\* the turns before it, they left no slot behind.
RefusedOnlyIfBusy ==
  \A t \in Turns : main[t] = "new" /\ TaskLimits!Fits(t) => Reservable(t)

\* A turn that was let in ends, whatever its runner does: the timer stops it.
AcceptedTurnEnds == \A t \in Turns : main[t] = "created" ~> main[t] = "done"

\* What that rests on.  No task waits for its runner without a timer: until it is cleaning
\* up it is timed, or the one cancel of its stop is on the way to it, and then only what
\* the loop and the system owe it is waited for.
NoTurnHangs == \A t \in Turns :
  /\ main[t] = "created" => ~cancelling[t]
  /\ main[t] \in {"workspace", "opening", "running", "recording"} =>
       IF stopReason[t] = "none" THEN deadline[t] ELSE cancelling[t]
  /\ main[t] = "closing" => cli[t] \in {"running", "exited"}
  /\ main[t] = "leaving" => dir[t] \in {"removing", "removed", "kept"}

\* How far a task is on its way; it may record an id and run on.
Progress(place) ==
  CASE place = "new" -> 0
    [] place = "created" -> 1
    [] place = "workspace" -> 2
    [] place = "opening" -> 3
    [] place \in {"running", "recording"} -> 4
    [] place = "closing" -> 5
    [] place = "leaving" -> 6
    [] place \in {"done", "refused"} -> 7

\* A task never goes back, and a stopped one only winds down: neither the runner, nor
\* another stop, nor what happens to the cleanup makes it take up its work again.
TurnsOnlyAdvance ==
  [][\A t \in Turns :
       /\ Progress(main[t]) <= Progress(main'[t])
       /\ stopReason[t] # "none" =>
            /\ stopReason'[t] = stopReason[t]
            /\ main'[t] = main[t] \/ main'[t] \in {"closing", "leaving", "done"}]_turnVars

\* What the header of turn.py says: a turn is cancelled once, so the runner's
\* cleanup always completes before the reservation is released, and a new turn
\* cannot overlap the old CLI.  (The force-cancel of shutdown is documented as the
\* exception, so turns it hit are left out.)
OneCliPerKey ==
  \A t, u \in Turns :
    t # u /\ SessionKey[t] = SessionKey[u] /\ ~forced[t] /\ ~forced[u] =>
      ~(cli[t] = "running" /\ cli[u] = "running")

\* What is true of it: of two CLIs on a key at least one was left by a cleanup that a
\* cancel cut, or by claude's runner at its yield.
OverlapNeedsCut ==
  \A t, u \in Turns :
    t # u /\ SessionKey[t] = SessionKey[u] /\ cli[t] = "running" /\ cli[u] = "running" =>
      LeavesCli(t) \/ LeavesCli(u)
=============================================================================

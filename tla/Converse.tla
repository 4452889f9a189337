------------------------------ MODULE Converse ------------------------------
(***************************************************************************)
(* The HTTP side of a turn (sidecar.routes.converse._event_stream) with    *)
(* the turn it relays, the client it may lose, and the shutdown of the     *)
(* server: SIGTERM, the grace given to the streams, then the drain of      *)
(* sidecar.app's lifespan.                                                 *)
(*                                                                         *)
(* Turn.events is Turn's `events`, of which the stream has taken the first *)
(* pos[t] items.  sse-starlette, uvicorn and the client are modelled by    *)
(* what they do to the generator: they send a frame or give up sending it, *)
(* report a disconnect, set the shutdown event, or cancel the generator.   *)
(***************************************************************************)
EXTENDS Turn

VARIABLES
  stream,     \* the generator: see Streaming
  pos,        \* how many items of events[t] it has taken
  outcome,    \* "none", "ok", or the code of the error frame
  draining,   \* drain_deadline is set
  client,     \* "connected" or "gone"
  wire,       \* the frames the client received
  server      \* "serving", "sigterm", "draining", "stopped"

streamVars == <<stream, pos, outcome, draining, client, wire>>
converseVars == <<turnVars, streamVars, server>>

\* The generator waits on the queue, or is suspended at a yield whose frame (the
\* item at pos) is being sent; it ends by returning or by being cancelled.
Streaming == {"reading", "sending"}
Open(t) == stream[t] \in Streaming

ErrorCodes == {"timeout", "cancelled", "sdk_error", "internal"}
Terminals == ErrorCodes \cup {"done"}

-----------------------------------------------------------------------------
\* _STOP_ERRORS and _terminal_error.
StopCode(reason) == IF reason = "timeout" THEN "timeout" ELSE "cancelled"

\* Mutant of ErrorCode: the exception before the reason of the stop, so a timeout
\* reaches the client as a cancellation.
ErrorCodeOfError(item) ==
  IF item.kind = "stopped" THEN "cancelled"
  ELSE IF item.error = "none" THEN "sdk_error" ELSE item.error

ErrorCode(item) ==
  IF item.reason # "none" THEN StopCode(item.reason)
  ELSE IF item.error = "none" THEN "sdk_error" ELSE item.error

\* The frame of an item: _to_sse, or the terminal error.
Frame(item) ==
  CASE item.kind \in {"stopped", "ended"} -> ErrorCode(item)
    [] item.kind = "done" -> "done"
    [] OTHER -> "event"

Empty(t) == pos[t] = Len(events[t])
Current(t) == events[t][pos[t]]

ConverseInit ==
  /\ TurnInit
  /\ stream = [t \in Turns |-> "none"]
  /\ pos = [t \in Turns |-> 0]
  /\ outcome = [t \in Turns |-> "none"]
  /\ draining = [t \in Turns |-> FALSE]
  /\ client = [t \in Turns |-> "connected"]
  /\ wire = [t \in Turns |-> <<>>]
  /\ server = "serving"

-----------------------------------------------------------------------------
(* The request *)

\* turn.start is the last step of the route: the stream is open with the turn.
\* While streams get their grace a request already being handled may still start.
Start(t) ==
  /\ server \in {"serving", "sigterm"}
  /\ Accept(t)
  /\ stream' = [stream EXCEPT ![t] = "reading"]
  /\ UNCHANGED <<pos, outcome, draining, client, wire, server>>

Reject(t) ==
  /\ server \in {"serving", "sigterm"}
  /\ Refuse(t)
  /\ UNCHANGED <<streamVars, server>>

Cancel(k) ==
  /\ server \in {"serving", "sigterm"}
  /\ CancelRequest(k)
  /\ UNCHANGED <<streamVars, server>>

Delete(k) ==
  /\ server \in {"serving", "sigterm"}
  /\ DeleteBegins(k) \/ DeleteEnds(k)
  /\ UNCHANGED <<streamVars, server>>

-----------------------------------------------------------------------------
(* _event_stream *)

\* Mutants of SignalTurn: a turn whose stream ended is left to itself; the stream
\* gives the slots back itself, with the CLI still running.
SignalNothing(t) == UNCHANGED turnVars

SignalByRelease(t) ==
  IF outcome[t] = "ok"
    THEN UNCHANGED turnVars
    ELSE Release({t}) /\ UNCHANGED <<taskVars, worldVars, historyVars>>

\* The finally of the generator: no-op if the turn already stopped or ended.
SignalTurn(t) ==
  IF outcome[t] = "ok" THEN UNCHANGED turnVars ELSE StopFromStream(t, "disconnected")

\* Mutants of SkipAfterDone: the stream returns at the first item after `done`,
\* whatever it is, or at none.
ReturnAfterDone(t, item) ==
  /\ outcome[t] = "ok"
  /\ stream' = [stream EXCEPT ![t] = "returned"]

SkipForEver(t, item) ==
  /\ outcome[t] = "ok"
  /\ UNCHANGED stream

\* After `done` nothing is sent; the stream returns at TurnEnded, when the CLI
\* has exited and the slots are free.
SkipAfterDone(t, item) ==
  /\ outcome[t] = "ok"
  /\ stream' = IF item.kind = "ended" THEN [stream EXCEPT ![t] = "returned"] ELSE stream

TakeItem(t) ==
  /\ stream[t] = "reading"
  /\ ~Empty(t)
  /\ pos' = [pos EXCEPT ![t] = @ + 1]
  /\ \/ /\ SkipAfterDone(t, events[t][pos[t] + 1])
        /\ UNCHANGED outcome
     \/ /\ outcome[t] # "ok"
        /\ stream' = [stream EXCEPT ![t] = "sending"]
        /\ outcome' = [outcome EXCEPT ![t] =
             IF events[t][pos[t] + 1].kind \in {"stopped", "ended"}
               THEN ErrorCode(events[t][pos[t] + 1]) ELSE @]
  /\ UNCHANGED <<turnVars, draining, client, wire, server>>

\* Mutant of AfterFrame: an error frame does not end the stream.
AfterAnyFrame(t) ==
  /\ stream' = [stream EXCEPT ![t] = "reading"]
  /\ outcome' = [outcome EXCEPT ![t] = IF Current(t).kind = "done" THEN "ok" ELSE @]
  /\ UNCHANGED turnVars

\* The yield resumes: an error frame was the last; `done` is delivered.
AfterFrame(t) ==
  IF Current(t).kind \in {"stopped", "ended"}
    THEN /\ stream' = [stream EXCEPT ![t] = "returned"]
         /\ SignalTurn(t)
         /\ UNCHANGED outcome
    ELSE /\ stream' = [stream EXCEPT ![t] = "reading"]
         /\ outcome' = [outcome EXCEPT ![t] = IF Current(t).kind = "done" THEN "ok" ELSE @]
         /\ UNCHANGED turnVars

\* A frame sent to a client that has gone is dropped without an error.
FrameSent(t) ==
  /\ stream[t] = "sending"
  /\ wire' = [wire EXCEPT ![t] =
       IF client[t] = "connected" THEN Append(@, Frame(Current(t))) ELSE @]
  /\ AfterFrame(t)
  /\ UNCHANGED <<pos, draining, client, server>>

\* The framework ends the generator where it is suspended; its finally runs.
DropStream(t) ==
  /\ stream' = [stream EXCEPT ![t] = "dropped"]
  /\ SignalTurn(t)
  /\ UNCHANGED <<pos, outcome, draining, client, wire, server>>

\* The client does not read: _SEND_TIMEOUT_SEC.
SendTimesOut(t) == stream[t] = "sending" /\ DropStream(t)

ClientLeaves(t) ==
  /\ Open(t)
  /\ client[t] = "connected"
  /\ client' = [client EXCEPT ![t] = "gone"]
  /\ UNCHANGED <<turnVars, stream, pos, outcome, draining, wire, server>>

\* on_client_close stops the turn unless `done` is delivered, as the finally of
\* the generator that is then cancelled does.
DisconnectSeen(t) ==
  /\ Open(t)
  /\ client[t] = "gone"
  /\ DropStream(t)

-----------------------------------------------------------------------------
(* Shutdown *)

Sigterm ==
  /\ server = "serving"
  /\ server' = "sigterm"
  /\ UNCHANGED <<turnVars, streamVars>>

\* Mutant of ShutdownSeen: the pending get had an item, which is lost with it.
ShutdownSeenLosingItem(t) ==
  /\ server = "sigterm"
  /\ stream[t] = "reading"
  /\ ~draining[t]
  /\ pos' = [pos EXCEPT ![t] = Len(events[t])]
  /\ \/ /\ outcome[t] = "ok"
        /\ stream' = [stream EXCEPT ![t] = "returned"]
        /\ UNCHANGED draining
     \/ /\ outcome[t] # "ok"
        /\ draining' = [draining EXCEPT ![t] = TRUE]
        /\ UNCHANGED stream
  /\ UNCHANGED <<turnVars, outcome, client, wire, server>>

\* The wait returned without an item.  One may have been put since the stream was
\* woken; the get that is cancelled leaves it in the queue.
ShutdownSeen(t) ==
  /\ server = "sigterm"
  /\ stream[t] = "reading"
  /\ ~draining[t]
  /\ \/ /\ outcome[t] = "ok"
        /\ stream' = [stream EXCEPT ![t] = "returned"]
        /\ UNCHANGED draining
     \/ /\ outcome[t] # "ok"
        /\ draining' = [draining EXCEPT ![t] = TRUE]
        /\ UNCHANGED stream
  /\ UNCHANGED <<turnVars, pos, outcome, client, wire, server>>

\* drain_deadline passes without an item, or with one just put (it is read next).
DrainDeadline(t) ==
  /\ stream[t] = "reading"
  /\ draining[t]
  /\ IF outcome[t] = "ok"
       THEN /\ stream' = [stream EXCEPT ![t] = "returned"]
            /\ UNCHANGED turnVars
       ELSE /\ StopFromStream(t, "shutdown")
            /\ UNCHANGED stream
  /\ UNCHANGED <<pos, outcome, draining, client, wire, server>>

\* shutdown_grace_period: what still streams is cancelled.
GraceOver(t) ==
  /\ server = "sigterm"
  /\ Open(t)
  /\ DropStream(t)

\* lifespan's exit, after the streams have ended: drain stops what is left.
DrainBegins ==
  /\ server = "sigterm"
  /\ \A t \in Turns : ~Open(t)
  /\ StopAll
  /\ server' = "draining"
  /\ UNCHANGED streamVars

\* Mutant of DrainDone: it waits for the processes, not for the tasks.
DrainDoneAfterCli ==
  /\ server = "draining"
  /\ \A t \in Turns : ~Alive(t) /\ cli[t] # "running"
  /\ server' = "stopped"
  /\ UNCHANGED <<turnVars, streamVars>>

DrainDone ==
  /\ server = "draining"
  /\ \A t \in Turns : ~Alive(t)
  /\ server' = "stopped"
  /\ UNCHANGED <<turnVars, streamVars>>

\* Cancels again what still runs after TURN_CLEANUP_BUDGET_SEC.
DrainTimesOut ==
  /\ server = "draining"
  /\ \E t \in Turns : Alive(t)
  /\ ForceCancel({t \in Turns : Alive(t)})
  /\ server' = "stopped"
  /\ UNCHANGED streamVars

\* The process is gone; nothing is left to do.
Exited ==
  /\ server = "stopped"
  /\ \A t \in Turns : ~Alive(t)
  /\ UNCHANGED converseVars

-----------------------------------------------------------------------------
TurnMoves(t) ==
  /\ TaskRuns(t) \/ WorldMoves(t) \/ Timeout(t)
  /\ UNCHANGED <<streamVars, server>>

StreamMoves(t) ==
  \/ TakeItem(t) \/ FrameSent(t) \/ SendTimesOut(t)
  \/ ClientLeaves(t) \/ DisconnectSeen(t)
  \/ ShutdownSeen(t) \/ DrainDeadline(t) \/ GraceOver(t)

ConverseNext ==
  \/ \E t \in Turns : Start(t) \/ Reject(t) \/ TurnMoves(t) \/ StreamMoves(t)
  \/ \E k \in Keys : Cancel(k) \/ Delete(k)
  \/ Sigterm \/ DrainBegins \/ DrainDone \/ DrainTimesOut \/ Exited

ConverseSpec == ConverseInit /\ [][ConverseNext]_converseVars

\* The event loop runs the generator when it can run; a frame is sent or given up;
\* a disconnect is reported; every timer of the shutdown fires.
StreamFairness ==
  /\ \A t \in Turns :
       /\ WF_converseVars(TakeItem(t))
       /\ WF_converseVars(FrameSent(t) \/ SendTimesOut(t))
       /\ WF_converseVars(DisconnectSeen(t))
       /\ WF_converseVars(ShutdownSeen(t))
       /\ WF_converseVars(DrainDeadline(t))
       /\ WF_converseVars(GraceOver(t))
  /\ WF_converseVars(DrainBegins)
  /\ WF_converseVars(DrainDone \/ DrainTimesOut)

FairConverseSpec == ConverseSpec /\ TurnFairness /\ StreamFairness
-----------------------------------------------------------------------------
ConverseTypeOK ==
  /\ stream \in [Turns -> Streaming \cup {"none", "returned", "dropped"}]
  /\ pos \in [Turns -> Nat]
  /\ outcome \in [Turns -> ErrorCodes \cup {"none", "ok"}]
  /\ draining \in [Turns -> BOOLEAN]
  /\ client \in [Turns -> {"connected", "gone"}]
  /\ wire \in [Turns -> Seq(Terminals \cup {"event"})]
  /\ server \in {"serving", "sigterm", "draining", "stopped"}

\* The client sees what StreamContract promises, on every path.
Contract == INSTANCE StreamContract WITH
  Streams <- Turns,
  conn <- [t \in Turns |->
    IF client[t] = "gone" THEN "dropped"
    ELSE IF stream[t] = "returned" THEN "ended"
    ELSE IF stream[t] \in Streaming THEN "open" ELSE stream[t]]

StreamKeepsContract == Contract!ContractSpec

\* Frames are the queue's items, in order, none lost and none twice, although the
\* pending get is cancelled and made again on every pass.
FramesFollowQueue ==
  \A t \in Turns :
    /\ \A i \in 1..Len(wire[t]) : i <= pos[t] /\ wire[t][i] = Frame(events[t][i])
    /\ client[t] = "connected" /\ stream[t] = "reading" /\ outcome[t] = "none" =>
         Len(wire[t]) = pos[t]

\* The terminal frame tells what happened to the turn: `done` follows a result that
\* came before any stop, `timeout` a timeout, `cancelled` another stop, and a
\* failure is reported of a turn that ended by itself.
TerminalTellsTruth ==
  \A t \in Turns : \A i \in 1..Len(wire[t]) :
    CASE wire[t][i] = "timeout" -> stopReason[t] = "timeout"
      [] wire[t][i] = "cancelled" -> stopReason[t] \in StopReasons \ {"timeout"}
      [] wire[t][i] \in {"sdk_error", "internal"} ->
           stopReason[t] = "none" /\ main[t] = "done"
      [] OTHER -> \A j \in 1..i : events[t][j].kind \notin {"stopped", "ended"}

\* The end of a stream that delivered `done` means that a new turn on the key will
\* be accepted: outside shutdown the slots are free by then.
EndOfStreamMeansFree ==
  \A t \in Turns :
    stream[t] = "returned" /\ outcome[t] = "ok" /\ server = "serving" => ~Registered(t)

\* A turn nobody reads any more has been stopped, or has delivered its result and
\* winds down: none goes on working unattended.
AbandonedTurnIsStopped ==
  \A t \in Turns : stream[t] \in {"returned", "dropped"} /\ Alive(t) =>
    stopReason[t] # "none" \/ outcome[t] = "ok"

\* The composition makes the turns do nothing that Turn does not allow.
ConverseImplementsTurn == TurnSpec

\* Every stream ends, with a client that reads, is slow, or leaves.
StreamEnds == \A t \in Turns : stream[t] = "reading" ~> ~Open(t)

\* What that rests on.  A stream that waits at an empty queue waits for a task that will
\* still put its end there: none is left reading a queue that nobody writes.
ReadersHaveWriters ==
  \A t \in Turns : stream[t] = "reading" /\ Empty(t) => Alive(t)

\* SIGTERM leads to the exit of the server, whatever the turns and clients do.
ShutdownCompletes == server = "sigterm" ~> server = "stopped"

\* What that rests on.  When the drain has begun no stream is open, no turn is let in any
\* more, and every task that is left was stopped and can still be cancelled once; when the
\* server has given up waiting, every task that is left was cancelled a second time.
ShutdownReachesAll ==
  server \in {"draining", "stopped"} =>
    \A t \in Turns :
      /\ ~Open(t)
      /\ Alive(t) => stopReason[t] # "none" /\ (forced[t] <=> server = "stopped")
=============================================================================

---------------------------- MODULE ClaudeRunner ----------------------------
(***************************************************************************)
(* sidecar.claude_runner: the generators around the SDK's query(), closed  *)
(* from inside (the stream ends or fails, a cancel is raised in it) or     *)
(* from outside (a consumer leaves while they are at a yield), and the     *)
(* exit stack that removes what the turn must not leave.                   *)
(*                                                                         *)
(* The SDK is not part of the repository.  What the code relies on: an     *)
(* exception raised inside query() closes the CLI before it leaves; a      *)
(* query() closed at its own yield leaves the CLI to a task of its own     *)
(* (claude_runner.py:222-225); a second cancel stops the closing           *)
(* (turn.py:3-7).                                                          *)
(***************************************************************************)
EXTENDS Naturals, Sequences

CONSTANTS
  PrivateFiles,  \* those the turn needs: the system prompt, the MCP configuration
  MaxCancels,    \* cancellations: one by Turn.stop, one by drain
  ToolUses,      \* the ids of the tool calls the model may make
  MaxTexts       \* bound: the text blocks it may say

ASSUME ClaudeAssumption ==
  /\ PrivateFiles \subseteq {"prompt", "mcp"}
  /\ MaxCancels \in Nat /\ MaxTexts \in Nat

VARIABLES
  ephemeral,     \* spec.ephemeral: mode=stateless
  tokenStreaming,\* text is asked for delta by delta
  structured,    \* the turn asked for structured output
  said,          \* history: text blocks the model has said
  sent,          \* history: texts begun as TextEvents, the last one perhaps in part
  partial,       \* the SDK is at the deltas of a block
  parts,         \* how many texts are in progress.final_text_parts
  called,        \* history: tool calls yielded as ToolUseEvents
  toolNames,     \* the domain of progress.pending_tool_names
  misnamed,      \* history: calls that were seen, and their results named "unknown"
  done,          \* history: the last DoneEvent: "none", "plain", "structured"
  pc,            \* where the turn's task is suspended
  stack,         \* the exit stack: what is still to be removed, last one first
  files,         \* what exists: private files and the CLI's transcript
  removing,      \* removals that a thread is at
  cli,           \* the CLI process
  idSeen,        \* progress.session_emitted
  resultError,   \* progress.result_error is set
  fault,         \* the exception on its way out
  cancels,       \* how many cancellations were requested
  cancelling,    \* one has not been delivered
  cutIn,         \* history: the place where a cancel kept the CLI from being closed
  withdrawn      \* history: removals that were cancelled, or that failed

requestVars == <<ephemeral, tokenStreaming, structured>>
textVars == <<said, sent, partial, parts>>
toolVars == <<called, toolNames, misnamed>>
streamVars == <<textVars, toolVars, done>>
turnVars == <<pc, stack, idSeen, resultError, fault>>
worldVars == <<files, removing, cli>>
cancelVars == <<cancels, cancelling>>
historyVars == <<cutIn, withdrawn>>
claudeVars == <<requestVars, streamVars, turnVars, worldVars, cancelVars, historyVars>>

\* "preparing": mcp.json is read in a thread; "reading": in the SDK; "recording": at the
\* yield of the session id, which the consumer writes down; "sdk_closing": the SDK closes
\* the CLI; "unwinding": waiting for a removal of the exit stack.
Places == {"preparing", "reading", "recording", "sdk_closing", "unwinding", "closed"}

\* Registered first, so it runs last: the transcript goes after the CLI has exited.
FullStack ==
  (IF ephemeral THEN <<"transcript">> ELSE <<>>) \o
  (IF "prompt" \in PrivateFiles THEN <<"prompt">> ELSE <<>>) \o
  (IF "mcp" \in PrivateFiles THEN <<"mcp">> ELSE <<>>)

ClaudeInit ==
  /\ ephemeral \in BOOLEAN /\ tokenStreaming \in BOOLEAN /\ structured \in BOOLEAN
  /\ said = 0 /\ sent = 0 /\ partial = FALSE /\ parts = 0
  /\ called = {} /\ toolNames = {} /\ misnamed = {} /\ done = "none"
  /\ pc = "preparing" /\ stack = <<>> /\ files = {} /\ removing = {} /\ cli = "none"
  /\ idSeen = FALSE /\ resultError = FALSE /\ fault = "none"
  /\ cancels = 0 /\ cancelling = FALSE /\ cutIn = "none" /\ withdrawn = {}

-----------------------------------------------------------------------------
(* The exit stack *)

Top(s) == s[Len(s)]
Below(s) == SubSeq(s, 1, Len(s) - 1)

\* The next removal is given to a thread and waited for; with none left, it is over.
Unwind(s) ==
  /\ stack' = s
  /\ pc' = IF s = <<>> THEN "closed" ELSE "unwinding"
  /\ removing' = removing \cup (IF s = <<>> THEN {} ELSE {Top(s)})

RemovalEnds(r) ==
  /\ r \in removing
  /\ removing' = removing \ {r}
  /\ files' = files \ {r}
  /\ UNCHANGED <<requestVars, streamVars, turnVars, cli, cancelVars, historyVars>>

\* Logged by _forget_stateless_turn, ignored by rmtree.
RemovalFails(r) ==
  /\ r \in removing
  /\ removing' = removing \ {r}
  /\ withdrawn' = withdrawn \cup {r}
  /\ UNCHANGED <<requestVars, streamVars, turnVars, files, cli, cancelVars, cutIn>>

At(place) == pc = place /\ ~cancelling

Unwound ==
  /\ At("unwinding")
  /\ Top(stack) \notin removing
  /\ Unwind(Below(stack))
  /\ UNCHANGED <<requestVars, streamVars, files, cli, idSeen, resultError, fault, cancelVars,
                 historyVars>>

-----------------------------------------------------------------------------
(* run_turn and _run *)

Prepared ==
  /\ At("preparing")
  /\ pc' = "reading"
  /\ stack' = FullStack
  /\ files' = files \cup PrivateFiles
  /\ UNCHANGED <<requestVars, streamVars, removing, cli, idSeen, resultError, fault, cancelVars,
                 historyVars>>

\* A private file cannot be written; what was entered before it is left again.
PreparationFails ==
  /\ At("preparing")
  /\ \E n \in 0..Len(FullStack) :
       /\ ephemeral => n > 0
       /\ LET entered == SubSeq(FullStack, 1, n) IN
          /\ Unwind(entered)
          /\ files' = {entered[i] : i \in 1..n} \ {"transcript"}
  /\ fault' = "internal"
  /\ UNCHANGED <<requestVars, streamVars, cli, idSeen, resultError, cancelVars, historyVars>>

CliStarts ==
  /\ At("reading") /\ cli = "none"
  /\ cli' = "running"
  /\ UNCHANGED <<requestVars, streamVars, turnVars, files, removing, cancelVars, historyVars>>

CliMissing ==
  /\ At("reading") /\ cli = "none"
  /\ fault' = "sdk_error"
  /\ Unwind(stack)
  /\ UNCHANGED <<requestVars, streamVars, files, cli, idSeen, resultError, cancelVars, historyVars>>

\* Only the wrapper of a session turn makes anyone wait at a yield.
SessionIdYielded ==
  /\ At("reading") /\ cli # "none" /\ ~idSeen /\ ~ephemeral
  /\ idSeen' = TRUE
  /\ pc' = "recording"
  /\ UNCHANGED <<requestVars, streamVars, stack, resultError, fault, worldVars, cancelVars,
                 historyVars>>

SessionIdRecorded ==
  /\ At("recording")
  /\ pc' = "reading"
  /\ UNCHANGED <<requestVars, streamVars, stack, idSeen, resultError, fault, worldVars,
                 cancelVars, historyVars>>

\* The consumer, or the body of the loop, leaves while query() is at its yield.
LeaveAtYield(f) ==
  /\ fault' = f
  /\ cutIn' = pc
  /\ Unwind(stack)

\* A message is translated unless an error result came before it.  The events it yields
\* hold nobody up.
Translates ==
  /\ At("reading") /\ cli # "none" /\ ~resultError
  /\ UNCHANGED <<requestVars, pc, stack, idSeen, fault, worldVars, cancelVars>>

\* _text_delta: with token streaming every text block comes as deltas first.
TextDelta ==
  /\ Translates
  /\ tokenStreaming /\ said < MaxTexts
  /\ partial' = TRUE
  /\ sent' = IF partial THEN sent ELSE sent + 1
  /\ UNCHANGED <<said, parts, toolVars, done, resultError, historyVars>>

\* An AssistantMessage with a text block; one with an `error` yields nothing.
AssistantText ==
  /\ Translates
  /\ said < MaxTexts /\ partial = tokenStreaming
  /\ said' = said + 1 /\ partial' = FALSE
  /\ parts' = parts + 1
  /\ sent' = IF tokenStreaming THEN sent ELSE sent + 1
  /\ UNCHANGED <<toolVars, done, resultError, historyVars>>

\* Mutant of ToolCalled: only the name of the latest call is remembered.
ToolCalledAlone(u) ==
  /\ Translates
  /\ ~partial /\ u \notin called
  /\ called' = called \cup {u} /\ toolNames' = {u}
  /\ UNCHANGED <<textVars, misnamed, done, resultError, historyVars>>

\* A ToolUseBlock; its name is kept for the result that is to come.
ToolCalled(u) ==
  /\ Translates
  /\ ~partial /\ u \notin called
  /\ called' = called \cup {u} /\ toolNames' = toolNames \cup {u}
  /\ UNCHANGED <<textVars, misnamed, done, resultError, historyVars>>

\* A UserMessage with a tool result, of a call that need not have been seen.
ToolAnswered(u) ==
  /\ Translates
  /\ misnamed' = misnamed \cup ({u} \cap (called \ toolNames))
  /\ UNCHANGED <<textVars, called, toolNames, done, resultError, historyVars>>

\* _done_event: the terminal event of a success, for what the properties tell apart.
DoneEvent(hasOutput) == IF hasOutput THEN "structured" ELSE "plain"

\* Mutant of ResultMessage: a result without the output asked for is a success.
ResultMessageUnchecked(isError, hasOutput) ==
  /\ Translates
  /\ IF isError
       THEN resultError' = TRUE /\ UNCHANGED done
       ELSE /\ done' = DoneEvent(hasOutput)
            /\ UNCHANGED resultError
  /\ UNCHANGED <<textVars, toolVars, historyVars>>

\* Mutant of ResultMessage: an error is raised at once, inside the loop.
ResultMessageRaised(isError, hasOutput) ==
  /\ At("reading") /\ cli # "none" /\ ~resultError
  /\ isError
  /\ resultError' = TRUE
  /\ LeaveAtYield("result_error")
  /\ UNCHANGED <<requestVars, streamVars, files, cli, idSeen, cancelVars, withdrawn>>

\* An error, or a result that lacks the structured output, is kept until the stream ends.
ResultMessage(isError, hasOutput) ==
  /\ Translates
  /\ IF isError \/ (structured /\ ~hasOutput)
       THEN resultError' = TRUE /\ UNCHANGED done
       ELSE /\ done' = DoneEvent(hasOutput)
            /\ UNCHANGED resultError
  /\ UNCHANGED <<textVars, toolVars, historyVars>>

\* The SDK's stream ends, or fails; a ResultError restates an error result, which need
\* not have been seen.
SdkStreamEnds ==
  /\ At("reading") /\ cli # "none"
  /\ pc' = "sdk_closing"
  /\ fault' \in {"none", "sdk_error", "result_error"}
  /\ UNCHANGED <<requestVars, streamVars, stack, idSeen, resultError, worldVars, cancelVars,
                 historyVars>>

\* Mutant of Raised: the SDK's own error wins over the result it restates.
RaisedBySdk == fault

\* What leaves _run: the error result if there is one, whatever the SDK raised.
Raised == IF resultError /\ fault # "cancelled" THEN "result_error" ELSE fault

\* Mutant of SdkClosed: the exit of the CLI is not waited for.
SdkClosedAtOnce ==
  /\ At("sdk_closing")
  /\ fault' = Raised
  /\ Unwind(stack)
  /\ UNCHANGED <<requestVars, streamVars, files, cli, idSeen, resultError, cancelVars, historyVars>>

SdkClosed ==
  /\ At("sdk_closing") /\ cli = "exited"
  /\ fault' = Raised
  /\ Unwind(stack)
  /\ UNCHANGED <<requestVars, streamVars, files, cli, idSeen, resultError, cancelVars, historyVars>>

-----------------------------------------------------------------------------
(* Cancellation: requested at any time, raised where the task is suspended *)

CancelRequested ==
  /\ pc # "closed" /\ ~cancelling /\ cancels < MaxCancels
  /\ cancels' = cancels + 1 /\ cancelling' = TRUE
  /\ UNCHANGED <<requestVars, streamVars, turnVars, worldVars, historyVars>>

Delivered == cancelling /\ cancelling' = FALSE /\ UNCHANGED cancels

CancelInPreparing ==
  /\ pc = "preparing" /\ Delivered
  /\ pc' = "closed" /\ fault' = "cancelled"
  /\ UNCHANGED <<requestVars, streamVars, stack, idSeen, resultError, worldVars, historyVars>>

\* Mutant of CancelInReading: a cancel raised in the SDK is taken for one of its messages.
CancelSwallowed ==
  /\ pc = "reading" /\ Delivered
  /\ UNCHANGED <<requestVars, streamVars, turnVars, worldVars, historyVars>>

CancelInReading ==
  /\ pc = "reading" /\ Delivered
  /\ fault' = "cancelled"
  /\ IF cli = "none"
       THEN Unwind(stack)
       ELSE pc' = "sdk_closing" /\ UNCHANGED <<stack, removing>>
  /\ UNCHANGED <<requestVars, streamVars, files, cli, idSeen, resultError, historyVars>>

CancelInRecording ==
  /\ pc = "recording" /\ Delivered
  /\ LeaveAtYield("cancelled")
  /\ UNCHANGED <<requestVars, streamVars, files, cli, idSeen, resultError, withdrawn>>

CancelInClosing ==
  /\ pc = "sdk_closing" /\ Delivered
  /\ fault' = "cancelled"
  /\ cutIn' = pc
  /\ Unwind(stack)
  /\ UNCHANGED <<requestVars, streamVars, files, cli, idSeen, resultError, withdrawn>>

\* Mutant of CancelInUnwinding: a cancel ends the unwinding, not one removal of it.
CancelEndsUnwinding ==
  /\ pc = "unwinding" /\ Delivered
  /\ fault' = "cancelled"
  /\ withdrawn' = withdrawn \cup {Top(stack)}
  /\ pc' = "closed" /\ stack' = <<>>
  /\ UNCHANGED <<requestVars, streamVars, files, removing, cli, idSeen, resultError, cutIn>>

\* A removal still queued for a thread is withdrawn, one that runs goes on; the
\* callbacks below it are called all the same.
CancelInUnwinding ==
  /\ pc = "unwinding" /\ Delivered
  /\ fault' = "cancelled"
  /\ LET below == Below(stack)
         next == IF below = <<>> THEN {} ELSE {Top(below)}
     IN
     /\ stack' = below
     /\ pc' = IF below = <<>> THEN "closed" ELSE "unwinding"
     /\ \/ removing' = removing \cup next /\ UNCHANGED withdrawn
        \/ /\ Top(stack) \in removing
           /\ removing' = (removing \ {Top(stack)}) \cup next
           /\ withdrawn' = withdrawn \cup {Top(stack)}
  /\ UNCHANGED <<requestVars, streamVars, files, cli, idSeen, resultError, cutIn>>

CancelLands ==
  \/ CancelInPreparing \/ CancelInReading \/ CancelInRecording
  \/ CancelInClosing \/ CancelInUnwinding

-----------------------------------------------------------------------------
(* The CLI *)

CliStores ==
  /\ cli = "running" /\ ephemeral
  /\ files' = files \cup {"transcript"}
  /\ UNCHANGED <<requestVars, streamVars, turnVars, removing, cli, cancelVars, historyVars>>

CliExits ==
  /\ cli = "running"
  /\ cli' = "exited"
  /\ UNCHANGED <<requestVars, streamVars, turnVars, files, removing, cancelVars, historyVars>>

-----------------------------------------------------------------------------
Runner ==
  \/ Prepared \/ PreparationFails \/ CliStarts \/ CliMissing
  \/ SessionIdYielded \/ SessionIdRecorded \/ SdkStreamEnds \/ SdkClosed
  \/ TextDelta \/ AssistantText
  \/ \E u \in ToolUses : ToolCalled(u) \/ ToolAnswered(u)
  \/ \E isError, hasOutput \in BOOLEAN : ResultMessage(isError, hasOutput)
  \/ Unwound

World ==
  \/ CliStores \/ CliExits
  \/ \E r \in {"transcript", "prompt", "mcp"} : RemovalEnds(r) \/ RemovalFails(r)

\* The generator is closed; a CLI that was left to itself may go on or not.
Closed == pc = "closed" /\ UNCHANGED claudeVars

ClaudeNext == Runner \/ World \/ CancelRequested \/ CancelLands \/ Closed

ClaudeSpec == ClaudeInit /\ [][ClaudeNext]_claudeVars

\* The loop runs what can run and delivers a cancel, threads end, and a CLI that the SDK
\* closes exits.  Nothing is owed by a CLI that is left alone.
FairClaudeSpec ==
  /\ ClaudeSpec
  /\ WF_claudeVars(SdkClosed) /\ WF_claudeVars(Unwound) /\ WF_claudeVars(CancelLands)
  /\ WF_claudeVars(pc = "sdk_closing" /\ CliExits)
  /\ \A r \in {"transcript", "prompt", "mcp"} :
       WF_claudeVars(RemovalEnds(r) \/ RemovalFails(r))
-----------------------------------------------------------------------------
ClaudeTypeOK ==
  /\ ephemeral \in BOOLEAN /\ tokenStreaming \in BOOLEAN /\ structured \in BOOLEAN
  /\ said \in 0..MaxTexts /\ partial \in BOOLEAN
  /\ called \subseteq ToolUses /\ toolNames \subseteq ToolUses
  /\ misnamed \subseteq ToolUses /\ done \in {"none", "plain", "structured"}
  /\ pc \in Places
  /\ stack \in Seq({"transcript", "prompt", "mcp"})
  /\ files \subseteq {"transcript", "prompt", "mcp"}
  /\ removing \subseteq {"transcript", "prompt", "mcp"}
  /\ withdrawn \subseteq {"transcript", "prompt", "mcp"}
  /\ cli \in {"none", "running", "exited"}
  /\ idSeen \in BOOLEAN /\ resultError \in BOOLEAN
  /\ fault \in {"none", "internal", "sdk_error", "result_error", "cancelled"}
  /\ cancels \in 0..MaxCancels /\ cancelling \in BOOLEAN
  /\ cutIn \in Places \cup {"none"}

\* Closing the runner closes the CLI first, in the same task: unless a cancel hits the
\* closing itself or finds a session turn at the yield of its session id, no file the
\* CLI uses is removed, and no slot can be given back, before it has exited.
CleanupAfterCli ==
  cutIn \notin {"sdk_closing", "recording"} /\ (pc = "closed" \/ removing # {}) =>
    cli # "running"

\* The comment at claude_runner.py:345: closing the generator closes query(), and so the
\* CLI, right away and in this task, whoever closes it.  (A second cancel is documented
\* to stop the closing.)
ClosingClosesCli == cutIn # "sdk_closing" /\ pc = "closed" => cli # "running"

\* A stateless turn leaves no transcript and no turn leaves the file with its token:
\* what is left when the runner is closed was not removed for a reason of its own,
\* never because of what happened to the removals before it.
NothingLeftBehind ==
  pc = "closed" /\ removing = {} /\ (cutIn = "none" \/ cli # "running") =>
    \A f \in files : f \in withdrawn \/ (f = "transcript" /\ (cutIn # "none" \/ ~ephemeral))

\* A turn whose CLI reported an error result ends with that error, not with the exit
\* status that follows it, and never as a success; nor does a structured turn whose
\* result lacks the output.
ErrorResultIsRaised ==
  pc = "closed" /\ fault # "cancelled" =>
    /\ resultError => fault = "result_error"
    /\ structured /\ fault = "none" => done # "plain"

\* The client gets each text of the model once, whether as deltas or as a block, and
\* finalText has all of them.  Results of parallel calls come in any order and any time
\* later, other calls in between, and more than once: each is sent under its call's name.
EventsMatchMessages ==
  /\ sent = said + (IF partial THEN 1 ELSE 0)
  /\ parts = said
  /\ misnamed = {}

\* Cancelled anywhere, or at the end of its stream, the runner closes.
CleanupEnds == pc \in {"sdk_closing", "unwinding"} \/ cancels > 0 ~> pc = "closed"

IsClosing == pc \in {"sdk_closing", "unwinding", "closed"}

\* No cancel is swallowed, by the SDK, at the yield of the session id or while a file is
\* removed: from the first one on the closing has begun, or will with the next step.  And
\* the closing always has something to wait for: a CLI, then a removal of the stack.
CleanupNeverStuck ==
  /\ cancels > 0 => cancelling \/ IsClosing
  /\ cancelling => pc # "closed"
  /\ pc = "sdk_closing" => cli # "none"
  /\ pc = "unwinding" => stack # <<>> /\ Top(stack) \in {"transcript", "prompt", "mcp"}

\* The waits still ahead of a runner that is closing, the one it is at included.
WaitsLeft == (IF pc = "sdk_closing" THEN 1 ELSE 0) + Len(stack)

\* A runner that is closing waits once for the CLI and once for each removal: every step of
\* its own, and every cancel that lands, leaves fewer waits.
AdvancesClosing ==
  /\ IsClosing'
  /\ WaitsLeft' <= WaitsLeft
  /\ Runner \/ CancelLands => WaitsLeft' < WaitsLeft

CleanupAdvances == [][IsClosing => AdvancesClosing]_claudeVars

\* The runner is one that Turn can rely on: for a stateless turn without reserve, for a
\* session turn but for a stop while its session id is being recorded.
Contract == INSTANCE RunnerContract WITH
  detaches <- ~ephemeral,
  place <- IF pc = "closed" THEN "closed"
           ELSE IF cli = "none" THEN "opening"
           ELSE IF pc \in {"sdk_closing", "unwinding"} THEN "closing" ELSE "running",
  cut <- cutIn # "none"

KeepsContract == Contract!ContractSpec
=============================================================================

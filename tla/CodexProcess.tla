---------------------------- MODULE CodexProcess ----------------------------
(***************************************************************************)
(* sidecar.codex_runner: one `codex exec` process group, the pipes to it,  *)
(* the helper tasks on those pipes, and a cleanup whose every wait is      *)
(* bounded and may be interrupted.                                         *)
(*                                                                         *)
(* The group is its leader (the npm wrapper that was spawned) and a member *)
(* (the native binary, an MCP server).  Commands that codex runs leave the *)
(* group and may keep a pipe open; they are seen as the pipes they hold.   *)
(* returncode is set by the loop some time after the leader has exited.    *)
(* Of the events codex reports, those count that decide how the turn ends; *)
(* of a message, whether it is the JSON a structured turn asks for.        *)
(***************************************************************************)
EXTENDS Integers

CONSTANT MaxCancels   \* cancellations: one by Turn.stop, one by drain

ASSUME CodexAssumption == MaxCancels \in Nat

VARIABLES
  pc,          \* where the generator _stream is suspended
  result,      \* how it ended: "none" so far, "ok", "sdk_error", "internal", "cancelled"
  structured,  \* the turn asked for structured output
  schema,      \* the private file for it: "none", "kept", "removing", "removed",
               \* or "withdrawn": it is still there, its removal was cancelled
  message,     \* progress.last_message: "empty", "prose", "json"
  reported,    \* progress.last_error is set
  completed,   \* progress.completed
  done,        \* history: the finalText of the last DoneEvent, or "none"
  broken,      \* history: turn.failed, a bad result, a failed read or no exit in time ended it
  returncode,  \* proc.returncode: "none", "zero", "nonzero"
  stdinDone,   \* stdin_task is done
  stderrDone,  \* stderr_task is done
  leader,      \* "none", "alive", "zero", "nonzero" (exited with that status)
  member,      \* "none", "alive", "dead"
  outClosed,   \* the group has closed its stdout while running
  escaped,     \* the pipes held by processes outside the group
  cancels,     \* how many cancellations were requested
  cancelling,  \* one has not been delivered
  cut          \* history: one was delivered in the cleanup

procVars == <<leader, member, outClosed, escaped>>
helperVars == <<stdinDone, stderrDone>>
cancelVars == <<cancels, cancelling, cut>>
eventVars == <<structured, message, reported, completed, done, broken>>
codexVars == <<pc, result, schema, eventVars, returncode, helperVars, procVars, cancelVars>>

Waits == {"exit_wait", "exit_stderr"}                                 \* _exit_status
Cleanup == {"term_grace", "kill_wait", "finish_stdin", "finish_stderr"} \* the finally
Pipes == {"stdout", "stderr"}

GroupDead == leader # "alive" /\ member # "alive"
Exited == leader \in {"zero", "nonzero"}

CodexInit ==
  /\ pc = "spawning" /\ result = "none" /\ returncode = "none"
  /\ structured \in BOOLEAN /\ schema = IF structured THEN "kept" ELSE "none"
  /\ message = "empty" /\ reported = FALSE /\ completed = FALSE
  /\ done = "none" /\ broken = FALSE
  /\ stdinDone = FALSE /\ stderrDone = FALSE
  /\ leader = "none" /\ member = "none" /\ outClosed = FALSE /\ escaped = {}
  /\ cancels = 0 /\ cancelling = FALSE /\ cut = FALSE

-----------------------------------------------------------------------------
(* The world *)

LeaderExits ==
  /\ leader = "alive"
  /\ leader' \in {"zero", "nonzero"}
  /\ UNCHANGED <<pc, result, schema, eventVars, returncode, helperVars, member, outClosed, escaped,
                 cancelVars>>

Reaped ==
  /\ Exited /\ returncode = "none"
  /\ returncode' = leader
  /\ UNCHANGED <<pc, result, schema, eventVars, helperVars, procVars, cancelVars>>

MemberStarts ==
  /\ leader = "alive" /\ member = "none"
  /\ member' = "alive"
  /\ UNCHANGED <<pc, result, schema, eventVars, returncode, helperVars, leader, outClosed, escaped,
                 cancelVars>>

MemberExits ==
  /\ member = "alive"
  /\ member' = "dead"
  /\ UNCHANGED <<pc, result, schema, eventVars, returncode, helperVars, leader, outClosed, escaped,
                 cancelVars>>

CommandEscapes ==
  /\ ~GroupDead /\ escaped = {}
  /\ escaped' \in SUBSET Pipes \ {{}}
  /\ UNCHANGED <<pc, result, schema, eventVars, returncode, helperVars, leader, member, outClosed,
                 cancelVars>>

EscapedExits ==
  /\ escaped # {}
  /\ escaped' = {}
  /\ UNCHANGED <<pc, result, schema, eventVars, returncode, helperVars, leader, member, outClosed,
                 cancelVars>>

StdoutCloses ==
  /\ ~GroupDead /\ ~outClosed
  /\ outClosed' = TRUE
  /\ UNCHANGED <<pc, result, schema, eventVars, returncode, helperVars, leader, member, escaped,
                 cancelVars>>

\* _send_prompt: the prompt is read, or nobody can read it any more.
StdinTaskEnds ==
  /\ leader # "none" /\ ~stdinDone
  /\ stdinDone' = TRUE
  /\ UNCHANGED <<pc, result, schema, eventVars, returncode, stderrDone, procVars, cancelVars>>

\* _drain: stderr is at its end when nobody holds it.
StderrTaskEnds ==
  /\ leader # "none" /\ GroupDead /\ "stderr" \notin escaped /\ ~stderrDone
  /\ stderrDone' = TRUE
  /\ UNCHANGED <<pc, result, schema, eventVars, returncode, stdinDone, procVars, cancelVars>>

World ==
  \/ LeaderExits \/ Reaped \/ MemberStarts \/ MemberExits
  \/ CommandEscapes \/ EscapedExits \/ StdoutCloses
  \/ StdinTaskEnds \/ StderrTaskEnds

-----------------------------------------------------------------------------
(* The cleanup *)

\* killpg(SIGKILL)
KillGroup ==
  /\ leader' = IF leader = "alive" THEN "nonzero" ELSE leader
  /\ member' = IF member = "alive" THEN "dead" ELSE member

\* When _stream is closed, run_turn waits for the thread that removes its private file.
Closing == IF structured THEN "unwinding" ELSE "closed"

GoTo(place) ==
  /\ pc' = place
  /\ schema' = IF place = "unwinding" THEN "removing" ELSE schema

\* The rest of the finally once _terminate is through: a _finish for each helper
\* that is not done.
AfterTerminate ==
  IF ~stdinDone THEN "finish_stdin" ELSE IF ~stderrDone THEN "finish_stderr" ELSE Closing

\* The finally of _stream up to its first wait: SIGTERM and its grace, or, when the
\* leader was seen to exit, at once the sweep of what it left.
Close(res) ==
  /\ result' = res
  /\ IF returncode = "none"
       THEN GoTo("term_grace") /\ UNCHANGED <<leader, member>>
       ELSE KillGroup /\ GoTo(AfterTerminate)
  /\ UNCHANGED <<returncode, helperVars, outClosed, escaped>>

-----------------------------------------------------------------------------
(* _stream, _translate_event and _exit_status *)

At(place) == pc = place /\ ~cancelling

Spawned ==
  /\ At("spawning")
  /\ pc' = "reading" /\ leader' = "alive"
  /\ UNCHANGED <<result, schema, eventVars, returncode, helperVars, member, outClosed,
                 escaped, cancelVars>>

\* codex cannot be started, or its private file cannot be written.
SpawnFails ==
  /\ At("spawning")
  /\ result' \in {"sdk_error"} \cup (IF structured THEN {"internal"} ELSE {})
  /\ GoTo(Closing)
  /\ UNCHANGED <<eventVars, returncode, helperVars, procVars, cancelVars>>

MessageRead ==
  /\ At("reading")
  /\ message' \in {"prose", "json"}
  /\ UNCHANGED <<pc, result, schema, structured, reported, completed, done, broken,
                 returncode, helperVars, procVars, cancelVars>>

\* Mutant of ErrorReported: trouble that codex gets over ends the turn.
ErrorEndsTurn ==
  /\ At("reading")
  /\ reported' = TRUE
  /\ Close("sdk_error")
  /\ UNCHANGED <<structured, message, completed, done, broken, cancelVars>>

\* An `error` event is not terminal: codex reports "Reconnecting..." that way too.
ErrorReported ==
  /\ At("reading")
  /\ reported' = TRUE
  /\ UNCHANGED <<pc, result, schema, structured, message, completed, done, broken,
                 returncode, helperVars, procVars, cancelVars>>

\* _structured_output parses the last message.
Parses == message = "json"

\* turn.completed: the last message is the result, if it is what was asked for.
TurnCompleted ==
  /\ At("reading")
  /\ completed' = TRUE
  /\ IF structured /\ ~Parses
       THEN broken' = TRUE /\ Close("sdk_error") /\ UNCHANGED done
       ELSE /\ done' = message
            /\ UNCHANGED <<broken, pc, result, schema, returncode, helperVars, procVars>>
  /\ UNCHANGED <<structured, message, reported, cancelVars>>

\* turn.failed, or a failure while the output is read.
ReadFails ==
  /\ At("reading")
  /\ broken' = TRUE
  /\ Close("sdk_error")
  /\ UNCHANGED <<structured, message, reported, completed, done, cancelVars>>

StdoutEnds ==
  /\ At("reading")
  /\ "stdout" \notin escaped /\ (GroupDead \/ outClosed)
  /\ pc' = "exit_wait"
  /\ UNCHANGED <<result, schema, eventVars, returncode, helperVars, procVars, cancelVars>>

Status ==
  IF returncode = "zero" /\ completed THEN "ok" ELSE "sdk_error"

\* The wait for the exit is over, by the exit or by _EXIT_WAIT_SEC.
NotExited ==
  /\ At("exit_wait") /\ returncode = "none"
  /\ broken' = TRUE
  /\ Close("sdk_error")
  /\ UNCHANGED <<structured, message, reported, completed, done, cancelVars>>

\* The sweep of the leftovers, then the wait for stderr.
SweptAtExit ==
  /\ At("exit_wait") /\ returncode # "none"
  /\ IF stderrDone
       THEN Close(Status)
       ELSE /\ KillGroup
            /\ pc' = "exit_stderr"
            /\ UNCHANGED <<result, schema, returncode, helperVars, outClosed, escaped>>
  /\ UNCHANGED <<eventVars, cancelVars>>

\* _finish(stderr_task): done, or cancelled after a second.
StderrFinishedAtExit ==
  /\ At("exit_stderr")
  /\ stderrDone' = TRUE
  /\ KillGroup
  /\ result' = Status
  /\ GoTo(IF stdinDone THEN Closing ELSE "finish_stdin")
  /\ UNCHANGED <<eventVars, returncode, stdinDone, outClosed, escaped, cancelVars>>

-----------------------------------------------------------------------------
(* The waits of the cleanup: each ends by what it waits for, or by its bound *)

\* Mutant of TermGraceOver: the sweep is taken for needless once the leader is gone.
TermGraceOverUnswept ==
  /\ At("term_grace")
  /\ IF returncode = "none"
       THEN KillGroup /\ GoTo("kill_wait")
       ELSE UNCHANGED <<leader, member>> /\ GoTo(AfterTerminate)
  /\ UNCHANGED <<result, eventVars, returncode, helperVars, outClosed, escaped, cancelVars>>

TermGraceOver ==
  /\ At("term_grace")
  /\ KillGroup
  /\ GoTo(IF returncode = "none" THEN "kill_wait" ELSE AfterTerminate)
  /\ UNCHANGED <<result, eventVars, returncode, helperVars, outClosed, escaped, cancelVars>>

KillWaitOver ==
  /\ At("kill_wait")
  /\ GoTo(AfterTerminate)
  /\ UNCHANGED <<result, eventVars, returncode, helperVars, procVars, cancelVars>>

StdinFinished ==
  /\ At("finish_stdin")
  /\ stdinDone' = TRUE
  /\ GoTo(IF stderrDone THEN Closing ELSE "finish_stderr")
  /\ UNCHANGED <<result, eventVars, returncode, stderrDone, procVars, cancelVars>>

\* Mutant of StderrFinished: a wait without a bound.
StderrFinishedUnbounded ==
  /\ At("finish_stderr") /\ stderrDone
  /\ GoTo(Closing)
  /\ UNCHANGED <<result, eventVars, returncode, helperVars, procVars, cancelVars>>

StderrFinished ==
  /\ At("finish_stderr")
  /\ stderrDone' = TRUE
  /\ GoTo(Closing)
  /\ UNCHANGED <<result, eventVars, returncode, stdinDone, procVars, cancelVars>>

SchemaRemoved ==
  /\ schema = "removing"
  /\ schema' = "removed"
  /\ UNCHANGED <<pc, result, eventVars, returncode, helperVars, procVars, cancelVars>>

Unwound ==
  /\ At("unwinding") /\ schema = "removed"
  /\ pc' = "closed"
  /\ UNCHANGED <<result, schema, eventVars, returncode, helperVars, procVars, cancelVars>>

-----------------------------------------------------------------------------
(* Cancellation: requested at any time, raised where the generator waits *)

CancelRequested ==
  /\ pc # "closed" /\ ~cancelling /\ cancels < MaxCancels
  /\ cancels' = cancels + 1 /\ cancelling' = TRUE
  /\ UNCHANGED <<pc, result, schema, eventVars, returncode, helperVars, procVars, cut>>

\* create_subprocess_exec kills the leader it may have started, and waits for it.
CancelInSpawn ==
  /\ pc = "spawning" /\ cancelling
  /\ GoTo(Closing) /\ result' = "cancelled" /\ cancelling' = FALSE
  /\ UNCHANGED <<eventVars, returncode, helperVars, procVars, cancels, cut>>

\* Mutant of CancelInStream: the generator is left unclosed, to be finalized later.
CancelInStreamUnclosed ==
  /\ pc \in {"reading"} \cup Waits /\ cancelling
  /\ GoTo(Closing) /\ result' = "cancelled" /\ cancelling' = FALSE
  /\ UNCHANGED <<eventVars, returncode, helperVars, procVars, cancels, cut>>

CancelInStream ==
  /\ pc \in {"reading"} \cup Waits /\ cancelling
  /\ Close("cancelled")
  /\ cancelling' = FALSE
  /\ UNCHANGED <<eventVars, cancels, cut>>

\* The wait raises and nothing after it in the finally is done; the exit stack is
\* another frame.
CancelInCleanup ==
  /\ pc \in Cleanup /\ cancelling
  /\ GoTo(Closing) /\ result' = "cancelled"
  /\ cancelling' = FALSE /\ cut' = TRUE
  /\ UNCHANGED <<eventVars, returncode, helperVars, procVars, cancels>>

\* A removal still queued for a thread is withdrawn, one that runs goes on.
CancelInUnwinding ==
  /\ pc = "unwinding" /\ cancelling
  /\ pc' = "closed" /\ result' = "cancelled"
  /\ schema' \in {schema} \cup (IF schema = "removing" THEN {"withdrawn"} ELSE {})
  /\ cancelling' = FALSE
  /\ UNCHANGED <<eventVars, returncode, helperVars, procVars, cancels, cut>>

-----------------------------------------------------------------------------
Stream ==
  \/ Spawned \/ SpawnFails \/ StdoutEnds
  \/ MessageRead \/ ErrorReported \/ TurnCompleted \/ ReadFails
  \/ NotExited \/ SweptAtExit \/ StderrFinishedAtExit
  \/ TermGraceOver \/ KillWaitOver \/ StdinFinished \/ StderrFinished
  \/ Unwound

CancelLands == CancelInSpawn \/ CancelInStream \/ CancelInCleanup \/ CancelInUnwinding

\* The generator is closed; what it left may go on or not.
Closed == pc = "closed" /\ UNCHANGED codexVars

CodexNext == World \/ SchemaRemoved \/ Stream \/ CancelRequested \/ CancelLands \/ Closed

CodexSpec == CodexInit /\ [][CodexNext]_codexVars

\* Every wait after the end of stdout is bounded, the thread of a removal ends, and the
\* loop delivers a cancel.  Nothing makes codex speak, close its output or exit.
FairCodexSpec ==
  /\ CodexSpec
  /\ WF_codexVars(NotExited \/ SweptAtExit \/ StderrFinishedAtExit)
  /\ WF_codexVars(TermGraceOver \/ KillWaitOver \/ StdinFinished \/ StderrFinished)
  /\ WF_codexVars(SchemaRemoved) /\ WF_codexVars(Unwound)
  /\ WF_codexVars(CancelLands)
-----------------------------------------------------------------------------
\* Types, and what each place presupposes: the helpers are waited for, and SIGKILL
\* is given its time, only when the whole group has been killed.
CodexTypeOK ==
  /\ pc \in {"spawning", "reading", "unwinding", "closed"} \cup Waits \cup Cleanup
  /\ result \in {"none", "ok", "sdk_error", "internal", "cancelled"}
  /\ schema \in {"none", "kept", "removing", "removed", "withdrawn"}
  /\ message \in {"empty", "prose", "json"} /\ done \in {"none", "empty", "prose", "json"}
  /\ structured \in BOOLEAN /\ reported \in BOOLEAN /\ completed \in BOOLEAN
  /\ broken \in BOOLEAN /\ stdinDone \in BOOLEAN /\ stderrDone \in BOOLEAN
  /\ returncode \in {"none", "zero", "nonzero"}
  /\ leader \in {"none", "alive", "zero", "nonzero"}
  /\ member \in {"none", "alive", "dead"}
  /\ outClosed \in BOOLEAN /\ escaped \subseteq Pipes
  /\ returncode # "none" => leader = returncode
  /\ pc \in {"exit_stderr", "kill_wait", "finish_stdin", "finish_stderr"} => GroupDead
  /\ cancels \in 0..MaxCancels /\ cancelling \in BOOLEAN /\ cut \in BOOLEAN

\* A runner that closes undisturbed leaves no process of the group and no helper
\* task, whichever way it came to close: an error, an exit with or without leftover
\* members, output closed without an exit, a cancel anywhere before the cleanup.  The
\* removal of the private file comes after that, and is begun even if it was disturbed.
ClosedMeansSwept ==
  /\ pc \in {"unwinding", "closed"} /\ leader # "none" /\ ~cut =>
       GroupDead /\ stdinDone /\ stderrDone
  /\ pc = "closed" => schema # "kept" /\ (schema # "removed" => cancels > 0 \/ ~structured)

\* The turn is a success exactly if codex completed it, with the JSON that was asked for,
\* and exited with 0 in time, whatever trouble it reported on the way; only the stop of
\* the turn says otherwise.
SuccessIsCompletion ==
  pc = "closed" /\ result # "cancelled" /\ leader # "none" =>
    (result = "ok" <=> ~broken /\ leader = "zero" /\ done \in {"json"} \cup
       (IF structured THEN {} ELSE {"empty", "prose"}))

\* The cleanup and the exit status end, even if codex ignores SIGTERM and a process
\* outside the group holds the pipes for ever.
CleanupEnds == pc \in Waits \cup Cleanup \cup {"unwinding"} \/ cancels > 0 ~> pc = "closed"

\* No cancel is swallowed: from the first one on the cleanup has begun, or will with the
\* next step; no cancel is pending when the generator is closed; and the removal it waits
\* for at last is under way or done.  So one of the steps whose fairness is assumed is
\* always possible.
CleanupNeverStuck ==
  /\ cancels > 0 => cancelling \/ pc \in Cleanup \cup {"unwinding", "closed"}
  /\ cancelling => pc # "closed"
  /\ pc = "unwinding" => schema \in {"removing", "removed"}

\* The waits still ahead, the one it is at included.
WaitsLeft(p) ==
  CASE p = "spawning" -> 9 [] p = "reading" -> 8 [] p = "exit_wait" -> 7
    [] p = "exit_stderr" -> 6 [] p = "term_grace" -> 5 [] p = "kill_wait" -> 4
    [] p = "finish_stdin" -> 3 [] p = "finish_stderr" -> 2 [] p = "unwinding" -> 1
    [] OTHER -> 0

\* After stdout has ended the generator comes to each wait at most once, whatever cancels
\* land in them: every step of its own, and every cancel that lands, leaves fewer.
CleanupAdvances ==
  [][/\ pc' # pc => WaitsLeft(pc') < WaitsLeft(pc)
     /\ CancelLands \/ (Stream /\ pc # "reading") => pc' # pc]_codexVars

\* The runner is one that Turn can rely on.
Contract == INSTANCE RunnerContract WITH
  detaches <- FALSE,
  place <- IF pc = "closed" THEN "closed"
           ELSE IF leader = "none" THEN "opening"
           ELSE IF pc \in {"reading"} \cup Waits THEN "running" ELSE "closing",
  cli <- IF leader = "none" THEN "none" ELSE IF GroupDead THEN "exited" ELSE "running"

KeepsContract == Contract!ContractSpec

\* docs/operations.md: stopping a turn SIGTERMs codex's group, then always SIGKILLs
\* the group.  One stop is one cancel.
StopKillsGroup == pc = "closed" /\ cancels <= 1 => GroupDead
=============================================================================

----------------------------- MODULE CodexPipes -----------------------------
(***************************************************************************)
(* The three pipes between the sidecar and codex: the prompt is written    *)
(* (_send_prompt) and stderr is read (_drain) by tasks beside the one that *)
(* reads stdout.  A pipe holds PipeSize bytes; who finds it full or empty  *)
(* waits.  Codex reads and writes in any order, one operation at a time.   *)
(***************************************************************************)
EXTENDS NdjsonLines

CONSTANTS
  PromptSize,  \* bytes of the prompt
  PipeSize,    \* bytes a pipe holds
  MaxBytes     \* bound: bytes codex writes to its stdout

ASSUME PipesAssumption ==
  PromptSize \in Nat /\ PipeSize \in Nat \ {0} /\ MaxBytes \in Nat

VARIABLES
  codex,       \* "busy", in a system call ("read", "out", "err"), "exited"
  unsent,      \* bytes of the prompt that are not in the pipe yet
  inPipe,      \* bytes in the pipe of stdin
  errPipe      \* bytes in the pipe of stderr

pipeVars == <<codex, unsent, inPipe, errPipe>>
pipesVars == <<linesVars, pipeVars>>

PipesInit ==
  /\ LinesInit
  /\ codex = "busy" /\ unsent = PromptSize /\ inPipe = 0 /\ errPipe = 0

-----------------------------------------------------------------------------
(* Codex *)

Calls ==
  /\ codex = "busy"
  /\ codex' \in {"read", "err"} \cup (IF Len(written) < MaxBytes THEN {"out"} ELSE {})
  /\ UNCHANGED <<linesVars, unsent, inPipe, errPipe>>

\* Of the prompt or, when it was sent and stdin closed, of nothing.
CodexReads ==
  /\ codex = "read" /\ (inPipe > 0 \/ unsent = 0)
  /\ codex' = "busy"
  /\ inPipe' \in IF inPipe = 0 THEN {0} ELSE 0..inPipe - 1
  /\ UNCHANGED <<linesVars, unsent, errPipe>>

CodexWrites ==
  /\ codex = "out" /\ Len(written) - got < PipeSize
  /\ codex' = "busy"
  /\ \E b \in Bytes : Write(b)
  /\ UNCHANGED <<unsent, inPipe, errPipe>>

CodexLogs ==
  /\ codex = "err" /\ errPipe < PipeSize
  /\ codex' = "busy" /\ errPipe' = errPipe + 1
  /\ UNCHANGED <<linesVars, unsent, inPipe>>

CodexExits ==
  /\ codex = "busy"
  /\ codex' = "exited"
  /\ CloseOut
  /\ UNCHANGED <<unsent, inPipe, errPipe>>

-----------------------------------------------------------------------------
(* The sidecar *)

SendPrompt ==
  /\ codex # "exited" /\ unsent > 0 /\ inPipe < PipeSize
  /\ unsent' = unsent - 1 /\ inPipe' = inPipe + 1
  /\ UNCHANGED <<linesVars, codex, errPipe>>

\* BrokenPipeError, ConnectionResetError: the exit code tells the story.
PromptNotRead ==
  /\ codex = "exited" /\ unsent > 0
  /\ unsent' = 0
  /\ UNCHANGED <<linesVars, codex, inPipe, errPipe>>

Drain ==
  /\ errPipe > 0
  /\ errPipe' = 0
  /\ UNCHANGED <<linesVars, codex, unsent, inPipe>>

\* Mutant of ReadStdout: the prompt is sent first, then stdout is read.
ReadAfterPrompt ==
  /\ unsent = 0
  /\ Reader
  /\ UNCHANGED pipeVars

ReadStdout == Reader /\ UNCHANGED pipeVars

\* The stream is over.
Over == ended /\ UNCHANGED pipesVars

PipesNext ==
  \/ Calls \/ CodexReads \/ CodexWrites \/ CodexLogs \/ CodexExits
  \/ SendPrompt \/ PromptNotRead \/ Drain \/ ReadStdout \/ Over

PipesSpec == PipesInit /\ [][PipesNext]_pipesVars

\* A call of codex that can return does, and the loop runs each of its tasks.  Nothing
\* makes codex call, or exit.
FairPipesSpec ==
  /\ PipesSpec
  /\ WF_pipesVars(CodexReads) /\ WF_pipesVars(CodexWrites) /\ WF_pipesVars(CodexLogs)
  /\ WF_pipesVars(SendPrompt) /\ WF_pipesVars(Drain) /\ WF_pipesVars(ReadStdout)
-----------------------------------------------------------------------------
\* Types, and that no pipe holds more than it can.
PipesTypeOK ==
  /\ codex \in {"busy", "read", "out", "err", "exited"}
  /\ unsent \in 0..PromptSize
  /\ inPipe \in 0..PipeSize /\ errPipe \in 0..PipeSize
  /\ Len(written) - got \in 0..PipeSize

\* The sidecar never leaves codex waiting at a pipe, in whatever order codex reads its
\* prompt, writes its output and logs: neither side waits for the other.
CodexNeverStuck == \A call \in {"read", "out", "err"} : codex = call ~> codex # call

\* When codex waits at a pipe, or has exited, it can go on or a task of the sidecar can:
\* there is no state in which each waits for the other.  The guards are those of Reader,
\* SendPrompt and Drain.
ReaderCanRun ==
  /\ ~ended
  /\ \/ start = got /\ got < Len(written)
     \/ \E n \in start + 1 .. got : written[n] = NL /\ NoNewline(start, n - 1)
     \/ start < got /\ NoNewline(start, got)
     \/ start = got /\ ~outOpen /\ got = Len(written)

NoDeadlockAtPipes ==
  /\ codex = "read" => inPipe > 0 \/ unsent = 0 \/ inPipe < PipeSize
  /\ codex = "out" => Len(written) - got < PipeSize \/ ReaderCanRun
  /\ codex = "err" => errPipe < PipeSize \/ errPipe > 0
  /\ codex = "exited" => ended \/ ReaderCanRun

\* What the reader has left to do with what codex wrote: every byte is read and taken,
\* and the end of the output is seen.
WorkLeft == 2 * (Len(written) - got) + (got - start) + (IF ended THEN 0 ELSE 1)

\* A step of the reader leaves less to do, and only what codex writes adds to it: the
\* reader does not turn in circles over a line without an end or one over the limit.
ReadingAdvances ==
  [][/\ ReadStdout => WorkLeft' < WorkLeft
     /\ written' = written => WorkLeft' <= WorkLeft]_pipesVars

\* When codex has exited all it wrote is read, and the stream ends.
OutputIsReadToTheEnd == codex = "exited" ~> ended /\ got = Len(written)
=============================================================================

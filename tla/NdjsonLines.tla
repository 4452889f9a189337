---------------------------- MODULE NdjsonLines ----------------------------
(***************************************************************************)
(* _ndjson_lines of sidecar.codex_runner: what codex writes to its stdout  *)
(* arrives in chunks of any size and leaves as lines.  A line that grows   *)
(* past the limit is given up, with what follows of it, up to its newline; *)
(* but that is looked at only where a chunk ends inside the line.          *)
(* `written` keeps all that was ever written; the reader is at `got`.      *)
(***************************************************************************)
EXTENDS Integers, Sequences

CONSTANTS
  Bytes,      \* the bytes codex may write
  NL,         \* the newline
  Blank,      \* the bytes that strip() removes
  Limit,      \* _MAX_EVENT_LINE_BYTES
  ChunkSize   \* the most that one read() returns

ASSUME LinesAssumption ==
  /\ NL \in Bytes
  /\ Limit \in Nat
  /\ ChunkSize \in Nat \ {0}

VARIABLES
  written,    \* everything written to stdout so far
  outOpen,    \* somebody can still write to it
  got,        \* bytes read: the current chunk ends here
  start,      \* bytes looked at: the rest of the chunk begins after them
  buf,        \* the beginning of the current line
  skipping,   \* the current line is given up
  lines,      \* the lines yielded: their text, and where it begins (history)
  begun,      \* history: where the current line begins
  outgrown,   \* history: where the lines begin that were over the limit as a chunk ended
  ended       \* the generator is through

readerVars == <<got, start, buf, skipping, lines, begun, outgrown, ended>>
linesVars == <<written, outOpen, readerVars>>

IsBlank(text) == \A i \in DOMAIN text : text[i] \in Blank

NoNewline(from, to) == \A i \in from + 1 .. to : written[i] # NL
LineStart(n) == n = 0 \/ (n \in 1..Len(written) /\ written[n] = NL)

\* The line that goes on after c, or ends right there, if it is over the limit by then.
OverAt(c) == {n \in 0..c : LineStart(n) /\ NoNewline(n, c) /\ c - n > Limit}

LinesInit ==
  /\ written = <<>> /\ outOpen = TRUE
  /\ got = 0 /\ start = 0 /\ buf = <<>> /\ skipping = FALSE
  /\ lines = <<>> /\ begun = 0 /\ outgrown = {} /\ ended = FALSE

Write(b) ==
  /\ outOpen
  /\ written' = Append(written, b)
  /\ UNCHANGED <<outOpen, readerVars>>

CloseOut ==
  /\ outOpen' = FALSE
  /\ UNCHANGED <<written, readerVars>>

-----------------------------------------------------------------------------
ReadChunk ==
  /\ ~ended /\ start = got
  /\ \E n \in 1..ChunkSize :
       /\ got + n <= Len(written)
       /\ got' = got + n
       /\ outgrown' = outgrown \cup OverAt(got + n)
  /\ UNCHANGED <<written, outOpen, start, buf, skipping, lines, begun, ended>>

Yield(text) ==
  lines' = IF skipping \/ IsBlank(text) THEN lines ELSE Append(lines, [at |-> begun, text |-> text])

\* Mutant of TakeLine: the end of a line that was given up does not end the skipping.
TakeLineStillSkipping ==
  \E n \in start + 1 .. got :
    /\ written[n] = NL /\ NoNewline(start, n - 1)
    /\ Yield(buf \o SubSeq(written, start + 1, n - 1))
    /\ buf' = <<>> /\ start' = n /\ begun' = n
    /\ UNCHANGED <<written, outOpen, got, skipping, outgrown, ended>>

\* Mutant of TakeLine: the limit is also looked at where a line ends.
TakeLineWithinLimit ==
  \E n \in start + 1 .. got :
    /\ written[n] = NL /\ NoNewline(start, n - 1)
    /\ LET text == buf \o SubSeq(written, start + 1, n - 1)
       IN Yield(IF Len(text) > Limit THEN <<>> ELSE text)
    /\ buf' = <<>> /\ skipping' = FALSE /\ start' = n /\ begun' = n
    /\ UNCHANGED <<written, outOpen, got, outgrown, ended>>

\* The next newline of the chunk ends the line, however long it has become.
TakeLine ==
  \E n \in start + 1 .. got :
    /\ written[n] = NL /\ NoNewline(start, n - 1)
    /\ Yield(buf \o SubSeq(written, start + 1, n - 1))
    /\ buf' = <<>> /\ skipping' = FALSE /\ start' = n /\ begun' = n
    /\ UNCHANGED <<written, outOpen, got, outgrown, ended>>

\* Mutant of TakeRest: the line is given up, but not what follows of it.
TakeRestForgetting ==
  /\ start < got /\ NoNewline(start, got)
  /\ LET text == buf \o SubSeq(written, start + 1, got)
         tooLong == Len(text) > Limit
     IN buf' = IF skipping \/ tooLong THEN <<>> ELSE text
  /\ start' = got
  /\ UNCHANGED <<written, outOpen, got, skipping, lines, begun, outgrown, ended>>

\* What is left of the chunk belongs to a line that goes on in the next one.
TakeRest ==
  /\ start < got /\ NoNewline(start, got)
  /\ LET text == buf \o SubSeq(written, start + 1, got)
         tooLong == Len(text) > Limit
     IN
     /\ buf' = IF skipping \/ tooLong THEN <<>> ELSE text
     /\ skipping' = (skipping \/ tooLong)
  /\ start' = got
  /\ UNCHANGED <<written, outOpen, got, lines, begun, outgrown, ended>>

\* Mutant of LinesEnd: the exit ends the stream, whatever is still in the pipe.
LinesEndAtExit ==
  /\ ~ended /\ ~outOpen
  /\ start = got
  /\ Yield(buf)
  /\ ended' = TRUE
  /\ UNCHANGED <<written, outOpen, got, start, buf, skipping, begun, outgrown>>

\* read() returns nothing: the last line need not end with a newline.
LinesEnd ==
  /\ ~ended /\ ~outOpen
  /\ start = got /\ got = Len(written)
  /\ Yield(buf)
  /\ ended' = TRUE
  /\ UNCHANGED <<written, outOpen, got, start, buf, skipping, begun, outgrown>>

Reader == ReadChunk \/ TakeLine \/ TakeRest \/ LinesEnd

LinesNext == (\E b \in Bytes : Write(b)) \/ CloseOut \/ Reader

LinesSpec == LinesInit /\ [][LinesNext]_linesVars
-----------------------------------------------------------------------------
LineEnd(n) == n \in 0..Len(written) /\ (IF n = Len(written) THEN ended ELSE written[n + 1] = NL)

\* The line of what was written from `from` to `to` is complete for the reader.
IsLine(from, to) ==
  /\ from <= to /\ LineStart(from) /\ LineEnd(to) /\ NoNewline(from, to)

\* However the output is cut into chunks, what is yielded are lines codex wrote, whole
\* and in their order.
LinesAreWhole ==
  /\ \A i \in DOMAIN lines :
       LET from == lines[i].at
           to == from + Len(lines[i].text)
       IN IsLine(from, to) /\ lines[i].text = SubSeq(written, from + 1, to)
  /\ \A i, j \in DOMAIN lines : i < j => lines[i].at < lines[j].at

\* A line is left out only if it is blank or over the limit: giving one up costs no
\* other line, in particular not the one after it.
NoLineLost ==
  \A from, to \in 0..Len(written) :
    /\ IsLine(from, to)
    /\ to < begun \/ ended
    /\ to - from <= Limit
    /\ ~IsBlank(SubSeq(written, from + 1, to))
    => \E i \in DOMAIN lines : lines[i].at = from

\* A line is given up exactly if it was over the limit where a chunk ended.  So the buffer
\* holds at most the limit from one chunk to the next, whatever codex writes; but not every
\* line over the limit is skipped, as the comment on _MAX_EVENT_LINE_BYTES and
\* docs/operations.md say: one that passes it in the chunk in which it ends is yielded.
GivenUpAtChunkEnds ==
  /\ Len(buf) <= Limit
  /\ \A from, to \in 0..Len(written) :
       /\ IsLine(from, to)
       /\ to < begun \/ ended
       /\ ~IsBlank(SubSeq(written, from + 1, to))
       => ((\E i \in DOMAIN lines : lines[i].at = from) <=> from \notin outgrown)
=============================================================================

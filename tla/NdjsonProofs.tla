---------------------------- MODULE NdjsonProofs ----------------------------
(***************************************************************************)
(* Theorems of _ndjson_lines, for every output, every limit and every way  *)
(* the output is cut into chunks.  The invariant says where the reader is  *)
(* (the current line begins at `begun` and has no newline up to `start`)   *)
(* and that `buf` is the beginning of that line, or nothing of it once it  *)
(* is given up; a second one, above it, says which lines are.  Among the   *)
(* pipes the reader always has a next step while there is output, so       *)
(* neither side waits for the other.                                       *)
(***************************************************************************)
EXTENDS CodexPipes, SequenceTheorems, WellFoundedInduction, TLAPS

Line == [at : Nat, text : Seq(Bytes)]

\* The variables keep their types.
LinesTypeOK ==
  /\ written \in Seq(Bytes) /\ outOpen \in BOOLEAN
  /\ got \in Nat /\ start \in Nat /\ begun \in Nat
  /\ buf \in Seq(Bytes) /\ skipping \in BOOLEAN
  /\ lines \in Seq(Line) /\ ended \in BOOLEAN

\* The reader is inside the line that begins at begun.
Position ==
  /\ begun <= start /\ start <= got /\ got <= Len(written)
  /\ LineStart(begun) /\ NoNewline(begun, start)
  /\ ended => ~outOpen /\ start = Len(written)

\* buf is what the reader has of that line.
Buffered ==
  /\ skipping => buf = <<>> /\ start - begun > Limit
  /\ ~skipping => buf = SubSeq(written, begun + 1, start)
  /\ Len(buf) <= Limit

\* The lines yielded are behind the reader.
Behind == \A i \in DOMAIN lines :
  LET to == lines[i].at + Len(lines[i].text) IN to < begun \/ (ended /\ lines[i].at = begun)

LinesInv ==
  LinesTypeOK /\ Position /\ Buffered /\ Behind /\ LinesAreWhole /\ NoLineLost

-----------------------------------------------------------------------------
(* Lemmas on sequences and lines *)

\* Appending to a sequence leaves what is before its end alone.
LEMMA SubSeqOfAppend ==
  ASSUME NEW S, NEW seq \in Seq(S), NEW e \in S, NEW m \in Nat, NEW n \in Nat, n <= Len(seq)
  PROVE  SubSeq(Append(seq, e), m + 1, n) = SubSeq(seq, m + 1, n)
<1> DEFINE a == SubSeq(Append(seq, e), m + 1, n)
           b == SubSeq(seq, m + 1, n)
<1>1. /\ Append(seq, e) \in Seq(S) /\ Len(Append(seq, e)) = Len(seq) + 1
      /\ \A i \in 1..Len(seq) : Append(seq, e)[i] = seq[i]
  BY AppendProperties
<1>2. /\ \A i \in m + 1 .. n : seq[i] \in S
      /\ \A i \in m + 1 .. n : Append(seq, e)[i] \in S
  BY <1>1, ElementOfSeq, LenProperties
<1>3. /\ a \in Seq(S) /\ Len(a) = IF m + 1 <= n THEN n - (m + 1) + 1 ELSE 0
      /\ \A i \in 1 .. n - (m + 1) + 1 : a[i] = Append(seq, e)[m + 1 + i - 1]
  BY <1>2, SubSeqProperties, m + 1 \in Int, n \in Int
<1>4. /\ b \in Seq(S) /\ Len(b) = IF m + 1 <= n THEN n - (m + 1) + 1 ELSE 0
      /\ \A i \in 1 .. n - (m + 1) + 1 : b[i] = seq[m + 1 + i - 1]
  BY <1>2, SubSeqProperties, m + 1 \in Int, n \in Int
<1>5. Len(a) = Len(b) /\ \A i \in 1..Len(a) : a[i] = b[i]
  BY <1>1, <1>3, <1>4
<1> QED
  BY <1>3, <1>4, <1>5, SeqEqual

\* What the reader has of the current line, and what it finds in the chunk, are one
\* piece of what was written.
LEMMA CurrentLine ==
  ASSUME LinesTypeOK, Position, Buffered, ~skipping,
         NEW to \in Nat, start <= to, to <= Len(written)
  PROVE  LET text == buf \o SubSeq(written, start + 1, to) IN
         /\ text = SubSeq(written, begun + 1, to)
         /\ text \in Seq(Bytes)
         /\ Len(text) = to - begun
<1>1. Len(written) \in Nat /\ \A i \in begun + 1 .. to : written[i] \in Bytes
  BY LenProperties, ElementOfSeq DEF LinesTypeOK, Position
<1>2. /\ begun + 1 \in 1 .. Len(written) + 1
      /\ start \in (begun + 1) - 1 .. Len(written)
      /\ to \in start .. Len(written)
  BY <1>1 DEF LinesTypeOK, Position
<1>3. SubSeq(written, begun + 1, start) \o SubSeq(written, start + 1, to)
        = SubSeq(written, begun + 1, to)
  BY <1>2, ConcatAdjacentSubSeq DEF LinesTypeOK
<1>4. /\ SubSeq(written, begun + 1, to) \in Seq(Bytes)
      /\ Len(SubSeq(written, begun + 1, to)) = to - begun
  BY <1>1, SubSeqProperties, begun + 1 \in Int, to \in Int DEF LinesTypeOK, Position
<1> QED
  BY <1>3, <1>4 DEF Buffered

\* A line that ends at the first newline after the reader, or at the end of the output,
\* is the current one.
LEMMA OnlyCurrentLine ==
  ASSUME LinesTypeOK, Position, NEW end \in Nat, start <= end, end <= Len(written),
         NoNewline(start, end),
         NEW from \in Nat, NEW to \in Nat, from <= to, to <= end, begun <= to,
         LineStart(from), to # end => written[to + 1] = NL, NoNewline(from, to)
  PROVE  from = begun /\ to = end
<1>1. \A i \in begun + 1 .. end : written[i] # NL
  BY DEF LinesTypeOK, Position, NoNewline
<1>2. to = end
  BY <1>1 DEF LinesTypeOK
<1>3. ~(from > begun)
  BY <1>1, <1>2 DEF LinesTypeOK, LineStart
<1>4. ~(from < begun)
  <2> SUFFICES ASSUME from < begun PROVE FALSE
    OBVIOUS
  <2>1. begun # 0 /\ written[begun] = NL
    BY DEF LinesTypeOK, Position, LineStart
  <2>2. begun \in from + 1 .. to
    BY DEF LinesTypeOK
  <2> QED
    BY <2>1, <2>2 DEF NoNewline
<1> QED
  BY <1>2, <1>3, <1>4 DEF LinesTypeOK

LEMMA LinesTyped ==
  ASSUME LinesTypeOK, NEW i \in DOMAIN lines
  PROVE  lines[i].at \in Nat /\ lines[i].text \in Seq(Bytes) /\ Len(lines[i].text) \in Nat
<1>1. lines[i] \in Line
  BY ElementOfSeq, LenProperties DEF LinesTypeOK
<1> QED
  BY <1>1, LenProperties DEF Line

-----------------------------------------------------------------------------
(* The steps *)

LEMMA LinesInitInv == LinesInit => LinesInv
<1> SUFFICES ASSUME LinesInit PROVE LinesInv
  OBVIOUS
<1>1. /\ <<>> \in Seq(Bytes) /\ <<>> \in Seq(Line)
      /\ Len(written) = 0 /\ Len(buf) = 0 /\ DOMAIN lines = {}
  BY EmptySeq DEF LinesInit
<1>2. LinesTypeOK
  BY <1>1 DEF LinesInit, LinesTypeOK
<1>3. Position
  BY <1>1 DEF LinesInit, Position, LineStart, NoNewline
<1>4. Buffered
  BY <1>1, LinesAssumption, SubSeqEmpty, 0 + 1 \in Int, 0 \in Int, 0 < 0 + 1
  DEF LinesInit, Buffered
<1>5. Behind /\ LinesAreWhole
  BY <1>1, LinesAssumption DEF LinesInit, Behind, LinesAreWhole
<1>6. NoLineLost
  BY <1>1 DEF LinesInit, NoLineLost
<1> QED
  BY <1>2, <1>3, <1>4, <1>5, <1>6 DEF LinesInv

LEMMA WriteKeepsInv ==
  ASSUME LinesInv, NEW b \in Bytes, Write(b)
  PROVE  LinesInv'
<1> USE DEF LinesInv
<1>1. /\ written' = Append(written, b) /\ outOpen
      /\ UNCHANGED <<outOpen, got, start, buf, skipping, lines, begun, ended>>
  BY DEF Write, readerVars
<1>2. /\ written' \in Seq(Bytes) /\ Len(written) \in Nat /\ Len(written') = Len(written) + 1
      /\ \A i \in 1..Len(written) : written'[i] = written[i]
  BY <1>1, AppendProperties, LenProperties DEF LinesTypeOK
<1>3. ~ended
  BY <1>1 DEF Position
<1>4. \A m, n \in Nat : n <= Len(written) =>
        SubSeq(written', m + 1, n) = SubSeq(written, m + 1, n)
  BY <1>1, SubSeqOfAppend DEF LinesTypeOK
<1>5. \A from, to \in Nat : to < Len(written) => (IsLine(from, to)' <=> IsLine(from, to))
  BY <1>1, <1>2, <1>3 DEF IsLine, LineStart, LineEnd, NoNewline
<1>6. LinesTypeOK'
  BY <1>1, <1>2 DEF LinesTypeOK
<1>7. Position'
  BY <1>1, <1>2, <1>3 DEF LinesTypeOK, Position, LineStart, NoNewline
<1>8. Buffered'
  BY <1>1, <1>2, <1>4 DEF LinesTypeOK, Position, Buffered
<1>9. Behind'
  BY <1>1 DEF Behind
<1>10. LinesAreWhole'
  <2>1. \A i \in DOMAIN lines :
          LET from == lines[i].at
              to == from + Len(lines[i].text)
          IN from \in Nat /\ to \in Nat /\ to < Len(written)
    BY <1>2, <1>3, LinesTyped DEF Behind, Position, LinesTypeOK
  <2> QED
    BY <2>1, <1>1, <1>4, <1>5 DEF LinesAreWhole
<1>11. NoLineLost'
  <2> SUFFICES ASSUME NEW from \in 0..Len(written'), NEW to \in 0..Len(written'),
                      IsLine(from, to)', to < begun, to - from <= Limit,
                      ~IsBlank(SubSeq(written', from + 1, to))
               PROVE  \E i \in DOMAIN lines : lines[i].at = from
    BY <1>1, <1>3 DEF NoLineLost
  <2>1. to < Len(written) /\ from <= to
    BY <1>2 DEF Position, LinesTypeOK, IsLine
  <2>2. IsLine(from, to) /\ SubSeq(written', from + 1, to) = SubSeq(written, from + 1, to)
    BY <2>1, <1>2, <1>4, <1>5
  <2>3. from \in 0..Len(written) /\ to \in 0..Len(written)
    BY <2>1, <1>2
  <2> QED
    BY <2>1, <2>2, <2>3 DEF NoLineLost
<1> QED
  BY <1>6, <1>7, <1>8, <1>9, <1>10, <1>11

LEMMA CloseOutKeepsInv ==
  ASSUME LinesInv, CloseOut
  PROVE  LinesInv'
<1> USE DEF LinesInv
<1>1. outOpen' = FALSE /\ UNCHANGED <<written, got, start, buf, skipping, lines, begun, ended>>
  BY DEF CloseOut, readerVars
<1>2. LinesTypeOK' /\ Position' /\ Buffered' /\ Behind'
  BY <1>1 DEF LinesTypeOK, Position, Buffered, Behind, LineStart, NoNewline
<1>3. LinesAreWhole' /\ NoLineLost'
  BY <1>1 DEF LinesAreWhole, NoLineLost, IsLine, LineStart, LineEnd, NoNewline
<1> QED
  BY <1>2, <1>3

LEMMA ReadChunkKeepsInv ==
  ASSUME LinesInv, ReadChunk
  PROVE  LinesInv'
<1> USE DEF LinesInv
<1>1. PICK n \in 1..ChunkSize : got + n <= Len(written) /\ got' = got + n
  BY DEF ReadChunk
<1>2. ~ended /\ start = got /\ UNCHANGED <<written, outOpen, start, buf, skipping, lines, begun, ended>>
  BY DEF ReadChunk
<1>3. LinesTypeOK' /\ Position'
  BY <1>1, <1>2, LinesAssumption DEF LinesTypeOK, Position, LineStart, NoNewline
<1>4. Buffered' /\ Behind'
  BY <1>2 DEF Buffered, Behind
<1>5. LinesAreWhole' /\ NoLineLost'
  BY <1>2 DEF LinesAreWhole, NoLineLost, IsLine, LineStart, LineEnd, NoNewline
<1> QED
  BY <1>3, <1>4, <1>5

LEMMA TakeRestKeepsInv ==
  ASSUME LinesInv, TakeRest
  PROVE  LinesInv'
<1> USE DEF LinesInv
<1> DEFINE text == buf \o SubSeq(written, start + 1, got)
           tooLong == Len(text) > Limit
<1>1. /\ start < got /\ NoNewline(start, got) /\ start' = got
      /\ buf' = IF skipping \/ tooLong THEN <<>> ELSE text
      /\ skipping' = (skipping \/ tooLong)
      /\ UNCHANGED <<written, outOpen, got, lines, begun, ended>>
  BY DEF TakeRest
<1>2. Len(written) \in Nat /\ got <= Len(written)
  BY LenProperties DEF LinesTypeOK, Position
<1>3. ~skipping => /\ text = SubSeq(written, begun + 1, got) /\ text \in Seq(Bytes)
                   /\ Len(text) = got - begun
  BY <1>1, <1>2, CurrentLine DEF LinesTypeOK
<1>4. <<>> \in Seq(Bytes) /\ Len(<<>>) = 0
  BY EmptySeq
<1>5. LinesTypeOK'
  <2>1. buf' \in Seq(Bytes)
    BY <1>1, <1>3, <1>4
  <2>2. skipping' \in BOOLEAN
    BY <1>1
  <2> QED
    BY <1>1, <2>1, <2>2 DEF LinesTypeOK
<1>6. Position'
  BY <1>1, <1>2, LinesAssumption DEF LinesTypeOK, Position, LineStart, NoNewline
<1>7. Buffered'
  <2>1. CASE skipping
    <3>1. buf' = <<>> /\ skipping' = TRUE /\ begun' = begun
      BY <2>1, <1>1
    <3>2. start' - begun > Limit
      BY <2>1, <1>1, LinesAssumption DEF LinesTypeOK, Buffered
    <3> QED
      BY <3>1, <3>2, <1>4, LinesAssumption DEF Buffered
  <2>2. CASE ~skipping /\ tooLong
    <3>1. buf' = <<>> /\ skipping' = TRUE /\ begun' = begun
      BY <2>2, <1>1
    <3>2. start' - begun > Limit
      BY <2>2, <1>1, <1>3
    <3> QED
      BY <3>1, <3>2, <1>4, LinesAssumption DEF Buffered
  <2>3. CASE ~skipping /\ ~tooLong
    <3>1. buf' = text /\ skipping' = FALSE /\ begun' = begun
      BY <2>3, <1>1
    <3>2. Len(text) <= Limit
      BY <2>3, <1>3, LinesAssumption DEF LinesTypeOK
    <3> QED
      BY <2>3, <3>1, <3>2, <1>1, <1>3 DEF Buffered
  <2> QED
    BY <2>1, <2>2, <2>3
<1>8. Behind' /\ LinesAreWhole' /\ NoLineLost'
  BY <1>1 DEF Behind, LinesAreWhole, NoLineLost, IsLine, LineStart, LineEnd, NoNewline
<1> QED
  BY <1>5, <1>6, <1>7, <1>8

\* The current line ends at `end`, and what comes after it is begun, or nothing does.
LEMMA LineYielded ==
  ASSUME LinesInv, ~ended, NEW end \in Nat, start <= end, end <= got, NoNewline(start, end),
         Yield(buf \o SubSeq(written, start + 1, end)), written' = written,
         ended' => end = Len(written) /\ begun' = begun,
         ~ended' => end < Len(written) /\ written[end + 1] = NL /\ begun' = end + 1,
         ended' \in BOOLEAN
  PROVE  /\ lines' \in Seq(Line)
         /\ Behind' /\ LinesAreWhole' /\ NoLineLost'
<1> USE DEF LinesInv
<1> DEFINE text == buf \o SubSeq(written, start + 1, end)
           new == [at |-> begun, text |-> text]
           \* IsLine in the state that follows.
           NowLine(from, to) ==
             /\ from <= to /\ LineStart(from) /\ NoNewline(from, to) /\ to \in 0..Len(written)
             /\ IF to = Len(written) THEN ended' ELSE written[to + 1] = NL
<1>1. Len(written) \in Nat /\ end <= Len(written) /\ begun <= end /\ begun \in Nat
  BY LenProperties DEF LinesTypeOK, Position
<1>2. ~skipping => /\ text = SubSeq(written, begun + 1, end) /\ text \in Seq(Bytes)
                   /\ Len(text) = end - begun
  BY <1>1, CurrentLine
<1>3. \A i \in DOMAIN lines :
        /\ lines[i].at \in Nat /\ Len(lines[i].text) \in Nat
        /\ lines[i].at + Len(lines[i].text) < begun
  BY LinesTyped DEF Behind
<1>4. begun <= begun'
  BY <1>1
<1>5. \A from, to \in Nat : to < begun /\ IsLine(from, to) => NowLine(from, to)
  BY <1>1 DEF IsLine, LineEnd
<1>6. NowLine(begun, end)
  BY <1>1 DEF NoNewline, Position, LinesTypeOK
<1>7. \A from \in 0..Len(written), to \in 0..Len(written) :
        NowLine(from, to) /\ to < begun /\ to - from <= Limit
             /\ ~IsBlank(SubSeq(written, from + 1, to))
          => \E i \in DOMAIN lines : lines[i].at = from
  <2> SUFFICES ASSUME NEW from \in 0..Len(written), NEW to \in 0..Len(written),
                      NowLine(from, to), to < begun, to - from <= Limit,
                      ~IsBlank(SubSeq(written, from + 1, to))
               PROVE  \E i \in DOMAIN lines : lines[i].at = from
    OBVIOUS
  <2>1. IsLine(from, to)
    BY <1>1 DEF IsLine, LineEnd
  <2> QED
    BY <2>1 DEF NoLineLost
<1>8. \A from, to \in Nat : NowLine(from, to) /\ begun <= to /\ (to < begun' \/ ended')
        => from = begun /\ to = end
  <2> SUFFICES ASSUME NEW from \in Nat, NEW to \in Nat, NowLine(from, to), begun <= to,
                      to < begun' \/ ended'
               PROVE  from = begun /\ to = end
    OBVIOUS
  <2>1. to <= end
    BY <1>1
  <2>2. to # end => written[to + 1] = NL
    BY <1>1, <2>1
  <2> QED
    BY <1>1, <2>1, <2>2, OnlyCurrentLine
<1> HIDE DEF NowLine
\* Whatever lines' is, these are what is left to prove of it.
<1>9. ASSUME lines' \in Seq(Line),
             \A i \in DOMAIN lines' :
               /\ NowLine(lines'[i].at, lines'[i].at + Len(lines'[i].text))
               /\ lines'[i].text
                    = SubSeq(written, lines'[i].at + 1, lines'[i].at + Len(lines'[i].text))
               /\ lines'[i].at + Len(lines'[i].text) < begun' \/ (ended' /\ lines'[i].at = begun'),
             \A i, j \in DOMAIN lines' : i < j => lines'[i].at < lines'[j].at,
             \A i \in DOMAIN lines : \E j \in DOMAIN lines' : lines'[j].at = lines[i].at,
             \/ end - begun > Limit \/ IsBlank(SubSeq(written, begun + 1, end))
             \/ \E i \in DOMAIN lines' : lines'[i].at = begun
      PROVE  /\ lines' \in Seq(Line)
             /\ Behind' /\ LinesAreWhole' /\ NoLineLost'
  <2>1. Behind'
    BY <1>9 DEF Behind
  <2>2. LinesAreWhole'
    BY <1>9 DEF NowLine, LinesAreWhole, IsLine, LineStart, LineEnd, NoNewline
  <2>3. NoLineLost'
    <3>1. \A from \in 0..Len(written), to \in 0..Len(written) :
            NowLine(from, to) /\ (to < begun' \/ ended') /\ to - from <= Limit
              /\ ~IsBlank(SubSeq(written, from + 1, to))
            => \E i \in DOMAIN lines' : lines'[i].at = from
      <4> SUFFICES ASSUME NEW from \in 0..Len(written), NEW to \in 0..Len(written),
                          NowLine(from, to), to < begun' \/ ended', to - from <= Limit,
                          ~IsBlank(SubSeq(written, from + 1, to))
                   PROVE  \E i \in DOMAIN lines' : lines'[i].at = from
        OBVIOUS
      <4>1. CASE to < begun
        BY <4>1, <1>7, <1>9
      <4>2. CASE begun <= to
        <5>1. from = begun /\ to = end
          BY <4>2, <1>1, <1>8
        <5>2. ~(end - begun > Limit) /\ ~IsBlank(SubSeq(written, begun + 1, end))
          BY <5>1, <1>1, LinesAssumption
        <5> QED
          BY <5>1, <5>2, <1>9
      <4> QED
        BY <4>1, <4>2, <1>1
    <3> QED
      BY <3>1 DEF NowLine, NoLineLost, IsLine, LineStart, LineEnd, NoNewline
  <2> QED
    BY <1>9, <2>1, <2>2, <2>3
<1>10. \A i \in DOMAIN lines :
        /\ NowLine(lines[i].at, lines[i].at + Len(lines[i].text))
        /\ lines[i].text = SubSeq(written, lines[i].at + 1, lines[i].at + Len(lines[i].text))
        /\ lines[i].at + Len(lines[i].text) < begun'
  BY <1>1, <1>3, <1>4, <1>5 DEF LinesAreWhole
<1>11. \A i, j \in DOMAIN lines : i < j => lines[i].at < lines[j].at
  BY DEF LinesAreWhole
<1>12. CASE skipping \/ IsBlank(text)
  <2>1. lines' = lines
    BY <1>12 DEF Yield
  <2>2. end - begun > Limit \/ IsBlank(SubSeq(written, begun + 1, end))
    <3>1. skipping => end - begun > Limit
      BY <1>1, LinesAssumption DEF Buffered, LinesTypeOK
    <3>2. ~skipping => IsBlank(SubSeq(written, begun + 1, end))
      BY <1>12, <1>2
    <3> QED
      BY <3>1, <3>2
  <2> QED
    BY <2>1, <2>2, <1>9, <1>11, <1>10 DEF LinesTypeOK
<1>13. CASE ~skipping /\ ~IsBlank(text)
  <2>1. lines' = Append(lines, new)
    BY <1>13 DEF Yield
  <2>2. new \in Line /\ new.at = begun /\ new.text = text
    BY <1>13, <1>1, <1>2 DEF Line
  <2>3. /\ lines' \in Seq(Line) /\ Len(lines) \in Nat /\ Len(lines') = Len(lines) + 1
        /\ DOMAIN lines = 1..Len(lines) /\ DOMAIN lines' = 1 .. Len(lines) + 1
        /\ \A i \in DOMAIN lines : lines'[i] = lines[i]
        /\ lines'[Len(lines) + 1] = new
    BY <2>1, <2>2, AppendProperties, LenProperties DEF LinesTypeOK
  <2>4. /\ begun + Len(text) = end
        /\ text = SubSeq(written, begun + 1, begun + Len(text))
    <3>1. Len(text) = end - begun /\ text = SubSeq(written, begun + 1, end)
      BY <1>13, <1>2
    <3> HIDE DEF text
    <3>2. begun + Len(text) = end
      BY <3>1, <1>1
    <3> QED
      BY <3>1, <3>2
  <2>5. /\ NowLine(new.at, new.at + Len(new.text))
        /\ new.text = SubSeq(written, new.at + 1, new.at + Len(new.text))
        /\ new.at + Len(new.text) < begun' \/ (ended' /\ new.at = begun')
    <3> HIDE DEF new, text
    <3> QED
      BY <2>2, <2>4, <1>1, <1>6
  <2> HIDE DEF new
  <2>6. \A i \in DOMAIN lines' : i \in DOMAIN lines \/ lines'[i] = new
    BY <2>3
  <2>7. \A i, j \in DOMAIN lines' : i < j => lines'[i].at < lines'[j].at
    <3> SUFFICES ASSUME NEW i \in DOMAIN lines', NEW j \in DOMAIN lines', i < j
                 PROVE  lines'[i].at < lines'[j].at
      OBVIOUS
    <3>1. i \in DOMAIN lines
      BY <2>3
    <3>2. CASE j \in DOMAIN lines
      <4>1. lines'[i] = lines[i] /\ lines'[j] = lines[j]
        BY <2>3, <3>1, <3>2
      <4>2. lines[i].at < lines[j].at
        BY <3>1, <3>2, <1>11
      <4> QED
        BY <4>1, <4>2
    <3>3. CASE j = Len(lines) + 1
      <4>1. lines'[i] = lines[i] /\ lines'[j].at = begun
        BY <2>2, <2>3, <3>1, <3>3
      <4>2. lines[i].at < begun
        BY <3>1, <1>1, <1>3
      <4> QED
        BY <4>1, <4>2
    <3> QED
      BY <2>3, <3>2, <3>3
  <2>8. /\ \A i \in DOMAIN lines : \E j \in DOMAIN lines' : lines'[j].at = lines[i].at
        /\ \E i \in DOMAIN lines' : lines'[i].at = begun
    BY <2>2, <2>3
  <2>9. \A i \in DOMAIN lines' :
          /\ NowLine(lines'[i].at, lines'[i].at + Len(lines'[i].text))
          /\ lines'[i].text
               = SubSeq(written, lines'[i].at + 1, lines'[i].at + Len(lines'[i].text))
          /\ lines'[i].at + Len(lines'[i].text) < begun' \/ (ended' /\ lines'[i].at = begun')
    <3> HIDE DEF NowLine
    <3> QED
      BY <2>3, <2>5, <2>6, <1>10
  <2> QED
    BY <2>3, <2>7, <2>8, <2>9, <1>9
<1> QED
  BY <1>12, <1>13

LEMMA TakeLineKeepsInv ==
  ASSUME LinesInv, TakeLine
  PROVE  LinesInv'
<1> USE DEF LinesInv
<1>1. PICK n \in start + 1 .. got :
        /\ written[n] = NL /\ NoNewline(start, n - 1)
        /\ Yield(buf \o SubSeq(written, start + 1, n - 1))
        /\ buf' = <<>> /\ skipping' = FALSE /\ start' = n /\ begun' = n
        /\ UNCHANGED <<written, outOpen, got, ended>>
  BY DEF TakeLine
<1>2. /\ n \in Nat /\ n - 1 \in Nat /\ start <= n - 1 /\ n <= got /\ got <= Len(written)
      /\ Len(written) \in Nat
  BY LenProperties DEF LinesTypeOK, Position
<1>3. ~ended
  BY <1>2 DEF Position, LinesTypeOK
<1>4. /\ lines' \in Seq(Line)
      /\ Behind' /\ LinesAreWhole' /\ NoLineLost'
  <2>1. /\ written[(n - 1) + 1] = NL /\ begun' = (n - 1) + 1 /\ n - 1 < Len(written)
        /\ ended' = ended /\ n - 1 <= got /\ ended' \in BOOLEAN
    BY <1>1, <1>2 DEF LinesTypeOK
  <2> QED
    BY <1>1, <1>2, <1>3, <2>1, LineYielded
<1>5. <<>> \in Seq(Bytes) /\ Len(<<>>) = 0
  BY EmptySeq
<1>6. LinesTypeOK'
  BY <1>1, <1>2, <1>4, <1>5 DEF LinesTypeOK
<1>7. Position'
  BY <1>1, <1>2, <1>3, LinesAssumption
  DEF LinesTypeOK, Position, LineStart, NoNewline
<1>8. Buffered'
  <2>1. SubSeq(written, n + 1, n) = <<>>
    BY <1>2, SubSeqEmpty, n + 1 \in Int, n \in Int, n < n + 1
  <2> QED
    BY <2>1, <1>1, <1>5, LinesAssumption DEF Buffered
<1> QED
  BY <1>4, <1>6, <1>7, <1>8

LEMMA LinesEndKeepsInv ==
  ASSUME LinesInv, LinesEnd
  PROVE  LinesInv'
<1> USE DEF LinesInv
<1>1. /\ ~ended /\ ~outOpen /\ start = got /\ got = Len(written) /\ Yield(buf) /\ ended' = TRUE
      /\ UNCHANGED <<written, outOpen, got, start, buf, skipping, begun>>
  BY DEF LinesEnd
<1>2. buf = buf \o SubSeq(written, start + 1, got)
  <2>1. SubSeq(written, start + 1, got) = <<>>
    BY <1>1, SubSeqEmpty, start + 1 \in Int, got \in Int, got < start + 1 DEF LinesTypeOK
  <2> QED
    BY <2>1, ConcatEmptySeq DEF LinesTypeOK
<1>3. NoNewline(start, got)
  BY <1>1 DEF NoNewline, LinesTypeOK
<1>4. /\ lines' \in Seq(Line)
      /\ Behind' /\ LinesAreWhole' /\ NoLineLost'
  <2>1. got \in Nat /\ start <= got /\ got <= got /\ begun' = begun /\ ended' \in BOOLEAN
    BY <1>1 DEF LinesTypeOK
  <2>2. Yield(buf \o SubSeq(written, start + 1, got))
    BY <1>1, <1>2 DEF Yield
  <2> QED
    BY <1>1, <1>3, <2>1, <2>2, LineYielded
<1>5. LinesTypeOK' /\ Position' /\ Buffered'
  BY <1>1, <1>4 DEF LinesTypeOK, Position, Buffered, LineStart, NoNewline
<1> QED
  BY <1>4, <1>5

LEMMA LinesStepInv == LinesInv /\ [LinesNext]_linesVars => LinesInv'
<1> SUFFICES ASSUME LinesInv, [LinesNext]_linesVars PROVE LinesInv'
  OBVIOUS
<1>1. CASE \E b \in Bytes : Write(b)
  BY <1>1, WriteKeepsInv
<1>2. CASE CloseOut
  BY <1>2, CloseOutKeepsInv
<1>3. CASE ReadChunk
  BY <1>3, ReadChunkKeepsInv
<1>4. CASE TakeLine
  BY <1>4, TakeLineKeepsInv
<1>5. CASE TakeRest
  BY <1>5, TakeRestKeepsInv
<1>6. CASE LinesEnd
  BY <1>6, LinesEndKeepsInv
<1>7. CASE UNCHANGED linesVars
  BY <1>7 DEF linesVars, readerVars, LinesInv, LinesTypeOK, Position, Buffered, Behind,
    LinesAreWhole, NoLineLost, IsLine, LineStart, LineEnd,
    NoNewline
<1> QED
  BY <1>1, <1>2, <1>3, <1>4, <1>5, <1>6, <1>7 DEF LinesNext, Reader

LEMMA LinesInvariant == LinesSpec => []LinesInv
<1> QED
  BY LinesInitInv, LinesStepInv, PTL DEF LinesSpec

-----------------------------------------------------------------------------
(* What is given up *)

\* Of the line the reader is in, and of those that begin in the rest of the chunk, outgrown
\* tells which are over the limit: nothing else has been read.
OutgrownNow ==
  /\ outgrown \subseteq 0..got
  /\ begun \in outgrown <=> skipping \/ (NoNewline(begun, got) /\ got - begun > Limit)
  /\ \A n \in start + 1 .. got :
       LineStart(n) => (n \in outgrown <=> NoNewline(n, got) /\ got - n > Limit)

\* Of the lines behind the reader, those were left out that it tells.
Accounted ==
  \A from, to \in 0..Len(written) :
    /\ IsLine(from, to)
    /\ to < begun \/ ended
    /\ ~IsBlank(SubSeq(written, from + 1, to))
    => ((\E i \in DOMAIN lines : lines[i].at = from) <=> from \notin outgrown)

LEMMA LinesInitAccounted == LinesInit => OutgrownNow /\ Accounted
<1> SUFFICES ASSUME LinesInit PROVE OutgrownNow /\ Accounted
  OBVIOUS
<1>1. OutgrownNow
  BY LinesAssumption DEF LinesInit, OutgrownNow
<1>2. Accounted
  BY DEF LinesInit, Accounted, IsLine
<1> QED
  BY <1>1, <1>2

LEMMA WriteAccounted ==
  ASSUME LinesInv, OutgrownNow, Accounted, NEW b \in Bytes, Write(b)
  PROVE  OutgrownNow' /\ Accounted'
<1> USE DEF LinesInv
<1>1. /\ written' = Append(written, b) /\ outOpen
      /\ UNCHANGED <<got, start, skipping, lines, begun, outgrown, ended>>
  BY DEF Write, readerVars
<1>2. /\ Len(written) \in Nat /\ Len(written') = Len(written) + 1
      /\ \A i \in 1..Len(written) : written'[i] = written[i]
  BY <1>1, AppendProperties, LenProperties DEF LinesTypeOK
<1>3. ~ended /\ begun <= Len(written) /\ got <= Len(written)
  BY <1>1, <1>2 DEF Position, LinesTypeOK
<1>4. \A n \in 0..got : /\ NoNewline(n, got)' <=> NoNewline(n, got)
                        /\ LineStart(n)' <=> LineStart(n)
  BY <1>1, <1>2, <1>3 DEF NoNewline, LineStart, LinesTypeOK
<1>5. OutgrownNow'
  BY <1>1, <1>4 DEF OutgrownNow, Position, LinesTypeOK
<1>6. Accounted'
  <2> SUFFICES ASSUME NEW from \in 0..Len(written'), NEW to \in 0..Len(written'),
                      IsLine(from, to)', to < begun,
                      ~IsBlank(SubSeq(written', from + 1, to))
               PROVE  (\E i \in DOMAIN lines : lines[i].at = from) <=> from \notin outgrown
    BY <1>1, <1>3 DEF Accounted
  <2>1. to < Len(written) /\ from <= to
    BY <1>2, <1>3 DEF LinesTypeOK, IsLine
  <2>2. IsLine(from, to)
    BY <2>1, <1>1, <1>2, <1>3 DEF IsLine, LineStart, LineEnd, NoNewline
  <2>3. SubSeq(written', from + 1, to) = SubSeq(written, from + 1, to)
    BY <2>1, <1>1, SubSeqOfAppend DEF LinesTypeOK
  <2>4. from \in 0..Len(written) /\ to \in 0..Len(written)
    BY <2>1, <1>2
  <2> QED
    BY <2>2, <2>3, <2>4 DEF Accounted
<1> QED
  BY <1>5, <1>6

LEMMA ReadChunkAccounted ==
  ASSUME LinesInv, OutgrownNow, Accounted, ReadChunk
  PROVE  OutgrownNow' /\ Accounted'
<1> USE DEF LinesInv
<1>1. PICK k \in 1..ChunkSize :
        /\ got + k <= Len(written) /\ got' = got + k
        /\ outgrown' = outgrown \cup OverAt(got + k)
  BY DEF ReadChunk
<1>2. /\ ~ended /\ start = got
      /\ UNCHANGED <<written, start, buf, skipping, lines, begun, ended>>
  BY DEF ReadChunk
<1>3. got \in Nat /\ got' \in Nat /\ got < got' /\ got' <= Len(written) /\ Len(written) \in Nat
  BY <1>1, LinesAssumption, LenProperties DEF LinesTypeOK
<1>4. begun \in outgrown <=> skipping
  <2>1. ~skipping => got - begun <= Limit
    <3>1. ~skipping => /\ buf \o SubSeq(written, start + 1, start) = SubSeq(written, begun + 1, start)
                       /\ Len(SubSeq(written, begun + 1, start)) = start - begun
      BY <1>2, <1>3, CurrentLine DEF Position
    <3> QED
      BY <3>1, <1>2 DEF Buffered
  <2> QED
    BY <2>1, <1>2, LinesAssumption DEF OutgrownNow, LinesTypeOK, Position
<1>5. \A n \in 0..got' : n \in OverAt(got')
        <=> LineStart(n) /\ NoNewline(n, got') /\ got' - n > Limit
  BY DEF OverAt
<1>6. OutgrownNow'
  <2>1. outgrown' \subseteq 0..got'
    <3>1. OverAt(got') \subseteq 0..got'
      BY DEF OverAt
    <3>2. outgrown' = outgrown \cup OverAt(got')
      BY <1>1
    <3>3. \A n \in outgrown : n \in 0..got'
      BY <1>3 DEF OutgrownNow
    <3> QED
      BY <3>1, <3>2, <3>3
  <2>2. begun \in outgrown' <=> skipping \/ (NoNewline(begun, got') /\ got' - begun > Limit)
    <3>1. LineStart(begun) /\ begun \in 0..got'
      BY <1>3 DEF Position, LinesTypeOK
    <3> QED
      BY <3>1, <1>1, <1>4, <1>5
  <2>3. ASSUME NEW n \in start + 1 .. got', LineStart(n)
        PROVE  n \in outgrown' <=> NoNewline(n, got') /\ got' - n > Limit
    <3>1. n \in 0..got' /\ n \notin outgrown
      BY <1>2, <1>3 DEF OutgrownNow
    <3> QED
      BY <2>3, <3>1, <1>1, <1>5
  <2>4. /\ NoNewline(begun, got') <=> NoNewline(begun, got)'
        /\ \A n : LineStart(n)' <=> LineStart(n)
        /\ \A n : NoNewline(n, got)' <=> NoNewline(n, got')
    BY <1>2 DEF NoNewline, LineStart
  <2> QED
    BY <2>1, <2>2, <2>3, <2>4, <1>2 DEF OutgrownNow
<1>7. Accounted'
  <2> SUFFICES ASSUME NEW from \in 0..Len(written), NEW to \in 0..Len(written),
                      IsLine(from, to), to < begun,
                      ~IsBlank(SubSeq(written, from + 1, to))
               PROVE  (\E i \in DOMAIN lines : lines[i].at = from) <=> from \notin outgrown'
    BY <1>2 DEF Accounted, IsLine, LineStart, LineEnd, NoNewline
  <2>1. from \notin OverAt(got')
    <3>1. written[to + 1] = NL /\ to + 1 \in from + 1 .. got'
      BY <1>2, <1>3 DEF IsLine, LineEnd, Position, LinesTypeOK
    <3> QED
      BY <3>1 DEF OverAt, NoNewline
  <2> QED
    BY <2>1, <1>1 DEF Accounted
<1> QED
  BY <1>6, <1>7

LEMMA TakeRestAccounted ==
  ASSUME LinesInv, OutgrownNow, Accounted, TakeRest
  PROVE  OutgrownNow' /\ Accounted'
<1> USE DEF LinesInv
<1> DEFINE text == buf \o SubSeq(written, start + 1, got)
           tooLong == Len(text) > Limit
<1>1. /\ start < got /\ NoNewline(start, got) /\ start' = got
      /\ skipping' = (skipping \/ tooLong)
      /\ UNCHANGED <<written, got, lines, begun, outgrown, ended>>
  BY DEF TakeRest
<1>2. got \in Nat /\ got <= Len(written)
  BY DEF LinesTypeOK, Position
<1>3. ~skipping => Len(text) = got - begun
  BY <1>1, <1>2, CurrentLine DEF LinesTypeOK
<1>4. NoNewline(begun, got)
  BY <1>1 DEF NoNewline, Position, LinesTypeOK
<1>5. begun \in outgrown <=> skipping \/ tooLong \/ got - begun > Limit
  BY <1>3, <1>4 DEF OutgrownNow
<1> HIDE DEF tooLong
<1>6. OutgrownNow'
  <2>1. outgrown' \subseteq 0..got'
    BY <1>1 DEF OutgrownNow
  <2>2. NoNewline(begun, got)'
    BY <1>1, <1>4 DEF NoNewline
  <2>3. (begun \in outgrown)' <=> skipping' \/ (got - begun > Limit)'
    BY <1>1, <1>5
  <2>4. \A n \in start' + 1 .. got' : FALSE
    BY <1>1, <1>2
  <2> QED
    BY <2>1, <2>2, <2>3, <2>4 DEF OutgrownNow
<1>7. Accounted'
  BY <1>1 DEF Accounted, IsLine, LineStart, LineEnd, NoNewline
<1> QED
  BY <1>6, <1>7

\* The current line ends at `end`; it is left out if it was given up, and only then.
LEMMA LineAccounted ==
  ASSUME LinesInv, Accounted, begun \in outgrown <=> skipping,
         ~ended, NEW end \in Nat, start <= end, end <= got, NoNewline(start, end),
         Yield(buf \o SubSeq(written, start + 1, end)), written' = written, outgrown' = outgrown,
         ended' => end = Len(written) /\ begun' = begun,
         ~ended' => end < Len(written) /\ written[end + 1] = NL /\ begun' = end + 1
  PROVE  Accounted'
<1> USE DEF LinesInv
<1> DEFINE text == buf \o SubSeq(written, start + 1, end)
           new == [at |-> begun, text |-> text]
<1>1. Len(written) \in Nat /\ end <= Len(written) /\ begun <= end /\ begun \in Nat
  BY LenProperties DEF LinesTypeOK, Position
<1>2. ~skipping => text = SubSeq(written, begun + 1, end)
  BY <1>1, CurrentLine
<1>3. \A i \in DOMAIN lines : lines[i].at < begun
  <2>1. \A i \in DOMAIN lines :
          /\ lines[i].at \in Nat /\ Len(lines[i].text) \in Nat
          /\ lines[i].at + Len(lines[i].text) < begun
    BY LinesTyped DEF Behind
  <2> QED
    BY <2>1, <1>1
<1> HIDE DEF text
<1>4. \A from : (\E i \in DOMAIN lines' : lines'[i].at = from)
        <=> (\E i \in DOMAIN lines : lines[i].at = from) \/ (from = begun /\ ~skipping /\ ~IsBlank(text))
  <2>1. CASE skipping \/ IsBlank(text)
    <3>1. lines' = lines
      BY <2>1 DEF Yield, text
    <3> QED
      BY <2>1, <3>1
  <2>2. CASE ~skipping /\ ~IsBlank(text)
    <3>1. lines' = Append(lines, new) /\ new.at = begun
      BY <2>2 DEF Yield, text
    <3> HIDE DEF new
    <3>2. new \in Line
      <4>1. text \in Seq(Bytes)
        BY <2>2, <1>1, CurrentLine DEF text
      <4> QED
        BY <4>1, <1>1 DEF new, Line
    <3>3. /\ DOMAIN lines = 1..Len(lines) /\ Len(lines) \in Nat
          /\ DOMAIN lines' = 1 .. Len(lines) + 1
          /\ \A i \in DOMAIN lines : lines'[i] = lines[i]
          /\ lines'[Len(lines) + 1] = new
      BY <3>1, <3>2, AppendProperties, LenProperties DEF LinesTypeOK
    <3>4. /\ Len(lines) + 1 \in DOMAIN lines'
          /\ \A i \in DOMAIN lines : i \in DOMAIN lines'
          /\ \A i \in DOMAIN lines' : i \in DOMAIN lines \/ i = Len(lines) + 1
      BY <3>3
    <3> QED
      BY <2>2, <3>1, <3>3, <3>4
  <2> QED
    BY <2>1, <2>2
<1>5. SUFFICES ASSUME NEW from \in 0..Len(written), NEW to \in 0..Len(written),
                      IsLine(from, to)', to < begun' \/ ended',
                      ~IsBlank(SubSeq(written, from + 1, to))
               PROVE  (\E i \in DOMAIN lines' : lines'[i].at = from) <=> from \notin outgrown
  BY DEF Accounted
<1>6. /\ from <= to /\ LineStart(from) /\ NoNewline(from, to)
      /\ IF to = Len(written) THEN ended' ELSE written[to + 1] = NL
  BY <1>5 DEF IsLine, LineStart, LineEnd, NoNewline
<1>7. CASE to < begun
  <2>1. IsLine(from, to)
    BY <1>1, <1>6, <1>7 DEF IsLine, LineEnd
  <2>2. from # begun
    BY <1>1, <1>6, <1>7
  <2> QED
    BY <1>4, <1>5, <1>7, <2>1, <2>2 DEF Accounted
<1>8. CASE begun <= to
  <2>1. to <= end
    BY <1>1, <1>5
  <2>2. to # end => written[to + 1] = NL
    BY <1>1, <1>6, <2>1
  <2>3. from = begun /\ to = end
    BY <1>1, <1>6, <1>8, <2>1, <2>2, OnlyCurrentLine
  <2>4. ~(\E i \in DOMAIN lines : lines[i].at = begun)
    <3> SUFFICES ASSUME NEW i \in DOMAIN lines, lines[i].at = begun PROVE FALSE
      OBVIOUS
    <3>1. begun < begun
      BY <1>3
    <3> QED
      BY <3>1, <1>1
  <2> QED
    BY <1>2, <1>4, <1>5, <2>3, <2>4
<1> QED
  BY <1>1, <1>7, <1>8

LEMMA TakeLineAccounted ==
  ASSUME LinesInv, OutgrownNow, Accounted, TakeLine
  PROVE  OutgrownNow' /\ Accounted'
<1> USE DEF LinesInv
<1>1. PICK n \in start + 1 .. got :
        /\ written[n] = NL /\ NoNewline(start, n - 1)
        /\ Yield(buf \o SubSeq(written, start + 1, n - 1))
        /\ skipping' = FALSE /\ start' = n /\ begun' = n
        /\ UNCHANGED <<written, outOpen, got, outgrown, ended>>
  BY DEF TakeLine
<1>2. /\ n \in Nat /\ n - 1 \in Nat /\ start <= n - 1 /\ n <= got /\ got <= Len(written)
      /\ Len(written) \in Nat /\ got \in Nat /\ start \in Nat
      /\ begun <= start /\ begun \in Nat
  BY LenProperties DEF LinesTypeOK, Position
<1>3. ~ended
  BY <1>2 DEF Position, LinesTypeOK
<1>4. begun \in outgrown <=> skipping
  <2>1. n \in begun + 1 .. got /\ written[n] = NL
    BY <1>1, <1>2
  <2>2. ~NoNewline(begun, got)
    BY <2>1 DEF NoNewline
  <2> QED
    BY <2>2 DEF OutgrownNow
<1>5. Accounted'
  <2>1. /\ written[(n - 1) + 1] = NL /\ begun' = (n - 1) + 1 /\ n - 1 < Len(written)
        /\ ended' = ended /\ n - 1 <= got
    BY <1>1, <1>2
  <2> QED
    BY <1>1, <1>2, <1>3, <1>4, <2>1, LineAccounted
<1>6. OutgrownNow'
  <2>1. LineStart(n)
    BY <1>1, <1>2 DEF LineStart
  <2>2. n \in outgrown <=> NoNewline(n, got) /\ got - n > Limit
    BY <2>1, <1>1 DEF OutgrownNow
  <2>3. \A m \in n + 1 .. got :
          LineStart(m) => (m \in outgrown <=> NoNewline(m, got) /\ got - m > Limit)
    <3>1. \A m \in n + 1 .. got : m \in start + 1 .. got
      BY <1>2 DEF LinesTypeOK
    <3> QED
      BY <3>1 DEF OutgrownNow
  <2> QED
    BY <2>2, <2>3, <1>1 DEF OutgrownNow, LineStart, NoNewline
<1> QED
  BY <1>5, <1>6

LEMMA LinesEndAccounted ==
  ASSUME LinesInv, OutgrownNow, Accounted, LinesEnd
  PROVE  OutgrownNow' /\ Accounted'
<1> USE DEF LinesInv
<1>1. /\ ~ended /\ ~outOpen /\ start = got /\ got = Len(written) /\ Yield(buf) /\ ended' = TRUE
      /\ UNCHANGED <<written, got, start, skipping, begun, outgrown>>
  BY DEF LinesEnd
<1>2. buf = buf \o SubSeq(written, start + 1, got)
  <2>1. SubSeq(written, start + 1, got) = <<>>
    BY <1>1, SubSeqEmpty, start + 1 \in Int, got \in Int, got < start + 1 DEF LinesTypeOK
  <2> QED
    BY <2>1, ConcatEmptySeq DEF LinesTypeOK
<1>3. NoNewline(start, got)
  BY <1>1 DEF NoNewline, LinesTypeOK
<1>4. begun \in outgrown <=> skipping
  <2>1. ~skipping => got - begun <= Limit
    <3>1. ~skipping => Len(buf \o SubSeq(written, start + 1, got)) = got - begun
      BY <1>1, CurrentLine DEF LinesTypeOK
    <3> QED
      BY <3>1, <1>2 DEF Buffered
  <2> QED
    BY <2>1, <1>1, LinesAssumption DEF OutgrownNow, LinesTypeOK, Position
<1>5. Accounted'
  <2>1. got \in Nat /\ start <= got /\ got <= got
    BY <1>1 DEF LinesTypeOK
  <2>2. Yield(buf \o SubSeq(written, start + 1, got))
    BY <1>1, <1>2 DEF Yield
  <2> QED
    BY <1>1, <1>3, <1>4, <2>1, <2>2, LineAccounted
<1>6. OutgrownNow'
  BY <1>1 DEF OutgrownNow, LineStart, NoNewline
<1> QED
  BY <1>5, <1>6

LEMMA AccountedInvariant == LinesSpec => [](LinesInv /\ OutgrownNow /\ Accounted)
<1>1. LinesInv /\ OutgrownNow /\ Accounted /\ [LinesNext]_linesVars => OutgrownNow' /\ Accounted'
  <2> SUFFICES ASSUME LinesInv, OutgrownNow, Accounted, [LinesNext]_linesVars
               PROVE  OutgrownNow' /\ Accounted'
    OBVIOUS
  <2>1. CASE \E b \in Bytes : Write(b)
    BY <2>1, WriteAccounted
  <2>2. CASE CloseOut
    BY <2>2 DEF CloseOut, readerVars, OutgrownNow, Accounted, IsLine, LineStart, LineEnd, NoNewline
  <2>3. CASE ReadChunk
    BY <2>3, ReadChunkAccounted
  <2>4. CASE TakeLine
    BY <2>4, TakeLineAccounted
  <2>5. CASE TakeRest
    BY <2>5, TakeRestAccounted
  <2>6. CASE LinesEnd
    BY <2>6, LinesEndAccounted
  <2>7. CASE UNCHANGED linesVars
    BY <2>7 DEF linesVars, readerVars, OutgrownNow, Accounted, IsLine, LineStart, LineEnd, NoNewline
  <2> QED
    BY <2>1, <2>2, <2>3, <2>4, <2>5, <2>6, <2>7 DEF LinesNext, Reader
<1> QED
  BY <1>1, LinesInitAccounted, LinesInvariant, PTL DEF LinesSpec

-----------------------------------------------------------------------------
\* What _ndjson_lines yields are whole lines of the output, in order, for every output
\* and however it is cut into chunks.
THEOREM LinesComeWhole == LinesSpec => []LinesAreWhole
<1>1. LinesInv => LinesAreWhole
  BY DEF LinesInv
<1> QED
  BY <1>1, LinesInvariant, PTL

\* It leaves out no line but blank ones and those over the limit, whatever the limit is.
THEOREM NoLineIsLost == LinesSpec => []NoLineLost
<1>1. LinesInv => NoLineLost
  BY DEF LinesInv
<1> QED
  BY <1>1, LinesInvariant, PTL

\* A line that is not blank is left out exactly if it was over the limit where a chunk
\* ended inside it, and no more than the limit is kept from one chunk to the next.
THEOREM GivenUpIfOutgrown == LinesSpec => []GivenUpAtChunkEnds
<1>1. LinesInv /\ Accounted => GivenUpAtChunkEnds
  BY DEF LinesInv, Buffered, Accounted, GivenUpAtChunkEnds
<1> QED
  BY <1>1, AccountedInvariant, PTL

\* The pipes, the prompt and codex, which reads and writes as it likes, only do to the
\* reader what LinesSpec says: the three theorems hold of codex's stdout.
THEOREM PipesImplementLines == PipesSpec => LinesSpec
<1>1. PipesInit => LinesInit
  BY DEF PipesInit
<1>2. [PipesNext]_pipesVars => [LinesNext]_linesVars
  <2> SUFFICES ASSUME [PipesNext]_pipesVars PROVE [LinesNext]_linesVars
    OBVIOUS
  <2>1. CASE Calls \/ CodexReads \/ CodexLogs \/ SendPrompt \/ PromptNotRead \/ Drain
    BY <2>1 DEF Calls, CodexReads, CodexLogs, SendPrompt, PromptNotRead, Drain
  <2>2. CASE CodexWrites
    BY <2>2 DEF CodexWrites, LinesNext
  <2>3. CASE CodexExits
    BY <2>3 DEF CodexExits, LinesNext
  <2>4. CASE ReadStdout
    BY <2>4 DEF ReadStdout, LinesNext
  <2>5. CASE Over \/ UNCHANGED pipesVars
    BY <2>5 DEF Over, pipesVars
  <2> QED
    BY <2>1, <2>2, <2>3, <2>4, <2>5 DEF PipesNext
<1> QED
  BY <1>1, <1>2, PTL DEF PipesSpec, LinesSpec

\* No pipe holds more than it can, and the prompt is sent once.
THEOREM PipesAreBounded == PipesSpec => []PipesTypeOK
<1>1. PipesInit => PipesTypeOK
  BY PipesAssumption DEF PipesAssumption, PipesInit, LinesInit, PipesTypeOK
<1>2. ASSUME LinesInv, PipesTypeOK, [PipesNext]_pipesVars PROVE PipesTypeOK'
  <2>0. written \in Seq(Bytes) /\ got \in Nat /\ Len(written) \in Nat /\ got <= Len(written)
    BY <1>2 DEF LinesInv, LinesTypeOK, Position
  <2> USE <1>2, PipesAssumption DEF PipesAssumption, PipesTypeOK
  <2>1. CASE Calls \/ CodexReads \/ CodexLogs \/ SendPrompt \/ PromptNotRead \/ Drain
    BY <2>1 DEF Calls, CodexReads, CodexLogs, SendPrompt, PromptNotRead, Drain, linesVars, readerVars
  <2>2. CASE CodexWrites
    BY <2>0, <2>2 DEF CodexWrites, Write, readerVars
  <2>3. CASE CodexExits
    BY <2>3 DEF CodexExits, CloseOut, readerVars
  <2>4. CASE ReadStdout
    BY <2>0, <2>4 DEF ReadStdout, pipeVars, Reader, ReadChunk, TakeLine, TakeRest, LinesEnd
  <2>5. CASE Over \/ UNCHANGED pipesVars
    BY <2>5 DEF Over, pipesVars, pipeVars, linesVars, readerVars
  <2> QED
    BY <2>1, <2>2, <2>3, <2>4, <2>5 DEF PipesNext
<1> QED
  BY <1>1, <1>2, PipesImplementLines, LinesInvariant, PTL DEF PipesSpec

-----------------------------------------------------------------------------
(* Neither side waits for the other *)

\* A chunk with a newline has a first one.
LEMMA FirstNewline ==
  ASSUME LinesTypeOK, ~NoNewline(start, got)
  PROVE  \E n \in start + 1 .. got : written[n] = NL /\ NoNewline(start, n - 1)
<1> DEFINE newlines == {n \in start + 1 .. got : written[n] = NL}
           less == OpToRel(<, Nat)
<1>1. newlines \subseteq Nat /\ newlines # {}
  BY DEF LinesTypeOK, NoNewline
<1>2. IsWellFoundedOn(less, Nat)
  BY NatLessThanWellFounded
<1> HIDE DEF less
<1>3. PICK n \in newlines : \A m \in newlines : <<m, n>> \notin less
  BY <1>1, <1>2, WFMin
<1>4. \A m \in newlines : ~(m < n)
  BY <1>1, <1>3 DEF less, OpToRel
<1>5. n \in start + 1 .. got /\ written[n] = NL
  OBVIOUS
<1>6. \A i \in start + 1 .. n - 1 : written[i] # NL
  <2> SUFFICES ASSUME NEW i \in start + 1 .. n - 1, written[i] = NL PROVE FALSE
    OBVIOUS
  <2>1. i \in start + 1 .. got /\ i < n
    BY <1>5 DEF LinesTypeOK
  <2> QED
    BY <2>1, <1>4
<1> QED
  BY <1>5, <1>6 DEF NoNewline

\* The reader waits for nothing but the output.
LEMMA ReaderWaitsForOutput ==
  ASSUME LinesInv, ~ended, got < Len(written) \/ start < got \/ ~outOpen
  PROVE  ReaderCanRun
<1>1. /\ LinesTypeOK /\ start \in Nat /\ got \in Nat /\ Len(written) \in Nat
      /\ start <= got /\ got <= Len(written)
  BY LenProperties DEF LinesInv, LinesTypeOK, Position
<1>2. CASE start < got
  BY <1>1, <1>2, FirstNewline DEF ReaderCanRun
<1>3. CASE start = got
  BY <1>1, <1>3 DEF ReaderCanRun
<1> QED
  BY <1>1, <1>2, <1>3

\* codex has its end of the pipe until it exits.
ExitClosesOut == outOpen <=> codex # "exited"

LEMMA PipesInvariant == PipesSpec => [](LinesInv /\ PipesTypeOK /\ ExitClosesOut)
<1>1. PipesInit => ExitClosesOut
  BY DEF PipesInit, LinesInit, ExitClosesOut
<1>2. ExitClosesOut /\ [PipesNext]_pipesVars => ExitClosesOut'
  <2> SUFFICES ASSUME ExitClosesOut, [PipesNext]_pipesVars PROVE ExitClosesOut'
    OBVIOUS
  <2> USE DEF ExitClosesOut
  <2>1. CASE Calls \/ CodexReads \/ CodexLogs \/ SendPrompt \/ PromptNotRead \/ Drain
    BY <2>1 DEF Calls, CodexReads, CodexLogs, SendPrompt, PromptNotRead, Drain, linesVars
  <2>2. CASE CodexWrites
    BY <2>2 DEF CodexWrites, Write
  <2>3. CASE CodexExits
    BY <2>3 DEF CodexExits, CloseOut
  <2>4. CASE ReadStdout
    BY <2>4 DEF ReadStdout, pipeVars, Reader, ReadChunk, TakeLine, TakeRest, LinesEnd
  <2>5. CASE Over \/ UNCHANGED pipesVars
    BY <2>5 DEF Over, pipesVars, pipeVars, linesVars
  <2> QED
    BY <2>1, <2>2, <2>3, <2>4, <2>5 DEF PipesNext
<1> QED
  BY <1>1, <1>2, PipesImplementLines, LinesInvariant, PipesAreBounded, PTL DEF PipesSpec

\* Whatever the sizes of the prompt, the pipes and the limit, there is no state in which
\* codex waits at a pipe for the sidecar while the sidecar waits for codex; and once codex
\* has exited the reader runs until the stream is over.
THEOREM PipesNeverDeadlock == PipesSpec => []NoDeadlockAtPipes
<1>1. LinesInv /\ PipesTypeOK /\ ExitClosesOut => NoDeadlockAtPipes
  <2> SUFFICES ASSUME LinesInv, PipesTypeOK, ExitClosesOut PROVE NoDeadlockAtPipes
    OBVIOUS
  <2>1. /\ got \in Nat /\ Len(written) \in Nat /\ PipeSize \in Nat \ {0}
        /\ ended => ~outOpen
    BY LenProperties, PipesAssumption DEF PipesAssumption, LinesInv, LinesTypeOK, Position
  <2>2. codex = "read" => inPipe > 0 \/ unsent = 0 \/ inPipe < PipeSize
    BY <2>1 DEF PipesTypeOK
  <2>3. codex = "out" => Len(written) - got < PipeSize \/ ReaderCanRun
    <3>1. codex = "out" => ~ended
      BY <2>1 DEF ExitClosesOut
    <3>2. Len(written) - got < PipeSize \/ got < Len(written)
      BY <2>1
    <3> QED
      BY <3>1, <3>2, ReaderWaitsForOutput
  <2>4. codex = "err" => errPipe < PipeSize \/ errPipe > 0
    BY <2>1 DEF PipesTypeOK
  <2>5. codex = "exited" => ended \/ ReaderCanRun
    BY ReaderWaitsForOutput DEF ExitClosesOut
  <2> QED
    BY <2>2, <2>3, <2>4, <2>5 DEF NoDeadlockAtPipes
<1> QED
  BY <1>1, PipesInvariant, PTL

\* Each step of the reader brings it nearer to the end of what codex wrote.
THEOREM ReaderAdvances == PipesSpec => ReadingAdvances
<1>1. LinesInv /\ [PipesNext]_pipesVars
        => [/\ ReadStdout => WorkLeft' < WorkLeft
            /\ written' = written => WorkLeft' <= WorkLeft]_pipesVars
  <2> SUFFICES ASSUME LinesInv, PipesNext
               PROVE  /\ ReadStdout => WorkLeft' < WorkLeft
                      /\ written' = written => WorkLeft' <= WorkLeft
    OBVIOUS
  <2>1. /\ got \in Nat /\ start \in Nat /\ Len(written) \in Nat
        /\ start <= got /\ got <= Len(written)
    BY LenProperties DEF LinesInv, LinesTypeOK, Position
  <2>2. ASSUME Reader PROVE WorkLeft' < WorkLeft
    <3>1. CASE ReadChunk
      BY <2>1, <3>1, LinesAssumption DEF ReadChunk, WorkLeft
    <3>2. CASE TakeLine
      BY <2>1, <3>2 DEF TakeLine, WorkLeft
    <3>3. CASE TakeRest
      BY <2>1, <3>3 DEF TakeRest, WorkLeft
    <3>4. CASE LinesEnd
      BY <2>1, <3>4 DEF LinesEnd, WorkLeft
    <3> QED
      BY <2>2, <3>1, <3>2, <3>3, <3>4 DEF Reader
  <2>3. WorkLeft \in Nat
    BY <2>1 DEF WorkLeft
  <2>4. CASE Reader
    <3>1. WorkLeft' \in Int
      BY <2>1, <2>4, LinesAssumption DEF Reader, ReadChunk, TakeLine, TakeRest, LinesEnd, WorkLeft
    <3> QED
      BY <2>2, <2>3, <2>4, <3>1
  <2>5. CASE ~Reader
    <3>1. UNCHANGED <<got, start, ended>>
      BY <2>5 DEF PipesNext, Calls, CodexReads, CodexWrites, CodexLogs, CodexExits, SendPrompt,
        PromptNotRead, Drain, ReadStdout, Over, Write, CloseOut, pipesVars, linesVars, readerVars
    <3>2. written' = written => WorkLeft' = WorkLeft
      BY <3>1 DEF WorkLeft
    <3> QED
      BY <2>3, <2>5, <3>2 DEF ReadStdout
  <2> QED
    BY <2>4, <2>5
<1> QED
  BY <1>1, PipesInvariant, PTL DEF PipesSpec, ReadingAdvances
=============================================================================

---------------------------- MODULE CodexProofs ----------------------------
(***************************************************************************)
(* For every number of cancellations: a codex runner that closes           *)
(* undisturbed leaves no process of its group, no helper task and no       *)
(* private file; it ends as a success exactly if codex completed the turn; *)
(* and it is a runner Turn can rely on.  Its cleanup is never              *)
(* stuck and comes to each wait once.                                      *)
(***************************************************************************)
EXTENDS CodexProcess, TLAPS

Started == {"reading"} \cup Waits
After == {"unwinding", "closed"}
Ended == Cleanup \cup After

\* What the places say of the process: it is there from the start of the reading on, and
\* each wait of the cleanup is reached with the group killed or the helpers done.
ProcessInv ==
  /\ pc = "spawning" => leader = "none"
  /\ pc \in Started \cup Cleanup => leader # "none"
  /\ leader = "none" => member = "none" /\ returncode = "none"
  /\ pc = "finish_stderr" => stdinDone
  /\ pc \in After /\ leader # "none" /\ ~cut => GroupDead /\ stdinDone /\ stderrDone

\* The private file stays until everything else is done, and only a cancel keeps it.
SchemaInv ==
  /\ pc \notin After => schema = IF structured THEN "kept" ELSE "none"
  /\ pc = "unwinding" => structured /\ schema \in {"removing", "removed"}
  /\ pc = "closed" => IF structured THEN schema # "kept" ELSE schema = "none"
  /\ pc = "closed" /\ schema # "removed" => cancels > 0 \/ ~structured
  /\ cancelling => cancels > 0

\* How the turn ends is settled when the cleanup begins: by then the exit status is known,
\* unless something broke.
ResultInv ==
  /\ completed /\ ~broken => done # "none"
  /\ done # "none" => completed
  /\ structured => done \in {"none", "json"}
  /\ broken => pc \in Ended
  /\ pc \in {"spawning"} \cup Started => result = "none"
  /\ pc = "exit_stderr" => returncode # "none"
  /\ pc \in Ended /\ leader # "none" /\ result # "cancelled" =>
       /\ ~broken => returncode # "none"
       /\ result = "ok" <=> ~broken /\ returncode = "zero" /\ completed

BoolsOK ==
  /\ structured \in BOOLEAN /\ reported \in BOOLEAN /\ completed \in BOOLEAN
  /\ broken \in BOOLEAN /\ stdinDone \in BOOLEAN /\ stderrDone \in BOOLEAN
  /\ outClosed \in BOOLEAN /\ cancelling \in BOOLEAN /\ cut \in BOOLEAN
CodexInv == CodexTypeOK /\ ProcessInv /\ SchemaInv /\ ResultInv

USE DEF Started, After, Ended, Waits, Cleanup, Pipes, GroupDead, Exited

-----------------------------------------------------------------------------
LEMMA CodexInvInit == CodexInit => CodexInv
<1> SUFFICES ASSUME CodexInit PROVE CodexInv
  OBVIOUS
<1> USE DEF CodexInit
<1>0. cancels \in 0..MaxCancels
  BY CodexAssumption DEF CodexAssumption
<1>1. CodexTypeOK
  BY <1>0, CodexAssumption DEF CodexAssumption, CodexTypeOK
<1>2. ProcessInv
  BY DEF ProcessInv
<1>3. SchemaInv
  BY DEF SchemaInv
<1>4. ResultInv
  BY DEF ResultInv
<1> QED
  BY <1>1, <1>2, <1>3, <1>4 DEF CodexInv

LEMMA CodexWorld ==
  ASSUME CodexInv, World \/ SchemaRemoved
  PROVE  CodexInv'
<1> USE DEF eventVars, helperVars, procVars, cancelVars
<1>1. ASSUME LeaderExits PROVE CodexInv'
  BY <1>1
  DEF LeaderExits, CodexInv, CodexTypeOK, ProcessInv, SchemaInv,
      ResultInv
<1>2. ASSUME Reaped PROVE CodexInv'
  BY <1>2
  DEF Reaped, CodexInv, CodexTypeOK, ProcessInv, SchemaInv,
      ResultInv
<1>3. ASSUME MemberStarts PROVE CodexInv'
  BY <1>3
  DEF MemberStarts, CodexInv, CodexTypeOK, ProcessInv, SchemaInv,
      ResultInv
<1>4. ASSUME MemberExits PROVE CodexInv'
  BY <1>4
  DEF MemberExits, CodexInv, CodexTypeOK, ProcessInv, SchemaInv,
      ResultInv
<1>5. ASSUME CommandEscapes PROVE CodexInv'
  BY <1>5
  DEF CommandEscapes, CodexInv, CodexTypeOK, ProcessInv, SchemaInv, ResultInv
<1>6. ASSUME EscapedExits PROVE CodexInv'
  BY <1>6
  DEF EscapedExits, CodexInv, CodexTypeOK, ProcessInv, SchemaInv, ResultInv
<1>7. ASSUME StdoutCloses PROVE CodexInv'
  BY <1>7
  DEF StdoutCloses, CodexInv, CodexTypeOK, ProcessInv, SchemaInv, ResultInv
<1>8. ASSUME StdinTaskEnds PROVE CodexInv'
  BY <1>8
  DEF StdinTaskEnds, CodexInv, CodexTypeOK, ProcessInv, SchemaInv, ResultInv
<1>9. ASSUME StderrTaskEnds PROVE CodexInv'
  BY <1>9
  DEF StderrTaskEnds, CodexInv, CodexTypeOK, ProcessInv, SchemaInv, ResultInv
<1>10. ASSUME SchemaRemoved PROVE CodexInv'
  BY <1>10
  DEF SchemaRemoved, CodexInv, CodexTypeOK, ProcessInv, SchemaInv, ResultInv
<1> QED
  BY <1>1, <1>2, <1>3, <1>4, <1>5, <1>6, <1>7, <1>8, <1>9, <1>10 DEF World

-----------------------------------------------------------------------------
(* The beginning of the cleanup, whatever begins it *)

LEMMA CloseEnters ==
  ASSUME CodexInv, pc \in Started, NEW res \in {"ok", "sdk_error", "internal", "cancelled"},
         Close(res), UNCHANGED structured, UNCHANGED cancels,
         cancelling' \in BOOLEAN, cancelling' => cancelling, cut' = cut,
         message' \in {"empty", "prose", "json"}, reported' \in BOOLEAN,
         completed' \in BOOLEAN, broken' \in BOOLEAN,
         done' \in {"none", "empty", "prose", "json"},
         completed' /\ ~broken' => done' # "none",
         done' # "none" => completed',
         structured => done' \in {"none", "json"},
         res # "cancelled" =>
           /\ ~broken' => returncode # "none"
           /\ res = "ok" <=> ~broken' /\ returncode = "zero" /\ completed'
  PROVE  CodexInv'
<1> USE DEF helperVars, procVars, Close, GoTo, Closing, AfterTerminate, KillGroup
<1>1. CodexTypeOK'
  BY DEF CodexInv, CodexTypeOK, ProcessInv, SchemaInv
<1>2. ProcessInv'
  BY DEF CodexInv, CodexTypeOK, ProcessInv
<1>3. SchemaInv'
  BY DEF CodexInv, CodexTypeOK, SchemaInv
<1>4. ResultInv'
  BY DEF CodexInv, CodexTypeOK, ProcessInv, ResultInv
<1> QED
  BY <1>1, <1>2, <1>3, <1>4 DEF CodexInv

-----------------------------------------------------------------------------
LEMMA CodexStream ==
  ASSUME CodexInv, Stream
  PROVE  CodexInv'
<1> USE DEF At, eventVars, helperVars, procVars, cancelVars
<1> DEFINE Known == CodexTypeOK /\ ProcessInv /\ SchemaInv /\ ResultInv
<1>0. Known
  BY DEF CodexInv
<1>1. ASSUME Spawned PROVE CodexInv'
  BY <1>0, <1>1 DEF Spawned, CodexInv, CodexTypeOK, ProcessInv, SchemaInv, ResultInv
<1>2. ASSUME SpawnFails PROVE CodexInv'
  BY <1>0, <1>2
  DEF SpawnFails, GoTo, Closing, CodexInv, CodexTypeOK, ProcessInv, SchemaInv, ResultInv
<1>3. ASSUME StdoutEnds PROVE CodexInv'
  BY <1>0, <1>3 DEF StdoutEnds, CodexInv, CodexTypeOK, ProcessInv, SchemaInv, ResultInv
<1>13. ASSUME MessageRead PROVE CodexInv'
  BY <1>0, <1>13 DEF MessageRead, CodexInv, CodexTypeOK, ProcessInv, SchemaInv, ResultInv
<1>14. ASSUME ErrorReported PROVE CodexInv'
  BY <1>0, <1>14 DEF ErrorReported, CodexInv, CodexTypeOK, ProcessInv, SchemaInv, ResultInv
<1>4. ASSUME TurnCompleted PROVE CodexInv'
  <2>1. CASE structured /\ ~Parses
    BY <1>0, <1>4, <2>1, CloseEnters
    DEF TurnCompleted, CodexTypeOK, ResultInv
  <2>2. CASE ~(structured /\ ~Parses)
    <3> USE DEF TurnCompleted, Parses
    <3>0. BoolsOK'
      BY <1>0, <1>4, <2>2 DEF CodexInv, CodexTypeOK, BoolsOK
    <3>1. CodexTypeOK'
      BY <3>0, <1>0, <1>4, <2>2 DEF CodexInv, CodexTypeOK, ProcessInv, SchemaInv, BoolsOK
    <3>2. ProcessInv'
      BY <1>0, <1>4, <2>2 DEF CodexInv, CodexTypeOK, ProcessInv
    <3>3. SchemaInv'
      BY <1>0, <1>4, <2>2 DEF CodexInv, CodexTypeOK, SchemaInv
    <3>4. ResultInv'
      BY <1>0, <1>4, <2>2 DEF CodexInv, CodexTypeOK, ProcessInv, ResultInv
    <3> QED
      BY <3>1, <3>2, <3>3, <3>4 DEF CodexInv
  <2> QED
    BY <2>1, <2>2
<1>5. ASSUME ReadFails PROVE CodexInv'
  BY <1>0, <1>5, CloseEnters DEF ReadFails, CodexTypeOK, ResultInv
<1>6. ASSUME NotExited PROVE CodexInv'
  BY <1>0, <1>6, CloseEnters DEF NotExited, CodexTypeOK, ResultInv
<1>7. ASSUME SweptAtExit PROVE CodexInv'
  <2>1. CASE stderrDone
    BY <1>0, <1>7, <2>1, CloseEnters DEF SweptAtExit, Status, CodexTypeOK, ResultInv
  <2>2. CASE ~stderrDone
    <3> USE DEF SweptAtExit, KillGroup
    <3>0. BoolsOK'
      BY <1>0, <1>7, <2>2 DEF CodexInv, CodexTypeOK, BoolsOK
    <3>1. CodexTypeOK'
      BY <3>0, <1>0, <1>7, <2>2 DEF CodexInv, CodexTypeOK, ProcessInv, SchemaInv, BoolsOK
    <3>2. ProcessInv'
      BY <1>0, <1>7, <2>2 DEF CodexInv, CodexTypeOK, ProcessInv
    <3>3. SchemaInv'
      BY <1>0, <1>7, <2>2 DEF CodexInv, CodexTypeOK, SchemaInv
    <3>4. ResultInv'
      BY <1>0, <1>7, <2>2 DEF CodexInv, CodexTypeOK, ProcessInv, ResultInv
    <3> QED
      BY <3>1, <3>2, <3>3, <3>4 DEF CodexInv
  <2> QED
    BY <2>1, <2>2
<1>8. ASSUME StderrFinishedAtExit PROVE CodexInv'
  BY <1>0, <1>8
  DEF StderrFinishedAtExit, KillGroup, GoTo, Closing, Status, CodexInv, CodexTypeOK,
      ProcessInv, SchemaInv, ResultInv
<1>9. ASSUME TermGraceOver PROVE CodexInv'
  BY <1>0, <1>9
  DEF TermGraceOver, KillGroup, GoTo, Closing, AfterTerminate, CodexInv, CodexTypeOK,
      ProcessInv, SchemaInv, ResultInv
<1>10. ASSUME KillWaitOver PROVE CodexInv'
  BY <1>0, <1>10
  DEF KillWaitOver, GoTo, Closing, AfterTerminate, CodexInv, CodexTypeOK,
      ProcessInv, SchemaInv, ResultInv
<1>11. ASSUME StdinFinished PROVE CodexInv'
  BY <1>0, <1>11
  DEF StdinFinished, GoTo, Closing, CodexInv, CodexTypeOK, ProcessInv, SchemaInv, ResultInv
<1>15. ASSUME StderrFinished PROVE CodexInv'
  BY <1>0, <1>15
  DEF StderrFinished, GoTo, Closing, CodexInv, CodexTypeOK, ProcessInv, SchemaInv, ResultInv
<1>12. ASSUME Unwound PROVE CodexInv'
  BY <1>0, <1>12 DEF Unwound, CodexInv, CodexTypeOK, ProcessInv, SchemaInv, ResultInv
<1> QED
  BY <1>1, <1>2, <1>3, <1>4, <1>5, <1>6, <1>7, <1>8, <1>9, <1>10, <1>11, <1>12,
     <1>13, <1>14, <1>15
  DEF Stream

LEMMA CodexCancel ==
  ASSUME CodexInv, CancelRequested \/ CancelLands
  PROVE  CodexInv'
<1> USE DEF eventVars, helperVars, procVars, cancelVars
<1>1. ASSUME CancelRequested PROVE CodexInv'
  BY <1>1, CodexAssumption
  DEF CancelRequested, CodexAssumption, CodexInv, CodexTypeOK, ProcessInv, SchemaInv, ResultInv
<1>2. ASSUME CancelInSpawn PROVE CodexInv'
  BY <1>2, ZenonT(40)
  DEF CancelInSpawn, GoTo, Closing, CodexInv, CodexTypeOK, ProcessInv, SchemaInv, ResultInv
<1>3. ASSUME CancelInStream PROVE CodexInv'
  BY <1>3, CloseEnters DEF CancelInStream, CodexInv, CodexTypeOK, ResultInv
<1>4. ASSUME CancelInCleanup PROVE CodexInv'
  <2> USE DEF CancelInCleanup, GoTo, Closing
  <2>0. BoolsOK'
    BY <1>4 DEF CodexInv, CodexTypeOK, BoolsOK
  <2>1. CodexTypeOK'
    BY <2>0, <1>4 DEF CodexInv, CodexTypeOK, ProcessInv, SchemaInv, BoolsOK
  <2>2. ProcessInv'
    BY <1>4 DEF CodexInv, CodexTypeOK, ProcessInv
  <2>3. SchemaInv'
    BY <1>4 DEF CodexInv, CodexTypeOK, SchemaInv
  <2>4. ResultInv'
    BY <1>4 DEF CodexInv, CodexTypeOK, ProcessInv, ResultInv
  <2> QED
    BY <2>1, <2>2, <2>3, <2>4 DEF CodexInv
<1>5. ASSUME CancelInUnwinding PROVE CodexInv'
  <2> USE DEF CancelInUnwinding
  <2>0. BoolsOK'
    BY <1>5 DEF CodexInv, CodexTypeOK, BoolsOK
  <2>1. CodexTypeOK'
    BY <2>0, <1>5 DEF CodexInv, CodexTypeOK, ProcessInv, SchemaInv, BoolsOK
  <2>2. ProcessInv'
    BY <1>5 DEF CodexInv, CodexTypeOK, ProcessInv
  <2>3. SchemaInv'
    BY <1>5 DEF CodexInv, CodexTypeOK, SchemaInv
  <2>4. ResultInv'
    BY <1>5 DEF CodexInv, CodexTypeOK, ProcessInv, ResultInv
  <2> QED
    BY <2>1, <2>2, <2>3, <2>4 DEF CodexInv
<1> QED
  BY <1>1, <1>2, <1>3, <1>4, <1>5 DEF CancelLands

LEMMA CodexInvNext ==
  ASSUME CodexInv, [CodexNext]_codexVars
  PROVE  CodexInv'
<1>1. CASE UNCHANGED codexVars \/ Closed
  <2> SUFFICES ASSUME UNCHANGED codexVars PROVE CodexInv'
    BY <1>1 DEF Closed
  <2> QED
    BY DEF codexVars, eventVars, helperVars, procVars, cancelVars, CodexInv, CodexTypeOK,
           ProcessInv, SchemaInv, ResultInv
<1> QED
  BY <1>1, CodexWorld, CodexStream, CodexCancel DEF CodexNext

\* The types and the three invariants above hold of codex_runner, its helper tasks and the
\* processes on every path.
THEOREM CodexInvariant == CodexSpec => []CodexInv
  BY CodexInvInit, CodexInvNext, PTL DEF CodexSpec

\* A runner that closes undisturbed leaves no process of its group, no helper task and no
\* private file.
THEOREM NothingIsLeft == CodexSpec => []ClosedMeansSwept
<1>1. CodexInv => ClosedMeansSwept
  BY DEF CodexInv, ClosedMeansSwept, ProcessInv, SchemaInv
<1> QED
  BY <1>1, CodexInvariant, PTL

\* A turn is a success exactly if codex completed it with what was asked for and exited
\* with 0 in time, whatever trouble it reported and however often the turn was stopped.
THEOREM SuccessMeansCompletion == CodexSpec => []SuccessIsCompletion
<1>1. CodexInv => SuccessIsCompletion
  BY DEF CodexInv, SuccessIsCompletion, CodexTypeOK, ResultInv
<1> QED
  BY <1>1, CodexInvariant, PTL

-----------------------------------------------------------------------------
(* The safe half of CleanupEnds *)

\* What SchemaInv does not say of CleanupNeverStuck.
HeardInv ==
  /\ cancels > 0 => cancelling \/ pc \in Ended
  /\ cancelling => pc # "closed"

LEMMA HeardKept ==
  ASSUME CodexInv, HeardInv, [CodexNext]_codexVars
  PROVE  HeardInv'
<1> USE DEF HeardInv, At, cancelVars
<1>1. CASE World \/ SchemaRemoved
  BY <1>1 DEF World, LeaderExits, Reaped, MemberStarts, MemberExits, CommandEscapes, EscapedExits,
    StdoutCloses, StdinTaskEnds, StderrTaskEnds, SchemaRemoved
<1>2. CASE Stream
  <2>1. cancelling = FALSE /\ UNCHANGED <<cancels, cancelling>>
    BY <1>2 DEF Stream, Spawned, SpawnFails, StdoutEnds, MessageRead, ErrorReported, TurnCompleted,
      ReadFails, NotExited, SweptAtExit, StderrFinishedAtExit, TermGraceOver, KillWaitOver,
      StdinFinished, StderrFinished, Unwound, CodexInv, CodexTypeOK
  <2>2. pc \in Ended => pc' \in Ended
    BY <1>2 DEF Stream, Spawned, SpawnFails, StdoutEnds, MessageRead, ErrorReported, TurnCompleted,
      ReadFails, NotExited, SweptAtExit, StderrFinishedAtExit, TermGraceOver, KillWaitOver,
      StdinFinished, StderrFinished, Unwound, GoTo, Closing, AfterTerminate
  <2> QED
    BY <2>1, <2>2
<1>3. CASE CancelRequested
  BY <1>3 DEF CancelRequested
<1>4. CASE CancelLands
  <2>1. pc' \in Ended /\ cancelling' = FALSE
    BY <1>4 DEF CancelLands, CancelInSpawn, CancelInStream, CancelInCleanup, CancelInUnwinding,
      Close, GoTo, Closing, AfterTerminate
  <2> QED
    BY <2>1
<1>5. CASE Closed \/ UNCHANGED codexVars
  BY <1>5 DEF Closed, codexVars
<1> QED
  BY <1>1, <1>2, <1>3, <1>4, <1>5 DEF CodexNext

\* However many cancels there are and wherever they land, none is swallowed and the cleanup
\* is never at a wait that nothing ends.
THEOREM CleanupIsNeverStuck == CodexSpec => []CleanupNeverStuck
<1>1. CodexInit => HeardInv
  BY DEF CodexInit, HeardInv
<1>2. CodexInv /\ HeardInv => CleanupNeverStuck
  BY DEF CodexInv, HeardInv, SchemaInv, CleanupNeverStuck
<1> QED
  BY <1>1, <1>2, HeardKept, CodexInvariant, PTL DEF CodexSpec

Advance == pc' # pc /\ WaitsLeft(pc') < WaitsLeft(pc)

LEMMA StreamAdvances ==
  ASSUME Stream
  PROVE  Advance \/ (pc = "reading" /\ pc' = pc)
BY DEF Advance, At, Stream, Spawned, SpawnFails, StdoutEnds, MessageRead, ErrorReported,
  TurnCompleted, ReadFails, NotExited, SweptAtExit, StderrFinishedAtExit, TermGraceOver,
  KillWaitOver, StdinFinished, StderrFinished, Unwound, Close, GoTo, Closing, AfterTerminate,
  WaitsLeft

LEMMA CancelAdvances ==
  ASSUME CancelLands
  PROVE  Advance
BY DEF Advance, CancelLands, CancelInSpawn, CancelInStream, CancelInCleanup, CancelInUnwinding,
  Close, GoTo, Closing, AfterTerminate, WaitsLeft

\* And it is over after at most nine waits of the generator, cancels included.
THEOREM CleanupOnlyAdvances == CodexSpec => CleanupAdvances
<1>1. [CodexNext]_codexVars
        => [/\ pc' # pc => WaitsLeft(pc') < WaitsLeft(pc)
            /\ CancelLands \/ (Stream /\ pc # "reading") => pc' # pc]_codexVars
  <2> SUFFICES ASSUME [CodexNext]_codexVars
               PROVE  /\ pc' # pc => WaitsLeft(pc') < WaitsLeft(pc)
                      /\ CancelLands \/ (Stream /\ pc # "reading") => pc' # pc
    OBVIOUS
  <2>1. CASE World \/ SchemaRemoved \/ CancelRequested \/ Closed \/ UNCHANGED codexVars
    <3>1. pc' = pc
      BY <2>1 DEF World, LeaderExits, Reaped, MemberStarts, MemberExits, CommandEscapes,
        EscapedExits, StdoutCloses, StdinTaskEnds, StderrTaskEnds, SchemaRemoved, CancelRequested,
        Closed, codexVars
    <3> QED
      BY <3>1, StreamAdvances, CancelAdvances DEF Advance
  <2>2. CASE Stream \/ CancelLands
    BY <2>2, StreamAdvances, CancelAdvances DEF Advance
  <2> QED
    BY <2>1, <2>2 DEF CodexNext
<1> QED
  BY <1>1, PTL DEF CodexSpec, CleanupAdvances

-----------------------------------------------------------------------------
(* The refinement *)

Place == IF pc = "closed" THEN "closed"
         ELSE IF leader = "none" THEN "opening"
         ELSE IF pc \in Started THEN "running" ELSE "closing"
Cli == IF leader = "none" THEN "none" ELSE IF GroupDead THEN "exited" ELSE "running"

ContractStep ==
  \/ UNCHANGED <<Place, Cli, cut>>
  \/ Place = "opening" /\ Place' = "running" /\ Cli' = "running" /\ cut' = cut
  \/ Place = "opening" /\ Place' = "closed" /\ Cli' = Cli /\ cut' = cut
  \/ Cli = "running" /\ Cli' = "exited" /\ Place' = Place /\ cut' = cut
  \/ Place = "running" /\ Place' = "closing" /\ Cli' \in {Cli, "exited"} /\ cut' = cut
  \/ Place = "running" /\ Place' = "closed" /\ Cli' = "exited" /\ cut' = cut
  \/ Place = "closing" /\ Place' = "closed" /\ Cli' = "exited" /\ cut' = cut
  \/ Place = "closing" /\ Place' \in {"closing", "closed"} /\ Cli' = Cli /\ cut' = TRUE

LEMMA PlaceIs ==
  /\ pc = "closed" => Place = "closed"
  /\ pc # "closed" /\ leader = "none" => Place = "opening"
  /\ pc \in Started /\ leader # "none" => Place = "running"
  /\ pc \notin {"closed"} \cup Started /\ leader # "none" => Place = "closing"
  BY DEF Place

LEMMA PlaceBecomes ==
  /\ pc' = "closed" => Place' = "closed"
  /\ pc' # "closed" /\ leader' = "none" => Place' = "opening"
  /\ pc' \in Started /\ leader' # "none" => Place' = "running"
  /\ pc' \notin {"closed"} \cup Started /\ leader' # "none" => Place' = "closing"
  BY DEF Place

LEMMA WorldKeeps ==
  ASSUME CodexInv, CodexInv', World \/ SchemaRemoved
  PROVE  ContractStep
<1> USE DEF At, eventVars, helperVars, procVars, cancelVars, GoTo, Closing, AfterTerminate, KillGroup,
            Close, Status, Cli, CodexInv, CodexTypeOK, ProcessInv
<1>1. ASSUME LeaderExits PROVE ContractStep
  BY <1>1, PlaceIs, PlaceBecomes DEF LeaderExits, ContractStep
<1>2. ASSUME Reaped PROVE ContractStep
  BY <1>2, PlaceIs, PlaceBecomes DEF Reaped, ContractStep
<1>3. ASSUME MemberStarts PROVE ContractStep
  BY <1>3, PlaceIs, PlaceBecomes DEF MemberStarts, ContractStep
<1>4. ASSUME MemberExits PROVE ContractStep
  BY <1>4, PlaceIs, PlaceBecomes DEF MemberExits, ContractStep
<1>5. ASSUME CommandEscapes PROVE ContractStep
  BY <1>5, PlaceIs, PlaceBecomes DEF CommandEscapes, ContractStep
<1>6. ASSUME EscapedExits PROVE ContractStep
  BY <1>6, PlaceIs, PlaceBecomes DEF EscapedExits, ContractStep
<1>7. ASSUME StdoutCloses PROVE ContractStep
  BY <1>7, PlaceIs, PlaceBecomes DEF StdoutCloses, ContractStep
<1>8. ASSUME StdinTaskEnds PROVE ContractStep
  BY <1>8, PlaceIs, PlaceBecomes DEF StdinTaskEnds, ContractStep
<1>9. ASSUME StderrTaskEnds PROVE ContractStep
  BY <1>9, PlaceIs, PlaceBecomes DEF StderrTaskEnds, ContractStep
<1>10. ASSUME SchemaRemoved PROVE ContractStep
  BY <1>10, PlaceIs, PlaceBecomes DEF SchemaRemoved, ContractStep
<1> QED
  BY <1>1, <1>2, <1>3, <1>4, <1>5, <1>6, <1>7, <1>8, <1>9, <1>10 DEF World

LEMMA StreamKeeps ==
  ASSUME CodexInv, CodexInv', Stream
  PROVE  ContractStep
<1> USE DEF At, eventVars, helperVars, procVars, cancelVars, GoTo, Closing, AfterTerminate, KillGroup,
            Close, Status, Cli, CodexInv, CodexTypeOK, ProcessInv
<1>1. ASSUME Spawned PROVE ContractStep
  BY <1>1, PlaceIs, PlaceBecomes DEF Spawned, ContractStep
<1>2. ASSUME SpawnFails PROVE ContractStep
  BY <1>2, PlaceIs, PlaceBecomes DEF SpawnFails, ContractStep
<1>3. ASSUME StdoutEnds PROVE ContractStep
  BY <1>3, PlaceIs, PlaceBecomes DEF StdoutEnds, ContractStep
<1>4. ASSUME MessageRead PROVE ContractStep
  BY <1>4, PlaceIs, PlaceBecomes DEF MessageRead, ContractStep
<1>5. ASSUME ErrorReported PROVE ContractStep
  BY <1>5, PlaceIs, PlaceBecomes DEF ErrorReported, ContractStep
<1>6. ASSUME TurnCompleted PROVE ContractStep
  BY <1>6, PlaceIs, PlaceBecomes DEF TurnCompleted, ContractStep
<1>7. ASSUME ReadFails PROVE ContractStep
  BY <1>7, PlaceIs, PlaceBecomes DEF ReadFails, ContractStep
<1>8. ASSUME NotExited PROVE ContractStep
  BY <1>8, PlaceIs, PlaceBecomes DEF NotExited, ContractStep
<1>9. ASSUME SweptAtExit PROVE ContractStep
  BY <1>9, PlaceIs, PlaceBecomes DEF SweptAtExit, ContractStep
<1>10. ASSUME StderrFinishedAtExit PROVE ContractStep
  BY <1>10, PlaceIs, PlaceBecomes DEF StderrFinishedAtExit, ContractStep
<1>11. ASSUME TermGraceOver PROVE ContractStep
  BY <1>11, PlaceIs, PlaceBecomes DEF TermGraceOver, ContractStep
<1>12. ASSUME KillWaitOver PROVE ContractStep
  BY <1>12, PlaceIs, PlaceBecomes DEF KillWaitOver, ContractStep
<1>13. ASSUME StdinFinished PROVE ContractStep
  BY <1>13, PlaceIs, PlaceBecomes DEF StdinFinished, ContractStep
<1>14. ASSUME StderrFinished PROVE ContractStep
  BY <1>14, PlaceIs, PlaceBecomes DEF StderrFinished, ContractStep
<1>15. ASSUME Unwound PROVE ContractStep
  BY <1>15, PlaceIs, PlaceBecomes DEF Unwound, ContractStep
<1> QED
  BY <1>1, <1>2, <1>3, <1>4, <1>5, <1>6, <1>7, <1>8, <1>9, <1>10, <1>11, <1>12, <1>13, <1>14, <1>15 DEF Stream

LEMMA CancelKeeps ==
  ASSUME CodexInv, CodexInv', CancelRequested \/ CancelLands
  PROVE  ContractStep
<1> USE DEF At, eventVars, helperVars, procVars, cancelVars, GoTo, Closing, AfterTerminate, KillGroup,
            Close, Status, Cli, CodexInv, CodexTypeOK, ProcessInv
<1>1. ASSUME CancelRequested PROVE ContractStep
  BY <1>1, PlaceIs, PlaceBecomes DEF CancelRequested, ContractStep
<1>2. ASSUME CancelInSpawn PROVE ContractStep
  BY <1>2, PlaceIs, PlaceBecomes DEF CancelInSpawn, ContractStep
<1>3. ASSUME CancelInStream PROVE ContractStep
  BY <1>3, PlaceIs, PlaceBecomes DEF CancelInStream, ContractStep
<1>4. ASSUME CancelInCleanup PROVE ContractStep
  BY <1>4, PlaceIs, PlaceBecomes DEF CancelInCleanup, ContractStep
<1>5. ASSUME CancelInUnwinding PROVE ContractStep
  BY <1>5, PlaceIs, PlaceBecomes DEF CancelInUnwinding, ContractStep
<1> QED
  BY <1>1, <1>2, <1>3, <1>4, <1>5 DEF CancelLands

LEMMA CodexKeeps ==
  ASSUME CodexInv, CodexInv', [CodexNext]_codexVars
  PROVE  ContractStep
<1>1. CASE UNCHANGED codexVars \/ Closed
  BY <1>1 DEF Closed, codexVars, procVars, cancelVars, ContractStep, Place, Cli
<1> QED
  BY <1>1, WorldKeeps, StreamKeeps, CancelKeeps DEF CodexNext

\* For Turn, which waits for its runner and not for codex: the runner closes after the
\* whole group has exited, unless a cancel landed in its cleanup.
THEOREM CodexIsARunner == CodexSpec => KeepsContract
<1>1. CodexInit => Contract!ContractInit
  BY DEF CodexInit, Contract!ContractInit
<1>2. ASSUME CodexInv, CodexInv', [CodexNext]_codexVars
      PROVE  [Contract!ContractNext]_(Contract!contractVars)
  <2>1. ContractStep
    BY <1>2, CodexKeeps
  <2> QED
    BY <2>1
    DEF ContractStep, Place, Cli, Contract!contractVars, Contract!ContractNext,
        Contract!Spawn, Contract!OpeningFails, Contract!Exits, Contract!Ends,
        Contract!Closes, Contract!IsCut
<1> QED
  BY <1>1, <1>2, CodexInvariant, PTL
  DEF CodexSpec, KeepsContract, Contract!ContractSpec
=============================================================================

---------------------------- MODULE ClaudeProofs ----------------------------
(***************************************************************************)
(* For all private files and every number of cancellations, texts and tool *)
(* calls: the claude runner removes a turn's files, and gives its slot     *)
(* back, after the CLI, unless a stop found it closing the CLI or at the   *)
(* yield of the session id; it ends with the result it was given; and it   *)
(* is a runner Turn can rely on.  Its cleanup is never                     *)
(* stuck and comes to each wait once.                                      *)
(***************************************************************************)
EXTENDS ClaudeRunner, SequenceTheorems, TLAPS

Unwinding == {"unwinding", "closed"}

\* The removals wait for the SDK: one is under way only after query() is closed.
OrderInv ==
  /\ pc \in Places
  /\ cli \in {"none", "running", "exited"}
  /\ ephemeral \in BOOLEAN
  /\ pc \notin Unwinding => removing = {} /\ cutIn = "none"
  /\ pc \in Unwinding => cutIn # "none" \/ cli # "running"
  /\ cutIn \in {"none", "recording", "sdk_closing"}
  /\ cutIn = "recording" => ~ephemeral
  /\ pc = "preparing" => cli = "none"
  /\ pc \in {"recording", "sdk_closing"} => cli # "none"
  /\ pc = "recording" => ~ephemeral
  /\ cutIn # "none" => cli # "none"

\* A result is a success or an error; while the SDK is at work nothing else was decided.
ResultInv ==
  /\ done \in {"none", "plain", "structured"}
  /\ structured /\ done = "plain" => FALSE
  /\ pc \in {"preparing", "reading", "recording"} => fault = "none"
  /\ cli = "none" => ~resultError
  /\ pc \in Unwinding /\ resultError => fault \in {"result_error", "cancelled"}

ClaudeInv == OrderInv /\ ResultInv

USE DEF Unwinding

-----------------------------------------------------------------------------
LEMMA ClaudeInvInit == ClaudeInit => ClaudeInv
  BY DEF ClaudeInit, ClaudeInv, OrderInv, ResultInv, Places

LEMMA RunnerKeepsInv ==
  ASSUME ClaudeInv, Runner
  PROVE  ClaudeInv'
<1> USE DEF At, Unwind, LeaveAtYield, Translates, Delivered, Raised, Places, ClaudeInv,
            OrderInv, ResultInv,
            requestVars, textVars, toolVars, streamVars, turnVars, worldVars,
            cancelVars, historyVars
<1>1. ASSUME Prepared PROVE ClaudeInv'
  BY <1>1 DEF Prepared
<1>2. ASSUME PreparationFails PROVE ClaudeInv'
  BY <1>2 DEF PreparationFails
<1>3. ASSUME CliStarts PROVE ClaudeInv'
  BY <1>3 DEF CliStarts
<1>4. ASSUME CliMissing PROVE ClaudeInv'
  BY <1>4 DEF CliMissing
<1>5. ASSUME SessionIdYielded PROVE ClaudeInv'
  BY <1>5 DEF SessionIdYielded
<1>6. ASSUME SessionIdRecorded PROVE ClaudeInv'
  BY <1>6 DEF SessionIdRecorded
<1>7. ASSUME SdkStreamEnds PROVE ClaudeInv'
  BY <1>7 DEF SdkStreamEnds
<1>8. ASSUME SdkClosed PROVE ClaudeInv'
  BY <1>8 DEF SdkClosed
<1>9. ASSUME TextDelta PROVE ClaudeInv'
  BY <1>9 DEF TextDelta
<1>10. ASSUME AssistantText PROVE ClaudeInv'
  BY <1>10 DEF AssistantText
<1>11. ASSUME Unwound PROVE ClaudeInv'
  BY <1>11 DEF Unwound
<1>12. ASSUME NEW u \in ToolUses, ToolCalled(u) PROVE ClaudeInv'
  BY <1>12 DEF ToolCalled
<1>13. ASSUME NEW u \in ToolUses, ToolAnswered(u) PROVE ClaudeInv'
  BY <1>13 DEF ToolAnswered
<1>14. ASSUME NEW isError \in BOOLEAN, NEW hasOutput \in BOOLEAN, ResultMessage(isError, hasOutput) PROVE ClaudeInv'
  BY <1>14 DEF ResultMessage, DoneEvent
<1> QED
  BY <1>1, <1>2, <1>3, <1>4, <1>5, <1>6, <1>7, <1>8, <1>9, <1>10, <1>11, <1>12, <1>13, <1>14 DEF Runner

LEMMA WorldKeepsInv ==
  ASSUME ClaudeInv, World
  PROVE  ClaudeInv'
<1> USE DEF At, Unwind, LeaveAtYield, Translates, Delivered, Raised, Places, ClaudeInv,
            OrderInv, ResultInv,
            requestVars, textVars, toolVars, streamVars, turnVars, worldVars,
            cancelVars, historyVars
<1>1. ASSUME CliStores PROVE ClaudeInv'
  BY <1>1 DEF CliStores
<1>2. ASSUME CliExits PROVE ClaudeInv'
  BY <1>2 DEF CliExits
<1>3. ASSUME NEW r \in {"transcript", "prompt", "mcp"}, RemovalEnds(r) PROVE ClaudeInv'
  BY <1>3 DEF RemovalEnds
<1>4. ASSUME NEW r \in {"transcript", "prompt", "mcp"}, RemovalFails(r) PROVE ClaudeInv'
  BY <1>4 DEF RemovalFails
<1> QED
  BY <1>1, <1>2, <1>3, <1>4 DEF World

LEMMA CancelKeepsInv ==
  ASSUME ClaudeInv, CancelRequested \/ CancelLands
  PROVE  ClaudeInv'
<1> USE DEF At, Unwind, LeaveAtYield, Translates, Delivered, Raised, Places, ClaudeInv,
            OrderInv, ResultInv,
            requestVars, textVars, toolVars, streamVars, turnVars, worldVars,
            cancelVars, historyVars
<1>1. ASSUME CancelRequested PROVE ClaudeInv'
  BY <1>1 DEF CancelRequested
<1>2. ASSUME CancelInPreparing PROVE ClaudeInv'
  BY <1>2 DEF CancelInPreparing
<1>3. ASSUME CancelInReading PROVE ClaudeInv'
  BY <1>3 DEF CancelInReading
<1>4. ASSUME CancelInRecording PROVE ClaudeInv'
  BY <1>4 DEF CancelInRecording
<1>5. ASSUME CancelInClosing PROVE ClaudeInv'
  BY <1>5 DEF CancelInClosing
<1>6. ASSUME CancelInUnwinding PROVE ClaudeInv'
  BY <1>6 DEF CancelInUnwinding
<1> QED
  BY <1>1, <1>2, <1>3, <1>4, <1>5, <1>6 DEF CancelLands

LEMMA ClaudeInvNext ==
  ASSUME ClaudeInv, [ClaudeNext]_claudeVars
  PROVE  ClaudeInv'
<1>1. CASE UNCHANGED claudeVars \/ Closed
  BY <1>1
  DEF Closed, claudeVars, requestVars, textVars, toolVars, streamVars, turnVars, worldVars,
      cancelVars, historyVars, ClaudeInv, OrderInv, ResultInv
<1> QED
  BY <1>1, RunnerKeepsInv, WorldKeepsInv, CancelKeepsInv DEF ClaudeNext

\* The two invariants above hold of the generators, the exit stack and the CLI on every
\* path through claude_runner.
THEOREM ClaudeInvariant == ClaudeSpec => []ClaudeInv
  BY ClaudeInvInit, ClaudeInvNext, PTL DEF ClaudeSpec

\* Unless a stop finds the runner closing its CLI, or at the yield of the session id, no
\* file the CLI uses is removed and no slot can be given back before it has exited.
THEOREM CliGoesFirst == ClaudeSpec => []CleanupAfterCli
<1>1. ClaudeInv => CleanupAfterCli
  BY DEF ClaudeInv, CleanupAfterCli, OrderInv
<1> QED
  BY <1>1, ClaudeInvariant, PTL

\* A turn whose CLI reported an error result ends with that error; a structured turn
\* never succeeds without its output.
THEOREM ErrorsAreRaised == ClaudeSpec => []ErrorResultIsRaised
<1>1. ClaudeInv => ErrorResultIsRaised
  BY DEF ClaudeInv, ErrorResultIsRaised, ResultInv
<1> QED
  BY <1>1, ClaudeInvariant, PTL

-----------------------------------------------------------------------------
(* The exit stack: what a file is still waiting for *)

Names == {"transcript", "prompt", "mcp"}
Elements(s) == {s[i] : i \in 1..Len(s)}

\* What is still to be removed, the removal that was given to a thread left out.
Waiting == IF pc = "unwinding" THEN Elements(Below(stack)) ELSE Elements(stack)

FilesInv ==
  /\ stack \in Seq(Names)
  /\ files \subseteq Names
  /\ pc = "preparing" => stack = <<>> /\ files = {}
  /\ pc \notin {"preparing"} \cup Unwinding => stack = FullStack
  /\ pc = "unwinding" => stack # <<>>
  /\ pc = "closed" => stack = <<>>
  /\ \A f \in files :
       \/ f \in withdrawn \cup removing \cup Waiting
       \/ f = "transcript" /\ (cutIn # "none" \/ ~ephemeral)

LEMMA ElementsBelow ==
  ASSUME NEW s \in Seq(Names), s # <<>>
  PROVE  /\ Below(s) \in Seq(Names)
         /\ Top(s) \in Names
         /\ Elements(s) = Elements(Below(s)) \cup {Top(s)}
         /\ Len(s) > 0 /\ Len(Below(s)) = Len(s) - 1
<1>0. \A i \in 1..Len(s) : s[i] \in Names
  OBVIOUS
<1>1. Len(s) \in Nat /\ Len(s) > 0
  OBVIOUS
<1>2. Below(s) \in Seq(Names) /\ Len(Below(s)) = Len(s) - 1
  <2>1. \A i \in 1..(Len(s) - 1) : s[i] \in Names
    BY <1>0, <1>1
  <2> DEFINE m == Len(s) - 1
  <2>2. m \in Int /\ m >= 0 /\ \A i \in 1..m : s[i] \in Names
    BY <1>1, <2>1
  <2> HIDE DEF m
  <2>3. SubSeq(s, 1, m) \in Seq(Names) /\ Len(SubSeq(s, 1, m)) = m
    BY <2>2, SubSeqProperties
  <2> QED
    BY <2>3 DEF Below, m
<1>3. \A i \in 1..Len(s) - 1 : Below(s)[i] = s[i]
  BY <1>1 DEF Below
<1>4. 1..Len(s) = 1..(Len(s) - 1) \cup {Len(s)}
  BY <1>1
<1> QED
  BY <1>1, <1>2, <1>3, <1>4 DEF Elements, Top

LEMMA StackOfAll ==
  ASSUME ephemeral \in BOOLEAN
  PROVE  /\ FullStack \in Seq(Names)
         /\ PrivateFiles \subseteq Elements(FullStack)
         /\ ephemeral => "transcript" \in Elements(FullStack)
<1> DEFINE T == IF ephemeral THEN <<"transcript">> ELSE <<>>
           P == IF "prompt" \in PrivateFiles THEN <<"prompt">> ELSE <<>>
           M == IF "mcp" \in PrivateFiles THEN <<"mcp">> ELSE <<>>
<1>0. /\ <<>> \in Seq(Names)
      /\ <<"transcript">> \in Seq(Names) /\ <<"prompt">> \in Seq(Names) /\ <<"mcp">> \in Seq(Names)
  BY DEF Names
<1>1. T \in Seq(Names) /\ P \in Seq(Names) /\ M \in Seq(Names)
  BY <1>0
<1>2. ASSUME NEW a \in Seq(Names), NEW b \in Seq(Names)
      PROVE  a \o b \in Seq(Names) /\ Elements(a) \cup Elements(b) \subseteq Elements(a \o b)
  <2>1. a \o b \in Seq(Names) /\ Len(a \o b) = Len(a) + Len(b)
    OBVIOUS
  <2>2. \A i \in 1..Len(a) : (a \o b)[i] = a[i] /\ i \in 1..Len(a \o b)
    BY <2>1
  <2>3. \A i \in 1..Len(b) : (a \o b)[Len(a) + i] = b[i] /\ Len(a) + i \in 1..Len(a \o b)
    BY <2>1
  <2> QED
    BY <2>1, <2>2, <2>3 DEF Elements
<1>3. /\ ephemeral => "transcript" \in Elements(T)
      /\ "prompt" \in PrivateFiles => "prompt" \in Elements(P)
      /\ "mcp" \in PrivateFiles => "mcp" \in Elements(M)
  BY DEF Elements
<1> HIDE DEF T, P, M
<1>4. /\ T \o P \o M \in Seq(Names)
      /\ Elements(T) \cup Elements(P) \cup Elements(M) \subseteq Elements(T \o P \o M)
  BY <1>1, <1>2
<1>5. FullStack = T \o P \o M
  BY DEF FullStack, T, P, M
<1> QED
  BY <1>3, <1>4, <1>5, ClaudeAssumption DEF ClaudeAssumption

\* Whatever is on the stack when it is unwound stays waiting or goes to a thread.
LEMMA UnwindKeeps ==
  ASSUME NEW s \in Seq(Names), Unwind(s)
  PROVE  /\ stack' = s /\ removing \subseteq removing'
         /\ pc' \in Unwinding
         /\ pc' = "unwinding" => s # <<>>
         /\ pc' = "closed" => s = <<>>
         /\ Elements(s) \subseteq removing' \cup Waiting'
<1>1. CASE s = <<>>
  BY <1>1 DEF Unwind, Elements
<1>2. CASE s # <<>>
  BY <1>2, ElementsBelow DEF Unwind, Waiting
<1> QED
  BY <1>1, <1>2

LEMMA FilesInvInit == ClaudeInit => FilesInv
  BY DEF ClaudeInit, FilesInv, Names, Waiting

LEMMA FilesInvRunner ==
  ASSUME ClaudeInv, FilesInv, Runner
  PROVE  FilesInv'
<1> USE DEF At, Translates, LeaveAtYield, ClaudeInv, OrderInv, FilesInv, Places, FullStack, Waiting,
            requestVars, textVars, toolVars, streamVars, turnVars, worldVars,
            cancelVars, historyVars
<1>0. FullStack' = FullStack
  <2>1. ephemeral' = ephemeral
    BY DEF Runner, Prepared, PreparationFails, CliStarts, CliMissing, SessionIdYielded,
           SessionIdRecorded, SdkStreamEnds, SdkClosed, TextDelta, AssistantText, ToolCalled,
           ToolAnswered, ResultMessage, Unwound
  <2> QED
    BY <2>1 DEF FullStack
<1>1. ASSUME CliStarts PROVE FilesInv'
  BY <1>1, <1>0 DEF CliStarts
<1>2. ASSUME SessionIdYielded PROVE FilesInv'
  BY <1>2, <1>0 DEF SessionIdYielded
<1>3. ASSUME SessionIdRecorded PROVE FilesInv'
  BY <1>3, <1>0 DEF SessionIdRecorded
<1>4. ASSUME SdkStreamEnds PROVE FilesInv'
  BY <1>4, <1>0 DEF SdkStreamEnds
<1>5. ASSUME TextDelta PROVE FilesInv'
  BY <1>5, <1>0 DEF TextDelta
<1>6. ASSUME AssistantText PROVE FilesInv'
  BY <1>6, <1>0 DEF AssistantText
<1>7. ASSUME NEW u \in ToolUses, ToolCalled(u) PROVE FilesInv'
  BY <1>7, <1>0 DEF ToolCalled
<1>8. ASSUME NEW u \in ToolUses, ToolAnswered(u) PROVE FilesInv'
  BY <1>8, <1>0 DEF ToolAnswered
<1>9. ASSUME NEW isError \in BOOLEAN, NEW hasOutput \in BOOLEAN, ResultMessage(isError, hasOutput) PROVE FilesInv'
  BY <1>9, <1>0 DEF ResultMessage
<1>10. ASSUME CliMissing PROVE FilesInv'
  BY <1>10, <1>0, UnwindKeeps, ElementsBelow DEF CliMissing
<1>11. ASSUME SdkClosed PROVE FilesInv'
  BY <1>11, <1>0, UnwindKeeps, ElementsBelow DEF SdkClosed
<1>12. ASSUME Unwound PROVE FilesInv'
  BY <1>12, <1>0, UnwindKeeps, ElementsBelow DEF Unwound
<1>13. ASSUME Prepared PROVE FilesInv'
  BY <1>13, <1>0, StackOfAll, ClaudeAssumption DEF Prepared, ClaudeAssumption, Names
<1>14. ASSUME PreparationFails PROVE FilesInv'
  <2>1. PICK n \in 0..Len(FullStack) :
          /\ Unwind(SubSeq(FullStack, 1, n))
          /\ files' = {SubSeq(FullStack, 1, n)[i] : i \in 1..n} \ {"transcript"}
    BY <1>14 DEF PreparationFails
  <2> DEFINE entered == SubSeq(FullStack, 1, n)
  <2>2. entered \in Seq(Names) /\ Len(entered) = n
    BY <2>1, StackOfAll
  <2>3. files' \subseteq Elements(entered) /\ Elements(entered) \subseteq Names
    BY <2>1, <2>2 DEF Elements
  <2> HIDE DEF entered
  <2>4. Unwind(entered)
    BY <2>1 DEF entered
  <2> QED
    BY <1>14, <2>2, <2>3, <2>4, UnwindKeeps DEF PreparationFails
<1> QED
  BY <1>1, <1>2, <1>3, <1>4, <1>5, <1>6, <1>7, <1>8, <1>9, <1>10, <1>11, <1>12, <1>13, <1>14 DEF Runner

LEMMA FilesInvWorld ==
  ASSUME ClaudeInv, FilesInv, World
  PROVE  FilesInv'
<1> USE DEF ClaudeInv, OrderInv, FilesInv, Places, Names, FullStack, Waiting,
            requestVars, turnVars, historyVars
<1>1. ASSUME CliStores PROVE FilesInv'
  BY <1>1, StackOfAll DEF CliStores
<1>2. ASSUME CliExits PROVE FilesInv'
  BY <1>2, StackOfAll DEF CliExits
<1>3. ASSUME NEW r \in Names, RemovalEnds(r) PROVE FilesInv'
  BY <1>3, StackOfAll DEF RemovalEnds
<1>4. ASSUME NEW r \in Names, RemovalFails(r) PROVE FilesInv'
  BY <1>4, StackOfAll DEF RemovalFails
<1> QED
  BY <1>1, <1>2, <1>3, <1>4 DEF World, Names

LEMMA FilesInvCancel ==
  ASSUME ClaudeInv, FilesInv, CancelRequested \/ CancelLands
  PROVE  FilesInv'
<1> USE DEF Delivered, LeaveAtYield, ClaudeInv, OrderInv, FilesInv, Places, FullStack, Waiting,
            requestVars, turnVars, worldVars, historyVars
<1>1. ASSUME CancelRequested \/ CancelInPreparing PROVE FilesInv'
  BY <1>1 DEF CancelRequested, CancelInPreparing
<1>2. ASSUME CancelInReading PROVE FilesInv'
  BY <1>2, UnwindKeeps DEF CancelInReading
<1>3. ASSUME CancelInRecording PROVE FilesInv'
  BY <1>3, UnwindKeeps DEF CancelInRecording
<1>4. ASSUME CancelInClosing PROVE FilesInv'
  BY <1>4, UnwindKeeps DEF CancelInClosing
<1>5. ASSUME CancelInUnwinding PROVE FilesInv'
  <2> DEFINE below == Below(stack)
             next == IF below = <<>> THEN {} ELSE {Top(below)}
  <2>1. /\ below \in Seq(Names) /\ stack' = below
        /\ pc' = IF below = <<>> THEN "closed" ELSE "unwinding"
        /\ \/ removing' = removing \cup next /\ UNCHANGED withdrawn
           \/ /\ removing' = (removing \ {Top(stack)}) \cup next
              /\ withdrawn' = withdrawn \cup {Top(stack)}
    BY <1>5, ElementsBelow DEF CancelInUnwinding
  <2>2. Elements(below) \subseteq next \cup Waiting'
    <3>1. CASE below = <<>>
      BY <3>1 DEF Elements
    <3>2. CASE below # <<>>
      <4>1. Elements(below) = Elements(Below(below)) \cup {Top(below)}
        BY <2>1, <3>2, ElementsBelow
      <4>2. Waiting' = Elements(Below(below))
        BY <2>1, <3>2
      <4> QED
        BY <3>2, <4>1, <4>2
    <3> QED
      BY <3>1, <3>2
  <2>3. withdrawn \cup removing \subseteq withdrawn' \cup removing'
    BY <2>1
  <2> HIDE DEF below, next
  <2>4. next \subseteq removing'
    BY <2>1
  <2> QED
    BY <1>5, <2>1, <2>2, <2>3, <2>4 DEF CancelInUnwinding, below
<1> QED
  BY <1>1, <1>2, <1>3, <1>4, <1>5 DEF CancelLands

LEMMA FilesInvNext ==
  ASSUME ClaudeInv, FilesInv, [ClaudeNext]_claudeVars
  PROVE  FilesInv'
<1>1. CASE UNCHANGED claudeVars \/ Closed
  BY <1>1
  DEF Closed, claudeVars, requestVars, turnVars, worldVars, historyVars, FilesInv, Waiting,
      FullStack
<1> QED
  BY <1>1, FilesInvRunner, FilesInvWorld, FilesInvCancel DEF ClaudeNext

\* What is left when the runner is closed was not removed for a reason of its own: its
\* removal was withdrawn or failed, or the CLI outlived it.
THEOREM FilesAreGone == ClaudeSpec => []NothingLeftBehind
<1>1. FilesInv => NothingLeftBehind
  BY DEF FilesInv, NothingLeftBehind, Waiting, Elements
<1> QED
  BY <1>1, ClaudeInvariant, FilesInvInit, FilesInvNext, PTL DEF ClaudeSpec

-----------------------------------------------------------------------------
(* The safe half of CleanupEnds *)

\* What the invariants above do not say of CleanupNeverStuck.
HeardInv ==
  /\ cancels > 0 => cancelling \/ IsClosing
  /\ cancelling => pc # "closed"

\* A step of the runner is taken at a place where no cancel is pending, and a runner that
\* is closing goes on closing.
LEMMA RunnerSteps ==
  ASSUME Runner
  PROVE  /\ ~cancelling /\ UNCHANGED cancelVars /\ pc # "closed"
         /\ IsClosing => SdkClosed \/ Unwound
         /\ IsClosing => IsClosing'
BY DEF Runner, At, Translates, Unwind, IsClosing, Prepared, PreparationFails, CliStarts,
  CliMissing, SessionIdYielded, SessionIdRecorded, SdkStreamEnds, SdkClosed, TextDelta,
  AssistantText, ToolCalled, ToolAnswered, ResultMessage, Unwound

\* A cancel that lands makes the runner close, wherever it is.
LEMMA CancelCloses ==
  ASSUME CancelLands
  PROVE  pc # "closed" /\ cancelling' = FALSE /\ IsClosing'
BY DEF CancelLands, Delivered, LeaveAtYield, Unwind, IsClosing, CancelInPreparing,
  CancelInReading, CancelInRecording, CancelInClosing, CancelInUnwinding

LEMMA OthersWait ==
  ASSUME World \/ CancelRequested \/ Closed \/ UNCHANGED claudeVars
  PROVE  /\ pc' = pc /\ stack' = stack
         /\ CancelRequested \/ UNCHANGED cancelVars
BY DEF World, CliStores, CliExits, RemovalEnds, RemovalFails, CancelRequested, Closed, claudeVars,
  turnVars

LEMMA HeardKept ==
  ASSUME HeardInv, [ClaudeNext]_claudeVars
  PROVE  HeardInv'
<1> USE DEF HeardInv, cancelVars
<1>1. CASE Runner
  BY <1>1, RunnerSteps
<1>2. CASE CancelLands
  BY <1>2, CancelCloses
<1>3. CASE World \/ CancelRequested \/ Closed \/ UNCHANGED claudeVars
  <2>1. CASE CancelRequested
    BY <2>1 DEF CancelRequested, turnVars
  <2>2. CASE ~CancelRequested
    BY <1>3, <2>2, OthersWait DEF IsClosing
  <2> QED
    BY <2>1, <2>2
<1> QED
  BY <1>1, <1>2, <1>3 DEF ClaudeNext

\* Whatever is on the stack and however often the turn is cancelled, no cancel is swallowed
\* and the closing is never at a wait that nothing ends.
THEOREM CleanupIsNeverStuck == ClaudeSpec => []CleanupNeverStuck
<1>1. ClaudeInit => HeardInv
  BY DEF ClaudeInit, HeardInv
<1>2. ClaudeInv /\ FilesInv /\ HeardInv => CleanupNeverStuck
  BY ElementsBelow DEF ClaudeInv, OrderInv, FilesInv, HeardInv, IsClosing, Names,
    CleanupNeverStuck
<1> QED
  BY <1>1, <1>2, HeardKept, ClaudeInvariant, FilesInvInit, FilesInvNext, PTL DEF ClaudeSpec

\* A wait that is over, also by a cancel, is not come back to.
LEMMA WaitsGoDown ==
  ASSUME ClaudeInv, FilesInv, IsClosing, Runner \/ CancelLands
  PROVE  WaitsLeft' \in Nat /\ WaitsLeft \in Nat /\ WaitsLeft' < WaitsLeft
<1>0. pc \in {"sdk_closing", "unwinding"}
  BY RunnerSteps, CancelCloses DEF IsClosing
<1>1. stack \in Seq(Names) /\ Len(stack) \in Nat
  BY DEF FilesInv
<1>2. CASE pc = "sdk_closing"
  <2>1. Unwind(stack)
    BY <1>2, RunnerSteps
    DEF SdkClosed, Unwound, At, IsClosing, CancelLands, CancelInPreparing, CancelInReading,
      CancelInRecording, CancelInClosing, CancelInUnwinding, LeaveAtYield
  <2> QED
    BY <1>1, <1>2, <2>1 DEF Unwind, WaitsLeft
<1>3. CASE pc = "unwinding"
  <2>1. stack' = Below(stack) /\ pc' # "sdk_closing"
    BY <1>3, RunnerSteps
    DEF SdkClosed, Unwound, Unwind, At, IsClosing, CancelLands, CancelInPreparing,
      CancelInReading, CancelInRecording, CancelInClosing, CancelInUnwinding
  <2>2. Len(Below(stack)) = Len(stack) - 1 /\ Len(stack) > 0
    BY <1>1, <1>3, ElementsBelow DEF FilesInv
  <2> QED
    BY <1>1, <1>3, <2>1, <2>2 DEF WaitsLeft
<1> QED
  BY <1>0, <1>2, <1>3

\* A runner that is closing waits once for its CLI and once for each file it has to remove.
THEOREM CleanupOnlyAdvances == ClaudeSpec => CleanupAdvances
<1>1. ASSUME ClaudeInv, FilesInv, [ClaudeNext]_claudeVars, IsClosing
      PROVE  AdvancesClosing
  <2>1. CASE Runner \/ CancelLands
    <3>1. IsClosing'
      BY <1>1, <2>1, RunnerSteps, CancelCloses
    <3>2. WaitsLeft' \in Nat /\ WaitsLeft \in Nat /\ WaitsLeft' < WaitsLeft
      BY <1>1, <2>1, WaitsGoDown
    <3>3. WaitsLeft' <= WaitsLeft
      BY <3>2
    <3> QED
      BY <3>1, <3>2, <3>3 DEF AdvancesClosing, IsClosing
  <2>2. CASE ~(Runner \/ CancelLands)
    <3>1. pc' = pc /\ stack' = stack
      BY <1>1, <2>2, OthersWait DEF ClaudeNext
    <3>2. WaitsLeft' = WaitsLeft
      BY <3>1 DEF WaitsLeft
    <3>3. WaitsLeft \in Nat
      BY <1>1 DEF WaitsLeft, FilesInv
    <3>4. WaitsLeft' <= WaitsLeft
      BY <3>2, <3>3
    <3> QED
      BY <1>1, <2>2, <3>1, <3>4 DEF AdvancesClosing, IsClosing
  <2> QED
    BY <2>1, <2>2
<1>2. ClaudeInv /\ FilesInv /\ [ClaudeNext]_claudeVars
        => [IsClosing => AdvancesClosing]_claudeVars
  BY <1>1
<1> QED
  BY <1>2, ClaudeInvariant, FilesInvInit, FilesInvNext, PTL DEF ClaudeSpec, CleanupAdvances

-----------------------------------------------------------------------------
(* The translation of messages *)

\* A block is in progress only while its deltas come; a call is remembered as it is seen.
EventsInv ==
  /\ said \in Nat /\ sent \in Nat /\ parts \in Nat
  /\ tokenStreaming \in BOOLEAN /\ partial \in BOOLEAN /\ (partial => tokenStreaming)
  /\ toolNames = called
  /\ EventsMatchMessages

LEMMA EventsInvNext ==
  ASSUME EventsInv, [ClaudeNext]_claudeVars
  PROVE  EventsInv'
<1> USE DEF EventsInv, EventsMatchMessages
<1>1. ASSUME UNCHANGED <<requestVars, streamVars>> PROVE EventsInv'
  BY <1>1 DEF requestVars, streamVars, textVars, toolVars
<1>2. CASE TextDelta
  BY <1>2 DEF TextDelta, Translates, requestVars, toolVars
<1>9. CASE AssistantText
  <2>1. /\ said' = said + 1 /\ parts' = parts + 1 /\ partial' = FALSE /\ partial = tokenStreaming
        /\ sent' = IF tokenStreaming THEN sent ELSE sent + 1
        /\ UNCHANGED <<tokenStreaming, called, toolNames, misnamed>>
    BY <1>9 DEF AssistantText, Translates, requestVars, toolVars
  <2>2. sent' = said' /\ said' \in Nat
    <3>1. CASE tokenStreaming
      <4>1. sent = said + 1
        BY <2>1, <3>1
      <4> QED
        BY <2>1, <3>1, <4>1
    <3>2. CASE ~tokenStreaming
      <4>1. sent = said + 0
        BY <2>1, <3>2
      <4> QED
        BY <2>1, <3>2, <4>1
    <3> QED
      BY <3>1, <3>2
  <2>3. sent' = said' + (IF partial' THEN 1 ELSE 0)
    BY <2>1, <2>2
  <2> QED
    BY <2>1, <2>2, <2>3
<1>3. ASSUME NEW u \in ToolUses, ToolCalled(u) \/ ToolAnswered(u) PROVE EventsInv'
  BY <1>3 DEF ToolCalled, ToolAnswered, Translates, requestVars, textVars
<1>4. ASSUME NEW isError \in BOOLEAN, NEW hasOutput \in BOOLEAN, ResultMessage(isError, hasOutput)
      PROVE  EventsInv'
  BY <1>4 DEF ResultMessage, Translates, requestVars, textVars, toolVars
<1>5. ASSUME World PROVE EventsInv'
  BY <1>1, <1>5 DEF World, CliStores, CliExits, RemovalEnds, RemovalFails
<1>6. CASE CancelRequested \/ CancelLands
  BY <1>1, <1>6
  DEF CancelRequested, CancelLands, CancelInPreparing, CancelInReading, CancelInRecording,
      CancelInClosing, CancelInUnwinding
<1>7. CASE Closed \/ UNCHANGED claudeVars
  BY <1>1, <1>7 DEF Closed, claudeVars
<1>8. CASE Prepared \/ PreparationFails \/ CliStarts \/ CliMissing \/ SessionIdYielded
           \/ SessionIdRecorded \/ SdkStreamEnds \/ SdkClosed \/ Unwound
  BY <1>1, <1>8
  DEF Prepared, PreparationFails, CliStarts, CliMissing, SessionIdYielded, SessionIdRecorded,
      SdkStreamEnds, SdkClosed, Unwound
<1> QED
  BY <1>2, <1>3, <1>4, <1>5, <1>6, <1>7, <1>8, <1>9 DEF ClaudeNext, Runner

\* Every text reaches the client once, as deltas or as a block, and finalText has all of
\* them; a tool result carries the name of its call.
THEOREM EventsAreFaithful == ClaudeSpec => []EventsMatchMessages
<1>1. ClaudeInit => EventsInv
  <2> SUFFICES ASSUME ClaudeInit PROVE EventsInv
    OBVIOUS
  <2>1. said = 0 /\ sent = 0 /\ parts = 0 /\ partial = FALSE /\ tokenStreaming \in BOOLEAN
    BY DEF ClaudeInit
  <2>2. sent = said + (IF partial THEN 1 ELSE 0)
    BY <2>1
  <2>3. toolNames = called /\ misnamed = {}
    BY DEF ClaudeInit
  <2>4. said \in Nat /\ sent \in Nat /\ parts \in Nat /\ parts = said
    BY <2>1
  <2>5. partial \in BOOLEAN /\ (partial => tokenStreaming) /\ tokenStreaming \in BOOLEAN
    BY <2>1
  <2>6. EventsMatchMessages
    BY <2>2, <2>3, <2>4 DEF EventsMatchMessages
  <2> QED
    BY <2>3, <2>4, <2>5, <2>6 DEF EventsInv
<1>2. EventsInv => EventsMatchMessages
  BY DEF EventsInv
<1> QED
  BY <1>1, <1>2, EventsInvNext, PTL DEF ClaudeSpec

-----------------------------------------------------------------------------
(* Types *)

LEMMA UnwindTypes ==
  ASSUME NEW s \in Seq(Names), Unwind(s), removing \subseteq Names
  PROVE  stack' \in Seq(Names) /\ removing' \subseteq Names /\ pc' \in Places
<1>1. s # <<>> => Top(s) \in Names
  BY ElementsBelow
<1> QED
  BY <1>1 DEF Unwind, Places

Counts == said \in 0..MaxTexts /\ cancels \in 0..MaxCancels
Flags ==
  /\ ephemeral \in BOOLEAN /\ tokenStreaming \in BOOLEAN /\ structured \in BOOLEAN
  /\ partial \in BOOLEAN /\ idSeen \in BOOLEAN /\ resultError \in BOOLEAN /\ cancelling \in BOOLEAN
Others ==
  /\ called \subseteq ToolUses /\ toolNames \subseteq ToolUses
  /\ misnamed \subseteq ToolUses /\ done \in {"none", "plain", "structured"}
  /\ removing \subseteq Names /\ withdrawn \subseteq Names
  /\ fault \in {"none", "internal", "sdk_error", "result_error", "cancelled"}
  /\ cutIn \in Places \cup {"none"}

LEMMA CountsNext ==
  ASSUME Counts, [ClaudeNext]_claudeVars
  PROVE  Counts'
<1> USE ClaudeAssumption
    DEF ClaudeAssumption, Counts, Translates, Delivered, streamVars, textVars, cancelVars
<1>1. CASE TextDelta \/ AssistantText \/ CancelRequested
  BY <1>1 DEF TextDelta, AssistantText, CancelRequested
<1>2. ASSUME NEW u \in ToolUses, ToolCalled(u) \/ ToolAnswered(u) PROVE Counts'
  BY <1>2 DEF ToolCalled, ToolAnswered
<1>3. ASSUME NEW isError \in BOOLEAN, NEW hasOutput \in BOOLEAN, ResultMessage(isError, hasOutput)
      PROVE  Counts'
  BY <1>3 DEF ResultMessage
<1>4. CASE World \/ Closed \/ UNCHANGED claudeVars
  BY <1>4 DEF World, CliStores, CliExits, RemovalEnds, RemovalFails, Closed, claudeVars
<1>5. CASE CancelLands
  BY <1>5
  DEF CancelLands, CancelInPreparing, CancelInReading, CancelInRecording, CancelInClosing,
      CancelInUnwinding
<1>6. CASE Prepared \/ PreparationFails \/ CliStarts \/ CliMissing \/ SessionIdYielded
           \/ SessionIdRecorded \/ SdkStreamEnds \/ SdkClosed \/ Unwound
  BY <1>6
  DEF Prepared, PreparationFails, CliStarts, CliMissing, SessionIdYielded, SessionIdRecorded,
      SdkStreamEnds, SdkClosed, Unwound
<1> QED
  BY <1>1, <1>2, <1>3, <1>4, <1>5, <1>6 DEF ClaudeNext, Runner

LEMMA FlagsNext ==
  ASSUME Flags, [ClaudeNext]_claudeVars
  PROVE  Flags'
<1> USE DEF Flags, Translates, Delivered, requestVars, streamVars, textVars, turnVars, cancelVars
<1>1. CASE TextDelta \/ AssistantText \/ CancelRequested
  BY <1>1 DEF TextDelta, AssistantText, CancelRequested
<1>2. ASSUME NEW u \in ToolUses, ToolCalled(u) \/ ToolAnswered(u) PROVE Flags'
  BY <1>2 DEF ToolCalled, ToolAnswered
<1>3. ASSUME NEW isError \in BOOLEAN, NEW hasOutput \in BOOLEAN, ResultMessage(isError, hasOutput)
      PROVE  Flags'
  BY <1>3 DEF ResultMessage
<1>4. CASE World \/ Closed \/ UNCHANGED claudeVars
  BY <1>4 DEF World, CliStores, CliExits, RemovalEnds, RemovalFails, Closed, claudeVars
<1>5. CASE CancelLands
  BY <1>5
  DEF CancelLands, CancelInPreparing, CancelInReading, CancelInRecording, CancelInClosing,
      CancelInUnwinding
<1>6. CASE Prepared \/ PreparationFails \/ CliStarts \/ CliMissing \/ SessionIdYielded
           \/ SessionIdRecorded \/ SdkStreamEnds \/ SdkClosed \/ Unwound
  BY <1>6
  DEF Prepared, PreparationFails, CliStarts, CliMissing, SessionIdYielded, SessionIdRecorded,
      SdkStreamEnds, SdkClosed, Unwound
<1> QED
  BY <1>1, <1>2, <1>3, <1>4, <1>5, <1>6 DEF ClaudeNext, Runner

LEMMA OthersNext ==
  ASSUME Others, ClaudeInv, FilesInv, [ClaudeNext]_claudeVars
  PROVE  Others'
<1>0. /\ pc \in Places /\ stack \in Seq(Names) /\ Names = {"transcript", "prompt", "mcp"}
      /\ stack # <<>> => Below(stack) \in Seq(Names) /\ Top(stack) \in Names
      /\ pc = "unwinding" => stack # <<>>
  BY ElementsBelow DEF ClaudeInv, OrderInv, FilesInv, Names
<1>u. ASSUME NEW s \in Seq(Names), Unwind(s), Others PROVE removing' \subseteq Names
  BY <1>u, UnwindTypes DEF Others
<1> USE DEF Others, Translates, Delivered, streamVars, textVars, toolVars, turnVars, worldVars,
            historyVars
<1>1. CASE TextDelta \/ AssistantText \/ CancelRequested
  BY <1>1 DEF TextDelta, AssistantText, CancelRequested
<1>2. ASSUME NEW u \in ToolUses, ToolCalled(u) \/ ToolAnswered(u) PROVE Others'
  BY <1>2 DEF ToolCalled, ToolAnswered
<1>3. ASSUME NEW isError \in BOOLEAN, NEW hasOutput \in BOOLEAN, ResultMessage(isError, hasOutput)
      PROVE  Others'
  BY <1>3 DEF ResultMessage, DoneEvent
<1>4. CASE World \/ Closed \/ UNCHANGED claudeVars
  BY <1>0, <1>4 DEF World, CliStores, CliExits, RemovalEnds, RemovalFails, Closed, claudeVars
<1>5. CASE CancelInPreparing \/ CancelInReading \/ CancelInRecording \/ CancelInClosing
  <2>1. removing' \subseteq Names
    BY <1>0, <1>u, <1>5
    DEF CancelInPreparing, CancelInReading, CancelInRecording, CancelInClosing, LeaveAtYield
  <2> QED
    BY <1>0, <1>5, <2>1
    DEF CancelInPreparing, CancelInReading, CancelInRecording, CancelInClosing, LeaveAtYield
<1>6. CASE CancelInUnwinding
  <2>1. Top(stack) \in Names /\ (Below(stack) # <<>> => Top(Below(stack)) \in Names)
    BY <1>0, <1>6, ElementsBelow DEF CancelInUnwinding
  <2> QED
    BY <1>6, <2>1 DEF CancelInUnwinding
<1>7. CASE Prepared \/ CliStarts \/ SessionIdYielded \/ SessionIdRecorded \/ SdkStreamEnds
  BY <1>7 DEF Prepared, CliStarts, SessionIdYielded, SessionIdRecorded, SdkStreamEnds
<1>8. CASE PreparationFails
  <2>1. PICK n \in 0..Len(FullStack) : Unwind(SubSeq(FullStack, 1, n))
    BY <1>8 DEF PreparationFails
  <2>2. SubSeq(FullStack, 1, n) \in Seq(Names)
    BY <2>1, StackOfAll DEF ClaudeInv, OrderInv
  <2>3. removing' \subseteq Names
    BY <1>u, <2>1, <2>2
  <2> QED
    BY <1>8, <2>3 DEF PreparationFails
<1>9. CASE CliMissing \/ SdkClosed \/ Unwound
  <2>1. removing' \subseteq Names
    BY <1>0, <1>u, <1>9 DEF CliMissing, SdkClosed, Unwound, At
  <2> QED
    BY <1>9, <2>1 DEF CliMissing, SdkClosed, Unwound, Raised
<1> QED
  BY <1>1, <1>2, <1>3, <1>4, <1>5, <1>6, <1>7, <1>8, <1>9 DEF ClaudeNext, Runner, CancelLands

\* Every variable of the claude runner keeps its type, the bounds on texts and
\* cancellations included.
THEOREM ClaudeTypeCorrect == ClaudeSpec => []ClaudeTypeOK
<1>1. ClaudeInit => Counts /\ Flags /\ Others
  <2> SUFFICES ASSUME ClaudeInit PROVE Counts /\ Flags /\ Others
    OBVIOUS
  <2>1. Counts
    <3>1. said = 0 /\ cancels = 0
      BY DEF ClaudeInit
    <3> QED
      BY <3>1, ClaudeAssumption DEF ClaudeAssumption, Counts
  <2>2. Flags
    BY DEF ClaudeInit, Flags
  <2>3. Others
    BY DEF ClaudeInit, Others, Places
  <2> QED
    BY <2>1, <2>2, <2>3
<1>2. Counts /\ Flags /\ Others /\ ClaudeInv /\ FilesInv => ClaudeTypeOK
  BY DEF Counts, Flags, Others, ClaudeInv, OrderInv, FilesInv, Names, ClaudeTypeOK
<1> QED
  BY <1>1, <1>2, ClaudeInvariant, FilesInvInit, FilesInvNext, CountsNext, FlagsNext, OthersNext, PTL
  DEF ClaudeSpec

-----------------------------------------------------------------------------
(* The refinement *)

Place == IF pc = "closed" THEN "closed"
         ELSE IF cli = "none" THEN "opening"
         ELSE IF pc \in {"sdk_closing", "unwinding"} THEN "closing" ELSE "running"
Cut == cutIn # "none"

ContractStep ==
  /\ ephemeral' = ephemeral
  /\ \/ UNCHANGED <<Place, cli, Cut>>
     \/ Place = "opening" /\ Place' = "running" /\ cli' = "running" /\ Cut' = Cut
     \/ Place = "opening" /\ Place' = "closed" /\ cli' = cli /\ Cut' = Cut
     \/ cli = "running" /\ cli' = "exited" /\ Place' = Place /\ Cut' = Cut
     \/ Place = "running" /\ Place' = "closing" /\ cli' = cli /\ Cut' = Cut
     \/ Place = "closing" /\ Place' = "closed" /\ cli' = "exited" /\ Cut' = Cut
     \/ Place = "closing" /\ Place' \in {"closing", "closed"} /\ cli' = cli /\ Cut'
     \/ /\ Place = "running" /\ Place' \in {"closing", "closed"} /\ cli' = cli /\ Cut'
        /\ ~ephemeral

LEMMA RunnerKeeps ==
  ASSUME ClaudeInv, ClaudeInv', Runner
  PROVE  ContractStep
<1> USE DEF At, Unwind, LeaveAtYield, Translates, Delivered, Raised, Places, ClaudeInv,
            OrderInv, Place, Cut, ContractStep,
            requestVars, textVars, toolVars, streamVars, turnVars, worldVars,
            cancelVars, historyVars
<1>1. ASSUME Prepared PROVE ContractStep
  BY <1>1 DEF Prepared
<1>2. ASSUME PreparationFails PROVE ContractStep
  BY <1>2 DEF PreparationFails
<1>3. ASSUME CliStarts PROVE ContractStep
  BY <1>3 DEF CliStarts
<1>4. ASSUME CliMissing PROVE ContractStep
  BY <1>4 DEF CliMissing
<1>5. ASSUME SessionIdYielded PROVE ContractStep
  BY <1>5 DEF SessionIdYielded
<1>6. ASSUME SessionIdRecorded PROVE ContractStep
  BY <1>6 DEF SessionIdRecorded
<1>7. ASSUME SdkStreamEnds PROVE ContractStep
  BY <1>7 DEF SdkStreamEnds
<1>8. ASSUME SdkClosed PROVE ContractStep
  BY <1>8 DEF SdkClosed
<1>9. ASSUME TextDelta PROVE ContractStep
  BY <1>9 DEF TextDelta
<1>10. ASSUME AssistantText PROVE ContractStep
  BY <1>10 DEF AssistantText
<1>11. ASSUME Unwound PROVE ContractStep
  BY <1>11 DEF Unwound
<1>12. ASSUME NEW u \in ToolUses, ToolCalled(u) PROVE ContractStep
  BY <1>12 DEF ToolCalled
<1>13. ASSUME NEW u \in ToolUses, ToolAnswered(u) PROVE ContractStep
  BY <1>13 DEF ToolAnswered
<1>14. ASSUME NEW isError \in BOOLEAN, NEW hasOutput \in BOOLEAN, ResultMessage(isError, hasOutput) PROVE ContractStep
  BY <1>14 DEF ResultMessage, DoneEvent
<1> QED
  BY <1>1, <1>2, <1>3, <1>4, <1>5, <1>6, <1>7, <1>8, <1>9, <1>10, <1>11, <1>12, <1>13, <1>14 DEF Runner

LEMMA WorldKeeps ==
  ASSUME ClaudeInv, ClaudeInv', World
  PROVE  ContractStep
<1> USE DEF At, Unwind, LeaveAtYield, Translates, Delivered, Raised, Places, ClaudeInv,
            OrderInv, Place, Cut, ContractStep,
            requestVars, textVars, toolVars, streamVars, turnVars, worldVars,
            cancelVars, historyVars
<1>1. ASSUME CliStores PROVE ContractStep
  BY <1>1 DEF CliStores
<1>2. ASSUME CliExits PROVE ContractStep
  BY <1>2 DEF CliExits
<1>3. ASSUME NEW r \in {"transcript", "prompt", "mcp"}, RemovalEnds(r) PROVE ContractStep
  BY <1>3 DEF RemovalEnds
<1>4. ASSUME NEW r \in {"transcript", "prompt", "mcp"}, RemovalFails(r) PROVE ContractStep
  BY <1>4 DEF RemovalFails
<1> QED
  BY <1>1, <1>2, <1>3, <1>4 DEF World

LEMMA CancelKeeps ==
  ASSUME ClaudeInv, ClaudeInv', CancelRequested \/ CancelLands
  PROVE  ContractStep
<1> USE DEF At, Unwind, LeaveAtYield, Translates, Delivered, Raised, Places, ClaudeInv,
            OrderInv, Place, Cut, ContractStep,
            requestVars, textVars, toolVars, streamVars, turnVars, worldVars,
            cancelVars, historyVars
<1>1. ASSUME CancelRequested PROVE ContractStep
  BY <1>1 DEF CancelRequested
<1>2. ASSUME CancelInPreparing PROVE ContractStep
  BY <1>2 DEF CancelInPreparing
<1>3. ASSUME CancelInReading PROVE ContractStep
  BY <1>3 DEF CancelInReading
<1>4. ASSUME CancelInRecording PROVE ContractStep
  BY <1>4 DEF CancelInRecording
<1>5. ASSUME CancelInClosing PROVE ContractStep
  BY <1>5 DEF CancelInClosing
<1>6. ASSUME CancelInUnwinding PROVE ContractStep
  BY <1>6 DEF CancelInUnwinding
<1> QED
  BY <1>1, <1>2, <1>3, <1>4, <1>5, <1>6 DEF CancelLands

LEMMA ClaudeKeeps ==
  ASSUME ClaudeInv, ClaudeInv', [ClaudeNext]_claudeVars
  PROVE  ContractStep
<1>1. CASE UNCHANGED claudeVars \/ Closed
  BY <1>1
  DEF Closed, claudeVars, requestVars, turnVars, worldVars, historyVars, ContractStep, Place, Cut
<1> QED
  BY <1>1, RunnerKeeps, WorldKeeps, CancelKeeps DEF ClaudeNext

\* For Turn: a stateless turn's CLI outlives its runner only if a cancel landed in the
\* closing, a session turn's also if one found the runner at its yield.
THEOREM ClaudeIsARunner == ClaudeSpec => KeepsContract
<1>1. ClaudeInit => Contract!ContractInit
  BY DEF ClaudeInit, Contract!ContractInit
<1>2. ASSUME ClaudeInv, ClaudeInv', [ClaudeNext]_claudeVars
      PROVE  [Contract!ContractNext]_(Contract!contractVars)
  <2>1. ContractStep
    BY <1>2, ClaudeKeeps
  <2> QED
    BY <2>1
    DEF ContractStep, Place, Cut, Contract!contractVars, Contract!ContractNext,
        Contract!Spawn, Contract!OpeningFails, Contract!Exits, Contract!Ends,
        Contract!Closes, Contract!IsCut, Contract!Detach
<1> QED
  BY <1>1, <1>2, ClaudeInvariant, PTL
  DEF ClaudeSpec, KeepsContract, Contract!ContractSpec
=============================================================================

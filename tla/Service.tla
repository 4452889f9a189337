------------------------------- MODULE Service -------------------------------
(***************************************************************************)
(* POST /v1/converse up to its answer, on top of the start-up and the      *)
(* registry: authentication, validation of the body, the run limits, the   *)
(* resume check, the system prompt, and the reservation as the last step.  *)
(* The route awaits twice on its way, so other requests, ends of turns and *)
(* DELETEs come in between.                                                *)
(***************************************************************************)
EXTENDS Admission, Startup, Sequences

CONSTANTS
  Body,        \* what each request asks for
  Unset,       \* a limit or a model that is not given
  MaxPending   \* bound: requests between their arrival and their answer

ASSUME ServiceAssumption ==
  /\ \A d \in Deployments :
       /\ d.timeout \in Nat \ {0}
       /\ d.maxTurns \in Nat \cup {Unset} /\ d.maxBudget \in Nat \cup {Unset}
       /\ Unset \notin d.models
       /\ d.claudeMd \in BOOLEAN
       /\ d.allowedTools \in Seq(STRING)   \* characters
  /\ \A t \in Turns :
       /\ Body[t].timeout \in (Nat \ {0}) \cup {Unset}
       /\ Body[t].maxTurns \in Nat \cup {Unset} /\ Body[t].maxBudget \in Nat \cup {Unset}
       /\ Body[t].stateless \in BOOLEAN /\ Body[t].resumes \in BOOLEAN
       /\ Body[t].ownPrompt \in BOOLEAN
  /\ Unset \notin Nat
  /\ MaxPending \in Nat

VARIABLES
  place        \* of each request: "idle", "resume", "prompt" or "streaming"

serviceVars == <<admissionVars, startupVars, place>>

ServiceInit ==
  /\ AdmissionInit /\ StartupInit
  /\ place = [t \in Turns |-> "idle"]

-----------------------------------------------------------------------------
(* _run_limits *)

\* _within
Within(requested, ceiling) == Unset \notin {requested, ceiling} => requested <= ceiling

\* Mutant of Allowed: what codex has no limit for is left alone instead of refused.
AllowedIgnoring(b, d) ==
  /\ b.model # Unset => b.model \in d.models
  /\ Within(b.timeout, d.timeout)
  /\ d.provider = "codex" \/ (Within(b.maxTurns, d.maxTurns) /\ Within(b.maxBudget, d.maxBudget))

\* What a request may ask for: to lower a limit, and a model the operator listed.
Allowed(b, d) ==
  /\ b.model # Unset => b.model \in d.models
  /\ Within(b.timeout, d.timeout)
  /\ IF d.provider = "codex"
       THEN b.maxTurns = Unset /\ b.maxBudget = Unset
       ELSE Within(b.maxTurns, d.maxTurns) /\ Within(b.maxBudget, d.maxBudget)

Or(requested, default) == IF requested = Unset THEN default ELSE requested

RunLimits(b, d) ==
  LET claude == d.provider = "claude" IN
  [timeout   |-> Or(b.timeout, d.timeout),
   model     |-> b.model,
   maxTurns  |-> IF claude THEN Or(b.maxTurns, d.maxTurns) ELSE Unset,
   maxBudget |-> IF claude THEN Or(b.maxBudget, d.maxBudget) ELSE Unset]

-----------------------------------------------------------------------------
(* _tool_rules: a list of permission rules, character by character *)

\* str.strip
Stripped(rule) ==
  LET kept == {i \in DOMAIN rule : rule[i] # " "} IN
  IF kept = {} THEN <<>>
  ELSE SubSeq(rule, CHOOSE i \in kept : \A j \in kept : i <= j,
                    CHOOSE i \in kept : \A j \in kept : i >= j)

\* What is returned: the rules without the blanks around them, and none that is blank.
Cleaned(rules) == SelectSeq([i \in DOMAIN rules |-> Stripped(rules[i])], LAMBDA r : r # <<>>)

\* What a character adds to the depth.
Deeper(ch) == CASE ch = "(" -> 1 [] ch = ")" -> -1 [] OTHER -> 0

Joined(was, ch) == [was EXCEPT !.current = Append(@, ch), !.depth = @ + Deeper(ch)]

\* Mutant of AfterChar: split(","), as the other lists of the settings are.
AfterCharSplit(was, ch) ==
  IF ch = ","
    THEN [was EXCEPT !.rules = Append(@, was.current), !.current = <<>>]
    ELSE Joined(was, ch)

\* The body of the loop: a comma outside parentheses ends a rule, the rest belongs to it.
AfterChar(was, ch) ==
  IF ch = "," /\ was.depth = 0
    THEN [was EXCEPT !.rules = Append(@, was.current), !.current = <<>>]
    ELSE Joined(was, ch)

\* What the loop has in hand after each number of characters.
Loop(value) ==
  LET after[n \in 0..Len(value)] ==
        IF n = 0 THEN [rules |-> <<>>, current |-> <<>>, depth |-> 0]
        ELSE AfterChar(after[n - 1], value[n])
  IN after

ToolRules(value) ==
  LET end == Loop(value)[Len(value)] IN Cleaned(Append(end.rules, end.current))

-----------------------------------------------------------------------------
(* The route *)

Pending == {t \in Turns : place[t] \in {"resume", "prompt"}}
Streaming == {t \in Turns : place[t] = "streaming"}

Proceed(t, p) ==
  /\ place' = [place EXCEPT ![t] = p]
  /\ UNCHANGED <<admissionVars, startupVars>>

\* A pre-stream error: a status and a body, and nothing of the request stays.
Reject(t) == Proceed(t, "idle")

Arrives(t) == phase = "serving" /\ place[t] = "idle" /\ Cardinality(Pending) < MaxPending

\* The model_validator of ConverseRequest; "" as sessionId is none.
Valid(b) == ~(b.stateless /\ b.resumes)

\* require_bearer: any request may come without the right token.
Unauthorised(t) == Arrives(t) /\ Reject(t)

NotAllowed(t) ==
  /\ Arrives(t)
  /\ ~Valid(Body[t]) \/ ~Allowed(Body[t], deployment)
  /\ Reject(t)

\* Mutant of Checked: the key is reserved before what may still fail.
CheckedReserving(t) ==
  /\ Arrives(t)
  /\ Valid(Body[t]) /\ Allowed(Body[t], deployment)
  /\ Reserve(t)
  /\ place' = [place EXCEPT ![t] = IF Body[t].resumes THEN "resume" ELSE "prompt"]
  /\ UNCHANGED startupVars

Checked(t) ==
  /\ Arrives(t)
  /\ Valid(Body[t]) /\ Allowed(Body[t], deployment)
  /\ Proceed(t, IF Body[t].resumes THEN "resume" ELSE "prompt")

\* _preflight_resume comes back from its thread: the id was issued to the key or it was
\* not (which of the two is SessionStore's subject), or its record cannot be read.
Issued(t) == place[t] = "resume" /\ Proceed(t, "prompt")
NotIssued(t) == place[t] = "resume" /\ Reject(t)
RecordUnreadable(t) == place[t] = "resume" /\ Reject(t)

\* _merge_system_prompt: only a request without a prompt of its own reads CLAUDE.md.
PromptUnreadable(t) ==
  /\ place[t] = "prompt" /\ ~Body[t].ownPrompt /\ deployment.claudeMd
  /\ Reject(t)

\* turn.start
Busy(t) == place[t] = "prompt" /\ ~Reservable(t) /\ Reject(t)

Started(t) ==
  /\ place[t] = "prompt"
  /\ Reserve(t)
  /\ place' = [place EXCEPT ![t] = "streaming"]
  /\ UNCHANGED startupVars

Request(t) ==
  \/ Unauthorised(t) \/ NotAllowed(t) \/ Checked(t) \/ Issued(t) \/ NotIssued(t)
  \/ RecordUnreadable(t) \/ PromptUnreadable(t) \/ Busy(t) \/ Started(t)

\* Turns end (shutdown stops several in one step), and one that was refused or has left
\* may call release all the same.
Leave(S) ==
  /\ Release(S)
  /\ place' = [t \in Turns |-> IF t \in S THEN "idle" ELSE place[t]]
  /\ UNCHANGED startupVars

Delete(k) ==
  /\ phase = "serving"
  /\ Hold(k) \/ Unhold(k)
  /\ UNCHANGED <<startupVars, place>>

Start == StartupNext /\ UNCHANGED <<admissionVars, place>>

ServiceNext ==
  \/ Start
  \/ \E t \in Turns : Request(t)
  \/ \E S \in SUBSET Streaming : Leave(S)
  \/ \E t \in Turns \ (Pending \cup Streaming) : Leave({t})
  \/ \E k \in Keys : Delete(k)

ServiceSpec == ServiceInit /\ [][ServiceNext]_serviceVars /\ StartupFairness
-----------------------------------------------------------------------------
\* What was asked for holds, and what may not be exceeded is not.
Holds(limit, asked, ceiling) ==
  /\ asked # Unset => limit = asked
  /\ ceiling # Unset => limit # Unset /\ limit <= ceiling

LimitsHold == \A t \in RegisteredTurns :
  LET limits == RunLimits(Body[t], deployment)
      OfClaude(ceiling) == IF deployment.provider = "claude" THEN ceiling ELSE Unset
  IN /\ Holds(limits.timeout, Body[t].timeout, deployment.timeout)
     /\ Holds(limits.maxTurns, Body[t].maxTurns, OfClaude(deployment.maxTurns))
     /\ Holds(limits.maxBudget, Body[t].maxBudget, OfClaude(deployment.maxBudget))
     /\ limits.model \in deployment.models \cup {Unset}

-----------------------------------------------------------------------------
(* Permission rules, said without the loop *)

\* How many more parentheses are opened than closed.
Depth(value, n) ==
  Cardinality({i \in 1..n : value[i] = "("}) - Cardinality({i \in 1..n : value[i] = ")"})

\* A comma outside parentheses separates two rules; the last rule ends with the text.
Separators(value) == {i \in 1..Len(value) : value[i] = "," /\ Depth(value, i) = 0}
Ends(value) == Separators(value) \cup {Len(value) + 1}
EndsUpTo(value, i) == {e \in Ends(value) : e <= i}

\* Where the nth rule ends; the first one starts after position 0.
EndOf(value, n) == CHOOSE e \in {0} \cup Ends(value) : Cardinality(EndsUpTo(value, e)) = n

\* The text between two ends that follow one another is a rule.
WholeRules(value) ==
  Cleaned([n \in 1..Cardinality(Ends(value)) |->
             SubSeq(value, EndOf(value, n - 1) + 1, EndOf(value, n) - 1)])

RulesHold ==
  RegisteredTurns # {} =>
    ToolRules(deployment.allowedTools) = WholeRules(deployment.allowedTools)

\* Every turn that is let in runs as the operator configured and as the client asked: a
\* limit the client sets is the turn's limit, one he leaves open has the operator's, none
\* exceeds the operator's, and no permission rule is cut in two
\* or joined to the next.
RunsAsConfigured == LimitsHold /\ RulesHold

\* Before start-up is through, in particular its login, no request is under way and no key
\* is held; and none is after start-up failed.
NothingBeforeServing == Pending \cup Streaming \cup held # {} => phase = "serving"

\* Whoever holds a reservation is streaming: a request that is refused, wherever on its
\* way, leaves no slot taken, and nothing is awaited while one holds its slots.
OnlyStreamsHold == RegisteredTurns = Streaming
=============================================================================

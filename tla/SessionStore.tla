---------------------------- MODULE SessionStore ----------------------------
(***************************************************************************)
(* sidecar.session and what works on it: the workspace of a sessionKey,    *)
(* the record of the session ids it was issued and the transcripts the CLI *)
(* stores, under session turns, the resume check and DELETE.               *)
(*                                                                         *)
(* File work runs in threads.  A cancelled await leaves its thread running *)
(* (or withdraws it, if it has not begun): the turn ends and gives its     *)
(* reservation back, the thread goes on.  A turn is modelled here by the   *)
(* file work it does and by its reservation; its task is the matter of     *)
(* Turn, and its CLI is taken to exit before the reservation is released.  *)
(***************************************************************************)
EXTENDS Admission

CONSTANTS
  Ids,           \* session ids
  NoId,          \* session_id is None
  Resume,        \* body.session_id of each turn's request, or NoId
  NewId          \* the id the CLI gives a turn that it does not continue under the old one

ASSUME StoreAssumption ==
  /\ NoId \notin Ids
  /\ Resume \in [Turns -> Ids \cup {NoId}]
  /\ NewId \in [Turns -> Ids]
  /\ \A t, u \in Turns : NewId[t] = NewId[u] => t = u

VARIABLES
  provider,      \* PROVIDER, which never changes: "claude" or "codex"
  place,         \* where the request or its turn is
  session,       \* the session the CLI of the turn runs
  makers,        \* turns whose mkdir a thread is at
  writer,        \* remember_session_id in its thread, per turn
  workspace,     \* does the workspace of the key exist
  record,        \* the ids recorded for the key
  stored,        \* the sessions whose transcript turns of the key have stored
  deletion,      \* _remove_session of the key: what it removes next
  doomed,        \* the transcripts it has found
  issued,        \* history: ids the CLI gave turns of the key
  lost,          \* history: ids whose turn ended before they were recorded
  unrecorded,    \* history: ids whose recording failed
  late,          \* history: turns whose mkdir ran after their end
  clean          \* history: no turn has started since the last successful DELETE

requestVars == <<place, session>>
threadVars == <<makers, writer>>
fileVars == <<workspace, record, stored>>
deleteVars == <<deletion, doomed>>
storeHistory == <<issued, lost, unrecorded, late, clean>>
storeVars ==
  <<provider, requestVars, threadVars, fileVars, deleteVars, storeHistory, admissionVars>>

\* "checked": may resume, not admitted yet; "refused": 400 or 429; "workspace": waiting
\* for mkdir; "running": the CLI runs; "recording": the turn waits for the record;
\* "known": running, its id recorded.
Places == {"new", "checked", "refused", "workspace", "running", "recording", "known", "over"}

Key(t) == SessionKey[t]
TurnsOf(k) == {t \in Turns : SessionKey[t] = k}
Recording(t) == writer[t] # "none"

StoreInit ==
  /\ AdmissionInit
  /\ provider \in {"claude", "codex"}
  /\ place = [t \in Turns |-> "new"]
  /\ session = [t \in Turns |-> NoId]
  /\ makers = {}
  /\ writer = [t \in Turns |-> "none"]
  /\ workspace = [k \in Keys |-> FALSE]
  /\ record = [k \in Keys |-> {}]
  /\ stored = [k \in Keys |-> {}]
  /\ deletion = [k \in Keys |-> "none"]
  /\ doomed = [k \in Keys |-> {}]
  /\ issued = [k \in Keys |-> {}]
  /\ lost = {} /\ unrecorded = {} /\ late = {} /\ clean = {}

-----------------------------------------------------------------------------
(* The request: resume check, then the reservation *)

\* Mutant of IssuedTo: an id recorded for any key is good enough.
IssuedToAny(k, i) == \E other \in Keys : i \in record[other]

\* A claude session from before ids were recorded is known by its transcript.
IssuedTo(k, i) == i \in record[k] \/ (provider = "claude" /\ i \in stored[k])

MayResume(t) == Resume[t] = NoId \/ IssuedTo(Key(t), Resume[t])

PreflightPasses(t) ==
  /\ place[t] = "new"
  /\ MayResume(t)
  /\ place' = [place EXCEPT ![t] = "checked"]
  /\ UNCHANGED <<session, threadVars, fileVars, deleteVars, storeHistory, admissionVars>>

\* 400; a record that cannot be read is answered 500 and comes to the same.
PreflightRejects(t) ==
  /\ place[t] = "new"
  /\ Resume[t] # NoId
  /\ place' = [place EXCEPT ![t] = "refused"]
  /\ UNCHANGED <<session, threadVars, fileVars, deleteVars, storeHistory, admissionVars>>

\* Turn.start, and at once the mkdir.
Start(t) ==
  /\ place[t] = "checked"
  /\ Reserve(t)
  /\ place' = [place EXCEPT ![t] = "workspace"]
  /\ makers' = makers \cup {t}
  /\ clean' = clean \ {Key(t)}
  /\ UNCHANGED <<session, writer, fileVars, deleteVars, issued, lost, unrecorded, late>>

Busy(t) ==
  /\ place[t] = "checked"
  /\ ~Reservable(t)
  /\ place' = [place EXCEPT ![t] = "refused"]
  /\ UNCHANGED <<session, threadVars, fileVars, deleteVars, storeHistory, admissionVars>>

-----------------------------------------------------------------------------
(* The turn *)

\* The CLI starts in the workspace and stores its session: a new one, or on a resume
\* the same or a fork of it.
CliStarts(t) ==
  /\ place[t] = "workspace" /\ t \notin makers
  /\ place' = [place EXCEPT ![t] = "running"]
  /\ \E i \in {NewId[t], Resume[t]} \ {NoId} :
       /\ session' = [session EXCEPT ![t] = i]
       /\ stored' = [stored EXCEPT ![Key(t)] = @ \cup {i}]
       /\ issued' = [issued EXCEPT ![Key(t)] = @ \cup {i}]
  /\ UNCHANGED <<threadVars, workspace, record, deleteVars, lost, unrecorded, late, clean,
                 admissionVars>>

\* The session event: its id goes to a thread and the turn waits.
RecordingBegins(t) ==
  /\ place[t] = "running"
  /\ place' = [place EXCEPT ![t] = "recording"]
  /\ writer' = [writer EXCEPT ![t] = "reading"]
  /\ UNCHANGED <<session, makers, fileVars, deleteVars, storeHistory, admissionVars>>

RecordingEnds(t) ==
  /\ place[t] = "recording" /\ ~Recording(t)
  /\ place' = [place EXCEPT ![t] = "known"]
  /\ UNCHANGED <<session, threadVars, fileVars, deleteVars, storeHistory, admissionVars>>

\* The end of a turn, by itself or by a stop, at any place but the two threads it may
\* leave behind.
TurnEnds(t) ==
  /\ \/ place[t] \in {"running", "known"}
     \/ place[t] = "workspace" /\ t \notin makers
  /\ place' = [place EXCEPT ![t] = "over"]
  /\ Release({t})
  /\ lost' = IF place[t] = "running" THEN lost \cup {session[t]} ELSE lost
  /\ UNCHANGED <<session, threadVars, fileVars, deleteVars, issued, unrecorded, late,
                 clean>>

\* A stop while a thread makes the directory: the thread goes on, or had not begun.  The
\* turn also ends here if mkdir fails.
StopInWorkspace(t) ==
  /\ place[t] = "workspace" /\ t \in makers
  /\ place' = [place EXCEPT ![t] = "over"]
  /\ Release({t})
  /\ makers' \in {makers, makers \ {t}}
  /\ UNCHANGED <<session, writer, fileVars, deleteVars, storeHistory>>

StopInRecording(t) ==
  /\ place[t] = "recording"
  /\ place' = [place EXCEPT ![t] = "over"]
  /\ Release({t})
  /\ writer' \in {writer} \cup (IF writer[t] = "reading"
                                  THEN {[writer EXCEPT ![t] = "none"]} ELSE {})
  /\ lost' = lost \cup {session[t]}
  /\ UNCHANGED <<session, makers, fileVars, deleteVars, issued, unrecorded, late,
                 clean>>

-----------------------------------------------------------------------------
(* The threads *)

MakeWorkspace(t) ==
  /\ t \in makers
  /\ makers' = makers \ {t}
  /\ workspace' = [workspace EXCEPT ![Key(t)] = TRUE]
  /\ late' = IF place[t] = "over" THEN late \cup {t} ELSE late
  /\ UNCHANGED <<requestVars, writer, record, stored, deleteVars, issued, lost, unrecorded,
                 clean, admissionVars>>

\* remember_session_id reads the record, and appends what it does not find there.  The
\* thread of a turn that was stopped may do so beside that of the next turn of the key.
ReadRecord(t) ==
  /\ writer[t] = "reading"
  /\ writer' = [writer EXCEPT
       ![t] = IF session[t] \in record[Key(t)] THEN "none" ELSE "appending"]
  /\ UNCHANGED <<requestVars, makers, fileVars, deleteVars, storeHistory, admissionVars>>

AppendRecord(t) ==
  /\ writer[t] = "appending"
  /\ writer' = [writer EXCEPT ![t] = "none"]
  /\ record' = [record EXCEPT ![Key(t)] = @ \cup {session[t]}]
  /\ UNCHANGED <<requestVars, makers, workspace, stored, deleteVars, storeHistory,
                 admissionVars>>

\* Logged; a later resume of the id gets 400.
RecordingFails(t) ==
  /\ Recording(t)
  /\ writer' = [writer EXCEPT ![t] = "none"]
  /\ unrecorded' = unrecorded \cup {session[t]}
  /\ UNCHANGED <<requestVars, makers, fileVars, deleteVars, issued, lost, late, clean,
                 admissionVars>>

-----------------------------------------------------------------------------
(* DELETE /v1/sessions/{key} *)

DeleteBegins(k) ==
  /\ Hold(k)
  /\ deletion' = [deletion EXCEPT ![k] = "listing"]
  /\ UNCHANGED <<requestVars, threadVars, fileVars, doomed, storeHistory>>

\* Mutant of Findable: the project directory is not looked at.
FindableById(k) == {i \in UNION {stored[other] : other \in Keys} : i \in record[k]}

\* codex finds transcripts by id alone, claude has the project directory of the
\* workspace as well.
Findable(k) ==
  {i \in UNION {stored[other] : other \in Keys} :
     i \in record[k] \/ (provider = "claude" /\ i \in stored[k])}

\* Mutant of Stages: the record goes first.
StagesRecordFirst == <<"record", "transcripts", "workspace">>

\* The record last: if a removal fails, a retry still finds the transcripts by it.
Stages == <<"transcripts", "workspace", "record">>

DeleteLists(k) ==
  /\ deletion[k] = "listing"
  /\ doomed' = [doomed EXCEPT ![k] = Findable(k)]
  /\ deletion' = [deletion EXCEPT ![k] = Stages[1]]
  /\ UNCHANGED <<requestVars, threadVars, fileVars, storeHistory, admissionVars>>

\* remove_paths of one stage; the last one ends the deletion and lets turns in ("deleted",
\* or 404 when there was nothing).
Remove(k, n) ==
  LET stage == Stages[n] IN
  /\ deletion[k] = stage
  /\ stored' = IF stage = "transcripts"
                 THEN [other \in Keys |-> stored[other] \ doomed[k]] ELSE stored
  /\ workspace' = IF stage = "workspace" THEN [workspace EXCEPT ![k] = FALSE] ELSE workspace
  /\ record' = IF stage = "record" THEN [record EXCEPT ![k] = {}] ELSE record
  /\ IF n = 3
       THEN /\ deletion' = [deletion EXCEPT ![k] = "none"]
            /\ doomed' = [doomed EXCEPT ![k] = {}]
            /\ clean' = clean \cup {k}
            /\ Unhold(k)
       ELSE /\ deletion' = [deletion EXCEPT ![k] = Stages[n + 1]]
            /\ UNCHANGED <<doomed, clean, admissionVars>>
  /\ UNCHANGED <<requestVars, threadVars, issued, lost, unrecorded, late>>

\* OSError: 500, retry.  Of the transcripts, some may be gone.
DeleteFails(k) ==
  /\ deletion[k] # "none"
  /\ deletion' = [deletion EXCEPT ![k] = "none"]
  /\ doomed' = [doomed EXCEPT ![k] = {}]
  /\ \E gone \in SUBSET (IF deletion[k] = "transcripts" THEN doomed[k] ELSE {}) :
       stored' = [other \in Keys |-> stored[other] \ gone]
  /\ Unhold(k)
  /\ UNCHANGED <<requestVars, threadVars, workspace, record, storeHistory>>

-----------------------------------------------------------------------------
TurnSteps(t) ==
  \/ PreflightPasses(t) \/ PreflightRejects(t) \/ Start(t) \/ Busy(t)
  \/ CliStarts(t) \/ RecordingBegins(t) \/ RecordingEnds(t)
  \/ TurnEnds(t) \/ StopInWorkspace(t) \/ StopInRecording(t)
  \/ MakeWorkspace(t) \/ ReadRecord(t) \/ AppendRecord(t) \/ RecordingFails(t)

DeleteSteps(k) ==
  \/ DeleteBegins(k) \/ DeleteLists(k) \/ DeleteFails(k)
  \/ \E n \in 1..3 : Remove(k, n)

StoreNext ==
  /\ \/ \E t \in Turns : TurnSteps(t)
     \/ \E k \in Keys : DeleteSteps(k)
  /\ UNCHANGED provider

StoreSpec == StoreInit /\ [][StoreNext]_storeVars
-----------------------------------------------------------------------------
\* Types; a key is held exactly while its deletion is under way, and a turn past its
\* start holds its reservation.
StoreTypeOK ==
  /\ AdmissionTypeOK
  /\ provider \in {"claude", "codex"}
  /\ place \in [Turns -> Places]
  /\ session \in [Turns -> Ids \cup {NoId}]
  /\ makers \subseteq Turns /\ late \subseteq Turns
  /\ writer \in [Turns -> {"none", "reading", "appending"}]
  /\ workspace \in [Keys -> BOOLEAN]
  /\ record \in [Keys -> SUBSET Ids] /\ stored \in [Keys -> SUBSET Ids]
  /\ deletion \in [Keys -> {"none", "listing", "transcripts", "workspace", "record"}]
  /\ doomed \in [Keys -> SUBSET Ids]
  /\ issued \in [Keys -> SUBSET Ids] /\ lost \subseteq Ids /\ unrecorded \subseteq Ids
  /\ clean \subseteq Keys
  /\ held = {k \in Keys : deletion[k] # "none"}
  /\ RegisteredTurns =
       {t \in Turns : place[t] \in {"workspace", "running", "recording", "known"}}

\* No sessionKey continues, or reads, the conversation of another: the CLIs would find
\* it, so the check before the reservation is all that keeps keys apart.  It holds
\* although a DELETE may fall between the check and the turn.
ResumeIsOwn ==
  \A t \in Turns :
    place[t] \notin {"new", "refused"} /\ Resume[t] # NoId => Resume[t] \in issued[Key(t)]

\* What a key has recorded, stored or is deleting came from CLIs of its own turns, and no
\* session is of two keys, whatever was resumed, forked, stopped or deleted meanwhile.
KeysShareNothing ==
  /\ \A k \in Keys : record[k] \cup stored[k] \cup doomed[k] \subseteq issued[k]
  /\ \A k, l \in Keys : k # l => issued[k] \cap issued[l] = {}

\* While no turn holds a key, a DELETE of it can find every transcript of the key, also
\* after a DELETE that failed half-way: but for the transcripts whose id was never, or
\* too late, recorded.
TranscriptsStayFindable ==
  \A k \in Keys :
    bySession[k] = NoTurn => stored[k] \subseteq Findable(k) \cup lost \cup unrecorded

\* A DELETE that answers "deleted" has deleted, until the next turn of the key; what is
\* there all the same was stored, recorded or made for a turn that ended before its thread
\* was through, or whose id could not be recorded.
DeletedIsGone ==
  \A k \in clean :
    /\ stored[k] \subseteq IF provider = "claude" THEN {} ELSE lost \cup unrecorded
    /\ record[k] \subseteq lost
    /\ workspace[k] => \E t \in TurnsOf(k) : t \in late

\* A DELETE takes only what is its key's: nothing of a key disappears but by a DELETE
\* of that key.
DeletionSparesOthers ==
  [][\A k \in Keys :
       \/ k \in held
       \/ /\ stored[k] \subseteq stored'[k] /\ record[k] \subseteq record'[k]
          /\ workspace[k] => workspace'[k]]_storeVars

\* The comment in _remembering_session_ids: when an id is not recorded the turn is fine,
\* and only a later resume of it gets 400.  So a DELETE deletes its transcript as any other.
UnrecordedCostsResumeOnly == \A k \in clean : stored[k] \subseteq lost

\* openapi.yaml: the sessions of a deleted key cannot be resumed, and the next turn on the
\* key starts fresh.
NextTurnIsFresh ==
  [][\A t \in Turns :
       place[t] = "checked" /\ place'[t] = "workspace" /\ Key(t) \in clean =>
         Resume[t] = NoId]_storeVars
=============================================================================

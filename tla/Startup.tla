------------------------------- MODULE Startup -------------------------------
(***************************************************************************)
(* From the start of the process to the first request: the lifespan of     *)
(* sidecar.app, ensure_codex_auth of sidecar.codex_runner, and what        *)
(* /readyz then says of the deployment.                                    *)
(*                                                                         *)
(* A deployment is what the operator configured: a record of his settings  *)
(* and of the environment variables that are set.  It never changes.       *)
(***************************************************************************)
EXTENDS Naturals

CONSTANT Deployments

\* Of the environment, the credentials: no allowlist of the code names one.
Credentials == {"OPENAI_API_KEY", "CODEX_API_KEY", "ANTHROPIC_API_KEY", "CLAUDE_CODE_OAUTH_TOKEN"}

\* `authPath`: CLAUDE_AUTH_PATH (CODEX_AUTH_PATH) is set to another file than the CLI's own.
\* The settings read the environment, so a key there is a key of the settings.
ASSUME StartupAssumption == \A d \in Deployments :
  /\ d.provider \in {"claude", "codex"}
  /\ d.anthropicMode \in {"subscription", "api"}
  /\ d.environ \subseteq Credentials /\ d.passthrough \subseteq Credentials
  /\ d.settingsKey \in BOOLEAN /\ d.authPath \in BOOLEAN /\ d.binary \in BOOLEAN
  /\ "ANTHROPIC_API_KEY" \in d.environ => d.settingsKey

VARIABLES
  deployment,   \* the one that is running
  phase,        \* where the lifespan is
  login,        \* `codex login`: "none", "running", "exited" or "failed"
  authFile,     \* the CLI's own file exists: auth.json (codex), .claude.json (claude)
  otherFile     \* the one that authPath is about exists

startupVars == <<deployment, phase, login, authFile, otherFile>>

StartupInit ==
  /\ deployment \in Deployments
  /\ phase = "filesystem" /\ login = "none"
  /\ authFile \in BOOLEAN
  /\ otherFile \in IF deployment.authPath THEN BOOLEAN ELSE {FALSE}

-----------------------------------------------------------------------------
To(p) == phase' = p

\* _prepare_filesystem, in its thread.
FilesystemReady ==
  /\ phase = "filesystem"
  /\ To(IF deployment.provider = "codex" THEN "authFile" ELSE "serving")
  /\ UNCHANGED <<deployment, login, authFile, otherFile>>

\* An unusable WORKSPACE_ROOT or state directory ends the process.
FilesystemFails ==
  /\ phase = "filesystem"
  /\ To("failed")
  /\ UNCHANGED <<deployment, login, authFile, otherFile>>

\* codex_auth_file, and the same for claude: the configured path, else where the CLI looks.
Seen == IF deployment.authPath THEN otherFile ELSE authFile

NeedsLogin == ~Seen /\ "OPENAI_API_KEY" \in deployment.environ

NoLoginNeeded ==
  /\ phase = "authFile" /\ ~NeedsLogin
  /\ To("serving")
  /\ UNCHANGED <<deployment, login, authFile, otherFile>>

LoginStarts ==
  /\ phase = "authFile" /\ NeedsLogin /\ deployment.binary
  /\ To("login") /\ login' = "running"
  /\ UNCHANGED <<deployment, authFile, otherFile>>

\* FileNotFoundError is left to /readyz.
BinaryMissing ==
  /\ phase = "authFile" /\ NeedsLogin /\ ~deployment.binary
  /\ To("serving")
  /\ UNCHANGED <<deployment, login, authFile, otherFile>>

\* Any other OSError of the spawn ends the process.
SpawnFails ==
  /\ phase = "authFile" /\ NeedsLogin /\ deployment.binary
  /\ To("failed")
  /\ UNCHANGED <<deployment, login, authFile, otherFile>>

\* `codex login`, or the operator himself, later: it may also do nothing for ever.  The
\* login writes where codex looks, whatever the sidecar was told.
LoginWrites ==
  /\ login = "running" \/ phase = "serving"
  /\ authFile' = TRUE
  /\ UNCHANGED <<deployment, phase, login, otherFile>>

OperatorProvides ==
  /\ phase = "serving" /\ deployment.authPath
  /\ otherFile' = TRUE
  /\ UNCHANGED <<deployment, phase, login, authFile>>

LoginExits ==
  /\ login = "running"
  /\ login' \in {"exited", "failed"}
  /\ UNCHANGED <<deployment, phase, authFile, otherFile>>

\* communicate returns; then the file is looked for, for the log line only.
LoginSeen ==
  /\ phase = "login" /\ login # "running"
  /\ To("serving")
  /\ UNCHANGED <<deployment, login, authFile, otherFile>>

\* After _LOGIN_TIMEOUT_SEC: _terminate, which begins with SIGTERM.
LoginTimesOut ==
  /\ phase = "login"
  /\ To("termGrace")
  /\ UNCHANGED <<deployment, login, authFile, otherFile>>

\* Mutant of TermGraceOver: a login that ignores SIGTERM is left alone.
TermGraceOverUnswept ==
  /\ phase = "termGrace"
  /\ To("serving")
  /\ UNCHANGED <<deployment, login, authFile, otherFile>>

\* It has exited, or _TERM_GRACE_SEC are over: SIGKILL to the group.
TermGraceOver ==
  /\ phase = "termGrace"
  /\ To("killWait")
  /\ login' = IF login = "running" THEN "failed" ELSE login
  /\ UNCHANGED <<deployment, authFile, otherFile>>

KillWaitOver ==
  /\ phase = "killWait"
  /\ To("serving")
  /\ UNCHANGED <<deployment, login, authFile, otherFile>>

Lifespan ==
  \/ FilesystemReady \/ FilesystemFails \/ NoLoginNeeded \/ LoginStarts \/ BinaryMissing
  \/ SpawnFails \/ LoginSeen \/ LoginTimesOut \/ TermGraceOver \/ KillWaitOver

StartupNext == Lifespan \/ LoginWrites \/ LoginExits \/ OperatorProvides

\* Threads return, and every wait for the login is bounded.
StartupFairness == WF_startupVars(Lifespan)
-----------------------------------------------------------------------------
(* /readyz, and what it is about *)

IdentityReady(d) ==
  IF d.anthropicMode = "api"
    THEN d.settingsKey \/ "ANTHROPIC_API_KEY" \in d.environ
    ELSE d.environ \cap {"CLAUDE_CODE_OAUTH_TOKEN", "ANTHROPIC_API_KEY"} # {} \/ Seen

\* Mutant of CodexIdentityReady: the credentials of the environment count as they are.
CodexIdentityReadyUnfiltered(d) ==
  Seen \/ d.environ \cap {"OPENAI_API_KEY", "CODEX_API_KEY"} # {}

\* A bare OPENAI_API_KEY does not count, nor does a credential that is not passed through.
CodexIdentityReady(d) ==
  Seen \/ d.environ \cap {"CODEX_API_KEY"} \cap d.passthrough # {}

Ready(d) ==
  /\ d.binary
  /\ IF d.provider = "codex" THEN CodexIdentityReady(d) ELSE IdentityReady(d)

\* The credentials in the environment of the codex of a turn: the allowlist has none, so
\* only what is passed through.
CodexEnv(d) == d.environ \cap d.passthrough

\* In that of the claude of a turn: what is withheld, or meant for codex, is blanked; the
\* key of the settings, which may come from a .env file, is set.
ClaudeEnv(d) ==
  (d.environ \ ({"OPENAI_API_KEY"} \cup d.passthrough))
  \cup (IF d.settingsKey THEN {"ANTHROPIC_API_KEY"} ELSE {})

\* A CLI looks at its own file only; neither takes OPENAI_API_KEY for its own requests.
CanAuthenticate(d) ==
  \/ authFile
  \/ IF d.provider = "codex" THEN "CODEX_API_KEY" \in CodexEnv(d)
     ELSE ClaudeEnv(d) \cap {"ANTHROPIC_API_KEY", "CLAUDE_CODE_OAUTH_TOKEN"} # {}
-----------------------------------------------------------------------------
\* The two ways in which what the sidecar sees is not what the CLI gets: it looks at a file
\* that the CLI does not read, and it counts a token that it takes from claude's environment
\* because CODEX_ENV_PASSTHROUGH names it.
LooksElsewhere(d) == d.authPath /\ otherFile
CountsWithheldToken(d) ==
  /\ d.provider = "claude" /\ d.anthropicMode = "subscription"
  /\ "CLAUDE_CODE_OAUTH_TOKEN" \in d.environ \cap d.passthrough

\* A sidecar that reports ready has a CLI that can authenticate, whatever keys are set, passed
\* through or in a file and however the login at start-up ended, but for the two ways above.
\* One that runs codex and looks at codex's own file reports ready as soon as that is so.
ReadyTellsTruth == phase = "serving" =>
  /\ Ready(deployment) =>
       /\ deployment.binary
       /\ \/ CanAuthenticate(deployment)
          \/ LooksElsewhere(deployment) \/ CountsWithheldToken(deployment)
  /\ deployment.provider = "codex" /\ ~deployment.authPath =>
       (deployment.binary /\ CanAuthenticate(deployment) => Ready(deployment))

\* A login that runs is waited for, or about to be killed: however start-up ends, it leaves
\* none behind.
LoginIsWatched == login = "running" => phase \in {"login", "termGrace"}

\* What start-up still has before it.
StepsLeft(p) ==
  CASE p = "filesystem" -> 5 [] p = "authFile" -> 4 [] p = "login" -> 3
    [] p = "termGrace" -> 2 [] p = "killWait" -> 1 [] OTHER -> 0

\* Start-up only goes on: it neither begins again nor changes its mind once it serves or
\* has failed.
StartupAdvances == [][phase' # phase => StepsLeft(phase') < StepsLeft(phase)]_startupVars

\* Start-up ends, and leaves no login behind, even if `codex login` hangs and ignores
\* SIGTERM.
StartupEnds == <>(phase = "failed" \/ (phase = "serving" /\ login # "running"))
=============================================================================

---------------------------- MODULE MCAdmission -----------------------------
(***************************************************************************)
(* Seven requests on four sessionKeys, three of which may run at once:     *)
(* some share a key, some share a user across keys, so each of the four    *)
(* tests of reserve is once the only one that refuses.  The bodies         *)
(* set every limit below, at and above what some deployment allows; the    *)
(* deployments are the ways to hand either provider its credentials.       *)
(***************************************************************************)
EXTENDS Service

CONSTANTS t1, t2, t3, t4, t5, t6, t7, k1, k2, k3, k4, u1, u2

MCTurns == {t1, t2, t3, t4, t5, t6, t7}
MCKeys == {k1, k2, k3, k4}
MCUsers == {u1, u2}
MCSessionKey ==
  [t \in MCTurns |-> CASE t \in {t1, t2} -> k1 [] t \in {t3, t4} -> k2
                     [] t \in {t5, t6} -> k3 [] t = t7 -> k4]
MCUserId ==
  [t \in MCTurns |-> CASE t \in {t1, t3} -> u1 [] t \in {t4, t5} -> u2 [] OTHER -> NoUser]

Plain ==
  [stateless |-> FALSE, resumes |-> FALSE, ownPrompt |-> FALSE,
   model |-> Unset, timeout |-> Unset, maxTurns |-> Unset, maxBudget |-> Unset]
MCBody == [t \in MCTurns |->
  CASE t = t1 -> Plain
    [] t = t2 -> [Plain EXCEPT !.resumes = TRUE, !.timeout = 1]
    [] t = t3 -> [Plain EXCEPT !.maxTurns = 2, !.ownPrompt = TRUE]
    [] t = t4 -> [Plain EXCEPT !.model = "opus", !.maxBudget = 3]
    [] t = t5 -> [Plain EXCEPT !.stateless = TRUE, !.timeout = 3]
    [] t = t6 -> [Plain EXCEPT !.stateless = TRUE, !.resumes = TRUE]
    [] t = t7 -> [Plain EXCEPT !.maxTurns = 1, !.model = "haiku"]]

Git == <<"g", "(", "a", ",", "b", ")">>

\* What the rules are meant to be, as tests/unit/test_config.py has them.
ASSUME RulesAssumption ==
  /\ WholeRules(<<"w", ",", " ">> \o Git) = <<<<"w">>, Git>>
  /\ WholeRules(Git \o <<",", ",", "w", " ">>) = <<Git, <<"w">>>>

Claude ==
  [provider |-> "claude", anthropicMode |-> "api", environ |-> {"ANTHROPIC_API_KEY"},
   passthrough |-> {}, settingsKey |-> TRUE, authPath |-> FALSE, binary |-> TRUE,
   claudeMd |-> TRUE,
   timeout |-> 2, models |-> {}, maxTurns |-> Unset, maxBudget |-> Unset,
   allowedTools |-> <<>>]
Codex == [Claude EXCEPT !.provider = "codex", !.environ = {}, !.settingsKey = FALSE]
MCDeployments ==
  {[Claude EXCEPT !.maxTurns = 1, !.maxBudget = 3, !.models = {"opus"}],
   [Claude EXCEPT !.anthropicMode = "subscription", !.environ = {"CLAUDE_CODE_OAUTH_TOKEN"},
                  !.settingsKey = FALSE, !.timeout = 3, !.maxTurns = 2,
                  !.allowedTools = <<"w", ",", " ">> \o Git],
   [Claude EXCEPT !.anthropicMode = "subscription", !.environ = {"OPENAI_API_KEY"},
                  !.models = {"haiku", "opus"}, !.claudeMd = FALSE, !.timeout = 3,
                  !.allowedTools = Git \o <<",", ",", "w", " ">>],
   [Claude EXCEPT !.anthropicMode = "subscription", !.environ = {"CLAUDE_CODE_OAUTH_TOKEN"},
                  !.passthrough = {"CLAUDE_CODE_OAUTH_TOKEN"}, !.settingsKey = FALSE,
                  !.authPath = TRUE],
   [Codex EXCEPT !.environ = {"OPENAI_API_KEY"}, !.timeout = 3, !.maxTurns = 1],
   [Codex EXCEPT !.environ = {"OPENAI_API_KEY"}, !.binary = FALSE],
   [Codex EXCEPT !.environ = {"OPENAI_API_KEY"}, !.authPath = TRUE],
   [Codex EXCEPT !.environ = {"CODEX_API_KEY"}, !.passthrough = {"CODEX_API_KEY"},
                 !.models = {"opus"}],
   [Codex EXCEPT !.environ = {"CODEX_API_KEY"}, !.passthrough = {"OPENAI_API_KEY"}]}
=============================================================================

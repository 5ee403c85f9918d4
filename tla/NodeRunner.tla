----------------------------- MODULE NodeRunner -----------------------------
(***************************************************************************)
(* What the execution of one workflow node comes to: it returns, or it     *)
(* throws an error that is worth a retry or not.  Most nodes compute; an   *)
(* HTTP node calls the outside, and a prompt node calls the AI             *)
(* orchestrator, which fetches a credential from the API, calls a model    *)
(* provider and turns every exception into an HTTP answer the worker's     *)
(* client reads again.                                                     *)
(***************************************************************************)
EXTENDS Naturals

NodeTypes == {"manualTrigger", "transform", "condition", "httpRequest", "aiPrompt"}

\* What a node names as its provider; the editor lets any name be typed.
ProviderNames == {"deterministic", "openrouter", "openai", "claude", "anthropic", "unlisted"}
Registry == ProviderNames \ {"unlisted"}

\* The credential a node names: none, one that does not exist or belongs to another
\* workspace, one that was sealed with another key than the API now has, one that does
\* not fit the provider, one that does.
Credentials == {"unnamed", "missing", "elsewhere", "otherKey", "otherType", "noCapability",
                "matching"}

\* What a provider does with a request: a body with or without a text in it, an error
\* status, no answer in time, no connection.
Replies == [kind : {"text", "empty", "timeout", "down"}, status : {0}]
           \cup [kind : {"error"}, status : {401, 429, 500}]

\* Everything the outcome of a node depends on; `internalToken' says whether the
\* orchestrator has the token of the internal API, `api' whether that answers, `inTime'
\* whether the worker's own client got its answer before it gave up.
Environments ==
    [type : NodeTypes, provider : ProviderNames, credential : Credentials,
     internalToken : BOOLEAN, api : {"up", "timeout", "down"}, environmentKey : BOOLEAN,
     reply : Replies, inTime : BOOLEAN]

-----------------------------------------------------------------------------
(* The API's internal route for the secret of a credential *)

InternalApiGuard(env) == env.internalToken

\* What AES-GCM opens is what was sealed with the same key.
decryptCredential(credential) == credential # "otherKey"

\* The status of the answer: it is looked up by its id and the workspace of the execution.
findSecret(env) ==
    IF ~InternalApiGuard(env) THEN 403
    ELSE IF env.credential \in {"missing", "elsewhere"} THEN 404
    ELSE IF ~decryptCredential(env.credential) THEN 500 ELSE 200

-----------------------------------------------------------------------------
(* The orchestrator: a run ends in a result or in one of its exceptions *)

Outcome(class, status) == [class |-> class, status |-> status]
Result == Outcome("Result", 0)

\* CredentialClient: everything but an answer 200 in time is a CredentialClientError.
get_secret(env) == env.api = "up" /\ findSecret(env) = 200
ensure_credential_supports(credential) == credential = "matching"

\* The text of the first choice or of the content blocks; a body without one is invalid.
extract_content(reply) == reply.kind = "text"

\* The call of the model and the reading of its answer.
CallModel(reply) ==
    IF extract_content(reply) THEN Result ELSE Outcome("ProviderError", reply.status)

\* A provider that needs a credential of the workspace.
WithCredential(env) ==
    IF env.credential = "unnamed" THEN Outcome("ProviderConfigurationError", 0)
    ELSE IF get_secret(env) /\ ensure_credential_supports(env.credential)
         THEN CallModel(env.reply)
         ELSE Outcome("CredentialClientError", 0)

DeterministicPromptProvider(env) == Result
OpenRouterProvider(env) == WithCredential(env)
OpenAiProvider(env) == WithCredential(env)

\* Without a credential the key of the environment is used.
AnthropicProvider(env) ==
    IF env.credential = "unnamed" /\ env.environmentKey
    THEN CallModel(env.reply) ELSE WithCredential(env)

\* PromptService.run_prompt
run_prompt(env) ==
    CASE env.provider \notin Registry             -> Outcome("UnknownProviderError", 0)
      [] env.provider = "deterministic"           -> DeterministicPromptProvider(env)
      [] env.provider = "openrouter"              -> OpenRouterProvider(env)
      [] env.provider = "openai"                  -> OpenAiProvider(env)
      [] env.provider \in {"claude", "anthropic"} -> AnthropicProvider(env)

\* The answer of POST /v1/prompts/run.  A CredentialClientError is not caught there:
\* the framework answers 500 with a text that is not JSON.
Answer(outcome) ==
    CASE outcome.class = "Result" ->
           [status |-> 200, json |-> TRUE, code |-> "none", providerStatus |-> 0]
      [] outcome.class = "UnknownProviderError" ->
           [status |-> 422, json |-> TRUE, code |-> "unknown_ai_provider",
            providerStatus |-> 0]
      [] outcome.class = "ProviderConfigurationError" ->
           [status |-> 422, json |-> TRUE, code |-> "ai_provider_configuration_error",
            providerStatus |-> 0]
      [] outcome.class = "ProviderError" ->
           [status |-> 502, json |-> TRUE, code |-> "ai_provider_error",
            providerStatus |-> outcome.status]
      [] outcome.class = "CredentialClientError" ->
           [status |-> 500, json |-> FALSE, code |-> "none", providerStatus |-> 0]

-----------------------------------------------------------------------------
(* The worker *)

Throws(retryable) == IF retryable THEN "retryable" ELSE "fatal"

isRetryableStatus(status) == status \in {408, 429} \/ status >= 500

\* Mutant: whatever the orchestrator answers, it may answer better the next time.
isRetryableAiOrchestratorFailure_Any(answer) == answer.code # "none"

isRetryableAiOrchestratorFailure(answer) ==
    /\ ~(answer.code = "ai_provider_error" /\ answer.providerStatus = 429)
    /\ isRetryableStatus(answer.status)

\* AiOrchestratorClient.runPrompt, and the classes of error it throws.
runPrompt(env) ==
    LET answer == Answer(run_prompt(env)) IN
    CASE ~env.inTime \/ ~answer.json                      -> Throws(TRUE)
      [] env.inTime /\ answer.json /\ answer.status = 200 -> "returns"
      [] env.inTime /\ answer.json /\ answer.status # 200 ->
           Throws(isRetryableAiOrchestratorFailure(answer))

\* A mocked request returns; a real one returns whatever the status of the answer, and
\* throws if there is none.
executeHttpRequestActionNode(env) ==
    IF env.inTime /\ env.reply.kind \notin {"timeout", "down"}
    THEN "returns" ELSE Throws(TRUE)

\* The value of a field that is not there compares like any other: no input makes the
\* condition, or the choice of keys, throw.
executeConditionActionNode(env) == "returns"
executeTransformActionNode(env) == "returns"

executeWorkflowNode(env) ==
    CASE env.type = "manualTrigger" -> "returns"
      [] env.type = "transform"   -> executeTransformActionNode(env)
      [] env.type = "condition"   -> executeConditionActionNode(env)
      [] env.type = "httpRequest" -> executeHttpRequestActionNode(env)
      [] env.type = "aiPrompt"    -> runPrompt(env)

\* A prompt node the orchestrator cannot run as it is configured: it names a provider
\* that is not registered, or no credential for one that needs it.
Misconfigured ==
    {env \in Environments :
        /\ env.type = "aiPrompt" /\ env.inTime
        /\ \/ env.provider \notin Registry
           \/ /\ env.provider # "deterministic" /\ env.credential = "unnamed"
              /\ ~(env.provider \in {"claude", "anthropic"} /\ env.environmentKey)}

\* The ways a node can end, in any environment, and when it is misconfigured.
AnyOutcome == {executeWorkflowNode(env) : env \in Environments}
MisconfiguredOutcome == {executeWorkflowNode(env) : env \in Misconfigured}
=============================================================================

-------------------------------- MODULE Config --------------------------------
(***************************************************************************)
(* The configuration: what a file may say, what an absent section means,   *)
(* which configurations are accepted (config.rs), and what the server can  *)
(* build from one: the router of its providers (repo-explorer-llm lib.rs)  *)
(* and the local judge (repo-explorer-judge lib.rs).                       *)
(*                                                                         *)
(* An environment says of each variable whether it is "unset", "blank" or  *)
(* "set". A URL is "none", "bad" (no scheme or no host), "vague" (both are *)
(* there, but no client can parse it) or "good". Texts are left out but    *)
(* for whether they are blank.                                             *)
(***************************************************************************)
EXTENDS Integers, Sequences

NoName == "none"

Urls == {"none", "bad", "vague", "good"}

-----------------------------------------------------------------------------
(* Sections.                                                               *)

\* PROVIDER_DEFAULTS, and KNOWN_PROVIDER_KINDS with it.
DefaultApiKeyEnv ==
  [anthropic |-> "ANTHROPIC_API_KEY", openai |-> "OPENAI_API_KEY",
   gemini |-> "GEMINI_API_KEY", google |-> "GEMINI_API_KEY"]

KnownProviderKinds == DOMAIN DefaultApiKeyEnv

\* A provider has a name, a kind, a variable of its own or NoName, its models.
ResolveApiKeyEnv(provider) ==
  IF provider.env # NoName THEN provider.env
  ELSE IF provider.kind \in KnownProviderKinds THEN DefaultApiKeyEnv[provider.kind] ELSE NoName

EnvVarIsSet(env, var) == env[var] = "set"

RepoBriefSettings == [enabled : BOOLEAN, maxTokens : Nat, key : {"head", "full"}]

DefaultRepoBrief == [enabled |-> TRUE, maxTokens |-> 3000, key |-> "head"]

AgentSettings ==
  [maxFallback : Nat, maxVerify : Nat, tokenBudget : Nat, topK : Nat, earlyExit : Nat,
   fallbackConfidence : Nat, cap : Nat, detailedCap : Nat, skipVerify : BOOLEAN,
   fallback : {"llm", "off"}, brief : RepoBriefSettings]

DefaultAgent ==
  [maxFallback |-> 12, maxVerify |-> 2, tokenBudget |-> 60000, topK |-> 12, earlyExit |-> 90,
   fallbackConfidence |-> 30, cap |-> 400, detailedCap |-> 1500, skipVerify |-> TRUE,
   fallback |-> "llm", brief |-> DefaultRepoBrief]

\* model and checkpoint: whether there is a text that is not blank.
JudgeSettings ==
  [mode : {"off", "laya", "shadow"}, backend : {"http", "candle"}, checkpoint : BOOLEAN,
   device : {"cpu", "cuda"}, url : Urls, env : STRING, model : BOOLEAN, timeoutMs : Nat, concurrency : Nat,
   threshold : Nat]

DefaultJudge ==
  [mode |-> "off", backend |-> "http", checkpoint |-> FALSE, device |-> "cpu",
   url |-> "good", env |-> NoName, model |-> TRUE, timeoutMs |-> 20000, concurrency |-> 4, threshold |-> 50]

\* dir is NoName for the user's cache directory.
CacheSettings ==
  [enabled : BOOLEAN, maxEntries : Nat, persistent : BOOLEAN, maxBytes : Nat,
   keyMode : {"strict", "paths"}, dir : STRING]

DefaultCache ==
  [enabled |-> TRUE, maxEntries |-> 256, persistent |-> TRUE, maxBytes |-> 268435456,
   keyMode |-> "strict", dir |-> NoName]

\* Its arguments and the threshold of module IndexFreshness are left out.
MemorySettings == [command : STRING, endpoint : STRING]

IsSequence(s) == Len(s) \in Nat /\ s = [k \in 1 .. Len(s) |-> s[k]]

\* The sections of a Config; providers and proxy are [llm], memory is
\* [codebase_memory].
IsConfig(config) ==
  /\ IsSequence(config.providers)
  /\ config.proxy \in Urls /\ config.memory \in MemorySettings
  /\ config.agent \in AgentSettings /\ config.judge \in JudgeSettings
  /\ config.cache \in CacheSettings

-----------------------------------------------------------------------------
(* Config::validate_with_env, in the order of its checks: the name of the  *)
(* first one that fails, or "valid".                                       *)

IsValidHttpsProxyUrl(url) == url \in {"vague", "good"}

LlmRequired(config) == ~(config.judge.mode = "laya" /\ config.agent.fallback = "off")

NamesClash(providers) ==
  \E i, j \in DOMAIN providers : i # j /\ providers[i].name = providers[j].name

ProviderError(provider, env) ==
  CASE provider.models = <<>> -> "EmptyModelsList"
    [] provider.models # <<>> /\ provider.kind \notin KnownProviderKinds -> "UnknownProviderKind"
    [] OTHER -> IF EnvVarIsSet(env, ResolveApiKeyEnv(provider)) THEN "valid" ELSE "MissingEnvVar"

ProvidersError(providers, env) ==
  LET bad == {i \in DOMAIN providers : ProviderError(providers[i], env) # "valid"}
  IN  IF bad = {}
      THEN "valid"
      ELSE ProviderError(providers[CHOOSE i \in bad : \A j \in bad : i <= j], env)

HttpJudgeError(judge, env) ==
  IF ~IsValidHttpsProxyUrl(judge.url) THEN "InvalidJudgeBaseUrl"
  ELSE IF judge.concurrency < 1 \/ ~judge.model THEN "InvalidJudgeSetting"
  ELSE IF judge.env # NoName /\ ~EnvVarIsSet(env, judge.env) THEN "MissingJudgeEnvVar"
  ELSE "valid"

JudgeError(judge, env) ==
  IF judge.mode = "off" THEN "valid"
  ELSE IF judge.threshold \notin 1 .. 99 \/ judge.timeoutMs < 1 THEN "InvalidJudgeSetting"
  ELSE IF judge.backend = "http" THEN HttpJudgeError(judge, env)
  ELSE IF judge.checkpoint THEN "valid" ELSE "InvalidJudgeSetting"

\* The memory server is reached by a command or at an endpoint.
MemoryError(memory) ==
  CASE memory.command = NoName /\ memory.endpoint = NoName -> "MissingCodebaseMemoryConnection"
    [] memory.command # NoName /\ memory.endpoint # NoName -> "ConflictingCodebaseMemoryConnection"
    [] OTHER -> "valid"

LlmError(config, env) ==
  IF LlmRequired(config) /\ config.providers = <<>> THEN "EmptyProviderList"
  ELSE IF NamesClash(config.providers) THEN "DuplicateProviderName"
  ELSE ProvidersError(config.providers, env)

ProxyError(proxy) ==
  IF proxy = "none" \/ IsValidHttpsProxyUrl(proxy) THEN "valid" ELSE "InvalidHttpsProxyUrl"

Validate(config, env) ==
  IF LlmError(config, env) # "valid" THEN LlmError(config, env)
  ELSE IF MemoryError(config.memory) # "valid" THEN MemoryError(config.memory)
  ELSE IF ProxyError(config.proxy) # "valid" THEN ProxyError(config.proxy)
  ELSE JudgeError(config.judge, env)

-----------------------------------------------------------------------------
(* Files. state says how much of one can be read: "absent", "unreadable",  *)
(* "garbled" (no TOML), "mistyped" or "mistyped-cache" (TOML with a value  *)
(* missing or of a wrong type), "toml".                                    *)

IsFile(file) ==
  /\ file = [state |-> file.state, config |-> file.config]
  /\ file.state = "toml" => IsConfig(file.config)

\* load: the error of the file, of its configuration, or "valid".
Load(file, env) ==
  CASE file.state = "absent" -> "not-found"
    [] file.state = "unreadable" -> "Read"
    [] file.state = "toml" -> Validate(file.config, env)
    [] OTHER -> "Parse"

\* cache_settings, with the defaults of run_cache_command for a file that has none.
CacheSettingsOf(file) ==
  IF file.state \in {"mistyped", "toml"} THEN file.config.cache ELSE DefaultCache

-----------------------------------------------------------------------------
(* What is built of it.                                                    *)

\* adapter_kind_for.
AdapterKindFor(kind) ==
  CASE kind \in {"gemini", "google"} -> "gemini"
    [] kind \in {"anthropic", "openai"} -> kind
    [] OTHER -> NoName

\* build_shared and build_genai_client.
SharedFails(provider, proxy, env) ==
  \/ AdapterKindFor(provider.kind) = NoName
  \/ ~EnvVarIsSet(env, ResolveApiKeyEnv(provider))
  \/ proxy \notin {"none", "good"}

\* build_router.
RouterFails(config, env) ==
  \E i \in DOMAIN config.providers : SharedFails(config.providers[i], config.proxy, env)

\* LayaHttpJudge::new_with_env.
HttpJudgeFails(judge, env) == judge.env # NoName /\ ~EnvVarIsSet(env, judge.env)

\* ConfiguredJudge::from_settings; features are those the program was built with.
JudgeFails(judge, env, features) ==
  /\ judge.mode # "off"
  /\ IF judge.backend = "http"
     THEN HttpJudgeFails(judge, env)
     ELSE "candle" \notin features \/ (judge.device = "cuda" /\ "cuda" \notin features)
=============================================================================

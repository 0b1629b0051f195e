-------------------------------- MODULE Startup --------------------------------
(***************************************************************************)
(* How a process of repo-explorer-mcp finds and uses its configuration     *)
(* (main.rs): a server that starts, `cache clear`, and the wizard that     *)
(* writes one (setup.rs). Each process has surroundings of its own: the    *)
(* environment, the launch directory, a path given by flag or variable, a  *)
(* home, a terminal. Files may be edited at any time.                      *)
(***************************************************************************)
EXTENDS Config, FiniteSets

CONSTANTS
  Consoles,   \* processes
  Features,   \* what the program was built with
  Answers,    \* what the wizard's user says: [names, models, memory, proxy]
  Revisions,  \* what an edit may make of a file
  MaxEdits    \* bounds the edits

ASSUME EditsAreNat == MaxEdits \in Nat
ASSUME RevisionsAreTyped == \A file \in Revisions : IsFile(file)

\* Of a command and an endpoint for the memory server the wizard asks for one.
ASSUME AnswersAreTyped ==
  \A answer \in Answers :
    /\ \A kind \in KnownProviderKinds : IsSequence(answer.names[kind])
    /\ MemoryError(answer.memory) = "valid"

VARIABLES
  configs,  \* the configuration files
  console,  \* the processes: [at, around, path, file, store]
  edits

startupVars == <<configs, console, edits>>

-----------------------------------------------------------------------------
(* Paths.                                                                  *)

UserPath == "user"

NoStore == <<NoName, NoName>>

\* resolve_config_path: a flag or a variable, then the user's file or that of the
\* launch directory, whichever is there.
ResolveConfigPath(around) ==
  CASE around.given # NoName -> around.given
    [] around.given = NoName /\ ~around.home -> around.cwd
    [] OTHER -> IF configs[UserPath].state = "absent" /\ configs[around.cwd].state # "absent"
                THEN around.cwd ELSE UserPath

\* resolve_cache_dir; a relative directory is one of the launch directory.
ResolveCacheDir(dir, around) ==
  CASE dir = NoName -> IF around.home THEN <<UserPath, NoName>> ELSE NoStore
    [] dir = "relative" -> <<around.cwd, dir>>
    [] OTHER -> <<"root", dir>>

\* The store of a server, if it keeps one (run).
StoreOf(cache, around) ==
  IF cache.enabled /\ cache.persistent THEN ResolveCacheDir(cache.dir, around) ELSE NoStore

-----------------------------------------------------------------------------
(* Processes. at is "idle", the command, or how far it came.               *)

Empty == [state |-> "mistyped", config |-> [cache |-> DefaultCache]]

Written(config) == [state |-> "toml", config |-> config]

Idle == [at |-> "idle", around |-> NoName, path |-> NoName, file |-> Empty, store |-> NoStore]

Me(c) == console[c]

Goes(c, at) == console' = [console EXCEPT ![c].at = at]

Ends(c) == console' = [console EXCEPT ![c] = Idle]

\* main.
LaunchConsole(c, command, around) ==
  /\ Me(c).at = "idle"
  /\ console' = [console EXCEPT ![c] = [Idle EXCEPT !.at = command, !.around = around,
                                          !.path = ResolveConfigPath(around)]]
  /\ UNCHANGED <<configs, edits>>

\* A server loads its configuration once; without one a user at a terminal gets
\* the wizard.
ServerLoads(c) ==
  /\ Me(c).at = "serve"
  /\ LET file == configs[Me(c).path]
         result == Load(file, Me(c).around.env)
     IN  \/ /\ result = "valid"
            /\ console' = [console EXCEPT ![c].at = "run", ![c].file = file,
                             ![c].store = StoreOf(file.config.cache, Me(c).around)]
         \/ result = "not-found" /\ Me(c).around.terminal /\ Goes(c, "setup")
         \/ result = "not-found" /\ ~Me(c).around.terminal /\ Ends(c)
         \/ result \notin {"valid", "not-found"} /\ Ends(c)
  /\ UNCHANGED <<configs, edits>>

\* The router and the judge, or the end.
Builds(c) ==
  LET config == Me(c).file.config
  IN  /\ ~RouterFails(config, Me(c).around.env)
      /\ ~JudgeFails(config.judge, Me(c).around.env, Features)

ServerBuilds(c) ==
  /\ Me(c).at = "run"
  /\ IF Builds(c) THEN Goes(c, "serving") ELSE Ends(c)
  /\ UNCHANGED <<configs, edits>>

\* Mutant of ClearCache: a configuration that is not valid has no cache section.
ClearCacheIfValid(c) ==
  /\ Me(c).at = "clear"
  /\ LET file == configs[Me(c).path]
         cache == IF Load(file, Me(c).around.env) = "valid" THEN file.config.cache ELSE DefaultCache
     IN  console' = [console EXCEPT ![c].at = "cleared", ![c].file = file,
                       ![c].store = ResolveCacheDir(cache.dir, Me(c).around)]
  /\ UNCHANGED <<configs, edits>>

\* run_cache_command: the directory it clears, or NoStore.
ClearCache(c) ==
  /\ Me(c).at = "clear"
  /\ LET file == configs[Me(c).path]
     IN  console' = [console EXCEPT ![c].at = "cleared", ![c].file = file,
                       ![c].store = ResolveCacheDir(CacheSettingsOf(file).dir, Me(c).around)]
  /\ UNCHANGED <<configs, edits>>

\* Any process but a server may be gone at any time.
Quit(c) ==
  /\ Me(c).at \in {"cleared", "setup", "asking", "write", "fill", "check"}
  /\ Ends(c)
  /\ UNCHANGED <<configs, edits>>

-----------------------------------------------------------------------------
(* The wizard.                                                             *)

\* candidate_env_vars.
CandidateEnvVars ==
  <<[env |-> "ANTHROPIC_API_KEY", kind |-> "anthropic"], [env |-> "OPENAI_API_KEY", kind |-> "openai"],
    [env |-> "GEMINI_API_KEY", kind |-> "gemini"], [env |-> "GOOGLE_API_KEY", kind |-> "gemini"]>>

\* detect_providers: of each kind the first that is set.
Detected(env) ==
  LET present(i) == EnvVarIsSet(env, CandidateEnvVars[i].env)
      seen(i) == \E j \in 1 .. i - 1 : present(j) /\ CandidateEnvVars[j].kind = CandidateEnvVars[i].kind
      found(i) == IF present(i) /\ ~seen(i) THEN <<CandidateEnvVars[i]>> ELSE <<>>
  IN  found(1) \o found(2) \o found(3) \o found(4)

FreeTierModels(kind) ==
  IF kind \in {"gemini", "google"} THEN <<"gemini-flash-latest", "gemini-flash-lite-latest">> ELSE <<>>

\* unique_name; a name is a sequence, its text and perhaps a number.
UniqueName(name, used) ==
  IF name \notin used
  THEN name
  ELSE LET free == {i \in 2 .. Cardinality(used) + 2 : Append(name, i) \notin used}
       IN  Append(name, CHOOSE i \in free : \A j \in free : i <= j)

\* Mutant of ProviderFor: the variable of the kind is taken to be the one detected.
ProviderForDefault(detected, name, models) ==
  [name |-> name, kind |-> detected.kind, env |-> NoName,
   models |-> IF models = <<>> THEN FreeTierModels(detected.kind) ELSE models]

\* An entry of the file. Its variable is named if it is not the kind's own.
ProviderFor(detected, name, models) ==
  [name |-> name, kind |-> detected.kind,
   env |-> IF DefaultApiKeyEnv[detected.kind] = detected.env THEN NoName ELSE detected.env,
   models |-> IF models = <<>> THEN FreeTierModels(detected.kind) ELSE models]

\* Each entry gets a name that the earlier ones have not.
NamesGiven(found, answer) ==
  LET name[i \in DOMAIN found] ==
        UniqueName(answer.names[found[i].kind], {name[j] : j \in 1 .. i - 1})
  IN  name

WizardConfig(env, answer) ==
  LET found == Detected(env)
      name == NamesGiven(found, answer)
  IN  [providers |-> [i \in DOMAIN found |->
                        ProviderFor(found[i], name[i], answer.models[found[i].kind])],
       proxy |-> answer.proxy, memory |-> answer.memory,
       agent |-> DefaultAgent, cache |-> DefaultCache, judge |-> DefaultJudge]

\* An answer the prompts accept: a model where there is no free one, a proxy that
\* looks like one.
AcceptedAnswer(env, answer) ==
  /\ \A i \in DOMAIN Detected(env) :
       LET kind == Detected(env)[i].kind
       IN  answer.models[kind] # <<>> \/ FreeTierModels(kind) # <<>>
  /\ answer.proxy = "none" \/ IsValidHttpsProxyUrl(answer.proxy)

\* run_setup_inner: a file that is there is kept unless its user says otherwise,
\* and without a key there is nothing to ask.
WizardStarts(c) ==
  /\ Me(c).at = "setup"
  /\ \/ configs[Me(c).path].state # "absent" /\ Ends(c)
     \/ IF Detected(Me(c).around.env) = <<>> THEN Ends(c) ELSE Goes(c, "asking")
  /\ UNCHANGED <<configs, edits>>

WizardAsks(c) ==
  /\ Me(c).at = "asking"
  /\ \E answer \in Answers :
       /\ AcceptedAnswer(Me(c).around.env, answer)
       /\ console' = [console EXCEPT ![c].at = "write",
                        ![c].file = Written(WizardConfig(Me(c).around.env, answer))]
  /\ UNCHANGED <<configs, edits>>

\* The file is emptied before it is written, by whomever it was made meanwhile.
WizardWrites(c) ==
  /\ \/ /\ Me(c).at = "write" /\ Goes(c, "fill")
        /\ configs' = [configs EXCEPT ![Me(c).path] = Empty]
     \/ /\ Me(c).at = "fill" /\ Goes(c, "check")
        /\ configs' = [configs EXCEPT ![Me(c).path] = Me(c).file]
     \/ /\ Me(c).at = "fill" /\ Ends(c)
        /\ configs' = [configs EXCEPT ![Me(c).path].state = "garbled"]
  /\ UNCHANGED edits

\* It loads what it wrote, and fails if that is not valid.
WizardChecks(c) ==
  /\ Me(c).at = "check"
  /\ Ends(c)
  /\ UNCHANGED <<configs, edits>>

-----------------------------------------------------------------------------

Revise ==
  /\ edits < MaxEdits /\ edits' = edits + 1
  /\ \E path \in DOMAIN configs, file \in Revisions : configs' = [configs EXCEPT ![path] = file]
  /\ UNCHANGED console

ConsoleStep(c) ==
  ClearCache(c) \/ Quit(c) \/ WizardStarts(c) \/ WizardAsks(c) \/ WizardWrites(c) \/ WizardChecks(c)

-----------------------------------------------------------------------------

(***************************************************************************)
(* What is declared valid starts: what the wizard wrote passes its own     *)
(* check, unless somebody else wrote the file, and a server that has       *)
(* loaded its configuration builds the router and the judge, unless the    *)
(* proxy only looks like one or the program lacks the judge (setup.rs      *)
(* run_setup_inner, config.rs validate_with_env, main.rs run).             *)
(***************************************************************************)
ValidMeansItStarts ==
  \A c \in Consoles :
    /\ Me(c).at = "check" /\ configs[Me(c).path] = Me(c).file =>
         Load(configs[Me(c).path], Me(c).around.env) = "valid"
    /\ Me(c).at = "run" /\ ~Builds(c) =>
         \/ Me(c).file.config.proxy = "vague"
         \/ Me(c).file.config.judge.backend = "candle"

(***************************************************************************)
(* `cache clear` clears the store of every server that runs from the same  *)
(* file, whatever is wrong with the rest of it or with the environment of  *)
(* the shell (main.rs run_cache_command, config.rs cache_settings).        *)
(***************************************************************************)
ClearReachesTheStore ==
  \A c, s \in Consoles :
    /\ Me(c).at = "cleared" /\ Me(s).at = "serving"
    /\ Me(c).path = Me(s).path /\ Me(c).file = Me(s).file
    /\ Me(c).around.cwd = Me(s).around.cwd /\ Me(c).around.home = Me(s).around.home
    => Me(s).store \in {NoStore, Me(c).store}
=============================================================================

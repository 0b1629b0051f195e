---------------------------- MODULE MCProvisioning ----------------------------
(***************************************************************************)
(* Small machines for Provisioning: two processes; commands of all kinds,  *)
(* the releases they find, and what they find configured.                  *)
(***************************************************************************)
EXTENDS Provisioning, TLC

CONSTANTS p1, p2

Release(version, asset, checksum, runs) ==
  [version |-> version, asset |-> asset, checksum |-> checksum, runs |-> runs]

\* The program's own release is for other platforms only; those of the memory
\* binary are one with a checksum and one without.
TheReleases ==
  [c \in Components |->
     IF c = "self"
     THEN <<Release(1, FALSE, TRUE, TRUE)>>
     ELSE <<Release(1, TRUE, TRUE, TRUE), Release(2, TRUE, FALSE, TRUE)>>]

Own(version) == [kind |-> "release", release |-> 0, version |-> version, runs |-> TRUE]

\* The memory binary is missing, behind, or ahead of any release.
TheInstalled ==
  {[c \in Components |-> IF c = "self" THEN Own(0) ELSE m] : m \in {Missing, Own(0), Own(5)}}

TheScenes == {{"update", "serve", "plugin"}, {"serve", "plugin"}, {"install", "uninstall"},
              {"setup", "serve", "clear"}}

Launches ==
  [s \in TheScenes |->
     CASE "update" \in s -> 2 [] "install" \in s -> 5 [] "setup" \in s -> 3 [] OTHER -> 4]

\* Keys of a kind's own variable and of another one, and a blank one.
Keys(anthropic, google, judge) ==
  [var \in {"ANTHROPIC_API_KEY", "OPENAI_API_KEY", "GEMINI_API_KEY", "GOOGLE_API_KEY", "JUDGE_KEY"} |->
     CASE var = "ANTHROPIC_API_KEY" -> anthropic [] var = "GOOGLE_API_KEY" -> google
       [] var = "OPENAI_API_KEY" -> "blank" [] var = "JUDGE_KEY" -> judge [] OTHER -> "unset"]

Around(env, terminal, home) ==
  [env |-> env, given |-> NoName, cwd |-> "here", home |-> home, terminal |-> terminal]

Host == Around(Keys("set", "set", "set"), FALSE, TRUE)
Shell == Around(Keys("set", "set", "unset"), TRUE, TRUE)
Bare == [Around(Keys("unset", "unset", "unset"), TRUE, FALSE) EXCEPT !.given = "here"]

Memory(command) ==
  [command |-> command, endpoint |-> IF command = NoName THEN "url" ELSE NoName]

Configured(command, dir, judge) ==
  [providers |-> <<[name |-> <<"a">>, kind |-> "anthropic", env |-> NoName, models |-> <<"m">>]>>,
   proxy |-> "none", memory |-> Memory(command), agent |-> DefaultAgent,
   cache |-> [DefaultCache EXCEPT !.dir = dir], judge |-> judge]

Keyed == [DefaultJudge EXCEPT !.mode = "laya", !.env = "JUDGE_KEY"]
InProcess == [Keyed EXCEPT !.backend = "candle", !.checkpoint = TRUE, !.device = "cuda"]

None == [state |-> "absent", config |-> [cache |-> DefaultCache]]
Files(user, here) == [path \in {"user", "here"} |-> IF path = "user" THEN user ELSE here]

\* A server's own binary is the managed one, or cbm, wherever PATH has it.
Ready(commands) == {Files(Written(Configured(c, NoName, DefaultJudge)), None) : c \in commands}

\* Another integration starts its binary by a path, or by that name.
HostOf(linux, plugin) == [linux |-> linux, plugin |-> plugin, gone |-> FALSE]
Hosts == {HostOf(TRUE, "plugin"), HostOf(TRUE, "cbm"), HostOf(FALSE, "plugin")}

Machine(agents, plugin, hosts, configuration, arounds) ==
  [agents |-> agents, plugin |-> plugin, hosts |-> hosts, configs |-> configuration,
   arounds |-> arounds]

TheMachines ==
  [s \in TheScenes |->
     CASE "install" \in s ->
            Machine({"absent", "ours", "other", "garbled"}, FALSE, {HostOf(TRUE, "plugin")},
                    Ready({"managed"}), {Host})
       [] "setup" \in s ->
            Machine({"absent"}, FALSE, {HostOf(TRUE, "plugin")},
                    {Files(None, None), Files(None, Written(Configured(NoName, "relative", Keyed))),
                     Files(Written(Configured(NoName, "dir", InProcess)), None)},
                    {Host, Shell, Bare})
       [] "update" \in s ->
            Machine({"absent"}, TRUE, {HostOf(TRUE, "plugin")}, Ready({"managed"}), {Host})
       [] OTHER -> Machine({"absent"}, TRUE, Hosts, Ready({"managed", "cbm"}), {Host})]

\* One name for all providers, or a name for each.
Answer(name, memory, proxy) ==
  [names |-> [kind \in KnownProviderKinds |-> IF kind = "gemini" THEN <<"a">> ELSE name],
   models |-> [kind \in KnownProviderKinds |-> IF kind = "gemini" THEN <<>> ELSE <<"m">>],
   memory |-> Memory(memory), proxy |-> proxy]

TheAnswers == {Answer(<<"a">>, "managed", "none"), Answer(<<"b">>, NoName, "vague")}

\* Gone, or a server's configuration with a mistake in its last section.
TheRevisions ==
  {None, Written(Configured(NoName, "dir", Keyed)),
   [Written(Configured(NoName, "dir", Keyed)) EXCEPT !.state = "mistyped"]}

Interchangeable == Permutations(Updaters)
=============================================================================

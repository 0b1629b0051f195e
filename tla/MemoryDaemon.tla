----------------------------- MODULE MemoryDaemon -----------------------------
(***************************************************************************)
(* How a server that starts chooses the binary of codebase-memory-mcp      *)
(* (main.rs run). That program has one daemon per user, which accepts only *)
(* clients of its own path; another integration, "plugin", may have        *)
(* started it from elsewhere, or be about to.                              *)
(*                                                                         *)
(* The daemon itself is modelled from what main.rs says of it. A server    *)
(* knows a process by its argv0, and by that only if it is the path of a   *)
(* binary that is there; on systems other than Linux it does not look.     *)
(***************************************************************************)
EXTENDS Naturals

CONSTANTS
  Servers,   \* processes
  MaxLooks,  \* looks into the process table, 25
  BareNames  \* commands that are no path: argv0 of what is started through PATH

ASSUME LooksArePositive == MaxLooks \in Nat \ {0}

NoPath == "none"

VARIABLES
  running,  \* processes of codebase-memory-mcp: [path, daemon, of]; path is argv0
  host,     \* [linux, plugin, gone]: the system, how the other integration starts
            \* its binary, and whether that is gone by now
  server    \* the servers: [at, looks, path]; saw and met are history: the paths
            \* of the daemon, and of all processes, in sight when the server looked

daemonVars == <<running, host, server>>

-----------------------------------------------------------------------------

Daemons == {m \in running : m.daemon}

DaemonPath == (CHOOSE m \in Daemons : TRUE).path

\* The binary of a process is there. The managed one, once there, stays.
Exists(path) == ~(path = host.plugin /\ host.gone)

\* memory_binary_from_cmdline.
InSight == {m \in running : m.path \notin BareNames /\ Exists(m.path)}

Down == [at |-> "down", looks |-> 0, path |-> NoPath, saw |-> {}, met |-> {}]

\* command is codebase_memory.command: "managed", another one or NoPath.
LaunchServer(s, command) ==
  /\ server[s].at = "down"
  /\ server' = [server EXCEPT ![s] = [Down EXCEPT !.path = command,
                                        !.at = IF command = NoPath THEN "connect" ELSE "look"]]
  /\ UNCHANGED <<running, host>>

\* Mutant of RunningBinaries: the first process that is found will do.
RunningBinariesAny == {m.path : m \in InSight}

\* running_memory_binary: the daemon's, or any client's if there is none; of
\* several clients the first in the process table.
RunningBinaries ==
  {m.path : m \in IF InSight \cap Daemons # {} THEN InSight \cap Daemons ELSE InSight}

\* What a look has in sight.
Saw(s) ==
  [server[s] EXCEPT !.saw = {m.path : m \in InSight \cap Daemons},
                    !.met = {m.path : m \in InSight}]

\* wait_for_running_memory_binary: the first look that finds one ends the wait.
LookForDaemon(s) ==
  /\ server[s].at = "look"
  /\ \/ /\ ~host.linux
        /\ server' = [server EXCEPT ![s].at = "start"]
     \/ /\ host.linux
        /\ \E path \in RunningBinaries :
             server' = [server EXCEPT ![s] = [Saw(s) EXCEPT !.at = "start", !.path = path]]
     \/ /\ host.linux /\ RunningBinaries = {}
        /\ server' = [server EXCEPT ![s] =
                        [Saw(s) EXCEPT !.looks = @ + 1,
                           !.at = IF server[s].looks + 1 = MaxLooks THEN "start" ELSE "look"]]
  /\ UNCHANGED <<running, host>>

\* The managed binary has to be there, if it is the one (managed_binary_missing).
StartServer(s, managedExists) ==
  /\ server[s].at = "start"
  /\ server' = IF server[s].path = "managed" /\ ~managedExists
               THEN [server EXCEPT ![s] = Down]
               ELSE [server EXCEPT ![s].at = "connect"]
  /\ UNCHANGED <<running, host>>

\* A client of some path: it becomes the daemon's, or starts the daemon, or is
\* turned away and gone.
Client(path, of) == [path |-> path, daemon |-> FALSE, of |-> of]
TheDaemon(path) == [path |-> path, daemon |-> TRUE, of |-> "daemon"]

\* MemoryClientBackend::connect spawns a client, if its binary is there. Turned
\* away, it hangs for a while.
Connect(s) ==
  /\ server[s].at = "connect"
  /\ UNCHANGED host
  /\ LET path == server[s].path
     IN  IF path = NoPath
         THEN server' = [server EXCEPT ![s].at = "serving"] /\ UNCHANGED running
         ELSE IF ~Exists(path)
         THEN server' = [server EXCEPT ![s] = Down] /\ UNCHANGED running
         ELSE /\ server' = [server EXCEPT ![s].at =
                              IF Daemons # {} /\ DaemonPath # path THEN "refused" ELSE "serving"]
              /\ running' = running \cup {Client(path, s)}
                              \cup IF Daemons = {} THEN {TheDaemon(path)} ELSE {}

\* A session ends, or a server that was refused.
Leave(s) ==
  /\ server[s].at \in {"serving", "refused"}
  /\ running' = {m \in running : m.of # s}
  /\ server' = [server EXCEPT ![s] = Down]
  /\ UNCHANGED host

\* The other integration's client comes, starts the daemon if there is none, and
\* goes; a daemon without clients may go as well.
Plugin == Client(host.plugin, "plugin")

PluginComes ==
  /\ Exists(host.plugin)
  /\ running' = running \cup {Plugin} /\ running' # running
  /\ UNCHANGED <<host, server>>

PluginStartsDaemon ==
  /\ Exists(host.plugin) /\ Plugin \in running /\ Daemons = {}
  /\ running' = running \cup {TheDaemon(host.plugin)}
  /\ UNCHANGED <<host, server>>

PluginGoes ==
  /\ Plugin \in running
  /\ running' = running \ {Plugin}
  /\ UNCHANGED <<host, server>>

\* Its binary is removed under what runs, or put back: the plugin is updated.
PluginMoves ==
  /\ host' = [host EXCEPT !.gone = ~@]
  /\ UNCHANGED <<running, server>>

DaemonGoes ==
  /\ Daemons # {}
  /\ \A m \in running : m.daemon \/ m.path # DaemonPath
  /\ running' = running \ Daemons
  /\ UNCHANGED <<host, server>>

DaemonInit ==
  /\ DOMAIN host = {"linux", "plugin", "gone"} /\ ~host.gone
  /\ running \in {{}, {Plugin, TheDaemon(host.plugin)}}
  /\ server = [s \in Servers |-> Down]

ServerStep(s, managedExists) ==
  LookForDaemon(s) \/ StartServer(s, managedExists) \/ Connect(s) \/ Leave(s)

World == PluginComes \/ PluginStartsDaemon \/ PluginGoes \/ PluginMoves \/ DaemonGoes

-----------------------------------------------------------------------------

(***************************************************************************)
(* A server is turned away only by a daemon that it had no way to find:    *)
(* neither the daemon itself was in sight when the server looked, nor were *)
(* clients of that path alone, from which the daemon would come. A process *)
(* is out of sight if it was started by a bare name or its binary is gone, *)
(* and on systems other than Linux (main.rs wait_for_running_memory_binary,*)
(* running_memory_binary, memory_binary_from_cmdline).                     *)
(***************************************************************************)
RefusedOnlyByUnseen ==
  [][\A s \in Servers :
       Connect(s) /\ server'[s].at = "refused" =>
         DaemonPath \notin server[s].saw /\ server[s].met # {DaemonPath}]_daemonVars
=============================================================================

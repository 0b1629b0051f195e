----------------------------- MODULE Provisioning -----------------------------
(***************************************************************************)
(* The commands of repo-explorer-mcp on one machine: --update, --install   *)
(* and --uninstall, the wizard, `cache clear`, and servers that start      *)
(* meanwhile (main.rs main, run). They share the installed binaries and    *)
(* the configuration: a server refuses to start while the managed binary   *)
(* it is to use is missing.                                                *)
(***************************************************************************)
EXTENDS Updater, Installer, MemoryDaemon, Startup

CONSTANTS
  Scenes,       \* sets of commands that a behaviour may hold, "plugin" for another
                \* user of the memory binary; others are as if their users were away
  MaxLaunches,  \* MaxLaunches[scene] bounds the commands of a behaviour
  Machines      \* Machines[scene]: what such a behaviour starts from: [agents,
                \* plugin, hosts, configs, arounds]

ASSUME OneProcessEach == Consoles = Servers
ASSUME ConfigsAreTyped ==
  \A s \in Scenes : \A start \in Machines[s].configs : \A path \in DOMAIN start : IsFile(start[path])
ASSUME PathsAreFiles ==
  \A s \in Scenes : \A start \in Machines[s].configs, around \in Machines[s].arounds :
    {UserPath, around.cwd} \cup ({around.given} \ {NoName}) \subseteq DOMAIN start

VARIABLES scene, launches

provisioningVars == <<updaterVars, installerVars, daemonVars, startupVars, scene, launches>>

Launch(command) ==
  /\ command \in scene
  /\ launches < MaxLaunches[scene] /\ launches' = launches + 1

\* main runs one command; --update goes before --install and --uninstall.
Main ==
  \/ /\ Launch("update")
     /\ \E p \in Updaters : LaunchUpdate(p)
     /\ UNCHANGED <<installerVars, daemonVars, startupVars>>
  \/ /\ \E s \in Shells, command \in {"install", "uninstall"} :
          Launch(command) /\ LaunchInstaller(s, command)
     /\ UNCHANGED <<updaterVars, daemonVars, startupVars>>
  \/ /\ \E c \in Consoles, command \in {"serve", "setup", "clear"},
           around \in Machines[scene].arounds :
          Launch(command) /\ LaunchConsole(c, command, around)
     /\ UNCHANGED <<updaterVars, installerVars, daemonVars>>

Updating ==
  /\ \/ \E p \in Updaters : UpdaterStep(p)
     \/ "update" \in scene /\ (Place \/ \E c \in Components : Publish(c))
  /\ UNCHANGED <<installerVars, daemonVars, startupVars, launches>>

Installing ==
  /\ (\E s \in Shells : ShellStep(s)) \/ ("install" \in scene /\ Touch)
  /\ UNCHANGED <<updaterVars, daemonVars, startupVars, launches>>

Configuring ==
  /\ (\E c \in Consoles : ConsoleStep(c)) \/ ("setup" \in scene /\ Revise)
  /\ UNCHANGED <<updaterVars, installerVars, daemonVars, launches>>

\* run: the configuration, the memory server, and what is built last.
Loaded(s) ==
  /\ ServerLoads(s)
  /\ IF console'[s].at = "run"
     THEN LaunchServer(s, console'[s].file.config.memory.command)
     ELSE UNCHANGED daemonVars

Connecting(s) ==
  /\ ServerStep(s, file["memory"] # Missing)
  /\ IF server'[s].at = "down"
     THEN Ends(s) /\ UNCHANGED <<configs, edits>>
     ELSE UNCHANGED startupVars

Built(s) ==
  /\ server[s].at = "serving"
  /\ ServerBuilds(s)
  /\ IF Builds(s) THEN UNCHANGED daemonVars ELSE Leave(s)

Serving ==
  /\ \/ \E s \in Servers : Loaded(s) \/ Connecting(s) \/ Built(s)
     \/ "plugin" \in scene /\ World /\ UNCHANGED startupVars
  /\ UNCHANGED <<updaterVars, installerVars, launches>>

Init ==
  /\ scene \in Scenes /\ launches = 0
  /\ host \in Machines[scene].hosts
  /\ UpdaterInit /\ InstallerInit /\ DaemonInit
  /\ agentFile \in Machines[scene].agents
  /\ running # {} => Machines[scene].plugin
  /\ configs \in Machines[scene].configs
  /\ console = [c \in Consoles |-> Idle] /\ edits = 0

Next == (Main \/ Updating \/ Installing \/ Configuring \/ Serving) /\ UNCHANGED scene

Spec == Init /\ [][Next]_provisioningVars
=============================================================================

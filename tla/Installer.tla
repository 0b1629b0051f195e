------------------------------ MODULE Installer ------------------------------
(***************************************************************************)
(* --install and --uninstall: the server's entry in Claude Code, kept by   *)
(* the claude program, and the file that makes the explore agent shadow a  *)
(* built-in one (install.rs). Commands may overlap; a user may edit or     *)
(* remove the file at any time.                                            *)
(***************************************************************************)
EXTENDS Naturals

CONSTANTS
  Shells,       \* processes
  AgentFiles,   \* what the file is at first: "absent", "ours", "other" (another
                \* text), "garbled" (no UTF-8)
  MaxRefusals,  \* bounds the calls of claude and of the file system that fail
  MaxTouches    \* bounds the user's edits

ASSUME InstallerBoundsAreNat == MaxRefusals \in Nat /\ MaxTouches \in Nat
ASSUME AgentFilesAreKnown == AgentFiles \subseteq {"absent", "ours", "other", "garbled"}

VARIABLES
  registered,  \* claude has an entry for the server
  agentFile,
  shell,       \* shell[s]: where a command is
  refusals, touches,
  broken       \* history: a command failed half-way, or met another one, and none
               \* has gone through by itself since

installerVars == <<registered, agentFile, shell, refusals, touches, broken>>

-----------------------------------------------------------------------------

ShellIdle(s) == shell[s] = "idle"

Refusal == refusals < MaxRefusals /\ refusals' = refusals + 1

To(s, at) == shell' = [shell EXCEPT ![s] = at]

\* What was broken is mended, unless another command is at work.
Mended(s) == broken' = (broken /\ \E other \in Shells \ {s} : ~ShellIdle(other))

LaunchInstaller(s, command) ==
  /\ ShellIdle(s)
  /\ To(s, command)
  /\ broken' = (broken \/ \E other \in Shells : ~ShellIdle(other))
  /\ UNCHANGED <<registered, agentFile, refusals, touches>>

\* claude_binary, when there is none: an install ends, an uninstall goes on with
\* the file.
NoClaude(s) ==
  /\ \/ shell[s] = "install" /\ To(s, "idle")
     \/ shell[s] = "uninstall" /\ To(s, "delete")
  /\ Refusal
  /\ UNCHANGED <<registered, agentFile, touches, broken>>

\* The old entry goes, or not if claude fails, and it may be gone even then: a
\* call that takes too long is killed. Nothing depends on it.
Remove(s) ==
  /\ \/ shell[s] = "install" /\ To(s, "add")
     \/ shell[s] = "uninstall" /\ To(s, "delete")
  /\ \/ registered' = FALSE /\ UNCHANGED refusals
     \/ registered' \in {registered, FALSE} /\ Refusal
  /\ UNCHANGED <<agentFile, touches, broken>>

\* Mutant of Add: the file is written though the server is not registered.
AddRegardless(s) ==
  /\ shell[s] = "add"
  /\ \/ registered' = TRUE /\ Mended(s) /\ UNCHANGED refusals
     \/ /\ registered' \in {registered, TRUE} /\ Refusal
        /\ broken' = (broken \/ agentFile = "ours")
  /\ To(s, "read")
  /\ UNCHANGED <<agentFile, touches>>

\* The new entry, or the end: an agent without its server is not installed. One
\* that was there before stays, without a server.
Add(s) ==
  /\ shell[s] = "add"
  /\ \/ registered' = TRUE /\ To(s, "read") /\ Mended(s) /\ UNCHANGED refusals
     \/ /\ registered' \in {registered, TRUE} /\ To(s, "idle") /\ Refusal
        /\ broken' = (broken \/ agentFile = "ours")
  /\ UNCHANGED <<agentFile, touches>>

\* install_agent_file_at: a file with another text stays.
ReadAgent(s) ==
  /\ shell[s] = "read"
  /\ \/ agentFile = "other" /\ To(s, "idle") /\ UNCHANGED refusals
     \/ agentFile # "other" /\ To(s, "write") /\ UNCHANGED refusals
     \/ To(s, "write") /\ Refusal
  /\ UNCHANGED <<registered, agentFile, touches, broken>>

\* The file as it is by now is replaced; a write that fails leaves any part of it.
WriteAgent(s) ==
  /\ shell[s] = "write"
  /\ To(s, "idle")
  /\ \/ agentFile' = "ours" /\ UNCHANGED refusals
     \/ agentFile' \in {agentFile, "other"} /\ Refusal
  /\ UNCHANGED <<registered, touches, broken>>

\* uninstall_agent_file_at, which reads and removes: only what install wrote.
DeleteAgent(s) ==
  /\ shell[s] = "delete"
  /\ To(s, "idle")
  /\ \/ /\ agentFile' = IF agentFile = "ours" THEN "absent" ELSE agentFile
        /\ Mended(s) /\ UNCHANGED refusals
     \/ UNCHANGED agentFile /\ Refusal /\ broken' = (broken \/ agentFile = "ours")
  /\ UNCHANGED <<registered, touches>>

\* A user's own agent, or none.
Touch ==
  /\ touches < MaxTouches /\ touches' = touches + 1
  /\ agentFile' \in {"other", "absent"} \ {agentFile}
  /\ UNCHANGED <<registered, shell, refusals, broken>>

InstallerInit ==
  /\ agentFile \in AgentFiles
  /\ registered = (agentFile = "ours")
  /\ shell = [s \in Shells |-> "idle"]
  /\ refusals = 0 /\ touches = 0 /\ broken = FALSE

ShellStep(s) ==
  NoClaude(s) \/ Remove(s) \/ Add(s) \/ ReadAgent(s) \/ WriteAgent(s) \/ DeleteAgent(s)

InstallerNext ==
  \/ \E s \in Shells :
       ShellStep(s) \/ \E command \in {"install", "uninstall"} : LaunchInstaller(s, command)
  \/ Touch

InstallerSpec == InstallerInit /\ [][InstallerNext]_installerVars

-----------------------------------------------------------------------------

(***************************************************************************)
(* The agent this program installs does not shadow a built-in one without  *)
(* the server it needs, unless a command failed when it had half undone an *)
(* installation, or two of them overlapped; and the next one that goes     *)
(* through by itself mends that, whatever a user and failing calls have    *)
(* left (install.rs run_install, run_uninstall).                           *)
(***************************************************************************)
ShadowsOnlyWithServer ==
  agentFile = "ours" /\ ~registered => broken \/ \E s \in Shells : ~ShellIdle(s)
=============================================================================

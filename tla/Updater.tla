------------------------------- MODULE Updater -------------------------------
(***************************************************************************)
(* The updater (--update): it looks at the binary that is installed, asks  *)
(* for the latest release, downloads it into a temporary file, tries that  *)
(* out and moves it into place (update.rs). A process updates its program  *)
(* and codebase-memory-mcp at the same time, one task each; several        *)
(* processes may, and each may be killed.                                  *)
(***************************************************************************)
EXTENDS Naturals, Sequences

CONSTANTS
  Updaters,   \* processes
  Missing,
  Releases,   \* of each component, oldest first: [version, asset, checksum, runs]:
              \* is there an asset for this platform, a .sha256 of it, does it run
  Installed,  \* what is installed at first: from component to file
  MaxFaults,  \* bounds the calls that fail and the downloads that are damaged
  MaxKills,
  MaxPlaced   \* bounds the binaries a user puts in place

Components == {"self", "memory"}

ASSUME BoundsAreNat == MaxFaults \in Nat /\ MaxKills \in Nat /\ MaxPlaced \in Nat
ASSUME ReleasesAreVersions ==
  \A c \in Components : \A n \in DOMAIN Releases[c] :
    /\ Releases[c][n].version \in Nat
    /\ Releases[c][n].checksum \in BOOLEAN /\ Releases[c][n].runs \in BOOLEAN

\* A binary, see below; versions are numbers.
Binaries ==
  [kind : {"release", "user", "other", "cut"}, release : Nat, version : Nat \cup {Missing},
   runs : BOOLEAN]

ASSUME InstalledRun ==
  \A f \in Installed :
    /\ f \in [Components -> Binaries \cup {Missing}]
    /\ \A c \in Components : f[c] # Missing => f[c].runs /\ f[c].kind = "release"

VARIABLES
  file,       \* file[c]: the installed binary, or Missing
  temps,      \* temps[p][c]: the temporary file named for process p, or Missing
  published,  \* published[c]: how many of the releases are out
  task,       \* task[p][c]: the task of process p for component c
  faults, kills, placed

updaterVars == <<file, temps, published, task, faults, kills, placed>>

-----------------------------------------------------------------------------
(* Binaries: those of a release, and what else a file may hold: a binary   *)
(* of a user's own, an archive's wrong content, a file that was cut short. *)

Build(c, n) == [kind |-> "release", release |-> n, version |-> Releases[c][n].version,
                runs |-> Releases[c][n].runs]

Stray(kind, n) == [kind |-> kind, release |-> n, version |-> Missing, runs |-> kind # "cut"]

\* looked is history: the file when its version was taken.
NoTask == [at |-> "none", current |-> Missing, absent |-> FALSE, looked |-> Missing,
           release |-> 0, data |-> Missing]

Done == {"none", "error", "skipped", "up-to-date", "updated", "installed"}

\* One more call fails, or download is damaged.
Fault == faults < MaxFaults /\ faults' = faults + 1

\* ComponentReport of a task that ends.
Report(p, c, action) == task' = [task EXCEPT ![p][c] = [NoTask EXCEPT !.at = action]]

FailTask(p, c) == Report(p, c, "error")

-----------------------------------------------------------------------------

UpdaterIdle(p) == \A c \in Components : task[p][c].at = "none"

\* The version of the program itself was compiled into it.
LaunchUpdate(p) ==
  /\ UpdaterIdle(p)
  /\ file["self"] # Missing /\ file["self"].kind = "release"
  /\ task' = [task EXCEPT
       ![p]["self"] = [NoTask EXCEPT !.at = "fetch", !.current = file["self"].version,
                                     !.looked = file["self"]],
       ![p]["memory"] = [NoTask EXCEPT !.at = "look"]]
  /\ UNCHANGED <<file, temps, published, faults, kills, placed>>

\* provision_managed_binary: the directory, the file, its --version. A version
\* is not known when the binary prints none, or hangs.
Look(p) ==
  /\ task[p]["memory"].at = "look"
  /\ LET looked(version, absent) ==
           task' = [task EXCEPT ![p]["memory"] =
                      [@ EXCEPT !.at = "fetch", !.current = version, !.absent = absent,
                                !.looked = file["memory"]]]
     IN  \/ FailTask(p, "memory") /\ Fault
         \/ file["memory"] = Missing /\ looked(Missing, TRUE) /\ UNCHANGED faults
         \/ file["memory"] # Missing /\ looked(file["memory"].version, FALSE) /\ UNCHANGED faults
         \/ file["memory"] # Missing /\ looked(Missing, FALSE) /\ Fault
  /\ UNCHANGED <<file, temps, published, kills, placed>>

\* Mutant of Stale: a binary of unknown version is taken for a missing one.
StaleWhenUnknown(t, release) ==
  IF t.current = Missing THEN TRUE ELSE release.version > t.current

\* Does a release replace what is there? A file of unknown version stays.
Stale(t, release) ==
  IF t.current = Missing THEN t.absent ELSE release.version > t.current

\* check_and_install, up to the choice of an asset.
Fetch(p, c) ==
  /\ task[p][c].at = "fetch"
  /\ LET t == task[p][c]
         latest == Releases[c][published[c]]
     IN  \/ FailTask(p, c) /\ Fault
         \/ /\ ~Stale(t, latest)
            /\ Report(p, c, IF t.current = Missing THEN "skipped" ELSE "up-to-date")
            /\ UNCHANGED faults
         \/ /\ Stale(t, latest) /\ ~latest.asset
            /\ FailTask(p, c)
            /\ UNCHANGED faults
         \/ /\ Stale(t, latest) /\ latest.asset
            /\ task' = [task EXCEPT ![p][c] = [t EXCEPT !.at = "download", !.release = published[c]]]
            /\ UNCHANGED faults
  /\ UNCHANGED <<file, temps, published, kills, placed>>

\* The sha256 of the asset, when there is a sidecar.
Accepted(c, t, data) ==
  Releases[c][t.release].checksum => data = Build(c, t.release)

\* install_from_asset: the asset, its checksum and the binary in it, or any of the
\* three fails. A damaged asset may hold another binary, or one cut short.
Download(p, c) ==
  /\ task[p][c].at = "download"
  /\ LET t == task[p][c]
         got(data) ==
           IF Accepted(c, t, data)
           THEN task' = [task EXCEPT ![p][c] = [t EXCEPT !.at = "write", !.data = data]]
           ELSE FailTask(p, c)
     IN  \/ got(Build(c, t.release)) /\ UNCHANGED faults
         \/ FailTask(p, c) /\ Fault
         \/ \E kind \in {"other", "cut"} : got(Stray(kind, t.release)) /\ Fault
  /\ UNCHANGED <<file, temps, published, kills, placed>>

\* write_temp_executable: a file named for the process. One that cannot be written,
\* or made executable, stays.
Write(p, c) ==
  /\ task[p][c].at = "write"
  /\ \/ /\ temps' = [temps EXCEPT ![p][c] = task[p][c].data]
        /\ task' = [task EXCEPT ![p][c].at = "verify"]
        /\ UNCHANGED faults
     \/ /\ temps' = [temps EXCEPT ![p][c] = Stray("cut", 0)]
        /\ FailTask(p, c) /\ Fault
  /\ UNCHANGED <<file, published, kills, placed>>

\* Mutant of Verified: whatever is there is good.
VerifiedUntried(p, c) == TRUE

\* The temporary file exits cleanly on --version.
Verified(p, c) == temps[p][c].runs

\* verify_executable, in time or not; a bad temporary file is removed.
Verify(p, c) ==
  /\ task[p][c].at = "verify"
  /\ \/ /\ Verified(p, c)
        /\ task' = [task EXCEPT ![p][c].at = "install"]
        /\ UNCHANGED <<temps, faults>>
     \/ /\ ~Verified(p, c)
        /\ temps' = [temps EXCEPT ![p][c] = Missing] /\ FailTask(p, c)
        /\ UNCHANGED faults
     \/ temps' = [temps EXCEPT ![p][c] = Missing] /\ FailTask(p, c) /\ Fault
  /\ UNCHANGED <<file, published, kills, placed>>

\* rename, or self_replace.
Install(p, c) ==
  /\ task[p][c].at = "install"
  /\ \/ /\ file' = [file EXCEPT ![c] = temps[p][c]]
        /\ Report(p, c, IF task[p][c].current = Missing THEN "installed" ELSE "updated")
        /\ UNCHANGED faults
     \/ FailTask(p, c) /\ Fault /\ UNCHANGED file
  /\ temps' = [temps EXCEPT ![p][c] = Missing]
  /\ UNCHANGED <<published, kills, placed>>

\* run_update prints its report and exits.
Exit(p) ==
  /\ ~UpdaterIdle(p)
  /\ \A c \in Components : task[p][c].at \in Done
  /\ task' = [task EXCEPT ![p] = [c \in Components |-> NoTask]]
  /\ UNCHANGED <<file, temps, published, faults, kills, placed>>

\* A file that is being written may be left cut short.
Kill(p) ==
  /\ ~UpdaterIdle(p)
  /\ kills < MaxKills /\ kills' = kills + 1
  /\ task' = [task EXCEPT ![p] = [c \in Components |-> NoTask]]
  /\ \E cut \in SUBSET {c \in Components : task[p][c].at = "write"} :
       temps' = [temps EXCEPT ![p] =
                   [c \in Components |-> IF c \in cut THEN Stray("cut", 0) ELSE @[c]]]
  /\ UNCHANGED <<file, published, faults, placed>>

-----------------------------------------------------------------------------
(* The world.                                                              *)

Publish(c) ==
  /\ published[c] < Len(Releases[c])
  /\ published' = [published EXCEPT ![c] = @ + 1]
  /\ UNCHANGED <<file, temps, task, faults, kills, placed>>

\* A user puts a binary of another make where the managed one belongs.
Place ==
  /\ placed < MaxPlaced /\ placed' = placed + 1
  /\ file' = [file EXCEPT !["memory"] = Stray("user", 0)]
  /\ UNCHANGED <<temps, published, task, faults, kills>>

UpdaterInit ==
  /\ file \in Installed
  /\ temps = [p \in Updaters |-> [c \in Components |-> Missing]]
  /\ published = [c \in Components |-> 1]
  /\ task = [p \in Updaters |-> [c \in Components |-> NoTask]]
  /\ faults = 0 /\ kills = 0 /\ placed = 0

UpdaterStep(p) ==
  \/ Look(p)
  \/ \E c \in Components :
       Fetch(p, c) \/ Download(p, c) \/ Write(p, c) \/ Verify(p, c) \/ Install(p, c)
  \/ Exit(p)
  \/ Kill(p)

UpdaterNext ==
  \/ \E p \in Updaters : LaunchUpdate(p) \/ UpdaterStep(p)
  \/ \E c \in Components : Publish(c)
  \/ Place

UpdaterSpec == UpdaterInit /\ [][UpdaterNext]_updaterVars

-----------------------------------------------------------------------------

(***************************************************************************)
(* Whatever fails or is killed at whatever time, what is installed runs:   *)
(* it is a whole build, or something else that ran when it was tried, and  *)
(* that only from a release without a checksum (update.rs                  *)
(* install_from_asset, install_dependency_binary, install_self).           *)
(***************************************************************************)
InstalledIsWhole ==
  \A c \in Components :
    file[c] # Missing =>
      /\ file[c].runs
      /\ file[c].kind = "other" => ~Releases[c][file[c].release].checksum

(***************************************************************************)
(* No update leaves a component older than it was when the updater looked, *)
(* or replaces anything if it had a binary there whose version it could    *)
(* not tell, whatever other updaters and the user install and releases are *)
(* published until it is done (update.rs check_and_install,                *)
(* provision_managed_binary). It does not look again: what was put there   *)
(* in between goes.                                                        *)
(***************************************************************************)
NeverDowngrades ==
  [][\A p \in Updaters, c \in Components :
       Install(p, c) /\ file'[c] # file[c] =>
         LET looked == task[p][c].looked
         IN  \/ looked = Missing
             \/ /\ looked.version # Missing
                /\ Releases[c][task[p][c].release].version > looked.version]_updaterVars
=============================================================================

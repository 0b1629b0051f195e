-------------------------- MODULE ProvisioningProofs --------------------------
(***************************************************************************)
(* Whatever processes run and fail, what is installed runs and is not      *)
(* replaced by something older, and what is configured can be started      *)
(* with, for any releases, environments and answers: proofs about          *)
(* Provisioning.                                                           *)
(***************************************************************************)
EXTENDS Provisioning, FiniteSetTheorems, WellFoundedInduction, TLAPS

\* The domains of the functions that steps change.
Shape ==
  /\ DOMAIN file = Components
  /\ DOMAIN temps = Updaters /\ \A p \in Updaters : DOMAIN temps[p] = Components
  /\ DOMAIN task = Updaters /\ \A p \in Updaters : DOMAIN task[p] = Components

\* A binary that is none of the release's comes without a checksum.
Fit(c, binary) == binary.kind = "other" => ~Releases[c][binary.release].checksum

\* What a task has in hand.
Carries(p, c) ==
  LET t == task[p][c]
  IN  /\ t.at = "write" => Fit(c, t.data)
      /\ t.at \in {"verify", "install"} => Fit(c, temps[p][c])
      /\ t.at = "install" => temps[p][c].runs

\* What a task knows of the file it looked at, and why it goes on.
Knows(p, c) ==
  LET t == task[p][c]
  IN  /\ t.at \in {"fetch", "download", "write", "verify", "install"} =>
           /\ t.absent => t.looked = Missing
           /\ t.current # Missing => t.looked # Missing /\ t.current = t.looked.version
      /\ t.at \in {"download", "write", "verify", "install"} =>
           Stale(t, Releases[c][t.release])

UpdaterInv ==
  /\ Shape
  /\ \A c \in Components : file[c] # Missing => file[c].runs /\ Fit(c, file[c])
  /\ \A p \in Updaters, c \in Components : Carries(p, c) /\ Knows(p, c)

-----------------------------------------------------------------------------

\* Of the composition, the updater takes its own steps or none.
LEMMA StepsOfTheUpdater == [Next]_provisioningVars => [UpdaterNext]_updaterVars
<1> SUFFICES ASSUME [Next]_provisioningVars PROVE [UpdaterNext]_updaterVars
  OBVIOUS
<1>1. CASE Main
  BY <1>1 DEF Main, UpdaterNext
<1>2. CASE Updating
  BY <1>2 DEF Updating, UpdaterNext
<1>3. CASE Installing
  BY <1>3 DEF Installing
<1>4. CASE Serving
  BY <1>4 DEF Serving
<1>5. CASE UNCHANGED provisioningVars
  BY <1>5 DEF provisioningVars
<1>6. CASE Configuring
  BY <1>6 DEF Configuring
<1> QED
  BY <1>1, <1>2, <1>3, <1>4, <1>5, <1>6 DEF Next

LEMMA InitUpdater == UpdaterInit => UpdaterInv
<1> SUFFICES ASSUME UpdaterInit PROVE UpdaterInv
  OBVIOUS
<1>1. Shape
  BY InstalledRun DEF UpdaterInit, Shape
<1>2. ASSUME NEW c \in Components, file[c] # Missing
      PROVE  file[c].runs /\ Fit(c, file[c])
  BY <1>2, InstalledRun DEF UpdaterInit, Fit
<1>3. ASSUME NEW p \in Updaters, NEW c \in Components
      PROVE  Carries(p, c) /\ Knows(p, c)
  BY DEF UpdaterInit, NoTask, Carries, Knows
<1> QED
  BY <1>1, <1>2, <1>3 DEF UpdaterInv

\* A task that ended, or of which nothing changed, is in order.
LEMMA Undisturbed ==
  ASSUME NEW p, NEW c, Carries(p, c), Knows(p, c),
         \/ task'[p][c].at \in Done \cup {"look"}
         \/ task'[p][c] = task[p][c] /\ temps'[p][c] = temps[p][c]
  PROVE  Carries(p, c)' /\ Knows(p, c)'
BY DEF Carries, Knows, Done, Fit, Stale

\* A step of one task leaves the others alone.
LEMMA OneTaskOnly ==
  ASSUME UpdaterInv, Shape',
         NEW p \in Updaters, NEW c \in Components,
         \A q \in Updaters, d \in Components :
           <<q, d>> # <<p, c>> => task'[q][d] = task[q][d] /\ temps'[q][d] = temps[q][d],
         \A d \in Components : file'[d] # file[d] => file'[d].runs /\ Fit(d, file'[d]),
         Carries(p, c)' /\ Knows(p, c)'
  PROVE  UpdaterInv'
<1>1. ASSUME NEW q \in Updaters, NEW d \in Components
      PROVE  Carries(q, d)' /\ Knows(q, d)'
  <2>1. CASE <<q, d>> = <<p, c>>
    BY <2>1
  <2>2. CASE <<q, d>> # <<p, c>>
    BY <2>2, Undisturbed DEF UpdaterInv
  <2> QED
    BY <2>1, <2>2
<1>2. ASSUME NEW d \in Components, file'[d] # Missing
      PROVE  (file[d].runs /\ Fit(d, file[d]))'
  BY <1>2 DEF UpdaterInv, Fit
<1> QED
  BY <1>1, <1>2 DEF UpdaterInv

LEMMA ReportKeeps ==
  ASSUME NEW p \in Updaters, NEW c \in Components, NEW action \in Done,
         UpdaterInv, Report(p, c, action), UNCHANGED file,
         \A q \in Updaters, d \in Components : <<q, d>> # <<p, c>> => temps'[q][d] = temps[q][d],
         DOMAIN temps' = Updaters /\ \A q \in Updaters : DOMAIN temps'[q] = Components
  PROVE  UpdaterInv'
<1>1. task'[p][c].at = action
  BY DEF Report, NoTask, UpdaterInv, Shape
<1>2. Carries(p, c)' /\ Knows(p, c)'
  BY <1>1 DEF Carries, Knows, Done
<1>3. Shape'
  BY DEF Report, UpdaterInv, Shape
<1>4. \A q \in Updaters, d \in Components : <<q, d>> # <<p, c>> => task'[q][d] = task[q][d]
  BY DEF Report, UpdaterInv, Shape
<1> QED
  BY <1>2, <1>3, <1>4, OneTaskOnly

LEMMA LookKeeps ==
  ASSUME NEW p \in Updaters, UpdaterInv, Look(p)
  PROVE  UpdaterInv'
<1> DEFINE looked(version, absent) ==
      task' = [task EXCEPT ![p]["memory"] =
                 [@ EXCEPT !.at = "fetch", !.current = version, !.absent = absent,
                           !.looked = file["memory"]]]
<1>0. "memory" \in Components
  BY DEF Components
<1>1. CASE FailTask(p, "memory")
  <2>1. UNCHANGED <<file, temps>>
    BY DEF Look
  <2> QED
    BY <1>0, <1>1, <2>1, ReportKeeps DEF FailTask, Done, UpdaterInv, Shape
<1>2. ASSUME NEW version, NEW absent \in BOOLEAN, looked(version, absent),
             absent => file["memory"] = Missing,
             version # Missing => file["memory"] # Missing /\ version = file["memory"].version
      PROVE  UpdaterInv'
  <2>1. UNCHANGED <<file, temps>>
    BY DEF Look
  <2>2. Shape'
    BY <1>2, <2>1 DEF UpdaterInv, Shape
  <2>3. \A q \in Updaters, d \in Components : <<q, d>> # <<p, "memory">> => task'[q][d] = task[q][d]
    BY <1>0, <1>2 DEF UpdaterInv, Shape
  <2>4. /\ task'[p]["memory"].at = "fetch"
        /\ task'[p]["memory"].current = version
        /\ task'[p]["memory"].looked = file["memory"]
        /\ task'[p]["memory"].absent = absent
    BY <1>0, <1>2 DEF UpdaterInv, Shape
  <2>5. Carries(p, "memory")' /\ Knows(p, "memory")'
    BY <1>2, <2>4 DEF Carries, Knows
  <2> QED
    BY <1>0, <2>1, <2>2, <2>3, <2>5, OneTaskOnly
<1> QED
  BY <1>1, <1>2 DEF Look

LEMMA FetchKeeps ==
  ASSUME NEW p \in Updaters, NEW c \in Components, UpdaterInv, Fetch(p, c)
  PROVE  UpdaterInv'
<1> DEFINE t == task[p][c]
           latest == Releases[c][published[c]]
<1>1. UNCHANGED <<file, temps>>
  BY DEF Fetch
<1>2. ASSUME NEW action \in Done, Report(p, c, action) PROVE UpdaterInv'
  BY <1>1, <1>2, ReportKeeps DEF UpdaterInv, Shape
<1>3. CASE /\ Stale(t, latest)
           /\ task' = [task EXCEPT ![p][c] = [t EXCEPT !.at = "download", !.release = published[c]]]
  <2>1. Shape'
    BY <1>1, <1>3 DEF UpdaterInv, Shape
  <2>2. \A q \in Updaters, d \in Components : <<q, d>> # <<p, c>> => task'[q][d] = task[q][d]
    BY <1>3 DEF UpdaterInv, Shape
  <2>3. task'[p][c] = [t EXCEPT !.at = "download", !.release = published[c]]
    BY <1>3 DEF UpdaterInv, Shape
  <2>4. Knows(p, c)
    BY DEF UpdaterInv
  <2>5. Carries(p, c)'
    BY <2>3 DEF Carries
  <2>6. Knows(p, c)'
    BY <1>3, <2>3, <2>4 DEF Knows, Stale, Fetch
  <2> QED
    BY <1>1, <2>1, <2>2, <2>5, <2>6, OneTaskOnly
<1> QED
  BY <1>2, <1>3 DEF Fetch, FailTask, Done

\* A sidecar admits the release's own build only.
LEMMA AcceptedFits ==
  ASSUME NEW c \in Components, NEW t, NEW kind, Accepted(c, t, Stray(kind, t.release))
  PROVE  Fit(c, Stray(kind, t.release))
BY DEF Accepted, Build, Stray, Fit

LEMMA DownloadKeeps ==
  ASSUME NEW p \in Updaters, NEW c \in Components, UpdaterInv, Download(p, c)
  PROVE  UpdaterInv'
<1> DEFINE t == task[p][c]
<1>1. UNCHANGED <<file, temps>>
  BY DEF Download
<1>2. CASE FailTask(p, c)
  BY <1>1, <1>2, ReportKeeps DEF FailTask, Done, UpdaterInv, Shape
<1>3. ASSUME NEW data, Fit(c, data),
             task' = [task EXCEPT ![p][c] = [t EXCEPT !.at = "write", !.data = data]]
      PROVE  UpdaterInv'
  <2>1. Shape'
    BY <1>1, <1>3 DEF UpdaterInv, Shape
  <2>2. \A q \in Updaters, d \in Components : <<q, d>> # <<p, c>> => task'[q][d] = task[q][d]
    BY <1>3 DEF UpdaterInv, Shape
  <2>3. task'[p][c] = [t EXCEPT !.at = "write", !.data = data]
    BY <1>3 DEF UpdaterInv, Shape
  <2>4. Knows(p, c) /\ t.at = "download"
    BY DEF UpdaterInv, Download
  <2>5. Carries(p, c)'
    BY <1>3, <2>3, <2>4 DEF Carries, Fit
  <2>6. Knows(p, c)'
    BY <2>3, <2>4 DEF Knows, Stale
  <2> QED
    BY <1>1, <2>1, <2>2, <2>5, <2>6, OneTaskOnly
<1>4. Fit(c, Build(c, t.release))
  BY DEF Fit, Build
<1> QED
  BY <1>2, <1>3, <1>4, AcceptedFits DEF Download

LEMMA WriteKeeps ==
  ASSUME NEW p \in Updaters, NEW c \in Components, UpdaterInv, Write(p, c)
  PROVE  UpdaterInv'
<1> DEFINE t == task[p][c]
<1>1. UNCHANGED file
  BY DEF Write
<1>2. ASSUME NEW binary, temps' = [temps EXCEPT ![p][c] = binary]
      PROVE  /\ DOMAIN temps' = Updaters /\ \A q \in Updaters : DOMAIN temps'[q] = Components
             /\ \A q \in Updaters, d \in Components : <<q, d>> # <<p, c>> => temps'[q][d] = temps[q][d]
             /\ temps'[p][c] = binary
  BY <1>2 DEF UpdaterInv, Shape
<1>3. CASE FailTask(p, c) /\ temps' = [temps EXCEPT ![p][c] = Stray("cut", 0)]
  <2>1. /\ DOMAIN temps' = Updaters /\ \A q \in Updaters : DOMAIN temps'[q] = Components
        /\ \A q \in Updaters, d \in Components : <<q, d>> # <<p, c>> => temps'[q][d] = temps[q][d]
    BY <1>2, <1>3
  <2> QED
    BY <1>1, <1>3, <2>1, ReportKeeps DEF FailTask, Done
<1>4. CASE /\ temps' = [temps EXCEPT ![p][c] = t.data]
           /\ task' = [task EXCEPT ![p][c].at = "verify"]
  <2>1. Shape'
    BY <1>1, <1>2, <1>4 DEF UpdaterInv, Shape
  <2>2. \A q \in Updaters, d \in Components : <<q, d>> # <<p, c>> => task'[q][d] = task[q][d]
    BY <1>4 DEF UpdaterInv, Shape
  <2>3. task'[p][c] = [t EXCEPT !.at = "verify"]
    BY <1>4 DEF UpdaterInv, Shape
  <2>4. Carries(p, c) /\ Knows(p, c) /\ t.at = "write"
    BY DEF UpdaterInv, Write
  <2>5. Carries(p, c)'
    <3>1. temps'[p][c] = t.data /\ Fit(c, t.data)
      BY <1>2, <1>4, <2>4 DEF Carries
    <3> QED
      BY <2>3, <2>4, <3>1 DEF Carries, Fit
  <2>6. Knows(p, c)'
    BY <2>3, <2>4 DEF Knows, Stale
  <2> QED
    BY <1>1, <1>2, <1>4, <2>1, <2>2, <2>5, <2>6, OneTaskOnly
<1> QED
  BY <1>3, <1>4 DEF Write

LEMMA VerifyKeeps ==
  ASSUME NEW p \in Updaters, NEW c \in Components, UpdaterInv, Verify(p, c)
  PROVE  UpdaterInv'
<1> DEFINE t == task[p][c]
<1>1. UNCHANGED file
  BY DEF Verify
<1>2. CASE FailTask(p, c) /\ temps' = [temps EXCEPT ![p][c] = Missing]
  <2>1. /\ DOMAIN temps' = Updaters /\ \A q \in Updaters : DOMAIN temps'[q] = Components
        /\ \A q \in Updaters, d \in Components : <<q, d>> # <<p, c>> => temps'[q][d] = temps[q][d]
    BY <1>2 DEF UpdaterInv, Shape
  <2> QED
    BY <1>1, <1>2, <2>1, ReportKeeps DEF FailTask, Done
<1>3. CASE Verified(p, c) /\ task' = [task EXCEPT ![p][c].at = "install"] /\ UNCHANGED temps
  <2>1. Shape'
    BY <1>1, <1>3 DEF UpdaterInv, Shape
  <2>2. \A q \in Updaters, d \in Components : <<q, d>> # <<p, c>> => task'[q][d] = task[q][d]
    BY <1>3 DEF UpdaterInv, Shape
  <2>3. task'[p][c] = [t EXCEPT !.at = "install"]
    BY <1>3 DEF UpdaterInv, Shape
  <2>4. Carries(p, c) /\ Knows(p, c) /\ t.at = "verify"
    BY DEF UpdaterInv, Verify
  <2>5. Carries(p, c)'
    BY <1>3, <2>3, <2>4 DEF Carries, Verified, Fit
  <2>6. Knows(p, c)'
    BY <2>3, <2>4 DEF Knows, Stale
  <2> QED
    BY <1>1, <1>3, <2>1, <2>2, <2>5, <2>6, OneTaskOnly
<1> QED
  BY <1>2, <1>3 DEF Verify

LEMMA InstallKeeps ==
  ASSUME NEW p \in Updaters, NEW c \in Components, UpdaterInv, Install(p, c)
  PROVE  UpdaterInv'
<1>1. /\ DOMAIN temps' = Updaters /\ \A q \in Updaters : DOMAIN temps'[q] = Components
      /\ \A q \in Updaters, d \in Components : <<q, d>> # <<p, c>> => temps'[q][d] = temps[q][d]
  BY DEF UpdaterInv, Shape, Install
<1>2. CASE UNCHANGED file /\ FailTask(p, c)
  BY <1>1, <1>2, ReportKeeps DEF FailTask, Done
<1>3. ASSUME NEW action \in Done, Report(p, c, action),
             file' = [file EXCEPT ![c] = temps[p][c]]
      PROVE  UpdaterInv'
  <2>1. Carries(p, c) /\ task[p][c].at = "install"
    BY DEF UpdaterInv, Install
  <2>2. \A d \in Components : file'[d] # file[d] => file'[d].runs /\ Fit(d, file'[d])
    BY <1>3, <2>1 DEF UpdaterInv, Shape, Carries
  <2>3. Shape'
    BY <1>1, <1>3 DEF UpdaterInv, Shape, Report
  <2>4. \A q \in Updaters, d \in Components : <<q, d>> # <<p, c>> => task'[q][d] = task[q][d]
    BY <1>3 DEF UpdaterInv, Shape, Report
  <2>5. task'[p][c].at = action
    BY <1>3 DEF Report, NoTask, UpdaterInv, Shape
  <2>6. Carries(p, c)' /\ Knows(p, c)'
    BY <2>5 DEF Carries, Knows, Done
  <2> QED
    BY <1>1, <2>2, <2>3, <2>4, <2>6, OneTaskOnly
<1> QED
  BY <1>2, <1>3 DEF Install, Done

LEMMA LaunchKeeps ==
  ASSUME NEW p \in Updaters, UpdaterInv, LaunchUpdate(p)
  PROVE  UpdaterInv'
<1>1. UNCHANGED <<file, temps>>
  BY DEF LaunchUpdate
<1>2. Shape'
  BY <1>1 DEF LaunchUpdate, UpdaterInv, Shape
<1>3. ASSUME NEW q \in Updaters, NEW c \in Components
      PROVE  Carries(q, c)' /\ Knows(q, c)'
  <2>1. CASE q # p
    BY <1>1, <2>1, Undisturbed DEF LaunchUpdate, UpdaterInv, Shape
  <2>2. CASE q = p /\ c = "memory"
    <3>1. task'[q][c].at = "look"
      BY <2>2 DEF LaunchUpdate, NoTask, UpdaterInv, Shape
    <3> QED
      BY <3>1, Undisturbed DEF UpdaterInv
  <2>3. CASE q = p /\ c = "self"
    <3>1. task'[q][c] = [NoTask EXCEPT !.at = "fetch", !.current = file["self"].version,
                                       !.looked = file["self"]]
      BY <2>3 DEF LaunchUpdate, UpdaterInv, Shape
    <3>2. /\ task'[q][c].at = "fetch" /\ ~task'[q][c].absent
          /\ task'[q][c].current = file["self"].version /\ task'[q][c].looked = file["self"]
          /\ file["self"] # Missing
      BY <3>1 DEF NoTask, LaunchUpdate
    <3> QED
      BY <3>2 DEF Carries, Knows
  <2> QED
    BY <2>1, <2>2, <2>3 DEF Components
<1> QED
  BY <1>1, <1>2, <1>3 DEF UpdaterInv, Fit

\* The end of a process, whatever becomes of its temporary files.
LEMMA ProcessEnds ==
  ASSUME NEW p \in Updaters, UpdaterInv, UNCHANGED file,
         task' = [task EXCEPT ![p] = [c \in Components |-> NoTask]],
         DOMAIN temps' = Updaters /\ \A q \in Updaters : DOMAIN temps'[q] = Components,
         \A q \in Updaters \ {p} : temps'[q] = temps[q]
  PROVE  UpdaterInv'
<1>1. Shape'
  BY DEF UpdaterInv, Shape
<1>2. ASSUME NEW q \in Updaters, NEW c \in Components
      PROVE  Carries(q, c)' /\ Knows(q, c)'
  <2>1. CASE q # p
    BY <2>1, Undisturbed DEF UpdaterInv, Shape
  <2>2. CASE q = p
    <3>1. task'[q][c].at \in Done
      BY <2>2 DEF UpdaterInv, Shape, NoTask, Done
    <3> QED
      BY <3>1, Undisturbed DEF UpdaterInv
  <2> QED
    BY <2>1, <2>2
<1> QED
  BY <1>1, <1>2 DEF UpdaterInv, Fit

LEMMA NextKeeps == UpdaterInv /\ [UpdaterNext]_updaterVars => UpdaterInv'
<1> SUFFICES ASSUME UpdaterInv, [UpdaterNext]_updaterVars PROVE UpdaterInv'
  OBVIOUS
<1>1. ASSUME NEW p \in Updaters, LaunchUpdate(p) PROVE UpdaterInv'
  BY <1>1, LaunchKeeps
<1>2. ASSUME NEW p \in Updaters, Look(p) PROVE UpdaterInv'
  BY <1>2, LookKeeps
<1>3. ASSUME NEW p \in Updaters, NEW c \in Components,
             Fetch(p, c) \/ Download(p, c) \/ Write(p, c) \/ Verify(p, c) \/ Install(p, c)
      PROVE  UpdaterInv'
  BY <1>3, FetchKeeps, DownloadKeeps, WriteKeeps, VerifyKeeps, InstallKeeps
<1>4. ASSUME NEW p \in Updaters, Exit(p) PROVE UpdaterInv'
  <2>1. UNCHANGED <<file, temps>> /\ task' = [task EXCEPT ![p] = [c \in Components |-> NoTask]]
    BY <1>4 DEF Exit
  <2> QED
    BY <2>1, ProcessEnds DEF UpdaterInv, Shape
<1>5. ASSUME NEW p \in Updaters, Kill(p) PROVE UpdaterInv'
  <2>1. UNCHANGED file /\ task' = [task EXCEPT ![p] = [c \in Components |-> NoTask]]
    BY <1>5 DEF Kill
  <2>2. /\ DOMAIN temps' = Updaters /\ \A q \in Updaters : DOMAIN temps'[q] = Components
        /\ \A q \in Updaters \ {p} : temps'[q] = temps[q]
    BY <1>5 DEF Kill, UpdaterInv, Shape
  <2> QED
    BY <2>1, <2>2, ProcessEnds
<1>6. ASSUME UNCHANGED <<temps, task>>, DOMAIN file' = Components,
             \A c \in Components : file'[c] # file[c] => file'[c].runs /\ Fit(c, file'[c])
      PROVE  UpdaterInv'
  <2>1. \A p \in Updaters, c \in Components : Carries(p, c)' /\ Knows(p, c)'
    BY <1>6, Undisturbed DEF UpdaterInv
  <2>2. \A c \in Components : (file[c] # Missing => file[c].runs /\ Fit(c, file[c]))'
    BY <1>6 DEF UpdaterInv, Fit
  <2> QED
    BY <1>6, <2>1, <2>2 DEF UpdaterInv, Shape
<1>7. ASSUME NEW c \in Components, Publish(c) PROVE UpdaterInv'
  BY <1>6, <1>7 DEF Publish, UpdaterInv, Shape
<1>8. CASE Place
  BY <1>6, <1>8 DEF Place, Stray, Fit, UpdaterInv, Shape
<1>9. CASE UNCHANGED updaterVars
  BY <1>6, <1>9 DEF updaterVars, UpdaterInv, Shape
<1> QED
  BY <1>1, <1>2, <1>3, <1>4, <1>5, <1>7, <1>8, <1>9 DEF UpdaterNext, UpdaterStep

-----------------------------------------------------------------------------

\* What the proofs below rest on.
LEMMA UpdaterInvariance == Spec => []UpdaterInv
<1>1. Init => UpdaterInv
  BY InitUpdater DEF Init
<1>2. UpdaterInv /\ [Next]_provisioningVars => UpdaterInv'
  BY StepsOfTheUpdater, NextKeeps
<1> QED
  BY <1>1, <1>2, PTL DEF Spec

(***************************************************************************)
(* Whatever fails or is killed, and however many updaters there are, what  *)
(* is installed runs and is, but for releases without a checksum, what was *)
(* released (update.rs install_from_asset, install_dependency_binary).     *)
(***************************************************************************)
THEOREM InstalledStaysWhole == Spec => []InstalledIsWhole
<1>1. UpdaterInv => InstalledIsWhole
  BY DEF UpdaterInv, InstalledIsWhole, Fit
<1> QED
  BY <1>1, UpdaterInvariance, PTL

(***************************************************************************)
(* No updater installs something older than the file it has looked at, nor *)
(* anything if it could not tell the version of that, whatever is put      *)
(* there meanwhile (update.rs check_and_install).                          *)
(***************************************************************************)
THEOREM UpdatesGoForward == Spec => NeverDowngrades
<1>1. ASSUME UpdaterInv, NEW p \in Updaters, NEW c \in Components,
             Install(p, c)
      PROVE  LET looked == task[p][c].looked
             IN  \/ looked = Missing
                 \/ /\ looked.version # Missing
                    /\ Releases[c][task[p][c].release].version > looked.version
  BY <1>1 DEF UpdaterInv, Knows, Stale, Install
<1>2. UpdaterInv /\ [Next]_provisioningVars =>
        [\A p \in Updaters, c \in Components :
           Install(p, c) /\ file'[c] # file[c] =>
             LET looked == task[p][c].looked
             IN  \/ looked = Missing
                 \/ /\ looked.version # Missing
                    /\ Releases[c][task[p][c].release].version > looked.version]_updaterVars
  BY <1>1
<1> QED
  BY <1>2, UpdaterInvariance, PTL DEF Spec, NeverDowngrades

-----------------------------------------------------------------------------

\* There is one daemon. A server goes for the path of the daemon in sight, or else
\* for one of the paths in sight.
FollowsDaemon ==
  /\ \A m, n \in Daemons : m.path = n.path
  /\ DOMAIN server = Servers
  /\ \A s \in Servers : DOMAIN server[s] = {"at", "looks", "path", "saw", "met"}
  /\ \A s \in Servers :
       server[s].at = "look" => server[s].saw = {} /\ server[s].met = {}
  /\ \A s \in Servers :
       server[s].at \in {"start", "connect"} =>
         /\ server[s].saw \subseteq server[s].met
         /\ server[s].saw # {} => server[s].saw = {server[s].path}
         /\ server[s].met # {} => server[s].path \in server[s].met

LEMMA StepFollows == FollowsDaemon /\ [Next]_provisioningVars => FollowsDaemon'
<1> SUFFICES ASSUME FollowsDaemon, [Next]_provisioningVars PROVE FollowsDaemon'
  OBVIOUS
<1> USE DEF FollowsDaemon, Daemons
<1>1. CASE UNCHANGED daemonVars
  BY <1>1 DEF daemonVars
<1>2. ASSUME NEW s \in Servers, NEW command, LaunchServer(s, command) PROVE FollowsDaemon'
  BY <1>2 DEF LaunchServer, Down
<1>3. ASSUME NEW s \in Servers, LookForDaemon(s) PROVE FollowsDaemon'
  <2>1. CASE server' = [server EXCEPT ![s].at = "start"] /\ ~host.linux
    BY <1>3, <2>1 DEF LookForDaemon
  <2>2. ASSUME NEW path \in RunningBinaries,
               server' = [server EXCEPT ![s] = [Saw(s) EXCEPT !.at = "start", !.path = path]]
        PROVE  FollowsDaemon'
    <3> DEFINE daemons == {m.path : m \in InSight \cap Daemons}
               met == {m.path : m \in InSight}
    <3>1. \A m, n \in Daemons' : m.path = n.path
      BY <1>3 DEF LookForDaemon
    <3>2. daemons \subseteq met
      OBVIOUS
    <3>3. daemons # {} => path \in daemons /\ \A q \in daemons : q = path
      BY <2>2 DEF RunningBinaries
    <3>4. path \in met
      BY <2>2 DEF RunningBinaries
    <3>5. DOMAIN Saw(s) = {"at", "looks", "path", "saw", "met"}
      BY DEF Saw
    <3>6. server'[s].at = "start" /\ server'[s].path = path
          /\ server'[s].saw = daemons /\ server'[s].met = met
      BY <2>2 DEF Saw
    <3>7. daemons # {} => daemons = {path}
      BY <3>3
    <3> HIDE DEF daemons, met
    <3>8. \A t \in Servers \ {s} : server'[t] = server[t]
      BY <2>2
    <3>9. DOMAIN server' = Servers /\ \A t \in Servers : DOMAIN server'[t] = DOMAIN server[t]
      BY <2>2, <3>5
    <3> QED
      BY <3>1, <3>2, <3>4, <3>6, <3>7, <3>8, <3>9
  <2>3. ASSUME RunningBinaries = {},
               server' = [server EXCEPT ![s] =
                            [Saw(s) EXCEPT !.looks = @ + 1,
                               !.at = IF server[s].looks + 1 = MaxLooks THEN "start" ELSE "look"]]
        PROVE  FollowsDaemon'
    <3>1. InSight = {}
      <4>1. ASSUME NEW m \in InSight PROVE FALSE
        <5>1. CASE InSight \cap Daemons = {}
          BY <2>3, <4>1, <5>1 DEF RunningBinaries
        <5>2. CASE InSight \cap Daemons # {}
          <6>1. PICK n \in InSight \cap Daemons : TRUE
            BY <5>2
          <6> QED
            BY <2>3, <5>2, <6>1 DEF RunningBinaries
        <5> QED
          BY <5>1, <5>2
      <4> QED
        BY <4>1
    <3> QED
      BY <1>3, <2>3, <3>1 DEF LookForDaemon, Saw
  <2> QED
    BY <1>3, <2>1, <2>2, <2>3 DEF LookForDaemon
<1>4. ASSUME NEW s \in Servers, StartServer(s, file["memory"] # Missing) PROVE FollowsDaemon'
  BY <1>4 DEF StartServer, Down
<1>5. ASSUME NEW s \in Servers, Connect(s) PROVE FollowsDaemon'
  BY <1>5 DEF Connect, Client, TheDaemon, Down
<1>6. ASSUME NEW s \in Servers, Leave(s) PROVE FollowsDaemon'
  BY <1>6 DEF Leave, Down
<1>7. CASE World
  BY <1>7 DEF World, PluginComes, PluginStartsDaemon, PluginGoes, PluginMoves, DaemonGoes,
              Plugin, Client, TheDaemon
<1>8. CASE Serving
  <2>1. ASSUME NEW s \in Servers, Loaded(s) PROVE FollowsDaemon'
    BY <1>1, <1>2, <2>1 DEF Loaded
  <2>2. ASSUME NEW s \in Servers, Connecting(s) PROVE FollowsDaemon'
    BY <1>3, <1>4, <1>5, <1>6, <2>2 DEF Connecting, ServerStep
  <2>3. ASSUME NEW s \in Servers, Built(s) PROVE FollowsDaemon'
    BY <1>1, <1>6, <2>3 DEF Built
  <2> QED
    BY <1>7, <1>8, <2>1, <2>2, <2>3 DEF Serving
<1> QED
  BY <1>1, <1>8 DEF Next, Main, Updating, Installing, Configuring, provisioningVars

(***************************************************************************)
(* However many servers and other clients come and go, and whatever path   *)
(* or name they are started by, a server is not turned away by a daemon    *)
(* that was in sight when it looked, nor by one that the clients in sight  *)
(* pointed to (main.rs running_memory_binary, memory_binary_from_cmdline). *)
(***************************************************************************)
THEOREM ServersFindTheDaemon == Spec => RefusedOnlyByUnseen
<1>1. Init => FollowsDaemon
  BY DEF Init, DaemonInit, FollowsDaemon, Daemons, Plugin, Client, TheDaemon, Down
<1>2. ASSUME FollowsDaemon, NEW s \in Servers, Connect(s), server'[s].at = "refused"
      PROVE  DaemonPath \notin server[s].saw /\ server[s].met # {DaemonPath}
  <2>1. DaemonPath # server[s].path
    BY <1>2 DEF FollowsDaemon, Connect, Down
  <2> QED
    BY <1>2, <2>1 DEF FollowsDaemon, Connect
<1>3. FollowsDaemon =>
        [\A s \in Servers :
           Connect(s) /\ server'[s].at = "refused" =>
             DaemonPath \notin server[s].saw /\ server[s].met # {DaemonPath}]_daemonVars
  BY <1>2
<1> QED
  BY <1>1, <1>3, StepFollows, PTL DEF Spec, RefusedOnlyByUnseen

-----------------------------------------------------------------------------

\* Unless a command broke off or two overlapped, one command at most is under way,
\* and the server is registered wherever the agent file is, or is about to be.
RegisteredFirst ==
  /\ shell = [s \in Shells |-> shell[s]]
  /\ broken \in BOOLEAN /\ registered \in BOOLEAN
  /\ ~broken =>
       /\ \A s, t \in Shells : ~ShellIdle(s) /\ ~ShellIdle(t) => s = t
       /\ \A s \in Shells : shell[s] \in {"read", "write"} => registered
       /\ (\A s \in Shells : shell[s] \in {"idle", "install", "uninstall"}) =>
            (agentFile = "ours" => registered)

LEMMA StepRegisteredFirst == RegisteredFirst /\ [Next]_provisioningVars => RegisteredFirst'
<1> SUFFICES ASSUME RegisteredFirst, [Next]_provisioningVars PROVE RegisteredFirst'
  OBVIOUS
<1> USE DEF RegisteredFirst, ShellIdle
<1>1. CASE UNCHANGED installerVars
  BY <1>1 DEF installerVars
<1>2. ASSUME NEW s \in Shells, NEW command \in {"install", "uninstall"}, LaunchInstaller(s, command)
      PROVE  RegisteredFirst'
  BY <1>2 DEF LaunchInstaller, To
<1>3. ASSUME NEW s \in Shells, NoClaude(s) PROVE RegisteredFirst'
  BY <1>3 DEF NoClaude, To
<1>4. ASSUME NEW s \in Shells, Remove(s) PROVE RegisteredFirst'
  BY <1>4 DEF Remove, To
<1>5. ASSUME NEW s \in Shells, Add(s) PROVE RegisteredFirst'
  BY <1>5 DEF Add, To, Mended
<1>6. ASSUME NEW s \in Shells, ReadAgent(s) PROVE RegisteredFirst'
  BY <1>6 DEF ReadAgent, To
<1>7. ASSUME NEW s \in Shells, WriteAgent(s) PROVE RegisteredFirst'
  BY <1>7 DEF WriteAgent, To
<1>8. ASSUME NEW s \in Shells, DeleteAgent(s) PROVE RegisteredFirst'
  BY <1>8 DEF DeleteAgent, To, Mended
<1>9. CASE Touch
  BY <1>9 DEF Touch
<1> QED
  BY <1>1, <1>2, <1>3, <1>4, <1>5, <1>6, <1>7, <1>8, <1>9
     DEF Next, Main, Updating, Installing, Configuring, Serving, ShellStep, provisioningVars

(***************************************************************************)
(* However many commands there are, the agent file is not there without    *)
(* its server once they are done, but for commands that broke off or       *)
(* overlapped, and then only until one goes through by itself (install.rs  *)
(* run_install, run_uninstall).                                            *)
(***************************************************************************)
THEOREM AgentHasItsServer == Spec => []ShadowsOnlyWithServer
<1>1. Init => RegisteredFirst
  BY DEF Init, InstallerInit, RegisteredFirst, ShellIdle
<1>2. RegisteredFirst => ShadowsOnlyWithServer
  BY DEF RegisteredFirst, ShadowsOnlyWithServer, ShellIdle
<1> QED
  BY <1>1, <1>2, StepRegisteredFirst, PTL DEF Spec

-----------------------------------------------------------------------------

\* Whoever has read a configuration took its store from the cache section of it.
StoreIsTaken(x) ==
  /\ DOMAIN x = {"at", "around", "path", "file", "store"}
  /\ x.at = "cleared" => x.store = ResolveCacheDir(CacheSettingsOf(x.file).dir, x.around)
  /\ x.at \in {"run", "serving"} =>
       x.file.state = "toml" /\ x.store = StoreOf(x.file.config.cache, x.around)

StoresAreTaken ==
  /\ DOMAIN console = Consoles
  /\ \A c \in Consoles : StoreIsTaken(console[c])

\* A step of one process.
LEMMA OneConsole ==
  ASSUME StoresAreTaken, NEW c \in Consoles, DOMAIN console' = Consoles,
         \A d \in Consoles \ {c} : console'[d] = console[d],
         StoreIsTaken(console'[c])
  PROVE  StoresAreTaken'
BY DEF StoresAreTaken

LEMMA EndsTaken ==
  ASSUME StoresAreTaken, NEW c \in Consoles, Ends(c)
  PROVE  StoresAreTaken'
<1>1. StoreIsTaken(console'[c])
  BY DEF Ends, StoresAreTaken, StoreIsTaken, Idle
<1> QED
  BY <1>1, OneConsole DEF Ends, StoresAreTaken

LEMMA GoesTaken ==
  ASSUME StoresAreTaken, NEW c \in Consoles, NEW at, Goes(c, at),
         at \notin {"cleared", "run", "serving"} \/ (at = "serving" /\ console[c].at = "run")
  PROVE  StoresAreTaken'
<1>1. StoreIsTaken(console'[c])
  BY DEF Goes, StoresAreTaken, StoreIsTaken
<1> QED
  BY <1>1, OneConsole DEF Goes, StoresAreTaken

LEMMA LoadsTaken ==
  ASSUME StoresAreTaken, NEW c \in Consoles, ServerLoads(c)
  PROVE  StoresAreTaken'
<1> DEFINE read == configs[Me(c).path]
<1>1. CASE /\ Load(read, Me(c).around.env) = "valid"
           /\ console' = [console EXCEPT ![c].at = "run", ![c].file = read,
                            ![c].store = StoreOf(read.config.cache, Me(c).around)]
  <2>1. read.state = "toml"
    BY <1>1 DEF Load
  <2>2. StoreIsTaken(console'[c])
    BY <1>1, <2>1 DEF StoresAreTaken, StoreIsTaken, Me
  <2> QED
    BY <1>1, <2>2, OneConsole DEF StoresAreTaken
<1> QED
  BY <1>1, EndsTaken, GoesTaken DEF ServerLoads

LEMMA ConsoleStepTaken ==
  ASSUME StoresAreTaken, NEW c \in Consoles, ConsoleStep(c)
  PROVE  StoresAreTaken'
<1>1. CASE ClearCache(c)
  <2>1. console' = [console EXCEPT ![c].at = "cleared", ![c].file = configs[Me(c).path],
                      ![c].store = ResolveCacheDir(CacheSettingsOf(configs[Me(c).path]).dir,
                                                   Me(c).around)]
    BY <1>1 DEF ClearCache
  <2>2. StoreIsTaken(console'[c])
    BY <2>1 DEF StoresAreTaken, StoreIsTaken, Me
  <2> QED
    BY <2>1, <2>2, OneConsole DEF StoresAreTaken
<1>2. CASE Quit(c) \/ WizardStarts(c) \/ WizardChecks(c)
  BY <1>2, EndsTaken, GoesTaken DEF Quit, WizardStarts, WizardChecks
<1>3. CASE WizardAsks(c)
  <2>1. PICK x : console' = [console EXCEPT ![c].at = "write", ![c].file = x]
    BY <1>3 DEF WizardAsks
  <2>2. StoreIsTaken(console'[c])
    BY <2>1 DEF StoresAreTaken, StoreIsTaken
  <2> QED
    BY <2>1, <2>2, OneConsole DEF StoresAreTaken
<1>4. CASE WizardWrites(c)
  BY <1>4, EndsTaken, GoesTaken DEF WizardWrites
<1> QED
  BY <1>1, <1>2, <1>3, <1>4 DEF ConsoleStep

LEMMA StepTaken == StoresAreTaken /\ [Next]_provisioningVars => StoresAreTaken'
<1> SUFFICES ASSUME StoresAreTaken, [Next]_provisioningVars PROVE StoresAreTaken'
  OBVIOUS
<1>1. CASE UNCHANGED console
  BY <1>1 DEF StoresAreTaken
<1>2. ASSUME NEW c \in Consoles, NEW command \in {"serve", "setup", "clear"}, NEW around,
             LaunchConsole(c, command, around)
      PROVE  StoresAreTaken'
  <2>1. StoreIsTaken(console'[c])
    BY <1>2 DEF LaunchConsole, StoresAreTaken, StoreIsTaken, Idle
  <2> QED
    BY <1>2, <2>1, OneConsole DEF LaunchConsole, StoresAreTaken
<1>3. CASE Main
  BY <1>1, <1>2, <1>3 DEF Main, startupVars
<1>4. CASE Configuring
  BY <1>1, <1>4, ConsoleStepTaken DEF Configuring, Revise
<1>5. CASE Serving
  <2>1. ASSUME NEW s \in Consoles, Loaded(s) PROVE StoresAreTaken'
    BY <2>1, LoadsTaken DEF Loaded
  <2>2. ASSUME NEW s \in Consoles, Connecting(s) PROVE StoresAreTaken'
    BY <1>1, <2>2, EndsTaken DEF Connecting, startupVars
  <2>3. ASSUME NEW s \in Consoles, Built(s) PROVE StoresAreTaken'
    BY <2>3, EndsTaken, GoesTaken DEF Built, ServerBuilds, Me
  <2> QED
    BY <1>1, <1>5, <2>1, <2>2, <2>3, OneProcessEach DEF Serving, startupVars
<1> QED
  BY <1>1, <1>3, <1>4, <1>5 DEF Next, Updating, Installing, startupVars, provisioningVars

(***************************************************************************)
(* `cache clear` clears the store of every server that runs from the same  *)
(* file and directory, whatever else is in the file, in the environments,  *)
(* or under way (main.rs run_cache_command, config.rs cache_settings).     *)
(***************************************************************************)
THEOREM ClearIsNotMisled == Spec => []ClearReachesTheStore
<1>1. Init => StoresAreTaken
  <2>1. StoreIsTaken(Idle)
    BY DEF StoreIsTaken, Idle
  <2>2. Init => console = [c \in Consoles |-> Idle]
    BY DEF Init
  <2> QED
    BY <2>1, <2>2 DEF StoresAreTaken
<1>2. StoresAreTaken => ClearReachesTheStore
  <2> SUFFICES ASSUME StoresAreTaken, NEW c \in Consoles, NEW s \in Consoles,
                      console[c].at = "cleared", console[s].at = "serving",
                      console[c].file = console[s].file,
                      console[c].around.cwd = console[s].around.cwd,
                      console[c].around.home = console[s].around.home
               PROVE  console[s].store \in {NoStore, console[c].store}
    BY DEF ClearReachesTheStore, Me
  <2> DEFINE cache == console[s].file.config.cache
  <2>1. console[c].store = ResolveCacheDir(CacheSettingsOf(console[c].file).dir, console[c].around)
    BY DEF StoresAreTaken, StoreIsTaken
  <2>2. console[s].file.state = "toml" /\ console[s].store = StoreOf(cache, console[s].around)
    BY DEF StoresAreTaken, StoreIsTaken
  <2>3. CacheSettingsOf(console[c].file) = cache
    BY <2>2 DEF CacheSettingsOf
  <2>4. ResolveCacheDir(cache.dir, console[c].around) = ResolveCacheDir(cache.dir, console[s].around)
    BY DEF ResolveCacheDir
  <2> QED
    BY <2>1, <2>2, <2>3, <2>4 DEF StoreOf
<1> QED
  BY <1>1, <1>2, StepTaken, PTL DEF Spec

-----------------------------------------------------------------------------

\* Some numbers have a least one.
LEMMA LeastNumber ==
  ASSUME NEW T \in SUBSET Nat, T # {}
  PROVE  \E i \in T : \A j \in T : i <= j
<1> DEFINE Below == {ss \in Nat \X Nat : ss[1] < ss[2]}
<1>1. IsWellFoundedOn(Below, Nat)
  BY NatLessThanWellFounded DEF OpToRel
<1>2. PICK i \in T : \A j \in T : <<j, i>> \notin Below
  BY <1>1, WFMin
<1>3. \A j \in T : ~(j < i)
  BY <1>2
<1> QED
  BY <1>3

LEMMA AppendTells ==
  ASSUME NEW name, IsSequence(name), NEW i, NEW j, Append(name, i) = Append(name, j)
  PROVE  i = j
<1> DEFINE S == {name[k] : k \in 1 .. Len(name)} \cup {i, j}
<1>1. name \in Seq(S)
  BY DEF IsSequence
<1>2. Append(name, i)[Len(name) + 1] = i /\ Append(name, j)[Len(name) + 1] = j
  <2> HIDE DEF S
  <2>1. i \in S /\ j \in S
    BY DEF S
  <2> QED
    BY <1>1, <2>1
<1> QED
  BY <1>2

\* Of one more numbers than there are names in use, one gives a new name.
LEMMA UniqueNameIsNew ==
  ASSUME NEW name, IsSequence(name), NEW used, IsFiniteSet(used)
  PROVE  UniqueName(name, used) \notin used
<1> DEFINE n == Cardinality(used)
           numbers == 2 .. n + 2
           free == {i \in numbers : Append(name, i) \notin used}
<1>1. n \in Nat
  BY FS_CardinalityType
<1>2. IsFiniteSet(numbers) /\ Cardinality(numbers) = n + 1
  <2> HIDE DEF n
  <2> QED
    BY <1>1, FS_Interval
<1>3. free # {}
  <2> SUFFICES ASSUME \A i \in numbers : Append(name, i) \in used PROVE FALSE
    OBVIOUS
  <2> DEFINE f == [i \in numbers |-> Append(name, i)]
  <2>1. f \in [numbers -> used]
    OBVIOUS
  <2>2. n < n + 1
    BY <1>1
  <2> HIDE DEF f, numbers
  <2>3. \E x, y \in numbers : x # y /\ f[x] = f[y]
    BY <1>2, <2>1, <2>2, FS_PigeonHole
  <2>4. \A x, y \in numbers : f[x] = f[y] => x = y
    BY AppendTells DEF f
  <2> QED
    BY <2>3, <2>4
<1>4. free \in SUBSET Nat
  BY <1>1
<1>5. \E i \in free : \A j \in free : i <= j
  <2> HIDE DEF free
  <2> QED
    BY <1>3, <1>4, LeastNumber
<1>6. (CHOOSE i \in free : \A j \in free : i <= j) \in free
  BY <1>5
<1>7. name \in used => UniqueName(name, used) = Append(name, CHOOSE i \in free : \A j \in free : i <= j)
  BY DEF UniqueName
<1> QED
  BY <1>6, <1>7 DEF UniqueName

\* The names of the first so many entries.
Naming(f, n, found, answer) ==
  f = [i \in 1 .. n |-> UniqueName(answer.names[found[i].kind], {f[j] : j \in 1 .. i - 1})]

LEMMA NamingExists ==
  ASSUME NEW n \in Nat, NEW found, NEW answer
  PROVE  \E f : Naming(f, n, found, answer)
<1> DEFINE Step(f, i) == UniqueName(answer.names[found[i].kind], {f[j] : j \in 1 .. i - 1})
           Solves(f, l) == f = [i \in 1 .. l |-> Step(f, i)]
           T == {l \in Nat : ~ \E f : Solves(f, l)}
<1>1. ASSUME T # {} PROVE FALSE
  <2>1. T \in SUBSET Nat
    OBVIOUS
  <2>2. PICK l \in T : \A j \in T : l <= j
    BY <1>1, <2>1, LeastNumber
  <2>3. l \in Nat /\ ~ \E f : Solves(f, l)
    BY <2>2
  <2>4. CASE l = 0
    <3> DEFINE f == [i \in 1 .. 0 |-> {}]
    <3>1. \A i : i \notin 1 .. 0
      OBVIOUS
    <3> HIDE DEF Step
    <3>2. f = [i \in 1 .. 0 |-> Step(f, i)]
      BY <3>1
    <3> QED
      BY <2>3, <2>4, <3>2
  <2>5. CASE l # 0
    <3>1. l - 1 \in Nat /\ l - 1 \notin T
      <4> HIDE DEF T
      <4> QED
        BY <2>2, <2>3, <2>5
    <3>2. PICK f : Solves(f, l - 1)
      BY <3>1
    <3> DEFINE g == [i \in 1 .. l |-> Step(f, i)]
    <3>3. \A i \in 1 .. l - 1 : g[i] = f[i]
      <4> SUFFICES ASSUME NEW i \in 1 .. l - 1 PROVE g[i] = f[i]
        OBVIOUS
      <4>1. i \in 1 .. l
        BY <2>3
      <4> HIDE DEF Step
      <4>2. g[i] = Step(f, i)
        BY <4>1
      <4>3. f[i] = Step(f, i)
        BY <3>2
      <4> QED
        BY <4>2, <4>3
    <3>4. \A i \in 1 .. l : \A j \in 1 .. i - 1 : g[j] = f[j]
      <4> SUFFICES ASSUME NEW i \in 1 .. l, NEW j \in 1 .. i - 1 PROVE g[j] = f[j]
        OBVIOUS
      <4>1. j \in 1 .. l - 1
        BY <2>3
      <4> HIDE DEF g
      <4> QED
        BY <3>3, <4>1
    <3>5. g = [i \in 1 .. l |-> Step(g, i)]
      <4> DEFINE h == g
      <4> HIDE DEF h
      <4>1. \A i \in 1 .. l : Step(f, i) = Step(h, i)
        <5> SUFFICES ASSUME NEW i \in 1 .. l PROVE Step(f, i) = Step(h, i)
          OBVIOUS
        <5>1. {f[j] : j \in 1 .. i - 1} = {h[j] : j \in 1 .. i - 1}
          <6>1. \A j \in 1 .. i - 1 : h[j] = f[j]
            BY <3>4 DEF h
          <6> QED
            BY <6>1
        <5> QED
          BY <5>1
      <4>2. g = [i \in 1 .. l |-> Step(h, i)]
        <5> HIDE DEF Step
        <5> QED
          BY <4>1
      <4> QED
        BY <4>2 DEF h
    <3> QED
      BY <2>3, <3>5
  <2> QED
    BY <2>4, <2>5
<1>2. n \notin T
  BY <1>1
<1> QED
  BY <1>2 DEF Naming

\* The recursive function has a value, and gives no name twice.
LEMMA NamesDiffer ==
  ASSUME NEW found, IsSequence(found), NEW answer,
         \A i \in DOMAIN found : IsSequence(answer.names[found[i].kind])
  PROVE  \A i, j \in DOMAIN found :
           i # j => NamesGiven(found, answer)[i] # NamesGiven(found, answer)[j]
<1> DEFINE n == Len(found)
           name == CHOOSE f : f = [i \in DOMAIN found |->
                     UniqueName(answer.names[found[i].kind], {f[j] : j \in 1 .. i - 1})]
<1>1. NamesGiven(found, answer) = name
  BY DEF NamesGiven
<1> HIDE DEF n
<1>0. n \in Nat /\ DOMAIN found = 1 .. n
  BY DEF IsSequence, n
<1>2. Naming(name, n, found, answer)
  <2>1. \E f : Naming(f, n, found, answer)
    BY <1>0, NamingExists
  <2>2. \E f : f = [i \in DOMAIN found |->
                 UniqueName(answer.names[found[i].kind], {f[j] : j \in 1 .. i - 1})]
    BY <1>0, <2>1 DEF Naming
  <2>3. name = [i \in DOMAIN found |->
                 UniqueName(answer.names[found[i].kind], {name[j] : j \in 1 .. i - 1})]
    BY <2>2
  <2> HIDE DEF name
  <2> QED
    BY <1>0, <2>3 DEF Naming
<1> HIDE DEF name
<1>3. ASSUME NEW i \in 1 .. n, NEW j \in 1 .. i - 1 PROVE name[i] # name[j]
  <2> DEFINE used == {name[k] : k \in 1 .. i - 1}
             listed == [k \in 1 .. i - 1 |-> name[k]]
  <2>1. name[i] = UniqueName(answer.names[found[i].kind], used)
    BY <1>2 DEF Naming
  <2>2. IsFiniteSet(used)
    <3>1. listed \in Seq(used)
      <4>1. i - 1 \in Nat
        OBVIOUS
      <4> QED
        BY <4>1
    <3>2. \A x \in used : \E k \in 1 .. Len(listed) : listed[k] = x
      <4>1. Len(listed) = i - 1
        OBVIOUS
      <4> QED
        BY <4>1
    <3> QED
      BY <3>1, <3>2 DEF IsFiniteSet
  <2>3. name[i] \notin used
    <3> HIDE DEF used
    <3> QED
      BY <1>0, <2>1, <2>2, UniqueNameIsNew
  <2> QED
    BY <2>3
<1> SUFFICES ASSUME NEW i \in 1 .. n, NEW j \in 1 .. n, i # j PROVE name[i] # name[j]
  BY <1>0, <1>1
<1>4. i \in 1 .. j - 1 \/ j \in 1 .. i - 1
  BY <1>0
<1> QED
  BY <1>3, <1>4

\* What detection finds are candidates whose variable is set.
LEMMA DetectedIsSet ==
  ASSUME NEW env
  PROVE  /\ IsSequence(Detected(env))
         /\ \A i \in DOMAIN Detected(env) :
              /\ Detected(env)[i].kind \in KnownProviderKinds
              /\ Detected(env)[i].env # NoName /\ EnvVarIsSet(env, Detected(env)[i].env)
<1> DEFINE S == {CandidateEnvVars[i] : i \in {k \in 1 .. 4 : EnvVarIsSet(env, CandidateEnvVars[k].env)}}
           found(i) == IF /\ EnvVarIsSet(env, CandidateEnvVars[i].env)
                          /\ ~ \E j \in 1 .. i - 1 :
                                 /\ EnvVarIsSet(env, CandidateEnvVars[j].env)
                                 /\ CandidateEnvVars[j].kind = CandidateEnvVars[i].kind
                       THEN <<CandidateEnvVars[i]>> ELSE <<>>
<1>1. \A i \in 1 .. 4 : found(i) \in Seq(S)
  <2> SUFFICES ASSUME NEW i \in 1 .. 4 PROVE found(i) \in Seq(S)
    OBVIOUS
  <2>1. EnvVarIsSet(env, CandidateEnvVars[i].env) => CandidateEnvVars[i] \in S
    OBVIOUS
  <2> HIDE DEF S
  <2> QED
    BY <2>1
<1>2. Detected(env) = found(1) \o found(2) \o found(3) \o found(4)
  BY DEF Detected
<1>3. Detected(env) \in Seq(S)
  <2> HIDE DEF S, found
  <2> QED
    BY <1>1, <1>2
<1>4. \A x \in S : x.kind \in KnownProviderKinds /\ x.env # NoName /\ EnvVarIsSet(env, x.env)
  <2> SUFFICES ASSUME NEW i \in 1 .. 4
               PROVE  CandidateEnvVars[i].kind \in KnownProviderKinds /\ CandidateEnvVars[i].env # NoName
    OBVIOUS
  <2>1. i = 1 \/ i = 2 \/ i = 3 \/ i = 4
    OBVIOUS
  <2> QED
    BY <2>1 DEF CandidateEnvVars, KnownProviderKinds, DefaultApiKeyEnv, NoName
<1> HIDE DEF S
<1> DEFINE s == Detected(env)
<1> HIDE DEF s
<1>5. s \in Seq(S)
  BY <1>3 DEF s
<1>6. IsSequence(s) /\ \A i \in DOMAIN s : s[i] \in S
  BY <1>5 DEF IsSequence
<1> QED
  BY <1>4, <1>6 DEF s

\* An entry that names the detected variable, or leaves it to the kind, is a good one.
LEMMA EntryIsValid ==
  ASSUME NEW env, NEW detected, NEW name, NEW models,
         detected.kind \in KnownProviderKinds, detected.env # NoName, EnvVarIsSet(env, detected.env),
         models # <<>> \/ FreeTierModels(detected.kind) # <<>>
  PROVE  ProviderError(ProviderFor(detected, name, models), env) = "valid"
<1> DEFINE entry == ProviderFor(detected, name, models)
<1>1. entry.models # <<>> /\ entry.kind = detected.kind
  BY DEF ProviderFor
<1>2. ResolveApiKeyEnv(entry) = detected.env
  BY DEF ProviderFor, ResolveApiKeyEnv
<1> HIDE DEF entry
<1>3. ProviderError(entry, env) = "valid"
  BY <1>1, <1>2 DEF ProviderError
<1> QED
  BY <1>3 DEF entry

\* What building relies on in a file.
IsReadable(f) ==
  /\ f = [state |-> f.state, config |-> f.config]
  /\ f.state = "toml" =>
       IsSequence(f.config.providers) /\ f.config.judge.backend \in {"http", "candle"}

LEMMA FilesAreReadable ==
  ASSUME NEW f, IsFile(f)
  PROVE  IsReadable(f)
BY DEF IsFile, IsReadable, IsConfig, JudgeSettings

\* The wizard's file passes every check, in the environment it was made for.
LEMMA WizardIsValid ==
  ASSUME NEW env, Detected(env) # <<>>, NEW answer \in Answers, AcceptedAnswer(env, answer)
  PROVE  /\ IsReadable(Written(WizardConfig(env, answer)))
         /\ Load(Written(WizardConfig(env, answer)), env) = "valid"
<1> DEFINE found == Detected(env)
           name == NamesGiven(found, answer)
           config == WizardConfig(env, answer)
<1>1. /\ IsSequence(found)
      /\ \A i \in DOMAIN found :
           /\ found[i].kind \in KnownProviderKinds
           /\ found[i].env # NoName /\ EnvVarIsSet(env, found[i].env)
  BY DetectedIsSet
<1>2. /\ config.providers = [i \in DOMAIN found |->
                               ProviderFor(found[i], name[i], answer.models[found[i].kind])]
      /\ config.proxy = answer.proxy /\ config.memory = answer.memory
      /\ config.agent = DefaultAgent /\ config.cache = DefaultCache /\ config.judge = DefaultJudge
  BY DEF WizardConfig
<1>3. Len(config.providers) = Len(found) /\ IsSequence(config.providers)
  <2> HIDE DEF found, name, config
  <2> QED
    BY <1>1, <1>2 DEF IsSequence
<1>4. ~NamesClash(config.providers)
  <2>1. \A i \in DOMAIN found : IsSequence(answer.names[found[i].kind])
    BY <1>1, AnswersAreTyped
  <2>2. \A i, j \in DOMAIN found : i # j => name[i] # name[j]
    <3> HIDE DEF found
    <3> QED
      BY <1>1, <2>1, NamesDiffer
  <2>3. \A i \in DOMAIN found : config.providers[i].name = name[i]
    <3> HIDE DEF found, name, config
    <3> QED
      BY <1>2 DEF ProviderFor
  <2>4. DOMAIN config.providers = DOMAIN found
    BY <1>2
  <2> HIDE DEF found, name, config
  <2> QED
    BY <2>2, <2>3, <2>4 DEF NamesClash
<1>5. ProvidersError(config.providers, env) = "valid"
  <2>1. \A i \in DOMAIN found :
          answer.models[found[i].kind] # <<>> \/ FreeTierModels(found[i].kind) # <<>>
    BY DEF AcceptedAnswer
  <2> HIDE DEF found, name, config
  <2>2. \A i \in DOMAIN config.providers : ProviderError(config.providers[i], env) = "valid"
    BY <1>1, <1>2, <2>1, EntryIsValid
  <2> QED
    BY <2>2 DEF ProvidersError
<1>6. config.providers # <<>>
  <2>1. Len(found) # 0
    <3>1. found # <<>>
      OBVIOUS
    <3> HIDE DEF found
    <3>2. Len(found) = 0 => found = <<>>
      <4> SUFFICES ASSUME Len(found) = 0 PROVE found = <<>>
        OBVIOUS
      <4>1. found = [k \in 1 .. 0 |-> found[k]]
        BY <1>1 DEF IsSequence
      <4>2. \A k : k \notin 1 .. 0
        OBVIOUS
      <4> QED
        BY <4>1, <4>2
    <3> QED
      BY <3>1, <3>2
  <2> HIDE DEF found, config
  <2> QED
    BY <1>1, <1>3, <2>1
<1> HIDE DEF found, name, config
<1>7. LlmError(config, env) = "valid"
  BY <1>4, <1>5, <1>6 DEF LlmError
<1>8. MemoryError(answer.memory) = "valid"
  BY AnswersAreTyped
<1>9. ProxyError(config.proxy) = "valid"
  BY <1>2 DEF AcceptedAnswer, ProxyError
<1>10. JudgeError(config.judge, env) = "valid"
  BY <1>2 DEF DefaultJudge, JudgeError
<1>11. Validate(config, env) = "valid"
  BY <1>2, <1>7, <1>8, <1>9, <1>10 DEF Validate
<1>12. IsSequence(config.providers) /\ config.judge.backend \in {"http", "candle"}
  BY <1>2, <1>3 DEF DefaultJudge
<1>13. IsReadable(Written(config)) /\ Load(Written(config), env) = "valid"
  BY <1>11, <1>12 DEF Written, IsReadable, Load
<1> QED
  BY <1>13 DEF config

-----------------------------------------------------------------------------

\* Whatever validation accepts can be built, but for a proxy that only looks like
\* one, and a judge that may not be part of the program.
LEMMA ProvidersAreValid ==
  ASSUME NEW providers, IsSequence(providers), NEW env, ProvidersError(providers, env) = "valid",
         NEW i \in DOMAIN providers
  PROVE  ProviderError(providers[i], env) = "valid"
<1> DEFINE bad == {k \in DOMAIN providers : ProviderError(providers[k], env) # "valid"}
           first == CHOOSE k \in bad : \A j \in bad : k <= j
<1>1. bad \in SUBSET Nat
  BY DEF IsSequence
<1>2. ASSUME bad # {} PROVE FALSE
  <2>1. \E k \in bad : \A j \in bad : k <= j
    <3> HIDE DEF bad
    <3> QED
      BY <1>1, <1>2, LeastNumber
  <2>2. first \in bad
    BY <2>1
  <2>3. ProvidersError(providers, env) = ProviderError(providers[first], env)
    BY <1>2 DEF ProvidersError
  <2> QED
    BY <2>2, <2>3
<1> QED
  BY <1>2

LEMMA ValidBuilds ==
  ASSUME NEW config, NEW env, NEW features, Validate(config, env) = "valid",
         IsSequence(config.providers), config.judge.backend \in {"http", "candle"}
  PROVE  /\ RouterFails(config, env) => config.proxy = "vague"
         /\ JudgeFails(config.judge, env, features) => config.judge.backend = "candle"
<1>1. /\ LlmError(config, env) = "valid" /\ ProxyError(config.proxy) = "valid"
      /\ JudgeError(config.judge, env) = "valid"
  BY DEF Validate
<1>2. ProvidersError(config.providers, env) = "valid"
  BY <1>1 DEF LlmError
<1>3. ASSUME NEW i \in DOMAIN config.providers, SharedFails(config.providers[i], config.proxy, env)
      PROVE  config.proxy = "vague"
  <2> DEFINE provider == config.providers[i]
  <2>1. ProviderError(provider, env) = "valid"
    BY <1>2, ProvidersAreValid
  <2> HIDE DEF provider
  <2>2. provider.kind \in KnownProviderKinds /\ EnvVarIsSet(env, ResolveApiKeyEnv(provider))
    BY <2>1 DEF ProviderError
  <2>3. AdapterKindFor(provider.kind) # NoName
    BY <2>2 DEF AdapterKindFor, KnownProviderKinds, DefaultApiKeyEnv, NoName
  <2>4. config.proxy \notin {"none", "good"}
    BY <1>3, <2>2, <2>3 DEF SharedFails, provider
  <2> QED
    BY <1>1, <2>4 DEF ProxyError, IsValidHttpsProxyUrl
<1>4. RouterFails(config, env) => config.proxy = "vague"
  BY <1>3 DEF RouterFails
<1>5. ASSUME JudgeFails(config.judge, env, features) PROVE config.judge.backend = "candle"
  <2>1. config.judge.backend = "http" => ~HttpJudgeFails(config.judge, env)
    BY <1>1, <1>5 DEF JudgeError, HttpJudgeError, HttpJudgeFails, JudgeFails
  <2> QED
    BY <1>5, <2>1 DEF JudgeFails
<1> QED
  BY <1>4, <1>5

-----------------------------------------------------------------------------

\* Whoever runs or writes a configuration has one that is valid in its environment.
IsSound(x) ==
  /\ DOMAIN x = {"at", "around", "path", "file", "store"}
  /\ x.at # "idle" => x.path \in DOMAIN configs
  /\ x.at = "asking" => Detected(x.around.env) # <<>>
  /\ x.at \in {"write", "fill", "check", "run"} =>
       IsReadable(x.file) /\ Load(x.file, x.around.env) = "valid"

FilesAreSound ==
  /\ scene \in Scenes
  /\ \E start \in Machines[scene].configs : DOMAIN configs = DOMAIN start
  /\ \A path \in DOMAIN configs : IsReadable(configs[path])

ConsolesAreSound ==
  /\ DOMAIN console = Consoles
  /\ \A c \in Consoles : IsSound(console[c])

\* A step of one process, which may write to one file.
LEMMA OneConsoleSound ==
  ASSUME ConsolesAreSound, NEW c \in Consoles, DOMAIN configs' = DOMAIN configs,
         DOMAIN console' = Consoles, \A d \in Consoles \ {c} : console'[d] = console[d],
         IsSound(console'[c])
  PROVE  ConsolesAreSound'
<1>1. ASSUME NEW d \in Consoles PROVE IsSound(console[d])'
  <2>1. IsSound(console'[d])
    BY DEF ConsolesAreSound
  <2> QED
    BY <2>1 DEF IsSound
<1> QED
  BY <1>1 DEF ConsolesAreSound

LEMMA OneFileSound ==
  ASSUME FilesAreSound, scene' = scene, NEW path, NEW f, IsReadable(f),
         configs' = [configs EXCEPT ![path] = f]
  PROVE  FilesAreSound' /\ DOMAIN configs' = DOMAIN configs
<1>1. DOMAIN configs' = DOMAIN configs
  OBVIOUS
<1>2. ASSUME NEW p \in DOMAIN configs PROVE IsReadable(configs'[p])
  <2>1. configs'[p] = f \/ configs'[p] = configs[p]
    OBVIOUS
  <2> QED
    BY <2>1 DEF FilesAreSound
<1>3. \A p \in DOMAIN configs' : IsReadable(configs'[p])
  BY <1>1, <1>2
<1> QED
  BY <1>1, <1>3 DEF FilesAreSound, IsReadable

LEMMA EndsSound ==
  ASSUME ConsolesAreSound, DOMAIN configs' = DOMAIN configs, NEW c \in Consoles, Ends(c)
  PROVE  ConsolesAreSound'
<1>1. IsSound(console'[c])
  BY DEF Ends, ConsolesAreSound, IsSound, Idle
<1> QED
  BY <1>1, OneConsoleSound DEF Ends, ConsolesAreSound

LEMMA GoesSound ==
  ASSUME ConsolesAreSound, DOMAIN configs' = DOMAIN configs, NEW c \in Consoles, NEW at, Goes(c, at),
         console[c].at # "idle",
         at = "asking" => Detected(console[c].around.env) # <<>>,
         at \in {"write", "fill", "check", "run"} => console[c].at \in {"write", "fill", "check", "run"}
  PROVE  ConsolesAreSound'
<1>1. IsSound(console'[c])
  BY DEF Goes, ConsolesAreSound, IsSound
<1> QED
  BY <1>1, OneConsoleSound DEF Goes, ConsolesAreSound

LEMMA LaunchSound ==
  ASSUME ConsolesAreSound, FilesAreSound, UNCHANGED configs, NEW c \in Consoles,
         NEW command \in {"serve", "setup", "clear"}, NEW around \in Machines[scene].arounds,
         LaunchConsole(c, command, around)
  PROVE  ConsolesAreSound'
<1>1. PICK start \in Machines[scene].configs : DOMAIN configs = DOMAIN start
  BY DEF FilesAreSound
<1>2. {UserPath, around.cwd} \cup ({around.given} \ {NoName}) \subseteq DOMAIN configs
  BY <1>1, PathsAreFiles DEF FilesAreSound
<1>3. ResolveConfigPath(around) \in DOMAIN configs
  BY <1>2 DEF ResolveConfigPath
<1>4. IsSound(console'[c])
  BY <1>3 DEF LaunchConsole, ConsolesAreSound, IsSound, Idle
<1> QED
  BY <1>4, OneConsoleSound DEF LaunchConsole, ConsolesAreSound

LEMMA LoadsSound ==
  ASSUME ConsolesAreSound, FilesAreSound, NEW c \in Consoles, ServerLoads(c)
  PROVE  ConsolesAreSound'
<1> DEFINE read == configs[Me(c).path]
<1>1. UNCHANGED configs /\ Me(c).at = "serve"
  BY DEF ServerLoads
<1>2. CASE /\ Load(read, Me(c).around.env) = "valid"
           /\ console' = [console EXCEPT ![c].at = "run", ![c].file = read,
                            ![c].store = StoreOf(read.config.cache, Me(c).around)]
  <2>1. IsReadable(read)
    BY <1>1 DEF ConsolesAreSound, FilesAreSound, IsSound, Me
  <2>2. IsSound(console'[c])
    BY <1>1, <1>2, <2>1 DEF ConsolesAreSound, IsSound, Me
  <2> QED
    BY <1>1, <1>2, <2>2, OneConsoleSound DEF ConsolesAreSound
<1>3. CASE Goes(c, "setup")
  BY <1>1, <1>3, GoesSound DEF Me
<1> QED
  BY <1>1, <1>2, <1>3, EndsSound DEF ServerLoads

LEMMA ConsoleStepSound ==
  ASSUME ConsolesAreSound, FilesAreSound, scene' = scene, NEW c \in Consoles, ConsoleStep(c)
  PROVE  ConsolesAreSound' /\ FilesAreSound'
<1>0. ASSUME UNCHANGED configs PROVE FilesAreSound'
  BY <1>0 DEF FilesAreSound, IsReadable
<1>1. CASE ClearCache(c)
  <2>1. console' = [console EXCEPT ![c].at = "cleared", ![c].file = configs[Me(c).path],
                      ![c].store = ResolveCacheDir(CacheSettingsOf(configs[Me(c).path]).dir,
                                                   Me(c).around)]
    BY <1>1 DEF ClearCache
  <2>2. IsSound(console'[c])
    BY <1>1, <2>1 DEF ClearCache, ConsolesAreSound, IsSound, Me
  <2>3. UNCHANGED configs
    BY <1>1 DEF ClearCache
  <2> QED
    BY <1>0, <2>1, <2>2, <2>3, OneConsoleSound DEF ConsolesAreSound
<1>2. CASE Quit(c) \/ WizardChecks(c)
  BY <1>0, <1>2, EndsSound DEF Quit, WizardChecks
<1>3. CASE WizardStarts(c)
  <2>1. UNCHANGED configs /\ Me(c).at = "setup"
    BY <1>3 DEF WizardStarts
  <2>2. Ends(c) \/ (Detected(Me(c).around.env) # <<>> /\ Goes(c, "asking"))
    BY <1>3 DEF WizardStarts
  <2> QED
    BY <1>0, <2>1, <2>2, EndsSound, GoesSound DEF Me
<1>4. CASE WizardAsks(c)
  <2>1. PICK answer \in Answers :
          /\ AcceptedAnswer(Me(c).around.env, answer)
          /\ console' = [console EXCEPT ![c].at = "write",
                           ![c].file = Written(WizardConfig(Me(c).around.env, answer))]
    BY <1>4 DEF WizardAsks
  <2>2. UNCHANGED configs /\ Me(c).at = "asking"
    BY <1>4 DEF WizardAsks
  <2>3. Detected(Me(c).around.env) # <<>>
    BY <2>2 DEF ConsolesAreSound, IsSound, Me
  <2>4. /\ IsReadable(Written(WizardConfig(Me(c).around.env, answer)))
        /\ Load(Written(WizardConfig(Me(c).around.env, answer)), Me(c).around.env) = "valid"
    BY <2>1, <2>3, WizardIsValid
  <2>5. IsSound(console'[c])
    BY <2>1, <2>2, <2>4 DEF ConsolesAreSound, IsSound, Me
  <2> QED
    BY <1>0, <2>1, <2>2, <2>5, OneConsoleSound DEF ConsolesAreSound
<1>5. CASE WizardWrites(c)
  <2> DEFINE path == Me(c).path
  <2>0. /\ Me(c).at \in {"write", "fill"} /\ path \in DOMAIN configs
        /\ IsReadable(Me(c).file) /\ IsReadable(configs[path])
    BY <1>5 DEF WizardWrites, ConsolesAreSound, FilesAreSound, IsSound, Me
  <2>1. CASE Goes(c, "fill") /\ configs' = [configs EXCEPT ![path] = Empty]
    <3>1. IsReadable(Empty)
      BY DEF IsReadable, Empty
    <3>2. FilesAreSound' /\ DOMAIN configs' = DOMAIN configs
      BY <2>1, <3>1, OneFileSound
    <3> QED
      BY <2>0, <2>1, <3>2, GoesSound DEF Me
  <2>2. CASE Goes(c, "check") /\ configs' = [configs EXCEPT ![path] = Me(c).file]
    <3>1. FilesAreSound' /\ DOMAIN configs' = DOMAIN configs
      BY <2>0, <2>2, OneFileSound
    <3> QED
      BY <2>0, <2>2, <3>1, GoesSound DEF Me
  <2>3. CASE Ends(c) /\ configs' = [configs EXCEPT ![path].state = "garbled"]
    <3> DEFINE f == [state |-> "garbled", config |-> configs[path].config]
    <3>1. IsReadable(f)
      BY DEF IsReadable
    <3>2. configs' = [configs EXCEPT ![path] = f]
      <4>1. [configs[path] EXCEPT !.state = "garbled"] = f
        BY <2>0 DEF IsReadable
      <4> QED
        BY <2>3, <4>1
    <3> HIDE DEF f
    <3>3. FilesAreSound' /\ DOMAIN configs' = DOMAIN configs
      BY <3>1, <3>2, OneFileSound
    <3> QED
      BY <2>3, <3>3, EndsSound
  <2> QED
    BY <1>5, <2>1, <2>2, <2>3 DEF WizardWrites
<1> QED
  BY <1>1, <1>2, <1>3, <1>4, <1>5 DEF ConsoleStep

LEMMA StepSound ==
  ConsolesAreSound /\ FilesAreSound /\ [Next]_provisioningVars => ConsolesAreSound' /\ FilesAreSound'
<1> SUFFICES ASSUME ConsolesAreSound, FilesAreSound, [Next]_provisioningVars
             PROVE  ConsolesAreSound' /\ FilesAreSound'
  OBVIOUS
<1>0. scene' = scene
  BY DEF Next, provisioningVars
<1>1. ASSUME UNCHANGED configs PROVE FilesAreSound'
  BY <1>0, <1>1 DEF FilesAreSound, IsReadable
<1>2. ASSUME UNCHANGED console, DOMAIN configs' = DOMAIN configs PROVE ConsolesAreSound'
  BY <1>2 DEF ConsolesAreSound, IsSound
<1>3. CASE Main
  <2>1. ASSUME NEW c \in Consoles, NEW command \in {"serve", "setup", "clear"},
               NEW around \in Machines[scene].arounds, LaunchConsole(c, command, around)
        PROVE  ConsolesAreSound' /\ FilesAreSound'
    <3>1. UNCHANGED configs
      BY <2>1 DEF LaunchConsole
    <3> QED
      BY <1>1, <2>1, <3>1, LaunchSound
  <2> QED
    BY <1>1, <1>2, <1>3, <2>1 DEF Main, startupVars
<1>4. CASE Configuring
  <2>1. CASE Revise
    <3>1. PICK path \in DOMAIN configs, f \in Revisions : configs' = [configs EXCEPT ![path] = f]
      BY <2>1 DEF Revise
    <3>2. IsReadable(f)
      BY RevisionsAreTyped, FilesAreReadable
    <3>3. FilesAreSound' /\ DOMAIN configs' = DOMAIN configs
      BY <1>0, <3>1, <3>2, OneFileSound
    <3> QED
      BY <1>2, <2>1, <3>3 DEF Revise
  <2> QED
    BY <1>0, <1>4, <2>1, ConsoleStepSound DEF Configuring
<1>5. CASE Serving
  <2>1. ASSUME NEW s \in Consoles, Loaded(s) PROVE ConsolesAreSound' /\ FilesAreSound'
    <3>1. ServerLoads(s)
      BY <2>1 DEF Loaded
    <3>2. UNCHANGED configs
      BY <3>1 DEF ServerLoads
    <3> QED
      BY <1>1, <3>1, <3>2, LoadsSound
  <2>2. ASSUME NEW s \in Consoles, Connecting(s) PROVE ConsolesAreSound' /\ FilesAreSound'
    BY <1>1, <1>2, <2>2, EndsSound DEF Connecting, startupVars
  <2>3. ASSUME NEW s \in Consoles, Built(s) PROVE ConsolesAreSound' /\ FilesAreSound'
    BY <1>1, <2>3, EndsSound, GoesSound DEF Built, ServerBuilds, Me
  <2> QED
    BY <1>1, <1>2, <1>5, <2>1, <2>2, <2>3, OneProcessEach DEF Serving, startupVars
<1> QED
  BY <1>1, <1>2, <1>3, <1>4, <1>5 DEF Next, Updating, Installing, startupVars, provisioningVars

(***************************************************************************)
(* Whatever the wizard's user answers and whoever edits files meanwhile,   *)
(* what the wizard wrote passes its own check, and what a server has       *)
(* loaded can be built, but for the two provisos (setup.rs                 *)
(* run_setup_inner, config.rs validate_with_env, main.rs run).             *)
(***************************************************************************)
THEOREM WhatIsValidStarts == Spec => []ValidMeansItStarts
<1>1. Init => ConsolesAreSound /\ FilesAreSound
  <2> SUFFICES ASSUME Init PROVE ConsolesAreSound /\ FilesAreSound
    OBVIOUS
  <2>1. scene \in Scenes /\ configs \in Machines[scene].configs
    BY DEF Init
  <2>2. \A path \in DOMAIN configs : IsReadable(configs[path])
    BY <2>1, ConfigsAreTyped, FilesAreReadable
  <2>3. IsSound(Idle)
    BY DEF IsSound, Idle
  <2>4. console = [c \in Consoles |-> Idle]
    BY DEF Init
  <2> QED
    BY <2>1, <2>2, <2>3, <2>4 DEF ConsolesAreSound, FilesAreSound
<1>2. ConsolesAreSound => ValidMeansItStarts
  <2> SUFFICES ASSUME ConsolesAreSound, NEW c \in Consoles
               PROVE  /\ Me(c).at = "check" /\ configs[Me(c).path] = Me(c).file =>
                           Load(configs[Me(c).path], Me(c).around.env) = "valid"
                      /\ Me(c).at = "run" /\ ~Builds(c) =>
                           \/ Me(c).file.config.proxy = "vague"
                           \/ Me(c).file.config.judge.backend = "candle"
    BY DEF ValidMeansItStarts
  <2>1. Me(c).at \in {"check", "run"} =>
          IsReadable(Me(c).file) /\ Load(Me(c).file, Me(c).around.env) = "valid"
    BY DEF ConsolesAreSound, IsSound, Me
  <2>2. ASSUME Me(c).at = "run", ~Builds(c)
        PROVE  Me(c).file.config.proxy = "vague" \/ Me(c).file.config.judge.backend = "candle"
    <3> DEFINE config == Me(c).file.config
    <3>1. /\ Validate(config, Me(c).around.env) = "valid"
          /\ IsSequence(config.providers) /\ config.judge.backend \in {"http", "candle"}
      BY <2>1, <2>2 DEF Load, IsReadable
    <3>2. \/ RouterFails(config, Me(c).around.env)
          \/ JudgeFails(config.judge, Me(c).around.env, Features)
      BY <2>2 DEF Builds
    <3> HIDE DEF config
    <3>3. config.proxy = "vague" \/ config.judge.backend = "candle"
      BY <3>1, <3>2, ValidBuilds
    <3> QED
      BY <3>3 DEF config
  <2> QED
    BY <2>1, <2>2
<1> QED
  BY <1>1, <1>2, StepSound, PTL DEF Spec
=============================================================================

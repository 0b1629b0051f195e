---------------------------- MODULE IndexFreshness ----------------------------
(***************************************************************************)
(* The memory index of one repository and the explorations that ensure it  *)
(* is fresh (agent.rs stage 1, backend.rs ensure_fresh_index_inner and the *)
(* calls under it, client.rs find_project_by_root).                        *)
(*                                                                         *)
(* codebase-memory-mcp is outside the program. It keeps an index per       *)
(* project name, shared with its other clients, which refresh, rebuild and *)
(* delete it at any time (the Outside actions). A run of this process asks *)
(* it in one or more calls; each call is one step, taken when the upstream *)
(* answers, except an index request, which takes effect in one step and is *)
(* answered in another.                                                    *)
(***************************************************************************)
EXTENDS MemoryAnswers, FiniteSets, SequencesExt

CONSTANTS
  Runs,        \* explorations of this process that may be in flight together
  Files,       \* files of the repository
  Projects,    \* the upstream's project names, in the order it lists them
  Spelling,    \* Spelling[n]: how project n's root is spelled:
               \* "exact", "alias" (resolves to the root) or "foreign"
  Indexed,     \* the projects that exist when the process starts
  Assigned,    \* the name the upstream files an index of the root under
  PageSize,    \* LIST_PROJECTS_PAGE
  MaxRows,     \* LIST_PROJECTS_MAX_ROWS
  Staleness,   \* codebase_memory.staleness_seconds
  TrustTtl,    \* how long a mark spares the check
  MaxTime,     \* bounds the clock
  MaxUpsets    \* bounds the edits of the tree, what other clients do to the
               \* indexes, and failed, garbled and lost answers, all together

Names == Range(Projects)

ASSUME ProjectsAreListedOnce == IsInjective(Projects)
ASSUME RootsAreSpelled == Spelling \in [Names -> {"exact", "alias", "foreign"}]
ASSUME IndexedAreNames == Indexed \subseteq Names
ASSUME AssignedIsExact == Assigned \in Names /\ Spelling[Assigned] = "exact"
ASSUME PagesAreNotEmpty == PageSize \in Nat \ {0} /\ MaxRows \in Nat \ {0}
ASSUME TimesAreNat == Staleness \in Nat /\ TrustTtl \in Nat
ASSUME FilesAreFinite == IsFiniteSet(Files)

VARIABLES
  tree,          \* tree[f]: 0 as on the base branch, 1 changed
  clock,         \* both clocks of the process
  upstream,      \* upstream[n]: the index of project n, or Missing
  cachedName,    \* project_name_cache of the root
  lastReindexed, \* last_reindexed_at of the root
  mark,          \* index_refresh_seen of the root
  run,           \* the explorations
  reported,      \* history: the index status the last step ended a check with
  upsets         \* the counter behind MaxUpsets

vars == <<tree, clock, upstream, cachedName, lastReindexed, mark, run,
          reported, upsets>>

Trees == [Files -> {0, 1}]

Times == 0 .. MaxTime

\* generation moves with a full build only; refreshed is when the index was
\* last brought up to the tree, which the upstream does not report.
Index == [tree : Trees, generation : Times, refreshed : Times]

\* quiet is history: see Disturb.
Mark == [fp : Trees, at : Times, name : Names, quiet : BOOLEAN]

\* An exploration between two stages, before or after its check.
Idle ==
  [pc |-> "idle", goal |-> "skip", fp |-> Missing, at |-> 0, rows |-> <<>>,
   offset |-> 0, name |-> Missing, status |-> NotIndexed, files |-> {},
   quiet |-> TRUE]

Exists(n) == n \in Names /\ upstream[n] # Missing

ChangedFiles(t) == {f \in Files : t[f] # 0}

\* The index n holds every file of the tree t that differs from the base.
Covers(n, t) == Exists(n) /\ \A f \in ChangedFiles(t) : upstream[n].tree[f] = t[f]

ASSUME MissingIsNoData ==
  /\ Missing \notin Nat /\ Missing \notin Names
  /\ Missing \notin [tree : Trees, generation : Nat, refreshed : Nat]

-----------------------------------------------------------------------------
(* History: a run or a mark is quiet as long as neither the tree moved nor *)
(* an index changed by someone else since its run began.                   *)

Disturbed(r) == [run EXCEPT ![r].quiet = FALSE]

DisturbAll == [q \in Runs |-> Disturbed(q)[q]]

\* Everybody but r, whose step is next, is disturbed.
DisturbOthers(r, next) ==
  [q \in Runs |-> IF q = r THEN next ELSE Disturbed(q)[q]]

DisturbMark == IF mark = Missing THEN Missing ELSE [mark EXCEPT !.quiet = FALSE]

-----------------------------------------------------------------------------
(* Outside the program.                                                    *)

Upset == upsets < MaxUpsets /\ upsets' = upsets + 1

NoUpset == UNCHANGED upsets

NothingReported == reported' = "none"

Edit(f) ==
  /\ Upset
  /\ tree' = [tree EXCEPT ![f] = 1 - @]
  /\ run' = DisturbAll
  /\ NothingReported
  /\ UNCHANGED <<clock, upstream, cachedName, lastReindexed, mark>>

\* Time passes, but not between the end of an index build and its answer.
Tick ==
  /\ clock < MaxTime
  /\ \A r \in Runs : run[r].pc # "answer"
  /\ clock' = clock + 1
  /\ NothingReported
  /\ UNCHANGED <<tree, upstream, cachedName, lastReindexed, mark, run,
                 upsets>>

Outside(n, index) ==
  /\ Upset
  /\ upstream' = [upstream EXCEPT ![n] = index]
  /\ run' = DisturbAll
  /\ mark' = DisturbMark
  /\ NothingReported
  /\ UNCHANGED <<tree, clock, cachedName, lastReindexed>>

Lose(n) == Exists(n) /\ Outside(n, Missing)

\* An index brought up to the tree; a new one starts a generation.
BroughtUp(n) ==
  [tree |-> tree,
   generation |-> IF Exists(n) THEN upstream[n].generation ELSE clock,
   refreshed |-> clock]

Refresh(n) == Spelling[n] # "foreign" /\ Outside(n, BroughtUp(n))

-----------------------------------------------------------------------------
(* The steps of a run. next is the run's record after the step.            *)

Continue(r, next) ==
  /\ run' = [run EXCEPT ![r] = next]
  /\ NothingReported
  /\ UNCHANGED <<tree, clock, upstream>>

\* The end of stage 1 with an index status; the rest of the run is elsewhere.
Finish(r, status) ==
  /\ run' = [run EXCEPT ![r] = Idle]
  /\ reported' = status
  /\ UNCHANGED <<tree, clock, upstream>>

Undecided == UNCHANGED <<cachedName, lastReindexed, mark>>

\* ensure_fresh_index from its beginning: a cached name is used as it is.
Ensuring(r) ==
  LET at == [run[r] EXCEPT !.goal = "ensure", !.rows = <<>>, !.offset = 0]
  IN  IF cachedName # Missing
      THEN [at EXCEPT !.pc = "status", !.name = cachedName]
      ELSE [at EXCEPT !.pc = "list"]

\* The run fingerprints the repository; the probe may time out.
Start(r) ==
  /\ run[r].pc = "idle"
  /\ \/ Continue(r, [Idle EXCEPT !.pc = "begun", !.fp = tree]) /\ NoUpset
     \/ Continue(r, [Idle EXCEPT !.pc = "begun"]) /\ Upset
  /\ Undecided

\* may_skip_index_refresh.
MaySkip(r) ==
  /\ mark # Missing
  /\ run[r].fp # Missing
  /\ run[r].fp = mark.fp
  /\ clock - mark.at < TrustTtl

\* The entry of stage 1: a skip is probed for existence, by the cached name
\* or one looked up, and anything else is a full check.
Decide(r) ==
  /\ run[r].pc = "begun"
  /\ LET at == [run[r] EXCEPT !.at = clock]
         probing == [at EXCEPT !.name = cachedName,
                               !.pc = IF cachedName # Missing THEN "status" ELSE "list"]
     IN  IF MaySkip(r)
         THEN Continue(r, probing)
         ELSE Continue(r, [Ensuring(r) EXCEPT !.at = clock])
  /\ Undecided /\ NoUpset

\* A call failed for good: the skip is off, or the check is.
GiveUp(r) ==
  IF run[r].goal = "skip" THEN Continue(r, Ensuring(r)) ELSE Finish(r, "Unavailable")

Fail(r) ==
  /\ run[r].pc \in {"list", "status", "changes", "coverage"}
  /\ GiveUp(r)
  /\ Upset /\ Undecided

-----------------------------------------------------------------------------
(* find_project_by_root: the projects page by page, then the match.        *)

Listing == SelectSeq(Projects, LAMBDA n : Exists(n))

Page(offset) == SubSeq(Listing, offset + 1, Min({offset + PageSize, Len(Listing)}))

ListPage(r) ==
  /\ run[r].pc = "list"
  /\ LET page == Page(run[r].offset)
         rows == run[r].rows \o page
         hasMore == run[r].offset + PageSize < Len(Listing)
         found == MatchingRoot(rows, Spelling)
         again == [run[r] EXCEPT !.rows = rows, !.offset = @ + Len(page)]
         matched == [run[r] EXCEPT !.rows = <<>>, !.offset = 0, !.name = found]
     IN  IF hasMore /\ page # <<>> /\ Len(rows) < MaxRows
         THEN Continue(r, again) /\ UNCHANGED cachedName
         ELSE IF found # Missing
         THEN /\ Continue(r, [matched EXCEPT !.pc = "status"])
              /\ cachedName' = found
         ELSE /\ Continue(r, IF run[r].goal = "skip"
                             THEN Ensuring(r)
                             ELSE [matched EXCEPT !.pc = "index"])
              /\ UNCHANGED cachedName
  /\ UNCHANGED <<lastReindexed, mark>> /\ NoUpset

-----------------------------------------------------------------------------
(* The probes.                                                             *)

StatusOf(n) ==
  IF Exists(n)
  THEN StatusProbe([status |-> "ready", indexed |-> Missing,
                    indexedAt |-> upstream[n].generation])
  ELSE NotIndexed

\* An answer in a shape the decoder does not know.
GarbledStatus == StatusProbe([status |-> Missing, indexed |-> Missing, indexedAt |-> Missing])

\* The mark that an answered, successful check leaves (agent.rs), if the run
\* has a fingerprint. It is quiet if the run is.
MarkOf(r, n) ==
  IF run[r].fp = Missing
  THEN mark
  ELSE [fp |-> run[r].fp, at |-> run[r].at, name |-> n, quiet |-> run[r].quiet]

StatusAfter(r, status) ==
  /\ run[r].pc = "status"
  /\ IF run[r].goal = "skip"
     THEN IF status.exists THEN Finish(r, "UpToDateSkipped") ELSE Continue(r, Ensuring(r))
     ELSE Continue(r, [run[r] EXCEPT !.status = status,
                                     !.pc = IF status.exists THEN "changes" ELSE "index"])
  /\ Undecided

ProbeStatus(r) ==
  \/ StatusAfter(r, StatusOf(run[r].name)) /\ NoUpset
  \/ StatusAfter(r, GarbledStatus) /\ Upset

\* This process's own last index before the upstream's generation.
LastIndexedAt(r) ==
  IF lastReindexed # Missing THEN lastReindexed ELSE run[r].status.indexedAt

\* The decision, with nothing awaited between it and the mark.
Judge(r, changed) ==
  IF MustReindex(TRUE, changed, LastIndexedAt(r), Staleness, clock)
  THEN Continue(r, [run[r] EXCEPT !.pc = "index"]) /\ UNCHANGED mark
  ELSE Finish(r, "UpToDate") /\ mark' = MarkOf(r, run[r].name)

\* detect_changes answers with every file that differs from the base branch,
\* whole or cut to a page, and is silent about a project it does not know.
ChangesAnswers(n) ==
  LET files == SetToSeq(ChangedFiles(tree))
  IN  IF Exists(n)
      THEN {[total |-> Len(files), files |-> files, hasMore |-> FALSE],
            [total |-> Len(files), files |-> <<>>, hasMore |-> files # <<>>]}
      ELSE {[total |-> Missing, files |-> Missing, hasMore |-> Missing]}

ChangesAfter(r, changes) ==
  /\ run[r].pc = "changes"
  /\ IF changes.count \notin {0, Missing} /\ changes.files # Missing
     THEN /\ Continue(r, [run[r] EXCEPT !.pc = "coverage", !.files = Range(changes.files)])
          /\ UNCHANGED mark
     ELSE Judge(r, changes.count)
  /\ UNCHANGED <<cachedName, lastReindexed>>

ProbeChanges(r) ==
  \/ \E json \in ChangesAnswers(run[r].name) : ChangesAfter(r, ChangesProbe(json)) /\ NoUpset
  \/ ChangesAfter(r, UnknownChanges) /\ Upset

\* check_index_coverage: one row per file that was asked for.
CoverageAnswer(n, files) ==
  LET row(f) == IF Exists(n) /\ upstream[n].tree[f] = tree[f] THEN "metadata_match" ELSE "stale"
  IN  [hasMore |-> FALSE, rows |-> [f \in files |-> row(f)]]

CoverageAfter(r, covered) ==
  /\ run[r].pc = "coverage"
  /\ Judge(r, IF covered THEN 0 ELSE Cardinality(run[r].files))
  /\ UNCHANGED <<cachedName, lastReindexed>>

ProbeCoverage(r) ==
  \/ CoverageAfter(r, CoversAll(CoverageAnswer(run[r].name, run[r].files))) /\ NoUpset
  \/ CoverageAfter(r, FALSE) /\ Upset

-----------------------------------------------------------------------------
(* run_index.                                                              *)

\* The upstream brings the index of the root up to the tree.
IndexTakesEffect(r) ==
  /\ run[r].pc = "index"
  /\ upstream' = [upstream EXCEPT ![Assigned] = BroughtUp(Assigned)]
  /\ run' = DisturbOthers(r, [run[r] EXCEPT !.pc = "answer", !.name = Assigned])
  /\ mark' = DisturbMark
  /\ NothingReported
  /\ UNCHANGED <<tree, clock, cachedName, lastReindexed, upsets>>

\* Mutant of IndexAnswered: a cached name is kept although the upstream has filed
\* the index under another.
IndexAnsweredKeepsName(r) ==
  /\ run[r].pc = "answer"
  /\ \/ cachedName' = (IF cachedName = Missing THEN Assigned ELSE cachedName) /\ NoUpset
     \/ cachedName' = cachedName /\ Upset
  /\ lastReindexed' = clock
  /\ mark' = MarkOf(r, Assigned)
  /\ Finish(r, "Reindexed")

\* It answers with the name it filed the index under, or, in a shape the
\* decoder does not know, without one.
IndexAnswered(r) ==
  /\ run[r].pc = "answer"
  /\ \/ cachedName' = Assigned /\ NoUpset
     \/ cachedName' = Missing /\ Upset
  /\ lastReindexed' = clock
  /\ mark' = MarkOf(r, Assigned)
  /\ Finish(r, "Reindexed")

\* It refuses (before or after an effect), or the answer is lost.
IndexFailed(r) ==
  /\ run[r].pc \in {"index", "answer"}
  /\ \E status \in {"IndexingFailed", "Unavailable"} : Finish(r, status)
  /\ Upset /\ Undecided

-----------------------------------------------------------------------------

Init ==
  /\ tree = [f \in Files |-> 0]
  /\ clock = 0
  /\ upstream = [n \in Names |-> IF n \in Indexed
                                THEN [tree |-> tree, generation |-> 0, refreshed |-> 0]
                                ELSE Missing]
  /\ cachedName = Missing
  /\ lastReindexed = Missing
  /\ mark = Missing
  /\ run = [r \in Runs |-> Idle]
  /\ reported = "none"
  /\ upsets = 0

Step(r) ==
  \/ Decide(r)
  \/ ListPage(r)
  \/ ProbeStatus(r)
  \/ ProbeChanges(r)
  \/ ProbeCoverage(r)
  \/ IndexTakesEffect(r)
  \/ IndexAnswered(r)

Next ==
  \/ \E r \in Runs : Start(r) \/ Step(r) \/ Fail(r) \/ IndexFailed(r)
  \/ \E f \in Files : Edit(f)
  \/ \E n \in Names : Lose(n) \/ Refresh(n)
  \/ Tick

Spec == Init /\ [][Next]_vars

(***************************************************************************)
(* Calls are answered, and explorations keep being asked for.              *)
(***************************************************************************)
FairSpec == Spec /\ \A r \in Runs : WF_vars(Step(r)) /\ WF_vars(Start(r))

-----------------------------------------------------------------------------

(***************************************************************************)
(* The mark that lets later runs skip the check vouches for the index: if  *)
(* the tree held still while the run that left it made its check, and no   *)
(* index has changed since, then the index of the root holds every changed *)
(* file as the mark's fingerprint has it (agent.rs:687-707).               *)
(***************************************************************************)
MarkVouches ==
  mark # Missing /\ mark.quiet => Covers(mark.name, mark.fp)

(***************************************************************************)
(* An index under the name that the upstream assigns, reported by a full   *)
(* check as up to date, is current within the staleness threshold (core    *)
(* memory.rs:18), whoever built, lost and refreshed it, and although this  *)
(* process's own clock reading replaces the upstream's                     *)
(* (backend.rs:1209-1219). It is not so for an index of the root found     *)
(* under another spelling: the reading is of the root, not of an index.    *)
(***************************************************************************)
UpToDateWithinThreshold ==
  [][\A r \in Runs :
       (run[r].pc # "idle" /\ run'[r].pc = "idle" /\ reported' = "UpToDate" /\ run[r].name = Assigned)
         => ~Exists(Assigned) \/ clock - upstream[Assigned].refreshed <= Staleness]_vars

(***************************************************************************)
(* Once the faults and the other clients are done, the cached project name *)
(* comes to denote an index that exists: names of deleted projects, losses *)
(* and answers without a name heal by themselves.                          *)
(***************************************************************************)
NameHeals == <>[]Exists(cachedName)
=============================================================================

------------------------------ MODULE QueryCache ------------------------------
(***************************************************************************)
(* The query->result cache of the agent and the tool-result memo beside it *)
(* (agent.rs query_cache_lookup / store_query_cache / cached_dispatch,     *)
(* cache.rs, git_probe.rs), used by concurrent explorations of one         *)
(* repository that is being edited meanwhile.                              *)
(*                                                                         *)
(* Each server process has its in-memory maps (L1); all of them share one  *)
(* on-disk store (L2), here an atomic map that may lose entries at any     *)
(* time: module DiskCache shows that the files on disk amount to that.     *)
(*                                                                         *)
(* An exploration is a run: it fingerprints the repository, asks the       *)
(* caches, and when they have nothing for it reads files one by one (the   *)
(* retrieval and LLM stages, reduced to the file contents their answer     *)
(* ends up quoting) and stores its answer. Every await of the code is a    *)
(* point where another run, an edit or a restart may come in between.      *)
(***************************************************************************)
EXTENDS RepoState, CappedMap

CONSTANTS
  Runs,         \* explorations that may be in flight at the same time
  Procs,        \* server processes that share the on-disk store
  ProcOf,       \* ProcOf[r]: the process that run r belongs to
  Keys,         \* query keys: normalised text, scope, max_results, detail
  KeyMode,      \* cache.key_mode: "strict" or "paths"
  MaxEntries,   \* cache.max_entries, the cap of every in-memory map
  NoEntry,      \* the absence of a cached entry
  InitHead,     \* the commit checked out at first
  MaxChanges,   \* bounds the edits, commits and checkouts of a behaviour
  MaxRestarts,  \* bounds the process restarts
  MaxFailures   \* bounds the git probes that time out

ASSUME RunsBelongToProcs == ProcOf \in [Runs -> Procs]
ASSUME KeyModeIsKnown == KeyMode \in {"strict", "paths"}
ASSUME MaxEntriesIsNat == MaxEntries \in Nat
ASSUME InitHeadIsCommit == InitHead \in Heads
ASSUME UnknownIsNoStamp == Unknown \notin Nat

VARIABLES
  head, work,   \* the repository: HEAD and the contents of the working tree
  stamp,        \* stamp[f]: the (len, mtime) of f, new with every write to it
  queries,      \* queries[p]: L1 of process p, Keys to entries
  tools,        \* tools[p]: the tool memo of p, (fingerprint, file) to cells
  disk,         \* disk[k]: the L2 entry of k
  pc,           \* where each run is
  key,          \* the query key of each run
  walkHead,     \* the HEAD a run read before its status walk
  fp,           \* the run's fingerprint, taken once at its start
  seen,         \* the entry the run got from a cache, or is about to store
  answer,       \* the file contents the run's answer quotes so far
  quiet,        \* history: nothing moved under the run since it started
  changes, restarts, failures   \* counters behind the Max bounds

repo == <<head, work, stamp, changes>>
caches == <<queries, tools, disk>>
locals == <<key, walkHead, fp, seen, answer, quiet>>
vars == <<repo, caches, pc, locals, restarts, failures>>

-----------------------------------------------------------------------------

\* The answer of a run that has read nothing; an answer as a whole; its files.
NoAnswer == [f \in Files |-> Unknown]

Answer == [Files -> Contents \cup {Unknown}]

Quoted(a) == {f \in Files : a[f] # Unknown}

\* The stamps of the files an entry references, and which files have one.
Deps == [Files -> Nat \cup {Unknown}]

Stamped(deps) == {f \in Files : deps[f] # Unknown}

(***************************************************************************)
(* A cached answer. fp is the fingerprint the entry is labelled with and   *)
(* deps the stamps of the files it references (QueryEntry). The other      *)
(* fields are history: the fingerprint it was first stored under, whether  *)
(* the repository held still while the answer was produced, and whether    *)
(* it also did during every run that relabelled it.                        *)
(***************************************************************************)
Entry ==
  [fp : Fingerprint,
   answer : Answer,
   deps : Deps,
   born : Fingerprint,
   quiet : BOOLEAN,
   kept : BOOLEAN]

\* The entry under the run's fingerprint.
Relabelled(e, r) == [e EXCEPT !.fp = fp[r], !.kept = e.kept /\ quiet[r]]

L1(r) == queries[ProcOf[r]]

InMemory(r) == key[r] \in Resident(L1(r))

(***************************************************************************)
(* The runs in R are over, and with them what they held (the variables     *)
(* take the values they have at first).                                    *)
(***************************************************************************)
Over(R) ==
  /\ pc' = [r \in Runs |-> IF r \in R THEN "idle" ELSE pc[r]]
  /\ walkHead' = [r \in Runs |-> IF r \in R THEN InitHead ELSE walkHead[r]]
  /\ fp' = [r \in Runs |-> IF r \in R THEN Unknown ELSE fp[r]]
  /\ seen' = [r \in Runs |-> IF r \in R THEN NoEntry ELSE seen[r]]
  /\ answer' = [r \in Runs |-> IF r \in R THEN NoAnswer ELSE answer[r]]
  /\ quiet' = [r \in Runs |-> IF r \in R THEN TRUE ELSE quiet[r]]
  /\ UNCHANGED key

Goto(r, from, to) == pc[r] = from /\ pc' = [pc EXCEPT ![r] = to]

-----------------------------------------------------------------------------
(* The repository, outside the program.                                    *)

Disturbed == quiet' = [r \in Runs |-> FALSE]

\* A file is written. Its stamp never returns to an earlier value.
Edit(f, c) ==
  /\ changes < MaxChanges
  /\ c # work[f]
  /\ work' = [work EXCEPT ![f] = c]
  /\ stamp' = [stamp EXCEPT ![f] = @ + 1]
  /\ changes' = changes + 1
  /\ Disturbed
  /\ UNCHANGED <<head, caches, pc, key, walkHead, fp, seen, answer, restarts, failures>>

\* The working tree is committed, amended or recommitted: no file is written.
Commit(h) ==
  /\ changes < MaxChanges
  /\ h # head
  /\ CommitTree[h] = work
  /\ head' = h
  /\ changes' = changes + 1
  /\ Disturbed
  /\ UNCHANGED <<work, stamp, caches, pc, key, walkHead, fp, seen, answer, restarts, failures>>

\* A clean working tree is switched to another commit.
Checkout(h) ==
  /\ changes < MaxChanges
  /\ h # head
  /\ work = CommitTree[head]
  /\ head' = h
  /\ work' = CommitTree[h]
  /\ stamp' = [f \in Files |-> IF CommitTree[h][f] = work[f] THEN stamp[f] ELSE stamp[f] + 1]
  /\ changes' = changes + 1
  /\ Disturbed
  /\ UNCHANGED <<caches, pc, key, walkHead, fp, seen, answer, restarts, failures>>

-----------------------------------------------------------------------------
(* Stage 0: fingerprint and lookup.                                        *)

\* An exploration is called; the probe reads HEAD.
Begin(r, k) ==
  /\ pc[r] \in {"idle", "served"}
  /\ pc' = [pc EXCEPT ![r] = "walk"]
  /\ key' = [key EXCEPT ![r] = k]
  /\ walkHead' = [walkHead EXCEPT ![r] = head]
  /\ fp' = [fp EXCEPT ![r] = Unknown]
  /\ seen' = [seen EXCEPT ![r] = NoEntry]
  /\ answer' = [answer EXCEPT ![r] = NoAnswer]
  /\ quiet' = [quiet EXCEPT ![r] = TRUE]
  /\ UNCHANGED <<repo, caches, restarts, failures>>

\* The probe walks the working tree's status and has its fingerprint.
Walk(r) ==
  /\ Goto(r, "walk", "lookup")
  /\ fp' = [fp EXCEPT ![r] = FingerprintOf(walkHead[r], head, work)]
  /\ walkHead' = [walkHead EXCEPT ![r] = InitHead]
  /\ UNCHANGED <<repo, caches, key, seen, answer, quiet, restarts, failures>>

\* The probe times out: the run has no fingerprint and uses no cache.
WalkTimesOut(r) ==
  /\ failures < MaxFailures
  /\ Goto(r, "walk", "explore")
  /\ failures' = failures + 1
  /\ UNCHANGED <<repo, caches, locals, restarts>>

\* L1 has nothing for the query.
MissMemory(r) ==
  /\ ~InMemory(r)
  /\ Goto(r, "lookup", "readDisk")
  /\ UNCHANGED <<repo, caches, locals, restarts, failures>>

\* L1 has an answer under the run's own fingerprint.
HitMemory(r) ==
  /\ InMemory(r)
  /\ L1(r).map[key[r]].fp = fp[r]
  /\ Goto(r, "lookup", "served")
  /\ seen' = [seen EXCEPT ![r] = L1(r).map[key[r]]]
  /\ UNCHANGED <<repo, caches, key, walkHead, fp, answer, quiet, restarts, failures>>

\* L1 has an answer under another fingerprint: it has to be validated.
DoubtMemory(r) ==
  /\ InMemory(r)
  /\ L1(r).map[key[r]].fp # fp[r]
  /\ Goto(r, "lookup", "judge")
  /\ seen' = [seen EXCEPT ![r] = L1(r).map[key[r]]]
  /\ UNCHANGED <<repo, caches, key, walkHead, fp, answer, quiet, restarts, failures>>

\* Mutant of DepsUnchanged: one unmoved stamp is enough.
SomeDepUnchanged(deps) == \E f \in Stamped(deps) : stamp[f] = deps[f]

\* deps_unchanged: every stamped file still has its store-time stamp.
DepsUnchanged(deps) == \A f \in Stamped(deps) : stamp[f] = deps[f]

\* Mutant of StillValid: only the commits are compared, and only where the
\* answer quotes them.
StillValidForOwnPaths(e, r) ==
  \/ e.fp = fp[r]
  \/ \A f \in Quoted(e.answer) : CommitTree[e.fp.head][f] = CommitTree[fp[r].head][f]

(***************************************************************************)
(* entry_still_valid, the policy both layers share: the same fingerprint;  *)
(* or, in paths mode and for an entry with stamps, unmoved stamps; or a    *)
(* fingerprint change with a provably empty diff.                          *)
(***************************************************************************)
StillValid(e, r) ==
  \/ e.fp = fp[r]
  \/ IF KeyMode = "paths" /\ Stamped(e.deps) # {}
     THEN DepsUnchanged(e.deps)
     ELSE ChangedPaths(e.fp, fp[r]) = {}

\* The verdict on the entry a run holds sends it on to ifValid, or to ifStale
\* with what is left to it of a stale entry.
Judge(r, from, ifValid, ifStale, left) ==
  /\ Goto(r, from, IF StillValid(seen[r], r) THEN ifValid ELSE ifStale)
  /\ seen' = [seen EXCEPT ![r] = IF StillValid(@, r) THEN @ ELSE left]
  /\ UNCHANGED <<repo, caches, key, walkHead, fp, answer, quiet, restarts, failures>>

\* The tree diff behind the verdict fails or times out: the entry counts as stale.
JudgeTimesOut(r, from, ifStale, left) ==
  /\ failures < MaxFailures
  /\ Goto(r, from, ifStale)
  /\ seen[r].fp # fp[r]
  /\ ~(KeyMode = "paths" /\ Stamped(seen[r].deps) # {})
  /\ seen[r].fp.dirty = fp[r].dirty
  /\ seen' = [seen EXCEPT ![r] = left]
  /\ failures' = failures + 1
  /\ UNCHANGED <<repo, caches, key, walkHead, fp, answer, quiet, restarts>>

JudgeMemory(r) == Judge(r, "judge", "relabel", "drop", seen[r])
JudgeMemoryTimesOut(r) == JudgeTimesOut(r, "judge", "drop", seen[r])
JudgeDisk(r) == Judge(r, "judgeDisk", "promote", "explore", NoEntry)
JudgeDiskTimesOut(r) == JudgeTimesOut(r, "judgeDisk", "explore", NoEntry)

\* Mutant of StillAsJudged: the compare of the compare-and-swap is left out.
StillThere(r) == InMemory(r)

\* The comparison of both compare-and-swaps: L1 still has the judged label.
StillAsJudged(r) == InMemory(r) /\ L1(r).map[key[r]].fp = seen[r].fp

\* refresh_query_fingerprint: compare-and-swap the label, then serve.
Relabel(r) ==
  /\ Goto(r, "relabel", "served")
  /\ queries' =
       IF StillAsJudged(r)
       THEN [queries EXCEPT ![ProcOf[r]] =
              Replace(@, key[r], Relabelled(@.map[key[r]], r))]
       ELSE queries
  /\ UNCHANGED <<repo, tools, disk, locals, restarts, failures>>

\* remove_query: compare-and-delete, then look on disk.
Drop(r) ==
  /\ Goto(r, "drop", "readDisk")
  /\ queries' =
       IF StillAsJudged(r)
       THEN [queries EXCEPT ![ProcOf[r]] = Remove(@, key[r])]
       ELSE queries
  /\ seen' = [seen EXCEPT ![r] = NoEntry]
  /\ UNCHANGED <<repo, tools, disk, key, walkHead, fp, answer, quiet, restarts, failures>>

\* get_query_l2.
ReadDisk(r) ==
  /\ Goto(r, "readDisk", IF disk[key[r]] = NoEntry THEN "explore" ELSE "judgeDisk")
  /\ seen' = [seen EXCEPT ![r] = disk[key[r]]]
  /\ UNCHANGED <<repo, caches, key, walkHead, fp, answer, quiet, restarts, failures>>

\* A valid L2 entry is served, and put into L1 under the run's fingerprint.
Promote(r) ==
  /\ Goto(r, "promote", "served")
  /\ queries' = [queries EXCEPT ![ProcOf[r]] =
                   Insert(@, key[r], Relabelled(seen[r], r), MaxEntries)]
  /\ UNCHANGED <<repo, tools, disk, locals, restarts, failures>>

-----------------------------------------------------------------------------
(* Stages 1 to 5, reduced to the reads behind the answer.                  *)

Quote(r, f, c) == answer' = [answer EXCEPT ![r][f] = c]

ToolKey(r, f) == <<fp[r], f>>

Memoized(r, f) == fp[r] # Unknown /\ ToolKey(r, f) \in Resident(tools[ProcOf[r]])

\* cached_dispatch with a memo cell for the call: the file is not read.
ReadMemo(r, f) ==
  LET cell == tools[ProcOf[r]].map[ToolKey(r, f)] IN
  /\ pc[r] = "explore"
  /\ answer[r][f] = Unknown
  /\ Memoized(r, f)
  /\ Quote(r, f, cell.content)
  /\ quiet' = [quiet EXCEPT ![r] = @ /\ cell.quiet]
  /\ UNCHANGED <<repo, caches, pc, key, walkHead, fp, seen, restarts, failures>>

\* cached_dispatch without one: the file is read and, with a fingerprint, memoized.
ReadFile(r, f) ==
  /\ pc[r] = "explore"
  /\ answer[r][f] = Unknown
  /\ ~Memoized(r, f)
  /\ work[f] # Absent
  /\ Quote(r, f, work[f])
  /\ tools' =
       IF fp[r] = Unknown
       THEN tools
       ELSE [tools EXCEPT ![ProcOf[r]] =
               Insert(@, ToolKey(r, f), [content |-> work[f], quiet |-> quiet[r]], MaxEntries)]
  /\ UNCHANGED <<repo, queries, disk, pc, key, walkHead, fp, seen, quiet, restarts, failures>>

\* The answer is final.
Finish(r) ==
  /\ fp[r] # Unknown
  /\ Goto(r, "explore", "stamp")
  /\ UNCHANGED <<repo, caches, locals, restarts, failures>>

\* The answer is final; without a fingerprint it is not stored.
FinishUnstored(r) ==
  /\ pc[r] = "explore"
  /\ fp[r] = Unknown
  /\ Over({r})
  /\ UNCHANGED <<repo, caches, restarts, failures>>

-----------------------------------------------------------------------------
(* store_query_cache.                                                      *)

\* collect_deps: the current stamps of the files quoted, all of them or none.
Stamps(r) ==
  [f \in Files |-> IF /\ KeyMode = "paths"
                      /\ f \in Quoted(answer[r])
                      /\ \A g \in Quoted(answer[r]) : work[g] # Absent
                   THEN stamp[f]
                   ELSE Unknown]

\* Mutant of NewEntry: the entry is labelled with a fingerprint taken at its end.
EntryAtEnd(r) ==
  [fp |-> FingerprintOf(head, head, work), answer |-> answer[r], deps |-> Stamps(r),
   born |-> fp[r], quiet |-> quiet[r], kept |-> TRUE]

NewEntry(r) ==
  [fp |-> fp[r], answer |-> answer[r], deps |-> Stamps(r),
   born |-> fp[r], quiet |-> quiet[r], kept |-> TRUE]

\* The entry is made, its files being stamped in paths mode.
Stamp(r) ==
  /\ Goto(r, "stamp", "put")
  /\ seen' = [seen EXCEPT ![r] = NewEntry(r)]
  /\ answer' = [answer EXCEPT ![r] = NoAnswer]
  /\ UNCHANGED <<repo, caches, key, walkHead, fp, quiet, restarts, failures>>

\* put_query: into L1, over whatever is there.
PutMemory(r) ==
  /\ Goto(r, "put", "write")
  /\ queries' = [queries EXCEPT ![ProcOf[r]] = Insert(@, key[r], seen[r], MaxEntries)]
  /\ UNCHANGED <<repo, tools, disk, locals, restarts, failures>>

\* put_query_l2 writes through.
PutDisk(r) ==
  /\ pc[r] = "write"
  /\ disk' = [disk EXCEPT ![key[r]] = seen[r]]
  /\ Over({r})
  /\ UNCHANGED <<repo, queries, tools, restarts, failures>>

\* put_query_l2 fails, which no one notices.
PutDiskFails(r) ==
  /\ pc[r] = "write"
  /\ Over({r})
  /\ UNCHANGED <<repo, caches, restarts, failures>>

-----------------------------------------------------------------------------
(* The store and the processes.                                            *)

\* The on-disk store loses an entry: sweep, cache clear, a corrupt file.
DiskLoses(k) ==
  /\ disk[k] # NoEntry
  /\ disk' = [disk EXCEPT ![k] = NoEntry]
  /\ UNCHANGED <<repo, queries, tools, pc, locals, restarts, failures>>

\* A process dies with its runs and comes back with empty in-memory maps.
Restart(p) ==
  /\ restarts < MaxRestarts
  /\ restarts' = restarts + 1
  /\ queries' = [queries EXCEPT ![p] = EmptyCapped]
  /\ tools' = [tools EXCEPT ![p] = EmptyCapped]
  /\ Over({r \in Runs : ProcOf[r] = p})
  /\ UNCHANGED <<repo, disk, failures>>

-----------------------------------------------------------------------------

Init ==
  /\ head = InitHead
  /\ work = CommitTree[InitHead]
  /\ stamp = [f \in Files |-> 0]
  /\ queries = [p \in Procs |-> EmptyCapped]
  /\ tools = [p \in Procs |-> EmptyCapped]
  /\ disk = [k \in Keys |-> NoEntry]
  /\ pc = [r \in Runs |-> "idle"]
  /\ key \in [Runs -> Keys]
  /\ walkHead = [r \in Runs |-> InitHead]
  /\ fp = [r \in Runs |-> Unknown]
  /\ seen = [r \in Runs |-> NoEntry]
  /\ answer = [r \in Runs |-> NoAnswer]
  /\ quiet = [r \in Runs |-> TRUE]
  /\ changes = 0 /\ restarts = 0 /\ failures = 0

\* The steps of a run once it has begun: the code runs them without being asked.
Lookup(r) ==
  \/ Walk(r) \/ WalkTimesOut(r)
  \/ MissMemory(r) \/ HitMemory(r) \/ DoubtMemory(r)
  \/ JudgeMemory(r) \/ JudgeMemoryTimesOut(r) \/ Relabel(r) \/ Drop(r)
  \/ ReadDisk(r) \/ JudgeDisk(r) \/ JudgeDiskTimesOut(r) \/ Promote(r)

Explore(r) == Finish(r) \/ FinishUnstored(r) \/ \E f \in Files : ReadMemo(r, f) \/ ReadFile(r, f)

Store(r) == Stamp(r) \/ PutMemory(r) \/ PutDisk(r) \/ PutDiskFails(r)

Environment ==
  \/ \E f \in Files, c \in Contents : Edit(f, c)
  \/ \E h \in Heads : Commit(h) \/ Checkout(h)
  \/ \E k \in Keys : DiskLoses(k)
  \/ \E p \in Procs : Restart(p)

Next ==
  \/ \E r \in Runs : (\E k \in Keys : Begin(r, k)) \/ Lookup(r) \/ Explore(r) \/ Store(r)
  \/ Environment

Spec == Init /\ [][Next]_vars

\* A run that has begun goes on; nothing makes a client call again.
FairSpec == Spec /\ \A r \in Runs : WF_vars(Lookup(r) \/ Finish(r) \/ FinishUnstored(r) \/ Store(r))

-----------------------------------------------------------------------------
(* What the cache is trusted to do.                                        *)

Cell == [content : Contents, quiet : BOOLEAN]

Phases ==
  {"idle", "walk", "lookup", "judge", "relabel", "drop", "readDisk", "judgeDisk",
   "promote", "explore", "stamp", "put", "write", "served"}

\* The phases in which a run holds an entry.
Holding == {"judge", "relabel", "drop", "judgeDisk", "promote", "put", "write", "served"}

\* Every entry of either layer, and every one a run is about to use.
L1Entries == UNION {{queries[p].map[k] : k \in Resident(queries[p])} : p \in Procs}

DiskEntries == {disk[k] : k \in Keys} \ {NoEntry}

HeldEntries == {seen[r] : r \in {q \in Runs : pc[q] \in Holding}}

\* The variables hold what their declarations say; L1 and the memo hold entries.
TypeOK ==
  /\ head \in Heads /\ work \in Trees /\ stamp \in [Files -> Nat]
  /\ L1Entries \cup DiskEntries \cup HeldEntries \subseteq Entry
  /\ \A p \in Procs : \A t \in Resident(tools[p]) :
       /\ t \in Fingerprint \X Files
       /\ tools[p].map[t] \in Cell
  /\ pc \in [Runs -> Phases]
  /\ key \in [Runs -> Keys]
  /\ walkHead \in [Runs -> Heads]
  /\ fp \in [Runs -> Fingerprint \cup {Unknown}]
  /\ answer \in [Runs -> Answer]
  /\ quiet \in [Runs -> BOOLEAN]

\* The files an entry quotes still read as quoted.
QuotesWork(e) == \A f \in Quoted(e.answer) : e.answer[f] = work[f]

\* The files an entry quotes read as quoted in the tree of its label.
QuotesLabel(e) == \A f \in Quoted(e.answer) : e.answer[f] = TreeOf(e.fp)[f]

(***************************************************************************)
(* A cache hit never hands out a snippet that an edit has invalidated: an  *)
(* answer that was produced while the repository held still, served to a   *)
(* run under which it holds still, quotes the files as they are now,       *)
(* whatever edits, commits, checkouts, relabelling races, promotions and   *)
(* restarts came between (configuration.md, `strict`). Strict mode.        *)
(***************************************************************************)
ServedFresh ==
  \A r \in Runs : pc[r] = "served" /\ quiet[r] /\ seen[r].quiet => QuotesWork(seen[r])

(***************************************************************************)
(* The same in paths mode, which validates against the disk of the moment  *)
(* and not against fingerprints: the answer must not have been relabelled  *)
(* by a run the repository moved under.                                    *)
(***************************************************************************)
ServedFreshByStamps ==
  \A r \in Runs :
    pc[r] = "served" /\ quiet[r] /\ seen[r].quiet /\ seen[r].kept => QuotesWork(seen[r])

(***************************************************************************)
(* What configuration.md says of the cache without any proviso: it never   *)
(* serves "snippets an uncommitted edit has already invalidated", to a run *)
(* under which the repository holds still. In paths mode the files are     *)
(* stamped when the answer is stored, not when they are read.              *)
(***************************************************************************)
NeverServesInvalidated ==
  \A r \in Runs : pc[r] = "served" /\ quiet[r] => QuotesWork(seen[r])

(***************************************************************************)
(* Relabelling never carries an entry to another repository state: however *)
(* often and by whomever an entry has been relabelled, its label describes *)
(* the tree its exploration started from. In strict mode, where a relabel  *)
(* stands on an empty diff (refresh_query_fingerprint, the promotion).     *)
(***************************************************************************)
LabelKeepsBirthTree ==
  \A e \in L1Entries \cup DiskEntries : TreeOf(e.fp) = TreeOf(e.born)

(***************************************************************************)
(* The label of an in-memory entry is one its answer is right for: "a      *)
(* stale relabel can never pair a fresher result with a fingerprint it     *)
(* wasn't produced from" (cache.rs, refresh_query_fingerprint). A lookup   *)
(* under that label serves the entry without looking at anything else.     *)
(***************************************************************************)
LabelMatchesAnswer ==
  \A e \in L1Entries : e.quiet /\ e.kept => QuotesLabel(e)

(***************************************************************************)
(* remove_query never deletes an entry that has come to carry the very     *)
(* fingerprint of the run that deletes: a fresher answer stored while the  *)
(* old one was being judged survives the verdict.                          *)
(***************************************************************************)
FreshEntrySurvivesDrop ==
  [][\A r \in Runs :
       pc[r] = "drop" /\ pc'[r] = "readDisk" /\ InMemory(r) /\ L1(r).map[key[r]].fp = fp[r]
         => InMemory(r)']_vars

(***************************************************************************)
(* Once the repository rests, exploring stops: every later run of the      *)
(* query is served from L1, so late stores under old labels, lost L2       *)
(* entries and lost compare-and-swaps cannot keep the cache cold for good. *)
(***************************************************************************)
SettlesOnHits == <>[](\A r \in Runs : pc[r] # "explore")
=============================================================================

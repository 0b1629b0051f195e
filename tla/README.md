# A TLA+ model of repo-explorer

repo-explorer is an MCP server that answers questions about a code repository.
A client calls one tool, `explore`, with a question; the server answers with
file locations and snippets. Answers are cached, in memory and on disk, and the
difficult part of the program is that everything the cache relies on (the
working tree, HEAD, other explorations, other server processes, the files of
the store itself) moves while it is relied on.

This directory holds the specifications, their TLC configurations and the
machine-checked proofs. Paths below are relative to `src/`; `agent/` stands for
`crates/repo-explorer-agent/src/`, `core/`, `llm/`, `memory/`, `search/` and
`mcp/` likewise.

Contents: [inventory](#1-inventory), [modules](#2-modules-and-what-they-translate),
[runs](#3-runs), [fairness](#4-fairness), [proofs](#5-proofs),
[disagreements](#6-where-the-code-and-its-comments-disagree),
[limits](#7-what-is-not-modelled-and-why), [what is left](#8-what-is-left),
[running](#9-running-the-checks).

## 1. Inventory

### How the parts work together

    client --explore--> MCP server --run--> AgentLoop
                                             |  stage 0   fingerprint (git probe), query cache: L1 map, then L2 files
                                             |  stage 1   index refresh (memory client -> child process)
                                             |  stage 2   retrieval: legs over memory and text search, ranking
                                             |  stage 3   early exit
                                             |  stage 4   verification (router -> LLM, or the local judge)
                                             |  stage 5   fallback loop (router -> LLM, tool dispatch, tool memo)
                                             |  store     L1 map, then L2 file; first write of a process sweeps

`explore` calls run concurrently on tokio, in one `AgentLoop` per process, and
several server processes (one per client) share the on-disk store. Nothing is
locked over an `await`: each in-memory cache has a mutex that is held for one
operation, the store has no lock at all, and the repository belongs to its
editor. Beside the server the same program updates itself and the memory
binary, installs an agent, writes a configuration and clears the store.

### Components

For each: the state it keeps, its operations, what is hard, what makes it
correct.

**Capped maps** (`agent/cache.rs`, `CappedMap`). State: a hash map and a queue
of its keys. Operations: get, get_mut, insert with first-in first-out eviction,
remove. Hard: the queue must stay an enumeration of the resident keys through
updates in place, removals, evictions and a cap of zero. Correct: bounded by the
cap, evicts the longest resident.

**Query result cache and tool memo** (`agent/agent.rs` `query_cache_lookup`,
`entry_still_valid`, `store_query_cache`, `cached_dispatch`; `agent/cache.rs`
`ResultCache`). State: four capped maps per process (tool results, retrieval
legs, queries, briefs). Operations: look up under a fingerprint, validate a
differing entry (tree diff, or file stamps), relabel by compare-and-swap, delete
by compare-and-swap, promote from disk, store. Hard: every one of these awaits
in the middle; the entry judged is not the entry relabelled; edits, commits,
checkouts and restarts come in between. Correct: a hit is right for the tree it
is served on; a label is one the answer is right for; a fresh entry survives a
verdict about an older one; a resting repository is answered from the cache.

**Git state probe** (`search/git_probe.rs`, `core/fingerprint.rs`). State: none
but a cache of file hashes. Operations: fingerprint (HEAD, then a digest of the
status walk), the paths changed between two fingerprints; each under a timeout.
Hard: the fingerprint is two reads. Correct: equal fingerprints, equal trees,
if the tree held still while they were taken.

**Persistent result store** (`agent/disk_cache.rs`). State: one file per query
in `results/v<SCHEMA_VERSION>/`, temp files. Operations: open, get (with touch
and heal), put (temp file and rename), sweep, clear, stats. Hard: several
processes of several versions without a lock, death between any two file
operations, a full disk, hash collisions, a cache clear from a shell. Correct:
a map that may forget but never answers wrongly; a newer version is left alone;
no temp file stays but by a death or a removal that is refused; it recovers.

**Provider router** (`core/llm.rs` `ProviderRouter`, `llm/lib.rs` for the
classification of errors). State: a cooldown deadline per model. Operations: a
tour over entries and models that skips the cooling, fails over on limit errors,
fails fast on others. Hard: no lock while a model answers, so requests that wait
for one model each overwrite its deadline; rotation; midnight. Correct: gives up
only after every model refused; a conversation keeps its model; a spent daily
quota is not asked again before midnight.

**Exploration run** (`agent/agent.rs` `run`, `fallback_loop`, `forced_finish`;
`agent/verify.rs`, `agent/judge_verify.rs`). State: a run's budget, messages,
accumulated findings, the judge's scores. Operations: the early exit,
verification by the model, by the judge or by both at once, the loop with its
rejections and its forced finish, the offline synthesis. Hard: the loop must
end whatever the model answers; the budget is tested before and charged after a
call; the early exit is authorised by one candidate that may not survive the check
against the disk; files change while the run reads them. Correct: it ends, within
its budget; answers cite files as they were; nothing shown is lost; a judge in the
shadow is only observed.

**Index refresh** (`memory/backend.rs` `ensure_fresh_index`,
`memory/freshness.rs`, the trust marks in `agent/agent.rs`). State: names and
times of the indexed projects, a mark per repository. Hard: concurrent refreshes
of one repository, stale names, marks that vouch for a tree that was edited,
other clients of the index. Correct: a mark vouches for the tree it names; an
index found up to date is at most so old; a stale name heals.

**Memory client** (`memory/client.rs`, `memory/backend.rs`). State: a child
process. Operations: tool calls with a timeout, paging, decoding. Hard: answers
come in six shapes that are told apart by how they look. Correct: the same hits,
whatever the shape.

**Retrieval and ranking** (`agent/pipeline.rs`, `core/retrieval.rs`). State: the
leg memo of the process. Operations: patterns of a query, concurrent legs,
merging, scoring, cutting, confidence, trust. Hard: a memo key must hold all that
a leg depends on; failures must not be remembered; merging compares neighbours only.
Correct: the memo makes no difference; a list without overlaps, shared among
files; the one symbol that spares the model is the only one.

**Tool dispatch and path confinement** (`agent/dispatch.rs`, `agent/tools.rs`).
State: none. Operations: eleven tools over model-supplied arguments, reads of
files, the check of a location. Hard: paths and links that leave the
repository. Correct: nothing outside is shown or cited.

**Text search** (`search/backend.rs`). State: none. Operations: search with globs,
scopes, limits. Correct: the same lines whatever the order of the walk.

**Prompt and answer shaping** (`agent/brief.rs`, `render.rs`, `skeleton.rs`).
State: none. Correct: the brief fits its budget; each call of a conversation has
its answer where a provider's API wants it.

**Local judge** (`crates/repo-explorer-judge`). State: permits of the HTTP
backend; a thread with a queue and a lazily loaded checkpoint of the other. Hard:
answers in any order, timeouts, a dead thread. Correct: a probability for
every state it was asked about, at its place, or none.

**MCP server** (`mcp/server.rs`, `main.rs`). State: what it was started with.
Operations: one tool; the choice of the memory daemon's path at the start. Hard:
the daemon accepts clients of its own path only, and is looked for in the
process table, where a bare name, a binary that is gone and any process on a system
other than Linux say nothing. Correct: a server is not turned away by a daemon that was
in sight when it looked.

**Self-update and installation** (`mcp/update.rs`, `install.rs`, `setup.rs`).
State: two binaries, temp files, an entry in Claude Code, an agent file, the
configuration. Hard: damaged downloads, a kill between any two steps, users who
change the same files, two commands at once. Correct: what is installed runs and
goes forward; the agent does not stay without its server.

**Configuration** (`core/config.rs`). State: a file. Operations: load, validate,
defaults. Hard: it is judged in another environment than the one it is used in.
Correct: what is valid starts.

**Data generation, training and evaluation** (`crates/repo-explorer-datagen`,
`eval/`, `train/`). Offline tools, not modelled.

`PROJECT.json` lists the same components with their status, and the hazards of
the code line by line with the properties that are aimed at them.

## 2. Modules and what they translate

| module | translates | composes |
|---|---|---|
| `CappedMap` | `CappedMap` as operators on a record of map and queue | |
| `CappedMapSpec` | any sequence of its operations | `CappedMap` |
| `RepoState` | fingerprints, their trees, `changed_paths` | |
| `QueryCache` | stage 0, the store and the tool memo of concurrent runs in several processes, over a moving repository | `RepoState`, `CappedMap` |
| `LossyStore` | abstract: what the persistent store promises | |
| `DiskCache` | the store's files, step by file operation | implements `LossyStore` |
| `ProviderRouter` | `complete_with_tools`, asked turn by turn by concurrent runs, and the classification of errors | |
| `MemoryAnswers` | how status, change and coverage answers are read, and when to index | |
| `IndexFreshness` | stage 1 of concurrent runs, call by call, and the trust mark | `MemoryAnswers` |
| `MemoryRows` | the six shapes of search answers, decoded | `Findings` |
| `MemoryShapes` | the same hits in each of those shapes | `MemoryRows` |
| `TextSearch` | the in-process search | `Findings` |
| `Retrieval` | patterns, merging, scores, the cut, confidence, trust | `TextSearch` |
| `RetrievalLegs` | stage 2: the legs of concurrent runs and their memo | `Retrieval`, `MemoryShapes` |
| `Findings` | locations, their check against the disk, the finish call, tidying | |
| `Conversation` | messages, and their form on the wire | `Findings` |
| `Dispatch` | the tools, their arguments and what they show | `TextSearch`, `Conversation` |
| `Brief` | the repository brief | `Findings` |
| `Requests` | the tool of the server: requests and responses | `Findings` |
| `LocalJudge` | both backends of the judge | `Findings`, `Config` |
| `ExplorationRun` | stages 3 to 5 | `Dispatch`, `LocalJudge`, `Requests`, `Brief` |
| `Config` | sections, defaults, validation, and what is built of a configuration | |
| `Startup` | how servers, `cache clear` and the wizard find and use it | `Config` |
| `Updater` | `--update` | |
| `Installer` | `--install`, `--uninstall` | |
| `MemoryDaemon` | the choice of the memory binary's path | |
| `Provisioning` | all commands on one machine | the last four |
| `MC...` | small instances for TLC | |
| `...Proofs` | theorems about the module of that name (`ExplorationProofs`: `ExplorationRun`; `RetrievalProofs`: `RetrievalLegs`; `QueryCacheProofs`: `CappedMapSpec` as well) | |
| `FindingsProofs` | lemmas on lists, ranks and locations that `ExplorationProofs` and `RetrievalProofs` share | `Findings` |

Operators whose comment begins "Mutant of" are variants of the definition that
follows them, each with a plausible mistake; `PROJECT.json` names the property
that catches each.

### CappedMap, CappedMapSpec

`Insert`, `Remove` and `Replace` are `insert`, `remove` and an assignment
through `get_mut`. Maps are parameterised by nothing: the cap is an argument, so
that `QueryCache` uses the same operators for its maps. `since` is history: when
a key last became resident. `MapKeys` and the names that begin with `Map` keep this
machine apart from the one of `QueryCache`, whose proofs extend both.

### RepoState, QueryCache

The repository is `head`, `work` (file contents) and `stamp` (one number per
file that moves with every write, the (length, mtime) of the code). It is changed by
`Edit`, `Commit` and `Checkout`. A fingerprint records HEAD and, of every file
that differs from it, the content: the digest of the code is taken to be
injective. `TreeOf` gives the tree it describes.

A run is a program counter:

    idle -Begin-> walk -Walk-> lookup -HitMemory-> served
                   |             |  \--DoubtMemory-> judge -JudgeMemory-> relabel -> served
                   |             |                                   \--> drop -> readDisk
                   |             \--MissMemory-> readDisk -> judgeDisk -JudgeDisk-> promote -> served
                   \-WalkTimesOut-> explore <---------------------/
    explore -ReadMemo/ReadFile ...-> Finish -> stamp -> put (L1) -> write (L2) -> idle

The labels are the awaits of the code: between any two steps another run, an
edit or a restart may come. `Begin` is the first read of the fingerprint (HEAD),
`Walk` the second. `StillValid` is `entry_still_valid`, `Relabel` and `Drop` are
the two compare-and-swaps, `Promote` the insertion of an L2 hit into L1, `Stamp`
`collect_deps`, `PutMemory` and `PutDisk` the write-through. Stages 1 to 5 are
reduced to what the cache can tell of them: the run reads files one by one, each
either from the tree or from the memo (`cached_dispatch`), and ends up with the
contents it quotes. Which stages there are is `ExplorationRun`. Explorations do not fail in this model; one that fails with
a router error stores nothing, which leaves no trace a restart would not.

The disk is a map that may lose any entry at any time and takes one step per
read and write. That is what `DiskCache` is proved to implement.

History variables and fields, which no action tests:

- `quiet[r]`: the repository has not changed since run r began, and every memo
  cell it used was made while the repository held still;
- in an entry, `born` (the fingerprint it was first stored under), `quiet` (the
  run that made it was quiet) and `kept` (so was every run that relabelled it).

`quiet` bounds what the code can promise: a fingerprint is taken once, at the
start, so an answer read while the tree moved is labelled with a tree it was not
read from. The properties say that this is the only way to a wrong answer; the
run `query_cache_late_stamp` shows that it is one.

### LossyStore, DiskCache

A task is one `get` or `put` of a process on a blocking thread. Each file
operation is an action: create the temp file, fill it, rename it, read, touch,
remove; a sweep retires superseded version directories file by file, opens its own
(`BeginList`), looks at one name after the other, those included that have come
since (`Stat`), and when it is through (`EndList`) evicts by the mtimes it has noted.
`Kill` stops a process between any two; `Damage`
empties a file, as a power loss may; `OpenFails`, `WriteFails`, `StatFails` and
`EvictFails` are I/O errors; `BeginClear` to `EndClear` are `repo-explorer cache clear`.
A failed put removes its temp file (`GiveUp`), and when that fails too, which the code
ignores, leaves it (`LeaveTemp`). Errors that the code ignores and that leave the
state alone are `LeaveIt` and going on in `BeginList`. Two keys may share a stem, as two hashes may collide.
A process id and counter make temp names unique; `FreshSerial` takes the smallest
such name that is free.

Files have a length in bytes (`SizeOf`; one that is created, unfinished or damaged
has none), and mtimes are kept as an order, in which a sweep's note of one has its
place. The refinement mapping reads the files: `Kept` is what a `get` would find under
each key, `Answered` what the gets in flight have found. History: `strays`, the temp
files that a death or a refused removal left, and `calm`, that no put of that version
has been under way since the sweep opened its listing, and that it was told every
length.

### ProviderRouter

A run draws a seed (`Begin`), and makes requests (`Turn`), each a tour over the
models: `Skip` a cooling one, `Ask` another, and then `Answer`, `FailFast`,
`Limited` (flat cooldown) or `OutForTheDay` (until midnight). The facts of a
provider's error (status, texts, headers) are a free choice; which of these steps
they amount to is decided as the code does. `pos` is an entry and an offset,
`At` the model there once the entry's rotation is applied. Deadlines are kept as
the time that is left, which `Tick` counts down with the clock of the day, so that
time needs no bound. History: `refused` and `refusedBy` (the models the current
and the last answered turn passed over), `by` (who answered), `banned` (the rest
of the day for which a model has no quota), `late` (the requests that waited for it when
it ran out, and still do), `raced` (one of them has been limited since).

### MemoryAnswers, IndexFreshness

The upstream, `codebase-memory-mcp`, keeps an index per project name; other
clients lose and refresh them (`Lose`, `Refresh`). A run is a program counter over
the calls of `ensure_fresh_index_inner`:

    idle -Start-> begun -Decide-> list -> status -> changes -> coverage -> idle
    list (no project), status (no index), changes or coverage (too stale) -> index -> answer -> idle

with a cached name `list` is skipped, and without a list of changes `coverage` is.
`goal` says whether it is there to probe that a skipped check may be skipped
(`may_skip_index_refresh`), or to ensure; a probe that fails starts the check over
with `Ensuring`. Each call is a step, taken when the upstream answers; an index
request takes effect in one (`IndexTakesEffect`) and is answered in another. An
answer may be whole, cut to a page, in an unknown shape, an error or lost. An
index holds the tree it was made of; only a full build moves its `generation`,
which is all the upstream reports. History: `quiet`, of runs and of the mark
(neither the tree nor an index has changed since the run began but by itself),
and `reported`. No time passes between the end of a build and its answer.

### MemoryRows, MemoryShapes, TextSearch, Retrieval, RetrievalLegs

A JSON value is a record with one field, and a text is a name with what it
spells given by constants (its last segment and qualifier, the numbers around a
dash). `FindingsOf` goes through the shapes as `findings_and_summary` does:
columnar tables, grouped tables, lists of objects, texts. `MemoryShapes` is the
inverse, written from what the code says of each shape.

A leg is a tool and a token. `Legs` lists those of a query in the order of the
code; `Retrieve` is the moment at which all of them look into the memo;
`LegAnswers` and `LegFails` come in any order; `Rank` is the end of the join.
`Finds` tabulates what a leg finds, in a tree of the world it runs in. `Outcome`
is `merge_and_rank`, confidence and trust, with the code's numbers. Whatever is
decided by the letters of a token is a constant. The memo is unbounded here: the
capped map that it is may lose entries, which can only make it miss. History:
`lost` (legs that failed) and `over` (trees there were during the run and during
those whose cells it used).

### Findings, Conversation, Dispatch, Brief, Requests, LocalJudge, ExplorationRun

A run begins at the gate with a ranking out of `Outcomes` and ends `over`:

    gate -Gate-> over (early)
      |  \-> verify -VerifyTurn*, JudgeAsked, JudgeWorks*, JudgeAnswers- Settle -> over (verify, judge)
      |                                                                     |
      \------------------------------> loop | offline <---------------------/
                                        |        \-OfflineFallback-> over
                                        \-OpenLoop, LoopTurn*, ForcedFinish-> over (loop, stopped, error)

The model answers out of `Replies` what it likes; a reply is calls of tools with
their arguments, text, or an error, and costs tokens. A step is a whole turn: the
request, the answer, its calls, the messages that are added. The files may be
edited between any two steps; a tool call may see them as they were at any time
of the run, because the tool memo may answer it. `disk[p]` is a file with
lines, a version, and whether it leads out of the repository; texts remember which
lines of which version they were cut from, which is what `AnswersCiteDisk` looks
at. In shadow mode the two verifiers interleave. `LocalJudge` has the requests of
an HTTP judge as steps, in any order under its permits, and the thread of the
other backend with its states. `spent` is kept up to the budget, because beyond
it nothing depends on it. History: `seen` (states of the files), `asked` and
`late` (calls of the router, and those begun with the budget spent). Configurations
are those that module `Config` calls valid.

### Config, Startup, Updater, Installer, MemoryDaemon, Provisioning

`Config!Validate` makes the checks in the order of `validate_with_env` and gives
back the name of the first that fails. `Startup` has processes, each with its own
environment, launch directory, home and terminal: a server loads and builds;
`cache clear` reads the cache section alone; the wizard detects, asks, empties and
fills the file, and checks it. `Updater` is a task per component and process, one
step per call; `Fault` is any failure or a damaged download, `Kill` comes at any time,
`Place` is a user. `Installer` is a program counter over the calls of
`claude` and of the file system. `MemoryDaemon` is the wait for a running daemon and
what becomes of a client; the daemon is external and modelled from what `main.rs`
says of it. `host` is the system, how another integration starts its binary (a path or
one of `BareNames`), and whether that binary is gone by now: `InSight` is what
`memory_binary_from_cmdline` lets through, and off Linux there is no look. A look is one
step, though the code reads the process table entry by entry. `Provisioning` lets
`scene` say which commands a behaviour may hold and links them: a server refuses to
start while the managed binary that `Updater` installs is missing. History: `looked`
(the file an updater looked at), `broken` (an installation was left half undone, or two
commands overlapped, and none has gone through by itself since), `saw` and `met`
(the paths of the daemon, and of all processes, in sight at the look).

## 3. Runs

| run | distinct states | checks |
|---|---|---|
| `capped_map` | 13 675 | `QueueIsResident`, `WithinCap`, `EvictsOldest` |
| `query_cache_strict` | 2.15 million | `ServedFresh`, `LabelKeepsBirthTree`, `LabelMatchesAnswer`, `FreshEntrySurvivesDrop` |
| `query_cache_paths` | 967 thousand | `ServedFreshByStamps` |
| `query_cache_live` | 311 thousand | `SettlesOnHits` |
| `disk_cache_races` | 928 847 | `TempsAreInUse`, `TallyCoversStore`, `ImplementsLossyStore`, `NewerVersionsSpared` |
| `provider_router_tours` | 791 703 | `BannedUnlessRaced`, `ExhaustedMeansAllRefused`, `SticksUnlessRefused` |
| `index_freshness` | 604 838 | `MarkVouches`, `UpToDateWithinThreshold`, `NameHeals` |
| `retrieval` | 442 073 | `MemoIsTransparent`, `ListedApart`, `FilesShareTheList`, `UniqueIsUnambiguous` |
| `exploration` | 237 239 | `BudgetBoundsCalls`, `OfflineNeverAsks`, `AnswersCiteDisk`, `SoleSymbolIsAnswered`, `DuplicatesCostNothing`, `ShadowOnlyObserves`, `JudgedWhole`, `EveryCallIsAnswered`, `SynthesisKeepsWhatWasShown`, `BriefFitsBudget`, `Ends` |
| `provisioning` | 621 692 | `InstalledIsWhole`, `ShadowsOnlyWithServer`, `NeverDowngrades`, `RefusedOnlyByUnseen`, `ValidMeansItStarts`, `ClearReachesTheStore` |

and two runs that TLC refutes, `query_cache_late_stamp` and `disk_cache_clear`, see
section 6.

**capped_map.** Four keys, cap two, six operations: an eviction, a removal in
the middle of the queue and an insertion after it all fit, and a wrong queue
shows after the next eviction. The theorems cover every cap and length.

**query_cache_strict.** The default mode. One file, three commits (one of which
is empty, so that HEAD moves without a diff), two runs in one process, one query, maps of one entry,
two changes. Two changes are what it takes to leave a tree and come back to it; two
runs are what a lost compare-and-swap takes; one file is enough because strict
mode compares whole trees. Deadlock is checked: a run can always begin.

**query_cache_paths.** Two files, one of which may be missing, three changes, a
restart, a timed-out probe, one run after the other. Here two files matter: an
answer may quote one and not the other, and entries with no stamps (an answer that
quotes nothing, or a file that has vanished) fall back to the diff. Two runs of one
process at a time race in this mode (section 6).

**query_cache_live.** Two processes with one run each and an L2 between them,
a restart, a change, under fairness: once changes cease exploring does, although
the processes delete, relabel and overwrite what they share.

**disk_cache_races.** Two processes with one task each, two keys with one hash,
two values of two bytes, a budget of one byte, an older and a newer version's
leftovers, and one mishap of any kind. A budget smaller than any result makes every
sweep evict, and both processes may sweep at once; a listing holds the entry and
whatever temp files there are, which a death or a refused removal adds to; one mishap at
any of the steps is each failure of the code by itself, and with two tasks every
pair of file operations interleaves. Symmetry under permutations of keys, of
values, and of processes with their tasks; none of the properties here is a
liveness property. Deadlock is not checked: once neither process could open the store
nothing is left to do.

**provider_router_tours.** Two runs, three entries (a rotating one with two
models, one with none, one with one), two seeds, a cooldown shorter than the day.
The tour has to wrap, to step over the empty entry and to cross into another;
seeds of the two runs interleave. Both may wait for one model, and be answered in
either order, before and after midnight.

**index_freshness.** Two runs, two projects of which the one listed first is an
index of the root under another spelling, one project per page, so that a lookup
takes two calls and projects may come and go between them; a trust mark that lasts
one tick, and two upsets: an edit and its reversal, a loss between two calls, a
failure during a rebuild. `NameHeals` is checked under fairness. Deadlock is
checked.

**retrieval.** Two runs and two retrievals, so that one can fill the memo for the
other or both fill it at once; one mishap (a failed leg, a failed probe, an
edit); three queries that share tokens but not scope or limit; worlds in which the
tools answer in each of the shapes of `MemoryShapes`, with a nested and an inverted
range, unknown lines, two definitions of one name and an ignored file, and a list of
three in which the share of a file is one, so that there are places that no share
claims, and several files that would have them.
Symmetry of the two runs.
Deadlock is not checked: the retrievals of a behaviour are bounded.

**exploration.** Eight configurations: every judge mode, both backends, with and
without the loop and providers, a budget of two tokens and none, two or three turns
of the loop. Six rankings, on each side of each threshold and empty, and one whose sole
trusted symbol is the third, which an edit removes and a cut leaves out; eight replies, each
with a way to go wrong (an error, an empty answer, text, a lone call, calls without
ids, arguments of another tool, a path out of the repository, a bad finding among good ones);
three opinions of the judge; two states of the files, in one of which a cited file
is shorter and another gone, and one edit. With ids that are unique or equal to the
tool's name, repeated ids occur. Rejections are limited to one
(two in the code), candidates shown to three and offline findings to two, so that what
the run has exceeds each of them. Deadlock is checked.

**provisioning.** Two processes for commands of all kinds, four scenes with two to
five commands each, one fault, one kill, one binary put in place by a user, one
edit of the agent file and of the configuration each. Two updaters are enough for one to overtake
the other between look and installation; five commands for an installation,
its failure and an uninstallation around another. The memory binary has two
releases, with a checksum and without, and may be missing, behind or ahead. Another
integration starts its own by a path or by the bare name `cbm`, which a server's command
may be as well, on Linux or on another system, and may lose it while it runs.
Symmetry of the processes. Deadlock is not checked: commands are bounded.

Every property of the passing runs has a mutant in `PROJECT.json`, a change of a
mapped definition under which TLC finds the property violated.

## 4. Fairness

Four specifications have it.

`QueryCache!FairSpec` is weakly fair to the steps of a run that has begun:
tokio polls what is ready, and probes and the store end by timeout or error.
It is not fair to `Begin` (nothing makes a client call), nor to the reads of an
exploration, which may stop at any point.

`DiskCache!FairSpec` is weakly fair to beginning and continuing tasks, and to
the end of a cache clear. It is used for one property, whose refutation is the
stronger for it: explorations keep being completed, and the store stays dead.

`IndexFreshness!FairSpec` is weakly fair to the steps of each run, calls having a
timeout, and to `Start`: a name that nobody uses has no occasion to heal, so
`NameHeals` is about repositories that are asked about again. It is not fair to
failures, edits, or other clients.

`ExplorationRun!FairSpec` says that a run takes steps until it is over, which is
weak fairness of its step as a whole: every wait of a run has a timeout of its own
(the provider's, the judge's, the memory client's), and tokio polls it. Nothing is
assumed of which step, or of what the model answers.

## 5. Proofs

`tlapm` checks all of the following for every value of the constants that
satisfies the modules' assumptions, all of which TLC evaluates in the runs. Most
say of which type a constant is. The others:

| assumption | says | because |
|---|---|---|
| `CommitsHoldTrees`, `MarksAreNoContents`, `UnknownIsDistinct`, `NoneIsNoValue` | a commit is a tree; marks differ from data | |
| `UnknownIsNoStamp`, `MissingIsNoData` | the marks for an absent value are no data | options in the code |
| `SomeModel` | some model is configured | `validate_with_env` asks for one |
| `TasksBelongToProcs`, `BudgetIsPositive`, `LengthsAreNats`, `LeftoversAreFinite`, `FilesAreFinite` | a task has one process; the store's budget is not nothing; a result has a length in bytes; directories and repositories are finite | a budget of zero opens no store (`DiskCache::open`) |
| `ConfigsAreValid` | a run's configuration is one that `Validate` lets pass | servers do not start with another |
| `PlainIsPlain`, `PathsAreOrdered` | a path has no second leading "./"; paths have an order in which no two are equal | paths are compared by components; listings are sorted by path |
| `DisksAreTyped` | a tree has finitely many paths, and with a path its plain form | one file under both names |
| `RepliesAreTyped` | what the model reports in a finish call is text of its own, not cut from a file | it comes out of the reply's JSON |
| `IdsNameTools` | calls of one id are calls of one tool | providers give a call an id of its own, or the tool's name |
| `OpinionsAreTyped` | the judge has an opinion of every candidate it may be asked about | a state without a score is an error of `score` |
| `TopIsNat` | the cap of a list and of the tokens of a leg are numbers | |
| `QueriesAreTyped` | a query is a list of words, each a list of segments | |
| `FindingsAreTyped` | what a leg's answer is decoded to is a list of findings | `Vec<Finding>`, by its type |
| `PathsAreFiles` | where a process looks for its configuration there may be a file | every path can be opened or is not found |
| `AnswersAreTyped` | names are texts with numbers behind; of a command and an endpoint the wizard's user gives one | `setup.rs` asks "1 or 2", and again if the endpoint is blank |
| `OneProcessEach` | servers and consoles are the same processes | one program, which its arguments make one or the other |

What the run of the same property shows on a small instance, the theorem shows for
all of them. In each case the property alone is not inductive.

**Capped maps** (first in `QueryCacheProofs`): `CappedTypeOK`,
`CappedQueue`, `CappedBound`. The inductive invariant `MapInv` says that the
map `Fits`: the queue enumerates the domain without repetition, and so its length
is the number of entries. Only because the queue has no dead key does evicting its
head shrink the map. The lemmas state this for `Insert`, `Remove` and `Replace`
once.
`CappedEvictsOldest` needs in addition that the queue is sorted by the time at which
its keys became resident, and that none of these lies in the future (`Aged`): only
the head can be evicted, and it is the oldest.

**Query cache** (`QueryCacheProofs`):

- `QueryCacheTypeOK`, in both modes, from `TypeInv`: shapes, plus "every entry
  in L1, on disk or held by a run is an entry", which has to range over all three
  because entries travel between them, and "a run past the walk has a
  fingerprint".
- `StrictServesFresh`, `StrictLabelsKeepBirthTree`, `StrictLabelsMatchAnswers`,
  for `KeyMode = "strict"`, from `StrictInv`: every entry's label describes the
  tree of its birth and, if it was born quiet, quotes that tree (`SoundEntry`);
  the same of memo cells under their key (`SoundCells`); what a quiet run knows
  of the repository is true (`RunsKnow`); and an entry found valid describes the
  run's tree even if the caches have moved on (`ValidIsSameTree`). The last is
  what makes the relabelling race harmless in strict mode: a compare-and-swap
  that hits another entry of the same label hits one for the same tree.
- `DropSparesFreshEntry`, in both modes: an entry in doubt has a label other
  than the run's (`DoubtedIsForeign`), so a compare-and-delete with the doubted
  label cannot hit one with the run's. The property is an action property; it
  follows from the invariant and from `OnlyDropReadsOn`, that no other step
  goes from `drop` to `readDisk`.

- `LoneRunsServeFresh` and `LoneRunsLabelRightly`, in both modes, under `OneRunEach`:
  each process does one exploration at a time, while any number of processes share the
  store. From `LoneInv`: an entry has stamps of all the files it quotes or of none,
  and none from the future; a file whose stamp has not moved since a quiet exploration
  reads as quoted; and an entry relabelled by quiet runs only is right for its label
  (`SteadyEntry`). `JudgedIsThere` says that what a run judges is still what memory
  holds when it relabels. With two explorations in one process that is false: the
  relabelling race of section 6 breaks both properties, and is why the theorems have the
  hypothesis.

**Index refresh** (`IndexFreshnessProofs`), from one invariant with two halves:

- `MarksVouch`, with `RunKnows`: while nothing moves under a run, its fingerprint is of
  the tree, the changes it was told are all there are, and the index it had built is
  there. A run told of no change, or shown coverage of all of them, leaves a mark that is
  right; an answer in an unknown shape counts neither as one nor the other.
- `UpToDateIsTimely`, with `RunIsTimely` and `ReindexedIsTimely`: every time that a run
  or the process remembers of an index is in the past and not after its last refresh,
  whoever has lost or rebuilt it in between. That is all that a decision compares.

**Persistent store** (`DiskCacheProofs`), all from `Shape`, which says what each file
and each task can hold:

- `StoreImplementsMap`: `DiskCache` implements `LossyStore`. The initial states map
  to initial states, and each step of a task is a step of the map or none: most
  are `Lose` or a stutter, a renamed file is a `Put` under its key, which loses
  whatever other key shares the file, a file read is a `Get`, a touch delivers it. Temp
  files and other versions' directories are invisible to the map, which is why the
  file name has to carry the version and the temp file a name of its own.
- `FailedPutsTidyUp`, from itself: a temp file is where its task will look for it,
  or among the strays. A removal that is refused makes it one of these, no other step
  does but a death.
- `NewerStays`, with `ListsOwn` and `Unlisted`: a listing holds files of the sweeper's
  own version, and only sweeps have one.
- `SweepsKeepTally`, with `Countable` (the store and every listing are finite) and
  `Tallied`. Bytes are pairs of a path and a number, so that a sum of lengths is the
  cardinality of a set and needs no induction. While a sweep is calm (`Reckoned`), no
  file of its version is longer than it was listed; those it has not listed are
  names it has still to look at; and its total is at least the bytes that are in the
  store together with those that are listed and not removed. A file listed and then
  removed by another keeps its bytes in that set until the sweep comes to it, and is not
  subtracted.

**Provider router** (`ProviderRouterProofs`):

- `DailyQuotaRests`. A request already in flight could shorten the deadline;
  `QuotaInv` adds that whoever waits for a model that is out of quota is `late`, until
  one of these is limited.
- `NoModelIsForgotten` and `ConversationsStick`, from `TourInv`: a tour stops at the
  offsets of its entry in turn, then at the next entry that has a model (found by the
  least-number principle), and `refused` is the set of models whose stop it has
  passed. Every model has exactly one stop, because the rotation is a bijection of
  the offsets; so a tour past its last stop has refused them all. That
  the first answered stop of two tours of one seed is the same, unless a model was refused, is
  the second theorem.

**Provisioning** (`ProvisioningProofs`):

- `InstalledStaysWhole` and `UpdatesGoForward`, from `UpdaterInv`: shapes, temp
  files fit what was fetched, a task that has tried a binary carries a whole one, and
  it knows the version it looked at unless someone has put a file there since.
- `ServersFindTheDaemon`, from `FollowsDaemon`: there is one daemon, whatever comes and
  goes; a server that had it in sight goes by its path until it connects, and one that
  had others only by one of theirs.
- `AgentHasItsServer`, from `RegisteredFirst`: while nothing broke off or
  overlapped, one command is at work at most, it has registered before it
  looks at the agent file, and between commands our file means a registration. A command
  that gets through its call of `claude` while no other is at work restores that.
- `ClearIsNotMisled`, from `StoresAreTaken`: what a server or a clear uses was
  computed by one function of the file it read and where it was started.
- `WhatIsValidStarts`, from `ConsolesAreSound` and `FilesAreSound`: who runs, or is about
  to write, holds a configuration that is valid in its own environment, and who asks has
  detected a provider. The property alone says nothing of the steps between asking and
  the check. `WizardIsValid` takes the wizard's configuration through every check. No
  two names clash because `UniqueName` finds a new one (`UniqueNameIsNew`): of one more
  numbers than there are names in use, one is free, by the pigeonhole principle; and the
  names are a recursive function, shown to have a value first (`NamingExists`).
  `ValidBuilds` goes the other way: whatever made building fail made a check fail, but
  for the two provisos. The file that a server checks is the one it builds from, whoever
  edits meanwhile.

**Exploration** (`ExplorationProofs`). The invariants build on each other; the first,
`Costs`, has the shapes of program counter and verifiers.

- `BudgetAlwaysBounds` from `Costs`, which counts calls against turns and separates
  those begun with the budget spent.
- `OfflineAsksNobody` and `ShadowIsNotHeard` from `Heard`, which says for each place
  in the program who can have been asked by then.
- `ScoresAreWhole` from `Judged`: each state that is waiting, under way or
  answered belongs to one call, and has its own candidate's opinion in its place,
  in whatever order answers come. The states are the candidates with a
  line, in order, so that a place among the states leads back to one candidate.
- `CitationsExist` from `Located`: every location that may still be answered (the
  verifiers', the loop's) lies in a file of a tree seen during the run; what the
  model reported was cut there. It follows a location from the check against the
  disk through snapping, clamping, tidying and cutting.
- `SoleSymbolIsTheAnswer` from `Sole`, with `FindingsAreFound` and what `Located` rests
  on: on the route of one trusted symbol, the findings of the early answer hold one at
  that symbol's line, in a file that has had it. A candidate that
  fell out at the disk or by the cut authorises nothing (`SoleAtFirst`), and settling
  the verifiers leaves the answer alone (`SoleKept`).
- `DuplicatesAlwaysFree` from the same: the keys of what is kept are those of what was
  found, each once, so that the number of one is the number of the other; the proof is a
  bijection between positions and keys, and survives the cut.
- `NothingShownIsLost` from `Told`: the key of each finding shown in any message of the
  conversation is among the keys accumulated.
- `CallsAreAnswered` from `Talking`: until the run is over its conversation is `Paired`,
  each message with calls followed by exactly their results, in the order in which the
  calls finished. Whatever is paired is what a provider accepts once the adjacent
  results are one message, with or without the brief in front.
- `BriefAlwaysFits` from `HasRoom`: after each line the text so far has room for
  the break behind it. Rounding the text and a line up apart costs at least what
  rounding up the whole does, which is why counting line by line never overruns.

**Retrieval** (`RetrievalProofs`):

- `MemoTellsNoTales`, from `Truth`: each cell of the memo and each leg of a run holds
  what the leg finds in some tree that was there meanwhile; `LegKeyDecides` says that
  legs with one key find the same. Its hypothesis `ShapesAreRead`, that decoding finds
  the same hits in every shape of an answer, is about the folds of `MemoryRows`. It is
  not proved, but TLC evaluates it for the answers of the run, in each of their shapes
  (`TheseShapesAreRead` in `MCRetrieval`): it fails there if a module's end or a
  group's prefix is misread.
- `ListsAreApart`, `FilesAreListedFairly` and `UniqueSparesTheModel` have no hypothesis.
  `TrueHits` is `Truth`, and that whatever a leg or the memo has is hits. The rest
  follows the hits of one ranking through its pipeline, in `ListingIs`:
  - *Sorting* reorders (`Reorders`), by the place of a hit (`SortedByPlace`). Since the
    paths are numbered, the comparisons are lexicographic ones of numbers.
  - *Merging* compares a hit with the last candidate only. That suffices because of
    `IsMergedTo`: the first so many hits, in the order of their places, are
    made into candidates that lie one before the other, each hit lies in one, and
    the last candidate begins no later than the last hit, so that the next hit can
    touch no other. What a candidate `Holds` of a hit (range, exactness, symbol) is
    what the later theorems need.
  - *Cutting* takes positions (`IsCut`): at least as many as the list may have, or all;
    and it gives no file more than its share unless each hit that was left
    out is of a file that has its own.
  - *Trust*: a trusted hit is held by a candidate of its range. If that carries the
    same last name, it is trusted itself, and so is the sole one (`SoleIs`).

Filters and sorts on the way of these proofs are defined by ranks: `ByRank` takes
what has the ranks 1, 2 and so on, `InOrder` ranks positions by how many come before,
`Picked` takes a sequence at such positions. The operators of the library do the
same by recursion over their argument, which the provers do not look into. From the
least-number principle, the lemmas `InOrderLists` and `PickedIs` show once that these
list exactly what they are given, in its order. `Flattened` does the same for
`FlattenSeq`, `TogetherExists` for the length of a brief's lines and `MergingExists` for
merging, which is a recursive function: the recursive definition is shown to have a
solution before it is used. Where a proof then needs induction, it takes a least
counterexample. The merging of adjacent results and the sections of a brief are
defined by position, where the code goes through a list with an accumulator.

Only model-checked:

- `ShapesAreRead`, the hypothesis of `MemoTellsNoTales`, which is about folds whose
  accumulator has the state of a decoder (an assumption of `MCRetrieval`, evaluated);
- liveness (`SettlesOnHits`, `NameHeals`, `Ends`), out of the prover's reach.

## 6. Where the code and its comments disagree

Two runs check one property each that the repository states of itself, and TLC
finds it violated by what the code does. `PROJECT.json` has the quotations.

- **query_cache_late_stamp** (`agent/agent.rs:1562`). Paths mode stamps the quoted
  files when the answer is stored, not when they are read. An edit in between is
  stamped as if it were what was read, and a repository at rest is served text that is
  no longer there. Where `ServedFreshByStamps` says `quiet`, it is this window.
- **disk_cache_clear** (`agent/disk_cache.rs:441`). `cache clear` removes the
  version directory, which only `open` creates. A running server's writes fail
  from then on, until it is restarted.

Others became visible while modelling. Where a property touches one, it has a
provision that names it, so that the property holds beside it:

- *Relabel race* (`agent/cache.rs:306`). In paths mode, a run
  judges an entry valid by its stamps; a slower run, started under the same
  label, overwrites it with what it had read before an edit; the
  compare-and-swap sees the label it expects and relabels that one, against the comment
  at 296-298. `LabelMatchesAnswer` holds in strict mode, and in paths mode only if a
  process explores one at a time (`LoneRunsLabelRightly`).
- *Lockout overwritten* (`core/llm.rs:496`). Of two requests that wait for one
  model, the first learns that the daily quota is spent, the second gets an ordinary
  rate limit, and its flat cooldown overwrites the lockout until midnight, against the
  comment at 481-483. This is `raced` in `BannedUnlessRaced`, which excepts this
  overwriting and no other.
- *Shares* (`core/retrieval.rs:445`). Places that no file's share claims go
  to the best hits whatever their files, so that a file exceeds its share while another
  has hits left out; the comment at 404-410 has the other's hits first.
  `FilesShareTheList` is what holds: none exceeds its share while another has less than
  its own.
- *Binary overwritten* (`mcp/update.rs:123`). The updater looks for a binary of
  unknown version before it downloads, not before it replaces: one that a user puts
  there meanwhile is overwritten, against the comment at 130-133, as is one that
  another updater has installed. `NeverDowngrades` compares with what was there at
  the look.
- *Shadow after a failure* (`mcp/install.rs:352`). If `mcp add` fails after
  `mcp remove`, the earlier agent file stays without its server, against the comment at
  299-302. This is `broken` in `ShadowsOnlyWithServer`, until a command goes through by
  itself.
- *Revert* (`agent/agent.rs:633`). In strict mode
  the label is the fingerprint of the run's start; a run that reads a file while
  an edit is in place that is taken back later leaves an answer that is served on a
  tree that never held it. It is a window of seconds, and what `quiet` provides
  for; the theorems show that strict mode has no other.
- *Confident exit* (`agent/agent.rs:826`). The "confidence" route authorises
  whatever findings survive; the comment at 780-792 has both routes ask for a
  trusted exact symbol.
- *Threshold* (`agent/agent.rs:1398`). When what the judge selected does not survive
  the check against the disk, the offline answer still says that no candidate
  reached the judge's threshold.
- *Caveat* (`agent/agent.rs:742`). A note that a run carries is to be surfaced in
  the answer; the synthesis after a failed forced finish drops it.
- *Time of an index* (`memory/backend.rs:1209`). An index found under an alias of
  the root is taken to be as old as the process's last index of the root itself.
- *Unique symbol* (`core/retrieval.rs`). Of two definitions with one bare name the cut
  by `top_k` or by file may remove one, and the other counts as unique: the proviso
  of `UniqueIsUnambiguous`.
- *Empty cells* (`memory/backend.rs`, `cell_text`). A row with a null file makes a finding
  with an empty path, a null qualified name an empty note in place of none.
- *Twenty lines* (`agent/pipeline.rs:237`). The file leg cuts lines to 20 before it
  collapses them to files, so that one chatty file hides others.
- *Replacing an agent* (`mcp/install.rs:390`). The message advises `--uninstall`, which
  leaves a changed file alone, and a user's file that is no UTF-8 is overwritten
  although only matching or absent ones are to be (377-384).
- *Usable proxies* (`core/config.rs:109`). A URL that validation calls usable may fail
  when the client is built, as does the candle backend in a build without it: the
  two provisos of `ValidMeansItStarts`.
- *Judge's checkpoint* (`crates/repo-explorer-judge`). Loading it is not under the
  timeout; a failed load is kept until a restart; a job whose caller has given
  up is still computed before the next.

## 7. What is not modelled, and why

- *Offline tools* (`crates/repo-explorer-datagen`, `eval/`, `train/`): batch
  jobs over files, deterministic given their input, a third of the repository's
  lines. There is no interleaving or failure that TLC could add to a test.
- *Data conversion*: TOML, JSON on the wire, rendering, wording of prompts and notes,
  regular expressions, glob syntax, normalisation of paths letter by letter. Paths,
  tokens and texts are model values with the facts that the code finds out about them.
- *Inference*: a judge's scores and a model's replies are free choices.
- *Transport*: the MCP connection, the child process behind the memory client and its
  reconnection, HTTP. A call answers, fails or is lost.
- *Git*: untracked files are digested by a hash whose cache goes by stat; staged and unstaged
  states are told apart by the code, not here; submodules and symbolic links
  are left out of `RepoState`. Ignored files and names that are no UTF-8 are outside
  the fingerprint although search may show them (`search/git_probe.rs:174`).
- *Time*: a stamp that does not move with a write (same length, same clock tick,
  `agent/disk_cache.rs:86`) is left out; so is a suspended machine. In
  `ProviderRouter`, deadlines and the day run on one clock.
- *Sizes*: a file gets and loses its bytes at once, and one that is unfinished or damaged
  has none. Several sweeps at once may
  evict more than necessary together (`agent/disk_cache.rs:346`), and a process
  sweeps once in its life (221), which its comment accepts.
- *Keys*: a query of the cache is a model value; that its key has the
  configuration in it (`agent/agent.rs:592`) is not a property of one process,
  whose configuration never changes.
- *Memos*: the tool memo is over-approximated in `ExplorationRun` (a call may see any
  state of the file since the run began), and the leg memo is unbounded in `RetrievalLegs`:
  a capped map can only miss more often. The brief's cache is left out.
- *The wizard* overwrites a configuration that was created after it asked
  (`mcp/setup.rs:209`), and does not write atomically: a reader in between is
  modelled (`Startup`), two wizards at one file are not a property.
- *Metrics and logs*.

## 8. What is left

- `QueryCache` over `LossyStore` in place of its atomic disk. The refinement
  makes it sound to replace one by the other: an entry is found under its key or
  not at all, and the model lets the disk lose any.
- The child process behind the memory client, with its reconnection.

## 9. Running the checks

    tlc -workers 2 -config QueryCacheStrict.cfg MCQueryCache
    tlapm QueryCacheProofs.tla

`PROJECT.json` names the module of every configuration. The longest
runs, `retrieval` and `query_cache_strict`, take about three minutes with two
workers; the longest proofs, `ExplorationProofs`, less than ten.

------------------------------- MODULE DiskCache -------------------------------
(***************************************************************************)
(* The files behind the persistent result cache (disk_cache.rs): one file  *)
(* per query, named by a hash of its key, replaced by rename, touched by a *)
(* hit, swept by age, shared without a lock by the processes of several    *)
(* binary versions, and cleared from a shell.                              *)
(*                                                                         *)
(* A task is one put or get of a process, on a blocking thread of its own. *)
(* Files have a length in bytes, which they get and lose at once, and the  *)
(* times of their last change (mtimes) are kept as the order they are in.  *)
(***************************************************************************)
EXTENDS Naturals, Sequences, FiniteSets

CONSTANTS
  Procs,      \* server processes
  VersionOf,  \* VersionOf[p]: the SCHEMA_VERSION of the binary p runs
  Leftovers,  \* other versions that have left a directory, with a file each
  Tasks,      \* puts and gets that may be in flight at the same time
  ProcOf,     \* ProcOf[t]: the process of task t
  Keys,       \* query keys
  Stems,      \* file stems
  StemOf,     \* StemOf[k]: the hash of k
  Values,     \* cached results
  None,       \* no result
  SizeOf,     \* SizeOf[x]: the bytes of a file with result x
  Garbage,    \* the content of a file that is no whole entry: no bytes
  MaxBytes,   \* the budget, persistent_max_bytes
  MaxMishaps  \* bounds the errors, damages, process deaths and clears of a behaviour

ASSUME VersionsAreNats == VersionOf \in [Procs -> Nat] /\ Leftovers \subseteq Nat
ASSUME LeftoversAreFinite == IsFiniteSet(Leftovers)
ASSUME TasksBelongToProcs == ProcOf \in [Tasks -> Procs]
ASSUME HashOfKeys == StemOf \in [Keys -> Stems]
ASSUME BudgetIsPositive == MaxBytes \in Nat \ {0}
ASSUME LengthsAreNats == SizeOf \in [Values -> Nat]
ASSUME NoneIsNoValue == None \notin Values

VARIABLES
  dirs,      \* the versions v whose directory results/v<v> exists
  files,     \* the files there are: from paths to contents
  age,       \* the mtimes, oldest first: of each file its path, and of each file
             \* that task t's sweep has listed the note <<t, path>> of its mtime then
  strays,    \* history: the temp files that dead processes and refused removals left
  handle,    \* handle[p]: the store of p is "closed", "open" or "off"
  swept,     \* swept[p]: process p has swept the store, or is at it
  pc,        \* where each task is
  arg,       \* arg[t]: the key and value the task puts, or has got
  tmp,       \* tmp[t]: the serial of the task's temp file
  due,       \* due[t]: the names the task's sweep has still to look at
  listing,   \* listing[t]: the files it has listed and not come to, with their bytes
  total,     \* total[t]: the bytes of the store as that sweep reckons them
  calm,      \* history: calm[t]: since the sweep opened its listing no put was under way,
             \* and it was told the length of every file
  clearing,  \* a shell is in the middle of a cache clear
  mishaps    \* what counts towards MaxMishaps

folder == <<dirs, files, age, strays>>
sweeps == <<due, listing, total, calm>>
locals == <<pc, arg, tmp, sweeps>>
vars == <<folder, handle, swept, locals, clearing, mishaps>>

-----------------------------------------------------------------------------

Running == {VersionOf[p] : p \in Procs}

Versions == Running \cup Leftovers

Version(t) == VersionOf[ProcOf[t]]

\* A path is a version directory and, in it, an entry or a temp file.
EntryPath(v, k) == <<v, "entry", StemOf[k]>>
TempPath(v, serial) == <<v, "temp", serial>>

OwnTemp(t) == TempPath(Version(t), tmp[t])

Writes(t) == pc[t] \in {"fill", "rename"}

\* The task has begun to list the store for a sweep.
Sweeps(t) == pc[t] \in {"list", "evict"}

Existing == DOMAIN files

In(v) == {path \in Existing : path[1] = v}

\* The length of a file with content c.
Bytes(c) == IF c = Garbage THEN 0 ELSE SizeOf[c.value]

\* A serial that no temp file has nor any task writes under: the names of temp
\* files hold the process id and a number the process counts up.
FreshSerial(v) ==
  CHOOSE n \in 0..Cardinality(Existing) + Cardinality(Tasks) :
    /\ TempPath(v, n) \notin Existing
    /\ \A t \in Tasks : Writes(t) => tmp[t] # n

\* The mtimes without those of the files, and the notes, in P.
Without(P) == SelectSeq(age, LAMBDA entry : entry \notin P)

\* The files of P are gone, those of them that exist.
Gone(P) ==
  /\ files' = [path \in Existing \ P |-> files[path]]
  /\ strays' = strays \ P

\* They are unlinked.
Unlinked(P) == Gone(P) /\ age' = Without(P)

\* A file comes to have content c, and is now the youngest.
Written(path, c) ==
  /\ files' = [q \in Existing \cup {path} |-> IF q = path THEN c ELSE files[q]]
  /\ age' = Append(Without({path}), path)
  /\ strays' = strays \ {path}

Goto(t, from, to) == pc[t] = from /\ pc' = [pc EXCEPT ![t] = to]

\* The tasks in T are over, and with them what they held.
Over(T) ==
  /\ pc' = [t \in Tasks |-> IF t \in T THEN "idle" ELSE pc[t]]
  /\ arg' = [t \in Tasks |-> IF t \in T THEN None ELSE arg[t]]
  /\ tmp' = [t \in Tasks |-> IF t \in T THEN 0 ELSE tmp[t]]
  /\ due' = [t \in Tasks |-> IF t \in T THEN {} ELSE due[t]]
  /\ listing' = [t \in Tasks |-> IF t \in T THEN << >> ELSE listing[t]]
  /\ total' = [t \in Tasks |-> IF t \in T THEN 0 ELSE total[t]]
  /\ calm' = [t \in Tasks |-> t \in T \/ calm[t]]

Ready(t) == pc[t] = "idle" /\ handle[ProcOf[t]] = "open"

Fault == mishaps < MaxMishaps /\ mishaps' = mishaps + 1

Notes(t) == {<<t, path>> : path \in DOMAIN listing[t]}

-----------------------------------------------------------------------------
(* Processes.                                                              *)

\* DiskCache::open creates the directory.
Open(p) ==
  /\ handle[p] = "closed"
  /\ handle' = [handle EXCEPT ![p] = "open"]
  /\ dirs' = dirs \cup {VersionOf[p]}
  /\ UNCHANGED <<files, age, strays, swept, locals, clearing, mishaps>>

\* It cannot: the process goes without a store.
OpenFails(p) ==
  /\ handle[p] = "closed"
  /\ handle' = [handle EXCEPT ![p] = "off"]
  /\ Fault
  /\ UNCHANGED <<folder, swept, locals, clearing>>

\* The process dies in the middle of whatever it is doing.
Kill(p) ==
  /\ Fault
  /\ handle[p] # "closed"
  /\ handle' = [handle EXCEPT ![p] = "closed"]
  /\ swept' = [swept EXCEPT ![p] = FALSE]
  /\ LET dying == {t \in Tasks : ProcOf[t] = p} IN
     /\ strays' = strays \cup (Existing \cap {OwnTemp(t) : t \in {u \in dying : Writes(u)}})
     /\ age' = Without(UNION {Notes(t) : t \in dying})
     /\ Over(dying)
  /\ UNCHANGED <<dirs, files, clearing>>

-----------------------------------------------------------------------------
(* DiskCache::get.                                                         *)

\* What reading the file of k yields: a foreign entry and garbage are a miss.
Answer(v, k) ==
  LET path == EntryPath(v, k) IN
  IF path \in Existing /\ files[path] # Garbage /\ files[path].key = k
  THEN files[path].value
  ELSE None

\* Mutant of GetHit: the key in the file is not compared with the key asked for.
GetHitByStem(t, k) ==
  /\ Ready(t)
  /\ \E j \in Keys :
       /\ StemOf[j] = StemOf[k] /\ Answer(Version(t), j) # None
       /\ arg' = [arg EXCEPT ![t] = <<k, Answer(Version(t), j)>>]
  /\ pc' = [pc EXCEPT ![t] = "touch"]
  /\ UNCHANGED <<folder, handle, swept, tmp, sweeps, clearing, mishaps>>

\* The file is read. A hit goes on to touch it.
GetHit(t, k) ==
  /\ Ready(t)
  /\ Answer(Version(t), k) # None
  /\ pc' = [pc EXCEPT ![t] = "touch"]
  /\ arg' = [arg EXCEPT ![t] = <<k, Answer(Version(t), k)>>]
  /\ UNCHANGED <<folder, handle, swept, tmp, sweeps, clearing, mishaps>>

\* Garbage is a miss, and goes on to be removed; any other miss is the end of it.
GetGarbage(t, k) ==
  /\ Ready(t)
  /\ EntryPath(Version(t), k) \in Existing
  /\ files[EntryPath(Version(t), k)] = Garbage
  /\ pc' = [pc EXCEPT ![t] = "heal"]
  /\ arg' = [arg EXCEPT ![t] = <<k, None>>]
  /\ UNCHANGED <<folder, handle, swept, tmp, sweeps, clearing, mishaps>>

ArgPath(t) == EntryPath(Version(t), arg[t][1])

\* A hit makes whatever file has the name by now the youngest.
Touch(t) ==
  /\ pc[t] = "touch"
  /\ ArgPath(t) \in Existing
  /\ Written(ArgPath(t), files[ArgPath(t)])
  /\ Over({t})
  /\ UNCHANGED <<dirs, handle, swept, clearing, mishaps>>

\* Garbage is removed, or whatever file has the name by now.
Heal(t) ==
  /\ pc[t] = "heal"
  /\ Unlinked({ArgPath(t)})
  /\ Over({t})
  /\ UNCHANGED <<dirs, handle, swept, clearing, mishaps>>

\* Either fails, or finds no file; neither matters.
LeaveIt(t) ==
  /\ pc[t] \in {"touch", "heal"}
  /\ Over({t})
  /\ UNCHANGED <<folder, handle, swept, clearing, mishaps>>

-----------------------------------------------------------------------------
(* DiskCache::put and write_entry.                                         *)

\* The temp file is created, empty. Without the directory the call comes to nothing.
BeginPut(t, k, x) ==
  /\ Ready(t)
  /\ Version(t) \in dirs
  /\ pc' = [pc EXCEPT ![t] = "fill"]
  /\ arg' = [arg EXCEPT ![t] = <<k, x>>]
  /\ tmp' = [tmp EXCEPT ![t] = FreshSerial(Version(t))]
  /\ Written(TempPath(Version(t), FreshSerial(Version(t))), Garbage)
  /\ calm' = [u \in Tasks |-> calm[u] /\ (Sweeps(u) => Version(u) # Version(t))]
  /\ UNCHANGED <<dirs, handle, swept, due, listing, total, clearing, mishaps>>

ArgEntry(t) == [key |-> arg[t][1], value |-> arg[t][2]]

\* The temp file is written, under its name or, once unlinked, under none.
Fill(t) ==
  /\ Goto(t, "fill", "rename")
  /\ IF OwnTemp(t) \in Existing
     THEN Written(OwnTemp(t), ArgEntry(t))
     ELSE UNCHANGED <<files, age, strays>>
  /\ UNCHANGED <<dirs, handle, swept, arg, tmp, sweeps, clearing, mishaps>>

\* Mutant of GiveUp: the temp file is forgotten.
WalkAway(t) ==
  /\ UNCHANGED folder
  /\ Over({t})
  /\ UNCHANGED <<handle, swept, clearing>>

\* A failed write takes its temp file with it.
GiveUp(t) ==
  /\ Unlinked({OwnTemp(t)})
  /\ Over({t})
  /\ UNCHANGED <<dirs, handle, swept, clearing>>

\* The removal fails too, which is ignored: the temp file stays.
LeaveTemp(t) ==
  /\ strays' = strays \cup (Existing \cap {OwnTemp(t)})
  /\ Over({t})
  /\ UNCHANGED <<dirs, files, age, handle, swept, clearing>>

\* The disk is full, or the rename is refused.
WriteFails(t) ==
  /\ Writes(t)
  /\ Fault
  /\ GiveUp(t) \/ LeaveTemp(t)

\* The temp file is gone: swept or cleared meanwhile.
RenameMisses(t) ==
  /\ pc[t] = "rename"
  /\ OwnTemp(t) \notin Existing
  /\ GiveUp(t)
  /\ UNCHANGED mishaps

\* The temp file takes the entry's name, keeping its own age.
Renamed(from, to) ==
  /\ files' = [path \in (Existing \ {from}) \cup {to} |->
                 IF path = to THEN files[from] ELSE files[path]]
  /\ LET kept == Without({to})
     IN  age' = [i \in 1..Len(kept) |-> IF kept[i] = from THEN to ELSE kept[i]]
  /\ UNCHANGED strays

\* The entry is in place. The first put of a process goes on to sweep the store.
Rename(t) ==
  /\ pc[t] = "rename"
  /\ OwnTemp(t) \in Existing
  /\ Renamed(OwnTemp(t), ArgPath(t))
  /\ swept' = [swept EXCEPT ![ProcOf[t]] = TRUE]
  /\ IF swept[ProcOf[t]]
     THEN Over({t})
     ELSE /\ pc' = [pc EXCEPT ![t] = "retire"]
          /\ arg' = [arg EXCEPT ![t] = None]
          /\ tmp' = [tmp EXCEPT ![t] = 0]
          /\ UNCHANGED sweeps
  /\ UNCHANGED <<dirs, handle, clearing, mishaps>>

-----------------------------------------------------------------------------
(* sweep.                                                                  *)

\* Mutant of Superseded: every other version is superseded.
Foreign(v, t) == v # Version(t)

\* A version directory is superseded if it is strictly older.
Superseded(v, t) == v < Version(t)

\* Superseded directories go, file by file.
RetireFile(t) ==
  /\ pc[t] = "retire"
  /\ \E path \in Existing : Superseded(path[1], t) /\ Unlinked({path})
  /\ UNCHANGED <<dirs, handle, swept, locals, clearing, mishaps>>

RetireDir(t) ==
  /\ pc[t] = "retire"
  /\ \E v \in dirs : Superseded(v, t) /\ In(v) = {} /\ dirs' = dirs \ {v}
  /\ UNCHANGED <<files, age, strays, handle, swept, locals, clearing, mishaps>>

\* Errors on the way are ignored. Then the directory is opened; there may be none.
BeginList(t) ==
  /\ Goto(t, "retire", "list")
  /\ Version(t) \in dirs
  /\ due' = [due EXCEPT ![t] = In(Version(t))]
  /\ calm' = [calm EXCEPT ![t] = \A u \in Tasks : Writes(u) => Version(u) # Version(t)]
  /\ UNCHANGED <<folder, handle, swept, arg, tmp, listing, total, clearing, mishaps>>

ListFails(t) ==
  /\ pc[t] = "retire"
  /\ (Version(t) \notin dirs /\ UNCHANGED mishaps) \/ Fault
  /\ Over({t})
  /\ UNCHANGED <<folder, handle, swept, clearing>>

\* The file is listed with its length, and its mtime is noted.
Listed(t, path) ==
  /\ listing' = [listing EXCEPT ![t] = [q \in DOMAIN @ \cup {path} |->
                                          IF q = path THEN Bytes(files[path]) ELSE @[q]]]
  /\ total' = [total EXCEPT ![t] = @ + Bytes(files[path])]
  /\ LET i == CHOOSE j \in DOMAIN age : age[j] = path
     IN  age' = SubSeq(age, 1, i) \o <<<<t, path>>>> \o SubSeq(age, i + 1, Len(age))

\* The sweep looks at the next name, or at one that has come since it opened the
\* directory. The file of that name may be gone.
Stat(t) ==
  /\ pc[t] = "list"
  /\ \E path \in due[t] \cup In(Version(t)) :
       /\ path \notin DOMAIN listing[t]
       /\ due' = [due EXCEPT ![t] = @ \ {path}]
       /\ IF path \in Existing THEN Listed(t, path) ELSE UNCHANGED <<listing, total, age>>
  /\ UNCHANGED <<dirs, files, strays, handle, swept, pc, arg, tmp, calm, clearing, mishaps>>

\* It is not told the file's length, and passes it over.
StatFails(t) ==
  /\ pc[t] = "list"
  /\ Fault
  /\ \E path \in due[t] : due' = [due EXCEPT ![t] = @ \ {path}]
  /\ calm' = [calm EXCEPT ![t] = FALSE]
  /\ UNCHANGED <<folder, handle, swept, pc, arg, tmp, listing, total, clearing>>

\* The listing is complete.
EndList(t) ==
  /\ pc[t] = "list" /\ due[t] = {}
  /\ IF total[t] > MaxBytes
     THEN pc' = [pc EXCEPT ![t] = "evict"] /\ UNCHANGED <<folder, arg, tmp, sweeps>>
     ELSE Over({t}) /\ age' = Without(Notes(t)) /\ UNCHANGED <<dirs, files, strays>>
  /\ UNCHANGED <<handle, swept, clearing, mishaps>>

Evicting(t) == pc[t] = "evict" /\ total[t] > MaxBytes /\ DOMAIN listing[t] # {}

\* The path has the oldest mtime on the list, which is without it next.
Comes(t, path) ==
  /\ \E i \in DOMAIN age : age[i] = <<t, path>> /\ \A j \in 1..(i - 1) : age[j] \notin Notes(t)
  /\ listing' = [listing EXCEPT ![t] = [q \in DOMAIN @ \ {path} |-> @[q]]]

\* Subtraction that stops at zero.
Less(m, n) == IF n <= m THEN m - n ELSE 0

\* The next file on the list goes; if it is gone already, that frees nothing.
Evict(t) ==
  /\ Evicting(t)
  /\ \E path \in DOMAIN listing[t] :
       /\ Comes(t, path)
       /\ Gone({path}) /\ age' = Without({path, <<t, path>>})
       /\ total' = [total EXCEPT ![t] =
                      IF path \in Existing THEN Less(@, listing[t][path]) ELSE @]
  /\ UNCHANGED <<dirs, handle, swept, pc, arg, tmp, due, calm, clearing, mishaps>>

\* Mutant of EvictFails: a file that could not be removed counts as removed.
EvictReckoned(t) ==
  /\ Evicting(t)
  /\ Fault
  /\ \E path \in DOMAIN listing[t] :
       /\ Comes(t, path)
       /\ age' = Without({<<t, path>>})
       /\ total' = [total EXCEPT ![t] = Less(@, listing[t][path])]
  /\ UNCHANGED <<dirs, files, strays, handle, swept, pc, arg, tmp, due, calm, clearing>>

\* It cannot be removed.
EvictFails(t) ==
  /\ Evicting(t)
  /\ Fault
  /\ \E path \in DOMAIN listing[t] : Comes(t, path) /\ age' = Without({<<t, path>>})
  /\ UNCHANGED <<dirs, files, strays, handle, swept, pc, arg, tmp, due, total, calm, clearing>>

EndSweep(t) ==
  /\ pc[t] = "evict"
  /\ ~Evicting(t)
  /\ Over({t})
  /\ age' = Without(Notes(t))
  /\ UNCHANGED <<dirs, files, strays, handle, swept, clearing, mishaps>>

-----------------------------------------------------------------------------
(* clear, from a shell, and damage.                                        *)

BeginClear ==
  /\ ~clearing /\ clearing' = TRUE
  /\ Fault
  /\ UNCHANGED <<folder, handle, swept, locals>>

ClearFile ==
  /\ clearing
  /\ \E path \in Existing : Unlinked({path})
  /\ UNCHANGED <<dirs, handle, swept, locals, clearing, mishaps>>

ClearDir ==
  /\ clearing
  /\ \E v \in dirs : In(v) = {} /\ dirs' = dirs \ {v}
  /\ UNCHANGED <<files, age, strays, handle, swept, locals, clearing, mishaps>>

\* All is gone, or a file that came meanwhile was in the way.
EndClear ==
  /\ clearing /\ clearing' = FALSE
  /\ UNCHANGED <<folder, handle, swept, locals, mishaps>>

\* A machine that goes down can leave a file without its content.
Damage ==
  /\ Fault
  /\ \E path \in Existing : files' = [files EXCEPT ![path] = Garbage]
  /\ UNCHANGED <<dirs, age, strays, handle, swept, locals, clearing>>

-----------------------------------------------------------------------------

\* What the other versions have left. No one reads it.
LeftPaths == {TempPath(v, 0) : v \in Leftovers}

Init ==
  /\ dirs = Leftovers
  /\ files = [path \in LeftPaths |-> Garbage]
  /\ age \in [1..Cardinality(Leftovers) -> LeftPaths]
  /\ \A i, j \in DOMAIN age : age[i][1] <= age[j][1] <=> i <= j
  /\ strays = {}
  /\ handle = [p \in Procs |-> "closed"]
  /\ swept = [p \in Procs |-> FALSE]
  /\ pc = [t \in Tasks |-> "idle"]
  /\ arg = [t \in Tasks |-> None]
  /\ tmp = [t \in Tasks |-> 0]
  /\ due = [t \in Tasks |-> {}]
  /\ listing = [t \in Tasks |-> << >>]
  /\ total = [t \in Tasks |-> 0]
  /\ calm = [t \in Tasks |-> TRUE]
  /\ clearing = FALSE
  /\ mishaps = 0

\* A task begins.
Begin(t) ==
  \E k \in Keys :
    \/ GetHit(t, k) \/ GetGarbage(t, k)
    \/ \E x \in Values : BeginPut(t, k, x)

\* What a task does once it has begun.
Proceed(t) ==
  \/ Touch(t) \/ Heal(t) \/ LeaveIt(t)
  \/ Fill(t) \/ WriteFails(t) \/ RenameMisses(t) \/ Rename(t)
  \/ RetireFile(t) \/ RetireDir(t)
  \/ BeginList(t) \/ ListFails(t) \/ Stat(t) \/ StatFails(t) \/ EndList(t)
  \/ Evict(t) \/ EvictFails(t) \/ EndSweep(t)

Clear == BeginClear \/ ClearFile \/ ClearDir \/ EndClear

Next ==
  \/ \E p \in Procs : Open(p) \/ OpenFails(p) \/ Kill(p)
  \/ \E t \in Tasks : Begin(t) \/ Proceed(t)
  \/ Clear
  \/ Damage

Spec == Init /\ [][Next]_vars

\* Explorations keep being completed, and what has begun goes on.
FairSpec ==
  /\ Spec
  /\ \A t \in Tasks : WF_vars(Begin(t)) /\ WF_vars(Proceed(t))
  /\ WF_vars(EndClear)

-----------------------------------------------------------------------------

\* The map the files amount to, and the answers that are on their way.
Kept == [vk \in Running \X Keys |-> Answer(vk[1], vk[2])]

Answered ==
  [t \in Tasks |-> IF pc[t] = "touch" THEN <<<<Version(t), arg[t][1]>>, arg[t][2]>> ELSE None]

Lossy == INSTANCE LossyStore
  WITH Clients <- Tasks, Keys <- Running \X Keys, store <- Kept, answer <- Answered

(***************************************************************************)
(* The files implement the map that the query cache takes them for: what a *)
(* get answers under a key is what was last put under that very key by a   *)
(* process of the same version, or nothing, whatever tasks race, fail or   *)
(* die on the way, whatever hashes collide, is swept or damaged            *)
(* (disk_cache.rs: "a reader either sees the whole old value or the whole  *)
(* new one"; "a collision is a miss, never a wrong answer").               *)
(***************************************************************************)
ImplementsLossyStore == Lossy!Spec

(***************************************************************************)
(* A temp file is being written by a task, or was left by a process that   *)
(* died at it or by a put that could not remove it: no other failure, no   *)
(* race with sweeps, clears and other writers, no death elsewhere leaves a *)
(* temp file behind (write_entry).                                         *)
(***************************************************************************)
TempsAreInUse ==
  \A path \in Existing : path[2] = "temp" /\ path[1] \notin Leftovers =>
    path \in strays \/ \E t \in Tasks : Writes(t) /\ OwnTemp(t) = path

(***************************************************************************)
(* A sweep never takes anything of a newer version ("wiping it would leave *)
(* both sides permanently cold", sweep): without a cache clear, a file of  *)
(* some version is removed on behalf of a process of that version or newer.*)
(***************************************************************************)
NewerVersionsSpared ==
  [][\A v \in Versions :
       (In(v) \ Existing') \cup ({v} \cap (dirs \ dirs')) # {} /\ ~clearing
         => \E t \in Tasks : Version(t) >= v /\ pc[t] # "idle"]_vars

\* The bytes of version v's files, each with the file it is in.
BytesIn(v) == UNION {{path} \X (1..Bytes(files[path])) : path \in In(v)}

(***************************************************************************)
(* A sweep that stops for being back under budget is right: the tally it   *)
(* keeps of one listing never falls below the bytes that are there,        *)
(* whatever touches, other sweeps, healing gets and clears do to the files *)
(* between the looks at them and after, unless a put adds to them or their *)
(* length is withheld ("evict oldest-by-mtime until the store is back      *)
(* under budget").                                                         *)
(***************************************************************************)
TallyCoversStore ==
  \A t \in Tasks : pc[t] = "evict" /\ calm[t] =>
    Cardinality(BytesIn(Version(t))) <= total[t]

(***************************************************************************)
(* A store that has lost its directory gets it back: writes fail without   *)
(* one, and "the next completed exploration simply tries again - which is  *)
(* what makes" a failure "recoverable within one long-lived session"       *)
(* (DiskCache::put).                                                       *)
(***************************************************************************)
WritesRecover ==
  \A p \in Procs :
    handle[p] = "open" /\ VersionOf[p] \notin dirs
      ~> handle[p] # "open" \/ VersionOf[p] \in dirs
=============================================================================

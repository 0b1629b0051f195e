---------------------------- MODULE DiskCacheProofs ----------------------------
(***************************************************************************)
(* The persistent store implements the map that its users take it for, and *)
(* its sweeps and temp files behave, for any processes, versions, tasks,   *)
(* keys, hashes and budgets, and any number of failures, deaths, damages   *)
(* and clears: proofs about DiskCache.                                     *)
(***************************************************************************)
EXTENDS DiskCache, FiniteSetTheorems, TLAPS

Content == [key : Keys, value : Values]

\* The locals of every task are there, what is about to be written is an entry,
\* and so is every file that is not garbage.
Shape ==
  /\ pc = [t \in Tasks |-> pc[t]] /\ arg = [t \in Tasks |-> arg[t]]
  /\ tmp = [t \in Tasks |-> tmp[t]] /\ due = [t \in Tasks |-> due[t]]
  /\ listing = [t \in Tasks |-> listing[t]] /\ total = [t \in Tasks |-> total[t]]
  /\ calm = [t \in Tasks |-> calm[t]]
  /\ \A t \in Tasks : Writes(t) => arg[t] \in Keys \X Values
  /\ \A path \in Existing : files[path] \in Content \cup {Garbage}

LEMMA ShapeAtFirst == Init => Shape
BY DEF Init, Shape, Writes, Existing

\* Unlinking files and ending tasks keeps the shape.
LEMMA GoneKeepsShape ==
  ASSUME Shape, NEW P, Gone(P)
  PROVE  \A path \in Existing' : files'[path] \in Content \cup {Garbage}
BY DEF Shape, Gone, Existing

LEMMA OverKeepsShape ==
  ASSUME Shape, NEW T, Over(T),
         \A path \in Existing' : files'[path] \in Content \cup {Garbage}
  PROVE  Shape'
BY DEF Shape, Over, Writes

LEMMA BeginKeepsShape ==
  ASSUME Shape, NEW t \in Tasks, Begin(t)
  PROVE  Shape'
<1>1. CASE \E k \in Keys : GetHit(t, k)
  BY <1>1 DEF Shape, GetHit, Existing, folder, sweeps, Writes
<1>2. CASE \E k \in Keys : GetGarbage(t, k)
  BY <1>2 DEF Shape, GetGarbage, Existing, folder, sweeps, Writes
<1>3. CASE \E k \in Keys, x \in Values : BeginPut(t, k, x)
  <2>1. PICK k \in Keys, x \in Values : BeginPut(t, k, x)
    BY <1>3
  <2>2. \A path \in Existing' : files'[path] \in Content \cup {Garbage}
    BY <2>1 DEF Shape, BeginPut, Written, Existing
  <2>3. \A u \in Tasks : Writes(u)' => arg'[u] \in Keys \X Values
    BY <2>1 DEF Shape, BeginPut, Writes
  <2> QED
    BY <2>1, <2>2, <2>3 DEF Shape, BeginPut
<1> QED
  BY <1>1, <1>2, <1>3 DEF Begin

LEMMA ProceedKeepsShape ==
  ASSUME Shape, NEW t \in Tasks, Proceed(t)
  PROVE  Shape'
<1>1. CASE Touch(t)
  <2>1. \A path \in Existing' : files'[path] \in Content \cup {Garbage}
    BY <1>1 DEF Shape, Touch, Written, Existing
  <2> QED
    BY <1>1, <2>1, OverKeepsShape DEF Touch
<1>2. CASE Heal(t)
  BY <1>2, GoneKeepsShape, OverKeepsShape DEF Heal, Unlinked
<1>3. CASE LeaveIt(t)
  BY <1>3, OverKeepsShape DEF LeaveIt, folder, Existing, Shape
<1>4. CASE Fill(t)
  <2>1. ArgEntry(t) \in Content
    BY <1>4 DEF Shape, Fill, Goto, ArgEntry, Content, Writes
  <2>2. \A path \in Existing' : files'[path] \in Content \cup {Garbage}
    BY <1>4, <2>1 DEF Shape, Fill, Written, Existing
  <2> QED
    BY <1>4, <2>2 DEF Fill, Goto, Shape, sweeps, Writes
<1>5. CASE WriteFails(t) \/ RenameMisses(t)
  <2>1. (Unlinked({OwnTemp(t)}) \/ files' = files) /\ Over({t})
    BY <1>5 DEF WriteFails, RenameMisses, GiveUp, LeaveTemp
  <2> QED
    BY <2>1, GoneKeepsShape, OverKeepsShape DEF Shape, Existing, Unlinked
<1>6. CASE Rename(t)
  <2>1. \A path \in Existing' : files'[path] \in Content \cup {Garbage}
    BY <1>6 DEF Shape, Rename, Renamed, Existing
  <2>2. CASE Over({t})
    BY <1>6, <2>1, <2>2, OverKeepsShape
  <2>3. CASE ~Over({t})
    BY <1>6, <2>1, <2>3 DEF Rename, sweeps, Shape, Writes
  <2> QED
    BY <2>2, <2>3
<1>7. CASE RetireFile(t)
  <2>1. \A path \in Existing' : files'[path] \in Content \cup {Garbage}
    BY <1>7, GoneKeepsShape DEF RetireFile, Unlinked
  <2> QED
    BY <1>7, <2>1 DEF RetireFile, locals, sweeps, Shape, Writes
<1>8. CASE RetireDir(t)
  BY <1>8 DEF RetireDir, locals, sweeps, Shape, Writes, Existing
<1>9. CASE BeginList(t) \/ Stat(t) \/ StatFails(t)
  BY <1>9 DEF BeginList, Stat, Listed, StatFails, Goto, folder, Shape, Writes, Existing
<1>13. CASE ListFails(t)
  BY <1>13, OverKeepsShape DEF ListFails, folder, Existing, Shape
<1>14. CASE EndList(t)
  <2>1. files' = files
    BY <1>14 DEF EndList, folder
  <2>2. CASE Over({t})
    BY <2>1, <2>2, OverKeepsShape DEF Shape, Existing
  <2>3. CASE ~Over({t})
    BY <1>14, <2>1, <2>3 DEF EndList, sweeps, Shape, Writes, Existing
  <2> QED
    BY <2>2, <2>3
<1>10. CASE Evict(t)
  <2>1. \A path \in Existing' : files'[path] \in Content \cup {Garbage}
    BY <1>10, GoneKeepsShape DEF Evict
  <2> QED
    BY <1>10, <2>1 DEF Evict, Comes, Shape, Writes
<1>11. CASE EvictFails(t)
  BY <1>11 DEF EvictFails, Comes, Shape, Writes, Existing
<1>12. CASE EndSweep(t)
  BY <1>12, OverKeepsShape DEF EndSweep, Existing, Shape
<1> QED
  BY <1>1, <1>2, <1>3, <1>4, <1>5, <1>6, <1>7, <1>8, <1>9, <1>10, <1>11, <1>12,
     <1>13, <1>14 DEF Proceed

LEMMA ShapeStays == Shape /\ [Next]_vars => Shape'
<1> SUFFICES ASSUME Shape, [Next]_vars PROVE Shape'
  OBVIOUS
<1>1. ASSUME NEW p \in Procs, Open(p) \/ OpenFails(p) PROVE Shape'
  BY <1>1 DEF Open, OpenFails, folder, locals, sweeps, Shape, Writes, Existing
<1>2. ASSUME NEW p \in Procs, Kill(p) PROVE Shape'
  BY <1>2, OverKeepsShape DEF Kill, Existing, Shape
<1>3. ASSUME NEW t \in Tasks, Begin(t) \/ Proceed(t) PROVE Shape'
  BY <1>3, BeginKeepsShape, ProceedKeepsShape
<1>4. CASE Clear
  <2>1. \A path \in Existing' : files'[path] \in Content \cup {Garbage}
    BY <1>4, GoneKeepsShape
       DEF Clear, BeginClear, ClearFile, ClearDir, EndClear, Unlinked, folder, Shape, Existing
  <2>2. UNCHANGED locals
    BY <1>4 DEF Clear, BeginClear, ClearFile, ClearDir, EndClear
  <2> QED
    BY <2>1, <2>2 DEF Shape, Writes, locals, sweeps
<1>5. CASE Damage
  BY <1>5 DEF Damage, locals, sweeps, Shape, Writes, Existing
<1>6. CASE UNCHANGED vars
  BY <1>6 DEF vars, folder, locals, sweeps, Shape, Writes, Existing
<1> QED
  BY <1>1, <1>2, <1>3, <1>4, <1>5, <1>6 DEF Next

\* The shape is an invariant.
THEOREM StoreKeepsShape == Spec => []Shape
BY ShapeAtFirst, ShapeStays, PTL DEF Spec

-----------------------------------------------------------------------------
(* The refinement.                                                         *)

\* Entries stay, go, or turn to garbage.
EntriesLost ==
  \A v \in Running, k \in Keys :
    EntryPath(v, k) \in Existing' =>
      /\ EntryPath(v, k) \in Existing
      /\ files'[EntryPath(v, k)] \in {files[EntryPath(v, k)], Garbage}

LEMMA LosingEntriesLoses ==
  ASSUME EntriesLost, Answered' = Answered
  PROVE  Lossy!Lose
<1>1. \A v \in Running, k \in Keys : Answer(v, k)' \in {Answer(v, k), None}
  BY DEF EntriesLost, Answer
<1> QED
  BY <1>1 DEF Lossy!Lose, Lossy!OthersLose, Kept

LEMMA GoneLoses ==
  ASSUME NEW P, Gone(P)
  PROVE  EntriesLost
BY DEF Gone, EntriesLost, Existing

LEMMA UntouchedLoses ==
  ASSUME files' = files
  PROVE  EntriesLost
BY DEF EntriesLost, Existing

\* Whoever is not being answered can end without anyone noticing.
LEMMA OverUnheard ==
  ASSUME Shape, NEW t \in Tasks, Over({t}), pc[t] # "touch"
  PROVE  Answered' = Answered
BY DEF Shape, Over, Answered, Version

LEMMA OverDelivers ==
  ASSUME Shape, NEW T, Over(T), Kept' = Kept
  PROVE  Lossy!Deliver
BY DEF Shape, Over, Answered, Version, Lossy!Deliver

LEMMA BeginRefines ==
  ASSUME Shape, NEW t \in Tasks, Begin(t)
  PROVE  Lossy!Next
<1>1. ASSUME NEW k \in Keys, GetHit(t, k) PROVE Lossy!Next
  <2>1. <<Version(t), k>> \in Running \X Keys
    BY TasksBelongToProcs DEF Version, Running
  <2>2. Kept[<<Version(t), k>>] = Answer(Version(t), k)
    BY <2>1 DEF Kept
  <2>3. Kept' = Kept
    BY <1>1 DEF GetHit, folder, Kept, Answer, Existing
  <2>4. Answered' = [Answered EXCEPT ![t] = <<<<Version(t), k>>, Answer(Version(t), k)>>]
    BY <1>1 DEF GetHit, Answered, Shape, Version
  <2>5. Lossy!Get(t, <<Version(t), k>>)
    BY <1>1, <2>2, <2>3, <2>4 DEF GetHit, Lossy!Get
  <2> QED
    BY <2>1, <2>5 DEF Lossy!Next
<1>2. ASSUME NEW k \in Keys, GetGarbage(t, k) PROVE Lossy!Next
  <2>1. Answered' = Answered
    BY <1>2 DEF GetGarbage, Ready, Shape, Answered, Version
  <2> QED
    BY <1>2, <2>1, UntouchedLoses, LosingEntriesLoses DEF GetGarbage, folder, Lossy!Next
<1>3. ASSUME NEW k \in Keys, NEW x \in Values, BeginPut(t, k, x) PROVE Lossy!Next
  <2>1. Answered' = Answered
    BY <1>3 DEF BeginPut, Ready, Shape, Answered, Version
  <2>2. EntriesLost
    BY <1>3 DEF BeginPut, Written, TempPath, EntryPath, EntriesLost, Existing
  <2> QED
    BY <2>1, <2>2, LosingEntriesLoses DEF Lossy!Next
<1> QED
  BY <1>1, <1>2, <1>3 DEF Begin

\* An entry that takes its place is a put of what it holds, or loses what was there.
LEMMA RenameRefines ==
  ASSUME Shape, NEW t \in Tasks, Rename(t)
  PROVE  Lossy!Next
<1> DEFINE c == files[OwnTemp(t)]
           v == Version(t)
<1>1. Answered' = Answered
  <2>1. CASE Over({t})
    BY <2>1, OverUnheard DEF Rename
  <2>2. CASE ~Over({t})
    BY <2>2 DEF Rename, Shape, Answered, Version
  <2> QED
    BY <2>1, <2>2
<1>2. /\ v \in Running /\ arg[t][1] \in Keys /\ c \in Content \cup {Garbage}
      /\ ArgPath(t) \in Existing' /\ files'[ArgPath(t)] = c
  BY TasksBelongToProcs DEF Rename, Renamed, Shape, Writes, Version, Running, Existing
<1>3. ASSUME NEW w \in Running, NEW j \in Keys, EntryPath(w, j) # ArgPath(t)
      PROVE  Answer(w, j)' = Answer(w, j)
  <2>1. EntryPath(w, j) # OwnTemp(t)
    BY DEF EntryPath, OwnTemp, TempPath
  <2>2. EntryPath(w, j) \in Existing' <=> EntryPath(w, j) \in Existing
    BY <1>3, <2>1 DEF Rename, Renamed, Existing
  <2>3. EntryPath(w, j) \in Existing => files'[EntryPath(w, j)] = files[EntryPath(w, j)]
    BY <1>3, <2>1 DEF Rename, Renamed, Existing
  <2> QED
    BY <2>2, <2>3 DEF Answer
<1>4. ASSUME NEW w \in Running, NEW j \in Keys, EntryPath(w, j) = ArgPath(t)
      PROVE  Answer(w, j)' = IF c # Garbage /\ c.key = j THEN c.value ELSE None
  BY <1>2, <1>4 DEF Answer
<1>5. CASE c # Garbage /\ EntryPath(v, c.key) = ArgPath(t)
  <2>1. c.key \in Keys /\ c.value \in Values
    BY <1>2, <1>5 DEF Content
  <2>2. <<v, c.key>> \in Running \X Keys
    BY <1>2, <2>1
  <2>3. Kept'[<<v, c.key>>] = c.value
    BY <1>4, <1>5, <2>1, <2>2, <1>2 DEF Kept
  <2>4. ASSUME NEW w \in Running, NEW j \in Keys, <<w, j>> # <<v, c.key>>
        PROVE  Kept'[<<w, j>>] \in {Kept[<<w, j>>], None}
    <3>1. CASE EntryPath(w, j) = ArgPath(t)
      <4>1. w = v
        BY <3>1 DEF ArgPath, EntryPath
      <4> QED
        BY <1>4, <3>1, <4>1, <2>4 DEF Kept
    <3>2. CASE EntryPath(w, j) # ArgPath(t)
      BY <1>3, <3>2 DEF Kept
    <3> QED
      BY <3>1, <3>2
  <2>5. Lossy!OthersLose({<<v, c.key>>})
    <3>1. ASSUME NEW vk \in (Running \X Keys) \ {<<v, c.key>>}
          PROVE  Kept'[vk] \in {Kept[vk], None}
      <4>1. PICK w \in Running, j \in Keys : vk = <<w, j>>
        BY <3>1
      <4> QED
        BY <2>4, <4>1, <3>1
    <3>2. DOMAIN Kept' = Running \X Keys
      BY DEF Kept
    <3> HIDE DEF c, v
    <3> QED
      BY <3>1, <3>2 DEF Lossy!OthersLose
  <2>6. Lossy!Put(<<v, c.key>>, c.value)
    BY <1>1, <2>3, <2>5 DEF Lossy!Put
  <2> QED
    BY <2>1, <2>2, <2>6 DEF Lossy!Next
<1>6. CASE ~(c # Garbage /\ EntryPath(v, c.key) = ArgPath(t))
  <2>1. ASSUME NEW w \in Running, NEW j \in Keys
        PROVE  Kept'[<<w, j>>] \in {Kept[<<w, j>>], None}
    <3>1. CASE EntryPath(w, j) = ArgPath(t)
      <4>1. w = v
        BY <3>1 DEF ArgPath, EntryPath
      <4> QED
        BY <1>4, <1>6, <3>1, <4>1 DEF Kept
    <3>2. CASE EntryPath(w, j) # ArgPath(t)
      BY <1>3, <3>2 DEF Kept
    <3> QED
      BY <3>1, <3>2
  <2>2. Lossy!Lose
    BY <1>1, <2>1 DEF Lossy!Lose, Lossy!OthersLose, Kept
  <2> QED
    BY <2>2 DEF Lossy!Next
<1> QED
  BY <1>5, <1>6

LEMMA ProceedRefines ==
  ASSUME Shape, NEW t \in Tasks, Proceed(t)
  PROVE  Lossy!Next
<1>1. CASE Touch(t)
  <2>1. Kept' = Kept
    BY <1>1 DEF Touch, Written, Kept, Answer, Existing
  <2> QED
    BY <1>1, <2>1, OverDelivers DEF Touch, Lossy!Next
<1>2. CASE Heal(t)
  BY <1>2, GoneLoses, OverUnheard, LosingEntriesLoses DEF Heal, Unlinked, Lossy!Next
<1>3. CASE LeaveIt(t)
  <2>1. Kept' = Kept
    BY <1>3 DEF LeaveIt, folder, Kept, Answer, Existing
  <2> QED
    BY <1>3, <2>1, OverDelivers DEF LeaveIt, Lossy!Next
<1>4. CASE Fill(t)
  <2>1. Answered' = Answered
    BY <1>4 DEF Fill, Goto, Shape, Answered, Version
  <2>2. EntriesLost
    BY <1>4 DEF Fill, Written, OwnTemp, TempPath, EntryPath, EntriesLost, Existing
  <2> QED
    BY <2>1, <2>2, LosingEntriesLoses DEF Lossy!Next
<1>5. CASE WriteFails(t) \/ RenameMisses(t)
  <2>1. (Unlinked({OwnTemp(t)}) \/ files' = files) /\ Over({t}) /\ pc[t] # "touch"
    BY <1>5 DEF WriteFails, Writes, RenameMisses, GiveUp, LeaveTemp
  <2> QED
    BY <2>1, GoneLoses, UntouchedLoses, OverUnheard, LosingEntriesLoses
       DEF Unlinked, Lossy!Next
<1>6. CASE Rename(t)
  BY <1>6, RenameRefines
<1>7. CASE RetireFile(t) \/ Evict(t) \/ EvictFails(t)
  <2>1. EntriesLost
    BY <1>7, GoneLoses, UntouchedLoses DEF RetireFile, Unlinked, Evict, EvictFails
  <2>2. Answered' = Answered
    BY <1>7 DEF RetireFile, Evict, EvictFails, locals, Answered, Version
  <2> QED
    BY <2>1, <2>2, LosingEntriesLoses DEF Lossy!Next
<1>8. CASE RetireDir(t) \/ Stat(t) \/ StatFails(t)
  <2>1. files' = files /\ Answered' = Answered
    BY <1>8 DEF RetireDir, Stat, StatFails, folder, locals, Answered, Version
  <2> QED
    BY <2>1, UntouchedLoses, LosingEntriesLoses DEF Lossy!Next
<1>9. CASE BeginList(t) \/ EndList(t)
  <2>1. Answered' = Answered
    <3>1. CASE Over({t})
      BY <1>9, <3>1, OverUnheard DEF BeginList, EndList, Goto
    <3>2. CASE ~Over({t})
      BY <1>9, <3>2 DEF BeginList, EndList, Goto, Shape, Answered, Version
    <3> QED
      BY <3>1, <3>2
  <2>2. files' = files
    BY <1>9 DEF BeginList, EndList, folder
  <2> QED
    BY <2>1, <2>2, UntouchedLoses, LosingEntriesLoses DEF Lossy!Next
<1>10. CASE ListFails(t) \/ EndSweep(t)
  BY <1>10, UntouchedLoses, OverUnheard, LosingEntriesLoses
     DEF ListFails, EndSweep, folder, Lossy!Next
<1> QED
  BY <1>1, <1>2, <1>3, <1>4, <1>5, <1>6, <1>7, <1>8, <1>9, <1>10 DEF Proceed

LEMMA StepRefines ==
  ASSUME Shape, [Next]_vars
  PROVE  Lossy!Next \/ UNCHANGED <<Kept, Answered>>
<1>1. ASSUME NEW p \in Procs, Open(p) \/ OpenFails(p) PROVE Lossy!Next
  <2>1. files' = files /\ Answered' = Answered
    BY <1>1 DEF Open, OpenFails, folder, locals, Answered, Version
  <2> QED
    BY <2>1, UntouchedLoses, LosingEntriesLoses DEF Lossy!Next
<1>2. ASSUME NEW p \in Procs, Kill(p) PROVE Lossy!Next
  <2>1. Kept' = Kept
    BY <1>2 DEF Kill, folder, Kept, Answer, Existing
  <2> QED
    BY <1>2, <2>1, OverDelivers DEF Kill, Lossy!Next
<1>3. ASSUME NEW t \in Tasks, Begin(t) \/ Proceed(t) PROVE Lossy!Next
  BY <1>3, BeginRefines, ProceedRefines
<1>4. CASE Clear
  <2>1. EntriesLost
    BY <1>4, GoneLoses, UntouchedLoses
       DEF Clear, BeginClear, ClearFile, Unlinked, ClearDir, EndClear, folder
  <2>2. Answered' = Answered
    BY <1>4 DEF Clear, BeginClear, ClearFile, ClearDir, EndClear, locals, Answered, Version
  <2> QED
    BY <2>1, <2>2, LosingEntriesLoses DEF Lossy!Next
<1>5. CASE Damage
  <2>1. EntriesLost
    BY <1>5 DEF Damage, EntriesLost, Existing
  <2>2. Answered' = Answered
    BY <1>5 DEF Damage, locals, Answered, Version
  <2> QED
    BY <2>1, <2>2, LosingEntriesLoses DEF Lossy!Next
<1>6. CASE UNCHANGED vars
  BY <1>6 DEF vars, folder, locals, Kept, Answer, Existing, Answered, Version
<1> QED
  BY <1>1, <1>2, <1>3, <1>4, <1>5, <1>6 DEF Next

\* The files implement the map that may lose entries (disk_cache.rs: a get, if
\* it answers, answers with what was put under its very key).
THEOREM StoreImplementsMap == Spec => ImplementsLossyStore
<1>1. Init => Lossy!Init
  <2> SUFFICES ASSUME Init PROVE Lossy!Init
    OBVIOUS
  <2>1. \A v \in Running, k \in Keys : EntryPath(v, k) \notin Existing
    BY DEF Init, LeftPaths, EntryPath, TempPath, Existing
  <2>2. Kept = [vk \in Running \X Keys |-> None]
    BY <2>1 DEF Kept, Answer
  <2>3. Answered = [t \in Tasks |-> None]
    BY DEF Init, Answered
  <2> QED
    BY <2>2, <2>3 DEF Lossy!Init
<1>2. Shape /\ [Next]_vars => [Lossy!Next]_<<Kept, Answered>>
  BY StepRefines
<1> QED
  BY <1>1, <1>2, StoreKeepsShape, PTL DEF Spec, ImplementsLossyStore, Lossy!Spec

-----------------------------------------------------------------------------
(* Temp files.                                                             *)

\* Steps that bring no temp file and stop no writer.
LEMMA WritersGoOn ==
  ASSUME TempsAreInUse,
         \A path \in Existing' : path[2] = "temp" => path \in Existing,
         \A path \in strays \cap Existing' : path \in strays',
         \A t \in Tasks : Writes(t) => Writes(t)' /\ tmp'[t] = tmp[t]
  PROVE  TempsAreInUse'
BY DEF TempsAreInUse, OwnTemp, Version

LEMMA GoneTemps ==
  ASSUME NEW P, Gone(P)
  PROVE  /\ Existing' = Existing \ P
         /\ strays' = strays \ P
BY DEF Gone, Existing

\* A writer that ends: its file is gone, or known to have been left.
LEMMA WriterEnds ==
  ASSUME TempsAreInUse, NEW t \in Tasks, Over({t}),
         \A path \in Existing' : path[2] = "temp" =>
           path \in Existing /\ (path # OwnTemp(t) \/ path \in strays'),
         \A path \in strays \cap Existing' : path \in strays'
  PROVE  TempsAreInUse'
<1>1. \A u \in Tasks \ {t} : pc'[u] = pc[u] /\ tmp'[u] = tmp[u]
  BY DEF Over
<1>2. \A u \in Tasks \ {t} : Writes(u) => Writes(u)' /\ OwnTemp(u)' = OwnTemp(u)
  BY <1>1 DEF Writes, OwnTemp, Version
<1> QED
  BY <1>2 DEF TempsAreInUse

\* The end of a task that writes nothing.
LEMMA OtherEnds ==
  ASSUME TempsAreInUse, NEW t \in Tasks, Over({t}), ~Writes(t),
         \A path \in Existing' : path[2] = "temp" => path \in Existing,
         \A path \in strays \cap Existing' : path \in strays'
  PROVE  TempsAreInUse'
<1>1. \A u \in Tasks : Writes(u) => u # t
  OBVIOUS
<1>2. \A u \in Tasks : Writes(u) => Writes(u)' /\ tmp'[u] = tmp[u]
  BY <1>1 DEF Over, Writes
<1> QED
  BY <1>2, WritersGoOn

\* A death: what the writers of the process were at is left.
LEMMA DeathLeavesStrays ==
  ASSUME Shape, TempsAreInUse, NEW p \in Procs, Kill(p)
  PROVE  TempsAreInUse'
<1>1. /\ Existing' = Existing
      /\ strays \subseteq strays'
      /\ \A t \in Tasks : ProcOf[t] = p /\ Writes(t) /\ OwnTemp(t) \in Existing => OwnTemp(t) \in strays'
  BY DEF Kill, Existing
<1>2. \A t \in Tasks : ProcOf[t] # p /\ Writes(t) => Writes(t)' /\ OwnTemp(t)' = OwnTemp(t)
  BY DEF Kill, Over, Writes, OwnTemp, Version
<1> QED
  BY <1>1, <1>2 DEF TempsAreInUse

LEMMA BeginKeepsTemps ==
  ASSUME Shape, TempsAreInUse, NEW t \in Tasks, Begin(t)
  PROVE  TempsAreInUse'
<1>1. ASSUME NEW k \in Keys, GetHit(t, k) \/ GetGarbage(t, k) PROVE TempsAreInUse'
  <2>1. /\ Existing' = Existing /\ strays' = strays
        /\ \A u \in Tasks : Writes(u) => Writes(u)' /\ tmp'[u] = tmp[u]
    BY <1>1 DEF GetHit, GetGarbage, Ready, folder, Existing, Writes, Shape
  <2> QED
    BY <2>1, WritersGoOn
<1>2. ASSUME NEW k \in Keys, NEW x \in Values, BeginPut(t, k, x) PROVE TempsAreInUse'
  <2>1. /\ Writes(t)'
        /\ OwnTemp(t)' = TempPath(Version(t), FreshSerial(Version(t)))
        /\ Existing' = Existing \cup {OwnTemp(t)'}
        /\ strays' = strays \ {OwnTemp(t)'}
    BY <1>2 DEF BeginPut, Writes, OwnTemp, Version, Written, Existing, Shape
  <2>2. \A u \in Tasks : Writes(u) => Writes(u)' /\ OwnTemp(u)' = OwnTemp(u)
    BY <1>2 DEF BeginPut, Ready, Writes, OwnTemp, Version, Shape
  <2> QED
    BY <2>1, <2>2 DEF TempsAreInUse
<1> QED
  BY <1>1, <1>2 DEF Begin

LEMMA ProceedKeepsTemps ==
  ASSUME Shape, TempsAreInUse, NEW t \in Tasks, Proceed(t)
  PROVE  TempsAreInUse'
<1>1. CASE Touch(t)
  <2>1. ~Writes(t) /\ Existing' = Existing /\ strays' = strays \ {ArgPath(t)}
    BY <1>1 DEF Touch, Writes, Written, Existing
  <2>2. \A path \in Existing : path[2] = "temp" => path # ArgPath(t)
    BY DEF ArgPath, EntryPath
  <2>3. \A u \in Tasks : Writes(u) => Writes(u)' /\ OwnTemp(u)' = OwnTemp(u)
    BY <1>1, <2>1 DEF Touch, Over, Writes, OwnTemp, Version
  <2> QED
    BY <2>1, <2>2, <2>3 DEF TempsAreInUse
<1>2. CASE Heal(t)
  BY <1>2, OtherEnds, GoneTemps DEF Heal, Unlinked, Writes
<1>3. CASE LeaveIt(t) \/ ListFails(t) \/ EndSweep(t)
  <2>1. Over({t}) /\ ~Writes(t) /\ Existing' = Existing /\ strays' = strays
    BY <1>3 DEF LeaveIt, ListFails, EndSweep, Writes, folder, Existing
  <2> QED
    BY <2>1, OtherEnds
<1>4. CASE Fill(t)
  <2>1. \A u \in Tasks : Writes(u) => Writes(u)' /\ OwnTemp(u)' = OwnTemp(u)
    BY <1>4 DEF Fill, Goto, Writes, OwnTemp, Version, Shape
  <2>2. Writes(t) /\ Existing' = Existing /\ strays \ {OwnTemp(t)} \subseteq strays'
    BY <1>4 DEF Fill, Goto, Written, Existing, Writes
  <2> QED
    BY <2>1, <2>2 DEF TempsAreInUse
<1>5. CASE WriteFails(t) \/ RenameMisses(t)
  <2>1. CASE GiveUp(t)
    BY <2>1, WriterEnds, GoneTemps DEF GiveUp, Unlinked
  <2>2. CASE LeaveTemp(t)
    <3>1. /\ Over({t}) /\ Existing' = Existing
          /\ strays' = strays \cup (Existing \cap {OwnTemp(t)})
      BY <2>2 DEF LeaveTemp, Existing
    <3> QED
      BY <3>1, WriterEnds
  <2> QED
    BY <1>5, <2>1, <2>2 DEF WriteFails, RenameMisses
<1>6. CASE Rename(t)
  <2>1. /\ \A path \in Existing' : path[2] = "temp" => path \in Existing \ {OwnTemp(t)}
        /\ strays' = strays
    BY <1>6 DEF Rename, Renamed, ArgPath, EntryPath, OwnTemp, TempPath, Existing
  <2>2. CASE Over({t})
    BY <2>1, <2>2, WriterEnds
  <2>3. CASE ~Over({t})
    <3>1. \A u \in Tasks \ {t} : pc'[u] = pc[u] /\ tmp'[u] = tmp[u]
      BY <1>6, <2>3 DEF Rename, Shape
    <3>2. \A u \in Tasks \ {t} : Writes(u) => Writes(u)' /\ OwnTemp(u)' = OwnTemp(u)
      BY <3>1 DEF Writes, OwnTemp, Version
    <3> QED
      BY <2>1, <3>2 DEF TempsAreInUse
  <2> QED
    BY <2>2, <2>3
<1>7. CASE RetireFile(t) \/ Evict(t) \/ EvictFails(t)
  <2>1. pc' = pc /\ tmp' = tmp
    BY <1>7 DEF RetireFile, Evict, EvictFails, locals
  <2>2. (\E P : Gone(P)) \/ (Existing' = Existing /\ strays' = strays)
    BY <1>7 DEF RetireFile, Unlinked, Evict, EvictFails, Existing
  <2> QED
    BY <2>1, <2>2, WritersGoOn, GoneTemps DEF Writes
<1>8. CASE RetireDir(t) \/ Stat(t) \/ StatFails(t)
  <2>1. pc' = pc /\ tmp' = tmp /\ Existing' = Existing /\ strays' = strays
    BY <1>8 DEF RetireDir, Stat, StatFails, folder, locals, Existing
  <2> QED
    BY <2>1, WritersGoOn DEF Writes
<1>9. CASE BeginList(t) \/ EndList(t)
  <2>1. Existing' = Existing /\ strays' = strays /\ ~Writes(t)
    BY <1>9 DEF BeginList, EndList, Goto, folder, Existing, Writes
  <2>2. CASE Over({t})
    BY <2>1, <2>2, OtherEnds
  <2>3. CASE ~Over({t})
    <3>1. \A u \in Tasks : Writes(u) => u # t
      BY <2>1
    <3>2. \A u \in Tasks : Writes(u) => Writes(u)' /\ tmp'[u] = tmp[u]
      BY <1>9, <2>3, <3>1 DEF BeginList, EndList, Goto, Writes, Shape
    <3> QED
      BY <2>1, <3>2, WritersGoOn
  <2> QED
    BY <2>2, <2>3
<1> QED
  BY <1>1, <1>2, <1>3, <1>4, <1>5, <1>6, <1>7, <1>8, <1>9 DEF Proceed

\* No put leaves a temp file behind but one that its process did not survive or
\* that it tried to remove and could not (write_entry).
THEOREM FailedPutsTidyUp == Spec => []TempsAreInUse
<1>1. Init => TempsAreInUse
  <2> SUFFICES ASSUME Init PROVE TempsAreInUse
    OBVIOUS
  <2>1. \A path \in Existing : path[1] \in Leftovers
    BY DEF Init, LeftPaths, TempPath, Existing
  <2> QED
    BY <2>1 DEF TempsAreInUse
<1>2. Shape /\ TempsAreInUse /\ [Next]_vars => TempsAreInUse'
  <2> SUFFICES ASSUME Shape, TempsAreInUse, [Next]_vars PROVE TempsAreInUse'
    OBVIOUS
  <2>1. ASSUME NEW p \in Procs, Kill(p) PROVE TempsAreInUse'
    BY <2>1, DeathLeavesStrays
  <2>2. ASSUME NEW t \in Tasks, Begin(t) \/ Proceed(t) PROVE TempsAreInUse'
    BY <2>2, BeginKeepsTemps, ProceedKeepsTemps
  <2>3. CASE ClearFile
    BY <2>3, WritersGoOn, GoneTemps DEF ClearFile, Unlinked, locals, Writes
  <2>4. CASE \/ \E p \in Procs : Open(p) \/ OpenFails(p)
             \/ BeginClear \/ ClearDir \/ EndClear \/ Damage \/ UNCHANGED vars
    <3>1. pc' = pc /\ tmp' = tmp /\ Existing' = Existing /\ strays' = strays
      BY <2>4 DEF Open, OpenFails, BeginClear, ClearDir, EndClear, Damage, vars, folder, locals,
                  Existing
    <3> QED
      BY <3>1, WritersGoOn DEF Writes
  <2> QED
    BY <2>1, <2>2, <2>3, <2>4 DEF Next, Clear
<1> QED
  BY <1>1, <1>2, StoreKeepsShape, PTL DEF Spec

-----------------------------------------------------------------------------
(* Sweeps.                                                                 *)

\* A sweep lists its own version's files.
ListsOwn ==
  \A t \in Tasks : Sweeps(t) =>
    \A path \in due[t] \cup DOMAIN listing[t] : path[1] = Version(t)

\* Steps that add nothing to a listing.
LEMMA ListingsStay ==
  ASSUME ListsOwn,
         \A t \in Tasks : Sweeps(t)' =>
           /\ Sweeps(t) /\ due'[t] \subseteq due[t]
           /\ DOMAIN listing'[t] \subseteq DOMAIN listing[t]
  PROVE  ListsOwn'
BY DEF ListsOwn, Version

LEMMA OverKeepsListings ==
  ASSUME ListsOwn, NEW T, Over(T)
  PROVE  ListsOwn'
BY ListingsStay DEF Over, Sweeps

\* Who does not sweep has listed and reckoned nothing.
Unlisted == \A t \in Tasks : ~Sweeps(t) => listing[t] = << >> /\ total[t] = 0

LEMMA StepKeepsUnlisted ==
  ASSUME Shape, Unlisted, [Next]_vars
  PROVE  Unlisted'
<1>1. CASE \E T : Over(T)
  BY <1>1 DEF Unlisted, Over, Sweeps
<1>2. CASE /\ pc' = pc
           /\ \A t \in Tasks : ~Sweeps(t) => listing'[t] = listing[t] /\ total'[t] = total[t]
  BY <1>2 DEF Unlisted, Sweeps
<1>3. CASE listing' = listing /\ total' = total /\ \A t \in Tasks : Sweeps(t) => Sweeps(t)'
  BY <1>3 DEF Unlisted
<1>4. ASSUME NEW p \in Procs, Open(p) \/ OpenFails(p) \/ Kill(p) PROVE Unlisted'
  BY <1>1, <1>2, <1>4 DEF Open, OpenFails, Kill, locals, sweeps
<1>5. ASSUME NEW t \in Tasks, Begin(t) PROVE Unlisted'
  BY <1>3, <1>5 DEF Begin, GetHit, GetGarbage, BeginPut, Ready, sweeps, Sweeps, Shape
<1>6. ASSUME NEW t \in Tasks, Proceed(t) PROVE Unlisted'
  <2>1. CASE Touch(t) \/ Heal(t) \/ LeaveIt(t) \/ WriteFails(t) \/ RenameMisses(t)
             \/ ListFails(t) \/ EndSweep(t)
    BY <1>1, <2>1
       DEF Touch, Heal, LeaveIt, WriteFails, RenameMisses, GiveUp, LeaveTemp, ListFails, EndSweep
  <2>2. CASE Rename(t) \/ EndList(t)
    <3>1. \/ \E T : Over(T)
          \/ /\ listing' = listing /\ total' = total
             /\ \A u \in Tasks : Sweeps(u) => Sweeps(u)'
      BY <2>2 DEF Rename, EndList, sweeps, Sweeps, Shape
    <3> QED
      BY <1>1, <1>3, <3>1
  <2>3. CASE Fill(t) \/ BeginList(t)
    BY <1>3, <2>3 DEF Fill, BeginList, Goto, sweeps, Sweeps, Shape
  <2>4. CASE RetireFile(t) \/ RetireDir(t) \/ StatFails(t)
    BY <1>2, <2>4 DEF RetireFile, RetireDir, StatFails, locals, sweeps
  <2>5. CASE Stat(t) \/ Evict(t) \/ EvictFails(t)
    <3>1. /\ pc' = pc /\ Sweeps(t)
          /\ \A u \in Tasks \ {t} : listing'[u] = listing[u] /\ total'[u] = total[u]
      BY <2>5 DEF Stat, Listed, Evict, EvictFails, Evicting, Comes, Sweeps, Shape
    <3> QED
      BY <1>2, <3>1
  <2> QED
    BY <1>6, <2>1, <2>2, <2>3, <2>4, <2>5 DEF Proceed
<1>7. CASE Clear \/ Damage \/ UNCHANGED vars
  BY <1>2, <1>7
     DEF Clear, BeginClear, ClearFile, ClearDir, EndClear, Damage, vars, locals, sweeps
<1> QED
  BY <1>4, <1>5, <1>6, <1>7 DEF Next

\* What is left of a listing from which its next file is taken.
LEMMA ComesShortens ==
  ASSUME Shape, NEW t \in Tasks, NEW path \in DOMAIN listing[t], Comes(t, path)
  PROVE  /\ listing'[t] = [q \in DOMAIN listing[t] \ {path} |-> listing[t][q]]
         /\ \A u \in Tasks \ {t} : listing'[u] = listing[u]
BY DEF Comes, Shape

LEMMA StepKeepsListings ==
  ASSUME Shape, Unlisted, ListsOwn, [Next]_vars
  PROVE  ListsOwn'
<1>1. ASSUME NEW p \in Procs, Open(p) \/ OpenFails(p) \/ Kill(p) PROVE ListsOwn'
  <2>1. (pc' = pc /\ due' = due /\ listing' = listing) \/ \E T : Over(T)
    BY <1>1 DEF Open, OpenFails, Kill, locals, sweeps
  <2> QED
    BY <2>1, ListingsStay, OverKeepsListings DEF Sweeps
<1>2. ASSUME NEW t \in Tasks, Begin(t) PROVE ListsOwn'
  <2>1. /\ due' = due /\ listing' = listing
        /\ \A u \in Tasks : Sweeps(u)' => Sweeps(u)
    BY <1>2 DEF Begin, GetHit, GetGarbage, BeginPut, sweeps, Sweeps, Shape
  <2> QED
    BY <2>1, ListingsStay
<1>3. ASSUME NEW t \in Tasks, Proceed(t) PROVE ListsOwn'
  <2>1. CASE Over({t})
    BY <2>1, OverKeepsListings
  <2>2. CASE Fill(t) \/ (Rename(t) /\ ~Over({t})) \/ (EndList(t) /\ ~Over({t}))
             \/ RetireFile(t) \/ RetireDir(t)
    <3>1. /\ due' = due /\ listing' = listing
          /\ \A u \in Tasks : Sweeps(u)' => Sweeps(u)
      BY <2>2 DEF Fill, Goto, Rename, EndList, RetireFile, RetireDir, locals, sweeps, Sweeps, Shape
    <3> QED
      BY <3>1, ListingsStay
  <2>3. CASE BeginList(t)
    <3>1. /\ due'[t] = In(Version(t)) /\ listing'[t] = << >>
          /\ \A u \in Tasks \ {t} : pc'[u] = pc[u] /\ due'[u] = due[u] /\ listing'[u] = listing[u]
      BY <2>3 DEF BeginList, Goto, Shape, Unlisted, Sweeps
    <3>2. \A path \in due'[t] \cup DOMAIN listing'[t] : path[1] = Version(t)
      BY <3>1 DEF In
    <3> QED
      BY <3>1, <3>2 DEF ListsOwn, Sweeps, Version
  <2>4. CASE Stat(t)
    <3>1. PICK path \in due[t] \cup In(Version(t)) :
            /\ due' = [due EXCEPT ![t] = @ \ {path}]
            /\ IF path \in Existing THEN Listed(t, path) ELSE UNCHANGED <<listing, total, age>>
      BY <2>4 DEF Stat
    <3>2. /\ pc' = pc /\ Sweeps(t)
          /\ \A u \in Tasks : due'[u] \subseteq due[u]
      BY <2>4, <3>1 DEF Stat, Sweeps, Shape
    <3>4. /\ DOMAIN listing'[t] \subseteq DOMAIN listing[t] \cup {path}
          /\ \A u \in Tasks \ {t} : listing'[u] = listing[u]
      BY <3>1 DEF Listed, Shape
    <3>3. path[1] = Version(t)
      BY <3>2 DEF ListsOwn, In
    <3> QED
      BY <3>2, <3>3, <3>4 DEF ListsOwn, Sweeps, Version
  <2>5. CASE StatFails(t)
    <3>1. pc' = pc /\ listing' = listing /\ \A u \in Tasks : due'[u] \subseteq due[u]
      BY <2>5 DEF StatFails, Shape
    <3> QED
      BY <3>1, ListingsStay DEF Sweeps
  <2>6. CASE Evict(t) \/ EvictFails(t)
    <3>1. PICK path \in DOMAIN listing[t] : Comes(t, path)
      BY <2>6 DEF Evict, EvictFails
    <3>2. pc' = pc /\ due' = due
      BY <2>6 DEF Evict, EvictFails
    <3>3. \A u \in Tasks : DOMAIN listing'[u] \subseteq DOMAIN listing[u]
      BY <3>1, ComesShortens
    <3> QED
      BY <3>2, <3>3, ListingsStay DEF Sweeps
  <2> QED
    BY <1>3, <2>1, <2>2, <2>3, <2>4, <2>5, <2>6
       DEF Proceed, Touch, Heal, LeaveIt, WriteFails, RenameMisses, GiveUp, LeaveTemp, ListFails,
           EndSweep
<1>4. CASE Clear \/ Damage \/ UNCHANGED vars
  <2>1. pc' = pc /\ due' = due /\ listing' = listing
    BY <1>4 DEF Clear, BeginClear, ClearFile, ClearDir, EndClear, Damage, vars, locals, sweeps
  <2> QED
    BY <2>1, ListingsStay DEF Sweeps
<1> QED
  BY <1>1, <1>2, <1>3, <1>4 DEF Next

LEMMA GoneTakes ==
  ASSUME NEW P, Gone(P)
  PROVE  Existing \ Existing' \subseteq P
BY DEF Gone, Existing

\* A task takes files of its own version and what is superseded.
LEMMA TakesOwnOrOlder ==
  ASSUME ListsOwn, NEW t \in Tasks, Proceed(t)
  PROVE  /\ pc[t] # "idle"
         /\ \A path \in Existing \ Existing' : path[1] = Version(t) \/ path[1] < Version(t)
         /\ \A v \in dirs \ dirs' : v < Version(t)
<1>1. CASE Touch(t) \/ Fill(t)
  BY <1>1 DEF Touch, Fill, Goto, Written, Existing
<1>2. CASE Heal(t)
  BY <1>2, GoneTakes DEF Heal, Unlinked, ArgPath, EntryPath
<1>3. CASE LeaveIt(t) \/ BeginList(t) \/ ListFails(t) \/ Stat(t) \/ StatFails(t) \/ EndList(t)
           \/ EndSweep(t)
  BY <1>3 DEF LeaveIt, BeginList, Goto, ListFails, Stat, StatFails, EndList, EndSweep, folder,
              Existing
<1>4. CASE WriteFails(t) \/ RenameMisses(t)
  <2>1. pc[t] # "idle" /\ (Unlinked({OwnTemp(t)}) \/ files' = files) /\ dirs' = dirs
    BY <1>4 DEF WriteFails, RenameMisses, GiveUp, LeaveTemp, Writes
  <2> QED
    BY <2>1, GoneTakes DEF Unlinked, OwnTemp, TempPath, Existing
<1>5. CASE Rename(t)
  <2>1. Existing \ Existing' \subseteq {OwnTemp(t)}
    BY <1>5 DEF Rename, Renamed, Existing
  <2> QED
    BY <1>5, <2>1 DEF Rename, OwnTemp, TempPath
<1>6. CASE RetireFile(t)
  BY <1>6, GoneTakes DEF RetireFile, Unlinked, Superseded
<1>7. CASE RetireDir(t)
  BY <1>7 DEF RetireDir, Superseded, Existing
<1>8. CASE Evict(t) \/ EvictFails(t)
  <2>1. PICK path \in DOMAIN listing[t] : Gone({path}) \/ files' = files
    BY <1>8 DEF Evict, EvictFails
  <2>2. pc[t] = "evict" /\ dirs' = dirs
    BY <1>8 DEF Evict, EvictFails, Evicting
  <2>3. path[1] = Version(t)
    BY <2>2 DEF ListsOwn, Sweeps
  <2> QED
    BY <2>1, <2>2, <2>3, GoneTakes DEF Existing
<1> QED
  BY <1>1, <1>2, <1>3, <1>4, <1>5, <1>6, <1>7, <1>8 DEF Proceed

\* Whatever versions share the directory, no process takes what is newer than
\* itself (sweep: a newer version's directory is not superseded).
THEOREM NewerStays == Spec => NewerVersionsSpared
<1> DEFINE Lost(v) == (In(v) \ Existing') \cup ({v} \cap (dirs \ dirs'))
           Spared == \A v \in Versions : Lost(v) # {} /\ ~clearing
                       => \E t \in Tasks : Version(t) >= v /\ pc[t] # "idle"
           Inv == Shape /\ Unlisted /\ ListsOwn
<1>1. Init => Inv
  BY ShapeAtFirst DEF Init, Unlisted, ListsOwn, Sweeps
<1>2. Inv /\ [Next]_vars => Inv'
  BY ShapeStays, StepKeepsUnlisted, StepKeepsListings
<1>3. Inv /\ [Next]_vars => [Spared]_vars
  <2> SUFFICES ASSUME Inv, Next, NEW v \in Versions, Lost(v) # {}, ~clearing
               PROVE  \E t \in Tasks : Version(t) >= v /\ pc[t] # "idle"
    OBVIOUS
  <2>1. v \in Nat /\ \A t \in Tasks : Version(t) \in Nat
    BY VersionsAreNats, TasksBelongToProcs DEF Versions, Running, Version
  <2>2. ASSUME NEW t \in Tasks, Proceed(t) PROVE Version(t) >= v /\ pc[t] # "idle"
    <3>1. v = Version(t) \/ v < Version(t)
      BY <2>2, TakesOwnOrOlder DEF In
    <3> QED
      BY <2>1, <2>2, <3>1, TakesOwnOrOlder
  <2>3. ASSUME Existing \subseteq Existing', dirs \subseteq dirs' PROVE FALSE
    BY <2>3 DEF In
  <2>4. ASSUME NEW p \in Procs, Open(p) \/ OpenFails(p) \/ Kill(p) PROVE FALSE
    BY <2>3, <2>4 DEF Open, OpenFails, Kill, folder, Existing
  <2>5. ASSUME NEW t \in Tasks, Begin(t) PROVE FALSE
    BY <2>3, <2>5 DEF Begin, GetHit, GetGarbage, BeginPut, Written, folder, Existing
  <2>6. CASE Clear \/ Damage
    BY <2>3, <2>6 DEF Clear, BeginClear, ClearFile, ClearDir, EndClear, Damage, folder, Existing
  <2> QED
    BY <2>2, <2>4, <2>5, <2>6 DEF Next
<1> QED
  BY <1>1, <1>2, <1>3, PTL DEF Spec, NewerVersionsSpared

-----------------------------------------------------------------------------
(* The tally of a sweep.                                                   *)

\* The bytes of the files in D, of which path has f[path].
Pairs(D, f) == UNION {{path} \X (1..f[path]) : path \in D}

Known(t) == Pairs(DOMAIN listing[t], listing[t])

\* What the tally of an undisturbed sweep covers: what it has listed and, when the
\* listing is complete, what there is.
Reckoned(t) ==
  /\ \A u \in Tasks : Writes(u) => Version(u) # Version(t)
  /\ \A path \in In(Version(t)) \cap DOMAIN listing[t] :
       Bytes(files[path]) <= listing[t][path]
  /\ pc[t] = "list" => In(Version(t)) \subseteq due[t] \cup DOMAIN listing[t]
  /\ pc[t] = "list" => Cardinality(Known(t)) <= total[t]
  /\ pc[t] = "evict" => Cardinality(Known(t) \cup BytesIn(Version(t))) <= total[t]

\* The store is finite, and so is a listing.
Countable ==
  /\ IsFiniteSet(Existing)
  /\ \A t \in Tasks : Sweeps(t) =>
       /\ total[t] \in Nat
       /\ IsFiniteSet(DOMAIN listing[t])
       /\ \A path \in DOMAIN listing[t] : listing[t][path] \in Nat

Tallied == \A t \in Tasks : Sweeps(t) /\ calm[t] => Reckoned(t)

LEMMA InPairs ==
  ASSUME NEW D, NEW f, NEW z
  PROVE  z \in Pairs(D, f) <=> \E path \in D : \E i \in 1..f[path] : z = <<path, i>>
BY DEF Pairs

LEMMA PairsOfOne ==
  ASSUME NEW path, NEW n \in Nat
  PROVE  IsFiniteSet({path} \X (1..n)) /\ Cardinality({path} \X (1..n)) = n
<1>1. IsFiniteSet({path}) /\ Cardinality({path}) = 1
  BY FS_Singleton
<1>2. IsFiniteSet(1..n) /\ Cardinality(1..n) = n
  BY FS_Interval
<1>3. /\ IsFiniteSet({path} \X (1..n))
      /\ Cardinality({path} \X (1..n)) = Cardinality({path}) * Cardinality(1..n)
  BY <1>1, <1>2, FS_Product
<1>4. Cardinality({path}) * Cardinality(1..n) = 1 * n
  BY <1>1, <1>2
<1> QED
  BY <1>3, <1>4

LEMMA PairsFinite ==
  ASSUME NEW D, IsFiniteSet(D), NEW f, \A path \in D : f[path] \in Nat
  PROVE  IsFiniteSet(Pairs(D, f))
<1> DEFINE S == {{path} \X (1..f[path]) : path \in D}
           g == [path \in D |-> {path} \X (1..f[path])]
<1>1. g \in Surjection(D, S)
  BY DEF Surjection
<1>2. IsFiniteSet(S)
  BY <1>1, FS_Surjection
<1>3. ASSUME NEW path \in D PROVE IsFiniteSet({path} \X (1..f[path]))
  BY PairsOfOne
<1>4. \A T \in S : IsFiniteSet(T)
  BY <1>3
<1> QED
  BY <1>2, <1>4, FS_UNION DEF Pairs

LEMMA BytesAreNats == Shape => \A path \in Existing : Bytes(files[path]) \in Nat
BY LengthsAreNats DEF Shape, Content, Bytes

LEMMA InBytes ==
  ASSUME NEW v, NEW z
  PROVE  z \in BytesIn(v) <=> \E path \in In(v) : \E i \in 1..Bytes(files[path]) : z = <<path, i>>
BY DEF BytesIn

LEMMA BytesFinite ==
  ASSUME Shape, Countable, NEW v
  PROVE  IsFiniteSet(BytesIn(v))
<1> DEFINE f == [path \in In(v) |-> Bytes(files[path])]
<1>1. In(v) \in SUBSET Existing
  BY DEF In
<1>2. IsFiniteSet(In(v))
  BY <1>1, FS_Subset DEF Countable
<1>3. \A path \in In(v) : f[path] \in Nat
  BY <1>1, BytesAreNats
<1>4. BytesIn(v) = Pairs(In(v), f)
  BY DEF BytesIn, Pairs
<1> QED
  BY <1>2, <1>3, <1>4, PairsFinite

\* The bytes that a tally has to cover are finitely many.
LEMMA CoveredFinite ==
  ASSUME Shape, Countable, NEW t \in Tasks, Sweeps(t)
  PROVE  /\ IsFiniteSet(Known(t)) /\ Cardinality(Known(t)) \in Nat
         /\ IsFiniteSet(Known(t) \cup BytesIn(Version(t)))
         /\ Cardinality(Known(t) \cup BytesIn(Version(t))) \in Nat
<1>1. IsFiniteSet(Known(t))
  BY PairsFinite DEF Known, Countable
<1>2. IsFiniteSet(Known(t) \cup BytesIn(Version(t)))
  BY <1>1, BytesFinite, FS_Union
<1> QED
  BY <1>1, <1>2, FS_CardinalityType

\* There is no more of version v than before.
Shrinks(v) ==
  \A path \in In(v)' : path \in In(v) /\ Bytes(files'[path]) <= Bytes(files[path])

LEMMA ShrunkBytes ==
  ASSUME Shape, Shape', NEW v, Shrinks(v)
  PROVE  BytesIn(v)' \subseteq BytesIn(v)
<1> SUFFICES ASSUME NEW path \in In(v)', NEW i \in 1..Bytes(files'[path])
             PROVE  <<path, i>> \in BytesIn(v)
  BY DEF BytesIn, Bytes
<1>1. path \in Existing /\ path \in Existing'
  BY DEF Shrinks, In
<1>2. Bytes(files[path]) \in Nat
  BY <1>1, BytesAreNats
<1>3. Bytes(files'[path]) \in Nat
  BY <1>1, LengthsAreNats DEF Shape, Content, Bytes
<1>4. i \in 1..Bytes(files[path])
  BY <1>2, <1>3 DEF Shrinks
<1> QED
  BY <1>4, InBytes DEF Shrinks

\* A sweep that a step leaves alone, and to whose files it adds nothing.
LEMMA SweepUnaware ==
  ASSUME Shape, Shape', Countable, Tallied, NEW t \in Tasks,
         Sweeps(t), calm[t], pc'[t] = pc[t], due'[t] = due[t],
         listing'[t] = listing[t], total'[t] = total[t],
         \A u \in Tasks : Writes(u)' => Writes(u) \/ Version(u) # Version(t),
         Shrinks(Version(t))
  PROVE  Reckoned(t)'
<1> DEFINE v == Version(t)
<1>1. Reckoned(t)
  BY DEF Tallied
<1>2. \A u \in Tasks : Version(u)' = Version(u)
  BY DEF Version
<1>3. Known(t)' = Known(t)
  BY DEF Known
<1>4. Known(t) \cup BytesIn(v)' \in SUBSET (Known(t) \cup BytesIn(v))
  BY ShrunkBytes
<1>5. /\ Cardinality(Known(t) \cup BytesIn(v)') <= Cardinality(Known(t) \cup BytesIn(v))
      /\ Cardinality(Known(t) \cup BytesIn(v)') \in Nat
  <2> HIDE DEF v
  <2>1. IsFiniteSet(Known(t) \cup BytesIn(v))
    BY CoveredFinite DEF v
  <2> QED
    BY <1>4, <2>1, FS_Subset, FS_CardinalityType
<1>6. Cardinality(Known(t) \cup BytesIn(v)) \in Nat /\ total[t] \in Nat
  BY CoveredFinite DEF Countable
<1>7. \A path \in In(v)' \cap DOMAIN listing[t] : Bytes(files'[path]) <= listing[t][path]
  <2> SUFFICES ASSUME NEW path \in In(v)', path \in DOMAIN listing[t]
               PROVE  Bytes(files'[path]) <= listing[t][path]
    OBVIOUS
  <2>1. path \in In(v) /\ path \in Existing /\ path \in Existing'
    BY DEF Shrinks, In
  <2>2. Bytes(files[path]) \in Nat /\ Bytes(files'[path]) \in Nat /\ listing[t][path] \in Nat
    BY <2>1, BytesAreNats, LengthsAreNats DEF Shape, Content, Bytes, Countable
  <2> QED
    BY <1>1, <2>1, <2>2 DEF Reckoned, Shrinks
<1>8. pc[t] = "list" => In(v)' \subseteq due[t] \cup DOMAIN listing[t]
  BY <1>1 DEF Reckoned, Shrinks
<1>9. pc[t] = "evict" => Cardinality(Known(t) \cup BytesIn(v)') <= total[t]
  BY <1>1, <1>5, <1>6 DEF Reckoned
<1>10. \A u \in Tasks : Writes(u)' => Version(u) # v
  BY <1>1 DEF Reckoned
<1>11. /\ BytesIn(Version(t))' = BytesIn(v)' /\ In(Version(t))' = In(v)'
       /\ \A path \in In(v)' : Bytes(files[path])' = Bytes(files'[path])
  BY DEF BytesIn, In, Version, Bytes
<1> QED
  BY <1>1, <1>2, <1>3, <1>7, <1>8, <1>9, <1>10, <1>11 DEF Reckoned

\* What a step does to the sweeps it leaves alone.
Bystander(t) ==
  /\ Sweeps(t) /\ pc'[t] = pc[t] /\ due'[t] = due[t]
  /\ listing'[t] = listing[t] /\ total'[t] = total[t]
  /\ calm'[t] => calm[t]

\* What begins to be written is of version v at most.
NewWritersIn(v) == \A u \in Tasks : Writes(u)' => Writes(u) \/ Version(u) = v

\* Steps of which no sweep need know.
LEMMA SweepsUnaware ==
  ASSUME Shape, Shape', Countable, Tallied, IsFiniteSet(Existing'),
         \A t \in Tasks : Sweeps(t)' => Bystander(t),
         \A t \in Tasks : Sweeps(t)' /\ calm'[t] =>
           /\ \A u \in Tasks : Writes(u)' => Writes(u) \/ Version(u) # Version(t)
           /\ Shrinks(Version(t))
  PROVE  Countable' /\ Tallied'
<1>1. Countable'
  BY DEF Countable, Bystander
<1>2. Tallied'
  BY SweepUnaware DEF Tallied, Bystander
<1> QED
  BY <1>1, <1>2

LEMMA OverLeavesOthers ==
  ASSUME NEW T, Over(T)
  PROVE  /\ \A t \in Tasks : Sweeps(t)' => Bystander(t)
         /\ \A u \in Tasks : Writes(u)' => Writes(u)
BY DEF Over, Sweeps, Bystander, Writes

\* Files that go, lose their content or stay as they are.
LEMMA FilesShrink ==
  ASSUME Shape, Existing' \subseteq Existing,
         \A path \in Existing' : files'[path] \in {files[path], Garbage}
  PROVE  \A v : Shrinks(v)
<1> SUFFICES ASSUME NEW v, NEW path \in In(v)'
             PROVE  path \in In(v) /\ Bytes(files'[path]) <= Bytes(files[path])
  BY DEF Shrinks
<1>1. path \in Existing /\ path \in Existing' /\ path \in In(v)
  BY DEF In
<1>2. Bytes(files[path]) \in Nat
  BY <1>1, BytesAreNats
<1> QED
  BY <1>1, <1>2 DEF Bytes

\* Files of version w that come, go or change are no others'.
LEMMA OthersUnchanged ==
  ASSUME Shape, NEW w, NEW v, v # w,
         \A path \in Existing' : path[1] # w => path \in Existing /\ files'[path] = files[path]
  PROVE  Shrinks(v)
<1> SUFFICES ASSUME NEW path \in In(v)'
             PROVE  path \in In(v) /\ Bytes(files'[path]) <= Bytes(files[path])
  BY DEF Shrinks
<1>1. path \in Existing /\ path \in In(v) /\ files'[path] = files[path]
  BY DEF In
<1>2. Bytes(files[path]) \in Nat
  BY <1>1, BytesAreNats
<1> QED
  BY <1>1, <1>2

\* A sweep's own step: the other sweeps go on as they were.
LEMMA OwnStep ==
  ASSUME Shape, Shape', Countable, Tallied, NEW t \in Tasks,
         Existing' \subseteq Existing,
         \A path \in Existing' : files'[path] = files[path],
         \A u \in Tasks : Writes(u)' => Writes(u),
         \A u \in Tasks \ {t} : Sweeps(u)' => Bystander(u),
         Sweeps(t)' => /\ total'[t] \in Nat
                       /\ IsFiniteSet(DOMAIN listing'[t])
                       /\ \A path \in DOMAIN listing'[t] : listing'[t][path] \in Nat,
         Sweeps(t)' /\ calm'[t] => Reckoned(t)'
  PROVE  Countable' /\ Tallied'
<1>1. IsFiniteSet(Existing')
  BY FS_Subset DEF Countable
<1>2. \A v : Shrinks(v)
  BY FilesShrink
<1>3. Countable'
  BY <1>1 DEF Countable, Bystander
<1>4. \A u \in Tasks \ {t} : Sweeps(u)' /\ calm'[u] => Reckoned(u)'
  BY <1>2, SweepUnaware DEF Bystander
<1> QED
  BY <1>3, <1>4 DEF Tallied

LEMMA BeginListTallies ==
  ASSUME Shape, Shape', Unlisted, Countable, Tallied, NEW t \in Tasks, BeginList(t)
  PROVE  Countable' /\ Tallied'
<1>1. /\ pc[t] = "retire" /\ pc'[t] = "list" /\ listing'[t] = << >> /\ total'[t] = 0
      /\ due'[t] = In(Version(t)) /\ files' = files
      /\ calm'[t] => \A u \in Tasks : Writes(u) => Version(u) # Version(t)
  BY DEF BeginList, Goto, Unlisted, Sweeps, Shape, folder
<1>2. \A u \in Tasks \ {t} : Sweeps(u)' => Bystander(u)
  BY DEF BeginList, Goto, Sweeps, Bystander, Shape
<1>3. \A u \in Tasks : Writes(u)' => Writes(u)
  BY DEF BeginList, Goto, Writes, Shape
<1>4. DOMAIN listing'[t] = {}
  BY <1>1
<1>5. Known(t)' = {}
  BY <1>4 DEF Known, Pairs
<1>6. ASSUME calm'[t] PROVE Reckoned(t)'
  <2>1. \A u \in Tasks : Writes(u)' => Version(u)' # Version(t)'
    BY <1>1, <1>3, <1>6 DEF Version
  <2>2. In(Version(t))' = due'[t]
    BY <1>1 DEF In, Existing, Version
  <2>3. Cardinality(Known(t))' <= total'[t]
    BY <1>1, <1>5, FS_EmptySet
  <2> QED
    BY <1>1, <1>4, <2>1, <2>2, <2>3 DEF Reckoned
<1> QED
  BY <1>1, <1>2, <1>3, <1>4, <1>6, FS_EmptySet, OwnStep DEF Existing

LEMMA StatTallies ==
  ASSUME Shape, Shape', ListsOwn, Countable, Tallied, NEW t \in Tasks, Stat(t)
  PROVE  Countable' /\ Tallied'
<1>1. PICK path \in due[t] \cup In(Version(t)) :
        /\ path \notin DOMAIN listing[t]
        /\ due' = [due EXCEPT ![t] = @ \ {path}]
        /\ IF path \in Existing THEN Listed(t, path) ELSE UNCHANGED <<listing, total, age>>
  BY DEF Stat
<1>2. /\ pc' = pc /\ pc[t] = "list" /\ calm' = calm /\ files' = files /\ Existing' = Existing
      /\ Sweeps(t) /\ due'[t] = due[t] \ {path}
  BY <1>1 DEF Stat, Sweeps, Existing, Shape
<1>3. path[1] = Version(t)
  BY <1>2 DEF ListsOwn, In
<1>4. \A u \in Tasks \ {t} : Sweeps(u)' => Bystander(u)
  BY <1>1, <1>2 DEF Listed, Bystander, Sweeps, Shape
<1>5. \A u \in Tasks : Writes(u)' <=> Writes(u)
  BY <1>2 DEF Writes
<1>6. /\ \A q : In(q)' = In(q)
      /\ \A q \in Existing : Bytes(files[q])' = Bytes(files[q])
      /\ \A u \in Tasks : Version(u)' = Version(u)
  BY <1>2 DEF In, Bytes, Version
<1>7. total[t] \in Nat /\ IsFiniteSet(DOMAIN listing[t])
      /\ \A q \in DOMAIN listing[t] : listing[t][q] \in Nat
  BY <1>2 DEF Countable
<1>8. CASE path \notin Existing
  <2>1. listing' = listing /\ total' = total
    BY <1>1, <1>8
  <2>2. path \notin In(Version(t)) /\ Known(t)' = Known(t)
    BY <1>8, <2>1 DEF In, Known
  <2>3. ASSUME calm[t] PROVE Reckoned(t)'
    <3>1. Reckoned(t)
      BY <1>2, <2>3 DEF Tallied
    <3>2. In(Version(t)) \subseteq due'[t] \cup DOMAIN listing[t]
      BY <1>2, <2>2, <3>1 DEF Reckoned
    <3>3. \A q \in In(Version(t)) : q \in Existing
      BY DEF In
    <3> QED
      BY <1>2, <1>5, <1>6, <2>1, <2>2, <3>1, <3>2, <3>3 DEF Reckoned
  <2> QED
    BY <1>2, <1>4, <1>5, <1>7, <2>1, <2>3, OwnStep
<1>9. CASE path \in Existing
  <2> DEFINE b == Bytes(files[path])
             chunk == {path} \X (1..b)
  <2>1. b \in Nat
    BY <1>9, BytesAreNats
  <2>2. /\ DOMAIN listing'[t] = DOMAIN listing[t] \cup {path}
        /\ listing'[t][path] = b
        /\ \A q \in DOMAIN listing[t] : listing'[t][q] = listing[t][q]
        /\ total'[t] = total[t] + b
    BY <1>1, <1>9 DEF Listed, Shape
  <2>3. IsFiniteSet(DOMAIN listing'[t])
    BY <1>7, <2>2, FS_AddElement
  <2>4. total'[t] \in Nat /\ \A q \in DOMAIN listing'[t] : listing'[t][q] \in Nat
    BY <1>7, <2>1, <2>2
  <2>5. Known(t)' = Known(t) \cup chunk
    <3>1. Known(t)' = Pairs(DOMAIN listing'[t], listing'[t])
      BY DEF Known, Pairs
    <3>2. Pairs(DOMAIN listing'[t], listing'[t]) = Pairs(DOMAIN listing[t], listing[t]) \cup chunk
      BY <1>1, <2>2 DEF Pairs
    <3> QED
      BY <3>1, <3>2 DEF Known
  <2>6. ASSUME calm[t] PROVE Reckoned(t)'
    <3>1. Reckoned(t)
      BY <1>2, <2>6 DEF Tallied
    <3>2. Cardinality(Known(t) \cup chunk) <= total[t] + b
      <4>1. IsFiniteSet(chunk) /\ Cardinality(chunk) = b
        BY <2>1, PairsOfOne
      <4>2. IsFiniteSet(Known(t)) /\ Cardinality(Known(t)) \in Nat
        BY <1>2, CoveredFinite
      <4>3. /\ Cardinality(Known(t) \cup chunk)
                 = Cardinality(Known(t)) + Cardinality(chunk) - Cardinality(Known(t) \cap chunk)
            /\ Cardinality(Known(t) \cap chunk) \in Nat
        <5> HIDE DEF chunk
        <5> QED
          BY <4>1, <4>2, FS_Union, FS_Intersection, FS_CardinalityType
      <4>4. Cardinality(Known(t)) <= total[t]
        BY <1>2, <3>1 DEF Reckoned
      <4> HIDE DEF chunk, b
      <4> QED
        BY <1>7, <2>1, <4>1, <4>2, <4>3, <4>4
    <3>3. In(Version(t)) \subseteq due'[t] \cup DOMAIN listing'[t]
      BY <1>2, <2>2, <3>1 DEF Reckoned
    <3>4. \A q \in In(Version(t)) \cap DOMAIN listing'[t] : Bytes(files[q]) <= listing'[t][q]
      BY <2>1, <2>2, <3>1 DEF Reckoned
    <3>5. \A q \in In(Version(t)) : q \in Existing
      BY DEF In
    <3>6. Cardinality(Known(t))' <= total'[t]
      BY <2>2, <2>5, <3>2
    <3> HIDE DEF chunk, b
    <3> QED
      BY <1>2, <1>5, <1>6, <3>1, <3>3, <3>4, <3>5, <3>6 DEF Reckoned
  <2> QED
    BY <1>2, <1>4, <1>5, <2>3, <2>4, <2>6, OwnStep
<1> QED
  BY <1>8, <1>9

LEMMA EndListTallies ==
  ASSUME Shape, Shape', Countable, Tallied, NEW t \in Tasks, EndList(t), ~Over({t})
  PROVE  Countable' /\ Tallied'
<1>1. /\ pc[t] = "list" /\ due[t] = {} /\ pc'[t] = "evict" /\ UNCHANGED sweeps
      /\ files' = files /\ Existing' = Existing /\ Sweeps(t)
      /\ \A u \in Tasks \ {t} : pc'[u] = pc[u]
  BY DEF EndList, Existing, folder, Sweeps, Shape
<1>2. \A u \in Tasks \ {t} : Sweeps(u)' => Bystander(u)
  BY <1>1 DEF sweeps, Sweeps, Bystander
<1>3. \A u \in Tasks : Writes(u)' => Writes(u)
  BY <1>1 DEF Writes
<1>4. /\ listing' = listing /\ total' = total /\ calm' = calm
      /\ Known(t)' = Known(t) /\ BytesIn(Version(t))' = BytesIn(Version(t))
      /\ In(Version(t))' = In(Version(t))
      /\ \A u \in Tasks : Version(u)' = Version(u)
      /\ \A q \in Existing : Bytes(files[q])' = Bytes(files[q])
  BY <1>1 DEF sweeps, Known, BytesIn, In, Version, Bytes
<1>5. ASSUME calm[t] PROVE Reckoned(t)'
  <2>1. Reckoned(t)
    BY <1>1, <1>5 DEF Tallied
  <2>2. BytesIn(Version(t)) \subseteq Known(t)
    <3> SUFFICES ASSUME NEW path \in In(Version(t)), NEW i \in 1..Bytes(files[path])
                 PROVE  <<path, i>> \in Known(t)
      BY DEF BytesIn
    <3>1. path \in DOMAIN listing[t] /\ path \in Existing
      BY <1>1, <2>1 DEF Reckoned, In
    <3>2. Bytes(files[path]) \in Nat /\ listing[t][path] \in Nat
      BY <1>1, <3>1, BytesAreNats DEF Countable
    <3>3. i \in 1..listing[t][path]
      BY <2>1, <3>1, <3>2 DEF Reckoned
    <3> QED
      BY <3>1, <3>3, InPairs DEF Known
  <2>3. Known(t) \cup BytesIn(Version(t)) = Known(t)
    BY <2>2
  <2>4. \A q \in In(Version(t)) : q \in Existing
    BY DEF In
  <2> QED
    BY <1>1, <1>3, <1>4, <2>1, <2>3, <2>4 DEF Reckoned
<1>6. /\ total[t] \in Nat /\ IsFiniteSet(DOMAIN listing[t])
      /\ \A path \in DOMAIN listing[t] : listing[t][path] \in Nat
  BY <1>1 DEF Countable
<1> QED
  BY <1>1, <1>2, <1>3, <1>4, <1>5, <1>6, OwnStep

\* The next file on the list is dealt with: it is gone and its bytes are subtracted,
\* or the tally stays.
LEMMA ComesTallies ==
  ASSUME Shape, Shape', Countable, Tallied, NEW t \in Tasks, pc' = pc, pc[t] = "evict",
         calm' = calm, due' = due, NEW path \in DOMAIN listing[t], Comes(t, path),
         Existing' \subseteq Existing, \A q \in Existing' : files'[q] = files[q],
         \A u \in Tasks \ {t} : total'[u] = total[u],
         \/ total'[t] = total[t]
         \/ total'[t] = Less(total[t], listing[t][path]) /\ path \notin Existing'
  PROVE  Countable' /\ Tallied'
<1> DEFINE L == listing[t][path]
           chunk == {path} \X (1..L)
           Before == Known(t) \cup BytesIn(Version(t))
           After == Known(t)' \cup BytesIn(Version(t))'
<1>1. Sweeps(t) /\ \A u \in Tasks : (Sweeps(u)' <=> Sweeps(u)) /\ (Writes(u)' <=> Writes(u))
  BY DEF Sweeps, Writes
<1>2. /\ listing'[t] = [q \in DOMAIN listing[t] \ {path} |-> listing[t][q]]
      /\ \A u \in Tasks \ {t} : Sweeps(u)' => Bystander(u)
  BY <1>1, ComesShortens DEF Bystander
<1>3. L \in Nat /\ total[t] \in Nat /\ IsFiniteSet(DOMAIN listing[t])
      /\ \A q \in DOMAIN listing[t] : listing[t][q] \in Nat
  BY <1>1 DEF Countable
<1>4. /\ total'[t] \in Nat /\ IsFiniteSet(DOMAIN listing'[t])
      /\ \A q \in DOMAIN listing'[t] : listing'[t][q] \in Nat
  <2>1. total'[t] \in Nat
    BY <1>3 DEF Less
  <2>2. DOMAIN listing'[t] = DOMAIN listing[t] \ {path}
    BY <1>2
  <2>3. IsFiniteSet(DOMAIN listing'[t])
    BY <1>3, <2>2, FS_RemoveElement
  <2> QED
    BY <1>2, <1>3, <2>1, <2>3
<1>5. ASSUME calm[t] PROVE Reckoned(t)'
  <2>1. Reckoned(t)
    BY <1>1, <1>5 DEF Tallied
  <2>2. BytesIn(Version(t))' \subseteq BytesIn(Version(t))
    BY FilesShrink, ShrunkBytes DEF BytesIn, In, Bytes, Version
  <2>3. Known(t)' \subseteq Known(t) /\ \A z \in Known(t)' : z[1] # path
    <3>1. Known(t)' = Pairs(DOMAIN listing'[t], listing'[t])
      BY DEF Known, Pairs
    <3>2. ASSUME NEW z \in Known(t)'
          PROVE  \E q \in DOMAIN listing[t] \ {path} : \E i \in 1..listing[t][q] : z = <<q, i>>
      BY <1>2, <3>1, <3>2, InPairs
    <3> QED
      BY <3>2, InPairs DEF Known
  <2>4. /\ IsFiniteSet(Before) /\ Cardinality(Before) \in Nat /\ Cardinality(Before) <= total[t]
        /\ After \in SUBSET Before
    BY <1>1, <2>1, <2>2, <2>3, CoveredFinite DEF Reckoned
  <2>5. IsFiniteSet(After) /\ Cardinality(After) \in Nat /\ Cardinality(After) <= Cardinality(Before)
    <3> HIDE DEF Before, After
    <3> QED
      BY <2>4, FS_Subset, FS_CardinalityType
  <2>6. Cardinality(After) <= total'[t]
    <3>1. CASE total'[t] = total[t]
      BY <1>3, <2>4, <2>5, <3>1
    <3>2. CASE total'[t] = Less(total[t], L) /\ path \notin Existing'
      <4>1. IsFiniteSet(chunk) /\ Cardinality(chunk) = L
        BY <1>3, PairsOfOne
      <4>2. chunk \subseteq Before
        BY InPairs DEF Known
      <4>3. \A z \in BytesIn(Version(t))' : z[1] # path
        BY <3>2 DEF BytesIn, In
      <4>4. After \cap chunk = {}
        <5>1. \A z \in chunk : z[1] = path
          OBVIOUS
        <5>2. \A z \in After : z[1] # path
          BY <2>3, <4>3
        <5> HIDE DEF chunk, After
        <5> QED
          BY <5>1, <5>2
      <4>5. After \cup chunk \in SUBSET Before
        BY <2>4, <4>2
      <4>6. Cardinality(After \cup chunk) <= Cardinality(Before)
        <5> HIDE DEF Before, After, chunk
        <5> QED
          BY <2>4, <4>5, FS_Subset
      <4>7. Cardinality(After \cup chunk) = Cardinality(After) + L
        <5> HIDE DEF After, chunk
        <5>1. Cardinality(After \cup chunk)
                = Cardinality(After) + Cardinality(chunk) - Cardinality(After \cap chunk)
          BY <2>5, <4>1, FS_Union
        <5>2. Cardinality(After \cap chunk) = 0
          BY <4>4, FS_EmptySet
        <5> QED
          BY <1>3, <2>5, <4>1, <5>1, <5>2
      <4> HIDE DEF Before, After, chunk, L
      <4> QED
        BY <1>3, <2>4, <2>5, <3>2, <4>6, <4>7 DEF Less
    <3> QED
      BY <3>1, <3>2
  <2>7. /\ In(Version(t))' \subseteq In(Version(t))
        /\ \A q \in In(Version(t))' : Bytes(files[q])' = Bytes(files[q])
        /\ \A u \in Tasks : Version(u)' = Version(u)
    BY DEF In, Bytes, Version
  <2>8. /\ DOMAIN listing'[t] \subseteq DOMAIN listing[t]
        /\ \A q \in DOMAIN listing'[t] : listing'[t][q] = listing[t][q]
    BY <1>2
  <2>9. /\ \A u \in Tasks : Writes(u)' => Version(u)' # Version(t)'
        /\ \A q \in In(Version(t))' \cap DOMAIN listing'[t] : Bytes(files[q])' <= listing'[t][q]
    BY <1>1, <2>1, <2>7, <2>8 DEF Reckoned
  <2> QED
    BY <2>6, <2>9 DEF Reckoned
<1> QED
  BY <1>1, <1>2, <1>4, <1>5, OwnStep

LEMMA ProceedTallies ==
  ASSUME Shape, Shape', Unlisted, ListsOwn, Countable, Tallied, NEW t \in Tasks, Proceed(t)
  PROVE  Countable' /\ Tallied'
<1>1. CASE /\ \A u \in Tasks : Sweeps(u)' => Bystander(u)
           /\ \A u \in Tasks : Writes(u)' => Writes(u)
           /\ Existing' \subseteq Existing
           /\ \A path \in Existing' : files'[path] = files[path]
  <2>1. IsFiniteSet(Existing')
    BY <1>1, FS_Subset DEF Countable
  <2>2. \A v : Shrinks(v)
    BY <1>1, FilesShrink
  <2> QED
    BY <1>1, <2>1, <2>2, SweepsUnaware
<1>2. CASE Touch(t) \/ Heal(t) \/ LeaveIt(t) \/ WriteFails(t) \/ RenameMisses(t) \/ ListFails(t)
           \/ EndSweep(t) \/ (EndList(t) /\ Over({t}))
  <2>1. Over({t})
    BY <1>2 DEF Touch, Heal, LeaveIt, WriteFails, RenameMisses, GiveUp, LeaveTemp, ListFails, EndSweep
  <2>2. CASE Touch(t)
    BY <1>1, <2>1, <2>2, OverLeavesOthers DEF Touch, Written, Existing
  <2>3. CASE ~Touch(t)
    <3>1. files' = files \/ \E P : Gone(P)
      BY <1>2, <2>3 DEF Heal, LeaveIt, WriteFails, RenameMisses, GiveUp, LeaveTemp, ListFails,
                        EndSweep, EndList, Unlinked, folder
    <3>2. /\ Existing' \subseteq Existing
          /\ \A path \in Existing' : files'[path] = files[path]
      BY <3>1 DEF Gone, Existing
    <3> QED
      BY <1>1, <2>1, <3>2, OverLeavesOthers
  <2> QED
    BY <2>2, <2>3
<1>10. CASE RetireFile(t) \/ RetireDir(t)
  <2>1. /\ Existing' \subseteq Existing
        /\ \A path \in Existing' : files'[path] = files[path]
    BY <1>10 DEF RetireFile, RetireDir, Unlinked, Gone, Existing
  <2>2. /\ \A u \in Tasks : Sweeps(u)' => Bystander(u)
        /\ \A u \in Tasks : Writes(u)' => Writes(u)
    BY <1>10 DEF RetireFile, RetireDir, locals, sweeps, Sweeps, Bystander, Writes
  <2> QED
    BY <1>1, <2>1, <2>2
<1>3. CASE Fill(t) \/ Rename(t)
  <2>1. /\ \A u \in Tasks : Sweeps(u)' => Bystander(u)
        /\ \A u \in Tasks : Writes(u)' => Writes(u)
    <3>1. CASE Over({t})
      BY <3>1, OverLeavesOthers
    <3>2. CASE ~Over({t})
      BY <1>3, <3>2 DEF Fill, Goto, Rename, sweeps, Sweeps, Bystander, Writes, Shape
    <3> QED
      BY <3>1, <3>2
  <2>2. Writes(t)
    BY <1>3 DEF Fill, Goto, Rename, Writes
  <2>3. ASSUME NEW u \in Tasks, Sweeps(u)', calm'[u] PROVE Shrinks(Version(u))
    <3>1. Version(u) # Version(t)
      BY <2>1, <2>2, <2>3 DEF Bystander, Tallied, Reckoned
    <3>2. \A path \in Existing' : path[1] # Version(t) => path \in Existing /\ files'[path] = files[path]
      BY <1>3 DEF Fill, Written, Rename, Renamed, ArgPath, EntryPath, OwnTemp, TempPath, Existing
    <3> QED
      BY <3>1, <3>2, OthersUnchanged
  <2>4. IsFiniteSet(Existing')
    <3>1. \E path : Existing' \subseteq Existing \cup {path}
      BY <1>3 DEF Fill, Written, Rename, Renamed, Existing
    <3> QED
      BY <3>1, FS_AddElement, FS_Subset DEF Countable
  <2> QED
    BY <2>1, <2>3, <2>4, SweepsUnaware
<1>4. CASE BeginList(t)
  BY <1>4, BeginListTallies
<1>5. CASE Stat(t)
  BY <1>5, StatTallies
<1>6. CASE StatFails(t)
  <2>1. /\ pc' = pc /\ listing' = listing /\ total' = total /\ files' = files /\ ~calm'[t]
        /\ \A u \in Tasks \ {t} : due'[u] = due[u] /\ calm'[u] = calm[u]
    BY <1>6 DEF StatFails, folder, Shape
  <2>2. /\ \A u \in Tasks \ {t} : Sweeps(u)' => Bystander(u)
        /\ \A u \in Tasks : Writes(u)' => Writes(u)
    BY <2>1 DEF Sweeps, Bystander, Writes
  <2>3. Sweeps(t) /\ total[t] \in Nat /\ IsFiniteSet(DOMAIN listing[t])
        /\ \A path \in DOMAIN listing[t] : listing[t][path] \in Nat
    BY <1>6 DEF StatFails, Sweeps, Countable
  <2> QED
    BY <2>1, <2>2, <2>3, OwnStep DEF Existing
<1>7. CASE EndList(t) /\ ~Over({t})
  BY <1>7, EndListTallies
<1>8. CASE Evict(t)
  <2>1. PICK path \in DOMAIN listing[t] :
          /\ Comes(t, path)
          /\ Gone({path})
          /\ total' = [total EXCEPT ![t] =
                        IF path \in Existing THEN Less(@, listing[t][path]) ELSE @]
    BY <1>8 DEF Evict
  <2>2. pc' = pc /\ calm' = calm /\ due' = due /\ pc[t] = "evict"
    BY <1>8 DEF Evict, Evicting
  <2>3. /\ Existing' = Existing \ {path}
        /\ \A q \in Existing' : files'[q] = files[q]
    BY <2>1 DEF Gone, Existing
  <2>4. /\ \A u \in Tasks \ {t} : total'[u] = total[u]
        /\ \/ total'[t] = total[t]
           \/ total'[t] = Less(total[t], listing[t][path]) /\ path \notin Existing'
    BY <2>1, <2>3 DEF Shape
  <2> QED
    BY <2>1, <2>2, <2>3, <2>4, ComesTallies
<1>9. CASE EvictFails(t)
  <2>1. PICK path \in DOMAIN listing[t] : Comes(t, path)
    BY <1>9 DEF EvictFails
  <2>2. /\ pc' = pc /\ calm' = calm /\ due' = due /\ pc[t] = "evict" /\ total' = total
        /\ files' = files
    BY <1>9 DEF EvictFails, Evicting
  <2> QED
    BY <2>1, <2>2, ComesTallies DEF Existing
<1> QED
  BY <1>2, <1>3, <1>4, <1>5, <1>6, <1>7, <1>8, <1>9, <1>10 DEF Proceed

LEMMA BeginTallies ==
  ASSUME Shape, Shape', Countable, Tallied, NEW t \in Tasks, Begin(t)
  PROVE  Countable' /\ Tallied'
<1>1. ASSUME NEW k \in Keys, GetHit(t, k) \/ GetGarbage(t, k) PROVE Countable' /\ Tallied'
  <2>1. /\ \A u \in Tasks : Sweeps(u)' => Bystander(u)
        /\ \A u \in Tasks : Writes(u)' => Writes(u)
    BY <1>1 DEF GetHit, GetGarbage, sweeps, Sweeps, Bystander, Writes, Shape
  <2>2. files' = files
    BY <1>1 DEF GetHit, GetGarbage, folder
  <2>3. \A v : Shrinks(v)
    BY <2>2, FilesShrink DEF Existing
  <2> QED
    BY <2>1, <2>2, <2>3, SweepsUnaware DEF Countable, Existing
<1>2. ASSUME NEW k \in Keys, NEW x \in Values, BeginPut(t, k, x) PROVE Countable' /\ Tallied'
  <2>1. /\ \A u \in Tasks : Sweeps(u)' => Bystander(u)
        /\ \A u \in Tasks : Writes(u)' => Writes(u) \/ u = t
        /\ \A u \in Tasks : Sweeps(u)' /\ calm'[u] => Version(u) # Version(t)
    BY <1>2 DEF BeginPut, Sweeps, Bystander, Writes, Shape
  <2>2. ASSUME NEW u \in Tasks, Sweeps(u)', calm'[u] PROVE Shrinks(Version(u))
    <3>1. \A path \in Existing' : path[1] # Version(t) => path \in Existing /\ files'[path] = files[path]
      BY <1>2 DEF BeginPut, Written, TempPath, Existing
    <3> QED
      BY <2>1, <2>2, <3>1, OthersUnchanged
  <2>3. IsFiniteSet(Existing')
    <3>1. \E path : Existing' = Existing \cup {path}
      BY <1>2 DEF BeginPut, Written, Existing
    <3> QED
      BY <3>1, FS_AddElement DEF Countable
  <2> QED
    BY <2>1, <2>2, <2>3, SweepsUnaware
<1> QED
  BY <1>1, <1>2 DEF Begin

LEMMA StepTallies ==
  ASSUME Shape, Unlisted, ListsOwn, Countable, Tallied, [Next]_vars
  PROVE  Countable' /\ Tallied'
<1>1. Shape'
  BY ShapeStays
<1>2. ASSUME NEW t \in Tasks, Begin(t) \/ Proceed(t) PROVE Countable' /\ Tallied'
  BY <1>1, <1>2, BeginTallies, ProceedTallies
<1>3. CASE (\E p \in Procs : Open(p) \/ OpenFails(p) \/ Kill(p)) \/ Clear \/ Damage \/ UNCHANGED vars
  <2>1. /\ Existing' \subseteq Existing
        /\ \A path \in Existing' : files'[path] \in {files[path], Garbage}
    BY <1>3 DEF Open, OpenFails, Kill, Clear, BeginClear, ClearFile, ClearDir, EndClear, Damage,
                Unlinked, Gone, vars, folder, Existing
  <2>2. /\ \A u \in Tasks : Sweeps(u)' => Bystander(u)
        /\ \A u \in Tasks : Writes(u)' => Writes(u)
    <3>1. (\E T : Over(T)) \/ UNCHANGED locals
      BY <1>3 DEF Open, OpenFails, Kill, Clear, BeginClear, ClearFile, ClearDir, EndClear, Damage,
                  vars
    <3> QED
      BY <3>1, OverLeavesOthers DEF locals, sweeps, Sweeps, Bystander, Writes
  <2>3. IsFiniteSet(Existing') /\ \A v : Shrinks(v)
    BY <2>1, FS_Subset, FilesShrink DEF Countable
  <2> QED
    BY <1>1, <2>2, <2>3, SweepsUnaware
<1> QED
  BY <1>2, <1>3 DEF Next

LEMMA FiniteAtFirst == Init => IsFiniteSet(Existing)
<1> SUFFICES ASSUME Init PROVE IsFiniteSet(LeftPaths)
  BY DEF Init, Existing
<1> DEFINE f == [v \in Leftovers |-> TempPath(v, 0)]
<1>1. f \in Surjection(Leftovers, LeftPaths)
  BY DEF Surjection, LeftPaths
<1> QED
  BY <1>1, LeftoversAreFinite, FS_Surjection

\* A sweep that stops under budget has reason to, in bytes, whatever else happens to
\* the files while it is at it, unless a put adds to the store or a file's length is
\* withheld from it (sweep, "evict until the store is back under budget").
THEOREM SweepsKeepTally == Spec => []TallyCoversStore
<1> DEFINE Inv == Shape /\ Unlisted /\ ListsOwn /\ Countable /\ Tallied
<1>1. Init => Inv
  BY ShapeAtFirst, FiniteAtFirst DEF Init, Unlisted, ListsOwn, Countable, Tallied, Sweeps
<1>2. Inv /\ [Next]_vars => Inv'
  BY ShapeStays, StepKeepsUnlisted, StepKeepsListings, StepTallies
<1>3. Inv => TallyCoversStore
  <2> SUFFICES ASSUME Inv, NEW t \in Tasks, pc[t] = "evict", calm[t]
               PROVE  Cardinality(BytesIn(Version(t))) <= total[t]
    BY DEF TallyCoversStore
  <2> DEFINE B == BytesIn(Version(t))
             S == Known(t) \cup B
  <2>1. Sweeps(t) /\ Reckoned(t)
    BY DEF Sweeps, Tallied
  <2>2. IsFiniteSet(S) /\ Cardinality(S) \in Nat /\ Cardinality(S) <= total[t] /\ total[t] \in Nat
    BY <2>1, CoveredFinite DEF Reckoned, Countable
  <2>3. Cardinality(B) \in Nat /\ Cardinality(B) <= Cardinality(S)
    <3>1. B \in SUBSET S
      OBVIOUS
    <3> HIDE DEF S, B
    <3> QED
      BY <2>2, <3>1, FS_Subset, FS_CardinalityType
  <2> QED
    BY <2>2, <2>3
<1> QED
  BY <1>1, <1>2, <1>3, PTL DEF Spec
=============================================================================

------------------------- MODULE IndexFreshnessProofs -------------------------
(***************************************************************************)
(* What a refresh check promises of the index, for every tree, list of     *)
(* projects, page size, threshold and number of explorations: proofs about *)
(* IndexFreshness.                                                         *)
(***************************************************************************)
EXTENDS IndexFreshness, FiniteSetTheorems, TLAPS

-----------------------------------------------------------------------------
(* Changed files as a list.                                                *)

\* A finite set as a list has its elements, and as many.
LEMMA ListOfSet ==
  ASSUME NEW S, IsFiniteSet(S)
  PROVE  /\ Range(SetToSeq(S)) = S
         /\ Len(SetToSeq(S)) = Cardinality(S) /\ Cardinality(S) \in Nat
<1> DEFINE n == Cardinality(S)
           s == SetToSeq(S)
<1>1. n \in Nat /\ ExistsBijection(1..n, S)
  BY FS_CardinalityType
<1>2. \E f \in [1..n -> S] : IsInjective(f)
  BY <1>1 DEF ExistsBijection, Bijection, Injection
<1>3. s \in [1..n -> S] /\ IsInjective(s)
  BY <1>2 DEF SetToSeq
<1>4. IsFiniteSet(1..n) /\ Cardinality(1..n) = n
  BY <1>1, FS_Interval
<1>5. s \in Surjection(1..n, S)
  BY <1>3, <1>4, FS_Injection DEF Injection
<1>6. Range(s) = S
  BY <1>3, <1>5 DEF Range, Surjection
<1>7. s \in Seq(S) /\ Len(s) = n
  BY <1>1, <1>3
<1> QED
  BY <1>1, <1>6, <1>7

LEMMA ChangedAreFinite == IsFiniteSet(ChangedFiles(tree))
BY FilesAreFinite, FS_Subset DEF ChangedFiles

-----------------------------------------------------------------------------
(* Types.                                                                  *)

IsRun(x) ==
  x = [pc |-> x.pc, goal |-> x.goal, fp |-> x.fp, at |-> x.at, rows |-> x.rows,
       offset |-> x.offset, name |-> x.name, status |-> x.status, files |-> x.files,
       quiet |-> x.quiet]

IsMark(m) == m = [fp |-> m.fp, at |-> m.at, name |-> m.name, quiet |-> m.quiet]

\* An index is not from the future, and its generation is not from after its
\* last refresh.
IsIndex(i) ==
  /\ i.generation \in Nat /\ i.refreshed \in Nat
  /\ i.generation <= i.refreshed /\ i.refreshed <= clock

Shape ==
  /\ clock \in Nat /\ tree \in Trees
  /\ DOMAIN run = Runs /\ \A r \in Runs : IsRun(run[r])
  /\ mark # Missing => IsMark(mark)
  /\ DOMAIN upstream = Names
  /\ \A n \in Names : upstream[n] # Missing => IsIndex(upstream[n])

\* A run's record after one assignment.
LEMMA Fields ==
  ASSUME NEW x, IsRun(x), NEW a
  PROVE  /\ [x EXCEPT !.pc = a] =
              [pc |-> a, goal |-> x.goal, fp |-> x.fp, at |-> x.at, rows |-> x.rows,
               offset |-> x.offset, name |-> x.name, status |-> x.status, files |-> x.files,
               quiet |-> x.quiet]
         /\ [x EXCEPT !.status = a] =
              [pc |-> x.pc, goal |-> x.goal, fp |-> x.fp, at |-> x.at, rows |-> x.rows,
               offset |-> x.offset, name |-> x.name, status |-> a, files |-> x.files,
               quiet |-> x.quiet]
BY DEF IsRun

\* ... and after two.
LEMMA TwoFields ==
  ASSUME NEW x, IsRun(x), NEW a, NEW b
  PROVE  /\ [x EXCEPT !.pc = a, !.name = b] =
              [pc |-> a, goal |-> x.goal, fp |-> x.fp, at |-> x.at, rows |-> x.rows,
               offset |-> x.offset, name |-> b, status |-> x.status, files |-> x.files,
               quiet |-> x.quiet]
         /\ [x EXCEPT !.status = b, !.pc = a] =
              [pc |-> a, goal |-> x.goal, fp |-> x.fp, at |-> x.at, rows |-> x.rows,
               offset |-> x.offset, name |-> x.name, status |-> b, files |-> x.files,
               quiet |-> x.quiet]
         /\ [x EXCEPT !.pc = a, !.files = b] =
              [pc |-> a, goal |-> x.goal, fp |-> x.fp, at |-> x.at, rows |-> x.rows,
               offset |-> x.offset, name |-> x.name, status |-> x.status, files |-> b,
               quiet |-> x.quiet]
<1> DEFINE p == [x EXCEPT !.pc = a]
           q == [x EXCEPT !.status = b]
<1>1. [p EXCEPT !.name = b] = [x EXCEPT !.pc = a, !.name = b]
  OBVIOUS
<1>2. [q EXCEPT !.pc = a] = [x EXCEPT !.status = b, !.pc = a]
  OBVIOUS
<1>3. [p EXCEPT !.files = b] = [x EXCEPT !.pc = a, !.files = b]
  OBVIOUS
<1>4. p = [pc |-> a, goal |-> x.goal, fp |-> x.fp, at |-> x.at, rows |-> x.rows,
           offset |-> x.offset, name |-> x.name, status |-> x.status, files |-> x.files,
           quiet |-> x.quiet]
  BY Fields
<1>5. q = [pc |-> x.pc, goal |-> x.goal, fp |-> x.fp, at |-> x.at, rows |-> x.rows,
           offset |-> x.offset, name |-> x.name, status |-> b, files |-> x.files,
           quiet |-> x.quiet]
  BY Fields
<1> HIDE DEF p, q
<1>6. [p EXCEPT !.name = b] =
            [pc |-> a, goal |-> x.goal, fp |-> x.fp, at |-> x.at,
             rows |-> x.rows, offset |-> x.offset, name |-> b, status |-> x.status,
             files |-> x.files, quiet |-> x.quiet]
  BY ONLY <1>4
<1>7. [q EXCEPT !.pc = a] =
            [pc |-> a, goal |-> x.goal, fp |-> x.fp, at |-> x.at,
             rows |-> x.rows, offset |-> x.offset, name |-> x.name, status |-> b,
             files |-> x.files, quiet |-> x.quiet]
  BY ONLY <1>5
<1>8. [p EXCEPT !.files = b] =
            [pc |-> a, goal |-> x.goal, fp |-> x.fp, at |-> x.at,
             rows |-> x.rows, offset |-> x.offset, name |-> x.name, status |-> x.status,
             files |-> b, quiet |-> x.quiet]
  BY ONLY <1>4
<1> QED
  BY ONLY <1>1, <1>2, <1>3, <1>6, <1>7, <1>8

-----------------------------------------------------------------------------
(* The inductive invariant. x is the record of a run.                      *)

\* What a run knows of tree and index: while all holds still, its fingerprint is
\* of the tree, the changes it was told are all there are, and what it had built
\* is there.
RunKnows(x) ==
  /\ x.quiet /\ x.fp # Missing => x.fp = tree
  /\ x.pc = "coverage" =>
       /\ IsFiniteSet(x.files) /\ x.files # {}
       /\ x.quiet => x.files = ChangedFiles(tree)
  /\ x.pc = "answer" /\ x.quiet => Exists(Assigned) /\ upstream[Assigned].tree = tree

\* The time at that the index n may be asked for: it is not from the future, and
\* whoever has built the index since, it is not older.
IsTimeOf(at, n) ==
  /\ at \in Nat /\ at <= clock
  /\ Exists(n) => at <= upstream[n].refreshed

\* What a run knows of times.
RunIsTimely(x) ==
  /\ x.pc = "answer" /\ Exists(Assigned) => upstream[Assigned].refreshed = clock
  /\ x.pc \in {"changes", "coverage"} /\ x.status.indexedAt # Missing
       => IsTimeOf(x.status.indexedAt, x.name)

\* The same of what the process remembers.
ReindexedIsTimely == lastReindexed # Missing => IsTimeOf(lastReindexed, Assigned)

Inv ==
  /\ Shape /\ ReindexedIsTimely /\ MarkVouches
  /\ \A r \in Runs : RunKnows(run[r]) /\ RunIsTimely(run[r])

LEMMA AtFirst == Init => Inv
<1> SUFFICES ASSUME Init PROVE Inv
  OBVIOUS
<1>1. /\ clock = 0 /\ tree \in Trees /\ mark = Missing /\ lastReindexed = Missing
      /\ run = [r \in Runs |-> Idle]
      /\ DOMAIN upstream = Names
      /\ \A n \in Names : upstream[n] # Missing =>
           upstream[n] = [tree |-> tree, generation |-> 0, refreshed |-> 0]
  BY DEF Init, Trees
<1>2. IsRun(Idle) /\ Idle.pc = "idle" /\ Idle.fp = Missing
  BY DEF IsRun, Idle
<1>3. Shape
  BY <1>1, <1>2 DEF Shape, IsIndex
<1>4. \A r \in Runs : RunKnows(run[r]) /\ RunIsTimely(run[r])
  BY <1>1, <1>2 DEF RunKnows, RunIsTimely
<1> QED
  BY <1>1, <1>3, <1>4 DEF Inv, ReindexedIsTimely, MarkVouches

-----------------------------------------------------------------------------
(* Outside the program.                                                    *)

\* A run that is disturbed keeps everything but its quiet.
LEMMA Disturbing ==
  ASSUME NEW x, IsRun(x), NEW y, y = [x EXCEPT !.quiet = FALSE]
  PROVE  /\ IsRun(y) /\ y.quiet = FALSE
         /\ y.pc = x.pc /\ y.files = x.files /\ y.status = x.status /\ y.name = x.name
<1>1. y = [pc |-> x.pc, goal |-> x.goal, fp |-> x.fp, at |-> x.at, rows |-> x.rows,
           offset |-> x.offset, name |-> x.name, status |-> x.status, files |-> x.files,
           quiet |-> FALSE]
  BY DEF IsRun
<1> QED
  BY <1>1 DEF IsRun

LEMMA EditKeeps == ASSUME Inv, NEW f \in Files, Edit(f) PROVE Inv'
<1>1. \A r \in Runs : run'[r] = [run[r] EXCEPT !.quiet = FALSE]
  BY DEF Edit, DisturbAll, Disturbed, Inv, Shape
<1>2. /\ UNCHANGED <<clock, upstream, lastReindexed, mark>>
      /\ DOMAIN run' = Runs /\ tree' \in Trees
  BY DEF Edit, DisturbAll, Inv, Shape, Trees
<1>3. \A r \in Runs : /\ IsRun(run'[r]) /\ run'[r].quiet = FALSE
                      /\ run'[r].pc = run[r].pc /\ run'[r].files = run[r].files
                      /\ run'[r].status = run[r].status /\ run'[r].name = run[r].name
  <2> TAKE r \in Runs
  <2>1. IsRun(run[r]) /\ run'[r] = [run[r] EXCEPT !.quiet = FALSE]
    BY <1>1 DEF Inv, Shape
  <2> QED
    BY ONLY <2>1, Disturbing
<1>4. Shape'
  BY <1>2, <1>3 DEF Inv, Shape, IsIndex
<1>5. ASSUME NEW r \in Runs PROVE RunKnows(run[r])' /\ RunIsTimely(run[r])'
  <2>1. RunKnows(run[r]) /\ RunIsTimely(run[r])
    BY DEF Inv
  <2> QED
    BY <1>2, <1>3, <2>1 DEF RunKnows, RunIsTimely, IsTimeOf, Exists
<1> QED
  BY <1>2, <1>4, <1>5 DEF Inv, ReindexedIsTimely, IsTimeOf, MarkVouches, Covers, Exists

LEMMA TickKeeps == ASSUME Inv, Tick PROVE Inv'
<1>1. /\ UNCHANGED <<tree, upstream, lastReindexed, mark, run>>
      /\ clock' = clock + 1 /\ \A r \in Runs : run[r].pc # "answer"
  BY DEF Tick
<1>2. \A at, n : IsTimeOf(at, n) => IsTimeOf(at, n)'
  BY <1>1 DEF Inv, Shape, IsTimeOf, Exists
<1>3. Shape'
  BY <1>1 DEF Inv, Shape, IsIndex
<1>4. ASSUME NEW r \in Runs PROVE RunKnows(run[r])' /\ RunIsTimely(run[r])'
  <2>1. RunKnows(run[r]) /\ RunIsTimely(run[r]) /\ run[r].pc # "answer" /\ run'[r] = run[r]
    BY <1>1 DEF Inv
  <2>2. RunKnows(run[r])'
    BY <1>1, <2>1 DEF RunKnows, ChangedFiles
  <2>3. RunIsTimely(run[r])'
    BY <1>2, <2>1 DEF RunIsTimely
  <2> QED
    BY <2>2, <2>3
<1>5. ReindexedIsTimely'
  BY <1>1, <1>2 DEF Inv, ReindexedIsTimely
<1> QED
  BY <1>1, <1>3, <1>4, <1>5 DEF Inv, MarkVouches, Covers, Exists, ChangedFiles

\* An index that is brought up to the tree is as new as can be.
LEMMA BroughtUpIsNew ==
  ASSUME Shape, NEW n \in Names
  PROVE  /\ IsIndex(BroughtUp(n)) /\ BroughtUp(n).refreshed = clock
         /\ BroughtUp(n).tree = tree /\ BroughtUp(n) # Missing
<1>1. IsIndex(BroughtUp(n)) /\ BroughtUp(n).refreshed = clock /\ BroughtUp(n).tree = tree
  BY DEF Shape, IsIndex, BroughtUp, Exists
<1>2. BroughtUp(n) \in [tree : Trees, generation : Nat, refreshed : Nat]
  BY DEF Shape, IsIndex, BroughtUp, Exists
<1> QED
  BY <1>1, <1>2, MissingIsNoData

\* One index is lost, or brought up to the tree.
LEMMA IndexMoves ==
  ASSUME Inv, NEW n \in Names, NEW index,
         index = Missing \/ index = BroughtUp(n),
         upstream' = [upstream EXCEPT ![n] = index], clock' = clock
  PROVE  /\ DOMAIN upstream' = Names
         /\ \A m \in Names : upstream'[m] # Missing => IsIndex(upstream[m])'
         /\ \A at, m : IsTimeOf(at, m) => IsTimeOf(at, m)'
<1>1. DOMAIN upstream' = Names /\ \A m \in Names : upstream'[m] = IF m = n THEN index ELSE upstream[m]
  BY DEF Inv, Shape
<1>2. index # Missing => IsIndex(index) /\ index.refreshed = clock
  BY BroughtUpIsNew DEF Inv
<1>3. \A m \in Names : upstream'[m] # Missing => IsIndex(upstream[m])'
  BY <1>1, <1>2 DEF Inv, Shape, IsIndex
<1>4. ASSUME NEW at, NEW m, IsTimeOf(at, m) PROVE IsTimeOf(at, m)'
  BY <1>1, <1>2, <1>4 DEF IsTimeOf, Exists
<1> QED
  BY <1>1, <1>3, <1>4

\* A mark loses its quiet with any move of an index.
LEMMA MarkDisturbed ==
  ASSUME Inv, mark' = DisturbMark
  PROVE  mark' # Missing => IsMark(mark') /\ mark'.quiet = FALSE
BY DEF Inv, Shape, IsMark, DisturbMark

LEMMA OutsideKeeps ==
  ASSUME Inv, NEW n \in Names, NEW index, Outside(n, index),
         index = Missing \/ index = BroughtUp(n)
  PROVE  Inv'
<1>1. /\ upstream' = [upstream EXCEPT ![n] = index]
      /\ UNCHANGED <<tree, clock, lastReindexed>>
      /\ mark' = DisturbMark /\ run' = DisturbAll
  BY DEF Outside
<1>2. DOMAIN run' = Runs /\ \A r \in Runs : run'[r] = [run[r] EXCEPT !.quiet = FALSE]
  BY <1>1 DEF DisturbAll, Disturbed, Inv, Shape
<1>3. \A r \in Runs : /\ IsRun(run'[r]) /\ run'[r].quiet = FALSE
                      /\ run'[r].pc = run[r].pc /\ run'[r].files = run[r].files
                      /\ run'[r].status = run[r].status /\ run'[r].name = run[r].name
  <2> TAKE r \in Runs
  <2>1. IsRun(run[r]) /\ run'[r] = [run[r] EXCEPT !.quiet = FALSE]
    BY <1>2 DEF Inv, Shape
  <2> QED
    BY ONLY <2>1, Disturbing
<1>4. /\ DOMAIN upstream' = Names
      /\ \A m \in Names : upstream'[m] # Missing => IsIndex(upstream[m])'
      /\ \A at, m : IsTimeOf(at, m) => IsTimeOf(at, m)'
  BY <1>1, IndexMoves
<1>5. mark' # Missing => IsMark(mark') /\ mark'.quiet = FALSE
  BY <1>1, MarkDisturbed
<1>6. Shape'
  BY <1>1, <1>2, <1>3, <1>4, <1>5 DEF Inv, Shape, IsRun, IsMark
<1>7. ASSUME NEW r \in Runs PROVE RunKnows(run[r])' /\ RunIsTimely(run[r])'
  <2>1. RunKnows(run[r]) /\ RunIsTimely(run[r])
    BY DEF Inv
  <2>2. RunKnows(run[r])'
    BY <1>1, <1>3, <2>1 DEF RunKnows
  <2>3. run'[r].pc = "answer" /\ Exists(Assigned)' => upstream'[Assigned].refreshed = clock'
    BY <1>1, <1>3, <2>1, BroughtUpIsNew DEF Inv, Shape, RunIsTimely, Exists
  <2>4. run'[r].pc \in {"changes", "coverage"} /\ run'[r].status.indexedAt # Missing
          => IsTimeOf(run[r].status.indexedAt, run[r].name)'
    BY <1>3, <1>4, <2>1 DEF RunIsTimely
  <2> QED
    BY <2>2, <2>3, <2>4 DEF RunIsTimely
<1>8. ReindexedIsTimely'
  BY <1>1, <1>4 DEF Inv, ReindexedIsTimely
<1> QED
  BY <1>5, <1>6, <1>7, <1>8 DEF Inv, MarkVouches

-----------------------------------------------------------------------------
(* The steps of a run.                                                     *)

\* A run takes a step that neither tree nor index notices.
LEMMA RunMoves ==
  ASSUME Inv, NEW r \in Runs, NEW next,
         IsRun(next), RunKnows(next), RunIsTimely(next),
         run' = [run EXCEPT ![r] = next], UNCHANGED <<tree, clock, upstream>>,
         lastReindexed' = lastReindexed \/ IsTimeOf(lastReindexed', Assigned),
         \/ mark' = mark
         \/ IsMark(mark') /\ (mark'.quiet => Covers(mark'.name, mark'.fp))
  PROVE  Inv'
<1>1. DOMAIN run' = Runs /\ \A q \in Runs : run'[q] = IF q = r THEN next ELSE run[q]
  BY DEF Inv, Shape
<1>2. Shape'
  BY <1>1 DEF Inv, Shape, IsIndex
<1>3. ASSUME NEW q \in Runs PROVE RunKnows(run[q])' /\ RunIsTimely(run[q])'
  <2>1. RunKnows(run'[q]) /\ RunIsTimely(run'[q])
    BY <1>1 DEF Inv
  <2> QED
    BY <2>1 DEF RunKnows, RunIsTimely, IsTimeOf, Exists, ChangedFiles
<1>4. ReindexedIsTimely'
  BY DEF Inv, ReindexedIsTimely, IsTimeOf, Exists
<1>5. MarkVouches'
  BY DEF Inv, MarkVouches, Covers, Exists, ChangedFiles
<1> QED
  BY <1>2, <1>3, <1>4, <1>5 DEF Inv

\* At the other stages a run knows no more than its fingerprint.
LEMMA OtherStages ==
  ASSUME NEW x, x.pc \notin {"changes", "coverage", "answer"}, x.quiet /\ x.fp # Missing => x.fp = tree
  PROVE  RunKnows(x) /\ RunIsTimely(x)
BY DEF RunKnows, RunIsTimely

\* ... which it keeps from stage to stage.
LEMMA Onward ==
  ASSUME Inv, NEW r \in Runs, NEW next, IsRun(next),
         next.pc \notin {"changes", "coverage", "answer"},
         next.fp = run[r].fp, next.quiet = run[r].quiet,
         Continue(r, next), UNCHANGED lastReindexed,
         UNCHANGED mark
  PROVE  Inv'
<1>1. RunKnows(next) /\ RunIsTimely(next)
  BY OtherStages DEF Inv, RunKnows
<1> QED
  BY <1>1, RunMoves DEF Continue

LEMMA IdleKnows == IsRun(Idle) /\ RunKnows(Idle) /\ RunIsTimely(Idle)
<1>1. IsRun(Idle) /\ Idle.pc = "idle" /\ Idle.fp = Missing
  BY DEF IsRun, Idle
<1> QED
  BY <1>1, OtherStages

\* The end of a check, which may leave a mark.
LEMMA Ending ==
  ASSUME Inv, NEW r \in Runs, NEW status, Finish(r, status),
         lastReindexed' = lastReindexed \/ IsTimeOf(lastReindexed', Assigned),
         \/ mark' = mark
         \/ IsMark(mark') /\ (mark'.quiet => Covers(mark'.name, mark'.fp))
  PROVE  Inv'
BY IdleKnows, RunMoves DEF Finish

\* A check that begins is a run with its fingerprint.
LEMMA EnsuringIsRun ==
  ASSUME Inv, NEW r \in Runs
  PROVE  /\ IsRun(Ensuring(r)) /\ Ensuring(r).pc \in {"status", "list"}
         /\ Ensuring(r).fp = run[r].fp /\ Ensuring(r).quiet = run[r].quiet
<1>1. IsRun(run[r])
  BY DEF Inv, Shape
<1> QED
  BY <1>1 DEF IsRun, Ensuring

LEMMA StartKeeps == ASSUME Inv, NEW r \in Runs, Start(r) PROVE Inv'
<1>1. PICK next : /\ next = [Idle EXCEPT !.pc = "begun", !.fp = tree] \/ next = [Idle EXCEPT !.pc = "begun"]
                  /\ Continue(r, next)
  BY DEF Start
<1>2. IsRun(next) /\ next.pc = "begun" /\ next.fp \in {tree, Missing}
  BY <1>1 DEF IsRun, Idle
<1>3. RunKnows(next) /\ RunIsTimely(next)
  BY <1>2, OtherStages
<1> QED
  BY <1>1, <1>2, <1>3, RunMoves DEF Start, Continue, Undecided

LEMMA DecideKeeps == ASSUME Inv, NEW r \in Runs, Decide(r) PROVE Inv'
<1>1. IsRun(run[r]) /\ IsRun(Ensuring(r))
  BY EnsuringIsRun DEF Inv, Shape
<1>2. PICK next : /\ \/ next = [[run[r] EXCEPT !.at = clock] EXCEPT
                                  !.name = cachedName,
                                  !.pc = IF cachedName # Missing THEN "status" ELSE "list"]
                     \/ next = [Ensuring(r) EXCEPT !.at = clock]
                  /\ Continue(r, next)
  BY DEF Decide
<1>3. /\ IsRun(next) /\ next.pc \in {"status", "list"}
      /\ next.fp = run[r].fp /\ next.quiet = run[r].quiet
  <2>1. CASE next = [Ensuring(r) EXCEPT !.at = clock]
    BY <1>1, <2>1, EnsuringIsRun DEF IsRun
  <2>2. CASE next = [[run[r] EXCEPT !.at = clock] EXCEPT
                       !.name = cachedName,
                       !.pc = IF cachedName # Missing THEN "status" ELSE "list"]
    BY <1>1, <2>2 DEF IsRun
  <2> QED
    BY <1>2, <2>1, <2>2
<1> QED
  BY <1>2, <1>3, Onward DEF Decide, Undecided

LEMMA GiveUpKeeps ==
  ASSUME Inv, NEW r \in Runs, GiveUp(r), UNCHANGED <<lastReindexed, mark>> PROVE Inv'
<1>1. CASE Continue(r, Ensuring(r))
  BY <1>1, EnsuringIsRun, Onward
<1>2. CASE Finish(r, "Unavailable")
  BY <1>2, Ending
<1> QED
  BY <1>1, <1>2 DEF GiveUp

LEMMA ListPageKeeps == ASSUME Inv, NEW r \in Runs, ListPage(r) PROVE Inv'
<1>1. IsRun(run[r]) /\ run[r].pc = "list"
  BY DEF ListPage, Inv, Shape
<1> DEFINE page == Page(run[r].offset)
           rows == run[r].rows \o page
           matched == [run[r] EXCEPT !.rows = <<>>, !.offset = 0, !.name = MatchingRoot(rows, Spelling)]
<1>2. PICK next : /\ \/ next = [run[r] EXCEPT !.rows = rows, !.offset = @ + Len(page)]
                     \/ next = [matched EXCEPT !.pc = "status"]
                     \/ next = Ensuring(r)
                     \/ next = [matched EXCEPT !.pc = "index"]
                  /\ Continue(r, next)
  BY Zenon DEF ListPage
<1> HIDE DEF page, rows
<1>3. /\ IsRun(next) /\ next.pc \in {"list", "status", "index"}
      /\ next.fp = run[r].fp /\ next.quiet = run[r].quiet
  <2>1. CASE next = Ensuring(r)
    BY <2>1, EnsuringIsRun
  <2>2. CASE next = [run[r] EXCEPT !.rows = rows, !.offset = @ + Len(page)]
    BY <1>1, <2>2 DEF IsRun
  <2>3. CASE next = [matched EXCEPT !.pc = "status"] \/ next = [matched EXCEPT !.pc = "index"]
    BY <1>1, <2>3 DEF IsRun
  <2> QED
    BY <1>2, <2>1, <2>2, <2>3
<1> QED
  BY <1>2, <1>3, Onward DEF ListPage

-----------------------------------------------------------------------------
(* The probes and the decision.                                            *)

\* What the upstream reports of an index is a time of it.
LEMMA StatusIsTimely ==
  ASSUME Inv, NEW n, NEW status, status \in {StatusOf(n), GarbledStatus}
  PROVE  status.indexedAt # Missing => IsTimeOf(status.indexedAt, n)
<1>1. CASE Exists(n)
  <2>1. IsIndex(upstream[n])
    BY <1>1 DEF Inv, Shape, Exists
  <2>2. status.indexedAt \in {upstream[n].generation, Missing}
    BY <1>1 DEF StatusOf, GarbledStatus, StatusProbe
  <2> QED
    BY <2>1, <2>2 DEF IsIndex, IsTimeOf, Inv, Shape
<1>2. CASE ~Exists(n)
  BY <1>2 DEF StatusOf, GarbledStatus, StatusProbe, NotIndexed
<1> QED
  BY <1>1, <1>2

LEMMA StatusKeeps == ASSUME Inv, NEW r \in Runs, ProbeStatus(r) PROVE Inv'
<1>1. PICK status \in {StatusOf(run[r].name), GarbledStatus} : StatusAfter(r, status)
  BY DEF ProbeStatus
<1>2. UNCHANGED <<lastReindexed, mark>> /\ IsRun(run[r]) /\ RunKnows(run[r])
  BY <1>1 DEF StatusAfter, Undecided, Inv, Shape
<1> DEFINE next == [run[r] EXCEPT !.status = status, !.pc = IF status.exists THEN "changes" ELSE "index"]
<1>3. Finish(r, "UpToDateSkipped") \/ Continue(r, Ensuring(r)) \/ Continue(r, next)
  BY <1>1 DEF StatusAfter
<1>4. CASE Finish(r, "UpToDateSkipped")
  BY <1>2, <1>4, Ending
<1>5. CASE Continue(r, Ensuring(r))
  BY <1>2, <1>5, EnsuringIsRun, Onward
<1>6. CASE Continue(r, next)
  <2>1. /\ IsRun(next) /\ next.pc \in {"changes", "index"} /\ next.status = status
        /\ next.fp = run[r].fp /\ next.quiet = run[r].quiet /\ next.name = run[r].name
    <3>1. next = [pc |-> IF status.exists THEN "changes" ELSE "index", goal |-> run[r].goal,
                  fp |-> run[r].fp, at |-> run[r].at, rows |-> run[r].rows,
                  offset |-> run[r].offset, name |-> run[r].name, status |-> status,
                  files |-> run[r].files, quiet |-> run[r].quiet]
      BY <1>2, TwoFields
    <3> QED
      BY <3>1 DEF IsRun
  <2>2. status.indexedAt # Missing => IsTimeOf(status.indexedAt, run[r].name)
    BY StatusIsTimely
  <2> HIDE DEF next
  <2>3. RunKnows(next) /\ RunIsTimely(next)
    BY <1>2, <2>1, <2>2 DEF RunKnows, RunIsTimely
  <2> QED
    BY <1>2, <1>6, <2>1, <2>3, RunMoves DEF Continue
<1> QED
  BY <1>3, <1>4, <1>5, <1>6

\* The mark of a run is right if its fingerprint is.
LEMMA MarkIsRight ==
  ASSUME Inv, NEW r \in Runs, NEW n, run[r].quiet => Covers(n, tree), mark' = MarkOf(r, n)
  PROVE  \/ mark' = mark
         \/ IsMark(mark') /\ (mark'.quiet => Covers(mark'.name, mark'.fp))
<1>1. run[r].quiet /\ run[r].fp # Missing => run[r].fp = tree
  BY DEF Inv, RunKnows
<1> QED
  BY <1>1 DEF MarkOf, IsMark

\* Whatever is decided, if no change is only ever found where the index holds
\* what has changed.
LEMMA JudgeKeeps ==
  ASSUME Inv, NEW r \in Runs, NEW changed, Judge(r, changed), UNCHANGED lastReindexed,
         changed = 0 /\ run[r].quiet => Covers(run[r].name, tree)
  PROVE  Inv'
<1>1. CASE Continue(r, [run[r] EXCEPT !.pc = "index"]) /\ UNCHANGED mark
  <2>1. IsRun(run[r])
    BY DEF Inv, Shape
  <2>2. /\ IsRun([run[r] EXCEPT !.pc = "index"]) /\ [run[r] EXCEPT !.pc = "index"].pc = "index"
        /\ [run[r] EXCEPT !.pc = "index"].fp = run[r].fp
        /\ [run[r] EXCEPT !.pc = "index"].quiet = run[r].quiet
    BY <2>1 DEF IsRun
  <2> QED
    BY <1>1, <2>2, Onward
<1>2. CASE changed = 0 /\ Finish(r, "UpToDate") /\ mark' = MarkOf(r, run[r].name)
  BY <1>2, MarkIsRight, Ending
<1> QED
  BY <1>1, <1>2 DEF Judge, MustReindex

\* The changes are counted, and listed when they are listed whole.
LEMMA ChangesAreCounted ==
  ASSUME NEW n, NEW json \in ChangesAnswers(n)
  PROVE  LET changes == ChangesProbe(json)
         IN  /\ changes.count = 0 => Exists(n) /\ ChangedFiles(tree) = {}
             /\ (changes.count \notin {0, Missing} /\ changes.files # Missing) =>
                  /\ Exists(n)
                  /\ Range(changes.files) = ChangedFiles(tree) /\ ChangedFiles(tree) # {}
<1> DEFINE files == SetToSeq(ChangedFiles(tree))
           changes == ChangesProbe(json)
<1>1. /\ Range(files) = ChangedFiles(tree)
      /\ Len(files) = Cardinality(ChangedFiles(tree)) /\ Len(files) \in Nat
  BY ListOfSet, ChangedAreFinite
<1>2. Cardinality(ChangedFiles(tree)) = 0 <=> ChangedFiles(tree) = {}
  BY ChangedAreFinite, FS_EmptySet
<1> HIDE DEF files
<1>3. CASE ~Exists(n)
  <2>1. changes.count = Missing
    BY <1>3 DEF ChangesAnswers, ChangesProbe, ChangedCount
  <2> QED
    BY <2>1, MissingIsNoData
<1>4. CASE Exists(n)
  <2>1. \/ json = [total |-> Len(files), files |-> files, hasMore |-> FALSE]
        \/ json = [total |-> Len(files), files |-> <<>>, hasMore |-> files # <<>>]
    BY <1>4 DEF ChangesAnswers, files
  <2>2. changes.count = Len(files)
    BY <1>1, <2>1, MissingIsNoData DEF ChangesProbe, ChangedCount
  <2>3. changes.count = 0 => Exists(n) /\ ChangedFiles(tree) = {}
    BY <1>1, <1>2, <1>4, <2>2
  <2>4. changes.files \in {files, Missing}
    <3>1. ASSUME NEW total, NEW hasMore, json = [total |-> total, files |-> files, hasMore |-> hasMore]
          PROVE  changes.files \in {files, Missing}
      BY <3>1 DEF ChangesProbe
    <3>2. CASE files # <<>> /\ json = [total |-> Len(files), files |-> <<>>, hasMore |-> TRUE]
      BY <3>2 DEF ChangesProbe
    <3>3. CASE json = [total |-> Len(files), files |-> <<>>, hasMore |-> files # <<>>]
      <4>1. CASE files = <<>>
        BY <3>1, <3>3, <4>1
      <4>2. CASE files # <<>>
        <5>1. (files # <<>>) = TRUE
          BY <4>2
        <5>2. json = [total |-> Len(files), files |-> <<>>, hasMore |-> TRUE]
          BY <3>3, <5>1
        <5> QED
          BY <3>2, <4>2, <5>2
      <4> QED
        BY <4>1, <4>2
    <3> QED
      BY <2>1, <3>1, <3>3
  <2> HIDE DEF changes
  <2>5. (changes.count \notin {0, Missing} /\ changes.files # Missing) =>
          /\ Exists(n)
          /\ Range(changes.files) = ChangedFiles(tree) /\ ChangedFiles(tree) # {}
    BY <1>1, <1>2, <1>4, <2>2, <2>4
  <2> QED
    BY <2>3, <2>5 DEF changes
<1> QED
  BY <1>3, <1>4

LEMMA ChangesKeeps == ASSUME Inv, NEW r \in Runs, ProbeChanges(r) PROVE Inv'
<1>1. PICK changes :
        /\ ChangesAfter(r, changes)
        /\ changes.count = 0 => Exists(run[r].name) /\ ChangedFiles(tree) = {}
        /\ (changes.count \notin {0, Missing} /\ changes.files # Missing) =>
             Range(changes.files) = ChangedFiles(tree) /\ ChangedFiles(tree) # {}
  BY ChangesAreCounted, MissingIsNoData DEF ProbeChanges, UnknownChanges
<1>2. IsRun(run[r]) /\ RunKnows(run[r]) /\ RunIsTimely(run[r]) /\ UNCHANGED lastReindexed
      /\ run[r].pc = "changes"
  BY <1>1 DEF ChangesAfter, Inv, Shape
<1> DEFINE next == [run[r] EXCEPT !.pc = "coverage", !.files = Range(changes.files)]
<1>3. CASE changes.count \notin {0, Missing} /\ changes.files # Missing
  <2>1. Continue(r, next) /\ UNCHANGED mark
    BY <1>1, <1>3 DEF ChangesAfter
  <2>2. /\ IsRun(next) /\ next.pc = "coverage" /\ next.status = run[r].status
        /\ next.fp = run[r].fp /\ next.quiet = run[r].quiet /\ next.name = run[r].name
        /\ next.files = Range(changes.files)
    <3>1. next = [pc |-> "coverage", goal |-> run[r].goal,
                  fp |-> run[r].fp, at |-> run[r].at, rows |-> run[r].rows,
                  offset |-> run[r].offset, name |-> run[r].name, status |-> run[r].status,
                  files |-> Range(changes.files), quiet |-> run[r].quiet]
      BY <1>2, TwoFields
    <3> QED
      BY <3>1 DEF IsRun
  <2> HIDE DEF next
  <2>3. RunKnows(next) /\ RunIsTimely(next)
    BY <1>1, <1>2, <1>3, <2>2, ChangedAreFinite DEF RunKnows, RunIsTimely
  <2> QED
    BY <1>2, <2>1, <2>2, <2>3, RunMoves DEF Continue
<1>4. CASE ~(changes.count \notin {0, Missing} /\ changes.files # Missing)
  <2>1. Judge(r, changes.count)
    BY <1>1, <1>4 DEF ChangesAfter
  <2>2. changes.count = 0 => Covers(run[r].name, tree)
    BY <1>1 DEF Covers
  <2> QED
    BY <1>2, <2>1, <2>2, JudgeKeeps
<1> QED
  BY <1>3, <1>4

\* Coverage of some files is coverage by an index that exists.
LEMMA CoveredAreCurrent ==
  ASSUME NEW n, NEW files, files # {}, CoversAll(CoverageAnswer(n, files))
  PROVE  Exists(n) /\ \A f \in files : upstream[n].tree[f] = tree[f]
<1>1. ASSUME NEW f \in files PROVE Exists(n) /\ upstream[n].tree[f] = tree[f]
  BY DEF CoversAll, CoverageAnswer
<1> QED
  BY <1>1

LEMMA CoverageKeeps == ASSUME Inv, NEW r \in Runs, ProbeCoverage(r) PROVE Inv'
<1>1. RunKnows(run[r]) /\ run[r].pc = "coverage" /\ UNCHANGED lastReindexed
  BY DEF ProbeCoverage, CoverageAfter, Inv
<1>2. IsFiniteSet(run[r].files) /\ run[r].files # {} /\ (run[r].quiet => run[r].files = ChangedFiles(tree))
  BY <1>1 DEF RunKnows
<1>3. PICK covered \in BOOLEAN :
        /\ CoverageAfter(r, covered)
        /\ covered => CoversAll(CoverageAnswer(run[r].name, run[r].files))
  BY DEF ProbeCoverage, CoversAll
<1>4. Judge(r, IF covered THEN 0 ELSE Cardinality(run[r].files))
  BY <1>3 DEF CoverageAfter
<1>5. Cardinality(run[r].files) # 0
  BY <1>2, FS_EmptySet
<1>6. covered /\ run[r].quiet => Covers(run[r].name, tree)
  BY <1>2, <1>3, CoveredAreCurrent DEF Covers
<1> QED
  BY <1>1, <1>4, <1>5, <1>6, JudgeKeeps

-----------------------------------------------------------------------------
(* Indexing.                                                               *)

LEMMA EffectKeeps == ASSUME Inv, NEW r \in Runs, IndexTakesEffect(r) PROVE Inv'
<1> DEFINE next == [run[r] EXCEPT !.pc = "answer", !.name = Assigned]
<1>1. /\ upstream' = [upstream EXCEPT ![Assigned] = BroughtUp(Assigned)]
      /\ UNCHANGED <<tree, clock, lastReindexed>>
      /\ mark' = DisturbMark /\ run' = DisturbOthers(r, next)
  BY DEF IndexTakesEffect
<1>2. /\ IsRun(run[r]) /\ IsRun(next) /\ next.pc = "answer" /\ next.fp = run[r].fp /\ next.quiet = run[r].quiet
  <2>1. IsRun(run[r])
    BY DEF Inv, Shape
  <2>2. next = [pc |-> "answer", goal |-> run[r].goal,
                fp |-> run[r].fp, at |-> run[r].at, rows |-> run[r].rows,
                offset |-> run[r].offset, name |-> Assigned, status |-> run[r].status,
                files |-> run[r].files, quiet |-> run[r].quiet]
    BY <2>1, TwoFields
  <2> QED
    BY <2>1, <2>2 DEF IsRun
<1> HIDE DEF next
<1>3. DOMAIN run' = Runs /\ run'[r] = next
      /\ \A q \in Runs \ {r} : run'[q] = [run[q] EXCEPT !.quiet = FALSE]
  BY <1>1 DEF DisturbOthers, Disturbed, Inv, Shape
<1>4. \A q \in Runs \ {r} :
        /\ IsRun(run'[q]) /\ run'[q].quiet = FALSE
        /\ run'[q].pc = run[q].pc /\ run'[q].files = run[q].files
        /\ run'[q].status = run[q].status /\ run'[q].name = run[q].name
  <2> TAKE q \in Runs \ {r}
  <2>1. IsRun(run[q]) /\ run'[q] = [run[q] EXCEPT !.quiet = FALSE]
    BY <1>3 DEF Inv, Shape
  <2> QED
    BY ONLY <2>1, Disturbing
<1>5. /\ DOMAIN upstream' = Names
      /\ \A m \in Names : upstream'[m] # Missing => IsIndex(upstream[m])'
      /\ \A at, m : IsTimeOf(at, m) => IsTimeOf(at, m)'
  BY <1>1, IndexMoves, AssignedIsExact
<1>6. mark' # Missing => IsMark(mark') /\ mark'.quiet = FALSE
  BY <1>1, MarkDisturbed
<1>7. \A q \in Runs : IsRun(run'[q])
  BY <1>2, <1>3, <1>4
<1>8. Shape'
  BY <1>1, <1>3, <1>5, <1>6, <1>7 DEF Inv, Shape, IsRun, IsMark
<1>9. /\ upstream'[Assigned].refreshed = clock' /\ upstream'[Assigned].tree = tree'
      /\ upstream'[Assigned] = BroughtUp(Assigned)
  BY <1>1, AssignedIsExact, BroughtUpIsNew DEF Inv, Shape
<1>10. ASSUME NEW q \in Runs PROVE RunKnows(run[q])' /\ RunIsTimely(run[q])'
  <2>1. RunKnows(run[q]) /\ RunIsTimely(run[q]) /\ RunKnows(run[r])
    BY DEF Inv
  <2>2. CASE q = r
    <3>1. RunIsTimely(run[q])'
      BY <1>2, <1>3, <1>9, <2>2 DEF RunIsTimely
    <3>2. Exists(Assigned)'
      BY <1>9, AssignedIsExact, BroughtUpIsNew DEF Exists, Inv
    <3> QED
      BY <1>1, <1>2, <1>3, <1>9, <2>1, <2>2, <3>1, <3>2 DEF RunKnows
  <2>3. CASE q # r
    <3>1. RunKnows(run[q])'
      BY <1>1, <1>4, <2>1, <2>3 DEF RunKnows
    <3>2. run'[q].pc \in {"changes", "coverage"} /\ run'[q].status.indexedAt # Missing
            => IsTimeOf(run[q].status.indexedAt, run[q].name)'
      BY <1>4, <1>5, <2>1, <2>3 DEF RunIsTimely
    <3> QED
      BY <1>9, <3>1, <3>2 DEF RunIsTimely
  <2> QED
    BY <2>2, <2>3
<1>11. ReindexedIsTimely'
  BY <1>1, <1>5 DEF Inv, ReindexedIsTimely
<1> QED
  BY <1>6, <1>8, <1>10, <1>11 DEF Inv, MarkVouches

LEMMA AnsweredKeeps == ASSUME Inv, NEW r \in Runs, IndexAnswered(r) PROVE Inv'
<1>1. /\ Finish(r, "Reindexed") /\ lastReindexed' = clock /\ mark' = MarkOf(r, Assigned)
      /\ run[r].pc = "answer" /\ RunKnows(run[r]) /\ RunIsTimely(run[r])
  BY DEF IndexAnswered, Inv
<1>2. IsTimeOf(clock, Assigned)
  BY <1>1 DEF RunIsTimely, IsTimeOf, Inv, Shape
<1>3. run[r].quiet => Covers(Assigned, tree)
  BY <1>1 DEF RunKnows, Covers
<1> QED
  BY <1>1, <1>2, <1>3, MarkIsRight, Ending

LEMMA FailuresKeep ==
  ASSUME Inv, NEW r \in Runs, Fail(r) \/ IndexFailed(r) PROVE Inv'
<1>1. CASE Fail(r)
  BY <1>1, GiveUpKeeps DEF Fail, Undecided
<1>2. CASE IndexFailed(r)
  BY <1>2, Ending DEF IndexFailed, Undecided
<1> QED
  BY <1>1, <1>2

-----------------------------------------------------------------------------

LEMMA InvHolds == Spec => []Inv
<1>1. ASSUME Inv, [Next]_vars PROVE Inv'
  <2>1. ASSUME NEW r \in Runs, Start(r) \/ Step(r) \/ Fail(r) \/ IndexFailed(r) PROVE Inv'
    BY <1>1, <2>1, StartKeeps, DecideKeeps, ListPageKeeps, StatusKeeps, ChangesKeeps,
       CoverageKeeps, EffectKeeps, AnsweredKeeps, FailuresKeep
       DEF Step
  <2>2. ASSUME NEW f \in Files, Edit(f) PROVE Inv'
    BY <1>1, <2>2, EditKeeps
  <2>3. ASSUME NEW n \in Names, Lose(n) \/ Refresh(n) PROVE Inv'
    BY <1>1, <2>3, OutsideKeeps DEF Lose, Refresh
  <2>4. CASE Tick
    BY <1>1, <2>4, TickKeeps
  <2>5. CASE UNCHANGED vars
    BY <1>1, <2>5 DEF vars, Inv, Shape, IsIndex, IsMark, IsRun, RunKnows, RunIsTimely,
       ReindexedIsTimely, IsTimeOf, MarkVouches, Covers, Exists, ChangedFiles
  <2> QED
    BY <1>1, <2>1, <2>2, <2>3, <2>4, <2>5 DEF Next
<1> QED
  BY AtFirst, <1>1, PTL DEF Spec

(***************************************************************************)
(* The mark that spares later runs the check vouches for the index of the  *)
(* root: whatever edits, deletions, refreshes, failed calls and other      *)
(* explorations came between, a mark whose run was not overtaken by any of *)
(* them names an index that holds every change the mark's fingerprint has  *)
(* (agent.rs:687-707).                                                     *)
(***************************************************************************)
THEOREM MarksVouch == Spec => []MarkVouches
BY InvHolds, PTL DEF Inv

\* A judgement spares the index only if it is young enough.
LEMMA SparedIsYoung ==
  ASSUME Inv, NEW r \in Runs, NEW changed, Judge(r, changed), reported' = "UpToDate",
         run[r].pc \in {"changes", "coverage"}, run[r].name = Assigned, Exists(Assigned)
  PROVE  clock - upstream[Assigned].refreshed <= Staleness
<1>1. LastIndexedAt(r) # Missing /\ ~(clock - LastIndexedAt(r) > Staleness)
  BY DEF Judge, Continue, NothingReported, MustReindex
<1>2. IsTimeOf(LastIndexedAt(r), Assigned)
  BY <1>1 DEF LastIndexedAt, Inv, ReindexedIsTimely, RunIsTimely
<1>3. clock \in Nat /\ IsIndex(upstream[Assigned])
  BY DEF Inv, Shape, Exists
<1> QED
  BY <1>1, <1>2, <1>3, TimesAreNat DEF IsTimeOf, IsIndex

(***************************************************************************)
(* What a full check reports as up to date under the name that the         *)
(* upstream assigns is no older than the staleness threshold, whatever     *)
(* this and other clients have done to the index since its time was read,  *)
(* and although the process's own reading of the last index stands in for  *)
(* the upstream's (backend.rs:1209-1219).                                  *)
(***************************************************************************)
THEOREM UpToDateIsTimely == Spec => UpToDateWithinThreshold
<1>1. ASSUME Inv, [Next]_vars, NEW r \in Runs,
             run[r].pc # "idle", run'[r].pc = "idle", reported' = "UpToDate",
             run[r].name = Assigned, Exists(Assigned)
      PROVE  clock - upstream[Assigned].refreshed <= Staleness
  <2>1. PICK q \in Runs : ProbeChanges(q) \/ ProbeCoverage(q)
    BY <1>1
       DEF vars, Next, Start, Step, Fail, IndexFailed, Edit, Lose, Refresh, Outside, Tick, Decide,
           ListPage, ProbeStatus, StatusAfter, IndexTakesEffect, IndexAnswered, GiveUp,
           Continue, Finish, NothingReported
  <2>2. PICK changed : Judge(q, changed) /\ run[q].pc \in {"changes", "coverage"}
    BY <1>1, <2>1 DEF ProbeChanges, ProbeCoverage, ChangesAfter, CoverageAfter, Continue, NothingReported
  <2>3. run'[q].pc = "idle" /\ q = r
    BY <1>1, <2>2 DEF Judge, Continue, Finish, NothingReported, Inv, Shape
  <2> QED
    BY <1>1, <2>2, <2>3, SparedIsYoung
<1>2. Inv /\ [Next]_vars =>
        [\A r \in Runs :
           (run[r].pc # "idle" /\ run'[r].pc = "idle" /\ reported' = "UpToDate" /\ run[r].name = Assigned)
             => ~Exists(Assigned) \/ clock - upstream[Assigned].refreshed <= Staleness]_vars
  BY <1>1
<1> QED
  BY InvHolds, <1>2, PTL DEF Spec, UpToDateWithinThreshold
=============================================================================

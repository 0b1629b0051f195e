---------------------------- MODULE RetrievalProofs ----------------------------
(***************************************************************************)
(* Proofs about RetrievalLegs, for any queries, trees, answers of the      *)
(* backends and number of concurrent explorations.  First, the memo of the *)
(* legs is transparent.  Then, the list that is made of their hits lists   *)
(* no line twice, holds what was found, shares the places fairly, and      *)
(* answers without the model only when one definition is in question.      *)
(***************************************************************************)
EXTENDS RetrievalLegs, FindingsProofs

Stages == {"idle", "started", "legs", "ranked"}

\* The fields of a run.
IsRun(x) ==
  x = [pc |-> x.pc, query |-> x.query, legs |-> x.legs, fp |-> x.fp, got |-> x.got,
       outcome |-> x.outcome, lost |-> x.lost, over |-> x.over]

\* What is known of a run by its stage.
RunIsTyped(r) ==
  /\ IsRun(run[r])
  /\ run[r].pc \in Stages
  /\ run[r].pc # "idle" =>
       run[r].query \in Queries /\ run[r].fp \in Trees \cup {Missing} /\ tree \in run[r].over
  /\ run[r].pc \in {"legs", "ranked"} =>
       /\ run[r].legs = Legs(run[r].query)
       /\ run[r].got = [i \in DOMAIN run[r].legs |-> run[r].got[i]]

Shape ==
  /\ world \in Worlds /\ tree \in Trees
  /\ run = [r \in Runs |-> run[r]]
  /\ \A r \in Runs : RunIsTyped(r)

\* What a key stands for in a tree.
Says(key, candidates, t) ==
  \E q \in Queries : \E leg \in Range(Legs(q)) :
    key = LegKey(t, leg, q) /\ candidates = Found(t, leg, q)

\* A cell filled over one tree only says what its leg finds in that tree, for
\* any query whose key is the cell's.
CellIsTrue(key) ==
  \A t \in Trees : memo[key].over = {t} => Says(key, memo[key].candidates, t)

\* And there was a tree.
MemoIsTrue ==
  \A key \in DOMAIN memo : CellIsTrue(key) /\ memo[key].over # {}

\* So do the results of a run over one tree.
RunIsTrue(r) ==
  /\ run[r].pc # "idle" /\ run[r].over = {tree} =>
       /\ run[r].fp # Missing => run[r].fp = tree
       /\ run[r].pc \in {"legs", "ranked"} /\ run[r].lost = {} =>
            \A i \in DOMAIN run[r].legs :
              \/ run[r].got[i] = Found(tree, run[r].legs[i], run[r].query)
              \/ run[r].pc = "legs" /\ run[r].got[i] = Missing
  /\ run[r].pc = "ranked" => run[r].outcome = Ranking(run[r].query, run[r].got)

Truth == Shape /\ MemoIsTrue /\ \A r \in Runs : RunIsTrue(r)

-----------------------------------------------------------------------------

\* A key says all that what a leg finds depends on.
LEMMA LegKeyDecides ==
  ASSUME NEW t \in Trees, NEW u \in Trees, NEW p \in Queries, NEW q \in Queries,
         NEW leg \in Range(Legs(p)), NEW other \in Range(Legs(q)),
         world \in Worlds, LegKey(t, leg, p) = LegKey(u, other, q)
  PROVE  Found(t, leg, p) = Found(u, other, q)
<1>1. /\ t = u /\ leg = other /\ SearchScope(p) = SearchScope(q)
      /\ leg.tool = "semantic" => p.max = q.max
  BY DEF LegKey
<1>2. Found(t, leg, p) = Classified(leg, LegFindings(world, t, leg, p))
  BY DEF Found, Finds
<1>3. Found(u, other, q) = Classified(leg, LegFindings(world, t, leg, q))
  BY <1>1 DEF Found, Finds
<1>4. GraphHits(world, t, leg, p) = GraphHits(world, t, leg, q)
  BY <1>1 DEF GraphHits
<1>5. GraphFindings(world, t, leg, p) = GraphFindings(world, t, leg, q)
  BY <1>4 DEF GraphFindings
<1>6. TextFindings(world, t, leg, p) = TextFindings(world, t, leg, q)
  BY <1>1 DEF TextFindings
<1> QED
  BY <1>2, <1>3, <1>5, <1>6 DEF LegFindings

LEMMA LegsAreListed ==
  ASSUME NEW q, NEW i \in DOMAIN Legs(q)
  PROVE  Legs(q)[i] \in Range(Legs(q))
BY DEF Range

LEMMA TruthAtFirst == Init => Truth
<1> SUFFICES ASSUME Init PROVE Truth
  OBVIOUS
<1>1. Shape
  BY TreesAreKnown DEF Init, Shape, RunIsTyped, IsRun, Idle, Stages
<1>2. MemoIsTrue
  BY DEF Init, MemoIsTrue
<1>3. \A r \in Runs : RunIsTrue(r)
  BY DEF Init, RunIsTrue, Idle
<1> QED
  BY <1>1, <1>2, <1>3 DEF Truth

\* A step of one run leaves the others, and a memo that stays, as true as they are.
LEMMA OneRunSteps ==
  ASSUME Truth, UNCHANGED <<world, tree>>, NEW r \in Runs, NEW next, Becomes(r, next)
  PROVE  /\ run'[r] = next
         /\ \A s \in Runs \ {r} : RunIsTrue(s)'
         /\ memo' = memo => MemoIsTrue'
         /\ RunIsTyped(r)' => Shape'
<1>1. /\ run'[r] = next
      /\ \A s \in Runs \ {r} : run'[s] = run[s]
      /\ run' = [s \in Runs |-> run'[s]]
  BY DEF Truth, Shape, Becomes
<1>2. \A s \in Runs \ {r} : RunIsTrue(s)'
  BY <1>1 DEF Truth, RunIsTrue, Found
<1>3. memo' = memo => MemoIsTrue'
  BY DEF Truth, MemoIsTrue, CellIsTrue, Says, Found
<1>4. \A s \in Runs \ {r} : RunIsTyped(s)'
  BY <1>1 DEF Truth, Shape, RunIsTyped, IsRun
<1> QED
  BY <1>1, <1>2, <1>3, <1>4 DEF Truth, Shape

LEMMA EditKeepsTruth ==
  ASSUME Truth, NEW t \in Trees, Edit(t)
  PROVE  Truth'
<1>1. /\ UNCHANGED <<world, memo>> /\ tree' = t /\ t # tree
      /\ run' = [r \in Runs |-> [run[r] EXCEPT !.over = @ \cup {t}]]
  BY DEF Edit
<1>2. \A r \in Runs :
        /\ run'[r].over = run[r].over \cup {t} /\ IsRun(run'[r])
        /\ run'[r].pc = run[r].pc /\ run'[r].query = run[r].query /\ run'[r].fp = run[r].fp
        /\ run'[r].legs = run[r].legs /\ run'[r].got = run[r].got
        /\ run'[r].outcome = run[r].outcome /\ run'[r].lost = run[r].lost
  <2> TAKE r \in Runs
  <2>1. run'[r] = [pc |-> run[r].pc, query |-> run[r].query, legs |-> run[r].legs,
                   fp |-> run[r].fp, got |-> run[r].got, outcome |-> run[r].outcome,
                   lost |-> run[r].lost, over |-> run[r].over \cup {t}]
    <3>1. IsRun(run[r]) /\ run'[r] = [run[r] EXCEPT !.over = @ \cup {t}]
      BY <1>1 DEF Truth, Shape, RunIsTyped
    <3> QED
      BY <3>1 DEF IsRun
  <2> QED
    BY <2>1 DEF IsRun
<1>3. \A r \in Runs : RunIsTyped(r)'
  <2> TAKE r \in Runs
  <2>1. RunIsTyped(r)
    BY DEF Truth, Shape
  <2>2. run'[r].got = [i \in DOMAIN run[r].legs |-> run'[r].got[i]]
        \/ run[r].pc \notin {"legs", "ranked"}
    BY <1>2, <2>1 DEF RunIsTyped
  <2> QED
    BY <1>1, <1>2, <2>1, <2>2 DEF RunIsTyped
<1>4. Shape'
  BY <1>1, <1>3 DEF Truth, Shape
<1>5. MemoIsTrue'
  BY <1>1 DEF Truth, MemoIsTrue, CellIsTrue, Says, Found
<1>6. \A r \in Runs : run[r].pc # "idle" => run'[r].over # {tree'}
  BY <1>1, <1>2 DEF Truth, Shape, RunIsTyped
<1>7. \A r \in Runs : RunIsTrue(r)'
  BY <1>2, <1>6 DEF Truth, RunIsTrue
<1> QED
  BY <1>4, <1>5, <1>7 DEF Truth

LEMMA BeginKeepsTruth ==
  ASSUME Truth, NEW r \in Runs, NEW q \in Queries, Begin(r, q)
  PROVE  Truth'
<1>1. UNCHANGED <<world, tree, memo>>
  BY DEF Begin
<1>2. PICK fp \in {tree, Missing} :
        Becomes(r, [Idle EXCEPT !.pc = "started", !.query = q, !.fp = fp, !.over = {tree}])
  BY DEF Begin
<1>3. run'[r] = [pc |-> "started", query |-> q, legs |-> <<>>, fp |-> fp, got |-> <<>>,
                 outcome |-> Missing, lost |-> {}, over |-> {tree}]
  <2>1. run'[r] = [Idle EXCEPT !.pc = "started", !.query = q, !.fp = fp, !.over = {tree}]
    BY <1>1, <1>2, OneRunSteps
  <2> QED
    BY <2>1 DEF Idle
<1>4. RunIsTyped(r)'
  BY <1>1, <1>3 DEF Truth, Shape, RunIsTyped, IsRun, Stages
<1>5. RunIsTrue(r)'
  BY <1>1, <1>3 DEF RunIsTrue
<1> QED
  BY <1>1, <1>2, <1>4, <1>5, OneRunSteps DEF Truth

LEMMA RetrieveKeepsTruth ==
  ASSUME Truth, NEW r \in Runs, Retrieve(r)
  PROVE  Truth'
<1> DEFINE legs == Legs(run[r].query)
           key(i) == LegKey(run[r].fp, legs[i], run[r].query)
           hits == {i \in DOMAIN legs : run[r].fp # Missing /\ key(i) \in DOMAIN memo}
           got == [i \in DOMAIN legs |-> IF i \in hits THEN memo[key(i)].candidates ELSE Missing]
           over == run[r].over \cup UNION {memo[key(i)].over : i \in hits}
<1>1. UNCHANGED <<world, tree, memo>> /\ run[r].pc = "started"
  BY DEF Retrieve
<1>2. Becomes(r, [run[r] EXCEPT !.pc = "legs", !.legs = legs, !.got = got, !.over = over])
  BY DEF Retrieve
<1>3. run'[r] = [pc |-> "legs", query |-> run[r].query, legs |-> legs, fp |-> run[r].fp,
                 got |-> got, outcome |-> run[r].outcome, lost |-> run[r].lost, over |-> over]
  <2>1. run'[r] = [run[r] EXCEPT !.pc = "legs", !.legs = legs, !.got = got, !.over = over]
    BY <1>1, <1>2, OneRunSteps
  <2>2. IsRun(run[r])
    BY DEF Truth, Shape, RunIsTyped
  <2> HIDE DEF legs, got, over
  <2> QED
    BY <2>1, <2>2 DEF IsRun
<1>4. /\ run[r].query \in Queries /\ tree \in Trees /\ world \in Worlds
      /\ run[r].fp \in Trees \cup {Missing} /\ tree \in run[r].over
  BY <1>1 DEF Truth, Shape, RunIsTyped
<1>5. RunIsTyped(r)'
  <2>1. got = [i \in DOMAIN legs |-> got[i]]
    OBVIOUS
  <2>2. tree \in over
    BY <1>4
  <2> HIDE DEF got, over
  <2> QED
    BY <1>1, <1>3, <1>4, <2>1, <2>2 DEF RunIsTyped, IsRun, Stages
<1>6. RunIsTrue(r)'
  <2>1. ASSUME over = {tree}
        PROVE  run[r].fp # Missing => run[r].fp = tree
    BY <1>1, <1>4, <2>1 DEF Truth, RunIsTrue
  <2>2. ASSUME over = {tree}, NEW i \in DOMAIN legs
        PROVE  got[i] = Found(tree, legs[i], run[r].query) \/ got[i] = Missing
    <3>1. CASE i \notin hits
      BY <3>1
    <3>2. CASE i \in hits
      <4>1. key(i) \in DOMAIN memo /\ CellIsTrue(key(i)) /\ memo[key(i)].over # {}
        BY <3>2 DEF Truth, MemoIsTrue
      <4>2. memo[key(i)].over = {tree}
        <5>1. memo[key(i)].over \subseteq over
          BY <3>2
        <5> QED
          BY <2>2, <4>1, <5>1
      <4>3. Says(key(i), memo[key(i)].candidates, tree)
        BY <1>4, <4>1, <4>2 DEF CellIsTrue
      <4>4. PICK q \in Queries : \E leg \in Range(Legs(q)) :
              key(i) = LegKey(tree, leg, q) /\ memo[key(i)].candidates = Found(tree, leg, q)
        BY <4>3 DEF Says
      <4>5. PICK leg \in Range(Legs(q)) :
              key(i) = LegKey(tree, leg, q) /\ memo[key(i)].candidates = Found(tree, leg, q)
        BY <4>4
      <4>6. legs[i] \in Range(Legs(run[r].query)) /\ run[r].fp = tree
        BY <2>1, <2>2, <3>2, LegsAreListed
      <4>7. Found(tree, legs[i], run[r].query) = Found(tree, leg, q)
        <5>1. LegKey(tree, legs[i], run[r].query) = LegKey(tree, leg, q)
          BY <4>5, <4>6
        <5> HIDE DEF legs
        <5> QED
          BY <1>4, <4>6, <5>1, LegKeyDecides
      <4>8. got[i] = memo[key(i)].candidates
        BY <2>2, <3>2
      <4> QED
        BY <4>5, <4>7, <4>8
    <3> QED
      BY <3>1, <3>2
  <2>3. UNCHANGED <<world, tree>>
    BY <1>1
  <2> HIDE DEF got, over, legs
  <2> QED
    BY <1>3, <2>1, <2>2, <2>3 DEF RunIsTrue, Found
<1> QED
  BY <1>1, <1>2, <1>5, <1>6, OneRunSteps DEF Truth

LEMMA LegAnswersKeepsTruth ==
  ASSUME Truth, NEW r \in Runs, NEW i, LegAnswers(r, i)
  PROVE  Truth'
<1> DEFINE leg == run[r].legs[i]
           found == Found(tree, leg, run[r].query)
           key == LegKey(run[r].fp, leg, run[r].query)
           got == [run[r].got EXCEPT ![i] = found]
<1>1. /\ UNCHANGED <<world, tree>> /\ run[r].pc = "legs" /\ i \in DOMAIN run[r].got
      /\ memo' = IF run[r].fp = Missing THEN memo ELSE Stored(key, Cell(found, run[r].over))
      /\ Becomes(r, [run[r] EXCEPT !.got = got])
  BY DEF LegAnswers, Waiting
<1>2. /\ run[r].query \in Queries /\ tree \in Trees /\ world \in Worlds
      /\ run[r].fp \in Trees \cup {Missing} /\ tree \in run[r].over /\ IsRun(run[r])
      /\ run[r].legs = Legs(run[r].query)
      /\ run[r].got = [j \in DOMAIN run[r].legs |-> run[r].got[j]]
  BY <1>1 DEF Truth, Shape, RunIsTyped
<1>3. run'[r] = [pc |-> "legs", query |-> run[r].query, legs |-> run[r].legs, fp |-> run[r].fp,
                 got |-> got, outcome |-> run[r].outcome, lost |-> run[r].lost,
                 over |-> run[r].over]
  <2>1. run'[r] = [run[r] EXCEPT !.got = got]
    BY <1>1, OneRunSteps
  <2> HIDE DEF got
  <2> QED
    BY <1>1, <1>2, <2>1 DEF IsRun
<1>4. i \in DOMAIN run[r].legs
  BY <1>1, <1>2
<1>5. /\ got = [j \in DOMAIN run[r].legs |-> got[j]]
      /\ got[i] = found
      /\ \A j \in DOMAIN run[r].legs \ {i} : got[j] = run[r].got[j]
  <2> HIDE DEF found
  <2> QED
    BY <1>1, <1>2, <1>4
<1>6. RunIsTyped(r)'
  <2> HIDE DEF got
  <2> QED
    BY <1>1, <1>2, <1>3, <1>5 DEF RunIsTyped, IsRun, Stages
<1>7. RunIsTrue(r)'
  <2>1. run[r].over = {tree} /\ run[r].fp # Missing => run[r].fp = tree
    BY <1>1 DEF Truth, RunIsTrue
  <2>2. ASSUME run[r].over = {tree}, run[r].lost = {}, NEW j \in DOMAIN run[r].legs
        PROVE  got[j] = Found(tree, run[r].legs[j], run[r].query) \/ got[j] = Missing
    <3>1. CASE j = i
      BY <3>1, <1>5
    <3>2. CASE j # i
      <4> HIDE DEF got
      <4> QED
        BY <1>1, <1>5, <2>2, <3>2 DEF Truth, RunIsTrue
    <3> QED
      BY <3>1, <3>2
  <2> HIDE DEF got
  <2> QED
    BY <1>1, <1>3, <2>1, <2>2 DEF RunIsTrue, Found
<1>8. MemoIsTrue'
  <2>1. CASE run[r].fp = Missing
    BY <1>1, <2>1, OneRunSteps
  <2>2. CASE run[r].fp # Missing
    <3>1. PICK k, cell : k = key /\ cell = Cell(found, run[r].over)
      OBVIOUS
    <3>2. /\ DOMAIN memo' = {k} \cup DOMAIN memo
          /\ memo'[k] = cell
          /\ \A l \in DOMAIN memo \ {k} : memo'[l] = memo[l]
      BY <1>1, <2>2, <3>1 DEF Stored
    <3>3. \A t, l, c : Says(l, c, t)' <=> Says(l, c, t)
      BY <1>1 DEF Says, Found
    <3>4. CellIsTrue(k)' /\ memo'[k].over # {}
      <4>1. ASSUME NEW t \in Trees, run[r].over = {t}
            PROVE  Says(k, found, t)
        <5>1. run[r].fp = tree /\ t = tree
          BY <1>1, <1>2, <2>2, <4>1 DEF Truth, RunIsTrue
        <5>2. leg \in Range(Legs(run[r].query))
          BY <1>2, <1>4, LegsAreListed
        <5> QED
          BY <1>2, <3>1, <5>1, <5>2 DEF Says
      <4>2. cell.candidates = found /\ cell.over = run[r].over
        BY <3>1 DEF Cell
      <4> HIDE DEF found
      <4> QED
        BY <1>2, <3>2, <3>3, <4>1, <4>2 DEF CellIsTrue
    <3>5. \A l \in DOMAIN memo \ {k} : CellIsTrue(l)' /\ memo'[l].over # {}
      BY <3>2, <3>3 DEF Truth, MemoIsTrue, CellIsTrue
    <3> QED
      BY <3>2, <3>4, <3>5 DEF MemoIsTrue
  <2> QED
    BY <2>1, <2>2
<1> QED
  BY <1>1, <1>6, <1>7, <1>8, OneRunSteps DEF Truth

LEMMA LegFailsKeepsTruth ==
  ASSUME Truth, NEW r \in Runs, NEW i, LegFails(r, i)
  PROVE  Truth'
<1> DEFINE got == [run[r].got EXCEPT ![i] = <<>>]
<1>1. /\ UNCHANGED <<world, tree, memo>> /\ run[r].pc = "legs" /\ i \in DOMAIN run[r].got
      /\ Becomes(r, [run[r] EXCEPT !.got = got, !.lost = @ \cup {i}])
  BY DEF LegFails, Waiting
<1>2. /\ RunIsTyped(r) /\ IsRun(run[r])
      /\ run[r].got = [j \in DOMAIN run[r].legs |-> run[r].got[j]]
  BY <1>1 DEF Truth, Shape, RunIsTyped
<1>3. run'[r] = [pc |-> "legs", query |-> run[r].query, legs |-> run[r].legs, fp |-> run[r].fp,
                 got |-> got, outcome |-> run[r].outcome, lost |-> run[r].lost \cup {i},
                 over |-> run[r].over]
  <2>1. run'[r] = [run[r] EXCEPT !.got = got, !.lost = @ \cup {i}]
    BY <1>1, OneRunSteps
  <2> HIDE DEF got
  <2> QED
    BY <1>1, <1>2, <2>1 DEF IsRun
<1>4. got = [j \in DOMAIN run[r].legs |-> got[j]]
  BY <1>2
<1>5. RunIsTyped(r)'
  <2> HIDE DEF got
  <2> QED
    BY <1>1, <1>2, <1>3, <1>4 DEF RunIsTyped, IsRun, Stages
<1>6. RunIsTrue(r)'
  <2> HIDE DEF got
  <2> QED
    BY <1>1, <1>3 DEF Truth, RunIsTrue
<1> QED
  BY <1>1, <1>5, <1>6, OneRunSteps DEF Truth

LEMMA RankKeepsTruth ==
  ASSUME Truth, NEW r \in Runs, Rank(r)
  PROVE  Truth'
<1> DEFINE outcome == Ranking(run[r].query, run[r].got)
<1>1. /\ UNCHANGED <<world, tree, memo>> /\ run[r].pc = "legs"
      /\ \A i \in DOMAIN run[r].got : run[r].got[i] # Missing
      /\ Becomes(r, [run[r] EXCEPT !.pc = "ranked", !.outcome = outcome])
  BY DEF Rank
<1>2. RunIsTyped(r) /\ IsRun(run[r]) /\ DOMAIN run[r].got = DOMAIN run[r].legs
  BY <1>1 DEF Truth, Shape, RunIsTyped
<1>3. run'[r] = [pc |-> "ranked", query |-> run[r].query, legs |-> run[r].legs,
                 fp |-> run[r].fp, got |-> run[r].got, outcome |-> outcome,
                 lost |-> run[r].lost, over |-> run[r].over]
  <2>1. run'[r] = [run[r] EXCEPT !.pc = "ranked", !.outcome = outcome]
    BY <1>1, OneRunSteps
  <2> HIDE DEF outcome
  <2> QED
    BY <1>2, <2>1 DEF IsRun
<1>4. RunIsTyped(r)'
  <2> HIDE DEF outcome
  <2> QED
    BY <1>1, <1>2, <1>3 DEF RunIsTyped, IsRun, Stages
<1>5. RunIsTrue(r)'
  BY <1>1, <1>2, <1>3 DEF Truth, RunIsTrue, Found
<1> QED
  BY <1>1, <1>4, <1>5, OneRunSteps DEF Truth

LEMMA TruthKept == Truth /\ [Next]_vars => Truth'
<1> SUFFICES ASSUME Truth, [Next]_vars PROVE Truth'
  OBVIOUS
<1>1. ASSUME NEW t \in Trees, Edit(t) PROVE Truth'
  BY <1>1, EditKeepsTruth
<1>2. ASSUME NEW r \in Runs, NEW q \in Queries, Begin(r, q) PROVE Truth'
  BY <1>2, BeginKeepsTruth
<1>3. ASSUME NEW r \in Runs, Retrieve(r) PROVE Truth'
  BY <1>3, RetrieveKeepsTruth
<1>4. ASSUME NEW r \in Runs, NEW i \in DOMAIN run[r].got, LegAnswers(r, i) PROVE Truth'
  BY <1>4, LegAnswersKeepsTruth
<1>5. ASSUME NEW r \in Runs, NEW i \in DOMAIN run[r].got, LegFails(r, i) PROVE Truth'
  BY <1>5, LegFailsKeepsTruth
<1>6. ASSUME NEW r \in Runs, Rank(r) PROVE Truth'
  BY <1>6, RankKeepsTruth
<1>7. CASE UNCHANGED vars
  BY <1>7 DEF vars, Truth, Shape, RunIsTyped, IsRun, MemoIsTrue, CellIsTrue, Says,
                RunIsTrue, Found
<1> QED
  BY <1>1, <1>2, <1>3, <1>4, <1>5, <1>6, <1>7 DEF Next

\* What the memo is transparent to, decoding left aside.
LEMMA TruthIsRanked ==
  ASSUME Truth, NEW r \in Runs, Ranked(r), run[r].lost = {}, run[r].over = {tree}
  PROVE  run[r].outcome =
           Ranking(run[r].query,
                   [i \in DOMAIN run[r].legs |-> Found(tree, run[r].legs[i], run[r].query)])
<1>1. run[r].got = [i \in DOMAIN run[r].legs |-> Found(tree, run[r].legs[i], run[r].query)]
  BY DEF Truth, Shape, RunIsTyped, RunIsTrue, Ranked
<1>2. run[r].outcome = Ranking(run[r].query, run[r].got)
  BY DEF Truth, RunIsTrue, Ranked
<1> QED
  BY <1>1, <1>2

(***************************************************************************)
(* If every shape of an answer is read for the hits it holds, then any     *)
(* retrieval that lost no leg, over a tree that held still, has the        *)
(* ranking that a first one without a memo would have, in whatever order   *)
(* and however concurrently legs come back (pipeline.rs memoized, leg_key, *)
(* soft_leg).                                                              *)
(***************************************************************************)
THEOREM MemoTellsNoTales == ASSUME ShapesAreRead PROVE Spec => []MemoIsTransparent
<1>1. Truth => MemoIsTransparent
  <2> SUFFICES ASSUME Truth, NEW r \in Runs, Ranked(r), run[r].lost = {}, run[r].over = {tree}
               PROVE  run[r].outcome =
                        Ranking(run[r].query,
                                [i \in DOMAIN run[r].legs |->
                                   Reference(world, tree, run[r].legs[i], run[r].query)])
    BY DEF MemoIsTransparent
  <2>1. \A i \in DOMAIN run[r].legs :
          Found(tree, run[r].legs[i], run[r].query)
            = Reference(world, tree, run[r].legs[i], run[r].query)
    <3>1. /\ world \in Worlds /\ tree \in Trees /\ run[r].query \in Queries
          /\ run[r].legs = Legs(run[r].query)
      BY DEF Truth, Shape, RunIsTyped, Ranked
    <3>2. \A i \in DOMAIN run[r].legs : run[r].legs[i] \in Range(Legs(run[r].query))
      BY <3>1, LegsAreListed
    <3> QED
      BY <3>1, <3>2 DEF ShapesAreRead, Found
  <2>2. [i \in DOMAIN run[r].legs |-> Found(tree, run[r].legs[i], run[r].query)]
          = [i \in DOMAIN run[r].legs |-> Reference(world, tree, run[r].legs[i], run[r].query)]
    BY <2>1
  <2> QED
    BY <2>2, TruthIsRanked
<1> QED
  BY <1>1, TruthAtFirst, TruthKept, PTL DEF Spec

-----------------------------------------------------------------------------
(* Hits, sorted.                                                            *)

Kinds == {"SymbolExact", "SymbolFuzzy", "FileNameHit", "SemanticHit", "ContentHit"}

\* A hit, as the legs make it, and as it is once its location is normalised.
IsHit(c) ==
  /\ c = [loc |-> c.loc, symbol |-> c.symbol, kind |-> c.kind, score |-> c.score,
          text |-> c.text, keys |-> c.keys]
  /\ IsLocation(c.loc) /\ c.kind \in Kinds

AreHits(s) == IsList(s) /\ \A k \in 1 .. Len(s) : IsHit(s[k])

IsPlaced(c) == IsHit(c) /\ c.loc.path \in DOMAIN PathRank /\ c.loc.start <= c.loc.end

ArePlaced(s) == IsList(s) /\ \A k \in 1 .. Len(s) : IsPlaced(s[k])

\* t has what s has, in another order.
Reorders(t, s, order) ==
  /\ order \in [1 .. Len(s) -> 1 .. Len(s)]
  /\ \A i \in 1 .. Len(s) : \E k \in 1 .. Len(s) : order[k] = i
  /\ \A k, l \in 1 .. Len(s) : k # l => order[k] # order[l]
  /\ t = [k \in 1 .. Len(s) |-> s[order[k]]]

LEMMA ReorderedIs ==
  ASSUME NEW s, NEW t, NEW order, IsList(s), Reorders(t, s, order)
  PROVE  IsList(t) /\ Len(t) = Len(s)
<1>1. Len(s) \in Nat /\ t = [k \in 1 .. Len(s) |-> t[k]]
  BY DEF IsList, Reorders
<1> QED
  BY <1>1, ListOf

\* Three numbers and a position come before others, if the first that differs is less.
Less(a, b, c, i, x, y, z, j) ==
  a < x \/ (a = x /\ (b < y \/ (b = y /\ (c < z \/ (c = z /\ i < j)))))

LEMMA LessTrans ==
  ASSUME NEW a \in Int, NEW b \in Int, NEW c \in Int, NEW i \in Int,
         NEW x \in Int, NEW y \in Int, NEW z \in Int, NEW j \in Int,
         NEW u \in Int, NEW v \in Int, NEW w \in Int, NEW k \in Int,
         Less(a, b, c, i, x, y, z, j), Less(x, y, z, j, u, v, w, k)
  PROVE  Less(a, b, c, i, u, v, w, k)
BY DEF Less

LEMMA LessTotal ==
  ASSUME NEW a \in Int, NEW b \in Int, NEW c \in Int, NEW i \in Int,
         NEW x \in Int, NEW y \in Int, NEW z \in Int, NEW j \in Int
  PROVE  /\ ~Less(a, b, c, i, a, b, c, i)
         /\ i = j \/ Less(a, b, c, i, x, y, z, j) \/ Less(x, y, z, j, a, b, c, i)
BY DEF Less

\* What is ordered by three numbers, and by its position if they are equal.
OrderedBy(R, n, a, b, c) ==
  /\ a \in [1 .. n -> Int] /\ b \in [1 .. n -> Int] /\ c \in [1 .. n -> Int]
  /\ \A i, j \in 1 .. n : <<i, j>> \in R <=> Less(a[i], b[i], c[i], i, a[j], b[j], c[j], j)

LEMMA Lexicographic ==
  ASSUME NEW n \in Nat, NEW a, NEW b, NEW c, NEW R, OrderedBy(R, n, a, b, c)
  PROVE  IsOrder(R, n)
<1>1. \A i \in 1 .. n : a[i] \in Int /\ b[i] \in Int /\ c[i] \in Int /\ i \in Int
  BY DEF OrderedBy
<1>2. \A i \in 1 .. n : <<i, i>> \notin R
  BY <1>1, LessTotal DEF OrderedBy
<1>3. ASSUME NEW i \in 1 .. n, NEW j \in 1 .. n, NEW k \in 1 .. n, <<i, j>> \in R, <<j, k>> \in R
      PROVE  <<i, k>> \in R
  BY <1>1, <1>3, LessTrans DEF OrderedBy
<1>4. ASSUME NEW i \in 1 .. n, NEW j \in 1 .. n PROVE i = j \/ <<i, j>> \in R \/ <<j, i>> \in R
  BY <1>1, LessTotal DEF OrderedBy
<1> QED
  BY <1>2, <1>3, <1>4 DEF IsOrder

\* Hits by their places: later ones are not before earlier ones.
LEMMA SortedByPlace ==
  ASSUME NEW s, ArePlaced(s)
  PROVE  /\ \E order : Reorders(Sorted(s, ByPlace), s, order)
         /\ \A k, l \in 1 .. Len(s) : k < l => ~ByPlace(Sorted(s, ByPlace)[l], Sorted(s, ByPlace)[k])
<1> DEFINE n == Len(s)
           rank(i) == PathRank[s[i].loc.path]
           start(i) == s[i].loc.start
           end(i) == s[i].loc.end
           earlier(i, j) == ByPlace(s[i], s[j]) \/ (~ByPlace(s[j], s[i]) /\ i < j)
           R == {p \in (1 .. n) \X (1 .. n) : earlier(p[1], p[2])}
           order == Ordered(R, n)
<1>1. n \in Nat /\ DOMAIN s = 1 .. n
  BY ListIs DEF ArePlaced
<1>2. \A i \in 1 .. n : rank(i) \in Nat /\ start(i) \in Nat /\ end(i) \in Nat
  BY PathsAreOrdered DEF ArePlaced, IsPlaced, IsHit, IsLocation
<1>3. \A i, j \in 1 .. n : s[i].loc.path = s[j].loc.path <=> rank(i) = rank(j)
  BY PathsAreOrdered DEF ArePlaced, IsPlaced
<1>4. \A i, j \in 1 .. n : ByPlace(s[i], s[j]) <=>
        \/ rank(i) < rank(j)
        \/ /\ rank(i) = rank(j)
           /\ \/ start(i) < start(j)
              \/ start(i) = start(j) /\ end(i) < end(j)
  BY <1>3 DEF ByPlace
<1>5. \A i, j \in 1 .. n : earlier(i, j) <=> Less(rank(i), start(i), end(i), i, rank(j), start(j), end(j), j)
  <2> SUFFICES ASSUME NEW i \in 1 .. n, NEW j \in 1 .. n
               PROVE  earlier(i, j) <=> Less(rank(i), start(i), end(i), i, rank(j), start(j), end(j), j)
    OBVIOUS
  <2>1. /\ rank(i) \in Nat /\ start(i) \in Nat /\ end(i) \in Nat
        /\ rank(j) \in Nat /\ start(j) \in Nat /\ end(j) \in Nat
    BY <1>2
  <2>2. /\ ByPlace(s[i], s[j]) <=> \/ rank(i) < rank(j)
                                   \/ /\ rank(i) = rank(j)
                                      /\ \/ start(i) < start(j)
                                         \/ start(i) = start(j) /\ end(i) < end(j)
        /\ ByPlace(s[j], s[i]) <=> \/ rank(j) < rank(i)
                                   \/ /\ rank(j) = rank(i)
                                      /\ \/ start(j) < start(i)
                                         \/ start(j) = start(i) /\ end(j) < end(i)
    BY <1>4
  <2> HIDE DEF rank, start, end
  <2> QED
    BY <2>1, <2>2 DEF Less
<1>6. \A i, j \in 1 .. n : <<i, j>> \in R <=> earlier(i, j)
  OBVIOUS
<1>7. IsOrder(R, n)
  <2> DEFINE a == [i \in 1 .. n |-> rank(i)]
             b == [i \in 1 .. n |-> start(i)]
             c == [i \in 1 .. n |-> end(i)]
  <2>1. a \in [1 .. n -> Int] /\ b \in [1 .. n -> Int] /\ c \in [1 .. n -> Int]
    BY <1>2
  <2>2. \A i, j \in 1 .. n : <<i, j>> \in R <=> Less(a[i], b[i], c[i], i, a[j], b[j], c[j], j)
    BY <1>5, <1>6
  <2> HIDE DEF a, b, c, R
  <2>3. OrderedBy(R, n, a, b, c)
    BY <2>1, <2>2 DEF OrderedBy
  <2> HIDE DEF n
  <2> QED
    BY <1>1, <2>3, Lexicographic
<1>8. Sorted(s, ByPlace) = [k \in DOMAIN order |-> s[order[k]]]
  <2>1. \A i \in 1 .. n : {j \in 1 .. n : earlier(j, i)} = {j \in 1 .. n : <<j, i>> \in R}
    BY <1>6
  <2>2. [i \in 1 .. n |-> Cardinality({j \in 1 .. n : earlier(j, i)}) + 1]
          = [i \in 1 .. n |-> Cardinality({j \in 1 .. n : <<j, i>> \in R}) + 1]
    BY <2>1
  <2>3. Sorted(s, ByPlace)
          = LET o == ByRank([i \in 1 .. n |-> Cardinality({j \in 1 .. n : earlier(j, i)}) + 1])
            IN  [k \in DOMAIN o |-> s[o[k]]]
    BY <1>1 DEF Sorted
  <2> QED
    BY <2>2, <2>3 DEF Ordered
<1> HIDE DEF R, order
<1>9. /\ order \in [1 .. n -> 1 .. n]
      /\ \A i \in 1 .. n : \E k \in 1 .. n : order[k] = i
      /\ \A k, l \in 1 .. n : k < l => <<order[k], order[l]>> \in R
  <2> HIDE DEF n
  <2> QED
    BY <1>1, <1>7, OrderLists DEF order
<1>10. \A k, l \in 1 .. n : k # l => order[k] # order[l]
  <2> HIDE DEF n
  <2>1. \A k, l \in 1 .. n : k # l => k < l \/ l < k
    BY <1>1
  <2> QED
    BY <1>7, <1>9, <2>1 DEF IsOrder
<1>11. Reorders(Sorted(s, ByPlace), s, order)
  BY <1>8, <1>9, <1>10 DEF Reorders
<1>12. ASSUME NEW k \in 1 .. n, NEW l \in 1 .. n, k < l
       PROVE  ~ByPlace(Sorted(s, ByPlace)[l], Sorted(s, ByPlace)[k])
  <2>1. Sorted(s, ByPlace)[l] = s[order[l]] /\ Sorted(s, ByPlace)[k] = s[order[k]]
    BY <1>8, <1>9
  <2>2. earlier(order[k], order[l]) /\ order[k] \in 1 .. n /\ order[l] \in 1 .. n
    BY <1>6, <1>9, <1>12
  <2>3. ~ByPlace(s[order[l]], s[order[k]])
    <3> DEFINE i == order[k]
               j == order[l]
    <3>1. /\ rank(i) \in Nat /\ start(i) \in Nat /\ end(i) \in Nat
          /\ rank(j) \in Nat /\ start(j) \in Nat /\ end(j) \in Nat
      BY <1>2, <2>2
    <3>2. /\ Less(rank(i), start(i), end(i), i, rank(j), start(j), end(j), j)
          /\ ByPlace(s[j], s[i]) <=> \/ rank(j) < rank(i)
                                     \/ /\ rank(j) = rank(i)
                                        /\ \/ start(j) < start(i)
                                           \/ start(j) = start(i) /\ end(j) < end(i)
      BY <1>4, <1>5, <2>2
    <3>3. i \in Int /\ j \in Int
      BY <2>2
    <3> HIDE DEF rank, start, end, i, j
    <3>4. ~ByPlace(s[j], s[i])
      BY <3>1, <3>2, <3>3 DEF Less
    <3> QED
      BY <3>4 DEF i, j
  <2> QED
    BY <2>1, <2>3
<1> QED
  BY <1>11, <1>12

\* Hits by their scores, of which it only matters that none is lost.
LEMMA SortedByScore ==
  ASSUME NEW s, ArePlaced(s), \A k \in 1 .. Len(s) : s[k].score \in Int
  PROVE  \E order : Reorders(Sorted(s, ByScore), s, order)
<1> DEFINE n == Len(s)
           rank(i) == PathRank[s[i].loc.path]
           start(i) == s[i].loc.start
           score(i) == s[i].score
           earlier(i, j) == ByScore(s[i], s[j]) \/ (~ByScore(s[j], s[i]) /\ i < j)
           R == {p \in (1 .. n) \X (1 .. n) : earlier(p[1], p[2])}
           order == Ordered(R, n)
<1>1. n \in Nat /\ DOMAIN s = 1 .. n
  BY ListIs DEF ArePlaced
<1>2. \A i \in 1 .. n : rank(i) \in Nat /\ start(i) \in Nat /\ score(i) \in Int
  BY PathsAreOrdered DEF ArePlaced, IsPlaced, IsHit, IsLocation
<1>3. \A i, j \in 1 .. n : s[i].loc.path = s[j].loc.path <=> rank(i) = rank(j)
  BY PathsAreOrdered DEF ArePlaced, IsPlaced
<1>4. \A i, j \in 1 .. n : ByScore(s[i], s[j]) <=>
        \/ score(i) > score(j)
        \/ /\ score(i) = score(j)
           /\ rank(i) < rank(j) \/ (rank(i) = rank(j) /\ start(i) < start(j))
  BY <1>3 DEF ByScore
<1>5. \A i, j \in 1 .. n : earlier(i, j) <=> Less(0 - score(i), rank(i), start(i), i, 0 - score(j), rank(j), start(j), j)
  <2> SUFFICES ASSUME NEW i \in 1 .. n, NEW j \in 1 .. n
               PROVE  earlier(i, j) <=> Less(0 - score(i), rank(i), start(i), i, 0 - score(j), rank(j), start(j), j)
    OBVIOUS
  <2>1. /\ score(i) \in Int /\ rank(i) \in Nat /\ start(i) \in Nat
        /\ score(j) \in Int /\ rank(j) \in Nat /\ start(j) \in Nat
    BY <1>2
  <2>2. /\ ByScore(s[i], s[j]) <=> \/ score(i) > score(j)
                                   \/ /\ score(i) = score(j)
                                      /\ rank(i) < rank(j) \/ (rank(i) = rank(j) /\ start(i) < start(j))
        /\ ByScore(s[j], s[i]) <=> \/ score(j) > score(i)
                                   \/ /\ score(j) = score(i)
                                      /\ rank(j) < rank(i) \/ (rank(j) = rank(i) /\ start(j) < start(i))
    BY <1>4
  <2> HIDE DEF score, rank, start
  <2> QED
    BY <2>1, <2>2 DEF Less
<1>6. \A i, j \in 1 .. n : <<i, j>> \in R <=> earlier(i, j)
  OBVIOUS
<1>7. IsOrder(R, n)
  <2> DEFINE a == [i \in 1 .. n |-> 0 - score(i)]
             b == [i \in 1 .. n |-> rank(i)]
             c == [i \in 1 .. n |-> start(i)]
  <2>1. a \in [1 .. n -> Int] /\ b \in [1 .. n -> Int] /\ c \in [1 .. n -> Int]
    BY <1>2
  <2>2. \A i, j \in 1 .. n : <<i, j>> \in R <=> Less(a[i], b[i], c[i], i, a[j], b[j], c[j], j)
    BY <1>5, <1>6
  <2> HIDE DEF a, b, c, R
  <2>3. OrderedBy(R, n, a, b, c)
    BY <2>1, <2>2 DEF OrderedBy
  <2> HIDE DEF n
  <2> QED
    BY <1>1, <2>3, Lexicographic
<1>8. Sorted(s, ByScore) = [k \in DOMAIN order |-> s[order[k]]]
  <2>1. \A i \in 1 .. n : {j \in 1 .. n : earlier(j, i)} = {j \in 1 .. n : <<j, i>> \in R}
    BY <1>6
  <2>2. [i \in 1 .. n |-> Cardinality({j \in 1 .. n : earlier(j, i)}) + 1]
          = [i \in 1 .. n |-> Cardinality({j \in 1 .. n : <<j, i>> \in R}) + 1]
    BY <2>1
  <2>3. Sorted(s, ByScore)
          = LET o == ByRank([i \in 1 .. n |-> Cardinality({j \in 1 .. n : earlier(j, i)}) + 1])
            IN  [k \in DOMAIN o |-> s[o[k]]]
    BY <1>1 DEF Sorted
  <2> QED
    BY <2>2, <2>3 DEF Ordered
<1> HIDE DEF R, order
<1>9. /\ order \in [1 .. n -> 1 .. n]
      /\ \A i \in 1 .. n : \E k \in 1 .. n : order[k] = i
      /\ \A k, l \in 1 .. n : k < l => <<order[k], order[l]>> \in R
  <2> HIDE DEF n
  <2> QED
    BY <1>1, <1>7, OrderLists DEF order
<1>10. \A k, l \in 1 .. n : k # l => order[k] # order[l]
  <2> HIDE DEF n
  <2>1. \A k, l \in 1 .. n : k # l => k < l \/ l < k
    BY <1>1
  <2> QED
    BY <1>7, <1>9, <2>1 DEF IsOrder
<1>11. Reorders(Sorted(s, ByScore), s, order)
  BY <1>8, <1>9, <1>10 DEF Reorders
<1> QED
  BY <1>11

-----------------------------------------------------------------------------
(* Merging.                                                                 *)

\* f merges the first n of some hits in turn.
Merges(f, hits, n, strong) ==
  f = [m \in 0 .. n |-> IF m = 0 THEN <<>> ELSE Joined(f[m - 1], hits[m], strong)]

\* There is such an f.
LEMMA MergingExists ==
  ASSUME NEW n \in Nat, NEW hits, NEW strong
  PROVE  \E f : Merges(f, hits, n, strong)
<1> DEFINE Step(f, m) == IF m = 0 THEN <<>> ELSE Joined(f[m - 1], hits[m], strong)
           Solves(f, l) == f = [m \in 0 .. l |-> Step(f, m)]
           T == {l \in Nat : ~ \E f : Solves(f, l)}
<1>1. ASSUME T # {} PROVE FALSE
  <2>1. T \in SUBSET Nat
    OBVIOUS
  <2>2. PICK l \in T : \A j \in T : l <= j
    BY <1>1, <2>1, LeastNumber
  <2>3. l \in Nat /\ ~ \E f : Solves(f, l)
    BY <2>2
  <2>4. CASE l = 0
    <3> DEFINE f == [m \in 0 .. 0 |-> <<>>]
    <3>1. \A m \in 0 .. 0 : m = 0
      OBVIOUS
    <3>2. f = [m \in 0 .. 0 |-> Step(f, m)]
      BY <3>1
    <3>3. Solves(f, l)
      BY <2>4, <3>2
    <3> QED
      BY <2>3, <3>3
  <2>5. CASE l # 0
    <3>1. l - 1 \in Nat /\ l - 1 \notin T
      <4> HIDE DEF T
      <4> QED
        BY <2>2, <2>3, <2>5
    <3>2. PICK f : Solves(f, l - 1)
      BY <3>1
    <3> DEFINE g == [m \in 0 .. l |-> Step(f, m)]
    <3>3. \A m \in 0 .. l - 1 : g[m] = f[m]
      <4> SUFFICES ASSUME NEW m \in 0 .. l - 1 PROVE g[m] = f[m]
        OBVIOUS
      <4>1. m \in 0 .. l
        BY <2>3
      <4> HIDE DEF Step
      <4>2. g[m] = Step(f, m)
        BY <4>1
      <4>3. f[m] = Step(f, m)
        BY <3>2
      <4> QED
        BY <4>2, <4>3
    <3>4. \A m \in 0 .. l : m # 0 => g[m - 1] = f[m - 1]
      <4> SUFFICES ASSUME NEW m \in 0 .. l, m # 0 PROVE g[m - 1] = f[m - 1]
        OBVIOUS
      <4>1. m - 1 \in 0 .. l - 1
        BY <2>3
      <4> HIDE DEF g
      <4> QED
        BY <3>3, <4>1
    <3>5. g = [m \in 0 .. l |-> Step(g, m)]
      <4> DEFINE h == g
      <4> HIDE DEF h
      <4>1. \A m \in 0 .. l : Step(f, m) = Step(h, m)
        BY <3>4 DEF h
      <4>2. g = [m \in 0 .. l |-> Step(h, m)]
        <5> HIDE DEF Step
        <5> QED
          BY <4>1
      <4> QED
        BY <4>2 DEF h
    <3>6. Solves(g, l)
      BY <3>5
    <3> QED
      BY <2>3, <3>6
  <2> QED
    BY <2>4, <2>5
<1>2. n \notin T
  BY <1>1
<1> QED
  BY <1>2 DEF Merges

LEMMA MergingJoins ==
  ASSUME NEW s, IsList(s), NEW strong
  PROVE  /\ MergedInTurn(s, strong)[0] = <<>>
         /\ \A m \in 1 .. Len(s) :
              MergedInTurn(s, strong)[m] = Joined(MergedInTurn(s, strong)[m - 1], s[m], strong)
<1> DEFINE n == Len(s)
           f == CHOOSE g : g = [m \in 0 .. n |-> IF m = 0 THEN <<>> ELSE Joined(g[m - 1], s[m], strong)]
<1>1. n \in Nat
  BY DEF IsList
<1>2. MergedInTurn(s, strong) = f
  BY DEF MergedInTurn
<1>3. f = [m \in 0 .. n |-> IF m = 0 THEN <<>> ELSE Joined(f[m - 1], s[m], strong)]
  <2>1. \E g : g = [m \in 0 .. n |-> IF m = 0 THEN <<>> ELSE Joined(g[m - 1], s[m], strong)]
    <3>1. \E g : Merges(g, s, n, strong)
      <4> HIDE DEF n
      <4> QED
        BY <1>1, MergingExists
    <3> QED
      BY <3>1 DEF Merges
  <2> QED
    BY <2>1
<1> HIDE DEF f, n
<1>4. f[0] = <<>>
  BY <1>1, <1>3
<1>5. \A m \in 1 .. n : f[m] = Joined(f[m - 1], s[m], strong)
  <2>1. \A m \in 1 .. n : m \in 0 .. n /\ m # 0
    BY <1>1
  <2>2. \A m \in 0 .. n : f[m] = IF m = 0 THEN <<>> ELSE Joined(f[m - 1], s[m], strong)
    BY <1>3
  <2> QED
    BY <2>1, <2>2
<1> QED
  BY <1>2, <1>4, <1>5 DEF n

Within(a, b) == a.path = b.path /\ b.start <= a.start /\ a.end <= b.end

\* The place of a hit and what makes it an exact one are in another.
Covers(a, c) ==
  /\ Within(c.loc, a.loc)
  /\ c.kind = "SymbolExact" => a.kind = "SymbolExact"
  /\ c.symbol # Missing => a.symbol # Missing

\* In the order of places, and apart where they are known.
Before(a, b) ==
  \/ PathRank[a.path] < PathRank[b.path]
  \/ /\ a.path = b.path /\ a.start <= b.start
     /\ a.start # 0 /\ b.start # 0 => a.end < b.start

AreApart(s) == \A k, l \in 1 .. Len(s) : k < l => Before(s[k].loc, s[l].loc)

LEMMA BoundsAre ==
  ASSUME NEW i \in Nat, NEW j \in Nat
  PROVE  /\ Lower(i, j) \in Nat /\ Lower(i, j) <= i /\ Lower(i, j) <= j
         /\ Upper(i, j) \in Nat /\ i <= Upper(i, j) /\ j <= Upper(i, j)
         /\ i <= j => Lower(i, j) = i /\ Upper(i, j) = j
         /\ j <= i => Lower(i, j) = j /\ Upper(i, j) = i
         /\ Lower(i, j) \in {i, j} /\ Upper(i, j) \in {i, j}
BY DEF Lower, Upper

LEMMA PlacedIs ==
  ASSUME NEW c, IsPlaced(c)
  PROVE  /\ c = [loc |-> c.loc, symbol |-> c.symbol, kind |-> c.kind, score |-> c.score,
                 text |-> c.text, keys |-> c.keys]
         /\ c.loc = [path |-> c.loc.path, start |-> c.loc.start, end |-> c.loc.end]
         /\ c.loc.path \in DOMAIN Plain /\ c.loc.path \in DOMAIN PathRank
         /\ PathRank[c.loc.path] \in Nat
         /\ c.loc.start \in Nat /\ c.loc.end \in Nat /\ c.loc.start <= c.loc.end
         /\ c.kind \in Kinds
BY PathsAreOrdered DEF IsPlaced, IsHit, IsLocation

LEMMA CoversItself ==
  ASSUME NEW c, IsPlaced(c)
  PROVE  Covers(c, c)
<1>1. c.loc.start \in Nat /\ c.loc.end \in Nat
  BY PlacedIs
<1> QED
  BY <1>1 DEF Covers, Within

LEMMA CoversTransitively ==
  ASSUME NEW a, NEW b, NEW c, IsPlaced(a), IsPlaced(b), IsPlaced(c), Covers(a, b), Covers(b, c)
  PROVE  Covers(a, c)
<1>1. /\ a.loc.start \in Nat /\ b.loc.start \in Nat /\ c.loc.start \in Nat
      /\ a.loc.end \in Nat /\ b.loc.end \in Nat /\ c.loc.end \in Nat
  BY PlacedIs
<1>2. /\ b.loc.path = a.loc.path /\ a.loc.start <= b.loc.start /\ b.loc.end <= a.loc.end
      /\ c.loc.path = b.loc.path /\ b.loc.start <= c.loc.start /\ c.loc.end <= b.loc.end
  BY DEF Covers, Within
<1>3. a.loc.start <= c.loc.start /\ c.loc.end <= a.loc.end
  BY <1>1, <1>2
<1> QED
  BY <1>2, <1>3 DEF Covers, Within

\* A merged hit has the range of both, and is exact if one of them is.
LEMMA MergeCovers ==
  ASSUME NEW a, NEW b, IsPlaced(a), IsPlaced(b), a.loc.path = b.loc.path, NEW strong
  PROVE  /\ IsPlaced(MergeInto(a, b, strong))
         /\ Covers(MergeInto(a, b, strong), a) /\ Covers(MergeInto(a, b, strong), b)
         /\ MergeInto(a, b, strong).loc.path = a.loc.path
         /\ MergeInto(a, b, strong).loc.start = Lower(a.loc.start, b.loc.start)
         /\ MergeInto(a, b, strong).loc.end = Upper(a.loc.end, b.loc.end)
<1> DEFINE m == MergeInto(a, b, strong)
           start == Lower(a.loc.start, b.loc.start)
           end == Upper(a.loc.end, b.loc.end)
           stronger == EffectiveBase(b, strong) > EffectiveBase(a, strong)
           main == IF stronger THEN b ELSE a
           other == IF stronger THEN a ELSE b
           symbol == IF main.symbol # Missing THEN main.symbol ELSE other.symbol
           textless == main.text = Missing
           text == IF textless THEN other.text ELSE main.text
           keys == IF textless THEN other.keys ELSE main.keys
           loc == [path |-> a.loc.path, start |-> start, end |-> end]
<1>1. m = [loc |-> loc, kind |-> main.kind, score |-> 0, symbol |-> symbol,
           text |-> text, keys |-> keys]
  BY DEF MergeInto
<1>2. /\ start \in Nat /\ start <= a.loc.start /\ start <= b.loc.start
      /\ end \in Nat /\ a.loc.end <= end /\ b.loc.end <= end /\ start <= end
  <2>1. /\ a.loc.start \in Nat /\ b.loc.start \in Nat /\ a.loc.end \in Nat /\ b.loc.end \in Nat
        /\ a.loc.start <= a.loc.end
    BY PlacedIs
  <2>2. /\ start \in Nat /\ start <= a.loc.start /\ start <= b.loc.start
        /\ end \in Nat /\ a.loc.end <= end /\ b.loc.end <= end
    <3>1. start \in Nat /\ start <= a.loc.start /\ start <= b.loc.start
      BY <2>1 DEF Lower, Upper
    <3>2. end \in Nat /\ a.loc.end <= end /\ b.loc.end <= end
      BY <2>1 DEF Lower, Upper
    <3> QED
      BY <3>1, <3>2
  <2> HIDE DEF start, end
  <2> QED
    BY <2>1, <2>2
<1>3. main.kind \in Kinds
  BY PlacedIs
<1>4. a.kind = "SymbolExact" \/ b.kind = "SymbolExact" => main.kind = "SymbolExact"
  <2>1. \A c : c.kind = "SymbolExact" => EffectiveBase(c, strong) = 700
    BY DEF EffectiveBase
  <2>2. \A c : c.kind \in Kinds /\ c.kind # "SymbolExact" =>
          EffectiveBase(c, strong) \in {400, 300, 260, 650, 150}
    BY DEF EffectiveBase, Kinds
  <2>3. a.kind \in Kinds /\ b.kind \in Kinds
    BY PlacedIs
  <2> QED
    BY <2>1, <2>2, <2>3
<1>5. a.symbol # Missing \/ b.symbol # Missing => symbol # Missing
  OBVIOUS
<1> HIDE DEF start, end, main, symbol, text, keys
<1>6. /\ m.loc = loc /\ m.kind = main.kind /\ m.score = 0 /\ m.symbol = symbol
      /\ m.text = text /\ m.keys = keys
  BY <1>1
<1>7. m.loc.path = a.loc.path /\ m.loc.start = start /\ m.loc.end = end
  BY <1>6
<1> HIDE DEF m
<1>8. IsPlaced(m)
  <2>1. a.loc.path \in DOMAIN Plain /\ a.loc.path \in DOMAIN PathRank
    BY PlacedIs
  <2>2. IsLocation(m.loc)
    BY <1>2, <1>6, <1>7, <2>1 DEF IsLocation
  <2>3. m = [loc |-> m.loc, symbol |-> m.symbol, kind |-> m.kind, score |-> m.score,
             text |-> m.text, keys |-> m.keys]
    BY <1>1, <1>6
  <2> QED
    BY <1>2, <1>3, <1>6, <1>7, <2>1, <2>2, <2>3 DEF IsPlaced, IsHit
<1>9. Covers(m, a) /\ Covers(m, b)
  BY <1>2, <1>4, <1>5, <1>6, <1>7 DEF Covers, Within
<1> QED
  BY <1>7, <1>8, <1>9 DEF m, start, end

\* A hit may follow another.
Follows(c, a) ==
  PathRank[a.loc.path] < PathRank[c.loc.path]
    \/ (a.loc.path = c.loc.path /\ a.loc.start <= c.loc.start)

LEMMA BeforeFollower ==
  ASSUME NEW a, NEW b, NEW c, IsPlaced(a), IsPlaced(b), IsPlaced(c),
         Before(a.loc, b.loc), Follows(c, b)
  PROVE  Before(a.loc, c.loc)
<1>1. /\ PathRank[a.loc.path] \in Nat /\ PathRank[b.loc.path] \in Nat /\ PathRank[c.loc.path] \in Nat
      /\ a.loc.start \in Nat /\ b.loc.start \in Nat /\ c.loc.start \in Nat
      /\ a.loc.end \in Nat /\ b.loc.end \in Nat
  BY PlacedIs
<1>2. CASE PathRank[b.loc.path] < PathRank[c.loc.path]
  <2>1. PathRank[a.loc.path] <= PathRank[b.loc.path]
    BY <1>1 DEF Before
  <2> QED
    BY <1>1, <1>2, <2>1 DEF Before
<1>3. CASE b.loc.path = c.loc.path /\ b.loc.start <= c.loc.start
  <2>1. CASE PathRank[a.loc.path] < PathRank[b.loc.path]
    BY <1>3, <2>1 DEF Before
  <2>2. CASE a.loc.path = b.loc.path /\ a.loc.start <= b.loc.start
             /\ (a.loc.start # 0 /\ b.loc.start # 0 => a.loc.end < b.loc.start)
    <3>1. a.loc.start <= c.loc.start
      BY <1>1, <1>3, <2>2
    <3>2. a.loc.start # 0 => b.loc.start # 0
      BY <1>1, <2>2
    <3>3. a.loc.start # 0 /\ c.loc.start # 0 => a.loc.end < c.loc.start
      BY <1>1, <1>3, <2>2, <3>2
    <3> QED
      BY <1>3, <2>2, <3>1, <3>3 DEF Before
  <2> QED
    BY <2>1, <2>2 DEF Before
<1> QED
  BY <1>2, <1>3 DEF Follows

LEMMA ApartFollower ==
  ASSUME NEW a, NEW c, IsPlaced(a), IsPlaced(c), Follows(c, a), ~Overlapping(a.loc, c.loc)
  PROVE  Before(a.loc, c.loc)
<1>1. /\ a.loc.start \in Nat /\ c.loc.start \in Nat /\ a.loc.end \in Nat /\ c.loc.end \in Nat
      /\ c.loc.start <= c.loc.end
  BY PlacedIs
<1>2. CASE PathRank[a.loc.path] < PathRank[c.loc.path]
  BY <1>2 DEF Before
<1>3. CASE a.loc.path = c.loc.path /\ a.loc.start <= c.loc.start
  <2>1. a.loc.start # 0 /\ c.loc.start # 0 => ~(a.loc.start <= c.loc.end /\ c.loc.start <= a.loc.end)
    BY <1>3 DEF Overlapping, IsUnknown, RangesOverlap
  <2>2. a.loc.start # 0 /\ c.loc.start # 0 => a.loc.end < c.loc.start
    BY <1>1, <1>3, <2>1
  <2> QED
    BY <1>3, <2>2 DEF Before
<1> QED
  BY <1>2, <1>3 DEF Follows

\* What holds of a list of placed hits one by one.
LEMMA ArePlacedIs ==
  ASSUME NEW s, ArePlaced(s)
  PROVE  /\ Len(s) \in Nat /\ DOMAIN s = 1 .. Len(s) /\ s \in Seq(Range(s))
         /\ s = [k \in 1 .. Len(s) |-> s[k]]
         /\ \A k \in 1 .. Len(s) : IsPlaced(s[k])
BY ListIs DEF ArePlaced, IsList

LEMMA ArePlacedOf ==
  ASSUME NEW n \in Nat, NEW s, s = [k \in 1 .. n |-> s[k]], \A k \in 1 .. n : IsPlaced(s[k])
  PROVE  ArePlaced(s) /\ Len(s) = n /\ DOMAIN s = 1 .. n
BY ListOf DEF ArePlaced

LEMMA AppendedIs ==
  ASSUME NEW s, IsList(s), NEW c
  PROVE  /\ Append(s, c) = [k \in 1 .. Len(s) + 1 |-> Append(s, c)[k]]
         /\ \A k \in 1 .. Len(s) : Append(s, c)[k] = s[k]
         /\ Append(s, c)[Len(s) + 1] = c
         /\ \A k \in 1 .. Len(s) + 1 : k \in 1 .. Len(s) \/ k = Len(s) + 1
<1>1. s \in Seq(Range(s) \cup {c}) /\ Len(s) \in Nat
  <2>1. Len(s) \in Nat /\ DOMAIN s = 1 .. Len(s) /\ s \in Seq(Range(s))
    BY ListIs
  <2>2. \A k \in 1 .. Len(s) : s[k] \in Range(s) \cup {c}
    BY <2>1 DEF Range
  <2> QED
    BY <2>1, <2>2
<1>2. Append(s, c) \in Seq(Range(s) \cup {c}) /\ Len(Append(s, c)) = Len(s) + 1
  BY <1>1
<1>3. \A k \in 1 .. Len(s) + 1 : Append(s, c)[k] = IF k <= Len(s) THEN s[k] ELSE c
  BY <1>1
<1>4. Append(s, c) = [k \in 1 .. Len(s) + 1 |-> Append(s, c)[k]]
  BY <1>2, SeqIsList DEF IsList
<1>5. \A k \in 1 .. Len(s) : k \in 1 .. Len(s) + 1 /\ k <= Len(s)
  BY <1>1
<1>6. Len(s) + 1 \in 1 .. Len(s) + 1 /\ ~(Len(s) + 1 <= Len(s))
  BY <1>1
<1>7. \A k \in 1 .. Len(s) + 1 : k \in 1 .. Len(s) \/ k = Len(s) + 1
  BY <1>1
<1> QED
  BY <1>3, <1>4, <1>5, <1>6, <1>7

LEMMA NextAppends ==
  ASSUME NEW s, ArePlaced(s), AreApart(s), NEW c, IsPlaced(c),
         s # <<>> => Follows(c, s[Len(s)]) /\ ~Overlapping(s[Len(s)].loc, c.loc)
  PROVE  ArePlaced(Append(s, c)) /\ AreApart(Append(s, c)) /\ Len(Append(s, c)) = Len(s) + 1
<1> DEFINE n == Len(s)
           t == Append(s, c)
<1>1. /\ n \in Nat /\ IsList(s) /\ \A k \in 1 .. n : IsPlaced(s[k])
  BY ArePlacedIs DEF ArePlaced
<1>2. /\ t = [k \in 1 .. n + 1 |-> t[k]]
      /\ \A k \in 1 .. n : t[k] = s[k]
      /\ t[n + 1] = c
      /\ \A k \in 1 .. n + 1 : k \in 1 .. n \/ k = n + 1
  BY <1>1, AppendedIs
<1>3. \A k \in 1 .. n + 1 : IsPlaced(t[k])
  BY <1>1, <1>2
<1>4. ArePlaced(t) /\ Len(t) = n + 1
  <2> HIDE DEF n, t
  <2> QED
    BY <1>1, <1>2, <1>3, ArePlacedOf
<1>5. ASSUME NEW k \in 1 .. n PROVE Before(s[k].loc, c.loc)
  <2>1. s # <<>> /\ n \in 1 .. n
    BY <1>1, ShortLists
  <2>2. CASE k = n
    BY <1>1, <2>1, <2>2, ApartFollower
  <2>3. CASE k # n
    <3>1. Before(s[k].loc, s[n].loc)
      BY <1>1, <2>1, <2>3 DEF AreApart
    <3> QED
      BY <1>1, <2>1, <3>1, BeforeFollower
  <2> QED
    BY <2>2, <2>3
<1>6. AreApart(t)
  <2> SUFFICES ASSUME NEW k \in 1 .. n + 1, NEW l \in 1 .. n + 1, k < l
               PROVE  Before(t[k].loc, t[l].loc)
    BY <1>4 DEF AreApart
  <2>1. k \in 1 .. n
    BY <1>1
  <2>2. CASE l = n + 1
    BY <1>2, <1>5, <2>1, <2>2
  <2>3. CASE l \in 1 .. n
    BY <1>2, <2>1, <2>3 DEF AreApart
  <2> QED
    BY <1>2, <2>2, <2>3
<1> QED
  BY <1>4, <1>6

LEMMA NextMerges ==
  ASSUME NEW s, ArePlaced(s), AreApart(s), s # <<>>, NEW c, IsPlaced(c), NEW strong,
         s[Len(s)].loc.path = c.loc.path, s[Len(s)].loc.start <= c.loc.start
  PROVE  LET t == [s EXCEPT ![Len(s)] = MergeInto(@, c, strong)]
         IN  /\ ArePlaced(t) /\ AreApart(t) /\ Len(t) = Len(s)
             /\ \A k \in 1 .. Len(s) : Covers(t[k], s[k])
             /\ Covers(t[Len(s)], c)
             /\ t[Len(s)].loc.path = c.loc.path /\ t[Len(s)].loc.start <= c.loc.start
<1> DEFINE n == Len(s)
           a == s[n]
           m == MergeInto(a, c, strong)
           t == [s EXCEPT ![n] = m]
<1>1. /\ n \in Nat /\ n \in 1 .. n /\ \A k \in 1 .. n : IsPlaced(s[k])
      /\ s = [k \in 1 .. n |-> s[k]]
  BY ArePlacedIs, SomeLength DEF ArePlaced
<1>2. IsPlaced(a)
  BY <1>1
<1>3. /\ IsPlaced(m) /\ Covers(m, a) /\ Covers(m, c) /\ m.loc.path = c.loc.path
      /\ m.loc.path = a.loc.path /\ m.loc.start = Lower(a.loc.start, c.loc.start)
  BY <1>2, MergeCovers
<1>4. m.loc.start = a.loc.start /\ m.loc.start <= c.loc.start
  <2>1. a.loc.start \in Nat /\ c.loc.start \in Nat /\ a.loc.start <= c.loc.start
    BY <1>2, PlacedIs
  <2> QED
    BY <1>3, <2>1 DEF Lower
<1> HIDE DEF m
<1>5. /\ t = [k \in 1 .. n |-> t[k]] /\ t[n] = m
      /\ \A k \in 1 .. n : k # n => t[k] = s[k]
  <2> HIDE DEF n
  <2> QED
    BY <1>1
<1> HIDE DEF t
<1>6. \A k \in 1 .. n : IsPlaced(t[k])
  BY <1>1, <1>3, <1>5
<1>7. ArePlaced(t) /\ Len(t) = n
  <2> HIDE DEF n
  <2> QED
    BY <1>1, <1>5, <1>6, ArePlacedOf
<1>8. AreApart(t)
  <2> SUFFICES ASSUME NEW k \in 1 .. n, NEW l \in 1 .. n, k < l
               PROVE  Before(t[k].loc, t[l].loc)
    BY <1>7 DEF AreApart
  <2>1. k # n
    BY <1>1
  <2>2. Before(s[k].loc, s[l].loc) /\ t[k] = s[k]
    BY <1>5, <2>1 DEF AreApart
  <2>3. CASE l = n
    BY <1>3, <1>4, <1>5, <2>2, <2>3 DEF Before
  <2>4. CASE l # n
    BY <1>5, <2>2, <2>4
  <2> QED
    BY <2>3, <2>4
<1>9. \A k \in 1 .. n : Covers(t[k], s[k])
  BY <1>1, <1>3, <1>5, CoversItself
<1>10. t = [s EXCEPT ![Len(s)] = MergeInto(@, c, strong)]
  BY DEF t, m
<1> QED
  BY <1>3, <1>4, <1>5, <1>7, <1>8, <1>9, <1>10 DEF n

\* What merging has made of the first m hits.
IsMergedTo(acc, s, m) ==
  /\ ArePlaced(acc) /\ AreApart(acc)
  /\ \A i \in 1 .. m : \E k \in 1 .. Len(acc) : Covers(acc[k], s[i])
  /\ acc # <<>> => m \in 1 .. Len(s) /\ acc[Len(acc)].loc.path = s[m].loc.path
                     /\ acc[Len(acc)].loc.start <= s[m].loc.start

\* Hits in the order of their places.
InPlace(s) ==
  ArePlaced(s) /\ \A k, l \in 1 .. Len(s) : k < l => ~ByPlace(s[l], s[k])

LEMMA NextFollows ==
  ASSUME NEW s, InPlace(s), NEW k \in 1 .. Len(s), NEW l \in 1 .. Len(s), k < l,
         NEW a, IsPlaced(a), a.loc.path = s[k].loc.path, a.loc.start <= s[k].loc.start
  PROVE  Follows(s[l], a)
<1>1. IsPlaced(s[k]) /\ IsPlaced(s[l]) /\ ~ByPlace(s[l], s[k])
  BY DEF InPlace, ArePlaced
<1>2. /\ PathRank[s[k].loc.path] \in Nat /\ PathRank[s[l].loc.path] \in Nat
      /\ s[k].loc.path \in DOMAIN PathRank /\ s[l].loc.path \in DOMAIN PathRank
      /\ s[k].loc.start \in Nat /\ s[l].loc.start \in Nat /\ a.loc.start \in Nat
  BY <1>1, PlacedIs
<1>3. ~(PathRank[s[l].loc.path] < PathRank[s[k].loc.path])
  BY <1>1 DEF ByPlace
<1>4. CASE PathRank[s[k].loc.path] < PathRank[s[l].loc.path]
  BY <1>4 DEF Follows
<1>5. CASE PathRank[s[k].loc.path] = PathRank[s[l].loc.path]
  <2>1. s[k].loc.path = s[l].loc.path
    BY <1>2, <1>5, PathsAreOrdered
  <2>2. ~(s[l].loc.start < s[k].loc.start)
    BY <1>1, <2>1 DEF ByPlace
  <2> QED
    BY <1>2, <2>1, <2>2 DEF Follows
<1> QED
  BY <1>2, <1>3, <1>4, <1>5

LEMMA JoinedKeeps ==
  ASSUME NEW s, InPlace(s), NEW m \in 1 .. Len(s), NEW acc, IsMergedTo(acc, s, m - 1), NEW strong
  PROVE  IsMergedTo(Joined(acc, s[m], strong), s, m) /\ Joined(acc, s[m], strong) # <<>>
<1> DEFINE c == s[m]
           n == Len(acc)
           last == acc[n]
           t == Joined(acc, c, strong)
<1>1. /\ IsPlaced(c) /\ Len(s) \in Nat /\ \A k \in 1 .. Len(s) : IsPlaced(s[k])
  BY ArePlacedIs DEF InPlace
<1>2. /\ n \in Nat /\ IsList(acc) /\ ArePlaced(acc) /\ AreApart(acc)
      /\ \A k \in 1 .. n : IsPlaced(acc[k])
  BY ArePlacedIs DEF IsMergedTo, ArePlaced
<1>3. acc # <<>> => n \in 1 .. n /\ IsPlaced(last)
  BY <1>2, SomeLength
<1>4. acc # <<>> => Follows(c, last)
  <2> SUFFICES ASSUME acc # <<>> PROVE Follows(c, last)
    OBVIOUS
  <2>1. /\ m - 1 \in 1 .. Len(s) /\ last.loc.path = s[m - 1].loc.path
        /\ last.loc.start <= s[m - 1].loc.start
    BY DEF IsMergedTo
  <2>2. m - 1 < m
    BY <1>1
  <2> HIDE DEF last
  <2> QED
    BY <1>3, <2>1, <2>2, NextFollows
<1>5. \A i \in 1 .. m : i \in 1 .. m - 1 \/ i = m
  BY <1>1
<1>6. \A i \in 1 .. m - 1 : i \in 1 .. Len(s)
  BY <1>1
<1>7. CASE acc # <<>> /\ Overlapping(last.loc, c.loc)
  <2>1. t = [acc EXCEPT ![Len(acc)] = MergeInto(@, c, strong)]
    BY <1>7 DEF Joined
  <2>2. last.loc.path = c.loc.path
    BY <1>7 DEF Overlapping
  <2>3. last.loc.start <= c.loc.start
    <3>1. /\ PathRank[c.loc.path] \in Nat /\ last.loc.start \in Nat /\ c.loc.start \in Nat
      BY <1>1, <1>3, <1>7, PlacedIs
    <3> QED
      BY <1>4, <1>7, <2>2, <3>1 DEF Follows
  <2>4. /\ ArePlaced(t) /\ AreApart(t) /\ Len(t) = n
        /\ \A k \in 1 .. n : Covers(t[k], acc[k])
        /\ Covers(t[n], c) /\ t[n].loc.path = c.loc.path /\ t[n].loc.start <= c.loc.start
    BY <1>1, <1>2, <1>7, <2>1, <2>2, <2>3, NextMerges
  <2>5. \A k \in 1 .. n : IsPlaced(t[k])
    BY <2>4, ArePlacedIs
  <2>6. ASSUME NEW i \in 1 .. m PROVE \E k \in 1 .. n : Covers(t[k], s[i])
    <3>1. CASE i = m
      BY <1>3, <1>7, <2>4, <3>1
    <3>2. CASE i \in 1 .. m - 1
      <4>1. PICK k \in 1 .. n : Covers(acc[k], s[i])
        BY <3>2 DEF IsMergedTo
      <4>2. Covers(t[k], s[i])
        BY <1>1, <1>2, <1>6, <2>4, <2>5, <3>2, <4>1, CoversTransitively
      <4> QED
        BY <4>2
    <3> QED
      BY <1>5, <3>1, <3>2
  <2>7. t # <<>>
    BY <1>2, <1>3, <1>7, <2>4, ShortLists
  <2> HIDE DEF t
  <2> QED
    BY <2>4, <2>6, <2>7 DEF IsMergedTo, t
<1>8. CASE ~(acc # <<>> /\ Overlapping(last.loc, c.loc))
  <2>1. t = Append(acc, c)
    BY <1>8 DEF Joined
  <2>2. ArePlaced(t) /\ AreApart(t) /\ Len(t) = n + 1
    BY <1>1, <1>2, <1>4, <1>8, <2>1, NextAppends
  <2>3. /\ \A k \in 1 .. n : t[k] = acc[k]
        /\ t[n + 1] = c
    BY <1>2, <2>1, AppendedIs
  <2>4. n + 1 \in 1 .. n + 1 /\ \A k \in 1 .. n : k \in 1 .. n + 1
    BY <1>2
  <2>5. ASSUME NEW i \in 1 .. m PROVE \E k \in 1 .. n + 1 : Covers(t[k], s[i])
    <3>1. CASE i = m
      BY <1>1, <2>3, <2>4, <3>1, CoversItself
    <3>2. CASE i \in 1 .. m - 1
      <4>1. PICK k \in 1 .. n : Covers(acc[k], s[i])
        BY <3>2 DEF IsMergedTo
      <4> QED
        BY <2>3, <2>4, <4>1
    <3> QED
      BY <1>5, <3>1, <3>2
  <2>6. t # <<>>
    BY <1>2, <2>2, ShortLists
  <2>7. t[n + 1].loc.path = c.loc.path /\ t[n + 1].loc.start <= c.loc.start
    <3>1. c.loc.start \in Nat
      BY <1>1, PlacedIs
    <3> QED
      BY <2>3, <3>1
  <2> HIDE DEF t
  <2> QED
    BY <2>2, <2>5, <2>6, <2>7 DEF IsMergedTo, t
<1> QED
  BY <1>7, <1>8

\* Merging hits in the order of their places covers each, and leaves them apart.
LEMMA MergingMerges ==
  ASSUME NEW s, InPlace(s), NEW strong
  PROVE  IsMergedTo(MergedInTurn(s, strong)[Len(s)], s, Len(s))
<1> DEFINE n == Len(s)
           f(m) == MergedInTurn(s, strong)[m]
           Bad == {m \in 0 .. n : ~IsMergedTo(f(m), s, m)}
<1>1. n \in Nat /\ IsList(s)
  BY ArePlacedIs DEF InPlace, ArePlaced
<1>2. f(0) = <<>> /\ \A m \in 1 .. n : f(m) = Joined(f(m - 1), s[m], strong)
  BY <1>1, MergingJoins
<1> HIDE DEF f
<1>3. IsMergedTo(f(0), s, 0)
  <2>1. ArePlaced(<<>>) /\ AreApart(<<>>)
    BY ShortLists DEF ArePlaced, AreApart
  <2> QED
    BY <1>2, <2>1 DEF IsMergedTo
<1>4. Bad = {}
  <2> SUFFICES ASSUME Bad # {} PROVE FALSE
    OBVIOUS
  <2>1. Bad \in SUBSET Nat
    OBVIOUS
  <2>2. PICK m \in Bad : \A j \in Bad : m <= j
    BY <2>1, LeastNumber
  <2>3. m \in 0 .. n /\ ~IsMergedTo(f(m), s, m)
    BY <2>2
  <2>4. m # 0
    BY <1>3, <2>3
  <2>5. m - 1 \in 0 .. n /\ m - 1 \notin Bad
    <3> HIDE DEF Bad
    <3> QED
      BY <1>1, <2>2, <2>3, <2>4
  <2>6. IsMergedTo(f(m - 1), s, m - 1) /\ m \in 1 .. n
    BY <2>3, <2>4, <2>5
  <2>7. f(m) = Joined(f(m - 1), s[m], strong)
    BY <1>2, <2>6
  <2> HIDE DEF Bad
  <2>8. IsMergedTo(f(m), s, m)
    BY <2>6, <2>7, JoinedKeeps
  <2> QED
    BY <2>3, <2>8
<1>5. n \in 0 .. n /\ n \notin Bad
  BY <1>1, <1>4
<1> QED
  BY <1>5 DEF f

-----------------------------------------------------------------------------
(* What is made of some hits: placed, merged and scored.                    *)

\* A candidate has the place of a hit and what makes it an exact one.
Holds(a, hit) ==
  /\ Within(NormalizeLocation(hit.loc), a.loc)
  /\ hit.kind = "SymbolExact" => a.kind = "SymbolExact"
  /\ hit.symbol # Missing => a.symbol # Missing

LEMMA NormalizedIs ==
  ASSUME NEW loc, IsLocation(loc)
  PROVE  /\ IsLocation(NormalizeLocation(loc))
         /\ NormalizeLocation(loc).path \in DOMAIN PathRank
         /\ NormalizeLocation(loc).start <= NormalizeLocation(loc).end
<1>1. /\ loc.path \in DOMAIN Plain /\ loc.start \in Nat /\ loc.end \in Nat
      /\ Plain[loc.path] \in DOMAIN Plain /\ Plain[loc.path] \in DOMAIN PathRank
  BY PlainIsPlain, PathsAreOrdered DEF IsLocation
<1> DEFINE start == IF loc.end # 0 THEN Lower(loc.start, loc.end) ELSE loc.start
           end == IF loc.end # 0 THEN Upper(loc.start, loc.end) ELSE loc.start
<1>2. start \in Nat /\ end \in Nat /\ start <= end
  BY <1>1 DEF Lower, Upper
<1>3. NormalizeLocation(loc) = [path |-> Plain[loc.path], start |-> start, end |-> end]
  BY DEF NormalizeLocation
<1> HIDE DEF start, end
<1> QED
  BY <1>1, <1>2, <1>3 DEF IsLocation

LEMMA PlacedHits ==
  ASSUME NEW raw, AreHits(raw)
  PROVE  /\ ArePlaced(Placed(raw)) /\ Len(Placed(raw)) = Len(raw)
         /\ \A k \in 1 .. Len(raw) :
              /\ Placed(raw)[k].loc = NormalizeLocation(raw[k].loc)
              /\ Placed(raw)[k].kind = raw[k].kind /\ Placed(raw)[k].symbol = raw[k].symbol
<1> DEFINE n == Len(raw)
           t == Placed(raw)
<1>1. n \in Nat /\ DOMAIN raw = 1 .. n /\ \A k \in 1 .. n : IsHit(raw[k])
  BY ListIs DEF AreHits
<1>2. t = [k \in 1 .. n |-> [raw[k] EXCEPT !.loc = NormalizeLocation(@)]]
  <2> DEFINE u == [k \in 1 .. n |-> [raw[k] EXCEPT !.loc = NormalizeLocation(@)]]
  <2>1. t = <<>> \o u
    BY <1>1 DEF Placed
  <2>2. u = [k \in 1 .. n |-> u[k]]
    OBVIOUS
  <2> HIDE DEF u, t, n
  <2>3. u \in Seq(Range(u))
    BY <1>1, <2>2, ListOf
  <2>4. <<>> \o u = u
    BY <2>3
  <2> QED
    BY <2>1, <2>4 DEF u
<1>3. ASSUME NEW k \in 1 .. n
      PROVE  /\ IsPlaced(t[k]) /\ t[k].loc = NormalizeLocation(raw[k].loc)
             /\ t[k].kind = raw[k].kind /\ t[k].symbol = raw[k].symbol
  <2> DEFINE c == raw[k]
             loc == NormalizeLocation(c.loc)
  <2>1. /\ c = [loc |-> c.loc, symbol |-> c.symbol, kind |-> c.kind, score |-> c.score,
                text |-> c.text, keys |-> c.keys]
        /\ IsLocation(c.loc) /\ c.kind \in Kinds
    BY <1>1 DEF IsHit
  <2>2. t[k] = [c EXCEPT !.loc = loc]
    BY <1>2
  <2>3. IsLocation(loc) /\ loc.path \in DOMAIN PathRank /\ loc.start <= loc.end
    BY <2>1, NormalizedIs
  <2> HIDE DEF loc, c, t
  <2>4. t[k] = [loc |-> loc, symbol |-> c.symbol, kind |-> c.kind, score |-> c.score,
                text |-> c.text, keys |-> c.keys]
    BY <2>1, <2>2
  <2>5. t[k].loc = loc /\ t[k].kind = c.kind /\ t[k].symbol = c.symbol
    BY <2>4
  <2>6. IsHit(t[k])
    BY <2>1, <2>3, <2>4 DEF IsHit
  <2> QED
    BY <2>3, <2>5, <2>6 DEF IsPlaced, c, loc
<1>4. t = [k \in 1 .. n |-> t[k]]
  BY <1>2
<1>5. ArePlaced(t) /\ Len(t) = n
  <2> HIDE DEF n, t
  <2> QED
    BY <1>1, <1>3, <1>4, ArePlacedOf
<1> QED
  BY <1>3, <1>5

LEMMA MergedIs ==
  ASSUME NEW raw, AreHits(raw), NEW strong
  PROVE  /\ ArePlaced(Merged(raw, strong)) /\ AreApart(Merged(raw, strong))
         /\ \A i \in 1 .. Len(raw) : \E k \in 1 .. Len(Merged(raw, strong)) :
              Holds(Merged(raw, strong)[k], raw[i])
<1> DEFINE n == Len(raw)
           p == Placed(raw)
           s == Sorted(p, ByPlace)
           m == Merged(raw, strong)
<1>1. /\ ArePlaced(p) /\ Len(p) = n /\ n \in Nat
      /\ \A k \in 1 .. n : /\ p[k].loc = NormalizeLocation(raw[k].loc)
                           /\ p[k].kind = raw[k].kind /\ p[k].symbol = raw[k].symbol
  BY PlacedHits DEF AreHits, IsList
<1> HIDE DEF p, n
<1>2. /\ \E order : Reorders(s, p, order)
      /\ \A k, l \in 1 .. n : k < l => ~ByPlace(s[l], s[k])
  BY <1>1, SortedByPlace
<1>3. PICK order : Reorders(s, p, order)
  BY <1>2
<1> HIDE DEF s
<1>4. Len(s) = n
  BY <1>1, <1>3, ReorderedIs DEF ArePlaced
<1>5. ArePlaced(s)
  <2>1. s = [k \in 1 .. n |-> s[k]] /\ \A k \in 1 .. n : order[k] \in 1 .. n /\ s[k] = p[order[k]]
    BY <1>1, <1>3 DEF Reorders
  <2>2. \A k \in 1 .. n : IsPlaced(s[k])
    BY <1>1, <2>1 DEF ArePlaced
  <2> QED
    BY <1>1, <2>1, <2>2, ArePlacedOf
<1>6. InPlace(s)
  BY <1>2, <1>4, <1>5 DEF InPlace
<1>7. m = MergedInTurn(s, strong)[n]
  BY DEF Merged, s, p, n
<1>8. IsMergedTo(m, s, n)
  BY <1>4, <1>6, <1>7, MergingMerges
<1> HIDE DEF m
<1>9. ASSUME NEW i \in 1 .. n PROVE \E k \in 1 .. Len(m) : Holds(m[k], raw[i])
  <2>1. PICK j \in 1 .. n : order[j] = i
    BY <1>1, <1>3 DEF Reorders
  <2>2. s[j] = p[i]
    BY <1>1, <1>3, <2>1 DEF Reorders
  <2>3. PICK k \in 1 .. Len(m) : Covers(m[k], s[j])
    BY <1>8 DEF IsMergedTo
  <2>4. Holds(m[k], raw[i])
    BY <1>1, <2>2, <2>3 DEF Covers, Holds
  <2> QED
    BY <2>4
<1> QED
  BY <1>8, <1>9 DEF IsMergedTo, n, m

\* The keys of a query that hits may cover are finitely many.
LEMMA ScoredIs ==
  ASSUME NEW s, ArePlaced(s), NEW keys, IsFiniteSet(keys), NEW strong
  PROVE  /\ ArePlaced(Scored(s, keys, strong)) /\ Len(Scored(s, keys, strong)) = Len(s)
         /\ \A k \in 1 .. Len(s) :
              LET c == Scored(s, keys, strong)[k]
              IN  /\ c.loc = s[k].loc /\ c.kind = s[k].kind /\ c.symbol = s[k].symbol
                  /\ c.score \in Int
<1> DEFINE n == Len(s)
           t == Scored(s, keys, strong)
           neighbours(c) == Cardinality({i \in DOMAIN s : s[i].loc.path = c.loc.path}) - 1
           score(c) == EffectiveBase(c, strong) + Lower(30 * Coverage(c, keys), 120)
                         + 15 * Lower(neighbours(c), 4)
           final(c) == Lower(score(c), 1000)
<1>1. n \in Nat /\ DOMAIN s = 1 .. n /\ \A k \in 1 .. n : IsPlaced(s[k])
  BY ArePlacedIs
<1>2. t = [k \in 1 .. n |-> [s[k] EXCEPT !.score = final(s[k])]]
  BY <1>1 DEF Scored
<1>3. ASSUME NEW c, c.kind \in Kinds PROVE final(c) \in Int
  <2>1. EffectiveBase(c, strong) \in Int
    BY <1>3 DEF EffectiveBase, Kinds
  <2>2. Coverage(c, keys) \in Nat
    BY FS_Subset, FS_CardinalityType DEF Coverage
  <2>3. neighbours(c) \in Int
    <3>1. IsFiniteSet(1 .. n)
      BY <1>1, FS_Interval
    <3>2. {i \in DOMAIN s : s[i].loc.path = c.loc.path} \subseteq 1 .. n
      BY <1>1
    <3>3. Cardinality({i \in DOMAIN s : s[i].loc.path = c.loc.path}) \in Nat
      BY <3>1, <3>2, FS_Subset, FS_CardinalityType
    <3> QED
      BY <3>3
  <2> HIDE DEF neighbours
  <2>4. Lower(30 * Coverage(c, keys), 120) \in Int /\ Lower(neighbours(c), 4) \in Int
    BY <2>2, <2>3 DEF Lower
  <2>5. score(c) \in Int
    BY <2>1, <2>4
  <2> HIDE DEF score
  <2> QED
    BY <2>5 DEF Lower
<1> HIDE DEF final
<1>4. ASSUME NEW k \in 1 .. n
      PROVE  /\ IsPlaced(t[k]) /\ t[k].loc = s[k].loc /\ t[k].kind = s[k].kind
             /\ t[k].symbol = s[k].symbol /\ t[k].score \in Int
  <2> DEFINE c == s[k]
  <2>1. t[k] = [c EXCEPT !.score = final(c)]
    BY <1>2
  <2>2. IsPlaced(c)
    BY <1>1
  <2> HIDE DEF c, t
  <2>3. t[k] = [loc |-> c.loc, symbol |-> c.symbol, kind |-> c.kind, score |-> final(c),
                text |-> c.text, keys |-> c.keys]
    BY <2>1, <2>2 DEF IsPlaced, IsHit
  <2>4. /\ t[k].loc = c.loc /\ t[k].kind = c.kind /\ t[k].symbol = c.symbol
        /\ t[k].score = final(c)
    BY <2>3
  <2>5. IsPlaced(t[k])
    BY <2>2, <2>3, <2>4 DEF IsPlaced, IsHit
  <2>6. final(c) \in Int
    BY <1>3, <2>2 DEF IsPlaced, IsHit
  <2> QED
    BY <2>4, <2>5, <2>6 DEF c
<1>5. t = [k \in 1 .. n |-> t[k]]
  BY <1>2
<1>6. ArePlaced(t) /\ Len(t) = n
  <2> HIDE DEF n, t
  <2> QED
    BY <1>1, <1>4, <1>5, ArePlacedOf
<1> QED
  BY <1>4, <1>6

-----------------------------------------------------------------------------
(* Cutting the list.                                                        *)

\* The first of some positions.
LEMMA FirstInOrder ==
  ASSUME NEW n \in Nat, NEW S \in SUBSET (1 .. n), NEW k \in Nat
  PROVE  /\ Cardinality(S) \in Nat
         /\ Len(Take(InOrder(S), k)) = Lower(k, Cardinality(S))
         /\ Range(Take(InOrder(S), k)) \subseteq S
         /\ Cardinality(Range(Take(InOrder(S), k))) = Lower(k, Cardinality(S))
         /\ Cardinality(S) <= k => Range(Take(InOrder(S), k)) = S
<1> DEFINE c == Cardinality(S)
           at == InOrder(S)
           m == Lower(k, c)
           t == Take(at, k)
<1>1. /\ c \in Nat /\ at \in [1 .. c -> S]
      /\ \A x \in S : \E i \in 1 .. c : at[i] = x
      /\ \A i, j \in 1 .. c : i < j => at[i] < at[j]
  BY InOrderLists
<1>2. m \in Nat /\ m <= c /\ (c <= k => m = c)
  <2> HIDE DEF c
  <2> QED
    BY <1>1 DEF Lower
<1> HIDE DEF c, at
<1>3. at \in Seq(S) /\ Len(at) = c
  BY <1>1
<1>4. t = SubSeq(at, 1, m)
  BY <1>3 DEF Take
<1> HIDE DEF m
<1>5. t = [i \in 1 .. m |-> at[i]] /\ \A i \in 1 .. m : i \in 1 .. c
  BY <1>1, <1>2, <1>3, <1>4
<1>6. Len(t) = m /\ DOMAIN t = 1 .. m
  <2>1. t = [i \in 1 .. m |-> t[i]]
    BY <1>5
  <2> HIDE DEF t
  <2> QED
    BY <1>2, <2>1, ListOf
<1> HIDE DEF t
<1>7. Range(t) = {at[i] : i \in 1 .. m}
  BY <1>5, <1>6 DEF Range
<1>8. Range(t) \subseteq S
  BY <1>1, <1>5, <1>7
<1>9. \A i, j \in 1 .. m : t[i] = t[j] => i = j
  <2> SUFFICES ASSUME NEW i \in 1 .. m, NEW j \in 1 .. m, i # j PROVE at[i] # at[j]
    BY <1>5
  <2>1. at[i] \in Int /\ at[j] \in Int
    <3>1. at[i] \in S /\ at[j] \in S
      BY <1>1, <1>5
    <3>2. S \subseteq Int
      OBVIOUS
    <3> QED
      BY <3>1, <3>2
  <2>2. i < j \/ j < i
    BY <1>2
  <2>3. at[i] < at[j] \/ at[j] < at[i]
    BY <1>1, <1>5, <2>2
  <2> QED
    BY <2>1, <2>3
<1>10. Cardinality(Range(t)) = m
  <2>1. t \in Bijection(1 .. m, Range(t))
    BY <1>5, <1>6, <1>9 DEF Bijection, Injection, Surjection, IsInjective, Range
  <2>2. IsFiniteSet(1 .. m) /\ Cardinality(1 .. m) = m
    BY <1>2, FS_Interval
  <2>3. ExistsBijection(1 .. m, Range(t))
    BY <2>1 DEF ExistsBijection
  <2> QED
    BY <2>2, <2>3, FS_Bijection
<1>11. c <= k => Range(t) = S
  BY <1>1, <1>2, <1>7, <1>8
<1> QED
  BY <1>1, <1>6, <1>8, <1>10, <1>11 DEF t, at, c, m

\* The positions of a file among some of a list.
Share(s, P, path) == {i \in P : s[i].loc.path = path}

\* How far a position is down among those of its file.
RankInFile(s, i) == Cardinality({j \in 1 .. i : s[j].loc.path = s[i].loc.path})

LEMMA SharesAreFinite ==
  ASSUME NEW n \in Nat, NEW P \in SUBSET (1 .. n), NEW s, NEW path
  PROVE  IsFiniteSet(Share(s, P, path)) /\ Cardinality(Share(s, P, path)) \in Nat
<1>1. IsFiniteSet(1 .. n)
  BY FS_Interval
<1>2. Share(s, P, path) \subseteq 1 .. n
  BY DEF Share
<1> QED
  BY <1>1, <1>2, FS_Subset, FS_CardinalityType

LEMMA ShareGrows ==
  ASSUME NEW n \in Nat, NEW P \in SUBSET (1 .. n), NEW Q \in SUBSET P, NEW s, NEW path
  PROVE  Cardinality(Share(s, Q, path)) <= Cardinality(Share(s, P, path))
<1>1. IsFiniteSet(Share(s, P, path))
  BY SharesAreFinite
<1>2. Share(s, Q, path) \subseteq Share(s, P, path)
  BY DEF Share
<1> QED
  BY <1>1, <1>2, FS_Subset

\* Those that are not too far down are not too many,
LEMMA ShareIsCapped ==
  ASSUME NEW n \in Nat, NEW s, NEW path
  PROVE  Cardinality(Share(s, {i \in 1 .. n : RankInFile(s, i) <= MaxPerFile}, path)) <= MaxPerFile
<1> DEFINE E == {i \in 1 .. n : RankInFile(s, i) <= MaxPerFile}
           S == Share(s, E, path)
<1>1. MaxPerFile \in Nat
  BY LimitsAreNat
<1>2. CASE S = {}
  BY <1>1, <1>2, FS_EmptySet
<1>3. CASE S # {}
  <2>1. S \in SUBSET (1 .. n)
    BY DEF Share
  <2>2. PICK j \in S : \A i \in S : i <= j
    BY <1>3, <2>1, GreatestNumber
  <2>3. /\ j \in 1 .. n /\ RankInFile(s, j) <= MaxPerFile /\ s[j].loc.path = path
    BY <2>2 DEF Share
  <2> DEFINE W == {i \in 1 .. j : s[i].loc.path = s[j].loc.path}
  <2>4. S \subseteq W
    <3> SUFFICES ASSUME NEW i \in S PROVE i \in W
      OBVIOUS
    <3>1. i \in 1 .. n /\ s[i].loc.path = path /\ i <= j
      BY <2>2 DEF Share
    <3> QED
      BY <2>3, <3>1
  <2>5. IsFiniteSet(W) /\ Cardinality(W) \in Nat
    <3>1. j \in Nat /\ W \subseteq 1 .. j
      BY <2>3
    <3>2. IsFiniteSet(1 .. j)
      BY <3>1, FS_Interval
    <3> QED
      BY <3>1, <3>2, FS_Subset, FS_CardinalityType
  <2>6. Cardinality(W) <= MaxPerFile
    BY <2>3 DEF RankInFile
  <2> HIDE DEF W, S
  <2>7. Cardinality(S) <= Cardinality(W) /\ Cardinality(S) \in Nat
    BY <2>4, <2>5, FS_Subset, FS_CardinalityType
  <2>8. Cardinality(S) <= MaxPerFile
    BY <1>1, <2>5, <2>6, <2>7
  <2> QED
    BY <2>8 DEF S
<1> QED
  BY <1>2, <1>3

\* and as many as there may be when one of the file is too far down.
LEMMA ShareIsFull ==
  ASSUME NEW n \in Nat, NEW s, NEW i \in 1 .. n, ~(RankInFile(s, i) <= MaxPerFile)
  PROVE  Cardinality(Share(s, {j \in 1 .. n : RankInFile(s, j) <= MaxPerFile}, s[i].loc.path)) >= MaxPerFile
<1> DEFINE E == {j \in 1 .. n : RankInFile(s, j) <= MaxPerFile}
           path == s[i].loc.path
           S == Share(s, E, path)
           T == {j \in 1 .. n : s[j].loc.path = path /\ j \notin E}
<1>1. MaxPerFile \in Nat
  BY LimitsAreNat
<1>2. T \in SUBSET Nat /\ T # {}
  OBVIOUS
<1>3. PICK l \in T : \A j \in T : l <= j
  <2> HIDE DEF T
  <2> QED
    BY <1>2, LeastNumber
<1>4. l \in 1 .. n /\ s[l].loc.path = path /\ ~(RankInFile(s, l) <= MaxPerFile)
  BY <1>3
<1> DEFINE W == {j \in 1 .. l : s[j].loc.path = s[l].loc.path}
<1>5. IsFiniteSet(W) /\ Cardinality(W) \in Nat
  <2>1. l \in Nat /\ W \subseteq 1 .. l
    BY <1>4
  <2>2. IsFiniteSet(1 .. l)
    BY <2>1, FS_Interval
  <2> QED
    BY <2>1, <2>2, FS_Subset, FS_CardinalityType
<1>6. ~(Cardinality(W) <= MaxPerFile)
  BY <1>4 DEF RankInFile
<1>7. l \in W
  BY <1>4
<1>8. W \ {l} \subseteq S
  <2> SUFFICES ASSUME NEW j \in W, j # l PROVE j \in S
    OBVIOUS
  <2>1. j \in 1 .. n /\ ~(l <= j) /\ s[j].loc.path = path
    BY <1>4
  <2>2. j \notin T
    <3> HIDE DEF T
    <3> QED
      BY <1>3, <2>1
  <2> QED
    BY <2>1, <2>2 DEF Share
<1>9. Cardinality(W \ {l}) = Cardinality(W) - 1
  <2> HIDE DEF W
  <2> QED
    BY <1>5, <1>7, FS_RemoveElement
<1>10. IsFiniteSet(S) /\ Cardinality(S) \in Nat
  <2>1. E \in SUBSET (1 .. n)
    OBVIOUS
  <2> HIDE DEF E
  <2> QED
    BY <2>1, SharesAreFinite
<1> HIDE DEF W, S
<1>11. Cardinality(W \ {l}) <= Cardinality(S)
  BY <1>8, <1>10, FS_Subset
<1>12. Cardinality(S) >= MaxPerFile
  BY <1>1, <1>5, <1>6, <1>9, <1>10, <1>11
<1> QED
  BY <1>12 DEF S

\* A list is cut from another: at the positions P, with no file's share too large, or
\* the share of no file with another hit too small.
IsCut(t, s, P, topK) ==
  /\ P \subseteq 1 .. Len(s) /\ t = Picked(s, P) /\ Cardinality(P) >= topK
  /\ \/ \A path : Cardinality(Share(s, P, path)) <= MaxPerFile
     \/ \A i \in (1 .. Len(s)) \ P : Cardinality(Share(s, P, s[i].loc.path)) >= MaxPerFile

LEMMA TruncatedIs ==
  ASSUME NEW s, ArePlaced(s), NEW topK \in Nat
  PROVE  Truncated(s, topK) = s \/ \E P : IsCut(Truncated(s, topK), s, P, topK)
<1> DEFINE n == Len(s)
           E == {i \in 1 .. n : RankInFile(s, i) <= MaxPerFile}
           capped == Take(InOrder(E), topK)
           C == Range(capped)
           left == topK - Len(capped)
           rest == Take(InOrder((1 .. n) \ C), left)
           R == Range(rest)
           P == C \cup R
           t == Truncated(s, topK)
<1>1. n \in Nat /\ DOMAIN s = 1 .. n
  BY ArePlacedIs
<1>2. t = IF n <= topK THEN s ELSE Picked(s, P)
  BY <1>1 DEF Truncated, RankInFile
<1>3. CASE n <= topK
  BY <1>2, <1>3
<1>4. CASE ~(n <= topK)
  <2>1. E \in SUBSET (1 .. n)
    OBVIOUS
  <2>2. /\ Cardinality(E) \in Nat /\ Len(capped) = Lower(topK, Cardinality(E)) /\ C \subseteq E
        /\ Cardinality(C) = Lower(topK, Cardinality(E))
        /\ Cardinality(E) <= topK => C = E
    <3> HIDE DEF E
    <3> QED
      BY <1>1, <2>1, FirstInOrder
  <2>3. /\ Lower(topK, Cardinality(E)) \in Nat
        /\ Lower(topK, Cardinality(E)) <= topK
        /\ ~(Cardinality(E) <= topK) => Lower(topK, Cardinality(E)) = topK
    <3> HIDE DEF E
    <3> QED
      BY <2>2 DEF Lower
  <2> HIDE DEF capped, C
  <2>4. left \in Nat /\ Cardinality(C) = topK - left
    <3> DEFINE lower == Lower(topK, Cardinality(E))
    <3>1. lower \in Nat /\ lower <= topK /\ Len(capped) = lower /\ Cardinality(C) = lower
      BY <2>2, <2>3
    <3> HIDE DEF lower
    <3> QED
      BY <3>1
  <2>5. C \subseteq 1 .. n /\ IsFiniteSet(C) /\ IsFiniteSet(1 .. n) /\ Cardinality(1 .. n) = n
    <3>1. IsFiniteSet(1 .. n) /\ Cardinality(1 .. n) = n
      <4> HIDE DEF n
      <4> QED
        BY <1>1, FS_Interval
    <3>2. C \subseteq 1 .. n
      BY <2>1, <2>2
    <3> QED
      BY <3>1, <3>2, FS_Subset
  <2>6. Cardinality((1 .. n) \ C) = n - Cardinality(C)
    <3>1. (1 .. n) \cap C = C
      BY <2>5
    <3>2. Cardinality((1 .. n) \ C) = Cardinality(1 .. n) - Cardinality((1 .. n) \cap C)
      BY <2>5, FS_Difference
    <3> QED
      BY <2>5, <3>1, <3>2
  <2> HIDE DEF left
  <2>7. /\ R \subseteq (1 .. n) \ C
        /\ Cardinality(R) = Lower(left, Cardinality((1 .. n) \ C))
        /\ left = 0 => R = {}
    <3> DEFINE D == (1 .. n) \ C
    <3>1. D \in SUBSET (1 .. n)
      OBVIOUS
    <3> HIDE DEF D, n
    <3>2. /\ Len(rest) = Lower(left, Cardinality(D)) /\ R \subseteq D
          /\ Cardinality(R) = Lower(left, Cardinality(D)) /\ Cardinality(D) \in Nat
      BY <1>1, <2>4, <3>1, FirstInOrder DEF D
    <3>3. ASSUME left = 0 PROVE R = {}
      <4>1. Lower(left, Cardinality(D)) = 0
        BY <3>2, <3>3 DEF Lower
      <4>2. IsFiniteSet(R)
        BY <2>5, <3>1, <3>2, FS_Subset
      <4> HIDE DEF R
      <4> QED
        BY <3>2, <4>1, <4>2, FS_EmptySet
    <3> QED
      BY <3>2, <3>3 DEF D
  <2> HIDE DEF R, rest
  <2>8. P \subseteq 1 .. n /\ C \cap R = {}
    BY <2>5, <2>7
  <2>9. Cardinality(P) >= topK
    <3>1. IsFiniteSet(R)
      <4>1. R \subseteq 1 .. n
        BY <2>7
      <4> QED
        BY <2>5, <4>1, FS_Subset
    <3>2. Cardinality(P) = Cardinality(C) + Cardinality(R)
      <4>1. Cardinality(C \cup R) = Cardinality(C) + Cardinality(R) - Cardinality(C \cap R)
        BY <2>5, <3>1, FS_Union
      <4>2. Cardinality(C) \in Nat /\ Cardinality(R) \in Nat /\ Cardinality(C \cap R) = 0
        BY <2>5, <2>8, <3>1, FS_CardinalityType, FS_EmptySet
      <4> QED
        BY <4>1, <4>2
    <3>3. Cardinality(R) = left \/ Cardinality(R) = n - (topK - left)
      BY <2>4, <2>6, <2>7 DEF Lower
    <3>4. (topK - left) + Cardinality(R) >= topK
      <4> HIDE DEF n
      <4> QED
        BY <1>1, <1>4, <2>4, <3>3
    <3> QED
      BY <2>4, <3>2, <3>4
  <2>10. CASE Cardinality(E) <= topK
    <3>1. E \subseteq P
      BY <2>2, <2>10
    <3>2. ASSUME NEW i \in (1 .. n) \ P
          PROVE  Cardinality(Share(s, P, s[i].loc.path)) >= MaxPerFile
      <4>1. ~(RankInFile(s, i) <= MaxPerFile)
        BY <3>1
      <4>2. Cardinality(Share(s, E, s[i].loc.path)) >= MaxPerFile
        BY <1>1, <4>1, ShareIsFull
      <4> HIDE DEF E, P
      <4>3. /\ Cardinality(Share(s, E, s[i].loc.path)) <= Cardinality(Share(s, P, s[i].loc.path))
            /\ Cardinality(Share(s, E, s[i].loc.path)) \in Nat
            /\ Cardinality(Share(s, P, s[i].loc.path)) \in Nat
        BY <1>1, <2>1, <2>8, <3>1, ShareGrows, SharesAreFinite
      <4> QED
        BY <4>2, <4>3, LimitsAreNat
    <3> HIDE DEF P
    <3> QED
      BY <1>2, <1>4, <2>8, <2>9, <3>2 DEF IsCut
  <2>11. CASE ~(Cardinality(E) <= topK)
    <3>1. left = 0
      BY <2>2, <2>3, <2>11 DEF left
    <3>2. P \subseteq E
      BY <2>2, <2>7, <3>1
    <3>3. ASSUME NEW path PROVE Cardinality(Share(s, P, path)) <= MaxPerFile
      <4>1. Cardinality(Share(s, E, path)) <= MaxPerFile
        BY <1>1, ShareIsCapped
      <4> HIDE DEF E, P
      <4>2. /\ Cardinality(Share(s, P, path)) <= Cardinality(Share(s, E, path))
            /\ Cardinality(Share(s, E, path)) \in Nat
            /\ Cardinality(Share(s, P, path)) \in Nat
        BY <1>1, <2>1, <2>8, <3>2, ShareGrows, SharesAreFinite
      <4> QED
        BY <4>1, <4>2, LimitsAreNat
    <3> HIDE DEF P
    <3> QED
      BY <1>2, <1>4, <2>8, <2>9, <3>3 DEF IsCut
  <2> QED
    BY <2>10, <2>11
<1> QED
  BY <1>3, <1>4

-----------------------------------------------------------------------------
(* The whole list.                                                          *)

AreDisjoint(s) == \A k, l \in 1 .. Len(s) : k # l => ~Overlapping(s[k].loc, s[l].loc)

AllHeld(list, raw) ==
  \A i \in 1 .. Len(raw) : \E k \in 1 .. Len(list) : Holds(list[k], raw[i])

\* The positions of a file in a list.
OfFile(list, path) == Share(list, 1 .. Len(list), path)

AreShared(list, raw) ==
  \A i \in 1 .. Len(raw) :
    \/ \E k \in 1 .. Len(list) : Holds(list[k], raw[i])
    \/ \A path : Cardinality(OfFile(list, path)) <= MaxPerFile
    \/ Cardinality(OfFile(list, Plain[raw[i].loc.path])) >= MaxPerFile

\* What is in order and apart where it is known does not overlap.
LEMMA ApartIsDisjoint ==
  ASSUME NEW s, ArePlaced(s), AreApart(s)
  PROVE  AreDisjoint(s)
<1>1. Len(s) \in Nat /\ \A k \in 1 .. Len(s) : IsPlaced(s[k])
  BY ArePlacedIs
<1>2. ASSUME NEW k \in 1 .. Len(s), NEW l \in 1 .. Len(s), k < l
      PROVE  ~Overlapping(s[k].loc, s[l].loc) /\ ~Overlapping(s[l].loc, s[k].loc)
  <2>1. Before(s[k].loc, s[l].loc)
    BY <1>2 DEF AreApart
  <2>2. /\ PathRank[s[k].loc.path] \in Nat /\ PathRank[s[l].loc.path] \in Nat
        /\ s[k].loc.start \in Nat /\ s[l].loc.start \in Nat
        /\ s[k].loc.end \in Nat /\ s[l].loc.end \in Nat
    BY <1>1, PlacedIs
  <2>3. CASE PathRank[s[k].loc.path] < PathRank[s[l].loc.path]
    <3>1. s[k].loc.path # s[l].loc.path
      BY <2>2, <2>3
    <3> QED
      BY <3>1 DEF Overlapping
  <2>4. CASE s[k].loc.start # 0 /\ s[l].loc.start # 0 => s[k].loc.end < s[l].loc.start
    BY <2>2, <2>4 DEF Overlapping, IsUnknown, RangesOverlap
  <2> QED
    BY <2>1, <2>3, <2>4 DEF Before
<1>3. \A k, l \in 1 .. Len(s) : k # l => k < l \/ l < k
  BY <1>1
<1> QED
  BY <1>2, <1>3 DEF AreDisjoint

LEMMA ReorderedHits ==
  ASSUME NEW s, NEW t, NEW order, ArePlaced(s), AreDisjoint(s), Reorders(t, s, order), NEW raw, AllHeld(s, raw)
  PROVE  ArePlaced(t) /\ AreDisjoint(t) /\ AllHeld(t, raw)
<1> DEFINE n == Len(s)
<1>1. n \in Nat /\ \A k \in 1 .. n : IsPlaced(s[k])
  BY ArePlacedIs
<1>2. /\ \A k \in 1 .. n : order[k] \in 1 .. n /\ t[k] = s[order[k]]
      /\ \A i \in 1 .. n : \E k \in 1 .. n : order[k] = i
      /\ \A k, l \in 1 .. n : k # l => order[k] # order[l]
      /\ t = [k \in 1 .. n |-> t[k]]
  BY DEF Reorders
<1>3. \A k \in 1 .. n : IsPlaced(t[k])
  BY <1>1, <1>2
<1>4. ArePlaced(t) /\ Len(t) = n
  <2> HIDE DEF n
  <2> QED
    BY <1>1, <1>2, <1>3, ArePlacedOf
<1>5. AreDisjoint(t)
  <2> SUFFICES ASSUME NEW k \in 1 .. n, NEW l \in 1 .. n, k # l
               PROVE  ~Overlapping(t[k].loc, t[l].loc)
    BY <1>4 DEF AreDisjoint
  <2>1. order[k] \in 1 .. n /\ order[l] \in 1 .. n /\ order[k] # order[l]
    BY <1>2
  <2>2. t[k] = s[order[k]] /\ t[l] = s[order[l]]
    BY <1>2
  <2> QED
    BY <2>1, <2>2 DEF AreDisjoint
<1>6. AllHeld(t, raw)
  <2> SUFFICES ASSUME NEW i \in 1 .. Len(raw) PROVE \E k \in 1 .. n : Holds(t[k], raw[i])
    BY <1>4 DEF AllHeld
  <2>1. PICK j \in 1 .. n : Holds(s[j], raw[i])
    BY DEF AllHeld
  <2>2. PICK k \in 1 .. n : order[k] = j
    BY <1>2
  <2> QED
    BY <1>2, <2>1, <2>2
<1> QED
  BY <1>4, <1>5, <1>6

ArePositions(P, s) == P \subseteq 1 .. Len(s)

LEMMA PickedAt ==
  ASSUME NEW s, ArePlaced(s), NEW P, ArePositions(P, s)
  PROVE  /\ Len(s) \in Nat /\ Cardinality(P) \in Nat
         /\ Picked(s, P) = [k \in 1 .. Cardinality(P) |-> s[InOrder(P)[k]]]
         /\ \A k \in 1 .. Cardinality(P) : InOrder(P)[k] \in P
         /\ \A i \in P : \E k \in 1 .. Cardinality(P) : InOrder(P)[k] = i
         /\ \A k, l \in 1 .. Cardinality(P) : k < l => InOrder(P)[k] < InOrder(P)[l]
<1> DEFINE n == Len(s)
<1>1. n \in Nat /\ P \in SUBSET (1 .. n)
  BY ArePlacedIs DEF ArePositions
<1> HIDE DEF n
<1>2. /\ Cardinality(P) \in 0 .. n
      /\ Picked(s, P) = [k \in 1 .. Cardinality(P) |-> s[InOrder(P)[k]]]
      /\ \A k \in 1 .. Cardinality(P) : InOrder(P)[k] \in P
      /\ \A i \in P : \E k \in 1 .. Cardinality(P) : InOrder(P)[k] = i
      /\ \A k, l \in 1 .. Cardinality(P) : k < l => InOrder(P)[k] < InOrder(P)[l]
  BY <1>1, PickedLists, Zenon
<1>3. Cardinality(P) \in Nat
  BY <1>2
<1> QED
  BY <1>1, <1>2, <1>3, Zenon DEF n

\* Of a file, a list has what was picked for it.
LEMMA PickedShare ==
  ASSUME NEW s, ArePlaced(s), NEW P, P \subseteq 1 .. Len(s), NEW path
  PROVE  Cardinality(OfFile(Picked(s, P), path)) = Cardinality(Share(s, P, path))
<1> DEFINE n == Len(s)
           c == Cardinality(P)
           at == InOrder(P)
           t == Picked(s, P)
           A == OfFile(t, path)
           B == Share(s, P, path)
           f == [k \in A |-> at[k]]
<1>1. n \in Nat /\ P \in SUBSET (1 .. n)
  BY ArePlacedIs
<1>2. /\ c \in Nat
      /\ t = [k \in 1 .. c |-> s[at[k]]]
      /\ \A k \in 1 .. c : at[k] \in P
      /\ \A i \in P : \E k \in 1 .. c : at[k] = i
      /\ \A k, l \in 1 .. c : k < l => at[k] < at[l]
  <2>1. ArePositions(P, s)
    BY DEF ArePositions
  <2> QED
    BY <2>1, PickedAt
<1> HIDE DEF c, at
<1>3. Len(t) = c
  <2>1. t = [k \in 1 .. c |-> t[k]]
    BY <1>2
  <2> HIDE DEF t
  <2> QED
    BY <1>2, <2>1, ListOf
<1> HIDE DEF t
<1>4. A = {k \in 1 .. c : s[at[k]].loc.path = path}
  BY <1>2, <1>3 DEF OfFile, Share
<1>5. B = {i \in P : s[i].loc.path = path}
  BY DEF Share
<1> HIDE DEF A, B
<1>6. f \in Bijection(A, B)
  <2>1. \A k \in A : f[k] \in B
    BY <1>2, <1>4, <1>5
  <2>2. ASSUME NEW k \in A, NEW l \in A, k # l PROVE f[k] # f[l]
    <3>1. k \in 1 .. c /\ l \in 1 .. c
      BY <1>4
    <3>2. P \subseteq Int
      BY <1>1
    <3>3. at[k] \in Int /\ at[l] \in Int
      BY <1>2, <3>1, <3>2
    <3>4. k < l \/ l < k
      BY <1>2, <2>2, <3>1
    <3>5. at[k] < at[l] \/ at[l] < at[k]
      BY <1>2, <3>1, <3>4
    <3>6. at[k] # at[l]
      BY <3>3, <3>5
    <3> QED
      BY <3>6
  <2>3. \A i \in B : \E k \in A : f[k] = i
    BY <1>2, <1>4, <1>5
  <2> HIDE DEF f
  <2>4. f \in [A -> B]
    BY <2>1 DEF f
  <2>5. f \in Injection(A, B)
    BY <2>2, <2>4 DEF Injection, IsInjective
  <2>6. f \in Surjection(A, B)
    BY <2>3, <2>4 DEF Surjection
  <2> QED
    BY <2>5, <2>6 DEF Bijection
<1>7. IsFiniteSet(A)
  <2>1. IsFiniteSet(1 .. c) /\ A \subseteq 1 .. c
    BY <1>2, <1>4, FS_Interval
  <2> QED
    BY <2>1, FS_Subset
<1>8. ExistsBijection(A, B)
  BY <1>6 DEF ExistsBijection
<1>9. Cardinality(A) = Cardinality(B)
  BY <1>7, <1>8, FS_Bijection
<1> QED
  BY <1>9 DEF A, B, t

LEMMA CutHits ==
  ASSUME NEW s, ArePlaced(s), AreDisjoint(s), NEW raw, AllHeld(s, raw),
         NEW t, NEW P, NEW topK \in Nat, IsCut(t, s, P, topK)
  PROVE  ArePlaced(t) /\ AreDisjoint(t) /\ AreShared(t, raw) /\ ~(Len(t) < topK)
<1> DEFINE n == Len(s)
           c == Cardinality(P)
           at == InOrder(P)
<1>1. /\ n \in Nat /\ P \subseteq 1 .. n /\ P \in SUBSET (1 .. n)
      /\ \A k \in 1 .. n : IsPlaced(s[k])
      /\ t = Picked(s, P) /\ c >= topK
  BY ArePlacedIs DEF IsCut
<1>2. /\ c \in Nat
      /\ t = [k \in 1 .. c |-> s[at[k]]]
      /\ \A k \in 1 .. c : at[k] \in P
      /\ \A i \in P : \E k \in 1 .. c : at[k] = i
      /\ \A k, l \in 1 .. c : k < l => at[k] < at[l]
  <2>1. /\ c \in Nat
        /\ Picked(s, P) = [k \in 1 .. c |-> s[at[k]]]
        /\ \A k \in 1 .. c : at[k] \in P
        /\ \A i \in P : \E k \in 1 .. c : at[k] = i
        /\ \A k, l \in 1 .. c : k < l => at[k] < at[l]
    <3>1. ArePositions(P, s)
      BY <1>1 DEF ArePositions
    <3> QED
      BY <3>1, PickedAt
  <2> HIDE DEF c, at
  <2> QED
    BY <1>1, <2>1
<1> HIDE DEF c, at
<1>3. /\ t = [k \in 1 .. c |-> t[k]]
      /\ \A k \in 1 .. c : t[k] = s[at[k]] /\ at[k] \in 1 .. n /\ IsPlaced(t[k])
  BY <1>1, <1>2
<1>4. ArePlaced(t) /\ Len(t) = c
  BY <1>2, <1>3, ArePlacedOf
<1>5. AreDisjoint(t)
  <2> SUFFICES ASSUME NEW k \in 1 .. c, NEW l \in 1 .. c, k # l
               PROVE  ~Overlapping(t[k].loc, t[l].loc)
    BY <1>4 DEF AreDisjoint
  <2>1. k < l \/ l < k
    BY <1>2
  <2>2. at[k] < at[l] \/ at[l] < at[k]
    BY <1>2, <2>1
  <2>3. at[k] # at[l] /\ at[k] \in 1 .. n /\ at[l] \in 1 .. n
    BY <1>1, <1>3, <2>2
  <2> QED
    BY <1>3, <2>3 DEF AreDisjoint
<1>6. \A path : Cardinality(OfFile(t, path)) = Cardinality(Share(s, P, path))
  BY <1>1, PickedShare
<1>7. ASSUME NEW i \in 1 .. Len(raw)
      PROVE  \/ \E k \in 1 .. c : Holds(t[k], raw[i])
             \/ \A path : Cardinality(OfFile(t, path)) <= MaxPerFile
             \/ Cardinality(OfFile(t, Plain[raw[i].loc.path])) >= MaxPerFile
  <2>1. PICK j \in 1 .. n : Holds(s[j], raw[i])
    BY DEF AllHeld
  <2>2. CASE j \in P
    <3>1. PICK k \in 1 .. c : at[k] = j
      BY <1>2, <2>2
    <3> QED
      BY <1>3, <2>1, <3>1
  <2>3. CASE j \notin P
    <3>1. s[j].loc.path = Plain[raw[i].loc.path]
      BY <2>1 DEF Holds, Within, NormalizeLocation
    <3>2. \/ \A path : Cardinality(Share(s, P, path)) <= MaxPerFile
          \/ Cardinality(Share(s, P, s[j].loc.path)) >= MaxPerFile
      BY <2>3 DEF IsCut
    <3> QED
      BY <1>6, <3>1, <3>2
  <2> QED
    BY <2>2, <2>3
<1>8. AreShared(t, raw)
  BY <1>4, <1>7 DEF AreShared
<1> QED
  BY <1>1, <1>2, <1>4, <1>5, <1>8

\* The list that is made of some hits.
IsListing(list, raw) ==
  /\ ArePlaced(list) /\ AreDisjoint(list) /\ AreShared(list, raw)
  /\ Len(list) < TopK => AllHeld(list, raw)

LEMMA ListingIs ==
  ASSUME NEW raw, AreHits(raw), NEW p, IsFiniteSet(CoverageKeys(p))
  PROVE  IsListing(MergeAndRank(raw, p, TopK), raw)
<1> DEFINE strong == StrongKeys(p)
           keys == CoverageKeys(p)
           m == Merged(raw, strong)
           c == Scored(m, keys, strong)
           s == Sorted(c, ByScore)
           t == MergeAndRank(raw, p, TopK)
<1>1. TopK \in Nat
  BY TopIsNat
<1>2. t = Truncated(s, TopK)
  BY DEF MergeAndRank
<1> HIDE DEF strong, keys
<1>3. ArePlaced(m) /\ AreApart(m) /\ AllHeld(m, raw)
  BY MergedIs DEF AllHeld
<1> HIDE DEF m
<1>4. /\ ArePlaced(c) /\ Len(c) = Len(m)
      /\ \A k \in 1 .. Len(m) :
           c[k].loc = m[k].loc /\ c[k].kind = m[k].kind /\ c[k].symbol = m[k].symbol /\ c[k].score \in Int
  <2>1. IsFiniteSet(keys)
    BY DEF keys
  <2> QED
    BY <1>3, <2>1, ScoredIs
<1> HIDE DEF c
<1>5. AreDisjoint(m)
  BY <1>3, ApartIsDisjoint
<1>6. AreDisjoint(c) /\ AllHeld(c, raw)
  BY <1>3, <1>4, <1>5 DEF AreDisjoint, AllHeld, Holds
<1>7. PICK order : Reorders(s, c, order)
  BY <1>4, SortedByScore
<1> HIDE DEF s
<1>8. ArePlaced(s) /\ AreDisjoint(s) /\ AllHeld(s, raw)
  BY <1>4, <1>6, <1>7, ReorderedHits
<1>9. CASE t = s
  BY <1>8, <1>9 DEF IsListing, AllHeld, AreShared
<1>10. CASE \E P : IsCut(t, s, P, TopK)
  <2>1. PICK P : IsCut(t, s, P, TopK)
    BY <1>10
  <2>2. ArePlaced(t) /\ AreDisjoint(t) /\ AreShared(t, raw) /\ ~(Len(t) < TopK)
    <3> HIDE DEF t
    <3> QED
      BY <1>1, <1>8, <2>1, CutHits
  <2> QED
    BY <2>2 DEF IsListing
<1> QED
  BY <1>1, <1>2, <1>8, <1>9, <1>10, TruncatedIs

-----------------------------------------------------------------------------
(* Patterns and legs.                                                       *)

LEMMA FiniteRange ==
  ASSUME NEW s, IsList(s)
  PROVE  IsFiniteSet(Range(s))
<1>1. Len(s) \in Nat /\ DOMAIN s = 1 .. Len(s)
  BY ListIs
<1>2. IsFiniteSet(DOMAIN s)
  BY <1>1, FS_Interval
<1>3. s \in Surjection(DOMAIN s, Range(s))
  <2>1. s = [k \in DOMAIN s |-> s[k]]
    BY <1>1 DEF IsList
  <2>2. s \in [DOMAIN s -> Range(s)]
    BY <2>1 DEF Range
  <2> QED
    BY <2>2 DEF Surjection, Range
<1> QED
  BY <1>2, <1>3, FS_Surjection

LEMMA UniqueIs ==
  ASSUME NEW s, IsList(s)
  PROVE  IsList(Unique(s))
<1>1. {i \in DOMAIN s : \A j \in 1 .. i - 1 : s[j] # s[i]} \subseteq DOMAIN s
  OBVIOUS
<1> QED
  BY <1>1, PickedIs DEF Unique

LEMMA SlicedIs ==
  ASSUME NEW s, IsList(s), NEW i \in Int, NEW n \in Nat, i >= 1, n <= Len(s)
  PROVE  IsList(SubSeq(s, i, n))
<1>1. Len(s) \in Nat /\ s \in Seq(Range(s))
  BY ListIs
<1>2. SubSeq(s, i, n) \in Seq(Range(s))
  BY <1>1
<1> QED
  BY <1>2, SeqIsList

LEMMA TakeIs ==
  ASSUME NEW s, IsList(s), NEW n \in Nat
  PROVE  IsList(Take(s, n))
<1>1. Len(s) \in Nat
  BY ListIs
<1>2. Lower(n, Len(s)) \in Nat /\ Lower(n, Len(s)) <= Len(s)
  BY <1>1 DEF Lower
<1> QED
  BY <1>2, SlicedIs DEF Take

\* Lists that are made position by position.
LEMMA MappedIs ==
  ASSUME NEW s, IsList(s), NEW t, DOMAIN t = DOMAIN s, t = [i \in DOMAIN t |-> t[i]]
  PROVE  IsList(t) /\ Len(t) = Len(s)
<1>1. Len(s) \in Nat /\ DOMAIN s = 1 .. Len(s)
  BY ListIs
<1>2. t = [i \in 1 .. Len(s) |-> t[i]]
  BY <1>1
<1> QED
  BY <1>1, <1>2, ListOf

LEMMA VariantsAre ==
  ASSUME NEW s, IsList(s)
  PROVE  IsList(Variants(s))
<1> DEFINE t == Variants(s)
<1>1. DOMAIN t = DOMAIN s /\ t = [i \in DOMAIN t |-> t[i]]
  BY DEF Variants
<1> HIDE DEF t
<1>2. IsList(t)
  BY <1>1, MappedIs
<1> QED
  BY <1>2 DEF t

\* The patterns of a query are lists.
LEMMA PatternsAre ==
  ASSUME NEW q \in Queries
  PROVE  LET p == DerivePatterns(q.words)
         IN  /\ IsList(p.literals) /\ IsList(p.paths) /\ IsList(p.identifiers) /\ IsList(p.grep)
             /\ p.originals \in Nat
<1> DEFINE words == q.words
           quoted == Those(words, LAMBDA w : w.quoted)
           plain == Those(words, LAMBDA w : ~w.quoted)
           parts == [i \in DOMAIN plain |-> plain[i].segments]
           segments == FlattenSeq(parts)
           paths == Those(plain, LAMBDA w : w.path)
           literals == Unique([i \in DOMAIN quoted |-> quoted[i].token])
           named == Unique([i \in DOMAIN paths |-> paths[i].token])
           originals == Unique(Those(segments, LAMBDA t : t \in Identifiers))
           variants == Those(Variants(originals), LAMBDA t : t # Missing)
           identifiers == Unique(originals \o variants)
           grep == Take(Unique(literals \o identifiers), MaxGrep)
           p == DerivePatterns(words)
<1>1. IsList(words) /\ \A i \in DOMAIN words : IsList(words[i].segments)
  BY QueriesAreTyped
<1>2. p = [literals |-> literals, paths |-> named,
           pathKeys |-> UNION {Range(paths[i].segments) : i \in DOMAIN paths},
           identifiers |-> identifiers, originals |-> Len(originals), grep |-> grep]
  BY DEF DerivePatterns
<1> HIDE DEF words
<1>3. IsList(quoted)
  BY <1>1, PickedIs DEF Those
<1>4. /\ IsList(plain) /\ Len(plain) \in Nat /\ DOMAIN plain = 1 .. Len(plain)
      /\ \A k \in 1 .. Len(plain) : \E i \in {j \in DOMAIN words : ~words[j].quoted} : plain[k] = words[i]
  <2> DEFINE J == {j \in DOMAIN words : ~words[j].quoted}
  <2>1. J \subseteq DOMAIN words /\ plain = Picked(words, J)
    BY DEF Those
  <2> HIDE DEF J, plain
  <2>2. /\ IsList(plain) /\ Len(plain) \in Nat /\ DOMAIN plain = 1 .. Len(plain)
        /\ \A k \in 1 .. Len(plain) : \E i \in J : plain[k] = words[i]
    BY <1>1, <2>1, PickedFrom
  <2> QED
    BY <2>2 DEF J
<1> HIDE DEF plain, quoted
<1>5. IsList(segments)
  <2>1. parts = [k \in 1 .. Len(plain) |-> parts[k]]
    BY <1>4
  <2>2. \A k \in 1 .. Len(plain) : IsList(parts[k])
    BY <1>1, <1>4
  <2> HIDE DEF parts
  <2> QED
    BY <1>4, <2>1, <2>2, Flattened
<1>6. IsList(paths)
  BY <1>4, PickedIs DEF Those
<1> HIDE DEF segments, paths
<1>7. IsList(literals)
  <2> DEFINE t == [i \in DOMAIN quoted |-> quoted[i].token]
  <2>1. DOMAIN t = DOMAIN quoted /\ t = [i \in DOMAIN t |-> t[i]]
    OBVIOUS
  <2> HIDE DEF t
  <2>2. IsList(t)
    BY <1>3, <2>1, MappedIs
  <2>3. IsList(Unique(t))
    BY <2>2, UniqueIs
  <2> QED
    BY <2>3 DEF t
<1>8. IsList(named)
  <2> DEFINE t == [i \in DOMAIN paths |-> paths[i].token]
  <2>1. DOMAIN t = DOMAIN paths /\ t = [i \in DOMAIN t |-> t[i]]
    OBVIOUS
  <2> HIDE DEF t
  <2>2. IsList(t)
    BY <1>6, <2>1, MappedIs
  <2>3. IsList(Unique(t))
    BY <2>2, UniqueIs
  <2> QED
    BY <2>3 DEF t
<1>9. IsList(originals) /\ Len(originals) \in Nat
  <2>1. IsList(Those(segments, LAMBDA t : t \in Identifiers))
    BY <1>5, PickedIs DEF Those
  <2>2. IsList(originals)
    BY <2>1, UniqueIs
  <2> HIDE DEF originals
  <2> QED
    BY <2>2, ListIs
<1> HIDE DEF originals, literals, named
<1>10. IsList(variants)
  <2>1. IsList(Variants(originals))
    BY <1>9, VariantsAre
  <2> QED
    BY <2>1, PickedIs DEF Those
<1> HIDE DEF variants
<1>11. IsList(identifiers)
  BY <1>9, <1>10, ListAfter, UniqueIs
<1> HIDE DEF identifiers
<1>12. IsList(grep)
  <2>1. IsList(Unique(literals \o identifiers))
    BY <1>7, <1>11, ListAfter, UniqueIs
  <2> QED
    BY <2>1, LimitsAreNat, TakeIs
<1> HIDE DEF grep, p
<1>13. /\ p.literals = literals /\ p.paths = named /\ p.identifiers = identifiers
       /\ p.originals = Len(originals) /\ p.grep = grep
  BY <1>2
<1> QED
  BY <1>7, <1>8, <1>9, <1>11, <1>12, <1>13 DEF p, words

LEMMA KeysAreFinite ==
  ASSUME NEW q \in Queries
  PROVE  IsFiniteSet(CoverageKeys(DerivePatterns(q.words)))
<1> DEFINE p == DerivePatterns(q.words)
           T == Range(p.identifiers) \cup Range(p.literals)
<1>1. IsList(p.identifiers) /\ IsList(p.literals)
  BY PatternsAre
<1> HIDE DEF p
<1>2. IsFiniteSet(T)
  BY <1>1, FiniteRange, FS_Union
<1>3. IsFiniteSet({Key[t] : t \in T})
  <2> HIDE DEF T
  <2> DEFINE f == [t \in T |-> Key[t]]
  <2>1. f \in Surjection(T, {Key[t] : t \in T})
    BY DEF Surjection
  <2> QED
    BY <1>2, <2>1, FS_Surjection
<1>4. CoverageKeys(p) \subseteq {Key[t] : t \in T}
  BY DEF CoverageKeys
<1> QED
  BY <1>3, <1>4, FS_Subset DEF p

Tools == {"symbol", "bm25", "semantic", "grep", "file"}

AreLegs(s) == IsList(s) /\ \A k \in 1 .. Len(s) : s[k].tool \in Tools

LEMMA IdentifiersAre ==
  ASSUME NEW p, IsList(p.identifiers), p.originals \in Nat, NEW limit \in Nat
  PROVE  IsList(LegIdentifiers(p, limit))
<1> DEFINE first == Take(p.identifiers, Lower(limit, p.originals))
           later == SubSeq(p.identifiers, p.originals + 1, Len(p.identifiers))
           variants == Those(Variants(first), LAMBDA t : t \in Range(later))
<1>1. IsList(first)
  <2>1. Lower(limit, p.originals) \in Nat
    BY DEF Lower
  <2> QED
    BY <2>1, TakeIs
<1> HIDE DEF first
<1>2. IsList(variants)
  <2> HIDE DEF later
  <2>1. IsList(Variants(first))
    BY <1>1, VariantsAre
  <2> QED
    BY <2>1, PickedIs DEF Those
<1>3. LegIdentifiers(p, limit) = Unique(first \o variants)
  BY DEF LegIdentifiers, first
<1> HIDE DEF variants
<1> QED
  BY <1>1, <1>2, <1>3, ListAfter, UniqueIs

\* Legs of one tool, and legs after others.
LEMMA LegsOfTool ==
  ASSUME NEW tokens, IsList(tokens), NEW tool \in Tools
  PROVE  AreLegs([i \in DOMAIN tokens |-> [tool |-> tool, token |-> tokens[i]]])
<1> DEFINE t == [i \in DOMAIN tokens |-> [tool |-> tool, token |-> tokens[i]]]
<1>1. DOMAIN t = DOMAIN tokens /\ t = [i \in DOMAIN t |-> t[i]] /\ \A i \in DOMAIN t : t[i].tool = tool
  OBVIOUS
<1> HIDE DEF t
<1>2. IsList(t)
  BY <1>1, MappedIs
<1>3. DOMAIN t = 1 .. Len(t)
  BY <1>2, ListIs
<1>4. AreLegs(t)
  BY <1>1, <1>2, <1>3 DEF AreLegs
<1> QED
  BY <1>4 DEF t

LEMMA LegsAfter ==
  ASSUME NEW s, NEW t, AreLegs(s), AreLegs(t)
  PROVE  AreLegs(s \o t)
<1> DEFINE u == s \o t
<1>1. /\ IsList(u) /\ Len(u) = Len(s) + Len(t)
      /\ \A i \in 1 .. Len(s) : u[i] = s[i]
      /\ \A i \in 1 .. Len(t) : u[Len(s) + i] = t[i]
      /\ \A i \in 1 .. Len(s) + Len(t) : i \in 1 .. Len(s) \/ i - Len(s) \in 1 .. Len(t)
  BY ListAfter DEF AreLegs
<1> HIDE DEF u
<1>2. ASSUME NEW i \in 1 .. Len(u) PROVE u[i].tool \in Tools
  <2>1. Len(s) \in Nat /\ Len(t) \in Nat
    BY DEF AreLegs, IsList
  <2>2. CASE i \in 1 .. Len(s)
    BY <1>1, <2>2 DEF AreLegs
  <2>3. CASE i - Len(s) \in 1 .. Len(t)
    <3>1. PICK j \in 1 .. Len(t) : j = i - Len(s)
      BY <2>3
    <3>2. i = Len(s) + j
      BY <2>1, <3>1
    <3>3. u[i] = t[j]
      BY <1>1, <3>2
    <3> QED
      BY <3>3 DEF AreLegs
  <2> QED
    BY <1>1, <1>2, <2>2, <2>3
<1> QED
  BY <1>1, <1>2 DEF AreLegs, u

LEMMA LegsAre ==
  ASSUME NEW q \in Queries
  PROVE  AreLegs(Legs(q))
<1> DEFINE p == DerivePatterns(q.words)
           legs(tool, tokens) == [i \in DOMAIN tokens |-> [tool |-> tool, token |-> tokens[i]]]
           left == Upper(0, SemanticTokens - Len(p.literals))
           text == <<[tool |-> "bm25", token |-> q.text]>>
           symbols == LegIdentifiers(p, SymbolTokens)
           words == Take(p.literals, SemanticTokens) \o LegIdentifiers(p, left)
           files == Take(p.paths, FileTokens)
<1>1. /\ IsList(p.literals) /\ IsList(p.paths) /\ IsList(p.identifiers) /\ IsList(p.grep)
      /\ p.originals \in Nat
  BY PatternsAre
<1>2. Legs(q) = legs("symbol", symbols) \o text \o legs("semantic", words)
                  \o legs("grep", p.grep) \o legs("file", files)
  BY DEF Legs
<1> HIDE DEF p
<1>3. IsList(symbols)
  BY <1>1, TopIsNat, IdentifiersAre
<1>4. IsList(words)
  <2>1. left \in Nat
    <3>1. Len(p.literals) \in Nat /\ SemanticTokens \in Nat
      BY <1>1, TopIsNat, ListIs
    <3> QED
      BY <3>1 DEF Upper
  <2> HIDE DEF left
  <2>2. IsList(LegIdentifiers(p, left))
    BY <1>1, <2>1, IdentifiersAre
  <2>3. IsList(Take(p.literals, SemanticTokens))
    BY <1>1, TopIsNat, TakeIs
  <2> QED
    BY <2>2, <2>3, ListAfter
<1>5. IsList(files)
  BY <1>1, TopIsNat, TakeIs
<1>6. AreLegs(text)
  <2>1. IsList(text) /\ Len(text) = 1 /\ text[1] = [tool |-> "bm25", token |-> q.text]
    BY ShortLists
  <2> HIDE DEF text
  <2>2. \A k \in 1 .. Len(text) : text[k].tool \in Tools
    BY <2>1 DEF Tools
  <2> QED
    BY <2>1, <2>2 DEF AreLegs
<1> HIDE DEF symbols, words, files, text
<1>7. /\ AreLegs(legs("symbol", symbols)) /\ AreLegs(legs("semantic", words))
      /\ AreLegs(legs("grep", p.grep)) /\ AreLegs(legs("file", files))
  BY <1>1, <1>3, <1>4, <1>5, LegsOfTool DEF Tools
<1> HIDE DEF legs
<1> QED
  BY <1>2, <1>6, <1>7, LegsAfter

-----------------------------------------------------------------------------
(* What legs find is hits.                                                  *)

LEMMA HitsOf ==
  ASSUME NEW found, IsList(found), NEW t, DOMAIN t = DOMAIN found, t = [i \in DOMAIN t |-> t[i]],
         \A i \in DOMAIN found : IsHit(t[i])
  PROVE  AreHits(t)
<1>1. IsList(t) /\ Len(t) = Len(found) /\ DOMAIN found = 1 .. Len(found)
  BY MappedIs, ListIs
<1> QED
  BY <1>1 DEF AreHits

LEMMA CandidatesAreHits ==
  ASSUME NEW f, IsLocation(f.loc), NEW kind \in Kinds
  PROVE  IsHit(Candidate(f, kind))
<1> DEFINE c == Candidate(f, kind)
<1>1. c = [loc |-> f.loc, symbol |-> f.note, kind |-> kind, score |-> 0,
           text |-> f.text, keys |-> Mentions(f.text)]
  BY DEF Candidate
<1> HIDE DEF c
<1>2. IsHit(c)
  BY <1>1 DEF IsHit
<1> QED
  BY <1>2 DEF c

LEMMA ClassifiedIs ==
  ASSUME NEW leg, leg.tool \in Tools, NEW found, AreFindings(found)
  PROVE  AreHits(Classified(leg, found))
<1> DEFINE t == Classified(leg, found)
           named(i) == found[i].note # Missing /\ found[i].note.last = leg.token
           firsts == FirstOfFile(found)
           place(k) == [path |-> firsts[k].loc.path, start |-> 1, end |-> 1]
           kind(i) == IF named(i) THEN "SymbolExact" ELSE "SymbolFuzzy"
<1>1. /\ IsList(found) /\ DOMAIN found = 1 .. Len(found)
      /\ \A i \in DOMAIN found : IsFinding(found[i]) /\ IsLocation(found[i].loc)
  BY FindingsList DEF AreFindings, IsFinding
<1>2. CASE leg.tool = "symbol"
  <2>1. t = [i \in DOMAIN found |-> Candidate(found[i], kind(i))]
    BY <1>2 DEF Classified
  <2>2. \A i \in DOMAIN found : kind(i) \in Kinds
    BY DEF Kinds
  <2> HIDE DEF kind
  <2>3. \A i \in DOMAIN found : IsHit(t[i])
    BY <1>1, <2>1, <2>2, CandidatesAreHits
  <2>4. DOMAIN t = DOMAIN found /\ t = [i \in DOMAIN t |-> t[i]]
    BY <2>1
  <2> HIDE DEF t
  <2>5. AreHits(t)
    BY <1>1, <2>3, <2>4, HitsOf
  <2> QED
    BY <2>5 DEF t
<1>3. CASE leg.tool \in {"bm25", "semantic", "grep"}
  <2>1. PICK as \in Kinds : t = [i \in DOMAIN found |-> Candidate(found[i], as)]
    BY <1>3 DEF Classified, Kinds
  <2>2. \A i \in DOMAIN found : IsHit(t[i])
    BY <1>1, <2>1, CandidatesAreHits
  <2>3. DOMAIN t = DOMAIN found /\ t = [i \in DOMAIN t |-> t[i]]
    BY <2>1
  <2> HIDE DEF t
  <2>4. AreHits(t)
    BY <1>1, <2>2, <2>3, HitsOf
  <2> QED
    BY <2>4 DEF t
<1>4. CASE leg.tool = "file"
  <2>1. t = [k \in DOMAIN firsts |->
               [loc |-> place(k), symbol |-> Missing, kind |-> "FileNameHit", score |-> 0,
                text |-> Missing, keys |-> {}]]
    BY <1>4 DEF Classified
  <2>2. /\ IsList(firsts) /\ DOMAIN firsts = 1 .. Len(firsts)
        /\ \A k \in 1 .. Len(firsts) : \E i \in DOMAIN found : firsts[k] = found[i]
    <3> DEFINE J == {i \in DOMAIN found : \A j \in 1 .. i - 1 : found[j].loc.path # found[i].loc.path}
    <3>1. J \subseteq DOMAIN found /\ firsts = Picked(found, J)
      BY DEF FirstOfFile
    <3> HIDE DEF J, firsts
    <3> QED
      BY <1>1, <3>1, PickedFrom
  <2> HIDE DEF firsts
  <2>3. ASSUME NEW k \in DOMAIN firsts PROVE IsHit(t[k])
    <3>1. firsts[k].loc.path \in DOMAIN Plain
      BY <1>1, <2>2 DEF IsLocation
    <3>2. IsLocation(place(k))
      BY <3>1 DEF IsLocation
    <3> HIDE DEF place
    <3>3. t[k] = [loc |-> place(k), symbol |-> Missing, kind |-> "FileNameHit", score |-> 0,
                  text |-> Missing, keys |-> {}]
      BY <2>1
    <3> HIDE DEF t
    <3> QED
      BY <3>2, <3>3 DEF IsHit, Kinds
  <2>4. DOMAIN t = DOMAIN firsts /\ t = [k \in DOMAIN t |-> t[k]]
    BY <2>1
  <2> HIDE DEF t
  <2>5. AreHits(t)
    BY <2>2, <2>3, <2>4, HitsOf
  <2> QED
    BY <2>5 DEF t
<1> QED
  BY <1>2, <1>3, <1>4 DEF Tools

LEMMA FoundIsHits ==
  ASSUME world \in Worlds, NEW t \in Trees, NEW q \in Queries, NEW i \in DOMAIN Legs(q)
  PROVE  AreHits(Found(t, Legs(q)[i], q))
<1>1. /\ Legs(q)[i] \in Range(Legs(q))
      /\ Legs(q)[i].tool \in Tools
  BY LegsAre, LegsAreListed, ListIs DEF AreLegs
<1>2. AreFindings(LegFindings(world, t, Legs(q)[i], q))
  BY <1>1, FindingsAreTyped
<1>3. Found(t, Legs(q)[i], q) = Classified(Legs(q)[i], LegFindings(world, t, Legs(q)[i], q))
  BY <1>1 DEF Found, Finds
<1> QED
  BY <1>1, <1>2, <1>3, ClassifiedIs

\* What legs found, and what the memo has, is hits.
RunHasHits(r) ==
  /\ run[r].pc = "legs" => \A i \in DOMAIN run[r].got : run[r].got[i] = Missing \/ AreHits(run[r].got[i])
  /\ run[r].pc = "ranked" => \A i \in DOMAIN run[r].got : AreHits(run[r].got[i])

MemoHasHits == \A key \in DOMAIN memo : AreHits(memo[key].candidates)

HitsAreFound == MemoHasHits /\ \A r \in Runs : RunHasHits(r)

LEMMA OthersStay ==
  ASSUME Truth, NEW r \in Runs, NEW next, Becomes(r, next)
  PROVE  run'[r] = next /\ \A s \in Runs \ {r} : RunHasHits(s) => RunHasHits(s)'
<1>1. run = [s \in Runs |-> run[s]] /\ run' = [run EXCEPT ![r] = next]
  BY DEF Truth, Shape, Becomes
<1>2. run'[r] = next /\ \A s \in Runs \ {r} : run'[s] = run[s]
  BY <1>1
<1> QED
  BY <1>2 DEF RunHasHits

LEMMA HitsAreFoundKept ==
  ASSUME Truth, HitsAreFound, [Next]_vars
  PROVE  HitsAreFound'
<1>1. ASSUME NEW t \in Trees, Edit(t) PROVE HitsAreFound'
  <2>1. memo' = memo /\ run' = [r \in Runs |-> [run[r] EXCEPT !.over = @ \cup {t}]]
    BY <1>1 DEF Edit
  <2>2. ASSUME NEW r \in Runs PROVE RunHasHits(r)'
    <3>1. IsRun(run[r]) /\ run'[r] = [run[r] EXCEPT !.over = @ \cup {t}]
      BY <2>1 DEF Truth, Shape, RunIsTyped
    <3>2. run'[r].pc = run[r].pc /\ run'[r].got = run[r].got
      BY <3>1 DEF IsRun
    <3> QED
      BY <3>2 DEF HitsAreFound, RunHasHits
  <2> QED
    BY <2>1, <2>2 DEF HitsAreFound, MemoHasHits
<1>2. ASSUME NEW r \in Runs, NEW q \in Queries, Begin(r, q) PROVE HitsAreFound'
  <2>1. PICK fp \in {tree, Missing} :
          Becomes(r, [Idle EXCEPT !.pc = "started", !.query = q, !.fp = fp, !.over = {tree}])
    BY <1>2 DEF Begin
  <2>2. run'[r].pc = "started"
    <3>1. run'[r] = [Idle EXCEPT !.pc = "started", !.query = q, !.fp = fp, !.over = {tree}]
      BY <2>1, OthersStay
    <3> QED
      BY <3>1 DEF Idle
  <2>3. memo' = memo
    BY <1>2 DEF Begin
  <2>4. RunHasHits(r)'
    BY <2>2 DEF RunHasHits
  <2> QED
    BY <2>1, <2>3, <2>4, OthersStay DEF HitsAreFound, MemoHasHits
<1>3. ASSUME NEW r \in Runs, Retrieve(r) PROVE HitsAreFound'
  <2> DEFINE legs == Legs(run[r].query)
             key(i) == LegKey(run[r].fp, legs[i], run[r].query)
             hits == {i \in DOMAIN legs : run[r].fp # Missing /\ key(i) \in DOMAIN memo}
             got == [i \in DOMAIN legs |-> IF i \in hits THEN memo[key(i)].candidates ELSE Missing]
             over == run[r].over \cup UNION {memo[key(i)].over : i \in hits}
             next == [run[r] EXCEPT !.pc = "legs", !.legs = legs, !.got = got, !.over = over]
  <2>1. Becomes(r, next) /\ memo' = memo
    BY <1>3 DEF Retrieve
  <2>2. \A i \in DOMAIN got : got[i] = Missing \/ AreHits(got[i])
    BY DEF HitsAreFound, MemoHasHits
  <2>3. next.pc = "legs" /\ next.got = got
    <3>1. IsRun(run[r])
      BY DEF Truth, Shape, RunIsTyped
    <3> HIDE DEF got, over, legs
    <3> QED
      BY <3>1 DEF IsRun
  <2> HIDE DEF next, got
  <2>4. RunHasHits(r)'
    BY <2>1, <2>2, <2>3, OthersStay DEF RunHasHits
  <2> QED
    BY <2>1, <2>4, OthersStay DEF HitsAreFound, MemoHasHits
<1>4. ASSUME NEW r \in Runs, NEW i \in DOMAIN run[r].got, LegAnswers(r, i) PROVE HitsAreFound'
  <2> DEFINE leg == run[r].legs[i]
             found == Found(tree, leg, run[r].query)
             key == LegKey(run[r].fp, leg, run[r].query)
             got == [run[r].got EXCEPT ![i] = found]
             next == [run[r] EXCEPT !.got = got]
  <2>1. /\ run[r].pc = "legs" /\ Becomes(r, next)
        /\ memo' = IF run[r].fp = Missing THEN memo ELSE Stored(key, Cell(found, run[r].over))
    BY <1>4 DEF LegAnswers, Waiting
  <2>2. /\ world \in Worlds /\ tree \in Trees /\ run[r].query \in Queries /\ IsRun(run[r])
        /\ run[r].legs = Legs(run[r].query)
        /\ run[r].got = [j \in DOMAIN run[r].legs |-> run[r].got[j]]
    BY <2>1 DEF Truth, Shape, RunIsTyped
  <2>3. AreHits(found)
    <3>1. i \in DOMAIN Legs(run[r].query)
      BY <2>2
    <3> QED
      BY <2>2, <3>1, FoundIsHits
  <2> HIDE DEF found
  <2>4. \A j \in DOMAIN got : got[j] = Missing \/ AreHits(got[j])
    BY <2>1, <2>3 DEF HitsAreFound, RunHasHits
  <2>5. next.pc = "legs" /\ next.got = got
    <3> HIDE DEF got
    <3> QED
      BY <2>1, <2>2 DEF IsRun
  <2> HIDE DEF next, got
  <2>6. RunHasHits(r)'
    BY <2>1, <2>4, <2>5, OthersStay DEF RunHasHits
  <2>7. MemoHasHits'
    <3> DEFINE cell == Cell(found, run[r].over)
    <3>1. cell.candidates = found
      BY DEF Cell
    <3> HIDE DEF key, cell
    <3>2. CASE run[r].fp = Missing
      BY <2>1, <3>2 DEF HitsAreFound, MemoHasHits
    <3>3. CASE run[r].fp # Missing
      <4>1. memo' = [k \in DOMAIN memo \cup {key} |-> IF k = key THEN cell ELSE memo[k]]
        BY <2>1, <3>3 DEF Stored, cell
      <4> QED
        BY <2>3, <3>1, <4>1 DEF HitsAreFound, MemoHasHits
    <3> QED
      BY <3>2, <3>3
  <2> QED
    BY <2>1, <2>6, <2>7, OthersStay DEF HitsAreFound
<1>5. ASSUME NEW r \in Runs, NEW i \in DOMAIN run[r].got, LegFails(r, i) PROVE HitsAreFound'
  <2> DEFINE got == [run[r].got EXCEPT ![i] = <<>>]
             next == [run[r] EXCEPT !.got = got, !.lost = @ \cup {i}]
  <2>1. run[r].pc = "legs" /\ Becomes(r, next) /\ memo' = memo
    BY <1>5 DEF LegFails, Waiting
  <2>2. IsRun(run[r])
    BY DEF Truth, Shape, RunIsTyped
  <2>3. AreHits(<<>>)
    BY ShortLists DEF AreHits
  <2>4. \A j \in DOMAIN got : got[j] = Missing \/ AreHits(got[j])
    BY <2>1, <2>3 DEF HitsAreFound, RunHasHits
  <2>5. next.pc = "legs" /\ next.got = got
    <3> HIDE DEF got
    <3> QED
      BY <2>1, <2>2 DEF IsRun
  <2> HIDE DEF next, got
  <2>6. RunHasHits(r)'
    BY <2>1, <2>4, <2>5, OthersStay DEF RunHasHits
  <2> QED
    BY <2>1, <2>6, OthersStay DEF HitsAreFound, MemoHasHits
<1>6. ASSUME NEW r \in Runs, Rank(r) PROVE HitsAreFound'
  <2> DEFINE outcome == Ranking(run[r].query, run[r].got)
             next == [run[r] EXCEPT !.pc = "ranked", !.outcome = outcome]
  <2>1. /\ run[r].pc = "legs" /\ Becomes(r, next) /\ memo' = memo
        /\ \A i \in DOMAIN run[r].got : run[r].got[i] # Missing
    BY <1>6 DEF Rank
  <2>2. next.pc = "ranked" /\ next.got = run[r].got
    <3>1. IsRun(run[r])
      BY DEF Truth, Shape, RunIsTyped
    <3> HIDE DEF outcome
    <3> QED
      BY <3>1 DEF IsRun
  <2> HIDE DEF next
  <2>3. RunHasHits(r)'
    BY <2>1, <2>2, OthersStay DEF HitsAreFound, RunHasHits
  <2> QED
    BY <2>1, <2>3, OthersStay DEF HitsAreFound, MemoHasHits
<1>7. CASE UNCHANGED vars
  BY <1>7 DEF vars, HitsAreFound, MemoHasHits, RunHasHits
<1> QED
  BY <1>1, <1>2, <1>3, <1>4, <1>5, <1>6, <1>7 DEF Next

TrueHits == Truth /\ HitsAreFound

LEMMA HitsAreTrue == Spec => []TrueHits
<1>1. Init => TrueHits
  <2>1. Init => HitsAreFound
    BY DEF Init, Idle, HitsAreFound, MemoHasHits, RunHasHits
  <2> QED
    BY <2>1, TruthAtFirst DEF TrueHits
<1>2. TrueHits /\ [Next]_vars => TrueHits'
  BY TruthKept, HitsAreFoundKept DEF TrueHits
<1> QED
  BY <1>1, <1>2, PTL DEF Spec

-----------------------------------------------------------------------------
(* What is listed.                                                          *)

LEMMA RawIsHits ==
  ASSUME TrueHits, NEW r \in Runs, Ranked(r)
  PROVE  AreHits(Raw(r))
<1> DEFINE got == run[r].got
           n == Len(Legs(run[r].query))
<1>1. /\ run[r].query \in Queries /\ run[r].legs = Legs(run[r].query)
      /\ got = [i \in DOMAIN run[r].legs |-> got[i]]
      /\ \A i \in DOMAIN got : AreHits(got[i])
  BY DEF TrueHits, Truth, Shape, RunIsTyped, HitsAreFound, RunHasHits, Ranked
<1>2. n \in Nat /\ DOMAIN run[r].legs = 1 .. n
  BY <1>1, LegsAre, ListIs DEF AreLegs
<1>3. got = [k \in 1 .. n |-> got[k]] /\ \A k \in 1 .. n : IsList(got[k])
  BY <1>1, <1>2 DEF AreHits
<1>4. \A k \in 1 .. n : AreHits(got[k])
  BY <1>1, <1>2
<1> HIDE DEF n, got
<1>5. IsList(FlattenSeq(got)) /\ Range(FlattenSeq(got)) = UNION {Range(got[k]) : k \in 1 .. n}
  BY <1>2, <1>3, Flattened
<1>6. Raw(r) = FlattenSeq(got)
  BY DEF Raw, got
<1>7. ASSUME NEW k \in 1 .. Len(Raw(r)) PROVE IsHit(Raw(r)[k])
  <2>1. DOMAIN Raw(r) = 1 .. Len(Raw(r))
    BY <1>5, <1>6, ListIs
  <2>2. Raw(r)[k] \in UNION {Range(got[j]) : j \in 1 .. n}
    BY <1>5, <1>6, <2>1 DEF Range
  <2>3. PICK j \in 1 .. n : Raw(r)[k] \in Range(got[j])
    BY <2>2
  <2>4. PICK l \in DOMAIN got[j] : Raw(r)[k] = got[j][l]
    BY <2>3 DEF Range
  <2>5. DOMAIN got[j] = 1 .. Len(got[j])
    BY <1>3, ListIs
  <2> QED
    BY <1>4, <2>4, <2>5 DEF AreHits
<1> QED
  BY <1>5, <1>6, <1>7 DEF AreHits

LEMMA ListIsListing ==
  ASSUME TrueHits, NEW r \in Runs, Ranked(r)
  PROVE  /\ AreHits(Raw(r)) /\ IsListing(List(r), Raw(r))
         /\ run[r].outcome = Outcome(Raw(r), DerivePatterns(run[r].query.words), TopK)
         /\ DOMAIN List(r) = 1 .. Len(List(r)) /\ DOMAIN Raw(r) = 1 .. Len(Raw(r))
<1>1. AreHits(Raw(r)) /\ DOMAIN Raw(r) = 1 .. Len(Raw(r))
  BY RawIsHits, ListIs DEF AreHits
<1>2. run[r].outcome = Ranking(run[r].query, run[r].got) /\ run[r].query \in Queries
  BY DEF TrueHits, Truth, RunIsTrue, Shape, RunIsTyped, Ranked
<1>3. run[r].outcome = Outcome(Raw(r), DerivePatterns(run[r].query.words), TopK)
  BY <1>2 DEF Ranking, Raw
<1>4. List(r) = MergeAndRank(Raw(r), DerivePatterns(run[r].query.words), TopK)
  BY <1>3 DEF List, Outcome
<1>5. IsListing(List(r), Raw(r))
  BY <1>1, <1>2, <1>4, KeysAreFinite, ListingIs
<1>6. DOMAIN List(r) = 1 .. Len(List(r))
  BY <1>5, ArePlacedIs DEF IsListing
<1> QED
  BY <1>1, <1>3, <1>5, <1>6

(***************************************************************************)
(* The list names no line of a file twice, whatever the legs find and in   *)
(* whatever order (retrieval.rs merge_and_rank).                           *)
(***************************************************************************)
THEOREM ListsAreApart == Spec => []ListedApart
<1>1. TrueHits => ListedApart
  <2> SUFFICES ASSUME TrueHits, NEW r \in Runs, Ranked(r),
                      NEW i \in DOMAIN List(r), NEW j \in DOMAIN List(r), i # j
               PROVE  ~Overlapping(List(r)[i].loc, List(r)[j].loc)
    BY DEF ListedApart
  <2> QED
    BY ListIsListing DEF IsListing, AreDisjoint
<1> QED
  BY <1>1, HitsAreTrue, PTL

(***************************************************************************)
(* No file crowds others out of their share of the list, whatever its      *)
(* hits, and nothing is left out while there is room (retrieval.rs         *)
(* truncate_with_file_cap).                                                *)
(***************************************************************************)
THEOREM FilesAreListedFairly == Spec => []FilesShareTheList
<1>1. TrueHits => FilesShareTheList
  <2> SUFFICES ASSUME TrueHits, NEW r \in Runs, Ranked(r), NEW hit \in Range(Raw(r)), ~Listed(r, hit)
               PROVE  /\ Len(List(r)) >= TopK
                      /\ \/ \A p : Cardinality(Of(r, p)) <= MaxPerFile
                         \/ Cardinality(Of(r, Plain[hit.loc.path])) >= MaxPerFile
    BY DEF FilesShareTheList
  <2>1. /\ IsListing(List(r), Raw(r))
        /\ DOMAIN List(r) = 1 .. Len(List(r)) /\ DOMAIN Raw(r) = 1 .. Len(Raw(r))
    BY ListIsListing
  <2>2. \A p : Of(r, p) = OfFile(List(r), p)
    BY <2>1 DEF Of, OfFile, Share
  <2>3. ~\E k \in 1 .. Len(List(r)) : Holds(List(r)[k], hit)
    BY <2>1 DEF Holds, Within, Listed, Of
  <2>4. PICK i \in 1 .. Len(Raw(r)) : hit = Raw(r)[i]
    BY <2>1 DEF Range
  <2>5. \/ \A p : Cardinality(Of(r, p)) <= MaxPerFile
        \/ Cardinality(Of(r, Plain[hit.loc.path])) >= MaxPerFile
    BY <2>1, <2>2, <2>3, <2>4 DEF IsListing, AreShared
  <2>6. ~(Len(List(r)) < TopK)
    BY <2>1, <2>3, <2>4 DEF IsListing, AllHeld
  <2>7. Len(List(r)) \in Nat /\ TopK \in Nat
    BY <2>1, TopIsNat
  <2> QED
    BY <2>5, <2>6, <2>7
<1> QED
  BY <1>1, HitsAreTrue, PTL

\* A candidate that holds a trusted hit of its own last name is trusted.
LEMMA HolderIsTrusted ==
  ASSUME NEW p, NEW a, NEW hit, Holds(a, hit), IsTrusted(hit, p), a.symbol.last = hit.symbol.last
  PROVE  IsTrusted(a, p)
BY DEF Holds, IsTrusted

LEMMA SoleIs ==
  ASSUME NEW ranked, IsList(ranked), NEW p, UniqueTrusted(ranked, p) # Missing,
         NEW i \in DOMAIN ranked, IsTrusted(ranked[i], p)
  PROVE  UniqueTrusted(ranked, p) = i
<1> DEFINE trusted == Trusted(ranked, p)
<1>1. i \in trusted
  BY DEF Trusted
<1>2. Cardinality(trusted) = 1 /\ UniqueTrusted(ranked, p) = CHOOSE j \in trusted : TRUE
  BY DEF UniqueTrusted
<1>3. IsFiniteSet(trusted)
  <2>1. Len(ranked) \in Nat /\ DOMAIN ranked = 1 .. Len(ranked)
    BY ListIs
  <2>2. IsFiniteSet(DOMAIN ranked) /\ trusted \subseteq DOMAIN ranked
    BY <2>1, FS_Interval DEF Trusted
  <2> QED
    BY <2>2, FS_Subset
<1> HIDE DEF trusted
<1>4. PICK x : trusted = {x}
  BY <1>2, <1>3, FS_Singleton
<1> QED
  BY <1>1, <1>2, <1>4

(***************************************************************************)
(* The candidate that may spare the model is the only place that any leg   *)
(* found for a symbol the query names, whatever the legs find, unless the  *)
(* list was cut (pipeline.rs unique_trusted_symbol).                       *)
(***************************************************************************)
THEOREM UniqueSparesTheModel == Spec => []UniqueIsUnambiguous
<1>1. TrueHits => UniqueIsUnambiguous
  <2> SUFFICES ASSUME TrueHits, NEW r \in Runs, Ranked(r), run[r].outcome.unique # Missing,
                      Len(List(r)) < TopK
               PROVE  LET p == DerivePatterns(run[r].query.words)
                          sole == List(r)[run[r].outcome.unique]
                          within(a, b) == a.path = b.path /\ b.start <= a.start /\ a.end <= b.end
                          trusted == {c \in Range(Raw(r)) : IsTrusted(c, p)}
                          names == {c.symbol : c \in {d \in trusted : d.symbol.qualifier # Missing}}
                      IN  /\ Cardinality(names) <= 1
                          /\ \A c \in trusted :
                               LET loc == NormalizeLocation(c.loc)
                               IN  \/ within(loc, sole.loc)
                                   \/ \E other \in Range(List(r)) :
                                        other.symbol # Missing /\ other.symbol.last # c.symbol.last
                                          /\ within(loc, other.loc)
    BY DEF UniqueIsUnambiguous
  <2> DEFINE p == DerivePatterns(run[r].query.words)
             list == List(r)
             raw == Raw(r)
             unique == run[r].outcome.unique
             trusted == {c \in Range(raw) : IsTrusted(c, p)}
             names == {c.symbol : c \in {d \in trusted : d.symbol.qualifier # Missing}}
             all == {c.symbol : c \in trusted}
             bare(n) == n.qualifier = Missing
             distinct == {n \in all : bare(n) => \A m \in all : m.last = n.last => bare(m)}
  <2>1. /\ AreHits(raw) /\ IsListing(list, raw) /\ run[r].outcome = Outcome(raw, p, TopK)
        /\ DOMAIN list = 1 .. Len(list) /\ DOMAIN raw = 1 .. Len(raw)
    BY ListIsListing
  <2>2. DistinctTrusted(raw, p) <= 1 /\ UniqueTrusted(list, p) = unique
    BY <2>1 DEF Outcome, List
  <2>3. Cardinality(names) <= 1
    <3>1. Cardinality(distinct) <= 1
      BY <2>2 DEF DistinctTrusted
    <3>2. IsFiniteSet(distinct)
      <4>1. IsFiniteSet(Range(raw))
        BY <2>1, FiniteRange DEF AreHits
      <4>2. IsFiniteSet(trusted)
        BY <4>1, FS_Subset
      <4> HIDE DEF trusted
      <4> DEFINE f == [c \in trusted |-> c.symbol]
      <4>3. f \in Surjection(trusted, all)
        BY DEF Surjection
      <4>4. IsFiniteSet(all)
        BY <4>2, <4>3, FS_Surjection
      <4> HIDE DEF all
      <4> QED
        BY <4>4, FS_Subset
    <3>3. names \subseteq distinct
      OBVIOUS
    <3> HIDE DEF names, distinct
    <3>4. Cardinality(names) <= Cardinality(distinct) /\ Cardinality(names) \in Nat
          /\ Cardinality(distinct) \in Nat
      BY <3>2, <3>3, FS_Subset, FS_CardinalityType
    <3> QED
      BY <3>1, <3>4
  <2>4. ASSUME NEW c \in trusted
        PROVE  \/ Within(NormalizeLocation(c.loc), list[unique].loc)
               \/ \E other \in Range(list) :
                    other.symbol # Missing /\ other.symbol.last # c.symbol.last
                      /\ Within(NormalizeLocation(c.loc), other.loc)
    <3>1. PICK i \in 1 .. Len(raw) : c = raw[i]
      BY <2>1 DEF Range
    <3>2. PICK k \in 1 .. Len(list) : Holds(list[k], c)
      BY <2>1, <3>1 DEF IsListing, AllHeld
    <3>3. list[k] \in Range(list) /\ list[k].symbol # Missing
      BY <2>1, <3>2 DEF Range, Holds, IsTrusted
    <3>4. Within(NormalizeLocation(c.loc), list[k].loc)
      BY <3>2 DEF Holds
    <3>5. CASE list[k].symbol.last # c.symbol.last
      BY <3>3, <3>4, <3>5
    <3>6. CASE list[k].symbol.last = c.symbol.last
      <4>1. IsTrusted(list[k], p)
        BY <3>2, <3>6, HolderIsTrusted
      <4>2. unique = k
        <5>1. IsList(list) /\ k \in DOMAIN list
          BY <2>1 DEF IsListing, ArePlaced
        <5>2. UniqueTrusted(list, p) # Missing
          BY <2>2
        <5> HIDE DEF list, p, unique
        <5> QED
          BY <2>2, <4>1, <5>1, <5>2, SoleIs
      <4> QED
        BY <3>4, <4>2
    <3> QED
      BY <3>5, <3>6
  <2> QED
    BY <2>3, <2>4 DEF Within
<1> QED
  BY <1>1, HitsAreTrue, PTL
=============================================================================

---------------------------- MODULE RetrievalLegs ----------------------------
(***************************************************************************)
(* The retrieval stage of concurrent explorations: the legs of a query ask *)
(* the memory backend and the text search at the same time, each through   *)
(* the memo of the process, and what they found is ranked when the last of *)
(* them is done (pipeline.rs retrieve, memoized, soft_leg).                *)
(*                                                                         *)
(* A leg is a tool and a token. What it finds depends on the tree, the     *)
(* scope and for one tool the query's limit; the tree may be edited while  *)
(* legs are under way.                                                     *)
(***************************************************************************)
EXTENDS Retrieval, MemoryShapes

CONSTANTS
  Runs,            \* explorations in flight together
  Trees,           \* states of the repository; the fingerprint of a run is one
  FirstTree,
  Worlds,          \* what there may be: [shapes, at], the shape in which the memory
                   \* backend answers each tool and from a tree to [graph, files],
                   \* what each leg finds in the graph and the files
  Queries,         \* [text, words, scope, max]; scope is Missing, a path or "escaping"
  TopK,            \* agent.top_k
  PerLeg,          \* PER_LEG_MAX_RESULTS
  SymbolTokens,    \* SYMBOL_LOOKUP_TOKENS
  SemanticTokens,  \* SEMANTIC_LOOKUP_TOKENS
  FileTokens,      \* FILE_LOOKUP_TOKENS
  MaxMishaps,      \* bounds the failures of legs and probes and the changes of the tree
  MaxRetrievals    \* bounds the retrievals of a behaviour

ASSUME TreesAreKnown == FirstTree \in Trees /\ Missing \notin Trees
ASSUME TopIsNat == {TopK, SymbolTokens, SemanticTokens, FileTokens} \subseteq Nat
ASSUME QueriesAreTyped ==
  \A q \in Queries : IsList(q.words) /\ \A i \in DOMAIN q.words : IsList(q.words[i].segments)

VARIABLES
  world,     \* the backends, fixed
  tree,
  memo,      \* the leg memo: from (fingerprint, leg, scope) to a cell
  run,       \* the explorations
  mishaps, retrievals

vars == <<world, tree, memo, run, mishaps, retrievals>>

-----------------------------------------------------------------------------

\* A scope that leaves the repository is dropped.
SearchScope(q) == IF q.scope = "escaping" THEN Missing ELSE q.scope

\* The legs of a query, in the order their hits are put together.
Legs(q) ==
  LET p == DerivePatterns(q.words)
      legs(tool, tokens) == [i \in DOMAIN tokens |-> [tool |-> tool, token |-> tokens[i]]]
      left == Upper(0, SemanticTokens - Len(p.literals))
  IN  legs("symbol", LegIdentifiers(p, SymbolTokens))
        \o <<[tool |-> "bm25", token |-> q.text]>>
        \o legs("semantic", Take(p.literals, SemanticTokens) \o LegIdentifiers(p, left))
        \o legs("grep", p.grep)
        \o legs("file", Take(p.paths, FileTokens))

\* Mutant of LegKey: legs of one token share a cell whatever their scope.
LegKeyUnscoped(fp, leg, q) == <<fp, leg, Missing, IF leg.tool = "semantic" THEN q.max ELSE Missing>>

\* leg_key, with the limit for the leg that has the query's; the caller adds
\* the fingerprint.
LegKey(fp, leg, q) ==
  <<fp, leg, SearchScope(q), IF leg.tool = "semantic" THEN q.max ELSE Missing>>

Mentions(text) == IF text = Missing THEN {} ELSE {Key[t] : t \in text}

\* candidates_with: the note of a finding is a symbol.
Candidate(f, kind) ==
  [loc |-> f.loc, symbol |-> f.note, kind |-> kind, score |-> 0,
   text |-> f.text, keys |-> Mentions(f.text)]

FirstOfFile(hits) ==
  Picked(hits, {i \in DOMAIN hits : \A j \in 1 .. i - 1 : hits[j].loc.path # hits[i].loc.path})

\* symbol_candidates, candidates_of_kind and file_candidates: what a leg makes
\* of its findings.
Classified(leg, found) ==
  CASE leg.tool = "symbol" ->
         [i \in DOMAIN found |->
            Candidate(found[i], IF found[i].note # Missing /\ found[i].note.last = leg.token
                                THEN "SymbolExact" ELSE "SymbolFuzzy")]
    [] leg.tool \in {"bm25", "semantic"} ->
         [i \in DOMAIN found |-> Candidate(found[i], "SemanticHit")]
    [] leg.tool = "grep" -> [i \in DOMAIN found |-> Candidate(found[i], "ContentHit")]
    [] leg.tool = "file" ->
         [k \in DOMAIN FirstOfFile(found) |->
            [loc |-> [path |-> FirstOfFile(found)[k].loc.path, start |-> 1, end |-> 1],
             symbol |-> Missing, kind |-> "FileNameHit", score |-> 0, text |-> Missing,
             keys |-> {}]]

OfGraph(leg) == leg.tool \in {"symbol", "bm25", "semantic"}

HitsBelow(scope, hits) ==
  SelectSeq(hits, LAMBDA h : scope = Missing \/ h.loc.path \in InScope[scope])

UpTo(limit, hits) == IF limit = Missing THEN hits ELSE Take(hits, limit)

\* The hits of the graph below the scope, up to the limit of the request.
GraphHits(w, t, leg, q) ==
  UpTo(IF leg.tool = "semantic" THEN q.max ELSE PerLeg,
       HitsBelow(SearchScope(q), w.at[t].graph[leg]))

\* The requests of the graph legs: search_code for the semantic ones,
\* search_graph for the others.
Tool(leg) == IF leg.tool = "semantic" THEN "search_code" ELSE "search_graph"

GraphFindings(w, t, leg, q) ==
  FindingsOf(Tool(leg), Answer(w.shapes[Tool(leg)], GraphHits(w, t, leg, q)))

\* Those of the text search: the file leg asks for any line of a file so named.
TextFindings(w, t, leg, q) ==
  TextFound(w.at[t].files, IF leg.tool = "file" THEN AnyToken ELSE leg.token,
            IF leg.tool = "file" THEN leg.token ELSE Missing, SearchScope(q), PerLeg)

LegFindings(w, t, leg, q) ==
  IF OfGraph(leg) THEN GraphFindings(w, t, leg, q) ELSE TextFindings(w, t, leg, q)

\* What the backends answer is findings, by the types of the source.
ASSUME FindingsAreTyped ==
  \A w \in Worlds, t \in Trees, q \in Queries : \A leg \in Range(Legs(q)) :
    AreFindings(LegFindings(w, t, leg, q))

\* What a leg finds, tabulated: it is a function of the world, the tree, the
\* query and the leg.
Finds ==
  [w \in Worlds |-> [t \in Trees |-> [q \in Queries |-> [leg \in Range(Legs(q)) |->
     Classified(leg, LegFindings(w, t, leg, q))]]]]

Found(t, leg, q) == Finds[world][t][q][leg]

\* The hits of all legs, put together and ranked.
Ranking(q, got) ==
  Outcome(FlattenSeq(got), DerivePatterns(q.words), TopK)

-----------------------------------------------------------------------------

\* got[i]: the candidates of the i-th leg, Missing until it is done. lost and
\* over are history: the legs that failed, and the trees there have been since
\* the run began or that what it took from the memo was found over.
Idle ==
  [pc |-> "idle", query |-> Missing, legs |-> <<>>, fp |-> Missing, got |-> <<>>,
   outcome |-> Missing, lost |-> {}, over |-> {}]

Cell(candidates, over) == [candidates |-> candidates, over |-> over]

Stored(key, cell) ==
  [k \in DOMAIN memo \cup {key} |-> IF k = key THEN cell ELSE memo[k]]

Becomes(r, next) == run' = [run EXCEPT ![r] = next]

Edit(t) ==
  /\ mishaps < MaxMishaps
  /\ t # tree
  /\ tree' = t
  /\ run' = [r \in Runs |-> [run[r] EXCEPT !.over = @ \cup {t}]]
  /\ mishaps' = mishaps + 1
  /\ UNCHANGED <<world, memo, retrievals>>

\* An exploration starts with the fingerprint of the tree, Missing when the
\* probe fails. What an earlier ranking was for is elsewhere.
Begin(r, q) ==
  /\ run[r].pc \in {"idle", "ranked"}
  /\ retrievals < MaxRetrievals
  /\ retrievals' = retrievals + 1
  /\ \E fp \in {tree, Missing} :
       /\ mishaps' = IF fp = Missing THEN mishaps + 1 ELSE mishaps
       /\ Becomes(r, [Idle EXCEPT !.pc = "started", !.query = q, !.fp = fp, !.over = {tree}])
  /\ mishaps' <= MaxMishaps
  /\ UNCHANGED <<world, tree, memo>>

\* All legs look into the memo before the first of them waits for anything.
\* Without a fingerprint there is no memo.
Retrieve(r) ==
  /\ run[r].pc = "started"
  /\ LET legs == Legs(run[r].query)
         key(i) == LegKey(run[r].fp, legs[i], run[r].query)
         hits == {i \in DOMAIN legs : run[r].fp # Missing /\ key(i) \in DOMAIN memo}
     IN  Becomes(r, [run[r] EXCEPT
           !.pc = "legs", !.legs = legs,
           !.got = [i \in DOMAIN legs |-> IF i \in hits THEN memo[key(i)].candidates ELSE Missing],
           !.over = @ \cup UNION {memo[key(i)].over : i \in hits}])
  /\ UNCHANGED <<world, tree, memo, mishaps, retrievals>>

Waiting(r, i) == run[r].pc = "legs" /\ i \in DOMAIN run[r].got /\ run[r].got[i] = Missing

\* A success is stored, under the fingerprint of the run's start.
LegAnswers(r, i) ==
  /\ Waiting(r, i)
  /\ LET leg == run[r].legs[i]
         found == Found(tree, leg, run[r].query)
         key == LegKey(run[r].fp, leg, run[r].query)
     IN  /\ Becomes(r, [run[r] EXCEPT !.got = [@ EXCEPT ![i] = found]])
         /\ memo' = IF run[r].fp = Missing
                    THEN memo
                    ELSE Stored(key, Cell(found, run[r].over))
  /\ UNCHANGED <<world, tree, mishaps, retrievals>>

\* A failure contributes nothing, and is not stored.
LegFails(r, i) ==
  /\ Waiting(r, i)
  /\ mishaps < MaxMishaps
  /\ mishaps' = mishaps + 1
  /\ Becomes(r, [run[r] EXCEPT !.got = [@ EXCEPT ![i] = <<>>], !.lost = @ \cup {i}])
  /\ UNCHANGED <<world, tree, memo, retrievals>>

Rank(r) ==
  /\ run[r].pc = "legs"
  /\ \A i \in DOMAIN run[r].got : run[r].got[i] # Missing
  /\ Becomes(r, [run[r] EXCEPT !.pc = "ranked", !.outcome = Ranking(run[r].query, run[r].got)])
  /\ UNCHANGED <<world, tree, memo, mishaps, retrievals>>

Init ==
  /\ world \in Worlds
  /\ tree = FirstTree
  /\ memo = <<>>
  /\ run = [r \in Runs |-> Idle]
  /\ mishaps = 0 /\ retrievals = 0

Next ==
  \/ \E r \in Runs :
       \/ \E q \in Queries : Begin(r, q)
       \/ \E i \in DOMAIN run[r].got : LegAnswers(r, i) \/ LegFails(r, i)
       \/ Retrieve(r)
       \/ Rank(r)
  \/ \E t \in Trees : Edit(t)

Spec == Init /\ [][Next]_vars

-----------------------------------------------------------------------------

Ranked(r) == run[r].pc = "ranked"

List(r) == run[r].outcome.candidates

Raw(r) == FlattenSeq(run[r].got)

\* What a leg is to find: the hits themselves, the matching lines.
Reference(w, t, leg, q) ==
  LET hits == GraphHits(w, t, leg, q)
  IN  Classified(leg, IF OfGraph(leg)
                      THEN [i \in DOMAIN hits |->
                              [loc |-> hits[i].loc, text |-> Missing, note |-> hits[i].symbol]]
                      ELSE TextFindings(w, t, leg, q))

\* What decoding is to do: whatever the shape in which the memory backend
\* answers, each leg finds the hits that were sent.
ShapesAreRead ==
  \A w \in Worlds, t \in Trees, q \in Queries : \A leg \in Range(Legs(q)) :
    Finds[w][t][q][leg] = Reference(w, t, leg, q)

(***************************************************************************)
(* A retrieval that lost no leg, over a tree that held still for it and    *)
(* for those whose memo it used, has what a first one without a memo would *)
(* have: failures are not remembered, scopes, limits and queries not mixed *)
(* up, and neither the order in which legs come back nor the shape of an   *)
(* answer makes a difference (pipeline.rs memoized, leg_key,               *)
(* scope_display; backend.rs findings_and_summary).                        *)
(***************************************************************************)
MemoIsTransparent ==
  \A r \in Runs :
    Ranked(r) /\ run[r].lost = {} /\ run[r].over = {tree} =>
      LET q == run[r].query
      IN  run[r].outcome =
            Ranking(q, [i \in DOMAIN run[r].legs |-> Reference(world, tree, run[r].legs[i], q)])

(***************************************************************************)
(* The list names no line of a file twice: candidates of one file at known *)
(* places do not overlap, although merging compares each with the last one *)
(* only (retrieval.rs merge_and_rank).                                     *)
(***************************************************************************)
ListedApart ==
  \A r \in Runs : Ranked(r) =>
    \A i, j \in DOMAIN List(r) : i # j => ~Overlapping(List(r)[i].loc, List(r)[j].loc)

\* The candidates of a file, and whether one of them holds a hit.
Of(r, p) == {i \in DOMAIN List(r) : List(r)[i].loc.path = p}

Listed(r, hit) ==
  LET loc == NormalizeLocation(hit.loc)
  IN  \E i \in Of(r, loc.path) : List(r)[i].loc.start <= loc.start /\ loc.end <= List(r)[i].loc.end

(***************************************************************************)
(* No file is left with less than its share of the list while another has  *)
(* more than its own; places that no share claims go to the best hits,     *)
(* whatever their files. Nothing is left out while there is room           *)
(* (retrieval.rs truncate_with_file_cap).                                  *)
(***************************************************************************)
FilesShareTheList ==
  \A r \in Runs : Ranked(r) => \A hit \in Range(Raw(r)) : Listed(r, hit) \/
    LET own == Plain[hit.loc.path]
    IN  /\ Len(List(r)) >= TopK
        /\ \/ \A p \in DOMAIN PathRank \ {own} : Cardinality(Of(r, p)) <= MaxPerFile
           \/ Cardinality(Of(r, own)) >= MaxPerFile

(***************************************************************************)
(* The candidate that may spare the model is the only place that any leg   *)
(* found for a symbol the query names: unless the list was cut, each       *)
(* trusted hit lies within it, or within a candidate that carries another  *)
(* exact symbol (pipeline.rs unique_trusted_symbol).                       *)
(***************************************************************************)
UniqueIsUnambiguous ==
  \A r \in Runs : Ranked(r) /\ run[r].outcome.unique # Missing /\ Len(List(r)) < TopK =>
    LET p == DerivePatterns(run[r].query.words)
        sole == List(r)[run[r].outcome.unique]
        within(a, b) == a.path = b.path /\ b.start <= a.start /\ a.end <= b.end
        trusted == {c \in Range(Raw(r)) : IsTrusted(c, p)}
        names == {c.symbol : c \in {d \in trusted : d.symbol.qualifier # Missing}}
    IN  /\ Cardinality(names) <= 1
        /\ \A c \in trusted :
             LET loc == NormalizeLocation(c.loc)
             IN  \/ within(loc, sole.loc)
                 \/ \E other \in Range(List(r)) :
                      other.symbol # Missing /\ other.symbol.last # c.symbol.last
                        /\ within(loc, other.loc)
=============================================================================

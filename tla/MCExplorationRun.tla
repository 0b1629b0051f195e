--------------------------- MODULE MCExplorationRun ---------------------------
(***************************************************************************)
(* Small repositories, configurations and models for ExplorationRun: file  *)
(* "a" loses half of its lines and "b" is removed by an edit, "c" was      *)
(* never there and "out" is a link that leads out of the repository.       *)
(***************************************************************************)
EXTENDS ExplorationRun

PlainOf == [p \in {"a", "./a", "b", "c", "out"} |-> IF p = "./a" THEN "a" ELSE p]
PathRankOf == [p \in {"a", "b", "c", "out"} |-> CASE p = "a" -> 1 [] p = "b" -> 2 [] p = "c" -> 3 [] p = "out" -> 4]
NamedByOf == [t \in {"b"} |-> {"b"}]
InScopeOf == [s \in {"here"} |-> {"a"}]

\* "foo" is in the third line of each file.
File(length, version, escapes) ==
  [lines |-> [i \in 1 .. length |-> IF i = 3 THEN {"foo"} ELSE {"x"}],
   version |-> version, escapes |-> escapes, skipped |-> FALSE]

Tree(a, b) ==
  [p \in {"a", "b", "c", "out"} |->
     CASE p = "a" -> a [] p = "b" -> b [] p = "c" -> Missing [] p = "out" -> File(4, 1, TRUE)]

TheDisks == {Tree(File(8, 1, FALSE), File(3, 1, FALSE)), Tree(File(4, 2, FALSE), Missing)}

At(p, s, e) == [path |-> p, start |-> s, end |-> e]

Candidate(loc, kind, symbol) ==
  [loc |-> loc, kind |-> kind, symbol |-> symbol, score |-> 0,
   text |-> [version |-> 1, from |-> loc.start, to |-> loc.end]]

Ranking ==
  <<Candidate(At("a", 3, 6), "SymbolExact", "foo"), Candidate(At("a", 0, 0), "FileNameHit", Missing),
    Candidate(At("b", 2, 3), "ContentHit", Missing), Candidate(At("out", 1, 1), "ContentHit", Missing)>>

\* The one trusted symbol is the third, which an edit removes and a cut leaves out.
Shifted ==
  [Ranking EXCEPT ![1].kind = "SymbolFuzzy", ![3] = Candidate(At("b", 2, 3), "SymbolExact", "bar")]

Unplaced == <<Candidate(At("b", 0, 0), "FileNameHit", Missing)>>

Outcome(cands, confidence, exact, unique) ==
  [candidates |-> cands, confidence |-> confidence, exact |-> exact, unique |-> unique]

TheOutcomes ==
  {Outcome(<<>>, 0, FALSE, Missing), Outcome(Ranking, 90, TRUE, Missing),
   Outcome(Shifted, 50, TRUE, 3), Outcome(Ranking, 50, FALSE, Missing),
   Outcome(Unplaced, 50, FALSE, Missing), Outcome(Ranking, 10, FALSE, Missing)}

Call(id, name, args) == [id |-> id, name |-> name, args |-> args]
Reported(loc, id) == [loc |-> loc, text |-> Authored, note |-> <<"n", Missing>>, id |-> id]
Finish(findings) == Call("finish", "finish", [summary |-> "s", findings |-> findings])
Used(prompt, completion) == [prompt |-> prompt, completion |-> completion]
Text(usage) == [calls |-> <<>>, text |-> TRUE, usage |-> usage]
Calls(calls) == [calls |-> calls, text |-> FALSE, usage |-> Used(1, Missing)]

\* An error, an empty answer, text, a lone call; calls of a provider without ids,
\* one of them out of the repository; a graph query with an argument of another
\* tool, and one beside lines of a file; a finish with a bad finding among good
\* ones beside other tools; and one that cites the first candidate with a range
\* of its own.
TheReplies ==
  {Missing, [Text(Used(0, 0)) EXCEPT !.text = FALSE], Text(Used(Missing, -1)),
   Calls(<<Call("1", "grep", [pattern |-> "foo"])>>),
   Calls(<<Call("grep", "grep", [pattern |-> "x", max_results |-> 1]),
           Call("grep", "grep", [pattern |-> "foo", scope |-> Outside])>>),
   Calls(<<Call("2", "query_graph", [query |-> "q", label |-> "l"]), Call("3", "search_graph", <<>>),
           Call("4", "read_file", [path |-> "./a", start_line |-> 2])>>),
   Calls(<<Finish(<<Reported(At("out", 1, 1), Missing), Reported(At("a", 0, 0), 4)>>),
           Call("5", "expand", [candidate_ids |-> <<1, 2, 3, 5>>]), Call("6", "search", Missing)>>),
   Calls(<<Finish(<<Reported(At("./a", 2, 8), 1), Reported(At("a", 3, 6), Missing),
                    Reported(At("a", 1, 1), Missing)>>)>>)}

\* What the backend finds in the graph, one of it without a line.
Hit(loc) == [loc |-> loc, text |-> Authored, note |-> <<"graph", Missing>>]
GraphOf ==
  [tool \in DOMAIN Advertised |->
     IF tool = "search_graph" THEN <<Hit(At("b", 2, 2)), Hit(At("./a", 0, 0)), Hit(At("b", 2, 2))>>
     ELSE Missing]

TheOpinions == {<<900, 500, 100, 500>>, <<100, 500, 800, 100>>, <<100, 900, 100, 100>>}

TheEnv ==
  [var \in {"ANTHROPIC_API_KEY", "OPENAI_API_KEY", "GEMINI_API_KEY"} |->
     IF var = "ANTHROPIC_API_KEY" THEN "set" ELSE "unset"]

Configured(fallback, budget, by, providers) ==
  [proxy |-> "none", memory |-> [command |-> "c", endpoint |-> NoName], judge |-> by,
   cache |-> DefaultCache,
   agent |-> [DefaultAgent EXCEPT !.fallback = fallback, !.tokenBudget = budget,
                !.maxVerify = IF budget = 0 THEN 0 ELSE 2, !.maxFallback = IF budget = 0 THEN 3 ELSE 2,
                !.earlyExit = 80, !.fallbackConfidence = 20, !.cap = 2, !.detailedCap = 0,
                !.brief.enabled = budget = 0, !.brief.maxTokens = 72],
   providers |-> providers]

Model == <<[name |-> "p", kind |-> "anthropic", env |-> NoName, models |-> <<"m">>]>>

Http(mode, concurrency) == [DefaultJudge EXCEPT !.mode = mode, !.concurrency = concurrency]
Candle(mode) == [DefaultJudge EXCEPT !.mode = mode, !.backend = "candle", !.checkpoint = TRUE]

TheConfigs ==
  {Configured("llm", 2, DefaultJudge, Model), Configured("llm", 0, DefaultJudge, Model),
   Configured("off", 2, DefaultJudge, Model),
   Configured("llm", 2, Http("laya", 2), Model), Configured("off", 0, Candle("laya"), <<>>),
   Configured("off", 2, Http("laya", 1), Model),
   Configured("llm", 2, Http("shadow", 2), Model), Configured("off", 2, Candle("shadow"), Model)}

Request(blank, max, path, format) ==
  [blank |-> blank, max |-> max, path |-> path, scope |-> Missing, format |-> format]

TheRequests ==
  {Request(FALSE, Missing, "dir", "detailed"), Request(FALSE, 2, "dir", Missing),
   Request(TRUE, 3, "dir", Missing), Request(FALSE, 0, "dir", Missing),
   Request(FALSE, 4, "file", Missing)}

\* Tables of which some rows fit into the brief, one of them but for its line break.
Header(name, cols) == [kind |-> "header", name |-> name, cols |-> cols, cells |-> <<>>]
Row(cells) == [kind |-> "row", name |-> NoName, cols |-> <<>>, cells |-> cells]
Other == [kind |-> "other", name |-> NoName, cols |-> <<>>, cells |-> <<>>]
Cell(size, num) == [size |-> size, num |-> num]

Tables(size) ==
  <<Header("node_labels", <<"label", "count">>), Row(<<Cell(8, 0), Cell(2, 10)>>),
    Header("packages", <<"name", "nodes">>), Row(<<Cell(9, 0), Cell(1, 5)>>), Row(<<Cell(2, 0)>>),
    Row(<<Cell(5, 0), Cell(2, 12)>>), Other, Row(<<Cell(9, 0), Cell(1, 5)>>),
    Header("entry_points", <<"qn", "path">>), Row(<<Cell(3, 0), Cell(size, 0)>>)>>

TheArchitectures == {Missing, Tables(6), Tables(96)}
=============================================================================

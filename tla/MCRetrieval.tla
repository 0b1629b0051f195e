----------------------------- MODULE MCRetrieval -----------------------------
(***************************************************************************)
(* Small repositories for RetrievalLegs: two files, one of them also       *)
(* written "./a", and a query for the symbol foo that a bare word mentions *)
(* or a path-like word names.                                              *)
(***************************************************************************)
EXTENDS RetrievalLegs, TLC

CONSTANTS r1, r2

PlainOf == [p \in {"a", "./a", "b"} |-> IF p = "./a" THEN "a" ELSE p]
PathRankOf == [p \in {"a", "b"} |-> IF p = "a" THEN 1 ELSE 2]
PathKeysOf == [p \in {"a", "b"} |-> IF p = "b" THEN {"k.foo"} ELSE {}]
VariantOf == [t \in {"foo", "bar"} |-> Missing]
KeyOf == [t \in {"foo", "bar", "m", "n"} |-> IF t = "foo" THEN "k.foo" ELSE t]
ScopeOf == [s \in {"b"} |-> {"b"}]

RelativeOf == [p \in {"a", "./a", "b"} |-> p]
SymbolsOf ==
  [t \in {"foo", "m.foo", "n.foo", "bar"} |->
     [last |-> IF t = "bar" THEN "bar" ELSE "foo",
      qualifier |-> CASE t = "m.foo" -> "m" [] t = "n.foo" -> "n" [] OTHER -> Missing]]
FileAtOf == [named \in {} |-> Missing]
NamedByOf == [t \in {"foo"} |-> {"a", "b"}]

Word(t, quoted, path) == [token |-> t, segments |-> <<t>>, quoted |-> quoted, path |-> path]

Query(text, words, scope, max) == [text |-> text, words |-> words, scope |-> scope, max |-> max]

\* A bare name in two scopes; a path-like word with a literal, its scope
\* dropped and with a limit.
Bare == <<Word("foo", FALSE, FALSE)>>
Literal == <<Word("foo", FALSE, TRUE), Word("foo", TRUE, FALSE)>>

Asked ==
  {Query("bare", Bare, Missing, Missing), Query("bare", Bare, "b", Missing),
   Query("literal", Literal, "escaping", 1)}

At(p, s, e) == [path |-> p, start |-> s, end |-> e]
Hit(loc, name, label) == [loc |-> loc, symbol |-> SymbolsOf[name], label |-> label]

\* A range within another's, inverted and unknown ranges, two definitions.
Nested == <<Hit(At("a", 1, 9), "m.foo", "Module"), Hit(At("./a", 2, 3), "n.foo", "Function")>>
Inverted == <<Hit(At("b", 4, 2), "m.foo", "Function")>>
Twice == <<Hit(At("a", 1, 2), "foo", "Function"), Hit(At("b", 1, 2), "m.foo", "Function")>>
Nowhere == <<Hit(At("b", 0, 0), "foo", "Function"), Hit(At("a", 5, 0), "bar", "Function")>>
Elsewhere == <<Hit(At("a", 30, 31), "foo", "Function")>>

\* Others that the same tokens rank.
Around == <<Hit(At("./a", 6, 8), "bar", "Function"), Hit(At("a", 11, 12), "bar", "Module")>>
Beside == <<Hit(At("b", 3, 3), "bar", "Function")>>

TheLegs == [tool : {"symbol", "bm25", "semantic"}, token : {"foo", "bar", "bare", "literal"}]

\* Lines and their tokens; b may be ignored.
Content(n, at, tokens) == [i \in 1 .. n |-> IF i \in at THEN tokens ELSE IF i = 1 THEN {} ELSE {"m"}]
Files(skipped) ==
  [p \in {"a", "b"} |-> IF p = "a" THEN [lines |-> Content(5, {2, 4}, {"foo", "bar"}), skipped |-> FALSE]
                        ELSE [lines |-> Content(3, {3}, {"foo"}), skipped |-> skipped]]

World(symbols, others, skipped) ==
  [graph |-> [leg \in TheLegs |-> CASE leg.tool = "symbol" -> symbols
                                    [] leg.tool = "bm25" -> Take(others, 1)
                                    [] OTHER -> others],
   files |-> Files(skipped)]

\* The repository before and after its edit, and versions of the memory backend,
\* which between them answer in every shape of module MemoryShapes.
TheWorlds ==
  {[shapes |-> [search_graph |-> "columnar", search_code |-> "flat"],
    at |-> [t \in {"t1", "t2"} |-> IF t = "t1" THEN World(Nested, Around, FALSE)
                                   ELSE World(Inverted \o Nowhere, Beside, TRUE)]],
   [shapes |-> [search_graph |-> "sections", search_code |-> "objects"],
    at |-> [t \in {"t1", "t2"} |-> IF t = "t1" THEN World(Twice, Beside, TRUE)
                                   ELSE World(Elsewhere, <<>>, FALSE)]],
   [shapes |-> [search_graph |-> "split", search_code |-> "columnar"],
    at |-> [t \in {"t1", "t2"} |-> IF t = "t1" THEN World(Inverted \o Twice, Around, FALSE)
                                   ELSE World(Nowhere, Nested, FALSE)]]}

\* The hypothesis under which the memo is proved transparent.
ASSUME TheseShapesAreRead == ShapesAreRead

Interchangeable == Permutations(Runs)
=============================================================================

----------------------------- MODULE MemoryShapes -----------------------------
(***************************************************************************)
(* The same hits in the shapes in which codebase-memory-mcp may answer,    *)
(* taken from what backend.rs says of each. A hit is a symbol of the graph *)
(* with its label and its place. It answers search_graph in the columnar   *)
(* shape and search_code in the flat one; the others are of other tools    *)
(* and versions.                                                           *)
(***************************************************************************)
EXTENDS MemoryRows

Text(t) == [text |-> t, range |-> <<>>]

Null == [null |-> TRUE]

Items(s) == [items |-> s]

Object(f) == [fields |-> f]

Spelled(symbol) == CHOOSE t \in DOMAIN SymbolOf : SymbolOf[t] = symbol

\* The last line of a hit as a table has it, one more for a module.
TableEnd(hit) == IF hit.label = "Module" THEN hit.loc.end + 1 ELSE hit.loc.end

Unplaced(hit) == hit.loc.start = 0

Lines(hit) ==
  IF Unplaced(hit) THEN [text |-> "-", range |-> <<Missing, Missing>>]
  ELSE [text |-> "lines", range |-> <<hit.loc.start, TableEnd(hit)>>]

\* A cell of one line; the node has no such property if its place is unknown.
Line(hit, n) == IF Unplaced(hit) THEN Null ELSE [num |-> n]

LinesRow(hit) == <<Text(Spelled(hit.symbol)), Text(hit.label), Text(hit.loc.path), Lines(hit)>>

SplitRow(hit) ==
  <<Text(hit.loc.path), Line(hit, hit.loc.start), Line(hit, TableEnd(hit)),
    Text(Spelled(hit.symbol)), Text(hit.label)>>

Names(s) == Items([i \in DOMAIN s |-> Text(s[i])])

Rows(hits, row(_)) == Items([i \in DOMAIN hits |-> Items(row(hits[i]))])

\* A group for each hit; its prefix is the qualifier of the name.
Group(hit) ==
  LET q == hit.symbol.qualifier
      rows == Items(<<Items(<<Text(hit.symbol.last), Text(hit.label), Lines(hit)>>)>>)
  IN  Object(IF q = Missing
             THEN [file |-> Text(hit.loc.path), rows |-> rows]
             ELSE [file |-> Text(hit.loc.path), rows |-> rows, qn_prefix |-> Text(q)])

\* An object without lines if its place is unknown; the label is not among
\* its fields, and its end is exact.
Row(hit) ==
  LET named == [qualified_name |-> Text(Spelled(hit.symbol)), file_path |-> Text(hit.loc.path)]
      placed == [start_line |-> [num |-> hit.loc.start], end_line |-> [num |-> hit.loc.end]]
  IN  Object(IF Unplaced(hit) THEN named ELSE named @@ placed)

Sections(hits) ==
  <<[kind |-> "cols", names |-> <<"package", "hits">>], [kind |-> "row", cells |-> <<Text("p"), Text("1")>>],
    [kind |-> "cols", names |-> <<"qn", "label", "file", "lines">>]>>
      \o [i \in DOMAIN hits |-> [kind |-> "row", cells |-> LinesRow(hits[i])]]
      \o <<[kind |-> "other"]>>

Answer(shape, hits) ==
  CASE shape = "flat" ->
         Object([cols |-> Names(<<"qn", "label", "file", "lines">>), rows |-> Rows(hits, LinesRow)])
    [] shape = "split" ->
         Object([columns |-> Names(<<"file_path", "start_line", "end_line", "qualified_name", "label">>),
                 rows |-> Rows(hits, SplitRow)])
    [] shape = "columnar" ->
         Object([cols |-> Names(<<"name", "label", "lines">>),
                 groups |-> Items([i \in DOMAIN hits |-> Group(hits[i])])])
    [] shape = "objects" -> Object([results |-> Items([i \in DOMAIN hits |-> Row(hits[i])])])
    [] shape = "sections" -> [lines |-> Sections(hits)]
=============================================================================

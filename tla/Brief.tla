-------------------------------- MODULE Brief --------------------------------
(***************************************************************************)
(* The repository brief (brief.rs): the tables of get_architecture         *)
(* rendered into a text of at most so many tokens. Only the lengths of     *)
(* texts are kept.                                                         *)
(*                                                                         *)
(* A line of the answer is a "header" with a name and columns, a "row" of  *)
(* cells, or "other", a line that is not indented. A cell has a length and *)
(* a number, 0 if it does not parse as one.                                *)
(***************************************************************************)
EXTENDS Findings

MaxEntrypoints == 10

-----------------------------------------------------------------------------
(* Sections.                                                               *)

\* parse_sections: a row belongs to the header before it, if there are but rows in
\* between and it has as many cells as that has columns.
ParseSections(lines) ==
  LET headers == InOrder({i \in DOMAIN lines : lines[i].kind = "header"})
      cells == [i \in DOMAIN lines |-> lines[i].cells]
      under(h) == {i \in DOMAIN lines :
                     /\ i > h /\ \A j \in h + 1 .. i : lines[j].kind = "row"
                     /\ Len(cells[i]) = Len(lines[h].cols)}
      section(h) == [name |-> lines[h].name, cols |-> lines[h].cols, rows |-> Picked(cells, under(h))]
  IN  [k \in DOMAIN headers |-> section(headers[k])]

\* A row of a section, as a function of its columns, and of "first" for its first
\* cell, if it has one.
RowOf(section, cells) ==
  LET position(col) == IF col = "first" THEN 1 ELSE Min({i \in DOMAIN section.cols : section.cols[i] = col})
  IN  [col \in IF cells = <<>> THEN {} ELSE Range(section.cols) \cup {"first"} |-> cells[position(col)]]

\* The rows of the first section of a name.
RowsOf(sections, name) ==
  LET named == {k \in DOMAIN sections : sections[k].name = name}
      section == sections[Min(named)]
  IN  IF named = {} THEN <<>> ELSE [k \in DOMAIN section.rows |-> RowOf(section, section.rows[k])]

\* The first of some columns that a row has, and the rows that have one.
HasAny(row, cols) == Range(cols) \cap DOMAIN row # {}

CellOf(row, cols) == row[cols[Min({i \in DOMAIN cols : cols[i] \in DOMAIN row})]]

Having(rows, cols) == Picked(rows, {k \in DOMAIN rows : HasAny(rows[k], cols)})

-----------------------------------------------------------------------------
(* Rendering. The text so far is its length.                               *)

\* estimate_tokens.
EstimateTokens(length) == (length + 3) \div 4

\* Mutant of Fits: the line break that follows is not counted.
FitsTight(out, line, max) == EstimateTokens(out) + EstimateTokens(line) <= max

\* push_if_fits.
Fits(out, line, max) == EstimateTokens(out) + EstimateTokens(line) + 1 <= max

Pushed(out, line) == out + line + 1

\* HARDENING and the empty line after it; the labels, headings and punctuation.
Hardening == 145 + 2
VocabularyLabel == 13
EntrypointsHeading == 14
ModulesHeading == 52

\* The length of the first n of some texts together.
Together(sizes) ==
  LET length[n \in 0 .. Len(sizes)] == IF n = 0 THEN 0 ELSE length[n - 1] + sizes[n]
  IN  length

\* One line of the names of a table, if there are any: sizes are theirs.
Vocabulary(out, sizes, max) ==
  LET line == VocabularyLabel + Together(sizes)[Len(sizes)] + 2 * (Len(sizes) - 1)
  IN  IF sizes # <<>> /\ Fits(out, line, max) THEN Pushed(out, line) ELSE out

\* A heading and the lines under it, up to the first that does not fit; no heading
\* without a line.
Table(out, heading, lines, max) ==
  LET upTo(n) == Pushed(out, heading) + Together(lines)[n] + n
      fits(n) == (n = 1 => Fits(out, heading, max)) /\ Fits(upTo(n - 1), lines[n], max)
      shown == {n \in DOMAIN lines : \A k \in 1 .. n : fits(k)}
  IN  IF shown = {} THEN out ELSE upTo(Max(shown))

\* The lengths of the names in node_labels and edge_types.
NameSizes(rows) ==
  LET cols == <<"label", "type", "first">>
      named == Having(rows, cols)
  IN  [k \in DOMAIN named |-> CellOf(named[k], cols).size]

\* "- file (qn)" for the first rows, those without a file left out.
EntrypointSizes(rows) ==
  LET cols == <<"file", "path">>
      listed == Having(SubSeq(rows, 1, Lower(MaxEntrypoints, Len(rows))), cols)
      size(r) == 2 + CellOf(r, cols).size + (IF "qn" \in DOMAIN r THEN r["qn"].size + 3 ELSE 0)
  IN  [k \in DOMAIN listed |-> size(listed[k])]

NumOf(row, col) == IF col \in DOMAIN row THEN row[col].num ELSE 0

\* The decimal digits of a number below 10^9.
Digits(n) == Upper(1, Cardinality({k \in 0 .. 8 : 10 ^ k <= n}))

\* "| name | nodes | fan_in |", the package with the most nodes first.
PackageSizes(rows) ==
  LET named == Having(rows, <<"name">>)
      ahead(i, j) == \/ NumOf(named[i], "nodes") > NumOf(named[j], "nodes")
                     \/ NumOf(named[i], "nodes") = NumOf(named[j], "nodes") /\ i < j
      order == ByRank([i \in DOMAIN named |-> Cardinality({j \in DOMAIN named : ahead(j, i)}) + 1])
      size(r) == 10 + r["name"].size + Digits(NumOf(r, "nodes")) + Digits(NumOf(r, "fan_in"))
  IN  [k \in DOMAIN order |-> size(named[order[k]])]

\* render_brief: the length of the brief, Missing if none of it fits.
RenderBrief(lines, max) ==
  LET rows(name) == RowsOf(ParseSections(lines), name)
      nodes == Vocabulary(Hardening, NameSizes(rows("node_labels")), max)
      edges == Vocabulary(nodes, NameSizes(rows("edge_types")), max)
      entries == Table(edges, EntrypointsHeading, EntrypointSizes(rows("entry_points")), max)
      all == Table(entries, ModulesHeading, PackageSizes(rows("packages")), max)
  IN  IF all = Hardening THEN Missing ELSE all
=============================================================================

------------------------------ MODULE MemoryRows ------------------------------
(***************************************************************************)
(* How the answers of codebase-memory-mcp to a search become findings      *)
(* (backend.rs location_from .. findings_and_summary). It answers in six   *)
(* shapes, and the code tells them apart by what they look like.           *)
(*                                                                         *)
(* A JSON value is a record with one field: text (with range, the numbers  *)
(* it has around a dash, Missing for a part that is no number), num,       *)
(* items, fields, null, or lines for a text of several lines. What a name  *)
(* spells is given by the constants.                                       *)
(***************************************************************************)
EXTENDS Findings

CONSTANTS
  Relative,  \* Relative[p]: the path p, without the root it may begin with
  SymbolOf,  \* SymbolOf[t]: the name t as [last, qualifier]
  FileAt,    \* FileAt[<<segments, ending>>]: the path they are joined to
  TypeNames, \* the segments that begin with a capital letter
  MaxLine    \* u32::MAX

ASSUME MaxLineIsNat == MaxLine \in Nat

-----------------------------------------------------------------------------
(* Values.                                                                 *)

Has(v, form) == v # Missing /\ form \in DOMAIN v

AsText(v) == IF Has(v, "text") THEN v ELSE Missing

AsItems(v) == IF Has(v, "items") THEN v.items ELSE Missing

AsNumber(v) == IF Has(v, "num") THEN Lower(v.num, MaxLine) ELSE Missing

Get(v, key) == IF Has(v, "fields") /\ key \in DOMAIN v.fields THEN v.fields[key] ELSE Missing

\* first_field: a field that is there counts, whatever its value.
FirstField(v, keys) ==
  LET there == SelectSeq(keys, LAMBDA k : Get(v, k) # Missing)
  IN  IF there = <<>> THEN Missing ELSE Get(v, Head(there))

OrElse(x, default) == IF x = Missing THEN default ELSE x

NamedIn(v) == IF AsText(v) = Missing THEN Missing ELSE AsText(v).text

-----------------------------------------------------------------------------
(* Rows that are objects.                                                  *)

Finding(path, start, end, note) ==
  [loc |-> [path |-> path, start |-> start, end |-> end], text |-> Missing, note |-> note]

\* symbol_note: a blank name is none.
SymbolNote(row) ==
  LET name == NamedIn(FirstField(row, <<"qualified_name", "name", "symbol">>))
  IN  IF name \in {"", Missing} THEN Missing ELSE SymbolOf[name]

\* location_from.
LocationFrom(row) ==
  LET file == NamedIn(FirstField(row, <<"file", "path", "file_path">>))
      start == OrElse(AsNumber(FirstField(row, <<"line_start", "start_line">>)), 0)
      end == OrElse(AsNumber(FirstField(row, <<"line_end", "end_line">>)), start)
  IN  IF file = Missing THEN Missing
      ELSE [path |-> Relative[file], start |-> start, end |-> end]

\* finding_from_row.
FindingFromRow(row, snippetKeys) ==
  IF LocationFrom(row) = Missing
  THEN Missing
  ELSE [loc |-> LocationFrom(row), text |-> NamedIn(FirstField(row, snippetKeys)),
        note |-> SymbolNote(row)]

Located(findings) == SelectSeq(findings, LAMBDA f : f # Missing)

\* single_snippet.
SingleSnippet(json) == Located(<<FindingFromRow(json, <<"snippet", "code", "source", "text">>)>>)

-----------------------------------------------------------------------------
(* Rows that are lists of cells.                                           *)

Part(cell, i) ==
  IF cell = Missing \/ i \notin DOMAIN cell.range \/ cell.range[i] = Missing
  THEN Missing ELSE Lower(cell.range[i], MaxLine)

\* parse_line_cell: one number.
LineCell(cell) ==
  IF cell # Missing /\ Len(cell.range) = 1 THEN Part(cell, 1) ELSE Missing

\* parse_line_range: one number or two.
LineRange(cell) ==
  LET start == OrElse(Part(cell, 1), 0)
  IN  [start |-> start, end |-> OrElse(Part(cell, 2), start)]

\* correct_module_end: a whole file is reported with a line too many.
ModuleEnd(label, lines) ==
  IF label = "Module" /\ lines.end > lines.start THEN lines.end - 1 ELSE lines.end

\* cell_text: a number is rendered, and what is neither number nor text empty.
CellText(v) ==
  CASE Has(v, "text") -> v
    [] Has(v, "num") -> [text |-> "digits", range |-> <<v.num>>]
    [] OTHER -> [text |-> "", range |-> <<>>]

CellTexts(row) == [k \in DOMAIN row.items |-> CellText(row.items[k])]

Column(names, name) ==
  LET at == {i \in DOMAIN names : names[i] = name}
  IN  IF at = {} THEN Missing ELSE CHOOSE i \in at : \A j \in at : i <= j

FirstColumn(names, wanted) ==
  LET there == SelectSeq(wanted, LAMBDA w : Column(names, w) # Missing)
  IN  IF there = <<>> THEN Missing ELSE Column(names, Head(there))

\* table_cols; the alias of a column (n.file) is left out.
TableCols(names) ==
  [len |-> Len(names),
   file |-> FirstColumn(names, <<"file", "path", "file_path">>),
   lines |-> Column(names, "lines"),
   start |-> FirstColumn(names, <<"line_start", "start_line">>),
   end |-> FirstColumn(names, <<"line_end", "end_line">>),
   note |-> FirstColumn(names, <<"qn", "qualified_name", "name">>),
   label |-> Column(names, "label")]

CellAt(cells, i) == IF i # Missing /\ i \in DOMAIN cells THEN cells[i] ELSE Missing

NamedAt(cells, i) == IF CellAt(cells, i) = Missing THEN Missing ELSE CellAt(cells, i).text

\* A row's place in a file and its note, once its range is known.
RowFinding(t, file, cells, lines) ==
  LET name == NamedAt(cells, t.note)
  IN  Finding(file, lines.start, ModuleEnd(NamedAt(cells, t.label), lines),
              IF name = Missing THEN Missing ELSE SymbolOf[name])

\* table_row_finding: columns of a start or an end go before one of lines.
TableRowFinding(t, cells) ==
  LET start == OrElse(LineCell(CellAt(cells, t.start)), 0)
      own == [start |-> start, end |-> OrElse(LineCell(CellAt(cells, t.end)), start)]
      lines == IF t.start # Missing \/ t.end # Missing THEN own
               ELSE LineRange(CellAt(cells, t.lines))
  IN  IF Len(cells) # t.len \/ t.file = Missing
      THEN Missing
      ELSE RowFinding(t, NamedAt(cells, t.file), cells, lines)

ColumnNames(v) == LET items == OrElse(AsItems(v), <<>>)
                  IN  [i \in DOMAIN items |-> items[i].text]

\* flat_rows_findings: Missing unless every row is a list.
FlatRows(json) ==
  LET cols == FirstField(json, <<"cols", "columns">>)
      rows == AsItems(Get(json, "rows"))
      t == TableCols(ColumnNames(cols))
  IN  IF AsItems(cols) = Missing \/ rows = Missing \/ \E i \in DOMAIN rows : ~Has(rows[i], "items")
      THEN Missing
      ELSE Located([i \in DOMAIN rows |-> TableRowFinding(t, CellTexts(rows[i]))])

\* file_outline_findings: the file is named once for the table.
FileOutline(json) ==
  LET t == TableCols(ColumnNames(Get(json, "cols")))
      file == NamedIn(Get(json, "file_path"))
      rows == AsItems(Get(json, "rows"))
      lists == SelectSeq(rows, LAMBDA row : Has(row, "items"))
      found(row) == RowFinding(t, file, CellTexts(row), LineRange(CellAt(CellTexts(row), t.lines)))
  IN  IF file = Missing \/ rows = Missing THEN <<>> ELSE [i \in DOMAIN lists |-> found(lists[i])]

\* columnar_findings: rows by file, and their names without the prefix they share.
GroupFindings(group, t) ==
  LET file == NamedIn(Get(group, "file"))
      prefix == OrElse(NamedIn(Get(group, "qn_prefix")), "")
      rows == SelectSeq(OrElse(AsItems(Get(group, "rows")), <<>>), LAMBDA row : Has(row, "items"))
      cell(row, i) == AsText(CellAt(row.items, i))
      note(name) == IF name = Missing THEN Missing
                    ELSE IF prefix = "" THEN SymbolOf[name] ELSE [last |-> name, qualifier |-> prefix]
      found(row) ==
        LET lines == LineRange(cell(row, t.lines))
        IN  Finding(file, lines.start, ModuleEnd(NamedIn(cell(row, t.label)), lines),
                    note(NamedIn(cell(row, t.name))))
  IN  IF file = Missing THEN <<>> ELSE [i \in DOMAIN rows |-> found(rows[i])]

Columnar(json) ==
  LET groups == AsItems(Get(json, "groups"))
      names == ColumnNames(Get(json, "cols"))
      t == [name |-> Column(names, "name"), lines |-> Column(names, "lines"),
            label |-> Column(names, "label")]
  IN  IF groups = Missing \/ AsItems(Get(json, "cols")) = Missing
      THEN Missing
      ELSE FlattenSeq([g \in DOMAIN groups |-> GroupFindings(groups[g], t)])

-----------------------------------------------------------------------------
(* Texts of several lines. A line is indented, a row of cells, or not: then *)
(* it is a header of columns, a header of rows, a group's prefix, or else.  *)

\* text_table_findings.
TextTable(lines) ==
  LET read(acc, line) ==
        IF line.kind = "row"
        THEN IF acc.cols = Missing \/ acc.cols.file = Missing THEN acc
             ELSE [acc EXCEPT !.found = Append(@, TableRowFinding(acc.cols, line.cells))]
        ELSE [acc EXCEPT !.cols = IF line.kind = "cols" THEN TableCols(line.names) ELSE Missing]
  IN  Located(FoldLeft(read, [cols |-> Missing, found |-> <<>>], lines).found)

\* trace_path_group_file: the file of a module, whose first segment is the
\* project. Below a source directory a type's name is not part of the path.
GroupFile(prefix) ==
  LET segments == Tail(prefix)
      types == {i \in DOMAIN segments : segments[i] \in TypeNames}
      modules == SelectSeq([i \in DOMAIN segments |-> i], LAMBDA i : \A j \in types : i < j)
      path == [i \in DOMAIN modules |-> segments[i]]
  IN  CASE segments = <<>> -> Missing
        [] segments # <<>> /\ Range(segments) \cap {"src", "tests", "benches", "examples"} # {} ->
             IF path = <<>> THEN Missing ELSE FileAt[<<path, ".rs">>]
        [] OTHER ->
             IF Last(segments) = "Cargo" THEN FileAt[<<segments, ".toml">>]
             ELSE IF segments = <<"mcp">> THEN FileAt[<<segments, ".json">>]
             ELSE FileAt[<<segments, "">>]

\* trace_path_findings: names without a line, each in the file of its group.
TracePath(lines) ==
  LET read(acc, line) ==
        CASE line.kind = "row" ->
               IF acc.group = Missing \/ line.cells = <<>> THEN acc
               ELSE [acc EXCEPT !.found = Append(@,
                       Finding(acc.group, 0, 0,
                               [last |-> Head(line.cells).text, qualifier |-> acc.prefix]))]
          [] line.kind = "group" ->
               IF acc.inRows
               THEN [acc EXCEPT !.group = GroupFile(line.prefix), !.prefix = line.prefix]
               ELSE [acc EXCEPT !.group = Missing]
          [] OTHER -> [acc EXCEPT !.group = Missing, !.inRows = line.kind = "rows"]
  IN  FoldLeft(read, [group |-> Missing, prefix |-> Missing, inRows |-> FALSE, found |-> <<>>],
               lines).found

-----------------------------------------------------------------------------

\* ambiguous_summary: several symbols match, which is not a table of hits.
IsAmbiguous(json) == NamedIn(Get(json, "status")) = "ambiguous"

ObjectRows(rows) ==
  Located([i \in DOMAIN rows |-> FindingFromRow(rows[i], <<"snippet", "text">>)])

\* findings_and_summary, without the summary.
FindingsOf(tool, json) ==
  LET rows == AsItems(FirstField(json, <<"results", "rows", "hits">>))
      flat == FlatRows(json)
  IN  CASE Has(json, "lines") ->
             IF tool = "trace_path" THEN TracePath(json.lines) ELSE TextTable(json.lines)
        [] ~Has(json, "lines") /\ IsAmbiguous(json) -> <<>>
        [] OTHER -> IF flat # Missing THEN flat
                    ELSE IF rows # Missing THEN ObjectRows(rows)
                    ELSE OrElse(Columnar(json), <<>>)
=============================================================================

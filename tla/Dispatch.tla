------------------------------- MODULE Dispatch -------------------------------
(***************************************************************************)
(* The tools the model may call: their arguments (tools.rs) and what each  *)
(* shows of the repository (dispatch.rs, verify.rs expand_content). Files  *)
(* are read within the repository only.                                    *)
(*                                                                         *)
(* A call has an id, a name and its arguments, a record, or Missing for    *)
(* arguments that do not parse. What is shown has a location, a text and a *)
(* note, like a finding; an error shows nothing.                           *)
(***************************************************************************)
EXTENDS TextSearch, Conversation

CONSTANTS
  Graph,         \* Graph[tool]: what the memory backend finds, or Missing if it fails
  MaxReadLines   \* read_file_max_lines

Outside == "escaping"  \* a scope that leaves the repository

-----------------------------------------------------------------------------
(* Arguments.                                                              *)

Arguments(required, optional) == [required |-> required, optional |-> optional]

\* The argument types, all of them deny_unknown_fields.
Parameters ==
  [search_code |-> Arguments({"query"}, {"scope_hint", "max_results"}),
   search_graph |-> Arguments({}, {"name_pattern", "file_pattern", "label", "max_results"}),
   query_graph |-> Arguments({"query"}, {"max_results"}),
   trace_path |-> Arguments({"from"}, {"max_depth"}),
   get_architecture |-> Arguments({}, {"depth"}),
   get_code_snippet |-> Arguments({"qualified_name"}, {}),
   grep |-> Arguments({"pattern"}, {"scope", "max_results"}),
   find |-> Arguments({"pattern"}, {"scope", "max_results"}),
   read_file |-> Arguments({"path"}, {"start_line", "end_line"}),
   expand |-> Arguments({"candidate_ids"}, {}),
   finish |-> Arguments({"summary"}, {"findings"})]

\* build_catalog: the schemas the model is given, finish and expand apart.
Advertised ==
  [search_code |-> Arguments({"query"}, {"scope_hint", "max_results"}),
   search_graph |-> Arguments({}, {"name_pattern", "file_pattern", "label", "max_results"}),
   query_graph |-> Arguments({"query"}, {"max_results"}),
   trace_path |-> Arguments({"from"}, {"max_depth"}),
   get_architecture |-> Arguments({}, {}),
   get_code_snippet |-> Arguments({"qualified_name"}, {}),
   grep |-> Arguments({"pattern"}, {"scope", "max_results"}),
   find |-> Arguments({"pattern"}, {"scope", "max_results"}),
   read_file |-> Arguments({"path"}, {"start_line", "end_line"})]

\* A model that keeps to the catalog is understood.
ASSUME AdvertisedIsAccepted ==
  \A tool \in DOMAIN Advertised :
    /\ Advertised[tool].required = Parameters[tool].required
    /\ Advertised[tool].optional \subseteq Parameters[tool].optional

ASSUME GraphIsTyped ==
  \A tool \in DOMAIN Advertised : Graph[tool] = Missing \/ AreFindings(Graph[tool])

\* parse_args.
Accepted(call) ==
  /\ call.args # Missing
  /\ Parameters[call.name].required \subseteq DOMAIN call.args
  /\ DOMAIN call.args \subseteq Parameters[call.name].required \cup Parameters[call.name].optional

\* An optional argument.
Given(args, name) == IF name \in DOMAIN args THEN args[name] ELSE Missing

\* The findings of a finish call, Missing if it does not parse.
FinishFindings(call) ==
  IF ~Accepted(call) THEN Missing
  ELSE IF "findings" \in DOMAIN call.args THEN call.args.findings ELSE <<>>

\* reject_escaping_path, of the arguments that are no paths of files to read.
EscapesRepoRoot(args) ==
  \E name \in {"scope", "scope_hint", "file_pattern"} \cap DOMAIN args : args[name] = Outside

-----------------------------------------------------------------------------
(* Results.                                                                *)

\* compress_findings.
CompressFindings(findings, cap) ==
  LET before(f, g) == \/ PathRank[f.loc.path] < PathRank[g.loc.path]
                      \/ f.loc.path = g.loc.path /\ f.loc.start < g.loc.start
  IN  Sorted(TidyFindings(findings, cap), before)

\* What the text search may walk over.
Searchable(disk) ==
  LET present == {p \in DOMAIN disk : ReadCanonical(disk, p) # Missing}
  IN  [p \in present |-> disk[p]]

\* grep and find. A pattern that does not compile is an error, and finds nothing.
PatternFound(call, disk) ==
  LET names == call.name = "find"
      found == TextFound(Searchable(disk), IF names THEN AnyToken ELSE call.args.pattern,
                         IF names THEN call.args.pattern ELSE Missing,
                         Given(call.args, "scope"), Given(call.args, "max_results"))
      cut(f) == SliceLines(disk[f.loc.path], f.loc.start, f.loc.end)
  IN  [k \in DOMAIN found |-> [found[k] EXCEPT !.text = cut(found[k])]]

LinesRead == <<"lines", Missing>>

\* read_file, cap_file_lines: lines of a file as one thing shown, if there are any.
ReadLines(disk, path, start, end) ==
  LET file == ReadCanonical(disk, path)
      text == SliceLines(file, start, end)
      loc == [path |-> path, start |-> text.from, end |-> text.to]
  IN  IF file = Missing THEN <<>>
      ELSE IF text = Missing THEN <<>>
      ELSE <<[loc |-> loc, text |-> CapSnippet(text, MaxReadLines), note |-> LinesRead]>>

ReadFile(args, disk) ==
  LET path == Plain[args.path]
      length == IF disk[path] = Missing THEN 0 ELSE Len(disk[path].lines)
      start == Given(args, "start_line")
      end == Given(args, "end_line")
  IN  ReadLines(disk, path, IF start = Missing THEN 1 ELSE start, IF end = Missing THEN length ELSE end)

\* dispatch_inner: what a call of the loop shows.
Dispatched(call, disk, cap) ==
  IF call.name \notin DOMAIN Advertised THEN <<>>
  ELSE IF ~Accepted(call) THEN <<>>
  ELSE IF EscapesRepoRoot(call.args) THEN <<>>
  ELSE IF call.name \in {"grep", "find"} THEN CompressFindings(PatternFound(call, disk), cap)
  ELSE IF call.name = "read_file" THEN ReadFile(call.args, disk)
  ELSE IF Graph[call.name] = Missing THEN <<>> ELSE CompressFindings(Graph[call.name], cap)

\* The findings among it: the lines of a file are for the model only.
FindingsShown(shown) == Picked(shown, {k \in DOMAIN shown : shown[k].note # LinesRead})

ExpandContextBefore == 10
ExpandContextAfter == 20

\* expand_content: the bodies of the candidates asked for.
ExpandContent(call, cands, disk) ==
  LET body(id) ==
        IF id \notin DOMAIN cands THEN <<>>
        ELSE IF IsUnknown(cands[id].loc) THEN <<>>
        ELSE ReadLines(disk, cands[id].loc.path, cands[id].loc.start - ExpandContextBefore,
                       cands[id].loc.end + ExpandContextAfter)
      ids == call.args.candidate_ids
  IN  IF Accepted(call) THEN FlattenSeq([k \in DOMAIN ids |-> body(ids[k])]) ELSE <<>>

\* What a call of the verification shows.
Expanded(call, cands, disk) ==
  IF call.name = "expand" THEN ExpandContent(call, cands, disk) ELSE <<>>
=============================================================================

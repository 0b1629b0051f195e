------------------------------- MODULE Requests -------------------------------
(***************************************************************************)
(* The one tool of the server (server.rs): which requests it takes, the    *)
(* query it makes of one, and the response it makes of an answer.          *)
(*                                                                         *)
(* A request has a query, blank or not, the path of a repository, which is *)
(* "relative", "missing", a "file" or a "dir", a scope, a limit and a      *)
(* format, the last three Missing if they are not given.                   *)
(***************************************************************************)
EXTENDS Findings

\* validate_request: the first check that fails, or "valid".
ValidateRequest(request) ==
  CASE request.blank -> "query must not be empty"
    [] ~request.blank /\ request.max = 0 -> "max_results must be greater than 0"
    [] ~request.blank /\ request.max # 0 /\ request.path # "dir" -> "repo_path"
    [] OTHER -> "valid"

\* The query of a request, as far as the run depends on it.
QueryOf(request) == [max |-> request.max, detailed |-> request.format = "detailed"]

\* explore_repository: the queries it hands on, of the requests it may get.
QueriesOf(requests) == {QueryOf(r) : r \in {r \in requests : ValidateRequest(r) = "valid"}}

\* stage_exit, by how a run ended.
StageExit(by) ==
  CASE by = "early" -> "early-exit"
    [] by \in {"verify", "judge"} -> "verify"
    [] OTHER -> "fallback"

\* One finding of a response: lines that are not known are left out.
FindingDto(f, symbols) ==
  [path |-> f.loc.path, text |-> f.text, note |-> f.note,
   lines |-> IF IsUnknown(f.loc) THEN Missing ELSE <<f.loc.start, f.loc.end>>,
   symbol |-> IF \E p \in symbols : p[1] = f.loc
              THEN (CHOOSE p \in symbols : p[1] = f.loc)[2]
              ELSE Missing]

\* ExplorationResultDto.
ResponseOf(findings, by, cands) ==
  [exit |-> StageExit(by),
   findings |-> [k \in DOMAIN findings |-> FindingDto(findings[k], SymbolsFor(findings, cands))]]
=============================================================================

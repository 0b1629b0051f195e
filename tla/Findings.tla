------------------------------- MODULE Findings -------------------------------
(***************************************************************************)
(* Locations and findings: how a location is checked against the files,    *)
(* how the model's finish call becomes an answer, and how an answer is     *)
(* tidied (dispatch.rs verify_location, tools.rs parse_finish, render.rs,  *)
(* judge_verify.rs, and the helpers of agent.rs).                          *)
(*                                                                         *)
(* A location is a path with an inclusive range of lines, 0 for an unknown *)
(* start. A candidate has a location, a symbol, a kind, a score and a      *)
(* text; a finding has a location, a text and a note. A text is the lines  *)
(* it was cut from, of a version of the file, or something else when it    *)
(* was not cut from a file. disk[p] is the file at p, or Missing; a file   *)
(* has lines, each the set of the tokens in it, a version, and says        *)
(* whether it escapes the repository, by its path or through a link.       *)
(***************************************************************************)
EXTENDS Integers, Sequences, FiniteSets, SequencesExt

CONSTANTS
  Missing,  \* no value
  Authored, \* a text that was not cut from a file
  Plain     \* Plain[p]: the path p without a leading "./"

\* Without its leading "./" a path has none (paths are compared by components).
ASSUME PlainIsPlain == \A p \in DOMAIN Plain : Plain[p] \in DOMAIN Plain /\ Plain[Plain[p]] = Plain[p]

Lower(a, b) == IF a <= b THEN a ELSE b

Upper(a, b) == IF a >= b THEN a ELSE b

(***************************************************************************)
(* Filters and sorts, by ranks: what these operators pick is defined       *)
(* without recursion, so that it can be proved about.                      *)
(***************************************************************************)

\* What has the ranks 1, 2 and so on.
ByRank(rank) == [k \in 1 .. Cardinality(DOMAIN rank) |-> CHOOSE x \in DOMAIN rank : rank[x] = k]

\* Positions in their order, and what a sequence has at them.
InOrder(S) == ByRank([i \in S |-> Cardinality({j \in S : j < i}) + 1])

Picked(s, S) ==
  LET at == InOrder(S)
  IN  [k \in DOMAIN at |-> s[at[k]]]

-----------------------------------------------------------------------------
(* Locations.                                                              *)

\* A location of a path that may occur, as the source's unsigned numbers say it.
IsLocation(loc) ==
  /\ loc = [path |-> loc.path, start |-> loc.start, end |-> loc.end]
  /\ loc.path \in DOMAIN Plain /\ loc.start \in Nat /\ loc.end \in Nat

\* Candidates and findings.
IsCandidate(c) == {"loc", "symbol", "kind", "text"} \subseteq DOMAIN c /\ IsLocation(c.loc)

IsFinding(f) == f = [loc |-> f.loc, text |-> f.text, note |-> f.note] /\ IsLocation(f.loc)

IsList(s) == Len(s) \in Nat /\ s = [k \in 1 .. Len(s) |-> s[k]]

AreCandidates(s) == IsList(s) /\ \A k \in 1 .. Len(s) : IsCandidate(s[k])

AreFindings(s) == IsList(s) /\ \A k \in 1 .. Len(s) : IsFinding(s[k])

IsUnknown(loc) == loc.start = 0

\* normalize_location: a missing end is the start, inverted ranges are swapped.
NormalizeLocation(loc) ==
  [path |-> Plain[loc.path],
   start |-> IF loc.end # 0 THEN Lower(loc.start, loc.end) ELSE loc.start,
   end |-> IF loc.end # 0 THEN Upper(loc.start, loc.end) ELSE loc.start]

RangesOverlap(a, b) == a.start <= b.end /\ b.start <= a.end

\* clamp_location: Missing for a start beyond the end of the file.
ClampLocation(loc, lines) ==
  IF loc.start > lines
  THEN Missing
  ELSE [loc EXCEPT !.end = Lower(loc.end, Upper(lines, loc.start))]

\* Mutant of ReadCanonical: only the name of the path is looked at, not where
\* its links lead.
ReadWhereItLeads(disk, path) == disk[path]

\* read_file_canonical: a file within the repository, or Missing.
ReadCanonical(disk, path) ==
  IF disk[path] = Missing \/ disk[path].escapes THEN Missing ELSE disk[path]

\* verify_location: the location as the file has it, or Missing.
VerifyLocation(loc, disk) ==
  LET at == NormalizeLocation(loc)
      file == ReadCanonical(disk, at.path)
  IN  IF file = Missing THEN Missing ELSE ClampLocation(at, Len(file.lines))

\* slice_lines of a non-empty slice; Missing for an empty one.
SliceLines(file, start, end) ==
  LET from == Upper(start, 1)
      to == Lower(end, Len(file.lines))
  IN  IF to < from THEN Missing ELSE [version |-> file.version, from |-> from, to |-> to]

-----------------------------------------------------------------------------
(* Candidates that become findings.                                        *)

FindingOf(c) == [loc |-> c.loc, text |-> c.text, note |-> <<c.kind, c.symbol>>]

\* verified_candidate_findings: the surviving ones of cands, with the position
\* each had.
VerifiedFindings(cands, disk) ==
  LET checked(i) == VerifyLocation(cands[i].loc, disk)
      kept == InOrder({i \in DOMAIN cands : checked(i) # Missing})
  IN  [k \in DOMAIN kept |->
         [at |-> kept[k], finding |-> FindingOf([cands[kept[k]] EXCEPT !.loc = checked(kept[k])])]]

FindingsIn(verified) == [k \in DOMAIN verified |-> verified[k].finding]

\* candidate_survived.
CandidateSurvived(findings, c) ==
  LET loc == NormalizeLocation(c.loc)
  IN  \E k \in DOMAIN findings :
        findings[k].loc.path = loc.path /\ findings[k].loc.start = loc.start

-----------------------------------------------------------------------------
(* The finish call. A finding the model reports has a location, a text, a  *)
(* note and an id: the number of the candidate it cites, or Missing.       *)

\* candidate_for.
Cites(f, cands) == f.id # Missing /\ f.id \in DOMAIN cands

\* snaps_to_candidate: a bad copy of the candidate's range, not a place of its
\* own within or beside it.
SnapsToCandidate(loc, cand) ==
  \/ IsUnknown(loc)
  \/ /\ RangesOverlap(loc, cand)
     /\ \/ loc.start < cand.start
        \/ loc.end > cand.end
        \/ <<loc.start, loc.end>> = <<cand.start, cand.end>>

\* validate_finding: Missing, or the finding and whether its range is the
\* registry's. The text is cut from the file unless there is nothing to cut.
ValidateFinding(f, disk, cands) ==
  LET own == VerifyLocation(f.loc, disk)
      file == disk[own.path]
      registry == ClampLocation(cands[f.id].loc, Len(file.lines))
      cited == /\ Cites(f, cands)
               /\ cands[f.id].loc.path = own.path
               /\ ~IsUnknown(cands[f.id].loc)
               /\ SnapsToCandidate(own, cands[f.id].loc)
               /\ registry # Missing
      loc == IF cited THEN registry ELSE own
      uncut == ~cited /\ f.loc.start = 0 /\ f.loc.end = 0
  IN  IF own = Missing
      THEN Missing
      ELSE [cited |-> cited,
            finding |-> [loc |-> loc, note |-> f.note,
                         text |-> IF uncut THEN f.text ELSE SliceLines(file, loc.start, loc.end)]]

Validated(findings, disk, cands) ==
  [k \in DOMAIN findings |-> ValidateFinding(findings[k], disk, cands)]

\* parse_finish: one bad finding rejects the call. Arguments that do not
\* parse are Missing.
ParseFinish(findings, disk, cands) ==
  IF findings = Missing \/ Missing \in Range(Validated(findings, disk, cands))
  THEN Missing
  ELSE [k \in DOMAIN findings |-> Validated(findings, disk, cands)[k].finding]

\* parse_finish_lenient: bad findings are dropped, but not all of them.
ParseFinishLenient(findings, disk, cands) ==
  LET all == Validated(findings, disk, cands)
      valid == {k \in DOMAIN findings : all[k] # Missing}
  IN  IF findings = Missing \/ (findings # <<>> /\ valid = {})
      THEN Missing
      ELSE Picked([k \in DOMAIN findings |-> all[k].finding], valid)

\* The first of several results that is one.
FirstResult(results) ==
  LET good == {k \in DOMAIN results : results[k] # Missing}
  IN  IF good = {} THEN Missing ELSE results[Min(good)]

\* resolve_finish: the first finish call of a turn that parses.
ResolveFinish(finishes, disk, cands) ==
  FirstResult([k \in DOMAIN finishes |-> ParseFinish(finishes[k], disk, cands)])

-----------------------------------------------------------------------------
(* Answers.                                                                *)

\* dedupe_key: findings without a line are told apart by their note.
DedupeKey(f) == <<f.loc, IF IsUnknown(f.loc) THEN f.note ELSE Missing>>

\* accumulate: the first finding with a key is the one kept.
Accumulate(findings, more) ==
  LET all == findings \o more
      isFirst(i) == \A j \in 1 .. i - 1 : DedupeKey(all[j]) # DedupeKey(all[i])
  IN  Picked(all, {i \in DOMAIN all : isFirst(i)})

\* cap_snippet; lines stand for characters here, and 0 is no cap.
CapSnippet(text, max) ==
  IF max = 0 \/ text = Missing \/ text = Authored
  THEN text
  ELSE [text EXCEPT !.to = Lower(@, text.from + max - 1)]

\* tidy_findings: normalised, the first of each key, texts capped.
TidyFindings(findings, cap) ==
  LET plain == [k \in DOMAIN findings |-> [findings[k] EXCEPT !.loc.path = Plain[@]]]
      kept == Accumulate(<<>>, plain)
  IN  [k \in DOMAIN kept |-> [kept[k] EXCEPT !.text = CapSnippet(@, cap)]]

\* response_caps: a detailed answer has at least the cap of a concise one.
ResponseCap(concise, detailed, wantsDetail) ==
  IF ~wantsDetail
  THEN concise
  ELSE IF detailed = 0 \/ concise = 0 THEN 0 ELSE Upper(detailed, concise)

\* Mutant of TidyAndTruncate: duplicates are dropped after the cut.
TruncateAndTidy(findings, cap, max) ==
  TidyFindings(IF max = Missing
               THEN findings
               ELSE SubSeq(findings, 1, Lower(max, Len(findings))), cap)

\* tidy_and_truncate, max Missing if the query has no max_results.
TidyAndTruncate(findings, cap, max) ==
  LET tidy == TidyFindings(findings, cap)
  IN  IF max = Missing THEN tidy ELSE SubSeq(tidy, 1, Lower(max, Len(tidy)))

\* symbols_for: the symbol of the only candidate that overlaps a finding.
SymbolsFor(findings, cands) ==
  LET over(f) == {i \in DOMAIN cands :
                    cands[i].loc.path = f.loc.path /\ RangesOverlap(cands[i].loc, f.loc)}
      sole == {f \in Range(findings) : Cardinality(over(f)) = 1}
      pairs == UNION {{<<f.loc, cands[i].symbol>> : i \in over(f)} : f \in sole}
  IN  {p \in pairs : p[2] # Missing}

-----------------------------------------------------------------------------
(* Scores of the local judge, permille, Missing for a candidate that was   *)
(* not judged.                                                             *)

\* select_indices: the best first, equals in rank order.
SelectIndices(scores, threshold) ==
  LET chosen == {i \in DOMAIN scores : scores[i] # Missing /\ scores[i] >= threshold * 10}
      better(i, j) == scores[i] > scores[j] \/ (scores[i] = scores[j] /\ i < j)
  IN  ByRank([i \in chosen |-> Cardinality({j \in chosen : better(j, i)}) + 1])

\* offline_fallback: the scored candidates by score, then the others by rank;
\* the first max of them that verify. The chunks it verifies them in make no
\* difference to a tree that holds still.
OfflineFindings(cands, scores, disk, max) ==
  LET scored == IF scores = Missing THEN <<>> ELSE SelectIndices(scores, 0)
      order == scored \o InOrder(DOMAIN cands \ Range(scored))
      verified == VerifiedFindings([k \in DOMAIN order |-> cands[order[k]]], disk)
  IN  FindingsIn(SubSeq(verified, 1, Lower(max, Len(verified))))

\* llm_overlap_set.
OverlapSet(cands, findings) ==
  {i \in DOMAIN cands :
     /\ ~IsUnknown(cands[i].loc)
     /\ \E f \in Range(findings) :
          /\ ~IsUnknown(f.loc)
          /\ Plain[f.loc.path] = Plain[cands[i].loc.path]
          /\ RangesOverlap([cands[i].loc EXCEPT !.end = Upper(@, cands[i].loc.start)], f.loc)}

\* classify_agreement of two sets, Missing for a side that escalated.
Agreement(llm, judge) ==
  IF llm = Missing /\ judge = Missing THEN "both-escalated"
  ELSE IF judge = Missing THEN "judge-escalated"
  ELSE IF llm = Missing THEN "llm-escalated"
  ELSE IF llm = judge THEN "exact"
  ELSE IF llm \cap judge = {} THEN "disjoint" ELSE "overlap"
=============================================================================

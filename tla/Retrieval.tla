------------------------------ MODULE Retrieval ------------------------------
(***************************************************************************)
(* The deterministic half of an exploration: from the words of a query to  *)
(* search patterns, and from what the searches found to a ranked list, a   *)
(* confidence and the candidate that may spare the model (retrieval.rs,    *)
(* pipeline.rs).                                                           *)
(*                                                                         *)
(* Text is a set of tokens: what the code decides by the letters of a      *)
(* token is given by the constants, and "contains" is membership. A symbol *)
(* is a qualifier and a last segment.                                      *)
(***************************************************************************)
EXTENDS TextSearch

CONSTANTS
  Identifiers,  \* the tokens is_identifier_like accepts
  CodeShaped,   \* the tokens is_symbol_token accepts
  Capitalized,  \* those with nothing but a capital first letter to show for it
  Variant,      \* Variant[t]: t in the opposite case convention, or Missing
  Key,          \* Key[t]: t as canonical_coverage_key folds it
  LongKeys,     \* the keys of MIN_COVERAGE_KEY_LEN characters and more
  PathKeys,     \* PathKeys[p]: the keys that the path p contains
  MaxGrep,      \* MAX_GREP_PATTERNS
  MaxPerFile    \* MAX_PER_FILE_IN_TOP_K

ASSUME ShapedAreIdentifiers == CodeShaped \subseteq Identifiers
ASSUME LimitsAreNat == MaxGrep \in Nat /\ MaxPerFile \in Nat \ {0}

Take(s, n) == SubSeq(s, 1, Lower(n, Len(s)))

\* push_unique, one after the other.
Unique(s) == Picked(s, {i \in DOMAIN s : \A j \in 1 .. i - 1 : s[j] # s[i]})

\* The elements of s that pass a test.
Those(s, Passes(_)) == Picked(s, {i \in DOMAIN s : Passes(s[i])})

Variants(tokens) == [i \in DOMAIN tokens |-> Variant[tokens[i]]]

-----------------------------------------------------------------------------
(* Patterns. A word of a query is quoted, a literal, or not: then it has   *)
(* the segments it splits into, and is a path if it looks like one.        *)

\* derive_patterns: the variants of the identifiers come after all of them.
DerivePatterns(words) ==
  LET quoted == Those(words, LAMBDA w : w.quoted)
      plain == Those(words, LAMBDA w : ~w.quoted)
      segments == FlattenSeq([i \in DOMAIN plain |-> plain[i].segments])
      paths == Those(plain, LAMBDA w : w.path)
      literals == Unique([i \in DOMAIN quoted |-> quoted[i].token])
      originals == Unique(Those(segments, LAMBDA t : t \in Identifiers))
      variants == Those(Variants(originals), LAMBDA t : t # Missing)
      identifiers == Unique(originals \o variants)
  IN  [literals |-> literals,
       paths |-> Unique([i \in DOMAIN paths |-> paths[i].token]),
       pathKeys |-> UNION {Range(paths[i].segments) : i \in DOMAIN paths},
       identifiers |-> identifiers,
       originals |-> Len(originals),
       grep |-> Take(Unique(literals \o identifiers), MaxGrep)]

\* leg_identifiers: the first originals, each with its variant.
LegIdentifiers(p, limit) ==
  LET first == Take(p.identifiers, Lower(limit, p.originals))
      later == SubSeq(p.identifiers, p.originals + 1, Len(p.identifiers))
      variants == Those(Variants(first), LAMBDA t : t \in Range(later))
  IN  Unique(first \o variants)

-----------------------------------------------------------------------------
(* Ranking.                                                                *)

\* The keys a hit may cover, and those that make a text hit a strong one: a
\* literal, or an identifier with more to it than a capital letter.
CoverageKeys(p) ==
  {Key[t] : t \in Range(p.identifiers) \cup Range(p.literals)} \cap LongKeys

StrongKeys(p) ==
  LET shaped == (Range(p.identifiers) \cap CodeShaped) \ Capitalized
  IN  {Key[t] : t \in shaped \cup Range(p.literals)} \cap LongKeys

\* effective_base.
EffectiveBase(c, strong) ==
  CASE c.kind = "SymbolExact" -> 700
    [] c.kind = "SymbolFuzzy" -> 400
    [] c.kind = "FileNameHit" -> 300
    [] c.kind = "SemanticHit" -> 260
    [] c.kind = "ContentHit" -> IF c.keys \cap strong # {} THEN 650 ELSE 150

SymbolKeys(symbol) ==
  IF symbol = Missing
  THEN {}
  ELSE {Key[t] : t \in {symbol.last, symbol.qualifier} \ {Missing}}

Coverage(c, keys) ==
  Cardinality(keys \cap (SymbolKeys(c.symbol) \cup PathKeys[c.loc.path] \cup c.keys))

\* merge_into: the range of both, the identity of the stronger one.
MergeInto(a, b, strong) ==
  LET stronger == EffectiveBase(b, strong) > EffectiveBase(a, strong)
      main == IF stronger THEN b ELSE a
      other == IF stronger THEN a ELSE b
      textless == main.text = Missing
  IN  [loc |-> [path |-> a.loc.path,
                start |-> Lower(a.loc.start, b.loc.start),
                end |-> Upper(a.loc.end, b.loc.end)],
       kind |-> main.kind,
       score |-> 0,
       symbol |-> IF main.symbol # Missing THEN main.symbol ELSE other.symbol,
       text |-> IF textless THEN other.text ELSE main.text,
       keys |-> IF textless THEN other.keys ELSE main.keys]

Overlapping(a, b) ==
  a.path = b.path /\ ~IsUnknown(a) /\ ~IsUnknown(b) /\ RangesOverlap(a, b)

ByPlace(a, b) ==
  \/ PathRank[a.loc.path] < PathRank[b.loc.path]
  \/ /\ a.loc.path = b.loc.path
     /\ \/ a.loc.start < b.loc.start
        \/ a.loc.start = b.loc.start /\ a.loc.end < b.loc.end

ByScore(a, b) ==
  \/ a.score > b.score
  \/ /\ a.score = b.score
     /\ \/ PathRank[a.loc.path] < PathRank[b.loc.path]
        \/ a.loc.path = b.loc.path /\ a.loc.start < b.loc.start

\* The hits at their places; as a concatenation, TLC makes them once.
Placed(raw) == <<>> \o [i \in DOMAIN raw |-> [raw[i] EXCEPT !.loc = NormalizeLocation(@)]]

\* The next hit is merged with the last one, if they overlap.
Joined(acc, c, strong) ==
  IF acc # <<>> /\ Overlapping(acc[Len(acc)].loc, c.loc)
  THEN [acc EXCEPT ![Len(acc)] = MergeInto(@, c, strong)]
  ELSE Append(acc, c)

\* The first n of some hits, joined in turn.
MergedInTurn(hits, strong) ==
  LET upTo[n \in 0 .. Len(hits)] == IF n = 0 THEN <<>> ELSE Joined(upTo[n - 1], hits[n], strong)
  IN  upTo

\* Mutant of Merged: hits are merged in the order the legs found them.
MergedAsFound(raw, strong) == MergedInTurn(Placed(raw), strong)[Len(raw)]

\* Hits in the order of their places, each merged with the one before it.
Merged(raw, strong) == MergedInTurn(Sorted(Placed(raw), ByPlace), strong)[Len(raw)]

\* The base, what of the query it covers, and how many hits its file has.
Scored(merged, keys, strong) ==
  LET neighbours(c) == Cardinality({i \in DOMAIN merged : merged[i].loc.path = c.loc.path}) - 1
      score(c) == EffectiveBase(c, strong) + Lower(30 * Coverage(c, keys), 120)
                    + 15 * Lower(neighbours(c), 4)
  IN  [i \in DOMAIN merged |-> [merged[i] EXCEPT !.score = Lower(score(merged[i]), 1000)]]

\* Mutant of Truncated: the best, whatever files they are of.
TruncatedByScore(sorted, topK) == Take(sorted, topK)

\* truncate_with_file_cap: so many of a file first, then whatever is best.
Truncated(sorted, topK) ==
  LET rankInFile(i) == Cardinality({j \in 1 .. i : sorted[j].loc.path = sorted[i].loc.path})
      capped == Take(InOrder({i \in DOMAIN sorted : rankInFile(i) <= MaxPerFile}), topK)
      rest == Take(InOrder(DOMAIN sorted \ Range(capped)), topK - Len(capped))
  IN  IF Len(sorted) <= topK THEN sorted ELSE Picked(sorted, Range(capped) \cup Range(rest))

\* merge_and_rank.
MergeAndRank(raw, p, topK) ==
  LET strong == StrongKeys(p)
  IN  Truncated(Sorted(Scored(Merged(raw, strong), CoverageKeys(p), strong), ByScore), topK)

\* confidence: the best score and its margin over the next.
Confidence(ranked) ==
  IF ranked = <<>>
  THEN 0
  ELSE LET top == ranked[1].score
           next == IF Len(ranked) > 1 THEN ranked[2].score ELSE 0
       IN  Lower(100, top \div 10 + (top - next) \div 20)

-----------------------------------------------------------------------------
(* Trust.                                                                  *)

\* is_trusted_symbol_match: named as a symbol, not in passing by a path or as
\* a word of prose.
IsTrusted(c, p) ==
  /\ c.kind = "SymbolExact"
  /\ c.symbol # Missing
  /\ c.symbol.last \notin p.pathKeys
  /\ c.symbol.last \in CodeShaped \/ p.originals <= 2

\* distinct_trusted_symbols: a name in its qualified spellings, or one without any,
\* however many unqualified hits it has.
DistinctTrusted(raw, p) ==
  LET names == {c.symbol : c \in {d \in Range(raw) : IsTrusted(d, p)}}
      bare(n) == n.qualifier = Missing
  IN  Cardinality({n \in names : bare(n) => \A m \in names : m.last = n.last => bare(m)})

\* The trusted candidates of a ranked list, and the only one, at a known place.
Trusted(ranked, p) == {i \in DOMAIN ranked : IsTrusted(ranked[i], p)}

UniqueTrusted(ranked, p) ==
  LET trusted == Trusted(ranked, p)
      sole == CHOOSE i \in trusted : TRUE
  IN  IF Cardinality(trusted) = 1 /\ ~IsUnknown(ranked[sole].loc) THEN sole ELSE Missing

\* Mutant of Outcome: names are counted when merging has swallowed some.
OutcomeCountsLate(raw, p, topK) ==
  LET ranked == MergeAndRank(raw, p, topK)
  IN  [candidates |-> ranked,
       confidence |-> Confidence(ranked),
       trusted |-> Trusted(ranked, p),
       unique |-> UniqueTrusted(ranked, p)]

\* What retrieve makes of the findings of all its legs.
Outcome(raw, p, topK) ==
  LET ranked == MergeAndRank(raw, p, topK)
  IN  [candidates |-> ranked,
       confidence |-> Confidence(ranked),
       trusted |-> Trusted(ranked, p),
       unique |-> IF DistinctTrusted(raw, p) <= 1 THEN UniqueTrusted(ranked, p) ELSE Missing]
=============================================================================

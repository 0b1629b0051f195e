------------------------------ MODULE TextSearch ------------------------------
(***************************************************************************)
(* The text search within the process (search/backend.rs): a walk over the *)
(* files, in whatever order the directories list them, the lines that      *)
(* match, and an order of its own before the results are cut.              *)
(*                                                                         *)
(* files[p] is the file p: its lines, each the set of the tokens in it,    *)
(* and whether the walk skips it (ignored, hidden, binary or unreadable).  *)
(***************************************************************************)
EXTENDS Findings

CONSTANTS
  AnyToken,  \* MATCH_ANY_NON_EMPTY_LINE
  NamedBy,   \* NamedBy[token]: the paths file_glob_for(token) matches
  InScope,   \* InScope[scope]: the paths below it
  PathRank   \* PathRank[p]: the place of p in the order of paths

\* No two paths are equal in their order.
ASSUME PathsAreOrdered ==
  /\ \A p \in DOMAIN Plain : Plain[p] \in DOMAIN PathRank
  /\ \A p \in DOMAIN PathRank : PathRank[p] \in Nat
  /\ \A p, q \in DOMAIN PathRank : PathRank[p] = PathRank[q] => p = q

\* s in an order, equals as they come.
Sorted(s, before(_, _)) ==
  LET earlier(i, j) == before(s[i], s[j]) \/ (~before(s[j], s[i]) /\ i < j)
      order == ByRank([i \in DOMAIN s |-> Cardinality({j \in DOMAIN s : earlier(j, i)}) + 1])
  IN  [k \in DOMAIN order |-> s[order[k]]]

\* The regular expression is a token or any character.
LineMatches(line, pattern) == IF pattern = AnyToken THEN line # {} ELSE pattern \in line

\* The files the walk gets to.
Walked(files, glob, scope) ==
  {p \in DOMAIN files :
     /\ ~files[p].skipped
     /\ glob = Missing \/ p \in NamedBy[glob]
     /\ scope = Missing \/ p \in InScope[scope]}

\* What the collector has of a file: a finding for each line.
LinesFound(p, lines, pattern) ==
  LET at == InOrder({i \in DOMAIN lines : LineMatches(lines[i], pattern)})
  IN  [k \in DOMAIN at |-> [loc |-> [path |-> p, start |-> at[k], end |-> at[k]],
                            text |-> lines[at[k]], note |-> Missing]]

\* search: by path and line, so that the cut does not depend on the walk.
TextFound(files, pattern, glob, scope, max) ==
  LET walked == Walked(files, glob, scope)
      paths == ByRank([p \in walked |-> Cardinality({q \in walked : PathRank[q] < PathRank[p]}) + 1])
      all == FlattenSeq([k \in DOMAIN paths |-> LinesFound(paths[k], files[paths[k]].lines, pattern)])
  IN  IF max = Missing THEN all ELSE SubSeq(all, 1, Lower(max, Len(all)))
=============================================================================

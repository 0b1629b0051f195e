---------------------------- MODULE MemoryAnswers ----------------------------
(***************************************************************************)
(* How the answers of codebase-memory-mcp about its index are read, and    *)
(* what is decided from them (backend.rs status_probe .. coverage_covers_  *)
(* all, freshness.rs, client.rs project_matching_root). An answer is the   *)
(* record of the fields the code looks at; a field that is absent or has   *)
(* an unexpected type is Missing.                                          *)
(***************************************************************************)
EXTENDS Integers, Sequences

CONSTANT Missing

-----------------------------------------------------------------------------

\* status_probe: an index exists if its status is a non-blank text, or the
\* boolean of older shapes says so; any other shape counts as no index.
StatusProbe(json) ==
  [exists |-> json.status \notin {"", Missing} \/ json.indexed = TRUE,
   indexedAt |-> json.indexedAt]

\* A tool error that says the project is unknown is an answer, not a failure.
NotIndexed == [exists |-> FALSE, indexedAt |-> Missing]

\* changed_count: the total before the length of the list, and never zero for
\* a shape that is not understood.
ChangedCount(json) ==
  IF json.total # Missing
  THEN json.total
  ELSE IF json.files # Missing THEN Len(json.files) ELSE Missing

\* Mutant of ChangesProbe: a page of the changes is taken for all of them.
ChangesProbeOfPage(json) == [count |-> ChangedCount(json), files |-> json.files]

\* changes_probe: a list that was cut to a page is not a list of the changes.
ChangesProbe(json) ==
  [count |-> ChangedCount(json),
   files |-> IF json.hasMore = TRUE THEN Missing ELSE json.files]

UnknownChanges == [count |-> Missing, files |-> Missing]

\* coverage_covers_all: only a complete answer in which every file is indexed
\* as it is on disk, or not tracked at all.
CoversAll(json) ==
  /\ json.hasMore = FALSE
  /\ json.rows # Missing
  /\ \A i \in DOMAIN json.rows : json.rows[i] \in {"metadata_match", "not_tracked"}

\* Mutant of MustReindex: an index is kept for one unit too long.
MustReindexLater(exists, changed, lastIndexed, staleness, now) ==
  \/ ~exists
  \/ changed # 0
  \/ lastIndexed = Missing
  \/ now - lastIndexed > staleness + 1

\* decide_freshness. A time in the future has age zero for it.
MustReindex(exists, changed, lastIndexed, staleness, now) ==
  \/ ~exists
  \/ changed # 0
  \/ lastIndexed = Missing
  \/ now - lastIndexed > staleness

\* project_matching_root: a row with the very root before one whose root
\* resolves to it. Spelling[n] says how the project n spells its root.
MatchingRoot(rows, Spelling) ==
  LET spelled(s) == {i \in DOMAIN rows : Spelling[rows[i]] = s}
      first(I) == rows[CHOOSE i \in I : \A j \in I : i <= j]
  IN  IF spelled("exact") # {}
      THEN first(spelled("exact"))
      ELSE IF spelled("alias") # {} THEN first(spelled("alias")) ELSE Missing
=============================================================================

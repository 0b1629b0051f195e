------------------------------ MODULE RepoState ------------------------------
(***************************************************************************)
(* What the result caches know of a repository: its fingerprint (HEAD plus *)
(* a digest of what differs from HEAD) and the comparison of two           *)
(* fingerprints (git_probe.rs, fingerprint.rs). The digest is taken to be  *)
(* collision free, so it is modelled by what it digests.                   *)
(***************************************************************************)
CONSTANTS
  Files,       \* the files of the repository that git does not ignore
  Contents,    \* what a file may contain
  Heads,       \* the commits HEAD may name
  CommitTree,  \* CommitTree[h][f]: the content of f in commit h
  Absent,      \* the content of a file that does not exist
  Clean,       \* marks a file that does not differ from HEAD
  Unknown      \* what is not known: a probe without answer, a file not looked at

ASSUME CommitsHoldTrees == CommitTree \in [Heads -> [Files -> Contents]]
ASSUME MarksAreNoContents == Clean \notin Contents /\ Unknown \notin Contents

Trees == [Files -> Contents]

Fingerprint == [head : Heads, dirty : [Files -> Contents \cup {Clean}]]

ASSUME UnknownIsDistinct == Unknown \notin Fingerprint /\ \A S \in SUBSET Files : Unknown # S

\* The status walk: which files of the working tree w differ from commit h.
DirtyAgainst(h, w) ==
  [f \in Files |-> IF w[f] = CommitTree[h][f] THEN Clean ELSE w[f]]

\* A fingerprint whose head is read when HEAD is h, and whose status walk
\* runs when HEAD is walkHead and the working tree is w.
FingerprintOf(h, walkHead, w) == [head |-> h, dirty |-> DirtyAgainst(walkHead, w)]

\* The working tree a fingerprint describes.
TreeOf(fp) ==
  [f \in Files |-> IF fp.dirty[f] = Clean THEN CommitTree[fp.head][f] ELSE fp.dirty[f]]

(***************************************************************************)
(* changed_paths: two dirty states cannot be compared after the fact, and  *)
(* with the same dirty state the committed trees are.                      *)
(***************************************************************************)
ChangedPaths(from, to) ==
  IF from.dirty # to.dirty
  THEN Unknown
  ELSE IF from.head = to.head
  THEN {}
  ELSE {f \in Files : CommitTree[from.head][f] # CommitTree[to.head][f]}
=============================================================================

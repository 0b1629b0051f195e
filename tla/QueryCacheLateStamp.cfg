\* Paths mode, one exploration at a time and one edit, which comes between a read
\* and the stamp.
SPECIFICATION Spec
CONSTANTS
  f1 = f1
  f2 = f2
  c1 = c1
  c2 = c2
  h1 = h1
  h2 = h2
  h3 = h3
  r1 = r1
  r2 = r2
  p1 = p1
  p2 = p2
  Absent = absent
  Clean = clean
  Unknown = unknown
  NoEntry = none
  InitHead = h1
  CommitTree <- MCCommitTree
  ProcOf <- OneProc
  Files = {f1, f2}
  Contents = {c1, c2, absent}
  Heads = {h1, h3}
  Runs = {r1}
  Procs = {p1}
  Keys = {k1}
  KeyMode = "paths"
  MaxEntries = 2
  MaxChanges = 1
  MaxRestarts = 0
  MaxFailures = 0
INVARIANT NeverServesInvalidated

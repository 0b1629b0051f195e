\* Strict mode, two concurrent explorations in one process.
SPECIFICATION Spec
CONSTANTS
  f1 = f1
  f2 = f2
  c1 = c1
  c2 = c2
  h1 = h1
  h2 = h2
  h3 = h3
  r1 = r1
  r2 = r2
  p1 = p1
  p2 = p2
  Absent = absent
  Clean = clean
  Unknown = unknown
  NoEntry = none
  InitHead = h1
  CommitTree <- MCCommitTree
  ProcOf <- OneProc
  Files = {f1}
  Contents = {c1, c2}
  Heads = {h1, h2, h3}
  Runs = {r1, r2}
  Procs = {p1}
  Keys = {k1}
  KeyMode = "strict"
  MaxEntries = 1
  MaxChanges = 2
  MaxRestarts = 0
  MaxFailures = 0
SYMMETRY Interchangeable
INVARIANTS
  ServedFresh
  LabelKeepsBirthTree
  LabelMatchesAnswer
PROPERTY
  FreshEntrySurvivesDrop

\* Two explorations at a time; an index of the root under another spelling is
\* listed first, on a page of its own; two edits, losses, rebuilds or failures in all.
SPECIFICATION FairSpec
CONSTANTS
  Missing = Missing
  r1 = r1
  r2 = r2
  Runs = {r1, r2}
  Files = {f}
  Projects <- Two
  Spelling <- Aliased
  Indexed = {"p"}
  Assigned = "q"
  PageSize = 1
  MaxRows = 3
  Staleness = 0
  TrustTtl = 1
  MaxTime = 1
  MaxUpsets = 2
INVARIANTS
  MarkVouches
PROPERTIES
  UpToDateWithinThreshold
  NameHeals

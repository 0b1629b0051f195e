\* One process with one task, and a cache clear from a shell.
SPECIFICATION FairSpec
CONSTANTS
  p1 = p1
  p2 = p2
  t1 = t1
  t2 = t2
  k1 = k1
  k2 = k2
  s1 = s1
  None = none
  Garbage = garbage
  Procs = {p1}
  Tasks = {t1}
  Keys = {k1, k2}
  VersionOf <- SameVersion
  ProcOf <- OneEach
  StemOf <- Colliding
  Stems = {s1}
  Values = {x1}
  Leftovers = {}
  SizeOf <- TwoBytes
  MaxBytes = 1
  MaxMishaps = 1
CHECK_DEADLOCK FALSE
PROPERTY
  WritesRecover

\* Two processes of one version, two keys with one hash. When the store could not
\* be opened, a process has nothing left to do with it.
SPECIFICATION Spec
CONSTANTS
  p1 = p1
  p2 = p2
  t1 = t1
  t2 = t2
  k1 = k1
  k2 = k2
  s1 = s1
  None = none
  Garbage = garbage
  Procs = {p1, p2}
  Tasks = {t1, t2}
  Keys = {k1, k2}
  VersionOf <- SameVersion
  ProcOf <- OneEach
  StemOf <- Colliding
  Stems = {s1}
  Values = {x1, x2}
  Leftovers = {1, 3}
  SizeOf <- TwoBytes
  MaxBytes = 1
  MaxMishaps = 1
SYMMETRY Alike
CHECK_DEADLOCK FALSE
INVARIANT
  TempsAreInUse
  TallyCoversStore
PROPERTIES
  ImplementsLossyStore
  NewerVersionsSpared

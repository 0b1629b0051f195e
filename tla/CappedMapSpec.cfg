\* One capped map: four keys, cap 2, every sequence of six operations.
SPECIFICATION MapSpec
CONSTANTS
  MapKeys = {k1, k2, k3, k4}
  Values = {v1, v2}
  Cap = 2
  MaxOps = 6
INVARIANTS
  QueueIsResident
  WithinCap
PROPERTY
  EvictsOldest
CHECK_DEADLOCK FALSE

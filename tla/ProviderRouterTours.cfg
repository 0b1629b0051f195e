\* Two explorations over three models of two entries.
SPECIFICATION Spec
CONSTANTS
  Runs = {r1, r2}
  Entries = 3
  ModelsOf <- TwoNoneOne
  Rotating = {1}
  Seeds = 2
  Cooldown = 1
  Day = 3
  NoModel = none
SYMMETRY Interchangeable
INVARIANTS
  BannedUnlessRaced
PROPERTIES
  ExhaustedMeansAllRefused
  SticksUnlessRefused

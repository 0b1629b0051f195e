\* Two commands of any kind at once or one after the other, one fault, one kill.
SPECIFICATION Spec
CONSTANTS
  Missing = Missing
  p1 = p1
  p2 = p2
  Updaters = {p1, p2}
  Shells = {p1, p2}
  Servers = {p1, p2}
  Releases <- TheReleases
  Installed <- TheInstalled
  MaxFaults = 1
  MaxKills = 1
  MaxPlaced = 1
  AgentFiles = {"absent", "ours", "other", "garbled"}
  MaxRefusals = 1
  MaxTouches = 1
  Consoles = {p1, p2}
  Features = {"candle"}
  Answers <- TheAnswers
  Revisions <- TheRevisions
  MaxEdits = 1
  Machines <- TheMachines
  MaxLooks = 2
  BareNames = {"cbm"}
  MaxLaunches <- Launches
  Scenes <- TheScenes
INVARIANTS
  InstalledIsWhole
  ShadowsOnlyWithServer
  ValidMeansItStarts
  ClearReachesTheStore
PROPERTIES
  NeverDowngrades
  RefusedOnlyByUnseen
SYMMETRY Interchangeable
CHECK_DEADLOCK FALSE

\* Every mode and fallback, both kinds of judge, budgets of two tokens and none,
\* one edit at any time.
SPECIFICATION FairSpec
CONSTANTS
  Missing = Missing
  Authored = Authored
  AnyToken = AnyToken
  Plain <- PlainOf
  PathRank <- PathRankOf
  NamedBy <- NamedByOf
  InScope <- InScopeOf
  Graph <- GraphOf
  MaxReadLines = 2
  Configs <- TheConfigs
  Env <- TheEnv
  Requested <- TheRequests
  Outcomes <- TheOutcomes
  Disks <- TheDisks
  Architectures <- TheArchitectures
  Replies <- TheReplies
  Opinions <- TheOpinions
  SeedCandidates = 3
  OfflineMax = 2
  MaxRejections = 1
  MaxEdits = 1
  MaxCounted = 9
INVARIANTS
  BudgetBoundsCalls
  OfflineNeverAsks
  AnswersCiteDisk
  SoleSymbolIsAnswered
  DuplicatesCostNothing
  ShadowOnlyObserves
  JudgedWhole
  EveryCallIsAnswered
  SynthesisKeepsWhatWasShown
  BriefFitsBudget
PROPERTIES
  Ends

SPECIFICATION FairSpec
CONSTANTS
  NStages = 3
  DependsOn <- MCDependsOn
  DemoWitness = TRUE
  Imported = {1}
  Content = {c1, c2}
  NoFile = NoFile
  Version = {v1, v2}
  Archive = Archive
  NoIdentity = NoIdentity
  MaxEdits = 1
  MaxCrashes = 1
INVARIANTS
  PersistedLedgerLoads
  LineageIsCurrent
  SuccessUnlessCrashed
PROPERTIES
  SealedFailure
  ImplementsBuild
  EventuallyFresh

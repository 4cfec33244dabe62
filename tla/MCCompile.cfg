SPECIFICATION FairSpec
CONSTANTS
  NStages <- MCNStages
  DependsOn <- MCDependsOn
  Required <- MCRequired
  Optional <- MCOptional
  Offers <- MCOffers
  Root = {root}
  Attempt = {a1}
  Research = {a1}
  RootOf <- MCRootOf
  BindsFreely = TRUE
  NoArtifact = NoArtifact
  MaxFaults = 1
INVARIANTS
  NoLostWakeup
  StageIsAdmitted
  CompletedIsWhole
PROPERTIES
  WaitingResumes
CHECK_DEADLOCK FALSE

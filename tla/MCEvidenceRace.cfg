SPECIFICATION RaceSpec
CONSTANTS
  NStages <- MCNStages
  DependsOn <- MCDependsOn
  Required <- MCRequired
  Optional <- MCOptional
  Offers <- MCOffers
  Root = {root}
  Attempt = {a1}
  Research = {a1}
  RootOf <- MCRootOf
  BindsFreely = TRUE
  NoArtifact = NoArtifact
  MaxFaults = 0
CHECK_DEADLOCK FALSE
INVARIANTS
  RaceSendsNoSignal

SPECIFICATION Spec
CONSTANTS
  NStages <- MCNStages
  DependsOn <- MCDependsOn
  Required <- MCRequired
  Optional <- MCOptional
  Offers <- MCOffers
  Root = {root}
  Attempt = {research, product}
  Research = {research}
  RootOf <- MCRootOf
  BindsFreely = FALSE
  NoArtifact = NoArtifact
  MaxFaults = 3
INVARIANTS
  ProvenanceMatchesIdentity
  DemoStaysInLane
PROPERTIES
  ImplementsCompilation
CHECK_DEADLOCK FALSE

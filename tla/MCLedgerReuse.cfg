SPECIFICATION Spec
CONSTANTS
  NStages = 3
  DependsOn <- MCDependsOn
  DemoWitness = FALSE
  Imported = {}
  Content = {c1}
  NoFile = NoFile
  Version = {v1, v2}
  Archive = Archive
  NoIdentity = NoIdentity
  MaxEdits = 2
  MaxCrashes = 0
SYMMETRY Renaming
PROPERTIES
  ReuseIsVerified

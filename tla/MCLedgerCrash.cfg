SPECIFICATION Spec
CONSTANTS
  NStages = 3
  DependsOn <- MCDependsOn
  DemoWitness = FALSE
  Imported = {}
  Content = {c1}
  NoFile = NoFile
  Version = {v1, v2}
  Archive = Archive
  NoIdentity = NoIdentity
  MaxEdits = 0
  MaxCrashes = 1
SYMMETRY Renaming
INVARIANTS
  SuccessIsComplete

SPECIFICATION FairSpec
CONSTANTS
  N = 2
  Product = {1}
  Members = {2}
  Loops = {l1}
  Operators = {o1}
  Runners = {r1}
  Limit = 1
  MaxFaults = 1
INVARIANTS
  FailedOnWitness
  RevisionIsQualified
  ConfirmedIsClosed
  RunningIsSubmitted
PROPERTIES
  ImplementsClosure
  FailuresClose
  CancellationEnds
CHECK_DEADLOCK FALSE

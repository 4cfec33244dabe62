SPECIFICATION FairSpec
CONSTANTS
    Steps <- MCSteps
    EvalEvery <- MCEvalEvery
    SaveEvery <- MCSaveEvery
    StartIsCandidate <- MCStartIsCandidate
    Stateful <- MCStateful
    Replay <- MCReplay
    Prefix <- MCPrefix
    Total = 5
    Stops = {1, 4, 5}
    LogEvery = 2
    Scores <- MCScores
    Uninterrupted <- MCUninterrupted
    Names = {1, 2, 3, 4, 5, 6}
    None = None
    MaxFaults = 2
INVARIANTS
    LatestLoads
    ResumeIsReplay
    SelectedIsBest
    ReturnedIsAccepted
PROPERTIES
    ImplementsTraining
    TrainingEnds

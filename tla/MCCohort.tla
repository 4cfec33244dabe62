------------------------------ MODULE MCCohort ------------------------------
EXTENDS CohortTraining, FiniteSetsExt, TLC

MCSteps == <<2, 1, 2>>
MCEvalEvery == <<1, 1, 2>>
MCSaveEvery == <<1, 1, 2>>
MCStartIsCandidate == <<FALSE, TRUE, TRUE>>
MCStateful == <<TRUE, FALSE, FALSE>>
MCPrefix == <<0, 2, 3, 5>>
MCReplay == <<"refresh", "freeze", "keep">>

\* The evaluated models: what they are scored makes the first or the last of
\* a stage the best, lets the start of a stage win, or leaves all equal.
Judged == <<<<1, 1>>, <<1, 2>>, <<2, 1>>, <<3, 2>>>>

MCScores ==
    {[k \in Keys |-> IF \E i \in 1..4 : Judged[i] = k
                     THEN row[CHOOSE i \in 1..4 : Judged[i] = k] ELSE 0] :
        row \in {<<0, 0, 0, 0>>, <<0, 1, 1, 0>>, <<1, 0, 0, 1>>, <<2, 1, 2, 0>>}}

\* Evaluated once, when TLC reads the module.
UninterruptedRuns ==
    LET run[sc \in MCScores, n \in 0..Total] ==
            IF n = 0 THEN 0 :> Fresh
            ELSE LET before == run[sc, n - 1]
                 IN  before @@ n :> Advance(sc, before[n - 1])
    IN  FoldSet(LAMBDA sc, all : all @@ sc :> run[sc, Total], <<>>, MCScores)

MCUninterrupted == UninterruptedRuns
=============================================================================

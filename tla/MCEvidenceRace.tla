--------------------------- MODULE MCEvidenceRace ---------------------------
(* One research attempt of two stages that take one role each.             *)
EXTENDS EvidenceRace, TLC

MCNStages == 2
MCDependsOn == <<{}, {1}>>
MCRequired == <<{"p"}, {"p"}>>
MCOptional == <<{}, {}>>
MCOffers == <<{{"p"}}, {{"p"}}>>
MCRootOf == [a \in Attempt |-> CHOOSE r \in Root : TRUE]
=============================================================================

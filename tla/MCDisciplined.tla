--------------------------- MODULE MCDisciplined ---------------------------
(* A research and a product attempt of the same subject input share the    *)
(* identities of whatever takes no external evidence.  The second stage    *)
(* takes some, which clients of the research attempt bind in one call and  *)
(* only while it waits; the product attempt ends there.                    *)
EXTENDS CompileAttempt, TLC

MCNStages == 3
MCDependsOn == <<{}, {1}, {1, 2}>>
MCRequired == <<{}, {"p"}, {}>>
MCOptional == <<{}, {"q"}, {}>>
MCOffers == <<{}, {{"p"}, {"p", "q"}}, {}>>
MCRootOf == [a \in Attempt |-> CHOOSE r \in Root : TRUE]
=============================================================================

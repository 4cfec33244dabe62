----------------------------- MODULE MCCompile -----------------------------
(* One research attempt of two stages: the first waits for two roles,      *)
(* bound together or in two calls, the second for one role.                *)
EXTENDS CompileAttempt, TLC

MCNStages == 2
MCDependsOn == <<{}, {1}>>
MCRequired == <<{"p", "q"}, {"p"}>>
MCOptional == <<{}, {}>>
MCOffers == <<{{"p"}, {"p", "q"}}, {{"p"}}>>
MCRootOf == [a \in Attempt |-> CHOOSE r \in Root : TRUE]
=============================================================================

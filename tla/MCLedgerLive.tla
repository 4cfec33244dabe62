---------------------------- MODULE MCLedgerLive ----------------------------
(* Two stages that do not depend on each other and one on both. *)
EXTENDS EngineLedger, TLC

MCDependsOn == <<{}, {}, {1, 2}>>
Renaming == Permutations(Content) \cup Permutations(Version)
=============================================================================

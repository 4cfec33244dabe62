---------------------------- MODULE MCLedger ----------------------------
(* A demo run of a chain of three stages whose first one was imported. *)
EXTENDS EngineLedger

MCDependsOn == <<{}, {1}, {2}>>
=============================================================================

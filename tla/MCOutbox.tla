------------------------------ MODULE MCOutbox ------------------------------
(* Two workers, one command, one signal to its workflow and one row that   *)
(* is no command.  Three tokens are enough: a row and the other worker     *)
(* hold at most two.                                                       *)
EXTENDS Outbox, TLC

MCStart == {2}
MCSignal == {3}
MCOther == {1}
MCTarget == [e \in MCSignal |-> 2]

TokenSymmetry == Permutations(Token) \cup Permutations(Worker)
=============================================================================

---------------------------- MODULE MCToolCache ----------------------------
(* Two jobs of one environment and one of another, a legacy job and two    *)
(* collectors, each at any moment.                                         *)
EXTENDS ToolCache, TLC

CONSTANTS e1, e2, w1, w2, w3, l1
MCNeeds == (w1 :> e1) @@ (w2 :> e1) @@ (w3 :> e2) @@ (l1 :> e1)
=============================================================================

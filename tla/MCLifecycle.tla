---------------------------- MODULE MCLifecycle ----------------------------
(* An attempt that compiles a product and one that a campaign runs and     *)
(* cancels, with a loop that takes one candidate at a time.                *)
EXTENDS AttemptLifecycle
=============================================================================

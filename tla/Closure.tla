------------------------------ MODULE Closure ------------------------------
(***************************************************************************)
(* What reconciliation and cancellation promise to whoever reads the       *)
(* tables: who closed an attempt, and on which ground.  There are no       *)
(* processes here, no lists and no scans.  An attempt is failed, a         *)
(* cancellation is confirmed and a campaign is called RUNNING in one step, *)
(* in a state where the ground for it holds.                               *)
(***************************************************************************)
EXTENDS Naturals

CONSTANTS Attempt,
          Product,    \* attempts that compile up to the product closure
          Members     \* members of the research campaign

VARIABLES campaign,   \* research_campaigns.state
          confirmed,  \* a cancellation of the campaign was confirmed
          final,      \* attempts.final_state
          commands,   \* how many commands name the attempt; 2 stands for more
          revisions,  \* attempts that sealed a product revision
          workflow,   \* the status of the attempt's workflow
          closing     \* attempts with a FinalizeCompile in flight

closureVars == <<campaign, confirmed, final, commands, revisions, workflow, closing>>

Init ==
  /\ campaign = "READY" /\ confirmed = FALSE
  /\ final = [a \in Attempt |-> "OPEN"]
  /\ commands = [a \in Attempt |-> IF a \in Members THEN 0 ELSE 1]
  /\ workflow = [a \in Attempt |-> "none"]
  /\ revisions = {} /\ closing = {}

-----------------------------------------------------------------------------
(* An attempt's commands and its workflow.                                 *)

Submit(a) ==
  /\ a \in Members /\ commands[a] = 0 /\ final[a] = "OPEN"
  /\ commands' = [commands EXCEPT ![a] = 1]
  /\ UNCHANGED <<campaign, confirmed, final, revisions, workflow, closing>>

SubmitAgain(a) ==
  /\ workflow[a] # "none" /\ final[a] = "OPEN"
  /\ commands' = [commands EXCEPT ![a] = 2]
  /\ UNCHANGED <<campaign, confirmed, final, revisions, workflow, closing>>

WorkflowStarts(a) ==
  /\ workflow[a] = "none" /\ commands[a] > 0
  /\ workflow' = [workflow EXCEPT ![a] = "running"]
  /\ UNCHANGED <<campaign, confirmed, final, commands, revisions, closing>>

WorkflowFails(a) ==
  /\ workflow[a] = "running"
  /\ workflow' = [workflow EXCEPT ![a] = "failed"]
  /\ UNCHANGED <<campaign, confirmed, final, commands, revisions, closing>>

FinalizeStarts(a) ==
  /\ workflow[a] = "running"
  /\ closing' = closing \cup {a}
  /\ UNCHANGED <<campaign, confirmed, final, commands, revisions, workflow>>

-----------------------------------------------------------------------------
(* Who closes an attempt: its own closure, which for a product seals a     *)
(* revision whatever became of the attempt, or a failed workflow.          *)

Seal(a) ==
  /\ a \in Product
  /\ final' = [final EXCEPT ![a] = "QUALIFIED"]
  /\ revisions' = revisions \cup {a}

Complete(a) ==
  /\ a \notin Product
  /\ final' = IF final[a] = "OPEN" THEN [final EXCEPT ![a] = "COMPLETED"] ELSE final
  /\ UNCHANGED revisions

Finalize(a) ==
  /\ a \in closing /\ closing' = closing \ {a}
  /\ Seal(a) \/ Complete(a)
  /\ \/ UNCHANGED workflow
     \/ workflow[a] = "running" /\ workflow' = [workflow EXCEPT ![a] = "completed"]
  /\ UNCHANGED <<campaign, confirmed, commands>>

Fail(a) ==
  /\ final[a] = "OPEN" /\ commands[a] = 1 /\ workflow[a] = "failed"
  /\ final' = [final EXCEPT ![a] = "FAILED"]
  /\ UNCHANGED <<campaign, confirmed, commands, revisions, workflow, closing>>

-----------------------------------------------------------------------------
(* The campaign.                                                           *)

\* A member with a second command is passed over, whatever its state.
Confirm ==
  /\ \A a \in Members : /\ workflow[a] \in {"completed", "failed"}
                        /\ final[a] = "OPEN" => commands[a] = 2
  /\ confirmed' = TRUE
  /\ UNCHANGED <<campaign, final, commands, revisions, workflow, closing>>

Announce ==
  /\ \A a \in Members : commands[a] > 0
  /\ campaign' = "RUNNING"
  /\ UNCHANGED <<confirmed, final, commands, revisions, workflow, closing>>

GiveUp ==
  /\ campaign' = "SUBMIT_FAILED"
  /\ UNCHANGED <<confirmed, final, commands, revisions, workflow, closing>>

Next ==
  \/ \E a \in Attempt :
       \/ Submit(a) \/ SubmitAgain(a) \/ WorkflowStarts(a) \/ WorkflowFails(a)
       \/ FinalizeStarts(a) \/ Finalize(a) \/ Fail(a)
  \/ Confirm \/ Announce \/ GiveUp

Spec == Init /\ [][Next]_closureVars
=============================================================================

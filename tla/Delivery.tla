------------------------------ MODULE Delivery ------------------------------
(***************************************************************************)
(* What the transactional outbox promises to the rest of the Platform:     *)
(* an event is applied to Temporal only after the transaction that wrote   *)
(* it committed, and is marked delivered only after it was applied.  An    *)
(* event may be applied again after that (at-least-once), which the set    *)
(* view shows as stuttering; a command that starts a workflow may not:     *)
(* "runs" counts the workflow runs a start event created.                  *)
(***************************************************************************)
EXTENDS Naturals

CONSTANTS Event,       \* rows of outbox_events, by id
          StartEvent   \* those whose command starts a Temporal workflow

VARIABLES accepted,    \* events whose transaction committed
          applied,     \* events whose effect Temporal has seen at least once
          delivered,   \* events with delivered_at set
          runs         \* number of runs each start event created

deliveryVars == <<accepted, applied, delivered, runs>>

Init ==
  /\ accepted = {}
  /\ applied = {}
  /\ delivered = {}
  /\ runs = [c \in StartEvent |-> 0]

Accept(e) ==
  /\ e \notin accepted
  /\ accepted' = accepted \cup {e}
  /\ UNCHANGED <<applied, delivered, runs>>

Apply(e) ==
  /\ e \in accepted \ applied
  /\ applied' = applied \cup {e}
  /\ runs' = [c \in StartEvent |-> IF c = e THEN 1 ELSE runs[c]]
  /\ UNCHANGED <<accepted, delivered>>

Settle(e) ==
  /\ e \in applied \ delivered
  /\ delivered' = delivered \cup {e}
  /\ UNCHANGED <<accepted, applied, runs>>

Next == \E e \in Event : Accept(e) \/ Apply(e) \/ Settle(e)

Spec == Init /\ [][Next]_deliveryVars
=============================================================================

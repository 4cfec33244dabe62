---------------------------- MODULE OutboxProofs ----------------------------
(* Proofs about Outbox: type correctness, the inductive invariant, the     *)
(* safety properties that follow from it, and the refinement of Delivery.  *)
EXTENDS Outbox, FiniteSetTheorems, WellFoundedInduction, TLAPS

LEMMA EventPartition ==
  /\ StartEvent \subseteq Event
  /\ SignalEvent \subseteq Event
  /\ StartEvent \cap SignalEvent = {}
  /\ Target \in [SignalEvent -> StartEvent]
  /\ NoToken \notin Token
  /\ Event \subseteq Nat
  BY OutboxAssumption DEF Event

\* The batch of a claim is made of claimable events.
LEMMA BatchIsClaimable ==
  /\ Lowest(Claimable, BatchLimit) \subseteq Claimable
  /\ Claimable \subseteq Event
  BY DEF Lowest, Claimable

LEMMA EffectType ==
  ASSUME TypeOK, NEW e \in Event, Effect(e)
  PROVE  /\ workflow' \in [StartEvent -> {"none", "running", "closed"}]
         /\ runs' \in [StartEvent -> Nat]
         /\ signals' \in [SignalEvent -> Nat]
  <1>1. signals' \in [SignalEvent -> Nat]
    BY DEF Effect, TypeOK, temporalVars
  <1>2. /\ workflow' \in [StartEvent -> {"none", "running", "closed"}]
        /\ runs' \in [StartEvent -> Nat]
    BY DEF Effect, TypeOK, temporalVars, StartsRun
  <1> QED BY <1>1, <1>2

\* Every variable of the outbox model keeps its type, whatever the sizes of
\* the worker pool, the batch and the fault budget.
THEOREM TypeCorrect == Spec => []TypeOK
  <1>1. Init => TypeOK
    BY DEF Init, TypeOK
  <1>2. TypeOK /\ [Next]_vars => TypeOK'
    <2> SUFFICES ASSUME TypeOK, [Next]_vars PROVE TypeOK'
      OBVIOUS
    <2> USE DEF TypeOK, tableVars, temporalVars
    <2>1. ASSUME NEW w \in Worker, ClaimBatch(w) PROVE TypeOK'
      <3> DEFINE batch == Lowest(Claimable, BatchLimit)
      <3>1. PICK token \in [batch -> Token] :
              /\ claim' = [e \in Event |-> IF e \in batch THEN token[e] ELSE claim[e]]
              /\ held' = [held EXCEPT ![w] =
                            [e \in Event |-> IF e \in batch THEN token[e] ELSE NoToken]]
              /\ expired' = [e \in Event |-> expired[e] /\ e \notin batch]
        BY <2>1 DEF ClaimBatch
      <3> HIDE DEF batch
      <3>2. claim' \in [Event -> Token \cup {NoToken}]
        BY <3>1
      <3>3. [e \in Event |-> IF e \in batch THEN token[e] ELSE NoToken]
              \in [Event -> Token \cup {NoToken}]
        BY <3>1
      <3>4. held' \in [Worker -> [Event -> Token \cup {NoToken}]]
        BY <3>1, <3>3
      <3>5. expired' \in [Event -> BOOLEAN]
        BY <3>1
      <3> QED BY <2>1, <3>2, <3>4, <3>5 DEF ClaimBatch
    <2>2. ASSUME NEW w \in Worker, Publish(w) PROVE TypeOK'
      BY <2>2, EffectType DEF Publish
    <2>3. ASSUME NEW w \in Worker, PublishRejected(w) PROVE TypeOK'
      BY <2>3 DEF PublishRejected
    <2>4. ASSUME NEW w \in Worker, PublishError(w) PROVE TypeOK'
      BY <2>4, EffectType DEF PublishError, Fault
    <2>5. ASSUME NEW w \in Worker, Ack(w) PROVE TypeOK'
      BY <2>5 DEF Ack, NextRow
    <2>6. ASSUME NEW w \in Worker, Fail(w) PROVE TypeOK'
      BY <2>6 DEF Fail, NextRow
    <2>7. ASSUME NEW w \in Worker, ClaimDrift(w) PROVE TypeOK'
      BY <2>7 DEF ClaimDrift, AbandonBatch, NoBatch
    <2>8. ASSUME NEW w \in Worker, Crash(w) PROVE TypeOK'
      BY <2>8 DEF Crash, AbandonBatch, NoBatch, Fault
    <2>9. ASSUME NEW e \in Event, AppendOutbox(e) PROVE TypeOK'
      BY <2>9 DEF AppendOutbox
    <2>10. ASSUME NEW e \in Event, RetryDelayElapses(e) PROVE TypeOK'
      BY <2>10 DEF RetryDelayElapses
    <2>11. ASSUME NEW e \in Event, ClaimExpires(e) PROVE TypeOK'
      BY <2>11 DEF ClaimExpires, Fault
    <2>12. ASSUME NEW c \in StartEvent, WorkflowCloses(c) PROVE TypeOK'
      BY <2>12 DEF WorkflowCloses
    <2>13. CASE UNCHANGED vars
      BY <2>13 DEF vars
    <2> QED
      BY <2>1, <2>2, <2>3, <2>4, <2>5, <2>6, <2>7, <2>8, <2>9, <2>10, <2>11,
         <2>12, <2>13 DEF Next, DispatchOnce
  <1> QED BY <1>1, <1>2, PTL DEF Spec

-----------------------------------------------------------------------------
\* The first row of a batch is unique.
LEMMA CurrentUnique ==
  ASSUME NEW w \in Worker, NEW d \in Event, NEW e \in Event,
         IsCurrent(w, d), IsCurrent(w, e)
  PROVE  d = e
  BY EventPartition DEF IsCurrent, Batch

\* Temporal never forgets an effect.
LEMMA EffectApplies ==
  ASSUME TypeOK, NEW e \in Event, Effect(e)
  PROVE  /\ Applied(e)'
         /\ \A d \in Event : d # e => (Applied(d)' <=> Applied(d))
         /\ Applied(e) => \A d \in Event : Applied(d)' <=> Applied(d)
  BY EventPartition DEF Effect, TypeOK, temporalVars, StartsRun, Applied

LEMMA EffectRuns ==
  ASSUME TypeOK, RunsMatchWorkflow, NEW e \in Event, Effect(e)
  PROVE  RunsMatchWorkflow'
  BY DEF Effect, TypeOK, temporalVars, StartsRun, RunsMatchWorkflow

\* IInv speaks of these variables only; a step that leaves them alone keeps it.
LEMMA IInvStutters ==
  ASSUME IInv,
         UNCHANGED <<row, claim, held, phase, workflow, runs, signals>>
  PROVE  IInv'
  BY DEF IInv, ClaimsArePending, BatchesAreRows, AckFollowsEffect, IsCurrent,
         Batch, RunsMatchWorkflow, AppliedAreRows, DeliveredWasApplied,
         TokenExclusive, Applied

\* The inductive invariant of the outbox.
LEMMA InvariantHolds == Spec => []IInv
  <1> USE DEF tableVars, temporalVars
  <1>1. Init => IInv
    BY DEF Init, IInv, ClaimsArePending, BatchesAreRows, AckFollowsEffect,
           RunsMatchWorkflow, AppliedAreRows, DeliveredWasApplied,
           TokenExclusive, Applied
  <1>2. TypeOK /\ TypeOK' /\ IInv /\ [Next]_vars => IInv'
    <2> SUFFICES ASSUME TypeOK, TypeOK', IInv, [Next]_vars PROVE IInv'
      OBVIOUS
    <2>1. ASSUME NEW w \in Worker, ClaimBatch(w) PROVE IInv'
      <3> DEFINE batch == Lowest(Claimable, BatchLimit)
      <3>1. PICK token \in [batch -> Token] :
              /\ \A e \in batch : Fresh(token[e], e)
              /\ claim' = [e \in Event |-> IF e \in batch THEN token[e] ELSE claim[e]]
              /\ held' = [held EXCEPT ![w] =
                            [e \in Event |-> IF e \in batch THEN token[e] ELSE NoToken]]
        BY <2>1 DEF ClaimBatch
      <3>2. /\ phase' = [phase EXCEPT ![w] = "publish"]
            /\ UNCHANGED <<row, workflow, runs, signals>>
        BY <2>1 DEF ClaimBatch
      <3>3. \A e \in batch : row[e] = "pending"
        BY DEF Lowest, Claimable
      <3> HIDE DEF batch
      <3>4. ClaimsArePending'
        BY <3>1, <3>2, <3>3 DEF IInv, ClaimsArePending
      <3>5. BatchesAreRows'
        BY <3>1, <3>2, <3>3 DEF IInv, BatchesAreRows, TypeOK
      <3>6. AckFollowsEffect'
        BY <3>1, <3>2 DEF IInv, AckFollowsEffect, IsCurrent, Batch, Applied, TypeOK
      <3>7. TokenExclusive'
        <4> SUFFICES ASSUME NEW e \in Event, NEW u \in Worker, NEW v \in Worker,
                            u # v, held'[u][e] # NoToken
                     PROVE  held'[u][e] # held'[v][e]
          BY DEF TokenExclusive
        <4>1. CASE u = w
          BY <4>1, <3>1 DEF TypeOK, Fresh
        <4>2. CASE v = w
          BY <4>2, <3>1 DEF TypeOK, Fresh
        <4>3. CASE u # w /\ v # w
          BY <4>3, <3>1 DEF TypeOK, IInv, TokenExclusive
        <4> QED BY <4>1, <4>2, <4>3
      <3> QED
        BY <3>2, <3>4, <3>5, <3>6, <3>7
        DEF IInv, RunsMatchWorkflow, AppliedAreRows, DeliveredWasApplied, Applied
    <2>2. ASSUME NEW w \in Worker, NEW e \in Event, IsCurrent(w, e), Effect(e),
                 phase[w] = "publish",
                 phase' \in {[phase EXCEPT ![w] = "ack"], [phase EXCEPT ![w] = "fail"]},
                 UNCHANGED <<row, claim, held>>
          PROVE  IInv'
      <3>1. /\ Applied(e)'
            /\ \A d \in Event : Applied(d) => Applied(d)'
        BY <2>2, EffectApplies
      <3>2. AckFollowsEffect'
        <4> SUFFICES ASSUME NEW v \in Worker, NEW d \in Event,
                            phase'[v] = "ack", IsCurrent(v, d)'
                     PROVE  Applied(d)'
          BY DEF AckFollowsEffect
        <4>1. IsCurrent(v, d)
          BY <2>2 DEF IsCurrent, Batch
        <4>2. CASE v = w
          BY <4>1, <4>2, <2>2, <3>1, CurrentUnique
        <4>3. CASE v # w
          BY <4>1, <4>3, <2>2, <3>1 DEF IInv, AckFollowsEffect, TypeOK
        <4> QED BY <4>2, <4>3
      <3>3. row[e] # "absent"
        BY <2>2 DEF IsCurrent, Batch, IInv, BatchesAreRows
      <3>4. AppliedAreRows'
        BY <2>2, <3>3, EffectApplies DEF IInv, AppliedAreRows
      <3>5. DeliveredWasApplied'
        BY <2>2, <3>1 DEF IInv, DeliveredWasApplied
      <3>6. RunsMatchWorkflow'
        BY <2>2, EffectRuns DEF IInv
      <3> QED
        BY <2>2, <3>2, <3>4, <3>5, <3>6
        DEF IInv, ClaimsArePending, BatchesAreRows, TokenExclusive
    <2>3. ASSUME NEW w \in Worker, Publish(w) PROVE IInv'
      BY <2>2, <2>3 DEF Publish
    <2>4. ASSUME NEW w \in Worker, phase[w] # "ack",
                 phase' = [phase EXCEPT ![w] = "fail"],
                 UNCHANGED <<row, claim, held, workflow, runs, signals>>
          PROVE  IInv'
      <3>1. AckFollowsEffect'
        BY <2>4 DEF IInv, AckFollowsEffect, IsCurrent, Batch, Applied, TypeOK
      <3> QED
        BY <2>4, <3>1
        DEF IInv, ClaimsArePending, BatchesAreRows, RunsMatchWorkflow,
            AppliedAreRows, DeliveredWasApplied, TokenExclusive, Applied
    <2>5. ASSUME NEW w \in Worker, PublishRejected(w) PROVE IInv'
      BY <2>4, <2>5 DEF PublishRejected
    <2>6. ASSUME NEW w \in Worker, PublishError(w) PROVE IInv'
      BY <2>2, <2>4, <2>6 DEF PublishError
    <2>7. ASSUME NEW w \in Worker, NEW e \in Event,
                 IsCurrent(w, e), OwnsClaim(w, e), NextRow(w, e),
                 claim' = [claim EXCEPT ![e] = NoToken],
                 \/ row' = row
                 \/ phase[w] = "ack" /\ row' = [row EXCEPT ![e] = "delivered"],
                 UNCHANGED <<workflow, runs, signals>>
          PROVE  IInv'
      <3>1. \A v \in Worker, d \in Event : held'[v][d] \in {held[v][d], NoToken}
        BY <2>7 DEF NextRow, TypeOK
      <3>2. ClaimsArePending'
        BY <2>7 DEF IInv, ClaimsArePending, TypeOK
      <3>3. BatchesAreRows'
        BY <2>7, <3>1 DEF IInv, BatchesAreRows, TypeOK
      <3>4. AckFollowsEffect'
        <4> SUFFICES ASSUME NEW v \in Worker, NEW d \in Event,
                            phase'[v] = "ack", IsCurrent(v, d)'
                     PROVE  Applied(d)'
          BY DEF AckFollowsEffect
        <4>1. v # w
          BY <2>7 DEF NextRow, TypeOK
        <4>2. phase[v] = "ack" /\ IsCurrent(v, d)
          BY <2>7, <4>1 DEF NextRow, TypeOK, IsCurrent, Batch
        <4> QED BY <2>7, <4>2 DEF IInv, AckFollowsEffect, Applied
      <3>5. TokenExclusive'
        BY <3>1 DEF IInv, TokenExclusive
      <3>6. DeliveredWasApplied'
        BY <2>7 DEF IInv, DeliveredWasApplied, AckFollowsEffect, Applied, TypeOK
      <3>7. AppliedAreRows' /\ RunsMatchWorkflow'
        BY <2>7 DEF IInv, AppliedAreRows, RunsMatchWorkflow, Applied, TypeOK
      <3> QED BY <3>2, <3>3, <3>4, <3>5, <3>6, <3>7 DEF IInv
    <2>8. ASSUME NEW w \in Worker, Ack(w) PROVE IInv'
      BY <2>7, <2>8 DEF Ack
    <2>9. ASSUME NEW w \in Worker, Fail(w) PROVE IInv'
      BY <2>7, <2>9 DEF Fail
    <2>10. ASSUME NEW w \in Worker, AbandonBatch(w),
                  UNCHANGED <<row, claim, workflow, runs, signals>>
           PROVE  IInv'
      <3>1. \A v \in Worker, d \in Event : held'[v][d] \in {held[v][d], NoToken}
        BY <2>10 DEF AbandonBatch, NoBatch, TypeOK
      <3>2. AckFollowsEffect'
        BY <2>10 DEF AbandonBatch, NoBatch, TypeOK, IInv, AckFollowsEffect,
                     IsCurrent, Batch, Applied
      <3>3. TokenExclusive' /\ BatchesAreRows'
        BY <2>10, <3>1 DEF IInv, TokenExclusive, BatchesAreRows
      <3> QED
        BY <2>10, <3>2, <3>3
        DEF IInv, ClaimsArePending, RunsMatchWorkflow, AppliedAreRows,
            DeliveredWasApplied, Applied
    <2>11. ASSUME NEW w \in Worker, ClaimDrift(w) PROVE IInv'
      BY <2>10, <2>11 DEF ClaimDrift
    <2>12. ASSUME NEW w \in Worker, Crash(w) PROVE IInv'
      BY <2>10, <2>12 DEF Crash
    <2>13. ASSUME NEW e \in Event, AppendOutbox(e) PROVE IInv'
      <3>1. /\ row[e] = "absent"
            /\ row' = [row EXCEPT ![e] = "pending"]
            /\ UNCHANGED <<claim, held, phase, workflow, runs, signals>>
        BY <2>13 DEF AppendOutbox
      <3> QED
        BY <3>1
        DEF IInv, ClaimsArePending, BatchesAreRows, AckFollowsEffect, IsCurrent,
            Batch, RunsMatchWorkflow, AppliedAreRows, DeliveredWasApplied,
            TokenExclusive, Applied, TypeOK
    <2>14. ASSUME NEW e \in Event, RetryDelayElapses(e) PROVE IInv'
      BY <2>14, IInvStutters DEF RetryDelayElapses
    <2>15. ASSUME NEW e \in Event, ClaimExpires(e) PROVE IInv'
      BY <2>15, IInvStutters DEF ClaimExpires
    <2>16. ASSUME NEW c \in StartEvent, WorkflowCloses(c) PROVE IInv'
      <3>1. \A e \in Event : Applied(e)' <=> Applied(e)
        BY <2>16 DEF WorkflowCloses, Applied, TypeOK
      <3>2. RunsMatchWorkflow'
        BY <2>16 DEF WorkflowCloses, IInv, RunsMatchWorkflow, TypeOK
      <3> QED
        BY <2>16, <3>1, <3>2
        DEF WorkflowCloses, IInv, ClaimsArePending, BatchesAreRows,
            AckFollowsEffect, IsCurrent, Batch, AppliedAreRows,
            DeliveredWasApplied, TokenExclusive
    <2>17. CASE UNCHANGED vars
      BY <2>17, IInvStutters DEF vars
    <2> QED
      BY <2>1, <2>3, <2>5, <2>6, <2>8, <2>9, <2>11, <2>12, <2>13,
         <2>14, <2>15, <2>16, <2>17
      DEF Next, DispatchOnce
  <1> QED BY <1>1, <1>2, TypeCorrect, PTL DEF Spec

-----------------------------------------------------------------------------
\* No row is marked delivered before Temporal saw its effect.
THEOREM DeliveryFollowsEffect == Spec => []DeliveredWasApplied
  BY InvariantHolds, PTL DEF IInv

\* However often a start event is published, it creates at most one run.
THEOREM AtMostOneRun == Spec => []OneRunPerCommand
  <1>1. TypeOK /\ IInv => OneRunPerCommand
    BY DEF IInv, RunsMatchWorkflow, OneRunPerCommand
  <1> QED BY <1>1, TypeCorrect, InvariantHolds, PTL

\* The steps that change a claim or a row, and what they change.
LEMMA ClaimChanges ==
  ASSUME TypeOK, IInv, [Next]_vars, NEW e \in Event
  PROVE  \/ UNCHANGED <<row, claim>>
         \/ /\ row[e] = "absent"
            /\ row'[e] = "pending" /\ claim' = claim
         \/ claim'[e] = claim[e] /\ row'[e] = row[e]
         \/ /\ row[e] = "pending" /\ row'[e] = row[e]
            /\ claim[e] = NoToken \/ expired[e]
         \/ \E w \in Worker :
              /\ row[e] = "pending" /\ row'[e] \in {"pending", "delivered"}
              /\ held[w][e] = claim[e] /\ held'[w][e] = NoToken
              /\ claim'[e] = NoToken
  <1> USE DEF tableVars
  <1>1. ASSUME NEW w \in Worker, ClaimBatch(w)
        PROVE  /\ row' = row
               /\ \/ claim'[e] = claim[e]
                  \/ row[e] = "pending" /\ (claim[e] = NoToken \/ expired[e])
    BY <1>1, BatchIsClaimable DEF ClaimBatch, Claimable, TypeOK
  <1>2. ASSUME NEW w \in Worker, Ack(w) \/ Fail(w)
        PROVE  \/ claim'[e] = claim[e] /\ row'[e] = row[e]
               \/ /\ row[e] = "pending" /\ row'[e] \in {"pending", "delivered"}
                  /\ held[w][e] = claim[e] /\ held'[w][e] = NoToken
                  /\ claim'[e] = NoToken
    BY <1>2 DEF Ack, Fail, OwnsClaim, NextRow, TypeOK
  <1>3. ASSUME NEW d \in Event, AppendOutbox(d)
        PROVE  /\ claim' = claim
               /\ row'[e] = row[e] \/ (row[e] = "absent" /\ row'[e] = "pending")
    BY <1>3 DEF AppendOutbox, TypeOK
  <1>4. ASSUME NEW w \in Worker,
               \/ Publish(w) \/ PublishRejected(w) \/ PublishError(w)
               \/ ClaimDrift(w) \/ Crash(w)
        PROVE  UNCHANGED <<row, claim>>
    BY <1>4 DEF Publish, PublishRejected, PublishError, ClaimDrift, Crash
  <1>5. ASSUME NEW d \in Event, RetryDelayElapses(d) \/ ClaimExpires(d)
        PROVE  UNCHANGED <<row, claim>>
    BY <1>5 DEF RetryDelayElapses, ClaimExpires
  <1>6. ASSUME NEW c \in StartEvent, WorkflowCloses(c)
        PROVE  UNCHANGED <<row, claim>>
    BY <1>6 DEF WorkflowCloses
  <1>7. CASE UNCHANGED vars
    BY <1>7 DEF vars
  <1>8. CASE \E w \in Worker : DispatchOnce(w)
    BY <1>8, <1>1, <1>2, <1>4 DEF DispatchOnce
  <1>9. CASE \E d \in Event : AppendOutbox(d) \/ RetryDelayElapses(d) \/ ClaimExpires(d)
    BY <1>9, <1>3, <1>5
  <1> QED BY <1>6, <1>7, <1>8, <1>9 DEF Next

\* Only the worker that made a live claim ends it.
THEOREM LiveClaimsHold == Spec => LiveClaimIsRespected
  <1>1. TypeOK /\ IInv /\ [Next]_vars =>
          [\A e \in Event :
             (claim[e] # NoToken /\ ~expired[e] /\ claim'[e] # claim[e])
               => \E w \in Worker : held[w][e] = claim[e] /\ held'[w][e] = NoToken]_vars
    <2> SUFFICES ASSUME TypeOK, IInv, [Next]_vars, NEW e \in Event,
                        claim[e] # NoToken, ~expired[e], claim'[e] # claim[e]
                 PROVE  \E w \in Worker : held[w][e] = claim[e] /\ held'[w][e] = NoToken
      OBVIOUS
    <2> QED BY ClaimChanges
  <1> QED BY <1>1, TypeCorrect, InvariantHolds, PTL DEF Spec, LiveClaimIsRespected

\* Delivery of a row is final.
THEOREM DeliveryIsFinal == Spec => DeliveredIsFinal
  <1>1. TypeOK /\ IInv /\ [Next]_vars =>
          [\A e \in Event : row[e] = "delivered" =>
              row'[e] = "delivered" /\ claim'[e] = NoToken]_vars
    <2> SUFFICES ASSUME TypeOK, IInv, [Next]_vars, NEW e \in Event,
                        row[e] = "delivered"
                 PROVE  row'[e] = "delivered" /\ claim'[e] = NoToken
      OBVIOUS
    <2>1. claim[e] = NoToken
      BY DEF IInv, ClaimsArePending
    <2> QED BY <2>1, ClaimChanges
  <1> QED BY <1>1, TypeCorrect, InvariantHolds, PTL DEF Spec, DeliveredIsFinal

-----------------------------------------------------------------------------
(* Duplicates.  A worker that holds a row and has not published it yet may *)
(* do so once; so may one more worker if the row is free to be claimed.    *)
(* Without a fault one of these falls to zero when the other rises.        *)

Publishers(e) ==
  {w \in Worker : held[w][e] # NoToken /\ ~(phase[w] = "ack" /\ IsCurrent(w, e))}

\* A row is free unless it is delivered or under a live claim that is held.
Free(e) ==
  IF row[e] = "delivered" \/ (claim[e] # NoToken /\ ~expired[e] /\ Holder(e) # {})
  THEN 0 ELSE 1

Paid(e) ==
  /\ IsFiniteSet(Publishers(e))
  /\ signals[e] + Cardinality(Publishers(e)) + Free(e) <= 1 + faults

IdleHoldsNothing ==
  \A w \in Worker, e \in Event : phase[w] = "idle" => held[w][e] = NoToken

SignalsPaid == IdleHoldsNothing /\ \A e \in SignalEvent : Paid(e)

\* Nothing that counts changes, or a fault pays for one more.
LEMMA PaidFrame ==
  ASSUME TypeOK, TypeOK', NEW e \in SignalEvent, Paid(e),
         Publishers(e)' \subseteq Publishers(e),
         \/ signals'[e] = signals[e] /\ Free(e)' <= Free(e) /\ faults' = faults
         \/ signals'[e] = signals[e] /\ faults' = faults + 1
         \/ signals'[e] = signals[e] + 1 /\ Free(e)' <= Free(e) /\ faults' = faults + 1
  PROVE  Paid(e)'
  <1>1. /\ IsFiniteSet(Publishers(e)')
        /\ Cardinality(Publishers(e)') <= Cardinality(Publishers(e))
    BY FS_Subset DEF Paid
  <1>2. Cardinality(Publishers(e)) \in Nat /\ Cardinality(Publishers(e)') \in Nat
    BY <1>1, FS_CardinalityType DEF Paid
  <1>3. Free(e) \in 0 .. 1 /\ Free(e)' \in 0 .. 1
    BY DEF Free
  <1>4. signals[e] \in Nat /\ signals'[e] \in Nat /\ faults \in Nat /\ faults' \in Nat
    BY DEF TypeOK
  <1> QED BY <1>1, <1>2, <1>3, <1>4 DEF Paid

\* A worker that may no longer publish frees the row or has published it.
LEMMA PublisherLeaves ==
  ASSUME TypeOK, TypeOK', NEW e \in SignalEvent, Paid(e),
         NEW w \in Publishers(e), Publishers(e)' = Publishers(e) \ {w},
         faults' = faults,
         \/ signals'[e] = signals[e]
         \/ signals'[e] = signals[e] + 1 /\ Free(e)' <= Free(e)
  PROVE  Paid(e)'
  <1>1. /\ IsFiniteSet(Publishers(e)')
        /\ Cardinality(Publishers(e)') = Cardinality(Publishers(e)) - 1
    BY FS_RemoveElement DEF Paid
  <1>2. Cardinality(Publishers(e)) \in Nat
    BY FS_CardinalityType DEF Paid
  <1>3. Free(e) \in 0 .. 1 /\ Free(e)' \in 0 .. 1
    BY DEF Free
  <1>4. signals[e] \in Nat /\ signals'[e] \in Nat /\ faults \in Nat
    BY DEF TypeOK
  <1> QED BY <1>1, <1>2, <1>3, <1>4 DEF Paid

\* A claim of a free row.
LEMMA PublisherJoins ==
  ASSUME TypeOK, NEW e \in SignalEvent, Paid(e),
         NEW w \in Worker, Publishers(e)' = Publishers(e) \cup {w},
         Free(e) = 1, Free(e)' = 0, signals' = signals, faults' = faults
  PROVE  Paid(e)'
  <1> DEFINE P == Publishers(e)
  <1>1. IsFiniteSet(P) /\ Cardinality(P) \in Nat
    BY FS_CardinalityType DEF Paid
  <1>2. IsFiniteSet(P') /\ Cardinality(P') = IF w \in P THEN Cardinality(P)
                                                        ELSE Cardinality(P) + 1
    <2>1. P' = P \cup {w}
      OBVIOUS
    <2> HIDE DEF P
    <2> QED BY <1>1, <2>1, FS_AddElement
  <1>3. signals[e] \in Nat /\ faults \in Nat
    BY DEF TypeOK
  <1> QED BY <1>1, <1>2, <1>3 DEF Paid

LEMMA ClaimIsPaid ==
  ASSUME TypeOK, TypeOK', SignalsPaid, NEW w \in Worker, ClaimBatch(w),
         NEW e \in SignalEvent
  PROVE  Paid(e)'
  <1> DEFINE batch == Lowest(Claimable, BatchLimit)
  <1>1. PICK token \in [batch -> Token] :
          /\ \A d \in batch : Fresh(token[d], d)
          /\ claim' = [d \in Event |-> IF d \in batch THEN token[d] ELSE claim[d]]
          /\ held' = [held EXCEPT ![w] =
                        [d \in Event |-> IF d \in batch THEN token[d] ELSE NoToken]]
          /\ expired' = [d \in Event |-> expired[d] /\ d \notin batch]
    BY DEF ClaimBatch
  <1>2. /\ phase[w] = "idle" /\ phase' = [phase EXCEPT ![w] = "publish"]
        /\ UNCHANGED <<row, signals, faults>>
    BY DEF ClaimBatch, temporalVars
  <1>3. e \in Event /\ held[w][e] = NoToken /\ Paid(e)
    BY <1>2, EventPartition DEF SignalsPaid, IdleHoldsNothing
  <1>4. e \in batch => Free(e) = 1
    BY DEF Lowest, Claimable, Free
  <1>5. \A v \in Worker \ {w} : held'[v] = held[v] /\ phase'[v] = phase[v]
    BY <1>1, <1>2 DEF TypeOK
  <1> HIDE DEF batch
  <1>6. \A v \in Worker \ {w} : v \in Publishers(e)' <=> v \in Publishers(e)
    BY <1>5 DEF Publishers, IsCurrent, Batch
  <1>7. w \notin Publishers(e)
    BY <1>3 DEF Publishers
  <1>8. CASE e \in batch
    <2>1. held'[w][e] = token[e] /\ claim'[e] = token[e] /\ ~expired'[e]
      BY <1>1, <1>3, <1>8 DEF TypeOK
    <2>2. token[e] # NoToken
      BY <1>1, <1>8, EventPartition
    <2>3. w \in Publishers(e)'
      BY <1>2, <2>1, <2>2 DEF Publishers, TypeOK
    <2>4. Free(e)' = 0
      BY <2>1, <2>2 DEF Free, Holder
    <2>5. Publishers(e)' = Publishers(e) \cup {w}
      BY <1>6, <2>3 DEF Publishers
    <2> QED BY <1>2, <1>3, <1>4, <1>8, <2>4, <2>5, PublisherJoins
  <1>9. CASE e \notin batch
    <2>1. held'[w][e] = NoToken /\ claim'[e] = claim[e] /\ expired'[e] = expired[e]
      BY <1>1, <1>3, <1>9 DEF TypeOK
    <2>2. w \notin Publishers(e)'
      BY <2>1 DEF Publishers
    <2>3. Publishers(e)' \subseteq Publishers(e)
      BY <1>6, <2>2 DEF Publishers
    <2>4. Holder(e)' = Holder(e)
      BY <1>3, <1>5, <2>1 DEF Holder
    <2>5. Free(e)' <= Free(e)
      BY <1>2, <2>1, <2>4 DEF Free
    <2> QED BY <1>2, <1>3, <2>3, <2>5, PaidFrame
  <1> QED BY <1>8, <1>9

\* A step of a worker from one place in its loop to another, with its batch.
LEMMA PhaseFrame ==
  ASSUME TypeOK, NEW e \in SignalEvent, NEW w \in Worker,
         NEW place, phase' = [phase EXCEPT ![w] = place],
         UNCHANGED <<row, claim, expired, held>>
  PROVE  /\ Free(e)' = Free(e)
         /\ \A v \in Worker \ {w} : v \in Publishers(e)' <=> v \in Publishers(e)
         /\ phase[w] # "ack" => Publishers(e)' \subseteq Publishers(e)
  BY DEF Free, Holder, Publishers, IsCurrent, Batch, TypeOK

LEMMA PublishIsPaid ==
  ASSUME TypeOK, TypeOK', SignalsPaid, NEW w \in Worker, NEW e \in SignalEvent,
         Publish(w) \/ PublishRejected(w) \/ PublishError(w)
  PROVE  Paid(e)'
  <1> USE DEF tableVars, temporalVars
  <1>0. Paid(e) /\ e \in Event
    BY EventPartition DEF SignalsPaid
  <1>1. CASE Publish(w)
    <2>1. PICK d \in Event : IsCurrent(w, d) /\ Effect(d)
      BY <1>1 DEF Publish
    <2>2. /\ phase[w] = "publish" /\ phase' = [phase EXCEPT ![w] = "ack"]
          /\ UNCHANGED <<row, claim, expired, held, faults>>
      BY <1>1 DEF Publish
    <2>3. /\ Free(e)' = Free(e)
          /\ \A v \in Worker \ {w} : v \in Publishers(e)' <=> v \in Publishers(e)
          /\ Publishers(e)' \subseteq Publishers(e)
      BY <2>2, PhaseFrame
    <2>4. CASE d = e
      <3>1. w \in Publishers(e)
        BY <2>1, <2>2, <2>4 DEF Publishers, IsCurrent, Batch
      <3>2. w \notin Publishers(e)'
        BY <2>1, <2>2, <2>4 DEF Publishers, IsCurrent, Batch, TypeOK
      <3>3. Publishers(e)' = Publishers(e) \ {w}
        BY <2>3, <3>2 DEF Publishers
      <3>4. signals'[e] = signals[e] + 1
        BY <2>1, <2>4, EventPartition DEF Effect, StartsRun, TypeOK
      <3>5. Free(e)' <= Free(e)
        BY <2>3 DEF Free
      <3> QED BY <1>0, <2>2, <3>1, <3>3, <3>4, <3>5, PublisherLeaves
    <2>5. CASE d # e
      <3>1. signals'[e] = signals[e]
        BY <2>1, <2>5 DEF Effect, TypeOK
      <3>2. Free(e)' <= Free(e)
        BY <2>3 DEF Free
      <3> QED BY <1>0, <2>2, <2>3, <3>1, <3>2, PaidFrame
    <2> QED BY <2>4, <2>5
  <1>2. CASE PublishRejected(w)
    <2>1. /\ Free(e)' = Free(e) /\ Publishers(e)' \subseteq Publishers(e)
      BY <1>2, PhaseFrame DEF PublishRejected
    <2>2. Free(e)' <= Free(e)
      BY <2>1 DEF Free
    <2> QED BY <1>0, <1>2, <2>1, <2>2, PaidFrame DEF PublishRejected
  <1>3. CASE PublishError(w)
    <2>1. /\ Free(e)' = Free(e) /\ Publishers(e)' \subseteq Publishers(e)
      BY <1>3, PhaseFrame DEF PublishError
    <2>2. Free(e)' <= Free(e)
      BY <2>1 DEF Free
    <2>3. signals'[e] = signals[e] \/ signals'[e] = signals[e] + 1
      BY <1>3 DEF PublishError, Effect, TypeOK
    <2> QED BY <1>0, <1>3, <2>1, <2>2, <2>3, PaidFrame DEF PublishError, Fault
  <1> QED BY <1>1, <1>2, <1>3

\* Ack and Fail of a row: the worker's other rows stay as they are.
LEMMA SettleIsPaid ==
  ASSUME TypeOK, TypeOK', IInv, SignalsPaid, NEW w \in Worker, NEW e \in SignalEvent,
         Ack(w) \/ Fail(w)
  PROVE  Paid(e)'
  <1> USE DEF tableVars, temporalVars
  <1>0. Paid(e) /\ e \in Event
    BY EventPartition DEF SignalsPaid
  <1>1. PICK d \in Event :
          /\ IsCurrent(w, d) /\ OwnsClaim(w, d) /\ NextRow(w, d)
          /\ claim' = [claim EXCEPT ![d] = NoToken]
          /\ expired' = [expired EXCEPT ![d] = FALSE]
          /\ \/ phase[w] = "ack" /\ row' = [row EXCEPT ![d] = "delivered"]
             \/ phase[w] = "fail" /\ row' = row
    BY DEF Ack, Fail
  <1>2. UNCHANGED <<signals, faults>>
    BY DEF Ack, Fail
  <1>3. \A v \in Worker \ {w} : held'[v] = held[v] /\ phase'[v] = phase[v]
    BY <1>1 DEF NextRow, TypeOK
  <1>4. \A v \in Worker \ {w} : v \in Publishers(e)' <=> v \in Publishers(e)
    BY <1>3 DEF Publishers, IsCurrent, Batch
  <1>5. CASE d = e
    <2>1. held'[w][e] = NoToken
      BY <1>1, <1>5 DEF NextRow, TypeOK
    <2>2. w \notin Publishers(e)'
      BY <2>1 DEF Publishers
    <2>3. CASE phase[w] = "ack"
      <3>1. Free(e)' <= Free(e)
        BY <1>0, <1>1, <1>5, <2>3 DEF Free, TypeOK
      <3>2. Publishers(e)' \subseteq Publishers(e)
        BY <1>4, <2>2 DEF Publishers
      <3> QED BY <1>0, <1>2, <3>1, <3>2, PaidFrame
    <2>4. CASE phase[w] = "fail"
      <3>1. w \in Publishers(e)
        BY <1>1, <1>5, <2>4 DEF Publishers, IsCurrent, Batch
      <3>2. Publishers(e)' = Publishers(e) \ {w}
        BY <1>4, <2>2 DEF Publishers
      <3> QED BY <1>0, <1>2, <3>1, <3>2, PublisherLeaves
    <2> QED BY <1>1, <2>3, <2>4
  <1>6. CASE d # e
    <2>0. held'[w][e] = held[w][e]
      BY <1>0, <1>1, <1>6 DEF NextRow, TypeOK
    <2>1. row'[e] = row[e] /\ claim'[e] = claim[e] /\ expired'[e] = expired[e]
      BY <1>0, <1>1, <1>6 DEF TypeOK
    <2>2. held[w][e] # NoToken => w \in Publishers(e)
      BY <1>1, <1>6, CurrentUnique, EventPartition DEF Publishers
    <2>3. Publishers(e)' \subseteq Publishers(e)
      BY <1>4, <2>0, <2>2 DEF Publishers
    <2>4. Holder(e)' = Holder(e)
      BY <1>3, <2>0, <2>1 DEF Holder
    <2>5. Free(e)' <= Free(e)
      BY <2>1, <2>4 DEF Free
    <2> QED BY <1>0, <1>2, <2>3, <2>5, PaidFrame
  <1> QED BY <1>5, <1>6

\* A worker that gives its batch up: by a fault, or because its current row
\* is no longer its own.
LEMMA AbandonIsPaid ==
  ASSUME TypeOK, TypeOK', IInv, SignalsPaid, NEW w \in Worker, NEW e \in SignalEvent,
         ClaimDrift(w) \/ Crash(w)
  PROVE  Paid(e)'
  <1> USE DEF tableVars, temporalVars
  <1>0. Paid(e) /\ e \in Event
    BY EventPartition DEF SignalsPaid
  <1>1. /\ AbandonBatch(w) /\ UNCHANGED <<row, claim, expired, signals>>
    BY DEF ClaimDrift, Crash
  <1>2. /\ \A v \in Worker \ {w} : held'[v] = held[v] /\ phase'[v] = phase[v]
        /\ held'[w][e] = NoToken
    BY <1>0, <1>1 DEF AbandonBatch, NoBatch, TypeOK
  <1>3. /\ \A v \in Worker \ {w} : v \in Publishers(e)' <=> v \in Publishers(e)
        /\ w \notin Publishers(e)'
    BY <1>2 DEF Publishers, IsCurrent, Batch
  <1>4. Publishers(e)' \subseteq Publishers(e) /\ Publishers(e)' = Publishers(e) \ {w}
    BY <1>3 DEF Publishers
  <1>5. CASE Crash(w)
    BY <1>0, <1>1, <1>4, <1>5, PaidFrame DEF Crash, Fault
  <1>6. CASE ClaimDrift(w)
    <2>1. PICK d \in Event : IsCurrent(w, d) /\ ~OwnsClaim(w, d)
      BY <1>6 DEF ClaimDrift
    <2>2. faults' = faults
      BY <1>6 DEF ClaimDrift
    <2>3. CASE w \in Publishers(e)
      BY <1>0, <1>1, <1>4, <2>2, <2>3, PublisherLeaves
    <2>4. CASE w \notin Publishers(e)
      <3>1. claim[e] # NoToken => held[w][e] # claim[e]
        <4>1. CASE held[w][e] = NoToken
          BY <4>1
        <4>2. CASE held[w][e] # NoToken
          <5>1. d = e
            BY <1>0, <2>1, <2>4, <4>2, CurrentUnique DEF Publishers
          <5> QED BY <1>0, <2>1, <5>1 DEF OwnsClaim, IInv, ClaimsArePending
        <4> QED BY <4>1, <4>2
      <3>2. claim[e] # NoToken => Holder(e)' = Holder(e)
        BY <1>1, <1>2, <3>1 DEF Holder
      <3>3. Free(e)' <= Free(e)
        BY <1>1, <3>2 DEF Free
      <3> QED BY <1>0, <1>1, <1>4, <2>2, <3>3, PaidFrame
    <2> QED BY <2>3, <2>4
  <1> QED BY <1>5, <1>6

\* The table and Temporal on their own.
LEMMA WorldIsPaid ==
  ASSUME TypeOK, TypeOK', SignalsPaid, NEW e \in SignalEvent,
         \/ \E d \in Event : AppendOutbox(d) \/ RetryDelayElapses(d) \/ ClaimExpires(d)
         \/ \E c \in StartEvent : WorkflowCloses(c)
         \/ UNCHANGED vars
  PROVE  Paid(e)'
  <1> USE DEF tableVars, temporalVars
  <1>0. Paid(e) /\ e \in Event
    BY EventPartition DEF SignalsPaid
  <1>1. UNCHANGED <<held, phase, claim, signals>>
    BY DEF AppendOutbox, RetryDelayElapses, ClaimExpires, WorkflowCloses, vars
  <1>2. Publishers(e)' = Publishers(e) /\ Holder(e)' = Holder(e)
    BY <1>1 DEF Publishers, IsCurrent, Batch, Holder
  <1>3. row'[e] = row[e] \/ (row[e] = "absent" /\ row'[e] = "pending")
    BY <1>0 DEF AppendOutbox, RetryDelayElapses, ClaimExpires, WorkflowCloses, vars, TypeOK
  <1>4. CASE expired'[e] = expired[e]
    <2>1. Free(e)' <= Free(e)
      BY <1>1, <1>2, <1>3, <1>4 DEF Free
    <2>2. faults' = faults \/ faults' = faults + 1
      BY DEF AppendOutbox, RetryDelayElapses, ClaimExpires, WorkflowCloses, vars, Fault
    <2> QED BY <1>0, <1>1, <1>2, <2>1, <2>2, PaidFrame
  <1>5. CASE expired'[e] # expired[e]
    <2>1. /\ ClaimExpires(e) /\ claim[e] # NoToken
      BY <1>0, <1>5
         DEF AppendOutbox, RetryDelayElapses, ClaimExpires, WorkflowCloses, vars, TypeOK
    <2>2. CASE Holder(e) = {}
      <3>1. Free(e)' <= Free(e)
        BY <1>1, <1>2, <1>3, <2>2 DEF Free
      <3> QED BY <1>0, <1>1, <1>2, <2>1, <2>2, <3>1, PaidFrame DEF ClaimExpires
    <2>3. CASE Holder(e) # {}
      BY <1>0, <1>1, <1>2, <2>1, <2>3, PaidFrame DEF ClaimExpires, Fault
    <2> QED BY <2>2, <2>3
  <1> QED BY <1>4, <1>5

LEMMA IdleStep ==
  TypeOK /\ IdleHoldsNothing /\ [Next]_vars => IdleHoldsNothing'
  <1> SUFFICES ASSUME TypeOK, IdleHoldsNothing, [Next]_vars,
                      NEW v \in Worker, NEW e \in Event, phase'[v] = "idle"
               PROVE  held'[v][e] = NoToken
    BY DEF IdleHoldsNothing
  <1>1. CASE phase'[v] = phase[v] /\ held'[v] = held[v]
    BY <1>1 DEF IdleHoldsNothing
  <1>2. ASSUME NEW w \in Worker, DispatchOnce(w)
        PROVE  (phase'[v] = phase[v] /\ held'[v] = held[v]) \/ held'[v][e] = NoToken
    <2>1. CASE v # w
      BY <1>2, <2>1
         DEF DispatchOnce, ClaimBatch, Publish, PublishRejected, PublishError, Ack, Fail,
             ClaimDrift, Crash, NextRow, AbandonBatch, TypeOK
    <2>2. CASE v = w
      <3>1. CASE Ack(w) \/ Fail(w)
        <4>1. PICK d \in Event : NextRow(w, d)
          BY <3>1 DEF Ack, Fail
        <4>2. Batch(w) = {d}
          BY <2>2, <4>1 DEF NextRow, TypeOK
        <4> QED BY <2>2, <4>1, <4>2 DEF NextRow, Batch, TypeOK
      <3>2. CASE ClaimDrift(w) \/ Crash(w)
        BY <2>2, <3>2 DEF ClaimDrift, Crash, AbandonBatch, NoBatch, TypeOK
      <3>3. CASE ClaimBatch(w) \/ Publish(w) \/ PublishRejected(w) \/ PublishError(w)
        BY <2>2, <3>3 DEF ClaimBatch, Publish, PublishRejected, PublishError, TypeOK
      <3> QED BY <1>2, <3>1, <3>2, <3>3 DEF DispatchOnce
    <2> QED BY <2>1, <2>2
  <1>3. CASE ~\E w \in Worker : DispatchOnce(w)
    BY <1>1, <1>3
       DEF Next, AppendOutbox, RetryDelayElapses, ClaimExpires, WorkflowCloses, vars
  <1> QED BY <1>1, <1>2, <1>3

\* Whatever the number of workers, each repeated signal is paid for by a
\* crash, a lost answer or an overdue batch of its own.
THEOREM DuplicatesArePaid == Spec => []DuplicatesNeedFaults
  <1>1. Init => SignalsPaid
    <2> SUFFICES ASSUME Init PROVE SignalsPaid
      OBVIOUS
    <2>1. IdleHoldsNothing
      BY DEF Init, IdleHoldsNothing
    <2>2. ASSUME NEW e \in SignalEvent PROVE Paid(e)
      <3>1. Publishers(e) = {}
        BY EventPartition DEF Init, Publishers
      <3>2. Free(e) = 1 /\ signals[e] = 0 /\ faults = 0
        BY EventPartition DEF Init, Free
      <3> QED BY <3>1, <3>2, FS_EmptySet DEF Paid
    <2> QED BY <2>1, <2>2 DEF SignalsPaid
  <1>2. TypeOK /\ TypeOK' /\ IInv /\ SignalsPaid /\ [Next]_vars => SignalsPaid'
    <2> SUFFICES ASSUME TypeOK, TypeOK', IInv, SignalsPaid, [Next]_vars
                 PROVE  SignalsPaid'
      OBVIOUS
    <2>1. IdleHoldsNothing'
      BY IdleStep DEF SignalsPaid
    <2>2. ASSUME NEW e \in SignalEvent PROVE Paid(e)'
      <3>1. ASSUME NEW w \in Worker, DispatchOnce(w) PROVE Paid(e)'
        BY <3>1, ClaimIsPaid, PublishIsPaid, SettleIsPaid, AbandonIsPaid DEF DispatchOnce
      <3> QED BY <3>1, WorldIsPaid DEF Next
    <2> QED BY <2>1, <2>2 DEF SignalsPaid
  <1>3. TypeOK /\ SignalsPaid => DuplicatesNeedFaults
    <2> SUFFICES ASSUME TypeOK, SignalsPaid, NEW e \in SignalEvent
                 PROVE  signals[e] <= 1 + faults
      BY DEF DuplicatesNeedFaults
    <2>1. Cardinality(Publishers(e)) \in Nat /\ Free(e) \in 0 .. 1
      BY FS_CardinalityType DEF SignalsPaid, Paid, Free
    <2> QED BY <2>1 DEF SignalsPaid, Paid, TypeOK
  <1> QED BY <1>1, <1>2, <1>3, TypeCorrect, InvariantHolds, PTL DEF Spec

-----------------------------------------------------------------------------
\* The refinement mapping, named.
Accepted == {e \in Event : row[e] # "absent"}
AppliedSet == {e \in Event : Applied(e)}
Delivered == {e \in Event : row[e] = "delivered"}

LEMMA EffectRefines ==
  ASSUME TypeOK, IInv, NEW w \in Worker, NEW e \in Event,
         IsCurrent(w, e), Effect(e), UNCHANGED row
  PROVE  \/ Contract!Apply(e)
         \/ UNCHANGED <<Accepted, AppliedSet, Delivered, runs>>
  <1>1. UNCHANGED Accepted /\ UNCHANGED Delivered
    BY DEF Accepted, Delivered
  <1>2. CASE Applied(e)
    <2>1. UNCHANGED AppliedSet
      BY <1>2, EffectApplies DEF AppliedSet
    <2>2. runs' = runs
      BY <1>2, EventPartition DEF Effect, Applied, StartsRun, temporalVars
    <2> QED BY <1>1, <2>1, <2>2
  <1>3. CASE ~Applied(e)
    <2>1. row[e] # "absent"
      BY DEF IsCurrent, Batch, IInv, BatchesAreRows
    <2>2. AppliedSet' = AppliedSet \cup {e}
      BY EffectApplies DEF AppliedSet
    <2>3. runs' = [c \in StartEvent |-> IF c = e THEN 1 ELSE runs[c]]
      <3>1. CASE StartsRun(e)
        BY <3>1, EventPartition
        DEF Effect, StartsRun, IInv, RunsMatchWorkflow, TypeOK, temporalVars
      <3>2. CASE ~StartsRun(e)
        <4>1. e \notin StartEvent
          BY <3>2, <1>3 DEF StartsRun, Applied
        <4> QED BY <4>1 DEF Effect, StartsRun, TypeOK
      <3> QED BY <3>1, <3>2
    <2> QED
      BY <1>1, <1>3, <2>1, <2>2, <2>3
      DEF Contract!Apply, Accepted, AppliedSet, Delivered
  <1> QED BY <1>2, <1>3

\* The outbox delivers what the contract promises: effects only of committed
\* rows, delivery only after the effect, one run per command; every crash,
\* duplicate and stale claim is a stuttering step of the contract.
THEOREM OutboxImplementsDelivery == Spec => ImplementsDelivery
  <1> USE DEF tableVars, temporalVars
  <1>1. Init => Contract!Init
    BY EventPartition DEF Init, Contract!Init, Applied
  <1>2. TypeOK /\ IInv /\ [Next]_vars => [Contract!Next]_(Contract!deliveryVars)
    <2> SUFFICES ASSUME TypeOK, IInv, [Next]_vars
                 PROVE  \/ Contract!Next
                        \/ UNCHANGED <<Accepted, AppliedSet, Delivered, runs>>
      BY DEF Contract!deliveryVars, Accepted, AppliedSet, Delivered
    <2>1. ASSUME UNCHANGED <<row, workflow, runs, signals>>
          PROVE  UNCHANGED <<Accepted, AppliedSet, Delivered, runs>>
      BY <2>1 DEF Accepted, AppliedSet, Delivered, Applied
    <2>2. ASSUME NEW w \in Worker, Publish(w)
          PROVE  \/ Contract!Next
                 \/ UNCHANGED <<Accepted, AppliedSet, Delivered, runs>>
      <3>1. PICK e \in Event : IsCurrent(w, e) /\ Effect(e)
        BY <2>2 DEF Publish
      <3> QED BY <2>2, <3>1, EffectRefines DEF Publish, Contract!Next
    <2>3. ASSUME NEW w \in Worker, PublishError(w)
          PROVE  \/ Contract!Next
                 \/ UNCHANGED <<Accepted, AppliedSet, Delivered, runs>>
      <3>1. PICK e \in Event : IsCurrent(w, e) /\ (Effect(e) \/ UNCHANGED temporalVars)
        BY <2>3 DEF PublishError
      <3>2. UNCHANGED row
        BY <2>3 DEF PublishError
      <3>3. CASE Effect(e)
        BY <3>1, <3>2, <3>3, EffectRefines DEF Contract!Next
      <3>4. CASE UNCHANGED temporalVars
        BY <3>2, <3>4, <2>1
      <3> QED BY <3>1, <3>3, <3>4
    <2>4. ASSUME NEW w \in Worker, Ack(w)
          PROVE  Contract!Next
      <3>1. PICK e \in Event :
              /\ IsCurrent(w, e)
              /\ OwnsClaim(w, e)
              /\ row' = [row EXCEPT ![e] = "delivered"]
        BY <2>4 DEF Ack
      <3>2. Applied(e)
        BY <2>4, <3>1 DEF Ack, IInv, AckFollowsEffect
      <3>3. UNCHANGED <<workflow, runs, signals>> /\ UNCHANGED AppliedSet
        BY <2>4 DEF Ack, AppliedSet, Applied
      <3>4. row[e] = "pending"
        BY <3>1 DEF OwnsClaim
      <3>5. Contract!Settle(e)
        BY <3>1, <3>2, <3>3, <3>4 DEF Contract!Settle, AppliedSet, TypeOK
      <3> QED BY <3>5 DEF Contract!Next
    <2>5. ASSUME NEW e \in Event, AppendOutbox(e)
          PROVE  Contract!Next
      <3>1. UNCHANGED AppliedSet
        BY <2>5 DEF AppendOutbox, AppliedSet, Applied
      <3>2. Contract!Accept(e)
        BY <2>5, <3>1 DEF AppendOutbox, Contract!Accept, AppliedSet, TypeOK
      <3> QED BY <3>2 DEF Contract!Next
    <2>6. ASSUME NEW c \in StartEvent, WorkflowCloses(c)
          PROVE  UNCHANGED <<Accepted, AppliedSet, Delivered, runs>>
      <3>1. \A e \in Event : Applied(e)' <=> Applied(e)
        BY <2>6 DEF WorkflowCloses, Applied, TypeOK
      <3> QED BY <2>6, <3>1 DEF WorkflowCloses, Accepted, AppliedSet, Delivered
    <2>7. ASSUME NEW w \in Worker,
                 \/ ClaimBatch(w) \/ PublishRejected(w) \/ Fail(w)
                 \/ ClaimDrift(w) \/ Crash(w)
          PROVE  UNCHANGED <<Accepted, AppliedSet, Delivered, runs>>
      BY <2>1, <2>7 DEF ClaimBatch, PublishRejected, Fail, ClaimDrift, Crash
    <2>8. ASSUME NEW e \in Event, RetryDelayElapses(e) \/ ClaimExpires(e)
          PROVE  UNCHANGED <<Accepted, AppliedSet, Delivered, runs>>
      BY <2>1, <2>8 DEF RetryDelayElapses, ClaimExpires
    <2>9. CASE UNCHANGED vars
      BY <2>1, <2>9 DEF vars
    <2>10. CASE \E w \in Worker : DispatchOnce(w)
      BY <2>10, <2>2, <2>3, <2>4, <2>7 DEF DispatchOnce
    <2>11. CASE \E e \in Event : AppendOutbox(e) \/ RetryDelayElapses(e) \/ ClaimExpires(e)
      BY <2>11, <2>5, <2>8
    <2> QED BY <2>6, <2>9, <2>10, <2>11 DEF Next
  <1> QED
    BY <1>1, <1>2, TypeCorrect, InvariantHolds, PTL
    DEF Spec, ImplementsDelivery, Contract!Spec
-----------------------------------------------------------------------------
(* Orphans.  A worker that is overdue has been paid for, with enough for   *)
(* its whole batch; nobody else gives a row up without a fault.            *)

LEMMA NatMinimum ==
  ASSUME NEW T \in SUBSET Nat, T # {}
  PROVE  \E k \in T : \A m \in T : k <= m
  <1> DEFINE Less == OpToRel(<, Nat)
  <1>1. \A x, y \in Nat : x < y => <<x, y>> \in Less
    BY DEF OpToRel
  <1>2. IsWellFoundedOn(Less, Nat)
    BY NatLessThanWellFounded
  <1> HIDE DEF Less
  <1>3. \E k \in T : \A m \in T : <<m, k>> \notin Less
    BY <1>2, WFMin
  <1>4. PICK k \in T : \A m \in T : ~(m < k)
    BY <1>1, <1>3
  <1>5. \A m \in T : k <= m
    BY <1>4
  <1> QED BY <1>5

\* A claim takes no more rows than the query's LIMIT.
LEMMA LowestIsBounded ==
  ASSUME NEW S \in SUBSET Nat, IsFiniteSet(S), NEW n \in Nat
  PROVE  /\ Lowest(S, n) \subseteq S
         /\ IsFiniteSet(Lowest(S, n))
         /\ Cardinality(Lowest(S, n)) <= n
  <1> DEFINE L == Lowest(S, n)
             Above(e) == {d \in S : d > e}
             T == {Cardinality(Above(e)) : e \in L}
  <1>1. L \subseteq S /\ IsFiniteSet(L)
    BY FS_Subset DEF Lowest
  <1>2. CASE L = {}
    BY <1>1, <1>2, FS_EmptySet
  <1>3. CASE L # {}
    <2>1. \A e \in L : IsFiniteSet(Above(e)) /\ Cardinality(Above(e)) \in Nat
      <3> SUFFICES ASSUME NEW e \in L
                   PROVE  IsFiniteSet(Above(e)) /\ Cardinality(Above(e)) \in Nat
        OBVIOUS
      <3>1. Above(e) \in SUBSET S
        OBVIOUS
      <3> HIDE DEF Above
      <3> QED BY <3>1, FS_Subset, FS_CardinalityType
    <2>2. PICK k \in T : \A m \in T : k <= m
      <3>1. T \in SUBSET Nat /\ T # {}
        BY <1>3, <2>1
      <3> HIDE DEF T
      <3> QED BY <3>1, NatMinimum
    <2>3. PICK e \in L : k = Cardinality(Above(e))
      BY <2>2
    <2>4. ASSUME NEW d \in L, d > e PROVE FALSE
      <3>1. d \in S /\ \A x \in S \cup {d, e} : x \in Nat
        BY <1>1
      <3>2. /\ \A x \in S : x > d => x > e
            /\ d > e /\ ~(d > d)
        BY <2>4, <3>1
      <3>3. Above(d) \in SUBSET Above(e) /\ d \in Above(e) /\ d \notin Above(d)
        BY <3>1, <3>2
      <3>4. Cardinality(Above(e)) <= Cardinality(Above(d))
        BY <2>2, <2>3
      <3> HIDE DEF Above, L, T
      <3>5. Cardinality(Above(d)) <= Cardinality(Above(e))
        BY <2>1, <3>3, FS_Subset
      <3>6. Cardinality(Above(d)) = Cardinality(Above(e))
        BY <2>1, <3>4, <3>5
      <3> QED BY <2>1, <3>3, <3>6, FS_Subset
    <2> DEFINE Upto == {d \in S : d <= e}
    <2>5. L \in SUBSET Upto /\ Upto \in SUBSET S
      <3>1. \A d \in L : d \in Nat /\ e \in Nat /\ ~(d > e)
        BY <1>1, <2>4
      <3> QED BY <1>1, <3>1
    <2>6. Cardinality(Upto) <= n
      BY DEF Lowest
    <2> HIDE DEF L, Upto
    <2>7. IsFiniteSet(Upto) /\ Cardinality(L) <= Cardinality(Upto)
      BY <2>5, FS_Subset
    <2>8. Cardinality(L) \in Nat /\ Cardinality(Upto) \in Nat
      BY <1>1, <2>7, FS_CardinalityType
    <2> QED BY <1>1, <2>6, <2>7, <2>8 DEF L
  <1> QED BY <1>2, <1>3

\* The rows of the table, of which there are always finitely many.
Rows == {e \in Event : row[e] # "absent"}

\* A worker whose batch has a row that is stale or no longer its own.
Overdue == {w \in Worker : \E e \in Batch(w) : claim[e] # held[w][e] \/ expired[e]}

BatchesAreBounded ==
  \A w \in Worker : IsFiniteSet(Batch(w)) /\ Cardinality(Batch(w)) <= BatchLimit

OrphansPaid ==
  /\ IsFiniteSet(Rows) /\ IdleHoldsNothing /\ BatchesAreBounded
  /\ IsFiniteSet(Overdue)
  /\ Cardinality(Orphans) + BatchLimit * Cardinality(Overdue) <= BatchLimit * faults

LEMMA RowsStep ==
  ASSUME TypeOK, IInv, IsFiniteSet(Rows), [Next]_vars
  PROVE  IsFiniteSet(Rows')
  <1>1. CASE \E e \in Event : AppendOutbox(e)
    <2>1. PICK e \in Event : AppendOutbox(e)
      BY <1>1
    <2>2. Rows' \in SUBSET (Rows \cup {e})
      BY <2>1 DEF AppendOutbox, Rows, TypeOK
    <2> QED BY <2>2, FS_AddElement, FS_Subset
  <1>2. CASE ~\E e \in Event : AppendOutbox(e)
    <2>1. \A e \in Event : row'[e] # "absent" => row[e] # "absent"
      <3> SUFFICES ASSUME NEW e \in Event, row[e] = "absent", row'[e] # "absent"
                   PROVE  FALSE
        OBVIOUS
      <3>1. CASE UNCHANGED row
        BY <3>1
      <3>2. ASSUME NEW w \in Worker, Ack(w) PROVE FALSE
        BY <3>2 DEF Ack, OwnsClaim, TypeOK
      <3> QED
        BY <1>2, <3>1, <3>2
           DEF Next, vars, tableVars, DispatchOnce, ClaimBatch, Publish,
               PublishRejected, PublishError, Fail, ClaimDrift, Crash,
               RetryDelayElapses, ClaimExpires, WorkflowCloses
    <2>2. Rows' \in SUBSET Rows
      BY <2>1 DEF Rows
    <2> QED BY <2>2, FS_Subset
  <1> QED BY <1>1, <1>2

LEMMA BatchesStep ==
  ASSUME TypeOK, IsFiniteSet(Rows), BatchesAreBounded, [Next]_vars
  PROVE  BatchesAreBounded'
  <1> SUFFICES ASSUME NEW v \in Worker
               PROVE  /\ IsFiniteSet(Batch(v)')
                      /\ Cardinality(Batch(v)') <= BatchLimit
    BY OutboxAssumption DEF BatchesAreBounded
  <1>1. CASE Batch(v)' \in SUBSET Batch(v)
    <2>1. IsFiniteSet(Batch(v)') /\ Cardinality(Batch(v)') <= Cardinality(Batch(v))
      BY <1>1, FS_Subset DEF BatchesAreBounded
    <2>2. Cardinality(Batch(v)') \in Nat /\ Cardinality(Batch(v)) \in Nat
      BY <2>1, FS_CardinalityType DEF BatchesAreBounded
    <2> QED BY <2>1, <2>2, OutboxAssumption DEF BatchesAreBounded
  <1>2. CASE ClaimBatch(v)
    <2> DEFINE L == Lowest(Claimable, BatchLimit)
    <2>1. \A e \in Event : held'[v][e] # NoToken => e \in L
      BY <1>2 DEF ClaimBatch, TypeOK
    <2>2. Claimable \in SUBSET Rows /\ Claimable \in SUBSET Nat
      BY EventPartition DEF Claimable, Rows
    <2>3. IsFiniteSet(L) /\ Cardinality(L) <= BatchLimit
      BY <2>2, FS_Subset, LowestIsBounded, OutboxAssumption
    <2>4. Batch(v)' \in SUBSET L
      BY <2>1 DEF Batch
    <2> HIDE DEF L
    <2>5. IsFiniteSet(Batch(v)') /\ Cardinality(Batch(v)') <= Cardinality(L)
      BY <2>3, <2>4, FS_Subset
    <2>6. Cardinality(Batch(v)') \in Nat /\ Cardinality(L) \in Nat
      BY <2>3, <2>5, FS_CardinalityType
    <2> QED BY <2>3, <2>5, <2>6, OutboxAssumption
  <1>3. CASE ~ClaimBatch(v)
    <2>1. \A e \in Event : held'[v][e] \in {held[v][e], NoToken}
      <3>1. CASE UNCHANGED held
        BY <3>1 DEF TypeOK
      <3>2. ASSUME NEW w \in Worker, ClaimBatch(w)
            PROVE  held'[v] = held[v]
        <4>1. PICK batch : held' = [held EXCEPT ![w] = batch]
          BY <3>2 DEF ClaimBatch
        <4> QED BY <1>3, <3>2, <4>1 DEF TypeOK
      <3>3. ASSUME NEW w \in Worker, Ack(w) \/ Fail(w) \/ ClaimDrift(w) \/ Crash(w)
            PROVE  \A e \in Event : held'[v][e] \in {held[v][e], NoToken}
        BY <3>3 DEF Ack, Fail, ClaimDrift, Crash, NextRow, AbandonBatch, NoBatch, TypeOK
      <3> QED
        BY <3>1, <3>2, <3>3
           DEF Next, vars, DispatchOnce, Publish, PublishRejected, PublishError,
               AppendOutbox, RetryDelayElapses, ClaimExpires, WorkflowCloses
    <2> QED BY <1>1, <2>1 DEF Batch
  <1> QED BY <1>2, <1>3

LEMMA Products ==
  ASSUME NEW b \in Nat, NEW x \in Nat, NEW y \in Nat
  PROVE  /\ b * x \in Nat
         /\ x <= y => b * x <= b * y
         /\ b * (x + 1) = b * x + b
  <1>1. b * x \in Nat /\ b * (x + 1) = b * x + b
    OBVIOUS
  <1>2. ASSUME x <= y PROVE b * x <= b * y
    <2>1. PICK k \in Nat : y = x + k
      BY <1>2
    <2>2. b * y = b * x + b * k /\ b * k \in Nat
      BY <2>1
    <2> QED BY <1>1, <2>2
  <1> QED BY <1>1, <1>2

LEMMA OrphanTypes ==
  ASSUME TypeOK, IInv, IsFiniteSet(Rows)
  PROVE  IsFiniteSet(Orphans) /\ Cardinality(Orphans) \in Nat
  <1>1. Orphans \in SUBSET Rows
    BY DEF Orphans, Rows, IInv, ClaimsArePending
  <1> QED BY <1>1, FS_Subset, FS_CardinalityType

\* Neither an orphan nor an overdue worker more.
LEMMA OrphanFrame ==
  ASSUME TypeOK, TypeOK', IInv, OrphansPaid,
         Orphans' \in SUBSET Orphans, Overdue' \in SUBSET Overdue,
         faults' \in {faults, faults + 1}
  PROVE  /\ IsFiniteSet(Overdue')
         /\ Cardinality(Orphans') + BatchLimit * Cardinality(Overdue')
              <= BatchLimit * faults'
  <1> DEFINE o == Cardinality(Orphans)   p == Cardinality(Orphans')
             d == Cardinality(Overdue)   c == Cardinality(Overdue')
  <1>1. o \in Nat /\ IsFiniteSet(Orphans)
    BY OrphanTypes DEF OrphansPaid
  <1>2. IsFiniteSet(Orphans') /\ p <= o
    BY <1>1, FS_Subset
  <1>3. IsFiniteSet(Overdue') /\ c <= d
    BY FS_Subset DEF OrphansPaid
  <1>4. p \in Nat /\ d \in Nat /\ c \in Nat
    BY <1>2, <1>3, FS_CardinalityType DEF OrphansPaid
  <1>5. o + BatchLimit * d <= BatchLimit * faults
    BY DEF OrphansPaid
  <1>6. BatchLimit \in Nat /\ faults \in Nat
    BY OutboxAssumption DEF TypeOK
  <1>10. faults' \in Nat /\ faults <= faults'
    BY <1>6
  <1> HIDE DEF o, p, d, c
  <1>7. BatchLimit * c <= BatchLimit * d /\ BatchLimit * faults <= BatchLimit * faults'
    BY <1>3, <1>4, <1>6, <1>10, Products
  <1>8. /\ BatchLimit * c \in Nat /\ BatchLimit * d \in Nat
        /\ BatchLimit * faults \in Nat /\ BatchLimit * faults' \in Nat
    BY <1>4, <1>6, <1>10, Products
  <1>9. p + BatchLimit * c <= BatchLimit * faults'
    BY <1>1, <1>2, <1>4, <1>5, <1>7, <1>8
  <1> QED BY <1>3, <1>9 DEF p, c

\* A worker gives its batch up: dead, with a fault to pay for the rows that it
\* leaves; or overtaken, and then overdue before.
LEMMA AbandonLeavesOrphans ==
  ASSUME TypeOK, TypeOK', IInv, OrphansPaid, NEW w \in Worker,
         Orphans' \in SUBSET (Orphans \cup Batch(w)),
         \/ Overdue' \in SUBSET Overdue /\ faults' = faults + 1
         \/ w \in Overdue /\ Overdue' \in SUBSET (Overdue \ {w}) /\ faults' = faults
  PROVE  /\ IsFiniteSet(Overdue')
         /\ Cardinality(Orphans') + BatchLimit * Cardinality(Overdue')
              <= BatchLimit * faults'
  <1> DEFINE o == Cardinality(Orphans)   p == Cardinality(Orphans')
             d == Cardinality(Overdue)   c == Cardinality(Overdue')
             b == Cardinality(Batch(w))
  <1>1. /\ o \in Nat /\ IsFiniteSet(Orphans)
        /\ b \in Nat /\ b <= BatchLimit /\ IsFiniteSet(Batch(w))
    BY OrphanTypes, FS_CardinalityType DEF OrphansPaid, BatchesAreBounded
  <1>2. p \in Nat /\ p <= o + b
    <2> DEFINE U == Orphans \cup Batch(w)
    <2>1. /\ IsFiniteSet(U) /\ IsFiniteSet(Orphans \cap Batch(w))
          /\ Cardinality(U) = o + b - Cardinality(Orphans \cap Batch(w))
      BY <1>1, FS_Union, FS_Intersection
    <2>2. Orphans' \in SUBSET U
      OBVIOUS
    <2> HIDE DEF U
    <2>3. IsFiniteSet(Orphans') /\ p <= Cardinality(U)
      BY <2>1, <2>2, FS_Subset
    <2>4. p \in Nat /\ Cardinality(U) \in Nat
          /\ Cardinality(Orphans \cap Batch(w)) \in Nat
      BY <2>1, <2>3, FS_CardinalityType
    <2> HIDE DEF o, p, b
    <2> QED BY <1>1, <2>1, <2>3, <2>4
  <1>3. IsFiniteSet(Overdue) /\ d \in Nat
    BY FS_CardinalityType DEF OrphansPaid
  <1>4. /\ IsFiniteSet(Overdue') /\ c \in Nat
        /\ \/ c <= d /\ faults' = faults + 1
           \/ c + 1 <= d /\ faults' = faults
    <2>1. CASE Overdue' \in SUBSET Overdue /\ faults' = faults + 1
      BY <1>3, <2>1, FS_Subset, FS_CardinalityType
    <2>2. CASE w \in Overdue /\ Overdue' \in SUBSET (Overdue \ {w}) /\ faults' = faults
      <3>1. IsFiniteSet(Overdue \ {w}) /\ Cardinality(Overdue \ {w}) = d - 1
        BY <1>3, <2>2, FS_RemoveElement
      <3>2. IsFiniteSet(Overdue') /\ c <= Cardinality(Overdue \ {w})
        BY <2>2, <3>1, FS_Subset
      <3>3. c \in Nat
        BY <3>2, FS_CardinalityType
      <3> HIDE DEF c, d
      <3> QED BY <1>3, <2>2, <3>1, <3>2, <3>3
    <2> QED BY <2>1, <2>2
  <1>5. o + BatchLimit * d <= BatchLimit * faults
    BY DEF OrphansPaid
  <1>6. BatchLimit \in Nat /\ faults \in Nat /\ faults' \in Nat
    BY OutboxAssumption DEF TypeOK
  <1> HIDE DEF o, p, d, c, b
  <1>7. /\ BatchLimit * c \in Nat /\ BatchLimit * d \in Nat /\ BatchLimit * faults \in Nat
        /\ c <= d => BatchLimit * c <= BatchLimit * d
        /\ c + 1 <= d => BatchLimit * (c + 1) <= BatchLimit * d
        /\ BatchLimit * (c + 1) = BatchLimit * c + BatchLimit
        /\ BatchLimit * (faults + 1) = BatchLimit * faults + BatchLimit
    BY <1>3, <1>4, <1>6, Products
  <1>8. CASE c <= d /\ faults' = faults + 1
    <2>1. p + BatchLimit * c <= BatchLimit * faults + BatchLimit
      BY <1>1, <1>2, <1>5, <1>6, <1>7, <1>8
    <2> QED BY <1>4, <1>7, <1>8, <2>1 DEF p, c
  <1>9. CASE c + 1 <= d /\ faults' = faults
    <2>1. p + BatchLimit * c <= BatchLimit * faults
      BY <1>1, <1>2, <1>5, <1>6, <1>7, <1>9
    <2> QED BY <1>4, <1>9, <2>1 DEF p, c
  <1> QED BY <1>4, <1>8, <1>9

\* A batch that was late before its claim went stale counts once.
LEMMA ExpiryIsPaid ==
  ASSUME TypeOK, TypeOK', IInv, OrphansPaid, NEW u \in Worker,
         Orphans' \in SUBSET Orphans, Overdue' \in SUBSET (Overdue \cup {u}),
         faults' = faults + 1
  PROVE  /\ IsFiniteSet(Overdue')
         /\ Cardinality(Orphans') + BatchLimit * Cardinality(Overdue')
              <= BatchLimit * faults'
  <1> DEFINE o == Cardinality(Orphans)   p == Cardinality(Orphans')
             d == Cardinality(Overdue)   c == Cardinality(Overdue')
  <1>1. o \in Nat /\ IsFiniteSet(Orphans)
    BY OrphanTypes DEF OrphansPaid
  <1>2. IsFiniteSet(Orphans') /\ p <= o
    BY <1>1, FS_Subset
  <1>3. IsFiniteSet(Overdue) /\ d \in Nat
    BY FS_CardinalityType DEF OrphansPaid
  <1>4. /\ IsFiniteSet(Overdue \cup {u})
        /\ Cardinality(Overdue \cup {u}) <= d + 1
    <2>1. /\ IsFiniteSet(Overdue \cup {u})
          /\ Cardinality(Overdue \cup {u}) = IF u \in Overdue THEN d ELSE d + 1
      BY <1>3, FS_AddElement
    <2> HIDE DEF d
    <2> QED BY <1>3, <2>1
  <1>5. IsFiniteSet(Overdue') /\ c <= Cardinality(Overdue \cup {u})
    BY <1>4, FS_Subset
  <1>6. p \in Nat /\ c \in Nat /\ Cardinality(Overdue \cup {u}) \in Nat
    BY <1>2, <1>4, <1>5, FS_CardinalityType
  <1>7. o + BatchLimit * d <= BatchLimit * faults
    BY DEF OrphansPaid
  <1>8. BatchLimit \in Nat /\ faults \in Nat
    BY OutboxAssumption DEF TypeOK
  <1> HIDE DEF o, p, d, c
  <1>9. c <= d + 1
    BY <1>3, <1>4, <1>5, <1>6
  <1>10. /\ BatchLimit * c \in Nat /\ BatchLimit * d \in Nat /\ BatchLimit * faults \in Nat
         /\ BatchLimit * c <= BatchLimit * (d + 1)
         /\ BatchLimit * (d + 1) = BatchLimit * d + BatchLimit
         /\ BatchLimit * (faults + 1) = BatchLimit * faults + BatchLimit
    BY <1>3, <1>6, <1>8, <1>9, Products
  <1>11. p + BatchLimit * c <= BatchLimit * faults + BatchLimit
    BY <1>1, <1>2, <1>6, <1>7, <1>8, <1>10
  <1> QED BY <1>5, <1>10, <1>11 DEF p, c

\* What each step does to the orphans and to the overdue workers.
LEMMA DispatchOrphans ==
  ASSUME TypeOK, TypeOK', IInv, OrphansPaid, NEW w \in Worker, DispatchOnce(w)
  PROVE  /\ IsFiniteSet(Overdue')
         /\ Cardinality(Orphans') + BatchLimit * Cardinality(Overdue')
              <= BatchLimit * faults'
  <1> USE DEF tableVars
  <1>1. CASE ClaimBatch(w)
    <2> DEFINE batch == Lowest(Claimable, BatchLimit)
    <2>1. PICK token \in [batch -> Token] :
            /\ claim' = [e \in Event |-> IF e \in batch THEN token[e] ELSE claim[e]]
            /\ held' = [held EXCEPT ![w] =
                          [e \in Event |-> IF e \in batch THEN token[e] ELSE NoToken]]
            /\ expired' = [e \in Event |-> expired[e] /\ e \notin batch]
      BY <1>1 DEF ClaimBatch
    <2>2. \A e \in batch : claim[e] = NoToken \/ expired[e]
      BY DEF Lowest, Claimable
    <2>3. \A e \in Event : held[w][e] = NoToken
      BY <1>1 DEF ClaimBatch, OrphansPaid, IdleHoldsNothing
    <2> HIDE DEF batch
    <2>4. \A v \in Worker \ {w} : held'[v] = held[v]
      BY <2>1 DEF TypeOK
    <2>5. \A e \in Event \ batch : claim'[e] = claim[e] /\ held'[w][e] = NoToken
      BY <2>1 DEF TypeOK
    <2>6. \A e \in Event : e \in batch =>
            claim'[e] = token[e] /\ held'[w][e] = token[e] /\ ~expired'[e]
      BY <2>1 DEF TypeOK
    <2>7. Orphans' \in SUBSET Orphans
      <3> SUFFICES ASSUME NEW e \in Event, claim'[e] # NoToken, Holder(e)' = {}
                   PROVE  claim[e] # NoToken /\ Holder(e) = {}
        BY DEF Orphans
      <3>1. e \notin batch
        BY <2>6 DEF Holder
      <3> QED BY <2>3, <2>4, <2>5, <3>1 DEF Holder
    <2>8. Overdue' \in SUBSET Overdue
      <3> SUFFICES ASSUME NEW v \in Worker, NEW e \in Event, held'[v][e] # NoToken,
                          claim'[e] # held'[v][e] \/ expired'[e]
                   PROVE  v \in Overdue
        BY DEF Overdue, Batch
      <3>1. v # w
        BY <2>5, <2>6
      <3>2. held[v][e] # NoToken
        BY <2>4, <3>1
      <3>3. claim[e] # held[v][e] \/ expired[e]
        BY <2>1, <2>2, <2>4, <2>5, <3>1, <3>2
      <3> QED BY <3>2, <3>3 DEF Overdue, Batch
    <2> QED BY <1>1, <2>7, <2>8, OrphanFrame DEF ClaimBatch
  <1>2. CASE Publish(w) \/ PublishRejected(w) \/ PublishError(w)
    <2>1. UNCHANGED <<claim, expired, held>> /\ faults' \in {faults, faults + 1}
      BY <1>2 DEF Publish, PublishRejected, PublishError, Fault
    <2>2. Orphans' = Orphans /\ Overdue' = Overdue
      BY <2>1 DEF Orphans, Holder, Overdue, Batch
    <2> QED BY <2>1, <2>2, OrphanFrame
  <1>3. CASE Ack(w) \/ Fail(w)
    <2>1. PICK d \in Event :
            /\ IsCurrent(w, d) /\ OwnsClaim(w, d)
            /\ held' = [held EXCEPT ![w][d] = NoToken]
            /\ claim' = [claim EXCEPT ![d] = NoToken]
            /\ expired' = [expired EXCEPT ![d] = FALSE]
      BY <1>3 DEF Ack, Fail, NextRow
    <2>2. \A v \in Worker, e \in Event :
            held'[v][e] = IF v = w /\ e = d THEN NoToken ELSE held[v][e]
      BY <2>1 DEF TypeOK
    <2>3. \A e \in Event \ {d} : claim'[e] = claim[e] /\ expired'[e] = expired[e]
      BY <2>1 DEF TypeOK
    <2>4. claim'[d] = NoToken /\ ~expired'[d]
      BY <2>1 DEF TypeOK
    <2>5. Orphans' \in SUBSET Orphans
      <3> SUFFICES ASSUME NEW e \in Event, claim'[e] # NoToken, Holder(e)' = {}
                   PROVE  claim[e] # NoToken /\ Holder(e) = {}
        BY DEF Orphans
      <3>1. e # d
        BY <2>4
      <3> QED BY <2>2, <2>3, <3>1 DEF Holder
    <2>6. Overdue' \in SUBSET Overdue
      <3> SUFFICES ASSUME NEW v \in Worker, NEW e \in Event, held'[v][e] # NoToken,
                          claim'[e] # held'[v][e] \/ expired'[e]
                   PROVE  held[v][e] # NoToken /\ (claim[e] # held[v][e] \/ expired[e])
        BY DEF Overdue, Batch
      <3>1. held[v][e] # NoToken /\ held'[v][e] = held[v][e] /\ ~(v = w /\ e = d)
        BY <2>2
      <3>2. CASE e # d
        BY <2>3, <3>1, <3>2
      <3>3. CASE e = d
        BY <2>1, <3>1, <3>3 DEF OwnsClaim, IInv, TokenExclusive
      <3> QED BY <3>2, <3>3
    <2> QED BY <1>3, <2>5, <2>6, OrphanFrame DEF Ack, Fail
  <1>4. CASE ClaimDrift(w) \/ Crash(w)
    <2>1. AbandonBatch(w) /\ UNCHANGED <<claim, expired>>
      BY <1>4 DEF ClaimDrift, Crash
    <2>2. \A v \in Worker, e \in Event :
            held'[v][e] = IF v = w THEN NoToken ELSE held[v][e]
      BY <2>1 DEF AbandonBatch, NoBatch, TypeOK
    <2>3. Orphans' \in SUBSET (Orphans \cup Batch(w))
      BY <2>1, <2>2 DEF Orphans, Holder, Batch
    <2>4. Overdue' \in SUBSET (Overdue \ {w})
      BY <2>1, <2>2 DEF Overdue, Batch
    <2>5. CASE Crash(w)
      BY <2>3, <2>4, <2>5, AbandonLeavesOrphans DEF Crash, Fault
    <2>6. CASE ClaimDrift(w)
      <3>1. PICK d \in Event : IsCurrent(w, d) /\ ~OwnsClaim(w, d)
        BY <2>6 DEF ClaimDrift
      <3>2. d \in Batch(w) /\ claim[d] # held[w][d]
        BY <3>1 DEF IsCurrent, Batch, OwnsClaim, IInv, ClaimsArePending
      <3>3. w \in Overdue
        BY <3>2 DEF Overdue
      <3> QED BY <2>3, <2>4, <2>6, <3>3, AbandonLeavesOrphans DEF ClaimDrift
    <2> QED BY <1>4, <2>5, <2>6
  <1> QED BY <1>1, <1>2, <1>3, <1>4 DEF DispatchOnce

LEMMA WorldOrphans ==
  ASSUME TypeOK, TypeOK', IInv, OrphansPaid,
         \/ \E e \in Event : AppendOutbox(e) \/ RetryDelayElapses(e) \/ ClaimExpires(e)
         \/ \E c \in StartEvent : WorkflowCloses(c)
         \/ UNCHANGED vars
  PROVE  /\ IsFiniteSet(Overdue')
         /\ Cardinality(Orphans') + BatchLimit * Cardinality(Overdue')
              <= BatchLimit * faults'
  <1>1. CASE ~\E e \in Event : ClaimExpires(e)
    <2>1. UNCHANGED <<claim, expired, held, faults>>
      BY <1>1 DEF AppendOutbox, RetryDelayElapses, WorkflowCloses, tableVars, vars
    <2>2. Orphans' = Orphans /\ Overdue' = Overdue
      BY <2>1 DEF Orphans, Holder, Overdue, Batch
    <2> QED BY <2>1, <2>2, OrphanFrame
  <1>2. ASSUME NEW d \in Event, ClaimExpires(d)
        PROVE  /\ IsFiniteSet(Overdue')
               /\ Cardinality(Orphans') + BatchLimit * Cardinality(Overdue')
                    <= BatchLimit * faults'
    <2>1. UNCHANGED <<claim, held>> /\ \A e \in Event \ {d} : expired'[e] = expired[e]
      BY <1>2 DEF ClaimExpires, TypeOK
    <2>2. Orphans' = Orphans
      BY <2>1 DEF Orphans, Holder
    <2>3. \A v \in Worker : v \in Overdue' => v \in Overdue \/ v \in Holder(d)
      BY <2>1 DEF Overdue, Holder, Batch
    <2>4. CASE Holder(d) = {}
      <3>1. Overdue' \in SUBSET Overdue /\ faults' = faults
        BY <1>2, <2>3, <2>4 DEF ClaimExpires, Overdue
      <3> QED BY <2>2, <3>1, OrphanFrame
    <2>5. CASE Holder(d) # {}
      <3>1. PICK u \in Holder(d) : u \in Worker
        BY <2>5 DEF Holder
      <3>2. Holder(d) = {u}
        BY <1>2, <3>1 DEF ClaimExpires, Holder, IInv, TokenExclusive
      <3>3. Overdue' \in SUBSET (Overdue \cup {u}) /\ faults' = faults + 1
        BY <1>2, <2>3, <2>5, <3>2 DEF ClaimExpires, Fault, Overdue
      <3> QED BY <2>2, <3>1, <3>3, ExpiryIsPaid
    <2> QED BY <2>4, <2>5
  <1> QED BY <1>1, <1>2

\* However many workers there are and however long their batches, a row is
\* left claimed by nobody only by a fault, and each fault leaves one batch of
\* them at most.
THEOREM OrphansArePaid == Spec => []OrphansNeedFaults
  <1>1. Init => OrphansPaid
    <2> SUFFICES ASSUME Init PROVE OrphansPaid
      OBVIOUS
    <2>1. Rows = {} /\ Orphans = {} /\ Overdue = {} /\ \A w \in Worker : Batch(w) = {}
      BY DEF Init, Rows, Orphans, Overdue, Batch
    <2>2. IdleHoldsNothing /\ faults = 0
      BY DEF Init, IdleHoldsNothing
    <2>3. BatchLimit \in Nat
      BY OutboxAssumption
    <2>4. BatchLimit * 0 = 0
      BY <2>3
    <2> QED BY <2>1, <2>2, <2>3, <2>4, FS_EmptySet DEF OrphansPaid, BatchesAreBounded
  <1>2. TypeOK /\ TypeOK' /\ IInv /\ OrphansPaid /\ [Next]_vars => OrphansPaid'
    <2> SUFFICES ASSUME TypeOK, TypeOK', IInv, OrphansPaid, [Next]_vars
                 PROVE  OrphansPaid'
      OBVIOUS
    <2>1. IsFiniteSet(Rows') /\ BatchesAreBounded' /\ IdleHoldsNothing'
      BY RowsStep, BatchesStep, IdleStep DEF OrphansPaid
    <2>2. /\ IsFiniteSet(Overdue')
          /\ Cardinality(Orphans') + BatchLimit * Cardinality(Overdue')
               <= BatchLimit * faults'
      BY DispatchOrphans, WorldOrphans DEF Next
    <2> QED BY <2>1, <2>2 DEF OrphansPaid
  <1>3. TypeOK /\ IInv /\ OrphansPaid => OrphansNeedFaults
    <2> SUFFICES ASSUME TypeOK, IInv, OrphansPaid PROVE OrphansNeedFaults
      OBVIOUS
    <2>1. /\ Cardinality(Orphans) \in Nat
          /\ Cardinality(Overdue) \in Nat /\ BatchLimit \in Nat /\ faults \in Nat
      BY OrphanTypes, FS_CardinalityType, OutboxAssumption DEF OrphansPaid, TypeOK
    <2>2. BatchLimit * Cardinality(Overdue) \in Nat /\ BatchLimit * faults \in Nat
      BY <2>1, Products
    <2> QED BY <2>1, <2>2 DEF OrphansPaid, OrphansNeedFaults
  <1> QED BY <1>1, <1>2, <1>3, TypeCorrect, InvariantHolds, PTL DEF Spec
=============================================================================

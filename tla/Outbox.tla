------------------------------- MODULE Outbox -------------------------------
(***************************************************************************)
(* The transactional outbox (internal/outbox/store.go) and the dispatch    *)
(* loop of every control worker (internal/dispatch/outbox.go, temporal.go, *)
(* cmd/realsas-control-worker/main.go).                                    *)
(*                                                                         *)
(* A command and its outbox row are written by one transaction.  Workers   *)
(* claim batches of rows with a fresh token each, publish them to Temporal *)
(* one after the other and acknowledge each with its token.  A worker may  *)
(* crash between any two of those steps, may be slower than the claim's    *)
(* staleness limit, and may lose the answer of a call that took effect.    *)
(*                                                                         *)
(* Every database statement of the code is one serializable transaction    *)
(* and is one action here.  SKIP LOCKED makes concurrent claims take what  *)
(* they would take one after the other.                                    *)
(*                                                                         *)
(* Operators whose comment starts with "Slip:" are not part of the         *)
(* specification: each is a plausible mistake in the operator after it,    *)
(* kept to show that a property notices it.                                *)
(***************************************************************************)
EXTENDS Naturals, FiniteSets

CONSTANTS
  Worker,        \* control-worker processes
  StartEvent,    \* rows of commands that start a workflow
  SignalEvent,   \* rows of EXTERNAL_STAGE_READY commands
  OtherEvent,    \* rows whose aggregate is not a command
  Target,        \* the start event of the workflow a signal event addresses
  BatchLimit,    \* LIMIT of the claim query
  Token,         \* claim tokens (uuid.New() never repeats a live one)
  NoToken,       \* SQL NULL
  MaxFaults      \* bound: crashes, lost answers and overdue batches

Event == StartEvent \cup SignalEvent \cup OtherEvent

ASSUME OutboxAssumption ==
  /\ Event \subseteq Nat
  /\ StartEvent \cap SignalEvent = {}
  /\ OtherEvent \cap (StartEvent \cup SignalEvent) = {}
  /\ Target \in [SignalEvent -> StartEvent]
  /\ NoToken \notin Token
  /\ BatchLimit \in Nat \ {0}
  /\ MaxFaults \in Nat

VARIABLES
  row,       \* row[e]: no row, delivered_at NULL, delivered_at set
  ready,     \* ready[e]: available_at <= now()
  claim,     \* claim[e]: claim_token
  expired,   \* expired[e]: claimed_at < now() - staleAfter
  held,      \* held[w][e]: token of e in w's batch, while e is unprocessed
  phase,     \* phase[w]: where DispatchOnce stands with the batch's first row
  workflow,  \* workflow[c]: the Temporal execution of the start event c
  runs,      \* history: runs created for c
  signals,   \* history: times Temporal accepted the signal e
  faults     \* faults so far

vars == <<row, ready, claim, expired, held, phase, workflow, runs, signals, faults>>
tableVars == <<row, ready, claim, expired>>
temporalVars == <<workflow, runs, signals>>

TypeOK ==
  /\ row \in [Event -> {"absent", "pending", "delivered"}]
  /\ ready \in [Event -> BOOLEAN]
  /\ claim \in [Event -> Token \cup {NoToken}]
  /\ expired \in [Event -> BOOLEAN]
  /\ held \in [Worker -> [Event -> Token \cup {NoToken}]]
  /\ phase \in [Worker -> {"idle", "publish", "ack", "fail"}]
  /\ workflow \in [StartEvent -> {"none", "running", "closed"}]
  /\ runs \in [StartEvent -> Nat]
  /\ signals \in [SignalEvent -> Nat]
  /\ faults \in Nat

Init ==
  /\ row = [e \in Event |-> "absent"]
  /\ ready = [e \in Event |-> TRUE]
  /\ claim = [e \in Event |-> NoToken]
  /\ expired = [e \in Event |-> FALSE]
  /\ held = [w \in Worker |-> [e \in Event |-> NoToken]]
  /\ phase = [w \in Worker |-> "idle"]
  /\ workflow = [c \in StartEvent |-> "none"]
  /\ runs = [c \in StartEvent |-> 0]
  /\ signals = [e \in SignalEvent |-> 0]
  /\ faults = 0

-----------------------------------------------------------------------------
NoBatch == [e \in Event |-> NoToken]

Batch(w) == {e \in Event : held[w][e] # NoToken}

\* Rows are processed in the order of the claim query (ORDER BY id).
IsCurrent(w, e) ==
  /\ e \in Batch(w)
  /\ \A d \in Batch(w) : e <= d

Fault ==
  /\ faults < MaxFaults
  /\ faults' = faults + 1

\* The transaction that inserts a command (or any other aggregate) appends
\* its row.  An EXTERNAL_STAGE_READY command is only submitted for a stage
\* that some run of its workflow left waiting.
AppendOutbox(e) ==
  /\ row[e] = "absent"
  /\ e \in SignalEvent => workflow[Target[e]] # "none"
  /\ row' = [row EXCEPT ![e] = "pending"]
  /\ UNCHANGED <<ready, claim, expired, held, phase, temporalVars, faults>>

\* Slip: the claim query ignores claimed_at.
ClaimableByTwo == {e \in Event : row[e] = "pending" /\ ready[e]}

\* Slip: the claim query never takes a stale claim over.
ClaimableOnce == {e \in Event : row[e] = "pending" /\ ready[e] /\ claim[e] = NoToken}

\* Slip: the claim query forgets delivered_at IS NULL.
ClaimableDelivered ==
  {e \in Event : row[e] # "absent" /\ ready[e] /\ (claim[e] = NoToken \/ expired[e])}

Claimable ==
  {e \in Event : /\ row[e] = "pending"
                 /\ ready[e]
                 /\ claim[e] = NoToken \/ expired[e]}

Lowest(S, n) == {e \in S : Cardinality({d \in S : d <= e}) <= n}

\* A token is fresh for a row when neither the row nor a batch has it.
Fresh(t, e) == claim[e] # t /\ \A w \in Worker : held[w][e] # t

ClaimBatch(w) ==
  /\ phase[w] = "idle"
  /\ LET batch == Lowest(Claimable, BatchLimit) IN
       /\ batch # {}
       /\ \E token \in [batch -> Token] :
            /\ \A e \in batch : Fresh(token[e], e)
            /\ claim' = [e \in Event |-> IF e \in batch THEN token[e] ELSE claim[e]]
            /\ held' = [held EXCEPT ![w] =
                          [e \in Event |-> IF e \in batch THEN token[e] ELSE NoToken]]
            /\ expired' = [e \in Event |-> expired[e] /\ e \notin batch]
  /\ phase' = [phase EXCEPT ![w] = "publish"]
  /\ UNCHANGED <<row, ready, temporalVars, faults>>

\* What Publish does to Temporal when the call reaches it.  A workflow id is
\* never reused (REJECT_DUPLICATE) and "already started" counts as success;
\* a signal needs a running workflow; a row that is no command cannot be
\* loaded.
Accepts(e) ==
  \/ e \in StartEvent
  \/ e \in SignalEvent /\ workflow[Target[e]] = "running"

\* Slip: a duplicate start is allowed (WORKFLOW_ID_REUSE_POLICY_ALLOW_DUPLICATE).
StartsRunAgain(c) == c \in StartEvent

StartsRun(c) == c \in StartEvent /\ workflow[c] = "none"

Effect(e) ==
  \/ /\ StartsRun(e)
     /\ workflow' = [workflow EXCEPT ![e] = "running"]
     /\ runs' = [runs EXCEPT ![e] = @ + 1]
     /\ UNCHANGED signals
  \/ /\ e \in StartEvent /\ ~StartsRun(e)
     /\ UNCHANGED temporalVars
  \/ /\ e \in SignalEvent
     /\ signals' = [signals EXCEPT ![e] = @ + 1]
     /\ UNCHANGED <<workflow, runs>>

Publish(w) ==
  /\ phase[w] = "publish"
  /\ \E e \in Event :
       /\ IsCurrent(w, e)
       /\ Accepts(e)
       /\ Effect(e)
  /\ phase' = [phase EXCEPT ![w] = "ack"]
  /\ UNCHANGED <<tableVars, held, faults>>

\* Slip: an error of loadCommand is not looked at before the Ack.
PublishRejectedIgnored(w) ==
  /\ phase[w] = "publish"
  /\ \E e \in Event : IsCurrent(w, e) /\ ~Accepts(e)
  /\ phase' = [phase EXCEPT ![w] = "ack"]
  /\ UNCHANGED <<tableVars, held, temporalVars, faults>>

\* loadCommand or Temporal rejects the row.
PublishRejected(w) ==
  /\ phase[w] = "publish"
  /\ \E e \in Event : IsCurrent(w, e) /\ ~Accepts(e)
  /\ phase' = [phase EXCEPT ![w] = "fail"]
  /\ UNCHANGED <<tableVars, held, temporalVars, faults>>

\* The call errs: its effect may have happened before the answer was lost.
PublishError(w) ==
  /\ phase[w] = "publish"
  /\ \E e \in Event :
       /\ IsCurrent(w, e)
       /\ (Accepts(e) /\ Effect(e)) \/ UNCHANGED temporalVars
  /\ phase' = [phase EXCEPT ![w] = "fail"]
  /\ Fault
  /\ UNCHANGED <<tableVars, held>>

\* Slip: Ack and Fail match the row by its id only.
OwnsAnyClaim(w, e) == row[e] = "pending"

\* UPDATE ... WHERE delivered_at IS NULL AND claim_token = $2.
OwnsClaim(w, e) == row[e] = "pending" /\ claim[e] = held[w][e]

NextRow(w, e) ==
  /\ held' = [held EXCEPT ![w][e] = NoToken]
  /\ phase' = [phase EXCEPT ![w] = IF Batch(w) = {e} THEN "idle" ELSE "publish"]

\* An error of Ack or Fail ends DispatchOnce: the rest of the batch is left
\* claimed until its claims go stale.
AbandonBatch(w) ==
  /\ held' = [held EXCEPT ![w] = NoBatch]
  /\ phase' = [phase EXCEPT ![w] = "idle"]

Ack(w) ==
  /\ phase[w] = "ack"
  /\ \E e \in Event :
       /\ IsCurrent(w, e)
       /\ OwnsClaim(w, e)
       /\ row' = [row EXCEPT ![e] = "delivered"]
       /\ claim' = [claim EXCEPT ![e] = NoToken]
       /\ expired' = [expired EXCEPT ![e] = FALSE]
       /\ NextRow(w, e)
  /\ UNCHANGED <<ready, temporalVars, faults>>

Fail(w) ==
  /\ phase[w] = "fail"
  /\ \E e \in Event :
       /\ IsCurrent(w, e)
       /\ OwnsClaim(w, e)
       /\ ready' = [ready EXCEPT ![e] = FALSE]
       /\ claim' = [claim EXCEPT ![e] = NoToken]
       /\ expired' = [expired EXCEPT ![e] = FALSE]
       /\ NextRow(w, e)
  /\ UNCHANGED <<row, temporalVars, faults>>

\* ErrClaimDrift, from Ack or from Fail.
ClaimDrift(w) ==
  /\ phase[w] \in {"ack", "fail"}
  /\ \E e \in Event : IsCurrent(w, e) /\ ~OwnsClaim(w, e)
  /\ AbandonBatch(w)
  /\ UNCHANGED <<tableVars, temporalVars, faults>>

\* The process dies, or the database refuses the Ack or Fail.
Crash(w) ==
  /\ phase[w] # "idle"
  /\ AbandonBatch(w)
  /\ Fault
  /\ UNCHANGED <<tableVars, temporalVars>>

\* now() passes available_at.
RetryDelayElapses(e) ==
  /\ ~ready[e]
  /\ ready' = [ready EXCEPT ![e] = TRUE]
  /\ UNCHANGED <<row, claim, expired, held, phase, temporalVars, faults>>

Holder(e) == {w \in Worker : held[w][e] = claim[e]}

\* now() passes claimed_at + staleAfter.  It is a fault only when the worker
\* that made the claim is still busy with it.
ClaimExpires(e) ==
  /\ claim[e] # NoToken
  /\ ~expired[e]
  /\ expired' = [expired EXCEPT ![e] = TRUE]
  /\ IF Holder(e) = {} THEN UNCHANGED faults ELSE Fault
  /\ UNCHANGED <<row, ready, claim, held, phase, temporalVars>>

WorkflowCloses(c) ==
  /\ workflow[c] = "running"
  /\ workflow' = [workflow EXCEPT ![c] = "closed"]
  /\ UNCHANGED <<tableVars, held, phase, runs, signals, faults>>

DispatchOnce(w) ==
  \/ ClaimBatch(w)
  \/ Publish(w)
  \/ PublishRejected(w)
  \/ PublishError(w)
  \/ Ack(w)
  \/ Fail(w)
  \/ ClaimDrift(w)
  \/ Crash(w)

Next ==
  \/ \E w \in Worker : DispatchOnce(w)
  \/ \E e \in Event : AppendOutbox(e) \/ RetryDelayElapses(e) \/ ClaimExpires(e)
  \/ \E c \in StartEvent : WorkflowCloses(c)

Spec == Init /\ [][Next]_vars

\* dispatchLoop keeps calling DispatchOnce, time passes, and a worker that
\* does not fault finishes its batch.  A retry delay (2 s and more) is longer
\* than the loop's tick (500 ms), so rows that keep failing cannot keep a row
\* out of every batch: strong fairness of the claims that take it.
Proceed(w) == Publish(w) \/ PublishRejected(w) \/ Ack(w) \/ Fail(w) \/ ClaimDrift(w)

ClaimTakes(e) == \E w \in Worker : ClaimBatch(w) /\ held'[w][e] # NoToken

Fairness ==
  /\ \A w \in Worker : WF_vars(Proceed(w))
  /\ \A e \in Event : /\ SF_vars(ClaimTakes(e))
                      /\ WF_vars(RetryDelayElapses(e))
                      /\ WF_vars(Holder(e) = {} /\ ClaimExpires(e))

FairSpec == Spec /\ Fairness

-----------------------------------------------------------------------------
Applied(e) ==
  \/ e \in StartEvent /\ workflow[e] # "none"
  \/ e \in SignalEvent /\ signals[e] > 0

\* A row is marked delivered only after Temporal saw its effect, whatever
\* crashed or was published twice on the way; rows that are no command are
\* never marked.
DeliveredWasApplied == \A e \in Event : row[e] = "delivered" => Applied(e)

\* One command starts one workflow run, however often it is published.
OneRunPerCommand == \A c \in StartEvent : runs[c] <= 1

\* What the safety properties rest on: only undelivered rows are claimed, a
\* batch is made of rows of the table, a worker acknowledges only what it
\* published, a workflow has as many runs as its state says, and a token is
\* held by one worker.
ClaimsArePending == \A e \in Event : claim[e] # NoToken => row[e] = "pending"

BatchesAreRows ==
  \A w \in Worker, e \in Event : held[w][e] # NoToken => row[e] # "absent"

AckFollowsEffect ==
  \A w \in Worker, e \in Event : phase[w] = "ack" /\ IsCurrent(w, e) => Applied(e)

RunsMatchWorkflow ==
  \A c \in StartEvent : runs[c] = IF workflow[c] = "none" THEN 0 ELSE 1

AppliedAreRows == \A e \in Event : Applied(e) => row[e] # "absent"

TokenExclusive ==
  \A e \in Event : \A v, w \in Worker :
    (v # w /\ held[v][e] # NoToken) => held[v][e] # held[w][e]

IInv ==
  /\ ClaimsArePending
  /\ BatchesAreRows
  /\ AckFollowsEffect
  /\ RunsMatchWorkflow
  /\ AppliedAreRows
  /\ DeliveredWasApplied
  /\ TokenExclusive

\* Each signal after the first is paid for by a crash, a lost answer or an
\* overdue batch: without one of them an event is published exactly once.
DuplicatesNeedFaults == \A e \in SignalEvent : signals[e] <= 1 + faults

\* A claimed row that is in no batch: nobody sees it until its claim is stale.
Orphans == {e \in Event : claim[e] # NoToken /\ Holder(e) = {}}

\* Rows are orphaned by faults only, and by each no more than one batch of
\* them: a worker gives up the rest of its batch when it dies or when it finds
\* that it was overtaken, and otherwise answers for every row that it claimed.
OrphansNeedFaults == Cardinality(Orphans) <= BatchLimit * faults

\* A claim that is not stale ends only by the hand of the worker that made
\* it: nobody else acknowledges, fails or re-claims the row.
LiveClaimIsRespected ==
  [][\A e \in Event :
       (claim[e] # NoToken /\ ~expired[e] /\ claim'[e] # claim[e])
         => \E w \in Worker : held[w][e] = claim[e] /\ held'[w][e] = NoToken]_vars

\* A delivered row is never claimed, failed or delivered again.
DeliveredIsFinal ==
  [][\A e \in Event : row[e] = "delivered" =>
        row'[e] = "delivered" /\ claim'[e] = NoToken]_vars

\* Every accepted command is eventually published and acknowledged, though
\* rows that can never be delivered stay in the table and keep being retried;
\* a signal may instead find its workflow closed.
CommandsAreDelivered ==
  /\ \A e \in StartEvent : row[e] = "pending" ~> row[e] = "delivered"
  /\ \A e \in SignalEvent :
       row[e] = "pending" ~> (row[e] = "delivered" \/ workflow[Target[e]] = "closed")

Contract == INSTANCE Delivery WITH
  accepted <- {e \in Event : row[e] # "absent"},
  applied <- {e \in Event : Applied(e)},
  delivered <- {e \in Event : row[e] = "delivered"}

\* The outbox implements the delivery contract.
ImplementsDelivery == Contract!Spec
=============================================================================

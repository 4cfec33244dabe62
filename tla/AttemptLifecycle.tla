-------------------------- MODULE AttemptLifecycle --------------------------
(***************************************************************************)
(* Who closes an attempt (platform/internal: dispatch/reconcile.go,        *)
(* dispatch/cancel_campaign.go, campaign/campaign.go, and the end of       *)
(* control/product_render.go).                                             *)
(*                                                                         *)
(* An attempt is OPEN until its workflow's last activity completes or      *)
(* qualifies it, or a reconciler finds that its workflow ended otherwise.  *)
(* Reconcilers are the loops of the worker processes and the operators who *)
(* cancel a research campaign; runners submit a campaign's members.  Each  *)
(* goes through a list of attempts in order of age with a query, a call of *)
(* Temporal and a transaction of its own for every one.                    *)
(***************************************************************************)
EXTENDS Integers, FiniteSets

CONSTANTS
  N,          \* attempts are 1 .. N, in the order of created_at
  Product,    \* attempts that compile up to the product closure
  Members,    \* members of the research campaign
  Loops,      \* worker processes with a reconcileLoop
  Operators,  \* operators who may cancel the campaign
  Runners,    \* calls of campaign.Run
  Limit,      \* how many candidates a loop takes
  MaxFaults   \* bound: calls that fail, crashes, purged workflows

Attempt == 1 .. N
Process == Loops \cup Operators \cup Runners

ASSUME LifecycleAssumption ==
  /\ N \in Nat /\ Limit \in Nat \ {0} /\ MaxFaults \in Nat
  /\ Product \subseteq Attempt /\ Members \subseteq Attempt \ Product
  /\ Loops \cap Operators = {} /\ (Loops \cup Operators) \cap Runners = {}

VARIABLES
  campaign,   \* research_campaigns.state
  confirmed,  \* an event CAMPAIGN_CANCELLATION_CONFIRMED was written
  final,      \* attempts.final_state
  commands,   \* how many commands name the attempt; 2 stands for more, too
  delivered,  \* attempts whose compile command's outbox row is delivered
  revisions,  \* attempts that sealed a product revision
  workflow,   \* Temporal: the status of the attempt's workflow
  purged,     \* Temporal: attempts whose workflow is past its retention
  canceled,   \* Temporal: attempts whose workflow was asked to cancel
  closing,    \* Temporal: attempts with a FinalizeCompile in flight
  waiting,    \* Temporal: attempts whose workflow waits for external evidence
  pc, todo,   \* where each process stands and what is left of its list
  bound,      \* the workflows an operator found running
  faults      \* counter for the bound

tables == <<campaign, confirmed, final, commands, delivered, revisions>>
temporal == <<workflow, purged, canceled, closing, waiting>>
vars == <<tables, temporal, pc, todo, bound, faults>>

TypeOK ==
  /\ campaign \in {"READY", "RUNNING", "SUBMIT_FAILED"}
  /\ confirmed \in BOOLEAN
  /\ final \in [Attempt -> {"OPEN", "COMPLETED", "QUALIFIED", "FAILED"}]
  /\ commands \in [Attempt -> 0 .. 2]
  /\ workflow \in [Attempt -> {"none", "running", "completed", "failed"}]
  /\ delivered \subseteq Attempt /\ revisions \subseteq Product
  /\ purged \subseteq Attempt /\ canceled \subseteq Members
  /\ closing \subseteq Attempt /\ waiting \subseteq Attempt
  /\ pc \in [Process -> {"idle", "submit", "ran", "scan", "cancel", "poll",
                         "collect", "describe", "close", "confirm"}]
  /\ todo \in [Process -> SUBSET Attempt]
  /\ bound \in [Operators -> SUBSET Members]
  /\ faults \in 0 .. MaxFaults

\* An attempt that is no member was created with its command.
Init ==
  /\ campaign = "READY" /\ confirmed = FALSE
  /\ final = [a \in Attempt |-> "OPEN"]
  /\ commands = [a \in Attempt |-> IF a \in Members THEN 0 ELSE 1]
  /\ workflow = [a \in Attempt |-> "none"]
  /\ delivered = {} /\ revisions = {} /\ purged = {} /\ canceled = {} /\ closing = {}
  /\ waiting = {}
  /\ pc = [p \in Process |-> "idle"]
  /\ todo = [p \in Process |-> {}]
  /\ bound = [o \in Operators |-> {}]
  /\ faults = 0

-----------------------------------------------------------------------------
(* The attempt's workflow.                                                 *)

Start(a) ==
  /\ commands[a] > 0 /\ workflow[a] = "none"
  /\ workflow' = [workflow EXCEPT ![a] = "running"]
  /\ UNCHANGED <<tables, purged, canceled, closing, waiting, pc, todo, bound, faults>>

\* The outbox acknowledges the compile command after it had its effect.
Acknowledge(a) ==
  /\ workflow[a] # "none" /\ a \notin delivered
  /\ delivered' = delivered \cup {a}
  /\ UNCHANGED <<campaign, confirmed, final, commands, revisions, temporal,
                 pc, todo, bound, faults>>

\* SubmitExternalStageReady: a second command of the attempt.
SubmitStageReady(a) ==
  /\ workflow[a] # "none" /\ final[a] = "OPEN"
  /\ commands' = [commands EXCEPT ![a] = 2]
  /\ UNCHANGED <<campaign, confirmed, final, delivered, revisions, temporal,
                 pc, todo, bound, faults>>

\* A stage waits for evidence.  An activity's Get returns at once in a
\* workflow that was asked to cancel, so such a one starts no wait.
WaitStarts(a) ==
  /\ workflow[a] = "running" /\ a \notin waiting \cup canceled \cup closing
  /\ final[a] = "OPEN"
  /\ waiting' = waiting \cup {a}
  /\ UNCHANGED <<tables, workflow, purged, canceled, closing, pc, todo, bound, faults>>

\* Nothing but a signal ends Receive: a request to cancel does not.
SignalArrives(a) ==
  /\ a \in waiting /\ commands[a] = 2
  /\ waiting' = waiting \ {a}
  /\ UNCHANGED <<tables, workflow, purged, canceled, closing, pc, todo, bound, faults>>

FinalizeStarts(a) ==
  /\ workflow[a] = "running" /\ a \notin waiting
  /\ closing' = closing \cup {a}
  /\ UNCHANGED <<tables, workflow, purged, canceled, waiting, pc, todo, bound, faults>>

\* Slip: the attempt is completed whatever became of it.
ClosedAsSlip(a) == IF a \in Product THEN "QUALIFIED" ELSE "COMPLETED"

\* Only the branch that seals a revision does not look at final_state.
ClosedAs(a) == IF a \in Product THEN "QUALIFIED"
               ELSE IF final[a] = "OPEN" THEN "COMPLETED" ELSE final[a]

Seals(a) == {a} \cap Product

\* FinalizeCompile commits; its answer may be lost, and it may come after
\* its workflow ended without it.
FinalizeCompile(a) ==
  /\ a \in closing
  /\ final' = [final EXCEPT ![a] = ClosedAs(a)]
  /\ revisions' = revisions \cup Seals(a)
  /\ closing' = closing \ {a}
  /\ \/ UNCHANGED workflow
     \/ workflow[a] = "running" /\ workflow' = [workflow EXCEPT ![a] = "completed"]
  /\ UNCHANGED <<campaign, confirmed, commands, delivered, purged, canceled,
                 waiting, pc, todo, bound, faults>>

\* FAILED, CANCELED, TERMINATED or TIMED_OUT; activities in flight go on.
\* A workflow that waits is terminated by hand or times out.
WorkflowFails(a) ==
  /\ workflow[a] = "running"
  /\ workflow' = [workflow EXCEPT ![a] = "failed"]
  /\ waiting' = waiting \ {a}
  /\ UNCHANGED <<tables, purged, canceled, closing, pc, todo, bound, faults>>

Purge(a) ==
  /\ workflow[a] \in {"completed", "failed"} /\ a \notin purged
  /\ faults < MaxFaults /\ faults' = faults + 1
  /\ purged' = purged \cup {a}
  /\ UNCHANGED <<tables, workflow, canceled, closing, waiting, pc, todo, bound>>

-----------------------------------------------------------------------------
(* Going through a list.                                                   *)

IsNext(p, a) == a \in todo[p] /\ \A b \in todo[p] : a <= b

\* p turns to the attempts of S, or to what comes after them.
Turn(p, S, place, after) ==
  /\ todo' = [todo EXCEPT ![p] = S]
  /\ pc' = [pc EXCEPT ![p] = IF S = {} THEN after ELSE place]

Return(p) == /\ todo' = [todo EXCEPT ![p] = {}]
             /\ pc' = [pc EXCEPT ![p] = "idle"]

\* An error, a deadline or a crash ends p's call wherever it stands.
Abort(p) ==
  /\ pc[p] # "idle"
  /\ faults < MaxFaults /\ faults' = faults + 1
  /\ Return(p)
  /\ UNCHANGED <<tables, temporal, bound>>

-----------------------------------------------------------------------------
(* reconcileFailedAttempts.                                                *)

Candidates == {a \in delivered : final[a] = "OPEN" /\ commands[a] = 1}

\* Slip: the youngest come first.
OldestSlip(S, n) == {a \in S : Cardinality({b \in S : b > a}) < n}

Oldest(S, n) == {a \in S : Cardinality({b \in S : b < a}) < n}

\* A loop's next round, or the last part of a cancellation.
Collect(p) ==
  /\ \/ p \in Loops /\ pc[p] = "idle"
        /\ Turn(p, Oldest(Candidates, Limit), "describe", "idle")
     \/ p \in Operators /\ pc[p] = "collect"
        /\ Turn(p, Candidates \cap Members, "describe", "confirm")
  /\ UNCHANGED <<tables, temporal, bound, faults>>

Reconciled(p, a) ==
  Turn(p, todo[p] \ {a}, "describe", IF p \in Operators THEN "confirm" ELSE "idle")

\* Slip: whatever has not completed has failed.
UnsuccessfulTerminalSlip(a) == workflow[a] # "completed"

UnsuccessfulTerminal(a) == workflow[a] = "failed"

\* A workflow that cannot be described ends the whole batch.
Describe(p) ==
  /\ pc[p] = "describe"
  /\ \E a \in Attempt :
       /\ IsNext(p, a)
       /\ \/ a \in purged /\ Return(p)
          \/ /\ a \notin purged /\ UnsuccessfulTerminal(a)
             /\ pc' = [pc EXCEPT ![p] = "close"] /\ UNCHANGED todo
          \/ a \notin purged /\ ~UnsuccessfulTerminal(a) /\ Reconciled(p, a)
  /\ UNCHANGED <<tables, temporal, bound, faults>>

\* Slip: the candidate is what the query saw.
StillOpenSlip(a) == TRUE

StillOpen(a) == final[a] = "OPEN"

\* The transaction that fails the attempt looks at its row again.
Close(p) ==
  /\ pc[p] = "close"
  /\ \E a \in Attempt :
       /\ IsNext(p, a)
       /\ \/ ~StillOpen(a) /\ Reconciled(p, a) /\ UNCHANGED final
          \/ StillOpen(a) /\ commands[a] # 1 /\ Return(p) /\ UNCHANGED final
          \/ /\ StillOpen(a) /\ commands[a] = 1
             /\ final' = [final EXCEPT ![a] = "FAILED"]
             /\ Reconciled(p, a)
  /\ UNCHANGED <<campaign, confirmed, commands, delivered, revisions, temporal,
                 bound, faults>>

-----------------------------------------------------------------------------
(* CancelResearchCampaign.                                                 *)

CancelBegins(o) ==
  /\ pc[o] = "idle"
  /\ Turn(o, Members, "scan", "poll")
  /\ bound' = [bound EXCEPT ![o] = {}]
  /\ UNCHANGED <<tables, temporal, faults>>

\* Slip: what the scan found running is not kept for the cancellation.
RunningSlip(o, a) == bound[o]

Running(o, a) == bound[o] \cup {m \in {a} : workflow[m] = "running"}

\* The whole scope is resolved and described before anything is canceled.
ScanMember(o) ==
  /\ pc[o] = "scan"
  /\ \E a \in Members :
       /\ IsNext(o, a)
       /\ IF commands[a] = 1 /\ a \in delivered /\ a \notin purged
          THEN /\ bound' = [bound EXCEPT ![o] = Running(o, a)]
               /\ IF todo[o] = {a} THEN Turn(o, Running(o, a), "cancel", "poll")
                  ELSE Turn(o, todo[o] \ {a}, "scan", "scan")
          ELSE Return(o) /\ UNCHANGED bound
  /\ UNCHANGED <<tables, temporal, faults>>

\* Temporal refuses to cancel a workflow that has closed by now.
CancelMember(o) ==
  /\ pc[o] = "cancel"
  /\ \E a \in Members :
       /\ IsNext(o, a)
       /\ IF workflow[a] = "running"
          THEN /\ canceled' = canceled \cup {a}
               /\ IF todo[o] = {a} THEN Turn(o, Members, "poll", "collect")
                  ELSE Turn(o, todo[o] \ {a}, "cancel", "cancel")
          ELSE Return(o) /\ UNCHANGED canceled
  /\ UNCHANGED <<tables, workflow, purged, closing, waiting, bound, faults>>

\* Slip: the request to cancel is taken for the end.
PollSlip(o) ==
  /\ pc[o] = "poll"
  /\ IF Members \cap purged # {} THEN Return(o)
     ELSE Turn(o, {}, "poll", "collect")
  /\ UNCHANGED <<tables, temporal, bound, faults>>

\* Nothing is closed before every workflow of the scope is.
Poll(o) ==
  /\ pc[o] = "poll"
  /\ IF Members \cap purged # {} THEN Return(o)
     ELSE /\ \A a \in Members : workflow[a] # "running"
          /\ Turn(o, {}, "poll", "collect")
  /\ UNCHANGED <<tables, temporal, bound, faults>>

Confirm(o) ==
  /\ pc[o] = "confirm"
  /\ confirmed' = TRUE
  /\ Return(o)
  /\ UNCHANGED <<campaign, final, commands, delivered, revisions, temporal,
                 bound, faults>>

-----------------------------------------------------------------------------
(* campaign.Run.                                                           *)

RunBegins(r) ==
  /\ pc[r] = "idle"
  /\ campaign \in {"READY", "RUNNING"}
  /\ Turn(r, Members, "submit", "ran")
  /\ UNCHANGED <<tables, temporal, bound, faults>>

\* SubmitCompile finds the member's command by its key or inserts it.
SubmitMember(r) ==
  /\ pc[r] = "submit"
  /\ \E a \in Members :
       /\ IsNext(r, a)
       /\ \/ commands[a] > 0 /\ UNCHANGED commands
          \/ /\ commands[a] = 0 /\ final[a] = "OPEN"
             /\ commands' = [commands EXCEPT ![a] = 1]
       /\ Turn(r, todo[r] \ {a}, "submit", "ran")
  /\ UNCHANGED <<campaign, confirmed, final, delivered, revisions, temporal,
                 bound, faults>>

\* Slip: the run goes on after a member it could not submit.
SubmitFailsSlip(r) ==
  /\ pc[r] = "submit"
  /\ faults < MaxFaults /\ faults' = faults + 1
  /\ \E a \in Members : IsNext(r, a) /\ Turn(r, todo[r] \ {a}, "submit", "ran")
  /\ UNCHANGED <<tables, temporal, bound>>

SubmitFails(r) ==
  /\ pc[r] = "submit"
  /\ faults < MaxFaults /\ faults' = faults + 1
  /\ campaign' = "SUBMIT_FAILED"
  /\ Return(r)
  /\ UNCHANGED <<confirmed, final, commands, delivered, revisions, temporal, bound>>

RunEnds(r) ==
  /\ pc[r] = "ran"
  /\ campaign' = "RUNNING"
  /\ Return(r)
  /\ UNCHANGED <<confirmed, final, commands, delivered, revisions, temporal,
                 bound, faults>>

-----------------------------------------------------------------------------

Workflow(a) ==
  \/ Start(a) \/ Acknowledge(a) \/ SubmitStageReady(a) \/ WaitStarts(a)
  \/ SignalArrives(a) \/ FinalizeStarts(a) \/ FinalizeCompile(a) \/ WorkflowFails(a) \/ Purge(a)

ReconcileFailedAttempts(p) == Collect(p) \/ Describe(p) \/ Close(p)

\* Past its begin, which is the operator's.
CancelResearchCampaign(o) ==
  \/ ScanMember(o) \/ CancelMember(o) \/ Poll(o) \/ Confirm(o)
  \/ ReconcileFailedAttempts(o)

Run(r) == RunBegins(r) \/ SubmitMember(r) \/ SubmitFails(r) \/ RunEnds(r)

Next ==
  \/ \E a \in Attempt : Workflow(a)
  \/ \E l \in Loops : ReconcileFailedAttempts(l)
  \/ \E o \in Operators : CancelBegins(o) \/ CancelResearchCampaign(o)
  \/ \E r \in Runners : Run(r)
  \/ \E p \in Process : Abort(p)

Spec == Init /\ [][Next]_vars

\* Commands are delivered (Outbox), a workflow asked to cancel ends unless it
\* stands in Receive, loops poll, and an operator's call runs until it
\* returns.  Neither the call's deadline (90 s) nor the execution timeout of a
\* workflow (7 days) has to come: both are there to end what hangs.
Fairness ==
  /\ \A a \in Attempt : WF_vars(Start(a)) /\ WF_vars(Acknowledge(a))
                     /\ WF_vars(a \in canceled \ waiting /\ WorkflowFails(a))
  /\ \A l \in Loops : WF_vars(ReconcileFailedAttempts(l))
  /\ \A o \in Operators : WF_vars(CancelResearchCampaign(o))

FairSpec == Spec /\ Fairness

-----------------------------------------------------------------------------

\* "Running, unknown and successful workflows are never failed by this
\* mechanism" (docs/platform/DEVELOPER_HOST.md:113).
FailedOnWitness == \A a \in Attempt : final[a] = "FAILED" => workflow[a] = "failed"

\* A sealed revision's attempt stays qualified, although its workflow may
\* end badly while the closure commits and a reconciler stands between its
\* witness and its update.
RevisionIsQualified == \A a \in revisions : final[a] = "QUALIFIED"

\* A confirmed cancellation leaves no member's workflow running and no
\* member open, except one whose evidence command came in meanwhile: the
\* reconciler (reconcile.go:61) passes over it without a word.
ConfirmedIsClosed ==
  confirmed => \A a \in Members :
    /\ workflow[a] \in {"completed", "failed"}
    /\ final[a] = "OPEN" => commands[a] # 1

\* A campaign that says RUNNING has a command for every member, whichever
\* calls of Run failed half way.
RunningIsSubmitted == campaign = "RUNNING" => \A a \in Members : commands[a] > 0

Contract == INSTANCE Closure

\* Lists read long before they are worked off, calls that die half way and
\* processes that overtake each other are as good as one atomic judgement: who
\* closes an attempt, confirms a cancellation or calls a campaign RUNNING does
\* so in a state where the ground for it holds.  One closed attempt changes,
\* for a closure in flight qualifies a product that was failed meanwhile
\* (product_render.go:250 and 291 do not look at final_state).
ImplementsClosure == Contract!Spec

\* What keeps a loop from an attempt: older candidates, enough to fill the
\* batch or one that cannot be described.
Starved(a) ==
  LET older == {b \in Candidates : b < a}
  IN  Cardinality(older) >= Limit \/ older \cap purged # {}

\* No attempt that one command started and whose workflow failed stays open
\* for ever, unless older candidates starve it.
FailuresClose ==
  \A a \in Attempt :
    []<>~(/\ final[a] = "OPEN" /\ commands[a] = 1
          /\ workflow[a] = "failed" /\ a \notin purged /\ ~Starved(a))

\* A cancellation polls until every workflow it found running is terminal.
\* It comes to its end without its deadline, whatever closes, is signalled or
\* purged meanwhile, unless a member it asked to cancel waits for evidence that
\* never comes: workflows.go:126 receives without looking at the cancellation.
CancellationEnds ==
  \A o \in Operators :
    []<>(pc[o] = "idle") \/ \E a \in Members : <>[](a \in canceled \cap waiting)
=============================================================================

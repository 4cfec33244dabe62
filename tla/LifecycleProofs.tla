-------------------------- MODULE LifecycleProofs --------------------------
(***************************************************************************)
(* What holds of AttemptLifecycle for any attempts, processes, batch size  *)
(* and faults.  The tables only move one way (Grows), so what a process    *)
(* knows of the attempts behind it in its list stays true while others     *)
(* act; every step then has to be looked at for its own process only.      *)
(***************************************************************************)
EXTENDS AttemptLifecycle, TLAPS

Settled(a) == workflow[a] \in {"completed", "failed"}
Shut(a) == final[a] = "OPEN" => commands[a] = 2

Outcome(a) ==
  /\ final[a] = "FAILED" => workflow[a] = "failed"
  /\ workflow[a] = "completed" => final[a] # "OPEN"
  /\ final[a] = "COMPLETED" => a \notin Product
  /\ workflow[a] # "none" => commands[a] > 0
  /\ a \in delivered => workflow[a] # "none"
  /\ a \in revisions => final[a] = "QUALIFIED"

\* What process p has seen of the attempts in its list and behind it.
Reconciling(p) ==
  \A a \in Attempt : pc[p] = "close" /\ IsNext(p, a) => workflow[a] = "failed"

Canceling(o) ==
  /\ todo[o] \subseteq Members
  /\ pc[o] = "scan" => Members \ todo[o] \subseteq delivered
  /\ pc[o] \in {"cancel", "poll", "collect", "describe", "close", "confirm"}
       => Members \subseteq delivered
  /\ pc[o] \in {"collect", "describe", "close", "confirm"}
       => \A a \in Members : Settled(a)
  /\ pc[o] \in {"describe", "close"} => \A a \in Members \ todo[o] : Shut(a)
  /\ pc[o] = "confirm" => \A a \in Members : Shut(a)

Submitting(r) ==
  /\ pc[r] = "submit" => \A a \in Members \ todo[r] : commands[a] > 0
  /\ pc[r] = "ran" => \A a \in Members : commands[a] > 0

Knows(p) == /\ Reconciling(p)
            /\ p \in Operators => Canceling(p)
            /\ p \in Runners => Submitting(p)

LifecycleInvariant ==
  /\ TypeOK
  /\ \A a \in Attempt : Outcome(a)
  /\ \A p \in Process : Knows(p)
  /\ confirmed => \A a \in Members : Settled(a) /\ Shut(a)
  /\ RunningIsSubmitted

\* The tables and Temporal move one way.
Grows ==
  /\ delivered \subseteq delivered'
  /\ \A a \in Attempt :
       /\ commands[a] > 0 => commands'[a] > 0
       /\ commands[a] = 2 => commands'[a] = 2
       /\ final[a] # "OPEN" => final'[a] # "OPEN"
       /\ Settled(a) => workflow'[a] = workflow[a]

Local(p) == \A q \in Process \ {p} : pc'[q] = pc[q] /\ todo'[q] = todo[q]

LEMMA InitHolds == Init => LifecycleInvariant
  <1>1. ASSUME Init PROVE TypeOK
    <2>1. /\ commands \in [Attempt -> 0 .. 2]
          /\ final \in [Attempt -> {"OPEN", "COMPLETED", "QUALIFIED", "FAILED"}]
          /\ workflow \in [Attempt -> {"none", "running", "completed", "failed"}]
      BY <1>1 DEF Init
    <2>2. /\ todo \in [Process -> SUBSET Attempt]
          /\ bound \in [Operators -> SUBSET Members]
          /\ \A p \in Process : pc[p] = "idle"
      BY <1>1 DEF Init
    <2>3. pc \in [Process -> {"idle", "submit", "ran", "scan", "cancel", "poll",
                             "collect", "describe", "close", "confirm"}]
      BY <1>1 DEF Init
    <2>4. faults \in 0 .. MaxFaults
      BY <1>1, LifecycleAssumption DEF Init
    <2> QED BY <1>1, <2>1, <2>2, <2>3, <2>4 DEF Init, TypeOK
  <1>2. ASSUME Init PROVE /\ \A a \in Attempt : Outcome(a)
                          /\ \A p \in Process : Knows(p)
                          /\ confirmed => \A a \in Members : Settled(a) /\ Shut(a)
                          /\ RunningIsSubmitted
    BY <1>2 DEF Init, Outcome, Knows, Reconciling, Canceling, Submitting,
                RunningIsSubmitted, Process
  <1> QED BY <1>1, <1>2 DEF LifecycleInvariant

-----------------------------------------------------------------------------
(* What others know survives a step that lets the tables grow.             *)

LEMMA KnowledgeKeeps ==
  ASSUME TypeOK, Grows, NEW p \in Process, Knows(p),
         pc'[p] = pc[p], todo'[p] = todo[p]
  PROVE  Knows(p)'
  <1>1. Reconciling(p)'
    BY DEF Knows, Reconciling, IsNext, Grows, Settled
  <1>2. Members \subseteq Attempt
    BY LifecycleAssumption
  <1>3. ASSUME NEW a \in Attempt, Shut(a) PROVE Shut(a)'
    BY <1>3 DEF Shut, Grows
  <1>4. ASSUME NEW a \in Attempt, Settled(a) PROVE Settled(a)'
    BY <1>4 DEF Settled, Grows
  <1>5. ASSUME p \in Operators PROVE Canceling(p)'
    BY <1>5, <1>2, <1>3, <1>4 DEF Knows, Canceling, Grows
  <1>6. ASSUME p \in Runners PROVE Submitting(p)'
    BY <1>6, <1>2 DEF Knows, Submitting, Grows
  <1> QED BY <1>1, <1>5, <1>6 DEF Knows

LEMMA OthersKnow ==
  ASSUME LifecycleInvariant, Grows, NEW p \in Process, Local(p), Knows(p)'
  PROVE  \A q \in Process : Knows(q)'
  BY KnowledgeKeeps DEF LifecycleInvariant, Local

LEMMA AllKnow ==
  ASSUME LifecycleInvariant, Grows, UNCHANGED <<pc, todo>>
  PROVE  \A q \in Process : Knows(q)'
  BY KnowledgeKeeps DEF LifecycleInvariant

LEMMA ConfirmedKeeps ==
  ASSUME LifecycleInvariant, Grows, confirmed' = confirmed
  PROVE  (confirmed => \A a \in Members : Settled(a) /\ Shut(a))'
  BY LifecycleAssumption DEF LifecycleInvariant, Grows, Settled, Shut

LEMMA CampaignKeeps ==
  ASSUME LifecycleInvariant, Grows, campaign' \in {campaign, "SUBMIT_FAILED"}
  PROVE  RunningIsSubmitted'
  BY LifecycleAssumption DEF LifecycleInvariant, Grows, RunningIsSubmitted

LEMMA TableStep ==
  ASSUME LifecycleInvariant, TypeOK', Grows, \A a \in Attempt : Outcome(a)',
         UNCHANGED <<pc, todo, campaign, confirmed>>
  PROVE  LifecycleInvariant'
  BY AllKnow, ConfirmedKeeps, CampaignKeeps DEF LifecycleInvariant

LEMMA ProcessStep ==
  ASSUME LifecycleInvariant, TypeOK', Grows, \A a \in Attempt : Outcome(a)',
         NEW p \in Process, Local(p), Knows(p)',
         \/ confirmed' = confirmed
         \/ \A a \in Members : Settled(a)' /\ Shut(a)',
         campaign' \in {campaign, "SUBMIT_FAILED"} \/ RunningIsSubmitted'
  PROVE  LifecycleInvariant'
  BY OthersKnow, ConfirmedKeeps, CampaignKeeps DEF LifecycleInvariant

\* Steps that leave the tables and Temporal alone.
LEMMA QuietStep ==
  ASSUME LifecycleInvariant, UNCHANGED <<final, commands, delivered, revisions, workflow>>
  PROVE  Grows /\ \A a \in Attempt : Outcome(a)'
  BY DEF LifecycleInvariant, Grows, Outcome, Settled

-----------------------------------------------------------------------------
(* The attempt's workflow.                                                 *)

LEMMA WorkflowStep ==
  ASSUME LifecycleInvariant, NEW a \in Attempt, Workflow(a)
  PROVE  LifecycleInvariant'
  <1> USE DEF LifecycleInvariant
  <1>1. CASE Start(a)
    <2>1. TypeOK'
      BY <1>1 DEF Start, TypeOK, tables
    <2>2. Grows
      BY <1>1 DEF Start, TypeOK, tables, Grows, Settled
    <2>3. \A b \in Attempt : Outcome(b)'
      BY <1>1 DEF Start, TypeOK, tables, Outcome
    <2> QED BY <1>1, <2>1, <2>2, <2>3, TableStep DEF Start, tables
  <1>2. CASE Acknowledge(a)
    <2>1. TypeOK'
      BY <1>2 DEF Acknowledge, TypeOK, temporal
    <2>2. Grows
      BY <1>2 DEF Acknowledge, temporal, Grows, Settled
    <2>3. \A b \in Attempt : Outcome(b)'
      BY <1>2 DEF Acknowledge, temporal, Outcome
    <2> QED BY <1>2, <2>1, <2>2, <2>3, TableStep DEF Acknowledge
  <1>3. CASE SubmitStageReady(a)
    <2>1. TypeOK'
      BY <1>3 DEF SubmitStageReady, TypeOK, temporal
    <2>2. Grows
      BY <1>3 DEF SubmitStageReady, TypeOK, temporal, Grows, Settled
    <2>3. \A b \in Attempt : Outcome(b)'
      BY <1>3 DEF SubmitStageReady, TypeOK, temporal, Outcome
    <2> QED BY <1>3, <2>1, <2>2, <2>3, TableStep DEF SubmitStageReady
  <1>4. CASE FinalizeStarts(a)
    <2>1. TypeOK'
      BY <1>4 DEF FinalizeStarts, TypeOK, tables
    <2> QED BY <1>4, <2>1, QuietStep, TableStep DEF FinalizeStarts, tables
  <1>5. CASE FinalizeCompile(a)
    <2>1. TypeOK'
      BY <1>5 DEF FinalizeCompile, TypeOK, ClosedAs, Seals
    <2>2. Grows
      BY <1>5 DEF FinalizeCompile, TypeOK, ClosedAs, Grows, Settled
    <2>3. \A b \in Attempt : Outcome(b)'
      BY <1>5 DEF FinalizeCompile, TypeOK, ClosedAs, Seals, Outcome
    <2> QED BY <1>5, <2>1, <2>2, <2>3, TableStep DEF FinalizeCompile
  <1>6. CASE WorkflowFails(a)
    <2>1. TypeOK'
      BY <1>6 DEF WorkflowFails, TypeOK, tables
    <2>2. Grows
      BY <1>6 DEF WorkflowFails, TypeOK, tables, Grows, Settled
    <2>3. \A b \in Attempt : Outcome(b)'
      BY <1>6 DEF WorkflowFails, TypeOK, tables, Outcome
    <2> QED BY <1>6, <2>1, <2>2, <2>3, TableStep DEF WorkflowFails, tables
  <1>7. CASE Purge(a)
    <2>1. TypeOK'
      BY <1>7, LifecycleAssumption DEF Purge, TypeOK, tables
    <2> QED BY <1>7, <2>1, QuietStep, TableStep DEF Purge, tables
  <1>8. CASE WaitStarts(a) \/ SignalArrives(a)
    <2>1. TypeOK'
      BY <1>8 DEF WaitStarts, SignalArrives, TypeOK, tables
    <2>2. UNCHANGED <<tables, workflow, pc, todo>>
      BY <1>8 DEF WaitStarts, SignalArrives
    <2> QED BY <2>1, <2>2, QuietStep, TableStep DEF tables
  <1> QED BY <1>1, <1>2, <1>3, <1>4, <1>5, <1>6, <1>7, <1>8 DEF Workflow

-----------------------------------------------------------------------------
(* Going through a list.                                                   *)

Place == {"idle", "submit", "ran", "scan", "cancel", "poll", "collect",
          "describe", "close", "confirm"}

LEMMA TurnFacts ==
  ASSUME TypeOK, NEW p \in Process, NEW S \in SUBSET Attempt,
         NEW place \in Place, NEW after \in Place, Turn(p, S, place, after)
  PROVE  /\ todo' \in [Process -> SUBSET Attempt]
         /\ pc' \in [Process -> Place]
         /\ Local(p)
         /\ todo'[p] = S
         /\ pc'[p] = IF S = {} THEN after ELSE place
  BY DEF TypeOK, Turn, Local, Place

LEMMA ReturnFacts ==
  ASSUME TypeOK, NEW p \in Process, Return(p)
  PROVE  /\ todo' \in [Process -> SUBSET Attempt]
         /\ pc' \in [Process -> Place]
         /\ Local(p)
         /\ todo'[p] = {} /\ pc'[p] = "idle"
  BY DEF TypeOK, Return, Local, Place

LEMMA IdleKnows ==
  ASSUME NEW p \in Process, todo'[p] = {}, pc'[p] = "idle"
  PROVE  Knows(p)'
  BY DEF Knows, Reconciling, Canceling, Submitting

LEMMA AbortStep ==
  ASSUME LifecycleInvariant, NEW p \in Process, Abort(p)
  PROVE  LifecycleInvariant'
  <1> USE DEF LifecycleInvariant
  <1>1. Return(p) /\ UNCHANGED <<tables, temporal, bound>>
    BY DEF Abort
  <1>2. faults' \in 0 .. MaxFaults
    BY LifecycleAssumption DEF Abort, TypeOK
  <1>3. TypeOK'
    BY <1>1, <1>2, ReturnFacts DEF TypeOK, tables, temporal, Place
  <1>4. Local(p) /\ Knows(p)'
    BY <1>1, ReturnFacts, IdleKnows
  <1> QED BY <1>1, <1>3, <1>4, QuietStep, ProcessStep DEF tables, temporal

-----------------------------------------------------------------------------
(* reconcileFailedAttempts.                                                *)

LEMMA ProcessSets ==
  /\ Loops \subseteq Process /\ Operators \subseteq Process /\ Runners \subseteq Process
  /\ \A l \in Loops : l \notin Operators /\ l \notin Runners
  /\ \A o \in Operators : o \notin Loops /\ o \notin Runners
  /\ \A r \in Runners : r \notin Loops /\ r \notin Operators
  BY LifecycleAssumption DEF Process

LEMMA CollectStep ==
  ASSUME LifecycleInvariant, NEW p \in Loops \cup Operators, Collect(p)
  PROVE  LifecycleInvariant'
  <1> USE DEF LifecycleInvariant
  <1>1. p \in Process /\ p \notin Runners
    BY ProcessSets
  <1>2. UNCHANGED <<tables, temporal, bound, faults>>
    BY DEF Collect
  <1>3. Candidates \subseteq Attempt /\ Oldest(Candidates, Limit) \subseteq Attempt
    BY DEF Candidates, Oldest, TypeOK
  <1>4. CASE p \in Loops /\ Turn(p, Oldest(Candidates, Limit), "describe", "idle")
    <2>1. TypeOK' /\ Local(p) /\ pc'[p] \in {"describe", "idle"}
      BY <1>1, <1>2, <1>3, <1>4, TurnFacts DEF TypeOK, tables, temporal, Place
    <2>2. Knows(p)'
      BY <2>1, <1>1, <1>4, ProcessSets DEF Knows, Reconciling
    <2> QED BY <1>1, <1>2, <2>1, <2>2, QuietStep, ProcessStep DEF tables, temporal
  <1>5. CASE /\ p \in Operators /\ pc[p] = "collect"
             /\ Turn(p, Candidates \cap Members, "describe", "confirm")
    <2> DEFINE S == Candidates \cap Members
    <2>1. S \in SUBSET Attempt
      BY <1>3
    <2>2. TypeOK /\ Turn(p, S, "describe", "confirm")
          /\ "describe" \in Place /\ "confirm" \in Place
      BY <1>5 DEF Place
    <2>3. /\ todo' \in [Process -> SUBSET Attempt] /\ pc' \in [Process -> Place]
          /\ Local(p) /\ todo'[p] = S
          /\ pc'[p] = IF S = {} THEN "confirm" ELSE "describe"
      BY <1>1, <2>1, <2>2, TurnFacts
    <2>4. /\ TypeOK' /\ Local(p) /\ todo'[p] = S
          /\ pc'[p] = IF S = {} THEN "confirm" ELSE "describe"
      BY <1>2, <2>2, <2>3 DEF TypeOK, tables, temporal, Place
    <2>5. /\ Members \subseteq delivered
          /\ \A a \in Members : Settled(a)
      BY <1>1, <1>5 DEF Knows, Canceling
    <2>6. \A a \in Members \ S : Shut(a)
      BY <2>5, LifecycleAssumption DEF Candidates, Shut, Settled, Outcome, TypeOK
    <2>7. Canceling(p)'
      BY <1>2, <2>4, <2>5, <2>6 DEF Canceling, tables, temporal, Settled, Shut
    <2>8. Knows(p)'
      BY <1>1, <2>4, <2>7 DEF Knows, Reconciling
    <2> QED BY <1>1, <1>2, <2>4, <2>8, QuietStep, ProcessStep DEF tables, temporal
  <1> QED BY <1>4, <1>5 DEF Collect

\* After attempt a is dealt with: nothing else of the list is forgotten.
LEMMA ReconciledKnows ==
  ASSUME LifecycleInvariant, Grows, NEW p \in Loops \cup Operators,
         pc[p] \in {"describe", "close"},
         NEW a \in Attempt, IsNext(p, a), Reconciled(p, a),
         p \in Operators => Shut(a)'
  PROVE  Local(p) /\ Knows(p)' /\ todo' \in [Process -> SUBSET Attempt]
         /\ pc' \in [Process -> Place]
  <1> USE DEF LifecycleInvariant
  <1>1. p \in Process /\ p \notin Runners
    BY ProcessSets
  <1> DEFINE S == todo[p] \ {a}
             After == IF p \in Operators THEN "confirm" ELSE "idle"
  <1>2. S \in SUBSET Attempt /\ After \in Place /\ "describe" \in Place
    BY <1>1 DEF TypeOK, Place
  <1>3. Turn(p, S, "describe", After)
    BY DEF Reconciled
  <1>4. /\ todo' \in [Process -> SUBSET Attempt] /\ pc' \in [Process -> Place]
        /\ Local(p) /\ todo'[p] = S
        /\ pc'[p] = IF S = {} THEN After ELSE "describe"
    BY <1>1, <1>2, <1>3, TurnFacts
  <1>5. ASSUME p \in Operators PROVE Canceling(p)'
    <2>1. /\ S \subseteq Members /\ Members \subseteq delivered
          /\ \A b \in Members : Settled(b)
          /\ \A b \in Members \ todo[p] : Shut(b)
      BY <1>1, <1>5 DEF Knows, Canceling
    <2>2. \A b \in Members : Settled(b)'
      BY <2>1, LifecycleAssumption DEF Grows, Settled
    <2>3. \A b \in Members \ S : Shut(b)'
      BY <2>1, <1>5, LifecycleAssumption DEF Grows, Shut
    <2>4. Members \subseteq delivered'
      BY <2>1 DEF Grows
    <2> QED BY <1>4, <1>5, <2>1, <2>2, <2>3, <2>4 DEF Canceling
  <1>6. Reconciling(p)'
    BY <1>4 DEF Reconciling
  <1> QED BY <1>1, <1>4, <1>5, <1>6 DEF Knows

LEMMA DescribeStep ==
  ASSUME LifecycleInvariant, NEW p \in Loops \cup Operators, Describe(p)
  PROVE  LifecycleInvariant'
  <1> USE DEF LifecycleInvariant
  <1>1. p \in Process /\ p \notin Runners
    BY ProcessSets
  <1>2. UNCHANGED <<tables, temporal, bound, faults>> /\ pc[p] = "describe"
    BY DEF Describe
  <1>3. Grows /\ \A a \in Attempt : Outcome(a)'
    BY <1>2, QuietStep DEF tables, temporal
  <1>4. PICK a \in Attempt :
          /\ IsNext(p, a)
          /\ \/ Return(p)
             \/ /\ UnsuccessfulTerminal(a)
                /\ pc' = [pc EXCEPT ![p] = "close"] /\ UNCHANGED todo
             \/ ~UnsuccessfulTerminal(a) /\ Reconciled(p, a)
    BY DEF Describe
  <1>5. CASE Return(p)
    <2>1. TypeOK' /\ Local(p) /\ Knows(p)'
      BY <1>1, <1>2, <1>5, ReturnFacts, IdleKnows DEF TypeOK, tables, temporal, Place
    <2> QED BY <1>1, <1>2, <1>3, <2>1, ProcessStep DEF tables
  <1>6. CASE /\ UnsuccessfulTerminal(a)
             /\ pc' = [pc EXCEPT ![p] = "close"] /\ UNCHANGED todo
    <2>1. TypeOK' /\ Local(p) /\ pc'[p] = "close" /\ todo'[p] = todo[p]
      BY <1>1, <1>2, <1>6 DEF TypeOK, tables, temporal, Local
    <2>2. Reconciling(p)'
      <3>1. \A b \in Attempt : IsNext(p, b) => b = a
        BY <1>4 DEF IsNext, Attempt
      <3> QED BY <1>2, <1>6, <2>1, <3>1 DEF Reconciling, IsNext, temporal,
                                            UnsuccessfulTerminal
    <2>3. p \in Operators => Canceling(p)'
      BY <1>1, <1>2, <2>1 DEF Knows, Canceling, tables, temporal, Settled, Shut
    <2> QED BY <1>1, <1>2, <1>3, <2>1, <2>2, <2>3, ProcessStep DEF Knows, tables
  <1>7. CASE ~UnsuccessfulTerminal(a) /\ Reconciled(p, a)
    <2>1. p \in Operators => Shut(a)'
      BY <1>1, <1>2, <1>4, <1>7 DEF Knows, Canceling, IsNext, Settled, Outcome, Shut,
                                    tables, UnsuccessfulTerminal
    <2>2. Local(p) /\ Knows(p)' /\ todo' \in [Process -> SUBSET Attempt]
          /\ pc' \in [Process -> Place]
      BY <1>2, <1>3, <1>4, <1>7, <2>1, ReconciledKnows
    <2>3. TypeOK'
      BY <1>2, <2>2 DEF TypeOK, tables, temporal, Place
    <2> QED BY <1>1, <1>2, <1>3, <2>2, <2>3, ProcessStep DEF tables
  <1> QED BY <1>4, <1>5, <1>6, <1>7

LEMMA CloseStep ==
  ASSUME LifecycleInvariant, NEW p \in Loops \cup Operators, Close(p)
  PROVE  LifecycleInvariant'
  <1> USE DEF LifecycleInvariant
  <1>1. p \in Process /\ p \notin Runners
    BY ProcessSets
  <1>2. /\ pc[p] = "close"
        /\ UNCHANGED <<campaign, confirmed, commands, delivered, revisions,
                       temporal, bound, faults>>
    BY DEF Close
  <1>3. PICK a \in Attempt :
          /\ IsNext(p, a)
          /\ \/ ~StillOpen(a) /\ Reconciled(p, a) /\ UNCHANGED final
             \/ Return(p) /\ UNCHANGED final
             \/ /\ StillOpen(a)
                /\ final' = [final EXCEPT ![a] = "FAILED"]
                /\ Reconciled(p, a)
    BY DEF Close
  <1>4. CASE ~StillOpen(a) /\ Reconciled(p, a) /\ UNCHANGED final
    <2>1. Grows /\ \A b \in Attempt : Outcome(b)'
      BY <1>2, <1>4, QuietStep DEF temporal
    <2>2. Local(p) /\ Knows(p)' /\ todo' \in [Process -> SUBSET Attempt]
          /\ pc' \in [Process -> Place]
      BY <1>2, <1>3, <1>4, <2>1, ReconciledKnows DEF Shut, StillOpen
    <2>3. TypeOK'
      BY <1>2, <1>4, <2>2 DEF TypeOK, temporal, Place
    <2> QED BY <1>1, <1>2, <2>1, <2>2, <2>3, ProcessStep
  <1>5. CASE Return(p) /\ UNCHANGED final
    <2>1. Grows /\ \A b \in Attempt : Outcome(b)'
      BY <1>2, <1>5, QuietStep DEF temporal
    <2>2. TypeOK' /\ Local(p) /\ Knows(p)'
      BY <1>1, <1>2, <1>5, ReturnFacts, IdleKnows DEF TypeOK, temporal, Place
    <2> QED BY <1>1, <1>2, <2>1, <2>2, ProcessStep
  <1>6. CASE /\ StillOpen(a)
             /\ final' = [final EXCEPT ![a] = "FAILED"]
             /\ Reconciled(p, a)
    <2>1. workflow[a] = "failed"
      BY <1>1, <1>2, <1>3 DEF Knows, Reconciling
    <2>2. Grows
      BY <1>2, <1>6 DEF TypeOK, Grows, temporal, Settled
    <2>3. \A b \in Attempt : Outcome(b)'
      BY <1>2, <1>6, <2>1 DEF TypeOK, Outcome, StillOpen, temporal
    <2>4. Shut(a)'
      BY <1>6 DEF TypeOK, Shut
    <2>5. Local(p) /\ Knows(p)' /\ todo' \in [Process -> SUBSET Attempt]
          /\ pc' \in [Process -> Place]
      BY <1>2, <1>3, <1>6, <2>2, <2>4, ReconciledKnows
    <2>6. TypeOK'
      BY <1>2, <1>6, <2>5 DEF TypeOK, temporal, Place
    <2> QED BY <1>1, <1>2, <2>2, <2>3, <2>5, <2>6, ProcessStep
  <1> QED BY <1>3, <1>4, <1>5, <1>6

-----------------------------------------------------------------------------
(* CancelResearchCampaign.                                                 *)

LEMMA CancelBeginsStep ==
  ASSUME LifecycleInvariant, NEW o \in Operators, CancelBegins(o)
  PROVE  LifecycleInvariant'
  <1> USE DEF LifecycleInvariant
  <1>1. o \in Process /\ o \notin Runners
    BY ProcessSets
  <1>2. Members \in SUBSET Attempt /\ "scan" \in Place /\ "poll" \in Place
    BY LifecycleAssumption DEF Place
  <1>3. /\ todo' \in [Process -> SUBSET Attempt] /\ pc' \in [Process -> Place]
        /\ Local(o) /\ todo'[o] = Members
        /\ pc'[o] = IF Members = {} THEN "poll" ELSE "scan"
    BY <1>1, <1>2, TurnFacts DEF CancelBegins
  <1>4. TypeOK'
    BY <1>3 DEF CancelBegins, TypeOK, tables, temporal, Place
  <1>5. Knows(o)'
    BY <1>1, <1>3 DEF Knows, Reconciling, Canceling
  <1> QED BY <1>1, <1>3, <1>4, <1>5, QuietStep, ProcessStep
          DEF CancelBegins, tables, temporal

LEMMA ScanMemberStep ==
  ASSUME LifecycleInvariant, NEW o \in Operators, ScanMember(o)
  PROVE  LifecycleInvariant'
  <1> USE DEF LifecycleInvariant
  <1>1. /\ o \in Process /\ o \notin Runners
        /\ pc[o] = "scan" /\ UNCHANGED <<tables, temporal, faults>>
    BY ProcessSets DEF ScanMember
  <1>2. PICK a \in Members :
          /\ IsNext(o, a)
          /\ \/ /\ a \in delivered
                /\ bound' = [bound EXCEPT ![o] = Running(o, a)]
                /\ \/ todo[o] = {a} /\ Turn(o, Running(o, a), "cancel", "poll")
                   \/ todo[o] # {a} /\ Turn(o, todo[o] \ {a}, "scan", "scan")
             \/ Return(o) /\ UNCHANGED bound
    BY DEF ScanMember
  <1>3. Running(o, a) \subseteq Members /\ Members \subseteq Attempt
    BY LifecycleAssumption DEF Running, TypeOK
  <1>4. /\ todo[o] \in SUBSET Attempt /\ todo[o] \subseteq Members
        /\ Members \ todo[o] \subseteq delivered
    BY <1>1 DEF TypeOK, Knows, Canceling
  <1>5. Grows /\ \A b \in Attempt : Outcome(b)'
    BY <1>1, QuietStep DEF tables, temporal
  <1>6. "cancel" \in Place /\ "poll" \in Place /\ "scan" \in Place
    BY DEF Place
  <1>7. CASE Return(o) /\ UNCHANGED bound
    <2>1. TypeOK' /\ Local(o) /\ Knows(o)'
      BY <1>1, <1>7, ReturnFacts, IdleKnows DEF TypeOK, tables, temporal, Place
    <2> QED BY <1>1, <1>5, <2>1, ProcessStep DEF tables
  <1>8. CASE /\ a \in delivered /\ todo[o] = {a}
             /\ bound' = [bound EXCEPT ![o] = Running(o, a)]
             /\ Turn(o, Running(o, a), "cancel", "poll")
    <2>1. /\ todo' \in [Process -> SUBSET Attempt] /\ pc' \in [Process -> Place]
          /\ Local(o) /\ todo'[o] = Running(o, a) /\ pc'[o] \in {"cancel", "poll"}
      BY <1>1, <1>3, <1>6, <1>8, TurnFacts
    <2>2. TypeOK'
      BY <1>1, <1>3, <1>8, <2>1 DEF TypeOK, tables, temporal, Place
    <2>3. Members \subseteq delivered'
      BY <1>1, <1>4, <1>8 DEF tables
    <2>4. Knows(o)'
      BY <1>1, <1>3, <2>1, <2>3 DEF Knows, Reconciling, Canceling
    <2> QED BY <1>1, <1>5, <2>1, <2>2, <2>4, ProcessStep DEF tables
  <1>9. CASE /\ a \in delivered /\ todo[o] # {a}
             /\ bound' = [bound EXCEPT ![o] = Running(o, a)]
             /\ Turn(o, todo[o] \ {a}, "scan", "scan")
    <2>1. /\ todo' \in [Process -> SUBSET Attempt] /\ pc' \in [Process -> Place]
          /\ Local(o) /\ todo'[o] = todo[o] \ {a} /\ pc'[o] = "scan"
      BY <1>1, <1>4, <1>6, <1>9, TurnFacts
    <2>2. TypeOK'
      BY <1>1, <1>3, <1>9, <2>1 DEF TypeOK, tables, temporal, Place
    <2>3. Members \ todo'[o] \subseteq delivered'
      BY <1>1, <1>4, <1>9, <2>1 DEF tables
    <2>4. Knows(o)'
      BY <1>1, <1>4, <2>1, <2>3 DEF Knows, Reconciling, Canceling
    <2> QED BY <1>1, <1>5, <2>1, <2>2, <2>4, ProcessStep DEF tables
  <1> QED BY <1>2, <1>7, <1>8, <1>9

LEMMA CancelMemberStep ==
  ASSUME LifecycleInvariant, NEW o \in Operators, CancelMember(o)
  PROVE  LifecycleInvariant'
  <1> USE DEF LifecycleInvariant
  <1>1. /\ o \in Process /\ o \notin Runners /\ pc[o] = "cancel"
        /\ UNCHANGED <<tables, workflow, purged, closing, waiting, bound, faults>>
    BY ProcessSets DEF CancelMember
  <1>2. PICK a \in Members :
          \/ canceled' = canceled \cup {a} /\ Turn(o, Members, "poll", "collect")
          \/ /\ canceled' = canceled \cup {a}
             /\ todo[o] # {a}
             /\ Turn(o, todo[o] \ {a}, "cancel", "cancel")
          \/ Return(o) /\ UNCHANGED canceled
    BY DEF CancelMember
  <1>3. /\ Members \in SUBSET Attempt
        /\ todo[o] \in SUBSET Attempt /\ todo[o] \subseteq Members
        /\ Members \subseteq delivered
    BY <1>1, LifecycleAssumption DEF TypeOK, Knows, Canceling
  <1>4. Grows /\ \A b \in Attempt : Outcome(b)'
    BY <1>1, QuietStep DEF tables
  <1>5. "cancel" \in Place /\ "poll" \in Place /\ "collect" \in Place
    BY DEF Place
  <1>6. CASE Return(o) /\ UNCHANGED canceled
    <2>1. TypeOK' /\ Local(o) /\ Knows(o)'
      BY <1>1, <1>6, ReturnFacts, IdleKnows DEF TypeOK, tables, Place
    <2> QED BY <1>1, <1>4, <2>1, ProcessStep DEF tables
  <1>7. CASE canceled' = canceled \cup {a} /\ Turn(o, Members, "poll", "collect")
    <2>1. /\ todo' \in [Process -> SUBSET Attempt] /\ pc' \in [Process -> Place]
          /\ Local(o) /\ todo'[o] = Members
          /\ pc'[o] = IF Members = {} THEN "collect" ELSE "poll"
      BY <1>1, <1>3, <1>5, <1>7, TurnFacts
    <2>2. TypeOK'
      BY <1>1, <1>7, <2>1 DEF TypeOK, tables, Place
    <2>3. Knows(o)'
      BY <1>1, <1>3, <2>1 DEF Knows, Reconciling, Canceling, tables
    <2> QED BY <1>1, <1>4, <2>1, <2>2, <2>3, ProcessStep DEF tables
  <1>8. CASE /\ canceled' = canceled \cup {a} /\ todo[o] # {a}
             /\ Turn(o, todo[o] \ {a}, "cancel", "cancel")
    <2>1. /\ todo' \in [Process -> SUBSET Attempt] /\ pc' \in [Process -> Place]
          /\ Local(o) /\ todo'[o] = todo[o] \ {a} /\ pc'[o] = "cancel"
      BY <1>1, <1>3, <1>5, <1>8, TurnFacts
    <2>2. TypeOK'
      BY <1>1, <1>8, <2>1 DEF TypeOK, tables, Place
    <2>3. Knows(o)'
      BY <1>1, <1>3, <2>1 DEF Knows, Reconciling, Canceling, tables
    <2> QED BY <1>1, <1>4, <2>1, <2>2, <2>3, ProcessStep DEF tables
  <1> QED BY <1>2, <1>6, <1>7, <1>8

LEMMA PollStep ==
  ASSUME LifecycleInvariant, NEW o \in Operators, Poll(o)
  PROVE  LifecycleInvariant'
  <1> USE DEF LifecycleInvariant
  <1>1. /\ o \in Process /\ o \notin Runners /\ pc[o] = "poll"
        /\ UNCHANGED <<tables, temporal, bound, faults>>
    BY ProcessSets DEF Poll
  <1>2. Grows /\ \A b \in Attempt : Outcome(b)'
    BY <1>1, QuietStep DEF tables, temporal
  <1>3. CASE Return(o)
    <2>1. TypeOK' /\ Local(o) /\ Knows(o)'
      BY <1>1, <1>3, ReturnFacts, IdleKnows DEF TypeOK, tables, temporal, Place
    <2> QED BY <1>1, <1>2, <2>1, ProcessStep DEF tables
  <1>4. CASE /\ \A a \in Members : workflow[a] # "running"
             /\ Turn(o, {}, "poll", "collect")
    <2>1. {} \in SUBSET Attempt /\ "poll" \in Place /\ "collect" \in Place
      BY DEF Place
    <2>2. /\ todo' \in [Process -> SUBSET Attempt] /\ pc' \in [Process -> Place]
          /\ Local(o) /\ todo'[o] = {} /\ pc'[o] = "collect"
      BY <1>1, <1>4, <2>1, TurnFacts
    <2>3. TypeOK'
      BY <1>1, <2>2 DEF TypeOK, tables, temporal, Place
    <2>4. Members \subseteq delivered
      BY <1>1 DEF Knows, Canceling
    <2>5. \A a \in Members : Settled(a)
      BY <1>4, <2>4, LifecycleAssumption DEF TypeOK, Outcome, Settled
    <2>6. Knows(o)'
      BY <1>1, <2>2, <2>4, <2>5 DEF Knows, Reconciling, Canceling, Settled, tables,
                                    temporal
    <2> QED BY <1>1, <1>2, <2>2, <2>3, <2>6, ProcessStep DEF tables
  <1> QED BY <1>3, <1>4 DEF Poll

LEMMA ConfirmStep ==
  ASSUME LifecycleInvariant, NEW o \in Operators, Confirm(o)
  PROVE  LifecycleInvariant'
  <1> USE DEF LifecycleInvariant
  <1>1. /\ o \in Process /\ pc[o] = "confirm" /\ Return(o)
        /\ UNCHANGED <<campaign, final, commands, delivered, revisions, temporal,
                       bound, faults>>
        /\ confirmed' = TRUE
    BY ProcessSets DEF Confirm
  <1>2. Grows /\ \A b \in Attempt : Outcome(b)'
    BY <1>1, QuietStep DEF temporal
  <1>3. TypeOK' /\ Local(o) /\ Knows(o)'
    BY <1>1, ReturnFacts, IdleKnows DEF TypeOK, temporal, Place
  <1>4. \A a \in Members : Settled(a) /\ Shut(a)
    BY <1>1 DEF Knows, Canceling
  <1>5. \A a \in Members : Settled(a)' /\ Shut(a)'
    BY <1>1, <1>4 DEF Settled, Shut, temporal
  <1> QED BY <1>1, <1>2, <1>3, <1>5, ProcessStep

-----------------------------------------------------------------------------
(* campaign.Run.                                                           *)

LEMMA RunStep ==
  ASSUME LifecycleInvariant, NEW r \in Runners, Run(r)
  PROVE  LifecycleInvariant'
  <1> USE DEF LifecycleInvariant
  <1>1. /\ r \in Process /\ r \notin Operators
        /\ Members \in SUBSET Attempt
        /\ "submit" \in Place /\ "ran" \in Place
    BY ProcessSets, LifecycleAssumption DEF Place
  <1>2. CASE RunBegins(r)
    <2>1. /\ todo' \in [Process -> SUBSET Attempt] /\ pc' \in [Process -> Place]
          /\ Local(r) /\ todo'[r] = Members
          /\ pc'[r] = IF Members = {} THEN "ran" ELSE "submit"
      BY <1>1, <1>2, TurnFacts DEF RunBegins
    <2>2. TypeOK'
      BY <1>2, <2>1 DEF RunBegins, TypeOK, tables, temporal, Place
    <2>3. Knows(r)'
      BY <1>1, <2>1 DEF Knows, Reconciling, Submitting
    <2> QED BY <1>1, <1>2, <2>1, <2>2, <2>3, QuietStep, ProcessStep
            DEF RunBegins, tables, temporal
  <1>3. CASE SubmitMember(r)
    <2>1. PICK a \in Members :
            /\ \/ commands[a] > 0 /\ UNCHANGED commands
               \/ /\ commands[a] = 0 /\ final[a] = "OPEN"
                  /\ commands' = [commands EXCEPT ![a] = 1]
            /\ Turn(r, todo[r] \ {a}, "submit", "ran")
      BY <1>3 DEF SubmitMember
    <2>2. /\ pc[r] = "submit"
          /\ UNCHANGED <<campaign, confirmed, final, delivered, revisions,
                         temporal, bound, faults>>
      BY <1>3 DEF SubmitMember
    <2>3. todo[r] \ {a} \in SUBSET Attempt
      BY <1>1 DEF TypeOK
    <2>4. /\ todo' \in [Process -> SUBSET Attempt] /\ pc' \in [Process -> Place]
          /\ Local(r) /\ todo'[r] = todo[r] \ {a}
          /\ pc'[r] = IF todo[r] \ {a} = {} THEN "ran" ELSE "submit"
      BY <1>1, <2>1, <2>3, TurnFacts
    <2>5. commands' \in [Attempt -> 0 .. 2]
      BY <2>1 DEF TypeOK
    <2>6. TypeOK'
      BY <2>2, <2>4, <2>5 DEF TypeOK, temporal, Place
    <2>7. Grows
      BY <1>1, <2>1, <2>2 DEF Grows, Settled, TypeOK, temporal
    <2>8. \A b \in Attempt : Outcome(b)'
      BY <1>1, <2>1, <2>2 DEF Outcome, TypeOK, temporal
    <2>9. \A b \in Members \ todo'[r] : commands'[b] > 0
      <3>1. commands'[a] > 0
        BY <1>1, <2>1 DEF TypeOK
      <3>2. \A b \in Members \ todo[r] : commands[b] > 0
        BY <1>1, <2>2 DEF Knows, Submitting
      <3> QED BY <1>1, <2>4, <2>7, <3>1, <3>2 DEF Grows
    <2>10. Knows(r)'
      BY <1>1, <2>4, <2>9 DEF Knows, Reconciling, Submitting
    <2> QED BY <1>1, <2>2, <2>4, <2>6, <2>7, <2>8, <2>10, ProcessStep
  <1>4. CASE SubmitFails(r)
    <2>1. TypeOK' /\ Local(r) /\ Knows(r)'
      BY <1>1, <1>4, ReturnFacts, IdleKnows, LifecycleAssumption
         DEF SubmitFails, TypeOK, temporal, Place
    <2> QED BY <1>1, <1>4, <2>1, QuietStep, ProcessStep DEF SubmitFails, temporal
  <1>5. CASE RunEnds(r)
    <2>1. TypeOK' /\ Local(r) /\ Knows(r)'
      BY <1>1, <1>5, ReturnFacts, IdleKnows DEF RunEnds, TypeOK, temporal, Place
    <2>2. RunningIsSubmitted'
      BY <1>1, <1>5 DEF RunEnds, RunningIsSubmitted, Knows, Submitting
    <2> QED BY <1>1, <1>5, <2>1, <2>2, QuietStep, ProcessStep DEF RunEnds, temporal
  <1> QED BY <1>2, <1>3, <1>4, <1>5 DEF Run

-----------------------------------------------------------------------------

LEMMA StepHolds == LifecycleInvariant /\ [Next]_vars => LifecycleInvariant'
  <1> SUFFICES ASSUME LifecycleInvariant, [Next]_vars PROVE LifecycleInvariant'
    OBVIOUS
  <1>1. ASSUME NEW a \in Attempt, Workflow(a) PROVE LifecycleInvariant'
    BY <1>1, WorkflowStep
  <1>2. ASSUME NEW p \in Loops \cup Operators, ReconcileFailedAttempts(p)
        PROVE  LifecycleInvariant'
    BY <1>2, CollectStep, DescribeStep, CloseStep DEF ReconcileFailedAttempts
  <1>3. ASSUME NEW o \in Operators, CancelBegins(o) \/ CancelResearchCampaign(o)
        PROVE  LifecycleInvariant'
    BY <1>2, <1>3, CancelBeginsStep, ScanMemberStep, CancelMemberStep, PollStep,
       ConfirmStep DEF CancelResearchCampaign
  <1>4. ASSUME NEW r \in Runners, Run(r) PROVE LifecycleInvariant'
    BY <1>4, RunStep
  <1>5. ASSUME NEW p \in Process, Abort(p) PROVE LifecycleInvariant'
    BY <1>5, AbortStep
  <1>6. CASE UNCHANGED vars
    BY <1>6, QuietStep, TableStep
       DEF vars, tables, temporal, LifecycleInvariant, TypeOK
  <1> QED BY <1>1, <1>2, <1>3, <1>4, <1>5, <1>6 DEF Next

LEMMA InvariantHolds == Spec => []LifecycleInvariant
  BY InitHolds, StepHolds, PTL DEF Spec

\* Every reachable state is well typed.
THEOREM LifecycleTypeCorrect == Spec => []TypeOK
  <1>1. LifecycleInvariant => TypeOK
    BY DEF LifecycleInvariant
  <1> QED BY <1>1, InvariantHolds, PTL

\* An attempt is failed only on the witness of a workflow that ended badly.
THEOREM FailuresHaveWitness == Spec => []FailedOnWitness
  <1>1. LifecycleInvariant => FailedOnWitness
    BY DEF LifecycleInvariant, Outcome, FailedOnWitness
  <1> QED BY <1>1, InvariantHolds, PTL

\* No reconciler fails an attempt that has sealed a revision.
THEOREM RevisionsStayQualified == Spec => []RevisionIsQualified
  <1>1. LifecycleInvariant => RevisionIsQualified
    BY LifecycleAssumption DEF LifecycleInvariant, TypeOK, Outcome, RevisionIsQualified
  <1> QED BY <1>1, InvariantHolds, PTL

\* A confirmed cancellation has closed the campaign, but for members that
\* got a second command.
THEOREM ConfirmationIsClosure == Spec => []ConfirmedIsClosed
  <1>1. LifecycleInvariant => ConfirmedIsClosed
    BY DEF LifecycleInvariant, ConfirmedIsClosed, Settled, Shut
  <1> QED BY <1>1, InvariantHolds, PTL

\* A running campaign has submitted all its members.
THEOREM RunningCampaignIsWhole == Spec => []RunningIsSubmitted
  <1>1. LifecycleInvariant => RunningIsSubmitted
    BY DEF LifecycleInvariant
  <1> QED BY <1>1, InvariantHolds, PTL

\* Only a closure in flight changes a closed attempt.
THEOREM ClosedStaysClosed ==
  Spec => [][\A a \in Attempt : final[a] # "OPEN" /\ final'[a] # final[a] =>
               /\ a \in Product \cap closing
               /\ final[a] = "FAILED" /\ final'[a] = "QUALIFIED"]_vars
  <1>1. ASSUME LifecycleInvariant, [Next]_vars, NEW a \in Attempt,
               final[a] # "OPEN", final'[a] # final[a]
        PROVE  /\ a \in Product \cap closing
               /\ final[a] = "FAILED" /\ final'[a] = "QUALIFIED"
    <2>1. UNCHANGED final \/ (\E b \in Attempt : FinalizeCompile(b))
                          \/ (\E p \in Loops \cup Operators : Close(p))
      BY <1>1 DEF Next, vars, Workflow, Start, Acknowledge, SubmitStageReady,
                  WaitStarts, SignalArrives, FinalizeStarts, WorkflowFails,
                  Purge, ReconcileFailedAttempts,
                  Collect, Describe, CancelBegins, CancelResearchCampaign,
                  ScanMember, CancelMember, Poll, Confirm, Run, RunBegins,
                  SubmitMember, SubmitFails, RunEnds, Abort, tables
    <2>2. ASSUME NEW p \in Loops \cup Operators, Close(p) PROVE FALSE
      BY <1>1, <2>2 DEF Close, StillOpen, LifecycleInvariant, TypeOK
    <2>3. ASSUME NEW b \in Attempt, FinalizeCompile(b)
          PROVE  /\ a \in Product \cap closing
                 /\ final[a] = "FAILED" /\ final'[a] = "QUALIFIED"
      BY <1>1, <2>3 DEF FinalizeCompile, ClosedAs, LifecycleInvariant, TypeOK, Outcome
    <2> QED BY <1>1, <2>1, <2>2, <2>3
  <1>2. LifecycleInvariant /\ [Next]_vars =>
          [\A a \in Attempt : final[a] # "OPEN" /\ final'[a] # final[a] =>
             /\ a \in Product \cap closing
             /\ final[a] = "FAILED" /\ final'[a] = "QUALIFIED"]_vars
    BY <1>1
  <1> QED BY <1>2, InvariantHolds, PTL DEF Spec

-----------------------------------------------------------------------------
(* The tables and Temporal, without the processes, implement Closure.      *)

LEMMA AttemptRefines ==
  ASSUME LifecycleInvariant, NEW a \in Attempt, Workflow(a)
  PROVE  [Contract!Next]_(Contract!closureVars)
  <1> USE DEF tables, temporal, Contract!closureVars
  <1>1. CASE Start(a)
    <2>1. Contract!WorkflowStarts(a)
      BY <1>1 DEF Start, Contract!WorkflowStarts
    <2> QED BY <2>1 DEF Contract!Next
  <1>2. CASE Acknowledge(a) \/ Purge(a) \/ WaitStarts(a) \/ SignalArrives(a)
    BY <1>2 DEF Acknowledge, Purge, WaitStarts, SignalArrives
  <1>3. CASE SubmitStageReady(a)
    <2>1. Contract!SubmitAgain(a)
      BY <1>3 DEF SubmitStageReady, Contract!SubmitAgain
    <2> QED BY <2>1 DEF Contract!Next
  <1>4. CASE FinalizeStarts(a)
    <2>1. Contract!FinalizeStarts(a)
      BY <1>4 DEF FinalizeStarts, Contract!FinalizeStarts
    <2> QED BY <2>1 DEF Contract!Next
  <1>5. CASE FinalizeCompile(a)
    <2>1. final \in [Attempt -> {"OPEN", "COMPLETED", "QUALIFIED", "FAILED"}]
      BY DEF LifecycleInvariant, TypeOK
    <2>2. CASE a \in Product
      <3>1. Contract!Seal(a)
        BY <1>5, <2>2 DEF FinalizeCompile, ClosedAs, Seals, Contract!Seal
      <3> QED BY <1>5, <3>1 DEF FinalizeCompile, Contract!Finalize, Contract!Next
    <2>3. CASE a \notin Product
      <3>1. final' = IF final[a] = "OPEN" THEN [final EXCEPT ![a] = "COMPLETED"] ELSE final
        BY <1>5, <2>1, <2>3 DEF FinalizeCompile, ClosedAs
      <3>2. Contract!Complete(a)
        BY <1>5, <2>3, <3>1 DEF FinalizeCompile, Seals, Contract!Complete
      <3> QED BY <1>5, <3>2 DEF FinalizeCompile, Contract!Finalize, Contract!Next
    <2> QED BY <2>2, <2>3
  <1>6. CASE WorkflowFails(a)
    <2>1. Contract!WorkflowFails(a)
      BY <1>6 DEF WorkflowFails, Contract!WorkflowFails
    <2> QED BY <2>1 DEF Contract!Next
  <1> QED BY <1>1, <1>2, <1>3, <1>4, <1>5, <1>6 DEF Workflow

\* The witness a reconciler read before its transaction still holds in it.
LEMMA CloseRefines ==
  ASSUME LifecycleInvariant, NEW p \in Process, Close(p)
  PROVE  [Contract!Next]_(Contract!closureVars)
  <1> USE DEF temporal, Contract!closureVars
  <1>1. PICK a \in Attempt :
          /\ IsNext(p, a)
          /\ \/ UNCHANGED final
             \/ /\ StillOpen(a) /\ commands[a] = 1
                /\ final' = [final EXCEPT ![a] = "FAILED"]
    BY DEF Close
  <1>2. /\ pc[p] = "close"
        /\ UNCHANGED <<campaign, confirmed, commands, revisions, temporal>>
    BY DEF Close
  <1>3. workflow[a] = "failed"
    BY <1>1, <1>2 DEF LifecycleInvariant, Knows, Reconciling
  <1>4. CASE UNCHANGED final
    BY <1>2, <1>4
  <1>5. CASE StillOpen(a) /\ commands[a] = 1 /\ final' = [final EXCEPT ![a] = "FAILED"]
    <2>1. Contract!Fail(a)
      BY <1>2, <1>3, <1>5 DEF StillOpen, Contract!Fail
    <2> QED BY <2>1 DEF Contract!Next
  <1> QED BY <1>1, <1>4, <1>5

\* What an operator went through member by member holds of all at the end.
LEMMA ConfirmRefines ==
  ASSUME LifecycleInvariant, NEW o \in Operators, Confirm(o)
  PROVE  Contract!Confirm
  <1>1. \A a \in Members : Settled(a) /\ Shut(a)
    BY ProcessSets DEF Confirm, LifecycleInvariant, Knows, Canceling
  <1> QED BY <1>1 DEF Confirm, Settled, Shut, Contract!Confirm, temporal

LEMMA RunRefines ==
  ASSUME LifecycleInvariant, NEW r \in Runners, Run(r)
  PROVE  [Contract!Next]_(Contract!closureVars)
  <1> USE DEF temporal, Contract!closureVars
  <1>1. CASE RunBegins(r)
    BY <1>1 DEF RunBegins, tables
  <1>2. CASE SubmitMember(r)
    <2>1. PICK a \in Members :
            \/ UNCHANGED commands
            \/ /\ commands[a] = 0 /\ final[a] = "OPEN"
               /\ commands' = [commands EXCEPT ![a] = 1]
      BY <1>2 DEF SubmitMember
    <2>2. UNCHANGED <<campaign, confirmed, final, revisions, temporal>>
      BY <1>2 DEF SubmitMember
    <2>3. CASE UNCHANGED commands
      BY <2>2, <2>3
    <2>4. CASE /\ commands[a] = 0 /\ final[a] = "OPEN"
               /\ commands' = [commands EXCEPT ![a] = 1]
      <3>1. Contract!Submit(a) /\ a \in Attempt
        BY <2>2, <2>4, LifecycleAssumption DEF Contract!Submit
      <3> QED BY <3>1 DEF Contract!Next
    <2> QED BY <2>1, <2>3, <2>4
  <1>3. CASE SubmitFails(r)
    <2>1. Contract!GiveUp
      BY <1>3 DEF SubmitFails, Contract!GiveUp
    <2> QED BY <2>1 DEF Contract!Next
  <1>4. CASE RunEnds(r)
    <2>1. \A a \in Members : commands[a] > 0
      BY <1>4, ProcessSets DEF RunEnds, LifecycleInvariant, Knows, Submitting
    <2>2. Contract!Announce
      BY <1>4, <2>1 DEF RunEnds, Contract!Announce
    <2> QED BY <2>2 DEF Contract!Next
  <1> QED BY <1>1, <1>2, <1>3, <1>4 DEF Run

\* Whatever the processes saw and when they saw it, each of their judgements
\* is one that an observer of tables and workflows could make at that moment.
THEOREM LifecycleImplementsClosure == Spec => ImplementsClosure
  <1>1. Init => Contract!Init
    BY DEF Init, Contract!Init
  <1>2. LifecycleInvariant /\ [Next]_vars => [Contract!Next]_(Contract!closureVars)
    <2> SUFFICES ASSUME LifecycleInvariant, [Next]_vars
                 PROVE  [Contract!Next]_(Contract!closureVars)
      OBVIOUS
    <2>1. ASSUME UNCHANGED <<tables, temporal>> \/ UNCHANGED <<tables, workflow, closing>>
          PROVE  [Contract!Next]_(Contract!closureVars)
      BY <2>1 DEF tables, temporal, Contract!closureVars
    <2>2. ASSUME NEW a \in Attempt, Workflow(a)
          PROVE  [Contract!Next]_(Contract!closureVars)
      BY <2>2, AttemptRefines
    <2>3. ASSUME NEW p \in Process, ReconcileFailedAttempts(p)
          PROVE  [Contract!Next]_(Contract!closureVars)
      BY <2>1, <2>3, CloseRefines DEF ReconcileFailedAttempts, Collect, Describe
    <2>4. ASSUME NEW o \in Operators, CancelBegins(o) \/ CancelResearchCampaign(o)
          PROVE  [Contract!Next]_(Contract!closureVars)
      <3>1. CASE Confirm(o)
        BY <2>4, <3>1, ConfirmRefines DEF Contract!Next
      <3>2. CASE CancelBegins(o) \/ ScanMember(o) \/ CancelMember(o) \/ Poll(o)
        BY <2>1, <3>2 DEF CancelBegins, ScanMember, CancelMember, Poll
      <3> QED BY <2>3, <2>4, <3>1, <3>2, ProcessSets DEF CancelResearchCampaign
    <2>5. ASSUME NEW r \in Runners, Run(r)
          PROVE  [Contract!Next]_(Contract!closureVars)
      BY <2>5, RunRefines
    <2>6. ASSUME NEW p \in Process, Abort(p)
          PROVE  [Contract!Next]_(Contract!closureVars)
      BY <2>1, <2>6 DEF Abort
    <2>7. CASE UNCHANGED vars
      BY <2>1, <2>7 DEF vars
    <2> QED BY <2>2, <2>3, <2>4, <2>5, <2>6, <2>7, ProcessSets DEF Next
  <1> QED BY InvariantHolds, <1>1, <1>2, PTL DEF Spec, ImplementsClosure, Contract!Spec
=============================================================================

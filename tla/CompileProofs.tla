--------------------------- MODULE CompileProofs ---------------------------
(* Proofs about CompileAttempt: type correctness, the inductive invariant  *)
(* of the control of one attempt and of the shared registry, and the       *)
(* safety properties that follow.                                          *)
EXTENDS CompileAttempt, TLAPS

LEMMA IdentityType ==
  ASSUME NEW s \in Stage, NEW root \in Root, NEW e \in SUBSET Slot
  PROVE  Identity(s, root, e) \in Id
  BY DEF Identity, Id

LEMMA ExpectedType ==
  ASSUME TypeOK, NEW a \in Attempt, NEW s \in Stage
  PROVE  Expected(a, s) \in Id
  BY IdentityType, AttemptAssumption DEF Expected, TypeOK

LEMMA RequestType ==
  ASSUME NEW request \in Request
  PROVE  /\ request[1] \in Attempt
         /\ request[2] \in Stage
         /\ request[3] \in SUBSET Role
         /\ SlotsBy(request) \in SUBSET Slot
  BY DEF Request, SlotsBy, Slot

LEMMA NStagesIsNat == NStages \in Nat \ {0}
  BY GraphAssumption

\* The dependencies of the stage at hand have artifacts.
LEMMA DependenciesBound ==
  ASSUME TypeOK, NEW a \in Attempt, Control(a), index[a] \in Stage
  PROVE  BoundDependencies(a, index[a]) \subseteq Id
  BY GraphAssumption DEF Control, StagesInOrder, BoundDependencies, TypeOK, Stage

LEMMA EngineAnswerType ==
  ASSUME NEW a, NEW s, NEW answer \in EngineAnswers(a, s)
  PROVE  /\ answer \in {"PASS", "PASS_DEMO_ONLY", "FAIL", "WAITING_EXTERNAL_EVIDENCE"}
         /\ answer = "PASS_DEMO_ONLY" => a \in Research
         /\ answer = "PASS" => DemoIds(BoundDependencies(a, s)) = {}
  BY DEF EngineAnswers, Answers

-----------------------------------------------------------------------------
\* Types.  The index and the inputs of an artifact need the control of the
\* attempt.

LEMMA GotoType ==
  ASSUME TypeOK, NEW a \in Attempt, NEW place \in Place, Goto(a, place)
  PROVE  pc' \in [Attempt -> Place]
  BY DEF TypeOK, Goto

LEMMA FaultType ==
  ASSUME TypeOK, Fault
  PROVE  faults' \in Nat
  BY DEF TypeOK, Fault

LEMMA AnswerType ==
  ASSUME TypeOK, NEW a \in Attempt, NEW place \in Place, Answer(a, place)
  PROVE  /\ pc' \in [Attempt -> Place]
         /\ faults' \in Nat
  BY GotoType, FaultType DEF Answer, TypeOK

LEMMA NextStageType ==
  ASSUME TypeOK, NEW a \in Attempt, index[a] \in Stage, NextStage(a)
  PROVE  /\ pc' \in [Attempt -> Place]
         /\ index' \in [Attempt -> 1 .. NStages + 1]
  <1>1. /\ index' = [index EXCEPT ![a] = @ + 1]
        /\ index[a] + 1 \in 1 .. NStages + 1
    BY NStagesIsNat DEF NextStage, Stage
  <1>2. Goto(a, "finalize") \/ Goto(a, "stage")
    BY DEF NextStage
  <1>3. pc' \in [Attempt -> Place]
    BY <1>2, GotoType DEF Place, Activity
  <1> QED BY <1>1, <1>3 DEF TypeOK

LEMMA ResolvedType ==
  ASSUME TypeOK, NEW a \in Attempt, Resolved(a)
  PROVE  /\ snapshot' \in [Attempt -> SUBSET Slot]
         /\ reuse' \in [Attempt -> SUBSET Stage]
  BY DEF TypeOK, Resolved

LEMMA ProducedType ==
  ASSUME TypeOK, NEW a \in Attempt, Control(a), index[a] \in Stage, ResultPassed(a)
  PROVE  Produced(a, index[a]) \in Artifact
  <1>1. Expected(a, index[a]) \in Id
    BY ExpectedType
  <1>2. copied[a][index[a]] \in SUBSET Slot
    BY DEF TypeOK
  <1>3. BoundDependencies(a, index[a]) \in SUBSET Id
    BY DependenciesBound
  <1> QED BY <1>1, <1>2, <1>3 DEF Produced, Artifact, ResultPassed

LEMMA TypeStep ==
  ASSUME TypeOK, \A a \in Attempt : Control(a), [Next]_vars
  PROVE  TypeOK'
  <1> USE DEF tables, plan, signalling, Place, Activity
  <1>1. ASSUME NEW a \in Attempt, ResolveCompilePlan(a) PROVE TypeOK'
    BY <1>1, GotoType, ResolvedType DEF ResolveCompilePlan, TypeOK
  <1>2. ASSUME NEW a \in Attempt, BindReusedStage(a) PROVE TypeOK'
    <2>1. index[a] \in Stage
      BY <1>2 DEF BindReusedStage, Control, IndexFits, Loop
    <2>2. bound' \in [Attempt -> [Stage -> Id \cup {NoArtifact}]]
      BY <1>2, <2>1, ExpectedType DEF BindReusedStage, TypeOK
    <2>3. /\ pc' \in [Attempt -> Place]
          /\ index' \in [Attempt -> 1 .. NStages + 1]
          /\ faults' \in Nat
      BY <1>2, <2>1, NextStageType, FaultType DEF BindReusedStage, TypeOK
    <2> QED BY <1>2, <2>2, <2>3 DEF BindReusedStage, TypeOK
  <1>3. ASSUME NEW a \in Attempt, PrepareStageExecution(a) PROVE TypeOK'
    <2>1. index[a] \in Stage
      BY <1>3 DEF PrepareStageExecution, Control, IndexFits, Loop
    <2>2. execution' \in [Attempt -> [Stage ->
            {"none", "RUNNING", "WAITING_EXTERNAL_EVIDENCE", "PASS", "FAIL"}]]
      BY <1>3, <2>1 DEF PrepareStageExecution, TypeOK
    <2>3. copied' \in [Attempt -> [Stage -> SUBSET Slot]]
      BY <1>3, <2>1 DEF PrepareStageExecution, TypeOK
    <2> QED BY <1>3, <2>2, <2>3, AnswerType DEF PrepareStageExecution, TypeOK
  <1>4. ASSUME NEW a \in Attempt, EngineExecuteStage(a) PROVE TypeOK'
    <2>1. PICK answer \in EngineAnswers(a, index[a]) :
            result' = [result EXCEPT ![a] = answer]
      BY <1>4 DEF EngineExecuteStage
    <2>2. answer \in {"PASS", "PASS_DEMO_ONLY", "FAIL", "WAITING_EXTERNAL_EVIDENCE"}
      BY EngineAnswerType
    <2> QED BY <1>4, <2>1, <2>2, GotoType DEF EngineExecuteStage, TypeOK
  <1>5. ASSUME NEW a \in Attempt, EngineActivityFails(a) PROVE TypeOK'
    BY <1>5, GotoType DEF EngineActivityFails, TypeOK
  <1>6. ASSUME NEW a \in Attempt, RecordStageActivityError(a) PROVE TypeOK'
    <2>1. index[a] \in Stage
      BY <1>6 DEF RecordStageActivityError, Control, IndexFits, Loop
    <2>2. pc' \in [Attempt -> Place]
      BY <1>6, GotoType DEF RecordStageActivityError
    <2>3. CASE UNCHANGED <<execution, failures>>
      BY <1>6, <2>2, <2>3, FaultType DEF RecordStageActivityError, TypeOK
    <2>4. CASE /\ execution' = [execution EXCEPT ![a][index[a]] = "FAIL"]
               /\ failures' = [failures EXCEPT ![a] = @ \cup {index[a]}]
      <3>1. execution' \in [Attempt -> [Stage ->
              {"none", "RUNNING", "WAITING_EXTERNAL_EVIDENCE", "PASS", "FAIL"}]]
        BY <2>1, <2>4 DEF TypeOK
      <3>2. failures' \in [Attempt -> SUBSET Stage]
        BY <2>1, <2>4 DEF TypeOK
      <3> QED BY <1>6, <2>2, <3>1, <3>2, FaultType DEF RecordStageActivityError, TypeOK
    <2> QED BY <1>6, <2>3, <2>4 DEF RecordStageActivityError
  <1>7. ASSUME NEW a \in Attempt, CommitWaiting(a) PROVE TypeOK'
    <2>1. index[a] \in Stage
      BY <1>7 DEF CommitWaiting, Control, IndexFits, Loop
    <2> QED BY <1>7, <2>1, AnswerType DEF CommitWaiting, TypeOK
  <1>8. ASSUME NEW a \in Attempt, CommitFailed(a) PROVE TypeOK'
    <2>1. index[a] \in Stage
      BY <1>8 DEF CommitFailed, Control, IndexFits, Loop
    <2> QED BY <1>8, <2>1, AnswerType DEF CommitFailed, TypeOK
  <1>9. ASSUME NEW a \in Attempt, CommitPassed(a) PROVE TypeOK'
    <2>1. index[a] \in Stage
      BY <1>9 DEF CommitPassed, Control, IndexFits, Loop
    <2>2. Expected(a, index[a]) \in Id
      BY <2>1, ExpectedType
    <2>3. artifacts' \subseteq Artifact
      BY <1>9, <2>1, ProducedType DEF CommitPassed, WithProduced, ResultPassed, TypeOK
    <2>4. qualified' \subseteq Id \X Lane
      BY <1>9, <2>2 DEF CommitPassed, LaneOf, Lane, TypeOK
    <2>5. bound' \in [Attempt -> [Stage -> Id \cup {NoArtifact}]]
      BY <1>9, <2>1, <2>2 DEF CommitPassed, TypeOK
    <2>6. execution' \in [Attempt -> [Stage ->
            {"none", "RUNNING", "WAITING_EXTERNAL_EVIDENCE", "PASS", "FAIL"}]]
      BY <1>9, <2>1 DEF CommitPassed, TypeOK
    <2>7. /\ pc' \in [Attempt -> Place]
          /\ index' \in [Attempt -> 1 .. NStages + 1]
          /\ faults' \in Nat
      BY <1>9, <2>1, NextStageType, FaultType DEF CommitPassed, TypeOK
    <2> QED BY <1>9, <2>3, <2>4, <2>5, <2>6, <2>7 DEF CommitPassed, TypeOK
  <1>10. ASSUME NEW a \in Attempt, CommitRejected(a) PROVE TypeOK'
    BY <1>10, GotoType DEF CommitRejected, TypeOK
  <1>11. ASSUME NEW a \in Attempt, RefreshPlan(a) PROVE TypeOK'
    BY <1>11, GotoType, ResolvedType DEF RefreshPlan, TypeOK
  <1>12. ASSUME NEW a \in Attempt, ReceiveSignal(a) PROVE TypeOK'
    BY <1>12, GotoType DEF ReceiveSignal, TypeOK
  <1>13. ASSUME NEW a \in Attempt, RefreshPlanAgain(a) PROVE TypeOK'
    BY <1>13, GotoType, ResolvedType DEF RefreshPlanAgain, TypeOK
  <1>14. ASSUME NEW a \in Attempt, FinalizeCompile(a) PROVE TypeOK'
    BY <1>14, AnswerType DEF FinalizeCompile, TypeOK
  <1>15. ASSUME NEW a \in Attempt, ActivityExhausted(a) PROVE TypeOK'
    BY <1>15, GotoType, FaultType DEF ActivityExhausted, TypeOK
  <1>16. ASSUME NEW request \in Request, BindEvidence(request) PROVE TypeOK'
    BY <1>16, RequestType DEF BindEvidence, TypeOK
  <1>17. ASSUME NEW request \in Request, SubmitStageReady(request) PROVE TypeOK'
    BY <1>17 DEF SubmitStageReady, TypeOK
  <1>18. ASSUME NEW request \in Request, BindCrashes(request) PROVE TypeOK'
    BY <1>18, FaultType DEF BindCrashes, TypeOK
  <1>19. ASSUME NEW request \in Request, DeliverSignal(request) PROVE TypeOK'
    <2>1. channel' \in [Attempt -> Seq(Stage)]
      BY <1>19, RequestType DEF DeliverSignal, TypeOK
    <2> QED BY <1>19, <2>1, FaultType DEF DeliverSignal, TypeOK
  <1>20. CASE UNCHANGED vars
    BY <1>20 DEF vars, TypeOK
  <1> QED
    BY <1>1, <1>2, <1>3, <1>4, <1>5, <1>6, <1>7, <1>8, <1>9, <1>10, <1>11, <1>12,
       <1>13, <1>14, <1>15, <1>16, <1>17, <1>18, <1>19, <1>20
    DEF Next, CompileWorkflow, CommitStageResult, Client

-----------------------------------------------------------------------------
\* The control of an attempt.  It speaks of the attempt's own rows and of the
\* qualifications, which only grow.

SameControl(b) ==
  /\ final'[b] = final[b]
  /\ execution'[b] = execution[b]
  /\ bound'[b] = bound[b]
  /\ failures'[b] = failures[b]
  /\ pc'[b] = pc[b]
  /\ index'[b] = index[b]
  /\ snapshot'[b] = snapshot[b]
  /\ reuse'[b] = reuse[b]
  /\ result'[b] = result[b]
  /\ qualified \subseteq qualified'

LEMMA ControlFrame ==
  ASSUME NEW b \in Attempt, Control(b), SameControl(b)
  PROVE  Control(b)'
  <1> USE DEF SameControl
  <1>1. IndexFits(b)'
    BY DEF Control, IndexFits
  <1>2. StagesInOrder(b)'
    BY DEF Control, StagesInOrder, Expected, ResultPassed
  <1>3. ReuseIsQualified(b)'
    BY DEF Control, ReuseIsQualified, Expected, Reusable
  <1>4. FailureStops(b)'
    BY DEF Control, FailureStops
  <1>5. CompletionIsLast(b)'
    BY DEF Control, CompletionIsLast
  <1> QED BY <1>1, <1>2, <1>3, <1>4, <1>5 DEF Control

LEMMA WorkflowLeavesOthers ==
  ASSUME TypeOK, NEW a \in Attempt, NEW b \in Attempt, b # a, CompileWorkflow(a)
  PROVE  SameControl(b)
  <1> USE DEF TypeOK, tables, plan, SameControl, Goto, Answer, NextStage, Resolved
  <1>1. CASE ResolveCompilePlan(a)
    BY <1>1 DEF ResolveCompilePlan
  <1>2. CASE BindReusedStage(a)
    BY <1>2 DEF BindReusedStage
  <1>3. CASE PrepareStageExecution(a)
    BY <1>3 DEF PrepareStageExecution
  <1>4. CASE EngineExecuteStage(a)
    BY <1>4 DEF EngineExecuteStage
  <1>5. CASE EngineActivityFails(a)
    BY <1>5 DEF EngineActivityFails
  <1>6. CASE RecordStageActivityError(a)
    BY <1>6 DEF RecordStageActivityError
  <1>7. CASE CommitWaiting(a)
    BY <1>7 DEF CommitWaiting
  <1>8. CASE CommitFailed(a)
    BY <1>8 DEF CommitFailed
  <1>9. CASE CommitPassed(a)
    BY <1>9 DEF CommitPassed
  <1>10. CASE CommitRejected(a)
    BY <1>10 DEF CommitRejected
  <1>11. CASE RefreshPlan(a)
    BY <1>11 DEF RefreshPlan
  <1>12. CASE ReceiveSignal(a)
    BY <1>12 DEF ReceiveSignal
  <1>13. CASE RefreshPlanAgain(a)
    BY <1>13 DEF RefreshPlanAgain
  <1>14. CASE FinalizeCompile(a)
    BY <1>14 DEF FinalizeCompile
  <1>15. CASE ActivityExhausted(a)
    BY <1>15 DEF ActivityExhausted
  <1> QED
    BY <1>1, <1>2, <1>3, <1>4, <1>5, <1>6, <1>7, <1>8, <1>9, <1>10, <1>11, <1>12,
       <1>13, <1>14, <1>15
    DEF CompileWorkflow, CommitStageResult

LEMMA ClientLeavesControl ==
  ASSUME NEW request \in Request, Client(request), NEW b \in Attempt
  PROVE  SameControl(b)
  BY DEF Client, BindEvidence, SubmitStageReady, BindCrashes, DeliverSignal, tables,
         plan, SameControl

\* The own step of a workflow, by what it does to the attempt's rows.

\* Only the place changes, within the loop, and no answer is at hand.
LEMMA MovesOn ==
  ASSUME TypeOK, NEW a \in Attempt, Control(a),
         pc[a] \in {"engine", "recordError", "refresh", "receive", "refreshAgain"},
         NEW place \in {"engine", "recordError", "commit", "refresh", "receive",
                        "refreshAgain", "failed"},
         Goto(a, place),
         UNCHANGED <<final, execution, bound, failures, index, snapshot, reuse, qualified>>
  PROVE  Control(a)'
  <1> USE DEF Goto, TypeOK
  <1>1. IndexFits(a)'
    BY DEF Control, IndexFits, Loop
  <1>2. StagesInOrder(a)'
    BY DEF Control, StagesInOrder, Expected, ResultPassed
  <1>3. ReuseIsQualified(a)'
    BY DEF Control, ReuseIsQualified, Expected, Reusable
  <1>4. FailureStops(a)'
    BY DEF Control, FailureStops
  <1>5. CompletionIsLast(a)'
    BY DEF Control, CompletionIsLast
  <1> QED BY <1>1, <1>2, <1>3, <1>4, <1>5 DEF Control

\* The workflow fails where it stands.
LEMMA Fails ==
  ASSUME TypeOK, NEW a \in Attempt, Control(a), Goto(a, "failed"),
         UNCHANGED <<final, execution, bound, failures, index, snapshot, reuse,
                     result, qualified>>
  PROVE  Control(a)'
  <1> USE DEF Goto, TypeOK
  <1>1. IndexFits(a)'
    BY DEF IndexFits, Loop
  <1>2. StagesInOrder(a)'
    BY DEF Control, StagesInOrder, Expected
  <1>3. ReuseIsQualified(a)'
    BY DEF Control, ReuseIsQualified, Expected, Reusable
  <1>4. FailureStops(a)'
    BY DEF FailureStops
  <1>5. CompletionIsLast(a)'
    BY DEF Control, CompletionIsLast
  <1> QED BY <1>1, <1>2, <1>3, <1>4, <1>5 DEF Control

\* A new plan comes only while nothing is bound for the stage at hand.
LEMMA Replans ==
  ASSUME TypeOK, NEW a \in Attempt, Control(a),
         pc[a] \in {"resolve", "refresh", "refreshAgain"},
         Resolved(a), Goto(a, "stage"),
         UNCHANGED <<final, execution, bound, failures, index, result, qualified>>
  PROVE  Control(a)'
  <1> USE DEF Goto, TypeOK
  <1>1. IndexFits(a)'
    BY DEF Control, IndexFits, Loop
  <1>2. StagesInOrder(a)'
    BY DEF Control, StagesInOrder
  <1>3. ReuseIsQualified(a)'
    BY DEF Resolved, ReuseIsQualified, Expected, Reusable
  <1>4. FailureStops(a)'
    BY DEF Control, FailureStops
  <1>5. CompletionIsLast(a)'
    BY DEF Control, CompletionIsLast
  <1> QED BY <1>1, <1>2, <1>3, <1>4, <1>5 DEF Control

\* The stage at hand is bound to its expected identity, and the loop goes on.
LEMMA Advances ==
  ASSUME TypeOK, NEW a \in Attempt, Control(a), pc[a] \in {"stage", "commit"},
         pc[a] = "commit" => ResultPassed(a),
         bound' = [bound EXCEPT ![a][index[a]] = Expected(a, index[a])],
         execution' \in {execution, [execution EXCEPT ![a][index[a]] = "PASS"]},
         NextStage(a), qualified \subseteq qualified',
         UNCHANGED <<final, failures, snapshot, reuse, result>>
  PROVE  Control(a)'
  <1>1. index[a] \in Stage
    BY DEF Control, IndexFits, Loop
  <1>2. /\ pc' = [pc EXCEPT ![a] = IF index[a] = NStages THEN "finalize" ELSE "stage"]
        /\ index'[a] = index[a] + 1
    BY DEF NextStage, Goto, TypeOK
  <1>3. IndexFits(a)'
    BY <1>1, <1>2, NStagesIsNat DEF IndexFits, Loop, TypeOK, Stage
  <1>4. Expected(a, index[a]) # NoArtifact
    BY <1>1, ExpectedType, AttemptAssumption
  <1>5. StagesInOrder(a)'
    <2> SUFFICES ASSUME NEW s \in Stage
                 PROVE  /\ s <= index[a] => bound'[a][s] # NoArtifact
                        /\ s > index[a] => bound'[a][s] = NoArtifact
                        /\ s > index[a] => execution'[a][s] # "PASS"
      BY <1>1, <1>2, NStagesIsNat DEF StagesInOrder, Stage
    <2>1. CASE s = index[a]
      BY <2>1, <1>1, <1>4, NStagesIsNat DEF TypeOK, Stage
    <2>2. CASE s # index[a]
      <3>1. /\ bound'[a][s] = bound[a][s]
            /\ execution'[a][s] = execution[a][s]
        BY <2>2 DEF TypeOK
      <3> QED BY <3>1, <2>2, <1>1, NStagesIsNat DEF Control, StagesInOrder, Stage
    <2> QED BY <2>1, <2>2
  <1>6. ReuseIsQualified(a)'
    BY DEF Control, ReuseIsQualified, Expected, Reusable
  <1>7. FailureStops(a)'
    BY DEF Control, FailureStops, ResultPassed
  <1>8. CompletionIsLast(a)'
    BY DEF Control, CompletionIsLast
  <1> QED BY <1>3, <1>5, <1>6, <1>7, <1>8 DEF Control

\* The same, but the answer is lost and the activity is run again.
LEMMA AdvanceIsLost ==
  ASSUME TypeOK, NEW a \in Attempt, Control(a),
         \/ pc[a] = "stage" /\ index[a] \in reuse[a] /\ execution' = execution
         \/ /\ pc[a] = "commit" /\ ResultPassed(a)
            /\ execution' = [execution EXCEPT ![a][index[a]] = "PASS"],
         bound' = [bound EXCEPT ![a][index[a]] = Expected(a, index[a])],
         qualified \subseteq qualified',
         UNCHANGED <<final, failures, pc, index, snapshot, reuse, result>>
  PROVE  Control(a)'
  <1>1. index[a] \in Stage
    BY DEF Control, IndexFits, Loop
  <1>2. IndexFits(a)'
    BY DEF Control, IndexFits
  <1>3. StagesInOrder(a)'
    <2> SUFFICES ASSUME NEW s \in Stage
                 PROVE  /\ s < index[a] => bound'[a][s] # NoArtifact
                        /\ s > index[a] => bound'[a][s] = NoArtifact
                        /\ s = index[a] => bound'[a][s] = Expected(a, s)
                        /\ s > index[a] => execution'[a][s] # "PASS"
                        /\ s = index[a] /\ execution'[a][s] = "PASS" => pc[a] = "commit"
      BY <1>1, NStagesIsNat DEF StagesInOrder, Stage, Expected, ResultPassed
    <2>1. CASE s = index[a]
      BY <2>1, <1>1, NStagesIsNat DEF TypeOK, Stage, Control, StagesInOrder
    <2>2. CASE s # index[a]
      <3>1. /\ bound'[a][s] = bound[a][s]
            /\ execution'[a][s] = execution[a][s]
        BY <2>2 DEF TypeOK
      <3> QED BY <3>1, <2>2, <1>1, NStagesIsNat DEF Control, StagesInOrder, Stage
    <2> QED BY <2>1, <2>2
  <1>4. ReuseIsQualified(a)'
    BY DEF Control, ReuseIsQualified, Expected, Reusable
  <1>5. FailureStops(a)'
    BY DEF Control, FailureStops
  <1>6. CompletionIsLast(a)'
    BY DEF Control, CompletionIsLast
  <1> QED BY <1>2, <1>3, <1>4, <1>5, <1>6 DEF Control

LEMMA OwnControl ==
  ASSUME TypeOK, NEW a \in Attempt, Control(a), CompileWorkflow(a)
  PROVE  Control(a)'
  <1> USE DEF tables, plan
  <1>1. CASE ResolveCompilePlan(a)
    BY <1>1, Replans DEF ResolveCompilePlan
  <1>2. CASE BindReusedStage(a)
    <2>1. CASE NextStage(a)
      BY <1>2, <2>1, Advances DEF BindReusedStage
    <2>2. CASE UNCHANGED <<pc, index>>
      BY <1>2, <2>2, AdvanceIsLost DEF BindReusedStage
    <2> QED BY <1>2, <2>1, <2>2 DEF BindReusedStage
  <1>3. CASE PrepareStageExecution(a)
    <2>1. /\ index[a] \in Stage
          /\ pc'[a] \in {"stage", "engine"}
          /\ bound[a][index[a]] = NoArtifact
      BY <1>3 DEF PrepareStageExecution, Answer, Goto, Control, IndexFits, Loop,
                  StagesInOrder, TypeOK, Stage
    <2>2. execution' = [execution EXCEPT ![a][index[a]] =
                          IF @ = "FAIL" THEN @ ELSE "RUNNING"]
      BY <1>3 DEF PrepareStageExecution
    <2>3. StagesInOrder(a)'
      <3> SUFFICES ASSUME NEW s \in Stage
                   PROVE  /\ s < index[a] => bound[a][s] # NoArtifact
                          /\ s >= index[a] => bound[a][s] = NoArtifact
                          /\ s >= index[a] => execution'[a][s] # "PASS"
        BY <1>3, <2>1 DEF PrepareStageExecution, StagesInOrder
      <3>1. CASE s = index[a]
        BY <2>1, <2>2, <3>1, NStagesIsNat DEF TypeOK, Stage
      <3>2. CASE s # index[a]
        <4>1. execution'[a][s] = execution[a][s]
          BY <2>2, <3>2 DEF TypeOK
        <4> QED
          BY <2>1, <3>2, <4>1, NStagesIsNat DEF Control, StagesInOrder, Stage
      <3> QED BY <3>1, <3>2
    <2> QED
      BY <1>3, <2>1, <2>3
      DEF PrepareStageExecution, Control, IndexFits, Loop, ReuseIsQualified, Expected,
          Reusable, FailureStops, CompletionIsLast
  <1>4. CASE EngineExecuteStage(a)
    BY <1>4, MovesOn DEF EngineExecuteStage
  <1>5. CASE EngineActivityFails(a)
    BY <1>5, MovesOn DEF EngineActivityFails
  <1>6. CASE RecordStageActivityError(a)
    <2>1. /\ index[a] \in Stage
          /\ pc'[a] = "failed"
          /\ final[a] # "COMPLETED"
      BY <1>6 DEF RecordStageActivityError, Goto, Control, IndexFits, Loop,
                  CompletionIsLast, TypeOK
    <2>2. \A s \in Stage : execution'[a][s] = "PASS" => execution[a][s] = "PASS"
      BY <1>6, <2>1 DEF RecordStageActivityError, TypeOK
    <2>3. StagesInOrder(a)'
      BY <1>6, <2>1, <2>2
      DEF RecordStageActivityError, Control, StagesInOrder, Expected
    <2> QED
      BY <1>6, <2>1, <2>3
      DEF RecordStageActivityError, Control, IndexFits, Loop, ReuseIsQualified, Expected,
          Reusable, FailureStops, CompletionIsLast
  <1>7. CASE CommitWaiting(a)
    <2>1. /\ index[a] \in Stage
          /\ pc'[a] \in {"commit", "refresh"}
          /\ failures[a] = {}
          /\ ~ResultPassed(a)
      BY <1>7 DEF CommitWaiting, Answer, Goto, Control, IndexFits, Loop, FailureStops,
                  ResultPassed, TypeOK
    <2>2. \A s \in Stage : execution'[a][s] = "PASS" => execution[a][s] = "PASS"
      BY <1>7, <2>1 DEF CommitWaiting, TypeOK
    <2>3. StagesInOrder(a)'
      BY <1>7, <2>1, <2>2 DEF CommitWaiting, Control, StagesInOrder, Expected
    <2> QED
      BY <1>7, <2>1, <2>3
      DEF CommitWaiting, Control, IndexFits, Loop, ReuseIsQualified, Expected,
          Reusable, FailureStops, CompletionIsLast
  <1>8. CASE CommitFailed(a)
    <2>1. /\ index[a] \in Stage
          /\ pc'[a] \in {"commit", "failed"}
          /\ final[a] # "COMPLETED"
          /\ ~ResultPassed(a)
      BY <1>8 DEF CommitFailed, Answer, Goto, Control, IndexFits, Loop,
                  CompletionIsLast, ResultPassed, TypeOK
    <2>2. \A s \in Stage : execution'[a][s] = "PASS" => execution[a][s] = "PASS"
      BY <1>8, <2>1 DEF CommitFailed, TypeOK
    <2>3. StagesInOrder(a)'
      BY <1>8, <2>1, <2>2 DEF CommitFailed, Control, StagesInOrder, Expected
    <2> QED
      BY <1>8, <2>1, <2>3
      DEF CommitFailed, Control, IndexFits, Loop, ReuseIsQualified, Expected,
          Reusable, FailureStops, CompletionIsLast
  <1>9. CASE CommitPassed(a)
    <2>1. CASE NextStage(a)
      BY <1>9, <2>1, Advances DEF CommitPassed, ResultPassed
    <2>2. CASE UNCHANGED <<pc, index>>
      BY <1>9, <2>2, AdvanceIsLost DEF CommitPassed, ResultPassed
    <2> QED BY <1>9, <2>1, <2>2 DEF CommitPassed
  <1>10. CASE CommitRejected(a)
    BY <1>10, Fails DEF CommitRejected
  <1>11. CASE RefreshPlan(a)
    <2>1. CASE Resolved(a) /\ Goto(a, "stage")
      BY <1>11, <2>1, Replans DEF RefreshPlan
    <2>2. CASE Goto(a, "receive") /\ UNCHANGED <<snapshot, reuse>>
      BY <1>11, <2>2, MovesOn DEF RefreshPlan
    <2> QED BY <1>11, <2>1, <2>2 DEF RefreshPlan
  <1>12. CASE ReceiveSignal(a)
    BY <1>12, MovesOn DEF ReceiveSignal
  <1>13. CASE RefreshPlanAgain(a)
    BY <1>13, Replans DEF RefreshPlanAgain
  <1>14. CASE FinalizeCompile(a)
    <2>1. /\ pc'[a] \in {"finalize", "completed"}
          /\ index[a] = NStages + 1
          /\ failures[a] = {}
      BY <1>14 DEF FinalizeCompile, Answer, Goto, Control, IndexFits, FailureStops, TypeOK
    <2>2. StagesInOrder(a)'
      BY <1>14, <2>1, NStagesIsNat DEF FinalizeCompile, Control, StagesInOrder, Stage
    <2> QED
      BY <1>14, <2>1, <2>2
      DEF FinalizeCompile, Control, IndexFits, Loop, ReuseIsQualified, Expected,
          Reusable, FailureStops, CompletionIsLast
  <1>15. CASE ActivityExhausted(a)
    BY <1>15, Fails DEF ActivityExhausted
  <1> QED
    BY <1>1, <1>2, <1>3, <1>4, <1>5, <1>6, <1>7, <1>8, <1>9, <1>10, <1>11, <1>12,
       <1>13, <1>14, <1>15
    DEF CompileWorkflow, CommitStageResult

LEMMA ControlStep ==
  ASSUME TypeOK, \A a \in Attempt : Control(a), [Next]_vars
  PROVE  \A a \in Attempt : Control(a)'
  <1> SUFFICES ASSUME NEW b \in Attempt PROVE Control(b)'
    OBVIOUS
  <1>1. ASSUME NEW a \in Attempt, CompileWorkflow(a) PROVE Control(b)'
    BY <1>1, OwnControl, WorkflowLeavesOthers, ControlFrame
  <1>2. ASSUME NEW request \in Request, Client(request) PROVE Control(b)'
    BY <1>2, ClientLeavesControl, ControlFrame
  <1>3. CASE UNCHANGED vars
    BY <1>3, ControlFrame DEF vars, tables, plan, SameControl
  <1> QED BY <1>1, <1>2, <1>3 DEF Next

-----------------------------------------------------------------------------
\* The registry.

LEMMA NoDemo ==
  ASSUME NEW ids
  PROVE  DemoIds(ids) = {} <=>
           \A art \in artifacts : art.id \in ids => art.status # "PASS_DEMO_ONLY"
  BY DEF DemoIds, ArtifactsOf

\* What a plan may reuse is registered, and for a product it passed.
LEMMA ReusableIsRegistered ==
  ASSUME RegistryIsSound, NEW a \in Attempt, NEW id, Reusable(a, id)
  PROVE  /\ id \in Registered
         /\ a \notin Research =>
              \A art \in artifacts : art.id = id => art.status # "PASS_DEMO_ONLY"
  <1>1. PICK lane \in {"REUSE_ELIGIBLE", "DEMO_REUSE_ELIGIBLE"} :
          /\ <<id, lane>> \in qualified
          /\ a \notin Research => lane = "REUSE_ELIGIBLE"
    BY DEF Reusable
  <1>2. PICK art \in artifacts : art.id = id /\ lane = LaneOf(art.status)
    BY <1>1 DEF RegistryIsSound
  <1>3. a \notin Research => art.status # "PASS_DEMO_ONLY"
    BY <1>1, <1>2 DEF LaneOf
  <1>4. \A x \in artifacts : x.id = id => x = art
    BY <1>2 DEF RegistryIsSound
  <1> QED BY <1>2, <1>3, <1>4 DEF Registered

\* The bound dependencies of the stage at hand are registered.
LEMMA DependenciesRegistered ==
  ASSUME TypeOK, RegistryIsSound, NEW a \in Attempt, Control(a), index[a] \in Stage
  PROVE  /\ BoundDependencies(a, index[a]) \subseteq BoundIds(a)
         /\ BoundDependencies(a, index[a]) \subseteq Registered
  <1>1. NoArtifact \notin BoundDependencies(a, index[a])
    BY DependenciesBound, AttemptAssumption
  <1>2. BoundDependencies(a, index[a]) \subseteq BoundIds(a)
    BY <1>1, GraphAssumption DEF BoundDependencies, BoundIds
  <1> QED BY <1>2 DEF RegistryIsSound

LEMMA RegistryFrame ==
  ASSUME RegistryIsSound, DemoStaysInLane, UNCHANGED <<artifacts, qualified, bound>>
  PROVE  RegistryIsSound' /\ DemoStaysInLane'
  <1>1. /\ Registered' = Registered
        /\ \A b \in Attempt : BoundIds(b)' = BoundIds(b)
    BY DEF Registered, BoundIds
  <1>2. \A ids : DemoIds(ids)' = DemoIds(ids)
    BY DEF DemoIds, ArtifactsOf
  <1>3. RegistryIsSound'
    BY <1>1 DEF RegistryIsSound, LaneOf
  <1>4. DemoStaysInLane'
    BY <1>1, <1>2 DEF DemoStaysInLane
  <1> QED BY <1>3, <1>4

LEMMA ReuseKeepsRegistry ==
  ASSUME TypeOK, RegistryIsSound, DemoStaysInLane, NEW a \in Attempt, Control(a),
         BindReusedStage(a)
  PROVE  RegistryIsSound' /\ DemoStaysInLane'
  <1> DEFINE id == Expected(a, index[a])
  <1>1. /\ Reusable(a, id)
        /\ bound' = [bound EXCEPT ![a][index[a]] = id]
        /\ UNCHANGED <<artifacts, qualified>>
    BY DEF BindReusedStage
  <1>2. /\ \A b \in Attempt : b # a => BoundIds(b)' = BoundIds(b)
        /\ BoundIds(a)' \subseteq BoundIds(a) \cup {id}
    BY <1>1 DEF BoundIds, TypeOK
  <1> HIDE DEF id
  <1>3. RegistryIsSound'
    <2>1. \A b \in Attempt : BoundIds(b)' \subseteq Registered
      BY <1>1, <1>2, ReusableIsRegistered DEF RegistryIsSound
    <2>2. Registered' = Registered
      BY <1>1 DEF Registered
    <2> QED BY <1>1, <2>1, <2>2 DEF RegistryIsSound, LaneOf
  <1>4. ASSUME NEW b \in Attempt \ Research, NEW art \in artifacts, art.id \in BoundIds(b)'
        PROVE  art.status # "PASS_DEMO_ONLY"
    <2>1. CASE art.id \in BoundIds(b)
      BY <2>1, <1>4, NoDemo DEF DemoStaysInLane
    <2>2. CASE b = a /\ art.id = id
      BY <2>2, <1>1, <1>4, ReusableIsRegistered
    <2> QED BY <2>1, <2>2, <1>2, <1>4
  <1>5. DemoStaysInLane'
    BY <1>1, <1>4 DEF DemoStaysInLane, DemoIds, ArtifactsOf
  <1> QED BY <1>3, <1>5

\* A commit adds the produced artifact or finds it there.
LEMMA CommitRegisters ==
  ASSUME NEW a \in Attempt, CommitPassed(a)
  PROVE  /\ \A x \in artifacts : x.id = Expected(a, index[a]) =>
              x.status = result[a] /\ artifacts' = artifacts
         /\ (\A x \in artifacts : x.id # Expected(a, index[a])) =>
              artifacts' = artifacts \cup {Produced(a, index[a])}
  <1> DEFINE id == Expected(a, index[a])
  <1>1. /\ artifacts' = WithProduced(a, index[a])
        /\ \A x \in ArtifactsOf({id}) : x.status = result[a]
    BY DEF CommitPassed, Committable
  <1>2. Produced(a, index[a]).id = id
    BY DEF Produced
  <1> HIDE DEF id
  <1> QED BY <1>1, <1>2 DEF WithProduced, ArtifactsOf, id

\* The registry grows by new identities only.
LEMMA RegistryGrows ==
  ASSUME NEW a \in Attempt, CompileWorkflow(a)
  PROVE  /\ artifacts \subseteq artifacts'
         /\ \A x \in artifacts' : x.id \in Registered => x \in artifacts
  <1>1. CASE CommitPassed(a)
    <2>1. Produced(a, index[a]).id = Expected(a, index[a])
      BY DEF Produced
    <2> QED BY <1>1, <2>1, CommitRegisters DEF Registered
  <1>2. CASE ~CommitPassed(a)
    BY <1>2 DEF CompileWorkflow, CommitStageResult, ResolveCompilePlan, BindReusedStage,
         PrepareStageExecution, EngineExecuteStage, EngineActivityFails,
         RecordStageActivityError, CommitWaiting, CommitFailed, CommitRejected,
         RefreshPlan, ReceiveSignal, RefreshPlanAgain, FinalizeCompile,
         ActivityExhausted, tables
  <1> QED BY <1>1, <1>2

LEMMA CommitKeepsRegistry ==
  ASSUME TypeOK, RegistryIsSound, DemoStaysInLane, NEW a \in Attempt, Control(a),
         AnswerInLane(a), CommitPassed(a)
  PROVE  RegistryIsSound' /\ DemoStaysInLane'
  <1> DEFINE s == index[a]
             id == Expected(a, s)
             new == Produced(a, s)
  <1>1. /\ s \in Stage
        /\ new.id = id
        /\ new.status = result[a]
        /\ new.stages = BoundDependencies(a, s)
    BY DEF CommitPassed, Control, IndexFits, Loop, Produced
  <1>2. /\ \A x \in artifacts : x.id = id => x.status = result[a] /\ artifacts' = artifacts
        /\ (\A x \in artifacts : x.id # id) => artifacts' = artifacts \cup {new}
    BY CommitRegisters
  <1>3. /\ qualified' = qualified \cup {<<id, LaneOf(result[a])>>}
        /\ bound' = [bound EXCEPT ![a][s] = id]
        /\ result[a] \in {"PASS", "PASS_DEMO_ONLY"}
        /\ pc[a] = "commit"
    BY DEF CommitPassed
  <1>4. /\ \A b \in Attempt : b # a => BoundIds(b)' = BoundIds(b)
        /\ BoundIds(a)' \subseteq BoundIds(a) \cup {id}
    BY <1>3 DEF BoundIds, TypeOK
  <1>5. BoundDependencies(a, s) \subseteq Registered
    BY <1>1, DependenciesRegistered
  <1> HIDE DEF s, id, new
  <1>6. Registered' = Registered \cup {id}
    BY <1>1, <1>2 DEF Registered
  <1>7. \A x \in artifacts' : x.id \in Registered => x \in artifacts
    BY <1>1, <1>2 DEF Registered
  <1>8. RegistryIsSound'
    <2>1. \A x, y \in artifacts' : x.id = y.id => x = y
      BY <1>1, <1>2 DEF RegistryIsSound
    <2>2. \A q \in qualified' : \E art \in artifacts' :
            art.id = q[1] /\ q[2] = LaneOf(art.status)
      BY <1>1, <1>2, <1>3 DEF RegistryIsSound
    <2>3. \A art \in artifacts' : art.stages \subseteq Registered'
      BY <1>1, <1>2, <1>5, <1>6 DEF RegistryIsSound
    <2>4. \A b \in Attempt : BoundIds(b)' \subseteq Registered'
      BY <1>4, <1>6 DEF RegistryIsSound
    <2> QED BY <2>1, <2>2, <2>3, <2>4 DEF RegistryIsSound, LaneOf
  <1>9. ASSUME NEW b \in Attempt \ Research, NEW art \in artifacts', art.id \in BoundIds(b)'
        PROVE  art.status # "PASS_DEMO_ONLY"
    <2>1. CASE art.id \in BoundIds(b)
      <3>1. art \in artifacts
        BY <2>1, <1>7, <1>9 DEF RegistryIsSound
      <3> QED BY <3>1, <2>1, <1>9, NoDemo DEF DemoStaysInLane
    <2>2. CASE b = a /\ art.id = id
      <3>1. art.status = result[a]
        BY <2>2, <1>1, <1>2, <1>9
      <3> QED BY <3>1, <2>2, <1>1, <1>3, <1>9 DEF AnswerInLane
    <2> QED BY <2>1, <2>2, <1>4, <1>9
  <1>10. ASSUME NEW art \in artifacts', art.status = "PASS",
                NEW x \in artifacts', x.id \in art.stages
         PROVE  x.status # "PASS_DEMO_ONLY"
    <2>1. CASE art \in artifacts
      <3>1. x \in artifacts
        BY <2>1, <1>7, <1>10 DEF RegistryIsSound
      <3> QED BY <3>1, <2>1, <1>10, NoDemo DEF DemoStaysInLane
    <2>2. CASE art = new
      <3>1. x \in artifacts
        BY <2>2, <1>1, <1>5, <1>7, <1>10
      <3>2. DemoIds(BoundDependencies(a, s)) = {}
        BY <2>2, <1>1, <1>3, <1>10 DEF AnswerInLane, s
      <3> QED BY <3>1, <3>2, <2>2, <1>1, <1>10, NoDemo
    <2> QED BY <2>1, <2>2, <1>2, <1>10
  <1>11. DemoStaysInLane'
    BY <1>9, <1>10 DEF DemoStaysInLane, DemoIds, ArtifactsOf
  <1> QED BY <1>8, <1>11

\* An answer at hand stays in its lane: the registry grows by new identities,
\* and the dependencies of the stage are registered.
LEMMA AnswerKept ==
  ASSUME TypeOK, RegistryIsSound, NEW b \in Attempt, Control(b), AnswerInLane(b),
         pc[b] = "commit", result'[b] = result[b], index'[b] = index[b],
         \A s \in Stage : s < index[b] => bound'[b][s] = bound[b][s],
         \A x \in artifacts' : x.id \in Registered => x \in artifacts
  PROVE  AnswerInLane(b)'
  <1>1. index[b] \in Stage
    BY DEF Control, IndexFits, Loop
  <1>2. BoundDependencies(b, index[b])' = BoundDependencies(b, index[b])
    BY <1>1, GraphAssumption DEF BoundDependencies
  <1>3. BoundDependencies(b, index[b]) \subseteq Registered
    BY <1>1, DependenciesRegistered
  <1>4. ASSUME result[b] = "PASS"
        PROVE  DemoIds(BoundDependencies(b, index[b]))' = {}
    <2>1. DemoIds(BoundDependencies(b, index[b])) = {}
      BY <1>4 DEF AnswerInLane
    <2>2. \A x \in artifacts' : x.id \in BoundDependencies(b, index[b]) =>
            x.status # "PASS_DEMO_ONLY"
      BY <2>1, <1>3, NoDemo
    <2> QED BY <2>2, <1>2 DEF DemoIds, ArtifactsOf
  <1> QED BY <1>4 DEF AnswerInLane

\* The Engine's answer respects the lanes when it is given.
LEMMA AnswerGiven ==
  ASSUME TypeOK, NEW a \in Attempt, EngineExecuteStage(a)
  PROVE  AnswerInLane(a)'
  <1> DEFINE s == index[a]
  <1>1. PICK answer \in EngineAnswers(a, s) : result' = [result EXCEPT ![a] = answer]
    BY DEF EngineExecuteStage
  <1>2. UNCHANGED <<artifacts, bound, index>>
    BY DEF EngineExecuteStage, tables
  <1>3. /\ answer = "PASS_DEMO_ONLY" => a \in Research
        /\ answer = "PASS" => DemoIds(BoundDependencies(a, s)) = {}
    BY <1>1, EngineAnswerType
  <1>4. result'[a] = answer
    BY <1>1 DEF TypeOK
  <1>5. DemoIds(BoundDependencies(a, s))' = DemoIds(BoundDependencies(a, s))
    BY <1>2 DEF DemoIds, ArtifactsOf, BoundDependencies
  <1> QED BY <1>3, <1>4, <1>5 DEF AnswerInLane

\* Every other own step ends with no answer at hand, or with the same one.
LEMMA AnswerStaysOrGoes ==
  ASSUME TypeOK, NEW a \in Attempt, Control(a), CompileWorkflow(a), ~EngineExecuteStage(a)
  PROVE  \/ pc'[a] # "commit"
         \/ /\ pc[a] = "commit"
            /\ result'[a] = result[a]
            /\ index'[a] = index[a]
            /\ \A s \in Stage : s < index[a] => bound'[a][s] = bound[a][s]
  <1> USE DEF TypeOK, tables, plan, Goto, Answer
  <1>1. CASE ResolveCompilePlan(a)
    BY <1>1 DEF ResolveCompilePlan
  <1>2. CASE BindReusedStage(a)
    BY <1>2 DEF BindReusedStage, NextStage
  <1>3. CASE PrepareStageExecution(a)
    BY <1>3 DEF PrepareStageExecution
  <1>4. CASE EngineActivityFails(a)
    BY <1>4 DEF EngineActivityFails
  <1>5. CASE RecordStageActivityError(a)
    BY <1>5 DEF RecordStageActivityError
  <1>6. CASE CommitWaiting(a)
    BY <1>6 DEF CommitWaiting
  <1>7. CASE CommitFailed(a)
    BY <1>7 DEF CommitFailed
  <1>8. CASE CommitPassed(a)
    <2>1. CASE NextStage(a)
      BY <2>1 DEF NextStage
    <2>2. CASE UNCHANGED <<pc, index>>
      <3>1. \A s \in Stage : s < index[a] => s # index[a]
        BY NStagesIsNat DEF Stage
      <3> QED BY <1>8, <2>2, <3>1 DEF CommitPassed
    <2> QED BY <1>8, <2>1, <2>2 DEF CommitPassed
  <1>9. CASE CommitRejected(a)
    BY <1>9 DEF CommitRejected
  <1>10. CASE RefreshPlan(a)
    BY <1>10 DEF RefreshPlan
  <1>11. CASE ReceiveSignal(a)
    BY <1>11 DEF ReceiveSignal
  <1>12. CASE RefreshPlanAgain(a)
    BY <1>12 DEF RefreshPlanAgain
  <1>13. CASE FinalizeCompile(a)
    BY <1>13 DEF FinalizeCompile
  <1>14. CASE ActivityExhausted(a)
    BY <1>14 DEF ActivityExhausted
  <1> QED
    BY <1>1, <1>2, <1>3, <1>4, <1>5, <1>6, <1>7, <1>8, <1>9, <1>10, <1>11, <1>12,
       <1>13, <1>14
    DEF CompileWorkflow, CommitStageResult

LEMMA AnswerStep ==
  ASSUME TypeOK, IInv, NEW a \in Attempt, CompileWorkflow(a), NEW b \in Attempt
  PROVE  AnswerInLane(b)'
  <1> USE DEF IInv
  <1>1. CASE b # a
    <2>1. SameControl(b)
      BY <1>1, WorkflowLeavesOthers
    <2>2. CASE pc[b] = "commit"
      BY <2>1, <2>2, RegistryGrows, AnswerKept DEF SameControl
    <2>3. CASE pc[b] # "commit"
      BY <2>1, <2>3 DEF SameControl, AnswerInLane
    <2> QED BY <2>2, <2>3
  <1>2. CASE b = a /\ EngineExecuteStage(a)
    BY <1>2, AnswerGiven
  <1>3. CASE b = a /\ ~EngineExecuteStage(a)
    <2>1. CASE pc'[a] # "commit"
      BY <1>3, <2>1 DEF AnswerInLane
    <2>2. CASE pc'[a] = "commit"
      BY <1>3, <2>2, AnswerStaysOrGoes, RegistryGrows, AnswerKept
    <2> QED BY <2>1, <2>2
  <1> QED BY <1>1, <1>2, <1>3

LEMMA RegistryStep ==
  ASSUME TypeOK, IInv, NEW a \in Attempt, CompileWorkflow(a)
  PROVE  RegistryIsSound' /\ DemoStaysInLane'
  <1> USE DEF IInv
  <1>1. CASE BindReusedStage(a)
    BY <1>1, ReuseKeepsRegistry
  <1>2. CASE CommitPassed(a)
    BY <1>2, CommitKeepsRegistry
  <1>3. CASE ~BindReusedStage(a) /\ ~CommitPassed(a)
    <2>1. UNCHANGED <<artifacts, qualified, bound>>
      BY <1>3 DEF CompileWorkflow, CommitStageResult, ResolveCompilePlan,
           PrepareStageExecution, EngineExecuteStage, EngineActivityFails,
           RecordStageActivityError, CommitWaiting, CommitFailed, CommitRejected,
           RefreshPlan, ReceiveSignal, RefreshPlanAgain, FinalizeCompile,
           ActivityExhausted, tables
    <2> QED BY <2>1, RegistryFrame
  <1> QED BY <1>1, <1>2, <1>3

LEMMA InvariantStep ==
  ASSUME TypeOK, IInv, [Next]_vars
  PROVE  IInv'
  <1>1. \A b \in Attempt : Control(b)'
    BY ControlStep DEF IInv
  <1>2. ASSUME NEW a \in Attempt, CompileWorkflow(a) PROVE IInv'
    BY <1>1, <1>2, AnswerStep, RegistryStep DEF IInv
  <1>3. ASSUME UNCHANGED <<artifacts, qualified, bound, pc, index, result>> PROVE IInv'
    <2>1. RegistryIsSound' /\ DemoStaysInLane'
      BY <1>3, RegistryFrame DEF IInv
    <2>2. \A b \in Attempt : AnswerInLane(b)'
      BY <1>3 DEF IInv, AnswerInLane, DemoIds, ArtifactsOf, BoundDependencies
    <2> QED BY <1>1, <2>1, <2>2 DEF IInv
  <1>4. ASSUME NEW request \in Request, Client(request) PROVE IInv'
    BY <1>3, <1>4 DEF Client, BindEvidence, SubmitStageReady, BindCrashes, DeliverSignal,
                      tables, plan
  <1>5. CASE UNCHANGED vars
    BY <1>3, <1>5 DEF vars, tables, plan
  <1> QED BY <1>2, <1>4, <1>5 DEF Next

LEMMA InvariantInit == Init => TypeOK /\ IInv
  <1> SUFFICES ASSUME Init PROVE TypeOK /\ IInv
    OBVIOUS
  <1>1. TypeOK
    BY NStagesIsNat DEF Init, TypeOK, Place, Activity
  <1>2. \A a \in Attempt : Control(a)
    BY NStagesIsNat
    DEF Init, Control, IndexFits, StagesInOrder, ReuseIsQualified, FailureStops,
        CompletionIsLast, Stage
  <1>3. \A a \in Attempt : AnswerInLane(a)
    BY DEF Init, AnswerInLane
  <1>4. \A a \in Attempt : BoundIds(a) = {}
    BY DEF Init, BoundIds
  <1>5. RegistryIsSound
    BY <1>4 DEF Init, RegistryIsSound
  <1>6. DemoStaysInLane
    BY DEF Init, DemoStaysInLane, DemoIds, ArtifactsOf
  <1> QED BY <1>1, <1>2, <1>3, <1>5, <1>6 DEF IInv

-----------------------------------------------------------------------------
\* Types and the inductive invariant hold together.
LEMMA InvariantHolds == Spec => [](TypeOK /\ IInv)
  <1>1. TypeOK /\ IInv /\ [Next]_vars => (TypeOK /\ IInv)'
    BY TypeStep, InvariantStep DEF IInv
  <1> QED BY <1>1, InvariantInit, PTL DEF Spec

\* The tables, the workflows' plans and positions and the signals keep their
\* types: no commit registers an ill-formed identity and no loop leaves the
\* graph, whatever the graph, the attempts and the roles.
THEOREM TypeCorrect == Spec => []TypeOK
  BY InvariantHolds, PTL

\* Whatever evidence arrives and whatever answers are lost, the activities of
\* the stage at hand are admitted: PrepareStageExecution meets neither a
\* passed execution nor a dependency without artifact, and BindReusedStage
\* neither an unqualified artifact nor a drifted binding.
THEOREM StagesAdmitted == Spec => []StageIsAdmitted
  <1>1. TypeOK /\ IInv => StageIsAdmitted
    <2> SUFFICES ASSUME TypeOK, IInv, NEW a \in Attempt, pc[a] = "stage"
                 PROVE  LET s == index[a] IN
                          IF s \in reuse[a]
                          THEN /\ Reusable(a, Expected(a, s))
                               /\ bound[a][s] \in {NoArtifact, Expected(a, s)}
                          ELSE /\ execution[a][s] # "PASS"
                               /\ NoArtifact \notin BoundDependencies(a, s)
      BY DEF StageIsAdmitted
    <2>1. Control(a) /\ index[a] \in Stage
      BY DEF IInv, Control, IndexFits, Loop
    <2>2. Reusable(a, Expected(a, index[a])) \/ index[a] \notin reuse[a]
      BY <2>1 DEF Control, ReuseIsQualified
    <2>3. /\ bound[a][index[a]] \in {NoArtifact, Expected(a, index[a])}
          /\ execution[a][index[a]] # "PASS"
      BY <2>1, NStagesIsNat DEF Control, StagesInOrder, Stage
    <2>4. NoArtifact \notin BoundDependencies(a, index[a])
      BY <2>1, DependenciesBound, AttemptAssumption
    <2> QED BY <2>2, <2>3, <2>4
  <1> QED BY <1>1, InvariantHolds, PTL

\* FinalizeCompile completes an attempt only with an artifact for every stage
\* and no recorded failure.
THEOREM CompletionIsWhole == Spec => []CompletedIsWhole
  <1>1. TypeOK /\ IInv => CompletedIsWhole
    BY NStagesIsNat
    DEF IInv, Control, CompletionIsLast, StagesInOrder, CompletedIsWhole, Stage
  <1> QED BY <1>1, InvariantHolds, PTL

\* Demo results never reach a product attempt or an artifact that passed,
\* for every graph and any number of attempts that share identities and the
\* cache.
THEOREM LanesAreSeparate == Spec => []DemoStaysInLane
  BY InvariantHolds, PTL DEF IInv
=============================================================================

--------------------------- MODULE EvidenceProofs ---------------------------
(***************************************************************************)
(* CompileAttempt and the evidence clients bind: no wakeup is lost, and if *)
(* they bind a stage's evidence in one call and only while the stage       *)
(* waits, the provenance of every artifact is what its identity says, for  *)
(* any graph, attempts, roles and faults.                                  *)
(***************************************************************************)
EXTENDS CompileProofs

LEMMA StageInLineage ==
  ASSUME NEW s \in Stage
  PROVE  s \in Lineage[s]
  BY DEF Lineage

\* Evidence of the stage itself changes its identity.
LEMMA OwnEvidenceChanges ==
  ASSUME TypeOK, NEW a \in Attempt, index[a] \in Stage, ~EvidenceChanged(a)
  PROVE  (evidence[a] \ snapshot[a]) \cap SlotsOf(index[a]) = {}
  <1> SUFFICES ASSUME NEW slot \in evidence[a], slot[1] = index[a]
               PROVE  slot \in snapshot[a]
    BY DEF SlotsOf
  <1>1. slot \in Identity(index[a], RootOf[a], evidence[a]).evidence
    BY StageInLineage DEF Identity
  <1>2. slot \in Identity(index[a], RootOf[a], snapshot[a]).evidence
    BY <1>1 DEF EvidenceChanged, Expected
  <1> QED BY <1>2 DEF Identity

\* Signals are buffered at the end and taken from the front.
LEMMA SignalsQueue ==
  ASSUME NEW q \in Seq(Stage), NEW s \in Stage, NEW x \in Stage
  PROVE  /\ \E i \in DOMAIN Append(q, s) : Append(q, s)[i] = s
         /\ (\E i \in DOMAIN q : q[i] = x) =>
              \E i \in DOMAIN Append(q, s) : Append(q, s)[i] = x
         /\ q # <<>> /\ Head(q) # x /\ (\E i \in DOMAIN q : q[i] = x) =>
              \E i \in DOMAIN Tail(q) : Tail(q)[i] = x
  <1>1. \E i \in DOMAIN Append(q, s) : Append(q, s)[i] = s
    <2>1. Len(q) + 1 \in DOMAIN Append(q, s) /\ Append(q, s)[Len(q) + 1] = s
      OBVIOUS
    <2> QED BY <2>1
  <1>2. ASSUME NEW i \in DOMAIN q
        PROVE  i \in DOMAIN Append(q, s) /\ Append(q, s)[i] = q[i]
    OBVIOUS
  <1>3. ASSUME NEW i \in DOMAIN q, q # <<>>, Head(q) # q[i]
        PROVE  i - 1 \in DOMAIN Tail(q) /\ Tail(q)[i - 1] = q[i]
    <2>1. /\ i \in 1 .. Len(q)
          /\ i # 1
          /\ Len(q) \in Nat
      BY <1>3
    <2>2. i - 1 \in 1 .. Len(q) - 1
      BY <2>1
    <2>3. /\ Len(Tail(q)) = Len(q) - 1
          /\ \A j \in 1 .. Len(q) - 1 : Tail(q)[j] = q[j + 1]
          /\ DOMAIN Tail(q) = 1 .. Len(q) - 1
      BY <1>3
    <2>4. Tail(q)[i - 1] = q[(i - 1) + 1]
      BY <2>2, <2>3
    <2> QED BY <2>1, <2>2, <2>3, <2>4
  <1> QED BY <1>1, <1>2, <1>3

-----------------------------------------------------------------------------
\* Steps of a workflow.

LEMMA WorkflowLeavesClients ==
  ASSUME TypeOK, NEW a \in Attempt, CompileWorkflow(a)
  PROVE  /\ UNCHANGED <<evidence, ready, sent, binding, abandoned>>
         /\ \A b \in Attempt : b # a => channel'[b] = channel[b]
  <1> USE DEF tables, signalling
  <1>1. CASE ReceiveSignal(a)
    BY <1>1 DEF ReceiveSignal, TypeOK
  <1>2. CASE ~ReceiveSignal(a)
    BY <1>2 DEF CompileWorkflow, CommitStageResult, ResolveCompilePlan, BindReusedStage,
         PrepareStageExecution, EngineExecuteStage, EngineActivityFails,
         RecordStageActivityError, CommitWaiting, CommitFailed, CommitPassed,
         CommitRejected, RefreshPlan, RefreshPlanAgain, FinalizeCompile,
         ActivityExhausted
  <1> QED BY <1>1, <1>2

\* A step makes a new plan, takes a signal, or changes neither.
LEMMA WorkflowSignals ==
  ASSUME TypeOK, NEW a \in Attempt, CompileWorkflow(a)
  PROVE  /\ pc[a] \notin {"completed", "failed"}
         /\ \/ Resolved(a)
            \/ ReceiveSignal(a)
            \/ /\ UNCHANGED <<channel, snapshot>>
               /\ pc[a] = "refreshAgain" => pc'[a] = "failed"
         /\ pc'[a] = "receive" =>
              /\ pc[a] = "refresh"
              /\ ~EvidenceChanged(a)
              /\ UNCHANGED <<index, snapshot, execution>>
  <1> USE DEF TypeOK, tables, plan, signalling, Goto, Answer
  <1>1. CASE ResolveCompilePlan(a)
    BY <1>1 DEF ResolveCompilePlan
  <1>2. CASE BindReusedStage(a)
    BY <1>2 DEF BindReusedStage, NextStage
  <1>3. CASE PrepareStageExecution(a)
    BY <1>3 DEF PrepareStageExecution
  <1>4. CASE EngineExecuteStage(a)
    BY <1>4 DEF EngineExecuteStage
  <1>5. CASE EngineActivityFails(a)
    BY <1>5 DEF EngineActivityFails
  <1>6. CASE RecordStageActivityError(a)
    BY <1>6 DEF RecordStageActivityError
  <1>7. CASE CommitWaiting(a)
    BY <1>7 DEF CommitWaiting
  <1>8. CASE CommitFailed(a)
    BY <1>8 DEF CommitFailed
  <1>9. CASE CommitPassed(a)
    BY <1>9 DEF CommitPassed, NextStage
  <1>10. CASE CommitRejected(a)
    BY <1>10 DEF CommitRejected
  <1>11. CASE RefreshPlan(a)
    BY <1>11 DEF RefreshPlan
  <1>12. CASE ReceiveSignal(a)
    BY <1>12 DEF ReceiveSignal
  <1>13. CASE RefreshPlanAgain(a)
    BY <1>13 DEF RefreshPlanAgain
  <1>14. CASE FinalizeCompile(a)
    BY <1>14 DEF FinalizeCompile
  <1>15. CASE ActivityExhausted(a)
    BY <1>15 DEF ActivityExhausted, Activity
  <1> QED
    BY <1>1, <1>2, <1>3, <1>4, <1>5, <1>6, <1>7, <1>8, <1>9, <1>10, <1>11, <1>12,
       <1>13, <1>14, <1>15
    DEF CompileWorkflow, CommitStageResult

LEMMA WaitStaysCommitted ==
  ASSUME TypeOK, NEW a \in Attempt, Control(a), WaitIsCommitted(a), CompileWorkflow(a)
  PROVE  WaitIsCommitted(a)'
  <1> USE DEF TypeOK, tables, plan, Goto, Answer, WaitIsCommitted
  <1>1. CASE ResolveCompilePlan(a)
    BY <1>1 DEF ResolveCompilePlan
  <1>2. CASE BindReusedStage(a)
    BY <1>2 DEF BindReusedStage, NextStage
  <1>3. CASE PrepareStageExecution(a)
    BY <1>3 DEF PrepareStageExecution
  <1>4. CASE EngineExecuteStage(a)
    BY <1>4 DEF EngineExecuteStage
  <1>5. CASE EngineActivityFails(a)
    BY <1>5 DEF EngineActivityFails
  <1>6. CASE RecordStageActivityError(a)
    BY <1>6 DEF RecordStageActivityError
  <1>7. CASE CommitWaiting(a)
    <2>1. index[a] \in Stage
      BY <1>7 DEF CommitWaiting, Control, IndexFits, Loop
    <2> QED BY <1>7, <2>1 DEF CommitWaiting
  <1>8. CASE CommitFailed(a)
    BY <1>8 DEF CommitFailed
  <1>9. CASE CommitPassed(a)
    BY <1>9 DEF CommitPassed, NextStage
  <1>10. CASE CommitRejected(a)
    BY <1>10 DEF CommitRejected
  <1>11. CASE RefreshPlan(a)
    BY <1>11 DEF RefreshPlan
  <1>12. CASE ReceiveSignal(a)
    BY <1>12 DEF ReceiveSignal
  <1>13. CASE RefreshPlanAgain(a)
    BY <1>13 DEF RefreshPlanAgain
  <1>14. CASE FinalizeCompile(a)
    BY <1>14 DEF FinalizeCompile
  <1>15. CASE ActivityExhausted(a)
    BY <1>15 DEF ActivityExhausted
  <1> QED
    BY <1>1, <1>2, <1>3, <1>4, <1>5, <1>6, <1>7, <1>8, <1>9, <1>10, <1>11, <1>12,
       <1>13, <1>14, <1>15
    DEF CompileWorkflow, CommitStageResult

LEMMA SignalStaysSeen ==
  ASSUME TypeOK, WakeupInv, NEW a \in Attempt, CompileWorkflow(a), NEW request \in sent
  PROVE  SignalIsSeen(request)'
  <1> DEFINE b == request[1]
             s == request[2]
  <1>1. /\ b \in Attempt
        /\ s \in Stage
        /\ request \in ready
    BY RequestType DEF TypeOK, WakeupInv
  <1>2. /\ SlotsBy(request) \subseteq evidence[b]
        /\ snapshot[b] \subseteq evidence[b]
        /\ SignalIsSeen(request)
    BY <1>1 DEF WakeupInv
  <1>3. CASE b # a
    BY <1>1, <1>2, <1>3, WorkflowLeavesOthers, WorkflowLeavesClients
    DEF SameControl, SignalIsSeen, Buffered, SlotsBy
  <1>4. CASE b = a /\ Resolved(a)
    <2>1. snapshot'[a] = evidence[a]
      BY <1>4 DEF Resolved, TypeOK
    <2> QED BY <2>1, <1>2, <1>4 DEF SignalIsSeen, SlotsBy
  <1>5. CASE b = a /\ ReceiveSignal(a)
    <2>1. /\ channel[a] \in Seq(Stage)
          /\ channel[a] # <<>>
          /\ channel'[a] = Tail(channel[a])
          /\ Head(channel[a]) \in Stage
          /\ UNCHANGED <<index, snapshot>>
          /\ pc[a] = "receive"
          /\ pc'[a] = IF Head(channel[a]) = index[a] THEN "refreshAgain" ELSE "failed"
      BY <1>5 DEF ReceiveSignal, TypeOK, Goto, plan
    <2>2. CASE SlotsBy(request) \subseteq snapshot[a]
      BY <2>1, <2>2, <1>5 DEF SignalIsSeen, SlotsBy
    <2>3. CASE Buffered(a, s)
      <3>1. CASE Head(channel[a]) = s
        BY <2>1, <3>1, <1>5 DEF SignalIsSeen
      <3>2. CASE Head(channel[a]) # s
        <4>1. \E i \in DOMAIN channel[a] : channel[a][i] = s
          BY <2>3 DEF Buffered
        <4>2. \E i \in DOMAIN Tail(channel[a]) : Tail(channel[a])[i] = s
          <5> HIDE DEF s
          <5> QED BY <2>1, <3>2, <4>1, <1>1, SignalsQueue
        <4>3. Buffered(a, s)'
          BY <2>1, <4>2 DEF Buffered
        <4> QED BY <4>3, <1>5 DEF SignalIsSeen
      <3> QED BY <3>1, <3>2
    <2> QED BY <2>1, <2>2, <2>3, <1>2, <1>5 DEF SignalIsSeen
  <1>6. CASE b = a /\ ~Resolved(a) /\ ~ReceiveSignal(a)
    BY <1>1, <1>2, <1>6, WorkflowSignals DEF SignalIsSeen, Buffered, SlotsBy
  <1> QED BY <1>3, <1>4, <1>5, <1>6

LEMMA WorkflowKeepsWakeup ==
  ASSUME TypeOK, TypeOK', IInv, WakeupInv, NEW a \in Attempt, CompileWorkflow(a)
  PROVE  WakeupInv'
  <1>1. UNCHANGED <<evidence, ready, sent, binding, abandoned>>
    BY WorkflowLeavesClients
  <1>2. ASSUME NEW b \in Attempt
        PROVE  WaitIsCommitted(b)' /\ snapshot'[b] \subseteq evidence'[b]
    <2>1. CASE b # a
      BY <2>1, <1>1, WorkflowLeavesOthers DEF SameControl, WakeupInv, WaitIsCommitted
    <2>2. CASE b = a
      <3>1. snapshot'[a] \in {snapshot[a], evidence[a]}
        <4>1. CASE Resolved(a)
          BY <4>1 DEF Resolved, TypeOK
        <4>2. CASE ReceiveSignal(a)
          BY <4>2 DEF ReceiveSignal, plan
        <4> QED BY <4>1, <4>2, WorkflowSignals
      <3> QED
        BY <2>2, <3>1, <1>1, WaitStaysCommitted DEF WakeupInv, IInv
    <2> QED BY <2>1, <2>2
  <1>3. \A request \in sent' : SignalIsSeen(request)'
    BY <1>1, SignalStaysSeen
  <1>4. NoLostWakeup'
    <2> SUFFICES ASSUME NEW b \in Attempt, pc'[b] = "receive",
                        NEW slot \in (evidence'[b] \ snapshot'[b]) \cap SlotsOf(index'[b])
                 PROVE  \/ Buffered(b, index[b])'
                        \/ \E request \in binding' \cup (ready' \ sent') \cup abandoned' :
                             request[1] = b /\ slot \in SlotsBy(request)
      BY DEF NoLostWakeup, SlotsBy, SlotsOf
    <2>1. CASE b # a
      <3>1. /\ SameControl(b)
            /\ channel'[b] = channel[b]
        BY <2>1, WorkflowLeavesOthers, WorkflowLeavesClients
      <3>2. /\ pc[b] = "receive"
            /\ slot \in (evidence[b] \ snapshot[b]) \cap SlotsOf(index[b])
            /\ Buffered(b, index[b])' <=> Buffered(b, index[b])
        BY <3>1, <1>1 DEF SameControl, Buffered
      <3>3. \/ Buffered(b, index[b])
            \/ \E request \in binding \cup (ready \ sent) \cup abandoned :
                 request[1] = b /\ slot \in SlotsBy(request)
        BY <3>2 DEF WakeupInv, NoLostWakeup
      <3> QED BY <3>2, <3>3, <1>1
    <2>2. CASE b = a
      <3>1. /\ pc[a] = "refresh"
            /\ ~EvidenceChanged(a)
            /\ UNCHANGED <<index, snapshot>>
        BY <2>2, WorkflowSignals
      <3>2. index[a] \in Stage
        BY <3>1 DEF IInv, Control, IndexFits, Loop
      <3> QED BY <2>2, <3>1, <3>2, <1>1, OwnEvidenceChanges
    <2> QED BY <2>1, <2>2
  <1> QED BY <1>1, <1>2, <1>3, <1>4 DEF WakeupInv, SlotsBy

-----------------------------------------------------------------------------
\* Steps of the clients and of the outbox.

\* While the workflow, its plan and its executions stand still, a step that
\* drops no evidence and no buffered signal keeps what was seen.
LEMMA SeenFrame ==
  ASSUME UNCHANGED <<pc, index, snapshot>>, NEW request, SignalIsSeen(request),
         Buffered(request[1], request[2]) => Buffered(request[1], request[2])'
  PROVE  SignalIsSeen(request)'
  BY DEF SignalIsSeen, SlotsBy

\* The same for a blocked workflow: it is enough to account for new evidence
\* and for the requests that a step takes away.
LEMMA WakeupFrame ==
  ASSUME NoLostWakeup, UNCHANGED <<pc, index, snapshot>>,
         \A a \in Attempt : \A s : Buffered(a, s) => Buffered(a, s)',
         NEW request,
         \A a \in Attempt : \A slot \in evidence'[a] \ evidence[a] :
           request[1] = a /\ slot \in SlotsBy(request),
         \A r \in binding \cup (ready \ sent) \cup abandoned :
           r # request => r \in binding' \cup (ready' \ sent') \cup abandoned',
         \A a \in Attempt : \A slot \in (evidence'[a] \ snapshot[a]) \cap SlotsOf(index[a]) :
           pc[a] = "receive" /\ request[1] = a /\ slot \in SlotsBy(request) =>
             \/ Buffered(a, index[a])'
             \/ request \in binding' \cup (ready' \ sent') \cup abandoned'
  PROVE  NoLostWakeup'
  <1> SUFFICES ASSUME NEW a \in Attempt, pc[a] = "receive",
                      NEW slot \in (evidence'[a] \ snapshot[a]) \cap SlotsOf(index[a])
               PROVE  \/ Buffered(a, index[a])'
                      \/ \E r \in binding' \cup (ready' \ sent') \cup abandoned' :
                           r[1] = a /\ slot \in SlotsBy(r)
    BY DEF NoLostWakeup, SlotsBy, SlotsOf, Buffered
  <1>1. CASE request[1] = a /\ slot \in SlotsBy(request)
    BY <1>1
  <1>2. CASE ~(request[1] = a /\ slot \in SlotsBy(request))
    <2>1. slot \in evidence[a] \ snapshot[a]
      BY <1>2
    <2>2. CASE Buffered(a, index[a])
      BY <2>2
    <2>3. CASE \E r \in binding \cup (ready \ sent) \cup abandoned :
                 r[1] = a /\ slot \in SlotsBy(r)
      BY <2>3, <1>2
    <2> QED BY <2>1, <2>2, <2>3 DEF NoLostWakeup
  <1> QED BY <1>1, <1>2

LEMMA BindKeepsWakeup ==
  ASSUME TypeOK, WakeupInv, NEW request \in Request, BindEvidence(request)
  PROVE  WakeupInv'
  <1>1. /\ UNCHANGED <<execution, pc, index, snapshot, channel, ready, sent>>
        /\ evidence' = [evidence EXCEPT ![request[1]] = @ \cup SlotsBy(request)]
        /\ binding' = binding \cup {request}
        /\ abandoned' = abandoned \ {request}
    BY DEF BindEvidence, plan
  <1>2. \A a \in Attempt :
          /\ evidence[a] \subseteq evidence'[a]
          /\ \A slot \in evidence'[a] \ evidence[a] : request[1] = a /\ slot \in SlotsBy(request)
    BY <1>1 DEF TypeOK
  <1>3. SlotsBy(request) \subseteq evidence'[request[1]]
    BY <1>1, RequestType DEF TypeOK
  <1>4. \A a \in Attempt : WaitIsCommitted(a)' /\ snapshot'[a] \subseteq evidence'[a]
    BY <1>1, <1>2 DEF WakeupInv, WaitIsCommitted
  <1>5. \A r \in binding' \cup ready' : SlotsBy(r) \subseteq evidence'[r[1]]
    BY <1>1, <1>2, <1>3, RequestType DEF WakeupInv, TypeOK
  <1>6. \A r \in sent' : SignalIsSeen(r)'
    BY <1>1, SeenFrame DEF WakeupInv, Buffered
  <1>7. NoLostWakeup'
    BY <1>1, <1>2, WakeupFrame DEF WakeupInv, Buffered
  <1> QED BY <1>1, <1>4, <1>5, <1>6, <1>7 DEF WakeupInv, SlotsBy

LEMMA SubmitKeepsWakeup ==
  ASSUME TypeOK, IInv, WakeupInv, NEW request \in Request, SubmitStageReady(request)
  PROVE  WakeupInv'
  <1> DEFINE a == request[1]
  <1>1. /\ UNCHANGED <<final, execution, evidence, pc, index, snapshot, channel, sent, abandoned>>
        /\ binding' = binding \ {request}
        /\ ready' = IF /\ execution[a][request[2]] = "WAITING_EXTERNAL_EVIDENCE"
                       /\ final[a] = "OPEN"
                    THEN ready \cup {request} ELSE ready
        /\ request \in binding
    BY DEF SubmitStageReady, tables, plan
  <1>2. /\ ready \subseteq ready'
        /\ ready' \subseteq ready \cup {request}
    BY <1>1
  <1>3. \A b \in Attempt : WaitIsCommitted(b)' /\ snapshot'[b] \subseteq evidence'[b]
    BY <1>1 DEF WakeupInv, WaitIsCommitted
  <1>4. \A r \in binding' \cup ready' : SlotsBy(r) \subseteq evidence'[r[1]]
    BY <1>1, <1>2 DEF WakeupInv
  <1>5. \A r \in sent' : SignalIsSeen(r)'
    BY <1>1, SeenFrame DEF WakeupInv, Buffered
  <1>6. ASSUME pc[a] = "receive",
               NEW slot \in (evidence[a] \ snapshot[a]) \cap SlotsOf(index[a]),
               slot \in SlotsBy(request)
        PROVE  Buffered(a, index[a])' \/ request \in ready' \ sent'
    <2>1. /\ a \in Attempt
          /\ request[2] = index[a]
      BY <1>6, RequestType DEF SlotsBy, SlotsOf
    <2>2. execution[a][request[2]] = "WAITING_EXTERNAL_EVIDENCE"
      BY <2>1, <1>6 DEF WakeupInv, WaitIsCommitted
    <2>3. final[a] = "OPEN"
      BY <2>1, <1>6 DEF IInv, Control, CompletionIsLast, TypeOK
    <2>4. request \in sent => Buffered(a, index[a])
      BY <2>1, <1>6 DEF WakeupInv, SignalIsSeen
    <2> QED BY <1>1, <2>2, <2>3, <2>4 DEF Buffered
  <1>7. NoLostWakeup'
    BY <1>1, <1>2, <1>6, WakeupFrame DEF WakeupInv, Buffered
  <1> QED BY <1>1, <1>2, <1>3, <1>4, <1>5, <1>7 DEF WakeupInv, SlotsBy

LEMMA CrashKeepsWakeup ==
  ASSUME TypeOK, WakeupInv, NEW request \in Request, BindCrashes(request)
  PROVE  WakeupInv'
  <1>1. /\ UNCHANGED <<execution, evidence, pc, index, snapshot, channel, ready, sent>>
        /\ binding' = binding \ {request}
        /\ abandoned' = abandoned \cup {request}
    BY DEF BindCrashes, tables, plan
  <1>2. \A b \in Attempt : WaitIsCommitted(b)' /\ snapshot'[b] \subseteq evidence'[b]
    BY <1>1 DEF WakeupInv, WaitIsCommitted
  <1>3. \A r \in sent' : SignalIsSeen(r)'
    BY <1>1, SeenFrame DEF WakeupInv, Buffered
  <1>4. NoLostWakeup'
    BY <1>1, WakeupFrame DEF WakeupInv, Buffered
  <1> QED BY <1>1, <1>2, <1>3, <1>4 DEF WakeupInv, SlotsBy

LEMMA DeliveryKeepsWakeup ==
  ASSUME TypeOK, WakeupInv, NEW request \in Request, DeliverSignal(request)
  PROVE  WakeupInv'
  <1> DEFINE a == request[1]
             s == request[2]
  <1>1. /\ UNCHANGED <<execution, evidence, pc, index, snapshot, binding, ready, abandoned>>
        /\ channel' = [channel EXCEPT ![a] = Append(@, s)]
        /\ sent' = sent \cup {request}
        /\ request \in ready
    BY DEF DeliverSignal, tables, plan
  <1>2. /\ a \in Attempt
        /\ s \in Stage
        /\ channel[a] \in Seq(Stage)
        /\ channel'[a] = Append(channel[a], s)
        /\ \A b \in Attempt : b # a => channel'[b] = channel[b]
    BY <1>1, RequestType DEF TypeOK
  <1> HIDE DEF a, s
  <1>3. Buffered(a, s)'
    BY <1>2, SignalsQueue DEF Buffered
  <1>4. \A b \in Attempt : \A x : Buffered(b, x) => Buffered(b, x)'
    <2> SUFFICES ASSUME NEW b \in Attempt, NEW x, Buffered(b, x)
                 PROVE  Buffered(b, x)'
      OBVIOUS
    <2>1. CASE b = a
      <3>1. \E i \in DOMAIN channel[a] : channel[a][i] = x
        BY <2>1 DEF Buffered
      <3>2. x \in Stage
        BY <3>1, <1>2
      <3>3. \E i \in DOMAIN Append(channel[a], s) : Append(channel[a], s)[i] = x
        BY <3>1, <3>2, <1>2, SignalsQueue
      <3> QED BY <3>3, <2>1, <1>2 DEF Buffered
    <2>2. CASE b # a
      BY <2>2, <1>2 DEF Buffered
    <2> QED BY <2>1, <2>2
  <1>5. \A b \in Attempt : WaitIsCommitted(b)' /\ snapshot'[b] \subseteq evidence'[b]
    BY <1>1 DEF WakeupInv, WaitIsCommitted
  <1>6. SignalIsSeen(request)'
    BY <1>3 DEF SignalIsSeen, a, s
  <1>7. ASSUME NEW r \in sent PROVE SignalIsSeen(r)'
    <2>1. r[1] \in Attempt
      BY RequestType DEF TypeOK
    <2> QED BY <2>1, <1>1, <1>4, SeenFrame DEF WakeupInv
  <1>8. NoLostWakeup'
    <2>1. ASSUME NEW b \in Attempt, NEW slot \in SlotsOf(index[b]), a = b,
                 slot \in SlotsBy(request)
          PROVE  Buffered(b, index[b])'
      <3>1. s = index[b]
        BY <2>1 DEF SlotsBy, SlotsOf, s
      <3> QED BY <3>1, <1>1, <1>3, <2>1 DEF Buffered
    <2> QED BY <2>1, <1>1, <1>4, WakeupFrame DEF WakeupInv, a
  <1> QED BY <1>1, <1>5, <1>6, <1>7, <1>8 DEF WakeupInv, SlotsBy

-----------------------------------------------------------------------------
LEMMA WakeupStep ==
  ASSUME TypeOK, TypeOK', IInv, WakeupInv, [Next]_vars
  PROVE  WakeupInv'
  <1>1. ASSUME NEW a \in Attempt, CompileWorkflow(a) PROVE WakeupInv'
    BY <1>1, WorkflowKeepsWakeup
  <1>2. ASSUME NEW request \in Request, Client(request) PROVE WakeupInv'
    BY <1>2, BindKeepsWakeup, SubmitKeepsWakeup, CrashKeepsWakeup, DeliveryKeepsWakeup
    DEF Client
  <1>3. CASE UNCHANGED vars
    BY <1>3 DEF vars, tables, plan, signalling, WakeupInv, WaitIsCommitted, SignalIsSeen,
                Buffered, NoLostWakeup, SlotsBy, SlotsOf
  <1> QED BY <1>1, <1>2, <1>3 DEF Next

\* A workflow never blocks over evidence it could not know of: whatever the
\* order of the wait's commit, the second resolution, Bind's transaction, its
\* status read, its crash and repetition, and the outbox' redeliveries, a
\* signal for the waiting stage is buffered or still to come.
THEOREM WakeupsAreKept == Spec => []NoLostWakeup
  <1>1. Init => WakeupInv
    BY DEF Init, WakeupInv, WaitIsCommitted, NoLostWakeup
  <1>2. TypeOK /\ TypeOK' /\ IInv /\ WakeupInv /\ [Next]_vars => WakeupInv'
    BY WakeupStep
  <1>3. WakeupInv => NoLostWakeup
    BY DEF WakeupInv
  <1> QED BY <1>1, <1>2, <1>3, InvariantHolds, PTL DEF Spec

-----------------------------------------------------------------------------
(* Provenance.                                                              *)

OwnRows(a) == PlanIsCurrent(a) /\ InputsAreWhole(a) /\ BoundAsPlanned(a)

-----------------------------------------------------------------------------
(* Lineage and identity.                                                   *)

LEMMA LineageGrows ==
  ASSUME NEW s \in Stage, NEW d \in DependsOn[s]
  PROVE  d \in Stage /\ Lineage[d] \subseteq Lineage[s]
  <1>1. d \in Stage
    BY GraphAssumption
  <1>2. ASSUME NEW x \in Lineage[d] PROVE x \in Lineage[s]
    <2>1. x \in Stage
      BY <1>1 DEF Lineage
    <2>2. ASSUME NEW S \in SUBSET Stage, s \in S, \A y \in S : DependsOn[y] \subseteq S
          PROVE  x \in S
      <3>1. d \in S
        BY <2>2
      <3> QED BY <1>1, <2>2, <3>1 DEF Lineage
    <2> QED BY <2>1, <2>2 DEF Lineage
  <1> QED BY <1>1, <1>2

LEMMA LineageIsBefore ==
  ASSUME NEW s \in Stage, NEW t \in Lineage[s]
  PROVE  t \in Stage /\ t <= s
  <1>1. s \in 1 .. s /\ 1 .. s \subseteq Stage
    BY NStagesIsNat DEF Stage
  <1>2. ASSUME NEW x \in 1 .. s PROVE DependsOn[x] \subseteq 1 .. s
    BY <1>1, GraphAssumption DEF Stage
  <1>3. t \in 1 .. s
    BY <1>1, <1>2 DEF Lineage
  <1> QED BY <1>1, <1>3 DEF Stage

\* A lineage is the stage and the lineages of its dependencies.
LEMMA LineageUnfolds ==
  ASSUME NEW s \in Stage
  PROVE  Lineage[s] = {s} \cup UNION {Lineage[d] : d \in DependsOn[s]}
  <1> DEFINE L == {s} \cup UNION {Lineage[d] : d \in DependsOn[s]}
  <1>1. L \subseteq Lineage[s]
    BY StageInLineage, LineageGrows
  <1>2. L \in SUBSET Stage
    <2>1. \A x \in Stage : Lineage[x] \subseteq Stage
      BY DEF Lineage
    <2> QED BY <2>1, LineageGrows
  <1>3. ASSUME NEW x \in L PROVE DependsOn[x] \subseteq L
    <2>1. CASE x = s
      BY <2>1, StageInLineage, GraphAssumption
    <2>2. CASE x # s
      <3>1. PICK d \in DependsOn[s] : x \in Lineage[d]
        BY <1>3, <2>2
      <3>2. d \in Stage /\ x \in Stage
        BY <3>1, GraphAssumption DEF Lineage
      <3>3. ASSUME NEW y \in DependsOn[x] PROVE y \in Lineage[d]
        <4>1. y \in Stage
          BY <3>2, GraphAssumption
        <4>2. ASSUME NEW S \in SUBSET Stage, d \in S, \A z \in S : DependsOn[z] \subseteq S
              PROVE  y \in S
          <5>1. x \in S
            BY <3>1, <3>2, <4>2 DEF Lineage
          <5> QED BY <3>3, <4>2, <5>1
        <4> QED BY <3>2, <4>1, <4>2 DEF Lineage
      <3> QED BY <3>1, <3>3
    <2> QED BY <2>1, <2>2
  <1>4. Lineage[s] \subseteq L
    <2>1. s \in L
      OBVIOUS
    <2> HIDE DEF L
    <2> SUFFICES ASSUME NEW x \in Lineage[s] PROVE x \in L
      OBVIOUS
    <2>2. \A S \in SUBSET Stage :
            s \in S /\ (\A y \in S : DependsOn[y] \subseteq S) => x \in S
      BY DEF Lineage
    <2> QED BY <1>2, <1>3, <2>1, <2>2
  <1> QED BY <1>1, <1>4

\* The record that stands for the semantic hash changes exactly when the chain
\* of hashes does: two identities of a stage are equal if and only if their
\* roots are, the stage's own evidence is, and the identities of all its direct
\* dependencies are.  (ResolveWithExternalAndModels hashes these and no more.)
THEOREM IdentityIsChain ==
  ASSUME NEW s \in Stage, NEW root \in Root, NEW other \in Root,
         NEW had \in SUBSET Slot, NEW has \in SUBSET Slot
  PROVE  Identity(s, root, had) = Identity(s, other, has) <=>
           /\ root = other
           /\ OwnEvidence(Identity(s, root, had)) = OwnEvidence(Identity(s, other, has))
           /\ \A d \in DependsOn[s] : Identity(d, root, had) = Identity(d, other, has)
  <1> DEFINE Known(x, slots) == {slot \in slots : slot[1] \in Lineage[x]}
  <1>1. ASSUME NEW x, NEW r1, NEW r2, NEW e1, NEW e2
        PROVE  Identity(x, r1, e1) = Identity(x, r2, e2)
                 <=> r1 = r2 /\ Known(x, e1) = Known(x, e2)
    BY DEF Identity
  <1>2. ASSUME NEW r, NEW e
        PROVE  OwnEvidence(Identity(s, r, e)) = {slot \in e : slot[1] = s}
    BY StageInLineage DEF OwnEvidence, Identity
  <1>3. ASSUME NEW e, NEW slot
        PROVE  slot \in Known(s, e) <=>
                 \/ slot \in {x \in e : x[1] = s}
                 \/ \E d \in DependsOn[s] : slot \in Known(d, e)
    BY LineageUnfolds
  <1>4. Known(s, had) = Known(s, has) <=>
          /\ {slot \in had : slot[1] = s} = {slot \in has : slot[1] = s}
          /\ \A d \in DependsOn[s] : Known(d, had) = Known(d, has)
    <2>1. ASSUME Known(s, had) = Known(s, has)
          PROVE  /\ {slot \in had : slot[1] = s} = {slot \in has : slot[1] = s}
                 /\ \A d \in DependsOn[s] : Known(d, had) = Known(d, has)
      BY <2>1, StageInLineage, LineageGrows
    <2>2. ASSUME {slot \in had : slot[1] = s} = {slot \in has : slot[1] = s},
                 \A d \in DependsOn[s] : Known(d, had) = Known(d, has)
          PROVE  Known(s, had) = Known(s, has)
      <3>1. \A slot : slot \in Known(s, had) <=> slot \in Known(s, has)
        <4> HIDE DEF Known
        <4> QED BY <2>2, <1>3
      <3> QED BY <3>1
    <2> QED BY <2>1, <2>2
  <1> HIDE DEF Known
  <1> QED BY <1>1, <1>2, <1>4

\* What the identity the plan gives a stage says of its parents and of its own
\* evidence.
LEMMA ExpectedParent ==
  ASSUME NEW a \in Attempt, NEW s \in Stage, NEW d \in DependsOn[s]
  PROVE  ParentIdentity(Expected(a, s), d) = Expected(a, d)
  BY LineageGrows DEF ParentIdentity, Expected, Identity

LEMMA ExpectedOwn ==
  ASSUME TypeOK, NEW a \in Attempt, NEW s \in Stage
  PROVE  OwnEvidence(Expected(a, s)) = snapshot[a] \cap SlotsOf(s)
  BY StageInLineage DEF OwnEvidence, Expected, Identity, SlotsOf, TypeOK

LEMMA RequestSlots ==
  ASSUME NEW request \in Request
  PROVE  /\ SlotsBy(request) # {}
         /\ SlotsBy(request) \subseteq SlotsOf(request[2])
  <1>1. request[2] \in Stage /\ request[3] \in Offers[request[2]]
    BY DEF Request
  <1>2. request[3] # {}
    BY <1>1, AttemptAssumption
  <1>3. \A slot \in SlotsBy(request) : slot[1] = request[2]
    BY DEF SlotsBy
  <1>4. SlotsBy(request) # {}
    <2>1. PICK role \in request[3] : TRUE
      BY <1>2
    <2>2. <<request[2], role>> \in SlotsBy(request)
      BY <2>1 DEF SlotsBy
    <2> QED BY <2>2
  <1>5. SlotsBy(request) \subseteq Slot
    BY RequestType
  <1> QED BY <1>3, <1>4, <1>5 DEF SlotsOf

\* A new plan gives the stages behind the loop the identities they had.
LEMMA ExpectedStays ==
  ASSUME TypeOK, NEW a \in Attempt, PlanIsCurrent(a), Resolved(a),
         NEW s \in Stage, s < index[a]
  PROVE  Expected(a, s)' = Expected(a, s)
  <1>1. snapshot'[a] = evidence[a]
    BY DEF Resolved, TypeOK
  <1>2. ASSUME NEW slot \in evidence[a], slot[1] \in Lineage[s]
        PROVE  slot \in snapshot[a]
    <2>1. slot \in Slot /\ slot[1] \in Stage /\ slot[1] <= s /\ index[a] \in Nat
      BY <1>2, LineageIsBefore, NStagesIsNat DEF TypeOK
    <2>2. slot[1] # index[a]
      BY <2>1 DEF Stage
    <2>3. evidence[a] \cap SlotsOf(slot[1]) \subseteq snapshot[a]
      BY <2>1, <2>2 DEF PlanIsCurrent
    <2> QED BY <1>2, <2>1, <2>3 DEF SlotsOf
  <1>3. snapshot[a] \subseteq evidence[a]
    BY DEF PlanIsCurrent
  <1> QED BY <1>1, <1>2, <1>3 DEF Expected, Identity

-----------------------------------------------------------------------------
(* The rows of an attempt.                                                 *)

LEMMA RowsFrame ==
  ASSUME NEW b \in Attempt, OwnRows(b), SameControl(b),
         evidence'[b] = evidence[b], copied'[b] = copied[b]
  PROVE  OwnRows(b)'
  <1> USE DEF SameControl
  <1>1. PlanIsCurrent(b)'
    BY DEF OwnRows, PlanIsCurrent, Blocked, SlotsOf
  <1>2. InputsAreWhole(b)'
    BY DEF OwnRows, InputsAreWhole, Blocked, SlotsOf
  <1>3. BoundAsPlanned(b)'
    BY DEF OwnRows, BoundAsPlanned, Expected
  <1> QED BY <1>1, <1>2, <1>3 DEF OwnRows

\* The plan stays, the loop stays at its stage, and nothing starts to wait.
LEMMA PlanFrame ==
  ASSUME TypeOK, NEW a \in Attempt, PlanIsCurrent(a),
         evidence'[a] = evidence[a], snapshot'[a] = snapshot[a], index'[a] = index[a],
         \A s \in Stage : \/ execution'[a][s] = execution[a][s]
                          \/ s = index[a] /\ execution'[a][s] # "WAITING_EXTERNAL_EVIDENCE",
         Blocked(a) => Blocked(a)',
         pc[a] = "refreshAgain" => Blocked(a)'
  PROVE  PlanIsCurrent(a)'
  <1>1. index[a] \in Nat
    BY NStagesIsNat DEF TypeOK
  <1>2. \A s \in Stage : ~(s = index[a] /\ s > index[a])
    BY <1>1 DEF Stage
  <1> QED BY <1>2 DEF PlanIsCurrent, SlotsOf

\* The loop goes on to the next stage.
LEMMA PlanAdvances ==
  ASSUME TypeOK, NEW a \in Attempt, PlanIsCurrent(a), index[a] \in Stage,
         ~Blocked(a), pc[a] # "refreshAgain",
         evidence'[a] = evidence[a], snapshot'[a] = snapshot[a], index'[a] = index[a] + 1,
         \A s \in Stage : \/ execution'[a][s] = execution[a][s]
                          \/ s = index[a] /\ execution'[a][s] # "WAITING_EXTERNAL_EVIDENCE"
  PROVE  PlanIsCurrent(a)'
  <1> SUFFICES ASSUME NEW s \in Stage
               PROVE  LET own == evidence[a] \cap SlotsOf(s) IN
                        /\ s > index[a] + 1 => own = {} /\ execution'[a][s] = "none"
                        /\ own \subseteq snapshot[a]
                        /\ ~(execution'[a][s] = "WAITING_EXTERNAL_EVIDENCE" /\ own = {})
    BY DEF PlanIsCurrent, SlotsOf
  <1>1. s > index[a] + 1 => s > index[a] /\ s # index[a]
    BY DEF Stage
  <1> QED BY <1>1 DEF PlanIsCurrent

\* The loop has a new plan for its stage.
LEMMA PlanRenewed ==
  ASSUME TypeOK, NEW a \in Attempt, PlanIsCurrent(a), Resolved(a),
         Blocked(a) => evidence[a] \cap SlotsOf(index[a]) # {},
         evidence'[a] = evidence[a], index'[a] = index[a], execution'[a] = execution[a]
  PROVE  PlanIsCurrent(a)'
  <1>1. snapshot'[a] = evidence[a]
    BY DEF Resolved, TypeOK
  <1> QED BY <1>1 DEF PlanIsCurrent, SlotsOf

\* A wait is committed.
LEMMA PlanWaits ==
  ASSUME TypeOK, NEW a \in Attempt, Control(a), PlanIsCurrent(a), CommitWaiting(a),
         evidence'[a] = evidence[a]
  PROVE  PlanIsCurrent(a)'
  <1>1. index[a] \in Stage /\ index[a] \in Nat
    BY NStagesIsNat DEF CommitWaiting, Control, IndexFits, Loop, TypeOK
  <1>2. Blocked(a)'
    BY DEF CommitWaiting, Answer, Goto, Blocked, plan, TypeOK
  <1>3. /\ index' = index /\ snapshot' = snapshot
        /\ \A s \in Stage : s # index[a] => execution'[a][s] = execution[a][s]
    BY DEF CommitWaiting, plan, TypeOK
  <1>4. \A s \in Stage : s > index[a] => s # index[a]
    BY <1>1 DEF Stage
  <1> QED BY <1>1, <1>2, <1>3, <1>4 DEF PlanIsCurrent, SlotsOf

LEMMA PlanStays ==
  ASSUME TypeOK, NEW a \in Attempt, Control(a), PlanIsCurrent(a), SignalsHaveEvidence,
         CompileWorkflow(a)
  PROVE  PlanIsCurrent(a)'
  <1>0. evidence' = evidence
    BY WorkflowLeavesClients
  <1> USE DEF TypeOK, tables, plan, Goto, Answer, Blocked
  <1>1. CASE ResolveCompilePlan(a)
    <2>1. /\ ~Blocked(a) /\ Resolved(a)
          /\ index' = index /\ execution' = execution
      BY <1>1 DEF ResolveCompilePlan
    <2> QED BY <1>0, <2>1, PlanRenewed
  <1>2. CASE BindReusedStage(a)
    <2>1. /\ pc[a] = "stage" /\ index[a] \in Stage
          /\ snapshot' = snapshot /\ execution' = execution
      BY <1>2 DEF BindReusedStage, Control, IndexFits, Loop
    <2>2. CASE NextStage(a)
      BY <1>0, <2>1, <2>2, PlanAdvances DEF NextStage
    <2>3. CASE UNCHANGED <<pc, index>>
      BY <1>0, <2>1, <2>3, PlanFrame
    <2> QED BY <1>2, <2>2, <2>3 DEF BindReusedStage
  <1>3. CASE PrepareStageExecution(a)
    <2>1. /\ pc[a] = "stage" /\ index' = index /\ snapshot' = snapshot
          /\ \A s \in Stage : s # index[a] => execution'[a][s] = execution[a][s]
      BY <1>3 DEF PrepareStageExecution
    <2>2. index[a] \in Stage =>
            execution'[a][index[a]] # "WAITING_EXTERNAL_EVIDENCE"
      BY <1>3 DEF PrepareStageExecution
    <2> QED BY <1>0, <2>1, <2>2, PlanFrame
  <1>4. CASE EngineExecuteStage(a)
    <2>1. /\ pc[a] = "engine"
          /\ index' = index /\ snapshot' = snapshot /\ execution' = execution
      BY <1>4 DEF EngineExecuteStage
    <2> QED BY <1>0, <2>1, PlanFrame
  <1>5. CASE EngineActivityFails(a)
    <2>1. /\ pc[a] = "engine"
          /\ index' = index /\ snapshot' = snapshot /\ execution' = execution
      BY <1>5 DEF EngineActivityFails
    <2> QED BY <1>0, <2>1, PlanFrame
  <1>6. CASE RecordStageActivityError(a)
    <2>1. /\ pc[a] = "recordError" /\ index' = index /\ snapshot' = snapshot
          /\ \A s \in Stage : s # index[a] => execution'[a][s] = execution[a][s]
          /\ index[a] \in Stage => execution'[a][index[a]] \in {"FAIL", execution[a][index[a]]}
      BY <1>6 DEF RecordStageActivityError
    <2> QED BY <1>0, <2>1, PlanFrame
  <1>7. CASE CommitWaiting(a)
    BY <1>0, <1>7, PlanWaits
  <1>8. CASE CommitFailed(a)
    <2>1. /\ pc[a] = "commit" /\ result[a] = "FAIL"
          /\ index' = index /\ snapshot' = snapshot
          /\ \A s \in Stage : s # index[a] => execution'[a][s] = execution[a][s]
          /\ index[a] \in Stage => execution'[a][index[a]] = "FAIL"
      BY <1>8 DEF CommitFailed
    <2> QED BY <1>0, <2>1, PlanFrame
  <1>9. CASE CommitPassed(a)
    <2>1. /\ pc[a] = "commit" /\ ResultPassed(a) /\ index[a] \in Stage
          /\ snapshot' = snapshot /\ result' = result
          /\ \A s \in Stage : s # index[a] => execution'[a][s] = execution[a][s]
          /\ execution'[a][index[a]] = "PASS"
      BY <1>9 DEF CommitPassed, Control, IndexFits, Loop, ResultPassed
    <2>2. CASE NextStage(a)
      BY <1>0, <2>1, <2>2, PlanAdvances DEF NextStage, ResultPassed
    <2>3. CASE UNCHANGED <<pc, index>>
      BY <1>0, <2>1, <2>3, PlanFrame DEF ResultPassed
    <2> QED BY <1>9, <2>2, <2>3 DEF CommitPassed
  <1>10. CASE CommitRejected(a)
    <2>1. /\ pc'[a] = "failed" /\ pc[a] = "commit"
          /\ index' = index /\ snapshot' = snapshot /\ execution' = execution
      BY <1>10 DEF CommitRejected
    <2> QED BY <1>0, <2>1, PlanFrame
  <1>11. CASE RefreshPlan(a)
    <2>1. /\ pc[a] = "refresh" /\ index[a] \in Stage /\ index[a] \in Nat
          /\ index' = index /\ execution' = execution
      BY <1>11, NStagesIsNat DEF RefreshPlan, Control, IndexFits, Loop
    <2>2. CASE ~EvidenceChanged(a)
      <3>1. pc'[a] = "receive" /\ snapshot' = snapshot
        BY <1>11, <2>2 DEF RefreshPlan
      <3> QED BY <1>0, <2>1, <3>1, PlanFrame
    <2>3. CASE EvidenceChanged(a)
      <3>1. Resolved(a)
        BY <1>11, <2>3 DEF RefreshPlan
      <3>2. PICK slot \in evidence[a] : slot \notin snapshot[a]
        BY <2>3 DEF EvidenceChanged, Expected, Identity, PlanIsCurrent
      <3>3. slot[1] \in Stage /\ slot \in evidence[a] \cap SlotsOf(slot[1])
        BY <3>2 DEF Slot, SlotsOf
      <3>4. slot[1] = index[a]
        BY <3>2, <3>3 DEF PlanIsCurrent
      <3> QED BY <1>0, <2>1, <3>1, <3>3, <3>4, PlanRenewed
    <2> QED BY <2>2, <2>3
  <1>12. CASE ReceiveSignal(a)
    <2>1. /\ pc[a] = "receive" /\ index[a] \in Stage /\ channel[a] # <<>>
          /\ index' = index /\ snapshot' = snapshot /\ execution' = execution
      BY <1>12 DEF ReceiveSignal, Control, IndexFits, Loop
    <2>2. CASE Head(channel[a]) # index[a]
      <3>1. pc'[a] = "failed"
        BY <1>12, <2>2 DEF ReceiveSignal
      <3> QED BY <1>0, <2>1, <3>1, PlanFrame
    <2>3. CASE Head(channel[a]) = index[a]
      <3>1. pc'[a] = "refreshAgain"
        BY <1>12, <2>3 DEF ReceiveSignal
      <3>2. Buffered(a, index[a])
        BY <2>1, <2>3 DEF Buffered
      <3>3. evidence[a] \cap SlotsOf(index[a]) # {}
        BY <2>1, <3>2 DEF SignalsHaveEvidence
      <3> QED BY <1>0, <2>1, <3>1, <3>3 DEF PlanIsCurrent, SlotsOf
    <2> QED BY <2>2, <2>3
  <1>13. CASE RefreshPlanAgain(a)
    <2>1. /\ ~Blocked(a) /\ Resolved(a)
          /\ index' = index /\ execution' = execution
      BY <1>13 DEF RefreshPlanAgain
    <2> QED BY <1>0, <2>1, PlanRenewed
  <1>14. CASE FinalizeCompile(a)
    <2>1. /\ pc[a] = "finalize"
          /\ index' = index /\ snapshot' = snapshot /\ execution' = execution
      BY <1>14 DEF FinalizeCompile
    <2> QED BY <1>0, <2>1, PlanFrame
  <1>15. CASE ActivityExhausted(a)
    <2>1. /\ pc'[a] = "failed"
          /\ index' = index /\ snapshot' = snapshot /\ execution' = execution
      BY <1>15 DEF ActivityExhausted
    <2> QED BY <1>0, <2>1, PlanFrame
  <1> QED
    BY <1>1, <1>2, <1>3, <1>4, <1>5, <1>6, <1>7, <1>8, <1>9, <1>10, <1>11, <1>12,
       <1>13, <1>14, <1>15
    DEF CompileWorkflow, CommitStageResult

LEMMA InputsCopied ==
  ASSUME NEW a \in Attempt, InputsAreWhole(a), index[a] \in Stage,
         \A s \in Stage : copied'[a][s] =
           IF s = index[a] THEN copied[a][s] \cup (evidence[a] \cap SlotsOf(s))
                           ELSE copied[a][s],
         evidence'[a] = evidence[a], index'[a] = index[a]
  PROVE  InputsAreWhole(a)'
  <1>1. \A s \in Stage : copied[a][s] \subseteq evidence[a] \cap SlotsOf(s)
    BY DEF InputsAreWhole
  <1>2. ASSUME NEW s \in Stage PROVE copied'[a][s] \subseteq evidence[a] \cap SlotsOf(s)
    BY <1>1
  <1>3. copied'[a][index[a]] = evidence[a] \cap SlotsOf(index[a])
    BY <1>1
  <1> QED BY <1>2, <1>3 DEF InputsAreWhole, SlotsOf

LEMMA InputsFrame ==
  ASSUME NEW a \in Attempt, InputsAreWhole(a),
         copied'[a] = copied[a], evidence'[a] = evidence[a],
         \/ pc'[a] \notin {"engine", "commit"}
         \/ pc[a] = "engine" /\ index' = index
         \/ pc[a] = "commit" /\ pc'[a] # "engine" /\ index' = index /\ result' = result
  PROVE  InputsAreWhole(a)'
  <1>1. CASE pc'[a] \notin {"engine", "commit"}
    BY <1>1 DEF InputsAreWhole, SlotsOf
  <1>2. CASE pc[a] = "engine" /\ index' = index
    <2>1. pc[a] \in {"engine", "commit"} /\ ~Blocked(a)
      BY <1>2 DEF Blocked
    <2> QED BY <1>2, <2>1 DEF InputsAreWhole, SlotsOf
  <1>3. CASE pc[a] = "commit" /\ pc'[a] # "engine" /\ index' = index /\ result' = result
    <2>1. pc'[a] = "commit" /\ ~Blocked(a)' => ~Blocked(a)
      BY <1>3 DEF Blocked
    <2> QED BY <1>3, <2>1 DEF InputsAreWhole, SlotsOf
  <1> QED BY <1>1, <1>2, <1>3

\* The Engine's inputs change in PrepareStageExecution only.
LEMMA InputsStay ==
  ASSUME TypeOK, NEW a \in Attempt, Control(a), InputsAreWhole(a), CompileWorkflow(a)
  PROVE  InputsAreWhole(a)'
  <1>0. evidence' = evidence
    BY WorkflowLeavesClients
  <1>1. CASE PrepareStageExecution(a)
    <2>1. /\ copied' = [copied EXCEPT ![a][index[a]] =
                          @ \cup (evidence[a] \cap SlotsOf(index[a]))]
          /\ index' = index /\ index[a] \in Stage
      BY <1>1 DEF PrepareStageExecution, plan, Control, IndexFits, Loop
    <2>2. \A s \in Stage : copied'[a][s] =
            IF s = index[a] THEN copied[a][s] \cup (evidence[a] \cap SlotsOf(s))
                            ELSE copied[a][s]
      BY <2>1 DEF TypeOK
    <2> QED BY <1>0, <2>1, <2>2, InputsCopied
  <1>2. CASE ~PrepareStageExecution(a)
    <2> USE DEF TypeOK, tables, plan, Goto, Answer
    <2>1. copied' = copied
      BY <1>2 DEF CompileWorkflow, CommitStageResult, ResolveCompilePlan, BindReusedStage,
           EngineExecuteStage, EngineActivityFails, RecordStageActivityError,
           CommitWaiting, CommitFailed, CommitPassed, CommitRejected, RefreshPlan,
           ReceiveSignal, RefreshPlanAgain, FinalizeCompile, ActivityExhausted
    <2>2. \/ pc'[a] \notin {"engine", "commit"}
          \/ pc[a] = "engine" /\ index' = index
          \/ pc[a] = "commit" /\ pc'[a] # "engine" /\ index' = index /\ result' = result
      BY <1>2 DEF CompileWorkflow, CommitStageResult, ResolveCompilePlan, BindReusedStage,
           EngineExecuteStage, EngineActivityFails, RecordStageActivityError,
           CommitWaiting, CommitFailed, CommitPassed, CommitRejected, RefreshPlan,
           ReceiveSignal, RefreshPlanAgain, FinalizeCompile, ActivityExhausted, NextStage
    <2> QED BY <1>0, <2>1, <2>2, InputsFrame
  <1> QED BY <1>1, <1>2

\* A step binds the stage at hand, makes a new plan, or does neither.
LEMMA BoundStays ==
  ASSUME TypeOK, NEW a \in Attempt, Control(a), PlanIsCurrent(a), BoundAsPlanned(a),
         CompileWorkflow(a)
  PROVE  BoundAsPlanned(a)'
  <1> USE DEF TypeOK, tables, plan, Goto, Answer
  <1>1. CASE BindReusedStage(a) \/ CommitPassed(a)
    <2>1. /\ bound' = [bound EXCEPT ![a][index[a]] = Expected(a, index[a])]
          /\ snapshot' = snapshot
      BY <1>1 DEF BindReusedStage, CommitPassed
    <2>2. \A s \in Stage : bound'[a][s] \in {bound[a][s], Expected(a, s)}
      BY <2>1
    <2> QED BY <2>1, <2>2 DEF BoundAsPlanned, Expected
  <1>2. CASE ~(BindReusedStage(a) \/ CommitPassed(a))
    <2>1. bound' = bound
      BY <1>2 DEF CompileWorkflow, CommitStageResult, ResolveCompilePlan,
           PrepareStageExecution, EngineExecuteStage, EngineActivityFails,
           RecordStageActivityError, CommitWaiting, CommitFailed, CommitRejected,
           RefreshPlan, ReceiveSignal, RefreshPlanAgain, FinalizeCompile,
           ActivityExhausted
    <2>2. CASE snapshot' = snapshot
      BY <2>1, <2>2 DEF BoundAsPlanned, Expected
    <2>3. CASE snapshot' # snapshot
      <3>1. /\ Resolved(a) /\ pc[a] \in {"resolve", "refresh", "refreshAgain"}
        BY <1>2, <2>3
           DEF CompileWorkflow, CommitStageResult, ResolveCompilePlan,
               PrepareStageExecution, EngineExecuteStage, EngineActivityFails,
               RecordStageActivityError, CommitWaiting, CommitFailed, CommitRejected,
               RefreshPlan, ReceiveSignal, RefreshPlanAgain, FinalizeCompile,
               ActivityExhausted
      <3>2. ASSUME NEW s \in Stage, bound[a][s] # NoArtifact PROVE s < index[a]
        <4>1. ~(s >= index[a])
          BY <3>1, <3>2 DEF Control, StagesInOrder
        <4>2. s \in Nat /\ index[a] \in Nat
          BY NStagesIsNat DEF Stage
        <4> QED BY <4>1, <4>2
      <3>3. ASSUME NEW s \in Stage PROVE bound[a][s] \in {NoArtifact, Expected(a, s)'}
        BY <3>1, <3>2, ExpectedStays DEF BoundAsPlanned
      <3> QED BY <2>1, <3>3 DEF BoundAsPlanned
    <2> QED BY <2>2, <2>3
  <1> QED BY <1>1, <1>2

-----------------------------------------------------------------------------
(* Signals.                                                                *)

LEMMA QueueElements ==
  ASSUME NEW q \in Seq(Stage), NEW s \in Stage, NEW x
  PROVE  /\ (\E i \in DOMAIN Append(q, s) : Append(q, s)[i] = x) =>
              x = s \/ \E i \in DOMAIN q : q[i] = x
         /\ q # <<>> /\ (\E i \in DOMAIN Tail(q) : Tail(q)[i] = x) =>
              \E i \in DOMAIN q : q[i] = x
  <1>1. ASSUME NEW i \in DOMAIN Append(q, s)
        PROVE  Append(q, s)[i] = s \/ (i \in DOMAIN q /\ Append(q, s)[i] = q[i])
    OBVIOUS
  <1>2. ASSUME q # <<>>, NEW i \in DOMAIN Tail(q)
        PROVE  i + 1 \in DOMAIN q /\ Tail(q)[i] = q[i + 1]
    BY <1>2
  <1> QED BY <1>1, <1>2

LEMMA WorkflowKeepsSignals ==
  ASSUME TypeOK, SignalsHaveEvidence, NEW a \in Attempt, CompileWorkflow(a)
  PROVE  SignalsHaveEvidence'
  <1>1. /\ UNCHANGED <<evidence, ready, binding>>
        /\ \A b \in Attempt : b # a => channel'[b] = channel[b]
    BY WorkflowLeavesClients
  <1>2. \/ channel'[a] = channel[a]
        \/ channel[a] # <<>> /\ channel'[a] = Tail(channel[a])
    <2>1. CASE Resolved(a) \/ ~ReceiveSignal(a)
      <3>1. channel' = channel \/ ReceiveSignal(a)
        BY DEF CompileWorkflow, CommitStageResult, ResolveCompilePlan, BindReusedStage,
           PrepareStageExecution, EngineExecuteStage, EngineActivityFails,
           RecordStageActivityError, CommitWaiting, CommitFailed, CommitPassed,
           CommitRejected, RefreshPlan, RefreshPlanAgain, FinalizeCompile,
           ActivityExhausted, signalling
      <3> QED BY <3>1 DEF ReceiveSignal, TypeOK
    <2>2. CASE ReceiveSignal(a)
      BY <2>2 DEF ReceiveSignal, TypeOK
    <2> QED BY <2>1, <2>2
  <1>3. \A b \in Attempt, s \in Stage : Buffered(b, s)' => Buffered(b, s)
    <2> SUFFICES ASSUME NEW b \in Attempt, NEW s \in Stage, Buffered(b, s)'
                 PROVE  Buffered(b, s)
      OBVIOUS
    <2>1. CASE channel'[b] = channel[b]
      BY <2>1 DEF Buffered
    <2>2. CASE channel[b] # <<>> /\ channel'[b] = Tail(channel[b])
      <3>1. channel[b] \in Seq(Stage)
        BY DEF TypeOK
      <3> QED BY <2>2, <3>1, QueueElements DEF Buffered
    <2> QED BY <1>1, <1>2, <2>1, <2>2
  <1> QED BY <1>1, <1>3 DEF SignalsHaveEvidence, SlotsBy, SlotsOf

\* Evidence grows, and who asks for a signal or sends one has some.
LEMMA SignalsFrame ==
  ASSUME TypeOK, SignalsHaveEvidence, NEW request \in Request,
         \A a \in Attempt : evidence[a] \subseteq evidence'[a],
         binding' \cup ready' \subseteq binding \cup ready \cup {request},
         request \in binding' \cup ready' =>
           SlotsBy(request) \subseteq evidence'[request[1]],
         \A a \in Attempt, s \in Stage : Buffered(a, s)' =>
           \/ Buffered(a, s)
           \/ a = request[1] /\ s = request[2]
              /\ SlotsBy(request) \subseteq evidence'[request[1]]
  PROVE  SignalsHaveEvidence'
  <1>1. ASSUME NEW r \in binding' \cup ready' PROVE SlotsBy(r) \subseteq evidence'[r[1]]
    <2>1. CASE r = request
      BY <1>1, <2>1
    <2>2. CASE r # request
      <3>1. r \in binding \cup ready
        BY <1>1, <2>2
      <3>2. r[1] \in Attempt
        BY <3>1, RequestType DEF TypeOK
      <3> QED BY <3>1, <3>2 DEF SignalsHaveEvidence
    <2> QED BY <2>1, <2>2
  <1>2. ASSUME NEW a \in Attempt, NEW s \in Stage, Buffered(a, s)'
        PROVE  evidence'[a] \cap SlotsOf(s) # {}
    BY <1>2, RequestSlots DEF SignalsHaveEvidence
  <1> QED BY <1>1, <1>2 DEF SignalsHaveEvidence, SlotsBy, SlotsOf

-----------------------------------------------------------------------------
(* The registry.                                                           *)

\* All dependencies of a stage that the loop has reached are bound, so what
\* a plan's identity says of the parents is what is bound for them.
LEMMA ParentsAreBound ==
  ASSUME NEW a \in Attempt, Control(a), BoundAsPlanned(a), NEW s \in Stage,
         \A d \in DependsOn[s] : bound[a][d] # NoArtifact
  PROVE  BoundDependencies(a, s) =
           {ParentIdentity(Expected(a, s), d) : d \in DependsOn[s]}
  <1>1. ASSUME NEW d \in DependsOn[s]
        PROVE  bound[a][d] = ParentIdentity(Expected(a, s), d)
    <2>1. d \in Stage
      BY LineageGrows
    <2> QED BY <2>1, ExpectedParent DEF BoundAsPlanned
  <1> QED BY <1>1 DEF BoundDependencies

LEMMA DependenciesBehind ==
  ASSUME TypeOK, NEW a \in Attempt, Control(a), NEW s \in Stage, s <= index[a],
         NEW d \in DependsOn[s]
  PROVE  bound[a][d] # NoArtifact
  <1>1. d \in Stage /\ d < s
    BY GraphAssumption
  <1>2. d \in Nat /\ s \in Nat /\ index[a] \in Nat
    BY <1>1, NStagesIsNat DEF TypeOK, Stage
  <1>3. d < index[a]
    BY <1>1, <1>2
  <1> QED BY <1>1, <1>3 DEF Control, StagesInOrder

LEMMA CommitKeepsProvenance ==
  ASSUME TypeOK, NEW a \in Attempt, Control(a), OwnRows(a), ProvenanceMatchesIdentity,
         CommitPassed(a)
  PROVE  ProvenanceMatchesIdentity'
  <1> DEFINE s == index[a]
             new == Produced(a, s)
  <1>1. /\ s \in Stage /\ s <= index[a] /\ pc[a] = "commit"
        /\ result[a] # "WAITING_EXTERNAL_EVIDENCE"
    BY NStagesIsNat DEF CommitPassed, Control, IndexFits, Loop, Stage
  <1>2. ~Blocked(a)
    BY <1>1 DEF Blocked
  <1>3. copied[a][s] = evidence[a] \cap SlotsOf(s)
    BY <1>1, <1>2 DEF OwnRows, InputsAreWhole
  <1>4. evidence[a] \cap SlotsOf(s) = snapshot[a] \cap SlotsOf(s)
    BY <1>1, <1>2 DEF OwnRows, PlanIsCurrent
  <1>5. new.external = OwnEvidence(new.id)
    BY <1>1, <1>3, <1>4, ExpectedOwn DEF Produced
  <1>6. new.stages = {ParentIdentity(new.id, d) : d \in DependsOn[new.id.stage]}
    <2>1. new.stages = BoundDependencies(a, s) /\ new.id = Expected(a, s)
          /\ new.id.stage = s
      BY DEF Produced, Expected, Identity
    <2>2. \A d \in DependsOn[s] : bound[a][d] # NoArtifact
      BY <1>1, DependenciesBehind
    <2> HIDE DEF new, s
    <2> QED BY <1>1, <2>1, <2>2, ParentsAreBound DEF OwnRows
  <1>7. artifacts' \subseteq artifacts \cup {new}
    BY CommitRegisters
  <1> HIDE DEF new
  <1> QED BY <1>5, <1>6, <1>7 DEF ProvenanceMatchesIdentity

LEMMA ArtifactsStay ==
  ASSUME NEW a \in Attempt, CompileWorkflow(a), ~CommitPassed(a)
  PROVE  artifacts' = artifacts
  BY DEF CompileWorkflow, CommitStageResult, ResolveCompilePlan, BindReusedStage,
         PrepareStageExecution, EngineExecuteStage, EngineActivityFails,
         RecordStageActivityError, CommitWaiting, CommitFailed, CommitRejected,
         RefreshPlan, ReceiveSignal, RefreshPlanAgain, FinalizeCompile,
         ActivityExhausted, tables

LEMMA WorkflowKeepsProvenance ==
  ASSUME TypeOK, \A b \in Attempt : Control(b), ProvenanceInv,
         NEW a \in Attempt, CompileWorkflow(a)
  PROVE  ProvenanceInv'
  <1>1. ASSUME NEW b \in Attempt PROVE OwnRows(b)'
    <2>1. CASE b = a
      BY <2>1, PlanStays, InputsStay, BoundStays DEF ProvenanceInv, OwnRows
    <2>2. CASE b # a
      <3>1. SameControl(b) /\ evidence'[b] = evidence[b]
        BY <2>2, WorkflowLeavesOthers, WorkflowLeavesClients
      <3>2. copied'[b] = copied[b]
        BY <2>2 DEF CompileWorkflow, CommitStageResult, ResolveCompilePlan,
           BindReusedStage, PrepareStageExecution, EngineExecuteStage,
           EngineActivityFails, RecordStageActivityError, CommitWaiting, CommitFailed,
           CommitPassed, CommitRejected, RefreshPlan, ReceiveSignal, RefreshPlanAgain,
           FinalizeCompile, ActivityExhausted, tables, TypeOK
      <3> QED BY <3>1, <3>2, RowsFrame DEF ProvenanceInv, OwnRows
    <2> QED BY <2>1, <2>2
  <1>2. ProvenanceMatchesIdentity'
    <2>1. CASE CommitPassed(a)
      BY <2>1, CommitKeepsProvenance DEF ProvenanceInv, OwnRows
    <2>2. CASE ~CommitPassed(a)
      BY <2>2, ArtifactsStay DEF ProvenanceInv, ProvenanceMatchesIdentity
    <2> QED BY <2>1, <2>2
  <1>3. SignalsHaveEvidence'
    BY WorkflowKeepsSignals DEF ProvenanceInv
  <1> QED BY <1>1, <1>2, <1>3 DEF ProvenanceInv, OwnRows

-----------------------------------------------------------------------------
(* Clients that bind a waiting stage's evidence at once.                   *)

\* Evidence is new only for the stage at hand, while its workflow is blocked.
LEMMA BindKeepsRows ==
  ASSUME TypeOK, NEW request \in Request, BindEvidence(request), ~BindsFreely,
         NEW b \in Attempt, OwnRows(b)
  PROVE  OwnRows(b)'
  <1>1. SameControl(b) /\ copied'[b] = copied[b]
    BY ClientLeavesControl DEF Client, BindEvidence
  <1>2. CASE evidence'[b] = evidence[b]
    BY <1>1, <1>2, RowsFrame
  <1>3. CASE evidence'[b] # evidence[b]
    <2> DEFINE s == request[2]
               r == SlotsBy(request)
    <2>1. /\ b = request[1] /\ s \in Stage
          /\ execution[b][s] = "WAITING_EXTERNAL_EVIDENCE"
          /\ evidence[b] \cap SlotsOf(s) \in {{}, r}
          /\ evidence'[b] = evidence[b] \cup r
      BY <1>3, RequestType DEF BindEvidence, TypeOK
    <2>2. r # {} /\ r \subseteq SlotsOf(s)
      BY RequestSlots
    <2> HIDE DEF s, r
    <2>3. evidence[b] \cap SlotsOf(s) = {}
      BY <1>3, <2>1, <2>2
    <2>4. s = index[b] /\ Blocked(b)
      BY <2>1, <2>3 DEF OwnRows, PlanIsCurrent
    <2>5. Blocked(b)'
      BY <1>1, <2>4 DEF Blocked, SameControl
    <2>6. \A t \in Stage : t # s => evidence'[b] \cap SlotsOf(t) = evidence[b] \cap SlotsOf(t)
      BY <2>1, <2>2 DEF SlotsOf
    <2>7. evidence'[b] \cap SlotsOf(s) # {}
      BY <2>1, <2>2
    <2>8. PlanIsCurrent(b)'
      <3>1. ASSUME NEW t \in Stage, t > index[b] PROVE t # s
        BY <2>4, <3>1, NStagesIsNat DEF Stage
      <3>2. snapshot'[b] \subseteq evidence'[b]
        BY <1>1, <2>1 DEF OwnRows, PlanIsCurrent, SameControl
      <3>3. ASSUME NEW t \in Stage
            PROVE  LET own == evidence'[b] \cap SlotsOf(t) IN
                   /\ t > index[b] => own = {} /\ execution[b][t] = "none"
                   /\ ~(own \subseteq snapshot[b]) => t = index[b]
                   /\ execution[b][t] = "WAITING_EXTERNAL_EVIDENCE" /\ own = {} =>
                        t = index[b]
        BY <2>4, <2>6, <3>1 DEF OwnRows, PlanIsCurrent
      <3> QED BY <1>1, <2>5, <3>2, <3>3 DEF PlanIsCurrent, SameControl, SlotsOf
    <2>9. InputsAreWhole(b)'
      <3>1. \A t \in Stage : copied'[b][t] \subseteq evidence'[b] \cap SlotsOf(t)
        BY <1>1, <2>1 DEF OwnRows, InputsAreWhole
      <3> QED BY <2>5, <3>1 DEF InputsAreWhole, SlotsOf
    <2>10. BoundAsPlanned(b)'
      BY <1>1 DEF OwnRows, BoundAsPlanned, Expected, SameControl
    <2> QED BY <2>8, <2>9, <2>10 DEF OwnRows
  <1> QED BY <1>2, <1>3

LEMMA ClientKeepsProvenance ==
  ASSUME TypeOK, ProvenanceInv, NEW request \in Request, Client(request), ~BindsFreely
  PROVE  ProvenanceInv'
  <1>1. artifacts' = artifacts
    BY DEF Client, BindEvidence, SubmitStageReady, BindCrashes, DeliverSignal, tables
  <1>2. ASSUME NEW b \in Attempt PROVE OwnRows(b)'
    <2>1. CASE BindEvidence(request)
      BY <2>1, BindKeepsRows DEF ProvenanceInv, OwnRows
    <2>2. CASE ~BindEvidence(request)
      <3>1. SameControl(b)
        BY ClientLeavesControl
      <3>2. evidence' = evidence /\ copied' = copied
        BY <2>2 DEF Client, SubmitStageReady, BindCrashes, DeliverSignal, tables
      <3> QED BY <3>1, <3>2, RowsFrame DEF ProvenanceInv, OwnRows
    <2> QED BY <2>1, <2>2
  <1>3. SignalsHaveEvidence'
    <2> USE DEF ProvenanceInv
    <2>0. SignalsHaveEvidence
      OBVIOUS
    <2>1. CASE BindEvidence(request)
      <3>1. /\ \A a \in Attempt : evidence[a] \subseteq evidence'[a]
            /\ SlotsBy(request) \subseteq evidence'[request[1]]
            /\ binding' = binding \cup {request} /\ ready' = ready /\ channel' = channel
        BY <2>1, RequestType DEF BindEvidence, TypeOK
      <3>2. \A a \in Attempt, s \in Stage : Buffered(a, s)' => Buffered(a, s)
        BY <3>1 DEF Buffered
      <3> QED BY <2>0, <3>1, <3>2, SignalsFrame
    <2>2. CASE SubmitStageReady(request) \/ BindCrashes(request)
      <3>1. /\ evidence' = evidence /\ channel' = channel
            /\ binding' \cup ready' \subseteq binding \cup ready
        BY <2>2 DEF SubmitStageReady, BindCrashes, tables
      <3>2. \A a \in Attempt, s \in Stage : Buffered(a, s)' => Buffered(a, s)
        BY <3>1 DEF Buffered
      <3> QED BY <2>0, <3>1, <3>2, SignalsFrame DEF SignalsHaveEvidence
    <2>3. CASE DeliverSignal(request)
      <3>1. /\ request \in ready /\ evidence' = evidence
            /\ binding' = binding /\ ready' = ready
            /\ channel' = [channel EXCEPT ![request[1]] = Append(@, request[2])]
        BY <2>3 DEF DeliverSignal, tables
      <3>2. request[1] \in Attempt /\ request[2] \in Stage
        BY RequestType
      <3>3. \A a \in Attempt, s \in Stage : Buffered(a, s)' =>
              Buffered(a, s) \/ (a = request[1] /\ s = request[2])
        <4> SUFFICES ASSUME NEW a \in Attempt, NEW s \in Stage, Buffered(a, s)'
                     PROVE  Buffered(a, s) \/ (a = request[1] /\ s = request[2])
          OBVIOUS
        <4>1. channel[a] \in Seq(Stage)
          BY DEF TypeOK
        <4>2. channel'[a] = IF a = request[1] THEN Append(channel[a], request[2])
                                              ELSE channel[a]
          BY <3>1 DEF TypeOK
        <4> QED BY <3>2, <4>1, <4>2, QueueElements DEF Buffered
      <3> QED BY <2>0, <3>1, <3>3, SignalsFrame DEF SignalsHaveEvidence
    <2> QED BY <2>1, <2>2, <2>3 DEF Client
  <1> QED BY <1>1, <1>2, <1>3 DEF ProvenanceInv, OwnRows, ProvenanceMatchesIdentity

LEMMA ProvenanceStep ==
  ASSUME TypeOK, IInv, ProvenanceInv, ~BindsFreely, [Next]_vars
  PROVE  ProvenanceInv'
  <1>1. ASSUME NEW a \in Attempt, CompileWorkflow(a) PROVE ProvenanceInv'
    BY <1>1, WorkflowKeepsProvenance DEF IInv
  <1>2. ASSUME NEW request \in Request, Client(request) PROVE ProvenanceInv'
    BY <1>2, ClientKeepsProvenance
  <1>3. CASE UNCHANGED vars
    <2> USE <1>3 DEF vars, tables, plan, signalling
    <2>1. ASSUME NEW b \in Attempt PROVE OwnRows(b)'
      BY RowsFrame DEF SameControl, ProvenanceInv, OwnRows
    <2>2. SignalsHaveEvidence' /\ ProvenanceMatchesIdentity'
      BY DEF ProvenanceInv, SignalsHaveEvidence, ProvenanceMatchesIdentity, Buffered,
             SlotsBy, SlotsOf
    <2> QED BY <2>1, <2>2 DEF ProvenanceInv, OwnRows
  <1> QED BY <1>1, <1>2, <1>3 DEF Next

LEMMA ProvenanceInit == Init => ProvenanceInv
  <1> SUFFICES ASSUME Init PROVE ProvenanceInv
    OBVIOUS
  <1>1. ASSUME NEW a \in Attempt PROVE OwnRows(a)
    BY <1>1 DEF Init, OwnRows, PlanIsCurrent, InputsAreWhole, BoundAsPlanned
  <1>2. SignalsHaveEvidence /\ ProvenanceMatchesIdentity
    BY DEF Init, SignalsHaveEvidence, ProvenanceMatchesIdentity, Buffered
  <1> QED BY <1>1, <1>2 DEF ProvenanceInv, OwnRows

LEMMA ProvenanceHolds ==
  ASSUME ~BindsFreely
  PROVE  Spec => [](TypeOK /\ IInv /\ ProvenanceInv)
  <1>1. TypeOK /\ IInv /\ ProvenanceInv /\ [Next]_vars => ProvenanceInv'
    BY ProvenanceStep
  <1> QED BY <1>1, ProvenanceInit, InvariantHolds, PTL DEF Spec

\* Disciplined clients: an artifact was made from exactly the evidence and
\* the parents that its identity names, whichever attempts share the registry
\* and whatever answers are lost.
THEOREM ProvenanceKept ==
  ASSUME ~BindsFreely
  PROVE  Spec => []ProvenanceMatchesIdentity
  BY ProvenanceHolds, PTL DEF ProvenanceInv

\* And so the artifacts an attempt binds were made from one another, also
\* those it reuses from another attempt.
THEOREM LineageCoheres ==
  ASSUME ~BindsFreely
  PROVE  Spec => []CoherentLineage
  <1>1. TypeOK /\ IInv /\ ProvenanceInv => CoherentLineage
    <2> SUFFICES ASSUME TypeOK, IInv, ProvenanceInv, NEW a \in Attempt, NEW s \in Stage,
                        NEW art \in ArtifactsOf({bound[a][s]})
                 PROVE  art.stages = BoundDependencies(a, s)
      BY DEF CoherentLineage
    <2>1. Control(a) /\ BoundAsPlanned(a)
      BY DEF IInv, ProvenanceInv
    <2>2. art \in artifacts /\ art.id = bound[a][s] /\ art.id \in Id
      BY DEF ArtifactsOf, TypeOK, Artifact
    <2>3. bound[a][s] # NoArtifact
      BY <2>2, AttemptAssumption
    <2>4. art.id = Expected(a, s) /\ art.id.stage = s
      <3>1. art.id = Expected(a, s)
        BY <2>1, <2>2, <2>3 DEF BoundAsPlanned
      <3>2. Expected(a, s).stage = s
        BY DEF Expected, Identity
      <3> QED BY <3>1, <3>2
    <2>5. s <= index[a]
      <3>1. s \in Nat /\ index[a] \in Nat
        BY NStagesIsNat DEF TypeOK, Stage
      <3>2. s >= index[a] => s = index[a]
        BY <2>1, <2>3 DEF Control, StagesInOrder
      <3> QED BY <3>1, <3>2
    <2>6. \A d \in DependsOn[s] : bound[a][d] # NoArtifact
      BY <2>1, <2>5, DependenciesBehind
    <2>7. BoundDependencies(a, s) =
            {ParentIdentity(Expected(a, s), d) : d \in DependsOn[s]}
      BY <2>1, <2>6, ParentsAreBound
    <2>8. art.stages = {ParentIdentity(art.id, d) : d \in DependsOn[art.id.stage]}
      BY <2>2 DEF ProvenanceInv, ProvenanceMatchesIdentity
    <2> QED BY <2>4, <2>7, <2>8
  <1> QED BY <1>1, ProvenanceHolds, PTL
-----------------------------------------------------------------------------
(* What compiling promises, whatever clients bind and when.                *)

\* The inputs of a stage follow its evidence; they are complete when the
\* Engine gets them and stay so until its answer is committed.
LEMMA InputsStayFit ==
  ASSUME TypeOK, NEW a \in Attempt, Control(a), InputsFit(a), CompileWorkflow(a)
  PROVE  InputsFit(a)'
  <1> DEFINE s == index[a]
  <1> USE DEF TypeOK, tables, plan, Goto, Answer
  <1>0. evidence' = evidence
    BY WorkflowLeavesClients
  <1>1. CASE PrepareStageExecution(a)
    <2>1. /\ copied' = [copied EXCEPT ![a][s] = @ \cup (evidence[a] \cap SlotsOf(s))]
          /\ UNCHANGED <<index, snapshot>> /\ s \in Stage
          /\ pc'[a] \in {"stage", "engine"}
      BY <1>1 DEF PrepareStageExecution, Control, IndexFits, Loop
    <2>2. \A x \in Stage : copied'[a][x] =
            IF x = s THEN copied[a][x] \cup (evidence[a] \cap SlotsOf(x)) ELSE copied[a][x]
      BY <2>1
    <2> QED BY <1>0, <2>1, <2>2 DEF InputsFit, SlotsOf
  <1>2. CASE EngineExecuteStage(a)
    <2>1. PICK answer \in EngineAnswers(a, s) : result'[a] = answer
      BY <1>2 DEF EngineExecuteStage
    <2>2. /\ UNCHANGED <<copied, snapshot, index>> /\ s \in Stage
          /\ pc[a] = "engine" /\ pc'[a] = "commit"
      BY <1>2 DEF EngineExecuteStage, Control, IndexFits, Loop
    <2>3. ASSUME ResultPassed(a)' PROVE {s} \X Required[s] \subseteq copied[a][s]
      <3>1. Required[s] \subseteq {slot[2] : slot \in copied[a][s]}
        BY <2>1, <2>3 DEF EngineAnswers, ResultPassed, RolesGiven
      <3>2. \A slot \in copied[a][s] : slot \in Slot /\ slot[1] = s
        BY <2>2 DEF InputsFit, SlotsOf
      <3>3. ASSUME NEW role \in Required[s] PROVE <<s, role>> \in copied[a][s]
        <4>1. PICK slot \in copied[a][s] : slot[2] = role
          BY <3>1
        <4>2. slot = <<s, role>>
          BY <3>2, <4>1 DEF Slot
        <4> QED BY <4>1, <4>2
      <3> QED BY <3>3
    <2> QED BY <1>0, <2>2, <2>3 DEF InputsFit, SlotsOf
  <1>3. CASE ~PrepareStageExecution(a) /\ ~EngineExecuteStage(a)
    <2>1. /\ copied' = copied
          /\ \/ pc'[a] \notin {"engine", "commit"}
                /\ (snapshot' = snapshot \/ snapshot'[a] = evidence[a])
             \/ pc[a] = "commit" /\ pc'[a] = "commit" /\ UNCHANGED <<index, result, snapshot>>
      BY <1>3 DEF CompileWorkflow, CommitStageResult, ResolveCompilePlan, BindReusedStage,
           EngineActivityFails, RecordStageActivityError, CommitWaiting, CommitFailed,
           CommitPassed, CommitRejected, RefreshPlan, ReceiveSignal, RefreshPlanAgain,
           FinalizeCompile, ActivityExhausted, NextStage, Resolved
    <2>2. CASE /\ pc'[a] \notin {"engine", "commit"}
               /\ snapshot' = snapshot \/ snapshot'[a] = evidence[a]
      BY <1>0, <2>1, <2>2 DEF InputsFit, SlotsOf
    <2>3. CASE /\ pc[a] = "commit" /\ pc'[a] = "commit"
               /\ UNCHANGED <<index, result, snapshot>>
      BY <1>0, <2>1, <2>3 DEF InputsFit, SlotsOf, ResultPassed
    <2> QED BY <2>1, <2>2, <2>3
  <1> QED BY <1>1, <1>2, <1>3

\* Of another attempt's rows a step changes nothing, of any attempt's
\* evidence a client's step only adds some.
LEMMA FitFrame ==
  ASSUME NEW b \in Attempt, InputsFit(b), evidence[b] \subseteq evidence'[b],
         copied'[b] = copied[b], pc'[b] = pc[b], index'[b] = index[b],
         snapshot'[b] = snapshot[b], result'[b] = result[b]
  PROVE  InputsFit(b)'
  BY DEF InputsFit, SlotsOf, ResultPassed

LEMMA WorkflowLeavesInputs ==
  ASSUME TypeOK, NEW a \in Attempt, CompileWorkflow(a), NEW b \in Attempt, b # a
  PROVE  copied'[b] = copied[b]
  BY DEF CompileWorkflow, CommitStageResult, ResolveCompilePlan, BindReusedStage,
         PrepareStageExecution, EngineExecuteStage, EngineActivityFails,
         RecordStageActivityError, CommitWaiting, CommitFailed, CommitPassed,
         CommitRejected, RefreshPlan, ReceiveSignal, RefreshPlanAgain,
         FinalizeCompile, ActivityExhausted, tables, TypeOK

LEMMA InputsStep ==
  ASSUME TypeOK, IInv, InputsInv, [Next]_vars
  PROVE  InputsInv'
  <1>1. ASSUME NEW a \in Attempt, CompileWorkflow(a) PROVE InputsInv'
    <2> SUFFICES ASSUME NEW b \in Attempt PROVE InputsFit(b)'
      BY DEF InputsInv
    <2>1. CASE b = a
      BY <1>1, <2>1, InputsStayFit DEF IInv, InputsInv
    <2>2. CASE b # a
      BY <1>1, <2>2, WorkflowLeavesOthers, WorkflowLeavesInputs, WorkflowLeavesClients,
         FitFrame DEF SameControl, InputsInv
    <2> QED BY <2>1, <2>2
  <1>2. ASSUME UNCHANGED <<copied, pc, index, snapshot, result>>,
               \A b \in Attempt : evidence[b] \subseteq evidence'[b]
        PROVE  InputsInv'
    BY <1>2, FitFrame DEF InputsInv
  <1>3. ASSUME NEW request \in Request, Client(request) PROVE InputsInv'
    <2>1. CASE BindEvidence(request)
      <3>1. \A b \in Attempt : evidence[b] \subseteq evidence'[b]
        BY <2>1 DEF BindEvidence, TypeOK
      <3> QED BY <1>2, <2>1, <3>1 DEF BindEvidence, plan
    <2>2. CASE ~BindEvidence(request)
      BY <1>2, <1>3, <2>2 DEF Client, SubmitStageReady, BindCrashes, DeliverSignal,
                              tables, plan
    <2> QED BY <2>1, <2>2
  <1>4. CASE UNCHANGED vars
    BY <1>2, <1>4 DEF vars, tables, plan
  <1> QED BY <1>1, <1>3, <1>4 DEF Next

LEMMA InputsInit == Init => InputsInv
  BY DEF Init, InputsInv, InputsFit

\* The stage at hand, while nothing is bound for it, is the one whose turn it
\* is; the identity its plan gives it is one over evidence it has.
LEMMA StageAtHand ==
  ASSUME TypeOK, IInv, InputsInv, NEW a \in Attempt, pc[a] \in {"stage", "commit"}
  PROVE  /\ index[a] \in Stage
         /\ Outcome(a) = "open"
         /\ bound[a][index[a]] = NoArtifact =>
              \A d \in Stage : bound[a][d] = NoArtifact <=> d >= index[a]
         /\ snapshot[a] \in SUBSET evidence[a]
         /\ Expected(a, index[a]) = IdentityFor(a, index[a], snapshot[a])
         /\ bound[a][index[a]] = NoArtifact \/ bound[a][index[a]] = Expected(a, index[a])
  <1>1. Control(a) /\ InputsFit(a)
    BY DEF IInv, InputsInv
  <1>2. index[a] \in Stage
    BY <1>1 DEF Control, IndexFits, Loop
  <1>3. final[a] = "OPEN"
    BY <1>1 DEF Control, CompletionIsLast, TypeOK
  <1>4. ASSUME NEW d \in Stage
        PROVE  /\ d < index[a] => bound[a][d] # NoArtifact
               /\ d >= index[a] /\ bound[a][d] # NoArtifact =>
                    d = index[a] /\ bound[a][d] = Expected(a, d)
    BY <1>1 DEF Control, StagesInOrder
  <1>5. \A d \in Stage : d \in Nat
    BY NStagesIsNat DEF Stage
  <1>6. bound[a][index[a]] = NoArtifact =>
          \A d \in Stage : bound[a][d] = NoArtifact <=> d >= index[a]
    BY <1>2, <1>4, <1>5
  <1>7. bound[a][index[a]] = NoArtifact \/ bound[a][index[a]] = Expected(a, index[a])
    BY <1>2, <1>4, <1>5
  <1> QED BY <1>1, <1>2, <1>3, <1>6, <1>7 DEF InputsFit, Outcome, Expected, IdentityFor

\* Going on after a stage is bound, or losing the answer, is not visible.
LEMMA GoingOnIsOpen ==
  ASSUME TypeOK, NEW a \in Attempt, pc[a] \in {"stage", "commit"}, Outcome(a) = "open",
         final' = final,
         \/ NextStage(a)
         \/ UNCHANGED <<pc, index>>
  PROVE  [b \in Attempt |-> Outcome(b)]' = [b \in Attempt |-> Outcome(b)]
  <1>1. \A b \in Attempt : pc'[b] = "failed" <=> pc[b] = "failed"
    BY DEF NextStage, Goto, TypeOK
  <1> QED BY <1>1 DEF Outcome

\* Binding the artifact of the expected identity, found or just made.
LEMMA TakeRefines ==
  ASSUME TypeOK, IInv, InputsInv, NEW a \in Attempt, pc[a] \in {"stage", "commit"},
         NEW art \in artifacts, art.id = Expected(a, index[a]),
         Contract!Passable(a, art.status),
         bound' = [bound EXCEPT ![a][index[a]] = Expected(a, index[a])],
         UNCHANGED <<final, artifacts, evidence>>,
         NextStage(a) \/ UNCHANGED <<pc, index>>
  PROVE  [Contract!Next]_(Contract!compilationVars)
  <1> DEFINE s == index[a]
  <1>1. UNCHANGED [b \in Attempt |-> Outcome(b)]
    BY StageAtHand, GoingOnIsOpen
  <1>2. CASE bound[a][s] = NoArtifact
    <2>1. Contract!Turn(a, s)
      BY <1>2, StageAtHand DEF Contract!Turn
    <2>2. Contract!Take(a, s, art)
      BY <1>1, <2>1, StageAtHand DEF Contract!Take
    <2> QED BY <2>2, StageAtHand DEF Contract!Next
  <1>3. CASE bound[a][s] = Expected(a, s)
    <2>1. bound' = bound
      BY <1>3, StageAtHand DEF TypeOK
    <2> QED BY <1>1, <2>1 DEF Contract!compilationVars
  <1> QED BY <1>2, <1>3, StageAtHand

LEMMA ReuseRefines ==
  ASSUME TypeOK, IInv, InputsInv, NEW a \in Attempt, BindReusedStage(a)
  PROVE  [Contract!Next]_(Contract!compilationVars)
  <1> DEFINE id == Expected(a, index[a])
  <1>1. /\ Reusable(a, id)
        /\ pc[a] = "stage"
        /\ bound' = [bound EXCEPT ![a][index[a]] = id]
        /\ UNCHANGED <<final, artifacts, evidence>>
        /\ NextStage(a) \/ UNCHANGED <<pc, index>>
    BY DEF BindReusedStage
  <1>2. PICK q \in qualified :
          /\ q[1] = id
          /\ q[2] = "REUSE_ELIGIBLE" \/ (a \in Research /\ q[2] = "DEMO_REUSE_ELIGIBLE")
    BY <1>1 DEF Reusable
  <1>3. PICK art \in artifacts : art.id = id /\ q[2] = LaneOf(art.status)
    BY <1>2 DEF IInv, RegistryIsSound
  <1>4. art.status \in {"PASS", "PASS_DEMO_ONLY"}
    BY DEF TypeOK, Artifact
  <1>5. Contract!Passable(a, art.status)
    BY <1>2, <1>3, <1>4 DEF LaneOf, Contract!Passable
  <1> QED BY <1>1, <1>3, <1>5, TakeRefines

\* What is made from the inputs of the stage is what its identity names.
LEMMA ProducedIsHonest ==
  ASSUME TypeOK, IInv, InputsInv, NEW a \in Attempt, pc[a] = "commit", ResultPassed(a)
  PROVE  /\ Contract!Passable(a, result[a])
         /\ Contract!Honest(a, index[a], Produced(a, index[a]))
  <1> DEFINE s == index[a]
             art == Produced(a, s)
  <1>1. /\ art.id = Expected(a, s) /\ art.status = result[a]
        /\ art.external = copied[a][s] /\ art.stages = BoundDependencies(a, s)
    BY DEF Produced
  <1>2. s \in Stage /\ Control(a) /\ AnswerInLane(a) /\ InputsFit(a)
    BY StageAtHand DEF IInv, InputsInv
  <1>3. Contract!Passable(a, result[a])
    BY <1>2 DEF AnswerInLane, ResultPassed, Contract!Passable
  <1>4. \A slots \in SUBSET Slot : Contract!OwnSlots(s, slots) = slots \cap SlotsOf(s)
    BY <1>2 DEF Contract!OwnSlots, SlotsOf, Slot
  <1>5. snapshot[a] \in SUBSET Slot /\ evidence[a] \in SUBSET Slot
    BY DEF TypeOK
  <1>6. /\ snapshot[a] \cap SlotsOf(s) \subseteq copied[a][s]
        /\ copied[a][s] \subseteq evidence[a] \cap SlotsOf(s)
        /\ {s} \X Required[s] \subseteq copied[a][s]
    BY <1>2 DEF InputsFit
  <1>7. \E slots \in SUBSET evidence[a] :
          /\ art.id = IdentityFor(a, s, slots)
          /\ Contract!OwnSlots(s, slots) \subseteq art.external
    <2>1. art.id = IdentityFor(a, s, snapshot[a]) /\ snapshot[a] \in SUBSET evidence[a]
      BY <1>1, StageAtHand
    <2>2. Contract!OwnSlots(s, snapshot[a]) \subseteq art.external
      BY <1>1, <1>4, <1>5, <1>6
    <2> QED BY <2>1, <2>2
  <1>8. Contract!OwnSlots(s, evidence[a]) = evidence[a] \cap SlotsOf(s)
    BY <1>4, <1>5
  <1>9. ASSUME art.status = "PASS", NEW x \in artifacts, x.id \in art.stages
        PROVE  x.status = "PASS"
    <2>1. DemoIds(BoundDependencies(a, s)) = {}
      BY <1>1, <1>2, <1>9 DEF AnswerInLane
    <2>2. x.status # "PASS_DEMO_ONLY"
      BY <1>1, <1>9, <2>1, NoDemo
    <2> QED BY <2>2 DEF TypeOK, Artifact
  <1> HIDE DEF art
  <1>10. Contract!Honest(a, s, art)
    BY <1>1, <1>3, <1>6, <1>7, <1>8, <1>9 DEF Contract!Honest, BoundDependencies
  <1> QED BY <1>3, <1>10 DEF art

LEMMA CommitRefines ==
  ASSUME TypeOK, IInv, InputsInv, NEW a \in Attempt, CommitPassed(a)
  PROVE  [Contract!Next]_(Contract!compilationVars)
  <1> DEFINE s == index[a]
             art == Produced(a, s)
  <1>1. /\ pc[a] = "commit" /\ ResultPassed(a)
        /\ bound' = [bound EXCEPT ![a][s] = Expected(a, s)]
        /\ UNCHANGED <<final, evidence>>
        /\ NextStage(a) \/ UNCHANGED <<pc, index>>
    BY DEF CommitPassed, ResultPassed
  <1>2. /\ \A x \in artifacts : x.id = Expected(a, s) =>
             x.status = result[a] /\ artifacts' = artifacts
        /\ (\A x \in artifacts : x.id # Expected(a, s)) =>
             artifacts' = artifacts \cup {art}
    BY CommitRegisters
  <1>3. art.id = Expected(a, s) /\ art.status = result[a]
    BY DEF Produced
  <1>4. Contract!Passable(a, art.status) /\ Contract!Honest(a, s, art)
    BY <1>1, <1>3, ProducedIsHonest
  <1> HIDE DEF art
  <1>5. CASE \E x \in artifacts : x.id = art.id
    <2>1. PICK x \in artifacts : x.id = art.id
      BY <1>5
    <2>2. artifacts' = artifacts /\ x.id = Expected(a, s) /\ x.status = art.status
      BY <1>2, <1>3, <2>1
    <2>3. Contract!Passable(a, x.status)
      BY <1>4, <2>2
    <2> QED BY <1>1, <2>2, <2>3, TakeRefines
  <1>6. CASE \A x \in artifacts : x.id # art.id
    <2>1. \A x \in artifacts : x.id # art.id
      BY <1>6
    <2>2. bound[a][s] = NoArtifact
      <3>1. bound[a][s] # NoArtifact => bound[a][s] \in BoundIds(a)
        BY <1>1, StageAtHand DEF BoundIds
      <3>2. BoundIds(a) \subseteq {x.id : x \in artifacts}
        BY DEF IInv, RegistryIsSound, Registered
      <3>3. Expected(a, s) \notin {x.id : x \in artifacts}
        BY <1>3, <2>1
      <3> QED BY <1>1, <3>1, <3>2, <3>3, StageAtHand
    <2>3. Contract!Turn(a, s)
      BY <1>1, <2>2, StageAtHand DEF Contract!Turn
    <2>4. UNCHANGED [b \in Attempt |-> Outcome(b)]
      BY <1>1, StageAtHand, GoingOnIsOpen
    <2>5. Contract!Make(a, s, art)
      BY <1>1, <1>2, <1>3, <1>4, <2>1, <2>3, <2>4 DEF Contract!Make
    <2>6. s \in Stage /\ art \in artifacts'
      BY <1>1, <1>2, <1>3, <2>1, StageAtHand
    <2> QED BY <2>5, <2>6 DEF Contract!Next
  <1> QED BY <1>5, <1>6

\* Every other step of a workflow, and of a client, leaves registry and
\* bindings alone.
LEMMA OthersRefine ==
  ASSUME TypeOK, IInv, NEW a \in Attempt, CompileWorkflow(a),
         ~BindReusedStage(a), ~CommitPassed(a)
  PROVE  [Contract!Next]_(Contract!compilationVars)
  <1> USE DEF tables, plan, Goto, Answer
  <1>1. UNCHANGED <<artifacts, evidence, bound>>
    BY DEF CompileWorkflow, CommitStageResult, ResolveCompilePlan, PrepareStageExecution,
           EngineExecuteStage, EngineActivityFails, RecordStageActivityError,
           CommitWaiting, CommitFailed, CommitRejected, RefreshPlan, ReceiveSignal,
           RefreshPlanAgain, FinalizeCompile, ActivityExhausted
  <1>2. CASE FinalizeCompile(a)
    <2>1. /\ pc[a] = "finalize" /\ pc'[a] # "failed"
          /\ \A b \in Attempt : b # a => pc'[b] = pc[b] /\ final'[b] = final[b]
          /\ final[a] \in {"OPEN", "COMPLETED"} /\ final'[a] = "COMPLETED"
      BY <1>2 DEF FinalizeCompile, TypeOK
    <2>2. \A b \in Attempt : b # a => Outcome(b)' = Outcome(b)
      BY <2>1 DEF Outcome
    <2>3. Outcome(a)' = "completed"
      BY <2>1 DEF Outcome
    <2>4. CASE final[a] = "COMPLETED"
      <3>1. Outcome(a)' = Outcome(a)
        BY <2>3, <2>4 DEF Outcome
      <3> QED BY <1>1, <2>2, <3>1 DEF Contract!compilationVars
    <2>5. CASE final[a] = "OPEN"
      <3>1. Outcome(a) = "open"
        BY <2>1, <2>5 DEF Outcome
      <3>2. \A s \in Stage : bound[a][s] # NoArtifact
        BY <2>1, NStagesIsNat DEF IInv, Control, IndexFits, StagesInOrder, Stage
      <3>3. Contract!Complete(a)
        BY <1>1, <2>2, <2>3, <3>1, <3>2 DEF Contract!Complete
      <3> QED BY <3>3 DEF Contract!Next
    <2> QED BY <2>1, <2>4, <2>5
  <1>3. CASE ~FinalizeCompile(a)
    <2>1. final' = final
      BY <1>3 DEF CompileWorkflow, CommitStageResult, ResolveCompilePlan,
             PrepareStageExecution, EngineExecuteStage, EngineActivityFails,
             RecordStageActivityError, CommitWaiting, CommitFailed, CommitRejected,
             RefreshPlan, ReceiveSignal, RefreshPlanAgain, ActivityExhausted
    <2>2. \A b \in Attempt : b # a => Outcome(b)' = Outcome(b)
      BY WorkflowLeavesOthers DEF SameControl, Outcome
    <2>3. pc[a] # "failed"
      BY WorkflowSignals
    <2>4. CASE Outcome(a)' = Outcome(a)
      BY <1>1, <2>2, <2>4 DEF Contract!compilationVars
    <2>5. CASE Outcome(a)' # Outcome(a)
      <3>1. Outcome(a) = "open" /\ Outcome(a)' = "failed"
        BY <2>1, <2>3, <2>5 DEF Outcome
      <3>2. Contract!Fail(a)
        BY <1>1, <2>2, <3>1 DEF Contract!Fail
      <3> QED BY <3>2 DEF Contract!Next
    <2> QED BY <2>4, <2>5
  <1> QED BY <1>2, <1>3

LEMMA ClientRefines ==
  ASSUME TypeOK, NEW request \in Request, Client(request)
  PROVE  [Contract!Next]_(Contract!compilationVars)
  <1> DEFINE a == request[1]
  <1>1. UNCHANGED <<artifacts, bound, final, pc>>
    BY DEF Client, BindEvidence, SubmitStageReady, BindCrashes, DeliverSignal, tables
  <1>2. UNCHANGED [b \in Attempt |-> Outcome(b)]
    BY <1>1 DEF Outcome
  <1>3. CASE BindEvidence(request)
    <2>1. /\ final[a] = "OPEN" /\ a \in Research
          /\ evidence' = [evidence EXCEPT ![a] = @ \cup SlotsBy(request)]
      BY <1>3 DEF BindEvidence
    <2>2. a \in Attempt /\ SlotsBy(request) \in SUBSET Contract!Slot
      BY RequestType DEF Slot, Contract!Slot
    <2>3. Outcome(a) # "completed"
      BY <2>1 DEF Outcome
    <2>4. Contract!Attach(a, SlotsBy(request))
      BY <1>1, <1>2, <2>1, <2>2, <2>3 DEF Contract!Attach
    <2> QED BY <2>2, <2>4 DEF Contract!Next
  <1>4. CASE ~BindEvidence(request)
    <2>1. evidence' = evidence
      BY <1>4 DEF Client, SubmitStageReady, BindCrashes, DeliverSignal, tables
    <2> QED BY <1>1, <1>2, <2>1 DEF Contract!compilationVars
  <1> QED BY <1>3, <1>4

\* Attempts that share a registry, are replanned while they wait and repeat
\* what lost its answer, from whatever graph, evidence and number of clients,
\* are as good as attempts that bind their stages in order, each in one step.
THEOREM CompileImplementsCompilation == Spec => ImplementsCompilation
  <1>1. Init => Contract!Init
    BY DEF Init, Contract!Init, Outcome
  <1>2. TypeOK /\ IInv /\ InputsInv /\ [Next]_vars => InputsInv'
    BY InputsStep
  <1>3. TypeOK /\ IInv /\ InputsInv /\ [Next]_vars
          => [Contract!Next]_(Contract!compilationVars)
    <2> SUFFICES ASSUME TypeOK, IInv, InputsInv, [Next]_vars
                 PROVE  [Contract!Next]_(Contract!compilationVars)
      OBVIOUS
    <2>1. ASSUME NEW a \in Attempt, CompileWorkflow(a)
          PROVE  [Contract!Next]_(Contract!compilationVars)
      BY <2>1, ReuseRefines, CommitRefines, OthersRefine
    <2>2. CASE UNCHANGED vars
      BY <2>2 DEF vars, tables, Outcome, Contract!compilationVars
    <2> QED BY <2>1, <2>2, ClientRefines DEF Next
  <1> QED
    BY <1>1, <1>2, <1>3, InputsInit, InvariantHolds, PTL
    DEF Spec, ImplementsCompilation, Contract!Spec
=============================================================================

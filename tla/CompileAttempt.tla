--------------------------- MODULE CompileAttempt ---------------------------
(***************************************************************************)
(* CompileWorkflow (internal/orchestration/workflows.go), the activities   *)
(* it runs (internal/control), the evidence binding that runs beside it    *)
(* (internal/externalstage) and the tables they share.                     *)
(*                                                                         *)
(* A workflow resolves a plan once, then takes the stages in order: a      *)
(* stage whose semantic identity has a qualified artifact is bound, any    *)
(* other one is prepared, executed by the Engine and committed.  A stage   *)
(* that lacks required external evidence is left waiting; the workflow     *)
(* resolves again and, if nothing changed, blocks for a signal.            *)
(*                                                                         *)
(* Every activity runs at least once: it may take effect and lose its      *)
(* answer, and is then run again.  Its reads and its transaction are one   *)
(* action here: the only tables others write meanwhile are the evidence    *)
(* and the registry, which only grow, so the reads can be moved to one     *)
(* point.  An attempt has one compile command (compiler_run_bindings);     *)
(* its delivery is Outbox's.                                               *)
(*                                                                         *)
(* Operators whose comment starts with "Slip:" are plausible mistakes kept *)
(* to show that a property notices them.                                   *)
(***************************************************************************)
EXTENDS StageIdentity, FiniteSets, Sequences

CONSTANTS
  Attempt,      \* attempts, each compiled by one workflow
  Research,     \* those of kind research; the others are compile_candidate
  RootOf,       \* RootOf[a]: what the attempt's descriptors start from
  Offers,       \* Offers[s]: the role sets clients bind for s in one request
  BindsFreely,  \* FALSE: clients bind a stage's evidence while it waits, at once
  NoArtifact,   \* SQL NULL
  MaxFaults     \* bound: lost answers, failed activities, crashes, duplicates

ASSUME AttemptAssumption ==
  /\ Research \subseteq Attempt
  /\ RootOf \in [Attempt -> Root]
  /\ \A s \in Stage :
       Offers[s] \subseteq (SUBSET (Required[s] \cup Optional[s])) \ {{}}
  /\ BindsFreely \in BOOLEAN
  /\ NoArtifact \notin Id
  /\ MaxFaults \in Nat

VARIABLES
  \* Postgres
  final,      \* final[a]: attempts.final_state
  execution,  \* execution[a][s]: executions.status
  copied,     \* copied[a][s]: external inputs in execution_artifacts
  evidence,   \* evidence[a]: slots in external_stage_evidence
  bound,      \* bound[a][s]: attempt_artifacts, role stage:s
  artifacts,  \* artifacts with artifact_inputs; semantic_sha256 is the key
  qualified,  \* qualifications with result PASS: <<artifact, lane>>
  failures,   \* failures[a]: stages with a failure_signature
  ready,      \* EXTERNAL_STAGE_READY commands, by idempotency key
  \* Temporal
  pc,         \* pc[a]: where the workflow stands
  index,      \* index[a]: the stage the loop is at
  snapshot,   \* snapshot[a]: the evidence its plan was resolved from
  reuse,      \* reuse[a]: the stages its plan marks REUSE
  result,     \* result[a]: the Engine's answer for the current stage
  channel,    \* channel[a]: buffered signals, each the stage it names
  sent,       \* commands of ready that the outbox has published
  \* clients
  binding,    \* Bind calls between their transaction and their status read
  abandoned,  \* history: Bind calls that died in between, until repeated
  faults

tables == <<final, execution, copied, evidence, bound, artifacts, qualified, failures>>
plan == <<index, snapshot, reuse, result>>
signalling == <<ready, channel, sent, binding, abandoned>>
vars == <<tables, pc, plan, signalling, faults>>

\* A Bind request, and the command it submits: its idempotency key is made
\* of the attempt, the stage and the hash of the bound roles.
Request == {request \in Attempt \X Stage \X SUBSET Role : request[3] \in Offers[request[2]]}

\* A registry row with what it was produced from: the compiler status in its
\* manifest, its external inputs and the artifacts of its dependencies.
Artifact == [id : Id, status : {"PASS", "PASS_DEMO_ONLY"},
             external : SUBSET Slot, stages : SUBSET Id]

Lane == {"REUSE_ELIGIBLE", "DEMO_REUSE_ELIGIBLE"}

Activity == {"resolve", "stage", "commit", "refresh", "refreshAgain", "finalize"}
Place == Activity \cup {"engine", "recordError", "receive", "completed", "failed"}

TypeOK ==
  /\ final \in [Attempt -> {"OPEN", "COMPLETED"}]
  /\ execution \in [Attempt -> [Stage ->
       {"none", "RUNNING", "WAITING_EXTERNAL_EVIDENCE", "PASS", "FAIL"}]]
  /\ copied \in [Attempt -> [Stage -> SUBSET Slot]]
  /\ evidence \in [Attempt -> SUBSET Slot]
  /\ bound \in [Attempt -> [Stage -> Id \cup {NoArtifact}]]
  /\ artifacts \subseteq Artifact
  /\ qualified \subseteq Id \X Lane
  /\ failures \in [Attempt -> SUBSET Stage]
  /\ ready \subseteq Request
  /\ pc \in [Attempt -> Place]
  /\ index \in [Attempt -> 1 .. NStages + 1]
  /\ snapshot \in [Attempt -> SUBSET Slot]
  /\ reuse \in [Attempt -> SUBSET Stage]
  /\ result \in [Attempt -> {"none", "PASS", "PASS_DEMO_ONLY", "FAIL",
                             "WAITING_EXTERNAL_EVIDENCE"}]
  /\ channel \in [Attempt -> Seq(Stage)]
  /\ sent \subseteq Request
  /\ binding \subseteq Request
  /\ abandoned \subseteq Request
  /\ faults \in Nat

Init ==
  /\ final = [a \in Attempt |-> "OPEN"]
  /\ execution = [a \in Attempt |-> [s \in Stage |-> "none"]]
  /\ copied = [a \in Attempt |-> [s \in Stage |-> {}]]
  /\ evidence = [a \in Attempt |-> {}]
  /\ bound = [a \in Attempt |-> [s \in Stage |-> NoArtifact]]
  /\ artifacts = {}
  /\ qualified = {}
  /\ failures = [a \in Attempt |-> {}]
  /\ ready = {}
  /\ pc = [a \in Attempt |-> "resolve"]
  /\ index = [a \in Attempt |-> 1]
  /\ snapshot = [a \in Attempt |-> {}]
  /\ reuse = [a \in Attempt |-> {}]
  /\ result = [a \in Attempt |-> "none"]
  /\ channel = [a \in Attempt |-> <<>>]
  /\ sent = {}
  /\ binding = {}
  /\ abandoned = {}
  /\ faults = 0

-----------------------------------------------------------------------------
Fault ==
  /\ faults < MaxFaults
  /\ faults' = faults + 1

Goto(a, place) == pc' = [pc EXCEPT ![a] = place]

\* The end of an activity: its answer arrives, or is lost and the activity
\* will be run again.
Answer(a, place) ==
  \/ Goto(a, place) /\ UNCHANGED faults
  \/ UNCHANGED pc /\ Fault

\* The identity the plan of a gives stage s.
Expected(a, s) == Identity(s, RootOf[a], snapshot[a])

SlotsOf(s) == {slot \in Slot : slot[1] = s}

ArtifactsOf(ids) == {art \in artifacts : art.id \in ids}

BoundIds(a) == {bound[a][s] : s \in Stage} \ {NoArtifact}

\* Artifacts a's stage s would take as inputs: its bound dependencies.
BoundDependencies(a, s) == {bound[a][d] : d \in DependsOn[s]}

-----------------------------------------------------------------------------
\* Slip: the catalog admits demo qualifications in every lane.
ReusableInAnyLane(a, id) == \E lane \in Lane : <<id, lane>> \in qualified

\* FindQualified and the check of BindReusedStage: demo qualifications count
\* for research attempts only.
Reusable(a, id) ==
  \/ <<id, "REUSE_ELIGIBLE">> \in qualified
  \/ a \in Research /\ <<id, "DEMO_REUSE_ELIGIBLE">> \in qualified

\* Slip: the refreshed plan is dropped, its hits are taken.
ResolvedHitsOnly(a) ==
  /\ UNCHANGED snapshot
  /\ reuse' = [reuse EXCEPT ![a] =
       {s \in Stage : Reusable(a, Identity(s, RootOf[a], snapshot[a]))}]

\* The plan: identities over the evidence of the moment, and the hits.
Resolved(a) ==
  /\ snapshot' = [snapshot EXCEPT ![a] = evidence[a]]
  /\ reuse' = [reuse EXCEPT ![a] =
       {s \in Stage : Reusable(a, Identity(s, RootOf[a], evidence[a]))}]

\* Resolving writes nothing: a lost answer leaves no trace.
ResolveCompilePlan(a) ==
  /\ pc[a] = "resolve"
  /\ Resolved(a)
  /\ Goto(a, "stage")
  /\ UNCHANGED <<tables, index, result, signalling, faults>>

\* The stage is done: the loop goes on, or ends.
NextStage(a) ==
  /\ index' = [index EXCEPT ![a] = @ + 1]
  /\ Goto(a, IF index[a] = NStages THEN "finalize" ELSE "stage")

BindReusedStage(a) ==
  LET s == index[a]
      id == Expected(a, s)
  IN
  /\ pc[a] = "stage"
  /\ s \in reuse[a]
  /\ Reusable(a, id)
  /\ bound[a][s] \in {NoArtifact, id}
  /\ bound' = [bound EXCEPT ![a][s] = id]
  /\ \/ NextStage(a) /\ UNCHANGED faults
     \/ UNCHANGED <<pc, index>> /\ Fault
  /\ UNCHANGED <<final, execution, copied, evidence, artifacts, qualified, failures,
                 snapshot, reuse, result, signalling>>

\* The execution row is created, or a waiting one resumed, and every
\* evidence row the stage has by now is copied to its inputs.
PrepareStageExecution(a) ==
  LET s == index[a] IN
  /\ pc[a] = "stage"
  /\ s \notin reuse[a]
  /\ execution[a][s] # "PASS"
  /\ NoArtifact \notin BoundDependencies(a, s)
  /\ execution' = [execution EXCEPT ![a][s] = IF @ = "FAIL" THEN @ ELSE "RUNNING"]
  /\ copied' = [copied EXCEPT ![a][s] = @ \cup (evidence[a] \cap SlotsOf(s))]
  /\ Answer(a, "engine")
  /\ UNCHANGED <<final, evidence, bound, artifacts, qualified, failures, plan, signalling>>

\* What the Engine may answer, from the inputs of its request.  A missing
\* required role makes the stage wait.  Demo-only results need the research
\* lane and taint what depends on them; given a demo input, the product lane errs.
RolesGiven(a, s) == {slot[2] : slot \in copied[a][s]}

DemoIds(ids) == {art.id : art \in {x \in ArtifactsOf(ids) : x.status = "PASS_DEMO_ONLY"}}

Answers == {"PASS", "PASS_DEMO_ONLY", "FAIL", "WAITING_EXTERNAL_EVIDENCE"}

EngineAnswers(a, s) ==
  {answer \in Answers :
     IF Required[s] \subseteq RolesGiven(a, s)
     THEN /\ answer # "WAITING_EXTERNAL_EVIDENCE"
          /\ answer = "PASS_DEMO_ONLY" => a \in Research
          /\ answer = "PASS" => DemoIds(BoundDependencies(a, s)) = {}
          /\ a \notin Research => DemoIds(BoundIds(a)) = {}
     ELSE answer = "WAITING_EXTERNAL_EVIDENCE"}

EngineExecuteStage(a) ==
  /\ pc[a] = "engine"
  /\ \E answer \in EngineAnswers(a, index[a]) :
       result' = [result EXCEPT ![a] = answer]
  /\ Goto(a, "commit")
  /\ UNCHANGED <<tables, index, snapshot, reuse, signalling, faults>>

\* Every try of the Engine activity erred or timed out.
EngineActivityFails(a) ==
  /\ pc[a] = "engine"
  /\ Goto(a, "recordError")
  /\ UNCHANGED <<tables, plan, signalling, faults>>

\* The workflow fails with the Engine's error whether or not it is recorded.
RecordStageActivityError(a) ==
  /\ pc[a] = "recordError"
  /\ \/ /\ execution[a][index[a]] # "PASS"
        /\ execution' = [execution EXCEPT ![a][index[a]] = "FAIL"]
        /\ failures' = [failures EXCEPT ![a] = @ \cup {index[a]}]
        /\ UNCHANGED faults
     \/ Fault /\ UNCHANGED <<execution, failures>>
  /\ Goto(a, "failed")
  /\ UNCHANGED <<final, copied, evidence, bound, artifacts, qualified, plan, signalling>>

-----------------------------------------------------------------------------
\* CommitStageResult, by the Engine's answer.
CommitWaiting(a) ==
  /\ pc[a] = "commit"
  /\ result[a] = "WAITING_EXTERNAL_EVIDENCE"
  /\ execution' = [execution EXCEPT ![a][index[a]] = "WAITING_EXTERNAL_EVIDENCE"]
  /\ Answer(a, "refresh")
  /\ UNCHANGED <<final, copied, evidence, bound, artifacts, qualified, failures, plan, signalling>>

CommitFailed(a) ==
  /\ pc[a] = "commit"
  /\ result[a] = "FAIL"
  /\ execution' = [execution EXCEPT ![a][index[a]] = "FAIL"]
  /\ failures' = [failures EXCEPT ![a] = @ \cup {index[a]}]
  /\ Answer(a, "failed")
  /\ UNCHANGED <<final, copied, evidence, bound, artifacts, qualified, plan, signalling>>

\* The artifact of the result.  Its content, a manifest of the status and the
\* outputs, is a function of the status and of the inputs.
Produced(a, s) ==
  [id |-> Expected(a, s), status |-> result[a],
   external |-> copied[a][s], stages |-> BoundDependencies(a, s)]

\* Slip: the manifest found under the identity is not compared.
CommittableUncompared(a, s) == bound[a][s] \in {NoArtifact, Expected(a, s)}

\* A commit may succeed if an artifact of that identity can have the same
\* manifest, whatever it was made from: it names the status, and inputs that
\* differ may still give the same outputs.  A binding of the attempt's stage
\* must have the same identity.
Committable(a, s) ==
  /\ \A art \in ArtifactsOf({Expected(a, s)}) : art.status = result[a]
  /\ bound[a][s] \in {NoArtifact, Expected(a, s)}

\* It cannot be refused if what was found was made from the same inputs.
Reproduced(a, s) == ArtifactsOf({Expected(a, s)}) \subseteq {Produced(a, s)}

LaneOf(status) ==
  IF status = "PASS_DEMO_ONLY" THEN "DEMO_REUSE_ELIGIBLE" ELSE "REUSE_ELIGIBLE"

\* The row of the registry: the existing one, or the one the commit inserts.
WithProduced(a, s) ==
  artifacts \cup {art \in {Produced(a, s)} : ArtifactsOf({art.id}) = {}}

CommitPassed(a) ==
  LET s == index[a] IN
  /\ pc[a] = "commit"
  /\ result[a] \in {"PASS", "PASS_DEMO_ONLY"}
  /\ Committable(a, s)
  /\ artifacts' = WithProduced(a, s)
  /\ bound' = [bound EXCEPT ![a][s] = Expected(a, s)]
  /\ qualified' = qualified \cup {<<Expected(a, s), LaneOf(result[a])>>}
  /\ execution' = [execution EXCEPT ![a][s] = "PASS"]
  /\ \/ NextStage(a) /\ UNCHANGED faults
     \/ UNCHANGED <<pc, index>> /\ Fault
  /\ UNCHANGED <<final, copied, evidence, failures, snapshot, reuse, result, signalling>>

\* ARTIFACT_NONDETERMINISM or ATTEMPT_STAGE_OUTPUT_DRIFT: every try errs.
CommitRejected(a) ==
  /\ pc[a] = "commit"
  /\ result[a] \in {"PASS", "PASS_DEMO_ONLY"}
  /\ ~(Committable(a, index[a]) /\ Reproduced(a, index[a]))
  /\ Goto(a, "failed")
  /\ UNCHANGED <<tables, plan, signalling, faults>>

CommitStageResult(a) ==
  CommitWaiting(a) \/ CommitFailed(a) \/ CommitPassed(a) \/ CommitRejected(a)

-----------------------------------------------------------------------------
\* Slip: the plan is not resolved again before the workflow blocks.
EvidenceUnseen(a) == FALSE

\* The identity of the waiting stage in a plan resolved now is another one.
EvidenceChanged(a) ==
  Identity(index[a], RootOf[a], evidence[a]) # Expected(a, index[a])

\* After a wait is committed: resolve again, and block only if the stage
\* would still get the same identity.
RefreshPlan(a) ==
  /\ pc[a] = "refresh"
  /\ IF EvidenceChanged(a)
     THEN Resolved(a) /\ Goto(a, "stage")
     ELSE Goto(a, "receive") /\ UNCHANGED <<snapshot, reuse>>
  /\ UNCHANGED <<tables, index, result, signalling, faults>>

\* The first buffered signal, of whatever stage, ends the wait.
ReceiveSignal(a) ==
  /\ pc[a] = "receive"
  /\ channel[a] # <<>>
  /\ channel' = [channel EXCEPT ![a] = Tail(@)]
  /\ Goto(a, IF Head(channel[a]) = index[a] THEN "refreshAgain" ELSE "failed")
  /\ UNCHANGED <<tables, plan, ready, sent, binding, abandoned, faults>>

\* Slip: the loop moves on after the wait instead of running the stage.
RefreshPlanAndMoveOn(a) ==
  /\ pc[a] = "refreshAgain"
  /\ Resolved(a)
  /\ NextStage(a)
  /\ UNCHANGED <<tables, result, signalling, faults>>

RefreshPlanAgain(a) ==
  /\ pc[a] = "refreshAgain"
  /\ Resolved(a)
  /\ Goto(a, "stage")
  /\ UNCHANGED <<tables, index, result, signalling, faults>>

\* Research attempts and targets short of the product closure.
FinalizeCompile(a) ==
  /\ pc[a] = "finalize"
  /\ final' = [final EXCEPT ![a] = IF @ = "OPEN" THEN "COMPLETED" ELSE @]
  /\ Answer(a, "completed")
  /\ UNCHANGED <<execution, copied, evidence, bound, artifacts, qualified, failures, plan, signalling>>

\* A platform activity exhausts its tries: the workflow fails as it stands.
ActivityExhausted(a) ==
  /\ pc[a] \in Activity
  /\ Goto(a, "failed")
  /\ Fault
  /\ UNCHANGED <<tables, plan, signalling>>

CompileWorkflow(a) ==
  \/ ResolveCompilePlan(a)
  \/ BindReusedStage(a)
  \/ PrepareStageExecution(a)
  \/ EngineExecuteStage(a)
  \/ EngineActivityFails(a)
  \/ RecordStageActivityError(a)
  \/ CommitStageResult(a)
  \/ RefreshPlan(a)
  \/ ReceiveSignal(a)
  \/ RefreshPlanAgain(a)
  \/ FinalizeCompile(a)
  \/ ActivityExhausted(a)

-----------------------------------------------------------------------------
SlotsBy(request) == {request[2]} \X request[3]

\* Bind, its transaction.  Binding bound roles again is allowed.
BindEvidence(request) ==
  LET a == request[1] IN
  /\ request \notin binding
  /\ final[a] = "OPEN"
  /\ a \in Research
  /\ \/ BindsFreely
     \/ /\ execution[a][request[2]] = "WAITING_EXTERNAL_EVIDENCE"
        /\ evidence[a] \cap SlotsOf(request[2]) \in {{}, SlotsBy(request)}
  /\ evidence' = [evidence EXCEPT ![a] = @ \cup SlotsBy(request)]
  /\ binding' = binding \cup {request}
  /\ abandoned' = abandoned \ {request}
  /\ UNCHANGED <<final, execution, copied, bound, artifacts, qualified, failures,
                 pc, plan, ready, channel, sent, faults>>

\* Bind, after it: only a waiting stage of an open attempt gets a command.
\* The status is read before the transaction of the command; a command that
\* is inserted some time after the read is like one delivered later, and the
\* attempt is open for as long as a signal finds the workflow running.
SubmitStageReady(request) ==
  /\ request \in binding
  /\ binding' = binding \ {request}
  /\ ready' = IF /\ execution[request[1]][request[2]] = "WAITING_EXTERNAL_EVIDENCE"
                 /\ final[request[1]] = "OPEN"
              THEN ready \cup {request} ELSE ready
  /\ UNCHANGED <<tables, pc, plan, channel, sent, abandoned, faults>>

\* The API process or the connection dies between the two.
BindCrashes(request) ==
  /\ request \in binding
  /\ binding' = binding \ {request}
  /\ abandoned' = abandoned \cup {request}
  /\ Fault
  /\ UNCHANGED <<tables, pc, plan, ready, channel, sent>>

\* The outbox publishes the command, again after a fault.
DeliverSignal(request) ==
  /\ request \in ready
  /\ pc[request[1]] \notin {"completed", "failed"}
  /\ channel' = [channel EXCEPT ![request[1]] = Append(@, request[2])]
  /\ sent' = sent \cup {request}
  /\ IF request \in sent THEN Fault ELSE UNCHANGED faults
  /\ UNCHANGED <<tables, pc, plan, ready, binding, abandoned>>

Client(request) ==
  \/ BindEvidence(request)
  \/ SubmitStageReady(request)
  \/ BindCrashes(request)
  \/ DeliverSignal(request)

Next ==
  \/ \E a \in Attempt : CompileWorkflow(a)
  \/ \E request \in Request : Client(request)

Spec == Init /\ [][Next]_vars

\* Activities are retried until they answer or give up, the Bind transaction
\* is followed by its status read, the outbox delivers (Outbox), and a client
\* whose Bind call died repeats it.
Fairness ==
  /\ \A a \in Attempt : WF_vars(CompileWorkflow(a))
  /\ \A request \in Request :
       /\ WF_vars(SubmitStageReady(request))
       /\ WF_vars(request \notin sent /\ DeliverSignal(request))
       /\ WF_vars(request \in abandoned /\ BindEvidence(request))

FairSpec == Spec /\ Fairness

-----------------------------------------------------------------------------
Buffered(a, s) == \E i \in DOMAIN channel[a] : channel[a][i] = s

\* A blocked workflow misses no evidence: for every slot of its stage bound
\* since its plan was resolved there is a signal buffered, a command not yet
\* published, a Bind call about to look at the status, or one that died
\* there.  (The plan is resolved a second time before it blocks.)
NoLostWakeup ==
  \A a \in Attempt : pc[a] = "receive" =>
    \A slot \in (evidence[a] \ snapshot[a]) \cap SlotsOf(index[a]) :
      \/ Buffered(a, index[a])
      \/ \E request \in binding \cup (ready \ sent) \cup abandoned :
           request[1] = a /\ slot \in SlotsBy(request)

\* A workflow blocked on a stage whose evidence is complete does not stay
\* blocked.
WaitingResumes ==
  \A a \in Attempt : \A s \in Stage :
    (pc[a] = "receive" /\ index[a] = s /\ {s} \X Required[s] \subseteq evidence[a])
      ~> pc[a] # "receive"

\* Whatever plan a refresh brings in mid-way, the activities of the current
\* stage are admitted: none meets EXECUTION_ALREADY_PASSED, a dependency
\* without artifact, or a drifted reuse.
StageIsAdmitted ==
  \A a \in Attempt : pc[a] = "stage" =>
    LET s == index[a] IN
      IF s \in reuse[a]
      THEN Reusable(a, Expected(a, s)) /\ bound[a][s] \in {NoArtifact, Expected(a, s)}
      ELSE execution[a][s] # "PASS" /\ NoArtifact \notin BoundDependencies(a, s)

\* A completed attempt has an artifact for every stage and no failure.
CompletedIsWhole ==
  \A a \in Attempt : final[a] = "COMPLETED" =>
    /\ \A s \in Stage : bound[a][s] # NoArtifact
    /\ failures[a] = {}

\* Research demo results never reach a product: a product attempt binds only
\* artifacts that passed, and nothing that passed was made from a demo one,
\* though both lanes share identities, artifacts and the cache.
DemoStaysInLane ==
  /\ \A a \in Attempt \ Research : DemoIds(BoundIds(a)) = {}
  /\ \A art \in artifacts : art.status = "PASS" => DemoIds(art.stages) = {}

\* The registry's provenance is the one the identity was computed from: an
\* artifact was made from exactly the evidence and the parents it names.
ProvenanceMatchesIdentity ==
  \A art \in artifacts :
    /\ art.external = OwnEvidence(art.id)
    /\ art.stages = {ParentIdentity(art.id, d) : d \in DependsOn[art.id.stage]}

\* The artifacts an attempt binds were made from one another, the reused ones
\* included.
CoherentLineage ==
  \A a \in Attempt : \A s \in Stage :
    \A art \in ArtifactsOf({bound[a][s]}) : art.stages = BoundDependencies(a, s)

IdentityFor(a, s, slots) == Identity(s, RootOf[a], slots)

Outcome(a) ==
  IF final[a] = "COMPLETED" THEN "completed"
  ELSE IF pc[a] = "failed" THEN "failed" ELSE "open"

Contract == INSTANCE Compilation WITH
  Identity <- IdentityFor,
  registry <- artifacts,
  outcome <- [a \in Attempt |-> Outcome(a)]

\* Workflows that are replanned, wait, repeat activities and lose answers are
\* as good as attempts that bind one stage after the other, each in one step,
\* from a registry in which nothing is ever replaced.
ImplementsCompilation == Contract!Spec

-----------------------------------------------------------------------------
\* The strengthening that makes StageIsAdmitted, CompletedIsWhole and
\* DemoStaysInLane inductive.
Loop == {"resolve", "stage", "engine", "recordError", "commit", "refresh",
         "receive", "refreshAgain"}

ResultPassed(a) == result[a] \in {"PASS", "PASS_DEMO_ONLY"}

\* The index is a stage as long as the loop runs, and past all of them after.
IndexFits(a) ==
  /\ pc[a] \in Loop => index[a] \in Stage
  /\ pc[a] \in {"finalize", "completed"} => index[a] = NStages + 1

\* Nothing ahead of the loop is bound or passed.  The stage at hand is bound
\* or passed only when an answer was lost, and then under its expected
\* identity.
StagesInOrder(a) ==
  \A s \in Stage :
    /\ s < index[a] => bound[a][s] # NoArtifact
    /\ s >= index[a] /\ bound[a][s] # NoArtifact =>
         /\ s = index[a]
         /\ bound[a][s] = Expected(a, s)
         /\ \/ pc[a] = "stage" /\ s \in reuse[a]
            \/ pc[a] = "commit" /\ ResultPassed(a)
            \/ pc[a] = "failed"
    /\ s >= index[a] /\ execution[a][s] = "PASS" =>
         /\ s = index[a]
         /\ \/ pc[a] = "commit" /\ ResultPassed(a)
            \/ pc[a] = "failed"

ReuseIsQualified(a) == \A s \in reuse[a] : Reusable(a, Expected(a, s))

FailureStops(a) ==
  failures[a] # {} =>
    \/ pc[a] = "failed"
    \/ pc[a] = "commit" /\ result[a] = "FAIL"

CompletionIsLast(a) ==
  final[a] = "COMPLETED" =>
    /\ pc[a] \in {"finalize", "completed", "failed"}
    /\ index[a] = NStages + 1
    /\ failures[a] = {}

Control(a) ==
  IndexFits(a) /\ StagesInOrder(a) /\ ReuseIsQualified(a) /\ FailureStops(a) /\ CompletionIsLast(a)

Registered == {art.id : art \in artifacts}

\* An identity has one artifact; a qualification is the lane of its status;
\* what is bound or was an input is registered.
RegistryIsSound ==
  /\ \A x, y \in artifacts : x.id = y.id => x = y
  /\ \A q \in qualified : \E art \in artifacts : art.id = q[1] /\ q[2] = LaneOf(art.status)
  /\ \A art \in artifacts : art.stages \subseteq Registered
  /\ \A a \in Attempt : BoundIds(a) \subseteq Registered

\* The Engine's answer about to be committed respects the lanes.
AnswerInLane(a) ==
  pc[a] = "commit" =>
    /\ result[a] = "PASS_DEMO_ONLY" => a \in Research
    /\ result[a] = "PASS" => DemoIds(BoundDependencies(a, index[a])) = {}

IInv ==
  /\ \A a \in Attempt : Control(a) /\ AnswerInLane(a)
  /\ RegistryIsSound
  /\ DemoStaysInLane

\* The strengthening that makes NoLostWakeup inductive.
WaitIsCommitted(a) ==
  pc[a] \in {"refresh", "receive", "refreshAgain"} =>
    execution[a][index[a]] = "WAITING_EXTERNAL_EVIDENCE"

\* A published signal is buffered, or has ended the wait, or was followed by a
\* plan that knows its evidence.
SignalIsSeen(request) ==
  LET a == request[1] IN
    \/ pc[a] \in {"completed", "failed"}
    \/ Buffered(a, request[2])
    \/ pc[a] = "refreshAgain" /\ index[a] = request[2]
    \/ SlotsBy(request) \subseteq snapshot[a]

WakeupInv ==
  /\ \A a \in Attempt : WaitIsCommitted(a) /\ snapshot[a] \subseteq evidence[a]
  /\ sent \subseteq ready
  /\ \A request \in binding \cup ready : SlotsBy(request) \subseteq evidence[request[1]]
  /\ \A request \in sent : SignalIsSeen(request)
  /\ NoLostWakeup
-----------------------------------------------------------------------------
\* The strengthening that ImplementsCompilation needs: what a plan and the
\* inputs of a stage know is bound, the Engine is given at least the evidence
\* of the stage its plan knows, and passes nothing without what is required.
InputsFit(a) ==
  LET s == index[a] IN
  /\ snapshot[a] \subseteq evidence[a]
  /\ \A x \in Stage : copied[a][x] \subseteq evidence[a] \cap SlotsOf(x)
  /\ pc[a] \in {"engine", "commit"} => snapshot[a] \cap SlotsOf(s) \subseteq copied[a][s]
  /\ pc[a] = "commit" /\ ResultPassed(a) => {s} \X Required[s] \subseteq copied[a][s]

InputsInv == \A a \in Attempt : InputsFit(a)

-----------------------------------------------------------------------------
\* The strengthening that makes ProvenanceMatchesIdentity inductive when
\* clients bind a stage's evidence at once and while it waits.
Blocked(a) ==
  \/ pc[a] \in {"refresh", "receive", "failed"}
  \/ pc[a] = "commit" /\ result[a] = "WAITING_EXTERNAL_EVIDENCE"

\* Only the stage at hand may have evidence its plan does not know, and only
\* as long as it waits; a stage that waited and went on has its evidence.
PlanIsCurrent(a) ==
  /\ snapshot[a] \subseteq evidence[a]
  /\ \A s \in Stage :
       LET own == evidence[a] \cap SlotsOf(s) IN
       /\ s > index[a] => own = {} /\ execution[a][s] = "none"
       /\ ~(own \subseteq snapshot[a]) =>
            s = index[a] /\ (Blocked(a) \/ pc[a] = "refreshAgain")
       /\ execution[a][s] = "WAITING_EXTERNAL_EVIDENCE" /\ own = {} =>
            s = index[a] /\ Blocked(a)

\* The Engine is given all the evidence of the stage.
InputsAreWhole(a) ==
  /\ \A s \in Stage : copied[a][s] \subseteq evidence[a] \cap SlotsOf(s)
  /\ pc[a] \in {"engine", "commit"} /\ ~Blocked(a) =>
       copied[a][index[a]] = evidence[a] \cap SlotsOf(index[a])

\* What is bound has the identity the plan in force gives it.
BoundAsPlanned(a) ==
  \A s \in Stage : bound[a][s] \in {NoArtifact, Expected(a, s)}

\* Who signals a stage has bound evidence for it.
SignalsHaveEvidence ==
  /\ \A request \in binding \cup ready : SlotsBy(request) \subseteq evidence[request[1]]
  /\ \A a \in Attempt, s \in Stage : Buffered(a, s) => evidence[a] \cap SlotsOf(s) # {}

ProvenanceInv ==
  /\ \A a \in Attempt : PlanIsCurrent(a) /\ InputsAreWhole(a) /\ BoundAsPlanned(a)
  /\ SignalsHaveEvidence
  /\ ProvenanceMatchesIdentity
=============================================================================

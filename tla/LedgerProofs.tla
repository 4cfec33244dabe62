---------------------------- MODULE LedgerProofs ----------------------------
(* Proofs about EngineLedger: every ledger execute writes is one the next  *)
(* execute accepts, its lineage is current and demo-only results stay      *)
(* visible, whatever the plan and wherever the process dies.               *)
EXTENDS EngineLedger, WellFoundedInduction, TLAPS

-----------------------------------------------------------------------------
(* What the rows keep.                                                     *)

Taint(rows) ==
  \A s \in Stage :
    /\ rows[s].status = "PASS_DEMO_ONLY" => DemoWitness
    /\ rows[s].status = "PASS" =>
         \A d \in DependsOn[s] : rows[d].status # "PASS_DEMO_ONLY"

Sound(rows) == /\ rows \in [Stage -> Row]
               /\ CurrentLineage(rows)
               /\ Taint(rows)

\* The stages still to run are ready, the one that runs says so.
BatchFits ==
  /\ pc = "run" => batch \subseteq ReadyStages(mem.rows)
  /\ pc = "adapter" =>
       \A s \in batch : IF IsFirst(s, batch) THEN mem.rows[s].status = "RUNNING"
                        ELSE s \in ReadyStages(mem.rows)

LedgerInvariant ==
  /\ TypeOK
  /\ Sound(mem.rows) /\ mem = Refreshed(mem.rows)
  /\ Sound(disk.rows) /\ disk = Refreshed(disk.rows)
  /\ BatchFits
  /\ \A s \in Stage : mem.rows[s].status = "FAIL" => disk.rows[s].status = "FAIL"

LEMMA PendingRowIsRow == PendingRow \in Row
  BY LedgerAssumption DEF PendingRow, Row, Status, File

LEMMA NoSelfDependency == \A s \in Stage : s \notin DependsOn[s]
  BY LedgerAssumption DEF Stage

LEMMA RefreshedIsLedger ==
  ASSUME NEW rows \in [Stage -> Row]
  PROVE  /\ Refreshed(rows) \in Ledger
         /\ Refreshed(rows).rows = rows
         /\ Refreshed(rows) = Refreshed(Refreshed(rows).rows)
  BY DEF Refreshed, Ledger, ReadyStages

\* Dependents is the closure: the stage itself, and what depends on it.
LEMMA DependentsClosed ==
  ASSUME NEW s \in Stage
  PROVE  /\ s \in Dependents(s)
         /\ \A t, d \in Stage : d \in Dependents(s) /\ d \in DependsOn[t]
                                  => t \in Dependents(s)
  <1>1. s \in Dependents(s)
    BY DEF Dependents
  <1>2. ASSUME NEW t \in Stage, NEW d \in Stage,
               d \in Dependents(s), d \in DependsOn[t]
        PROVE  t \in Dependents(s)
    <2> SUFFICES ASSUME NEW C \in SUBSET Stage, s \in C, Closed(C)
                 PROVE  t \in C
      BY DEF Dependents
    <2>1. d \in C
      BY <1>2 DEF Dependents
    <2> QED BY <1>2, <2>1 DEF Closed
  <1> QED BY <1>1, <1>2

\* Whatever set is invalidated, nothing that survives stands on it.
LEMMA InvalidateKeepsSound ==
  ASSUME NEW rows, Sound(rows), NEW S \in SUBSET Stage
  PROVE  /\ Sound(Invalidate(rows, S).rows)
         /\ Invalidate(rows, S) = Refreshed(Invalidate(rows, S).rows)
  <1> DEFINE Gone(t) == \E s \in S : t \in Dependents(s)
             new == [t \in Stage |-> IF Gone(t) THEN PendingRow ELSE rows[t]]
  <1>1. new \in [Stage -> Row]
    BY PendingRowIsRow DEF Sound
  <1>2. Invalidate(rows, S) = Refreshed(new)
    BY DEF Invalidate
  <1>3. /\ Invalidate(rows, S).rows = new
        /\ Invalidate(rows, S) = Refreshed(new)
    BY <1>1, <1>2, RefreshedIsLedger
  <1>4. ASSUME NEW t \in Stage, new[t].status # "PENDING", NEW d \in DependsOn[t]
        PROVE  new[t] = rows[t] /\ d \in Stage /\ new[d] = rows[d]
    <2>1. ~Gone(t)
      BY <1>4 DEF PendingRow
    <2>2. d \in Stage
      BY LedgerAssumption
    <2>3. ~Gone(d)
      BY <1>4, <2>1, <2>2, DependentsClosed
    <2> QED BY <2>1, <2>2, <2>3
  <1>5. \A t \in Stage : new[t].status # "PENDING" => new[t] = rows[t]
    BY DEF PendingRow
  <1> HIDE DEF new
  <1>6. CurrentLineage(new)
    BY <1>4, <1>5 DEF Sound, CurrentLineage, DependenciesPass
  <1>7. Taint(new)
    BY <1>4, <1>5 DEF Sound, Taint
  <1> QED BY <1>1, <1>3, <1>6, <1>7 DEF Sound

LEMMA InvalidateOnly ==
  ASSUME NEW rows, Sound(rows), NEW S \in SUBSET Stage, NEW t \in Stage
  PROVE  Invalidate(rows, S).rows[t] =
           IF \E s \in S : t \in Dependents(s) THEN PendingRow ELSE rows[t]
  BY PendingRowIsRow DEF Invalidate, Refreshed

\* What is not pending has no failure upstream.
LEMMA NothingRanOnFailure ==
  ASSUME NEW rows, Sound(rows), NEW s \in Stage, ~Admissible(rows[s].status),
         NEW t \in Dependents(s), t # s
  PROVE  rows[t].status = "PENDING"
  <1> DEFINE C == {s} \cup {u \in Stage : rows[u].status = "PENDING"}
  <1>1. Closed(C)
    BY DEF Closed, Sound, CurrentLineage, DependenciesPass, Admissible
  <1>2. t \in C
    BY <1>1 DEF Dependents
  <1> QED BY <1>2

\* A row may change once its dependencies pass, as long as it did not pass
\* itself: nobody has built on it.
LEMMA UpdateKeepsSound ==
  ASSUME NEW rows, Sound(rows), NEW s \in Stage, NEW r \in Row,
         ~Admissible(rows[s].status), DependenciesPass(rows, s),
         r.status = "PASS_DEMO_ONLY" => DemoWitness,
         r.status = "PASS" => \A d \in DependsOn[s] : rows[d].status # "PASS_DEMO_ONLY",
         ~r.imported => \A d \in DependsOn[s] : r.identity.inputs[d] = rows[d].output
  PROVE  Sound([rows EXCEPT ![s] = r])
  <1> DEFINE new == [rows EXCEPT ![s] = r]
  <1>1. new \in [Stage -> Row] /\ new[s] = r
    BY DEF Sound
  <1>2. \A t \in Stage : t # s => new[t] = rows[t]
    BY DEF Sound
  <1>3. \A t \in Stage : \A d \in DependsOn[t] : d \in Stage
    BY LedgerAssumption
  <1>4. \A d \in DependsOn[s] : new[d] = rows[d]
    BY <1>2, <1>3, NoSelfDependency
  <1>5. ASSUME NEW t \in Stage, t # s, new[t].status # "PENDING"
        PROVE  \A d \in DependsOn[t] : new[d] = rows[d]
    BY <1>2, <1>3, <1>5 DEF Sound, CurrentLineage, DependenciesPass
  <1> HIDE DEF new
  <1>6. CurrentLineage(new)
    <2> SUFFICES ASSUME NEW t \in Stage, new[t].status # "PENDING"
                 PROVE  /\ DependenciesPass(new, t)
                        /\ ~new[t].imported => \A d \in DependsOn[t] :
                             new[t].identity.inputs[d] = new[d].output
      BY DEF CurrentLineage
    <2>1. CASE t = s
      BY <1>1, <1>4, <2>1 DEF DependenciesPass
    <2>2. CASE t # s
      BY <1>2, <1>5, <2>2 DEF Sound, CurrentLineage, DependenciesPass
    <2> QED BY <2>1, <2>2
  <1>7. Taint(new)
    BY <1>1, <1>2, <1>4, <1>5 DEF Sound, Taint
  <1>8. Sound(new)
    BY <1>1, <1>6, <1>7 DEF Sound
  <1> QED BY <1>8 DEF new

LEMMA FingerprintType ==
  ASSUME NEW rows \in [Stage -> Row], NEW s \in Stage, TypeOK
  PROVE  /\ Fingerprint(rows, s, seen) \in Identity
         /\ \A d \in DependsOn[s] : Fingerprint(rows, s, seen).inputs[d] = rows[d].output
  <1>1. \A d \in DependsOn[s] : d \in Stage
    BY LedgerAssumption
  <1>2. \A d \in Stage : rows[d].output \in File
    BY DEF Row
  <1>3. NoFile \in File
    BY DEF File
  <1> QED BY <1>1, <1>2, <1>3 DEF Fingerprint, Identity, TypeOK

-----------------------------------------------------------------------------
(* Every step keeps the invariant.                                         *)

\* What a step that writes sound rows leaves to show.
LEMMA WriteKeeps ==
  ASSUME NEW rows, Sound(rows), Write(rows)
  PROVE  /\ mem'.rows = rows /\ disk'.rows = rows
         /\ mem' \in Ledger /\ disk' \in Ledger
         /\ mem' = Refreshed(mem'.rows) /\ disk' = Refreshed(disk'.rows)
  BY RefreshedIsLedger DEF Write, Sound

LEMMA InitHolds == Init => LedgerInvariant
  <1> SUFFICES ASSUME Init PROVE LedgerInvariant
    OBVIOUS
  <1>1. PICK c \in Content, v \in Version :
          /\ files = [s \in Stage |-> IF s \in Imported THEN c ELSE NoFile]
          /\ code = [s \in Stage |-> v]
          /\ manifest = code /\ seen = code
          /\ disk = Refreshed([s \in Stage |->
                IF s \in Imported
                THEN [status |-> "PASS_DEMO_ONLY", output |-> c,
                      identity |-> ImportFingerprint(s, code), imported |-> TRUE]
                ELSE PendingRow])
          /\ mem = disk
          /\ pc = "idle" /\ targets = {} /\ resume = TRUE /\ batch = {}
          /\ edits = 0 /\ crashes = 0
    BY DEF Init
  <1> DEFINE rows == [s \in Stage |->
                IF s \in Imported
                THEN [status |-> "PASS_DEMO_ONLY", output |-> c,
                      identity |-> ImportFingerprint(s, code), imported |-> TRUE]
                ELSE PendingRow]
  <1>2. ASSUME NEW s \in Stage PROVE ImportFingerprint(s, code) \in Identity
    BY <1>1 DEF ImportFingerprint, Identity, File
  <1>3. rows \in [Stage -> Row]
    <2> SUFFICES ASSUME NEW s \in Stage PROVE rows[s] \in Row
      OBVIOUS
    <2>1. CASE s \in Imported
      BY <1>2, <2>1, LedgerAssumption DEF Row, Status, File
    <2>2. CASE s \notin Imported
      BY <2>2, PendingRowIsRow
    <2> QED BY <2>1, <2>2
  <1>4. CurrentLineage(rows)
    BY LedgerAssumption DEF CurrentLineage, DependenciesPass, Admissible, PendingRow
  <1>5. Taint(rows)
    BY LedgerAssumption DEF Taint, PendingRow
  <1>6. Sound(rows) /\ disk = Refreshed(rows)
    BY <1>1, <1>3, <1>4, <1>5 DEF Sound
  <1> HIDE DEF rows
  <1>7. disk \in Ledger /\ disk.rows = rows /\ disk = Refreshed(disk.rows)
    BY <1>3, <1>6, RefreshedIsLedger
  <1>8. TypeOK
    BY <1>1, <1>7, LedgerAssumption DEF TypeOK, File
  <1> QED BY <1>1, <1>6, <1>7, <1>8 DEF LedgerInvariant, BatchFits

LEMMA InvalidateStep ==
  ASSUME LedgerInvariant, NEW s \in Stage,
         Write(Invalidate(mem.rows, {s}).rows), UNCHANGED <<batch, world, request>>,
         pc' \in {"failures", "force"}
  PROVE  LedgerInvariant'
  <1>1. Sound(Invalidate(mem.rows, {s}).rows)
    BY InvalidateKeepsSound DEF LedgerInvariant
  <1> QED BY <1>1, WriteKeeps
       DEF LedgerInvariant, TypeOK, BatchFits, world, request

LEMMA StartStep ==
  ASSUME LedgerInvariant, StartStage PROVE LedgerInvariant'
  <1>1. PICK s \in Stage :
          /\ IsFirst(s, batch)
          /\ Write([mem.rows EXCEPT ![s] =
                     [status |-> "RUNNING", output |-> NoFile, imported |-> FALSE,
                      identity |-> Fingerprint(mem.rows, s, seen)]])
    BY DEF StartStage
  <1> DEFINE r == [status |-> "RUNNING", output |-> NoFile, imported |-> FALSE,
                   identity |-> Fingerprint(mem.rows, s, seen)]
             rows == [mem.rows EXCEPT ![s] = r]
  <1>2. s \in ReadyStages(mem.rows)
    BY <1>1 DEF StartStage, LedgerInvariant, BatchFits, IsFirst
  <1>3. mem.rows \in [Stage -> Row]
    BY DEF LedgerInvariant, Sound
  <1>4. r \in Row
    BY <1>3, FingerprintType, LedgerAssumption
       DEF LedgerInvariant, Row, Status, File
  <1>5. Sound(rows)
    <2>1. ~Admissible(mem.rows[s].status) /\ DependenciesPass(mem.rows, s)
      BY <1>2 DEF ReadyStages, Admissible
    <2>2. \A d \in DependsOn[s] : r.identity.inputs[d] = mem.rows[d].output
      BY <1>3, FingerprintType DEF LedgerInvariant
    <2>3. r.status = "RUNNING"
      OBVIOUS
    <2> HIDE DEF r
    <2> QED BY <1>4, <2>1, <2>2, <2>3, UpdateKeepsSound DEF LedgerInvariant
  <1>6. ASSUME NEW t \in batch, ~IsFirst(t, batch) PROVE t \in ReadyStages(rows)
    <2>1. t \in ReadyStages(mem.rows) /\ t # s
      BY <1>1, <1>6 DEF StartStage, LedgerInvariant, BatchFits
    <2>2. s \notin DependsOn[t]
      BY <1>2, <2>1 DEF ReadyStages, DependenciesPass, Admissible
    <2>3. \A d \in DependsOn[t] : d \in Stage
      BY <2>1, LedgerAssumption DEF ReadyStages
    <2> QED BY <1>3, <2>1, <2>2, <2>3 DEF ReadyStages, DependenciesPass
  <1>7. \A t \in batch : IsFirst(t, batch) => t = s
    BY <1>1, <1>2 DEF IsFirst, ReadyStages, LedgerInvariant, TypeOK, Stage
  <1>8. rows[s].status = "RUNNING"
    BY <1>3
  <1> HIDE DEF rows
  <1>9. Write(rows)
    BY <1>1 DEF rows
  <1> QED BY <1>5, <1>6, <1>7, <1>8, <1>9, WriteKeeps
       DEF LedgerInvariant, TypeOK, BatchFits, StartStage, world, request, IsFirst

\* The end of a stage: it ran, so its dependencies pass and nothing stands
\* on it.
LEMMA FinishStep ==
  ASSUME LedgerInvariant, NEW s \in batch, NEW status, NEW output \in File,
         Finish(s, status, output),
         \/ status = "FAIL" /\ output = NoFile
         \/ /\ output # NoFile
            /\ \E reported \in Reported : status = Normalized(mem.rows, s, reported)
  PROVE  LedgerInvariant'
  <1> DEFINE r == [status |-> status, output |-> output, imported |-> FALSE,
                   identity |-> mem.rows[s].identity]
             rows == [mem.rows EXCEPT ![s] = r]
  <1>1. s \in Stage /\ mem.rows[s].status = "RUNNING" /\ pc = "adapter"
    BY DEF LedgerInvariant, TypeOK, BatchFits, Finish
  <1>2. mem.rows \in [Stage -> Row]
    BY DEF LedgerInvariant, Sound
  <1>3. \/ status = "FAIL"
        \/ status = "PASS" /\ \A d \in DependsOn[s] :
                       DemoWitness => mem.rows[d].status # "PASS_DEMO_ONLY"
        \/ status = "PASS_DEMO_ONLY" /\ DemoWitness
    BY DEF Normalized, Reported
  <1>4. r \in Row
    <2>1. mem.rows[s] \in Row /\ status \in Status
      BY <1>1, <1>2, <1>3 DEF Status
    <2>2. mem.rows[s].identity \in Identity /\ mem.rows[s].identity # NoIdentity
      BY <1>1, <2>1, LedgerAssumption DEF Row
    <2>3. status \in {"PASS", "PASS_DEMO_ONLY"} <=> output # NoFile
      BY DEF Normalized, Reported
    <2>4. status # "PENDING"
      BY <1>3
    <2> QED BY <2>1, <2>2, <2>3, <2>4 DEF Row
  <1>6. Sound(rows)
    <2>1. ~Admissible(mem.rows[s].status) /\ DependenciesPass(mem.rows, s)
      BY <1>1 DEF LedgerInvariant, Sound, CurrentLineage, Admissible
    <2>2. ~r.imported => \A d \in DependsOn[s] : r.identity.inputs[d] = mem.rows[d].output
      BY <1>1, <1>2 DEF LedgerInvariant, Sound, CurrentLineage, Row
    <2>3. r.status = status
      BY <1>1, <1>2 DEF Row
    <2>4. \A d \in DependsOn[s] : mem.rows[d].status = "PASS_DEMO_ONLY" => DemoWitness
      BY <1>1, LedgerAssumption DEF LedgerInvariant, Sound, Taint
    <2> HIDE DEF r
    <2> QED BY <1>1, <1>3, <1>4, <2>1, <2>2, <2>3, <2>4, UpdateKeepsSound
         DEF LedgerInvariant
  <1>7. ASSUME NEW t \in batch \ {s} PROVE t \in ReadyStages(rows)
    <2>1. IsFirst(s, batch)
      BY DEF Finish
    <2>2. t \in Stage /\ ~IsFirst(t, batch)
      <3>1. t \in Stage /\ s <= t /\ s # t /\ s \in batch
        BY <2>1, <1>7 DEF IsFirst, LedgerInvariant, TypeOK
      <3> QED BY <1>1, <3>1 DEF IsFirst, Stage
    <2>3. t \in ReadyStages(mem.rows)
      BY <1>1, <2>2, <1>7 DEF LedgerInvariant, BatchFits
    <2>4. s \notin DependsOn[t]
      BY <1>1, <2>3 DEF ReadyStages, DependenciesPass, Admissible
    <2>5. \A d \in DependsOn[t] : d \in Stage
      BY <2>2, LedgerAssumption
    <2> QED BY <1>2, <1>7, <2>3, <2>4, <2>5 DEF ReadyStages, DependenciesPass
  <1> HIDE DEF rows
  <1>8. Write(rows)
    BY DEF Finish, rows
  <1> QED BY <1>6, <1>7, <1>8, WriteKeeps
       DEF LedgerInvariant, TypeOK, BatchFits, Finish, world, request

LEMMA StepHolds == LedgerInvariant /\ [Next]_vars => LedgerInvariant'
  <1> SUFFICES ASSUME LedgerInvariant, [Next]_vars PROVE LedgerInvariant'
    OBVIOUS
  <1>1. CASE Load
    BY <1>1 DEF Load, LedgerInvariant, TypeOK, BatchFits, world, Closures
  <1>2. CASE VerifyPasses
    <2>1. CASE UNCHANGED <<mem, disk>>
      BY <1>2, <2>1 DEF VerifyPasses, LedgerInvariant, TypeOK, BatchFits, world, request
    <2> QED BY <1>2, <2>1, InvalidateStep DEF VerifyPasses
  <1>3. CASE ResetFailures
    <2>1. CASE pc' = "force" /\ UNCHANGED <<mem, disk>>
      BY <1>3, <2>1 DEF ResetFailures, LedgerInvariant, TypeOK, BatchFits, world, request
    <2> QED BY <1>3, <2>1, InvalidateStep DEF ResetFailures
  <1>4. CASE ForceRerun
    <2> DEFINE S == {s \in targets : Admissible(mem.rows[s].status)}
    <2>1. S \subseteq Stage
      BY DEF LedgerInvariant, TypeOK
    <2> HIDE DEF S
    <2>2. mem' = mem \/ mem' = Invalidate(mem.rows, S)
      <3>1. mem' = IF resume THEN mem ELSE Invalidate(mem.rows, S)
        BY <1>4 DEF ForceRerun, S
      <3>2. resume \in BOOLEAN
        BY DEF LedgerInvariant, TypeOK
      <3> QED BY <3>1, <3>2
    <2>3. /\ Sound(Invalidate(mem.rows, S).rows)
          /\ Invalidate(mem.rows, S) = Refreshed(Invalidate(mem.rows, S).rows)
      BY <2>1, InvalidateKeepsSound DEF LedgerInvariant
    <2>4. Sound(mem'.rows) /\ mem' = Refreshed(mem'.rows)
      BY <2>2, <2>3 DEF LedgerInvariant
    <2>5. mem' \in Ledger
      BY <2>4, RefreshedIsLedger DEF Sound
    <2>6. \A s \in Stage : mem'.rows[s].status = "FAIL" => mem.rows[s].status = "FAIL"
      BY <2>1, <2>2, InvalidateOnly DEF LedgerInvariant, PendingRow
    <2>7. disk' = disk /\ pc' = "loop" /\ UNCHANGED <<batch, world, request>>
      BY <1>4 DEF ForceRerun
    <2> QED BY <2>4, <2>5, <2>6, <2>7 DEF LedgerInvariant, TypeOK, BatchFits, world, request
  <1>5. CASE TakeBatch
    BY <1>5 DEF TakeBatch, LedgerInvariant, TypeOK, BatchFits, world, request
  <1>6. CASE StartStage
    BY <1>6, StartStep
  <1>7. CASE StagePasses
    <2>1. PICK s \in batch, reported \in Reported :
            files[s] # NoFile /\ Finish(s, Normalized(mem.rows, s, reported), files[s])
      BY <1>7 DEF StagePasses
    <2>2. files[s] \in File
      BY DEF LedgerInvariant, TypeOK
    <2> QED BY <2>1, <2>2, FinishStep
  <1>8. CASE StageFails
    <2>1. PICK s \in batch : Finish(s, "FAIL", NoFile)
      BY <1>8 DEF StageFails
    <2>2. NoFile \in File
      BY DEF File
    <2> QED BY <2>1, <2>2, FinishStep
  <1>9. CASE FinishExecute
    <2>1. Sound(mem.rows) /\ Write(mem.rows)
      BY <1>9 DEF FinishExecute, LedgerInvariant
    <2> QED BY <1>9, <2>1, WriteKeeps
         DEF FinishExecute, LedgerInvariant, TypeOK, BatchFits, world, request
  <1>10. CASE AdapterWrites
    <2>1. files' \in [Stage -> File]
      BY <1>10 DEF AdapterWrites, LedgerInvariant, TypeOK, File
    <2> QED BY <1>10, <2>1
         DEF AdapterWrites, LedgerInvariant, TypeOK, BatchFits, request, IsFirst
  <1>11. CASE Crash
    <2>1. crashes' \in 0 .. MaxCrashes
      BY <1>11, LedgerAssumption DEF Crash, LedgerInvariant, TypeOK
    <2> QED BY <1>11, <2>1 DEF Crash, LedgerInvariant, TypeOK, BatchFits, request
  <1>12. CASE Edit
    <2>1. edits' \in 0 .. MaxEdits
      BY <1>12, LedgerAssumption DEF Edit, LedgerInvariant, TypeOK
    <2>2. /\ files' \in [Stage -> File]
          /\ code' \in [Stage -> Version] /\ manifest' \in [Stage -> Version]
      BY <1>12 DEF Edit, LedgerInvariant, TypeOK
    <2> QED BY <1>12, <2>1, <2>2
         DEF Edit, LedgerInvariant, TypeOK, BatchFits, request, IsFirst
  <1>13. CASE UNCHANGED vars
    BY <1>13 DEF vars, LedgerInvariant, TypeOK, BatchFits, IsFirst
  <1> QED BY <1>1, <1>2, <1>3, <1>4, <1>5, <1>6, <1>7, <1>8, <1>9, <1>10, <1>11,
             <1>12, <1>13 DEF Next, Execute

LEMMA InvariantHolds == Spec => []LedgerInvariant
  BY InitHolds, StepHolds, PTL DEF Spec

-----------------------------------------------------------------------------
(* What follows.                                                           *)

\* Every variable of the ledger model keeps its type; in particular a row
\* that passes always has an output and one that ran a fingerprint.
THEOREM LedgerTypeCorrect == Spec => []TypeOK
  <1>1. LedgerInvariant => TypeOK
    BY DEF LedgerInvariant
  <1> QED BY <1>1, InvariantHolds, PTL

\* For every plan and wherever the process dies, the next execute accepts
\* the ledger it finds.
THEOREM LedgerLoads == Spec => []PersistedLedgerLoads
  <1>1. LedgerInvariant => PersistedLedgerLoads
    BY DEF LedgerInvariant, PersistedLedgerLoads, Validates, Sound, Refreshed,
           CurrentLineage, Taint, Admissible
  <1> QED BY <1>1, InvariantHolds, PTL

\* No row, passed or failed, was made of outputs other than those its
\* dependencies have now.
THEOREM LineageCurrent == Spec => []LineageIsCurrent
  <1>1. LedgerInvariant => LineageIsCurrent
    BY DEF LedgerInvariant, LineageIsCurrent, Sound
  <1> QED BY <1>1, InvariantHolds, PTL

\* The taint of a demo-only result reaches everything downstream: the
\* stages that do not pass plainly are closed under dependence.
THEOREM TaintReachesDownstream == Spec => []TaintVisible
  <1>1. ASSUME LedgerInvariant PROVE TaintVisible
    <2> SUFFICES ASSUME NEW s \in Stage, disk.rows[s].status = "PASS",
                        NEW d \in Before(s), disk.rows[d].status = "PASS_DEMO_ONLY"
                 PROVE  FALSE
      BY DEF TaintVisible
    <2> DEFINE C == {t \in Stage : disk.rows[t].status # "PASS"}
    <2>1. Closed(C)
      BY <1>1 DEF Closed, LedgerInvariant, Sound, CurrentLineage, Taint,
                  DependenciesPass, Admissible
    <2>2. d \in C
      BY DEF Before
    <2>3. s \in Dependents(d)
      BY DEF Before
    <2>4. s \in C
      BY <2>1, <2>2, <2>3 DEF Dependents
    <2> QED BY <2>4
  <1> QED BY <1>1, InvariantHolds, PTL

\* A stable failure stays sealed in every step.
THEOREM FailureStaysSealed == Spec => SealedFailure
  <1> DEFINE Sealed(s) ==
        mem.rows[s].status = "FAIL" /\ mem'.rows[s].status # "FAIL" =>
          \/ mem.rows[s].identity # Fingerprint(mem.rows, s, seen)
          \/ \E d \in Before(s) : /\ Admissible(mem.rows[d].status)
                                  /\ ~Admissible(mem'.rows[d].status)
  <1>1. ASSUME LedgerInvariant, [Next]_vars, NEW t \in Stage PROVE Sealed(t)
    <2> SUFFICES ASSUME mem.rows[t].status = "FAIL", mem'.rows[t].status # "FAIL"
                 PROVE  \/ mem.rows[t].identity # Fingerprint(mem.rows, t, seen)
                        \/ \E d \in Before(t) : /\ Admissible(mem.rows[d].status)
                                                /\ ~Admissible(mem'.rows[d].status)
      OBVIOUS
    <2>1. Sound(mem.rows) /\ mem.rows \in [Stage -> Row]
      BY <1>1 DEF LedgerInvariant, Sound
    <2>2. ASSUME NEW S \in SUBSET Stage, mem'.rows = Invalidate(mem.rows, S).rows,
                 \A s \in S : Admissible(mem.rows[s].status)
          PROVE  \E d \in Before(t) : /\ Admissible(mem.rows[d].status)
                                     /\ ~Admissible(mem'.rows[d].status)
      <3>1. PICK d \in S : t \in Dependents(d)
        BY <2>1, <2>2, InvalidateOnly
      <3>2. d # t
        BY <2>2 DEF Admissible
      <3>3. mem'.rows[d] = PendingRow
        BY <2>1, <2>2, InvalidateOnly, DependentsClosed
      <3> QED BY <2>2, <3>1, <3>2, <3>3 DEF Before, Admissible, PendingRow
    <2>3. CASE VerifyPasses
      <3>1. PICK s \in Stage : /\ Admissible(mem.rows[s].status)
                               /\ Write(Invalidate(mem.rows, {s}).rows)
        BY <2>3 DEF VerifyPasses, IsFirst
      <3>2. mem'.rows = Invalidate(mem.rows, {s}).rows
        BY <3>1 DEF Write, Refreshed
      <3> QED BY <2>2, <3>1, <3>2
    <2>4. CASE ResetFailures
      <3>1. PICK s \in Stage : /\ FailureIsStale(mem.rows, s)
                               /\ Write(Invalidate(mem.rows, {s}).rows)
        BY <2>4 DEF ResetFailures, IsFirst
      <3>2. mem'.rows = Invalidate(mem.rows, {s}).rows
        BY <3>1 DEF Write, Refreshed
      <3>3. t \in Dependents(s)
        BY <2>1, <3>2, InvalidateOnly
      <3>4. t = s
        BY <2>1, <3>1, <3>3, NothingRanOnFailure DEF FailureIsStale, Admissible
      <3> QED BY <3>1, <3>4 DEF FailureIsStale
    <2>5. CASE ForceRerun
      <3> DEFINE S == {s \in targets : Admissible(mem.rows[s].status)}
      <3>1. S \subseteq Stage /\ resume \in BOOLEAN
        BY <1>1 DEF LedgerInvariant, TypeOK
      <3>2. mem' = IF resume THEN mem ELSE Invalidate(mem.rows, S)
        BY <2>5 DEF ForceRerun
      <3>3. mem' = Invalidate(mem.rows, S)
        BY <3>1, <3>2
      <3> QED BY <2>2, <3>1, <3>3
    <2>6. CASE StartStage
      <3>1. PICK s \in Stage :
              /\ IsFirst(s, batch)
              /\ Write([mem.rows EXCEPT ![s] =
                  [status |-> "RUNNING", output |-> NoFile, imported |-> FALSE,
                   identity |-> Fingerprint(mem.rows, s, seen)]])
        BY <2>6 DEF StartStage
      <3>2. mem.rows[s].status = "PENDING"
        BY <1>1, <2>6, <3>1
           DEF LedgerInvariant, BatchFits, StartStage, ReadyStages, IsFirst
      <3> QED BY <2>1, <3>1, <3>2 DEF Write, Refreshed
    <2>7. CASE StagePasses \/ StageFails
      <3>1. PICK s, status, output : s \in batch /\ Finish(s, status, output)
        BY <2>7 DEF StagePasses, StageFails
      <3>2. mem'.rows = [mem.rows EXCEPT ![s] =
                          [status |-> status, output |-> output, imported |-> FALSE,
                           identity |-> mem.rows[s].identity]]
        BY <3>1 DEF Finish, Write, Refreshed
      <3>3. mem.rows[s].status = "RUNNING"
        BY <1>1, <3>1 DEF LedgerInvariant, BatchFits, Finish
      <3> QED BY <2>1, <3>2, <3>3
    <2>8. CASE Load \/ Crash
      BY <1>1, <2>8 DEF Load, Crash, LedgerInvariant
    <2>9. CASE mem'.rows = mem.rows
      BY <2>9
    <2>10. TakeBatch \/ FinishExecute \/ AdapterWrites \/ Edit \/ UNCHANGED vars
             => mem'.rows = mem.rows
      BY DEF TakeBatch, FinishExecute, Write, Refreshed, AdapterWrites, Edit, vars
    <2> QED BY <1>1, <2>3, <2>4, <2>5, <2>6, <2>7, <2>8, <2>9, <2>10
         DEF Next, Execute
  <1>2. LedgerInvariant /\ [Next]_vars => [\A s \in Stage : Sealed(s)]_vars
    BY <1>1
  <1> QED BY <1>2, InvariantHolds, PTL DEF Spec, SealedFailure
-----------------------------------------------------------------------------
(* What an execute reports that no death interrupted.                      *)

LEMMA LeastExists ==
  ASSUME NEW T, T \subseteq Nat, T # {}
  PROVE  \E x \in T : \A y \in T : x <= y
  <1> DEFINE R == {ss \in Nat \X Nat : ss[1] < ss[2]}
  <1>1. IsWellFoundedOn(R, Nat)
    BY NatLessThanWellFounded DEF OpToRel
  <1> HIDE DEF R
  <1>2. PICK x \in T : \A y \in T : <<y, x>> \notin R
    BY <1>1, WFMin, Zenon
  <1>3. ASSUME NEW y \in T PROVE x <= y
    <2>1. x \in Nat /\ y \in Nat /\ <<y, x>> \notin R
      BY <1>2
    <2>2. ~(y < x)
      BY <2>1 DEF R
    <2> QED BY <2>1, <2>2
  <1> QED BY <1>3

\* The only row that says RUNNING is that of the adapter at work.
RunningIsAtWork(rows) ==
  \A s \in Stage : rows[s].status = "RUNNING" => pc = "adapter" /\ IsFirst(s, batch)

UninterruptedRun ==
  /\ \A s \in targets : DependsOn[s] \subseteq targets
  /\ pc = "done" => ReadyStages(mem.rows) \cap targets = {}
  /\ crashes = 0 => RunningIsAtWork(mem.rows) /\ RunningIsAtWork(disk.rows)

\* Steps that reopen rows or leave them alone start nothing.
LEMMA NothingStarts ==
  ASSUME LedgerInvariant, UninterruptedRun,
         pc # "adapter", pc' \notin {"adapter", "done"},
         targets' = targets, crashes' = crashes,
         \A s \in Stage : mem'.rows[s].status = "RUNNING" =>
                            mem.rows[s].status = "RUNNING",
         \A s \in Stage : disk'.rows[s].status = "RUNNING" =>
                            \/ disk.rows[s].status = "RUNNING"
                            \/ mem.rows[s].status = "RUNNING"
  PROVE  UninterruptedRun'
  BY DEF UninterruptedRun, RunningIsAtWork

LEMMA InvalidateStarts ==
  ASSUME NEW rows \in [Stage -> Row], NEW S \in SUBSET Stage, NEW s \in Stage,
         Invalidate(rows, S).rows[s].status = "RUNNING"
  PROVE  rows[s].status = "RUNNING"
  BY DEF Invalidate, Refreshed, PendingRow

LEMMA UninterruptedStep ==
  LedgerInvariant /\ UninterruptedRun /\ [Next]_vars => UninterruptedRun'
  <1> SUFFICES ASSUME LedgerInvariant, UninterruptedRun, [Next]_vars
               PROVE  UninterruptedRun'
    OBVIOUS
  <1> USE DEF LedgerInvariant, Sound
  <1>1. CASE Load
    <2>1. \A s \in targets' : DependsOn[s] \subseteq targets'
      BY <1>1, LedgerAssumption DEF Load, Closures
    <2> QED BY <1>1, <2>1 DEF Load, Reading, UninterruptedRun, RunningIsAtWork, world
  <1>2. CASE VerifyPasses \/ ResetFailures
    <2>1. \/ UNCHANGED <<mem, disk>>
          \/ \E s \in Stage : Write(Invalidate(mem.rows, {s}).rows)
      BY <1>2 DEF VerifyPasses, ResetFailures
    <2>2. /\ pc # "adapter" /\ pc' \notin {"adapter", "done"}
          /\ targets' = targets /\ crashes' = crashes
      BY <1>2 DEF VerifyPasses, ResetFailures, world, request
    <2>3. CASE UNCHANGED <<mem, disk>>
      BY <2>2, <2>3, NothingStarts
    <2>4. ASSUME NEW s \in Stage, Write(Invalidate(mem.rows, {s}).rows)
          PROVE  UninterruptedRun'
      <3>1. mem'.rows = Invalidate(mem.rows, {s}).rows /\ disk' = mem'
        BY <2>4 DEF Write, Refreshed
      <3>2. \A t \in Stage : mem'.rows[t].status = "RUNNING" =>
                               mem.rows[t].status = "RUNNING"
        BY <3>1, InvalidateStarts
      <3> QED BY <2>2, <3>1, <3>2, NothingStarts
    <2> QED BY <2>1, <2>3, <2>4
  <1>3. CASE ForceRerun
    <2>1. {s \in targets : Admissible(mem.rows[s].status)} \in SUBSET Stage
      BY DEF TypeOK
    <2>2. \A s \in Stage : mem'.rows[s].status = "RUNNING" => mem.rows[s].status = "RUNNING"
      BY <1>3, <2>1, InvalidateStarts DEF ForceRerun
    <2> QED BY <1>3, <2>2, NothingStarts DEF ForceRerun, world, request
  <1>4. CASE TakeBatch
    BY <1>4, NothingStarts DEF TakeBatch, world, request
  <1>5. CASE StartStage
    <2>1. PICK s \in Stage :
            /\ IsFirst(s, batch)
            /\ Write([mem.rows EXCEPT ![s] =
                       [status |-> "RUNNING", output |-> NoFile, imported |-> FALSE,
                        identity |-> Fingerprint(mem.rows, s, seen)]])
      BY <1>5 DEF StartStage
    <2>2. /\ pc = "run" /\ pc' = "adapter"
          /\ UNCHANGED <<batch, world, request>>
      BY <1>5 DEF StartStage
    <2>3. \A t \in Stage : mem'.rows[t].status = "RUNNING" =>
                             t = s \/ mem.rows[t].status = "RUNNING"
      BY <2>1 DEF Write, Refreshed
    <2> QED BY <2>1, <2>2, <2>3
            DEF UninterruptedRun, RunningIsAtWork, Write, world, request, IsFirst
  <1>6. CASE StagePasses \/ StageFails
    <2>1. PICK s, status, output :
            /\ s \in batch /\ status # "RUNNING"
            /\ Finish(s, status, output)
      BY <1>6 DEF StagePasses, StageFails, Normalized, Reported
    <2>2. /\ pc = "adapter" /\ pc' \in {"loop", "run"} /\ IsFirst(s, batch)
          /\ UNCHANGED <<world, request>>
      BY <2>1 DEF Finish
    <2>3. \A t \in Stage : mem'.rows[t].status = "RUNNING" =>
                             t # s /\ mem.rows[t].status = "RUNNING"
      BY <2>1 DEF Finish, Write, Refreshed, TypeOK
    <2>4. \A t \in Stage : IsFirst(t, batch) => t = s
      <3> SUFFICES ASSUME NEW t \in Stage, IsFirst(t, batch) PROVE t = s
        OBVIOUS
      <3>1. t \in batch /\ s \in batch /\ t <= s /\ s <= t
        BY <2>2 DEF IsFirst
      <3>2. s \in Stage
        BY <3>1 DEF TypeOK
      <3>3. s \in Int /\ t \in Int
        BY <3>2, LedgerAssumption DEF Stage
      <3> QED BY <3>1, <3>3
    <2>5. disk' = mem'
      BY <2>1 DEF Finish, Write
    <2> QED BY <2>2, <2>3, <2>4, <2>5 DEF UninterruptedRun, RunningIsAtWork, world, request
  <1>7. CASE FinishExecute
    BY <1>7 DEF FinishExecute, UninterruptedRun, RunningIsAtWork, Write, Refreshed,
                world, request
  <1>8. CASE AdapterWrites
    BY <1>8 DEF AdapterWrites, UninterruptedRun, RunningIsAtWork, request, IsFirst
  <1>9. CASE Crash
    BY <1>9, LedgerAssumption DEF Crash, UninterruptedRun, request, TypeOK
  <1>10. CASE Edit
    BY <1>10 DEF Edit, UninterruptedRun, RunningIsAtWork, request, IsFirst
  <1>11. CASE UNCHANGED vars
    BY <1>11 DEF vars, UninterruptedRun, RunningIsAtWork, IsFirst
  <1> QED BY <1>1, <1>2, <1>3, <1>4, <1>5, <1>6, <1>7, <1>8, <1>9, <1>10, <1>11
          DEF Next, Execute

\* As long as no process died, an execute of any plan that reports success
\* has every target pass: a target that does not pass either failed, or waits
\* behind a first one that failed.
THEOREM SuccessComplete == Spec => []SuccessUnlessCrashed
  <1>1. Init => UninterruptedRun
    <2> SUFFICES ASSUME Init PROVE UninterruptedRun
      OBVIOUS
    <2>1. \A s \in Stage : mem.rows[s].status # "RUNNING"
      BY DEF Init, Refreshed, PendingRow
    <2> QED BY <2>1 DEF Init, UninterruptedRun, RunningIsAtWork
  <1>2. LedgerInvariant /\ UninterruptedRun => SuccessUnlessCrashed
    <2> SUFFICES ASSUME LedgerInvariant, UninterruptedRun,
                        crashes = 0, pc = "done", ExitCode = 0
                 PROVE  \A s \in targets : Admissible(mem.rows[s].status)
      BY DEF SuccessUnlessCrashed, SuccessIsComplete
    <2> DEFINE T == {s \in targets : ~Admissible(mem.rows[s].status)}
    <2>1. SUFFICES ASSUME T # {} PROVE FALSE
      OBVIOUS
    <2>2. targets \subseteq Stage
      BY DEF LedgerInvariant, TypeOK
    <2>3. PICK s \in T : \A t \in T : s <= t
      <3>1. Stage \subseteq Nat
        BY LedgerAssumption DEF Stage
      <3>2. T \subseteq Nat
        BY <2>2, <3>1
      <3> HIDE DEF T
      <3> QED BY <2>1, <3>2, LeastExists
    <2>4. mem.rows[s].status = "PENDING"
      <3>1. mem.rows[s].status # "FAIL"
        BY DEF ExitCode
      <3>2. mem.rows[s].status # "RUNNING"
        BY <2>2 DEF UninterruptedRun, RunningIsAtWork
      <3>3. mem.rows[s].status # "PASS_DEMO_ONLY"
        BY <2>2 DEF LedgerInvariant, Sound, Taint, Admissible
      <3>4. mem.rows[s].status \in Status
        BY <2>2 DEF LedgerInvariant, Sound, Row
      <3> QED BY <3>1, <3>2, <3>3, <3>4 DEF Status, Admissible
    <2>5. DependenciesPass(mem.rows, s)
      <3>1. ASSUME NEW d \in DependsOn[s] PROVE Admissible(mem.rows[d].status)
        <4>1. d \in targets /\ d \in 1 .. (s - 1) /\ s \in Nat
          BY <2>2, LedgerAssumption DEF UninterruptedRun, Stage
        <4>2. d \notin T
          BY <2>3, <4>1
        <4> QED BY <4>1, <4>2
      <3> QED BY <3>1 DEF DependenciesPass
    <2> QED BY <2>2, <2>4, <2>5 DEF ReadyStages, UninterruptedRun
  <1> QED BY <1>1, <1>2, UninterruptedStep, InvariantHolds, PTL DEF Spec

-----------------------------------------------------------------------------
(* What the scan of old passes has verified, although it ends at the first *)
(* stale one.                                                              *)

\* What survives an invalidation has its dependencies survive: to the
\* survivor the new rows look like the old ones.
LEMMA SurvivorsStand ==
  ASSUME NEW rows, Sound(rows), NEW S \in SUBSET Stage, NEW s \in Stage,
         Admissible(Invalidate(rows, S).rows[s].status)
  PROVE  /\ Invalidate(rows, S).rows[s] = rows[s]
         /\ \A d \in DependsOn[s] : Invalidate(rows, S).rows[d] = rows[d]
         /\ StillValid(Invalidate(rows, S).rows, s) <=> StillValid(rows, s)
  <1> DEFINE new == Invalidate(rows, S).rows
  <1>1. \A t \in Stage : new[t] = IF \E u \in S : t \in Dependents(u)
                                  THEN PendingRow ELSE rows[t]
    BY InvalidateOnly
  <1>2. ~\E u \in S : s \in Dependents(u)
    BY <1>1 DEF Admissible, PendingRow
  <1>3. ASSUME NEW d \in DependsOn[s] PROVE new[d] = rows[d]
    <2>1. d \in Stage
      BY LedgerAssumption
    <2>2. ~\E u \in S : d \in Dependents(u)
      BY <1>2, <2>1, DependentsClosed
    <2> QED BY <1>1, <2>1, <2>2
  <1>4. new[s] = rows[s]
    BY <1>1, <1>2
  <1> HIDE DEF new
  <1>5. Fingerprint(new, s, seen) = Fingerprint(rows, s, seen)
    BY <1>3 DEF Fingerprint
  <1>6. StillValid(new, s) <=> StillValid(rows, s)
    BY <1>4, <1>5 DEF StillValid, ImportedPassVerifies, OutputsVerify
  <1> QED BY <1>3, <1>4, <1>6 DEF new

\* _verify_existing_passes keeps no pass it has not verified, except behind a
\* stage it reopens in the same scan: an execute that reopens nothing there
\* builds on passes of the present code, manifest and files only, and what it
\* reopens is what ReuseIsVerified misses.
KeptAreVerified ==
  VerifyPasses => \A s \in Stage :
    Admissible(mem'.rows[s].status) =>
      \/ StillValid(mem'.rows, s)
      \/ \E t \in Stage : /\ t < s
                         /\ Admissible(mem.rows[t].status)
                         /\ mem'.rows[t].status = "PENDING"

THEOREM ReuseVerifiedUpToFirstStale == Spec => [][KeptAreVerified]_vars
  <1>1. ASSUME LedgerInvariant, VerifyPasses, NEW s \in Stage,
               Admissible(mem'.rows[s].status), ~StillValid(mem'.rows, s)
        PROVE  \E t \in Stage : /\ t < s
                                /\ Admissible(mem.rows[t].status)
                                /\ mem'.rows[t].status = "PENDING"
    <2> DEFINE stale == {t \in Stage : /\ Admissible(mem.rows[t].status)
                                      /\ ~StillValid(mem.rows, t)}
    <2>1. Sound(mem.rows)
      BY <1>1 DEF LedgerInvariant
    <2>2. stale # {}
      BY <1>1 DEF VerifyPasses
    <2>3. PICK t \in Stage : /\ IsFirst(t, stale)
                            /\ Write(Invalidate(mem.rows, {t}).rows)
      BY <1>1, <2>2 DEF VerifyPasses
    <2>4. mem'.rows = Invalidate(mem.rows, {t}).rows
      BY <2>3 DEF Write, Refreshed
    <2>5. mem'.rows[t] = PendingRow
      BY <2>1, <2>4, InvalidateOnly, DependentsClosed
    <2>6. s \in stale
      BY <1>1, <2>1, <2>4, SurvivorsStand
    <2>7. s # t
      BY <1>1, <2>5 DEF Admissible, PendingRow
    <2>8. t <= s /\ Admissible(mem.rows[t].status)
      BY <2>3, <2>6 DEF IsFirst
    <2>9. s \in Int /\ t \in Int
      BY LedgerAssumption DEF Stage
    <2> QED BY <2>5, <2>7, <2>8, <2>9 DEF PendingRow
  <1>2. LedgerInvariant /\ [Next]_vars => [KeptAreVerified]_vars
    BY <1>1 DEF KeptAreVerified
  <1> QED BY <1>2, InvariantHolds, PTL DEF Spec

-----------------------------------------------------------------------------
(* EngineLedger implements Build.                                          *)

\* What passes in memory is on disk, though not the other way round:
\* --no-resume reopens in memory only.  While an adapter runs they agree.
MemoryIsKept ==
  /\ \A s \in Stage : Admissible(mem.rows[s].status) => mem.rows[s] = disk.rows[s]
  /\ pc = "adapter" => mem = disk

LEMMA MemoryStep ==
  LedgerInvariant /\ MemoryIsKept /\ [Next]_vars => MemoryIsKept'
  <1> SUFFICES ASSUME LedgerInvariant, MemoryIsKept, [Next]_vars
               PROVE  MemoryIsKept'
    OBVIOUS
  <1>1. CASE mem' = disk'
    BY <1>1 DEF MemoryIsKept
  <1>2. CASE /\ UNCHANGED <<mem, disk>>
             /\ pc' = "adapter" => pc = "adapter"
    BY <1>2 DEF MemoryIsKept
  <1>3. CASE ForceRerun
    <2> DEFINE S == {s \in targets : Admissible(mem.rows[s].status)}
    <2>1. S \in SUBSET Stage /\ resume \in BOOLEAN
      BY DEF LedgerInvariant, TypeOK
    <2>2. /\ mem' = IF resume THEN mem ELSE Invalidate(mem.rows, S)
          /\ disk' = disk /\ pc' = "loop"
      BY <1>3 DEF ForceRerun
    <2> HIDE DEF S
    <2>3. ASSUME NEW s \in Stage, Admissible(mem'.rows[s].status)
          PROVE  mem'.rows[s] = mem.rows[s]
      <3>1. CASE mem' = mem
        BY <3>1
      <3>2. CASE mem' = Invalidate(mem.rows, S)
        BY <2>1, <2>3, <3>2, SurvivorsStand DEF LedgerInvariant
      <3> QED BY <2>1, <2>2, <3>1, <3>2
    <2> QED BY <2>2, <2>3 DEF MemoryIsKept
  <1>4. Load \/ StartStage \/ StagePasses \/ StageFails \/ FinishExecute \/ Crash
          => mem' = disk'
    BY DEF Load, StartStage, StagePasses, StageFails, Finish, FinishExecute, Crash, Write
  <1>5. VerifyPasses \/ ResetFailures =>
          \/ mem' = disk'
          \/ UNCHANGED <<mem, disk>> /\ pc' # "adapter"
    BY DEF VerifyPasses, ResetFailures, Write
  <1>6. TakeBatch \/ AdapterWrites \/ Edit \/ UNCHANGED vars =>
          UNCHANGED <<mem, disk>> /\ (pc' = "adapter" => pc = "adapter")
    BY DEF TakeBatch, AdapterWrites, Edit, vars
  <1> QED BY <1>1, <1>2, <1>3, <1>4, <1>5, <1>6 DEF Next, Execute

LEMMA MemoryHolds == Spec => [](LedgerInvariant /\ MemoryIsKept)
  <1>1. Init => MemoryIsKept
    BY DEF Init, MemoryIsKept
  <1> QED BY <1>1, MemoryStep, InvariantHolds, PTL DEF Spec

Results == [s \in Passing |-> Result(s)]

\* A write that makes no row pass throws results away, whichever rows they
\* are: what is left stands on what is left.
LEMMA WriteReopens ==
  ASSUME LedgerInvariant',
         \A s \in Passing' : disk'.rows[s] = disk.rows[s]
  PROVE  Contract!Reopen
  <1>1. Passing' \subseteq Passing
    BY DEF Passing
  <1>2. \A s \in Passing' : Result(s)' = Result(s)
    BY DEF Result
  <1>3. \A s \in Passing' : DependsOn[s] \subseteq Passing'
    <2> SUFFICES ASSUME NEW s \in Passing', NEW d \in DependsOn[s]
                 PROVE  d \in Passing'
      OBVIOUS
    <2>1. s \in Stage /\ Admissible(disk'.rows[s].status)
      BY DEF Passing
    <2>2. d \in Stage
      BY <2>1, LedgerAssumption
    <2>3. disk'.rows[s].status # "PENDING"
      BY <2>1 DEF Admissible
    <2>4. DependenciesPass(disk'.rows, s)
      BY <2>1, <2>3 DEF LedgerInvariant, Sound, CurrentLineage
    <2> QED BY <2>2, <2>4 DEF DependenciesPass, Passing
  <1>4. Results' = [s \in Passing' |-> Results[s]]
    BY <1>1, <1>2 DEF Results
  <1>5. DOMAIN Results = Passing
    BY DEF Results
  <1> QED BY <1>1, <1>3, <1>4, <1>5 DEF Contract!Reopen, Results

\* The row of a stage that ran names the outputs of its dependencies, so its
\* result is made of theirs.
LEMMA FinishMakes ==
  ASSUME LedgerInvariant, LedgerInvariant', MemoryIsKept,
         NEW s \in Stage, NEW status, NEW output,
         Finish(s, status, output), Admissible(status)
  PROVE  Contract!Make(s)
  <1>1. /\ mem = disk /\ disk.rows \in [Stage -> Row]
        /\ disk.rows[s].status = "RUNNING"
    BY DEF Finish, MemoryIsKept, LedgerInvariant, Sound, BatchFits, IsFirst
  <1>2. disk'.rows = [disk.rows EXCEPT ![s] =
                       [status |-> status, output |-> output, imported |-> FALSE,
                        identity |-> disk.rows[s].identity]]
    BY <1>1 DEF Finish, Write, Refreshed
  <1>3. s \notin Passing /\ Passing' = Passing \cup {s}
    BY <1>1, <1>2 DEF Passing, Admissible
  <1>4. \A t \in Passing : Result(t)' = Result(t)
    BY <1>1, <1>2, <1>3 DEF Result, Passing
  <1>5. /\ DependenciesPass(disk.rows, s)
        /\ \A d \in DependsOn[s] : disk.rows[s].identity.inputs[d] = disk.rows[d].output
    BY <1>1 DEF LedgerInvariant, Sound, CurrentLineage, Row
  <1>6. \A d \in DependsOn[s] : d \in Stage
    BY LedgerAssumption
  <1>7. DependsOn[s] \subseteq Passing
    BY <1>5, <1>6 DEF DependenciesPass, Passing
  <1>8. output \in Content
    <2>1. disk'.rows[s] \in Row /\ disk'.rows[s].status = status
          /\ disk'.rows[s].output = output
      BY <1>1, <1>2 DEF LedgerInvariant, Sound
    <2> QED BY <2>1 DEF Row, Admissible, File
  <1> DEFINE demo == status = "PASS_DEMO_ONLY"
  <1>9. \A d \in DependsOn[s] : Result(d).demo => demo
    <2> SUFFICES ASSUME NEW d \in DependsOn[s], Result(d).demo, ~demo PROVE FALSE
      OBVIOUS
    <2>1. d \in Stage /\ d # s /\ disk.rows[d].status = "PASS_DEMO_ONLY"
      BY <1>6, NoSelfDependency DEF Result
    <2>2. disk'.rows[d].status = "PASS_DEMO_ONLY" /\ disk'.rows[s].status = "PASS"
      BY <1>1, <1>2, <2>1 DEF Admissible
    <2> QED BY <2>2 DEF LedgerInvariant, Sound, Taint
  <1>10. Result(s)' = [output |-> output, demo |-> demo,
                       from |-> [d \in DependsOn[s] |-> disk.rows[d].output]]
    BY <1>1, <1>2, <1>5 DEF Result
  <1>11. /\ DOMAIN Results = Passing
         /\ \A d \in Passing : /\ Results[d] = Result(d)
                               /\ Results[d].output = disk.rows[d].output
    BY DEF Results, Result
  <1>12. Results' =
           [t \in DOMAIN Results \cup {s} |->
              IF t = s
              THEN [output |-> output, demo |-> demo,
                    from |-> [d \in DependsOn[s] |-> Results[d].output]]
              ELSE Results[t]]
    <2>1. [d \in DependsOn[s] |-> disk.rows[d].output]
            = [d \in DependsOn[s] |-> Results[d].output]
      BY <1>7, <1>11
    <2>2. Results' = [t \in Passing \cup {s} |-> Result(t)']
      BY <1>3 DEF Results
    <2>3. \A t \in Passing : t # s
      BY <1>3
    <2> QED BY <1>4, <1>10, <1>11, <2>1, <2>2, <2>3
  <1>13. demo \in BOOLEAN
    OBVIOUS
  <1>14. \A d \in DependsOn[s] : Results[d].demo => demo
    BY <1>7, <1>9, <1>11
  <1> HIDE DEF demo
  <1> QED BY <1>3, <1>7, <1>8, <1>11, <1>12, <1>13, <1>14 DEF Contract!Make, Results

LEMMA BuildStep ==
  LedgerInvariant /\ LedgerInvariant' /\ MemoryIsKept /\ [Next]_vars
    => [Contract!Next]_Results
  <1> SUFFICES ASSUME LedgerInvariant, LedgerInvariant', MemoryIsKept, [Next]_vars
               PROVE  Contract!Next \/ UNCHANGED Results
    OBVIOUS
  <1>1. ASSUME NEW rows, Write(rows),
               \A s \in Stage : Admissible(rows[s].status) => rows[s] = mem.rows[s]
        PROVE  Contract!Next
    <2>1. disk'.rows = rows
      BY <1>1 DEF Write, Refreshed
    <2>2. \A s \in Passing' : disk'.rows[s] = disk.rows[s]
      BY <1>1, <2>1 DEF Passing, MemoryIsKept
    <2> QED BY <2>2, WriteReopens DEF Contract!Next
  <1>2. CASE VerifyPasses \/ ResetFailures
    <2>1. \/ UNCHANGED disk
          \/ \E s \in Stage : Write(Invalidate(mem.rows, {s}).rows)
      BY <1>2 DEF VerifyPasses, ResetFailures
    <2>2. ASSUME NEW s \in Stage, Write(Invalidate(mem.rows, {s}).rows)
          PROVE  Contract!Next
      <3>1. \A t \in Stage : Admissible(Invalidate(mem.rows, {s}).rows[t].status)
                               => Invalidate(mem.rows, {s}).rows[t] = mem.rows[t]
        BY SurvivorsStand DEF LedgerInvariant
      <3> QED BY <1>1, <2>2, <3>1
    <2> QED BY <2>1, <2>2 DEF Results, Passing, Result
  <1>3. CASE StartStage
    <2>1. PICK s \in Stage :
            Write([mem.rows EXCEPT ![s] =
                    [status |-> "RUNNING", output |-> NoFile, imported |-> FALSE,
                     identity |-> Fingerprint(mem.rows, s, seen)]])
      BY <1>3 DEF StartStage
    <2> QED BY <1>1, <2>1 DEF LedgerInvariant, Sound, Admissible
  <1>4. CASE StagePasses
    <2>1. PICK s \in batch, reported \in Reported :
            Finish(s, Normalized(mem.rows, s, reported), files[s])
      BY <1>4 DEF StagePasses
    <2>2. s \in Stage
      BY DEF LedgerInvariant, TypeOK
    <2>3. Admissible(Normalized(mem.rows, s, reported))
      BY DEF Normalized, Reported, Admissible
    <2> QED BY <2>1, <2>2, <2>3, FinishMakes DEF Contract!Next
  <1>5. CASE StageFails
    <2>1. PICK s \in batch : Finish(s, "FAIL", NoFile)
      BY <1>5 DEF StageFails
    <2>2. Write([mem.rows EXCEPT ![s] =
                  [status |-> "FAIL", output |-> NoFile, imported |-> FALSE,
                   identity |-> mem.rows[s].identity]])
      BY <2>1 DEF Finish
    <2> QED BY <1>1, <2>2 DEF LedgerInvariant, Sound, Admissible
  <1>6. CASE FinishExecute
    BY <1>1, <1>6 DEF FinishExecute
  <1>7. CASE UNCHANGED disk
    BY <1>7 DEF Results, Passing, Result
  <1>8. Load \/ ForceRerun \/ TakeBatch \/ AdapterWrites \/ Crash \/ Edit
          \/ UNCHANGED vars => UNCHANGED disk
    BY DEF Load, ForceRerun, TakeBatch, AdapterWrites, Crash, Edit, vars
  <1> QED BY <1>2, <1>3, <1>4, <1>5, <1>6, <1>7, <1>8 DEF Next, Execute

\* For any plan, whatever is edited or damaged and wherever the process dies,
\* the passes on disk are an incremental build.
THEOREM LedgerImplementsBuild == Spec => ImplementsBuild
  <1>1. Init => Contract!Init
    <2> SUFFICES ASSUME Init PROVE Contract!Init
      OBVIOUS
    <2>1. PICK c \in Content :
            disk = Refreshed([s \in Stage |->
                     IF s \in Imported
                     THEN [status |-> "PASS_DEMO_ONLY", output |-> c,
                           identity |-> ImportFingerprint(s, code), imported |-> TRUE]
                     ELSE PendingRow])
      BY DEF Init
    <2>2. disk.rows = [s \in Stage |->
                     IF s \in Imported
                     THEN [status |-> "PASS_DEMO_ONLY", output |-> c,
                           identity |-> ImportFingerprint(s, code), imported |-> TRUE]
                     ELSE PendingRow]
      BY <2>1 DEF Refreshed
    <2>3. Passing = Imported
      BY <2>2, LedgerAssumption DEF Passing, Admissible, PendingRow
    <2>4. \A s \in Imported : Result(s) = [output |-> c, demo |-> TRUE,
                                           from |-> [d \in {} |-> c]]
      <3> SUFFICES ASSUME NEW s \in Imported
                   PROVE  Result(s) = [output |-> c, demo |-> TRUE,
                                       from |-> [d \in {} |-> c]]
        OBVIOUS
      <3>1. /\ disk.rows[s].output = c /\ disk.rows[s].imported
            /\ disk.rows[s].status = "PASS_DEMO_ONLY"
        BY <2>2, LedgerAssumption
      <3>2. [d \in IF disk.rows[s].imported THEN {} ELSE DependsOn[s] |->
                disk.rows[s].identity.inputs[d]] = [d \in {} |-> c]
        BY <3>1
      <3> QED BY <3>1, <3>2 DEF Result
    <2> QED BY <2>3, <2>4 DEF Contract!Init
  <1>2. LedgerInvariant /\ LedgerInvariant' /\ MemoryIsKept /\ [Next]_vars
          => [Contract!Next]_[s \in Passing |-> Result(s)]
    BY BuildStep DEF Results
  <1> QED BY <1>1, <1>2, MemoryHolds, PTL DEF Spec, ImplementsBuild, Contract!Spec
=============================================================================

--------------------------- MODULE CohortProofs ---------------------------
(***************************************************************************)
(* Training that is killed and resumed goes where uninterrupted training   *)
(* goes, for any schedule of stages, scores, checkpoint intervals, stops   *)
(* and faults.                                                             *)
(***************************************************************************)
EXTENDS CohortTraining, TLAPS

-----------------------------------------------------------------------------
(* The inductive invariant.                                                *)

\* No evaluated model of stage s beats the candidate.
Unbeaten(sc, m, candidate, s) ==
    /\ candidate # None => candidate.stage = s
    /\ \A j \in DOMAIN m.evaluations :
          m.evaluations[j].stage = s =>
             candidate # None /\ ~Better(sc, m.evaluations[j], candidate)

\* What holds of a trainer's fields at any time.
Sound(sc, m) ==
    /\ m.step = Prefix[m.stage_index] + m.stage_step
    /\ m.stage_step <= Steps[m.stage_index]
    /\ \A j \in DOMAIN m.evaluations : m.evaluations[j].stage <= m.stage_index
    /\ Unbeaten(sc, m, m.stage_best, m.stage_index)
    /\ Len(m.completed_stages) <= m.stage_index
    /\ \A i \in DOMAIN m.completed_stages : Unbeaten(sc, m, m.completed_stages[i], i)

Begun(m) == Len(m.completed_stages) = m.stage_index - 1

\* Each stage's last model is evaluated.
JustEvaluated(m) ==
    /\ m.evaluations # <<>> /\ m.evaluations[Len(m.evaluations)].step = m.step
    /\ m.stage_best # None

Closed(m) ==
    /\ m.stage_index = Len(Steps) /\ Len(m.completed_stages) = Len(Steps)
    /\ StageFinished(m) /\ JustEvaluated(m)
    /\ m.final_best = m.stage_best

\* The fields between two updates.
Settled(sc, m) ==
    /\ m = Uninterrupted[sc][m.step]
    /\ Sound(sc, m)
    /\ (Begun(m) /\ ~StageFinished(m)) \/ Closed(m)

\* The fields within one.
Unsettled(sc, m, t) ==
    /\ m.step > 0 /\ Sound(sc, m) /\ Begun(m)
    /\ LET updated == EmitLogWindow(OneStep(Uninterrupted[sc][m.step - 1]))
       IN  IF t = <<"evaluate">> THEN m = updated
           ELSE m = Evaluated(sc, updated) /\ StageFinished(m) /\ JustEvaluated(m)

MemoryInv ==
    /\ mem # None =>
          IF todo \in Seq(Writes) THEN Settled(score, mem) ELSE Unsettled(score, mem, todo)
    /\ \A f \in DOMAIN files : files[f] # None => Settled(score, files[f])

\* The order of the writes of one save and of one export.
Follows(a, b) ==
    /\ b = "previous" <=> a = "copy"
    /\ b = "publish" <=> a = "previous"
    /\ b = "clean" => a = "publish"
    /\ b = "result" => a = "selected"
    /\ b = "mirror" => a = "result"
    /\ b = "return" => a = "mirror"

Ordered(writes) ==
    /\ writes # <<>> => writes[Len(writes)] \notin {"copy", "previous"}
    /\ \A i \in 1..(Len(writes) - 1) : Follows(writes[i], writes[i + 1])

At(writes) == todo # <<>> /\ Head(todo) \in writes

\* The file being saved is whole; the one being published is the memory's.
SaveInv ==
    /\ LatestLoads
    /\ At({"previous", "publish", "clean"}) =>
          /\ name \in DOMAIN files /\ files[name] # None
          /\ files[name].step = mem.step
    /\ At({"clean"}) => latest # None /\ latest.file = name

\* A trainer is never behind the pointer, and writes results only of what
\* the pointer has.
CommitInv ==
    mem # None =>
        /\ latest # None => latest.step <= mem.step
        /\ mem.step = Total /\ todo \in Seq(Writes) /\ ~At({"copy", "previous", "publish"}) =>
              latest # None /\ latest.step = Total

\* The results of a finished run.
Final(m) ==
    [complete |-> TRUE, steps |-> Total, stages |-> [s \in Stages |-> s],
     evaluated |-> [i \in DOMAIN m.evaluations |-> m.evaluations[i].step],
     selected |-> m.final_best]

Last(sc) == Uninterrupted[sc][Total]

Holds(sc, directory, file) ==
    /\ file \in DOMAIN directory
    /\ directory[file] = IF file = "selected" THEN Last(sc).final_best ELSE Final(Last(sc))

ExportInv ==
    mem # None =>
        /\ At({"result"}) /\ Selected # None => "selected" \in DOMAIN out
        /\ mem.step = Total =>
              /\ At({"result", "mirror"}) => Holds(score, out, "selected")
              /\ At({"mirror"}) => Holds(score, out, "result")
              /\ At({"mirror"}) => \A f \in mirrored : Holds(score, kept, f)
              /\ At({"return"}) => Holds(score, kept, "selected") /\ Holds(score, kept, "result")

ReturnInv ==
    returned =>
        /\ Holds(score, kept, "selected") /\ Holds(score, kept, "result")
        /\ latest # None /\ latest.step = Total

TodoInv ==
    /\ todo # <<>> \/ end > 0 => mem # None
    /\ Ordered(todo) /\ (mirrored # {} => At({"mirror"}))

IInv == TodoInv /\ MemoryInv /\ SaveInv /\ CommitInv /\ ExportInv /\ ReturnInv

Fields == {"step", "stage_index", "stage_step", "lineage_start", "stage_best",
           "final_best", "completed_stages", "evaluations"}

\* What Sound and its companions read of a memory.
Same(m, n) == \A f \in Fields : n[f] = m[f]

-----------------------------------------------------------------------------
(* The operators on memories keep their types.                             *)

LEMMA StagesBounded ==
  /\ Len(Steps) \in Nat \ {0} /\ Stages = 1..Len(Steps)
  /\ \A s \in Stages : /\ Steps[s] \in Nat \ {0}
                       /\ Prefix[s] \in 0..Total /\ Prefix[s + 1] \in 0..Total
                       /\ Prefix[s + 1] = Prefix[s] + Steps[s]
  BY CohortAssumption DEF Stages, Positive

LEMMA FreshType == Fresh \in Memories
  <1>1. 1 \in Stages /\ <<0, 0>> \in Keys
    BY StagesBounded, CohortAssumption DEF Keys
  <1> QED BY <1>1, CohortAssumption DEF Fresh, Memories

LEMMA UpdateType ==
  ASSUME NEW m \in Memories, m.step < Total,
         m.step = Prefix[m.stage_index] + m.stage_step
  PROVE  Update(m) \in Updates
  <1>1. m.stage_index \in Stages /\ m.stage_step \in Nat
    BY DEF Memories
  <1>2. Prefix[m.stage_index] \in Nat /\ m.step \in Nat /\ Total \in Nat
    BY <1>1, StagesBounded, CohortAssumption DEF Memories
  <1>3. m.stage_step + 1 \in 1..Total
    BY <1>1, <1>2
  <1> QED BY <1>1, <1>3, CohortAssumption DEF Update, Updates, Memories

LEMMA OneStepType ==
  ASSUME NEW m \in Memories, m.step < Total,
         m.step = Prefix[m.stage_index] + m.stage_step
  PROVE  /\ OneStep(m) \in Memories
         /\ OneStep(m).step = m.step + 1
         /\ OneStep(m).stage_step = m.stage_step + 1
         /\ \A f \in Fields \ {"step", "stage_step"} : OneStep(m)[f] = m[f]
  <1>1. Update(m) \in Updates
    BY UpdateType
  <1>2. m.step + 1 \in 0..Total
    <2>1. Total \in Nat
      BY CohortAssumption
    <2>2. m.step \in 0..Total
      BY DEF Memories
    <2> QED BY <2>1, <2>2
  <1>3. Append(m.model, Update(m)) \in Seq(Updates)
    BY <1>1 DEF Memories
  <1>4. OneStep(m) \in Memories
    <2> DEFINE rng == IF Stateful[m.stage_index] THEN m.direct_rng + 1 ELSE m.direct_rng
    <2>1. rng \in Nat
      BY DEF Memories
    <2> HIDE DEF rng
    <2> DEFINE n == [m EXCEPT !.step = m.step + 1, !.stage_step = m.stage_step + 1,
                              !.log_window = m.log_window + 1]
    <2>2. n \in Memories
      <3>1. m.stage_step + 1 \in Nat /\ m.log_window + 1 \in Nat
        BY DEF Memories
      <3> QED BY <1>2, <3>1 DEF Memories
    <2> DEFINE model == Append(m.model, Update(m))
    <2>3. model \in Seq(Updates) /\ m.optimizer + 1 \in Nat
      BY <1>3 DEF Memories
    <2>4. OneStep(m) = [n EXCEPT !.optimizer = m.optimizer + 1, !.model = model, !.direct_rng = rng]
      BY DEF OneStep, Memories, rng
    <2> HIDE DEF model, n
    <2> QED BY <2>1, <2>2, <2>3, <2>4 DEF Memories
  <1> QED BY <1>4 DEF OneStep, Memories, Fields

LEMMA EmitType ==
  ASSUME NEW m \in Memories
  PROVE  EmitLogWindow(m) \in Memories /\ Same(m, EmitLogWindow(m))
  <1>1. Append(m.trace, <<m.step, m.log_window>>) \in Seq(Nat \X Nat)
    BY CohortAssumption DEF Memories
  <1> QED BY <1>1 DEF EmitLogWindow, Memories, Same, Fields

LEMMA KeyType ==
  ASSUME NEW model \in Seq(Updates)
  PROVE  KeyOf(model) \in Keys
  <1>1. CASE model = <<>>
    BY <1>1, StagesBounded, CohortAssumption DEF KeyOf, Keys
  <1>2. CASE model # <<>>
    <2>1. model[Len(model)] \in Updates
      BY <1>2
    <2>2. /\ model[Len(model)].stage \in 0..Len(Steps)
          /\ model[Len(model)].stage_step \in 0..Total
      <3>1. model[Len(model)].stage \in Stages /\ model[Len(model)].stage_step \in 1..Total
        BY <2>1 DEF Updates
      <3>2. Stages \subseteq 0..Len(Steps) /\ 1..Total \subseteq 0..Total
        BY StagesBounded, CohortAssumption
      <3> QED BY <3>1, <3>2
    <2> QED BY <1>2, <2>2 DEF KeyOf, Keys
  <1> QED BY <1>1, <1>2

LEMMA CandidateType ==
  ASSUME NEW m \in Memories
  PROVE  /\ Candidate(m) \in Candidates /\ Candidate(m) # None
         /\ Candidate(m).stage = m.stage_index /\ Candidate(m).step = m.step
  <1>1. Candidate(m) \in Candidates
    BY CohortAssumption DEF Candidate, Candidates, Memories
  <1> QED BY <1>1, NoneAssumption DEF Candidate

LEMMA EvaluateType ==
  ASSUME NEW m \in Memories, NEW sc
  PROVE  /\ Evaluate(sc, m) \in Memories
         /\ \A f \in Fields \ {"stage_best", "evaluations"} : Evaluate(sc, m)[f] = m[f]
         /\ Evaluate(sc, m).evaluations = Append(m.evaluations, Candidate(m))
         /\ Evaluate(sc, m).stage_best =
              IF m.stage_best = None \/ Better(sc, Candidate(m), m.stage_best)
              THEN Candidate(m) ELSE m.stage_best
  <1>1. Append(m.evaluations, Candidate(m)) \in Seq(Candidates)
    BY CandidateType DEF Memories
  <1>2. (IF m.stage_best = None \/ Better(sc, Candidate(m), m.stage_best)
         THEN Candidate(m) ELSE m.stage_best) \in Candidates \cup {None}
    BY CandidateType DEF Memories
  <1> QED BY <1>1, <1>2 DEF Evaluate, Memories, Fields

LEMMA RankType ==
  ASSUME NEW m \in Memories, NEW mode
  PROVE  RankReplay(m, mode) \in Memories /\ Same(m, RankReplay(m, mode))
  <1>1. KeyOf(m.model) \in Keys
    BY KeyType DEF Memories
  <1> QED BY <1>1 DEF RankReplay, Memories, Same, Fields

-----------------------------------------------------------------------------
(* Selection.                                                              *)

LEMMA BetterOrders ==
  ASSUME NEW sc \in Scores, NEW a \in Candidates, NEW b \in Candidates, NEW c \in Candidates
  PROVE  /\ ~Better(sc, a, a)
         /\ ~Better(sc, a, b) /\ Better(sc, c, b) => ~Better(sc, a, c)
  <1>1. \A x \in Candidates : sc[KeyOf(x.model)] \in Int /\ x.effective_step \in Nat
    <2> SUFFICES ASSUME NEW x \in Candidates
                 PROVE  sc[KeyOf(x.model)] \in Int /\ x.effective_step \in Nat
      OBVIOUS
    <2>1. KeyOf(x.model) \in Keys
      BY KeyType DEF Candidates
    <2> QED BY <2>1, CohortAssumption DEF Candidates
  <1> QED BY <1>1 DEF Better

LEMMA SameState ==
  ASSUME NEW m, NEW n, Same(m, n), NEW sc
  PROVE  /\ Sound(sc, m) => Sound(sc, n)
         /\ Begun(m) => Begun(n)
         /\ StageFinished(m) <=> StageFinished(n)
         /\ JustEvaluated(m) => JustEvaluated(n)
  <1>1. /\ n.step = m.step /\ n.stage_index = m.stage_index
        /\ n.stage_step = m.stage_step /\ n.stage_best = m.stage_best
        /\ n.completed_stages = m.completed_stages /\ n.evaluations = m.evaluations
    BY DEF Same, Fields
  <1> QED BY <1>1 DEF Sound, Unbeaten, Begun, StageFinished, StageSteps, JustEvaluated

LEMMA OneStepSound ==
  ASSUME NEW m \in Memories, NEW sc, Sound(sc, m), Begun(m), ~StageFinished(m)
  PROVE  /\ m.step < Total
         /\ OneStep(m) \in Memories /\ Sound(sc, OneStep(m)) /\ Begun(OneStep(m))
         /\ OneStep(m).step = m.step + 1
  <1>1. /\ m.stage_index \in Stages /\ m.stage_step \in Nat
        /\ m.step = Prefix[m.stage_index] + m.stage_step
        /\ m.stage_step <= Steps[m.stage_index] /\ m.stage_step # Steps[m.stage_index]
    BY DEF Memories, Sound, StageFinished, StageSteps
  <1>2. /\ Steps[m.stage_index] \in Nat /\ Prefix[m.stage_index] \in Nat
        /\ Prefix[m.stage_index] + Steps[m.stage_index] <= Total
    <2>1. Prefix[m.stage_index + 1] \in 0..Total
      BY <1>1, StagesBounded
    <2>2. Prefix[m.stage_index + 1] = Prefix[m.stage_index] + Steps[m.stage_index]
      BY <1>1, StagesBounded
    <2> QED BY <1>1, <2>1, <2>2, StagesBounded, CohortAssumption
  <1>3. m.step < Total
    BY <1>1, <1>2, CohortAssumption
  <1>4. /\ OneStep(m) \in Memories
        /\ OneStep(m).step = m.step + 1
        /\ OneStep(m).stage_step = m.stage_step + 1
        /\ OneStep(m).stage_index = m.stage_index
        /\ OneStep(m).stage_best = m.stage_best
        /\ OneStep(m).completed_stages = m.completed_stages
        /\ OneStep(m).evaluations = m.evaluations
    BY <1>1, <1>3, OneStepType DEF Fields
  <1>5. OneStep(m).step = Prefix[m.stage_index] + OneStep(m).stage_step
    BY <1>1, <1>2, <1>4
  <1>6. OneStep(m).stage_step <= Steps[m.stage_index]
    BY <1>1, <1>2, <1>4
  <1>7. Sound(sc, OneStep(m))
    BY <1>4, <1>5, <1>6 DEF Sound, Unbeaten
  <1> QED BY <1>3, <1>4, <1>7 DEF Begun

LEMMA EvaluateSound ==
  ASSUME NEW sc \in Scores, NEW m \in Memories, Sound(sc, m), Begun(m)
  PROVE  /\ Evaluate(sc, m) \in Memories
         /\ Sound(sc, Evaluate(sc, m)) /\ Begun(Evaluate(sc, m))
         /\ JustEvaluated(Evaluate(sc, m))
         /\ StageFinished(m) <=> StageFinished(Evaluate(sc, m))
         /\ Evaluate(sc, m).step = m.step
  <1> DEFINE n == Evaluate(sc, m)
             c == Candidate(m)
             s == m.stage_index
  <1>1. /\ n \in Memories
        /\ n.step = m.step /\ n.stage_step = m.stage_step /\ n.stage_index = s
        /\ n.completed_stages = m.completed_stages
        /\ n.evaluations = Append(m.evaluations, c)
        /\ n.stage_best = IF m.stage_best = None \/ Better(sc, c, m.stage_best)
                          THEN c ELSE m.stage_best
    BY EvaluateType DEF Fields
  <1>2. c \in Candidates /\ c # None /\ c.stage = s /\ c.step = m.step
    BY CandidateType
  <1>3. /\ m.evaluations \in Seq(Candidates) /\ s \in Nat
        /\ m.stage_best \in Candidates \cup {None}
        /\ m.completed_stages \in Seq(Candidates)
        /\ Len(m.completed_stages) = s - 1
    BY StagesBounded DEF Memories, Begun
  <1> HIDE DEF n, c, s
  <1>4. \A j \in DOMAIN n.evaluations :
           /\ n.evaluations[j] \in Candidates
           /\ \/ n.evaluations[j] = c
              \/ j \in DOMAIN m.evaluations /\ n.evaluations[j] = m.evaluations[j]
    <2> SUFFICES ASSUME NEW j \in DOMAIN n.evaluations
                 PROVE  /\ n.evaluations[j] \in Candidates
                        /\ \/ n.evaluations[j] = c
                           \/ j \in DOMAIN m.evaluations /\ n.evaluations[j] = m.evaluations[j]
      OBVIOUS
    <2>1. j \in 1..(Len(m.evaluations) + 1)
      BY <1>1, <1>2, <1>3
    <2> QED BY <1>1, <1>2, <1>3, <2>1
  <1>5. Unbeaten(sc, m, m.stage_best, s)
    BY DEF Sound, s
  <1>6. n.stage_best # None /\ Unbeaten(sc, n, n.stage_best, s)
    <2>1. CASE m.stage_best = None
      <3>1. n.stage_best = c
        BY <1>1, <2>1
      <3>2. ASSUME NEW j \in DOMAIN n.evaluations, n.evaluations[j].stage = s
            PROVE  ~Better(sc, n.evaluations[j], c)
        <4>1. n.evaluations[j] = c
          BY <1>4, <1>5, <2>1, <3>2 DEF Unbeaten
        <4> QED BY <4>1, <1>2, BetterOrders
      <3> QED BY <1>2, <3>1, <3>2 DEF Unbeaten
    <2>2. CASE m.stage_best # None /\ Better(sc, c, m.stage_best)
      <3>1. n.stage_best = c /\ m.stage_best \in Candidates
        BY <1>1, <1>3, <2>2
      <3>2. ASSUME NEW j \in DOMAIN n.evaluations, n.evaluations[j].stage = s
            PROVE  ~Better(sc, n.evaluations[j], c)
        <4>1. CASE n.evaluations[j] = c
          BY <4>1, <1>2, BetterOrders
        <4>2. CASE j \in DOMAIN m.evaluations /\ n.evaluations[j] = m.evaluations[j]
          <5>1. ~Better(sc, n.evaluations[j], m.stage_best)
            BY <1>5, <3>2, <4>2 DEF Unbeaten
          <5> QED BY <5>1, <1>2, <1>4, <2>2, <3>1, BetterOrders
        <4> QED BY <1>4, <4>1, <4>2
      <3> QED BY <1>2, <3>1, <3>2 DEF Unbeaten
    <2>3. CASE m.stage_best # None /\ ~Better(sc, c, m.stage_best)
      <3>1. n.stage_best = m.stage_best
        BY <1>1, <2>3
      <3>2. ASSUME NEW j \in DOMAIN n.evaluations, n.evaluations[j].stage = s
            PROVE  ~Better(sc, n.evaluations[j], m.stage_best)
        BY <1>4, <1>5, <2>3, <3>2 DEF Unbeaten
      <3>3. m.stage_best.stage = s
        BY <1>5, <2>3 DEF Unbeaten
      <3> QED BY <2>3, <3>1, <3>2, <3>3 DEF Unbeaten
    <2> QED BY <2>1, <2>2, <2>3
  <1>7. \A j \in DOMAIN n.evaluations : n.evaluations[j].stage <= s
    <2>1. \A j \in DOMAIN m.evaluations : m.evaluations[j].stage <= s
      BY DEF Sound, s
    <2> QED BY <2>1, <1>2, <1>3, <1>4
  <1>8. \A i \in DOMAIN n.completed_stages : Unbeaten(sc, n, n.completed_stages[i], i)
    <2> SUFFICES ASSUME NEW i \in DOMAIN m.completed_stages
                 PROVE  Unbeaten(sc, n, m.completed_stages[i], i)
      BY <1>1
    <2>1. Unbeaten(sc, m, m.completed_stages[i], i) /\ i # s
      BY <1>3 DEF Sound
    <2> QED BY <2>1, <1>2, <1>4 DEF Unbeaten
  <1>9. JustEvaluated(n)
    <2>1. n.evaluations # <<>> /\ n.evaluations[Len(n.evaluations)] = c
      BY <1>1, <1>2, <1>3
    <2> QED BY <1>1, <1>2, <1>6, <2>1 DEF JustEvaluated
  <1>10. Sound(sc, n) /\ Begun(n) /\ (StageFinished(m) <=> StageFinished(n))
    <2>1. /\ n.step = Prefix[s] + n.stage_step /\ n.stage_step <= Steps[s]
          /\ Len(n.completed_stages) <= s /\ Len(n.completed_stages) = s - 1
      BY <1>1, <1>3 DEF Sound, s
    <2> QED BY <1>1, <2>1, <1>6, <1>7, <1>8 DEF Sound, Begun, StageFinished, StageSteps, s
  <1> QED BY <1>1, <1>9, <1>10 DEF n

LEMMA EvaluatedSound ==
  ASSUME NEW sc \in Scores, NEW m \in Memories, Sound(sc, m), Begun(m)
  PROVE  /\ Evaluated(sc, m) \in Memories
         /\ Sound(sc, Evaluated(sc, m)) /\ Begun(Evaluated(sc, m))
         /\ StageFinished(m) <=> StageFinished(Evaluated(sc, m))
         /\ StageFinished(m) => JustEvaluated(Evaluated(sc, m))
         /\ Evaluated(sc, m).step = m.step
  <1> DEFINE n == Evaluate(sc, m)
             r == RankReplay(n, "refresh")
  <1>1. /\ n \in Memories /\ Sound(sc, n) /\ Begun(n) /\ JustEvaluated(n)
        /\ StageFinished(m) <=> StageFinished(n)
        /\ n.step = m.step
    BY EvaluateSound
  <1> HIDE DEF n
  <1>2. r \in Memories /\ Same(n, r)
    BY <1>1, RankType
  <1> HIDE DEF r
  <1>3. /\ Sound(sc, r) /\ Begun(r) /\ JustEvaluated(r)
        /\ StageFinished(n) <=> StageFinished(r)
    BY <1>1, <1>2, SameState
  <1>4. r.step = m.step
    BY <1>1, <1>2 DEF Same, Fields
  <1>5. \/ Evaluated(sc, m) = r
        \/ Evaluated(sc, m) = m /\ ~StageFinished(m)
    BY DEF Evaluated, r, n
  <1> QED BY <1>1, <1>2, <1>3, <1>4, <1>5

\* The stage's best model is handed on and its fields are closed.
LEMMA HandOn ==
  ASSUME NEW sc \in Scores, NEW m \in Memories, Sound(sc, m), Begun(m), JustEvaluated(m),
         NEW n, n.evaluations = m.evaluations,
         n.completed_stages = Append(m.completed_stages, m.stage_best)
  PROVE  /\ n.completed_stages \in Seq(Candidates)
         /\ m.stage_best \in Candidates
         /\ Len(n.completed_stages) = m.stage_index
         /\ \A i \in DOMAIN n.completed_stages : Unbeaten(sc, n, n.completed_stages[i], i)
         /\ \A j \in DOMAIN n.evaluations : n.evaluations[j].stage <= m.stage_index
  <1>1. /\ m.completed_stages \in Seq(Candidates) /\ m.stage_index \in Nat
        /\ m.stage_best \in Candidates /\ Len(m.completed_stages) = m.stage_index - 1
    BY StagesBounded DEF Memories, JustEvaluated, Begun
  <1>2. Len(n.completed_stages) = m.stage_index /\ n.completed_stages \in Seq(Candidates)
    BY <1>1
  <1>3. ASSUME NEW i \in DOMAIN n.completed_stages
        PROVE  Unbeaten(sc, n, n.completed_stages[i], i)
    <2>1. CASE i = m.stage_index
      <3>1. n.completed_stages[i] = m.stage_best
        BY <1>1, <2>1
      <3> QED BY <3>1, <2>1 DEF Sound, Unbeaten
    <2>2. CASE i # m.stage_index
      <3>1. i \in DOMAIN m.completed_stages /\ n.completed_stages[i] = m.completed_stages[i]
        BY <1>1, <1>2, <2>2
      <3> QED BY <3>1 DEF Sound, Unbeaten
    <2> QED BY <2>1, <2>2
  <1> QED BY <1>1, <1>2, <1>3 DEF Sound

LEMMA LastStageCloses ==
  ASSUME NEW sc \in Scores, NEW m \in Memories, Sound(sc, m), Begun(m),
         StageFinished(m), JustEvaluated(m), m.stage_index = Len(Steps)
  PROVE  /\ CompleteStage(sc, m) \in Memories
         /\ Sound(sc, CompleteStage(sc, m)) /\ Closed(CompleteStage(sc, m))
         /\ CompleteStage(sc, m).step = m.step
  <1> DEFINE n == CompleteStage(sc, m)
             completed == Append(m.completed_stages, m.stage_best)
  <1>1. n = [m EXCEPT !.completed_stages = completed, !.model = m.stage_best.model,
                      !.final_best = m.stage_best]
    BY DEF CompleteStage, Memories
  <1> HIDE DEF n, completed
  <1>2. /\ n.step = m.step /\ n.stage_step = m.stage_step /\ n.stage_index = m.stage_index
        /\ n.evaluations = m.evaluations /\ n.stage_best = m.stage_best
        /\ n.completed_stages = completed /\ n.final_best = m.stage_best
    BY <1>1 DEF Memories
  <1>3. /\ completed \in Seq(Candidates) /\ m.stage_best \in Candidates
        /\ Len(completed) = m.stage_index
        /\ \A i \in DOMAIN completed : Unbeaten(sc, n, completed[i], i)
        /\ \A j \in DOMAIN n.evaluations : n.evaluations[j].stage <= m.stage_index
    <2>1. n.completed_stages = Append(m.completed_stages, m.stage_best)
      BY <1>2 DEF completed
    <2> QED BY <1>2, <2>1, HandOn
  <1>4. m.stage_best.model \in Seq(Updates)
    BY <1>3 DEF Candidates
  <1>5. n \in Memories
    <2> DEFINE model == m.stage_best.model
               best == m.stage_best
    <2>1. model \in Seq(Updates) /\ best \in Candidates
      BY <1>3, <1>4
    <2>2. n = [m EXCEPT !.completed_stages = completed, !.model = model, !.final_best = best]
      BY <1>1
    <2> HIDE DEF model, best
    <2> QED BY <1>3, <2>1, <2>2 DEF Memories
  <1>6. Sound(sc, n)
    BY <1>2, <1>3 DEF Sound, Unbeaten
  <1>7. Closed(n)
    BY <1>2, <1>3 DEF Closed, StageFinished, StageSteps, JustEvaluated
  <1> QED BY <1>2, <1>5, <1>6, <1>7 DEF n

LEMMA NextStageBegins ==
  ASSUME NEW sc \in Scores, NEW m \in Memories, Sound(sc, m), Begun(m),
         StageFinished(m), JustEvaluated(m), m.stage_index # Len(Steps)
  PROVE  /\ CompleteStage(sc, m) \in Memories
         /\ Sound(sc, CompleteStage(sc, m)) /\ Begun(CompleteStage(sc, m))
         /\ ~StageFinished(CompleteStage(sc, m))
         /\ CompleteStage(sc, m).step = m.step
  <1> DEFINE completed == Append(m.completed_stages, m.stage_best)
             closed == [m EXCEPT !.completed_stages = completed,
                                 !.model = m.stage_best.model]
             n == NextStage(closed)
             r == RankReplay(n, "freeze")
  <1>1. CompleteStage(sc, m) = StageStart(sc, r)
    BY DEF CompleteStage
  <1>2. n = [m EXCEPT !.completed_stages = completed, !.model = m.stage_best.model,
                      !.lineage_start = m.stage_best.effective_step,
                      !.stage_index = m.stage_index + 1, !.stage_step = 0,
                      !.stage_best = None, !.optimizer = 0]
    BY DEF NextStage, Memories
  <1> HIDE DEF n, closed, completed
  <1>3. /\ n.step = m.step /\ n.stage_step = 0 /\ n.stage_index = m.stage_index + 1
        /\ n.evaluations = m.evaluations /\ n.stage_best = None
        /\ n.completed_stages = completed
    BY <1>2 DEF Memories
  <1>4. /\ completed \in Seq(Candidates) /\ m.stage_best \in Candidates
        /\ Len(completed) = m.stage_index
        /\ \A i \in DOMAIN completed : Unbeaten(sc, n, completed[i], i)
        /\ \A j \in DOMAIN n.evaluations : n.evaluations[j].stage <= m.stage_index
    <2>1. n.completed_stages = Append(m.completed_stages, m.stage_best)
      BY <1>3 DEF completed
    <2> QED BY <1>3, <2>1, HandOn
  <1>5. m.stage_index \in Stages /\ m.stage_index + 1 \in Stages
    BY StagesBounded DEF Memories
  <1>6. n \in Memories
    <2> DEFINE model == m.stage_best.model
               lineage == m.stage_best.effective_step
               index == m.stage_index + 1
    <2>1. model \in Seq(Updates) /\ lineage \in Nat
      BY <1>4 DEF Candidates
    <2>2. n = [m EXCEPT !.completed_stages = completed, !.model = model,
                        !.lineage_start = lineage, !.stage_index = index,
                        !.stage_step = 0, !.stage_best = None, !.optimizer = 0]
      BY <1>2
    <2>3. index \in Stages
      BY <1>5
    <2> HIDE DEF model, lineage, index
    <2> QED BY <1>4, <2>1, <2>2, <2>3 DEF Memories
  <1>7. Sound(sc, n)
    <2>1. n.step = Prefix[n.stage_index] + n.stage_step
      <3>1. m.step = Prefix[m.stage_index] + Steps[m.stage_index]
        BY DEF Sound, StageFinished, StageSteps
      <3> QED BY <3>1, <1>3, <1>5, StagesBounded
    <2>2. n.stage_step <= Steps[n.stage_index]
      BY <1>3, <1>5, StagesBounded
    <2>3. \A j \in DOMAIN n.evaluations :
             n.evaluations[j].stage <= n.stage_index /\ n.evaluations[j].stage # n.stage_index
      <3>1. n.evaluations \in Seq(Candidates) /\ m.stage_index \in Nat
        BY <1>3, <1>5, StagesBounded DEF Memories
      <3>2. \A c \in Candidates : c.stage \in Nat
        BY StagesBounded DEF Candidates
      <3>3. \A j \in DOMAIN n.evaluations : n.evaluations[j].stage \in Nat
        BY <3>1, <3>2
      <3> QED BY <1>3, <1>4, <3>1, <3>3
    <2>4. Unbeaten(sc, n, n.stage_best, n.stage_index)
      BY <1>3, <2>3 DEF Unbeaten
    <2>5. Len(n.completed_stages) <= n.stage_index
      BY <1>3, <1>4, <1>5, StagesBounded
    <2> QED BY <1>3, <1>4, <2>1, <2>2, <2>3, <2>4, <2>5 DEF Sound
  <1>8. Begun(n) /\ ~StageFinished(n)
    BY <1>3, <1>4, <1>5, StagesBounded DEF Begun, StageFinished, StageSteps
  <1>9. r \in Memories /\ Same(n, r)
    BY <1>6, RankType
  <1> HIDE DEF r
  <1>10. Sound(sc, r) /\ Begun(r) /\ ~StageFinished(r) /\ r.step = m.step
    BY <1>3, <1>7, <1>8, <1>9, SameState DEF Same, Fields
  <1>11. CASE StageStart(sc, r) = Evaluate(sc, r)
    BY <1>1, <1>9, <1>10, <1>11, EvaluateSound
  <1>12. CASE StageStart(sc, r) = r
    BY <1>1, <1>9, <1>10, <1>12
  <1> QED BY <1>11, <1>12 DEF StageStart

-----------------------------------------------------------------------------
(* What is left to write.                                                  *)

LEMMA WritesSeparate ==
  /\ <<"evaluate">> \notin Seq(Writes) /\ <<"close">> \notin Seq(Writes)
  /\ <<"evaluate">> # <<"close">> /\ <<>> \in Seq(Writes)
  <1>1. "evaluate" \notin Writes /\ "close" \notin Writes
    BY DEF Writes
  <1>2. ASSUME NEW w, <<w>> \in Seq(Writes)
        PROVE  w \in Writes
    <2>1. <<w>>[1] \in Writes
      BY <1>2
    <2> QED BY <2>1
  <1>3. <<"evaluate">>[1] # <<"close">>[1]
    OBVIOUS
  <1> QED BY <1>1, <1>2, <1>3

LEMMA SaveOrdered ==
  /\ Save \in Seq(Writes) /\ Save # <<>> /\ Head(Save) = "copy"
  /\ Save[Len(Save)] = "clean" /\ Ordered(Save)
  <1>1. Save \in Seq(Writes) /\ Len(Save) = 4
    BY DEF Save, Writes
  <1>2. Save[1] = "copy" /\ Save[2] = "previous" /\ Save[3] = "publish" /\ Save[4] = "clean"
    BY DEF Save
  <1>3. \A i \in 1..(Len(Save) - 1) : i = 1 \/ i = 2 \/ i = 3
    BY <1>1
  <1>4. Follows("copy", "previous") /\ Follows("previous", "publish") /\ Follows("publish", "clean")
    BY DEF Follows
  <1>5. \A i \in 1..(Len(Save) - 1) : Follows(Save[i], Save[i + 1])
    BY <1>2, <1>3, <1>4
  <1> QED BY <1>1, <1>2, <1>5 DEF Ordered

LEMMA ExportOrdered ==
  /\ Export \in Seq(Writes) /\ Export # <<>> /\ Head(Export) = "selected"
  /\ Export[Len(Export)] = "mirror" /\ Ordered(Export)
  <1>1. Export \in Seq(Writes) /\ Len(Export) = 3
    BY DEF Export, Writes
  <1>2. Export[1] = "selected" /\ Export[2] = "result" /\ Export[3] = "mirror"
    BY DEF Export
  <1>3. \A i \in 1..(Len(Export) - 1) : i = 1 \/ i = 2
    BY <1>1
  <1>4. Follows("selected", "result") /\ Follows("result", "mirror")
    BY DEF Follows
  <1>5. \A i \in 1..(Len(Export) - 1) : Follows(Export[i], Export[i + 1])
    BY <1>2, <1>3, <1>4
  <1> QED BY <1>1, <1>2, <1>5 DEF Ordered

LEMMA ConcatOrdered ==
  ASSUME NEW s \in Seq(Writes), NEW t \in Seq(Writes), Ordered(s), Ordered(t),
         s # <<>>, t # <<>>, Follows(s[Len(s)], Head(t))
  PROVE  /\ s \o t \in Seq(Writes) /\ s \o t # <<>> /\ Head(s \o t) = Head(s)
         /\ (s \o t)[Len(s \o t)] = t[Len(t)] /\ Ordered(s \o t)
  <1> DEFINE w == s \o t
  <1>1. /\ w \in Seq(Writes) /\ Len(w) = Len(s) + Len(t)
        /\ Len(s) \in Nat \ {0} /\ Len(t) \in Nat \ {0}
        /\ \A i \in 1..Len(s) : w[i] = s[i]
        /\ \A i \in 1..Len(t) : w[Len(s) + i] = t[i]
    OBVIOUS
  <1>2. w # <<>> /\ Head(w) = Head(s) /\ w[Len(w)] = t[Len(t)]
    BY <1>1
  <1> HIDE DEF w
  <1>3. ASSUME NEW i \in 1..(Len(w) - 1)
        PROVE  Follows(w[i], w[i + 1])
    <2>1. CASE i < Len(s)
      BY <1>1, <2>1 DEF Ordered
    <2>2. CASE i = Len(s)
      <3>1. w[i] = s[Len(s)] /\ w[i + 1] = t[1]
        BY <1>1, <2>2
      <3> QED BY <3>1
    <2>3. CASE i > Len(s)
      <3> DEFINE j == i - Len(s)
      <3>1. j \in 1..(Len(t) - 1) /\ i = Len(s) + j /\ i + 1 = Len(s) + (j + 1)
        BY <1>1, <2>3
      <3> HIDE DEF j
      <3>2. j \in 1..Len(t) /\ j + 1 \in 1..Len(t)
        BY <1>1, <3>1
      <3>3. w[i] = t[j] /\ w[i + 1] = t[j + 1]
        BY <1>1, <3>1, <3>2
      <3> QED BY <3>1, <3>3 DEF Ordered
    <2> QED BY <1>1, <2>1, <2>2, <2>3
  <1> QED BY <1>1, <1>2, <1>3 DEF Ordered, w

LEMMA TailOrdered ==
  ASSUME NEW s \in Seq(Writes), Ordered(s), s # <<>>
  PROVE  /\ Tail(s) \in Seq(Writes) /\ Ordered(Tail(s))
         /\ Tail(s) # <<>> => Follows(Head(s), Head(Tail(s)))
         /\ Tail(s) = <<>> => Head(s) \notin {"copy", "previous"}
  <1>1. /\ Tail(s) \in Seq(Writes) /\ Len(Tail(s)) = Len(s) - 1 /\ Len(s) \in Nat \ {0}
        /\ \A i \in 1..Len(Tail(s)) : Tail(s)[i] = s[i + 1]
    OBVIOUS
  <1>2. Tail(s) = <<>> => Head(s) = s[Len(s)]
    BY <1>1
  <1>3. Tail(s) # <<>> => /\ Head(Tail(s)) = s[2] /\ Head(s) = s[1] /\ Len(s) > 1
                          /\ Tail(s)[Len(Tail(s))] = s[Len(s)]
    BY <1>1
  <1>4. Tail(s) # <<>> => Follows(Head(s), Head(Tail(s)))
    BY <1>1, <1>3 DEF Ordered
  <1>5. \A i \in 1..(Len(Tail(s)) - 1) : Follows(Tail(s)[i], Tail(s)[i + 1])
    <2> SUFFICES ASSUME NEW i \in 1..(Len(Tail(s)) - 1)
                 PROVE  Follows(Tail(s)[i], Tail(s)[i + 1])
      OBVIOUS
    <2>1. Tail(s)[i] = s[i + 1] /\ Tail(s)[i + 1] = s[(i + 1) + 1] /\ i + 1 \in 1..(Len(s) - 1)
      BY <1>1
    <2> QED BY <2>1 DEF Ordered
  <1>6. Tail(s) # <<>> => Tail(s)[Len(Tail(s))] \notin {"copy", "previous"}
    BY <1>3 DEF Ordered
  <1>7. Ordered(Tail(s))
    BY <1>5, <1>6 DEF Ordered
  <1> QED BY <1>1, <1>2, <1>4, <1>7 DEF Ordered

LEMMA OpeningFollows ==
  \A a \in {"clean", "mirror"}, b \in {"copy", "selected"} : Follows(a, b)
  BY DEF Follows

LEMMA ReturnOrdered ==
  /\ <<"return">> \in Seq(Writes) /\ Ordered(<<"return">>) /\ Follows("mirror", "return")
  /\ Export \o <<"return">> \in Seq(Writes) /\ Ordered(Export \o <<"return">>)
  /\ Export \o <<"return">> # <<>> /\ Head(Export \o <<"return">>) = "selected"
  <1>1. /\ <<"return">> \in Seq(Writes) /\ Ordered(<<"return">>)
        /\ <<"return">> # <<>> /\ Head(<<"return">>) = "return"
    BY DEF Ordered, Writes
  <1>2. Follows("mirror", "return")
    BY DEF Follows
  <1> QED BY <1>1, <1>2, ExportOrdered, ConcatOrdered

\* After an update comes nothing or a save, at a stop always a save.
LEMMA AfterStepOrdered ==
  ASSUME NEW m, NEW finished \in BOOLEAN
  PROVE  /\ AfterStep(m, finished) \in Seq(Writes) /\ Ordered(AfterStep(m, finished))
         /\ AfterStep(m, finished) # <<>> => Head(AfterStep(m, finished)) = "copy"
         /\ finished => AfterStep(m, finished) # <<>>
  <1> DEFINE prefix == Save \o Export
             due == m.stage_step % SaveEvery[m.stage_index] = 0
             body == IF finished THEN Save
                     ELSE IF due \/ m.step = end THEN prefix ELSE <<>>
             opening == IF m.step < Total THEN prefix ELSE <<>>
             last == IF m.step # end THEN <<>> ELSE opening \o Export \o <<"return">>
  <1>1. AfterStep(m, finished) = body \o last
    BY DEF AfterStep
  <1>2. /\ prefix \in Seq(Writes) /\ prefix # <<>> /\ Head(prefix) = "copy"
        /\ prefix[Len(prefix)] = "mirror" /\ Ordered(prefix)
    BY SaveOrdered, ExportOrdered, ConcatOrdered, OpeningFollows
  <1> DEFINE exports == opening \o Export
  <1>3. /\ exports \in Seq(Writes) /\ exports # <<>> /\ Head(exports) \in {"copy", "selected"}
        /\ exports[Len(exports)] = "mirror" /\ Ordered(exports)
    <2>1. CASE opening = prefix
      <3>1. Follows(prefix[Len(prefix)], Head(Export))
        BY <1>2, ExportOrdered, OpeningFollows
      <3>2. exports = prefix \o Export
        BY <2>1
      <3> HIDE DEF prefix, exports
      <3>3. /\ prefix \o Export \in Seq(Writes) /\ prefix \o Export # <<>>
            /\ Head(prefix \o Export) = Head(prefix) /\ Ordered(prefix \o Export)
            /\ (prefix \o Export)[Len(prefix \o Export)] = Export[Len(Export)]
        BY <1>2, <3>1, ExportOrdered, ConcatOrdered
      <3> QED BY <1>2, <3>2, <3>3, ExportOrdered
    <2>2. CASE opening = <<>>
      <3>1. exports = Export
        BY <2>2, ExportOrdered
      <3> HIDE DEF exports
      <3> QED BY <3>1, ExportOrdered
    <2> QED BY <2>1, <2>2
  <1> HIDE DEF prefix, opening, exports
  <1>4. last = <<>> \/ last = exports \o <<"return">>
    BY DEF exports
  <1>5. /\ exports \o <<"return">> \in Seq(Writes) /\ Ordered(exports \o <<"return">>)
        /\ exports \o <<"return">> # <<>>
        /\ Head(exports \o <<"return">>) \in {"copy", "selected"}
    <2>1. Head(<<"return">>) = "return" /\ <<"return">> # <<>>
      OBVIOUS
    <2>2. Follows(exports[Len(exports)], Head(<<"return">>))
      BY <1>3, <2>1, ReturnOrdered
    <2> QED BY <1>3, <2>1, <2>2, ReturnOrdered, ConcatOrdered
  <1>6. \/ body = Save \/ body = prefix
        \/ body = <<>> /\ last = <<>> /\ ~finished
    OBVIOUS
  <1> HIDE DEF last, body
  <1>7. CASE body = Save \/ body = prefix
    <2>1. /\ body \in Seq(Writes) /\ Ordered(body) /\ body # <<>>
          /\ Head(body) = "copy" /\ body[Len(body)] \in {"clean", "mirror"}
      BY <1>2, <1>7, SaveOrdered
    <2>2. CASE last = <<>>
      <3>1. body \o last = body
        BY <2>1, <2>2
      <3> QED BY <1>1, <2>1, <3>1
    <2>3. CASE last = exports \o <<"return">>
      <3>1. Follows(body[Len(body)], Head(last))
        BY <1>5, <2>1, <2>3, OpeningFollows
      <3>2. last \in Seq(Writes) /\ Ordered(last) /\ last # <<>>
        BY <1>5, <2>3
      <3> QED BY <1>1, <2>1, <3>1, <3>2, ConcatOrdered
    <2> QED BY <1>4, <2>2, <2>3
  <1>8. CASE body = <<>> /\ last = <<>> /\ ~finished
    <2>1. AfterStep(m, finished) = <<>>
      BY <1>1, <1>8
    <2> QED BY <1>8, <2>1 DEF Ordered
  <1> QED BY <1>6, <1>7, <1>8

-----------------------------------------------------------------------------
(* Memories between two updates.                                           *)

LEMMA SavedFields ==
  /\ DOMAIN Fresh = Saved
  /\ \A m \in Memories : m = [f \in Saved |-> m[f]]
  <1>1. DOMAIN Fresh = Saved
    BY DEF Fresh, Saved
  <1>2. ASSUME NEW m \in Memories
        PROVE  m = [f \in Saved |-> m[f]]
    <2>1. DOMAIN m = Saved
      BY DEF Memories, Saved
    <2>2. m = [f \in DOMAIN m |-> m[f]]
      BY DEF Memories
    <2> QED BY <2>1, <2>2
  <1> QED BY <1>1, <1>2

\* Nothing is lost between a memory, its payload and the restored memory.
LEMMA RestoredIsSaved ==
  ASSUME NEW m \in Memories
  PROVE  Payload(m) = m /\ Restored(m) = m
  <1>1. [f \in Saved |-> m[f]] = m
    BY SavedFields
  <1>2. Restored(m) = [f \in Saved |-> m[f]]
    BY SavedFields DEF Restored
  <1> QED BY <1>1, <1>2 DEF Payload

LEMMA FreshSettled ==
  ASSUME NEW sc \in Scores
  PROVE  Settled(sc, Fresh) /\ Fresh.step = 0 /\ 0 < Total
  <1>1. /\ Fresh.step = 0 /\ Fresh.stage_index = 1 /\ Fresh.stage_step = 0
        /\ Fresh.stage_best = None /\ Fresh.completed_stages = <<>>
        /\ Fresh.evaluations = <<>>
    BY DEF Fresh
  <1>2. 1 \in Stages /\ Prefix[1] = 0 /\ Steps[1] \in Nat \ {0}
    BY StagesBounded, CohortAssumption
  <1>3. 0 < Total
    <2>1. Prefix[1 + 1] \in 0..Total /\ Prefix[1 + 1] = Prefix[1] + Steps[1]
      BY <1>2, StagesBounded
    <2> QED BY <1>2, <2>1, CohortAssumption
  <1>4. Sound(sc, Fresh)
    BY <1>1, <1>2 DEF Sound, Unbeaten
  <1>5. Begun(Fresh) /\ ~StageFinished(Fresh)
    BY <1>1, <1>2 DEF Begun, StageFinished, StageSteps
  <1>6. Fresh = Uninterrupted[sc][Fresh.step]
    BY <1>1, UninterruptedAssumption
  <1> QED BY <1>1, <1>3, <1>4, <1>5, <1>6 DEF Settled

LEMMA SettledSteps ==
  ASSUME NEW sc \in Scores, NEW m \in Memories, Settled(sc, m)
  PROVE  /\ m.step < Total => Begun(m) /\ ~StageFinished(m)
         /\ m.step = Total => Closed(m) /\ m = Last(sc)
  <1>1. CASE Closed(m)
    <2>1. /\ m.stage_index = Len(Steps) /\ Len(Steps) \in Stages
          /\ m.step = Prefix[Len(Steps)] + Steps[Len(Steps)]
      BY <1>1, StagesBounded DEF Closed, Settled, Sound, StageFinished, StageSteps
    <2>2. m.step = Total
      BY <2>1, StagesBounded, CohortAssumption
    <2> QED BY <1>1, <2>2, CohortAssumption DEF Settled, Last
  <1>2. CASE Begun(m) /\ ~StageFinished(m)
    <2>1. m.step < Total
      BY <1>2, OneStepSound DEF Settled
    <2>2. m.step # Total
      BY <2>1, CohortAssumption DEF Memories
    <2> QED BY <1>2, <2>2
  <1> QED BY <1>1, <1>2 DEF Settled

\* What a finished memory's results are made of.
LEMMA LastResult ==
  ASSUME NEW sc \in Scores, NEW m \in Memories, Settled(sc, m), m.step = Total
  PROVE  /\ m = Last(sc)
         /\ m.final_best \in Candidates /\ m.final_best # None
         /\ [i \in DOMAIN m.completed_stages |-> m.completed_stages[i].stage] =
              [s \in Stages |-> s]
         /\ m.evaluations # <<>> /\ m.evaluations[Len(m.evaluations)].step = Total
  <1>1. Closed(m) /\ m = Last(sc) /\ Sound(sc, m)
    BY SettledSteps DEF Settled
  <1>2. m.final_best = m.stage_best /\ m.stage_best # None
    BY <1>1 DEF Closed, JustEvaluated
  <1>3. m.final_best \in Candidates
    BY <1>2 DEF Memories
  <1>4. m.completed_stages \in Seq(Candidates) /\ DOMAIN m.completed_stages = Stages
    BY <1>1 DEF Closed, Stages, Memories
  <1>5. \A i \in Stages : m.completed_stages[i].stage = i
    <2> SUFFICES ASSUME NEW i \in Stages
                 PROVE  m.completed_stages[i].stage = i
      OBVIOUS
    <2>1. m.completed_stages[i] # None
      BY <1>4, NoneAssumption
    <2> QED BY <1>1, <1>4, <2>1 DEF Sound, Unbeaten
  <1>6. m.evaluations # <<>> /\ m.evaluations[Len(m.evaluations)].step = Total
    BY <1>1 DEF Closed, JustEvaluated
  <1> QED BY <1>1, <1>2, <1>3, <1>4, <1>5, <1>6

\* An update, its evaluation and the end of its stage make one step of the
\* uninterrupted run.
LEMMA TrainUnsettles ==
  ASSUME NEW sc \in Scores, NEW m \in Memories, Settled(sc, m), m.step < Total
  PROVE  /\ EmitLogWindow(OneStep(m)) \in Memories
         /\ EmitLogWindow(OneStep(m)).step = m.step + 1
         /\ Unsettled(sc, EmitLogWindow(OneStep(m)), <<"evaluate">>)
  <1> DEFINE n == OneStep(m)
             e == EmitLogWindow(n)
  <1>1. Sound(sc, m) /\ Begun(m) /\ ~StageFinished(m) /\ m = Uninterrupted[sc][m.step]
    BY SettledSteps DEF Settled
  <1>2. n \in Memories /\ Sound(sc, n) /\ Begun(n) /\ n.step = m.step + 1
    BY <1>1, OneStepSound
  <1> HIDE DEF n
  <1>3. e \in Memories /\ Same(n, e)
    BY <1>2, EmitType
  <1>4. Sound(sc, e) /\ Begun(e) /\ e.step = m.step + 1
    BY <1>2, <1>3, SameState DEF Same, Fields
  <1>5. e = EmitLogWindow(OneStep(Uninterrupted[sc][e.step - 1])) /\ e.step > 0
    <2>1. m.step \in Nat
      BY CohortAssumption DEF Memories
    <2>2. e.step - 1 = m.step /\ e.step > 0
      BY <1>4, <2>1
    <2> QED BY <1>1, <2>2 DEF n
  <1> QED BY <1>3, <1>4, <1>5 DEF Unsettled, n

LEMMA EvaluateSettles ==
  ASSUME NEW sc \in Scores, NEW m \in Memories, Unsettled(sc, m, <<"evaluate">>)
  PROVE  /\ Evaluated(sc, m) \in Memories /\ Evaluated(sc, m).step = m.step
         /\ StageFinished(m) => Unsettled(sc, Evaluated(sc, m), <<"close">>)
         /\ ~StageFinished(m) => m.step < Total /\ Settled(sc, Evaluated(sc, m))
  <1> DEFINE n == Evaluated(sc, m)
  <1>1. m.step \in 1..Total /\ Sound(sc, m) /\ Begun(m)
    BY CohortAssumption DEF Unsettled, Memories
  <1>2. m = EmitLogWindow(OneStep(Uninterrupted[sc][m.step - 1]))
    BY DEF Unsettled
  <1>3. /\ n \in Memories /\ Sound(sc, n) /\ Begun(n) /\ n.step = m.step
        /\ StageFinished(m) <=> StageFinished(n)
        /\ StageFinished(m) => JustEvaluated(n)
    BY <1>1, EvaluatedSound
  <1> HIDE DEF n
  <1>4. ASSUME StageFinished(m)
        PROVE  Unsettled(sc, n, <<"close">>)
    BY <1>1, <1>2, <1>3, <1>4, WritesSeparate DEF Unsettled, n
  <1>5. ASSUME ~StageFinished(m)
        PROVE  m.step < Total /\ Settled(sc, n)
    <2>1. m.step - 1 \in 0..(Total - 1) /\ (m.step - 1) + 1 = m.step
      BY <1>1, CohortAssumption
    <2>2. Uninterrupted[sc][m.step] = Advance(sc, Uninterrupted[sc][m.step - 1])
      BY <2>1, UninterruptedAssumption
    <2>3. Advance(sc, Uninterrupted[sc][m.step - 1]) = n
      BY <1>2, <1>3, <1>5 DEF Advance, n
    <2> QED BY <1>1, <1>3, <1>5, <2>2, <2>3, OneStepSound DEF Settled
  <1> QED BY <1>3, <1>4, <1>5 DEF n

LEMMA CloseSettles ==
  ASSUME NEW sc \in Scores, NEW m \in Memories, Unsettled(sc, m, <<"close">>)
  PROVE  /\ CompleteStage(sc, m) \in Memories /\ CompleteStage(sc, m).step = m.step
         /\ Settled(sc, CompleteStage(sc, m))
  <1> DEFINE n == CompleteStage(sc, m)
  <1>1. m.step \in 1..Total /\ Sound(sc, m) /\ Begun(m)
    BY CohortAssumption DEF Unsettled, Memories
  <1>2. /\ m = Evaluated(sc, EmitLogWindow(OneStep(Uninterrupted[sc][m.step - 1])))
        /\ StageFinished(m) /\ JustEvaluated(m)
    BY WritesSeparate DEF Unsettled
  <1>3. /\ n \in Memories /\ Sound(sc, n) /\ n.step = m.step
        /\ (Begun(n) /\ ~StageFinished(n)) \/ Closed(n)
    BY <1>1, <1>2, LastStageCloses, NextStageBegins
  <1>4. n = Uninterrupted[sc][m.step]
    <2>1. m.step - 1 \in 0..(Total - 1) /\ (m.step - 1) + 1 = m.step
      BY <1>1, CohortAssumption
    <2>2. Uninterrupted[sc][m.step] = Advance(sc, Uninterrupted[sc][m.step - 1])
      BY <2>1, UninterruptedAssumption
    <2>3. Advance(sc, Uninterrupted[sc][m.step - 1]) = n
      BY <1>2 DEF Advance
    <2> QED BY <2>2, <2>3
  <1> QED BY <1>3, <1>4 DEF Settled

-----------------------------------------------------------------------------
(* The steps.                                                              *)

LEMMA InitInv == Init => TypeOK /\ IInv
  <1> SUFFICES ASSUME Init PROVE TypeOK /\ IInv
    OBVIOUS
  <1> USE DEF Init
  <1>1. TypeOK
    <2>1. DOMAIN <<>> = {}
      OBVIOUS
    <2>2. DOMAIN files = {} /\ DOMAIN out = {} /\ DOMAIN kept = {}
      BY <2>1
    <2>3. Directory(out) /\ Directory(kept)
      BY <2>2 DEF Directory
    <2>4. end \in 0..Total /\ faults \in 0..MaxFaults
      BY CohortAssumption
    <2>5. todo \in Seq(Writes)
      BY WritesSeparate
    <2> QED BY <2>2, <2>3, <2>4, <2>5 DEF TypeOK
  <1>2. TodoInv
    BY CohortAssumption DEF TodoInv, Ordered
  <1>3. MemoryInv /\ SaveInv /\ CommitInv /\ ExportInv /\ ReturnInv
    BY DEF MemoryInv, SaveInv, LatestLoads, Loads, CommitInv, ExportInv, ReturnInv, At
  <1> QED BY <1>1, <1>2, <1>3 DEF IInv

LEMMA StartStep ==
  ASSUME TypeOK, IInv, Start
  PROVE  TypeOK' /\ IInv'
  <1> USE DEF store, results
  <1>1. mem = None /\ todo = <<>> /\ mirrored = {} /\ score' = score
    BY DEF Start, IInv, TodoInv, At
  <1>2. /\ mem' \in Memories /\ Settled(score, mem')
        /\ latest # None => mem'.step = latest.step
    <2>1. CASE latest = None
      BY <2>1, FreshType, FreshSettled DEF Start, TypeOK
    <2>2. CASE latest # None
      <3>1. /\ files[latest.file] \in Memories /\ Settled(score, files[latest.file])
            /\ files[latest.file].step = latest.step
        BY <2>2 DEF IInv, SaveInv, MemoryInv, LatestLoads, Loads, TypeOK
      <3> QED BY <2>2, <3>1, RestoredIsSaved DEF Start
    <2> QED BY <2>1, <2>2
  <1>3. /\ todo' \in Seq(Writes) /\ Ordered(todo')
        /\ todo' # <<>> => Head(todo') = "copy"
    BY SaveOrdered, WritesSeparate DEF Start, Ordered
  <1>4. mem' # None
    BY <1>2, NoneAssumption
  <1>5. TypeOK'
    BY <1>2, <1>3 DEF Start, TypeOK
  <1>6. TodoInv' /\ MemoryInv'
    BY <1>1, <1>2, <1>3, <1>4 DEF Start, IInv, TodoInv, MemoryInv
  <1>7. SaveInv'
    BY <1>3 DEF Start, IInv, SaveInv, LatestLoads, Loads, At
  <1>8. CommitInv'
    <2>1. latest = None => mem'.step = 0 /\ 0 < Total /\ todo' # <<>>
      BY FreshSettled, SaveOrdered DEF Start, TypeOK
    <2>2. latest # None => latest.step <= mem'.step
      BY <1>2, CohortAssumption DEF Memories
    <2> QED BY <1>2, <1>3, <2>1, <2>2 DEF Start, CommitInv, At
  <1>9. ExportInv' /\ ReturnInv'
    BY <1>3 DEF Start, IInv, ExportInv, ReturnInv, At, Holds, Last, Final
  <1> QED BY <1>5, <1>6, <1>7, <1>8, <1>9 DEF IInv

LEMMA RunStep ==
  ASSUME TypeOK, IInv, NEW stop \in Stops, Run(stop)
  PROVE  TypeOK' /\ IInv'
  <1> USE DEF store, results
  <1>1. /\ mem # None /\ mem' = mem /\ todo = <<>> /\ mirrored = {} /\ score' = score
        /\ mem \in Memories /\ Settled(score, mem)
    BY WritesSeparate DEF Run, Idle, IInv, TodoInv, MemoryInv, At, TypeOK
  <1>2. /\ todo' \in Seq(Writes) /\ Ordered(todo')
        /\ todo' # <<>> => Head(todo') = "selected"
    BY ReturnOrdered, WritesSeparate DEF Run, Ordered
  <1>3. stop \in 0..Total /\ stop > 0
    BY CohortAssumption
  <1>4. TypeOK'
    BY <1>2, <1>3 DEF Run, TypeOK
  <1>5. TodoInv' /\ MemoryInv'
    BY <1>1, <1>2 DEF Run, IInv, TodoInv, MemoryInv
  <1>6. SaveInv' /\ ExportInv' /\ ReturnInv'
    BY <1>1, <1>2
    DEF Run, IInv, SaveInv, LatestLoads, Loads, ExportInv, ReturnInv, At, Holds, Last, Final
  <1>7. CommitInv'
    BY <1>1, <1>2, WritesSeparate DEF Run, IInv, CommitInv, At
  <1> QED BY <1>4, <1>5, <1>6, <1>7 DEF IInv

\* Two of the three steps of an update, which write nothing.
LEMMA TrainStep ==
  ASSUME TypeOK, IInv, Train
  PROVE  TypeOK' /\ IInv'
  <1> USE DEF store, results
  <1>1. /\ mem # None /\ todo = <<>> /\ mirrored = {} /\ score' = score
        /\ mem \in Memories /\ Settled(score, mem)
    BY WritesSeparate DEF Train, IInv, TodoInv, MemoryInv, At, TypeOK
  <1>2. mem.step < Total /\ score \in Scores
    BY <1>1, CohortAssumption DEF Train, TypeOK, Memories
  <1>3. /\ mem' \in Memories /\ mem'.step = mem.step + 1
        /\ Unsettled(score, mem', <<"evaluate">>)
    BY <1>1, <1>2, TrainUnsettles DEF Train
  <1>4. mem' # None
    BY <1>3, NoneAssumption
  <1>5. todo' = <<"evaluate">> /\ todo' \notin Seq(Writes) /\ Head(todo') = "evaluate"
    BY WritesSeparate DEF Train
  <1>6. Ordered(todo')
    BY <1>5 DEF Ordered
  <1>7. TypeOK'
    BY <1>3, <1>5 DEF Train, TypeOK
  <1>8. TodoInv' /\ MemoryInv'
    BY <1>1, <1>3, <1>4, <1>5, <1>6 DEF Train, IInv, TodoInv, MemoryInv
  <1>9. SaveInv' /\ ExportInv' /\ ReturnInv'
    BY <1>1, <1>5
    DEF Train, IInv, SaveInv, LatestLoads, Loads, ExportInv, ReturnInv, At, Holds, Last, Final
  <1>10. CommitInv'
    <2>1. latest # None => latest.step <= mem.step /\ latest.step \in Nat /\ mem.step \in Nat
      BY <1>1, CohortAssumption DEF IInv, CommitInv, TypeOK, Pointers, Memories
    <2> QED BY <1>3, <1>5, <2>1 DEF Train, CommitInv
  <1> QED BY <1>7, <1>8, <1>9, <1>10 DEF IInv

LEMMA EvaluateStepStep ==
  ASSUME TypeOK, IInv, EvaluateStep
  PROVE  TypeOK' /\ IInv'
  <1> USE DEF store, results
  <1>1. /\ mem # None /\ mirrored = {} /\ score' = score /\ score \in Scores
        /\ mem \in Memories /\ Unsettled(score, mem, <<"evaluate">>)
    BY WritesSeparate DEF EvaluateStep, IInv, TodoInv, MemoryInv, At, TypeOK
  <1>2. /\ mem' \in Memories /\ mem'.step = mem.step
        /\ StageFinished(mem) => Unsettled(score, mem', <<"close">>)
        /\ ~StageFinished(mem) => mem.step < Total /\ Settled(score, mem')
    BY <1>1, EvaluateSettles DEF EvaluateStep
  <1>3. mem' # None
    BY <1>2, NoneAssumption
  <1>4. CASE StageFinished(mem)
    <2>1. todo' = <<"close">> /\ todo' \notin Seq(Writes) /\ Head(todo') = "close"
      BY <1>4, WritesSeparate DEF EvaluateStep
    <2>2. Ordered(todo')
      BY <2>1 DEF Ordered
    <2>3. TypeOK'
      BY <1>2, <2>1 DEF EvaluateStep, TypeOK
    <2>4. TodoInv' /\ MemoryInv'
      BY <1>1, <1>2, <1>3, <1>4, <2>1, <2>2 DEF EvaluateStep, IInv, TodoInv, MemoryInv
    <2>5. SaveInv' /\ ExportInv' /\ ReturnInv' /\ CommitInv'
      BY <1>1, <1>2, <2>1
      DEF EvaluateStep, IInv, SaveInv, LatestLoads, Loads, ExportInv, ReturnInv, CommitInv,
          At, Holds, Last, Final
    <2> QED BY <2>3, <2>4, <2>5 DEF IInv
  <1>5. CASE ~StageFinished(mem)
    <2>1. /\ todo' \in Seq(Writes) /\ Ordered(todo')
          /\ todo' # <<>> => Head(todo') = "copy"
      BY <1>5, AfterStepOrdered DEF EvaluateStep
    <2>2. TypeOK'
      BY <1>2, <2>1 DEF EvaluateStep, TypeOK
    <2>3. TodoInv' /\ MemoryInv'
      BY <1>1, <1>2, <1>3, <1>5, <2>1 DEF EvaluateStep, IInv, TodoInv, MemoryInv
    <2>4. SaveInv' /\ ExportInv' /\ ReturnInv'
      BY <1>1, <1>2, <2>1
      DEF EvaluateStep, IInv, SaveInv, LatestLoads, Loads, ExportInv, ReturnInv,
          At, Holds, Last, Final
    <2>5. CommitInv'
      <3>1. mem'.step # Total
        BY <1>1, <1>2, <1>5, CohortAssumption DEF Memories
      <3> QED BY <1>1, <1>2, <3>1 DEF EvaluateStep, IInv, CommitInv
    <2> QED BY <2>2, <2>3, <2>4, <2>5 DEF IInv
  <1> QED BY <1>4, <1>5

LEMMA CloseStageStep ==
  ASSUME TypeOK, IInv, CloseStage
  PROVE  TypeOK' /\ IInv'
  <1> USE DEF store, results
  <1>1. /\ mem # None /\ mirrored = {} /\ score' = score /\ score \in Scores
        /\ mem \in Memories /\ Unsettled(score, mem, <<"close">>)
    BY WritesSeparate DEF CloseStage, IInv, TodoInv, MemoryInv, At, TypeOK
  <1>2. mem' \in Memories /\ mem'.step = mem.step /\ Settled(score, mem')
    BY <1>1, CloseSettles DEF CloseStage
  <1>3. mem' # None
    BY <1>2, NoneAssumption
  <1>4. /\ todo' \in Seq(Writes) /\ Ordered(todo')
        /\ todo' # <<>> /\ Head(todo') = "copy"
    BY AfterStepOrdered DEF CloseStage
  <1>5. TypeOK'
    BY <1>2, <1>4 DEF CloseStage, TypeOK
  <1>6. TodoInv' /\ MemoryInv'
    BY <1>1, <1>2, <1>3, <1>4 DEF CloseStage, IInv, TodoInv, MemoryInv
  <1>7. SaveInv' /\ ExportInv' /\ ReturnInv' /\ CommitInv'
    BY <1>1, <1>2, <1>4
    DEF CloseStage, IInv, SaveInv, LatestLoads, Loads, ExportInv, ReturnInv, CommitInv,
        At, Holds, Last, Final
  <1> QED BY <1>5, <1>6, <1>7 DEF IInv

\* What every write starts from and leads to.
LEMMA Writing ==
  ASSUME TypeOK, IInv, NEW w \in Writes, mem # None, todo # <<>>, Head(todo) = w
  PROVE  /\ mem \in Memories /\ Settled(score, mem) /\ score \in Scores
         /\ todo \in Seq(Writes) /\ Ordered(todo)
         /\ mirrored # {} => w = "mirror"
  <1>1. todo \in Seq(Writes)
    <2>1. w # "evaluate" /\ w # "close"
      BY DEF Writes
    <2>2. todo # <<"evaluate">> /\ todo # <<"close">>
      BY <2>1
    <2> QED BY <2>2 DEF TypeOK
  <1> QED BY <1>1 DEF TypeOK, IInv, TodoInv, MemoryInv, At

LEMMA Doing ==
  ASSUME TypeOK, IInv, NEW w \in Writes, Do(w)
  PROVE  /\ mem # None /\ mem \in Memories /\ Settled(score, mem) /\ score \in Scores
         /\ mem' = mem /\ score' = score
         /\ todo \in Seq(Writes) /\ At({w})
         /\ todo' \in Seq(Writes) /\ Ordered(todo')
         /\ todo' # <<>> => Follows(w, Head(todo'))
         /\ todo' = <<>> => w \notin {"copy", "previous"}
         /\ mirrored # {} => w = "mirror"
  <1>1. mem # None /\ todo # <<>> /\ Head(todo) = w /\ todo' = Tail(todo)
    BY DEF Do
  <1>2. /\ mem \in Memories /\ Settled(score, mem) /\ score \in Scores
        /\ todo \in Seq(Writes) /\ Ordered(todo)
        /\ mirrored # {} => w = "mirror"
    BY <1>1, Writing
  <1>3. /\ Tail(todo) \in Seq(Writes) /\ Ordered(Tail(todo))
        /\ Tail(todo) # <<>> => Follows(w, Head(Tail(todo)))
        /\ Tail(todo) = <<>> => w \notin {"copy", "previous"}
    BY <1>1, <1>2, TailOrdered
  <1> QED BY <1>1, <1>2, <1>3 DEF Do, At

LEMMA CopyStep ==
  ASSUME TypeOK, IInv, Copy
  PROVE  TypeOK' /\ IInv'
  <1> USE DEF results
  <1>1. /\ mem # None /\ mem \in Memories /\ Settled(score, mem)
        /\ mem' = mem /\ score' = score /\ todo \in Seq(Writes) /\ At({"copy"})
        /\ todo' \in Seq(Writes) /\ Ordered(todo') /\ mirrored = {}
        /\ todo' # <<>> /\ Head(todo') = "previous"
    BY Doing DEF Copy, Writes, Follows
  <1>2. FreshName \in Names /\ FreshName \notin DOMAIN files
    BY DEF Copy, NameLeft, FreshName
  <1>3. /\ DOMAIN files' = DOMAIN files \cup {FreshName} /\ name' = FreshName
        /\ files'[FreshName] = mem
        /\ \A f \in DOMAIN files : files'[f] = files[f]
    BY <1>1, <1>2, RestoredIsSaved DEF Copy, Written
  <1>4. TypeOK'
    BY <1>1, <1>2, <1>3 DEF Copy, Do, TypeOK
  <1>5. TodoInv' /\ MemoryInv'
    BY <1>1, <1>2, <1>3 DEF Copy, IInv, TodoInv, MemoryInv
  <1>6. SaveInv'
    BY <1>1, <1>2, <1>3 DEF Copy, IInv, SaveInv, LatestLoads, Loads, At
  <1>7. CommitInv' /\ ExportInv' /\ ReturnInv'
    BY <1>1 DEF Copy, IInv, CommitInv, ExportInv, ReturnInv, At, Holds, Last, Final
  <1> QED BY <1>4, <1>5, <1>6, <1>7 DEF IInv

LEMMA SetPreviousStep ==
  ASSUME TypeOK, IInv, SetPrevious
  PROVE  TypeOK' /\ IInv'
  <1> USE DEF results
  <1>1. /\ mem # None /\ Settled(score, mem)
        /\ mem' = mem /\ score' = score /\ todo \in Seq(Writes) /\ At({"previous"})
        /\ todo' \in Seq(Writes) /\ Ordered(todo') /\ mirrored = {}
        /\ todo' # <<>> /\ Head(todo') = "publish"
    BY Doing DEF SetPrevious, Writes, Follows
  <1>2. TypeOK'
    BY <1>1 DEF SetPrevious, Do, TypeOK
  <1>3. TodoInv' /\ MemoryInv'
    BY <1>1 DEF SetPrevious, IInv, TodoInv, MemoryInv
  <1>4. SaveInv' /\ CommitInv' /\ ExportInv' /\ ReturnInv'
    BY <1>1
    DEF SetPrevious, IInv, SaveInv, LatestLoads, Loads, CommitInv, ExportInv, ReturnInv, At,
        Holds, Last, Final
  <1> QED BY <1>2, <1>3, <1>4 DEF IInv

LEMMA PublishStep ==
  ASSUME TypeOK, IInv, Publish
  PROVE  TypeOK' /\ IInv'
  <1> USE DEF results
  <1>1. /\ mem # None /\ mem \in Memories /\ Settled(score, mem)
        /\ mem' = mem /\ score' = score /\ todo \in Seq(Writes) /\ At({"publish"})
        /\ todo' \in Seq(Writes) /\ Ordered(todo') /\ mirrored = {}
        /\ todo' # <<>> => Follows("publish", Head(todo'))
    BY Doing DEF Publish, Writes
  <1>2. /\ latest' = [file |-> name, step |-> mem.step] /\ name' = name /\ files' = files
        /\ name \in DOMAIN files /\ files[name] # None /\ files[name].step = mem.step
    BY <1>1 DEF Publish, IInv, SaveInv, At
  <1>3. latest' \in Pointers /\ latest' # None
    BY <1>1, <1>2, NoneAssumption DEF TypeOK, Pointers, Memories
  <1>4. TypeOK'
    BY <1>1, <1>3 DEF Publish, Do, TypeOK
  <1>5. TodoInv' /\ MemoryInv'
    BY <1>1 DEF Publish, IInv, TodoInv, MemoryInv
  <1>6. SaveInv'
    BY <1>1, <1>2, <1>3 DEF SaveInv, LatestLoads, Loads, At, Follows
  <1>7. CommitInv'
    BY <1>1, <1>2, <1>3, CohortAssumption DEF CommitInv, Memories
  <1>8. ExportInv'
    BY <1>1 DEF ExportInv, At, Follows
  <1>9. ReturnInv'
    <2>1. returned => mem.step = Total
      <3>1. returned => Total <= mem.step
        BY <1>1 DEF IInv, ReturnInv, CommitInv
      <3> QED BY <1>1, <3>1, CohortAssumption DEF Memories
    <2> QED BY <1>1, <1>2, <1>3, <2>1 DEF Publish, IInv, ReturnInv, Holds, Last, Final
  <1> QED BY <1>4, <1>5, <1>6, <1>7, <1>8, <1>9 DEF IInv

LEMMA UnlinkStep ==
  ASSUME TypeOK, IInv, NEW old \in Names, Unlink(old)
  PROVE  TypeOK' /\ IInv'
  <1> USE DEF results
  <1>1. /\ mem # None /\ todo # <<>> /\ Head(todo) = "clean" /\ At({"clean"})
        /\ mem' = mem /\ score' = score /\ todo' = todo /\ mirrored' = mirrored
    BY DEF Unlink, At
  <1>2. todo \in Seq(Writes) /\ Settled(score, mem)
    BY <1>1, Writing DEF Writes
  <1>3. /\ name \in DOMAIN files /\ files[name] # None /\ files[name].step = mem.step
        /\ latest # None /\ latest.file = name
    BY <1>1 DEF IInv, SaveInv, At
  <1>4. /\ DOMAIN files' = DOMAIN files \ {old} /\ old # name
        /\ \A f \in DOMAIN files' : files'[f] = files[f]
    BY DEF Unlink, Keep
  <1>5. TypeOK'
    BY <1>1, <1>4 DEF Unlink, TypeOK
  <1>6. TodoInv' /\ MemoryInv'
    BY <1>1, <1>2, <1>4 DEF Unlink, IInv, TodoInv, MemoryInv, At
  <1>7. SaveInv'
    BY <1>1, <1>3, <1>4 DEF Unlink, IInv, SaveInv, LatestLoads, Loads, At
  <1>8. CommitInv' /\ ExportInv' /\ ReturnInv'
    BY <1>1 DEF Unlink, IInv, CommitInv, ExportInv, ReturnInv, At, Holds, Last, Final, Selected
  <1> QED BY <1>5, <1>6, <1>7, <1>8 DEF IInv

LEMMA CleanedStep ==
  ASSUME TypeOK, IInv, Cleaned
  PROVE  TypeOK' /\ IInv'
  <1> USE DEF results, store
  <1>1. /\ mem # None /\ Settled(score, mem)
        /\ mem' = mem /\ score' = score /\ todo \in Seq(Writes) /\ At({"clean"})
        /\ todo' \in Seq(Writes) /\ Ordered(todo') /\ mirrored = {}
        /\ todo' # <<>> => Follows("clean", Head(todo'))
    BY Doing DEF Cleaned, Writes
  <1>2. TypeOK'
    BY <1>1 DEF Cleaned, Do, TypeOK
  <1>3. TodoInv' /\ MemoryInv'
    BY <1>1 DEF Cleaned, IInv, TodoInv, MemoryInv
  <1>4. SaveInv'
    BY <1>1 DEF Cleaned, IInv, SaveInv, LatestLoads, Loads, At, Follows
  <1>5. CommitInv'
    BY <1>1 DEF Cleaned, IInv, CommitInv, At
  <1>6. ExportInv' /\ ReturnInv'
    BY <1>1 DEF Cleaned, IInv, ExportInv, ReturnInv, At, Follows, Holds, Last, Final
  <1> QED BY <1>2, <1>3, <1>4, <1>5, <1>6 DEF IInv

LEMMA SelectedType ==
  ASSUME TypeOK, mem # None, Settled(score, mem)
  PROVE  /\ Selected \in Candidates \cup {None}
         /\ mem.step = Total => Selected = Last(score).final_best /\ Selected # None
  <1>1. mem \in Memories /\ score \in Scores
    BY DEF TypeOK
  <1>2. Selected \in Candidates \cup {None}
    BY <1>1 DEF Selected, Memories
  <1> QED BY <1>1, <1>2, LastResult DEF Selected

LEMMA WriteSelectedStep ==
  ASSUME TypeOK, IInv, WriteSelected
  PROVE  TypeOK' /\ IInv'
  <1> USE DEF store
  <1>1. /\ mem # None /\ Settled(score, mem)
        /\ mem' = mem /\ score' = score /\ todo \in Seq(Writes) /\ At({"selected"})
        /\ todo' \in Seq(Writes) /\ Ordered(todo') /\ mirrored = {} /\ mirrored' = {}
        /\ todo' # <<>> => Follows("selected", Head(todo'))
    BY Doing DEF WriteSelected, Writes
  <1>2. /\ Selected \in Candidates \cup {None} /\ Selected' = Selected
        /\ mem.step = Total => Selected = Last(score).final_best /\ Selected # None
    BY <1>1, SelectedType DEF Selected
  <1>3. Selected # None =>
          /\ DOMAIN out' = DOMAIN out \cup {"selected"} /\ out'["selected"] = Selected
          /\ \A f \in DOMAIN out \ {"selected"} : out'[f] = out[f]
    BY DEF WriteSelected, Written
  <1>4. Selected = None => out' = out
    BY DEF WriteSelected
  <1>5. Directory(out')
    BY <1>2, <1>3, <1>4 DEF TypeOK, Directory
  <1>6. TypeOK'
    BY <1>1, <1>5 DEF WriteSelected, Do, TypeOK, Directory
  <1>7. TodoInv' /\ MemoryInv'
    BY <1>1 DEF WriteSelected, IInv, TodoInv, MemoryInv
  <1>8. SaveInv' /\ CommitInv' /\ ReturnInv'
    BY <1>1
    DEF WriteSelected, IInv, SaveInv, LatestLoads, Loads, CommitInv, ReturnInv, At, Follows,
        Holds, Last, Final
  <1>9. ExportInv'
    <2>1. Selected # None => "selected" \in DOMAIN out'
      BY <1>3
    <2>2. mem.step = Total => Holds(score, out', "selected")
      BY <1>2, <1>3 DEF Holds
    <2> QED BY <1>1, <1>2, <2>1, <2>2 DEF ExportInv, At, Follows
  <1> QED BY <1>6, <1>7, <1>8, <1>9 DEF IInv

LEMMA WriteResultStep ==
  ASSUME TypeOK, IInv, WriteResult
  PROVE  TypeOK' /\ IInv'
  <1> USE DEF store
  <1>1. /\ mem # None /\ mem \in Memories /\ Settled(score, mem) /\ score \in Scores
        /\ mem' = mem /\ score' = score /\ todo \in Seq(Writes) /\ At({"result"})
        /\ todo' \in Seq(Writes) /\ Ordered(todo') /\ mirrored = {} /\ mirrored' = {}
        /\ todo' # <<>> => Follows("result", Head(todo'))
    BY Doing DEF WriteResult, Writes
  <1>2. /\ Selected \in Candidates \cup {None}
        /\ Selected # None => "selected" \in DOMAIN out /\ out["selected"] \in Candidates
        /\ mem.step = Total => Selected = Last(score).final_best /\ Selected # None
    BY <1>1, SelectedType DEF IInv, ExportInv, TypeOK, Directory
  <1>3. Result \in Results
    <2> DEFINE stages == [i \in DOMAIN mem.completed_stages |-> mem.completed_stages[i].stage]
               evaluated == [i \in DOMAIN mem.evaluations |-> mem.evaluations[i].step]
               best == IF Selected = None THEN None ELSE out["selected"]
               complete == mem.step = Total
    <2>1. mem.completed_stages \in Seq(Candidates) /\ mem.evaluations \in Seq(Candidates)
      BY <1>1 DEF Memories
    <2>2. \A c \in Candidates : c.stage \in Stages /\ c.step \in Nat
      BY DEF Candidates
    <2>3. stages \in Seq(Stages) /\ evaluated \in Seq(Nat)
      <3>1. /\ stages \in [1..Len(mem.completed_stages) -> Stages]
            /\ evaluated \in [1..Len(mem.evaluations) -> Nat]
        BY <2>1, <2>2
      <3>2. Len(mem.completed_stages) \in Nat /\ Len(mem.evaluations) \in Nat
        BY <2>1
      <3> HIDE DEF stages, evaluated
      <3> QED BY <3>1, <3>2
    <2>4. best \in Candidates \cup {None}
      BY <1>2
    <2>5. complete \in BOOLEAN /\ mem.step \in Nat
      BY <1>1, CohortAssumption DEF Memories
    <2>6. Result = [complete |-> complete, steps |-> mem.step, stages |-> stages,
                    evaluated |-> evaluated, selected |-> best]
      BY DEF Result
    <2> HIDE DEF stages, evaluated, best, complete
    <2> QED BY <2>3, <2>4, <2>5, <2>6 DEF Results
  <1>4. /\ DOMAIN out' = DOMAIN out \cup {"result"} /\ out'["result"] = Result
        /\ \A f \in DOMAIN out \ {"result"} : out'[f] = out[f]
    BY DEF WriteResult, Written
  <1>5. Directory(out')
    BY <1>3, <1>4 DEF TypeOK, Directory
  <1>6. TypeOK'
    BY <1>1, <1>5 DEF WriteResult, Do, TypeOK, Directory
  <1>7. TodoInv' /\ MemoryInv'
    BY <1>1 DEF WriteResult, IInv, TodoInv, MemoryInv
  <1>8. SaveInv' /\ CommitInv' /\ ReturnInv'
    BY <1>1
    DEF WriteResult, IInv, SaveInv, LatestLoads, Loads, CommitInv, ReturnInv, At, Follows,
        Holds, Last, Final
  <1>9. ASSUME mem.step = Total
        PROVE  Holds(score, out', "selected") /\ Holds(score, out', "result")
    <2>1. Holds(score, out, "selected")
      BY <1>1, <1>9 DEF IInv, ExportInv, At
    <2>2. Holds(score, out', "selected")
      BY <1>4, <2>1 DEF Holds
    <2>3. out["selected"] = Last(score).final_best /\ mem = Last(score)
      BY <1>1, <1>9, <2>1, LastResult DEF Holds
    <2>4. [i \in DOMAIN mem.completed_stages |-> mem.completed_stages[i].stage] =
            [s \in Stages |-> s]
      BY <1>1, <1>9, LastResult
    <2>5. Result = Final(Last(score))
      BY <1>2, <1>9, <2>3, <2>4 DEF Result, Final
    <2> QED BY <1>4, <2>2, <2>5 DEF Holds
  <1>10. ExportInv'
    BY <1>1, <1>9 DEF ExportInv, At, Follows
  <1> QED BY <1>6, <1>7, <1>8, <1>10 DEF IInv

LEMMA MirrorStep ==
  ASSUME TypeOK, IInv, NEW file \in DOMAIN out, Mirror(file)
  PROVE  TypeOK' /\ IInv'
  <1> USE DEF store
  <1>1. /\ mem # None /\ todo # <<>> /\ Head(todo) = "mirror" /\ At({"mirror"})
        /\ mem' = mem /\ score' = score /\ todo' = todo /\ out' = out
    BY DEF Mirror, At
  <1>2. mem \in Memories /\ todo \in Seq(Writes) /\ Settled(score, mem)
    BY <1>1, Writing DEF Writes
  <1>3. /\ DOMAIN kept' = DOMAIN kept \cup {file} /\ kept'[file] = out[file]
        /\ \A f \in DOMAIN kept \ {file} : kept'[f] = kept[f]
        /\ mirrored' = mirrored \cup {file} /\ file \in {"selected", "result"}
    BY DEF Mirror, Written, TypeOK, Directory
  <1>4. Directory(kept')
    BY <1>3 DEF TypeOK, Directory
  <1>5. TypeOK'
    BY <1>1, <1>3, <1>4 DEF Mirror, TypeOK, Directory
  <1>6. TodoInv' /\ MemoryInv'
    BY <1>1, <1>2 DEF Mirror, IInv, TodoInv, MemoryInv, At
  <1>7. SaveInv' /\ CommitInv'
    BY <1>1 DEF Mirror, IInv, SaveInv, LatestLoads, Loads, CommitInv, At
  <1>8. ASSUME mem.step = Total
        PROVE  \A f \in {"selected", "result"} :
                  f = file \/ Holds(score, kept, f) => Holds(score, kept', f)
    <2>1. Holds(score, out, "selected") /\ Holds(score, out, "result")
      BY <1>1, <1>8 DEF IInv, ExportInv, At
    <2> QED BY <1>3, <2>1 DEF Holds
  <1>9. ExportInv'
    <2>1. mem.step = Total => \A f \in mirrored' : Holds(score, kept', f)
      <3>1. mem.step = Total => \A f \in mirrored : Holds(score, kept, f)
        BY <1>1 DEF IInv, ExportInv, At
      <3>2. mirrored \subseteq {"selected", "result"}
        BY DEF TypeOK, Directory
      <3> QED BY <1>3, <1>8, <3>1, <3>2
    <2>2. mem.step = Total => Holds(score, out, "selected") /\ Holds(score, out, "result")
      BY <1>1 DEF IInv, ExportInv, At
    <2> QED BY <1>1, <2>1, <2>2 DEF ExportInv, At
  <1>10. ReturnInv'
    <2>1. returned => Total <= mem.step
      BY <1>1 DEF IInv, ReturnInv, CommitInv
    <2>2. returned => mem.step = Total
      BY <1>2, <2>1, CohortAssumption DEF Memories
    <2> QED BY <1>1, <1>8, <2>2 DEF Mirror, IInv, ReturnInv
  <1> QED BY <1>5, <1>6, <1>7, <1>9, <1>10 DEF IInv

LEMMA MirroredStep ==
  ASSUME TypeOK, IInv, Mirrored
  PROVE  TypeOK' /\ IInv'
  <1> USE DEF store
  <1>1. /\ mem # None /\ Settled(score, mem)
        /\ mem' = mem /\ score' = score /\ todo \in Seq(Writes) /\ At({"mirror"})
        /\ todo' \in Seq(Writes) /\ Ordered(todo') /\ mirrored' = {} /\ mirrored = DOMAIN out
        /\ todo' # <<>> => Follows("mirror", Head(todo'))
    BY Doing DEF Mirrored, Writes
  <1>2. TypeOK'
    BY <1>1 DEF Mirrored, Do, TypeOK
  <1>3. TodoInv' /\ MemoryInv'
    BY <1>1 DEF Mirrored, IInv, TodoInv, MemoryInv
  <1>4. SaveInv' /\ CommitInv' /\ ReturnInv'
    BY <1>1
    DEF Mirrored, IInv, SaveInv, LatestLoads, Loads, CommitInv, ReturnInv, At, Follows,
        Holds, Last, Final
  <1>5. mem.step = Total => Holds(score, kept, "selected") /\ Holds(score, kept, "result")
    BY <1>1 DEF IInv, ExportInv, At, Holds
  <1>6. ExportInv'
    BY <1>1, <1>5 DEF Mirrored, ExportInv, At, Follows
  <1> QED BY <1>2, <1>3, <1>4, <1>6 DEF IInv

LEMMA ReturnStep ==
  ASSUME TypeOK, IInv, Return
  PROVE  TypeOK' /\ IInv'
  <1> USE DEF store, results
  <1>1. /\ mem # None /\ Settled(score, mem)
        /\ mem' = mem /\ score' = score /\ todo \in Seq(Writes) /\ At({"return"})
        /\ todo' \in Seq(Writes) /\ Ordered(todo') /\ mirrored = {}
        /\ todo' # <<>> => Follows("return", Head(todo'))
    BY Doing DEF Return, Writes
  <1>2. TypeOK'
    BY <1>1, CohortAssumption DEF Return, Do, TypeOK
  <1>3. TodoInv' /\ MemoryInv'
    BY <1>1 DEF Return, IInv, TodoInv, MemoryInv
  <1>4. SaveInv' /\ CommitInv' /\ ExportInv'
    BY <1>1
    DEF Return, IInv, SaveInv, LatestLoads, Loads, CommitInv, ExportInv, At, Follows
  <1>5. ReturnInv'
    <2>1. mem.step = Total =>
            /\ Holds(score, kept, "selected") /\ Holds(score, kept, "result")
            /\ latest # None /\ latest.step = Total
      BY <1>1 DEF IInv, ExportInv, CommitInv, At
    <2> QED BY <1>1, <2>1 DEF Return, IInv, ReturnInv
  <1> QED BY <1>2, <1>3, <1>4, <1>5 DEF IInv

LEMMA GoneStep ==
  ASSUME TypeOK, IInv, NEW machine \in BOOLEAN, Gone(machine), UNCHANGED <<latest, previous, name>>,
         faults' \in 0..MaxFaults,
         \/ files' = files
         \/ NameLeft /\ files' = Written(files, FreshName, None)
  PROVE  TypeOK' /\ IInv'
  <1>1. /\ mem' = None /\ todo' = <<>> /\ end' = 0 /\ mirrored' = {}
        /\ score' = score /\ kept' = kept /\ returned' = returned
        /\ out' = out \/ out' = <<>>
    BY DEF Gone
  <1>2. /\ DOMAIN files \subseteq DOMAIN files' /\ DOMAIN files' \subseteq Names
        /\ \A f \in DOMAIN files : files'[f] = files[f]
        /\ \A f \in DOMAIN files' : f \in DOMAIN files \/ files'[f] = None
    BY DEF NameLeft, FreshName, Written, TypeOK
  <1>3. Directory(out')
    <2>1. DOMAIN <<>> = {}
      OBVIOUS
    <2> QED BY <1>1, <2>1 DEF TypeOK, Directory
  <1>4. \A f \in DOMAIN files' : files'[f] \in Memories \cup {None}
    BY <1>2 DEF TypeOK
  <1>5. 0 \in 0..Total
    BY CohortAssumption
  <1>6. TypeOK'
    BY <1>1, <1>2, <1>3, <1>4, <1>5, WritesSeparate DEF TypeOK, Directory
  <1>7. TodoInv'
    BY <1>1 DEF TodoInv, Ordered
  <1>8. MemoryInv'
    BY <1>1, <1>2 DEF IInv, MemoryInv
  <1>9. SaveInv' /\ CommitInv' /\ ExportInv'
    BY <1>1, <1>2 DEF IInv, SaveInv, LatestLoads, Loads, CommitInv, ExportInv, At
  <1>10. ReturnInv'
    BY <1>1 DEF IInv, ReturnInv
  <1> QED BY <1>6, <1>7, <1>8, <1>9, <1>10 DEF IInv

LEMMA StepInv ==
  ASSUME TypeOK, IInv, [Next]_vars
  PROVE  TypeOK' /\ IInv'
  <1>1. CASE Work
    <2>1. CASE Train BY <2>1, TrainStep
    <2>2. CASE EvaluateStep BY <2>2, EvaluateStepStep
    <2>3. CASE CloseStage BY <2>3, CloseStageStep
    <2>4. CASE Copy BY <2>4, CopyStep
    <2>5. CASE SetPrevious BY <2>5, SetPreviousStep
    <2>6. CASE Publish BY <2>6, PublishStep
    <2>7. CASE Cleaned BY <2>7, CleanedStep
    <2>8. CASE \E old \in Names : Unlink(old) BY <2>8, UnlinkStep
    <2>9. CASE WriteSelected BY <2>9, WriteSelectedStep
    <2>10. CASE WriteResult BY <2>10, WriteResultStep
    <2>11. CASE Mirrored BY <2>11, MirroredStep
    <2>12. CASE \E file \in DOMAIN out : Mirror(file) BY <2>12, MirrorStep
    <2>13. CASE Return BY <2>13, ReturnStep
    <2> QED BY <1>1, <2>1, <2>2, <2>3, <2>4, <2>5, <2>6, <2>7, <2>8, <2>9, <2>10, <2>11,
               <2>12, <2>13 DEF Work
  <1>2. CASE Start BY <1>2, StartStep
  <1>3. CASE \E stop \in Stops : Run(stop) BY <1>3, RunStep
  <1>4. ASSUME NEW machine \in BOOLEAN, Quit(machine) \/ Crash(machine) \/ Damaged
        PROVE  TypeOK' /\ IInv'
    <2>1. faults \in 0..MaxFaults /\ MaxFaults \in Nat
      BY CohortAssumption DEF TypeOK
    <2>2. faults' \in 0..MaxFaults
      <3>1. Quit(machine) => faults' = faults
        BY DEF Quit
      <3>2. Crash(machine) \/ Damaged => faults < MaxFaults /\ faults' = faults + 1
        BY DEF Crash, Damaged
      <3> QED BY <1>4, <2>1, <3>1, <3>2
    <2> QED BY <1>4, <2>2, GoneStep DEF Quit, Crash, Damaged, store
  <1>5. CASE UNCHANGED vars
    <2> USE DEF vars, store, results
    <2>1. TypeOK'
      BY <1>5 DEF TypeOK, Directory
    <2>2. TodoInv' /\ MemoryInv' /\ SaveInv'
      BY <1>5 DEF IInv, TodoInv, MemoryInv, SaveInv, LatestLoads, Loads, At
    <2>3. CommitInv' /\ ExportInv' /\ ReturnInv'
      BY <1>5 DEF IInv, CommitInv, ExportInv, ReturnInv, At, Holds, Last, Final, Selected
    <2> QED BY <2>1, <2>2, <2>3 DEF IInv
  <1> QED BY <1>1, <1>2, <1>3, <1>4, <1>5 DEF Next

\* In every reachable state the fields and files are of their types and fit
\* together.
THEOREM CohortInvariant == Spec => [](TypeOK /\ IInv)
  <1>1. (TypeOK /\ IInv) /\ [Next]_vars => (TypeOK /\ IInv)'
    BY StepInv
  <1> QED BY InitInv, <1>1, PTL DEF Spec

-----------------------------------------------------------------------------
(* What the invariant gives.                                               *)

\* Every field and file keeps its type, the trainer's steps the schedule.
THEOREM CohortTypeCorrect == Spec => []TypeOK
  BY CohortInvariant, PTL

\* Wherever a process dies, the pointer it leaves names a whole payload.
THEOREM LatestAlwaysLoads == Spec => []LatestLoads
  <1>1. IInv => LatestLoads
    BY DEF IInv, SaveInv
  <1> QED BY CohortInvariant, <1>1, PTL

\* Interrupted and uninterrupted training have the same memories.
THEOREM ResumeAlwaysReplays == Spec => []ResumeIsReplay
  <1>1. ASSUME TypeOK, IInv
        PROVE  ResumeIsReplay
    <2>1. ASSUME mem # None, todo \notin {<<"evaluate">>, <<"close">>}
          PROVE  mem = Uninterrupted[score][mem.step]
      <3>1. todo \in Seq(Writes)
        BY <1>1, <2>1 DEF TypeOK
      <3> QED BY <1>1, <2>1, <3>1 DEF IInv, MemoryInv, Settled
    <2>2. ASSUME NEW f \in DOMAIN files, files[f] # None
          PROVE  Restored(files[f]) = Uninterrupted[score][files[f].step]
      <3>1. files[f] \in Memories
        BY <1>1, <2>2 DEF TypeOK
      <3>2. files[f] = Uninterrupted[score][files[f].step]
        BY <1>1, <2>2 DEF IInv, MemoryInv, Settled
      <3> QED BY <3>1, <3>2, RestoredIsSaved
    <2> QED BY <2>1, <2>2 DEF ResumeIsReplay
  <1> QED BY CohortInvariant, <1>1, PTL

\* Each closed stage handed on a model that none it evaluated beats.
THEOREM SelectionIsBest == Spec => []SelectedIsBest
  <1>1. ASSUME TypeOK, IInv
        PROVE  SelectedIsBest
    <2> SUFFICES ASSUME mem # None, NEW i \in DOMAIN mem.completed_stages
                 PROVE  /\ mem.completed_stages[i].stage = i
                        /\ \A j \in DOMAIN mem.evaluations :
                              mem.evaluations[j].stage = i =>
                                 ~Better(score, mem.evaluations[j], mem.completed_stages[i])
      BY DEF SelectedIsBest
    <2>1. Sound(score, mem)
      BY <1>1 DEF IInv, MemoryInv, Settled, Unsettled
    <2>2. Unbeaten(score, mem, mem.completed_stages[i], i)
      BY <2>1 DEF Sound
    <2>3. mem.completed_stages[i] # None
      <3>1. mem.completed_stages \in Seq(Candidates)
        BY <1>1 DEF TypeOK, Memories
      <3>2. mem.completed_stages[i] \in Candidates
        BY <3>1
      <3> QED BY <3>2, NoneAssumption
    <2> QED BY <2>2, <2>3 DEF Unbeaten
  <1> QED BY CohortInvariant, <1>1, PTL

\* A complete result that was returned stays acceptable in the mirror.
THEOREM ReturnedStaysAccepted == Spec => []ReturnedIsAccepted
  <1>1. ASSUME TypeOK, IInv
        PROVE  ReturnedIsAccepted
    <2> SUFFICES ASSUME returned
                 PROVE  /\ Accepted(kept)
                        /\ kept["selected"] = Uninterrupted[score][Total].final_best
      BY DEF ReturnedIsAccepted
    <2>1. /\ Holds(score, kept, "selected") /\ Holds(score, kept, "result")
          /\ latest # None /\ latest.step = Total
      BY <1>1 DEF IInv, ReturnInv
    <2> DEFINE m == files[latest.file]
    <2>2. m \in Memories /\ Settled(score, m) /\ m.step = Total
      BY <1>1, <2>1 DEF IInv, SaveInv, MemoryInv, LatestLoads, Loads, TypeOK
    <2> HIDE DEF m
    <2>3. /\ m = Last(score) /\ m.evaluations \in Seq(Candidates)
          /\ m.evaluations # <<>> /\ m.evaluations[Len(m.evaluations)].step = Total
      BY <1>1, <2>2, LastResult DEF TypeOK, Memories
    <2>4. kept["result"] = Final(m) /\ kept["selected"] = m.final_best
      BY <2>1, <2>3 DEF Holds
    <2> DEFINE evaluated == [i \in DOMAIN m.evaluations |-> m.evaluations[i].step]
    <2>5. evaluated # <<>> /\ evaluated[Len(evaluated)] = Total
      <3>1. Len(m.evaluations) \in Nat \ {0} /\ DOMAIN m.evaluations = 1..Len(m.evaluations)
        BY <2>3
      <3>2. Len(evaluated) = Len(m.evaluations)
        BY <3>1
      <3>3. evaluated[Len(evaluated)] = m.evaluations[Len(m.evaluations)].step
        BY <3>1, <3>2
      <3> QED BY <2>3, <3>1, <3>2, <3>3
    <2>6. /\ kept["result"].complete /\ kept["result"].steps = Total
          /\ kept["result"].selected = kept["selected"]
          /\ kept["result"].stages = [s \in Stages |-> s]
          /\ kept["result"].evaluated = evaluated
      BY <2>4 DEF Final
    <2> HIDE DEF evaluated
    <2>7. Accepted(kept)
      BY <2>1, <2>5, <2>6 DEF Accepted, Holds
    <2> QED BY <2>3, <2>4, <2>7 DEF Last
  <1> QED BY CohortInvariant, <1>1, PTL

\* No step moves the pointer back to an earlier checkpoint.
THEOREM CommitsNeverRegress ==
  Spec => [][latest # None => latest' # None /\ latest'.step >= latest.step]_latest
  <1>1. ASSUME TypeOK, IInv, [Next]_vars
        PROVE  [latest # None => latest' # None /\ latest'.step >= latest.step]_latest
    <2>1. CASE Publish
      <3>1. mem # None /\ latest' = [file |-> name, step |-> mem.step]
        BY <2>1 DEF Publish, Do
      <3>2. latest' # None
        <4>1. name \in DOMAIN files
          BY <1>1, <2>1 DEF Publish, Do, IInv, SaveInv, At
        <4>2. name \in Names /\ mem \in Memories
          BY <1>1, <3>1, <4>1 DEF TypeOK
        <4>3. latest' \in Pointers
          BY <3>1, <4>2 DEF Pointers, Memories
        <4> QED BY <4>3, NoneAssumption
      <3>3. latest # None => latest.step <= mem.step
        BY <1>1, <3>1 DEF IInv, CommitInv
      <3> QED BY <3>1, <3>2, <3>3
    <2>2. CASE ~Publish
      BY <1>1, <2>2
      DEF Next, Work, vars, store, Train, EvaluateStep, CloseStage, Copy, SetPrevious, Unlink,
          Cleaned, WriteSelected, WriteResult, Mirror, Mirrored, Return, Start, Run, Quit,
          Crash, Damaged
    <2> QED BY <2>1, <2>2
  <1> QED BY CohortInvariant, <1>1, PTL DEF Spec

-----------------------------------------------------------------------------
(* The trainer, its checkpoints and its mirror implement Training.         *)

Checkpoint == IF latest = None THEN None ELSE Restored(files[latest.file])

Handed == IF returned THEN kept["selected"] ELSE None

\* Where the run is: the step the trainer has walked to, the step committed.
StepWalked == IF todo \in {<<"evaluate">>, <<"close">>} THEN mem.step - 1 ELSE mem.step

At0(place, n) == IF place = None THEN None ELSE Uninterrupted[score][n]

LEMMA CheckpointIsReplay ==
  ASSUME NEW sc \in Scores, NEW m \in Memories \cup {None}, m # None, Settled(sc, m)
  PROVE  Restored(m) = Uninterrupted[sc][m.step]
  BY RestoredIsSaved DEF Settled

\* All three are points of the uninterrupted run.
LEMMA PointsOfTheRun ==
  ASSUME TypeOK, IInv
  PROVE  /\ Walked = At0(mem, StepWalked)
         /\ Checkpoint = At0(latest, latest.step)
         /\ Handed = IF returned THEN Last(score).final_best ELSE None
  <1>1. Walked = At0(mem, StepWalked)
    <2>1. CASE mem # None /\ todo \notin {<<"evaluate">>, <<"close">>}
      <3>1. todo \in Seq(Writes)
        BY <2>1 DEF TypeOK
      <3> QED BY <2>1, <3>1 DEF Walked, At0, StepWalked, IInv, MemoryInv, Settled
    <2> QED BY <2>1 DEF Walked, At0, StepWalked
  <1>2. Checkpoint = At0(latest, latest.step)
    <2>1. CASE latest # None
      <3>1. /\ latest.file \in DOMAIN files /\ files[latest.file] # None
            /\ files[latest.file].step = latest.step
        BY <2>1 DEF IInv, SaveInv, LatestLoads, Loads
      <3>2. files[latest.file] \in Memories \cup {None} /\ score \in Scores
        BY <3>1 DEF TypeOK
      <3>3. Settled(score, files[latest.file])
        BY <3>1 DEF IInv, MemoryInv
      <3> QED BY <2>1, <3>1, <3>2, <3>3, CheckpointIsReplay DEF Checkpoint, At0
    <2> QED BY <2>1 DEF Checkpoint, At0
  <1>3. Handed = IF returned THEN Last(score).final_best ELSE None
    BY DEF Handed, IInv, ReturnInv, Holds
  <1> QED BY <1>1, <1>2, <1>3

LEMMA PointsOfTheRunNext ==
  ASSUME TypeOK', IInv'
  PROVE  /\ Walked' = At0(mem, StepWalked)'
         /\ Checkpoint' = At0(latest, latest.step)'
         /\ Handed' = IF returned' THEN Last(score').final_best ELSE None
  <1>1. (TypeOK /\ IInv =>
           /\ Walked = At0(mem, StepWalked)
           /\ Checkpoint = At0(latest, latest.step)
           /\ Handed = IF returned THEN Last(score).final_best ELSE None)'
    BY PointsOfTheRun, PTL
  <1> QED BY <1>1 DEF Last

\* The trainer's fields are never None, those of the run neither.
LEMMA WalkedIsAMemory ==
  ASSUME TypeOK, IInv, mem # None, todo \in Seq(Writes)
  PROVE  /\ mem.step \in 0..Total /\ StepWalked = mem.step
         /\ Uninterrupted[score][mem.step] = mem
         /\ Uninterrupted[score][mem.step] # None
  <1>1. mem \in Memories /\ todo \notin {<<"evaluate">>, <<"close">>}
    BY WritesSeparate DEF TypeOK
  <1>2. mem = Uninterrupted[score][mem.step]
    BY DEF IInv, MemoryInv, Settled
  <1> QED BY <1>1, <1>2 DEF StepWalked, Memories

\* What the three points say of a step of the detailed specification.
Stays == UNCHANGED <<score, Walked, Checkpoint, Handed>>

LEMMA StartRefines ==
  ASSUME TypeOK, IInv, TypeOK', IInv', Start
  PROVE  Contract!Resume
  <1>1. /\ Walked = None /\ UNCHANGED <<score, Checkpoint, Handed>>
        /\ todo' \notin {<<"evaluate">>, <<"close">>}
    BY WritesSeparate DEF Start, Walked, Checkpoint, Handed, store, results, Save
  <1>2. mem' = IF latest = None THEN Fresh ELSE Checkpoint
    BY DEF Start, Checkpoint
  <1>3. latest = None => mem' = Uninterrupted[score][0]
    BY <1>2, UninterruptedAssumption DEF TypeOK
  <1>4. latest # None => Checkpoint # None /\ mem' = Checkpoint
    <2>1. latest # None => files[latest.file] \in Memories
      BY DEF Start, Loads, TypeOK
    <2> QED BY <1>2, <2>1, RestoredIsSaved, NoneAssumption DEF Checkpoint
  <1>5. latest = None => Checkpoint = None
    BY DEF Checkpoint
  <1>6. Walked' = mem'
    BY <1>1 DEF Walked
  <1> QED BY <1>1, <1>3, <1>4, <1>5, <1>6 DEF Contract!Resume, Checkpoint, Handed

\* A step in memory: the trainer stays where it was or goes one step on.
LEMMA MemoryRefines ==
  ASSUME TypeOK, IInv, TypeOK', IInv', mem # None, mem' # None,
         UNCHANGED <<score, store, results, returned>>,
         \/ StepWalked' = StepWalked
         \/ StepWalked \in 0..(Total - 1) /\ StepWalked' = StepWalked + 1
  PROVE  Contract!Next \/ Stays
  <1>1. UNCHANGED <<score, Checkpoint, Handed>>
    BY DEF Checkpoint, Handed, store, results
  <1>2. /\ Walked = Uninterrupted[score][StepWalked]
        /\ Walked' = Uninterrupted[score][StepWalked']
    BY <1>1, PointsOfTheRun, PointsOfTheRunNext DEF At0
  <1>3. CASE StepWalked' = StepWalked
    BY <1>1, <1>2, <1>3 DEF Stays
  <1>4. CASE StepWalked \in 0..(Total - 1) /\ StepWalked' = StepWalked + 1
    <2>1. Contract!Update(StepWalked)
      BY <1>1, <1>2, <1>4 DEF Contract!Update, Checkpoint, Handed
    <2> QED BY <1>4, <2>1 DEF Contract!Next
  <1> QED BY <1>3, <1>4

LEMMA TrainRefines ==
  ASSUME TypeOK, IInv, TypeOK', IInv', Train \/ EvaluateStep \/ CloseStage
  PROVE  Contract!Next \/ Stays
  <1> USE DEF store, results
  <1>1. mem # None /\ mem \in Memories /\ score \in Scores /\ mem.step \in 0..Total
    BY DEF Train, EvaluateStep, CloseStage, TypeOK, Memories
  <1>2. CASE Train
    <2>1. Settled(score, mem) /\ todo = <<>> /\ todo' = <<"evaluate">>
      BY <1>1, <1>2, WritesSeparate DEF Train, IInv, MemoryInv
    <2>2. mem.step < Total
      BY <1>1, <1>2, CohortAssumption DEF Train, TypeOK
    <2>3. mem' \in Memories /\ mem'.step = mem.step + 1
      BY <1>1, <1>2, <2>1, <2>2, TrainUnsettles DEF Train
    <2>4. StepWalked' = StepWalked
      BY <1>1, <2>1, <2>3, WritesSeparate DEF StepWalked
    <2> QED BY <1>1, <1>2, <2>3, <2>4, NoneAssumption, MemoryRefines DEF Train
  <1>3. CASE EvaluateStep
    <2>1. Unsettled(score, mem, <<"evaluate">>) /\ todo = <<"evaluate">>
      BY <1>1, <1>3, WritesSeparate DEF EvaluateStep, IInv, MemoryInv
    <2>2. mem' \in Memories /\ mem'.step = mem.step /\ mem.step > 0
      BY <1>1, <1>3, <2>1, EvaluateSettles DEF EvaluateStep, Unsettled
    <2>3. todo' = <<"close">> \/ todo' \in Seq(Writes)
      BY <1>3, AfterStepOrdered DEF EvaluateStep
    <2>4. \/ StepWalked' = StepWalked
          \/ StepWalked \in 0..(Total - 1) /\ StepWalked' = StepWalked + 1
      <3>1. StepWalked = mem.step - 1 /\ StepWalked' \in {mem.step - 1, mem.step}
        BY <2>1, <2>2, <2>3, WritesSeparate DEF StepWalked
      <3> QED BY <1>1, <2>2, <3>1, CohortAssumption
    <2> QED BY <1>1, <1>3, <2>2, <2>4, NoneAssumption, MemoryRefines DEF EvaluateStep
  <1>4. CASE CloseStage
    <2>1. Unsettled(score, mem, <<"close">>) /\ todo = <<"close">>
      BY <1>1, <1>4, WritesSeparate DEF CloseStage, IInv, MemoryInv
    <2>2. mem' \in Memories /\ mem'.step = mem.step /\ mem.step > 0
      BY <1>1, <1>4, <2>1, CloseSettles DEF CloseStage, Unsettled
    <2>3. todo' \in Seq(Writes)
      BY <1>4, AfterStepOrdered DEF CloseStage
    <2>4. StepWalked \in 0..(Total - 1) /\ StepWalked' = StepWalked + 1
      <3>1. StepWalked = mem.step - 1 /\ StepWalked' = mem.step
        BY <2>1, <2>2, <2>3, WritesSeparate DEF StepWalked
      <3> QED BY <1>1, <2>2, <3>1, CohortAssumption
    <2> QED BY <1>1, <1>4, <2>2, <2>4, NoneAssumption, MemoryRefines DEF CloseStage
  <1> QED BY <1>2, <1>3, <1>4

\* While the trainer writes it does not walk.
LEMMA WritingStays ==
  ASSUME TypeOK, IInv, TypeOK', IInv', mem # None, todo \in Seq(Writes),
         todo' \in Seq(Writes), UNCHANGED <<score, mem>>
  PROVE  /\ Walked' = Walked
         /\ UNCHANGED latest => Checkpoint' = Checkpoint
         /\ UNCHANGED returned => Handed' = Handed
  <1>1. StepWalked' = StepWalked
    BY WritesSeparate DEF StepWalked
  <1> QED BY <1>1, PointsOfTheRun, PointsOfTheRunNext DEF At0, Last

LEMMA PublishRefines ==
  ASSUME TypeOK, IInv, TypeOK', IInv', Publish, todo \in Seq(Writes), todo' \in Seq(Writes)
  PROVE  Contract!Commit
  <1>1. mem # None /\ UNCHANGED <<score, mem, returned>>
    BY DEF Publish, Do, results
  <1>2. Walked # None /\ UNCHANGED <<score, Walked, Handed>>
    BY <1>1, WritingStays, PointsOfTheRun, WalkedIsAMemory DEF At0
  <1>3. latest' # None /\ latest'.step = mem.step
    <2>1. name \in Names /\ mem.step \in 0..Total
      <3>1. name \in DOMAIN files
        BY DEF Publish, Do, IInv, SaveInv, At
      <3> QED BY <1>1, <3>1 DEF TypeOK, Memories
    <2>2. latest' \in Pointers /\ latest'.step = mem.step
      BY <2>1 DEF Publish, Pointers
    <2> QED BY <2>2, NoneAssumption
  <1>4. Checkpoint' = Walked
    BY <1>1, <1>3, PointsOfTheRun, PointsOfTheRunNext, WalkedIsAMemory DEF At0
  <1> QED BY <1>2, <1>4 DEF Contract!Commit, Checkpoint, Handed

LEMMA ReturnRefines ==
  ASSUME TypeOK, IInv, TypeOK', IInv', Return, todo \in Seq(Writes), todo' \in Seq(Writes)
  PROVE  Contract!HandOver \/ Stays
  <1>1. mem # None /\ UNCHANGED <<score, mem, latest>> /\ Head(todo) = "return"
        /\ returned' = (returned \/ mem.step = Total) /\ returned \in BOOLEAN
    BY DEF Return, Do, store, TypeOK
  <1>2. UNCHANGED <<score, Walked, Checkpoint>>
    BY <1>1, WritingStays
  <1>3. CASE mem.step = Total
    <2>1. latest # None /\ latest.step = Total
      BY <1>1, <1>3 DEF IInv, CommitInv, At
    <2>2. Walked = Last(score) /\ Checkpoint = Last(score)
      BY <1>1, <1>3, <2>1, PointsOfTheRun, WalkedIsAMemory DEF At0, Last
    <2>3. Handed' = Last(score).final_best
      BY <1>1, <1>3, PointsOfTheRunNext
    <2> QED BY <1>2, <2>2, <2>3 DEF Contract!HandOver, Checkpoint, Handed, Last
  <1>4. CASE mem.step # Total
    BY <1>1, <1>2, <1>4, WritingStays DEF Stays
  <1> QED BY <1>3, <1>4

LEMMA FileRefines ==
  ASSUME TypeOK, IInv, TypeOK', IInv',
         \/ Copy \/ SetPrevious \/ Cleaned \/ WriteSelected \/ WriteResult \/ Mirrored
         \/ \E old \in Names : Unlink(old)
         \/ \E file \in DOMAIN out : Mirror(file)
  PROVE  Stays
  <1> USE DEF store, results, Stays
  <1>1. ASSUME NEW w \in Writes, Do(w), UNCHANGED <<latest, returned>>
        PROVE  Stays
    BY <1>1, Doing, WritingStays
  <1>2. ASSUME NEW w \in Writes, mem # None, todo # <<>>, Head(todo) = w,
               UNCHANGED <<score, mem, todo, latest, returned>>
        PROVE  Stays
    BY <1>2, Writing, WritingStays
  <1>3. {"copy", "previous", "clean", "selected", "result", "mirror"} \subseteq Writes
    BY DEF Writes
  <1>4. CASE Copy \/ SetPrevious \/ Cleaned
    BY <1>1, <1>3, <1>4 DEF Copy, SetPrevious, Cleaned
  <1>5. CASE WriteSelected \/ WriteResult \/ Mirrored
    BY <1>1, <1>3, <1>5 DEF WriteSelected, WriteResult, Mirrored
  <1>6. CASE \E old \in Names : Unlink(old)
    BY <1>2, <1>3, <1>6 DEF Unlink
  <1>7. CASE \E file \in DOMAIN out : Mirror(file)
    BY <1>2, <1>3, <1>7 DEF Mirror
  <1> QED BY <1>4, <1>5, <1>6, <1>7

LEMMA GoneRefines ==
  ASSUME TypeOK, IInv, TypeOK', IInv', NEW machine \in BOOLEAN, Gone(machine), UNCHANGED latest
  PROVE  Contract!Vanish
  <1>1. Walked' = None /\ UNCHANGED <<score, Checkpoint, Handed>>
    BY PointsOfTheRun, PointsOfTheRunNext DEF Gone, Walked, At0, Last
  <1> QED BY <1>1 DEF Contract!Vanish, Checkpoint, Handed

\* Checkpoints of many files and a mirror of two are as good as one register
\* and one hand-over: only Publish commits, only a trainer's death loses
\* steps, and no crash between two files shows.
THEOREM CohortImplementsTraining == Spec => ImplementsTraining
  <1>1. Init => Contract!Init
    BY DEF Init, Contract!Init, Walked
  <1>2. (TypeOK /\ IInv) /\ [Next]_vars /\ (TypeOK /\ IInv)'
          => [Contract!Next]_(Contract!trainingVars)
    <2> SUFFICES ASSUME TypeOK, IInv, [Next]_vars, TypeOK', IInv'
                 PROVE  Contract!Next \/ Stays
      BY DEF Contract!trainingVars, Stays, Checkpoint, Handed
    <2>1. CASE Start
      BY <2>1, StartRefines DEF Contract!Next
    <2>2. CASE Train \/ EvaluateStep \/ CloseStage
      BY <2>2, TrainRefines
    <2>3. CASE Publish
      <3>1. "publish" \in Writes
        BY DEF Writes
      <3> QED BY <2>3, <3>1, Doing, PublishRefines DEF Publish, Contract!Next
    <2>4. CASE Return
      <3>1. "return" \in Writes
        BY DEF Writes
      <3> QED BY <2>4, <3>1, Doing, ReturnRefines DEF Return, Contract!Next
    <2>5. CASE \/ Copy \/ SetPrevious \/ Cleaned \/ WriteSelected \/ WriteResult \/ Mirrored
               \/ \E old \in Names : Unlink(old)
               \/ \E file \in DOMAIN out : Mirror(file)
      BY <2>5, FileRefines
    <2>6. ASSUME NEW stop \in Stops, Run(stop)
          PROVE  Stays
      <3>1. <<>> \in Seq(Writes) /\ Export \o <<"return">> \in Seq(Writes)
        BY WritesSeparate, ExportOrdered, ReturnOrdered
      <3>2. todo \in Seq(Writes) /\ todo' \in Seq(Writes) /\ mem # None
        BY <2>6, <3>1 DEF Run, Idle
      <3> QED BY <2>6, <3>2, WritingStays DEF Run, Stays, store, results
    <2>7. ASSUME NEW machine \in BOOLEAN, Quit(machine) \/ Crash(machine) \/ Damaged
          PROVE  Contract!Next
      <3>1. \E m \in BOOLEAN : Gone(m) /\ UNCHANGED latest
        BY <2>7 DEF Quit, Crash, Damaged, store
      <3> QED BY <3>1, GoneRefines DEF Contract!Next
    <2>8. CASE UNCHANGED vars
      BY <2>8 DEF vars, Stays, store, results, Walked, Checkpoint, Handed
    <2> QED BY <2>1, <2>2, <2>3, <2>4, <2>5, <2>6, <2>7, <2>8 DEF Next, Work
  <1> QED BY CohortInvariant, <1>1, <1>2, PTL DEF Spec, ImplementsTraining, Contract!Spec
=============================================================================

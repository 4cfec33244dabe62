--------------------------- MODULE CohortTraining ---------------------------
(***************************************************************************)
(* The shared IRIS training run (models/iris/training/cohort_v1.py): one   *)
(* model is trained through a sequence of stages, each of which selects    *)
(* the best of its evaluated models and hands it to the next.  The trainer *)
(* lives in the memory of a rented machine; what survives it is a          *)
(* directory of checkpoints (AtomicCheckpointStore) and a mirror of the    *)
(* results.  Files are replaced one by one, the process may die between    *)
(* any two of them, and a machine that is taken away loses its local       *)
(* output as well.                                                         *)
(*                                                                         *)
(* A model is the sequence of updates it went through, an update is named  *)
(* by everything it depends on.  Nothing is written between an update and  *)
(* the checkpoint that follows it, so all of a step's work in memory is    *)
(* one action; every file that is written, renamed or removed is another.  *)
(***************************************************************************)
EXTENDS Integers, Sequences

CONSTANTS
    Steps, EvalEvery, SaveEvery,   \* per stage: steps, evaluation_interval, checkpoint_interval
    StartIsCandidate,              \* per stage: start_checkpoint_is_candidate
    Stateful,                      \* per stage: query_schedule is STATEFUL_DIRECT_V5
    Replay,                        \* per stage: the replay bank is ranked anew at each
                                   \* evaluation, frozen at the stage's start, or kept
    Prefix,                        \* _stage_prefix: the steps before a stage
    Total, LogEvery,               \* policy["steps"], policy["log_interval"]
    Scores,                        \* functions: what evaluating a model may find
    Uninterrupted,                 \* per score: the memories of an uninterrupted run
    Names,                         \* names of checkpoint files
    Stops,                         \* where a run() may be told to stop
    None,
    MaxFaults                      \* bound: processes that die, copies that are damaged

VARIABLES
    score,      \* what evaluations find, fixed but unknown
    mem,        \* the trainer's fields, None without a process
    todo,       \* the writes before the trainer's next update
    end,        \* where the current run() stops, 0 when none is running
    name,       \* the checkpoint file being saved
    files,      \* name -> payload, None when its bytes are damaged
    latest,     \* LATEST.json
    previous,   \* PREVIOUS.json
    out,        \* the local output directory
    kept,       \* persistent_results, its mirror
    mirrored,   \* what the current export has copied there
    returned,   \* some run() has returned a complete result
    faults

store == <<name, files, latest, previous>>
results == <<out, kept, mirrored>>
vars == <<score, mem, todo, end, store, results, returned, faults>>

Stages == 1..Len(Steps)
Positive == Nat \ {0}

\* A model is known by the stage and step of its last update.
Keys == (0..Len(Steps)) \X (0..Total)

-----------------------------------------------------------------------------
(* One update, and what a stage does with it.                              *)

Fresh ==
    [step |-> 0, stage_index |-> 1, stage_step |-> 0, lineage_start |-> 0,
     stage_best |-> None, final_best |-> None, completed_stages |-> <<>>,
     evaluations |-> <<>>, model |-> <<>>, optimizer |-> 0, direct_rng |-> 0,
     replay_banks |-> <<0, 0>>, log_window |-> 0, trace |-> <<>>]

KeyOf(model) ==
    IF model = <<>> THEN <<0, 0>>
    ELSE <<model[Len(model)].stage, model[Len(model)].stage_step>>

StageSteps(m) == Steps[m.stage_index]
StageFinished(m) == m.stage_step = StageSteps(m)

\* The queries come from the subjects' generators or from the step's number.
Update(m) ==
    [stage |-> m.stage_index, stage_step |-> m.stage_step + 1,
     optimizer |-> m.optimizer, bank |-> m.replay_banks,
     rng |-> IF Stateful[m.stage_index] THEN m.direct_rng ELSE 0]

OneStep(m) ==
    [m EXCEPT !.step = @ + 1, !.stage_step = @ + 1, !.log_window = @ + 1,
              !.optimizer = @ + 1, !.model = Append(@, Update(m)),
              !.direct_rng = IF Stateful[m.stage_index] THEN @ + 1 ELSE @]

EmitLogWindow(m) ==
    IF m.step % LogEvery = 0 \/ StageFinished(m)
    THEN [m EXCEPT !.trace = Append(@, <<m.step, m.log_window>>), !.log_window = 0]
    ELSE m

Candidate(m) ==
    [stage |-> m.stage_index, step |-> m.step, model |-> m.model,
     effective_step |-> m.lineage_start + m.stage_step]

Better(sc, a, b) ==
    \/ sc[KeyOf(a.model)] < sc[KeyOf(b.model)]
    \/ sc[KeyOf(a.model)] = sc[KeyOf(b.model)] /\ a.effective_step < b.effective_step

Evaluate(sc, m) ==
    [m EXCEPT !.evaluations = Append(@, Candidate(m)),
              !.stage_best = IF @ = None \/ Better(sc, Candidate(m), @)
                             THEN Candidate(m) ELSE @]

RankReplay(m, mode) ==
    IF Replay[m.stage_index] = mode
    THEN [m EXCEPT !.replay_banks = KeyOf(m.model)] ELSE m

Evaluated(sc, m) ==
    IF m.stage_step % EvalEvery[m.stage_index] = 0 \/ StageFinished(m)
    THEN RankReplay(Evaluate(sc, m), "refresh") ELSE m

\* Slip: the next stage inherits the best model of the one before.
NextStageSlip(m) ==
    [m EXCEPT !.lineage_start = m.stage_best.effective_step,
              !.stage_index = @ + 1, !.stage_step = 0, !.optimizer = 0]

NextStage(m) ==
    [m EXCEPT !.lineage_start = m.stage_best.effective_step,
              !.stage_index = @ + 1, !.stage_step = 0,
              !.stage_best = None, !.optimizer = 0]

StageStart(sc, m) ==
    IF StartIsCandidate[m.stage_index] THEN Evaluate(sc, m) ELSE m

CompleteStage(sc, m) ==
    LET closed == [m EXCEPT !.completed_stages = Append(@, m.stage_best),
                            !.model = m.stage_best.model]
    IN  IF m.stage_index = Len(Steps)
        THEN [closed EXCEPT !.final_best = m.stage_best]
        ELSE StageStart(sc, RankReplay(NextStage(closed), "freeze"))

\* The memory after one more step.
Advance(sc, m) ==
    LET trained == Evaluated(sc, EmitLogWindow(OneStep(m)))
    IN  IF StageFinished(trained) THEN CompleteStage(sc, trained) ELSE trained

\* The constructor refuses a policy whose stages do not add up.  The
\* uninterrupted run is what Advance makes of a fresh trainer, step by step.
ASSUME CohortAssumption ==
    /\ Steps \in Seq(Positive) /\ Steps # <<>>
    /\ EvalEvery \in [Stages -> Positive] /\ SaveEvery \in [Stages -> Positive]
    /\ StartIsCandidate \in [Stages -> BOOLEAN] /\ Stateful \in [Stages -> BOOLEAN]
    /\ Replay \in [Stages -> {"refresh", "freeze", "keep"}]
    /\ Prefix \in [1..(Len(Steps) + 1) -> 0..Total]
    /\ Prefix[1] = 0 /\ Prefix[Len(Steps) + 1] = Total
    /\ \A s \in Stages : Prefix[s + 1] = Prefix[s] + Steps[s]
    /\ \A sc \in Scores : sc \in [Keys -> Int]
    /\ Stops \subseteq 1..Total /\ Total \in Stops
    /\ Total \in Nat /\ LogEvery \in Positive /\ MaxFaults \in Nat

ASSUME UninterruptedAssumption ==
    \A sc \in Scores :
        /\ Uninterrupted[sc][0] = Fresh
        /\ \A n \in 0..(Total - 1) :
              Uninterrupted[sc][n + 1] = Advance(sc, Uninterrupted[sc][n])

-----------------------------------------------------------------------------
(* Checkpoints: a payload under a name of its own, then the pointer.       *)

\* Slip: the partial log window is not part of a checkpoint.
SavedSlip == DOMAIN Fresh \ {"log_window"}

\* The fields payload() writes and _restore() reads back.
Saved ==
    {"step", "stage_index", "stage_step", "lineage_start", "stage_best",
     "final_best", "completed_stages", "evaluations", "model", "optimizer",
     "direct_rng", "replay_banks", "log_window", "trace"}

Payload(m) == [f \in Saved |-> m[f]]

Restored(payload) ==
    [f \in DOMAIN Fresh |-> IF f \in Saved THEN payload[f] ELSE Fresh[f]]

Written(directory, file, content) ==
    [f \in DOMAIN directory \cup {file} |->
        IF f = file THEN content ELSE directory[f]]

\* load() raises unless the pointer names a whole payload of its step.
Loads ==
    latest # None =>
        /\ latest.file \in DOMAIN files
        /\ files[latest.file] # None
        /\ files[latest.file].step = latest.step

\* A uuid is new; that a name is left is the bound.
NameLeft == Names \ DOMAIN files # {}

FreshName == CHOOSE n \in Names : n \notin DOMAIN files

Keep == {name} \cup IF previous = None THEN {} ELSE {previous.file}

Save == <<"copy", "previous", "publish", "clean">>
\* Slip: the mirror is made before the result is written.
ExportSlip == <<"selected", "mirror", "result">>
Export == <<"selected", "result", "mirror">>

\* What run() does after an update, m the memory it left; "finished": it
\* ended a stage, whose checkpoint _complete_stage has then saved.
AfterStep(m, finished) ==
    LET prefix == Save \o Export
        due == m.stage_step % SaveEvery[m.stage_index] = 0
        body == IF finished THEN Save
                ELSE IF due \/ m.step = end THEN prefix ELSE <<>>
        last == IF m.step # end THEN <<>>
                ELSE (IF m.step < Total THEN prefix ELSE <<>>) \o Export \o <<"return">>
    IN  body \o last

-----------------------------------------------------------------------------
Init ==
    /\ score \in Scores
    /\ mem = None /\ todo = <<>> /\ end = 0
    /\ name = None /\ files = <<>> /\ latest = None /\ previous = None
    /\ out = <<>> /\ kept = <<>> /\ mirrored = {}
    /\ returned = FALSE /\ faults = 0

Idle == mem # None /\ todo = <<>> /\ end = 0

\* Slip: the trainer resumes from the previous checkpoint when there is one.
StartSlip ==
    /\ mem = None
    /\ Loads
    /\ mem' = IF latest = None THEN Fresh
              ELSE IF previous = None THEN Restored(files[latest.file])
              ELSE Restored(files[previous.file])
    /\ todo' = IF latest = None THEN Save ELSE <<>>
    /\ UNCHANGED <<score, end, store, results, returned, faults>>

\* SharedIrisTrainer(...): resume from the checkpoint, or begin and save.
Start ==
    /\ mem = None
    /\ Loads
    /\ mem' = IF latest = None THEN Fresh ELSE Restored(files[latest.file])
    /\ todo' = IF latest = None THEN Save ELSE <<>>
    /\ UNCHANGED <<score, end, store, results, returned, faults>>

\* Slip: a run that has nothing to train returns at once.
RunSlip(stop) ==
    /\ Idle
    /\ end' = stop
    /\ todo' = IF mem.step < stop THEN <<>> ELSE <<"return">>
    /\ UNCHANGED <<score, mem, store, results, returned, faults>>

\* run(stop_after): a run that has nothing to train exports again.
Run(stop) ==
    /\ Idle
    /\ end' = stop
    /\ todo' = IF mem.step < stop THEN <<>> ELSE Export \o <<"return">>
    /\ UNCHANGED <<score, mem, store, results, returned, faults>>

\* One update, then its evaluation, then the end of its stage: steps in
\* memory, and what is to be written after the last of them.
Train ==
    /\ mem # None /\ todo = <<>> /\ mem.step < end
    /\ mem' = EmitLogWindow(OneStep(mem))
    /\ todo' = <<"evaluate">>
    /\ UNCHANGED <<score, end, store, results, returned, faults>>

EvaluateStep ==
    /\ mem # None /\ todo = <<"evaluate">>
    /\ mem' = Evaluated(score, mem)
    /\ todo' = IF StageFinished(mem) THEN <<"close">> ELSE AfterStep(mem, FALSE)
    /\ UNCHANGED <<score, end, store, results, returned, faults>>

CloseStage ==
    /\ mem # None /\ todo = <<"close">>
    /\ mem' = CompleteStage(score, mem)
    /\ todo' = AfterStep(mem, TRUE)
    /\ UNCHANGED <<score, end, store, results, returned, faults>>

\* The trainer's next write, which goes well.
Do(write) ==
    /\ mem # None /\ todo # <<>> /\ Head(todo) = write
    /\ todo' = Tail(todo)
    /\ UNCHANGED <<score, mem, faults>>

\* The payload reaches its final name, and hashes there as it did before.
Copy ==
    /\ Do("copy") /\ NameLeft
    /\ name' = FreshName
    /\ files' = Written(files, FreshName, Payload(mem))
    /\ UNCHANGED <<end, latest, previous, results, returned>>

SetPrevious ==
    /\ Do("previous")
    /\ previous' = IF latest = None THEN previous ELSE latest
    /\ UNCHANGED <<end, name, files, latest, results, returned>>

Publish ==
    /\ Do("publish")
    /\ latest' = [file |-> name, step |-> mem.step]
    /\ UNCHANGED <<end, name, files, previous, results, returned>>

\* Older payloads and orphans go one by one.
Unlink(old) ==
    /\ mem # None /\ todo # <<>> /\ Head(todo) = "clean"
    /\ old \in DOMAIN files \ Keep
    /\ files' = [f \in DOMAIN files \ {old} |-> files[f]]
    /\ UNCHANGED <<score, mem, todo, end, name, latest, previous, results,
                   returned, faults>>

Cleaned ==
    /\ Do("clean")
    /\ DOMAIN files \subseteq Keep
    /\ UNCHANGED <<end, store, results, returned>>

\* The best model of the run once it is complete, of the stage before.
Selected == IF mem.step = Total THEN mem.final_best ELSE mem.stage_best

WriteSelected ==
    /\ Do("selected")
    /\ out' = IF Selected = None THEN out ELSE Written(out, "selected", Selected)
    /\ UNCHANGED <<end, store, kept, mirrored, returned>>

\* "selected" stands for the digest of the file beside it.  The trace, a
\* third file that nothing reads again, is left out.
Result ==
    [complete |-> mem.step = Total, steps |-> mem.step,
     stages |-> [i \in DOMAIN mem.completed_stages |-> mem.completed_stages[i].stage],
     evaluated |-> [i \in DOMAIN mem.evaluations |-> mem.evaluations[i].step],
     selected |-> IF Selected = None THEN None ELSE out["selected"]]

WriteResult ==
    /\ Do("result")
    /\ out' = Written(out, "result", Result)
    /\ UNCHANGED <<end, store, kept, mirrored, returned>>

\* The mirror takes the files in the order the directory lists them, any.
Mirror(file) ==
    /\ mem # None /\ todo # <<>> /\ Head(todo) = "mirror"
    /\ file \in DOMAIN out \ mirrored
    /\ kept' = Written(kept, file, out[file])
    /\ mirrored' = mirrored \cup {file}
    /\ UNCHANGED <<score, mem, todo, end, store, out, returned, faults>>

Mirrored ==
    /\ Do("mirror")
    /\ mirrored = DOMAIN out
    /\ mirrored' = {}
    /\ UNCHANGED <<end, store, out, kept, returned>>

Return ==
    /\ Do("return")
    /\ end' = 0
    /\ returned' = (returned \/ mem.step = Total)
    /\ UNCHANGED <<store, results>>

\* The process ends; with its machine goes the local output.
Gone(machine) ==
    /\ mem' = None /\ todo' = <<>> /\ end' = 0 /\ mirrored' = {}
    /\ out' = IF machine THEN <<>> ELSE out
    /\ UNCHANGED <<score, kept, returned>>

Quit(machine) == Idle /\ Gone(machine) /\ UNCHANGED <<store, faults>>

Crash(machine) ==
    /\ mem # None /\ ~Idle
    /\ faults < MaxFaults /\ faults' = faults + 1
    /\ Gone(machine)
    /\ UNCHANGED store

\* Slip: nobody looks at the payload under its final name.
DamagedSlip ==
    /\ mem # None /\ todo # <<>> /\ Head(todo) = "copy" /\ NameLeft
    /\ faults < MaxFaults /\ faults' = faults + 1
    /\ name' = FreshName /\ files' = Written(files, FreshName, None)
    /\ todo' = Tail(todo)
    /\ UNCHANGED <<score, mem, end, latest, previous, results, returned>>

\* A payload arrives damaged under its final name: save() raises.
Damaged ==
    /\ mem # None /\ todo # <<>> /\ Head(todo) = "copy" /\ NameLeft
    /\ faults < MaxFaults /\ faults' = faults + 1
    /\ files' = Written(files, FreshName, None)
    /\ Gone(FALSE)
    /\ UNCHANGED <<name, latest, previous>>

Work ==
    \/ Train \/ EvaluateStep \/ CloseStage
    \/ Copy \/ SetPrevious \/ Publish \/ Cleaned
    \/ \E old \in Names : Unlink(old)
    \/ WriteSelected \/ WriteResult \/ Mirrored
    \/ \E file \in DOMAIN out : Mirror(file)
    \/ Return

Next ==
    \/ Work \/ Start \/ Damaged
    \/ \E stop \in Stops : Run(stop)
    \/ \E machine \in BOOLEAN : Quit(machine) \/ Crash(machine)

Spec == Init /\ [][Next]_vars

\* A trainer goes on, somebody starts one where none runs, and, again and
\* again, somebody runs it without an early stop.
Fairness == WF_vars(Work) /\ WF_vars(Start) /\ SF_vars(Run(Total))

FairSpec == Spec /\ Fairness

-----------------------------------------------------------------------------
Updates ==
    [stage : Stages, stage_step : 1..Total, optimizer : Nat, bank : Keys, rng : Nat]

Candidates ==
    [stage : Stages, step : Nat, model : Seq(Updates), effective_step : Nat]

Memories ==
    [step : 0..Total, stage_index : Stages, stage_step : Nat, lineage_start : Nat,
     stage_best : Candidates \cup {None}, final_best : Candidates \cup {None},
     completed_stages : Seq(Candidates), evaluations : Seq(Candidates),
     model : Seq(Updates), optimizer : Nat, direct_rng : Nat,
     replay_banks : Keys, log_window : Nat, trace : Seq(Nat \X Nat)]

Writes == {"copy", "previous", "publish", "clean", "selected", "result", "mirror", "return"}

Results ==
    [complete : BOOLEAN, steps : Nat, stages : Seq(Stages), evaluated : Seq(Nat),
     selected : Candidates \cup {None}]

Directory(d) ==
    /\ DOMAIN d \subseteq {"selected", "result"}
    /\ "selected" \in DOMAIN d => d["selected"] \in Candidates
    /\ "result" \in DOMAIN d => d["result"] \in Results

Pointers == [file : Names, step : 0..Total]

ASSUME NoneAssumption == None \notin Memories \cup Candidates \cup Pointers \cup Names

\* Every field and file has its type, a trainer's steps stay in the schedule.
TypeOK ==
    /\ score \in Scores
    /\ mem \in Memories \cup {None}
    /\ todo \in Seq(Writes) \cup {<<"evaluate">>, <<"close">>}
    /\ end \in 0..Total
    /\ name \in Names \cup {None}
    /\ DOMAIN files \subseteq Names
    /\ \A f \in DOMAIN files : files[f] \in Memories \cup {None}
    /\ latest \in Pointers \cup {None} /\ previous \in Pointers \cup {None}
    /\ Directory(out) /\ Directory(kept) /\ mirrored \subseteq DOMAIN out
    /\ returned \in BOOLEAN /\ faults \in 0..MaxFaults

\* What the platform asks of an imported result and the file beside it.
Accepted(directory) ==
    /\ {"selected", "result"} \subseteq DOMAIN directory
    /\ LET result == directory["result"]
       IN  /\ result.complete /\ result.steps = Total
           /\ result.selected = directory["selected"]
           /\ result.stages = [s \in Stages |-> s]
           /\ result.evaluated # <<>>
           /\ result.evaluated[Len(result.evaluated)] = Total

\* Wherever a process died, the pointer it left names a whole payload of its
\* step: save() writes the payload before the pointer and unlinks neither the
\* file of LATEST.json nor that of PREVIOUS.json.
LatestLoads == Loads

\* Between its updates a trainer, and every whole payload on disk, is in every
\* field what a run that nobody interrupted has at that step, however often
\* it was stopped, killed and resumed, and from whichever checkpoint.
ResumeIsReplay ==
    /\ mem # None /\ todo \notin {<<"evaluate">>, <<"close">>} =>
          mem = Uninterrupted[score][mem.step]
    /\ \A f \in DOMAIN files :
          files[f] # None => Restored(files[f]) = Uninterrupted[score][files[f].step]

\* Every closed stage handed on a model of its own that no other evaluated
\* model of that stage, its start included, would have beaten, although
\* evaluations were lost and made again.
SelectedIsBest ==
    mem # None =>
        \A i \in DOMAIN mem.completed_stages :
            /\ mem.completed_stages[i].stage = i
            /\ \A j \in DOMAIN mem.evaluations :
                  mem.evaluations[j].stage = i =>
                     ~Better(score, mem.evaluations[j], mem.completed_stages[i])

\* Once a run has returned a complete result, the mirror holds one that the
\* platform accepts, with the best model of the uninterrupted run beside it,
\* for ever: also while a later run exports again, file by file, and dies.
ReturnedIsAccepted ==
    returned =>
        /\ Accepted(kept)
        /\ kept["selected"] = Uninterrupted[score][Total].final_best

\* The trainer between two updates: within one, as it was before.
Walked ==
    IF mem = None THEN None
    ELSE IF todo \in {<<"evaluate">>, <<"close">>} THEN Uninterrupted[score][mem.step - 1]
    ELSE mem

Contract == INSTANCE Training WITH
    Data <- Scores, Path <- Uninterrupted, data <- score,
    memory <- Walked,
    checkpoint <- IF latest = None THEN None ELSE Restored(files[latest.file]),
    handed <- IF returned THEN kept["selected"] ELSE None

\* Files replaced one by one are as good as one checkpoint replaced at once: a
\* trainer goes on where the last one committed, no fault and no cleaning
\* moves the checkpoint, and what is handed over is the run's own result.
ImplementsTraining == Contract!Spec

\* In the end an accepted result is in the mirror and stays there, although
\* the process died in the middle of an export that no update follows.
TrainingEnds == <>[]Accepted(kept)
=============================================================================

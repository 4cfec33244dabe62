---------------------------- MODULE EngineLedger ----------------------------
(***************************************************************************)
(* The Engine's own scheduler (realsas_compiler_services/orchestrator:     *)
(* mainline.py, status_semantics.py): `execute` over one run ledger.       *)
(*                                                                         *)
(* The ledger is a file with a row per stage of a plan.  A process loads   *)
(* it, throws out what is stale, then runs the stages whose dependencies   *)
(* pass, writing the ledger before and after every adapter.  Around it     *)
(* people edit adapters and the run manifest, output files get damaged,    *)
(* and the process may die; it is then started again.                      *)
(*                                                                         *)
(* A stage is its ordinal.  The canonical plan only depends on smaller     *)
(* ordinals, so topological_stage_ids is the order of the ordinals.  The   *)
(* plan and its policies do not change: a ledger of another plan is        *)
(* refused.  PASS stands for CACHE_HIT too, FAIL for ABSTAIN and BLOCKED.  *)
(* One process at a time works on a ledger: nothing in the code locks it.  *)
(***************************************************************************)
EXTENDS Integers, FiniteSets

CONSTANTS
  NStages,      \* the stages of the plan are 1 .. NStages
  DependsOn,    \* DependsOn[s]: depends_on
  DemoWitness,  \* execution_class is DEMO_WITNESS
  Imported,     \* stages whose rows a historical import sealed
  Content,      \* what an output file may hold
  NoFile,       \* no output, or the file is missing
  Version,      \* versions of an adapter's import closure, of a manifest value
  Archive,      \* stands where an imported row has no implementation hash
  NoIdentity,   \* the empty fingerprint of a row that did not run
  MaxEdits,     \* bound: edits of adapters and manifest, damaged files
  MaxCrashes    \* bound: processes that die

Stage == 1 .. NStages

VARIABLES
  disk,      \* the ledger file: its rows and its ready_stage_ids
  files,     \* files[s]: the output file of stage s
  code,      \* code[s]: the version of the adapter's import closure on disk
  manifest,  \* manifest[s]: what the manifest file holds under s's keys
  pc,        \* where execute stands
  mem,       \* the ledger in memory
  seen,      \* the manifest execute loaded
  targets,   \* the closure of the requested targets
  resume,    \* FALSE: --no-resume
  batch,     \* ready stages of this round still to run
  edits, crashes  \* counters for the bounds

vars == <<disk, files, code, manifest, pc, mem, seen, targets, resume, batch,
          edits, crashes>>
world == <<files, code, manifest, edits, crashes>>
request == <<seen, targets, resume>>

Status == {"PENDING", "RUNNING", "PASS", "PASS_DEMO_ONLY", "FAIL"}
File == Content \cup {NoFile}

Identity == [code : Version \cup {Archive}, manifest : Version,
             inputs : [Stage -> File]]

ASSUME LedgerAssumption ==
  /\ NStages \in Nat
  /\ DependsOn \in [Stage -> SUBSET Stage]
  /\ \A s \in Stage : DependsOn[s] \subseteq 1 .. (s - 1)
  /\ DemoWitness \in BOOLEAN
  /\ Imported \subseteq Stage
  /\ Imported # {} => DemoWitness
  /\ \A s \in Imported : DependsOn[s] \subseteq Imported
  /\ NoFile \notin Content
  /\ Archive \notin Version
  /\ NoIdentity \notin Identity
  /\ MaxEdits \in Nat /\ MaxCrashes \in Nat

\* A row that ran has a fingerprint, one that passes an output, and an
\* imported one has not run here.
Row ==
  {r \in [status : Status, identity : Identity \cup {NoIdentity},
          output : File, imported : BOOLEAN] :
     /\ r.status = "PENDING" <=> r.identity = NoIdentity
     /\ r.status \in {"PASS", "PASS_DEMO_ONLY"} <=> r.output # NoFile
     /\ r.imported => r.status = "PASS_DEMO_ONLY"}

Ledger == [rows : [Stage -> Row], ready : SUBSET Stage]

-----------------------------------------------------------------------------
(* What a ledger's rows say.                                               *)

Admissible(status) == \/ status = "PASS"
                      \/ status = "PASS_DEMO_ONLY" /\ DemoWitness

DependenciesPass(rows, s) == \A d \in DependsOn[s] : Admissible(rows[d].status)

ReadyStages(rows) ==
  {s \in Stage : rows[s].status = "PENDING" /\ DependenciesPass(rows, s)}

Refreshed(rows) == [rows |-> rows, ready |-> ReadyStages(rows)]

\* validate_ledger: what a process demands of the file it loads.
Validates(ledger) ==
  /\ \A s \in Stage : Admissible(ledger.rows[s].status)
                        => DependenciesPass(ledger.rows, s)
  /\ \A s \in Stage : ledger.rows[s].status = "PASS_DEMO_ONLY" => DemoWitness
  /\ ledger.ready = ReadyStages(ledger.rows)

\* The input fingerprint of s with the outputs its dependencies' rows name.
Fingerprint(rows, s, values) ==
  [code |-> code[s], manifest |-> values[s],
   inputs |-> [d \in Stage |-> IF d \in DependsOn[s] THEN rows[d].output
                                                     ELSE NoFile]]

\* Of an imported row: no implementation hash and no dependency outputs.
ImportFingerprint(s, values) ==
  [code |-> Archive, manifest |-> values[s],
   inputs |-> [d \in Stage |-> NoFile]]

\* The row's outputs are what the files hold.
OutputsVerify(rows, s) == rows[s].output = files[s]

\* The archive and the authority that approved it do not change.
ImportedPassVerifies(rows, s) ==
  rows[s].identity = ImportFingerprint(s, seen) /\ OutputsVerify(rows, s)

\* A pass may be kept: the fingerprint and the output file are its own.
StillValid(rows, s) ==
  IF rows[s].imported THEN ImportedPassVerifies(rows, s)
  ELSE rows[s].identity = Fingerprint(rows, s, seen) /\ OutputsVerify(rows, s)

FailureIsStale(rows, s) ==
  /\ rows[s].status = "FAIL"
  /\ DependenciesPass(rows, s)
  /\ rows[s].identity # Fingerprint(rows, s, seen)

-----------------------------------------------------------------------------
(* Invalidation: a stage and all that depends on it, directly or not.      *)

Closed(C) == \A t \in Stage : DependsOn[t] \cap C # {} => t \in C

Dependents(s) ==
  {t \in Stage : \A C \in SUBSET Stage : s \in C /\ Closed(C) => t \in C}

PendingRow == [status |-> "PENDING", identity |-> NoIdentity,
               output |-> NoFile, imported |-> FALSE]

\* Slip: only the direct dependents are reopened.
InvalidateSlip(rows, S) ==
  Refreshed([t \in Stage |-> IF t \in S \/ DependsOn[t] \cap S # {}
                             THEN PendingRow ELSE rows[t]])

Invalidate(rows, S) ==
  Refreshed([t \in Stage |-> IF \E s \in S : t \in Dependents(s)
                             THEN PendingRow ELSE rows[t]])

IsFirst(s, S) == s \in S /\ \A t \in S : s <= t

-----------------------------------------------------------------------------
(* The life of one execute.                                                *)

Reading == pc \in {"idle", "done"}

Write(rows) == /\ mem' = Refreshed(rows)
               /\ disk' = mem'

Init ==
  \E c \in Content, v \in Version :
    /\ files = [s \in Stage |-> IF s \in Imported THEN c ELSE NoFile]
    /\ code = [s \in Stage |-> v]
    /\ manifest = code /\ seen = code
    /\ disk = Refreshed([s \in Stage |->
                IF s \in Imported
                THEN [status |-> "PASS_DEMO_ONLY", output |-> c,
                      identity |-> ImportFingerprint(s, code), imported |-> TRUE]
                ELSE PendingRow])
    /\ mem = disk
    /\ pc = "idle" /\ targets = {} /\ resume = TRUE /\ batch = {}
    /\ edits = 0 /\ crashes = 0

\* A set of targets with all they depend on; no target means every stage.
Closures == {C \in SUBSET Stage \ {{}} : \A s \in C : DependsOn[s] \subseteq C}

Load ==
  /\ Reading
  /\ Validates(disk)
  /\ mem' = disk
  /\ seen' = manifest
  /\ targets' \in Closures \cup {Stage}
  /\ resume' \in BOOLEAN
  /\ pc' = "verify"
  /\ UNCHANGED <<disk, batch, world>>

\* Slip: the scan ends at the first pass, stale or not.
VerifyPassesSlip ==
  LET passes == {s \in Stage : Admissible(mem.rows[s].status)}
  IN  /\ pc = "verify"
      /\ IF \A s \in Stage : IsFirst(s, passes) => StillValid(mem.rows, s)
         THEN UNCHANGED <<mem, disk>>
         ELSE \E s \in Stage : /\ IsFirst(s, passes)
                               /\ Write(Invalidate(mem.rows, {s}).rows)
      /\ pc' = "failures"
      /\ UNCHANGED <<batch, world, request>>

\* _verify_existing_passes: the first stale pass in topological order is
\* invalidated with its dependents, and the scan ends there.
VerifyPasses ==
  LET stale == {s \in Stage : /\ Admissible(mem.rows[s].status)
                              /\ ~StillValid(mem.rows, s)}
  IN  /\ pc = "verify"
      /\ IF stale = {} THEN UNCHANGED <<mem, disk>>
         ELSE \E s \in Stage : /\ IsFirst(s, stale)
                               /\ Write(Invalidate(mem.rows, {s}).rows)
      /\ pc' = "failures"
      /\ UNCHANGED <<batch, world, request>>

\* Slip: every failure is given another chance.
ResetFailuresSlip ==
  LET failed == {s \in Stage : mem.rows[s].status = "FAIL"}
  IN  /\ pc = "failures"
      /\ IF failed = {} THEN pc' = "force" /\ UNCHANGED <<mem, disk>>
         ELSE \E s \in Stage : /\ IsFirst(s, failed)
                               /\ Write(Invalidate(mem.rows, {s}).rows)
                               /\ UNCHANGED pc
      /\ UNCHANGED <<batch, world, request>>

\* One round of `while _reset_stale_failures`.
ResetFailures ==
  LET stale == {s \in Stage : FailureIsStale(mem.rows, s)}
  IN  /\ pc = "failures"
      /\ IF stale = {} THEN pc' = "force" /\ UNCHANGED <<mem, disk>>
         ELSE \E s \in Stage : /\ IsFirst(s, stale)
                               /\ Write(Invalidate(mem.rows, {s}).rows)
                               /\ UNCHANGED pc
      /\ UNCHANGED <<batch, world, request>>

\* Slip: the targets are reopened, what was built on them is not.
ForceRerunSlip ==
  /\ pc = "force"
  /\ mem' = IF resume THEN mem
            ELSE Refreshed([s \in Stage |-> IF s \in targets
                             /\ Admissible(mem.rows[s].status)
                             THEN PendingRow ELSE mem.rows[s]])
  /\ pc' = "loop"
  /\ UNCHANGED <<disk, batch, world, request>>

\* --no-resume reopens the targets that pass, in memory only.
ForceRerun ==
  /\ pc = "force"
  /\ mem' = IF resume THEN mem
            ELSE Invalidate(mem.rows,
                   {s \in targets : Admissible(mem.rows[s].status)})
  /\ pc' = "loop"
  /\ UNCHANGED <<disk, batch, world, request>>

TakeBatch ==
  /\ pc = "loop"
  /\ batch' = ReadyStages(mem.rows) \cap targets
  /\ batch' # {}
  /\ pc' = "run"
  /\ UNCHANGED <<disk, mem, world, request>>

\* _run_stage up to the adapter's call.
StartStage ==
  /\ pc = "run"
  /\ \E s \in Stage :
       /\ IsFirst(s, batch)
       /\ Write([mem.rows EXCEPT ![s] =
                  [status |-> "RUNNING", output |-> NoFile, imported |-> FALSE,
                   identity |-> Fingerprint(mem.rows, s, seen)]])
  /\ pc' = "adapter"
  /\ UNCHANGED <<batch, world, request>>

\* The adapter (external) leaves something in its output file.
AdapterWrites ==
  /\ pc = "adapter"
  /\ \E s \in Stage, c \in Content :
       IsFirst(s, batch) /\ files' = [files EXCEPT ![s] = c]
  /\ UNCHANGED <<disk, code, manifest, edits, crashes, pc, mem, batch, request>>

\* Slip: the adapter's word is taken.
NormalizedSlip(rows, s, reported) == reported

\* normalize_success_status: a demo-only dependency stays visible.
Normalized(rows, s, reported) ==
  IF \E d \in DependsOn[s] : DemoWitness /\ rows[d].status = "PASS_DEMO_ONLY"
  THEN "PASS_DEMO_ONLY" ELSE reported

\* The rest of _run_stage, for stage s.
Finish(s, status, output) ==
  /\ pc = "adapter"
  /\ IsFirst(s, batch)
  /\ Write([mem.rows EXCEPT ![s] =
             [status |-> status, output |-> output, imported |-> FALSE,
              identity |-> mem.rows[s].identity]])
  /\ batch' = batch \ {s}
  /\ pc' = IF batch' = {} THEN "loop" ELSE "run"
  /\ UNCHANGED <<world, request>>

Reported == {"PASS"} \cup IF DemoWitness THEN {"PASS_DEMO_ONLY"} ELSE {}

\* The adapter reports success and _seal_outputs finds its file.
StagePasses ==
  \E s \in batch, reported \in Reported :
    /\ files[s] # NoFile
    /\ Finish(s, Normalized(mem.rows, s, reported), files[s])

\* A failure reported, an exception, a missing output, a demo status elsewhere.
StageFails == \E s \in batch : Finish(s, "FAIL", NoFile)

\* Nothing is ready: the ledger is written and validated, execute returns.
FinishExecute ==
  /\ pc = "loop"
  /\ ReadyStages(mem.rows) \cap targets = {}
  /\ Write(mem.rows)
  /\ pc' = "done"
  /\ UNCHANGED <<batch, world, request>>

Crash ==
  /\ ~Reading
  /\ crashes < MaxCrashes
  /\ crashes' = crashes + 1
  /\ pc' = "idle" /\ mem' = disk /\ batch' = {}
  /\ UNCHANGED <<disk, files, code, manifest, edits, request>>

\* An adapter or what it imports is edited, the manifest is, a file is
\* overwritten or lost.
Edit ==
  /\ edits < MaxEdits
  /\ edits' = edits + 1
  /\ \E s \in Stage :
       \/ /\ \E v \in Version \ {code[s]} : code' = [code EXCEPT ![s] = v]
          /\ UNCHANGED <<manifest, files>>
       \/ /\ \E v \in Version \ {manifest[s]} :
               manifest' = [manifest EXCEPT ![s] = v]
          /\ UNCHANGED <<code, files>>
       \/ /\ \E c \in File \ {files[s]} : files' = [files EXCEPT ![s] = c]
          /\ UNCHANGED <<code, manifest>>
  /\ UNCHANGED <<disk, crashes, pc, mem, batch, request>>

Execute ==
  \/ VerifyPasses \/ ResetFailures \/ ForceRerun \/ TakeBatch \/ StartStage
  \/ StagePasses \/ StageFails \/ FinishExecute

Next == Load \/ Execute \/ AdapterWrites \/ Crash \/ Edit

Spec == Init /\ [][Next]_vars

\* A process that runs goes on, an adapter returns, and whoever works on
\* the run calls execute again.
FairSpec == Spec /\ WF_vars(Execute) /\ WF_vars(Load)

-----------------------------------------------------------------------------
(* What execute reports and what must hold.                                *)

Before(s) == {d \in Stage \ {s} : s \in Dependents(d)}

\* Slip: only what waits behind a failure counts.
ExitCodeSlip ==
  IF \E s \in targets : /\ mem.rows[s].status = "PENDING"
                        /\ \E d \in Before(s) : mem.rows[d].status = "FAIL"
  THEN 2 ELSE 0

ExitCode ==
  IF \E s \in targets :
       \/ mem.rows[s].status = "FAIL"
       \/ /\ mem.rows[s].status = "PENDING"
          /\ \E d \in Before(s) : mem.rows[d].status = "FAIL"
  THEN 2 ELSE 0

TypeOK ==
  /\ disk \in Ledger /\ mem \in Ledger
  /\ files \in [Stage -> File]
  /\ code \in [Stage -> Version] /\ manifest \in [Stage -> Version]
  /\ seen \in [Stage -> Version]
  /\ pc \in {"idle", "verify", "failures", "force", "loop", "run", "adapter", "done"}
  /\ targets \subseteq Stage /\ resume \in BOOLEAN
  /\ batch \subseteq Stage
  /\ edits \in 0 .. MaxEdits /\ crashes \in 0 .. MaxCrashes

\* Whenever the process dies, the file it leaves is one that the next
\* execute accepts: validate_ledger (mainline.py:475) never refuses a ledger
\* that execute wrote.
PersistedLedgerLoads == Validates(disk)

\* A row that ran, and whatever its outcome, names exactly the outputs that
\* its dependencies' rows name now, and they pass: nothing that was rebuilt
\* leaves behind a result of the version before it.
CurrentLineage(rows) ==
  \A s \in Stage : rows[s].status # "PENDING" =>
    /\ DependenciesPass(rows, s)
    /\ ~rows[s].imported => \A d \in DependsOn[s] :
                              rows[s].identity.inputs[d] = rows[d].output

LineageIsCurrent == CurrentLineage(disk.rows) /\ CurrentLineage(mem.rows)

\* "Once a dependency path is demo-only the status taint must remain
\* visible downstream" (status_semantics.py:3): no plain pass stands on a
\* demo-only one, however far upstream it is.
TaintVisible ==
  \A s \in Stage : disk.rows[s].status = "PASS" =>
    \A d \in Before(s) : disk.rows[d].status # "PASS_DEMO_ONLY"

Passing == {s \in Stage : Admissible(disk.rows[s].status)}

\* What the row of a stage that passes says of it.  An imported row names no
\* inputs.
Result(s) ==
  LET row == disk.rows[s]
  IN  [output |-> row.output, demo |-> row.status = "PASS_DEMO_ONLY",
       from |-> [d \in IF row.imported THEN {} ELSE DependsOn[s] |->
                   row.identity.inputs[d]]]

Contract == INSTANCE Build WITH
  Given <- Imported, Output <- Content,
  result <- [s \in Passing |-> Result(s)]

\* Scans that stop early, stages reopened in memory only, ledgers written
\* around every adapter and processes that die between the writes are as good
\* as a build that makes one result at a time out of those in the ledger and
\* throws results away with all that was made of them.
ImplementsBuild == Contract!Spec

\* A failure is reopened only if what it would run on is no longer what it
\* failed on, or something it depends on is reopened with it.
SealedFailure ==
  [][\A s \in Stage :
       mem.rows[s].status = "FAIL" /\ mem'.rows[s].status # "FAIL" =>
         \/ mem.rows[s].identity # Fingerprint(mem.rows, s, seen)
         \/ \E d \in Before(s) : /\ Admissible(mem.rows[d].status)
                                 /\ ~Admissible(mem'.rows[d].status)]_vars

\* An execute that returns success leaves no target behind: each of them
\* passes.
SuccessIsComplete ==
  pc = "done" /\ ExitCode = 0 => \A s \in targets : Admissible(mem.rows[s].status)

\* As long as no process died, that holds.
SuccessUnlessCrashed == crashes = 0 => SuccessIsComplete

\* Whatever was edited or damaged, in the end every pass in the ledger is
\* one of the code, the manifest and the files as they are.
EventuallyFresh ==
  <>[](\A s \in Stage : Admissible(disk.rows[s].status) =>
        /\ disk.rows[s].output = files[s]
        /\ disk.rows[s].identity.manifest = manifest[s]
        /\ disk.rows[s].identity.code \in {code[s], Archive})

\* The plan's resume contract: a pass is reused only if its input
\* fingerprint and its output verify.
ReuseIsVerified ==
  [][VerifyPasses => \A s \in Stage :
       Admissible(mem'.rows[s].status) => StillValid(mem'.rows, s)]_vars
=============================================================================

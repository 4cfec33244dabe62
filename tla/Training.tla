------------------------------ MODULE Training ------------------------------
(***************************************************************************)
(* What shared IRIS training promises to whoever rents machines for it:    *)
(* one run, fixed by its policy and data, that a trainer walks through     *)
(* step by step.  There is a single checkpoint, replaced at once and never *)
(* damaged; a trainer that begins takes it, or the start of the run.  A    *)
(* trainer may vanish at any time, and then only the way since the         *)
(* checkpoint is walked again.  A result is handed over only when the run  *)
(* ends and its last checkpoint is taken, and it is the run's.             *)
(***************************************************************************)
EXTENDS Integers

CONSTANTS Total,       \* steps of the run
          Data,        \* what a run is trained and judged on
          Path,        \* data -> 0..Total -> the memory of the run at that step
          None

VARIABLES data,        \* fixed, but unknown
          memory,      \* the fields of the trainer, None without one
          checkpoint,  \* the fields last committed
          handed       \* the selected model that was handed over

trainingVars == <<data, memory, checkpoint, handed>>

Init ==
  /\ data \in Data
  /\ memory = None /\ checkpoint = None /\ handed = None

Resume ==
  /\ memory = None
  /\ memory' = IF checkpoint = None THEN Path[data][0] ELSE checkpoint
  /\ UNCHANGED <<data, checkpoint, handed>>

Update(n) ==
  /\ memory = Path[data][n]
  /\ memory' = Path[data][n + 1]
  /\ UNCHANGED <<data, checkpoint, handed>>

Commit ==
  /\ memory # None
  /\ checkpoint' = memory
  /\ UNCHANGED <<data, memory, handed>>

Vanish ==
  /\ memory' = None
  /\ UNCHANGED <<data, checkpoint, handed>>

HandOver ==
  /\ memory = Path[data][Total] /\ checkpoint = Path[data][Total]
  /\ handed' = Path[data][Total].final_best
  /\ UNCHANGED <<data, memory, checkpoint>>

Next ==
  \/ Resume \/ Commit \/ Vanish \/ HandOver
  \/ \E n \in 0..(Total - 1) : Update(n)

Spec == Init /\ [][Next]_trainingVars
=============================================================================

---------------------------- MODULE EvidenceRace ----------------------------
(***************************************************************************)
(* The race that CompileWorkflow's comment on its lost-wakeup guard names: *)
(* evidence that arrives after the Engine found it missing and before the  *)
(* wait is committed.  CompileAttempt with one history variable.           *)
(***************************************************************************)
EXTENDS CompileAttempt

VARIABLE raced   \* Bind calls whose evidence was in when the wait was committed

\* The wait of the stage that the request is about is committed in this step.
WaitCommitted(request) ==
  LET a == request[1]
      s == request[2]
  IN  /\ execution[a][s] = "RUNNING"
      /\ execution'[a][s] = "WAITING_EXTERNAL_EVIDENCE"

RaceInit == Init /\ raced = {}

RaceNext ==
  /\ Next
  /\ raced' = (raced \ (binding' \ binding))
                \cup {request \in binding \ ready : WaitCommitted(request)}

RaceSpec == RaceInit /\ [][RaceNext]_<<vars, raced>>

\* In that race the binder sends no signal: the changed identity wakes the
\* workflow.
RaceSendsNoSignal == raced \cap ready = {}
=============================================================================

---------------------------- MODULE Compilation ----------------------------
(***************************************************************************)
(* What compiling promises to whoever uses the registry and the attempts'  *)
(* bindings.  A registry of artifacts only grows and holds one artifact    *)
(* for an identity, for ever the same.  An attempt binds its stages in     *)
(* order, each once: a stage takes an artifact that is there, or adds one  *)
(* made from the artifacts of its dependencies and from evidence it has.   *)
(* What is demo-only is taken and made by research attempts alone, and     *)
(* taints what is made from it.  An attempt completes when everything is   *)
(* bound, or fails.  Plans, executions, waits, signals, retries and lost   *)
(* answers do not show.                                                    *)
(***************************************************************************)
EXTENDS Naturals

CONSTANTS Attempt, Research,     \* attempts, those of kind research
          Stage, DependsOn,      \* the stage graph, in topological order
          Role, Required,        \* roles of external evidence
          Identity(_, _, _),     \* of a stage, from attempt and evidence
          NoArtifact

Slot == Stage \X Role

VARIABLES registry,   \* artifacts, with what they were made from
          evidence,   \* slots of external evidence, per attempt
          bound,      \* the identity bound, per attempt and stage
          outcome     \* "open", "completed" or "failed"

compilationVars == <<registry, evidence, bound, outcome>>

Init ==
  /\ registry = {}
  /\ evidence = [a \in Attempt |-> {}]
  /\ bound = [a \in Attempt |-> [s \in Stage |-> NoArtifact]]
  /\ outcome = [a \in Attempt |-> "open"]

\* Stage s is the next one of a.
Turn(a, s) ==
  /\ outcome[a] = "open"
  /\ \A d \in Stage : bound[a][d] = NoArtifact <=> d >= s

Passable(a, status) == status = "PASS" \/ (status = "PASS_DEMO_ONLY" /\ a \in Research)

OwnSlots(s, slots) == slots \cap ({s} \X Role)

\* An artifact that was made from what its identity names, was given what
\* its stage requires, and shows the taint of its parents.
Honest(a, s, art) ==
  /\ \E slots \in SUBSET evidence[a] : /\ art.id = Identity(a, s, slots)
                                     /\ OwnSlots(s, slots) \subseteq art.external
  /\ art.external \subseteq OwnSlots(s, evidence[a])
  /\ {s} \X Required[s] \subseteq art.external
  /\ art.stages = {bound[a][d] : d \in DependsOn[s]}
  /\ Passable(a, art.status)
  /\ art.status = "PASS" => \A x \in registry : x.id \in art.stages => x.status = "PASS"

-----------------------------------------------------------------------------

Attach(a, slots) ==
  /\ a \in Research /\ outcome[a] # "completed"
  /\ evidence' = [evidence EXCEPT ![a] = @ \cup slots]
  /\ UNCHANGED <<registry, bound, outcome>>

Take(a, s, art) ==
  /\ Turn(a, s)
  /\ \E slots \in SUBSET evidence[a] : art.id = Identity(a, s, slots)
  /\ Passable(a, art.status)
  /\ bound' = [bound EXCEPT ![a][s] = art.id]
  /\ UNCHANGED <<registry, evidence, outcome>>

Make(a, s, art) ==
  /\ Turn(a, s)
  /\ Honest(a, s, art)
  /\ \A x \in registry : x.id # art.id
  /\ registry' = registry \cup {art}
  /\ bound' = [bound EXCEPT ![a][s] = art.id]
  /\ UNCHANGED <<evidence, outcome>>

Complete(a) ==
  /\ outcome[a] = "open"
  /\ \A s \in Stage : bound[a][s] # NoArtifact
  /\ outcome' = [outcome EXCEPT ![a] = "completed"]
  /\ UNCHANGED <<registry, evidence, bound>>

Fail(a) ==
  /\ outcome[a] = "open"
  /\ outcome' = [outcome EXCEPT ![a] = "failed"]
  /\ UNCHANGED <<registry, evidence, bound>>

Next ==
  \E a \in Attempt :
    \/ \E slots \in SUBSET Slot : Attach(a, slots)
    \/ \E s \in Stage :
         \/ \E art \in registry : Take(a, s, art)
         \/ \E art \in registry' : Make(a, s, art)
    \/ Complete(a) \/ Fail(a)

Spec == Init /\ [][Next]_compilationVars
=============================================================================

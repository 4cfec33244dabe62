--------------------------- MODULE StageIdentity ---------------------------
(***************************************************************************)
(* The released stage graph (internal/stagegraph) and the semantic         *)
(* identity the compile resolver gives the result of a stage               *)
(* (internal/resolver/compile.go).                                         *)
(*                                                                         *)
(* The resolver hashes, stage after stage, the root inputs, versions and   *)
(* models, the external evidence of the stage and the hashes of its        *)
(* dependencies.  Up to hash collisions that chain says no more and no     *)
(* less than which root it started from and which evidence the stage and   *)
(* its ancestors had, so the identity is that record.                      *)
(***************************************************************************)
EXTENDS Naturals

CONSTANTS
  NStages,     \* the stages of the target, in topological order: 1 .. NStages
  DependsOn,   \* DependsOn[s]: the direct dependencies of s
  Required,    \* Required[s]: its external_evidence_roles
  Optional,    \* Optional[s]: its optional_external_evidence_roles
  Root         \* identities of sealed subject input, release and models

Stage == 1 .. NStages
Role == UNION {Required[s] \cup Optional[s] : s \in Stage}
Slot == Stage \X Role

ASSUME GraphAssumption ==
  /\ NStages \in Nat \ {0}
  /\ DependsOn \in [Stage -> SUBSET Stage]
  /\ \A s \in Stage : \A d \in DependsOn[s] : d < s

\* Descendants inherit evidence through the hashes of their dependencies: the
\* lineage of s is the smallest set with s and the dependencies of its members.
Lineage == [s \in Stage |->
  {d \in Stage : \A S \in SUBSET Stage :
     s \in S /\ (\A x \in S : DependsOn[x] \subseteq S) => d \in S}]

Id == [stage : Stage, root : Root, evidence : SUBSET Slot]

\* The expected semantic SHA of stage s over the given root and evidence.
Identity(s, root, evidence) ==
  [stage |-> s, root |-> root,
   evidence |-> {slot \in evidence : slot[1] \in Lineage[s]}]

\* The identity of a dependency that an identity was derived from.
ParentIdentity(id, d) == Identity(d, id.root, id.evidence)

\* The evidence of the stage itself.
OwnEvidence(id) == {slot \in id.evidence : slot[1] = id.stage}
=============================================================================

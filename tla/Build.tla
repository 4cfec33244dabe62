------------------------------- MODULE Build -------------------------------
(***************************************************************************)
(* What the Engine's scheduler promises to whoever reads a run's ledger:   *)
(* an incremental build.  There are stages with a result and stages        *)
(* without one.  A result is made of the results its stage depends on, as  *)
(* they are at that moment, and it is thrown away with all that was made   *)
(* of it; no edit, no damaged file and no process that dies does anything  *)
(* else to it.  What is made of a demo is a demo.                          *)
(***************************************************************************)
CONSTANTS Stage,
          DependsOn,  \* stage -> the stages whose results it is made of
          Given,      \* stages whose result was imported, as a demo
          Output

VARIABLE result  \* the stages that have one -> their results

Init ==
  \E o \in Output :
    result = [s \in Given |-> [output |-> o, demo |-> TRUE,
                               from |-> [d \in {} |-> o]]]

\* Nothing that is kept stands on anything that is thrown away.
Reopen ==
  \E K \in SUBSET DOMAIN result :
    /\ \A s \in K : DependsOn[s] \subseteq K
    /\ result' = [s \in K |-> result[s]]

Make(s) ==
  /\ s \notin DOMAIN result
  /\ DependsOn[s] \subseteq DOMAIN result
  /\ \E o \in Output, demo \in BOOLEAN :
       /\ \A d \in DependsOn[s] : result[d].demo => demo
       /\ result' =
            [t \in DOMAIN result \cup {s} |->
               IF t = s
               THEN [output |-> o, demo |-> demo,
                     from |-> [d \in DependsOn[s] |-> result[d].output]]
               ELSE result[t]]

Next == Reopen \/ \E s \in Stage : Make(s)

Spec == Init /\ [][Next]_result
=============================================================================

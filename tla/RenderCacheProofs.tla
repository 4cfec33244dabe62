------------------------- MODULE RenderCacheProofs -------------------------
(* Proofs about RenderCache, for any number of processes and contents.     *)
EXTENDS RenderCache, TLAPS

\* What a process knows at each place of render.
Knows(p) ==
  /\ pc[p] \in {"current", "artifact", "copy", "verify"} => expected[p] \in Content
  /\ pc[p] \in {"store", "compare", "exists", "quarantine", "wipe", "publish",
                "hit", "rendered"} =>
       output[p] = expected[p] /\ output[p] \in Content

\* What holds as long as nobody else touches the entry.
Undisturbed(p) ==
  alone[p] =>
    /\ pc[p] = "copy" => entry # NoFile /\ entry.artifact = expected[p]
    /\ pc[p] = "publish" => entry = NoFile
    /\ pc[p] # "raised"

EntryStored == entry # NoFile => entry.manifest \in Content \cup {Bad}

CacheInvariant ==
  /\ TypeOK
  /\ EntryStored /\ EntryIsWhole
  /\ \A p \in Proc : Knows(p) /\ Undisturbed(p)

LEMMA InitHolds == Init => CacheInvariant
  BY CacheAssumption
     DEF Init, CacheInvariant, TypeOK, EntryStored, EntryIsWhole, Knows, Undisturbed,
         Bytes

LEMMA EntryFacts ==
  ASSUME CacheInvariant
  PROVE  /\ Manifest \in Content \cup {Bad}
         /\ Artifact \in Bytes \cup {Bad, NoFile}
  BY CacheAssumption
     DEF CacheInvariant, TypeOK, EntryStored, Manifest, Artifact, Entry

\* Steps that leave the entry alone only concern the process that takes them.
LEMMA LocalStep ==
  ASSUME CacheInvariant, NEW p \in Proc, UNCHANGED <<entry, damage>>,
         NEW place, pc' = [pc EXCEPT ![p] = place],
         NEW digest, expected' = [expected EXCEPT ![p] = digest],
         NEW bytes, output' = [output EXCEPT ![p] = bytes],
         NEW self \in BOOLEAN, alone' = [alone EXCEPT ![p] = self],
         TypeOK', Knows(p)', Undisturbed(p)'
  PROVE  CacheInvariant'
  <1>1. ASSUME NEW q \in Proc, q # p PROVE Knows(q)' /\ Undisturbed(q)'
    BY <1>1 DEF CacheInvariant, TypeOK, Knows, Undisturbed
  <1> QED BY <1>1 DEF CacheInvariant, EntryStored, EntryIsWhole

\* Steps that put something in the entry's place disturb all others.
LEMMA EntryStep ==
  ASSUME CacheInvariant, NEW p \in Proc, NEW value, PutEntry(p, value),
         value \in Entry \cup {NoFile},
         value # NoFile => /\ value.manifest \in Content \cup {Bad}
                           /\ \/ value.manifest = Bad
                              \/ value.artifact \in {Bad, NoFile}
                              \/ value.manifest = value.artifact,
         NEW place, pc' = [pc EXCEPT ![p] = place],
         UNCHANGED <<output, expected, damage>>,
         TypeOK', Knows(p)', Undisturbed(p)'
  PROVE  CacheInvariant'
  <1>1. EntryStored' /\ EntryIsWhole'
    BY DEF PutEntry, EntryStored, EntryIsWhole
  <1>2. ASSUME NEW q \in Proc, q # p PROVE Knows(q)' /\ Undisturbed(q)'
    BY <1>2 DEF CacheInvariant, TypeOK, Knows, Undisturbed, PutEntry
  <1> QED BY <1>1, <1>2 DEF CacheInvariant

LEMMA StepKeeps ==
  ASSUME CacheInvariant, NEW p \in Proc, Begin(p) \/ Step(p) \/ Crash(p)
  PROVE  CacheInvariant'
  <1> USE DEF Goto
  <1>1. CASE Begin(p)
    <2>1. PICK old \in {output[p], NoFile, NotPng} : output' = [output EXCEPT ![p] = old]
      BY <1>1 DEF Begin
    <2>2. CASE Manifest = Bad
      <3>1. TypeOK' /\ Knows(p)' /\ Undisturbed(p)'
        BY <1>1, <2>1, <2>2 DEF Begin, CacheInvariant, TypeOK, Knows, Undisturbed, Bytes
      <3>2. expected' = [expected EXCEPT ![p] = expected[p]]
        BY <1>1, <2>2 DEF Begin, CacheInvariant, TypeOK
      <3> QED BY <1>1, <2>1, <2>2, <3>1, <3>2, LocalStep DEF Begin
    <2>3. CASE Manifest # Bad
      <3>1. Manifest \in Content
        BY <2>3, EntryFacts
      <3>2. TypeOK' /\ Knows(p)' /\ Undisturbed(p)'
        BY <1>1, <2>1, <2>3, <3>1
           DEF Begin, CacheInvariant, TypeOK, Knows, Undisturbed, Bytes
      <3> QED BY <1>1, <2>1, <2>3, <3>2, LocalStep DEF Begin
    <2> QED BY <2>2, <2>3
  <1>2. CASE UNCHANGED <<entry, output, expected, alone, damage>>
             /\ (OutputIsCurrent(p) \/ CheckArtifact(p) \/ StoreLooks(p)
                 \/ StoreCompares(p) \/ EntryExists(p) \/ Crash(p))
    <2>1. PICK place : pc' = [pc EXCEPT ![p] = place]
      BY <1>2 DEF OutputIsCurrent, CheckArtifact, StoreLooks, StoreCompares, EntryExists, Crash, Hit
    <2>2. TypeOK' /\ Knows(p)' /\ Undisturbed(p)'
      <3>1. CASE OutputIsCurrent(p)
        BY <1>2, <3>1, CacheAssumption
           DEF OutputIsCurrent, Hit, CacheInvariant, TypeOK, Knows, Undisturbed, Bytes
      <3>2. CASE CheckArtifact(p)
        <4>1. Artifact = expected[p] => entry # NoFile /\ entry.artifact = expected[p]
          BY <3>2, CacheAssumption
             DEF CheckArtifact, Artifact, CacheInvariant, Knows, Bytes
        <4> QED BY <1>2, <3>2, <4>1
             DEF CheckArtifact, CacheInvariant, TypeOK, Knows, Undisturbed
      <3>3. CASE StoreLooks(p) \/ StoreCompares(p) \/ EntryExists(p) \/ Crash(p)
        BY <1>2, <3>3
           DEF StoreLooks, StoreCompares, EntryExists, Crash, CacheInvariant, TypeOK,
               Knows, Undisturbed
      <3> QED BY <1>2, <3>1, <3>2, <3>3
    <2>3. /\ expected' = [expected EXCEPT ![p] = expected[p]]
          /\ output' = [output EXCEPT ![p] = output[p]]
          /\ alone' = [alone EXCEPT ![p] = alone[p]] /\ alone[p] \in BOOLEAN
      BY <1>2 DEF CacheInvariant, TypeOK
    <2> QED BY <1>2, <2>1, <2>2, <2>3, LocalStep
  <1>3. CASE CopyArtifact(p) \/ VerifyOutput(p) \/ Render(p)
    <2>1. TypeOK' /\ Knows(p)' /\ Undisturbed(p)'
      <3>1. CASE CopyArtifact(p)
        <4>1. Artifact \in Bytes \cup {Bad, NoFile}
          BY EntryFacts
        <4>2. Artifact = NoFile => ~alone[p]
          BY <3>1, CacheAssumption
             DEF CopyArtifact, Artifact, CacheInvariant, Undisturbed, Knows, Bytes
        <4> QED BY <3>1, <4>1, <4>2
             DEF CopyArtifact, CacheInvariant, TypeOK, Knows, Undisturbed
      <3>2. CASE VerifyOutput(p)
        BY <3>2, CacheAssumption
           DEF VerifyOutput, Hit, CacheInvariant, TypeOK, Knows, Undisturbed, Bytes
      <3>3. CASE Render(p)
        BY <3>3 DEF Render, CacheInvariant, TypeOK, Knows, Undisturbed, Bytes
      <3> QED BY <1>3, <3>1, <3>2, <3>3
    <2>2. PICK place, digest, bytes :
            /\ pc' = [pc EXCEPT ![p] = place]
            /\ expected' = [expected EXCEPT ![p] = digest]
            /\ output' = [output EXCEPT ![p] = bytes]
      <3>1. /\ expected = [expected EXCEPT ![p] = expected[p]]
            /\ output = [output EXCEPT ![p] = output[p]]
        BY DEF CacheInvariant, TypeOK
      <3> QED BY <1>3, <3>1 DEF CopyArtifact, VerifyOutput, Render, Hit
    <2>3. /\ alone' = [alone EXCEPT ![p] = alone[p]] /\ alone[p] \in BOOLEAN
          /\ UNCHANGED <<entry, damage>>
      BY <1>3 DEF CacheInvariant, TypeOK, CopyArtifact, VerifyOutput, Render
    <2> QED BY <2>1, <2>2, <2>3, LocalStep
  <1>4. CASE Quarantine(p)
    <2>1. CASE Goto(p, "wipe") /\ UNCHANGED <<entry, alone>>
      <3>1. TypeOK' /\ Knows(p)' /\ Undisturbed(p)'
        BY <1>4, <2>1 DEF Quarantine, CacheInvariant, TypeOK, Knows, Undisturbed
      <3>2. /\ expected' = [expected EXCEPT ![p] = expected[p]]
            /\ output' = [output EXCEPT ![p] = output[p]]
            /\ alone' = [alone EXCEPT ![p] = alone[p]] /\ alone[p] \in BOOLEAN
        BY <1>4, <2>1 DEF Quarantine, CacheInvariant, TypeOK
      <3> QED BY <1>4, <2>1, <3>1, <3>2, LocalStep DEF Quarantine
    <2>2. CASE entry # NoFile /\ Goto(p, "publish") /\ PutEntry(p, NoFile)
      <3>1. TypeOK' /\ Knows(p)' /\ Undisturbed(p)'
        BY <1>4, <2>2 DEF Quarantine, PutEntry, CacheInvariant, TypeOK, Knows, Undisturbed
      <3> QED BY <1>4, <2>2, <3>1, EntryStep DEF Quarantine
    <2> QED BY <1>4, <2>1, <2>2 DEF Quarantine
  <1>5. CASE Wipe(p)
    <2>1. CASE Goto(p, "publish") /\ PutEntry(p, NoFile)
      <3>1. TypeOK' /\ Knows(p)' /\ Undisturbed(p)'
        BY <1>5, <2>1 DEF Wipe, PutEntry, CacheInvariant, TypeOK, Knows, Undisturbed
      <3> QED BY <1>5, <2>1, <3>1, EntryStep DEF Wipe
    <2>2. CASE /\ Goto(p, "publish") /\ UNCHANGED entry
               /\ alone' = [alone EXCEPT ![p] = FALSE]
      <3>1. TypeOK' /\ Knows(p)' /\ Undisturbed(p)'
        BY <1>5, <2>2 DEF Wipe, CacheInvariant, TypeOK, Knows, Undisturbed
      <3>2. /\ expected' = [expected EXCEPT ![p] = expected[p]]
            /\ output' = [output EXCEPT ![p] = output[p]]
        BY <1>5, <2>2 DEF Wipe, CacheInvariant, TypeOK
      <3> QED BY <1>5, <2>2, <3>1, <3>2, LocalStep DEF Wipe
    <2>3. CASE entry # NoFile /\ UNCHANGED pc
               /\ \E half \in {[entry EXCEPT !.manifest = Bad],
                               [entry EXCEPT !.artifact = NoFile]} : PutEntry(p, half)
      <3>1. entry \in Entry /\ entry.manifest \in Content \cup {Bad}
        BY <2>3 DEF CacheInvariant, TypeOK, EntryStored
      <3>2. PICK half \in {[entry EXCEPT !.manifest = Bad],
                          [entry EXCEPT !.artifact = NoFile]} : PutEntry(p, half)
        BY <2>3
      <3>3. /\ half \in Entry
            /\ half.manifest = Bad \/ half.artifact = NoFile
            /\ half.manifest \in Content \cup {Bad}
        BY <3>1, <3>2 DEF Entry
      <3>4. TypeOK' /\ Knows(p)' /\ Undisturbed(p)'
        BY <1>5, <2>3, <3>2, <3>3
           DEF Wipe, PutEntry, CacheInvariant, TypeOK, Knows, Undisturbed
      <3>5. pc' = [pc EXCEPT ![p] = pc[p]]
        BY <2>3 DEF CacheInvariant, TypeOK
      <3> QED BY <1>5, <3>2, <3>3, <3>4, <3>5, EntryStep DEF Wipe
    <2> QED BY <1>5, <2>1, <2>2, <2>3 DEF Wipe
  <1>6. CASE Publish(p)
    <2>1. CASE entry = NoFile
      <3> DEFINE value == [manifest |-> output[p], artifact |-> output[p]]
      <3>1. output[p] \in Content /\ value \in Entry
        BY <1>6 DEF Publish, CacheInvariant, Knows, Entry, Bytes
      <3>2. TypeOK' /\ Knows(p)' /\ Undisturbed(p)'
        BY <1>6, <2>1, <3>1
           DEF Publish, PutEntry, CacheInvariant, TypeOK, Knows, Undisturbed
      <3> QED BY <1>6, <2>1, <3>1, <3>2, EntryStep DEF Publish
    <2>2. CASE entry # NoFile
      <3>1. TypeOK' /\ Knows(p)' /\ Undisturbed(p)'
        BY <1>6, <2>2 DEF Publish, CacheInvariant, TypeOK, Knows, Undisturbed
      <3>2. /\ expected' = [expected EXCEPT ![p] = expected[p]]
            /\ output' = [output EXCEPT ![p] = output[p]]
            /\ alone' = [alone EXCEPT ![p] = alone[p]] /\ alone[p] \in BOOLEAN
        BY <1>6, <2>2 DEF Publish, CacheInvariant, TypeOK
      <3> QED BY <1>6, <2>2, <3>1, <3>2, LocalStep DEF Publish
    <2> QED BY <2>1, <2>2
  <1>7. OutputIsCurrent(p) \/ CheckArtifact(p) \/ StoreLooks(p) \/ StoreCompares(p)
          \/ EntryExists(p) \/ Crash(p) => UNCHANGED <<entry, output, expected, alone, damage>>
    BY DEF OutputIsCurrent, CheckArtifact, StoreLooks, StoreCompares, EntryExists, Crash
  <1> QED BY <1>1, <1>2, <1>3, <1>4, <1>5, <1>6, <1>7 DEF Step

LEMMA DamageKeeps ==
  ASSUME CacheInvariant, Damage PROVE CacheInvariant'
  <1>1. entry \in Entry /\ entry.manifest \in Content \cup {Bad}
    BY DEF Damage, CacheInvariant, TypeOK, EntryStored
  <1>2. PICK half \in {[entry EXCEPT !.manifest = Bad], [entry EXCEPT !.artifact = Bad],
                      [entry EXCEPT !.artifact = NoFile]} : entry' = half
    BY DEF Damage
  <1>3. /\ half \in Entry
        /\ half.manifest = Bad \/ half.artifact \in {Bad, NoFile}
        /\ half.manifest \in Content \cup {Bad}
    BY <1>1 DEF Entry
  <1>4. damage' \in 0 .. MaxDamage
    BY CacheAssumption DEF Damage, CacheInvariant, TypeOK
  <1> QED BY <1>2, <1>3, <1>4
       DEF Damage, CacheInvariant, TypeOK, EntryStored, EntryIsWhole, Knows, Undisturbed

LEMMA InvariantHolds == Spec => []CacheInvariant
  <1>1. CacheInvariant /\ [Next]_vars => CacheInvariant'
    <2>1. ASSUME CacheInvariant, UNCHANGED vars PROVE CacheInvariant'
      BY <2>1 DEF vars, CacheInvariant, TypeOK, EntryStored, EntryIsWhole, Knows,
                  Undisturbed
    <2> QED BY <2>1, StepKeeps, DamageKeeps DEF Next
  <1> QED BY <1>1, InitHolds, PTL DEF Spec

\* Every variable of the cache model keeps its type.
THEOREM CacheTypeCorrect == Spec => []TypeOK
  <1>1. CacheInvariant => TypeOK
    BY DEF CacheInvariant
  <1> QED BY <1>1, InvariantHolds, PTL

\* However many processes replace the entry meanwhile, what render reports
\* is exactly what lies in the output.
THEOREM ReportExact == Spec => []ReportIsExact
  <1>1. CacheInvariant => ReportIsExact
    BY DEF CacheInvariant, ReportIsExact, Knows
  <1> QED BY <1>1, InvariantHolds, PTL

\* No interleaving of stores pairs two stores in one entry.
THEOREM EntryWhole == Spec => []EntryIsWhole
  <1>1. CacheInvariant => EntryIsWhole
    BY DEF CacheInvariant
  <1> QED BY <1>1, InvariantHolds, PTL

\* A process that nobody disturbs is never failed by the cache.
THEOREM RaiseIsRivalry == Spec => []RaiseNeedsRival
  <1>1. CacheInvariant => RaiseNeedsRival
    BY DEF CacheInvariant, RaiseNeedsRival, Undisturbed
  <1> QED BY <1>1, InvariantHolds, PTL
=============================================================================

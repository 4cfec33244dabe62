---------------------------- MODULE RenderCache ----------------------------
(***************************************************************************)
(* One node of the reference-render cache                                  *)
(* (realsas_compiler_services/cache: content_addressed.py,                 *)
(* reference_render.py) shared by processes that render the same node.     *)
(*                                                                         *)
(* An entry is a directory with an artifact and a manifest that names its  *)
(* digest; it is published by a rename and replaced by renaming the old    *)
(* one away.  There is no lock: `render` looks the node up, copies it to   *)
(* the output the process asked for, or runs the renderer and stores what  *)
(* it made.  Every file is opened by its path, so each step below sees the *)
(* directory that is there then.                                           *)
(***************************************************************************)
EXTENDS Integers, FiniteSets

CONSTANTS
  Proc,       \* processes, each with an output file of its own
  Content,    \* what the renderer may produce: contents, and their digests
  NotPng,     \* a content that is no PNG
  Bad,        \* bytes that match no digest; a manifest that does not validate
  NoFile,     \* no such file or directory
  MaxDamage   \* bound: how often files of the cache are damaged

Bytes == Content \cup {NotPng}

ASSUME CacheAssumption ==
  /\ NotPng \notin Content
  /\ Bad \notin Bytes /\ NoFile \notin Bytes /\ Bad # NoFile
  /\ MaxDamage \in Nat

VARIABLES
  entry,     \* NoFile or the directory: the manifest's digest, the artifact
  output,    \* output[p]: the file p asked for
  pc,        \* where p's render stands
  expected,  \* expected[p]: the digest p read in a manifest, or reports
  alone,     \* alone[p]: nobody else touched the entry since p began, and
             \* the disk kept every file and let go of those p removed
  damage     \* counter for the bound

vars == <<entry, output, pc, expected, alone, damage>>

Entry == [manifest : Bytes \cup {Bad}, artifact : Bytes \cup {Bad, NoFile}]

TypeOK ==
  /\ entry \in Entry \cup {NoFile}
  /\ output \in [Proc -> Bytes \cup {Bad, NoFile}]
  /\ pc \in [Proc -> {"idle", "current", "artifact", "copy", "verify", "render",
                      "store", "compare", "exists", "quarantine", "wipe",
                      "publish", "hit", "rendered", "raised", "failed"}]
  /\ expected \in [Proc -> Bytes \cup {NoFile}]
  /\ alone \in [Proc -> BOOLEAN]
  /\ damage \in 0 .. MaxDamage

Init ==
  /\ entry = NoFile
  /\ output = [p \in Proc |-> NoFile]
  /\ pc = [p \in Proc |-> "idle"]
  /\ expected = [p \in Proc |-> NoFile]
  /\ alone = [p \in Proc |-> TRUE]
  /\ damage = 0

-----------------------------------------------------------------------------

Goto(p, place) == pc' = [pc EXCEPT ![p] = place]

Ended(p) == pc[p] \in {"idle", "hit", "rendered", "raised", "failed"}

\* p leaves `value` in the entry's place: all the others are disturbed.
PutEntry(p, value) ==
  /\ entry' = value
  /\ alone' = [q \in Proc |-> alone[q] /\ (q = p \/ value = entry)]

Manifest == IF entry = NoFile THEN Bad ELSE entry.manifest
Artifact == IF entry = NoFile THEN NoFile ELSE entry.artifact

\* A process asks for the node; an older output may lie at its path.
Begin(p) ==
  /\ Ended(p)
  /\ \E old \in {output[p], NoFile, NotPng} : output' = [output EXCEPT ![p] = old]
  /\ alone' = [alone EXCEPT ![p] = TRUE]
  /\ IF Manifest = Bad
     THEN Goto(p, "render") /\ UNCHANGED expected
     ELSE Goto(p, "current") /\ expected' = [expected EXCEPT ![p] = Manifest]
  /\ UNCHANGED <<entry, damage>>

\* render looks at the bytes once more: a hit that is no PNG is rendered anew.
Hit(p) == Goto(p, IF output[p] = NotPng THEN "render" ELSE "hit")

\* restore: the output is already exact.
OutputIsCurrent(p) ==
  /\ pc[p] = "current"
  /\ IF output[p] = expected[p] THEN Hit(p) ELSE Goto(p, "artifact")
  /\ UNCHANGED <<entry, output, expected, alone, damage>>

CheckArtifact(p) ==
  /\ pc[p] = "artifact"
  /\ Goto(p, IF Artifact = expected[p] THEN "copy" ELSE "render")
  /\ UNCHANGED <<entry, output, expected, alone, damage>>

\* _atomic_copy opens the path again: it may find another artifact, or none.
CopyArtifact(p) ==
  /\ pc[p] = "copy"
  /\ IF Artifact = NoFile
     THEN Goto(p, "raised") /\ UNCHANGED output
     ELSE Goto(p, "verify") /\ output' = [output EXCEPT ![p] = Artifact]
  /\ UNCHANGED <<entry, expected, alone, damage>>

\* Slip: the check before the copy is enough.
VerifyOutputSlip(p) ==
  /\ pc[p] = "verify"
  /\ Hit(p)
  /\ UNCHANGED <<entry, output, expected, alone, damage>>

VerifyOutput(p) ==
  /\ pc[p] = "verify"
  /\ IF output[p] = expected[p]
     THEN Hit(p) /\ UNCHANGED output
     ELSE Goto(p, "render") /\ output' = [output EXCEPT ![p] = NoFile]
  /\ UNCHANGED <<entry, expected, alone, damage>>

\* The native renderer (external) writes the output and must leave a PNG.
Render(p) ==
  /\ pc[p] = "render"
  /\ \E c \in Bytes :
       /\ output' = [output EXCEPT ![p] = c]
       /\ \/ Goto(p, "failed") /\ UNCHANGED expected
          \/ c # NotPng /\ Goto(p, "store") /\ expected' = [expected EXCEPT ![p] = c]
  /\ UNCHANGED <<entry, alone, damage>>

\* store: an intact entry with these bytes is kept.
StoreLooks(p) ==
  /\ pc[p] = "store"
  /\ Goto(p, IF Manifest = output[p] THEN "compare" ELSE "exists")
  /\ UNCHANGED <<entry, output, expected, alone, damage>>

StoreCompares(p) ==
  /\ pc[p] = "compare"
  /\ Goto(p, IF Artifact = output[p] THEN "rendered" ELSE "exists")
  /\ UNCHANGED <<entry, output, expected, alone, damage>>

\* Slip: the new entry is moved over whatever is there.
EntryExistsSlip(p) ==
  /\ pc[p] = "exists"
  /\ Goto(p, "publish")
  /\ UNCHANGED <<entry, output, expected, alone, damage>>

\* entry.exists(), with the new entry ready in a directory beside it.
EntryExists(p) ==
  /\ pc[p] = "exists"
  /\ Goto(p, IF entry = NoFile THEN "publish" ELSE "quarantine")
  /\ UNCHANGED <<entry, output, expected, alone, damage>>

\* The old entry is renamed away.  If that fails, because the entry is gone
\* or for any other reason, whatever is there is wiped.
Quarantine(p) ==
  /\ pc[p] = "quarantine"
  /\ \/ Goto(p, "wipe") /\ UNCHANGED <<entry, alone>>
     \/ entry # NoFile /\ Goto(p, "publish") /\ PutEntry(p, NoFile)
  /\ UNCHANGED <<output, expected, damage>>

\* rmtree removes one file after the other, and ignores it if it cannot.
Wipe(p) ==
  /\ pc[p] = "wipe"
  /\ \/ Goto(p, "publish") /\ PutEntry(p, NoFile)
     \/ /\ entry # NoFile /\ Goto(p, "publish")
        /\ alone' = [alone EXCEPT ![p] = FALSE] /\ UNCHANGED entry
     \/ /\ entry # NoFile
        /\ \E half \in {[entry EXCEPT !.manifest = Bad],
                        [entry EXCEPT !.artifact = NoFile]} : PutEntry(p, half)
        /\ UNCHANGED pc
  /\ UNCHANGED <<output, expected, damage>>

\* Slip: the artifact is copied into the entry that is there.
PublishSlip(p) ==
  /\ pc[p] = "publish"
  /\ Goto(p, "rendered")
  /\ PutEntry(p, IF entry = NoFile THEN [manifest |-> output[p], artifact |-> output[p]]
                 ELSE [entry EXCEPT !.artifact = output[p]])
  /\ UNCHANGED <<output, expected, damage>>

\* os.replace onto a directory that is not empty raises.
Publish(p) ==
  /\ pc[p] = "publish"
  /\ IF entry = NoFile
     THEN /\ Goto(p, "rendered")
          /\ PutEntry(p, [manifest |-> output[p], artifact |-> output[p]])
     ELSE Goto(p, "raised") /\ UNCHANGED <<entry, alone>>
  /\ UNCHANGED <<output, expected, damage>>

Crash(p) ==
  /\ ~Ended(p)
  /\ Goto(p, "idle")
  /\ UNCHANGED <<entry, output, expected, alone, damage>>

\* A file of the entry is damaged or lost on the disk.
Damage ==
  /\ entry # NoFile /\ damage < MaxDamage
  /\ damage' = damage + 1
  /\ \E half \in {[entry EXCEPT !.manifest = Bad], [entry EXCEPT !.artifact = Bad],
                  [entry EXCEPT !.artifact = NoFile]} : entry' = half
  /\ alone' = [p \in Proc |-> FALSE]
  /\ UNCHANGED <<output, pc, expected>>

Step(p) ==
  \/ OutputIsCurrent(p) \/ CheckArtifact(p) \/ CopyArtifact(p) \/ VerifyOutput(p)
  \/ Render(p) \/ StoreLooks(p) \/ StoreCompares(p) \/ EntryExists(p)
  \/ Quarantine(p) \/ Wipe(p) \/ Publish(p)

Next == Damage \/ \E p \in Proc : Begin(p) \/ Step(p) \/ Crash(p)

Spec == Init /\ [][Next]_vars

-----------------------------------------------------------------------------

\* What render reports is what lies in the output and is a PNG, whatever
\* happens to the entry while it is looked up: "cached bytes are never
\* trusted without an exact size + SHA-256 check" (content_addressed.py:6).
ReportIsExact ==
  \A p \in Proc : pc[p] \in {"hit", "rendered"} =>
    output[p] = expected[p] /\ output[p] \in Content

\* An entry never pairs the manifest of one store with the artifact of
\* another: what is not damaged is whole.
EntryIsWhole ==
  entry # NoFile => \/ entry.manifest = Bad
                    \/ entry.artifact \in {Bad, NoFile}
                    \/ entry.manifest = entry.artifact

\* The cache fails a process only when another one (or the disk) changed
\* the entry under it; a process by itself always gets its image, unless
\* the renderer made none.
RaiseNeedsRival ==
  \A p \in Proc : pc[p] = "raised" => ~alone[p]
=============================================================================

----------------------------- MODULE ToolCache -----------------------------
(***************************************************************************)
(* The cache of Python environments on a persistent runner (src/tools:     *)
(* platform_cache_lock.py, platform_ci_bootstrap.py, platform_cache_gc.py).*)
(*                                                                         *)
(* A job is wrapped in a process that holds a shared lease of the cache's  *)
(* root; inside, ensure_venv finds or builds the environment of the job's  *)
(* requirements under leases of its own, and the job then uses it.  A      *)
(* collector that gets the root for itself removes temporary directories   *)
(* and whichever environments are old or too many, file by file.           *)
(*                                                                         *)
(* Each process runs once, and the kernel drops the locks of one that      *)
(* dies.  What age, recency and disk pressure pick is left open, and the   *)
(* download namespaces, which no check of wholeness looks at, are left out.*)
(***************************************************************************)
EXTENDS Integers

CONSTANTS
  Env,         \* fingerprints of requirements
  Wrapped,     \* jobs under platform_cache_lock
  Legacy,      \* jobs that hold a shared lock of their environment instead
  Collectors,  \* runs of platform_cache_gc
  Needs,       \* Needs[j]: the environment of job j
  MaxFaults    \* bound: processes that die, builds and removals that fail

Job == Wrapped \cup Legacy
Process == Job \cup Collectors

ASSUME ToolCacheAssumption ==
  /\ Wrapped \cap Legacy = {} /\ Job \cap Collectors = {}
  /\ Needs \in [Job -> Env]
  /\ MaxFaults \in Nat

VARIABLES
  parts,     \* parts[e]: what is there of the environment's directory
  backup,    \* environments with a directory .old
  tmp,       \* jobs whose temporary directory is there
  leased,    \* jobs whose wrapper holds its shared lease of the root
  removing,  \* the environment a collector has locked and removes
  torn,      \* history: environments a collector left half removed
  pc,        \* where each process stands
  faults     \* counter for the bound

vars == <<parts, backup, tmp, leased, removing, torn, pc, faults>>

\* bin/python, the stamp that ensure_venv checks, and all it does not check.
Part == {"python", "stamp", "packages"}

Locked == {"check", "build", "swap", "rename", "drop"}

TypeOK ==
  /\ parts \in [Env -> SUBSET Part]
  /\ backup \subseteq Env
  /\ tmp \subseteq Wrapped /\ leased \subseteq Wrapped
  /\ removing \in {{}} \cup {{e} : e \in Env}
  /\ torn \subseteq Env
  /\ pc \in [Process -> {"new", "ask", "lock", "use", "temp", "sweep", "remove",
                         "done"} \cup Locked]
  /\ faults \in 0 .. MaxFaults

Init ==
  /\ parts = [e \in Env |-> {}] /\ backup = {} /\ tmp = {} /\ leased = {}
  /\ removing = {} /\ torn = {}
  /\ pc = [p \in Process |-> "new"]
  /\ faults = 0

-----------------------------------------------------------------------------
(* The locks.                                                              *)

\* Slip: ensure_venv lets go of the root before it builds.
BootstrappingSlip(j) == pc[j] \in {"lock", "check"}

\* ensure_venv of j holds its shared lease of the root.
Bootstrapping(j) == pc[j] = "lock" \/ pc[j] \in Locked

\* Slip: only those who build are in the collector's way.
UnusedSlip == \A j \in Wrapped : ~Bootstrapping(j)

\* No shared lease of the root is held.
Unused == leased = {} /\ \A j \in Wrapped : ~Bootstrapping(j)

Collecting(g) == pc[g] \in {"temp", "sweep", "remove"}

\* Slip: a job that may have to build asks for the root for itself.
ShareableSlip == Unused /\ \A g \in Collectors : ~Collecting(g)

\* A shared lease of the root is granted.
Shareable == \A g \in Collectors : ~Collecting(g)

\* Nobody has the environment's own lock exclusively.
NoWriter(e) == e \notin removing /\ \A j \in Wrapped : pc[j] \in Locked => Needs[j] # e

LockFree(e) == NoWriter(e) /\ \A l \in Legacy : pc[l] = "use" => Needs[l] # e

Goto(p, place) == pc' = [pc EXCEPT ![p] = place]

-----------------------------------------------------------------------------
(* A job.                                                                  *)

Usable(e) == {"python", "stamp"} \subseteq parts[e]

Wrap(j) ==
  /\ pc[j] = "new" /\ Shareable
  /\ leased' = leased \cup {j}
  /\ Goto(j, "ask")
  /\ UNCHANGED <<parts, backup, tmp, removing, torn, faults>>

EnsureBegins(j) ==
  /\ pc[j] = "ask" /\ Shareable
  /\ Goto(j, "lock")
  /\ UNCHANGED <<parts, backup, tmp, leased, removing, torn, faults>>

TakeLock(j) ==
  /\ pc[j] = "lock" /\ LockFree(Needs[j])
  /\ Goto(j, "check")
  /\ UNCHANGED <<parts, backup, tmp, leased, removing, torn, faults>>

Check(j) ==
  /\ pc[j] = "check"
  /\ \/ Usable(Needs[j]) /\ Goto(j, "use") /\ UNCHANGED tmp
     \/ ~Usable(Needs[j]) /\ Goto(j, "build") /\ tmp' = tmp \cup {j}
  /\ UNCHANGED <<parts, backup, leased, removing, torn, faults>>

\* The environment is installed and stamped; an old backup goes.
Build(j) ==
  /\ pc[j] = "build"
  /\ backup' = backup \ {Needs[j]}
  /\ Goto(j, "swap")
  /\ UNCHANGED <<parts, tmp, leased, removing, torn, faults>>

BuildFails(j) ==
  /\ pc[j] = "build"
  /\ faults < MaxFaults /\ faults' = faults + 1
  /\ tmp' = tmp \ {j} /\ leased' = leased \ {j}
  /\ Goto(j, "done")
  /\ UNCHANGED <<parts, backup, removing, torn>>

SetAside(j) ==
  /\ pc[j] = "swap"
  /\ backup' = IF parts[Needs[j]] = {} THEN backup ELSE backup \cup {Needs[j]}
  /\ parts' = [parts EXCEPT ![Needs[j]] = {}]
  /\ torn' = torn \ {Needs[j]}
  /\ Goto(j, "rename")
  /\ UNCHANGED <<tmp, leased, removing, faults>>

Publish(j) ==
  /\ pc[j] = "rename" /\ j \in tmp
  /\ parts' = [parts EXCEPT ![Needs[j]] = Part]
  /\ tmp' = tmp \ {j}
  /\ Goto(j, "drop")
  /\ UNCHANGED <<backup, leased, removing, torn, faults>>

DropBackup(j) ==
  /\ pc[j] = "drop"
  /\ backup' = backup \ {Needs[j]}
  /\ Goto(j, "use")
  /\ UNCHANGED <<parts, tmp, leased, removing, torn, faults>>

\* The job returns, and with it the wrapper.
Finish(j) ==
  /\ pc[j] = "use"
  /\ leased' = leased \ {j}
  /\ Goto(j, "done")
  /\ UNCHANGED <<parts, backup, tmp, removing, torn, faults>>

\* A temporary directory without its process stays until it is collected.
JobDies(j) ==
  /\ pc[j] \notin {"new", "done"}
  /\ faults < MaxFaults /\ faults' = faults + 1
  /\ leased' = leased \ {j}
  /\ Goto(j, "done")
  /\ UNCHANGED <<parts, backup, tmp, removing, torn>>

\* The command does not inherit the wrapper's lease and goes on without it.
WrapperDies(j) ==
  /\ j \in leased
  /\ faults < MaxFaults /\ faults' = faults + 1
  /\ leased' = leased \ {j}
  /\ UNCHANGED <<parts, backup, tmp, removing, torn, pc>>

LegacyUses(l) ==
  /\ pc[l] = "new" /\ NoWriter(Needs[l]) /\ Usable(Needs[l])
  /\ Goto(l, "use")
  /\ UNCHANGED <<parts, backup, tmp, leased, removing, torn, faults>>

-----------------------------------------------------------------------------
(* A collector.                                                            *)

\* A root in use is left alone (LIVE_CACHE_LEASE_HELD).
CollectBegins(g) ==
  /\ pc[g] = "new" /\ Unused /\ Shareable
  /\ Goto(g, "temp")
  /\ UNCHANGED <<parts, backup, tmp, leased, removing, torn, faults>>

RemoveTemporaries(g) ==
  /\ pc[g] = "temp"
  /\ tmp' = {}
  /\ Goto(g, "sweep")
  /\ UNCHANGED <<parts, backup, leased, removing, torn, faults>>

\* A directory .old is an environment to the collector, with its own lock.
EvictBackup(g) ==
  /\ pc[g] = "sweep"
  /\ \E e \in backup : backup' = backup \ {e}
  /\ UNCHANGED <<parts, tmp, leased, removing, torn, pc, faults>>

Evict(g) ==
  /\ pc[g] = "sweep"
  /\ \E e \in Env : parts[e] # {} /\ LockFree(e) /\ removing' = removing \cup {e}
  /\ Goto(g, "remove")
  /\ UNCHANGED <<parts, backup, tmp, leased, torn, faults>>

RemovePart(g) ==
  /\ pc[g] = "remove"
  /\ \E e \in removing : \E p \in parts[e] : parts' = [parts EXCEPT ![e] = @ \ {p}]
  /\ UNCHANGED <<backup, tmp, leased, removing, torn, pc, faults>>

Evicted(g) ==
  /\ pc[g] = "remove"
  /\ \A e \in removing : parts[e] = {}
  /\ torn' = torn \ removing /\ removing' = {}
  /\ Goto(g, "sweep")
  /\ UNCHANGED <<parts, backup, tmp, leased, faults>>

CollectEnds(g) ==
  /\ pc[g] = "sweep"
  /\ Goto(g, "done")
  /\ UNCHANGED <<parts, backup, tmp, leased, removing, torn, faults>>

\* It dies, or a directory stays (CACHE_ENTRY_REMOVAL_INCOMPLETE).
CollectorStops(g) ==
  /\ Collecting(g)
  /\ faults < MaxFaults /\ faults' = faults + 1
  /\ torn' = torn \cup removing /\ removing' = {}
  /\ Goto(g, "done")
  /\ UNCHANGED <<parts, backup, tmp, leased>>

-----------------------------------------------------------------------------

EnsureVenv(j) ==
  \/ EnsureBegins(j) \/ TakeLock(j) \/ Check(j) \/ Build(j) \/ SetAside(j)
  \/ Publish(j) \/ DropBackup(j)

Collect(g) ==
  \/ RemoveTemporaries(g) \/ EvictBackup(g) \/ Evict(g) \/ RemovePart(g)
  \/ Evicted(g) \/ CollectEnds(g)

Next ==
  \/ \E j \in Wrapped : \/ Wrap(j) \/ EnsureVenv(j) \/ BuildFails(j)
                        \/ WrapperDies(j)
  \/ \E l \in Legacy : LegacyUses(l)
  \/ \E j \in Job : Finish(j) \/ JobDies(j)
  \/ \E g \in Collectors : CollectBegins(g) \/ Collect(g) \/ CollectorStops(g)

Spec == Init /\ [][Next]_vars

\* A process that runs goes on: builds, removals and jobs come to an end.
FairSpec ==
  /\ Spec
  /\ \A j \in Wrapped : WF_vars(EnsureVenv(j))
  /\ \A j \in Job : WF_vars(Finish(j))
  /\ \A g \in Collectors : WF_vars(Collect(g))

-----------------------------------------------------------------------------

\* A job that uses an environment under its lease or its lock has all of it,
\* unless a collector died or gave up inside that very directory: what is
\* left then may still have the two files that ensure_venv looks at.
UsedIsWhole ==
  /\ \A j \in leased : pc[j] = "use" /\ Needs[j] \notin torn => parts[Needs[j]] = Part
  /\ \A l \in Legacy : pc[l] = "use" /\ Needs[l] \notin torn => parts[Needs[l]] = Part

\* No collector takes the temporary directory from under a build, not even
\* when the job's wrapper died.
BuildIsKept == \A j \in Wrapped : pc[j] \in {"build", "swap", "rename"} => j \in tmp

\* Nobody waits for ever, for the root or for an environment: who holds a
\* shared lease and asks for another is not stopped by a collector between.
JobsEnd == \A p \in Process : pc[p] # "new" ~> pc[p] = "done"
=============================================================================

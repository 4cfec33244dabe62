-------------------------- MODULE ToolCacheProofs --------------------------
(* Proofs about ToolCache, for any environments, jobs and collectors.      *)
EXTENDS ToolCache, TLAPS

\* A collector has the root for itself.
RootExcludes ==
  \A g \in Collectors : Collecting(g) =>
    /\ leased = {} /\ \A j \in Wrapped : ~Bootstrapping(j)
    /\ \A h \in Collectors : Collecting(h) => h = g

\* Who has an environment's lock has it alone.
LocksExclude ==
  \A i \in Wrapped : pc[i] \in Locked =>
    /\ \A j \in Wrapped : pc[j] \in Locked /\ Needs[j] = Needs[i] => j = i
    /\ \A l \in Legacy : pc[l] = "use" => Needs[l] # Needs[i]

\* What is removed is locked, by the one collector at work.
RemovalIsLocked ==
  /\ removing # {} => \E g \in Collectors : pc[g] = "remove"
  /\ \A l \in Legacy : pc[l] = "use" => Needs[l] \notin removing

\* What each job has learned about its environment stays true.
JobsKnow ==
  /\ \A j \in leased : pc[j] = "use" => Usable(Needs[j])
  /\ \A l \in Legacy : pc[l] = "use" => Usable(Needs[l])
  /\ \A j \in Wrapped :
       /\ pc[j] = "drop" => Usable(Needs[j])
       /\ pc[j] \in {"build", "swap", "rename"} => ~Usable(Needs[j])

\* Only a collector takes an environment apart.
HalfIsTorn ==
  \A e \in Env : parts[e] \in {{}, Part} \/ e \in removing \cup torn

Locking == RootExcludes /\ LocksExclude /\ RemovalIsLocked

ToolCacheInvariant ==
  TypeOK /\ Locking /\ JobsKnow /\ HalfIsTorn /\ BuildIsKept

LEMMA InitHolds == Init => ToolCacheInvariant
  BY ToolCacheAssumption
     DEF Init, ToolCacheInvariant, Locking, TypeOK, RootExcludes, LocksExclude,
         RemovalIsLocked, JobsKnow, HalfIsTorn, BuildIsKept, Collecting,
         Bootstrapping, Locked, Process, Job

\* A step of one process that leaves the others' places alone.
LEMMA WrappedStep ==
  ASSUME ToolCacheInvariant, NEW j \in Wrapped,
         Wrap(j) \/ EnsureVenv(j) \/ BuildFails(j) \/ WrapperDies(j) \/ Finish(j)
           \/ JobDies(j)
  PROVE  ToolCacheInvariant'
  <1> USE ToolCacheAssumption DEF Goto, Process, Job
  <1>1. TypeOK'
    BY DEF ToolCacheInvariant, TypeOK, Locked, Part, EnsureVenv, Wrap, EnsureBegins,
           TakeLock, Check, Build, BuildFails, SetAside, Publish, DropBackup, Finish,
           JobDies, WrapperDies
  <1>2. /\ \A p \in Process \ {j} : pc'[p] = pc[p]
        /\ UNCHANGED removing
    BY DEF ToolCacheInvariant, TypeOK, EnsureVenv, Wrap, EnsureBegins,
           TakeLock, Check, Build, BuildFails, SetAside, Publish, DropBackup, Finish,
           JobDies, WrapperDies
  <1>3. /\ \A g \in Collectors : Collecting(g)' <=> Collecting(g)
        /\ \A l \in Legacy : pc'[l] = pc[l]
    BY <1>2 DEF Collecting
  <1>4. RootExcludes'
    <2>1. leased' \subseteq leased \/ Shareable
      BY DEF EnsureVenv, Wrap, EnsureBegins, TakeLock, Check, Build, BuildFails,
             SetAside, Publish, DropBackup, Finish, JobDies, WrapperDies
    <2>2. Bootstrapping(j)' => Bootstrapping(j) \/ Shareable
      BY DEF ToolCacheInvariant, TypeOK, EnsureVenv, Wrap, EnsureBegins, TakeLock,
             Check, Build, BuildFails, SetAside, Publish, DropBackup, Finish, JobDies,
             WrapperDies, Bootstrapping, Locked
    <2>3. \A i \in Wrapped \ {j} : Bootstrapping(i)' <=> Bootstrapping(i)
      BY <1>2 DEF Bootstrapping
    <2> QED BY <1>3, <2>1, <2>2, <2>3
            DEF ToolCacheInvariant, Locking, RootExcludes, Shareable
  <1>5. LocksExclude'
    <2>1. pc'[j] \in Locked => pc[j] \in Locked \/ LockFree(Needs[j])
      BY DEF ToolCacheInvariant, TypeOK, EnsureVenv, Wrap, EnsureBegins, TakeLock,
             Check, Build, BuildFails, SetAside, Publish, DropBackup, Finish, JobDies,
             WrapperDies, Locked
    <2> QED BY <1>2, <1>3, <2>1
            DEF ToolCacheInvariant, Locking, LocksExclude, LockFree, NoWriter
  <1>6. RemovalIsLocked'
    BY <1>2, <1>3 DEF ToolCacheInvariant, Locking, RemovalIsLocked
  <1>7. JobsKnow' /\ HalfIsTorn' /\ BuildIsKept'
    <2> USE DEF ToolCacheInvariant, TypeOK, JobsKnow, HalfIsTorn, BuildIsKept
    <2>1. CASE ~SetAside(j) /\ ~Publish(j)
      <3>1. /\ UNCHANGED <<parts, torn>>
            /\ leased' \subseteq leased \cup {j}
            /\ \A i \in Wrapped \ {j} : i \in tmp => i \in tmp'
        BY <2>1 DEF EnsureVenv, Wrap, EnsureBegins, TakeLock, Check, Build, BuildFails,
                    DropBackup, Finish, JobDies, WrapperDies
      <3>2. /\ pc'[j] = "use" /\ j \in leased' => Usable(Needs[j])
            /\ pc'[j] = "drop" => Usable(Needs[j])
        BY <2>1 DEF EnsureVenv, Wrap, EnsureBegins, TakeLock, Check, Build, BuildFails,
                    DropBackup, Finish, JobDies, WrapperDies
      <3>3. pc'[j] \in {"build", "swap", "rename"} => ~Usable(Needs[j]) /\ j \in tmp'
        BY <2>1 DEF EnsureVenv, Wrap, EnsureBegins, TakeLock, Check, Build, BuildFails,
                    DropBackup, Finish, JobDies, WrapperDies
      <3> QED BY <1>2, <1>3, <3>1, <3>2, <3>3 DEF Usable
    <2>2. CASE SetAside(j)
      <3>1. \A i \in Wrapped \ {j} : pc[i] \in Locked => Needs[i] # Needs[j]
        BY <2>2 DEF SetAside, Locking, LocksExclude, Locked
      <3>2. ~Usable(Needs[j]) /\ ~Usable(Needs[j])'
        BY <2>2 DEF SetAside, Usable
      <3>3. \A e \in Env \ {Needs[j]} : Usable(e)' <=> Usable(e)
        BY <2>2 DEF SetAside, Usable
      <3> QED BY <1>2, <1>3, <2>2, <3>1, <3>2, <3>3 DEF SetAside
    <2>3. CASE Publish(j)
      <3>1. \A i \in Wrapped \ {j} : pc[i] \in Locked => Needs[i] # Needs[j]
        BY <2>3 DEF Publish, Locking, LocksExclude, Locked
      <3>2. Usable(Needs[j])'
        BY <2>3 DEF Publish, Usable, Part
      <3>3. \A e \in Env \ {Needs[j]} : Usable(e)' <=> Usable(e)
        BY <2>3 DEF Publish, Usable
      <3> QED BY <1>2, <1>3, <2>3, <3>1, <3>2, <3>3 DEF Publish, Locked
    <2> QED BY <2>1, <2>2, <2>3
            DEF EnsureVenv, Wrap, EnsureBegins, TakeLock, Check, Build, BuildFails,
                DropBackup, Finish, JobDies, WrapperDies
  <1> QED BY <1>1, <1>4, <1>5, <1>6, <1>7 DEF ToolCacheInvariant, Locking

LEMMA LegacyStep ==
  ASSUME ToolCacheInvariant, NEW l \in Legacy, LegacyUses(l) \/ Finish(l) \/ JobDies(l)
  PROVE  ToolCacheInvariant'
  <1> USE ToolCacheAssumption DEF Goto, Process, Job, ToolCacheInvariant, TypeOK
  <1>1. TypeOK'
    BY DEF LegacyUses, Finish, JobDies
  <1>2. /\ \A p \in Process \ {l} : pc'[p] = pc[p]
        /\ UNCHANGED <<parts, tmp, removing, torn>>
        /\ leased' = leased
        /\ pc'[l] = "use" => NoWriter(Needs[l]) /\ Usable(Needs[l])
    BY DEF LegacyUses, Finish, JobDies
  <1>3. Locking'
    BY <1>2 DEF Locking, RootExcludes, LocksExclude, RemovalIsLocked, Collecting,
                Bootstrapping, NoWriter
  <1>4. JobsKnow' /\ HalfIsTorn' /\ BuildIsKept'
    BY <1>2 DEF JobsKnow, HalfIsTorn, BuildIsKept, Usable
  <1> QED BY <1>1, <1>3, <1>4

LEMMA CollectorStep ==
  ASSUME ToolCacheInvariant, NEW g \in Collectors,
         CollectBegins(g) \/ Collect(g) \/ CollectorStops(g)
  PROVE  ToolCacheInvariant'
  <1> USE ToolCacheAssumption DEF Goto, Process, Job, ToolCacheInvariant
  <1>1. /\ \A p \in Process \ {g} : pc'[p] = pc[p]
        /\ pc'[g] \in {"temp", "sweep", "remove", "done"}
        /\ leased' = leased
        /\ Collecting(g) \/ (Unused /\ Shareable)
    BY DEF TypeOK, CollectBegins, Collect, RemoveTemporaries, EvictBackup, Evict,
           RemovePart, Evicted, CollectEnds, CollectorStops, Collecting
  <1>2. /\ leased = {} /\ \A j \in Wrapped : ~Bootstrapping(j)
        /\ \A h \in Collectors \ {g} : ~Collecting(h)
    BY <1>1 DEF Locking, RootExcludes, Unused, Shareable
  <1>3. \A j \in Job : pc'[j] = pc[j]
    BY <1>1
  <1>4. removing # {} => pc[g] = "remove"
    BY <1>2 DEF Locking, RemovalIsLocked, Collecting
  <1>5. TypeOK'
    BY <1>4 DEF TypeOK, CollectBegins, Collect, RemoveTemporaries, EvictBackup, Evict,
                RemovePart, Evicted, CollectEnds, CollectorStops
  <1>6. RootExcludes'
    BY <1>1, <1>2, <1>3 DEF RootExcludes, Collecting, Bootstrapping
  <1>7. LocksExclude' /\ BuildIsKept'
    BY <1>2, <1>3 DEF LocksExclude, BuildIsKept, Bootstrapping, Locked
  <1>8. RemovalIsLocked'
    <2>1. removing' # {} => pc'[g] = "remove"
      BY <1>4 DEF TypeOK, CollectBegins, Collect, RemoveTemporaries, EvictBackup, Evict,
                  RemovePart, Evicted, CollectEnds, CollectorStops, Collecting
    <2>2. \A e \in removing' : e \in removing \/ LockFree(e)
      BY DEF CollectBegins, Collect, RemoveTemporaries, EvictBackup, Evict,
             RemovePart, Evicted, CollectEnds, CollectorStops
    <2> QED BY <1>3, <2>1, <2>2 DEF Locking, RemovalIsLocked, LockFree
  <1>9. JobsKnow'
    <2>1. \A e \in Env : e \notin removing => parts'[e] = parts[e]
      BY DEF TypeOK, CollectBegins, Collect, RemoveTemporaries, EvictBackup, Evict,
             RemovePart, Evicted, CollectEnds, CollectorStops
    <2> QED BY <1>1, <1>2, <1>3, <2>1
            DEF JobsKnow, Usable, Locking, RemovalIsLocked, Bootstrapping, Locked
  <1>10. HalfIsTorn'
    BY DEF TypeOK, HalfIsTorn, CollectBegins, Collect, RemoveTemporaries, EvictBackup,
           Evict, RemovePart, Evicted, CollectEnds, CollectorStops
  <1> QED BY <1>5, <1>6, <1>7, <1>8, <1>9, <1>10 DEF Locking

LEMMA ToolCacheInvariance == Spec => []ToolCacheInvariant
  <1>1. ToolCacheInvariant /\ [Next]_vars => ToolCacheInvariant'
    <2> SUFFICES ASSUME ToolCacheInvariant, [Next]_vars PROVE ToolCacheInvariant'
      OBVIOUS
    <2>1. CASE Next
      BY <2>1, WrappedStep, LegacyStep, CollectorStep DEF Next, Job
    <2>2. CASE UNCHANGED vars
      BY <2>2 DEF vars, ToolCacheInvariant, Locking, TypeOK, RootExcludes, LocksExclude,
                  RemovalIsLocked, JobsKnow, HalfIsTorn, BuildIsKept, Collecting,
                  Bootstrapping, Usable
    <2> QED BY <2>1, <2>2
  <1> QED BY <1>1, InitHolds, PTL DEF Spec

\* The state of the cache and its processes is well typed; one environment
\* at a time is removed.
THEOREM ToolCacheTypeCorrect == Spec => []TypeOK
  BY ToolCacheInvariance, PTL DEF ToolCacheInvariant

\* Whatever jobs, wrappers and collectors die when, an environment used
\* under a lease or a lock is whole, unless a collector died inside it.
THEOREM EnvironmentsWhole == Spec => []UsedIsWhole
  <1>1. ToolCacheInvariant => UsedIsWhole
    <2> SUFFICES ASSUME ToolCacheInvariant PROVE UsedIsWhole
      OBVIOUS
    <2> USE ToolCacheAssumption DEF ToolCacheInvariant, TypeOK, Job
    <2>1. \A e \in Env : Usable(e) /\ e \notin removing \cup torn => parts[e] = Part
      BY DEF HalfIsTorn, Usable
    <2>2. leased # {} => removing = {}
      BY DEF Locking, RootExcludes, RemovalIsLocked, Collecting
    <2> QED BY <2>1, <2>2 DEF UsedIsWhole, JobsKnow, Locking, RemovalIsLocked
  <1> QED BY <1>1, ToolCacheInvariance, PTL

\* A build keeps its temporary directory until it has published it.
THEOREM BuildsKept == Spec => []BuildIsKept
  BY ToolCacheInvariance, PTL DEF ToolCacheInvariant

-----------------------------------------------------------------------------
(* Who waits for whom.                                                     *)

\* Each kind of process is at places of its own.
PlacesFit ==
  /\ \A l \in Legacy : pc[l] \in {"new", "use", "done"}
  /\ \A g \in Collectors : pc[g] \in {"new", "temp", "sweep", "remove", "done"}
  /\ \A j \in Wrapped : pc[j] \in {"new", "ask", "lock", "use", "done"} \cup Locked

LEMMA PlacesStay == Spec => []PlacesFit
  <1> USE ToolCacheAssumption DEF Process, Job, PlacesFit, Locked
  <1>1. Init => PlacesFit
    BY DEF Init
  <1>2. TypeOK /\ PlacesFit /\ [Next]_vars => PlacesFit'
    <2> SUFFICES ASSUME TypeOK, PlacesFit, [Next]_vars PROVE PlacesFit'
      OBVIOUS
    <2> USE DEF TypeOK, Goto
    <2>1. ASSUME NEW j \in Wrapped,
                 Wrap(j) \/ EnsureVenv(j) \/ BuildFails(j) \/ WrapperDies(j)
          PROVE  PlacesFit'
      BY <2>1 DEF EnsureVenv, Wrap, EnsureBegins, TakeLock, Check, Build, BuildFails,
                  SetAside, Publish, DropBackup, WrapperDies
    <2>2. ASSUME NEW l \in Legacy, LegacyUses(l) PROVE PlacesFit'
      BY <2>2 DEF LegacyUses
    <2>3. ASSUME NEW j \in Job, Finish(j) \/ JobDies(j) PROVE PlacesFit'
      BY <2>3 DEF Finish, JobDies
    <2>4. ASSUME NEW g \in Collectors, CollectBegins(g) \/ Collect(g) \/ CollectorStops(g)
          PROVE  PlacesFit'
      BY <2>4 DEF CollectBegins, Collect, RemoveTemporaries, EvictBackup, Evict,
                  RemovePart, Evicted, CollectEnds, CollectorStops
    <2>5. CASE UNCHANGED vars
      BY <2>5 DEF vars
    <2> QED BY <2>1, <2>2, <2>3, <2>4, <2>5 DEF Next
  <1> QED BY <1>1, <1>2, ToolCacheTypeCorrect, PTL DEF Spec

\* A job waits when it asks for a lease that is not granted, and then for
\* those who hold it.
Waits(p) ==
  \/ p \in Wrapped /\ pc[p] = "ask" /\ ~Shareable
  \/ p \in Wrapped /\ pc[p] = "lock" /\ ~LockFree(Needs[p])

Holds(q, p) ==
  \/ pc[p] = "ask" /\ q \in Collectors /\ Collecting(q)
  \/ /\ pc[p] = "lock" /\ q \in Job /\ Needs[q] = Needs[p]
     /\ q \in Wrapped => pc[q] \in Locked
     /\ q \in Legacy => pc[q] = "use"

\* p has not ended and its next step is there to be taken: what its place
\* asks for, the granted lease or the build's directory, is given.
GoesOn(p) ==
  /\ pc[p] \notin {"new", "done"}
  /\ ~Waits(p)
  /\ pc[p] = "rename" => p \in tmp

\* Whoever waits, waits for a process that does not wait itself, for neither
\* the root nor an environment: no chain of jobs, wrappers and collectors
\* closes.  A job whose wrapper lives never waits for the root at all,
\* although it asks for the lease a second time while it holds the first.
WaitsAreShort ==
  /\ \A p \in Process : pc[p] \notin {"new", "done"} =>
       GoesOn(p) \/ \E q \in Process : Holds(q, p) /\ GoesOn(q)
  /\ \A p \in leased : pc[p] = "ask" => GoesOn(p)

\* platform_cache_lock and ensure_venv cannot deadlock, whichever wrappers
\* died, for any number of jobs, environments and collectors.  (That who
\* waits is served in the end needs fairness and is JobsEnd.)
THEOREM WaitingEnds == Spec => []WaitsAreShort
  <1>1. ToolCacheInvariant /\ PlacesFit => WaitsAreShort
    <2> SUFFICES ASSUME ToolCacheInvariant, PlacesFit PROVE WaitsAreShort
      OBVIOUS
    <2> USE ToolCacheAssumption DEF ToolCacheInvariant, Process, Job
    <2>1. ASSUME NEW p \in Process, pc[p] \notin {"new", "done"}, ~Waits(p)
          PROVE  GoesOn(p)
      <3>1. pc[p] = "rename" => p \in Wrapped
        BY DEF PlacesFit
      <3> QED BY <2>1, <3>1 DEF GoesOn, BuildIsKept
    <2>2. ASSUME NEW p \in Wrapped, pc[p] = "ask", ~Shareable
          PROVE  \E q \in Process : Holds(q, p) /\ GoesOn(q)
      <3>1. PICK q \in Collectors : Collecting(q)
        BY <2>2 DEF Shareable
      <3>2. GoesOn(q)
        BY <3>1 DEF GoesOn, Waits, Collecting
      <3> QED BY <2>2, <3>1, <3>2 DEF Holds
    <2>3. ASSUME NEW p \in Wrapped, pc[p] = "lock", ~LockFree(Needs[p])
          PROVE  \E q \in Process : Holds(q, p) /\ GoesOn(q)
      <3>1. removing = {}
        BY <2>3 DEF Locking, RootExcludes, RemovalIsLocked, Collecting, Bootstrapping
      <3>2. PICK q \in Job : /\ Needs[q] = Needs[p]
                             /\ q \in Wrapped => pc[q] \in Locked
                             /\ q \in Legacy => pc[q] = "use"
        BY <2>3, <3>1 DEF LockFree, NoWriter
      <3>3. GoesOn(q)
        BY <3>2 DEF GoesOn, Waits, Locked, BuildIsKept
      <3> QED BY <2>3, <3>2, <3>3 DEF Holds
    <2>4. ASSUME NEW p \in leased, pc[p] = "ask" PROVE GoesOn(p)
      <3>1. p \in Wrapped /\ Shareable
        BY <2>4 DEF TypeOK, Locking, RootExcludes, Shareable
      <3> QED BY <2>4, <3>1 DEF GoesOn, Waits
    <2> QED BY <2>1, <2>2, <2>3, <2>4 DEF WaitsAreShort, Waits
  <1> QED BY <1>1, PlacesStay, ToolCacheInvariance, PTL
=============================================================================

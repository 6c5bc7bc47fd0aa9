-------------------------- MODULE FileRestoreProofs --------------------------
(***************************************************************************)
(* Proofs about FileRestore, for every set of backups and claims, every    *)
(* spec, every set of mishaps and every bound.                             *)
(***************************************************************************)
EXTENDS FileRestore, WellFoundedInduction, TLAPS

(***************************************************************************)
(* The inductive form of TypeOK, with and without stale reads.  An entry   *)
(* names a Restore that was created, and has a phase only if it names one, *)
(* in every version of the resource; while Restores are created, each      *)
(* available backup is still to be done or has one.                        *)
(***************************************************************************)
EntryOK(e, n) == e.restore \in 0..n /\ (e.phase # "" => e.restore # 0)
EntriesOK(o, n) == \A b \in Backups : EntryOK(o.entries[b], n)

LogPart ==
  /\ log \in Seq(Resource) /\ Len(log) \in 1..MaxVersions
  /\ \A k \in 1..Len(log) : EntriesOK(log[k], Len(restores))
MemPart == mem \in Resource /\ EntriesOK(mem, Len(restores))
RestoresPart ==
  /\ restores \in Seq(VeleroRestore) /\ Len(restores) <= MaxRestores
  /\ listed \in Seq(VeleroRestore) /\ Len(listed) <= Len(restores)
WorldPart ==
  /\ spec \in RestoreSpec
  /\ vmbd \in [phase: DiscoveryPhases, valid: SUBSET Backups]
  /\ namespace \in BOOLEAN
  /\ objs \subseteq Objects
  /\ mounts \subseteq 1..Len(restores)
WorkerPart ==
  /\ queued \in BOOLEAN
  /\ faults \in 0..MaxFaults
  /\ pc \in Places
  /\ todo \subseteq Backups
  /\ seen \subseteq {"completed", "failed", "inProgress"}
  /\ fresh \in BOOLEAN

HasRestore(b) == \E i \in 1..Len(restores) : restores[i].backup = b

CreatePart ==
  /\ pc = "create" => \A b \in Available(mem) : b \in todo \/ HasRestore(b)
  /\ pc = "names" => \A b \in Available(mem) : HasRestore(b)

TypeInv == LogPart /\ MemPart /\ RestoresPart /\ WorldPart /\ WorkerPart /\ CreatePart

-----------------------------------------------------------------------------
(***************************************************************************)
(* The smallest and the largest of some numbers: what the two CHOOSEs of   *)
(* the model pick.                                                         *)
(***************************************************************************)
LEMMA Least ==
  ASSUME NEW T \in SUBSET Nat, T # {}
  PROVE  \E m \in T : \A k \in T : m <= k
<1>1. PICK m \in T : \A k \in T : ~(<<k, m>> \in OpToRel(<, Nat))
  BY NatLessThanWellFounded, WFMin, Zenon
<1>2. ASSUME NEW k \in T PROVE m <= k
  <2>1. <<k, m>> \in Nat \X Nat
    OBVIOUS
  <2>2. ~(k < m)
    BY <1>1, <2>1 DEF OpToRel
  <2> QED
    BY <2>2
<1> QED
  BY <1>2

LEMMA Greatest ==
  ASSUME NEW n \in Nat, NEW T \in SUBSET (1..n), T # {}
  PROVE  \E m \in T : \A k \in T : k <= m
<1> DEFINE U == {n - k : k \in T}
<1>1. U \in SUBSET Nat
  OBVIOUS
<1>2. U # {}
  <2>1. PICK k \in T : TRUE
    OBVIOUS
  <2>2. n - k \in U
    OBVIOUS
  <2> QED
    BY <2>2
<1>3. PICK u \in U : \A k \in U : u <= k
  <2> HIDE DEF U
  <2> QED
    BY <1>1, <1>2, Least
<1>4. PICK m \in T : u = n - m
  OBVIOUS
<1>5. ASSUME NEW k \in T PROVE k <= m
  <2>1. n - k \in U
    OBVIOUS
  <2>2. n - m <= n - k
    BY <1>3, <1>4, <2>1
  <2> QED
    BY <2>2
<1> QED
  BY <1>5

\* The Restore whose name createVeleroRestores records exists in the list.
LEMMA NewestIsOne ==
  ASSUME RestoresPart, NEW b, HasRestore(b)
  PROVE  Newest(b) \in 1..Len(restores) /\ restores[Newest(b)].backup = b
<1> DEFINE T == {i \in 1..Len(restores) : restores[i].backup = b}
<1>1. Len(restores) \in Nat
  BY DEF RestoresPart
<1>2. T \in SUBSET (1..Len(restores)) /\ T # {}
  BY DEF HasRestore
<1>3. PICK m \in T : \A k \in T : k <= m
  <2> HIDE DEF T
  <2> QED
    BY <1>1, <1>2, Greatest
<1>4. \E i \in 1..Len(restores) : /\ restores[i].backup = b
                                  /\ \A j \in 1..Len(restores) : restores[j].backup = b => j <= i
  BY <1>3
<1> QED
  BY <1>4 DEF Newest

-----------------------------------------------------------------------------
(***************************************************************************)
(* Writes.                                                                 *)
(***************************************************************************)
LEMMA CreatedType ==
  Created \in Resource /\ \A n \in Nat : EntriesOK(Created, n)
<1>1. ConstantsAssumption
  BY ConstantsAssumption
<1>2. [b \in Backups |-> NoEntry] \in [Backups -> Entry]
  BY <1>1 DEF NoEntry, Entry, States, RestoreInfoPhase, ConstantsAssumption
<1>3. Cond(FALSE, "", FALSE, FALSE, FALSE) \in Conditions
  BY DEF Cond, Conditions, Reasons
<1>4. Created \in Resource
  BY <1>2, <1>3 DEF Created, Resource, Phases
<1>5. Created.entries = [b \in Backups |-> NoEntry]
  BY DEF Created
<1>6. ASSUME NEW n \in Nat PROVE EntryOK(NoEntry, n)
  <2>1. NoEntry.restore = 0 /\ NoEntry.phase = ""
    BY DEF NoEntry
  <2>2. 0 \in 0..n
    OBVIOUS
  <2> QED
    BY <2>1, <2>2, Zenon DEF EntryOK
<1> QED
  BY <1>4, <1>5, <1>6 DEF EntriesOK

LEMMA ServerType ==
  ASSUME LogPart
  PROVE  server \in Resource /\ EntriesOK(server, Len(restores))
BY DEF LogPart, server

LEMMA StoredType ==
  ASSUME NEW o \in Resource
  PROVE  /\ Stored(o) \in Resource
         /\ Stored(o).entries = o.entries /\ Stored(o).phase = o.phase
         /\ Stored(o).cond = o.cond /\ Stored(o).createdNamespace = o.createdNamespace
         /\ Stored(o).info = o.info /\ Stored(o).finalizers = o.finalizers
         /\ Stored(o).deleting = o.deleting
BY DEF Stored, Resource

LEMMA MergeType ==
  ASSUME NEW base \in Resource, NEW new \in Resource, NEW onto \in Resource
  PROVE  /\ Merge(base, new, onto) \in Resource
         /\ Merge(base, new, onto).entries \in {new.entries, onto.entries}
BY DEF Merge, Resource

\* What a write leaves in the log, and what its reply holds.
LEMMA ReplaceType ==
  ASSUME LogPart, NEW o \in Resource, EntriesOK(o, Len(restores)), Replace(o),
         Len(restores') = Len(restores)
  PROVE  LogPart' /\ server' = o
<1> USE ConstantsAssumption DEF ConstantsAssumption
<1>1. CASE o = server /\ UNCHANGED log
  BY <1>1 DEF LogPart, server
<1>2. CASE o # server /\ Len(log) < MaxVersions /\ log' = Append(log, o)
  <2>1. log' \in Seq(Resource) /\ Len(log') = Len(log) + 1
    BY <1>2 DEF LogPart
  <2>2. \A k \in 1..Len(log') : IF k = Len(log) + 1 THEN log'[k] = o ELSE log'[k] = log[k]
    BY <1>2, <2>1 DEF LogPart
  <2>3. server' = o
    BY <2>1, <2>2 DEF server, LogPart
  <2>4. ASSUME NEW k \in 1..Len(log') PROVE EntriesOK(log'[k], Len(restores'))
    <3>1. CASE k = Len(log) + 1
      BY <2>2, <3>1
    <3>2. CASE k # Len(log) + 1
      BY <2>1, <2>2, <3>2 DEF LogPart
    <3> QED
      BY <3>1, <3>2
  <2>5. Len(log') \in 1..MaxVersions
    BY <1>2, <2>1 DEF LogPart
  <2> QED
    BY <2>1, <2>3, <2>4, <2>5 DEF LogPart
<1> QED
  BY <1>1, <1>2 DEF Replace

LEMMA PatchType ==
  ASSUME LogPart, MemPart, NEW new \in Resource, EntriesOK(new, Len(restores)),
         Patch(new), Len(restores') = Len(restores)
  PROVE  /\ LogPart'
         /\ server' = Stored(Merge(mem, new, server))
         /\ Stored(Merge(mem, new, server)) \in Resource
         /\ EntriesOK(Stored(Merge(mem, new, server)), Len(restores))
<1> DEFINE m == Merge(mem, new, server)
<1>1. m \in Resource /\ m.entries \in {new.entries, server.entries}
  BY MergeType, ServerType DEF MemPart
<1>2. EntriesOK(m, Len(restores))
  BY <1>1, ServerType DEF EntriesOK
<1> HIDE DEF m
<1>3. Stored(m) \in Resource /\ EntriesOK(Stored(m), Len(restores))
  BY <1>1, <1>2, StoredType DEF EntriesOK
<1>4. Replace(Stored(m))
  BY DEF Patch, m
<1>5. LogPart' /\ server' = Stored(m)
  BY <1>3, <1>4, ReplaceType
<1> QED
  BY <1>3, <1>5 DEF m

-----------------------------------------------------------------------------
(***************************************************************************)
(* How a step may end: the reconcile goes on at a place, with what it has  *)
(* in memory, or it is over.  Velero's Restores are changed in place.      *)
(***************************************************************************)
InPlace ==
  /\ RestoresPart' /\ Len(restores') = Len(restores)
  /\ \A i \in 1..Len(restores) : restores'[i].backup = restores[i].backup

LEMMA InPlaceHasRestore ==
  ASSUME InPlace, NEW b, HasRestore(b)
  PROVE  HasRestore(b)'
<1>1. PICK i \in 1..Len(restores) : restores[i].backup = b
  BY DEF HasRestore
<1>2. i \in 1..Len(restores') /\ restores'[i].backup = b
  BY <1>1 DEF InPlace
<1> QED
  BY <1>2 DEF HasRestore

LEMMA InPlaceLog ==
  ASSUME LogPart, InPlace, log' = log
  PROVE  LogPart'
BY DEF LogPart, InPlace

LEMMA InPlaceMem ==
  ASSUME MemPart, InPlace, mem' = mem
  PROVE  MemPart'
BY DEF MemPart, InPlace

LEMMA SameRestores ==
  ASSUME RestoresPart, UNCHANGED <<restores, listed>>
  PROVE  InPlace
BY DEF RestoresPart, InPlace

\* The reconcile is over, whatever it wrote last.
LEMMA EndType ==
  ASSUME TypeInv, LogPart', RestoresPart', WorldPart', pc' = "idle", mem' = Created,
         todo' = {}, seen' = {}, fresh' = FALSE, queued' \in BOOLEAN,
         faults' \in 0..MaxFaults
  PROVE  TypeInv'
<1>1. MemPart'
  BY CreatedType DEF MemPart, RestoresPart
<1>2. WorkerPart' /\ CreatePart'
  BY DEF WorkerPart, CreatePart, Places
<1> QED
  BY <1>1, <1>2 DEF TypeInv

LEMMA WorldKept ==
  ASSUME TypeInv, UNCHANGED world
  PROVE  InPlace /\ RestoresPart' /\ WorldPart'
<1>1. InPlace /\ RestoresPart'
  BY SameRestores DEF TypeInv, world, InPlace
<1>2. WorldPart'
  BY DEF TypeInv, WorldPart, world
<1> QED
  BY <1>1, <1>2

LEMMA ReturnType ==
  ASSUME TypeInv, NEW q \in BOOLEAN, Return(q)
  PROVE  TypeInv'
<1>1. InPlace /\ RestoresPart' /\ WorldPart'
  BY WorldKept DEF Return
<1>2. LogPart'
  BY <1>1, InPlaceLog DEF TypeInv, Return
<1>3. queued' \in BOOLEAN /\ faults' \in 0..MaxFaults
  BY DEF TypeInv, WorkerPart, Return, EndReconcile
<1> QED
  BY <1>1, <1>2, <1>3, EndType DEF Return, EndReconcile

LEMMA PatchEndType ==
  ASSUME TypeInv, NEW new \in Resource, EntriesOK(new, Len(restores)),
         NEW q \in BOOLEAN, PatchEnd(new, q)
  PROVE  TypeInv'
<1>1. InPlace /\ RestoresPart' /\ WorldPart'
  BY WorldKept DEF PatchEnd
<1>2. LogPart'
  BY <1>1, PatchType DEF TypeInv, PatchEnd, InPlace
<1>3. queued' \in BOOLEAN /\ faults' \in 0..MaxFaults
  BY DEF TypeInv, WorkerPart, PatchEnd, EndReconcile
<1> QED
  BY <1>1, <1>2, <1>3, EndType DEF PatchEnd, EndReconcile

LEMMA PatchThenType ==
  ASSUME TypeInv, NEW new \in Resource, EntriesOK(new, Len(restores)),
         NEW k \in Places \ {"create", "names"}, PatchThen(new, k)
  PROVE  TypeInv'
<1>1. InPlace /\ RestoresPart' /\ WorldPart'
  BY WorldKept DEF PatchThen
<1>2. LogPart' /\ MemPart'
  BY <1>1, PatchType DEF TypeInv, PatchThen, InPlace, MemPart
<1>3. WorkerPart' /\ CreatePart'
  BY DEF TypeInv, WorkerPart, PatchThen, CreatePart
<1> QED
  BY <1>1, <1>2, <1>3 DEF TypeInv

\* The reconcile goes on with the same copy, and the world may have changed.
LEMMA GotoType ==
  ASSUME TypeInv, InPlace, WorldPart', NEW k \in Places \ {"create", "names"}, Goto(k)
  PROVE  TypeInv'
<1>1. LogPart' /\ MemPart' /\ RestoresPart'
  BY InPlaceLog, InPlaceMem DEF TypeInv, Goto, InPlace
<1>2. WorkerPart' /\ CreatePart'
  BY DEF TypeInv, WorkerPart, Goto, CreatePart
<1> QED
  BY <1>1, <1>2 DEF TypeInv

LEMMA GotoKeptType ==
  ASSUME TypeInv, UNCHANGED world, NEW k \in Places \ {"create", "names"}, Goto(k)
  PROVE  TypeInv'
BY WorldKept, GotoType

\* The environment moves while the worker stands where it is.
LEMMA WorkerKeptType ==
  ASSUME TypeInv, InPlace, WorldPart', UNCHANGED worker,
         LogPart', queued' \in BOOLEAN, faults' = faults
  PROVE  TypeInv'
<1>1. MemPart' /\ RestoresPart'
  BY InPlaceMem DEF TypeInv, worker, InPlace
<1>2. WorkerPart'
  BY DEF TypeInv, WorkerPart, worker
<1>3. ASSUME pc' \in {"create", "names"}, NEW b \in Available(mem)',
             ~(pc' = "create" /\ b \in todo')
      PROVE  HasRestore(b)'
  <2>1. HasRestore(b)
    BY <1>3 DEF TypeInv, CreatePart, worker, Available
  <2> QED
    BY <2>1, InPlaceHasRestore
<1>4. CreatePart'
  BY <1>3 DEF CreatePart
<1> QED
  BY <1>1, <1>2, <1>4 DEF TypeInv

-----------------------------------------------------------------------------
(***************************************************************************)
(* The resources the steps write.                                          *)
(***************************************************************************)
LEMMA CondType ==
  ASSUME NEW p \in BOOLEAN, NEW why \in Reasons, NEW a \in BOOLEAN, NEW d \in BOOLEAN,
         NEW r \in BOOLEAN
  PROVE  Cond(p, why, a, d, r) \in Conditions
BY DEF Cond, Conditions

LEMMA StatusType ==
  ASSUME MemPart, NEW p \in Phases, NEW c \in Conditions
  PROVE  /\ StatusPhaseConditions(p, c) \in Resource
         /\ EntriesOK(StatusPhaseConditions(p, c), Len(restores))
<1> DEFINE new == StatusPhaseConditions(p, c)
<1>1. new \in Resource /\ new.entries = mem.entries
  BY DEF MemPart, StatusPhaseConditions, Resource
<1> QED
  BY <1>1 DEF MemPart, EntriesOK

LEMMA InProgressType ==
  ASSUME MemPart, NEW why \in Reasons
  PROVE  InProgress(why) \in Resource /\ EntriesOK(InProgress(why), Len(restores))
<1>1. Cond(TRUE, why, FALSE, FALSE, FALSE) \in Conditions
  BY CondType
<1>2. "InProgress" \in Phases
  BY DEF Phases
<1> QED
  BY <1>1, <1>2, StatusType DEF InProgress

LEMMA ServedType ==
  ASSUME MemPart, NEW p \in Phases, NEW c \in Conditions, NEW i \in {"none", "cluster", "public"}
  PROVE  /\ [mem EXCEPT !.phase = p, !.info = i, !.cond = c] \in Resource
         /\ EntriesOK([mem EXCEPT !.phase = p, !.info = i, !.cond = c], Len(restores))
<1> DEFINE new == [mem EXCEPT !.phase = p, !.info = i, !.cond = c]
<1>1. new \in Resource /\ new.entries = mem.entries
  BY DEF MemPart, Resource
<1> QED
  BY <1>1 DEF MemPart, EntriesOK

LEMMA FinalizersType ==
  ASSUME MemPart, NEW F \in SUBSET Finalizers
  PROVE  /\ [mem EXCEPT !.finalizers = F] \in Resource
         /\ EntriesOK([mem EXCEPT !.finalizers = F], Len(restores))
<1> DEFINE new == [mem EXCEPT !.finalizers = F]
<1>1. new \in Resource /\ new.entries = mem.entries
  BY DEF MemPart, Resource
<1> QED
  BY <1>1 DEF MemPart, EntriesOK

LEMMA NamespaceType ==
  ASSUME MemPart
  PROVE  /\ [mem EXCEPT !.createdNamespace = TRUE] \in Resource
         /\ EntriesOK([mem EXCEPT !.createdNamespace = TRUE], Len(restores))
<1> DEFINE new == [mem EXCEPT !.createdNamespace = TRUE]
<1>1. new \in Resource /\ new.entries = mem.entries
  BY DEF MemPart, Resource
<1> QED
  BY <1>1 DEF MemPart, EntriesOK

LEMMA NewEntriesType ==
  ASSUME MemPart, NEW e \in [Backups -> Entry], \A b \in Backups : EntryOK(e[b], Len(restores))
  PROVE  /\ [mem EXCEPT !.entries = e] \in Resource
         /\ EntriesOK([mem EXCEPT !.entries = e], Len(restores))
<1> DEFINE new == [mem EXCEPT !.entries = e]
<1>1. new \in Resource /\ new.entries = e
  BY DEF MemPart, Resource
<1> QED
  BY <1>1 DEF EntriesOK

\* validateReferencedDiscovery keeps the three conditions it does not set.
Discovering == [mem EXCEPT !.phase = "InProgress", !.cond.progressing = TRUE,
                           !.cond.reason = "DiscoveringPVCs"]

LEMMA DiscoveringType ==
  ASSUME MemPart
  PROVE  Discovering \in Resource /\ EntriesOK(Discovering, Len(restores))
<1>1. mem.cond \in Conditions
  BY DEF MemPart, Resource
<1> DEFINE c == [mem.cond EXCEPT !.progressing = TRUE, !.reason = "DiscoveringPVCs"]
<1>2. c \in Conditions
  BY <1>1 DEF Conditions, Reasons, WorkflowReasons
<1>3. Discovering = [mem EXCEPT !.phase = "InProgress", !.cond = c]
  BY DEF MemPart, Resource, Discovering
<1> HIDE DEF c
<1>4. Discovering \in Resource /\ Discovering.entries = mem.entries
  BY <1>2, <1>3 DEF MemPart, Resource, Phases
<1> QED
  BY <1>4 DEF MemPart, EntriesOK

\* What reading the backups yields: no entry names a Restore yet.
LEMMA DiscoveredType ==
  ASSUME NEW b \in Backups, NEW f \in DiscoveredEntries(b)
  PROVE  f \in Entry /\ f.restore = 0 /\ f.phase = ""
<1> DEFINE found(s, P) == [state |-> s, pvcs |-> P, restore |-> 0, phase |-> ""]
<1>1. Contents[b] \in SUBSET PVCs
  BY ConstantsAssumption DEF ConstantsAssumption
<1>2. \E s \in States, P \in SUBSET PVCs : f = found(s, P)
  <2>1. NoEntry = found("none", {})
    BY DEF NoEntry
  <2>2. CASE f = NoEntry
    BY <2>1, <2>2 DEF States
  <2>3. CASE b \in todo /\ f # NoEntry
    <3>1. Findings[b] \in SUBSET {"available", "unsupported", "synthetic"}
      BY ConstantsAssumption DEF ConstantsAssumption
    <3>2. PICK g \in Findings[b] :
            f \in CASE g = "available" -> IF Contents[b] = {} THEN {NoEntry}
                                          ELSE {found("available", Contents[b])}
                   [] g = "unsupported" -> {found("unsupported", {p}) : p \in Contents[b]}
                   [] g = "synthetic" -> {found("synthetic", {})}
      BY <2>3, Zenon DEF DiscoveredEntries
    <3> HIDE DEF found
    <3>3. CASE g = "available"
      <4>1. f = found("available", Contents[b])
        BY <2>3, <3>2, <3>3
      <4> QED
        BY <1>1, <4>1 DEF States
    <3>4. CASE g = "unsupported"
      <4>1. PICK p \in Contents[b] : f = found("unsupported", {p})
        BY <3>2, <3>4
      <4> QED
        BY <1>1, <4>1 DEF States
    <3>5. CASE g = "synthetic"
      <4>1. f = found("synthetic", {})
        BY <3>2, <3>5
      <4> QED
        BY <4>1 DEF States
    <3> QED
      BY <3>1, <3>3, <3>4, <3>5
  <2> QED
    BY <2>2, <2>3 DEF DiscoveredEntries
<1>3. PICK s \in States, P \in SUBSET PVCs : f = found(s, P)
  BY <1>2
<1>4. 0 \in 0..MaxRestores /\ "" \in RestoreInfoPhase
  BY ConstantsAssumption DEF ConstantsAssumption, RestoreInfoPhase
<1>5. f \in Entry
  BY <1>3, <1>4 DEF Entry
<1> QED
  BY <1>3, <1>5

(***************************************************************************)
(* monitorVeleroRestores.  An available entry takes name and phase of a    *)
(* Restore of its backup, the one it names if it names one.                *)
(***************************************************************************)
Own(b) == {i \in Labelled : Visible[i].backup = b /\ mem.entries[b].restore \in {0, i}}
Follow(e, i) == [e EXCEPT !.restore = i, !.phase = Normalized(Visible[i].phase)]

LEMMA VisibleType ==
  ASSUME RestoresPart
  PROVE  Visible \in Seq(VeleroRestore) /\ Len(Visible) \in 0..Len(restores)
BY DEF RestoresPart, Visible

LEMMA MonitoredEntry ==
  ASSUME RestoresPart, MemPart, NEW b \in Backups
  PROVE  IF mem.entries[b].state = "available" /\ Own(b) # {}
           THEN \E i \in Own(b) : Monitored(mem).entries[b] = Follow(mem.entries[b], i)
           ELSE Monitored(mem).entries[b] = mem.entries[b]
<1> DEFINE first == CHOOSE i \in Own(b) : \A j \in Own(b) : i <= j
<1>1. Monitored(mem).entries[b] =
        IF mem.entries[b].state = "available" /\ Own(b) # {}
          THEN Follow(mem.entries[b], first) ELSE mem.entries[b]
  BY DEF Monitored, Follow, Own, MemPart, Resource
<1>2. ASSUME Own(b) # {} PROVE first \in Own(b)
  <2>1. Own(b) \in SUBSET Nat
    BY VisibleType DEF Own, Labelled
  <2>2. \E i \in Own(b) : \A j \in Own(b) : i <= j
    BY <1>2, <2>1, Least
  <2> QED
    BY <2>2
<1> HIDE DEF first
<1> QED
  BY <1>1, <1>2

LEMMA NormalizedType ==
  ASSUME NEW p \in VeleroPhase
  PROVE  Normalized(p) \in RestoreInfoPhase \ {""}
BY DEF Normalized, VeleroPhase, RestoreInfoPhase

LEMMA MonitoredType ==
  ASSUME RestoresPart, MemPart
  PROVE  Monitored(mem) \in Resource /\ EntriesOK(Monitored(mem), Len(restores))
<1> DEFINE n(b) == Monitored(mem).entries[b]
<1>1. ASSUME NEW b \in Backups PROVE n(b) \in Entry /\ EntryOK(n(b), Len(restores))
  <2>1. mem.entries[b] \in Entry /\ EntryOK(mem.entries[b], Len(restores))
    BY DEF MemPart, Resource, EntriesOK
  <2>2. CASE n(b) = mem.entries[b]
    BY <2>1, <2>2
  <2>3. CASE \E i \in Own(b) : n(b) = Follow(mem.entries[b], i)
    <3>1. PICK i \in Own(b) : n(b) = Follow(mem.entries[b], i)
      BY <2>3
    <3>2. i \in 1..Len(restores) /\ Visible[i] \in VeleroRestore
      BY VisibleType DEF Own, Labelled, RestoresPart
    <3>3. Visible[i].phase \in VeleroPhase
      BY <3>2 DEF VeleroRestore
    <3>4. i \in 0..MaxRestores /\ i \in 0..Len(restores) /\ i # 0
      BY <3>2, ConstantsAssumption DEF RestoresPart, ConstantsAssumption
    <3> DEFINE p == Normalized(Visible[i].phase)
    <3>5. p \in RestoreInfoPhase \ {""}
      BY <3>3, NormalizedType
    <3>6. n(b) = [mem.entries[b] EXCEPT !.restore = i, !.phase = p]
      BY <3>1 DEF Follow
    <3> HIDE DEF p, n
    <3>7. n(b) \in Entry /\ n(b).restore = i /\ n(b).phase = p
      BY <2>1, <3>4, <3>5, <3>6 DEF Entry
    <3> QED
      BY <3>4, <3>5, <3>7 DEF EntryOK
  <2> QED
    BY <2>2, <2>3, MonitoredEntry
<1>2. Monitored(mem) = [mem EXCEPT !.entries = Monitored(mem).entries]
  BY DEF Monitored, MemPart, Resource
<1>3. Monitored(mem).entries = [b \in Backups |-> Monitored(mem).entries[b]]
  BY DEF Monitored, MemPart, Resource
<1>4. Monitored(mem).entries \in [Backups -> Entry]
  BY <1>1, <1>3
<1> QED
  BY <1>1, <1>2, <1>4, NewEntriesType

LEMMA CategoryType ==
  ASSUME RestoresPart
  PROVE  {Category(Visible[i].phase) : i \in Labelled} \subseteq {"completed", "failed", "inProgress"}
<1>1. ASSUME NEW i \in Labelled PROVE Visible[i].phase \in VeleroPhase
  <2>1. Visible[i] \in VeleroRestore
    BY VisibleType DEF Labelled
  <2> QED
    BY <2>1 DEF VeleroRestore
<1>2. ASSUME NEW p \in VeleroPhase PROVE Category(p) \in {"completed", "failed", "inProgress"}
  BY DEF VeleroPhase, Category
<1>3. ASSUME NEW i \in Labelled
      PROVE  Category(Visible[i].phase) \in {"completed", "failed", "inProgress"}
  BY <1>1, <1>2
<1> QED
  BY <1>3, Zenon

\* What the pod mounts are Restores that were created.
LEMMA MountsType ==
  ASSUME MemPart, RestoresPart
  PROVE  PVCMounts(mem) \subseteq 1..Len(restores)
<1>1. ASSUME NEW b \in Backups, mem.entries[b].phase = "Completed"
      PROVE  mem.entries[b].restore \in 1..Len(restores)
  <2>1. mem.entries[b].restore \in 0..Len(restores) /\ mem.entries[b].restore # 0
    BY <1>1 DEF MemPart, EntriesOK, EntryOK
  <2> HIDE <1>1
  <2> QED
    BY <2>1 DEF RestoresPart
<1> QED
  BY <1>1 DEF PVCMounts, Available

\* A Restore written in place.
LEMMA SetRestoresType ==
  ASSUME TypeInv, NEW r \in [1..Len(restores) -> VeleroRestore],
         \A i \in 1..Len(restores) : r[i].backup = restores[i].backup,
         restores' = r, listed' = listed
  PROVE  InPlace
<1>1. restores' \in Seq(VeleroRestore) /\ Len(restores') = Len(restores)
  BY DEF TypeInv, RestoresPart
<1> QED
  BY <1>1 DEF TypeInv, RestoresPart, InPlace

-----------------------------------------------------------------------------
(***************************************************************************)
(* TypeInv is inductive: one lemma per action.                             *)
(***************************************************************************)
LEMMA TypeInit == Init => TypeInv
<1> SUFFICES ASSUME Init PROVE TypeInv
  OBVIOUS
<1> USE ConstantsAssumption DEF ConstantsAssumption
<1>1. restores = <<>> /\ listed = <<>> /\ RestoresPart
  BY DEF Init, RestoresPart
<1>2. log = <<Created>> /\ mem = Created /\ pc = "idle"
  BY DEF Init
<1>3. LogPart
  <2>1. log \in Seq(Resource) /\ Len(log) = 1 /\ log[1] = Created
    BY <1>2, CreatedType
  <2>2. EntriesOK(Created, Len(restores))
    BY <1>1, CreatedType
  <2> QED
    BY <2>1, <2>2 DEF LogPart
<1>4. MemPart
  BY <1>1, <1>2, CreatedType DEF MemPart
<1>5. vmbd \in [phase: DiscoveryPhases, valid: SUBSET Backups]
  BY DEF Init
<1>6. WorldPart
  BY <1>5 DEF Init, WorldPart
<1>7. faults \in 0..MaxFaults
  BY DEF Init
<1>8. WorkerPart
  BY <1>7 DEF Init, WorkerPart, Places
<1>9. CreatePart
  BY <1>2 DEF CreatePart
<1> QED
  BY <1>1, <1>3, <1>4, <1>6, <1>8, <1>9 DEF TypeInv

\* Where a reconcile may begin.
LEMMA WorkflowStepIs ==
  /\ WorkflowStep("DiscoveringPVCs") = "idle"
  /\ WorkflowStep("ValidationCompleted") = "namespace"
  /\ WorkflowStep("NamespaceReady") = "restores"
  /\ WorkflowStep("WaitingForRestores") = "monitor"
  /\ WorkflowStep("RestoresCompleted") = "credentials"
  /\ WorkflowStep("CredentialsReady") = "file server"
  /\ WorkflowStep("WaitingForRoute") = "route check"
BY DEF WorkflowStep

LEMMA SelectedStepIs ==
  ASSUME NEW o \in Resource
  PROVE  \/ SelectedStep(o) = "idle"
         \/ o.exists /\ o.deleting /\ SelectedStep(o) = CleanupStep(o)
         \/ /\ o.exists /\ ~o.deleting /\ o.phase = ""
            /\ SelectedStep(o) = IF o.finalizers # Finalizers THEN "finalizer" ELSE "initialize"
         \/ /\ o.exists /\ ~o.deleting /\ o.phase \in Unfinished
            /\ o.cond.reason \in WorkflowReasons
            /\ SelectedStep(o) = WorkflowStep(o.cond.reason)
         \/ /\ o.exists /\ ~o.deleting /\ o.phase \in Unfinished
            /\ o.cond.reason \notin WorkflowReasons
            /\ SelectedStep(o) = IF o.phase = "New" THEN "validate" ELSE "discovery"
<1>1. o.exists \in BOOLEAN /\ o.deleting \in BOOLEAN
  BY DEF Resource
<1>2. CASE ~o.exists
  BY <1>2 DEF SelectedStep
<1>3. CASE o.exists /\ o.deleting
  BY <1>3 DEF SelectedStep
<1>4. CASE o.exists /\ ~o.deleting /\ o.phase = ""
  BY <1>4 DEF SelectedStep, Unfinished
<1>5. CASE o.exists /\ ~o.deleting /\ o.phase \in Unfinished
  <2>1. SelectedStep(o) = IF o.cond.reason \in WorkflowReasons THEN WorkflowStep(o.cond.reason)
                          ELSE IF o.phase = "New" THEN "validate" ELSE "discovery"
    BY <1>5 DEF SelectedStep, Unfinished
  <2> QED
    BY <1>5, <2>1
<1>6. CASE o.exists /\ ~o.deleting /\ o.phase # "" /\ o.phase \notin Unfinished
  BY <1>6 DEF SelectedStep
<1> QED
  BY <1>1, <1>2, <1>3, <1>4, <1>5, <1>6

LEMMA ReconcileType ==
  ASSUME TypeInv, Reconcile
  PROVE  TypeInv'
<1>1. InPlace /\ RestoresPart' /\ WorldPart'
  BY WorldKept DEF Reconcile
<1>2. LogPart'
  BY <1>1, InPlaceLog DEF TypeInv, Reconcile
<1>3. CASE SelectedStep(cache) = "idle" /\ UNCHANGED <<pc, mem, fresh>>
  <2>1. UNCHANGED worker /\ queued' \in BOOLEAN /\ faults' = faults
    BY <1>3 DEF Reconcile, worker
  <2> QED
    BY <1>1, <1>2, <2>1, WorkerKeptType
<1>4. CASE /\ SelectedStep(cache) # "idle"
           /\ pc' = SelectedStep(cache) /\ mem' = cache /\ fresh' = (Len(log) = 1)
  <2>1. cache \in Resource /\ EntriesOK(cache, Len(restores))
    BY DEF cache, TypeInv, LogPart
  <2>2. MemPart'
    BY <1>1, <1>4, <2>1 DEF MemPart, InPlace
  <2>3. ASSUME NEW why \in WorkflowReasons PROVE WorkflowStep(why) \in Places \ {"create", "names"}
    <3>1. WorkflowStep(why) \in {"idle", "namespace", "restores", "monitor", "credentials",
                                "file server", "route check"}
      BY WorkflowStepIs DEF WorkflowReasons
    <3> QED
      BY <3>1 DEF Places
  <2>4. CleanupStep(cache) \in Places \ {"create", "names"}
    BY DEF CleanupStep, Places
  <2>5. SelectedStep(cache) \in Places \ {"create", "names"}
    <3>1. {"idle", "finalizer", "initialize", "validate", "discovery"}
            \subseteq Places \ {"create", "names"}
      BY DEF Places
    <3> QED
      BY <2>1, <2>3, <2>4, <3>1, SelectedStepIs
  <2>6. WorkerPart' /\ CreatePart'
    BY <1>4, <2>5 DEF Reconcile, TypeInv, WorkerPart, CreatePart
  <2> QED
    BY <1>1, <1>2, <2>2, <2>6 DEF TypeInv
<1> QED
  BY <1>3, <1>4 DEF Reconcile

LEMMA ValidationType ==
  ASSUME TypeInv, Validation
  PROVE  TypeInv'
<1> USE DEF TypeInv
<1>1. CASE ensureFinalizer
  <2>1. CASE PatchEnd([mem EXCEPT !.finalizers = Finalizers], TRUE)
    BY <2>1, FinalizersType, PatchEndType
  <2>2. CASE Return(TRUE)
    BY <2>2, ReturnType
  <2> QED
    BY <1>1, <2>1, <2>2 DEF ensureFinalizer
<1>2. CASE initializePhaseForFileRestore
  <2>1. Cond(FALSE, "Initialized", FALSE, FALSE, FALSE) \in Conditions /\ "New" \in Phases
    BY CondType DEF Reasons, Phases
  <2> QED
    BY <1>2, <2>1, StatusType, PatchEndType DEF initializePhaseForFileRestore
<1>3. CASE failValidation
  <2>1. Cond(FALSE, "ValidationFailed", FALSE, TRUE, FALSE) \in Conditions /\ "Failed" \in Phases
    BY CondType DEF Reasons, Phases, Terminal
  <2> QED
    BY <1>3, <2>1, StatusType, PatchEndType DEF failValidation
<1>4. CASE StartValidation
  <2>1. "Validating" \in Reasons /\ "discovery" \in Places \ {"create", "names"}
    BY DEF Reasons, Places
  <2> QED
    BY <1>4, <2>1, InProgressType, PatchThenType DEF StartValidation
<1>5. CASE validateReferencedDiscovery
  <2>1. CASE Goto("fail") /\ UNCHANGED world
    BY <2>1, GotoKeptType DEF Places
  <2>2. CASE PatchEnd(InProgress("WaitingForDiscovery"), TRUE)
    <3>1. "WaitingForDiscovery" \in Reasons
      BY DEF Reasons
    <3> QED
      BY <2>2, <3>1, InProgressType, PatchEndType
  <2>3. CASE /\ Patch(Discovering)
             /\ pc' = "discover" /\ mem' = Stored(Merge(mem, Discovering, server))
             /\ todo' = ToServe
             /\ UNCHANGED <<world, queued, faults, seen, fresh>>
    <3>1. InPlace /\ RestoresPart' /\ WorldPart'
      BY <2>3, WorldKept
    <3>2. LogPart' /\ MemPart'
      BY <2>3, <3>1, DiscoveringType, PatchType DEF MemPart, InPlace
    <3>3. ToServe \in SUBSET Backups
      BY DEF ToServe, WorldPart, RestoreSpec
    <3>4. WorkerPart' /\ CreatePart'
      BY <2>3, <3>3 DEF WorkerPart, CreatePart, Places
    <3> QED
      BY <3>1, <3>2, <3>4
  <2> QED
    BY <1>5, <2>1, <2>2, <2>3, Zenon DEF validateReferencedDiscovery, Discovering
<1>6. CASE processDiscoveryResults
  <2>1. PICK e \in [Backups -> UNION {DiscoveredEntries(b) : b \in Backups}] :
               /\ \A b \in Backups : e[b] \in DiscoveredEntries(b)
               /\ PatchThen([mem EXCEPT !.entries = e], "classify")
    BY <1>6 DEF processDiscoveryResults
  <2>2. ASSUME NEW b \in Backups PROVE e[b] \in Entry /\ EntryOK(e[b], Len(restores))
    <3>1. e[b] \in Entry /\ e[b].restore = 0 /\ e[b].phase = ""
      BY <2>1, DiscoveredType
    <3>2. 0 \in 0..Len(restores)
      BY DEF RestoresPart
    <3> QED
      BY <3>1, <3>2, Zenon DEF EntryOK
  <2>3. e \in [Backups -> Entry]
    BY <2>2
  <2> QED
    BY <2>1, <2>2, <2>3, NewEntriesType, PatchThenType DEF Places
<1>7. CASE ClassifyPVCs
  <2>1. CASE Goto("fail") /\ UNCHANGED world
    BY <2>1, GotoKeptType DEF Places
  <2>2. CASE PatchEnd(StatusPhaseConditions("PartiallyFailed",
               Cond(FALSE, "PartialValidationFailed", TRUE, TRUE, FALSE)), TRUE)
    <3>1. /\ Cond(FALSE, "PartialValidationFailed", TRUE, TRUE, FALSE) \in Conditions
          /\ "PartiallyFailed" \in Phases
      BY CondType DEF Reasons, Phases, Terminal
    <3> QED
      BY <2>2, <3>1, StatusType, PatchEndType
  <2>3. CASE PatchEnd(InProgress("ValidationCompleted"), TRUE)
    <3>1. "ValidationCompleted" \in Reasons
      BY DEF Reasons, WorkflowReasons
    <3> QED
      BY <2>3, <3>1, InProgressType, PatchEndType
  <2> QED
    BY <1>7, <2>1, <2>2, <2>3 DEF ClassifyPVCs
<1> QED
  BY <1>1, <1>2, <1>3, <1>4, <1>5, <1>6, <1>7 DEF Validation

\* One object more, or some objects less, in the restore namespace.
LEMMA ObjectsType ==
  ASSUME TypeInv, objs' \subseteq Objects, mounts' \subseteq 1..Len(restores),
         UNCHANGED <<spec, vmbd, restores, listed, namespace>>,
         NEW k \in Places \ {"create", "names"}, Goto(k)
  PROVE  TypeInv'
<1>1. InPlace
  BY SameRestores DEF TypeInv
<1>2. WorldPart'
  BY DEF TypeInv, WorldPart
<1> QED
  BY <1>1, <1>2, GotoType

LEMMA CreateObjectType ==
  ASSUME TypeInv, NEW at, NEW obj \in Objects, NEW k \in Places \ {"create", "names"},
         CreateObject(at, obj, k)
  PROVE  TypeInv'
<1>1. objs' \subseteq Objects /\ mounts' \subseteq 1..Len(restores)
  BY DEF TypeInv, WorldPart, CreateObject
<1> QED
  BY <1>1, ObjectsType DEF CreateObject

LEMMA NamespaceStepsType ==
  ASSUME TypeInv, ensureRestoreNamespace \/ RecordNamespace \/ ensureFileServerAccess \/ NamespaceReady
  PROVE  TypeInv'
<1>1. {"fail", "record namespace", "serviceaccount", "rolebinding", "namespace ready"}
        \subseteq Places \ {"create", "names"}
  BY DEF Places
<1>2. CASE ensureRestoreNamespace
  <2>1. CASE \E k \in {"fail", "record namespace"} : Goto(k) /\ UNCHANGED world
    BY <1>1, <2>1, GotoKeptType
  <2>2. CASE /\ namespace' = TRUE /\ Goto("record namespace")
             /\ UNCHANGED <<spec, vmbd, restores, listed, objs, mounts>>
    <3>1. InPlace
      BY <2>2, SameRestores DEF TypeInv
    <3>2. WorldPart'
      BY <2>2 DEF TypeInv, WorldPart
    <3> QED
      BY <1>1, <2>2, <3>1, <3>2, GotoType
  <2> QED
    BY <1>2, <2>1, <2>2 DEF ensureRestoreNamespace
<1>3. CASE RecordNamespace
  BY <1>1, <1>3, NamespaceType, PatchThenType DEF RecordNamespace, TypeInv
<1>4. CASE ensureFileServerAccess
  <2>1. {"serviceaccount", "rolebinding"} \subseteq Objects
    BY DEF Objects
  <2> QED
    BY <1>1, <1>4, <2>1, CreateObjectType, GotoKeptType DEF ensureFileServerAccess
<1>5. CASE NamespaceReady
  <2>1. "NamespaceReady" \in Reasons
    BY DEF Reasons, WorkflowReasons
  <2> QED
    BY <1>5, <2>1, InProgressType, PatchEndType DEF NamespaceReady, TypeInv
<1> QED
  BY <1>2, <1>3, <1>4, <1>5

LEMMA PrepareRestoresType ==
  ASSUME TypeInv, PrepareRestores
  PROVE  TypeInv'
<1>1. CASE \E k \in {"waiting", "fail"} : Goto(k) /\ UNCHANGED world
  BY <1>1, GotoKeptType DEF Places
<1>2. CASE /\ pc' = "create" /\ todo' = Available(mem)
           /\ UNCHANGED <<log, world, queued, faults, mem, seen, fresh>>
  <2>1. InPlace /\ RestoresPart' /\ WorldPart'
    BY <1>2, WorldKept
  <2>2. LogPart' /\ MemPart'
    BY <1>2, <2>1, InPlaceLog, InPlaceMem DEF TypeInv
  <2>3. WorkerPart'
    BY <1>2 DEF TypeInv, WorkerPart, Places, Available
  <2>4. CreatePart'
    BY <1>2 DEF CreatePart, Available
  <2> QED
    BY <2>1, <2>2, <2>3, <2>4 DEF TypeInv
<1> QED
  BY <1>1, <1>2 DEF PrepareRestores

\* A Restore is appended: what named one of the others still does.
LEMMA CreateType ==
  ASSUME TypeInv, NEW b \in Backups, createVeleroRestores(b)
  PROVE  TypeInv'
<1> USE ConstantsAssumption DEF ConstantsAssumption
<1>1. NewRestore(b) \in VeleroRestore /\ NewRestore(b).backup = b
  BY DEF NewRestore, VeleroRestore, VeleroPhase
<1>2. /\ restores' = Append(restores, NewRestore(b)) /\ Len(restores) < MaxRestores
      /\ restores \in Seq(VeleroRestore)
  BY DEF createVeleroRestores, TypeInv, RestoresPart
<1>3. restores' \in Seq(VeleroRestore) /\ Len(restores') = Len(restores) + 1
  BY <1>1, <1>2
<1>4. RestoresPart'
  BY <1>2, <1>3 DEF createVeleroRestores, TypeInv, RestoresPart
<1>5. 0..Len(restores) \subseteq 0..Len(restores') /\ 1..Len(restores) \subseteq 1..Len(restores')
  BY <1>2, <1>3
<1>6. ASSUME NEW o, EntriesOK(o, Len(restores)) PROVE EntriesOK(o, Len(restores'))
  BY <1>5, <1>6, Zenon DEF EntriesOK, EntryOK
<1>7. LogPart'
  BY <1>6 DEF TypeInv, LogPart, createVeleroRestores
<1>8. MemPart'
  BY <1>6 DEF TypeInv, MemPart, createVeleroRestores
<1>9. WorldPart'
  BY <1>5 DEF TypeInv, WorldPart, createVeleroRestores
<1>10. WorkerPart'
  BY DEF TypeInv, WorkerPart, createVeleroRestores, Places
<1>11. HasRestore(b)'
  <2>1. Len(restores') \in 1..Len(restores') /\ restores'[Len(restores')] = NewRestore(b)
    BY <1>1, <1>2, <1>3
  <2> QED
    BY <1>1, <2>1 DEF HasRestore
<1>12. ASSUME NEW c \in Backups, HasRestore(c) PROVE HasRestore(c)'
  <2>1. PICK i \in 1..Len(restores) : restores[i].backup = c
    BY <1>12 DEF HasRestore
  <2>2. i \in 1..Len(restores') /\ restores'[i] = restores[i]
    BY <1>1, <1>2, <1>3
  <2> QED
    BY <2>1, <2>2 DEF HasRestore
<1>13. CreatePart'
  <2>1. ASSUME NEW c \in Available(mem) PROVE c \in todo \/ HasRestore(c)
    BY DEF TypeInv, CreatePart, createVeleroRestores
  <2>2. ASSUME NEW c \in Available(mem), ~(c \in todo \ {b}) PROVE HasRestore(c)'
    BY <1>11, <1>12, <2>1, <2>2 DEF Available
  <2>3. Available(mem)' = Available(mem) /\ todo' = todo \ {b}
    BY DEF createVeleroRestores, Available
  <2>4. pc' = "names" => todo = {b}
    BY DEF createVeleroRestores
  <2> QED
    BY <2>2, <2>3, <2>4 DEF CreatePart
<1> QED
  BY <1>4, <1>7, <1>8, <1>9, <1>10, <1>13 DEF TypeInv

LEMMA NamesType ==
  ASSUME TypeInv, RecordRestoreNames
  PROVE  TypeInv'
<1> DEFINE e == [b \in Backups |->
                   IF b \in Available(mem)
                     THEN [mem.entries[b] EXCEPT !.restore = Newest(b), !.phase = "New"]
                     ELSE mem.entries[b]]
<1>1. ASSUME NEW b \in Backups PROVE e[b] \in Entry /\ EntryOK(e[b], Len(restores))
  <2>1. mem.entries[b] \in Entry /\ EntryOK(mem.entries[b], Len(restores))
    BY DEF TypeInv, MemPart, Resource, EntriesOK
  <2>2. CASE b \notin Available(mem)
    BY <2>1, <2>2
  <2>3. CASE b \in Available(mem)
    <3> DEFINE i == Newest(b)
    <3>1. i \in 1..Len(restores)
      BY <2>3, NewestIsOne DEF TypeInv, CreatePart, RecordRestoreNames
    <3> HIDE DEF i
    <3>2. i \in 0..MaxRestores /\ i \in 0..Len(restores) /\ i # 0
      BY <3>1, ConstantsAssumption DEF TypeInv, RestoresPart, ConstantsAssumption
    <3>3. "New" \in RestoreInfoPhase \ {""}
      BY DEF RestoreInfoPhase
    <3>4. e[b] = [mem.entries[b] EXCEPT !.restore = i, !.phase = "New"]
      BY <2>3 DEF i
    <3> HIDE DEF e
    <3>5. e[b] \in Entry /\ e[b].restore = i /\ e[b].phase = "New"
      BY <2>1, <3>2, <3>3, <3>4 DEF Entry
    <3> QED
      BY <3>2, <3>5, Zenon DEF EntryOK
  <2> QED
    BY <2>2, <2>3
<1>2. e \in [Backups -> Entry]
  BY <1>1
<1>3. PatchThen([mem EXCEPT !.entries = e], "waiting")
  BY DEF RecordRestoreNames
<1> HIDE DEF e
<1>4. "waiting" \in Places \ {"create", "names"}
  BY DEF Places
<1> QED
  BY <1>1, <1>2, <1>3, <1>4, NewEntriesType, PatchThenType DEF TypeInv

LEMMA FixedType ==
  ASSUME NEW r \in VeleroRestore
  PROVE  /\ Fixed(r) \in VeleroRestore /\ Fixed(r).backup = r.backup
         /\ Fixed(r).exists = r.exists /\ Fixed(r).phase = r.phase /\ Fixed(r).claim = r.claim
BY DEF Fixed, VeleroRestore

LEMMA FixType ==
  ASSUME TypeInv, fixDataDownloadPVCNames
  PROVE  TypeInv'
<1> DEFINE r == [i \in 1..Len(restores) |->
                   IF i \in Labelled THEN Fixed(restores[i]) ELSE restores[i]]
<1>1. ASSUME NEW i \in 1..Len(restores)
      PROVE  r[i] \in VeleroRestore /\ r[i].backup = restores[i].backup
  <2>1. restores[i] \in VeleroRestore
    BY DEF TypeInv, RestoresPart
  <2> QED
    BY <2>1, FixedType
<1>2. r \in [1..Len(restores) -> VeleroRestore]
  BY <1>1
<1>3. restores' = r /\ listed' = listed
  BY DEF fixDataDownloadPVCNames
<1> HIDE DEF r
<1>4. InPlace
  BY <1>1, <1>2, <1>3, SetRestoresType
<1>5. WorldPart'
  BY <1>4 DEF InPlace, TypeInv, WorldPart, fixDataDownloadPVCNames
<1>6. CASE EndReconcile(TRUE) /\ UNCHANGED <<log, faults>>
  <2>1. LogPart' /\ RestoresPart'
    BY <1>4, <1>6, InPlaceLog DEF TypeInv, InPlace
  <2>2. queued' \in BOOLEAN /\ faults' \in 0..MaxFaults
    BY <1>6 DEF TypeInv, WorkerPart, EndReconcile
  <2> QED
    BY <1>5, <1>6, <2>1, <2>2, EndType DEF EndReconcile
<1>7. CASE Goto("judge")
  BY <1>4, <1>5, <1>7, GotoType DEF Places
<1> QED
  BY <1>6, <1>7 DEF fixDataDownloadPVCNames

LEMMA MonitorStepsType ==
  ASSUME TypeInv,
         WaitForRestores \/ monitorVeleroRestores \/ UpdatePhases \/ JudgeRestores
  PROVE  TypeInv'
<1>1. CASE WaitForRestores
  <2>1. "WaitingForRestores" \in Reasons
    BY DEF Reasons, WorkflowReasons
  <2> QED
    BY <1>1, <2>1, InProgressType, PatchEndType DEF WaitForRestores, TypeInv
<1>2. CASE monitorVeleroRestores
  <2>1. CASE Return(TRUE)
    BY <2>1, ReturnType
  <2>2. CASE /\ seen' = {Category(Visible[i].phase) : i \in Labelled}
             /\ mem' = Monitored(mem)
             /\ pc' = IF Monitored(mem) = mem THEN "fix" ELSE "update"
             /\ UNCHANGED <<log, world, queued, faults, todo, fresh>>
    <3>1. InPlace /\ RestoresPart' /\ WorldPart'
      BY <2>2, WorldKept
    <3>2. LogPart'
      BY <2>2, <3>1, InPlaceLog DEF TypeInv
    <3>3. MemPart'
      BY <2>2, <3>1, MonitoredType DEF TypeInv, MemPart, InPlace
    <3>4. WorkerPart'
      BY <2>2, CategoryType DEF TypeInv, WorkerPart, Places
    <3>5. CreatePart'
      BY <2>2 DEF CreatePart
    <3> QED
      BY <3>1, <3>2, <3>3, <3>4, <3>5 DEF TypeInv
  <2> QED
    BY <1>2, <2>1, <2>2 DEF monitorVeleroRestores
<1>3. CASE UpdatePhases
  <2>1. CASE /\ Replace(mem) /\ pc' = "fix"
             /\ UNCHANGED <<world, queued, faults, mem, todo, seen, fresh>>
    <3>1. InPlace /\ RestoresPart' /\ WorldPart'
      BY <2>1, WorldKept
    <3>2. LogPart'
      BY <2>1, <3>1, ReplaceType DEF TypeInv, MemPart, InPlace
    <3>3. MemPart'
      BY <2>1, <3>1, InPlaceMem DEF TypeInv
    <3>4. WorkerPart' /\ CreatePart'
      BY <2>1 DEF TypeInv, WorkerPart, CreatePart, Places
    <3> QED
      BY <3>1, <3>2, <3>3, <3>4 DEF TypeInv
  <2>2. CASE Return(TRUE)
    BY <2>2, ReturnType
  <2> QED
    BY <1>3, <2>1, <2>2 DEF UpdatePhases
<1>4. CASE JudgeRestores
  <2>1. CASE Goto("fail") /\ UNCHANGED world
    BY <2>1, GotoKeptType DEF Places
  <2>2. CASE Return(TRUE)
    BY <2>2, ReturnType
  <2>3. CASE PatchEnd(InProgress("RestoresCompleted"), TRUE)
    <3>1. "RestoresCompleted" \in Reasons
      BY DEF Reasons, WorkflowReasons
    <3> QED
      BY <2>3, <3>1, InProgressType, PatchEndType DEF TypeInv
  <2>4. CASE PatchEnd(StatusPhaseConditions("PartiallyFailed",
               Cond(FALSE, "RestoresCompletedWithFailures", TRUE, TRUE, TRUE)), FALSE)
    <3>1. /\ Cond(FALSE, "RestoresCompletedWithFailures", TRUE, TRUE, TRUE) \in Conditions
          /\ "PartiallyFailed" \in Phases
      BY CondType DEF Reasons, Phases, Terminal
    <3> QED
      BY <2>4, <3>1, StatusType, PatchEndType DEF TypeInv
  <2>5. CASE PatchEnd(StatusPhaseConditions("Failed",
               Cond(FALSE, "RestoresFailed", FALSE, TRUE, FALSE)), FALSE)
    <3>1. /\ Cond(FALSE, "RestoresFailed", FALSE, TRUE, FALSE) \in Conditions
          /\ "Failed" \in Phases
      BY CondType DEF Reasons, Phases, Terminal
    <3> QED
      BY <2>5, <3>1, StatusType, PatchEndType DEF TypeInv
  <2> QED
    BY <1>4, <2>1, <2>2, <2>3, <2>4, <2>5 DEF JudgeRestores
<1> QED
  BY <1>1, <1>2, <1>3, <1>4

LEMMA CredentialStepsType ==
  ASSUME TypeInv,
         cleanupAllCredentialSecrets \/ ensureCredentials \/ CredentialsReady
  PROVE  TypeInv'
<1>1. {"secrets", "fail", "credentials ready"} \subseteq Places \ {"create", "names"}
  BY DEF Places
<1>2. CASE cleanupAllCredentialSecrets
  <2>1. objs' \subseteq Objects /\ mounts' \subseteq 1..Len(restores)
    BY <1>2 DEF cleanupAllCredentialSecrets, TypeInv, WorldPart
  <2>2. \E k \in {"secrets", "fail"} : Goto(k)
    BY <1>2 DEF cleanupAllCredentialSecrets
  <2> QED
    BY <1>1, <1>2, <2>1, <2>2, ObjectsType DEF cleanupAllCredentialSecrets
<1>3. CASE ensureCredentials
  <2>1. CASE CreateObject("secrets", "secrets", "credentials ready")
    BY <1>1, <2>1, CreateObjectType DEF Objects
  <2>2. CASE \E k \in {"credentials ready", "fail"} : Goto(k) /\ UNCHANGED world
    BY <1>1, <2>2, GotoKeptType
  <2> QED
    BY <1>3, <2>1, <2>2 DEF ensureCredentials
<1>4. CASE CredentialsReady
  <2>1. "CredentialsReady" \in Reasons
    BY DEF Reasons, WorkflowReasons
  <2> QED
    BY <1>4, <2>1, InProgressType, PatchEndType DEF CredentialsReady, TypeInv
<1> QED
  BY <1>2, <1>3, <1>4

LEMMA FileServerStepsType ==
  ASSUME TypeInv,
         \/ PrepareFileServer \/ CreatePod \/ CreateService \/ createRoutesIfRequested
         \/ PublishFileServer \/ WaitingForRoute
  PROVE  TypeInv'
<1>1. {"pod", "fail", "service", "route", "publish"} \subseteq Places \ {"create", "names"}
  BY DEF Places
<1>2. CASE PrepareFileServer
  BY <1>1, <1>2, GotoKeptType DEF PrepareFileServer
<1>3. CASE CreatePod
  <2>1. objs' \subseteq Objects /\ mounts' \subseteq 1..Len(restores)
    BY <1>3, MountsType DEF CreatePod, TypeInv, WorldPart, Objects
  <2> QED
    BY <1>1, <1>3, <2>1, ObjectsType DEF CreatePod
<1>4. CASE CreateService
  <2>1. \E k \in {"route", "publish"} : CreateObject("service", "service", k)
    BY <1>4 DEF CreateService
  <2> QED
    BY <1>1, <2>1, CreateObjectType DEF Objects
<1>5. CASE createRoutesIfRequested
  <2>1. CASE CreateObject("route", "route", "publish")
    BY <1>1, <2>1, CreateObjectType DEF Objects
  <2>2. CASE Goto("publish") /\ UNCHANGED world
    BY <1>1, <2>2, GotoKeptType
  <2> QED
    BY <1>5, <2>1, <2>2 DEF createRoutesIfRequested
<1>6. ServingInfo \in {"none", "cluster", "public"}
  BY DEF ServingInfo
<1>7. /\ CompletedCond \in Conditions
      /\ Cond(TRUE, "WaitingForRoute", TRUE, FALSE, FALSE) \in Conditions
      /\ {"InProgress", "Completed"} \subseteq Phases
  BY CondType DEF CompletedCond, Reasons, WorkflowReasons, Phases, Terminal
<1>8. ASSUME NEW p \in Phases, NEW c \in Conditions, NEW q \in BOOLEAN,
             PatchEnd([mem EXCEPT !.phase = p, !.info = ServingInfo, !.cond = c], q)
      PROVE  TypeInv'
  BY <1>6, <1>8, ServedType, PatchEndType DEF TypeInv
<1>9. CASE PublishFileServer
  BY <1>7, <1>8, <1>9 DEF PublishFileServer
<1>10. CASE WaitingForRoute
  BY <1>7, <1>8, <1>10, ReturnType DEF WaitingForRoute
<1> QED
  BY <1>2, <1>3, <1>4, <1>5, <1>9, <1>10

LEMMA WorkflowType ==
  ASSUME TypeInv, Workflow
  PROVE  TypeInv'
BY NamespaceStepsType, PrepareRestoresType, CreateType, NamesType, MonitorStepsType,
   FixType, CredentialStepsType, FileServerStepsType DEF Workflow

\* One Restore is written in place, whatever else the step does.
LEMMA OneRestoreType ==
  ASSUME TypeInv, NEW i \in 1..Len(restores), NEW r \in VeleroRestore,
         r.backup = restores[i].backup,
         restores' = [restores EXCEPT ![i] = r], listed' = listed
  PROVE  InPlace
<1>1. restores \in [1..Len(restores) -> VeleroRestore]
  BY DEF TypeInv, RestoresPart
<1>2. restores' \in [1..Len(restores) -> VeleroRestore]
  BY <1>1
<1>3. \A j \in 1..Len(restores) : restores'[j].backup = restores[j].backup
  BY <1>1
<1> QED
  BY <1>2, <1>3, SetRestoresType

\* The same while the worker stands where it is.
LEMMA OneRestoreStepType ==
  ASSUME TypeInv, NEW i \in 1..Len(restores), NEW r \in VeleroRestore,
         r.backup = restores[i].backup, restores' = [restores EXCEPT ![i] = r],
         UNCHANGED <<log, spec, vmbd, listed, namespace, objs, mounts, faults, worker>>,
         queued' \in BOOLEAN
  PROVE  TypeInv'
<1>1. InPlace
  BY OneRestoreType
<1>2. LogPart'
  BY <1>1, InPlaceLog DEF TypeInv
<1>3. WorldPart'
  BY <1>1 DEF TypeInv, WorldPart, InPlace
<1> QED
  BY <1>1, <1>2, <1>3, WorkerKeptType

LEMMA RestoreTypes ==
  ASSUME TypeInv, NEW i \in 1..Len(restores)
  PROVE  restores[i] \in VeleroRestore
BY DEF TypeInv, RestoresPart

LEMMA RestoreFields ==
  ASSUME NEW r \in VeleroRestore
  PROVE  /\ \A p \in VeleroPhase : /\ [r EXCEPT !.phase = p] \in VeleroRestore
                                   /\ [r EXCEPT !.phase = p].backup = r.backup
         /\ \A e \in BOOLEAN : /\ [r EXCEPT !.exists = e] \in VeleroRestore
                               /\ [r EXCEPT !.exists = e].backup = r.backup
         /\ \A c \in {"none", "Pending", "Lost"} : /\ [r EXCEPT !.claim = c] \in VeleroRestore
                                                   /\ [r EXCEPT !.claim = c].backup = r.backup
         /\ \A d \in {"none", "stuck"} :
              /\ [r EXCEPT !.claim = "Pending", !.download = d] \in VeleroRestore
              /\ [r EXCEPT !.claim = "Pending", !.download = d].backup = r.backup
BY DEF VeleroRestore

\* An object of the named Restore is not there any more, or the Restore itself.
LEMMA RestoreFieldStep ==
  ASSUME TypeInv, NEW i \in 1..Len(restores)
  PROVE  /\ restores' = [restores EXCEPT ![i].exists = FALSE] =>
              restores' = [restores EXCEPT ![i] = [restores[i] EXCEPT !.exists = FALSE]]
         /\ restores' = [restores EXCEPT ![i].claim = "none"] =>
              restores' = [restores EXCEPT ![i] = [restores[i] EXCEPT !.claim = "none"]]
BY DEF TypeInv, RestoresPart

LEMMA LabelledType ==
  ASSUME RestoresPart
  PROVE  Labelled \subseteq 1..Len(restores)
BY VisibleType DEF Labelled, RestoresPart

LEMMA RecordedType ==
  ASSUME MemPart, RestoresPart
  PROVE  Recorded(mem) \subseteq 1..Len(restores)
<1>1. ASSUME NEW b \in Backups, mem.entries[b].restore # 0
      PROVE  mem.entries[b].restore \in 1..Len(restores)
  <2>1. mem.entries[b].restore \in 0..Len(restores)
    BY DEF MemPart, EntriesOK, EntryOK
  <2> QED
    BY <1>1, <2>1 DEF RestoresPart
<1> QED
  BY <1>1 DEF Recorded

LEMMA DeleteObjectsType ==
  ASSUME TypeInv, NEW at, NEW gone, NEW k \in Places \ {"create", "names"},
         DeleteObjects(at, gone, k)
  PROVE  TypeInv'
<1>1. objs' \subseteq Objects /\ mounts' \subseteq 1..Len(restores)
  BY DEF TypeInv, WorldPart, DeleteObjects
<1> QED
  BY <1>1, ObjectsType DEF DeleteObjects

LEMMA DeletionType ==
  ASSUME TypeInv, Deletion
  PROVE  TypeInv'
<1> DEFINE Next0 == {"drop restore finalizer", "drop finalizer", "delete pods",
                     "delete services", "delete routes", "delete claims", "delete secrets",
                     "delete access"}
<1>1. Next0 \subseteq Places \ {"create", "names"}
  BY DEF Places
<1>2. ASSUME NEW k \in Next0, Goto(k), UNCHANGED world PROVE TypeInv'
  BY <1>1, <1>2, GotoKeptType
<1>3. CASE handleVeleroRestoreCleanup
  <2>1. CASE Goto("drop restore finalizer") /\ UNCHANGED world
    BY <1>2, <2>1
  <2>2. CASE \E i \in Labelled :
               /\ restores' = [restores EXCEPT ![i].exists = FALSE]
               /\ queued' = TRUE
               /\ UNCHANGED <<log, spec, vmbd, listed, namespace, objs, mounts, faults, worker>>
    <3>1. PICK i \in Labelled :
               /\ restores' = [restores EXCEPT ![i].exists = FALSE]
               /\ queued' = TRUE
               /\ UNCHANGED <<log, spec, vmbd, listed, namespace, objs, mounts, faults, worker>>
      BY <2>2
    <3>2. i \in 1..Len(restores)
      BY LabelledType DEF TypeInv
    <3> DEFINE r == [restores[i] EXCEPT !.exists = FALSE]
    <3>3. r \in VeleroRestore /\ r.backup = restores[i].backup
      BY <3>2, RestoreTypes, RestoreFields
    <3>4. restores' = [restores EXCEPT ![i] = r]
      BY <3>1, <3>2, RestoreFieldStep
    <3> HIDE DEF r
    <3> QED
      BY <3>1, <3>2, <3>3, <3>4, OneRestoreStepType
  <2> QED
    BY <1>3, <2>1, <2>2 DEF handleVeleroRestoreCleanup
<1>4. ASSUME NEW F \in SUBSET Finalizers, NEW q \in BOOLEAN,
             PatchEnd([mem EXCEPT !.finalizers = F], q)
      PROVE  TypeInv'
  BY <1>4, FinalizersType, PatchEndType DEF TypeInv
<1>5. \A f : mem.finalizers \ {f} \in SUBSET Finalizers
  BY DEF TypeInv, MemPart, Resource
<1>6. CASE DropRestoreFinalizer \/ DropFinalizer
  BY <1>4, <1>5, <1>6 DEF DropRestoreFinalizer, DropFinalizer
<1>7. CASE handleResourceCleanup
  <2>1. CASE \E k \in Next0 : Goto(k) /\ UNCHANGED world
    BY <1>2, <2>1
  <2>2. CASE /\ namespace' = FALSE /\ objs' = {} /\ mounts' = {}
             /\ restores' = [i \in 1..Len(restores) |-> [restores[i] EXCEPT !.claim = "none"]]
             /\ Goto("drop finalizer")
             /\ UNCHANGED <<spec, vmbd, listed>>
    <3> DEFINE r == [i \in 1..Len(restores) |-> [restores[i] EXCEPT !.claim = "none"]]
    <3>1. ASSUME NEW i \in 1..Len(restores)
          PROVE  r[i] \in VeleroRestore /\ r[i].backup = restores[i].backup
      BY RestoreTypes, RestoreFields
    <3>2. r \in [1..Len(restores) -> VeleroRestore]
      BY <3>1
    <3>3. restores' = r /\ listed' = listed
      BY <2>2
    <3> HIDE DEF r
    <3>4. InPlace
      BY <3>1, <3>2, <3>3, SetRestoresType
    <3>5. WorldPart'
      BY <2>2 DEF TypeInv, WorldPart
    <3> QED
      BY <1>1, <2>2, <3>4, <3>5, GotoType
  <2> QED
    BY <1>7, <2>1, <2>2 DEF handleResourceCleanup
<1>8. CASE deleteFileServerPods \/ deleteFileServerServices \/ deleteFileServerRoutes
  BY <1>1, <1>8, DeleteObjectsType
     DEF deleteFileServerPods, deleteFileServerServices, deleteFileServerRoutes
<1>9. CASE deleteControllerSecrets \/ deleteFileServerAccess
  BY <1>1, <1>9, DeleteObjectsType DEF deleteControllerSecrets, deleteFileServerAccess
<1>10. CASE deleteRestoredPVCs
  <2>1. CASE Goto("delete secrets") /\ UNCHANGED world
    BY <1>2, <2>1
  <2>2. CASE \E i \in Recorded(mem) :
               /\ restores' = [restores EXCEPT ![i].claim = "none"]
               /\ UNCHANGED <<log, spec, vmbd, listed, namespace, objs, mounts, queued, faults,
                              worker>>
    <3>1. PICK i \in Recorded(mem) :
               /\ restores' = [restores EXCEPT ![i].claim = "none"]
               /\ UNCHANGED <<log, spec, vmbd, listed, namespace, objs, mounts, queued, faults,
                              worker>>
      BY <2>2
    <3>2. i \in 1..Len(restores)
      BY RecordedType DEF TypeInv
    <3> DEFINE r == [restores[i] EXCEPT !.claim = "none"]
    <3>3. r \in VeleroRestore /\ r.backup = restores[i].backup
      BY <3>2, RestoreTypes, RestoreFields
    <3>4. restores' = [restores EXCEPT ![i] = r]
      BY <3>1, <3>2, RestoreFieldStep
    <3>5. queued' \in BOOLEAN
      BY <3>1 DEF TypeInv, WorkerPart
    <3> HIDE DEF r
    <3> QED
      BY <3>1, <3>2, <3>3, <3>4, <3>5, OneRestoreStepType
  <2> QED
    BY <1>10, <2>1, <2>2 DEF deleteRestoredPVCs
<1> QED
  BY <1>3, <1>6, <1>7, <1>8, <1>9, <1>10 DEF Deletion

LEMMA FaultType ==
  ASSUME TypeInv, ApiError \/ Crash \/ NotFound
  PROVE  TypeInv'
<1>1. ASSUME faults > 0, faults' = faults - 1 PROVE faults' \in 0..MaxFaults
  BY <1>1, ConstantsAssumption DEF TypeInv, WorkerPart, ConstantsAssumption
<1>2. CASE ApiError
  <2>1. InPlace /\ RestoresPart' /\ WorldPart'
    BY <1>2, WorldKept DEF ApiError
  <2>2. LogPart' /\ faults' \in 0..MaxFaults
    BY <1>1, <1>2, <2>1, InPlaceLog DEF TypeInv, ApiError
  <2>3. CASE EndReconcile(TRUE)
    <3>1. queued' \in BOOLEAN
      BY <2>3 DEF TypeInv, WorkerPart, EndReconcile
    <3> QED
      BY <2>1, <2>2, <2>3, <3>1, EndType DEF EndReconcile
  <2>4. CASE /\ pc' \in {"fail", "judge", "publish", "delete claims"}
             /\ UNCHANGED <<queued, mem, todo, seen, fresh>>
    <3>1. MemPart'
      BY <2>1, <2>4, InPlaceMem DEF TypeInv
    <3>2. WorkerPart' /\ CreatePart'
      BY <2>2, <2>4 DEF TypeInv, WorkerPart, CreatePart, Places
    <3> QED
      BY <2>1, <2>2, <3>1, <3>2 DEF TypeInv
  <2> QED
    BY <1>2, <2>3, <2>4 DEF ApiError
<1>3. CASE Crash
  <2>1. RestoresPart' /\ WorldPart'
    BY <1>3 DEF Crash, TypeInv, RestoresPart, WorldPart
  <2>2. LogPart'
    <3>1. server \in Resource /\ EntriesOK(server, Len(restores))
      BY ServerType DEF TypeInv
    <3>2. log' \in Seq(Resource) /\ Len(log') = 1 /\ log'[1] = server
      BY <1>3, <3>1 DEF Crash
    <3>3. 1 \in 1..MaxVersions
      BY ConstantsAssumption DEF ConstantsAssumption
    <3> QED
      BY <1>3, <3>1, <3>2, <3>3 DEF LogPart, Crash
  <2>3. faults' \in 0..MaxFaults /\ queued' \in BOOLEAN
    BY <1>1, <1>3 DEF Crash
  <2> QED
    BY <1>3, <2>1, <2>2, <2>3, EndType DEF Crash
<1>4. CASE NotFound
  BY <1>4, ReturnType DEF NotFound
<1> QED
  BY <1>2, <1>3, <1>4

LEMMA VeleroType ==
  ASSUME TypeInv, NEW i, VeleroAdvances(i) \/ ClaimAppears(i) \/ ClaimLost(i)
  PROVE  TypeInv'
<1>1. i \in 1..Len(restores)
  BY DEF VeleroAdvances, ClaimAppears, ClaimLost
<1>2. restores[i] \in VeleroRestore
  BY <1>1, RestoreTypes
<1>3. ASSUME NEW r \in VeleroRestore, r.backup = restores[i].backup, SetRestore(i, r),
             queued' \in BOOLEAN
      PROVE  TypeInv'
  BY <1>1, <1>3, OneRestoreStepType DEF SetRestore
<1>4. CASE VeleroAdvances(i)
  <2>1. PICK p \in VeleroNext(restores[i]) : SetRestore(i, [restores[i] EXCEPT !.phase = p])
    BY <1>4 DEF VeleroAdvances
  <2>2. VeleroNext(restores[i]) \subseteq VeleroPhase
    <3>1. restores[i].phase \in VeleroPhase
      BY <1>2 DEF VeleroRestore
    <3> QED
      BY <3>1 DEF VeleroNext, VeleroPhase
  <2>3. queued' \in BOOLEAN
    BY <1>4 DEF VeleroAdvances, RestoreEvent, TypeInv, WorkerPart
  <2> QED
    BY <1>2, <1>3, <2>1, <2>2, <2>3, RestoreFields
<1>5. CASE ClaimAppears(i)
  <2>1. queued' \in BOOLEAN
    BY <1>5 DEF ClaimAppears, TypeInv, WorkerPart
  <2> QED
    BY <1>2, <1>3, <1>5, <2>1, RestoreFields DEF ClaimAppears
<1>6. CASE ClaimLost(i)
  <2>1. queued' \in BOOLEAN
    BY <1>6 DEF ClaimLost, TypeInv, WorkerPart
  <2> QED
    BY <1>2, <1>3, <1>6, <2>1, RestoreFields DEF ClaimLost
<1> QED
  BY <1>4, <1>5, <1>6

LEMMA OutsideType ==
  ASSUME TypeInv,
         \/ DiscoveryAdvances \/ DiscoveryDeleted \/ RouteAdmitted
         \/ UserDeletes \/ InformerDelivers \/ RestoresDelivered
  PROVE  TypeInv'
<1>1. CASE DiscoveryAdvances \/ DiscoveryDeleted \/ RouteAdmitted
  <2>1. InPlace
    BY <1>1, SameRestores DEF DiscoveryAdvances, DiscoveryDeleted, RouteAdmitted, TypeInv
  <2>2. LogPart'
    BY <1>1, <2>1, InPlaceLog DEF DiscoveryAdvances, DiscoveryDeleted, RouteAdmitted, TypeInv
  <2>3. vmbd' \in [phase: DiscoveryPhases, valid: SUBSET Backups]
    <3>1. CASE DiscoveryAdvances
      <4>1. PICK p \in DiscoveryNext(vmbd.phase), v \in ValidChoices :
                 vmbd' = [phase |-> p, valid |-> IF p = "Completed" THEN v ELSE {}]
        BY <3>1 DEF DiscoveryAdvances
      <4>2. v \in SUBSET Backups
        BY ConstantsAssumption DEF ConstantsAssumption
      <4>3. DiscoveryNext(vmbd.phase) \subseteq DiscoveryPhases
        <5>1. vmbd.phase \in DiscoveryPhases
          BY DEF TypeInv, WorldPart
        <5> QED
          BY <5>1 DEF DiscoveryNext, DiscoveryPhases
      <4> QED
        BY <4>1, <4>2, <4>3
    <3>2. CASE DiscoveryDeleted
      BY <3>2 DEF DiscoveryDeleted, DiscoveryPhases
    <3>3. CASE RouteAdmitted
      BY <3>3 DEF RouteAdmitted, TypeInv, WorldPart
    <3> QED
      BY <1>1, <3>1, <3>2, <3>3
  <2>4. WorldPart'
    BY <1>1, <2>3 DEF DiscoveryAdvances, DiscoveryDeleted, RouteAdmitted, TypeInv,
                      WorldPart, Objects
  <2> QED
    BY <1>1, <2>1, <2>2, <2>4, WorkerKeptType
       DEF DiscoveryAdvances, DiscoveryDeleted, RouteAdmitted
<1>2. CASE UserDeletes
  <2>1. InPlace /\ RestoresPart' /\ WorldPart'
    BY <1>2, WorldKept DEF UserDeletes
  <2> DEFINE o == [server EXCEPT !.deleting = TRUE]
  <2>2. server \in Resource /\ EntriesOK(server, Len(restores))
    BY ServerType DEF TypeInv
  <2>3. o \in Resource /\ o.entries = server.entries /\ o.deleting = TRUE
    BY <2>2 DEF Resource
  <2>4. Stored(o) \in Resource /\ EntriesOK(Stored(o), Len(restores)) /\ Stored(o).deleting = TRUE
    <3> HIDE DEF o
    <3> QED
      BY <2>2, <2>3, StoredType DEF EntriesOK
  <2>5. Stored(o) # server
    BY <1>2, <2>4 DEF UserDeletes
  <2>6. Replace(Stored(o))
    BY <1>2, <2>5 DEF UserDeletes, Replace
  <2> HIDE DEF o
  <2>7. LogPart'
    BY <2>1, <2>4, <2>6, ReplaceType DEF TypeInv, InPlace
  <2>8. MemPart'
    BY <1>2, <2>1, InPlaceMem DEF TypeInv, UserDeletes
  <2>9. WorkerPart' /\ CreatePart'
    BY <1>2 DEF TypeInv, WorkerPart, CreatePart, UserDeletes, world, HasRestore, Available
  <2> QED
    BY <2>1, <2>7, <2>8, <2>9 DEF TypeInv
<1>3. CASE InformerDelivers
  <2>1. InPlace /\ RestoresPart' /\ WorldPart'
    BY <1>3, WorldKept DEF InformerDelivers
  <2>2. log' \in Seq(Resource) /\ Len(log') = Len(log) - 1 /\ Len(log) > 1
    BY <1>3 DEF TypeInv, LogPart, InformerDelivers
  <2>3. \A k \in 1..Len(log') : log'[k] = log[k + 1] /\ k + 1 \in 1..Len(log)
    BY <1>3, <2>2 DEF TypeInv, LogPart, InformerDelivers
  <2>4. Len(log') \in 1..MaxVersions
    BY <2>2, ConstantsAssumption DEF TypeInv, LogPart, ConstantsAssumption
  <2>5. LogPart'
    BY <2>1, <2>2, <2>3, <2>4 DEF TypeInv, LogPart, InPlace
  <2> QED
    BY <1>3, <2>1, <2>5, WorkerKeptType DEF InformerDelivers
<1>4. CASE RestoresDelivered
  <2>1. InPlace
    BY <1>4 DEF RestoresDelivered, TypeInv, RestoresPart, InPlace
  <2>2. LogPart'
    BY <1>4, <2>1, InPlaceLog DEF RestoresDelivered, TypeInv
  <2>3. WorldPart'
    BY <1>4 DEF RestoresDelivered, TypeInv, WorldPart
  <2> QED
    BY <1>4, <2>1, <2>2, <2>3, WorkerKeptType DEF RestoresDelivered
<1> QED
  BY <1>1, <1>2, <1>3, <1>4

LEMMA TypeNext == TypeInv /\ [Next]_vars => TypeInv'
<1> SUFFICES ASSUME TypeInv, [Next]_vars PROVE TypeInv'
  OBVIOUS
<1>1. CASE Controller
  BY <1>1, ReconcileType, ValidationType, WorkflowType, DeletionType, FaultType DEF Controller
<1>2. CASE Environment
  BY <1>2, FaultType, VeleroType, OutsideType DEF Environment
<1>3. CASE UNCHANGED vars
  <2>1. InPlace /\ RestoresPart' /\ WorldPart'
    BY <1>3, WorldKept DEF vars
  <2>2. LogPart'
    BY <1>3, <2>1, InPlaceLog DEF TypeInv, vars
  <2>3. queued' \in BOOLEAN
    BY <1>3 DEF TypeInv, WorkerPart, vars
  <2> QED
    BY <1>3, <2>1, <2>2, <2>3, WorkerKeptType DEF vars
<1> QED
  BY <1>1, <1>2, <1>3 DEF Next

LEMMA TypeInvIsTypeOK == TypeInv => TypeOK
BY DEF TypeInv, TypeOK, LogPart, MemPart, RestoresPart, WorldPart, WorkerPart

\* TypeOK holds in every reachable state, for every set of backups and with
\* stale reads too: in particular every Restore name in any version of the
\* status, cached or in hand, and every mount of the pod is the name of a
\* Restore that was created, so no step follows a name to nothing.
THEOREM TypeCorrect == Spec => []TypeOK
<1>1. Init => TypeInv
  BY TypeInit
<1>2. TypeInv /\ [Next]_vars => TypeInv'
  BY TypeNext
<1>3. TypeInv => TypeOK
  BY TypeInvIsTypeOK
<1> QED
  BY <1>1, <1>2, <1>3, PTL DEF Spec

-----------------------------------------------------------------------------
(***************************************************************************)
(* The inductive invariant of FileRestore for a worker that starts a       *)
(* reconcile only when the caches have caught up (StaleReads = FALSE), and *)
(* what its parts have in common over the steps: what a patch stores, when *)
(* the status may move to a stage, and which step of RestoreLifecycle a    *)
(* change of the resource or of the world is.                              *)
(***************************************************************************)

(***************************************************************************)
(* What the entries of a status say.                                       *)
(***************************************************************************)
Chosen(e) == {b \in Backups : e[b].state = "available"}
Named(e) == \A b \in Chosen(e) : e[b].restore # 0
Unnamed(e) == \A b \in Backups : e[b].restore = 0
AllCompleted(e) == \A b \in Chosen(e) : e[b].phase = "Completed"
SameNames(e, f) == \A b \in Backups : e[b].state = f[b].state /\ e[b].restore = f[b].restore

BackupsOf(r) == [i \in 1..Len(r) |-> r[i].backup]
Links(e, bs) == \A b \in Backups : e[b].restore # 0 => bs[e[b].restore] = b
Existing(r) == {i \in 1..Len(r) : r[i].exists}
WithClaim(r) == {i \in 1..Len(r) : r[i].claim # "none"}

(***************************************************************************)
(* Places of the reconcile.  Nothing has been cleaned up while the VMFR is *)
(* not being deleted, nor while a reconcile that read it so still runs.    *)
(***************************************************************************)
RemovingRestores == {"delete restores", "drop restore finalizer"}
RemovingObjects == {"cleanup", "delete pods", "delete services", "delete routes",
                    "delete claims", "delete secrets", "delete access", "drop finalizer"}
Serving == {"finalizer", "initialize", "validate", "discovery", "discover", "classify",
            "namespace", "record namespace", "serviceaccount", "rolebinding",
            "namespace ready", "restores", "create", "names", "waiting", "monitor", "update",
            "fix", "judge", "credentials", "secrets", "credentials ready", "file server",
            "pod", "service", "route", "publish", "route check", "fail"}
Untouched == ~server.deleting \/ pc \in Serving

stage == LifeStage(server)
UpToValidated == {"created", "new", "validating", "validated"}
FromPlaced == {"placed", "restoring", "restored", "credentials", "exposing", "Completed"}
FromRestoring == FromPlaced \ {"placed"}
FromRestored == FromRestoring \ {"restoring"}

(***************************************************************************)
(* Invariants of the resource and of the world.                            *)
(***************************************************************************)
FinalizerInv ==
  /\ ~server.exists => server.deleting /\ server.finalizers = {}
  /\ server.exists /\ server.deleting => server.finalizers \in {Finalizers, {"vm-file-restore"}}
  /\ ~server.deleting => server.finalizers \in {{}, Finalizers}
  /\ ~server.deleting /\ server.finalizers = {} => server.phase = ""

EarlyReasons == {"Validating", "WaitingForDiscovery"}

ReasonInv ==
  /\ server.phase = "New" => server.cond.reason = "Initialized"
  /\ server.phase = "InProgress" => server.cond.reason \in WorkflowReasons \cup EarlyReasons
  /\ server.phase = "InProgress" /\ server.cond.reason \in EarlyReasons =>
       Chosen(server.entries) = {}

\* A completed VMFR that is to be exposed has its public address.
PublicInv == stage = "Completed" /\ spec.expose => server.info = "public"

\* What must hold for the VMFR to be at stage t.
Claims(t) ==
  /\ t \in {"created", "new"} => Chosen(server.entries) = {}
  /\ t \in {"created", "new", "validating"} => ~server.createdNamespace
  /\ t \in UpToValidated => Unnamed(server.entries) /\ restores = <<>>
  /\ t = "placed" => Named(server.entries) \/ Unnamed(server.entries)
  /\ t \in FromRestoring => Named(server.entries)
  /\ t \in FromRestored => AllCompleted(server.entries)
  /\ t \in FromPlaced => server.createdNamespace
  /\ Untouched /\ t \in FromPlaced => AccessObjects \subseteq objs
  /\ "pod" \in objs => t \in {"credentials", "exposing", "Completed", "Failed"}
  /\ Untouched /\ t \in {"exposing", "Completed"} => {"pod", "service"} \subseteq objs

RestoreInv ==
  /\ \A i \in 1..Len(restores) : BackupsOf(restores)[i] \in Chosen(server.entries)
  /\ Links(server.entries, BackupsOf(restores))
  /\ Untouched => Existing(restores) = 1..Len(restores)
  /\ "velero-restore-cleanup" \notin server.finalizers /\ server.deleting => Existing(restores) = {}

ObjectInv ==
  /\ ~server.createdNamespace => objs = {}
  /\ Untouched /\ server.createdNamespace => namespace
  /\ spec.target = "existing" => namespace
  /\ objs # {} => namespace
  /\ "pod" \notin objs => mounts = {}
  /\ "pod" \in objs => {BackupsOf(restores)[i] : i \in mounts} = Chosen(server.entries)
  /\ Untouched => mounts \subseteq WithClaim(restores)
  /\ ~server.exists => objs \subseteq {"route", "route host"}

WorldInv == FinalizerInv /\ ReasonInv /\ PublicInv /\ Claims(stage) /\ RestoreInv /\ ObjectInv

(***************************************************************************)
(* What the running reconcile may rely on at place k.  The copy in hand    *)
(* agrees with the server's, a deletion by the user aside.                 *)
(***************************************************************************)
SyncAt(k) ==
  /\ k # "idle" =>
       /\ mem.finalizers = server.finalizers /\ mem.phase = server.phase
       /\ mem.cond = server.cond /\ mem.createdNamespace = server.createdNamespace
       /\ mem.info = server.info
       /\ k # "update" => mem.entries = server.entries
       /\ fresh => mem.exists = server.exists /\ mem.deleting = server.deleting
  /\ k \in Serving \ {"finalizer"} => server.exists /\ server.finalizers = Finalizers
  /\ k = "finalizer" => server.finalizers = {}
  /\ k \in RemovingRestores => server.exists /\ server.deleting /\ server.finalizers = Finalizers
  /\ k \in RemovingObjects =>
       server.exists /\ server.deleting /\ server.finalizers = {"vm-file-restore"}

StageAt(k) ==
  /\ k \in {"finalizer", "initialize"} => stage = "created"
  /\ k = "validate" => stage = "new"
  /\ k \in {"discovery", "discover", "classify"} => stage = "validating"
  /\ k \in {"namespace", "record namespace", "serviceaccount", "rolebinding", "namespace ready"}
       => stage = "validated"
  /\ k \in {"restores", "create", "names", "waiting"} => stage = "placed"
  /\ k \in {"monitor", "update", "fix", "judge"} => stage = "restoring"
  /\ k \in {"credentials", "secrets", "credentials ready"} => stage = "restored"
  /\ k \in {"file server", "pod", "service", "route", "publish"} => stage = "credentials"
  /\ k = "route check" => stage = "exposing"
  /\ k = "fail" => stage \in {"validating", "validated", "placed", "restoring", "restored",
                              "credentials"}

ChoiceAt(k) ==
  /\ k = "discovery" => server.cond.reason \in EarlyReasons
  /\ k = "discover" => server.cond.reason = "DiscoveringPVCs" /\ Chosen(server.entries) = {}
  /\ k \in {"create", "names"} => Unnamed(server.entries)
  /\ k = "create" => todo \subseteq Chosen(server.entries)
  /\ k = "waiting" => Named(server.entries)
  /\ k = "update" => SameNames(mem.entries, server.entries)
  /\ k \in {"update", "fix", "judge"} /\ seen \subseteq {"completed"} => AllCompleted(mem.entries)
  /\ k = "judge" => "inProgress" \notin seen

WorldAt(k) ==
  /\ k = "record namespace" => namespace
  /\ k \in {"serviceaccount", "rolebinding", "namespace ready"} => server.createdNamespace
  /\ k = "rolebinding" => "serviceaccount" \in objs
  /\ k = "namespace ready" => AccessObjects \subseteq objs
  /\ k = "pod" => PVCMounts(mem) \subseteq WithClaim(restores)
  /\ k \in {"service", "route", "publish"} => "pod" \in objs
  /\ k \in {"route", "publish"} => "service" \in objs
  /\ k = "drop restore finalizer" => Existing(restores) = {}
  /\ k \in RemovingObjects \ {"cleanup", "delete pods"} => "pod" \notin objs
  /\ k \in RemovingObjects \ {"cleanup", "delete pods", "delete services"} => "service" \notin objs
  /\ k \in {"delete access", "drop finalizer"} => "secrets" \notin objs
  /\ k = "drop finalizer" => AccessObjects \cap objs = {}

At(k) == SyncAt(k) /\ StageAt(k) /\ ChoiceAt(k) /\ WorldAt(k)

Inv == TypeInv /\ WorldInv /\ At(pc)

-----------------------------------------------------------------------------
(***************************************************************************)
(* Small facts.                                                            *)
(***************************************************************************)
LEMMA AvailableIsChosen ==
  ASSUME NEW o
  PROVE  Available(o) = Chosen(o.entries)
BY DEF Available, Chosen

LEMMA BackupsOfAt ==
  ASSUME NEW r, NEW i \in 1..Len(r)
  PROVE  BackupsOf(r)[i] = r[i].backup
BY DEF BackupsOf

LEMMA ServerFields ==
  ASSUME TypeInv
  PROVE  /\ server \in Resource
         /\ server.exists \in BOOLEAN /\ server.deleting \in BOOLEAN
         /\ server.finalizers \in SUBSET Finalizers /\ server.phase \in Phases
         /\ server.cond \in Conditions /\ server.createdNamespace \in BOOLEAN
         /\ server.entries \in [Backups -> Entry]
<1>1. server \in Resource
  BY ServerType DEF TypeInv
<1> QED
  BY <1>1 DEF Resource

LEMMA StageValues ==
  ASSUME NEW o
  PROVE  /\ o.phase = "" => LifeStage(o) = "created"
         /\ o.phase = "New" => LifeStage(o) = "new"
         /\ o.phase = "Completed" => LifeStage(o) = "Completed"
         /\ o.phase = "PartiallyFailed" => LifeStage(o) = "PartiallyFailed"
         /\ o.phase = "Failed" => LifeStage(o) = "Failed"
         /\ o.phase = "InProgress" /\ o.cond.reason = "Validating" => LifeStage(o) = "validating"
         /\ o.phase = "InProgress" /\ o.cond.reason = "WaitingForDiscovery" =>
              LifeStage(o) = "validating"
         /\ o.phase = "InProgress" /\ o.cond.reason = "DiscoveringPVCs" =>
              LifeStage(o) = "validating"
         /\ o.phase = "InProgress" /\ o.cond.reason = "ValidationCompleted" =>
              LifeStage(o) = "validated"
         /\ o.phase = "InProgress" /\ o.cond.reason = "NamespaceReady" => LifeStage(o) = "placed"
         /\ o.phase = "InProgress" /\ o.cond.reason = "WaitingForRestores" =>
              LifeStage(o) = "restoring"
         /\ o.phase = "InProgress" /\ o.cond.reason = "RestoresCompleted" =>
              LifeStage(o) = "restored"
         /\ o.phase = "InProgress" /\ o.cond.reason = "CredentialsReady" =>
              LifeStage(o) = "credentials"
         /\ o.phase = "InProgress" /\ o.cond.reason = "WaitingForRoute" => LifeStage(o) = "exposing"
<1>1. CASE o.phase # "InProgress"
  BY <1>1 DEF LifeStage, Terminal
<1>2. CASE o.phase = "InProgress"
  <2>1. LifeStage(o) =
          CASE o.cond.reason \in {"Validating", "WaitingForDiscovery", "DiscoveringPVCs"} ->
                 "validating"
            [] o.cond.reason = "ValidationCompleted" -> "validated"
            [] o.cond.reason = "NamespaceReady" -> "placed"
            [] o.cond.reason = "WaitingForRestores" -> "restoring"
            [] o.cond.reason = "RestoresCompleted" -> "restored"
            [] o.cond.reason = "CredentialsReady" -> "credentials"
            [] o.cond.reason = "WaitingForRoute" -> "exposing"
    BY <1>2 DEF LifeStage, Terminal
  <2> QED
    BY <1>2, <2>1
<1> QED
  BY <1>1, <1>2

\* The stage tells the phase.
LEMMA PhaseOfStage ==
  ASSUME TypeInv, ReasonInv
  PROVE  /\ server.phase = "" <=> stage = "created"
         /\ server.phase = "New" <=> stage = "new"
         /\ server.phase \in Terminal <=> stage \in Terminal
         /\ server.phase = "Completed" <=> stage = "Completed"
         /\ server.phase = "InProgress" <=>
              stage \in {"validating", "validated", "placed", "restoring", "restored",
                         "credentials", "exposing"}
         /\ server.phase = "InProgress" =>
              /\ server.cond.reason = "ValidationCompleted" <=> stage = "validated"
              /\ server.cond.reason = "NamespaceReady" <=> stage = "placed"
              /\ server.cond.reason = "WaitingForRestores" <=> stage = "restoring"
              /\ server.cond.reason = "RestoresCompleted" <=> stage = "restored"
              /\ server.cond.reason = "CredentialsReady" <=> stage = "credentials"
              /\ server.cond.reason = "WaitingForRoute" <=> stage = "exposing"
<1>1. server.phase \in Phases
  BY ServerFields
<1>2. CASE server.phase # "InProgress"
  <2>1. CASE server.phase = ""
    BY <2>1, StageValues DEF stage, Terminal
  <2>2. CASE server.phase = "New"
    BY <2>2, StageValues DEF stage, Terminal
  <2>3. CASE server.phase \in Terminal
    BY <2>3, StageValues DEF stage, Terminal
  <2> QED
    BY <1>1, <1>2, <2>1, <2>2, <2>3 DEF Phases
<1>3. CASE server.phase = "InProgress"
  <2>1. server.cond.reason \in WorkflowReasons \cup EarlyReasons
    BY <1>3 DEF ReasonInv
  <2> QED
    BY <1>3, <2>1, StageValues DEF stage, WorkflowReasons, EarlyReasons, Terminal
<1> QED
  BY <1>2, <1>3

-----------------------------------------------------------------------------
(***************************************************************************)
(* Frames.  Velero's Restores keep their backups, are not removed and lose *)
(* no claim in most steps.                                                 *)
(***************************************************************************)
RestoresFrame ==
  /\ Len(restores') = Len(restores) /\ (restores = <<>> => restores' = <<>>)
  /\ BackupsOf(restores') = BackupsOf(restores)
  /\ Existing(restores') = Existing(restores)
  /\ WithClaim(restores) \subseteq WithClaim(restores')

LEMMA RestoresKept ==
  ASSUME restores' = restores
  PROVE  RestoresFrame
BY DEF RestoresFrame

\* The resource and the restore namespace stay as they are.
LEMMA WorldFrame ==
  ASSUME WorldInv, server' = server, Untouched' => Untouched, RestoresFrame,
         UNCHANGED <<spec, namespace, objs, mounts>>
  PROVE  WorldInv'
<1>1. stage' = stage
  BY DEF stage
<1>2. FinalizerInv' /\ ReasonInv' /\ PublicInv'
  BY <1>1 DEF WorldInv, FinalizerInv, ReasonInv, PublicInv
<1>3. Claims(stage)'
  BY <1>1 DEF WorldInv, Claims, RestoresFrame
<1>4. RestoreInv'
  BY DEF WorldInv, RestoreInv, RestoresFrame
<1>5. ObjectInv'
  BY DEF WorldInv, ObjectInv, RestoresFrame
<1> QED
  BY <1>2, <1>3, <1>4, <1>5 DEF WorldInv

\* The worker moves to k, or stays there, with what it has in hand.
LEMMA AtFrame ==
  ASSUME NEW k, At(k), pc' = k, server' = server, RestoresFrame,
         UNCHANGED <<namespace, mem, todo, seen, fresh>>,
         objs \subseteq objs', objs' \subseteq objs \cup {"route host"}
  PROVE  At(pc)'
<1>1. stage' = stage
  BY DEF stage
<1>2. SyncAt(pc)'
  BY DEF At, SyncAt
<1>3. StageAt(pc)'
  BY <1>1 DEF At, StageAt
<1>4. ChoiceAt(pc)'
  BY DEF At, ChoiceAt
<1>5. WorldAt(pc)'
  <2>1. PVCMounts(mem)' = PVCMounts(mem)
    BY DEF PVCMounts, Available
  <2> QED
    BY <2>1 DEF At, WorldAt, RestoresFrame, AccessObjects
<1> QED
  BY <1>2, <1>3, <1>4, <1>5 DEF At

LEMMA AtIdle ==
  ASSUME pc' = "idle"
  PROVE  At(pc)'
<1>1. SyncAt(pc)'
  BY DEF SyncAt, Serving, RemovingRestores, RemovingObjects
<1>2. StageAt(pc)' /\ ChoiceAt(pc)'
  BY DEF StageAt, ChoiceAt
<1>3. WorldAt(pc)'
  BY DEF WorldAt, RemovingObjects
<1> QED
  BY <1>1, <1>2, <1>3 DEF At

LEMMA IdleUntouched ==
  ASSUME pc' = "idle", server'.deleting = server.deleting
  PROVE  Untouched' => Untouched
BY DEF Untouched, Serving

LEMMA ServingUntouched ==
  ASSUME pc \in Serving
  PROVE  Untouched
BY DEF Untouched

-----------------------------------------------------------------------------
(***************************************************************************)
(* Patches.  As the copy in hand agrees with the server's, a merge patch   *)
(* stores the fields of the changed copy; a deletion meanwhile is kept.    *)
(***************************************************************************)
Onto(new) ==
  [exists |-> server.exists, deleting |-> server.deleting, finalizers |-> new.finalizers,
   phase |-> new.phase, cond |-> new.cond, createdNamespace |-> new.createdNamespace,
   entries |-> new.entries, info |-> new.info]

LEMMA PatchSync ==
  ASSUME TypeInv, SyncAt(pc), pc \notin {"idle", "update"},
         NEW new \in Resource, EntriesOK(new, Len(restores)),
         Patch(new), restores' = restores
  PROVE  /\ Merge(mem, new, server) = Onto(new)
         /\ server' = Stored(Onto(new))
<1>1. server' = Stored(Merge(mem, new, server))
  BY PatchType DEF TypeInv
<1>2. Merge(mem, new, server) = Onto(new)
  BY DEF SyncAt, Merge, Onto
<1> QED
  BY <1>1, <1>2

\* A reconcile that serves keeps both finalizers, so the resource stays.
LEMMA PatchServing ==
  ASSUME TypeInv, SyncAt(pc), pc \in Serving \ {"finalizer", "update"},
         NEW new \in Resource, EntriesOK(new, Len(restores)), new.finalizers = mem.finalizers,
         Patch(new), restores' = restores
  PROVE  /\ server' = Onto(new) /\ server' = Stored(Merge(mem, new, server))
         /\ server'.exists = server.exists /\ server'.deleting = server.deleting
         /\ server'.finalizers = server.finalizers
         /\ server'.phase = new.phase /\ server'.cond = new.cond
         /\ server'.createdNamespace = new.createdNamespace
         /\ server'.entries = new.entries /\ server'.info = new.info
<1>1. Merge(mem, new, server) = Onto(new) /\ server' = Stored(Onto(new))
  BY PatchSync DEF Serving
<1>2. Onto(new).finalizers = Finalizers
  BY DEF SyncAt, Serving, Onto
<1>3. Stored(Onto(new)) = Onto(new)
  BY <1>2 DEF Stored, Finalizers
<1>4. server' = Onto(new)
  BY <1>1, <1>3
<1>5. new.finalizers = server.finalizers
  BY DEF SyncAt, Serving
<1> QED
  BY <1>1, <1>4, <1>5 DEF Onto

\* What patchVmfrStatusPhaseConditions changes.
LEMMA StatusFields ==
  ASSUME MemPart, NEW p, NEW c
  PROVE  LET new == StatusPhaseConditions(p, c) IN
         /\ new.finalizers = mem.finalizers /\ new.phase = p /\ new.cond = c
         /\ new.createdNamespace = mem.createdNamespace /\ new.entries = mem.entries
         /\ new.info = mem.info
BY DEF MemPart, Resource, StatusPhaseConditions

LEMMA ServedFields ==
  ASSUME MemPart, NEW p, NEW c, NEW i
  PROVE  LET new == [mem EXCEPT !.phase = p, !.info = i, !.cond = c] IN
         /\ new.finalizers = mem.finalizers /\ new.phase = p /\ new.cond = c
         /\ new.createdNamespace = mem.createdNamespace /\ new.entries = mem.entries
         /\ new.info = i
BY DEF MemPart, Resource

\* The server's version after a step that publishes phase p and conditions c.
Published(p, c) ==
  /\ server'.exists = server.exists /\ server'.deleting = server.deleting
  /\ server'.finalizers = server.finalizers
  /\ server'.phase = p /\ server'.cond = c
  /\ server'.createdNamespace = server.createdNamespace
  /\ server'.entries = server.entries

LEMMA StatusPublished ==
  ASSUME TypeInv, SyncAt(pc), pc \in Serving \ {"finalizer", "update"},
         NEW p \in Phases, NEW c \in Conditions,
         Patch(StatusPhaseConditions(p, c)), restores' = restores
  PROVE  /\ Published(p, c) /\ server'.info = server.info
         /\ server' = Stored(Merge(mem, StatusPhaseConditions(p, c), server))
<1> DEFINE new == StatusPhaseConditions(p, c)
<1>1. new \in Resource /\ EntriesOK(new, Len(restores))
  BY StatusType DEF TypeInv
<1>2. /\ new.finalizers = mem.finalizers /\ new.phase = p /\ new.cond = c
      /\ new.createdNamespace = mem.createdNamespace /\ new.entries = mem.entries
      /\ new.info = mem.info
  BY StatusFields DEF TypeInv
<1>3. /\ mem.createdNamespace = server.createdNamespace /\ mem.entries = server.entries
      /\ mem.info = server.info
  BY DEF SyncAt, Serving
<1> HIDE DEF new
<1>4. Patch(new)
  BY DEF new
<1>5. Published(p, c) /\ server'.info = server.info /\ server' = Stored(Merge(mem, new, server))
  BY <1>1, <1>2, <1>3, <1>4, PatchServing DEF Published
<1> QED
  BY <1>5 DEF new

LEMMA ServedPublished ==
  ASSUME TypeInv, SyncAt(pc), pc \in Serving \ {"finalizer", "update"},
         NEW p \in Phases, NEW c \in Conditions, NEW i \in {"none", "cluster", "public"},
         Patch([mem EXCEPT !.phase = p, !.info = i, !.cond = c]), restores' = restores
  PROVE  Published(p, c) /\ server'.info = i
<1> DEFINE new == [mem EXCEPT !.phase = p, !.info = i, !.cond = c]
<1>1. new \in Resource /\ EntriesOK(new, Len(restores))
  BY ServedType DEF TypeInv
<1>2. /\ new.finalizers = mem.finalizers /\ new.phase = p /\ new.cond = c
      /\ new.createdNamespace = mem.createdNamespace /\ new.entries = mem.entries
      /\ new.info = i
  BY ServedFields DEF TypeInv
<1>3. mem.createdNamespace = server.createdNamespace /\ mem.entries = server.entries
  BY DEF SyncAt, Serving
<1> HIDE DEF new
<1>4. Patch(new)
  BY DEF new
<1> QED
  BY <1>1, <1>2, <1>3, <1>4, PatchServing DEF Published

\* The status moves on to stage t, for which the world is ready.
LEMMA AdvanceWorld ==
  ASSUME TypeInv, WorldInv, SyncAt(pc), pc \in Serving \ {"finalizer"},
         NEW p, NEW c, Published(p, c), p # "",
         p = "New" => c.reason = "Initialized",
         p = "InProgress" => c.reason \in WorkflowReasons \cup EarlyReasons,
         p = "InProgress" /\ c.reason \in EarlyReasons => Chosen(server.entries) = {},
         p = "Completed" /\ spec.expose => server'.info = "public",
         NEW t, t = LifeStage(server'), t = "Completed" => p = "Completed", Claims(t),
         UNCHANGED <<spec, restores, namespace, objs, mounts>>
  PROVE  WorldInv'
<1>1. stage' = t
  BY DEF stage
<1>2. Untouched
  BY DEF Untouched
<1>3. server.exists /\ server.finalizers = Finalizers
  BY DEF SyncAt
<1>4. FinalizerInv'
  <2>1. Finalizers # {}
    BY DEF Finalizers
  <2> QED
    BY <1>3, <2>1 DEF FinalizerInv, Published
<1>5. ReasonInv'
  BY DEF WorldInv, ReasonInv, Published
<1>6. PublicInv'
  BY <1>1 DEF PublicInv
<1>7. Claims(stage)'
  BY <1>1, <1>2 DEF Claims, Published
<1>8. RestoreInv'
  BY <1>2 DEF WorldInv, RestoreInv, Published
<1>9. ObjectInv'
  BY <1>2 DEF WorldInv, ObjectInv, Published
<1> QED
  BY <1>4, <1>5, <1>6, <1>7, <1>8, <1>9 DEF WorldInv

-----------------------------------------------------------------------------
(***************************************************************************)
(* The abstract state, and the steps of RestoreLifecycle in its terms.     *)
(***************************************************************************)
lives == Life(server)
chosen == Chosen(server.entries)
restored == {BackupsOf(restores)[i] : i \in Existing(restores)}
served == {BackupsOf(restores)[i] : i \in mounts}

LifeStep == [Lifecycle!Next]_(Lifecycle!vars)

LEMMA RestoredIs ==
  ASSUME NEW r
  PROVE  {BackupsOf(r)[i] : i \in Existing(r)} =
           {x.backup : x \in {r[i] : i \in {j \in 1..Len(r) : r[j].exists}}}
BY DEF BackupsOf, Existing

LEMMA ServedIs ==
  ASSUME NEW r, NEW m \in SUBSET (1..Len(r))
  PROVE  {BackupsOf(r)[i] : i \in m} = {r[i].backup : i \in m}
BY DEF BackupsOf

\* The state of RestoreLifecycle that a state of FileRestore shows.
LEMMA AbstractState ==
  ASSUME TypeInv, TypeInv'
  PROVE  /\ chosen = Available(server) /\ chosen' = Available(server)'
         /\ restored = {r.backup : r \in {restores[i] : i \in {j \in 1..Len(restores) :
                                                                 restores[j].exists}}}
         /\ restored' = {r.backup : r \in {restores[i] : i \in {j \in 1..Len(restores) :
                                                                 restores[j].exists}}}'
         /\ served = {restores[i].backup : i \in mounts}
         /\ served' = {restores[i].backup : i \in mounts}'
<1>1. chosen = Available(server) /\ chosen' = Available(server)'
  BY AvailableIsChosen DEF chosen
<1>2. restored = {r.backup : r \in {restores[i] : i \in {j \in 1..Len(restores) :
                                                           restores[j].exists}}}
  BY RestoredIs DEF restored
<1>3. restored' = {r.backup : r \in {restores[i] : i \in {j \in 1..Len(restores) :
                                                            restores[j].exists}}}'
  BY RestoredIs DEF restored
<1>4. mounts \in SUBSET (1..Len(restores)) /\ mounts' \in SUBSET (1..Len(restores'))
  BY DEF TypeInv, WorldPart
<1>5. served = {restores[i].backup : i \in mounts}
  BY <1>4, ServedIs DEF served
<1>6. served' = {restores[i].backup : i \in mounts}'
  BY <1>4, ServedIs DEF served
<1> QED
  BY <1>1, <1>2, <1>3, <1>5, <1>6

LEMMA StutterStep ==
  ASSUME TypeInv, TypeInv', UNCHANGED <<stage, lives, chosen, restored, served>>
  PROVE  LifeStep
BY AbstractState DEF LifeStep, Lifecycle!vars, stage, lives

LEMMA AdvanceStep ==
  ASSUME TypeInv, TypeInv', NEW s \in Lifecycle!Stages,
         lives \in {"live", "deleting"}, s \in Lifecycle!After(stage),
         s = "validated" => chosen # {}, s = "restoring" => chosen = restored,
         s \in {"exposing", "Completed"} => served = chosen,
         stage' = s, UNCHANGED <<lives, chosen, restored, served>>
  PROVE  LifeStep
<1>1. Lifecycle!Advance(s)
  BY AbstractState DEF Lifecycle!Advance, stage, lives
<1> QED
  BY <1>1 DEF LifeStep, Lifecycle!Next

LEMMA ChooseStep ==
  ASSUME TypeInv, TypeInv', lives \in {"live", "deleting"}, stage = "validating", chosen = {},
         UNCHANGED <<stage, lives, restored, served>>
  PROVE  LifeStep
<1>1. chosen' \in SUBSET Backups
  BY DEF chosen, Chosen
<1>2. Lifecycle!Choose(chosen')
  BY AbstractState DEF Lifecycle!Choose, stage, lives
<1> QED
  BY <1>1, <1>2 DEF LifeStep, Lifecycle!Next

LEMMA RestoreStep ==
  ASSUME TypeInv, TypeInv', lives \in {"live", "deleting"}, stage = "placed",
         NEW b \in Backups, b \in chosen, restored' = restored \cup {b},
         UNCHANGED <<stage, lives, chosen, served>>
  PROVE  LifeStep
<1>1. Lifecycle!Restore(b)
  BY AbstractState DEF Lifecycle!Restore, stage, lives
<1> QED
  BY <1>1 DEF LifeStep, Lifecycle!Next

LEMMA ServeStep ==
  ASSUME TypeInv, TypeInv', lives \in {"live", "deleting"}, stage = "credentials",
         served = {}, chosen = restored, served' = chosen,
         UNCHANGED <<stage, lives, chosen, restored>>
  PROVE  LifeStep
<1>1. Lifecycle!Serve
  BY AbstractState DEF Lifecycle!Serve, stage, lives
<1> QED
  BY <1>1 DEF LifeStep, Lifecycle!Next

LEMMA DeleteStep ==
  ASSUME TypeInv, TypeInv', lives = "live",
         lives' = "deleting" \/ (stage = "created" /\ lives' = "gone"),
         UNCHANGED <<stage, chosen, restored, served>>
  PROVE  LifeStep
<1>1. Lifecycle!Delete
  BY AbstractState DEF Lifecycle!Delete, stage, lives
<1> QED
  BY <1>1 DEF LifeStep, Lifecycle!Next

LEMMA RemoveRestoreStep ==
  ASSUME TypeInv, TypeInv', lives = "deleting", NEW b \in Backups, restored' = restored \ {b},
         UNCHANGED <<stage, lives, chosen, served>>
  PROVE  LifeStep
<1>1. Lifecycle!RemoveRestore(b)
  BY AbstractState DEF Lifecycle!RemoveRestore, stage, lives
<1> QED
  BY <1>1 DEF LifeStep, Lifecycle!Next

LEMMA RestoresRemovedStep ==
  ASSUME TypeInv, TypeInv', lives = "deleting", restored = {}, lives' = "restores removed",
         UNCHANGED <<stage, chosen, restored, served>>
  PROVE  LifeStep
<1>1. Lifecycle!RestoresRemoved
  BY AbstractState DEF Lifecycle!RestoresRemoved, stage, lives
<1> QED
  BY <1>1 DEF LifeStep, Lifecycle!Next

LEMMA StopServingStep ==
  ASSUME TypeInv, TypeInv', lives = "restores removed", served' = {},
         UNCHANGED <<stage, lives, chosen, restored>>
  PROVE  LifeStep
<1>1. Lifecycle!StopServing
  BY AbstractState DEF Lifecycle!StopServing, stage, lives
<1> QED
  BY <1>1 DEF LifeStep, Lifecycle!Next

LEMMA RemoveStep ==
  ASSUME TypeInv, TypeInv', lives = "restores removed", served = {}, lives' = "gone",
         UNCHANGED <<stage, chosen, restored, served>>
  PROVE  LifeStep
<1>1. Lifecycle!Remove
  BY AbstractState DEF Lifecycle!Remove, stage, lives
<1> QED
  BY <1>1 DEF LifeStep, Lifecycle!Next

\* Where a deletion stands.
LEMMA LivesValues ==
  ASSUME TypeInv
  PROVE  /\ ~server.exists => lives = "gone"
         /\ server.exists /\ ~server.deleting => lives = "live"
         /\ server.exists /\ server.deleting /\ "velero-restore-cleanup" \in server.finalizers =>
              lives = "deleting"
         /\ server.exists /\ server.deleting /\ "velero-restore-cleanup" \notin server.finalizers =>
              lives = "restores removed"
<1>1. server.exists \in BOOLEAN /\ server.deleting \in BOOLEAN
  BY ServerFields
<1>2. CASE ~server.exists
  BY <1>2 DEF lives, Life
<1>3. CASE server.exists /\ ~server.deleting
  BY <1>3 DEF lives, Life
<1>4. CASE server.exists /\ server.deleting
  BY <1>4 DEF lives, Life
<1> QED
  BY <1>1, <1>2, <1>3, <1>4

\* Without a change of the resource, of which Restores exist and of the mounts,
\* the abstract state stays.
LEMMA KeptStep ==
  ASSUME TypeInv, TypeInv', server' = server, RestoresFrame, mounts' = mounts
  PROVE  LifeStep
<1>1. UNCHANGED <<stage, lives, chosen, restored, served>>
  BY DEF RestoresFrame, stage, lives, chosen, restored, served
<1> QED
  BY <1>1, StutterStep

\* A serving reconcile works on a resource that is there, with both finalizers.
LEMMA ServingLives ==
  ASSUME TypeInv, SyncAt(pc), pc \in Serving \ {"finalizer"}
  PROVE  lives \in {"live", "deleting"}
<1>1. server.exists /\ server.finalizers = Finalizers /\ server.deleting \in BOOLEAN
  BY ServerFields DEF SyncAt
<1>2. "velero-restore-cleanup" \in server.finalizers
  BY <1>1 DEF Finalizers
<1> QED
  BY <1>1, <1>2, LivesValues

LEMMA PublishedFrame ==
  ASSUME NEW p, NEW c, Published(p, c), restores' = restores, mounts' = mounts,
         server.exists \in BOOLEAN, server.deleting \in BOOLEAN
  PROVE  UNCHANGED <<lives, chosen, restored, served>>
<1>1. UNCHANGED <<chosen, restored, served>>
  BY DEF Published, chosen, restored, served
<1>2. lives' = lives
  BY DEF Published, lives, Life
<1> QED
  BY <1>1, <1>2

\* The stage t may come next.
MayFollow(t) ==
  /\ t \in Lifecycle!Stages
  /\ \/ t = stage
     \/ /\ t \in Lifecycle!After(stage)
        /\ t = "validated" => chosen # {}
        /\ t = "restoring" => chosen = restored
        /\ t \in {"exposing", "Completed"} => served = chosen

LEMMA PublishedStep ==
  ASSUME TypeInv, TypeInv', SyncAt(pc), pc \in Serving \ {"finalizer"},
         NEW p, NEW c, Published(p, c), restores' = restores, mounts' = mounts,
         NEW t, stage' = t, MayFollow(t)
  PROVE  LifeStep
<1>1. UNCHANGED <<lives, chosen, restored, served>>
  BY PublishedFrame, ServerFields
<1>2. lives \in {"live", "deleting"}
  BY ServingLives
<1>3. CASE t = stage
  BY <1>1, <1>3, StutterStep
<1>4. CASE t # stage
  BY <1>1, <1>2, <1>4, AdvanceStep DEF MayFollow
<1> QED
  BY <1>3, <1>4

LEMMA AfterValues ==
  /\ "new" \in Lifecycle!After("created") /\ "validating" \in Lifecycle!After("new")
  /\ {"validated", "PartiallyFailed", "Failed"} \subseteq Lifecycle!After("validating")
  /\ {"placed", "Failed"} \subseteq Lifecycle!After("validated")
  /\ {"restoring", "Failed"} \subseteq Lifecycle!After("placed")
  /\ {"restored", "PartiallyFailed", "Failed"} \subseteq Lifecycle!After("restoring")
  /\ {"credentials", "Failed"} \subseteq Lifecycle!After("restored")
  /\ {"exposing", "Completed", "Failed"} \subseteq Lifecycle!After("credentials")
  /\ "Completed" \in Lifecycle!After("exposing")
  /\ {"created", "new", "validating", "validated", "placed", "restoring", "restored",
      "credentials", "exposing", "Completed", "PartiallyFailed", "Failed"} = Lifecycle!Stages
BY DEF Lifecycle!After, Lifecycle!Stages, Lifecycle!Settled

-----------------------------------------------------------------------------
(***************************************************************************)
(* The kinds of steps.                                                     *)
(***************************************************************************)
Core == WorldInv /\ At(pc)

LEMMA EndCore ==
  ASSUME Inv, TypeInv', server' = server, RestoresFrame,
         UNCHANGED <<spec, namespace, objs, mounts>>, pc' = "idle"
  PROVE  Core' /\ LifeStep
<1>1. Untouched' => Untouched
  BY IdleUntouched
<1> QED
  BY <1>1, WorldFrame, AtIdle, KeptStep DEF Inv, Core

LEMMA ReturnCore ==
  ASSUME Inv, TypeInv', NEW q, Return(q)
  PROVE  Core' /\ LifeStep
<1>1. server' = server /\ restores' = restores /\ UNCHANGED <<spec, namespace, objs, mounts>>
  BY DEF Return, world, server
<1>2. pc' = "idle"
  BY DEF Return, EndReconcile
<1> QED
  BY <1>1, <1>2, RestoresKept, EndCore

LEMMA GotoCore ==
  ASSUME Inv, TypeInv', NEW k, At(k), k \in Serving => pc \in Serving, Goto(k), UNCHANGED world
  PROVE  Core' /\ LifeStep
<1>1. server' = server /\ restores' = restores /\ UNCHANGED <<spec, namespace, objs, mounts>>
  BY DEF Goto, world, server
<1>2. pc' = k /\ UNCHANGED <<mem, todo, seen, fresh>>
  BY DEF Goto
<1>3. Untouched' => Untouched
  BY <1>1, <1>2 DEF Untouched
<1>4. RestoresFrame
  BY <1>1, RestoresKept
<1>5. WorldInv'
  BY <1>1, <1>3, <1>4, WorldFrame DEF Inv
<1>6. At(pc)'
  BY <1>1, <1>2, <1>4, AtFrame
<1>7. LifeStep
  BY <1>1, <1>4, KeptStep DEF Inv
<1> QED
  BY <1>5, <1>6, <1>7 DEF Core

\* The status moves on to stage t, and the reconcile is over.
LEMMA AdvanceCore ==
  ASSUME Inv, TypeInv', pc \in Serving \ {"finalizer", "update"},
         NEW p \in Phases, NEW c \in Conditions, NEW q,
         PatchEnd(StatusPhaseConditions(p, c), q), p \notin {"", "Completed"},
         p = "New" => c.reason = "Initialized",
         p = "InProgress" => c.reason \in WorkflowReasons \cup EarlyReasons,
         p = "InProgress" /\ c.reason \in EarlyReasons => Chosen(server.entries) = {},
         NEW t, t # "Completed", Claims(t), MayFollow(t),
         \A o : o.phase = p /\ o.cond.reason = c.reason => LifeStage(o) = t
  PROVE  Core' /\ LifeStep
<1>1. restores' = restores /\ UNCHANGED <<spec, namespace, objs, mounts>> /\ pc' = "idle"
  BY DEF PatchEnd, EndReconcile, world
<1>2. Patch(StatusPhaseConditions(p, c))
  BY DEF PatchEnd
<1>3. Published(p, c)
  BY <1>1, <1>2, StatusPublished DEF Inv, At
<1>4. LifeStage(server') = t
  BY <1>3 DEF Published
<1>5. WorldInv'
  BY <1>1, <1>3, <1>4, AdvanceWorld DEF Inv, At
<1>6. At(pc)'
  BY <1>1, AtIdle
<1>7. stage' = t
  BY <1>4 DEF stage
<1>8. LifeStep
  BY <1>1, <1>3, <1>7, PublishedStep DEF Inv, At
<1> QED
  BY <1>5, <1>6, <1>8 DEF Core

LEMMA InProgressCore ==
  ASSUME Inv, TypeInv', pc \in Serving \ {"finalizer", "update"},
         NEW why \in WorkflowReasons \cup EarlyReasons, NEW q,
         PatchEnd(InProgress(why), q),
         why \in EarlyReasons => Chosen(server.entries) = {},
         NEW t, t # "Completed", Claims(t), MayFollow(t),
         \A o : o.phase = "InProgress" /\ o.cond.reason = why => LifeStage(o) = t
  PROVE  Core' /\ LifeStep
<1> DEFINE c == Cond(TRUE, why, FALSE, FALSE, FALSE)
<1>1. c.reason = why /\ c \in Conditions /\ "InProgress" \in Phases
  BY CondType DEF Cond, Reasons, EarlyReasons, Phases
<1>2. PatchEnd(StatusPhaseConditions("InProgress", c), q)
  BY DEF InProgress
<1> HIDE DEF c
<1>3. \A o : o.phase = "InProgress" /\ o.cond.reason = c.reason => LifeStage(o) = t
  BY <1>1
<1> DEFINE p == "InProgress"
<1>4. p \notin {"", "Completed", "New"}
  OBVIOUS
<1> HIDE DEF p
<1> QED
  BY <1>1, <1>2, <1>3, <1>4, AdvanceCore DEF p

\* Between two places of a serving reconcile the copy in hand stays good.
LEMMA SyncServing ==
  ASSUME NEW p, NEW k, SyncAt(p), p \in Serving \ {"finalizer", "update"}, k \in Serving \ {"finalizer"}
  PROVE  SyncAt(k)
BY DEF SyncAt, Serving, RemovingRestores, RemovingObjects

LEMMA FailAt ==
  ASSUME At(pc), pc \in {"discovery", "discover", "classify", "namespace", "record namespace",
                         "serviceaccount", "rolebinding", "restores", "create", "names", "judge",
                         "credentials", "secrets", "file server", "pod", "service"}
  PROVE  At("fail") /\ pc \in Serving
<1>1. pc \in Serving \ {"finalizer", "update"} /\ "fail" \in Serving \ {"finalizer"}
  BY DEF Serving
<1>2. SyncAt("fail")
  BY <1>1, SyncServing DEF At
<1>3. StageAt("fail")
  BY DEF At, StageAt
<1>4. ChoiceAt("fail")
  BY DEF ChoiceAt
<1>5. WorldAt("fail")
  BY DEF WorldAt, RemovingObjects
<1> QED
  BY <1>1, <1>2, <1>3, <1>4, <1>5 DEF At

\* Objects come, or the secrets go, in the restore namespace of a serving reconcile.
LEMMA ServingWorld ==
  ASSUME TypeInv, WorldInv, SyncAt(pc), pc \in Serving \ {"finalizer"}, server' = server,
         RestoresFrame,
         objs \ {"secrets"} \subseteq objs', "pod" \in objs' => "pod" \in objs,
         server.createdNamespace \/ objs' = objs,
         namespace => namespace', UNCHANGED <<spec, mounts>>
  PROVE  WorldInv'
<1>1. stage' = stage /\ Untouched /\ server.exists
  BY DEF stage, Untouched, SyncAt
<1>2. FinalizerInv' /\ ReasonInv' /\ PublicInv'
  BY <1>1 DEF WorldInv, FinalizerInv, ReasonInv, PublicInv
<1>3. Claims(stage)'
  BY <1>1 DEF WorldInv, Claims, RestoresFrame, AccessObjects
<1>4. RestoreInv'
  BY <1>1 DEF WorldInv, RestoreInv, RestoresFrame
<1>5. ObjectInv'
  BY <1>1 DEF WorldInv, ObjectInv, RestoresFrame
<1> QED
  BY <1>2, <1>3, <1>4, <1>5 DEF WorldInv

LEMMA ServingAt ==
  ASSUME NEW k \in Serving, SyncAt(k), StageAt(k), ChoiceAt(k), pc' = k, server' = server,
         RestoresFrame, UNCHANGED <<mem, todo, seen, fresh>>,
         WorldAt(k)'
  PROVE  At(pc)'
<1>1. stage' = stage
  BY DEF stage
<1>2. SyncAt(pc)'
  BY DEF SyncAt
<1>3. StageAt(pc)'
  BY <1>1 DEF StageAt
<1>4. ChoiceAt(pc)'
  BY DEF ChoiceAt
<1>5. WorldAt(pc)'
  BY DEF WorldAt
<1> QED
  BY <1>2, <1>3, <1>4, <1>5 DEF At
=============================================================================

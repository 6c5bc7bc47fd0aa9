------------------------ MODULE SharedNamespaceProofs ------------------------
(***************************************************************************)
(* Proofs about SharedNamespace, for every set of VMFRs, every number of   *)
(* faults and every distance between the informer cache and the server.    *)
(***************************************************************************)
EXTENDS SharedNamespace, TLAPS

(***************************************************************************)
(* The stages of a VMFR.  Only these six combinations of life and          *)
(* finalizers occur: both finalizers are added at once, before the first   *)
(* status is published, and they are dropped one after the other.          *)
(***************************************************************************)
Stage(o) ==
  IF o.life = "uncreated" THEN 0
  ELSE IF o.life = "active" THEN (IF o.finalizers = {} THEN 1 ELSE 2)
  ELSE IF o.life = "deleting" THEN (IF o.finalizers = Finalizers THEN 3 ELSE 4)
  ELSE 5

WellFormed(o) ==
  /\ o.life = "uncreated" => o.finalizers = {}
  /\ o.life = "active" => o.finalizers \in {{}, Finalizers}
  /\ o.life = "deleting" => o.finalizers \in {Finalizers, {"vm-file-restore"}}
  /\ o.recorded \/ o.progress # "none" => Stage(o) >= 2
  /\ o.progress \in {"namespace ready", "served"} => o.recorded

(***************************************************************************)
(* What an older version says of a newer one.  A version that carries the  *)
(* finalizers outlives the first cleanup step: the reconcile that drops    *)
(* the first finalizer has read, from the cache, that the VMFR is being    *)
(* deleted.  From then on status.createdNamespace no longer changes.       *)
(***************************************************************************)
Follows(a, b) ==
  /\ Stage(a) <= Stage(b)
  /\ a.recorded => b.recorded
  /\ Stage(a) = 2 => Stage(b) <= 3
  /\ Stage(a) >= 4 => a.recorded = b.recorded

Versions == 1..Len(log)

LogInv ==
  \A v \in VMFRs : \A i, j \in Versions :
    WellFormed(log[i][v]) /\ (i <= j => Follows(log[i][v], log[j][v]))

Serving == {"validate", "namespace", "serviceaccount", "rolebinding", "ready", "pod",
            "publish", "fail"}
Cleaning == {"cleanup", "delete pods", "list", "delete rolebinding",
             "delete serviceaccount", "drop finalizer"}

\* What the running reconcile knows of the VMFR it works on: every version from
\* the cached one on is at least at the stage it has read.
WorkerInv ==
  /\ pc # "idle" /\ mem.recorded => server[current].recorded
  /\ pc = "finalizer" => mem.finalizers # Finalizers /\ \A i \in Versions : Stage(log[i][current]) >= 1
  /\ pc \in Serving => \A i \in Versions : Stage(log[i][current]) \in {2, 3}
  /\ pc \in {"serviceaccount", "rolebinding", "ready", "pod", "publish"} =>
       server[current].recorded
  /\ pc = "delete restores" =>
       mem.finalizers = Finalizers /\ \A i \in Versions : Stage(log[i][current]) >= 3
  /\ pc \in Cleaning =>
       /\ mem.finalizers = {"vm-file-restore"}
       /\ mem.recorded = server[current].recorded
       /\ \A i \in Versions : Stage(log[i][current]) >= 4
  /\ pc \in Cleaning \ {"cleanup", "drop finalizer"} => mem.recorded

\* The access objects at each place of the reconcile.
AccessInv ==
  /\ AccessHasAnOwner
  /\ pc = "delete serviceaccount" => access["rolebinding"] # "managed"
  /\ pc = "drop finalizer" /\ mem.recorded =>
       \/ Managed = {}
       \/ \E w \in VMFRs \ {current} : Exists(server[w]) /\ server[w].recorded

\* What the reconcile relies on while the others move: with a cache that caught
\* up at its start, the others are created and deleted meanwhile, but not recorded.
SteadyInv ==
  /\ pc = "rolebinding" => access["serviceaccount"] # "absent"
  /\ pc = "ready" => HasAccess
  /\ ~lags =>
       /\ pc # "idle" => \A w \in VMFRs \ {current} : \A i \in Versions :
                            log[i][w].recorded = server[w].recorded
       /\ pc \in {"delete rolebinding", "delete serviceaccount"} =>
            \A w \in VMFRs : server[w].life = "active" => ~server[w].recorded
       /\ pc \in {"pod", "publish"} => server[current].progress = "namespace ready"

CurrentInv == SteadyInv /\ (~lags => ActiveKeepsAccess)

-----------------------------------------------------------------------------
(***************************************************************************)
(* The log of versions.                                                    *)
(***************************************************************************)
LogType == log \in Seq([VMFRs -> VMFR]) /\ Len(log) \in 1..MaxVersions

\* The cached and the server's collection are versions of the log.
LEMMA LogFacts ==
  ASSUME LogType
  PROVE  /\ Len(log) \in Nat /\ Len(log) >= 1
         /\ 1 \in Versions /\ Len(log) \in Versions
         /\ cache = log[1]
         /\ server \in [VMFRs -> VMFR]
         /\ \A i \in Versions : i \in Nat /\ log[i] \in [VMFRs -> VMFR]
BY ConstantsAssumption DEF LogType, cache, server, Versions

\* A write of one VMFR adds at most one version, which differs in that VMFR only.
LEMMA WriteLog ==
  ASSUME LogType, NEW v \in VMFRs, NEW o \in VMFR, Write(v, o)
  PROVE  /\ LogType'
         /\ server' = [server EXCEPT ![v] = o]
         /\ \A j \in Versions' : \/ j \in Versions /\ log'[j] = log[j]
                                 \/ j = Len(log') /\ log'[j] = server'
<1>1. CASE o = server[v] /\ UNCHANGED log
  <2>1. server' = server /\ Versions' = Versions /\ LogType'
    BY <1>1 DEF server, Versions, LogType
  <2>2. QED BY <1>1, <2>1, LogFacts
<1>2. CASE /\ o # server[v] /\ Len(log) < MaxVersions
           /\ log' = Append(log, [server EXCEPT ![v] = o])
  <2> DEFINE n == [server EXCEPT ![v] = o]
  <2>1. n \in [VMFRs -> VMFR]
    BY LogFacts
  <2> HIDE DEF n
  <2>2. log' = Append(log, n)
    BY <1>2 DEF n
  <2>3. log' \in Seq([VMFRs -> VMFR]) /\ Len(log') = Len(log) + 1
    BY <2>1, <2>2 DEF LogType
  <2>4. log'[Len(log')] = n /\ \A j \in 1..Len(log) : log'[j] = log[j]
    BY <2>1, <2>2 DEF LogType
  <2>5. LogType'
    BY <1>2, <2>3, LogFacts, ConstantsAssumption DEF LogType
  <2>6. server' = n
    BY <2>4 DEF server
  <2>7. ASSUME NEW j \in Versions'
        PROVE  \/ j \in Versions /\ log'[j] = log[j]
               \/ j = Len(log') /\ log'[j] = server'
    BY <2>3, <2>4, <2>6, LogFacts DEF Versions
  <2>8. QED BY <2>5, <2>6, <2>7 DEF n
<1>3. QED BY <1>1, <1>2 DEF Write

\* A delivery drops the oldest version and leaves the server's alone.
LEMMA DeliverLog ==
  ASSUME LogType, Len(log) > 1, log' = Tail(log)
  PROVE  /\ LogType'
         /\ server' = server
         /\ Len(log') = Len(log) - 1
         /\ \A j \in Versions' : j + 1 \in Versions /\ log'[j] = log[j + 1]
<1>1. log' \in Seq([VMFRs -> VMFR]) /\ Len(log') = Len(log) - 1
  BY DEF LogType
<1>2. \A j \in 1..Len(log') : log'[j] = log[j + 1]
  BY <1>1 DEF LogType
<1>3. LogType' /\ server' = server
  BY <1>1, <1>2, LogFacts, ConstantsAssumption DEF LogType, server
<1>4. QED BY <1>1, <1>2, <1>3, LogFacts DEF Versions

\* A restart fills the cache from the server.
LEMMA RestartLog ==
  ASSUME LogType, log' = <<server>>
  PROVE  /\ LogType'
         /\ server' = server
         /\ \A j \in Versions' : j = 1 /\ log'[j] = server
BY LogFacts, ConstantsAssumption DEF LogType, server, Versions

-----------------------------------------------------------------------------
(***************************************************************************)
(* Type correctness.                                                       *)
(***************************************************************************)
\* What a patch stores is a VMFR.
LEMMA MergeType ==
  ASSUME NEW new \in VMFR, NEW onto \in VMFR, mem \in VMFR
  PROVE  Stored(Merge(new, onto)) \in VMFR
<1>1. Merge(new, onto) \in VMFR
  BY DEF Merge, VMFR
<1>2. ASSUME NEW o \in VMFR PROVE Stored(o) \in VMFR
  BY DEF Stored, VMFR, Lives
<1>3. QED BY <1>1, <1>2

\* The patches of the workflow write VMFRs.
LEMMA EditType ==
  ASSUME NEW o \in VMFR
  PROVE  /\ \A f \in SUBSET Finalizers : [o EXCEPT !.finalizers = f] \in VMFR
         /\ \A p \in Progress : [o EXCEPT !.progress = p] \in VMFR
         /\ [o EXCEPT !.recorded = TRUE] \in VMFR
         /\ \A l \in Lives : [o EXCEPT !.life = l] \in VMFR
         /\ \A f : [o EXCEPT !.finalizers = @ \ f] = [o EXCEPT !.finalizers = o.finalizers \ f]
         /\ o.finalizers \in SUBSET Finalizers
BY DEF VMFR

\* The initial state is typed.
LEMMA TypeInit == Init => TypeOK
<1> SUFFICES ASSUME Init PROVE TypeOK
  OBVIOUS
<1> USE ConstantsAssumption
<1>1. Uncreated \in VMFR
  BY DEF Uncreated, VMFR, Lives, Progress
<1>2. [v \in VMFRs |-> Uncreated] \in [VMFRs -> VMFR]
  BY <1>1
<1>3. log \in Seq([VMFRs -> VMFR]) /\ Len(log) = 1
  BY <1>2 DEF Init
<1>4. access \in [AccessObjects -> {"absent", "managed", "foreign"}]
  BY DEF Init
<1>5. current \in VMFRs
  BY DEF Init
<1>6. QED BY <1>1, <1>3, <1>4, <1>5 DEF Init, TypeOK, Places

\* A patch of the VMFR at hand leaves the log typed.
LEMMA PatchLog ==
  ASSUME TypeOK, NEW new \in VMFR, Patch(new)
  PROVE  /\ LogType'
         /\ Exists(server[current])
         /\ Stored(Merge(new, server[current])) \in VMFR
         /\ Write(current, Stored(Merge(new, server[current])))
<1>1. LogType /\ mem \in VMFR /\ current \in VMFRs
  BY DEF TypeOK, LogType
<1>2. server[current] \in VMFR
  BY <1>1, LogFacts
<1>3. Stored(Merge(new, server[current])) \in VMFR
  BY <1>1, <1>2, MergeType
<1>4. QED BY <1>1, <1>3, WriteLog DEF Patch

\* Ending a reconcile with a patch keeps the types.
LEMMA PatchEndType ==
  ASSUME TypeOK, NEW new \in VMFR, NEW r, PatchEnd(new, r)
  PROVE  TypeOK'
<1>1. LogType'
  BY PatchLog DEF PatchEnd
<1>2. Uncreated \in VMFR
  BY DEF Uncreated, VMFR, Lives, Progress
<1>3. QED BY <1>1, <1>2 DEF TypeOK, LogType, PatchEnd, EndReconcile, cluster, Places

\* So does going on after a patch.
LEMMA PatchThenType ==
  ASSUME TypeOK, NEW new \in VMFR, NEW k \in Places, PatchThen(new, k)
  PROVE  TypeOK'
BY PatchLog DEF TypeOK, LogType, PatchThen, cluster

\* Every step keeps the types.
LEMMA TypeStep == TypeOK /\ [Next]_vars => TypeOK'
<1> SUFFICES ASSUME TypeOK, [Next]_vars PROVE TypeOK'
  OBVIOUS
<1> USE DEF TypeOK
<1>0. LogType /\ mem \in VMFR /\ Uncreated \in VMFR
  BY DEF LogType, Uncreated, VMFR, Lives, Progress
<1>1. ASSUME NEW v \in VMFRs, Reconcile(v) PROVE TypeOK'
  <2>1. cache[v] \in VMFR
    BY <1>0, LogFacts
  <2>2. SelectedStep(cache[v]) \in Places
    BY <2>1 DEF SelectedStep, CleanupStep, Places, VMFR, Lives, Progress
  <2>3. QED BY <1>1, <2>1, <2>2 DEF Reconcile, cluster, worker
<1>2. CASE ensureFinalizer
  BY <1>0, <1>2, EditType, PatchEndType DEF ensureFinalizer
<1>3. CASE Validate
  <2>1. PICK p \in {"validated", "failed"} : PatchEnd([mem EXCEPT !.progress = p], TRUE)
    BY <1>3 DEF Validate
  <2>2. p \in Progress
    BY DEF Progress
  <2>3. QED BY <1>0, <2>1, <2>2, EditType, PatchEndType
<1>4. CASE failValidation
  BY <1>0, <1>4, EditType, PatchEndType DEF failValidation, Progress
<1>5. CASE ensureRestoreNamespace
  BY <1>0, <1>5, EditType, PatchThenType DEF ensureRestoreNamespace, Places
<1>6. CASE ensureFileServerAccess
  BY <1>6 DEF ensureFileServerAccess, EnsureObject, Goto, cluster, Places, AccessObjects
<1>7. CASE NamespaceReady
  BY <1>0, <1>7, EditType, PatchEndType DEF NamespaceReady, Progress
<1>8. CASE createFileServerResources
  BY <1>8 DEF createFileServerResources, Goto, cluster, Places
<1>9. CASE Publish
  BY <1>0, <1>9, EditType, PatchEndType DEF Publish, Progress
<1>10. CASE handleVeleroRestoreCleanup
  <2>1. mem.finalizers \ {"velero-restore-cleanup"} \in SUBSET Finalizers
    BY <1>0, EditType
  <2>2. QED BY <1>0, <1>10, <2>1, EditType, PatchEndType DEF handleVeleroRestoreCleanup
<1>11. CASE handleResourceCleanup
  BY <1>11 DEF handleResourceCleanup, Goto, cluster, Places
<1>12. CASE deleteFileServerPods
  BY <1>12 DEF deleteFileServerPods, Goto, cluster, Places
<1>13. CASE ListOthers
  BY <1>13 DEF ListOthers, Goto, cluster, Places
<1>14. CASE deleteFileServerAccess
  BY <1>14 DEF deleteFileServerAccess, DeleteObject, Goto, cluster, Places, AccessObjects
<1>15. CASE DropFinalizer
  <2>1. mem.finalizers \ {"vm-file-restore"} \in SUBSET Finalizers
    BY <1>0, EditType
  <2>2. QED BY <1>0, <1>15, <2>1, EditType, PatchEndType DEF DropFinalizer
<1>16. CASE PatchRefused
  BY <1>0, <1>16 DEF PatchRefused, EndReconcile, cluster, Places
<1>17. CASE ApiError
  <2>1. faults - 1 \in 0..MaxFaults
    BY <1>17, ConstantsAssumption DEF ApiError
  <2>2. QED BY <1>0, <1>17, <2>1 DEF ApiError, Retry, cluster, Places
<1>18. CASE Crash
  <2>1. LogType'
    BY <1>0, <1>18, RestartLog DEF Crash
  <2>2. faults - 1 \in 0..MaxFaults
    BY <1>18, ConstantsAssumption DEF Crash
  <2>3. QED BY <1>0, <1>18, <2>1, <2>2 DEF Crash, LogType, cluster, Places
<1>19. ASSUME NEW v \in VMFRs, UserCreates(v) PROVE TypeOK'
  <2>1. server[v] \in VMFR
    BY <1>0, LogFacts
  <2>2. [server[v] EXCEPT !.life = "active"] \in VMFR
    BY <2>1 DEF VMFR, Lives
  <2>3. LogType'
    BY <1>0, <1>19, <2>2, WriteLog DEF UserCreates
  <2>4. QED BY <1>19, <2>3 DEF UserCreates, LogType, cluster, worker
<1>20. ASSUME NEW v \in VMFRs, UserDeletes(v) PROVE TypeOK'
  <2>1. server[v] \in VMFR
    BY <1>0, LogFacts
  <2>2. Stored([server[v] EXCEPT !.life = "deleting"]) \in VMFR
    BY <2>1 DEF VMFR, Lives, Stored
  <2>3. LogType'
    BY <1>0, <1>20, <2>2, WriteLog DEF UserDeletes
  <2>4. QED BY <1>20, <2>3 DEF UserDeletes, LogType, cluster, worker
<1>21. CASE InformerDelivers
  <2>1. LogType'
    BY <1>0, <1>21, DeliverLog DEF InformerDelivers
  <2>2. QED BY <1>21, <2>1 DEF InformerDelivers, LogType, cluster, worker
<1>22. CASE UNCHANGED vars
  BY <1>22 DEF vars, cluster, worker
<1>23. QED
  BY <1>1, <1>2, <1>3, <1>4, <1>5, <1>6, <1>7, <1>8, <1>9, <1>10, <1>11, <1>12, <1>13,
     <1>14, <1>15, <1>16, <1>17, <1>18, <1>19, <1>20, <1>21, <1>22
  DEF Next, Controller, Environment, Workflow, Deletion

\* The variables of SharedNamespace keep their types: in particular the log never
\* runs empty, so a reconcile always has a cached list to read.
THEOREM TypeCorrect == Spec => []TypeOK
<1>1. QED BY TypeInit, TypeStep, PTL DEF Spec

-----------------------------------------------------------------------------
(***************************************************************************)
(* What the patches store.                                                 *)
(***************************************************************************)
\* The fields of a merge patch, one by one.
LEMMA MergeFields ==
  ASSUME NEW new, NEW s
  PROVE  /\ Merge(new, s).life = s.life
         /\ Merge(new, s).finalizers =
              IF new.finalizers # mem.finalizers THEN new.finalizers ELSE s.finalizers
         /\ Merge(new, s).recorded =
              IF new.recorded # mem.recorded THEN new.recorded ELSE s.recorded
         /\ Merge(new, s).progress =
              IF new.progress # mem.progress THEN new.progress ELSE s.progress
BY DEF Merge

\* A status patch that publishes progress touches nothing else.
LEMMA ProgressPatch ==
  ASSUME NEW s \in VMFR, mem \in VMFR, WellFormed(s), Exists(s), NEW p \in Progress,
         NEW o, o = Stored(Merge([mem EXCEPT !.progress = p], s))
  PROVE  /\ o.life = s.life /\ o.finalizers = s.finalizers /\ o.recorded = s.recorded
         /\ o.progress \in {p, s.progress}
<1> DEFINE new == [mem EXCEPT !.progress = p]
<1>1. new.finalizers = mem.finalizers /\ new.recorded = mem.recorded /\ new.progress = p
  BY DEF VMFR
<1> HIDE DEF new
<1>2. o = Stored(Merge(new, s))
  BY DEF new
<1>3. ~(s.life = "deleting" /\ s.finalizers = {})
  BY DEF WellFormed, Finalizers
<1>4. o = Merge(new, s)
  BY <1>1, <1>2, <1>3 DEF Stored, Merge
<1>5. QED BY <1>1, <1>4 DEF Merge

\* The status patch that records the namespace touches nothing else.
LEMMA RecordPatch ==
  ASSUME NEW s \in VMFR, mem \in VMFR, WellFormed(s), Exists(s), mem.recorded => s.recorded,
         NEW o, o = Stored(Merge([mem EXCEPT !.recorded = TRUE], s))
  PROVE  /\ o.life = s.life /\ o.finalizers = s.finalizers /\ o.progress = s.progress
         /\ o.recorded = TRUE
<1> DEFINE new == [mem EXCEPT !.recorded = TRUE]
<1>1. /\ new.finalizers = mem.finalizers /\ new.recorded = TRUE
      /\ new.progress = mem.progress /\ mem.recorded \in BOOLEAN /\ s.recorded \in BOOLEAN
  BY DEF VMFR
<1> HIDE DEF new
<1>2. o = Stored(Merge(new, s))
  BY DEF new
<1>3. ~(s.life = "deleting" /\ s.finalizers = {})
  BY DEF WellFormed, Finalizers
<1>4. o = Merge(new, s)
  BY <1>1, <1>2, <1>3 DEF Stored, Merge
<1>5. o.life = s.life /\ o.finalizers = s.finalizers /\ o.progress = s.progress
  BY <1>1, <1>4, MergeFields
<1>6. o.recorded = IF new.recorded # mem.recorded THEN new.recorded ELSE s.recorded
  BY <1>4, MergeFields
<1>7. CASE new.recorded # mem.recorded
  BY <1>1, <1>5, <1>6, <1>7
<1>8. CASE new.recorded = mem.recorded
  <2>1. s.recorded = TRUE
    BY <1>1, <1>8
  <2>2. QED BY <1>5, <1>6, <1>8, <2>1
<1>9. QED BY <1>7, <1>8

\* A finalizer patch touches only the finalizers; without any, a VMFR under
\* deletion is gone.
LEMMA FinalizerPatch ==
  ASSUME NEW s, NEW f, f # mem.finalizers, NEW new,
         new.finalizers = f, new.recorded = mem.recorded, new.progress = mem.progress
  PROVE  Stored(Merge(new, s))
           = [life |-> IF s.life = "deleting" /\ f = {} THEN "gone" ELSE s.life,
              finalizers |-> f, recorded |-> s.recorded, progress |-> s.progress]
<1> DEFINE m == Merge(new, s)
<1>1. m = [life |-> s.life, finalizers |-> f, recorded |-> s.recorded,
           progress |-> s.progress]
  BY DEF Merge
<1>2. QED BY <1>1 DEF Stored

-----------------------------------------------------------------------------
(***************************************************************************)
(* The stages of the VMFRs, and what the reconcile knows of them.          *)
(***************************************************************************)
StageInv == LogInv /\ WorkerInv

\* The server's copy is well formed and follows every version on the way.
LEMMA ServerFollows ==
  ASSUME LogType, LogInv, NEW v \in VMFRs
  PROVE  /\ server[v] \in VMFR /\ WellFormed(server[v])
         /\ \A i \in Versions : /\ log[i][v] \in VMFR /\ WellFormed(log[i][v])
                                /\ Follows(log[i][v], server[v])
                                /\ Follows(log[1][v], log[i][v])
<1>1. ASSUME NEW i \in Versions
      PROVE  i <= Len(log) /\ 1 <= i
  BY LogFacts DEF Versions
<1>2. server[v] = log[Len(log)][v]
  BY DEF server
<1>3. QED BY <1>1, <1>2, LogFacts DEF LogInv

\* Stages are numbers.
LEMMA StageType == \A o : Stage(o) \in 0..5
BY DEF Stage

\* A version follows itself.
LEMMA FollowsItself == \A o : Follows(o, o)
BY StageType DEF Follows

\* A write that follows every version keeps the log in order.
LEMMA WriteKeepsOrder ==
  ASSUME LogType, LogInv, NEW v \in VMFRs, NEW o \in VMFR, Write(v, o), WellFormed(o),
         \A i \in Versions : Follows(log[i][v], o)
  PROVE  LogInv'
<1>1. /\ LogType'
      /\ server' = [server EXCEPT ![v] = o]
      /\ \A j \in Versions' : \/ j \in Versions /\ log'[j] = log[j]
                              \/ j = Len(log') /\ log'[j] = server'
  BY WriteLog
<1>2. SUFFICES ASSUME NEW w \in VMFRs, NEW i \in Versions', NEW j \in Versions'
               PROVE  /\ WellFormed(log'[i][w])
                      /\ i <= j => Follows(log'[i][w], log'[j][w])
  BY DEF LogInv
<1>3. server'[w] = IF w = v THEN o ELSE server[w]
  BY <1>1, LogFacts
<1>4. /\ WellFormed(server'[w])
      /\ \A k \in Versions : WellFormed(log[k][w]) /\ Follows(log[k][w], server'[w])
  BY <1>3, ServerFollows
<1>5. WellFormed(log'[i][w])
  BY <1>1, <1>4
<1>6. i \in Int /\ j \in Int /\ i <= Len(log') /\ j <= Len(log') /\ Len(log') \in Int
  BY <1>1 DEF Versions, LogType
<1>7. ASSUME i <= j PROVE Follows(log'[i][w], log'[j][w])
  <2>1. CASE i \in Versions /\ log'[i] = log[i] /\ j \in Versions /\ log'[j] = log[j]
    BY <1>7, <2>1 DEF LogInv
  <2>2. CASE i \in Versions /\ log'[i] = log[i] /\ j = Len(log') /\ log'[j] = server'
    BY <1>4, <2>2
  <2>3. CASE i = Len(log') /\ log'[i] = server'
    <3>1. i = j
      BY <1>6, <1>7, <2>3
    <3>2. QED BY <3>1, FollowsItself
  <2>4. QED BY <1>1, <2>1, <2>2, <2>3
<1>8. QED BY <1>5, <1>7

\* A reconcile that ends with a patch leaves the stages in order.
LEMMA PatchEndStage ==
  ASSUME TypeOK, StageInv, NEW new \in VMFR, NEW r, PatchEnd(new, r),
         NEW o, o = Stored(Merge(new, server[current])), WellFormed(o),
         \A i \in Versions : Follows(log[i][current], o)
  PROVE  StageInv'
<1>1. LogType /\ current \in VMFRs
  BY DEF TypeOK, LogType
<1>2. LogInv'
  BY <1>1, PatchLog, WriteKeepsOrder DEF PatchEnd, StageInv
<1>3. pc' = "idle"
  BY DEF PatchEnd, EndReconcile
<1>4. WorkerInv'
  BY <1>3 DEF WorkerInv, Serving, Cleaning
<1>5. QED BY <1>2, <1>4 DEF StageInv

\* Publishing progress at a stage with finalizers keeps the order.
LEMMA ProgressPatchStage ==
  ASSUME TypeOK, StageInv, NEW p \in Progress, NEW r,
         PatchEnd([mem EXCEPT !.progress = p], r),
         Stage(server[current]) >= 2,
         p \in {"namespace ready", "served"} => server[current].recorded
  PROVE  StageInv'
<1> DEFINE s == server[current]
           o == Stored(Merge([mem EXCEPT !.progress = p], s))
<1>1. LogType /\ current \in VMFRs /\ mem \in VMFR /\ LogInv
  BY DEF TypeOK, LogType, StageInv
<1>2. s \in VMFR /\ WellFormed(s) /\ Exists(s)
  BY <1>1, ServerFollows DEF PatchEnd, Patch
<1>3. /\ o.life = s.life /\ o.finalizers = s.finalizers /\ o.recorded = s.recorded
      /\ o.progress \in {p, s.progress}
  BY <1>1, <1>2, ProgressPatch
<1>4. \A i \in Versions : Follows(log[i][current], s)
  BY <1>1, ServerFollows
<1>5. [mem EXCEPT !.progress = p] \in VMFR
  BY <1>1, EditType
<1> HIDE DEF o
<1>6. Stage(o) = Stage(s)
  BY <1>3 DEF Stage
<1>7. WellFormed(o)
  BY <1>2, <1>3, <1>6 DEF WellFormed
<1>8. \A i \in Versions : Follows(log[i][current], o)
  BY <1>3, <1>4, <1>6 DEF Follows
<1>9. QED BY <1>5, <1>7, <1>8, PatchEndStage DEF o

\* The step that is selected tells the stage of the copy it was selected from.
LEMMA SelectedStage ==
  ASSUME NEW a \in VMFR, WellFormed(a), SelectedStep(a) # "idle"
  PROVE  \/ SelectedStep(a) = "finalizer" /\ Stage(a) = 1 /\ a.finalizers # Finalizers
         \/ SelectedStep(a) \in {"validate", "namespace"} /\ Stage(a) = 2
         \/ SelectedStep(a) = "pod" /\ Stage(a) = 2 /\ a.recorded
              /\ a.progress = "namespace ready"
         \/ SelectedStep(a) = "delete restores" /\ Stage(a) = 3 /\ a.finalizers = Finalizers
         \/ SelectedStep(a) = "cleanup" /\ Stage(a) = 4 /\ a.finalizers = {"vm-file-restore"}
<1>1. CASE a.life \in {"uncreated", "gone"}
  BY <1>1 DEF SelectedStep
<1>2. CASE a.life = "deleting"
  <2>1. SelectedStep(a) = CleanupStep(a)
    BY <1>2 DEF SelectedStep
  <2>2. a.finalizers \in {Finalizers, {"vm-file-restore"}}
    BY <1>2 DEF WellFormed
  <2>3. CASE a.finalizers = Finalizers
    BY <1>2, <2>1, <2>3 DEF CleanupStep, Stage, Finalizers
  <2>4. CASE a.finalizers = {"vm-file-restore"}
    BY <1>2, <2>1, <2>4 DEF CleanupStep, Stage, Finalizers
  <2>5. QED BY <2>2, <2>3, <2>4
<1>3. CASE a.life = "active"
  <2>1. a.finalizers \in {{}, Finalizers}
    BY <1>3 DEF WellFormed
  <2>2. CASE a.progress = "none"
    <3>1. SelectedStep(a) = IF a.finalizers # Finalizers THEN "finalizer" ELSE "validate"
      BY <1>3, <2>2 DEF SelectedStep
    <3>2. QED BY <1>3, <2>1, <3>1 DEF Stage, Finalizers
  <2>3. CASE a.progress = "validated"
    <3>1. SelectedStep(a) = "namespace"
      BY <1>3, <2>3 DEF SelectedStep
    <3>2. Stage(a) >= 2
      BY <2>3 DEF WellFormed
    <3>3. QED BY <1>3, <3>1, <3>2 DEF Stage
  <2>4. CASE a.progress = "namespace ready"
    <3>1. SelectedStep(a) = "pod"
      BY <1>3, <2>4 DEF SelectedStep
    <3>2. Stage(a) >= 2 /\ a.recorded
      BY <2>4 DEF WellFormed
    <3>3. Stage(a) = 2
      BY <1>3, <3>2 DEF Stage
    <3>4. QED BY <2>4, <3>1, <3>2, <3>3
  <2>5. CASE a.progress \in {"served", "failed"}
    BY <1>3, <2>5 DEF SelectedStep
  <2>6. QED BY <2>2, <2>3, <2>4, <2>5 DEF VMFR, Progress
<1>4. QED BY <1>1, <1>2, <1>3 DEF VMFR, Lives

\* A reconcile starts with a version that every later one follows.
LEMMA ReconcileStage ==
  ASSUME TypeOK, StageInv, NEW v \in VMFRs, Reconcile(v)
  PROVE  StageInv'
<1>1. LogType /\ LogInv /\ log' = log /\ server' = server /\ Versions' = Versions
  BY DEF TypeOK, LogType, StageInv, Reconcile, server, Versions
<1>2. LogInv'
  BY <1>1 DEF StageInv, LogInv
<1>3. CASE SelectedStep(cache[v]) = "idle" /\ UNCHANGED worker
  BY <1>1, <1>2, <1>3 DEF StageInv, WorkerInv, worker
<1>4. CASE /\ SelectedStep(cache[v]) # "idle"
           /\ pc' = SelectedStep(cache[v]) /\ current' = v /\ mem' = cache[v]
  <2> DEFINE a == cache[v]
  <2>1. a = log[1][v] /\ 1 \in Versions
    BY <1>1, LogFacts
  <2>2. /\ a \in VMFR /\ WellFormed(a) /\ Follows(a, server[v])
        /\ \A i \in Versions : Follows(a, log[i][v]) /\ Follows(log[i][v], server[v])
    BY <1>1, <2>1, ServerFollows
  <2> HIDE DEF a
  <2>3. pc' = SelectedStep(a) /\ pc' # "idle" /\ current' = v /\ mem' = a
    BY <1>4 DEF a
  <2>4. a.recorded => server[v].recorded
    BY <2>2 DEF Follows
  <2>5. CASE pc' = "finalizer" /\ Stage(a) = 1 /\ a.finalizers # Finalizers
    <3>1. \A i \in Versions : Stage(log[i][v]) >= 1
      BY <2>2, <2>5, StageType DEF Follows
    <3>2. WorkerInv'
      BY <1>1, <2>3, <2>4, <2>5, <3>1 DEF WorkerInv, Serving, Cleaning
    <3>3. QED BY <1>2, <3>2 DEF StageInv
  <2>6. CASE pc' \in {"validate", "namespace", "pod"} /\ Stage(a) = 2
             /\ (pc' = "pod" => a.recorded)
    <3>1. \A i \in Versions : Stage(log[i][v]) \in {2, 3}
      BY <2>2, <2>6, StageType DEF Follows
    <3>2. WorkerInv'
      BY <1>1, <2>3, <2>4, <2>6, <3>1 DEF WorkerInv, Serving, Cleaning
    <3>3. QED BY <1>2, <3>2 DEF StageInv
  <2>7. CASE pc' = "delete restores" /\ Stage(a) = 3 /\ a.finalizers = Finalizers
    <3>1. \A i \in Versions : Stage(log[i][v]) >= 3
      BY <2>2, <2>7, StageType DEF Follows
    <3>2. WorkerInv'
      BY <1>1, <2>3, <2>4, <2>7, <3>1 DEF WorkerInv, Serving, Cleaning
    <3>3. QED BY <1>2, <3>2 DEF StageInv
  <2>8. CASE pc' = "cleanup" /\ Stage(a) = 4 /\ a.finalizers = {"vm-file-restore"}
    <3>1. \A i \in Versions : Stage(log[i][v]) >= 4
      BY <2>2, <2>8, StageType DEF Follows
    <3>2. a.recorded = server[v].recorded
      BY <2>2, <2>8 DEF Follows
    <3>3. WorkerInv'
      BY <1>1, <2>3, <2>4, <2>8, <3>1, <3>2 DEF WorkerInv, Serving, Cleaning
    <3>4. QED BY <1>2, <3>3 DEF StageInv
  <2>9. QED BY <2>2, <2>3, <2>5, <2>6, <2>7, <2>8, SelectedStage
<1>5. QED BY <1>3, <1>4 DEF Reconcile

\* What the user does to a VMFR leaves its record and its finalizers alone.
LEMMA UserWriteStage ==
  ASSUME TypeOK, StageInv, NEW v \in VMFRs, NEW o \in VMFR, Write(v, o), WellFormed(o),
         \A i \in Versions : Follows(log[i][v], o),
         o.recorded = server[v].recorded, Stage(server[v]) <= 2, UNCHANGED worker
  PROVE  StageInv'
<1>1. LogType /\ LogInv /\ current \in VMFRs
  BY DEF TypeOK, LogType, StageInv
<1>2. LogInv'
  BY <1>1, WriteKeepsOrder
<1>3. /\ server' = [server EXCEPT ![v] = o]
      /\ \A j \in Versions' : \/ j \in Versions /\ log'[j] = log[j]
                              \/ log'[j] = server'
  BY <1>1, WriteLog
<1>4. Len(log) \in Versions /\ server = log[Len(log)] /\ server \in [VMFRs -> VMFR]
  BY <1>1, LogFacts DEF server
<1>5. server'[current].recorded = server[current].recorded
  BY <1>1, <1>3, <1>4
<1>6. /\ Stage(server'[current]) >= Stage(server[current])
      /\ Stage(server[current]) \in {2, 3} => Stage(server'[current]) \in {2, 3}
  <2>1. Follows(server[v], o)
    BY <1>4
  <2>2. QED BY <1>1, <1>3, <1>4, <2>1, StageType DEF Follows
<1>7. pc' = pc /\ current' = current /\ mem' = mem
  BY DEF worker
<1>8. ASSUME NEW n \in {1, 3, 4}, \A i \in Versions : Stage(log[i][current]) >= n
      PROVE  \A j \in Versions' : Stage(log'[j][current]) >= n
  <2>1. Stage(server'[current]) >= n
    BY <1>4, <1>6, <1>8, StageType
  <2>2. QED BY <1>3, <1>8, <2>1
<1>9. ASSUME \A i \in Versions : Stage(log[i][current]) \in {2, 3}
      PROVE  \A j \in Versions' : Stage(log'[j][current]) \in {2, 3}
  <2>1. Stage(server'[current]) \in {2, 3}
    BY <1>4, <1>6, <1>9
  <2>2. QED BY <1>3, <1>9, <2>1
<1>10. WorkerInv'
  BY <1>5, <1>7, <1>8, <1>9 DEF WorkerInv, StageInv
<1>11. QED BY <1>2, <1>10 DEF StageInv

\* Initially no VMFR is created.
LEMMA StageInit == Init => StageInv
<1> SUFFICES ASSUME Init PROVE StageInv
  OBVIOUS
<1>1. Versions = {1} /\ \A v \in VMFRs : log[1][v] = Uncreated
  BY DEF Init, Versions
<1>2. WellFormed(Uncreated)
  BY DEF WellFormed, Uncreated
<1>3. LogInv
  BY <1>1, <1>2, FollowsItself DEF LogInv
<1>4. WorkerInv
  BY DEF WorkerInv, Init, Serving, Cleaning
<1>5. QED BY <1>3, <1>4 DEF StageInv

\* A reconcile that ends without a write leaves the stages as they are.
LEMMA IdleStage ==
  ASSUME StageInv, log' = log, pc' = "idle"
  PROVE  StageInv'
<1>1. server' = server /\ Versions' = Versions
  BY DEF server, Versions
<1>2. QED BY <1>1 DEF StageInv, LogInv, WorkerInv, Serving, Cleaning

\* Places of a reconcile whose steps leave the VMFRs alone.
LEMMA GotoStage ==
  ASSUME StageInv, log' = log, current' = current, mem' = mem,
         \/ pc \in Serving /\ pc' = "fail"
         \/ /\ pc \in {"serviceaccount", "rolebinding", "pod"}
            /\ pc' \in {"rolebinding", "ready", "publish"}
         \/ /\ pc \in Cleaning /\ pc' \in Cleaning
            /\ pc' \notin {"cleanup", "drop finalizer"} => mem.recorded
  PROVE  StageInv'
<1>1. server' = server /\ Versions' = Versions
  BY DEF server, Versions
<1>2. LogInv'
  BY <1>1 DEF StageInv, LogInv
<1>3. WorkerInv'
  BY <1>1 DEF StageInv, WorkerInv, Serving, Cleaning
<1>4. QED BY <1>2, <1>3 DEF StageInv

\* A patch of the finalizers moves a VMFR that every version says is at least at
\* stage n to a stage from n to n + 1.
LEMMA FinalizerPatchStage ==
  ASSUME TypeOK, StageInv, NEW f \in SUBSET Finalizers, f # mem.finalizers, NEW r,
         PatchEnd([mem EXCEPT !.finalizers = f], r),
         NEW n \in {1, 3, 4}, \A i \in Versions : Stage(log[i][current]) >= n,
         \/ n = 1 /\ f = Finalizers /\ ~FinalizersRefused
         \/ n = 3 /\ f = {"vm-file-restore"}
         \/ n = 4 /\ f = {}
  PROVE  StageInv'
<1> DEFINE s == server[current]
           o == Stored(Merge([mem EXCEPT !.finalizers = f], s))
<1>1. LogType /\ current \in VMFRs /\ mem \in VMFR /\ LogInv
  BY DEF TypeOK, LogType, StageInv
<1>2. /\ s \in VMFR /\ WellFormed(s) /\ Exists(s)
      /\ \A i \in Versions : WellFormed(log[i][current]) /\ Follows(log[i][current], s)
  BY <1>1, ServerFollows DEF PatchEnd, Patch
<1>3. Stage(s) >= n
  BY <1>1, LogFacts DEF server
<1>4. /\ o.finalizers = f /\ o.recorded = s.recorded /\ o.progress = s.progress
      /\ o.life = IF s.life = "deleting" /\ f = {} THEN "gone" ELSE s.life
  <2> DEFINE new == [mem EXCEPT !.finalizers = f]
  <2>1. new.finalizers = f /\ new.recorded = mem.recorded /\ new.progress = mem.progress
    BY <1>1 DEF VMFR
  <2>2. o = Stored(Merge(new, s))
    OBVIOUS
  <2> HIDE DEF new, s, o
  <2>3. o = [life |-> IF s.life = "deleting" /\ f = {} THEN "gone" ELSE s.life,
             finalizers |-> f, recorded |-> s.recorded, progress |-> s.progress]
    BY <2>1, <2>2, FinalizerPatch
  <2>4. QED BY <2>3
<1>5. [mem EXCEPT !.finalizers = f] \in VMFR
  BY <1>1, EditType
<1>6. FinalizersRefused <=> (s.life = "deleting" /\ s.finalizers # Finalizers)
  BY DEF FinalizersRefused
<1> HIDE DEF s, o
<1>7. \/ n = 1 /\ Stage(s) = 1 /\ Stage(o) = 2 /\ o.life = "active" /\ f = Finalizers
      \/ /\ n = 1 /\ Stage(s) \in {2, 3} /\ Stage(o) = Stage(s)
         /\ o.life \in {"active", "deleting"} /\ f = Finalizers
      \/ /\ n = 3 /\ Stage(s) \in {3, 4} /\ Stage(o) = 4
         /\ o.life = "deleting" /\ f = {"vm-file-restore"}
      \/ n = 4 /\ Stage(s) = 4 /\ Stage(o) = 5 /\ o.life = "gone"
  <2>1. s.life \in {"active", "deleting"}
    BY <1>2 DEF Exists
  <2>2. /\ s.life = "active" => s.finalizers \in {{}, Finalizers}
        /\ s.life = "deleting" => s.finalizers \in {Finalizers, {"vm-file-restore"}}
    BY <1>2 DEF WellFormed
  <2>3. CASE n = 1 /\ f = Finalizers /\ ~FinalizersRefused
    BY <1>3, <1>4, <1>6, <2>1, <2>2, <2>3 DEF Stage, Finalizers
  <2>4. CASE n = 3 /\ f = {"vm-file-restore"}
    BY <1>3, <1>4, <2>1, <2>2, <2>4 DEF Stage, Finalizers
  <2>5. CASE n = 4 /\ f = {}
    BY <1>3, <1>4, <2>1, <2>2, <2>5 DEF Stage, Finalizers
  <2>6. QED BY <2>3, <2>4, <2>5
<1>8. WellFormed(o)
  <2>1. o.recorded \/ o.progress # "none" => Stage(o) >= 2
    BY <1>7
  <2>2. o.progress \in {"namespace ready", "served"} => o.recorded
    BY <1>2, <1>4 DEF WellFormed
  <2>3. QED BY <1>4, <1>7, <2>1, <2>2 DEF WellFormed
<1>9. ASSUME NEW i \in Versions PROVE Follows(log[i][current], o)
  <2> DEFINE a == log[i][current]
  <2>1. Follows(a, s) /\ Stage(a) >= n /\ Stage(a) \in 0..5
    BY <1>2, StageType
  <2> HIDE DEF a
  <2>2. Stage(a) <= Stage(o) /\ (Stage(a) = 2 => Stage(o) <= 3)
    BY <1>7, <2>1 DEF Follows
  <2>3. a.recorded => o.recorded
    BY <1>4, <2>1 DEF Follows
  <2>4. Stage(a) >= 4 => a.recorded = o.recorded
    BY <1>4, <2>1 DEF Follows
  <2>5. Follows(a, o)
    BY <2>2, <2>3, <2>4 DEF Follows
  <2>6. QED BY <2>5 DEF a
<1>10. QED BY <1>5, <1>8, <1>9, PatchEndStage DEF s, o

\* Recording the namespace keeps the stages in order.
LEMMA RecordStage ==
  ASSUME TypeOK, StageInv, ensureRestoreNamespace
  PROVE  StageInv'
<1> DEFINE s == server[current]
           o == Stored(Merge([mem EXCEPT !.recorded = TRUE], s))
<1>1. /\ LogType /\ current \in VMFRs /\ mem \in VMFR /\ LogInv /\ pc = "namespace"
      /\ mem.recorded => s.recorded
      /\ \A i \in Versions : Stage(log[i][current]) \in {2, 3}
  BY DEF TypeOK, LogType, StageInv, WorkerInv, Serving, ensureRestoreNamespace
<1>2. [mem EXCEPT !.recorded = TRUE] \in VMFR
  BY <1>1, EditType
<1>3. Exists(s) /\ o \in VMFR /\ Write(current, o)
  BY <1>2, PatchLog DEF ensureRestoreNamespace, PatchThen
<1>4. pc' = "serviceaccount" /\ mem' = o /\ current' = current
  BY DEF ensureRestoreNamespace, PatchThen
<1>5. s \in VMFR /\ WellFormed(s) /\ Stage(s) \in {2, 3}
  BY <1>1, LogFacts, ServerFollows DEF server
<1>6. \A i \in Versions : Follows(log[i][current], s)
  BY <1>1, ServerFollows
<1>7. /\ o.life = s.life /\ o.finalizers = s.finalizers /\ o.progress = s.progress
      /\ o.recorded = TRUE
  BY <1>1, <1>3, <1>5, RecordPatch
<1> HIDE DEF o
<1>8. Stage(o) = Stage(s)
  BY <1>7 DEF Stage
<1>9. o.recorded
  BY <1>7
<1>10. WellFormed(o)
  <2>1. o.recorded \/ o.progress # "none" => Stage(o) >= 2
    BY <1>5, <1>8
  <2>2. o.progress \in {"namespace ready", "served"} => o.recorded
    BY <1>9
  <2>3. /\ o.life = "uncreated" => o.finalizers = {}
        /\ o.life = "active" => o.finalizers \in {{}, Finalizers}
        /\ o.life = "deleting" => o.finalizers \in {Finalizers, {"vm-file-restore"}}
    BY <1>5, <1>7 DEF WellFormed
  <2>4. QED BY <2>1, <2>2, <2>3 DEF WellFormed
<1>11. ASSUME NEW i \in Versions PROVE Follows(log[i][current], o)
  <2>1. Stage(log[i][current]) \in {2, 3} /\ Stage(log[i][current]) <= Stage(o)
    BY <1>1, <1>6, <1>8 DEF Follows
  <2>2. ~(Stage(log[i][current]) >= 4) /\ Stage(o) <= 3
    BY <1>5, <1>8, <2>1
  <2>3. QED BY <1>9, <2>1, <2>2 DEF Follows
<1>12. LogInv'
  BY <1>1, <1>3, <1>10, <1>11, WriteKeepsOrder
<1>13. /\ server'[current] = o
       /\ \A j \in Versions' : \/ j \in Versions /\ log'[j] = log[j]
                               \/ log'[j] = server'
  BY <1>1, <1>3, WriteLog, LogFacts
<1>14. \A j \in Versions' : Stage(log'[j][current]) \in {2, 3}
  BY <1>1, <1>5, <1>8, <1>13
<1>15. WorkerInv'
  BY <1>4, <1>9, <1>13, <1>14 DEF WorkerInv, Serving, Cleaning
<1>16. QED BY <1>12, <1>15 DEF StageInv

\* Every step keeps the stages in order.
LEMMA StageStep == TypeOK /\ StageInv /\ [Next]_vars => StageInv'
<1> SUFFICES ASSUME TypeOK, StageInv, [Next]_vars PROVE StageInv'
  OBVIOUS
<1>0. LogType /\ LogInv /\ current \in VMFRs /\ mem \in VMFR
  BY DEF TypeOK, LogType, StageInv
<1>s. /\ pc \in Serving => Stage(server[current]) >= 2
      /\ pc \in {"ready", "publish"} => server[current].recorded
  <2>1. server = log[Len(log)] /\ Len(log) \in Versions
    BY <1>0, LogFacts DEF server
  <2>2. pc \in Serving => Stage(log[Len(log)][current]) \in {2, 3}
    BY <2>1 DEF StageInv, WorkerInv
  <2>3. pc \in {"ready", "publish"} => server[current].recorded
    BY DEF StageInv, WorkerInv
  <2>4. QED BY <2>1, <2>2, <2>3
<1>1. ASSUME NEW v \in VMFRs, Reconcile(v) PROVE StageInv'
  BY <1>1, ReconcileStage
<1>2. CASE ensureFinalizer
  <2>1. mem.finalizers # Finalizers /\ \A i \in Versions : Stage(log[i][current]) >= 1
    BY <1>2 DEF ensureFinalizer, StageInv, WorkerInv
  <2>2. QED BY <1>2, <2>1, FinalizerPatchStage DEF ensureFinalizer
<1>3. CASE Validate
  <2>1. PICK p \in {"validated", "failed"} : PatchEnd([mem EXCEPT !.progress = p], TRUE)
    BY <1>3 DEF Validate
  <2>2. p \in Progress /\ p \notin {"namespace ready", "served"} /\ pc \in Serving
    BY <1>3 DEF Progress, Validate, Serving
  <2>3. QED BY <1>s, <2>1, <2>2, ProgressPatchStage
<1>4. CASE failValidation
  <2>1. pc \in Serving /\ "failed" \in Progress
    BY <1>4 DEF failValidation, Serving, Progress
  <2>2. QED BY <1>s, <1>4, <2>1, ProgressPatchStage DEF failValidation
<1>5. CASE ensureRestoreNamespace
  BY <1>5, RecordStage
<1>6. CASE ensureFileServerAccess
  BY <1>6, GotoStage DEF ensureFileServerAccess, EnsureObject, Goto, Serving
<1>7. CASE NamespaceReady
  <2>1. pc \in Serving /\ pc = "ready" /\ "namespace ready" \in Progress
    BY <1>7 DEF NamespaceReady, Serving, Progress
  <2>2. QED BY <1>s, <1>7, <2>1, ProgressPatchStage DEF NamespaceReady
<1>8. CASE createFileServerResources
  BY <1>8, GotoStage DEF createFileServerResources, Goto, Serving
<1>9. CASE Publish
  <2>1. pc \in Serving /\ pc = "publish" /\ "served" \in Progress
    BY <1>9 DEF Publish, Serving, Progress
  <2>2. QED BY <1>s, <1>9, <2>1, ProgressPatchStage DEF Publish
<1>10. CASE handleVeleroRestoreCleanup
  <2>1. mem.finalizers = Finalizers /\ \A i \in Versions : Stage(log[i][current]) >= 3
    BY <1>10 DEF handleVeleroRestoreCleanup, StageInv, WorkerInv
  <2>2. mem.finalizers \ {"velero-restore-cleanup"} = {"vm-file-restore"}
        /\ {"vm-file-restore"} \in SUBSET Finalizers /\ {"vm-file-restore"} # mem.finalizers
    BY <2>1 DEF Finalizers
  <2>3. PatchEnd([mem EXCEPT !.finalizers = {"vm-file-restore"}], TRUE)
    BY <1>0, <1>10, <2>2, EditType DEF handleVeleroRestoreCleanup
  <2>4. QED BY <2>1, <2>2, <2>3, FinalizerPatchStage
<1>11. CASE handleResourceCleanup
  BY <1>11, GotoStage DEF handleResourceCleanup, Goto, Cleaning
<1>12. CASE deleteFileServerPods
  <2>1. mem.recorded
    BY <1>12 DEF deleteFileServerPods, StageInv, WorkerInv, Cleaning
  <2>2. QED BY <1>12, <2>1, GotoStage DEF deleteFileServerPods, Goto, Cleaning
<1>13. CASE ListOthers
  <2>1. mem.recorded
    BY <1>13 DEF ListOthers, StageInv, WorkerInv, Cleaning
  <2>2. QED BY <1>13, <2>1, GotoStage DEF ListOthers, Goto, Cleaning
<1>14. CASE deleteFileServerAccess
  <2>1. mem.recorded
    BY <1>14 DEF deleteFileServerAccess, StageInv, WorkerInv, Cleaning
  <2>2. QED BY <1>14, <2>1, GotoStage DEF deleteFileServerAccess, DeleteObject, Goto, Cleaning
<1>15. CASE DropFinalizer
  <2>1. /\ mem.finalizers = {"vm-file-restore"}
        /\ \A i \in Versions : Stage(log[i][current]) >= 4
    BY <1>15 DEF DropFinalizer, StageInv, WorkerInv, Cleaning
  <2>2. mem.finalizers \ {"vm-file-restore"} = {} /\ {} # mem.finalizers
    BY <2>1
  <2>3. PatchEnd([mem EXCEPT !.finalizers = {}], FALSE)
    BY <1>0, <1>15, <2>2, EditType DEF DropFinalizer
  <2>4. QED BY <2>1, <2>2, <2>3, FinalizerPatchStage
<1>16. CASE PatchRefused
  <2>1. log' = log /\ pc' = "idle"
    BY <1>16 DEF PatchRefused, EndReconcile
  <2>2. QED BY <2>1, IdleStage
<1>17. CASE ApiError
  <2>1. CASE pc' = "idle"
    BY <1>17, <2>1, IdleStage DEF ApiError
  <2>2. CASE pc \in FailsValidation /\ pc' = "fail" /\ UNCHANGED <<queue, current, mem>>
    BY <1>17, <2>2, GotoStage DEF ApiError, FailsValidation, Serving
  <2>3. QED BY <1>17, <2>1, <2>2 DEF ApiError
<1>18. CASE Crash
  <2>1. \A j \in Versions' : j = 1 /\ log'[j] = server
    BY <1>0, <1>18, RestartLog DEF Crash
  <2>2. LogInv'
    BY <1>0, <2>1, ServerFollows, FollowsItself DEF LogInv
  <2>3. WorkerInv'
    BY <1>18 DEF Crash, WorkerInv, Serving, Cleaning
  <2>4. QED BY <2>2, <2>3 DEF StageInv
<1>19. ASSUME NEW v \in VMFRs, UserCreates(v) PROVE StageInv'
  <2> DEFINE s == server[v]
             o == [s EXCEPT !.life = "active"]
  <2>1. s \in VMFR /\ WellFormed(s) /\ s.life = "uncreated"
    BY <1>0, <1>19, ServerFollows DEF UserCreates
  <2>2. /\ o \in VMFR /\ o.life = "active" /\ o.finalizers = s.finalizers
        /\ o.recorded = s.recorded /\ o.progress = s.progress
    BY <2>1 DEF VMFR, Lives
  <2>3. Write(v, o) /\ UNCHANGED worker
    BY <1>19 DEF UserCreates
  <2>4. \A i \in Versions : WellFormed(log[i][v]) /\ Follows(log[i][v], s)
    BY <1>0, ServerFollows
  <2> HIDE DEF s, o
  <2>5. Stage(s) = 0 /\ s.finalizers = {} /\ ~s.recorded /\ s.progress = "none"
    <3>1. Stage(s) = 0
      BY <2>1 DEF Stage
    <3>2. s.finalizers = {} /\ (s.recorded \/ s.progress # "none" => Stage(s) >= 2)
      BY <2>1 DEF WellFormed
    <3>3. QED BY <3>1, <3>2
  <2>6. Stage(o) = 1 /\ ~o.recorded
    BY <2>2, <2>5 DEF Stage
  <2>7. WellFormed(o)
    BY <2>2, <2>5, <2>6 DEF WellFormed
  <2>8. ASSUME NEW i \in Versions PROVE Follows(log[i][v], o)
    <3>1. Stage(log[i][v]) = 0 /\ ~log[i][v].recorded
      BY <2>4, <2>5, StageType DEF Follows
    <3>2. QED BY <2>6, <3>1 DEF Follows
  <2>9. QED BY <2>2, <2>3, <2>5, <2>7, <2>8, UserWriteStage DEF s
<1>20. ASSUME NEW v \in VMFRs, UserDeletes(v) PROVE StageInv'
  <2> DEFINE s == server[v]
             d == [s EXCEPT !.life = "deleting"]
             o == Stored(d)
  <2>1. s \in VMFR /\ WellFormed(s) /\ s.life = "active"
    BY <1>0, <1>20, ServerFollows DEF UserDeletes
  <2>2. /\ d \in VMFR /\ d.life = "deleting" /\ d.finalizers = s.finalizers
        /\ d.recorded = s.recorded /\ d.progress = s.progress
    BY <2>1 DEF VMFR, Lives
  <2>3. Write(v, o) /\ UNCHANGED worker
    BY <1>20 DEF UserDeletes
  <2>4. \A i \in Versions : WellFormed(log[i][v]) /\ Follows(log[i][v], s)
    BY <1>0, ServerFollows
  <2> HIDE DEF s, d
  <2>5. /\ o \in VMFR /\ o.finalizers = s.finalizers
        /\ o.recorded = s.recorded /\ o.progress = s.progress
        /\ o.life = IF s.finalizers = {} THEN "gone" ELSE "deleting"
    BY <2>2 DEF Stored, VMFR, Lives
  <2> HIDE DEF o
  <2>6. \/ Stage(s) = 1 /\ Stage(o) = 5 /\ o.life = "gone"
        \/ Stage(s) = 2 /\ Stage(o) = 3 /\ o.life = "deleting" /\ o.finalizers = Finalizers
    BY <2>1, <2>5 DEF Stage, WellFormed, Finalizers
  <2>7. WellFormed(o)
    <3>1. o.progress \in {"namespace ready", "served"} => o.recorded
      BY <2>1, <2>5 DEF WellFormed
    <3>2. o.recorded \/ o.progress # "none" => Stage(o) >= 2
      BY <2>6
    <3>3. QED BY <2>6, <3>1, <3>2 DEF WellFormed
  <2>8. ASSUME NEW i \in Versions PROVE Follows(log[i][v], o)
    <3> DEFINE a == log[i][v]
    <3>1. Follows(a, s) /\ WellFormed(a) /\ Stage(a) \in 0..5
      BY <2>4, StageType
    <3> HIDE DEF a
    <3>2. Stage(a) <= 2 /\ Stage(a) <= Stage(o) /\ (Stage(a) = 2 => Stage(o) <= 3)
      BY <2>6, <3>1 DEF Follows
    <3>3. a.recorded => o.recorded
      BY <2>5, <3>1 DEF Follows
    <3>4. ~(Stage(a) >= 4)
      BY <3>1, <3>2
    <3>5. Follows(a, o)
      BY <3>2, <3>3, <3>4 DEF Follows
    <3>6. QED BY <3>5 DEF a
  <2>9. QED BY <2>3, <2>5, <2>6, <2>7, <2>8, UserWriteStage DEF s
<1>21. CASE InformerDelivers
  <2>1. /\ server' = server
        /\ \A j \in Versions' : j + 1 \in Versions /\ log'[j] = log[j + 1]
    BY <1>0, <1>21, DeliverLog DEF InformerDelivers
  <2>2. pc' = pc /\ current' = current /\ mem' = mem
    BY <1>21 DEF InformerDelivers, worker
  <2>3. ASSUME NEW v \in VMFRs, NEW i \in Versions', NEW j \in Versions'
        PROVE  /\ WellFormed(log'[i][v])
               /\ i <= j => Follows(log'[i][v], log'[j][v])
    <3>1. i \in Int /\ j \in Int
      BY DEF Versions
    <3>2. i <= j => i + 1 <= j + 1
      BY <3>1
    <3>3. QED BY <1>0, <2>1, <3>2 DEF LogInv
  <2>4. LogInv'
    BY <2>3 DEF LogInv
  <2>5. WorkerInv'
    BY <2>1, <2>2 DEF StageInv, WorkerInv
  <2>6. QED BY <2>4, <2>5 DEF StageInv
<1>22. CASE UNCHANGED vars
  <2>1. UNCHANGED <<log, pc, current, mem>>
    BY <1>22 DEF vars, worker
  <2>2. server' = server /\ Versions' = Versions
    BY <2>1 DEF server, Versions
  <2>3. QED BY <2>1, <2>2 DEF StageInv, LogInv, WorkerInv
<1>23. QED
  BY <1>1, <1>2, <1>3, <1>4, <1>5, <1>6, <1>7, <1>8, <1>9, <1>10, <1>11, <1>12, <1>13,
     <1>14, <1>15, <1>16, <1>17, <1>18, <1>19, <1>20, <1>21, <1>22
  DEF Next, Controller, Environment, Workflow, Deletion

-----------------------------------------------------------------------------
(***************************************************************************)
(* What one step does to the server's copy of a VMFR.                      *)
(***************************************************************************)
Prepared == {"namespace ready", "served"}

\* The effect of a step on a VMFR: the record is never withdrawn, a VMFR that
\* records the namespace only goes with its last finalizer, and a step becomes
\* published only by the reconcile that reached it.
Effect(w) ==
  /\ server[w].recorded => server'[w].recorded
  /\ server'[w].recorded => server[w].recorded \/ (pc = "namespace" /\ w = current
                                                    /\ pc' # "idle" /\ current' = current)
  /\ Exists(server[w]) /\ server[w].recorded => Exists(server'[w])
                                                \/ (pc = "drop finalizer" /\ w = current)
  /\ server'[w].life = "active" => server[w].life = "active" \/ ~server'[w].recorded
  /\ server'[w].progress \in Prepared => \/ server[w].progress \in Prepared
                                         \/ w = current /\ pc \in {"ready", "publish"}

\* A VMFR that a step leaves alone.
LEMMA NoEffect ==
  ASSUME NEW w, server'[w] = server[w]
  PROVE  Effect(w)
BY DEF Effect, Exists

\* A step that leaves the log alone.
LEMMA NoEffects ==
  ASSUME log' = log
  PROVE  server' = server /\ Versions' = Versions /\ \A w \in VMFRs : Effect(w)
<1>1. server' = server /\ Versions' = Versions
  BY DEF server, Versions
<1>2. QED BY <1>1, NoEffect

\* A write changes the VMFR that is written and no other.
LEMMA WriteEffect ==
  ASSUME LogType, NEW v \in VMFRs, NEW o \in VMFR, Write(v, o)
  PROVE  server'[v] = o /\ \A w \in VMFRs \ {v} : server'[w] = server[w] /\ Effect(w)
<1>1. server' = [server EXCEPT ![v] = o] /\ server \in [VMFRs -> VMFR]
  BY WriteLog, LogFacts
<1>2. server'[v] = o /\ \A w \in VMFRs \ {v} : server'[w] = server[w]
  BY <1>1
<1>3. QED BY <1>2, NoEffect

\* The effect of a patch, given the copy it stores.
LEMMA PatchEffect ==
  ASSUME TypeOK, NEW new \in VMFR, Patch(new)
  PROVE  /\ Exists(server[current])
         /\ server'[current] = Stored(Merge(new, server[current]))
         /\ \A w \in VMFRs \ {current} : server'[w] = server[w] /\ Effect(w)
<1>1. LogType /\ current \in VMFRs
  BY DEF TypeOK, LogType
<1>2. QED BY <1>1, PatchLog, WriteEffect

\* The effect of a patch that publishes progress.
LEMMA ProgressEffect ==
  ASSUME TypeOK, StageInv, NEW p \in Progress, Patch([mem EXCEPT !.progress = p]),
         p \in Prepared => pc \in {"ready", "publish"}
  PROVE  \A w \in VMFRs : Effect(w)
<1> DEFINE s == server[current]
           o == server'[current]
<1>1. LogType /\ current \in VMFRs /\ mem \in VMFR /\ LogInv
  BY DEF TypeOK, LogType, StageInv
<1>2. [mem EXCEPT !.progress = p] \in VMFR
  BY <1>1, EditType
<1>3. /\ Exists(s) /\ o = Stored(Merge([mem EXCEPT !.progress = p], s))
      /\ \A w \in VMFRs \ {current} : Effect(w)
  BY <1>2, PatchEffect
<1>4. s \in VMFR /\ WellFormed(s)
  BY <1>1, ServerFollows
<1> HIDE DEF s, o
<1>5. /\ o.life = s.life /\ o.recorded = s.recorded /\ o.progress \in {p, s.progress}
  BY <1>1, <1>3, <1>4, ProgressPatch
<1>6. Exists(o) /\ (s.recorded => o.recorded) /\ (o.recorded => s.recorded)
  BY <1>3, <1>5 DEF Exists
<1>7. Effect(current)
  BY <1>3, <1>5, <1>6 DEF Effect, s, o
<1>8. QED BY <1>3, <1>7

\* The effect of a patch of the finalizers.
LEMMA FinalizerEffect ==
  ASSUME TypeOK, StageInv, NEW f \in SUBSET Finalizers, f # mem.finalizers,
         Patch([mem EXCEPT !.finalizers = f]), f = {} => pc = "drop finalizer"
  PROVE  \A w \in VMFRs : Effect(w)
<1> DEFINE s == server[current]
           o == server'[current]
<1>1. LogType /\ current \in VMFRs /\ mem \in VMFR /\ LogInv
  BY DEF TypeOK, LogType, StageInv
<1>2. [mem EXCEPT !.finalizers = f] \in VMFR
  BY <1>1, EditType
<1>3. /\ Exists(s) /\ o = Stored(Merge([mem EXCEPT !.finalizers = f], s))
      /\ \A w \in VMFRs \ {current} : Effect(w)
  BY <1>2, PatchEffect
<1>4. s \in VMFR
  BY <1>1, ServerFollows
<1>5. /\ o.recorded = s.recorded /\ o.progress = s.progress
      /\ o.life = IF s.life = "deleting" /\ f = {} THEN "gone" ELSE s.life
  <2> DEFINE new == [mem EXCEPT !.finalizers = f]
  <2>1. new.finalizers = f /\ new.recorded = mem.recorded /\ new.progress = mem.progress
    BY <1>1 DEF VMFR
  <2>2. o = Stored(Merge(new, s))
    BY <1>3
  <2> HIDE DEF new, s, o
  <2>3. o = [life |-> IF s.life = "deleting" /\ f = {} THEN "gone" ELSE s.life,
             finalizers |-> f, recorded |-> s.recorded, progress |-> s.progress]
    BY <2>1, <2>2, FinalizerPatch
  <2>4. QED BY <2>3
<1> HIDE DEF s, o
<1>6. /\ Exists(o) \/ pc = "drop finalizer"
      /\ o.life = "active" => s.life = "active"
  BY <1>3, <1>5 DEF Exists
<1>7. (s.recorded => o.recorded) /\ (o.recorded => s.recorded)
  BY <1>5
<1>8. Effect(current)
  BY <1>5, <1>6, <1>7 DEF Effect, s, o
<1>9. QED BY <1>3, <1>8

\* The effect of recording the namespace.
LEMMA RecordEffect ==
  ASSUME TypeOK, StageInv, ensureRestoreNamespace
  PROVE  (\A w \in VMFRs : Effect(w))
         /\ \A w \in VMFRs \ {current} : server'[w] = server[w]
<1> DEFINE s == server[current]
           o == server'[current]
<1>1. /\ LogType /\ current \in VMFRs /\ mem \in VMFR /\ LogInv /\ pc = "namespace"
      /\ mem.recorded => s.recorded
      /\ Patch([mem EXCEPT !.recorded = TRUE]) /\ pc' = "serviceaccount" /\ current' = current
  BY DEF TypeOK, LogType, StageInv, WorkerInv, ensureRestoreNamespace, PatchThen
<1>2. [mem EXCEPT !.recorded = TRUE] \in VMFR
  BY <1>1, EditType
<1>3. /\ Exists(s) /\ o = Stored(Merge([mem EXCEPT !.recorded = TRUE], s))
      /\ \A w \in VMFRs \ {current} : server'[w] = server[w] /\ Effect(w)
  BY <1>1, <1>2, PatchEffect
<1>4. s \in VMFR /\ WellFormed(s)
  BY <1>1, ServerFollows
<1> HIDE DEF s, o
<1>5. o.life = s.life /\ o.progress = s.progress /\ o.recorded = TRUE
  BY <1>1, <1>3, <1>4, RecordPatch
<1>6. Exists(o) /\ o.recorded
  BY <1>3, <1>5 DEF Exists
<1>7. Effect(current)
  BY <1>1, <1>5, <1>6 DEF Effect, s, o
<1>8. QED BY <1>3, <1>7

\* The effect of what the user does.
LEMMA UserEffect ==
  ASSUME TypeOK, StageInv, NEW v \in VMFRs, UserCreates(v) \/ UserDeletes(v)
  PROVE  /\ \A w \in VMFRs : Effect(w)
         /\ server'[v].recorded = server[v].recorded
         /\ server'[v].progress = server[v].progress
         /\ \A w \in VMFRs \ {v} : server'[w] = server[w]
<1> DEFINE s == server[v]
           o == server'[v]
<1>1. LogType /\ LogInv
  BY DEF TypeOK, LogType, StageInv
<1>2. s \in VMFR /\ WellFormed(s)
  BY <1>1, ServerFollows
<1>3. CASE UserCreates(v)
  <2>1. [s EXCEPT !.life = "active"] \in VMFR /\ Write(v, [s EXCEPT !.life = "active"])
    BY <1>2, <1>3 DEF UserCreates, VMFR, Lives
  <2>2. /\ o = [s EXCEPT !.life = "active"] /\ s.life = "uncreated"
        /\ \A w \in VMFRs \ {v} : server'[w] = server[w] /\ Effect(w)
    BY <1>1, <1>3, <2>1, WriteEffect DEF UserCreates
  <2> HIDE DEF s, o
  <2>3. o.recorded = s.recorded /\ o.progress = s.progress
    BY <1>2, <2>2 DEF VMFR
  <2>4. Stage(s) = 0
    BY <2>2 DEF Stage
  <2>5. ~s.recorded
    <3>1. s.recorded \/ s.progress # "none" => Stage(s) >= 2
      BY <1>2 DEF WellFormed
    <3>2. QED BY <2>4, <3>1
  <2>6. ~o.recorded
    BY <2>3, <2>5
  <2>7. Effect(v)
    BY <2>3, <2>5, <2>6 DEF Effect, s, o
  <2>8. QED BY <2>2, <2>3, <2>7 DEF s, o
<1>4. CASE UserDeletes(v)
  <2> DEFINE d == [s EXCEPT !.life = "deleting"]
  <2>1. Stored(d) \in VMFR /\ Write(v, Stored(d))
    BY <1>2, <1>4 DEF UserDeletes, VMFR, Lives, Stored
  <2>2. /\ o = Stored(d) /\ s.life = "active"
        /\ \A w \in VMFRs \ {v} : server'[w] = server[w] /\ Effect(w)
    BY <1>1, <1>4, <2>1, WriteEffect DEF UserDeletes
  <2> HIDE DEF s, o
  <2>3. /\ d \in VMFR /\ d.life = "deleting" /\ d.finalizers = s.finalizers
        /\ d.recorded = s.recorded /\ d.progress = s.progress
    BY <1>2 DEF VMFR, Lives
  <2> HIDE DEF d
  <2>4. /\ o.recorded = s.recorded /\ o.progress = s.progress
        /\ o.life = IF s.finalizers = {} THEN "gone" ELSE "deleting"
    BY <2>2, <2>3 DEF Stored, VMFR, Lives
  <2>5. s.finalizers = {} => Stage(s) = 1
    BY <2>2 DEF Stage
  <2>6. s.recorded => s.finalizers # {}
    BY <1>2, <2>5 DEF WellFormed
  <2>7. s.recorded => Exists(o)
    BY <2>4, <2>6 DEF Exists
  <2>8. (s.recorded => o.recorded) /\ (o.recorded => s.recorded)
    BY <2>4
  <2>9. o.life # "active"
    BY <2>4
  <2>10. Effect(v)
    BY <2>4, <2>7, <2>8, <2>9 DEF Effect, s, o
  <2>11. QED BY <2>2, <2>4, <2>10 DEF s, o
<1>5. QED BY <1>3, <1>4

\* Every step has the effect on every VMFR.
LEMMA StepEffect ==
  ASSUME TypeOK, StageInv, [Next]_vars
  PROVE  \A w \in VMFRs : Effect(w)
<1>0. LogType /\ mem \in VMFR
  BY DEF TypeOK, LogType
<1>1. CASE log' = log
  BY <1>1, NoEffects
<1>2. CASE ensureFinalizer
  <2>1. mem.finalizers # Finalizers
    BY <1>2 DEF ensureFinalizer, StageInv, WorkerInv
  <2>2. Finalizers # {} /\ Finalizers \in SUBSET Finalizers
    BY DEF Finalizers
  <2>3. QED BY <1>2, <2>1, <2>2, FinalizerEffect DEF ensureFinalizer, PatchEnd
<1>3. CASE Validate
  <2>1. PICK p \in {"validated", "failed"} : Patch([mem EXCEPT !.progress = p])
    BY <1>3 DEF Validate, PatchEnd
  <2>2. p \in Progress /\ p \notin Prepared
    BY DEF Progress, Prepared
  <2>3. QED BY <2>1, <2>2, ProgressEffect
<1>4. CASE failValidation
  <2>1. "failed" \in Progress /\ "failed" \notin Prepared
    BY DEF Progress, Prepared
  <2>2. QED BY <1>4, <2>1, ProgressEffect DEF failValidation, PatchEnd
<1>5. CASE ensureRestoreNamespace
  BY <1>5, RecordEffect
<1>6. CASE NamespaceReady
  <2>1. "namespace ready" \in Progress
    BY DEF Progress
  <2>2. QED BY <1>6, <2>1, ProgressEffect DEF NamespaceReady, PatchEnd
<1>7. CASE Publish
  <2>1. "served" \in Progress
    BY DEF Progress
  <2>2. QED BY <1>7, <2>1, ProgressEffect DEF Publish, PatchEnd
<1>8. CASE handleVeleroRestoreCleanup
  <2>1. mem.finalizers = Finalizers
    BY <1>8 DEF handleVeleroRestoreCleanup, StageInv, WorkerInv
  <2>2. mem.finalizers \ {"velero-restore-cleanup"} = {"vm-file-restore"}
        /\ {"vm-file-restore"} \in SUBSET Finalizers /\ {"vm-file-restore"} # mem.finalizers
        /\ {"vm-file-restore"} # {}
    BY <2>1 DEF Finalizers
  <2>3. Patch([mem EXCEPT !.finalizers = {"vm-file-restore"}])
    BY <1>0, <1>8, <2>2, EditType DEF handleVeleroRestoreCleanup, PatchEnd
  <2>4. QED BY <2>2, <2>3, FinalizerEffect
<1>9. CASE DropFinalizer
  <2>1. mem.finalizers = {"vm-file-restore"} /\ pc = "drop finalizer"
    BY <1>9 DEF DropFinalizer, StageInv, WorkerInv, Cleaning
  <2>2. mem.finalizers \ {"vm-file-restore"} = {} /\ {} # mem.finalizers
    BY <2>1
  <2>3. Patch([mem EXCEPT !.finalizers = {}])
    BY <1>0, <1>9, <2>2, EditType DEF DropFinalizer, PatchEnd
  <2>4. QED BY <2>1, <2>2, <2>3, FinalizerEffect
<1>10. CASE Crash
  <2>1. server' = server
    BY <1>0, <1>10, RestartLog DEF Crash
  <2>2. QED BY <2>1, NoEffect
<1>11. ASSUME NEW v \in VMFRs, UserCreates(v) \/ UserDeletes(v)
       PROVE  \A w \in VMFRs : Effect(w)
  BY <1>11, UserEffect
<1>12. CASE InformerDelivers
  <2>1. server' = server
    BY <1>0, <1>12, DeliverLog DEF InformerDelivers
  <2>2. QED BY <2>1, NoEffect
<1>13. \/ log' = log \/ ensureFinalizer \/ Validate \/ failValidation
       \/ ensureRestoreNamespace \/ NamespaceReady \/ Publish
       \/ handleVeleroRestoreCleanup \/ DropFinalizer \/ Crash \/ InformerDelivers
       \/ \E v \in VMFRs : UserCreates(v) \/ UserDeletes(v)
  BY DEF Next, Controller, Environment, Workflow, Deletion, vars, Reconcile, ApiError,
     ensureFileServerAccess, EnsureObject, createFileServerResources, PatchRefused,
     handleResourceCleanup, deleteFileServerPods, ListOthers, deleteFileServerAccess,
     DeleteObject, Goto
<1>14. QED BY <1>1, <1>2, <1>3, <1>4, <1>5, <1>6, <1>7, <1>8, <1>9, <1>10, <1>11, <1>12,
              <1>13

-----------------------------------------------------------------------------
(***************************************************************************)
(* The owner of the access objects.                                        *)
(***************************************************************************)
Owner(v) == Exists(server[v]) /\ server[v].recorded

\* An owner stays one until it drops its last finalizer.
LEMMA OwnerStays ==
  ASSUME TypeOK, StageInv, [Next]_vars, NEW w \in VMFRs, Owner(w),
         pc # "drop finalizer" \/ w # current
  PROVE  Owner(w)'
<1>1. Effect(w)
  BY StepEffect
<1>2. QED BY <1>1 DEF Effect, Owner, Exists

\* If a step adds no access object, an owner is left: the one that goes has
\* deleted them or has seen another.
LEMMA OwnerLeft ==
  ASSUME TypeOK, StageInv, AccessInv, [Next]_vars, Managed' \subseteq Managed
  PROVE  AccessHasAnOwner'
<1> SUFFICES ASSUME Managed' # {} PROVE \E v \in VMFRs : Owner(v)'
  BY DEF AccessHasAnOwner, Owner, Exists
<1>1. Managed # {}
  OBVIOUS
<1>2. PICK v \in VMFRs : Owner(v)
  BY <1>1 DEF AccessInv, AccessHasAnOwner, Owner
<1>3. CASE pc # "drop finalizer" \/ v # current
  BY <1>2, <1>3, OwnerStays
<1>4. CASE pc = "drop finalizer" /\ v = current
  <2>1. mem.recorded
    <3>1. mem.recorded = server[current].recorded
      BY <1>4 DEF StageInv, WorkerInv, Cleaning
    <3>2. server[current].recorded
      BY <1>2, <1>4 DEF Owner
    <3>3. QED BY <3>1, <3>2
  <2>2. PICK w \in VMFRs \ {current} : Owner(w)
    BY <1>1, <1>4, <2>1 DEF AccessInv, Owner
  <2>3. Owner(w)'
    BY <2>2, OwnerStays
  <2>4. QED BY <2>3
<1>5. QED BY <1>3, <1>4

\* Initially there is no access object of the controller's.
LEMMA AccessInit == Init => AccessInv
<1> SUFFICES ASSUME Init PROVE AccessInv
  OBVIOUS
<1>1. Managed = {}
  BY DEF Init, Managed
<1>2. QED BY <1>1 DEF Init, AccessInv, AccessHasAnOwner

\* Every step keeps an owner.
LEMMA AccessStep == TypeOK /\ StageInv /\ AccessInv /\ [Next]_vars => AccessInv'
<1> SUFFICES ASSUME TypeOK, StageInv, AccessInv, [Next]_vars PROVE AccessInv'
  OBVIOUS
<1>0. LogType /\ LogInv /\ current \in VMFRs
  BY DEF TypeOK, LogType, StageInv
\* A step of another actor while the reconcile stays where it is.
<1>1. ASSUME UNCHANGED <<access, worker>> PROVE AccessInv'
  <2>1. Managed' = Managed /\ pc' = pc /\ current' = current /\ mem' = mem
    BY <1>1 DEF Managed, worker
  <2>2. AccessHasAnOwner'
    BY <2>1, OwnerLeft
  <2>3. ASSUME NEW w \in VMFRs \ {current}, Exists(server[w]) /\ server[w].recorded
        PROVE  (Exists(server[w]) /\ server[w].recorded)'
    <3>1. Owner(w)
      BY <2>3 DEF Owner
    <3>2. Owner(w)'
      BY <3>1, OwnerStays
    <3>3. QED BY <3>2 DEF Owner
  <2>4. QED BY <1>1, <2>1, <2>2, <2>3 DEF AccessInv
\* The reconcile ends, or goes on at a place without a claim on the objects.
<1>2. ASSUME UNCHANGED access, pc' \notin {"delete serviceaccount", "drop finalizer"}
      PROVE  AccessInv'
  <2>1. Managed' = Managed
    BY <1>2 DEF Managed
  <2>2. QED BY <1>2, <2>1, OwnerLeft DEF AccessInv
<1>3. CASE ensureFileServerAccess
  <2>1. /\ pc \in {"serviceaccount", "rolebinding"} /\ log' = log
        /\ pc' \in {"rolebinding", "ready", "fail"}
    BY <1>3 DEF ensureFileServerAccess, EnsureObject, Goto
  <2>2. server[current].recorded /\ Stage(server[current]) \in {2, 3}
    BY <1>0, <2>1, LogFacts DEF StageInv, WorkerInv, Serving, server
  <2>3. Exists(server[current])
    BY <2>2 DEF Stage, Exists
  <2>4. server' = server
    BY <2>1 DEF server
  <2>5. AccessHasAnOwner'
    BY <1>0, <2>2, <2>3, <2>4 DEF AccessHasAnOwner
  <2>6. QED BY <2>1, <2>5 DEF AccessInv
<1>4. CASE createFileServerResources
  BY <1>2, <1>4 DEF createFileServerResources, Goto, cluster
<1>5. CASE handleResourceCleanup
  <2>1. UNCHANGED access /\ mem' = mem
        /\ pc' = IF mem.recorded THEN "delete pods" ELSE "drop finalizer"
    BY <1>5 DEF handleResourceCleanup, Goto, cluster
  <2>2. Managed' = Managed
    BY <2>1 DEF Managed
  <2>3. QED BY <2>1, <2>2, OwnerLeft DEF AccessInv
<1>6. CASE deleteFileServerPods
  BY <1>2, <1>6 DEF deleteFileServerPods, Goto
<1>7. CASE ListOthers
  <2>1. /\ UNCHANGED access /\ log' = log /\ current' = current
        /\ pc' = IF InUse(cache, current) THEN "drop finalizer" ELSE "delete rolebinding"
    BY <1>7 DEF ListOthers, Goto, cluster
  <2>2. CASE ~InUse(cache, current)
    BY <1>2, <2>1, <2>2
  <2>3. CASE InUse(cache, current)
    <3>1. PICK w \in VMFRs \ {current} : cache[w].life = "active" /\ cache[w].recorded
      BY <2>3 DEF InUse
    <3>2. cache[w] = log[1][w] /\ 1 \in Versions
      BY <1>0, LogFacts
    <3>3. WellFormed(cache[w]) /\ Follows(cache[w], server[w])
      BY <1>0, <3>2, ServerFollows
    <3>4. server[w] \in VMFR /\ Stage(server[w]) \in 0..5 /\ Stage(cache[w]) \in 0..5
      BY <1>0, ServerFollows, StageType
    <3>5. Stage(cache[w]) = 2
      <4>1. Stage(cache[w]) >= 2
        BY <3>1, <3>3 DEF WellFormed
      <4>2. QED BY <3>1, <4>1 DEF Stage
    <3>6. Stage(server[w]) \in {2, 3}
      BY <3>3, <3>4, <3>5 DEF Follows
    <3>7. server[w].recorded
      BY <3>1, <3>3 DEF Follows
    <3>8. Exists(server[w])
      BY <3>6 DEF Stage, Exists
    <3>9. server' = server /\ Managed' = Managed
      BY <2>1 DEF server, Managed
    <3>10. AccessHasAnOwner'
      BY <3>9, OwnerLeft
    <3>11. QED BY <2>1, <2>3, <3>7, <3>8, <3>9, <3>10 DEF AccessInv
  <2>4. QED BY <2>2, <2>3
<1>8. CASE deleteFileServerAccess
  <2>0. access \in [AccessObjects -> {"absent", "managed", "foreign"}]
    BY DEF TypeOK
  <2>1. CASE pc = "delete rolebinding" /\ DeleteObject("rolebinding", "delete serviceaccount")
    <3>1. access'["rolebinding"] # "managed" /\ pc' = "delete serviceaccount"
      BY <2>0, <2>1 DEF DeleteObject, Goto, AccessObjects
    <3>2. Managed' \subseteq Managed
      BY <2>0, <2>1 DEF DeleteObject, Managed, AccessObjects
    <3>3. QED BY <3>1, <3>2, OwnerLeft DEF AccessInv
  <2>2. CASE pc = "delete serviceaccount" /\ DeleteObject("serviceaccount", "drop finalizer")
    <3>1. access["rolebinding"] # "managed"
      BY <2>2 DEF AccessInv
    <3>2. access'["rolebinding"] # "managed" /\ access'["serviceaccount"] # "managed"
      BY <2>0, <2>2, <3>1 DEF DeleteObject, AccessObjects
    <3>3. Managed' = {}
      BY <3>2 DEF Managed, AccessObjects
    <3>4. pc' = "drop finalizer"
      BY <2>2 DEF DeleteObject, Goto
    <3>5. QED BY <3>3, <3>4 DEF AccessInv, AccessHasAnOwner
  <2>3. QED BY <1>8, <2>1, <2>2 DEF deleteFileServerAccess
<1>9. ASSUME NEW v \in VMFRs, Reconcile(v) PROVE AccessInv'
  <2>1. CASE SelectedStep(cache[v]) = "idle" /\ UNCHANGED worker
    BY <1>1, <1>9, <2>1 DEF Reconcile, cluster
  <2>2. CASE SelectedStep(cache[v]) # "idle" /\ pc' = SelectedStep(cache[v])
    <3>1. cache[v] \in VMFR /\ WellFormed(cache[v])
      BY <1>0, LogFacts, ServerFollows
    <3>2. pc' \notin {"delete serviceaccount", "drop finalizer"}
      BY <2>2, <3>1, SelectedStage
    <3>3. QED BY <1>2, <1>9, <3>2 DEF Reconcile, cluster
  <2>3. QED BY <1>9, <2>1, <2>2 DEF Reconcile
<1>10. CASE PatchRefused \/ ApiError \/ Crash
  BY <1>2, <1>10 DEF PatchRefused, EndReconcile, ApiError, Crash, cluster
<1>11. CASE \/ ensureFinalizer \/ failValidation \/ NamespaceReady \/ Publish
            \/ handleVeleroRestoreCleanup \/ DropFinalizer \/ Validate
  BY <1>2, <1>11 DEF ensureFinalizer, failValidation, NamespaceReady, Publish, Validate,
     handleVeleroRestoreCleanup, DropFinalizer, PatchEnd, EndReconcile, cluster
<1>12. CASE ensureRestoreNamespace
  BY <1>2, <1>12 DEF ensureRestoreNamespace, PatchThen, cluster
<1>13. CASE InformerDelivers \/ \E v \in VMFRs : UserCreates(v) \/ UserDeletes(v)
  BY <1>1, <1>13 DEF InformerDelivers, UserCreates, UserDeletes, cluster
<1>14. CASE UNCHANGED vars
  BY <1>1, <1>14 DEF vars, cluster
<1>15. QED
  BY <1>3, <1>4, <1>5, <1>6, <1>7, <1>8, <1>9, <1>10, <1>11, <1>12, <1>13, <1>14
  DEF Next, Controller, Environment, Workflow, Deletion

\* deleteFileServerAccess and the record written before ensureFileServerAccess
\* creates anything keep the promise, for any number of VMFRs in the namespace,
\* any lag of the informer cache and any faults: while the service account or the
\* binding to the privileged SCC exists, a VMFR exists that will clean it up.
THEOREM AccessIsOwned == Spec => []AccessHasAnOwner
<1>1. Init => TypeOK /\ StageInv /\ AccessInv
  BY TypeInit, StageInit, AccessInit
<1>2. TypeOK /\ StageInv /\ AccessInv /\ [Next]_vars => (TypeOK /\ StageInv /\ AccessInv)'
  BY TypeStep, StageStep, AccessStep
<1>3. AccessInv => AccessHasAnOwner
  BY DEF AccessInv
<1>4. QED BY <1>1, <1>2, <1>3, PTL DEF Spec

-----------------------------------------------------------------------------
(***************************************************************************)
(* Access is kept for active VMFRs when reconciles start from a cache that *)
(* caught up.                                                              *)
(***************************************************************************)
\* Only the two deletions take access away.
LEMMA HasAccessStays ==
  ASSUME TypeOK, [Next]_vars, HasAccess, ~deleteFileServerAccess
  PROVE  HasAccess'
<1>0. access \in [AccessObjects -> {"absent", "managed", "foreign"}]
  BY DEF TypeOK
<1>1. CASE UNCHANGED <<access, openshift>>
  BY <1>1 DEF HasAccess
<1>2. CASE ensureFileServerAccess
  <2>1. openshift' = openshift
    BY <1>2 DEF ensureFileServerAccess, EnsureObject, cluster
  <2>2. \A o \in AccessObjects : access[o] # "absent" => access'[o] # "absent"
    BY <1>0, <1>2 DEF ensureFileServerAccess, EnsureObject, cluster
  <2>3. QED BY <2>1, <2>2 DEF HasAccess, AccessObjects
<1>3. UNCHANGED <<access, openshift>> \/ ensureFileServerAccess
  BY DEF Next, Controller, Environment, Workflow, Deletion, vars, Reconcile, ApiError,
     createFileServerResources, PatchRefused, handleResourceCleanup, deleteFileServerPods,
     ListOthers, cluster, ensureFinalizer, Validate, failValidation, ensureRestoreNamespace,
     NamespaceReady, Publish, handleVeleroRestoreCleanup, DropFinalizer, PatchEnd, PatchThen,
     Crash, UserCreates, UserDeletes, InformerDelivers
<1>4. QED BY <1>1, <1>2, <1>3

\* lags is fixed at the start.
LEMMA LagsFixed == [Next]_vars => lags' = lags
BY DEF Next, Controller, Environment, Workflow, Deletion, vars, Reconcile, ApiError,
   createFileServerResources, PatchRefused, handleResourceCleanup, deleteFileServerPods,
   ListOthers, cluster, ensureFinalizer, Validate, failValidation, ensureRestoreNamespace,
   NamespaceReady, Publish, handleVeleroRestoreCleanup, DropFinalizer, PatchEnd, PatchThen,
   Crash, UserCreates, UserDeletes, InformerDelivers, ensureFileServerAccess, EnsureObject,
   deleteFileServerAccess, DeleteObject

\* A VMFR that claims access has recorded the namespace.
LEMMA PreparedIsRecorded ==
  ASSUME TypeOK, StageInv, NEW v \in VMFRs, server[v].progress \in Prepared
  PROVE  server[v].recorded
<1>1. WellFormed(server[v])
  BY ServerFollows DEF TypeOK, LogType, StageInv
<1>2. QED BY <1>1 DEF WellFormed, Prepared

\* The access objects stay as long as an active VMFR claims them.
LEMMA ActiveStep ==
  ASSUME TypeOK, StageInv, CurrentInv, [Next]_vars, ~lags, TypeOK', StageInv'
  PROVE  ActiveKeepsAccess'
<1> SUFFICES ASSUME NEW v \in VMFRs, server'[v].life = "active",
                    server'[v].progress \in Prepared
             PROVE  HasAccess'
  BY DEF ActiveKeepsAccess, Prepared
<1>1. Effect(v)
  BY StepEffect
<1>2. server'[v].recorded
  <2>1. Len(log') \in Versions' /\ server'[v] = log'[Len(log')][v]
    BY DEF TypeOK, Versions, server
  <2>2. WellFormed(server'[v])
    BY <2>1 DEF StageInv, LogInv
  <2>3. QED BY <2>2 DEF WellFormed, Prepared
<1>3. server[v].life = "active"
  BY <1>1, <1>2 DEF Effect
<1>4. server[v].progress \in Prepared \/ pc = "ready"
  BY <1>1 DEF Effect, CurrentInv, SteadyInv, Prepared
<1>5. HasAccess
  BY <1>3, <1>4 DEF CurrentInv, SteadyInv, ActiveKeepsAccess, Prepared
<1>6. ASSUME deleteFileServerAccess PROVE FALSE
  <2>1. pc \in {"delete rolebinding", "delete serviceaccount"}
    BY <1>6 DEF deleteFileServerAccess
  <2>2. ~server[v].recorded
    BY <1>3, <2>1 DEF CurrentInv, SteadyInv
  <2>3. server[v].progress \in Prepared
    BY <1>4, <2>1
  <2>4. QED BY <2>2, <2>3, PreparedIsRecorded
<1>7. QED BY <1>5, <1>6, HasAccessStays

\* Listing finds every active VMFR that recorded the namespace: since the reconcile
\* started, the others were created and deleted but not recorded.
LEMMA ListIsCurrent ==
  ASSUME TypeOK, StageInv, CurrentInv, ~lags, pc = "list", ~InUse(cache, current),
         NEW w \in VMFRs, server[w].life = "active"
  PROVE  ~server[w].recorded
<1> SUFFICES ASSUME server[w].recorded PROVE FALSE
  OBVIOUS
<1>0. LogType /\ LogInv /\ current \in VMFRs
  BY DEF TypeOK, LogType, StageInv
<1>1. Len(log) \in Versions /\ 1 \in Versions /\ cache = log[1] /\ server = log[Len(log)]
  BY <1>0, LogFacts DEF server
<1>2. w # current
  <2>1. Stage(server[current]) >= 4
    BY <1>1 DEF StageInv, WorkerInv, Cleaning
  <2>2. Stage(server[w]) <= 2
    BY DEF Stage
  <2>3. QED BY <2>1, <2>2, StageType
<1>3. cache[w].recorded = server[w].recorded
  BY <1>1, <1>2 DEF CurrentInv, SteadyInv
<1>4. cache[w].recorded
  BY <1>3
<1>5. /\ cache[w] \in VMFR /\ WellFormed(cache[w]) /\ Follows(cache[w], server[w])
  BY <1>0, <1>1, ServerFollows
<1>6. Stage(cache[w]) >= 2
  BY <1>4, <1>5 DEF WellFormed
<1>7. Stage(cache[w]) <= Stage(server[w])
  BY <1>5 DEF Follows
<1>8. Stage(server[w]) <= 2
  BY DEF Stage
<1>9. Stage(cache[w]) = 2
  BY <1>6, <1>7, <1>8, StageType
<1>10. cache[w].life = "active"
  BY <1>9 DEF Stage
<1>11. QED BY <1>2, <1>4, <1>10 DEF InUse

\* Initially no reconcile runs and no VMFR exists.
LEMMA CurrentInit == Init => CurrentInv
<1> SUFFICES ASSUME Init PROVE CurrentInv
  OBVIOUS
<1>1. \A v \in VMFRs : server[v] = Uncreated
  BY DEF Init, server
<1>2. Uncreated.life # "active"
  BY DEF Uncreated
<1>3. ActiveKeepsAccess
  BY <1>1, <1>2 DEF ActiveKeepsAccess
<1>4. QED BY <1>3 DEF Init, CurrentInv, SteadyInv

\* Every step keeps what the reconcile relies on.
LEMMA SteadyStep ==
  ASSUME TypeOK, StageInv, CurrentInv, [Next]_vars
  PROVE  SteadyInv'
<1>0. LogType /\ LogInv /\ current \in VMFRs /\ lags' = lags
  BY LagsFixed DEF TypeOK, LogType, StageInv
<1>1. ASSUME pc' = "idle" PROVE SteadyInv'
  BY <1>1 DEF SteadyInv
\* The reconcile moves and leaves the VMFRs alone.
<1>2. ASSUME log' = log, current' = current, pc # "idle",
             pc' = "rolebinding" => access'["serviceaccount"] # "absent",
             pc' = "ready" => HasAccess',
             pc' = "delete rolebinding" => pc = "list" /\ ~InUse(cache, current),
             pc' = "delete serviceaccount" => pc = "delete rolebinding",
             pc' # "pod", pc' = "publish" => pc = "pod"
      PROVE  SteadyInv'
  <2>1. server' = server /\ Versions' = Versions
    BY <1>2 DEF server, Versions
  <2>2. ASSUME ~lags, pc' \in {"delete rolebinding", "delete serviceaccount"},
               NEW w \in VMFRs, server[w].life = "active"
        PROVE  ~server[w].recorded
    <3>1. CASE pc' = "delete rolebinding"
      BY <1>2, <2>2, <3>1, ListIsCurrent
    <3>2. CASE pc' = "delete serviceaccount"
      BY <1>2, <2>2, <3>2 DEF CurrentInv, SteadyInv
    <3>3. QED BY <2>2, <3>1, <3>2
  <2>3. QED BY <1>0, <1>2, <2>1, <2>2 DEF CurrentInv, SteadyInv
\* Another actor moves and leaves the reconcile alone.
<1>3. ASSUME UNCHANGED <<access, openshift, worker>>,
             \A w \in VMFRs : server'[w].progress = server[w].progress,
             \A w \in VMFRs : \A i \in Versions' :
               \/ \E j \in Versions : log'[i][w] = log[j][w]
               \/ log'[i][w] = server'[w],
             \A w \in VMFRs : server'[w].recorded = server[w].recorded
      PROVE  SteadyInv'
  <2>1. pc' = pc /\ current' = current
    BY <1>3 DEF worker
  <2>2. HasAccess' = HasAccess
    BY <1>3 DEF HasAccess
  <2>3. ASSUME ~lags, pc # "idle", NEW w \in VMFRs \ {current}, NEW i \in Versions'
        PROVE  log'[i][w].recorded = server'[w].recorded
    <3>1. \A j \in Versions : log[j][w].recorded = server[w].recorded
      BY <2>3 DEF CurrentInv, SteadyInv
    <3>2. QED BY <1>3, <3>1
  <2>4. ASSUME ~lags, pc \in {"delete rolebinding", "delete serviceaccount"},
               NEW w \in VMFRs, server'[w].life = "active"
        PROVE  ~server'[w].recorded
    <3>1. Effect(w)
      BY StepEffect
    <3>2. SUFFICES ASSUME server'[w].recorded PROVE FALSE
      OBVIOUS
    <3>3. server[w].life = "active" /\ server[w].recorded
      BY <2>4, <3>1, <3>2 DEF Effect
    <3>4. QED BY <2>4, <3>3 DEF CurrentInv, SteadyInv
  <2>5. QED BY <1>0, <1>3, <2>1, <2>2, <2>3, <2>4 DEF CurrentInv, SteadyInv
<1>4. ASSUME NEW v \in VMFRs, Reconcile(v) PROVE SteadyInv'
  <2>1. CASE SelectedStep(cache[v]) = "idle" /\ UNCHANGED worker
    BY <1>1, <1>4, <2>1 DEF Reconcile, worker
  <2>2. CASE SelectedStep(cache[v]) # "idle" /\ pc' = SelectedStep(cache[v]) /\ current' = v
    <3>1. log' = log /\ server' = server /\ Versions' = Versions
      BY <1>4 DEF Reconcile, server, Versions
    <3>2. cache[v] \in VMFR /\ WellFormed(cache[v])
      BY <1>0, LogFacts, ServerFollows
    <3>3. /\ pc' \in {"finalizer", "validate", "namespace", "pod", "delete restores", "cleanup"}
          /\ pc' = "pod" => cache[v].progress = "namespace ready"
      BY <2>2, <3>2, SelectedStage
    <3>4. ~lags => Len(log) = 1
      BY <1>4 DEF Reconcile
    <3>5. ASSUME ~lags PROVE cache = server /\ \A i \in Versions : log[i] = server
      <4>1. Len(log) = 1
        BY <3>4, <3>5
      <4>2. QED BY <1>0, <4>1, LogFacts DEF server, Versions
    <3>6. QED BY <1>0, <2>2, <3>1, <3>3, <3>5 DEF SteadyInv
  <2>3. QED BY <1>4, <2>1, <2>2 DEF Reconcile
<1>5. CASE ensureRestoreNamespace
  <2>1. pc = "namespace" /\ pc' = "serviceaccount" /\ current' = current
    BY <1>5 DEF ensureRestoreNamespace, PatchThen
  <2>2. [mem EXCEPT !.recorded = TRUE] \in VMFR
    BY EditType DEF TypeOK
  <2>3. /\ \A w \in VMFRs \ {current} : server'[w] = server[w]
        /\ \A i \in Versions' : \/ i \in Versions /\ log'[i] = log[i]
                                \/ log'[i] = server'
    <3>1. \E o \in VMFR : Write(current, o)
      BY <1>5, <2>2, PatchLog DEF ensureRestoreNamespace, PatchThen
    <3>2. QED BY <1>0, <1>5, <3>1, RecordEffect, WriteLog
  <2>4. ASSUME ~lags, NEW w \in VMFRs \ {current}, NEW i \in Versions'
        PROVE  log'[i][w].recorded = server'[w].recorded
    <3>1. \A j \in Versions : log[j][w].recorded = server[w].recorded
      BY <2>1, <2>4 DEF CurrentInv, SteadyInv
    <3>2. QED BY <2>3, <3>1
  <2>5. QED BY <1>0, <2>1, <2>4 DEF SteadyInv
<1>6. CASE ensureFileServerAccess
  <2>0. access \in [AccessObjects -> {"absent", "managed", "foreign"}]
    BY DEF TypeOK
  <2>1. CASE pc = "serviceaccount" /\ EnsureObject("serviceaccount", TRUE, "rolebinding")
    <3>1. log' = log /\ current' = current /\ pc' \in {"rolebinding", "fail"}
      BY <2>1 DEF EnsureObject, Goto
    <3>2. pc' = "rolebinding" => access'["serviceaccount"] # "absent"
      BY <2>0, <2>1 DEF EnsureObject, Goto, AccessObjects, cluster
    <3>3. QED BY <1>2, <2>1, <3>1, <3>2
  <2>2. CASE pc = "rolebinding" /\ EnsureObject("rolebinding", openshift, "ready")
    <3>1. log' = log /\ current' = current /\ pc' \in {"ready", "fail"}
      BY <2>2 DEF EnsureObject, Goto
    <3>2. access["serviceaccount"] # "absent"
      BY <2>2 DEF CurrentInv, SteadyInv
    <3>3. pc' = "ready" => HasAccess'
      BY <2>0, <2>2, <3>2 DEF EnsureObject, Goto, AccessObjects, cluster, HasAccess
    <3>4. QED BY <1>2, <2>2, <3>1, <3>3
  <2>3. QED BY <1>6, <2>1, <2>2 DEF ensureFileServerAccess
<1>7. CASE createFileServerResources
  BY <1>2, <1>7 DEF createFileServerResources, Goto
<1>8. CASE handleResourceCleanup \/ deleteFileServerPods
  BY <1>2, <1>8 DEF handleResourceCleanup, deleteFileServerPods, Goto
<1>9. CASE ListOthers
  BY <1>2, <1>9 DEF ListOthers, Goto
<1>10. CASE deleteFileServerAccess
  BY <1>2, <1>10 DEF deleteFileServerAccess, DeleteObject, Goto
<1>11. CASE PatchRefused \/ Crash
  BY <1>1, <1>11 DEF PatchRefused, EndReconcile, Crash
<1>12. CASE ApiError
  <2>1. CASE pc' = "idle"
    BY <1>1, <2>1
  <2>2. CASE pc \in FailsValidation /\ pc' = "fail" /\ UNCHANGED <<queue, current, mem>>
    BY <1>2, <1>12, <2>2 DEF ApiError, FailsValidation
  <2>3. QED BY <1>12, <2>1, <2>2 DEF ApiError
<1>13. CASE \/ ensureFinalizer \/ failValidation \/ NamespaceReady \/ Publish
            \/ handleVeleroRestoreCleanup \/ DropFinalizer \/ Validate
  BY <1>1, <1>13 DEF ensureFinalizer, failValidation, NamespaceReady, Publish, Validate,
     handleVeleroRestoreCleanup, DropFinalizer, PatchEnd, EndReconcile
<1>14. ASSUME NEW v \in VMFRs, UserCreates(v) \/ UserDeletes(v) PROVE SteadyInv'
  <2>1. /\ server'[v].recorded = server[v].recorded
        /\ server'[v].progress = server[v].progress
        /\ \A w \in VMFRs \ {v} : server'[w] = server[w]
    BY <1>14, UserEffect
  <2>2. /\ \A w \in VMFRs : server'[w].recorded = server[w].recorded
        /\ \A w \in VMFRs : server'[w].progress = server[w].progress
    BY <2>1
  <2>3. \E o \in VMFR : Write(v, o)
    <3>1. server[v] \in VMFR
      BY <1>0, ServerFollows
    <3>2. /\ [server[v] EXCEPT !.life = "active"] \in VMFR
          /\ Stored([server[v] EXCEPT !.life = "deleting"]) \in VMFR
      BY <3>1 DEF VMFR, Lives, Stored
    <3>3. QED BY <1>14, <3>2 DEF UserCreates, UserDeletes
  <2>4. \A i \in Versions' : (i \in Versions /\ log'[i] = log[i]) \/ log'[i] = server'
    BY <1>0, <2>3, WriteLog
  <2>5. UNCHANGED <<access, openshift, worker>>
    BY <1>14 DEF UserCreates, UserDeletes, cluster
  <2>6. QED BY <1>3, <2>2, <2>4, <2>5
<1>15. CASE InformerDelivers
  <2>1. /\ server' = server
        /\ \A i \in Versions' : i + 1 \in Versions /\ log'[i] = log[i + 1]
    BY <1>0, <1>15, DeliverLog DEF InformerDelivers
  <2>2. UNCHANGED <<access, openshift, worker>>
    BY <1>15 DEF InformerDelivers, cluster
  <2>3. QED BY <1>3, <2>1, <2>2
<1>16. CASE UNCHANGED vars
  <2>1. UNCHANGED <<access, openshift, worker, log>>
    BY <1>16 DEF vars, cluster
  <2>2. server' = server /\ Versions' = Versions
    BY <2>1 DEF server, Versions
  <2>3. QED BY <1>3, <2>1, <2>2
<1>17. QED
  BY <1>4, <1>5, <1>6, <1>7, <1>8, <1>9, <1>10, <1>11, <1>12, <1>13, <1>14, <1>15, <1>16
  DEF Next, Controller, Environment, Workflow, Deletion

\* deleteFileServerAccess never takes the service account or the SCC binding away
\* from an active VMFR whose namespace step is done, when reconciles start from a
\* cache that caught up: for any number of VMFRs, whatever is created, deleted and
\* delivered between the listing of the others and the two deletions, and whatever
\* fails.
THEOREM AccessIsKept == Spec => []CurrentListKeepsAccess
<1>1. Init => TypeOK /\ StageInv /\ CurrentInv
  BY TypeInit, StageInit, CurrentInit
<1>2. TypeOK /\ StageInv /\ CurrentInv /\ [Next]_vars => (TypeOK /\ StageInv /\ CurrentInv)'
  <2> SUFFICES ASSUME TypeOK, StageInv, CurrentInv, [Next]_vars
               PROVE  TypeOK' /\ StageInv' /\ CurrentInv'
    OBVIOUS
  <2>1. TypeOK' /\ StageInv'
    BY TypeStep, StageStep
  <2>2. SteadyInv' /\ lags' = lags
    BY SteadyStep, LagsFixed
  <2>3. ~lags => ActiveKeepsAccess'
    BY <2>1, ActiveStep
  <2>4. CurrentInv'
    BY <2>2, <2>3 DEF CurrentInv, SteadyInv
  <2>5. QED BY <2>1, <2>4
<1>3. CurrentInv => CurrentListKeepsAccess
  BY DEF CurrentInv, SteadyInv, CurrentListKeepsAccess
<1>4. QED BY <1>1, <1>2, <1>3, PTL DEF Spec
=============================================================================

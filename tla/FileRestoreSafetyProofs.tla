----------------------- MODULE FileRestoreSafetyProofs -----------------------
(***************************************************************************)
(* Safety of FileRestore and its refinement of RestoreLifecycle, for every *)
(* set of backups, every spec, mishap and bound; then that a healthy file  *)
(* restore does not fail, and that a deleted one leaves nothing behind     *)
(* when nothing crashes or fails.  The caches must have caught up when a   *)
(* reconcile starts (StaleReads = FALSE), except for SettledStays:         *)
(* otherwise they are false, as RestoreLaggingList shows for               *)
(* CompletedServesAll.                                                     *)
(***************************************************************************)
EXTENDS FileRestoreSteps

\* Inv holds throughout.
LEMMA InvHolds ==
  ASSUME StaleReads = FALSE
  PROVE  Spec => []Inv
<1>1. Init => Inv
  BY TypeInit, InitCore DEF Inv, Core
<1>2. Inv /\ [Next]_vars => Inv'
  BY StepCore
<1> QED
  BY <1>1, <1>2, PTL DEF Spec

-----------------------------------------------------------------------------
(***************************************************************************)
(* What a step may change: who writes which part of the status, how a      *)
(* reconcile starts, and what becomes of the Velero Restores.              *)
(***************************************************************************)
\* What a merge patch leaves on the API server, and field by field.
LEMMA PatchStores ==
  ASSUME LogPart, NEW new, Patch(new)
  PROVE  server' = Stored(Merge(mem, new, server))
<1>1. PICK o : o = Stored(Merge(mem, new, server))
  OBVIOUS
<1>2. Replace(o)
  BY <1>1 DEF Patch
<1>3. CASE o = server /\ UNCHANGED log
  BY <1>1, <1>3 DEF server
<1>4. CASE log' = Append(log, o)
  <2>1. log \in Seq(Resource \cup {o})
    BY DEF LogPart
  <2>2. Len(log') = Len(log) + 1 /\ log'[Len(log) + 1] = o
    BY <1>4, <2>1
  <2> QED
    BY <1>1, <2>2 DEF server
<1> QED
  BY <1>2, <1>3, <1>4 DEF Replace

LEMMA PatchFields ==
  ASSUME LogPart, NEW new, Patch(new)
  PROVE  /\ server'.phase \in {new.phase, server.phase}
         /\ new.phase = mem.phase => server'.phase = server.phase
         /\ new.cond = mem.cond => server'.cond = server.cond
         /\ new.entries = mem.entries => server'.entries = server.entries
         /\ new.createdNamespace = mem.createdNamespace =>
              server'.createdNamespace = server.createdNamespace
         /\ server'.deleting = server.deleting
<1>1. PICK m : m = Merge(mem, new, server)
  OBVIOUS
<1>2. /\ m.phase = IF new.phase # mem.phase THEN new.phase ELSE server.phase
      /\ m.cond = IF new.cond # mem.cond THEN new.cond ELSE server.cond
      /\ m.entries = IF new.entries # mem.entries THEN new.entries ELSE server.entries
      /\ m.createdNamespace = IF new.createdNamespace # mem.createdNamespace
                                THEN new.createdNamespace ELSE server.createdNamespace
      /\ m.deleting = server.deleting
  BY <1>1 DEF Merge
<1>3. /\ Stored(m).phase = m.phase /\ Stored(m).cond = m.cond /\ Stored(m).entries = m.entries
      /\ Stored(m).createdNamespace = m.createdNamespace /\ Stored(m).deleting = m.deleting
  BY <1>1 DEF Stored, Merge
<1>4. server' = Stored(m)
  BY <1>1, PatchStores
<1> QED
  BY <1>2, <1>3, <1>4

\* The step leaves the status as it is, but for the file server's address.
SameStatus ==
  /\ server'.phase = server.phase /\ server'.cond = server.cond
  /\ server'.entries = server.entries /\ server'.createdNamespace = server.createdNamespace

\* The steps that may write the status.
LEMMA StatusWriters ==
  ASSUME Inv, TypeInv', [Next]_vars
  PROVE  \/ SameStatus \/ Validation \/ RecordNamespace \/ NamespaceReady \/ RecordRestoreNames
         \/ WaitForRestores \/ UpdatePhases \/ JudgeRestores \/ CredentialsReady
         \/ PublishFileServer \/ WaitingForRoute
<1>1. LogPart /\ mem \in Resource
  BY DEF Inv, TypeInv, MemPart
<1>2. ASSUME log' = log PROVE SameStatus
  BY <1>2 DEF server, SameStatus
<1>3. ASSUME NEW F, Patch([mem EXCEPT !.finalizers = F]) PROVE SameStatus
  <2>1. PICK new : new = [mem EXCEPT !.finalizers = F]
    OBVIOUS
  <2>2. /\ Patch(new) /\ new.phase = mem.phase /\ new.cond = mem.cond
        /\ new.entries = mem.entries /\ new.createdNamespace = mem.createdNamespace
    BY <1>1, <1>3, <2>1 DEF Resource
  <2> QED
    BY <1>1, <2>2, PatchFields DEF SameStatus
<1>4. CASE Workflow /\ ~RecordNamespace /\ ~RecordRestoreNames /\ ~UpdatePhases /\ ~NamespaceReady
           /\ ~WaitForRestores /\ ~JudgeRestores /\ ~CredentialsReady /\ ~PublishFileServer
           /\ ~WaitingForRoute
  BY <1>2, <1>4 DEF Workflow, ensureRestoreNamespace, ensureFileServerAccess, CreateObject,
     PrepareRestores, createVeleroRestores, monitorVeleroRestores, fixDataDownloadPVCNames,
     cleanupAllCredentialSecrets, ensureCredentials, PrepareFileServer, CreatePod, CreateService,
     createRoutesIfRequested, Goto, Return
<1>5. CASE Deletion
  <2>1. CASE DropRestoreFinalizer \/ DropFinalizer
    BY <1>3, <2>1 DEF DropRestoreFinalizer, DropFinalizer, PatchEnd
  <2>2. CASE ~DropRestoreFinalizer /\ ~DropFinalizer
    BY <1>2, <1>5, <2>2 DEF Deletion, handleVeleroRestoreCleanup, handleResourceCleanup,
       deleteFileServerPods, deleteFileServerServices, deleteFileServerRoutes, deleteRestoredPVCs,
       deleteControllerSecrets, deleteFileServerAccess, DeleteObjects, Goto
  <2> QED
    BY <2>1, <2>2
<1>6. CASE UserDeletes
  <2>1. PICK o : o = [server EXCEPT !.deleting = TRUE]
    OBVIOUS
  <2>2. log' = Append(log, Stored(o)) /\ log \in Seq(Resource)
    BY <1>1, <1>6, <2>1 DEF UserDeletes, LogPart
  <2>3. server' = Stored(o)
    BY <2>2 DEF server
  <2>4. /\ o \in Resource /\ o.phase = server.phase /\ o.cond = server.cond
        /\ o.entries = server.entries /\ o.createdNamespace = server.createdNamespace
    BY <2>1, ServerFields DEF Inv, Resource
  <2> QED
    BY <2>3, <2>4, StoredType DEF SameStatus
<1>7. CASE InformerDelivers
  <2>1. Len(log) > 1 /\ log' = Tail(log) /\ log \in Seq(Resource)
    BY <1>1, <1>7 DEF InformerDelivers, LogPart
  <2>2. Tail(log)[Len(Tail(log))] = log[Len(log)]
    BY <2>1
  <2> QED
    BY <2>1, <2>2 DEF server, SameStatus
<1>8. CASE Crash
  <2>1. log' = <<server>>
    BY <1>8 DEF Crash
  <2>2. server' = log'[Len(log')]
    BY DEF server
  <2> QED
    BY <2>1, <2>2 DEF SameStatus
<1>9. CASE Environment /\ ~UserDeletes /\ ~InformerDelivers /\ ~Crash
  BY <1>2, <1>9 DEF Environment, ApiError, VeleroAdvances, ClaimAppears, ClaimLost, SetRestore,
     DiscoveryAdvances, DiscoveryDeleted, RouteAdmitted, RestoresDelivered
<1>10. CASE Reconcile \/ NotFound \/ UNCHANGED vars
  BY <1>2, <1>10 DEF Reconcile, NotFound, Return, vars
<1> QED
  BY <1>4, <1>5, <1>6, <1>7, <1>8, <1>9, <1>10 DEF Next, Controller

\* Who writes the phase and the conditions, the entries, the name of the namespace.
LEMMA WriterFields ==
  ASSUME Inv, TypeInv', [Next]_vars
  PROVE  /\ \/ server'.phase = server.phase /\ server'.cond = server.cond
            \/ Validation \/ NamespaceReady \/ WaitForRestores \/ JudgeRestores
            \/ CredentialsReady \/ PublishFileServer \/ WaitingForRoute
         /\ \/ server'.entries = server.entries
            \/ processDiscoveryResults \/ RecordRestoreNames \/ UpdatePhases
         /\ server'.createdNamespace = server.createdNamespace \/ RecordNamespace
<1> DEFINE Writes(a, b, c) ==
      /\ a \/ (server'.phase = server.phase /\ server'.cond = server.cond)
      /\ b \/ server'.entries = server.entries
      /\ c \/ server'.createdNamespace = server.createdNamespace
<1>1. LogPart /\ mem \in Resource
  BY DEF Inv, TypeInv, MemPart
<1>2. ASSUME NEW e, Patch([mem EXCEPT !.entries = e]) PROVE Writes(FALSE, TRUE, FALSE)
  <2>1. PICK new : new = [mem EXCEPT !.entries = e]
    OBVIOUS
  <2>2. /\ Patch(new) /\ new.phase = mem.phase /\ new.cond = mem.cond
        /\ new.createdNamespace = mem.createdNamespace
    BY <1>1, <1>2, <2>1 DEF Resource
  <2> QED
    BY <1>1, <2>2, PatchFields
<1>3. ASSUME NEW p, NEW c, Patch(StatusPhaseConditions(p, c)) PROVE Writes(TRUE, FALSE, FALSE)
  <2>1. PICK new : new = StatusPhaseConditions(p, c)
    OBVIOUS
  <2>2. Patch(new) /\ new.entries = mem.entries /\ new.createdNamespace = mem.createdNamespace
    BY <1>1, <1>3, <2>1 DEF StatusPhaseConditions, Resource
  <2> QED
    BY <1>1, <2>2, PatchFields
<1>4. ASSUME NEW p, NEW c, NEW i, Patch([mem EXCEPT !.phase = p, !.info = i, !.cond = c])
      PROVE  Writes(TRUE, FALSE, FALSE)
  <2>1. PICK new : new = [mem EXCEPT !.phase = p, !.info = i, !.cond = c]
    OBVIOUS
  <2>2. Patch(new) /\ new.entries = mem.entries /\ new.createdNamespace = mem.createdNamespace
    BY <1>1, <1>4, <2>1 DEF Resource
  <2> QED
    BY <1>1, <2>2, PatchFields
<1>5. ASSUME log' = log PROVE Writes(FALSE, FALSE, FALSE)
  BY <1>5 DEF server
<1>6. CASE RecordNamespace
  <2>1. PICK new : new = [mem EXCEPT !.createdNamespace = TRUE]
    OBVIOUS
  <2>2. /\ Patch(new) /\ new.phase = mem.phase /\ new.cond = mem.cond
        /\ new.entries = mem.entries
    BY <1>1, <1>6, <2>1 DEF RecordNamespace, PatchThen, Resource
  <2> QED
    BY <1>1, <1>6, <2>2, PatchFields
<1>7. CASE RecordRestoreNames \/ processDiscoveryResults
  <2>1. \E e : Patch([mem EXCEPT !.entries = e])
    BY <1>7 DEF RecordRestoreNames, processDiscoveryResults, PatchThen
  <2> QED
    BY <1>2, <1>7, <2>1
<1>8. CASE UpdatePhases
  <2>1. CASE log' = log
    BY <1>5, <2>1
  <2>2. CASE Replace(mem)
    <3>1. pc = "update" /\ UNCHANGED restores
      BY <1>8 DEF UpdatePhases, Return, world
    <3>2. server' = mem
      BY <1>1, <2>2, <3>1, ReplaceType DEF Inv, TypeInv, MemPart
    <3>3. /\ mem.phase = server.phase /\ mem.cond = server.cond
          /\ mem.createdNamespace = server.createdNamespace
      BY <3>1 DEF Inv, At, SyncAt
    <3> QED
      BY <1>8, <3>2, <3>3
  <2> QED
    BY <1>8, <2>1, <2>2 DEF UpdatePhases, Return
<1>9. CASE validateReferencedDiscovery
  <2>1. CASE log' = log
    BY <1>5, <2>1
  <2>2. CASE PatchEnd(InProgress("WaitingForDiscovery"), TRUE)
    BY <1>3, <1>9, <2>2 DEF PatchEnd, InProgress, Validation
  <2>3. CASE Patch(Discovering)
    <3>1. /\ Discovering.entries = mem.entries
          /\ Discovering.createdNamespace = mem.createdNamespace
      BY DiscoveringFields DEF Inv, TypeInv
    <3> QED
      BY <1>1, <1>9, <2>3, <3>1, PatchFields DEF Validation
  <2> QED
    BY <1>9, <2>1, <2>2, <2>3 DEF validateReferencedDiscovery, Goto, Discovering
<1>10. CASE ensureFinalizer
  <2>1. CASE log' = log
    BY <1>5, <2>1
  <2>2. CASE PatchEnd([mem EXCEPT !.finalizers = Finalizers], TRUE)
    <3>1. PICK new : new = [mem EXCEPT !.finalizers = Finalizers]
      OBVIOUS
    <3>2. Patch(new) /\ new.entries = mem.entries /\ new.createdNamespace = mem.createdNamespace
      BY <1>1, <2>2, <3>1 DEF PatchEnd, Resource
    <3> QED
      BY <1>1, <1>10, <3>2, PatchFields DEF Validation
  <2> QED
    BY <1>10, <2>1, <2>2 DEF ensureFinalizer, Return
<1>11. CASE \/ initializePhaseForFileRestore \/ failValidation \/ StartValidation \/ ClassifyPVCs
            \/ NamespaceReady \/ WaitForRestores \/ JudgeRestores \/ CredentialsReady
  <2>1. CASE log' = log
    BY <1>5, <2>1
  <2>2. CASE \E p, c : Patch(StatusPhaseConditions(p, c))
    BY <1>3, <1>11, <2>2 DEF Validation
  <2> QED
    BY <1>11, <2>1, <2>2 DEF initializePhaseForFileRestore, failValidation, StartValidation,
       ClassifyPVCs, NamespaceReady, WaitForRestores, JudgeRestores, CredentialsReady, InProgress,
       PatchEnd, PatchThen, Goto, Return
<1>12. CASE PublishFileServer \/ WaitingForRoute
  <2>1. CASE log' = log
    BY <1>5, <2>1
  <2>2. CASE \E p, c, i : Patch([mem EXCEPT !.phase = p, !.info = i, !.cond = c])
    BY <1>4, <1>12, <2>2
  <2> QED
    BY <1>12, <2>1, <2>2 DEF PublishFileServer, WaitingForRoute, PatchEnd, Return
<1>13. CASE SameStatus
  BY <1>13 DEF SameStatus
<1> QED
  BY <1>6, <1>7, <1>8, <1>9, <1>10, <1>11, <1>12, <1>13, StatusWriters DEF Validation

\* The API server's version changes by a patch, by the update of the phases or
\* when the user deletes the VMFR.
LEMMA ServerWriters ==
  ASSUME LogPart, [Next]_vars
  PROVE  server' = server \/ (\E new : Patch(new)) \/ UpdatePhases \/ UserDeletes
<1>1. ASSUME log' = log PROVE server' = server
  BY <1>1 DEF server
<1>2. CASE Validation
  BY <1>1, <1>2 DEF Validation, ensureFinalizer, initializePhaseForFileRestore, failValidation,
     StartValidation, validateReferencedDiscovery, processDiscoveryResults, ClassifyPVCs, PatchEnd,
     PatchThen, Goto, Return
<1>3. CASE Workflow
  BY <1>1, <1>3 DEF Workflow, ensureRestoreNamespace, RecordNamespace, ensureFileServerAccess,
     CreateObject, NamespaceReady, PrepareRestores, createVeleroRestores, RecordRestoreNames,
     WaitForRestores, monitorVeleroRestores, fixDataDownloadPVCNames, JudgeRestores,
     cleanupAllCredentialSecrets, ensureCredentials, CredentialsReady, PrepareFileServer, CreatePod,
     CreateService, createRoutesIfRequested, PublishFileServer, WaitingForRoute, PatchEnd,
     PatchThen, Goto, Return
<1>4. CASE Deletion
  BY <1>1, <1>4 DEF Deletion, handleVeleroRestoreCleanup, DropRestoreFinalizer, DropFinalizer,
     handleResourceCleanup, deleteFileServerPods, deleteFileServerServices, deleteFileServerRoutes,
     deleteRestoredPVCs, deleteControllerSecrets, deleteFileServerAccess, DeleteObjects, PatchEnd,
     Goto
<1>5. CASE InformerDelivers
  <2>1. Len(log) > 1 /\ log' = Tail(log) /\ log \in Seq(Resource)
    BY <1>5 DEF InformerDelivers, LogPart
  <2>2. Tail(log)[Len(Tail(log))] = log[Len(log)]
    BY <2>1
  <2> QED
    BY <2>1, <2>2 DEF server
<1>6. CASE Crash
  <2>1. log' = <<server>>
    BY <1>6 DEF Crash
  <2>2. server' = log'[Len(log')]
    BY DEF server
  <2> QED
    BY <2>1, <2>2
<1>7. CASE Environment /\ ~InformerDelivers /\ ~Crash
  BY <1>1, <1>7 DEF Environment, ApiError, VeleroAdvances, ClaimAppears, ClaimLost, SetRestore,
     DiscoveryAdvances, DiscoveryDeleted, RouteAdmitted, RestoresDelivered
<1>8. CASE Reconcile \/ NotFound \/ UNCHANGED vars
  BY <1>1, <1>8 DEF Reconcile, NotFound, Return, vars
<1> QED
  BY <1>2, <1>3, <1>4, <1>5, <1>6, <1>7, <1>8 DEF Next, Controller

\* A deletion is not taken back.
LEMMA DeletionStays ==
  ASSUME Inv, TypeInv', [Next]_vars, server.deleting
  PROVE  server'.deleting
<1>1. LogPart
  BY DEF Inv, TypeInv
<1>2. CASE \E new : Patch(new)
  BY <1>1, <1>2, PatchFields
<1>3. CASE UpdatePhases
  <2>1. CASE log' = log
    BY <2>1 DEF server
  <2>2. CASE fresh /\ Replace(mem)
    <3>1. pc = "update" /\ UNCHANGED restores
      BY <1>3 DEF UpdatePhases, Return, world
    <3>2. server' = mem
      BY <1>1, <2>2, <3>1, ReplaceType DEF Inv, TypeInv, MemPart
    <3> QED
      BY <2>2, <3>1, <3>2 DEF Inv, At, SyncAt
  <2> QED
    BY <1>3, <2>1, <2>2 DEF UpdatePhases, Return
<1>4. CASE UserDeletes
  BY <1>4 DEF UserDeletes
<1> QED
  BY <1>1, <1>2, <1>3, <1>4, ServerWriters

\* A place a reconcile begins at.
FirstPlaces ==
  {"finalizer", "initialize", "validate", "discovery", "namespace", "restores", "monitor",
   "credentials", "file server", "route check", "delete restores", "cleanup"}

\* Where a reconcile goes first; for a VMFR being deleted, never to serving it.
LEMMA ReconcileFirst ==
  ASSUME StaleReads = FALSE, Inv, Reconcile
  PROVE  /\ pc' \in FirstPlaces \cup {"idle"}
         /\ server.deleting => pc' \notin Serving
         /\ server' = server
<1>1. log \in Seq(Resource) /\ Len(log) = 1 /\ server \in Resource /\ log' = log
  BY ServerFields DEF Reconcile, Inv, TypeInv, LogPart
<1>2. cache = server
  BY <1>1 DEF cache, server
<1>3. pc' = "idle" \/ pc' = SelectedStep(server)
  BY <1>2 DEF Reconcile
<1>4. "idle" \notin Serving /\ "delete restores" \notin Serving /\ "cleanup" \notin Serving
  BY DEF Serving
<1>5. CleanupStep(server) \in {"delete restores", "cleanup", "idle"}
  BY DEF CleanupStep
<1>6. ASSUME NEW why \in WorkflowReasons
      PROVE  WorkflowStep(why) \in {"idle", "namespace", "restores", "monitor", "credentials",
                                    "file server", "route check"}
  BY WorkflowStepIs DEF WorkflowReasons
<1>7. SelectedStep(server) \in FirstPlaces \cup {"idle"}
  BY <1>1, <1>5, <1>6, SelectedStepIs DEF FirstPlaces
<1>8. server.deleting => SelectedStep(server) \notin Serving
  BY <1>1, <1>4, <1>5, SelectedStepIs
<1>9. server' = server
  BY <1>1 DEF server
<1> QED
  BY <1>3, <1>4, <1>7, <1>8, <1>9

\* Nothing is found uncleaned again once the clean-up has begun.
LEMMA UntouchedBack ==
  ASSUME StaleReads = FALSE, Inv, TypeInv', [Next]_vars, Untouched'
  PROVE  Untouched
<1>1. CASE ~server.deleting
  BY <1>1 DEF Untouched
<1>2. CASE server.deleting
  <2>1. pc' \in Serving
    BY <1>2, DeletionStays DEF Untouched
  <2>2. "idle" \notin Serving
    BY DEF Serving
  <2>3. CASE Reconcile
    BY <1>2, <2>1, <2>3, ReconcileFirst
  <2>4. CASE Validation \/ Workflow
    BY <2>4 DEF Untouched, AccessObjects, Serving, Validation, ensureFinalizer,
       initializePhaseForFileRestore,
       failValidation, StartValidation, validateReferencedDiscovery, processDiscoveryResults,
       ClassifyPVCs, Workflow, ensureRestoreNamespace, RecordNamespace, ensureFileServerAccess,
       CreateObject, NamespaceReady, PrepareRestores, createVeleroRestores, RecordRestoreNames,
       WaitForRestores, monitorVeleroRestores, UpdatePhases, fixDataDownloadPVCNames,
       JudgeRestores, cleanupAllCredentialSecrets, ensureCredentials, CredentialsReady,
       PrepareFileServer, CreatePod, CreateService, createRoutesIfRequested, PublishFileServer,
       WaitingForRoute
  <2>5. CASE Deletion
    <3>1. pc' \in RemovingRestores \cup RemovingObjects \cup {"idle"}
      BY <2>5 DEF Deletion, handleVeleroRestoreCleanup, DropRestoreFinalizer, DropFinalizer,
         handleResourceCleanup, deleteFileServerPods, deleteFileServerServices,
         deleteFileServerRoutes, deleteRestoredPVCs, deleteControllerSecrets,
         deleteFileServerAccess, DeleteObjects, PatchEnd, EndReconcile, Goto, worker,
         RemovingRestores, RemovingObjects
    <3> QED
      BY <2>1, <2>2, <3>1, RemovingPlaces
  <2>6. CASE ApiError
    <3>1. pc \in Serving \/ pc' = "idle" \/ pc' = "delete claims"
      BY <2>6 DEF ApiError, EndReconcile, FailsValidation, Serving
    <3> QED
      BY <2>1, <2>2, <3>1, RemovingPlaces DEF Untouched, RemovingObjects
  <2>7. CASE Crash \/ NotFound
    BY <2>1, <2>2, <2>7 DEF Crash, NotFound, Return, EndReconcile
  <2>8. CASE UNCHANGED vars \/ (Environment /\ ~ApiError /\ ~Crash)
    <3>1. pc' = pc
      BY <2>8 DEF vars, worker, Environment, VeleroAdvances, ClaimAppears, ClaimLost, SetRestore,
         DiscoveryAdvances, DiscoveryDeleted, RouteAdmitted, UserDeletes, InformerDelivers,
         RestoresDelivered
    <3> QED
      BY <2>1, <3>1 DEF Untouched
  <2> QED
    BY <2>3, <2>4, <2>5, <2>6, <2>7, <2>8 DEF Next, Controller
<1>3. server.deleting \in BOOLEAN
  BY ServerFields DEF Inv
<1> QED
  BY <1>1, <1>2, <1>3

(***************************************************************************)
(* What may become of a Velero Restore once it is created.                 *)
(***************************************************************************)
Becomes(r, s) ==
  /\ s.backup = r.backup
  /\ s.phase = r.phase \/ s.phase \in VeleroNext(r)
  /\ \/ s.claim = r.claim
     \/ s.claim = "Pending" /\ r.exists /\ namespace
     \/ s.claim = "Lost" /\ r.claim = "Pending" /\ "claim lost" \in Mishaps
     \/ s.claim = "none" /\ pc \in {"cleanup", "delete claims"}

RestoresBecome ==
  /\ Len(restores') = Len(restores)
  /\ \A i \in 1..Len(restores) : Becomes(restores[i], restores'[i])

LEMMA SameBecomes ==
  ASSUME NEW r
  PROVE  Becomes(r, r)
BY DEF Becomes

LEMMA OneBecomes ==
  ASSUME RestoresPart, NEW i \in 1..Len(restores), NEW r, restores' = [restores EXCEPT ![i] = r],
         Becomes(restores[i], r)
  PROVE  RestoresBecome
<1>1. /\ Len(restores') = Len(restores)
      /\ \A j \in 1..Len(restores) : restores'[j] = IF j = i THEN r ELSE restores[j]
  BY DEF RestoresPart
<1> QED
  BY <1>1, SameBecomes DEF RestoresBecome

LEMMA AllBecome ==
  ASSUME RestoresPart, RestoresPart', DOMAIN restores' = 1..Len(restores),
         \A i \in 1..Len(restores) : Becomes(restores[i], restores'[i])
  PROVE  RestoresBecome
<1>1. Len(restores) \in Nat /\ restores' \in Seq(VeleroRestore)
  BY DEF RestoresPart
<1>2. Len(restores') = Len(restores)
  BY <1>1
<1> QED
  BY <1>2 DEF RestoresBecome

\* Every step but createVeleroRestores keeps the Restores and moves each as it may.
LEMMA RestoreSteps ==
  ASSUME TypeInv, TypeInv', [Next]_vars, ~\E b \in Backups : createVeleroRestores(b)
  PROVE  RestoresBecome
<1>1. RestoresPart /\ RestoresPart'
  BY DEF TypeInv
<1>2. ASSUME restores' = restores PROVE RestoresBecome
  BY <1>2, SameBecomes DEF RestoresBecome
<1>3. ASSUME NEW i \in 1..Len(restores) PROVE restores[i] \in VeleroRestore
  BY RestoreTypes
<1>4. CASE Reconcile \/ NotFound \/ UNCHANGED vars \/ Validation
  BY <1>2, <1>4 DEF Reconcile, NotFound, Return, vars, world, Validation, ensureFinalizer,
     initializePhaseForFileRestore, failValidation, StartValidation, validateReferencedDiscovery,
     processDiscoveryResults, ClassifyPVCs, PatchEnd, PatchThen
<1>5. CASE fixDataDownloadPVCNames
  <2> DEFINE f(i) == IF i \in Labelled THEN Fixed(restores[i]) ELSE restores[i]
  <2>1. restores' = [i \in 1..Len(restores) |-> f(i)]
    BY <1>5 DEF fixDataDownloadPVCNames
  <2>2. ASSUME NEW i \in 1..Len(restores) PROVE Becomes(restores[i], restores'[i])
    <3>1. Becomes(restores[i], f(i))
      BY <1>3, FixedType DEF Becomes
    <3> QED
      BY <2>1, <3>1
  <2> HIDE DEF f
  <2> QED
    BY <1>1, <2>1, <2>2, AllBecome
<1>6. CASE Workflow /\ ~fixDataDownloadPVCNames
  BY <1>2, <1>6 DEF Workflow, ensureRestoreNamespace, RecordNamespace, ensureFileServerAccess,
     CreateObject, NamespaceReady, PrepareRestores, RecordRestoreNames, WaitForRestores,
     monitorVeleroRestores, UpdatePhases, JudgeRestores, cleanupAllCredentialSecrets,
     ensureCredentials, CredentialsReady, PrepareFileServer, CreatePod, CreateService,
     createRoutesIfRequested, PublishFileServer, WaitingForRoute, PatchEnd, PatchThen, Return, world
<1>7. CASE handleResourceCleanup
  <2>1. CASE restores' = restores
    BY <1>2, <2>1
  <2>2. CASE restores' = [i \in 1..Len(restores) |-> [restores[i] EXCEPT !.claim = "none"]]
    <3> DEFINE f(i) == [restores[i] EXCEPT !.claim = "none"]
    <3>1. restores' = [i \in 1..Len(restores) |-> f(i)]
      BY <2>2
    <3>2. ASSUME NEW i \in 1..Len(restores) PROVE Becomes(restores[i], restores'[i])
      <4>1. Becomes(restores[i], f(i))
        BY <1>3, <1>7 DEF Becomes, VeleroRestore, handleResourceCleanup
      <4> QED
        BY <3>1, <4>1
    <3> HIDE DEF f
    <3> QED
      BY <1>1, <3>1, <3>2, AllBecome
  <2> QED
    BY <1>7, <2>1, <2>2 DEF handleResourceCleanup, world
<1>8. CASE handleVeleroRestoreCleanup
  <2>1. CASE restores' = restores
    BY <1>2, <2>1
  <2>2. CASE \E i \in Labelled : restores' = [restores EXCEPT ![i].exists = FALSE]
    <3>1. PICK i \in 1..Len(restores) : restores' = [restores EXCEPT ![i].exists = FALSE]
      BY <1>1, <2>2, LabelledType
    <3>2. Becomes(restores[i], [restores[i] EXCEPT !.exists = FALSE])
      BY <1>3 DEF Becomes, VeleroRestore
    <3>3. restores' = [restores EXCEPT ![i] = [restores[i] EXCEPT !.exists = FALSE]]
      BY <3>1, RestoreFieldStep
    <3> QED
      BY <1>1, <3>2, <3>3, OneBecomes
  <2> QED
    BY <1>8, <2>1, <2>2 DEF handleVeleroRestoreCleanup, world
<1>9. CASE deleteRestoredPVCs
  <2>1. CASE restores' = restores
    BY <1>2, <2>1
  <2>2. CASE \E i \in Recorded(mem) : restores' = [restores EXCEPT ![i].claim = "none"]
    <3>1. PICK i \in 1..Len(restores) : restores' = [restores EXCEPT ![i].claim = "none"]
      BY <1>1, <2>2, RecordedType DEF TypeInv
    <3>2. Becomes(restores[i], [restores[i] EXCEPT !.claim = "none"])
      BY <1>3, <1>9 DEF Becomes, VeleroRestore, deleteRestoredPVCs
    <3>3. restores' = [restores EXCEPT ![i] = [restores[i] EXCEPT !.claim = "none"]]
      BY <3>1, RestoreFieldStep
    <3> QED
      BY <1>1, <3>2, <3>3, OneBecomes
  <2> QED
    BY <1>9, <2>1, <2>2 DEF deleteRestoredPVCs, world
<1>10. CASE \/ DropRestoreFinalizer \/ deleteFileServerPods \/ deleteFileServerServices
            \/ deleteFileServerRoutes \/ deleteControllerSecrets \/ deleteFileServerAccess
            \/ DropFinalizer
  BY <1>2, <1>10 DEF DropRestoreFinalizer, deleteFileServerPods, deleteFileServerServices,
     deleteFileServerRoutes, deleteControllerSecrets, deleteFileServerAccess, DropFinalizer,
     DeleteObjects, PatchEnd, world
<1>11. CASE \E i \in 1..MaxRestores : VeleroAdvances(i) \/ ClaimAppears(i) \/ ClaimLost(i)
  <2>1. \E i \in 1..Len(restores) : \E r :
          restores' = [restores EXCEPT ![i] = r] /\ Becomes(restores[i], r)
    <3>1. CASE \E i : VeleroAdvances(i)
      <4>1. PICK i \in 1..Len(restores) : \E p \in VeleroNext(restores[i]) :
              restores' = [restores EXCEPT ![i] = [restores[i] EXCEPT !.phase = p]]
        BY <3>1 DEF VeleroAdvances, SetRestore
      <4>2. ASSUME NEW p \in VeleroNext(restores[i])
            PROVE  Becomes(restores[i], [restores[i] EXCEPT !.phase = p])
        BY <1>3, <4>2 DEF Becomes, VeleroRestore
      <4> QED
        BY <4>1, <4>2
    <3>2. CASE \E i : ClaimAppears(i)
      <4>1. PICK i \in 1..Len(restores) :
              /\ restores[i].exists /\ namespace
              /\ \E d : restores' = [restores EXCEPT ![i] =
                                      [restores[i] EXCEPT !.claim = "Pending", !.download = d]]
        BY <3>2 DEF ClaimAppears, SetRestore
      <4>2. ASSUME NEW d
            PROVE  Becomes(restores[i], [restores[i] EXCEPT !.claim = "Pending", !.download = d])
        BY <1>3, <4>1 DEF Becomes, VeleroRestore
      <4> QED
        BY <4>1, <4>2
    <3>3. CASE \E i : ClaimLost(i)
      <4>1. PICK i \in 1..Len(restores) :
              /\ restores[i].claim = "Pending" /\ "claim lost" \in Mishaps
              /\ restores' = [restores EXCEPT ![i] = [restores[i] EXCEPT !.claim = "Lost"]]
        BY <3>3 DEF ClaimLost, SetRestore
      <4>2. Becomes(restores[i], [restores[i] EXCEPT !.claim = "Lost"])
        BY <1>3, <4>1 DEF Becomes, VeleroRestore
      <4> QED
        BY <4>1, <4>2
    <3> QED
      BY <1>11, <3>1, <3>2, <3>3
  <2> QED
    BY <1>1, <2>1, OneBecomes
<1>12. CASE \/ ApiError \/ Crash \/ DiscoveryAdvances \/ DiscoveryDeleted \/ RouteAdmitted
            \/ UserDeletes \/ InformerDelivers \/ RestoresDelivered
  BY <1>2, <1>12 DEF ApiError, Crash, DiscoveryAdvances, DiscoveryDeleted, RouteAdmitted,
     UserDeletes, InformerDelivers, RestoresDelivered, world
<1> QED
  BY <1>4, <1>5, <1>6, <1>7, <1>8, <1>9, <1>10, <1>11, <1>12 DEF Next, Controller, Deletion,
     Environment

\* The spec is the user's and never changes.
LEMMA SpecKept ==
  ASSUME [Next]_vars
  PROVE  spec' = spec
<1>1. CASE Reconcile \/ NotFound \/ UNCHANGED vars \/ Validation
  BY <1>1 DEF Reconcile, NotFound, Return, vars, world, Validation, ensureFinalizer,
     initializePhaseForFileRestore, failValidation, StartValidation, validateReferencedDiscovery,
     processDiscoveryResults, ClassifyPVCs, PatchEnd, PatchThen
<1>2. CASE Workflow
  BY <1>2 DEF Workflow, ensureRestoreNamespace, RecordNamespace, ensureFileServerAccess,
     CreateObject, NamespaceReady, PrepareRestores, createVeleroRestores, RecordRestoreNames,
     WaitForRestores, monitorVeleroRestores, UpdatePhases, fixDataDownloadPVCNames, JudgeRestores,
     cleanupAllCredentialSecrets, ensureCredentials, CredentialsReady, PrepareFileServer,
     CreatePod, CreateService, createRoutesIfRequested, PublishFileServer, WaitingForRoute,
     PatchEnd, PatchThen, Return, world
<1>3. CASE Deletion
  BY <1>3 DEF Deletion, handleVeleroRestoreCleanup, DropRestoreFinalizer, DropFinalizer,
     handleResourceCleanup, deleteFileServerPods, deleteFileServerServices, deleteFileServerRoutes,
     deleteRestoredPVCs, deleteControllerSecrets, deleteFileServerAccess, DeleteObjects, PatchEnd,
     world
<1>4. CASE Environment
  BY <1>4 DEF Environment, ApiError, Crash, VeleroAdvances, ClaimAppears, ClaimLost, SetRestore,
     DiscoveryAdvances, DiscoveryDeleted, RouteAdmitted, UserDeletes, InformerDelivers,
     RestoresDelivered, world
<1> QED
  BY <1>1, <1>2, <1>3, <1>4 DEF Next, Controller

-----------------------------------------------------------------------------
(***************************************************************************)
(* What the controller does, whatever fails.                               *)
(***************************************************************************)
\* A VMFR published as Completed has its access, pod and service, its public
\* address if it asked for one, and a pod that mounts a claim of every backup the
\* status calls available and of no other, wherever a crash, a failing call or a
\* retry came between listing the Restores, writing their phases and creating
\* the pod (monitorVeleroRestores to updateFileServingInfo).
THEOREM CompletedIsServed ==
  ASSUME StaleReads = FALSE
  PROVE  Spec => []CompletedServesAll
<1>1. Inv => CompletedServesAll
  <2> SUFFICES ASSUME Inv, Live(server), server.phase = "Completed"
                 PROVE  /\ AccessObjects \cup {"pod", "service"} \subseteq objs
                        /\ spec.expose => server.info = "public"
                        /\ {restores[i].backup : i \in mounts} = Available(server)
                        /\ \A i \in mounts : restores[i].claim # "none"
    BY DEF CompletedServesAll
  <2>2. stage = "Completed" /\ Untouched
    BY StageValues DEF stage, Untouched, Live
  <2>3. AccessObjects \subseteq objs /\ {"pod", "service"} \subseteq objs
    BY <2>2 DEF Inv, WorldInv, Claims, FromPlaced
  <2>4. spec.expose => server.info = "public"
    BY <2>2 DEF Inv, WorldInv, PublicInv
  <2>5. {restores[i].backup : i \in mounts} = Available(server)
    <3>1. mounts \in SUBSET (1..Len(restores))
      BY DEF Inv, TypeInv, WorldPart
    <3>2. {BackupsOf(restores)[i] : i \in mounts} = Chosen(server.entries)
      BY <2>3 DEF Inv, WorldInv, ObjectInv
    <3> QED
      BY <3>1, <3>2, ServedIs, AvailableIsChosen
  <2>6. \A i \in mounts : restores[i].claim # "none"
    BY <2>2 DEF Inv, WorldInv, ObjectInv, WithClaim
  <2> QED
    BY <2>3, <2>4, <2>5, <2>6
<1> QED
  BY <1>1, InvHolds, PTL

\* A VMFR that is gone has left no Restore, no pod, no service, no secret and no
\* access to the privileged SCC in the namespace the user gave, whatever crashed
\* or failed during handleVeleroRestoreCleanup and handleResourceCleanup.
THEOREM WorkloadIsCleanedUp ==
  ASSUME StaleReads = FALSE
  PROVE  Spec => []WorkloadCleanedUp
<1>1. Inv => WorkloadCleanedUp
  <2> SUFFICES ASSUME Inv, ~server.exists
                 PROVE  /\ objs \subseteq {"route", "route host"}
                        /\ \A i \in 1..Len(restores) : ~restores[i].exists
    BY DEF WorkloadCleanedUp
  <2>2. server.deleting /\ server.finalizers = {}
    BY DEF Inv, WorldInv, FinalizerInv
  <2>3. Existing(restores) = {}
    BY <2>2 DEF Inv, WorldInv, RestoreInv
  <2>4. objs \subseteq {"route", "route host"}
    BY DEF Inv, WorldInv, ObjectInv
  <2> QED
    BY <2>3, <2>4 DEF Existing
<1> QED
  BY <1>1, InvHolds, PTL

\* A Restore is created only for a backup the status records none for.
LEMMA ReuseStep ==
  ASSUME Inv, TypeInv', [Next]_vars, NEW i \in (Len(restores) + 1)..Len(restores')
  PROVE  server.entries[restores'[i].backup].restore = 0
<1>1. CASE ~\E b \in Backups : createVeleroRestores(b)
  <2>1. Len(restores') = Len(restores) /\ Len(restores) \in Nat
    BY <1>1, RestoreSteps DEF RestoresBecome, Inv, TypeInv, RestoresPart
  <2>2. \A n \in Nat : (n + 1)..n = {}
    OBVIOUS
  <2>3. (Len(restores) + 1)..Len(restores') = {}
    BY <2>1, <2>2
  <2> QED
    BY <2>3
<1>2. CASE \E b \in Backups : createVeleroRestores(b)
  <2>1. PICK b \in Backups : createVeleroRestores(b)
    BY <1>2
  <2>2. restores' = Append(restores, NewRestore(b)) /\ pc = "create"
    BY <2>1 DEF createVeleroRestores
  <2>3. restores \in Seq(VeleroRestore)
    BY DEF Inv, TypeInv, RestoresPart
  <2>4. Len(restores') = Len(restores) + 1 /\ restores'[Len(restores) + 1] = NewRestore(b)
        /\ Len(restores) \in Nat
    BY <2>2, <2>3
  <2>5. i = Len(restores) + 1
    <3>1. \A n \in Nat : \A k \in (n + 1)..(n + 1) : k = n + 1
      OBVIOUS
    <3> QED
      BY <2>4, <3>1
  <2>6. restores'[i].backup = b
    BY <2>4, <2>5 DEF NewRestore
  <2>7. server.entries[b].restore = 0
    BY <2>2 DEF Inv, At, ChoiceAt, Unnamed
  <2> QED
    BY <2>6, <2>7
<1> QED
  BY <1>1, <1>2

\* A backup whose Restore is recorded in the status never gets a second Restore,
\* however often createVeleroRestores is entered again after a failure or a
\* restart between recording the names and leaving the step.
THEOREM RecordedAreReused ==
  ASSUME StaleReads = FALSE
  PROVE  Spec => RecordedRestoresAreReused
<1>1. Inv /\ [Next]_vars =>
        [\A i \in (Len(restores) + 1)..Len(restores') :
           server.entries[restores'[i].backup].restore = 0]_vars
  BY ReuseStep, TypeNext DEF Inv
<1> QED
  BY <1>1, InvHolds, PTL DEF Spec, RecordedRestoresAreReused

\* The controller, with its caches caught up when a reconcile starts, implements
\* RestoreLifecycle for every set of backups, every spec and every order of
\* crashes, failing calls, deletions and Velero's steps: its stages, Restores,
\* mounts and finalizers move only as the abstract life cycle allows.
THEOREM LifecycleIsImplemented ==
  ASSUME StaleReads = FALSE
  PROVE  Spec => ImplementsLifecycle
<1>1. Init => Lifecycle!Init
  <2> SUFFICES ASSUME Init PROVE Lifecycle!Init
    OBVIOUS
  <2>1. server = Created /\ restores = <<>> /\ mounts = {}
    BY DEF Init, server
  <2>2. LifeStage(Created) = "created" /\ Life(Created) = "live"
    <3>1. Created.phase = "" /\ Created.exists = TRUE /\ Created.deleting = FALSE
      BY DEF Created
    <3> QED
      BY <3>1, StageValues DEF Life
  <2>3. Available(Created) = {}
    <3>1. \A b \in Backups : Created.entries[b].state = "none"
      BY DEF Created, NoEntry
    <3> QED
      BY <3>1 DEF Available
  <2> QED
    BY <2>1, <2>2, <2>3 DEF Lifecycle!Init
<1>2. Inv /\ [Next]_vars => [Lifecycle!Next]_(Lifecycle!vars)
  BY StepCore DEF LifeStep
<1> QED
  BY <1>1, <1>2, InvHolds, PTL DEF Spec, ImplementsLifecycle, Lifecycle!Spec

-----------------------------------------------------------------------------
(***************************************************************************)
(* A settled VMFR stays settled, also when the caches lag.                 *)
(***************************************************************************)
VersionsTerminal == \A n \in 1..Len(log) : log[n].phase \in Terminal
SameOutcome == server'.phase = server.phase /\ server'.cond = server.cond

\* The versions stay terminal when one with the server's outcome joins them.
LEMMA OutcomeAppended ==
  ASSUME LogPart, VersionsTerminal, NEW o, log' = Append(log, o),
         o.phase = server.phase, o.cond = server.cond
  PROVE  VersionsTerminal' /\ SameOutcome
<1>1. log \in Seq(Resource \cup {o}) /\ Len(log) \in 1..Len(log)
  BY DEF LogPart
<1>2. /\ Len(log') = Len(log) + 1 /\ log'[Len(log) + 1] = o
      /\ \A n \in 1..Len(log) : log'[n] = log[n]
  BY <1>1
<1>3. server' = o /\ o.phase \in Terminal
  BY <1>1, <1>2 DEF server, VersionsTerminal
<1>4. ASSUME NEW n \in 1..Len(log')
      PROVE  log'[n].phase \in Terminal
  <2>1. n \in 1..Len(log) \/ n = Len(log) + 1
    BY <1>1, <1>2
  <2> QED
    BY <1>2, <1>3, <2>1 DEF VersionsTerminal
<1> QED
  BY <1>3, <1>4 DEF VersionsTerminal, SameOutcome

LEMMA OutcomeKept ==
  ASSUME VersionsTerminal, log' = log
  PROVE  VersionsTerminal' /\ SameOutcome
BY DEF VersionsTerminal, SameOutcome, server

\* A patch of the finalizers carries no phase and no condition.
LEMMA FinalizerPatchKeepsOutcome ==
  ASSUME LogPart, VersionsTerminal, NEW fs, Patch([mem EXCEPT !.finalizers = fs])
  PROVE  VersionsTerminal' /\ SameOutcome
<1>1. PICK new : new = [mem EXCEPT !.finalizers = fs]
  OBVIOUS
<1>2. PICK m : m = Merge(mem, new, server)
  OBVIOUS
<1>3. new.phase = mem.phase /\ new.cond = mem.cond
  BY <1>1
<1>4. m.phase = server.phase /\ m.cond = server.cond
  BY <1>2, <1>3 DEF Merge
<1>5. PICK o : o = Stored(m)
  OBVIOUS
<1>6. o.phase = server.phase /\ o.cond = server.cond
  BY <1>2, <1>4, <1>5 DEF Stored, Merge
<1>7. Replace(o)
  BY <1>1, <1>2, <1>5 DEF Patch
<1> QED
  BY <1>6, <1>7, OutcomeAppended, OutcomeKept DEF Replace

LEMMA SettledDeletion ==
  ASSUME LogPart, VersionsTerminal, Deletion
  PROVE  VersionsTerminal' /\ SameOutcome /\ pc' \in {"idle"} \cup CleanupPlaces
<1>1. pc' \in {"idle"} \cup CleanupPlaces
  BY DEF Deletion, handleVeleroRestoreCleanup, DropRestoreFinalizer, DropFinalizer,
     handleResourceCleanup, deleteFileServerPods, deleteFileServerServices, deleteFileServerRoutes,
     deleteRestoredPVCs, deleteControllerSecrets, deleteFileServerAccess, DeleteObjects, PatchEnd,
     EndReconcile, Goto, worker, CleanupPlaces
<1>2. CASE DropRestoreFinalizer \/ DropFinalizer
  <2>1. \E fs : Patch([mem EXCEPT !.finalizers = fs])
    BY <1>2 DEF DropRestoreFinalizer, DropFinalizer, PatchEnd
  <2> QED
    BY <1>1, <2>1, FinalizerPatchKeepsOutcome
<1>3. CASE ~DropRestoreFinalizer /\ ~DropFinalizer
  <2>1. log' = log
    BY <1>3 DEF Deletion, handleVeleroRestoreCleanup, handleResourceCleanup, deleteFileServerPods,
       deleteFileServerServices, deleteFileServerRoutes, deleteRestoredPVCs,
       deleteControllerSecrets, deleteFileServerAccess, DeleteObjects, Goto
  <2> QED
    BY <1>1, <2>1, OutcomeKept
<1> QED
  BY <1>2, <1>3

\* A terminal copy in the cache starts nothing but a clean-up.
LEMMA SettledReconcile ==
  ASSUME LogPart, VersionsTerminal, Reconcile
  PROVE  pc' \in {"idle", "delete restores", "cleanup"} /\ log' = log
<1>1. cache \in Resource /\ cache.phase \in Terminal
  BY DEF cache, LogPart, VersionsTerminal
<1>2. CleanupStep(cache) \in {"idle", "delete restores", "cleanup"}
  BY DEF CleanupStep
<1>3. cache.phase # "" /\ cache.phase \notin Unfinished
  BY <1>1 DEF Terminal, Unfinished
<1>4. SelectedStep(cache) \in {"idle", "delete restores", "cleanup"}
  BY <1>1, <1>2, <1>3, SelectedStepIs
<1> QED
  BY <1>4 DEF Reconcile

LEMMA SettledStep ==
  ASSUME TypeInv, [Next]_vars, Settled
  PROVE  Settled' /\ SameOutcome
<1>1. LogPart /\ VersionsTerminal /\ pc \in {"idle"} \cup CleanupPlaces
  BY DEF TypeInv, Settled, VersionsTerminal
<1>2. SUFFICES VersionsTerminal' /\ SameOutcome /\ pc' \in {"idle"} \cup CleanupPlaces
  BY DEF Settled, VersionsTerminal
<1>3. ~Validation
  BY <1>1 DEF CleanupPlaces, Validation, ensureFinalizer, initializePhaseForFileRestore,
     failValidation, StartValidation, validateReferencedDiscovery, processDiscoveryResults,
     ClassifyPVCs
<1>4. ~Workflow
  BY <1>1 DEF CleanupPlaces, Workflow, AccessObjects, ensureRestoreNamespace, RecordNamespace,
     ensureFileServerAccess, CreateObject, NamespaceReady, PrepareRestores, createVeleroRestores,
     RecordRestoreNames, WaitForRestores, monitorVeleroRestores, UpdatePhases,
     fixDataDownloadPVCNames, JudgeRestores, cleanupAllCredentialSecrets, ensureCredentials,
     CredentialsReady, PrepareFileServer, CreatePod, CreateService, createRoutesIfRequested,
     PublishFileServer, WaitingForRoute
<1>5. CASE Reconcile
  BY <1>1, <1>5, SettledReconcile, OutcomeKept DEF CleanupPlaces
<1>6. CASE Deletion
  BY <1>1, <1>6, SettledDeletion
<1>7. CASE NotFound \/ ApiError
  <2>1. log' = log
    BY <1>7 DEF NotFound, ApiError, Return
  <2>2. pc' \in {"idle", "delete claims"}
    BY <1>1, <1>7 DEF NotFound, ApiError, Return, EndReconcile, FailsValidation, CleanupPlaces
  <2> QED
    BY <1>1, <2>1, <2>2, OutcomeKept DEF CleanupPlaces
<1>8. CASE Crash
  <2>1. log' = <<server>> /\ pc' = "idle"
    BY <1>8 DEF Crash
  <2>2. Len(log') = 1 /\ log'[1] = server
    BY <2>1
  <2>3. server' = server /\ server.phase \in Terminal
    BY <1>1, <2>2 DEF server, LogPart, VersionsTerminal
  <2> QED
    BY <2>1, <2>2, <2>3 DEF VersionsTerminal, SameOutcome
<1>9. CASE UserDeletes
  <2>1. PICK o : o = Stored([server EXCEPT !.deleting = TRUE])
    OBVIOUS
  <2>2. server \in Resource
    BY <1>1, ServerType
  <2>3. o.phase = server.phase /\ o.cond = server.cond
    BY <2>1, <2>2 DEF Stored, Resource
  <2>4. log' = Append(log, o) /\ pc' = pc
    BY <1>9, <2>1 DEF UserDeletes
  <2> QED
    BY <1>1, <2>3, <2>4, OutcomeAppended
<1>10. CASE InformerDelivers
  <2>1. Len(log) > 1 /\ log' = Tail(log) /\ log \in Seq(Resource) /\ pc' = pc
    BY <1>1, <1>10 DEF InformerDelivers, LogPart, worker
  <2>2. /\ Len(log') = Len(log) - 1
        /\ \A n \in 1..Len(log') : log'[n] = log[n + 1] /\ n + 1 \in 1..Len(log)
    BY <2>1
  <2>3. server' = server
    BY <2>1, <2>2 DEF server
  <2> QED
    BY <1>1, <2>1, <2>2, <2>3 DEF VersionsTerminal, SameOutcome
<1>11. CASE \/ UNCHANGED vars
            \/ Environment /\ ~ApiError /\ ~Crash /\ ~UserDeletes /\ ~InformerDelivers
  <2>1. log' = log /\ pc' = pc
    BY <1>11 DEF vars, worker, Environment, VeleroAdvances, ClaimAppears, ClaimLost, SetRestore,
       DiscoveryAdvances, DiscoveryDeleted, RouteAdmitted, RestoresDelivered
  <2> QED
    BY <1>1, <2>1, OutcomeKept
<1> QED
  BY <1>3, <1>4, <1>5, <1>6, <1>7, <1>8, <1>9, <1>10, <1>11 DEF Next, Controller

\* Whatever the caches show and however late, once every version from the cached one
\* to the server's is terminal and the worker is idle or cleaning up, no retry, event,
\* deletion, failing call or restart opens the VMFR again or changes its outcome: the
\* merge patches have no version check, so this rests on what the reconcile is started
\* from (executeFileRestoreWorkflow, "Terminal states").
THEOREM SettledStays == Spec => SettledIsFinal
<1>1. TypeInv /\ [Next]_vars =>
        [Settled => Settled' /\ server'.phase = server.phase /\ server'.cond = server.cond]_vars
  BY SettledStep DEF SameOutcome
<1>2. Init => TypeInv
  BY TypeInit
<1>3. TypeInv /\ [Next]_vars => TypeInv'
  BY TypeNext
<1> QED
  BY <1>1, <1>2, <1>3, PTL DEF Spec, SettledIsFinal

-----------------------------------------------------------------------------
(***************************************************************************)
(* A healthy file restore: the discovery completes, the spec asks for what *)
(* is there, the backups can be read and hold claims, Velero's Restores    *)
(* succeed, no API call fails and no role binding is refused.  Restarts, a *)
(* deletion at any time, data downloads to be fixed and a cluster without  *)
(* routes stay possible.                                                   *)
(***************************************************************************)
HealthyConstants ==
  /\ {"api error", "restore fails", "claim lost", "discovery fails", "discovery deleted",
      "access refused"} \cap Mishaps = {}
  /\ StartPhases \subseteq {"New", "InProgress", "Completed"}
  /\ \A s \in RestoreSpecs : s.target # "missing" /\ s.creds = "made"
  /\ \A s \in RestoreSpecs, v \in ValidChoices :
       /\ v # {} /\ s.selected \subseteq v
       /\ \E b \in (IF s.selected = {} THEN v ELSE s.selected) : Contents[b] # {}
  /\ \A b \in Backups : Findings[b] = {"available"}

\* The Restores recorded for the backups to serve.
NamesOf(e) == {e[b].restore : b \in Chosen(e)}
FromValidated == {"validated"} \cup FromPlaced

\* HealthInv, the inductive invariant: the discovery has completed or will,
DiscoveryHealthy ==
  /\ spec \in RestoreSpecs
  /\ vmbd.phase \in {"New", "InProgress", "Completed"}
  /\ vmbd.phase = "Completed" => vmbd.valid \in ValidChoices

\* no Restore has failed and no claim is lost,
RestoresHealthy ==
  \A i \in 1..Len(restores) :
    /\ restores[i].phase \in {"New", "InProgress", "WaitingForPluginOperations", "Finalizing",
                              "Completed"}
    /\ restores[i].claim # "Lost"

\* the reconcile under way holds nothing that makes it give up: backups with
\* contents to classify, Restores to judge and none failed, secrets just made,
WorkerHealthy ==
  /\ pc # "fail"
  /\ pc = "discover" => \E b \in todo : Contents[b] # {}
  /\ pc = "classify" => HasAvailable(mem) # {} /\ NotFullyAvailable(mem) = {}
  /\ pc \in {"update", "fix", "judge"} => seen # {} /\ "failed" \notin seen
  /\ pc = "credentials ready" => "secrets" \in objs

\* and what an earlier reconcile left is still there for the next: backups to
\* serve, their claims once the Restores were judged, the secrets once they were made.
StageHealthy ==
  /\ stage \in FromValidated => Chosen(server.entries) # {}
  /\ stage \in FromRestored /\ Untouched => NamesOf(server.entries) \subseteq WithClaim(restores)
  /\ stage = "credentials" /\ Untouched => "secrets" \in objs

HealthInv ==
  DiscoveryHealthy /\ RestoresHealthy /\ WorkerHealthy /\ StageHealthy /\ HealthyNeverFails

LEMMA HealthInit ==
  ASSUME HealthyConstants, Init
  PROVE  HealthInv
<1>1. DiscoveryHealthy
  <2>1. PICK p \in StartPhases, v \in ValidChoices :
          vmbd = [phase |-> p, valid |-> IF p = "Completed" THEN v ELSE {}]
    BY DEF Init
  <2>2. vmbd.phase = p /\ (p = "Completed" => vmbd.valid = v)
    BY <2>1
  <2>3. spec \in RestoreSpecs
    BY DEF Init
  <2>4. p \in {"New", "InProgress", "Completed"}
    BY DEF HealthyConstants
  <2> QED
    BY <2>2, <2>3, <2>4 DEF DiscoveryHealthy
<1>2. server = Created /\ restores = <<>> /\ pc = "idle"
  BY DEF Init, server
<1>3. RestoresHealthy
  BY <1>2 DEF RestoresHealthy
<1>4. WorkerHealthy
  BY <1>2 DEF WorkerHealthy
<1>5. Created.phase = "" /\ stage = "created"
  BY <1>2, StageValues DEF Created, stage
<1>6. StageHealthy /\ HealthyNeverFails
  BY <1>2, <1>5 DEF StageHealthy, HealthyNeverFails, FromValidated, FromPlaced, FromRestored,
     FromRestoring
<1> QED
  BY <1>1, <1>3, <1>4, <1>6 DEF HealthInv

LEMMA DiscoveryHealthyStep ==
  ASSUME HealthyConstants, DiscoveryHealthy, TypeInv, [Next]_vars
  PROVE  DiscoveryHealthy'
<1>1. spec' = spec
  BY SpecKept
<1>2. ASSUME vmbd' = vmbd PROVE DiscoveryHealthy'
  BY <1>1, <1>2 DEF DiscoveryHealthy
<1>3. CASE Reconcile \/ NotFound \/ UNCHANGED vars \/ Validation
  BY <1>2, <1>3 DEF Reconcile, NotFound, Return, vars, world, Validation, ensureFinalizer,
     initializePhaseForFileRestore, failValidation, StartValidation, validateReferencedDiscovery,
     processDiscoveryResults, ClassifyPVCs, PatchEnd, PatchThen
<1>4. CASE Workflow
  BY <1>2, <1>4 DEF Workflow, ensureRestoreNamespace, RecordNamespace, ensureFileServerAccess,
     CreateObject, NamespaceReady, PrepareRestores, createVeleroRestores, RecordRestoreNames,
     WaitForRestores, monitorVeleroRestores, UpdatePhases, fixDataDownloadPVCNames, JudgeRestores,
     cleanupAllCredentialSecrets, ensureCredentials, CredentialsReady, PrepareFileServer,
     CreatePod, CreateService, createRoutesIfRequested, PublishFileServer, WaitingForRoute,
     PatchEnd, PatchThen, Return, world
<1>5. CASE Deletion
  BY <1>2, <1>5 DEF Deletion, handleVeleroRestoreCleanup, DropRestoreFinalizer, DropFinalizer,
     handleResourceCleanup, deleteFileServerPods, deleteFileServerServices, deleteFileServerRoutes,
     deleteRestoredPVCs, deleteControllerSecrets, deleteFileServerAccess, DeleteObjects, PatchEnd,
     world
<1>6. CASE DiscoveryAdvances
  <2>1. PICK p \in DiscoveryNext(vmbd.phase), v \in ValidChoices :
          vmbd' = [phase |-> p, valid |-> IF p = "Completed" THEN v ELSE {}]
    BY <1>6 DEF DiscoveryAdvances
  <2>2. p \in {"InProgress", "Completed"}
    BY <2>1 DEF DiscoveryNext, DiscoveryHealthy, HealthyConstants
  <2>3. vmbd'.phase = p /\ (p = "Completed" => vmbd'.valid = v)
    BY <2>1
  <2> QED
    BY <1>1, <2>2, <2>3 DEF DiscoveryHealthy
<1>7. CASE Environment /\ ~DiscoveryAdvances
  BY <1>2, <1>7 DEF Environment, ApiError, Crash, VeleroAdvances, ClaimAppears, ClaimLost,
     SetRestore, DiscoveryDeleted, RouteAdmitted, UserDeletes, InformerDelivers,
     RestoresDelivered, world, HealthyConstants
<1> QED
  BY <1>3, <1>4, <1>5, <1>6, <1>7 DEF Next, Controller

LEMMA RestoresHealthyStep ==
  ASSUME HealthyConstants, RestoresHealthy, TypeInv, TypeInv', [Next]_vars
  PROVE  RestoresHealthy'
<1>1. CASE \E b \in Backups : createVeleroRestores(b)
  <2>1. PICK b \in Backups : createVeleroRestores(b)
    BY <1>1
  <2>2. restores' = Append(restores, NewRestore(b)) /\ restores \in Seq(VeleroRestore)
    BY <2>1 DEF createVeleroRestores, TypeInv, RestoresPart
  <2>3. ASSUME NEW i \in 1..Len(restores')
        PROVE  \/ restores'[i] = NewRestore(b)
               \/ i \in 1..Len(restores) /\ restores'[i] = restores[i]
    BY <2>2
  <2>4. NewRestore(b).phase = "New" /\ NewRestore(b).claim = "none"
    BY DEF NewRestore
  <2> QED
    BY <2>3, <2>4 DEF RestoresHealthy
<1>2. CASE ~\E b \in Backups : createVeleroRestores(b)
  <2>1. RestoresBecome
    BY <1>2, RestoreSteps
  <2> SUFFICES ASSUME NEW i \in 1..Len(restores)
               PROVE  /\ restores'[i].phase \in {"New", "InProgress", "WaitingForPluginOperations",
                                               "Finalizing", "Completed"}
                      /\ restores'[i].claim # "Lost"
    BY <2>1 DEF RestoresHealthy, RestoresBecome
  <2>2. PICK r, s : r = restores[i] /\ s = restores'[i]
    OBVIOUS
  <2>3. /\ r.phase \in {"New", "InProgress", "WaitingForPluginOperations", "Finalizing",
                        "Completed"}
        /\ r.claim # "Lost"
        /\ Becomes(r, s)
    BY <2>1, <2>2 DEF RestoresHealthy, RestoresBecome
  <2>4. "claim lost" \notin Mishaps /\ "restore fails" \notin Mishaps
    BY DEF HealthyConstants
  <2>5. VeleroNext(r) \subseteq {"InProgress", "WaitingForPluginOperations", "Finalizing",
                                  "Completed"}
    BY <2>3, <2>4 DEF VeleroNext
  <2> QED
    BY <2>2, <2>3, <2>4, <2>5 DEF Becomes
<1> QED
  BY <1>1, <1>2

\* The restored Restores of a healthy VMFR are counted as completed or running.
LEMMA HealthyCategories ==
  ASSUME StaleReads = FALSE, RestoresHealthy
  PROVE  "failed" \notin {Category(Visible[i].phase) : i \in Labelled}
<1>1. Visible = restores
  BY DEF Visible
<1>2. \A i \in Labelled : i \in 1..Len(restores)
  BY <1>1 DEF Labelled
<1>3. ASSUME NEW p \in {"New", "InProgress", "WaitingForPluginOperations", "Finalizing",
                    "Completed"}
      PROVE  Category(p) # "failed"
  BY DEF Category
<1> QED
  BY <1>1, <1>2, <1>3 DEF RestoresHealthy

\* Where the reconcile relies on what it has in hand.
Critical == {"fail", "discover", "classify", "update", "fix", "judge", "credentials ready"}

LEMMA NotCritical ==
  ASSUME pc' \notin Critical
  PROVE  WorkerHealthy'
BY DEF Critical, WorkerHealthy

LEMMA DiscoveryAccepted ==
  ASSUME HealthyConstants, DiscoveryHealthy
  PROVE  /\ ~DiscoveryRejected
         /\ vmbd.phase \notin {"New", "InProgress"} => \E b \in ToServe : Contents[b] # {}
BY DEF HealthyConstants, DiscoveryHealthy, DiscoveryRejected, ToServe

\* Backups that can be read give entries that are available, or none.
LEMMA HealthyEntry ==
  ASSUME HealthyConstants, NEW b \in Backups, NEW f \in DiscoveredEntries(b)
  PROVE  /\ f.state = "available" \/ f.pvcs = {}
         /\ b \in todo /\ Contents[b] # {} => f.state = "available" /\ f.pvcs = Contents[b]
<1>1. Findings[b] = {"available"}
  BY DEF HealthyConstants
<1>2. CASE b \notin todo
  <2>1. f = NoEntry
    BY <1>2 DEF DiscoveredEntries
  <2> QED
    BY <1>2, <2>1 DEF NoEntry
<1>3. CASE b \in todo /\ Contents[b] = {}
  <2>1. f = NoEntry
    BY <1>1, <1>3 DEF DiscoveredEntries
  <2> QED
    BY <1>3, <2>1 DEF NoEntry
<1>4. CASE b \in todo /\ Contents[b] # {}
  <2>1. f = [state |-> "available", pvcs |-> Contents[b], restore |-> 0, phase |-> ""]
    BY <1>1, <1>4 DEF DiscoveredEntries
  <2> QED
    BY <2>1
<1> QED
  BY <1>2, <1>3, <1>4

LEMMA HealthyEntries ==
  ASSUME HealthyConstants, NEW o, NEW c \in todo, todo \subseteq Backups, Contents[c] # {},
         \A b \in Backups : o.entries[b] \in DiscoveredEntries(b)
  PROVE  HasAvailable(o) # {} /\ NotFullyAvailable(o) = {}
<1>1. ASSUME NEW b \in Backups
      PROVE  o.entries[b].state = "available" \/ o.entries[b].pvcs = {}
  BY HealthyEntry
<1>2. o.entries[c].state = "available" /\ o.entries[c].pvcs = Contents[c]
  BY HealthyEntry
<1>3. PICK p \in PVCs : p \in Contents[c]
  BY ConstantsAssumption DEF ConstantsAssumption
<1>4. p \in HasAvailable(o)
  BY <1>2, <1>3 DEF HasAvailable, HoldingPVC, Available
<1>5. NotFullyAvailable(o) = {}
  BY <1>1 DEF NotFullyAvailable, HoldingPVC, Available
<1> QED
  BY <1>4, <1>5

\* Validation and discovery find a backup to serve.
LEMMA HealthyValidation ==
  ASSUME HealthyConstants, Inv, Inv', HealthInv, Validation
  PROVE  WorkerHealthy'
<1>1. CASE ensureFinalizer \/ initializePhaseForFileRestore \/ failValidation \/ StartValidation
  BY <1>1, NotCritical DEF ensureFinalizer, initializePhaseForFileRestore, failValidation,
     StartValidation, PatchEnd, PatchThen, Return, EndReconcile, Critical
<1>2. CASE validateReferencedDiscovery
  <2>1. ~DiscoveryRejected
    BY DiscoveryAccepted DEF HealthInv
  <2>2. CASE vmbd.phase \in {"New", "InProgress"}
    BY <1>2, <2>1, <2>2, NotCritical DEF validateReferencedDiscovery, PatchEnd, EndReconcile,
       Critical
  <2>3. CASE vmbd.phase \notin {"New", "InProgress"}
    <3>1. \E b \in ToServe : Contents[b] # {}
      BY <2>3, DiscoveryAccepted DEF HealthInv
    <3>2. pc' = "discover" /\ todo' = ToServe
      BY <1>2, <2>1, <2>3 DEF validateReferencedDiscovery
    <3> QED
      BY <3>1, <3>2 DEF WorkerHealthy
  <2> QED
    BY <2>2, <2>3
<1>3. CASE processDiscoveryResults
  <2>1. PICK e : /\ \A b \in Backups : e[b] \in DiscoveredEntries(b)
                 /\ PatchThen([mem EXCEPT !.entries = e], "classify")
    BY <1>3 DEF processDiscoveryResults
  <2>2. PICK new : new = [mem EXCEPT !.entries = e]
    OBVIOUS
  <2>3. /\ Patch(new) /\ pc = "discover" /\ pc' = "classify"
        /\ mem' = Stored(Merge(mem, new, server))
    BY <1>3, <2>1, <2>2 DEF processDiscoveryResults, PatchThen
  <2>4. new.entries = e /\ mem.entries = server.entries
    BY <2>2, <2>3 DEF Inv, TypeInv, MemPart, Resource, At, SyncAt
  <2>5. PICK m : m = Merge(mem, new, server)
    OBVIOUS
  <2>6. m.entries = e
    BY <2>4, <2>5 DEF Merge
  <2>7. Stored(m).entries = m.entries
    BY <2>5 DEF Stored, Merge
  <2>8. mem'.entries = e
    BY <2>3, <2>5, <2>6, <2>7
  <2>9. PICK c \in todo : Contents[c] # {}
    BY <2>3 DEF HealthInv, WorkerHealthy
  <2>10. todo \subseteq Backups
    BY DEF Inv, TypeInv, WorkerPart
  <2>11. PICK o : o = mem'
    OBVIOUS
  <2>12. HasAvailable(o) # {} /\ NotFullyAvailable(o) = {}
    BY <2>1, <2>8, <2>9, <2>10, <2>11, HealthyEntries
  <2>13. HasAvailable(mem)' # {} /\ NotFullyAvailable(mem)' = {}
    BY <2>11, <2>12 DEF HasAvailable, NotFullyAvailable, HoldingPVC, Available
  <2> QED
    BY <2>3, <2>13 DEF WorkerHealthy
<1>4. CASE ClassifyPVCs
  <2>1. HasAvailable(mem) # {}
    BY <1>4 DEF ClassifyPVCs, HealthInv, WorkerHealthy
  <2> QED
    BY <1>4, <2>1, NotCritical DEF ClassifyPVCs, PatchEnd, EndReconcile, Critical
<1> QED
  BY <1>1, <1>2, <1>3, <1>4 DEF Validation

\* At the judgement, and from the credentials on, a healthy VMFR has claims to mount.
LEMMA HealthyMounts ==
  ASSUME Inv, HealthInv, pc \in {"judge", "file server"}
  PROVE  /\ mem.createdNamespace /\ AllCompleted(mem.entries) /\ mem.entries = server.entries
         /\ PVCMounts(mem) # {} /\ PVCMounts(mem) = NamesOf(mem.entries)
         /\ PVCMounts(mem) \subseteq 1..Len(restores) /\ ~ClaimsLost
<1>1. stage \in {"restoring", "credentials"} /\ (pc = "judge" <=> stage = "restoring")
  BY DEF Inv, At, StageAt
<1>2. /\ mem.createdNamespace = server.createdNamespace /\ mem.entries = server.entries
  BY DEF Inv, At, SyncAt
<1>3. server.createdNamespace
  BY <1>1 DEF Inv, WorldInv, Claims, FromPlaced
<1>4. AllCompleted(mem.entries)
  <2>1. CASE pc = "judge"
    <3>1. seen \subseteq {"completed"}
      BY <2>1 DEF Inv, At, ChoiceAt, HealthInv, WorkerHealthy, TypeInv, WorkerPart
    <3> QED
      BY <2>1, <3>1 DEF Inv, At, ChoiceAt
  <2>2. CASE pc = "file server"
    BY <1>1, <1>2, <2>2 DEF Inv, WorldInv, Claims, FromRestored, FromRestoring, FromPlaced
  <2> QED
    BY <2>1, <2>2
<1>5. PVCMounts(mem) = NamesOf(mem.entries)
  BY <1>4 DEF AllCompleted, PVCMounts, NamesOf, Available, Chosen
<1>6. Chosen(mem.entries) # {}
  BY <1>1, <1>2 DEF HealthInv, StageHealthy, FromValidated, FromPlaced
<1>7. PVCMounts(mem) # {}
  BY <1>5, <1>6 DEF NamesOf
<1>8. PVCMounts(mem) \subseteq 1..Len(restores)
  BY MountsType DEF Inv, TypeInv
<1>9. ~ClaimsLost
  BY <1>8 DEF ClaimsLost, HealthInv, RestoresHealthy
<1> QED
  BY <1>2, <1>3, <1>4, <1>5, <1>7, <1>8, <1>9

\* The Restores are judged complete, or the claims waited for.
LEMMA HealthyJudgement ==
  ASSUME Inv, HealthInv, JudgeRestores
  PROVE  /\ pc = "judge" /\ pc' = "idle"
         /\ \/ log' = log
            \/ PatchEnd(InProgress("RestoresCompleted"), TRUE) /\ ClaimsReady
<1>1. pc = "judge"
  BY DEF JudgeRestores
<1>2. mem.createdNamespace /\ PVCMounts(mem) # {} /\ ~ClaimsLost
  BY <1>1, HealthyMounts
<1>3. "completed" \in seen /\ "failed" \notin seen
  BY <1>1 DEF Inv, At, ChoiceAt, HealthInv, WorkerHealthy, TypeInv, WorkerPart
<1>4. \/ Return(TRUE)
      \/ PatchEnd(InProgress("RestoresCompleted"), TRUE) /\ ClaimsReady
  BY <1>2, <1>3 DEF JudgeRestores
<1> QED
  BY <1>1, <1>4 DEF Return, PatchEnd, EndReconcile

\* Nor does the reconcile reach a place where it would give up.
LEMMA HealthyWorkflow ==
  ASSUME StaleReads = FALSE, HealthyConstants, Inv, Inv', HealthInv, Workflow
  PROVE  WorkerHealthy'
<1>1. spec.target # "missing" /\ spec.creds = "made" /\ vmbd.phase # "absent"
  BY DEF HealthInv, DiscoveryHealthy, HealthyConstants
<1>2. CASE ensureRestoreNamespace
  BY <1>1, <1>2, NotCritical DEF ensureRestoreNamespace, Goto, Critical
<1>3. CASE PrepareRestores
  <2>1. mem.createdNamespace
    BY <1>3 DEF PrepareRestores, Inv, At, StageAt, SyncAt, WorldInv, Claims, FromPlaced
  <2> QED
    BY <1>1, <1>3, <2>1, NotCritical DEF PrepareRestores, Goto, Critical
<1>4. CASE monitorVeleroRestores
  <2>1. CASE Return(TRUE)
    BY <2>1, NotCritical DEF Return, EndReconcile, Critical
  <2>2. CASE /\ Labelled # {} /\ seen' = {Category(Visible[i].phase) : i \in Labelled}
             /\ pc' \in {"fix", "update"}
    <3>1. seen' # {} /\ "failed" \notin seen'
      BY <2>2, HealthyCategories DEF HealthInv
    <3> QED
      BY <2>2, <3>1 DEF WorkerHealthy
  <2> QED
    BY <1>4, <2>1, <2>2 DEF monitorVeleroRestores
<1>5. CASE UpdatePhases \/ fixDataDownloadPVCNames
  <2>1. CASE pc' = "idle"
    BY <2>1, NotCritical DEF Critical
  <2>2. CASE pc \in {"update", "fix"} /\ pc' \in {"fix", "judge"} /\ seen' = seen
    BY <2>2 DEF HealthInv, WorkerHealthy
  <2> QED
    BY <1>5, <2>1, <2>2 DEF UpdatePhases, fixDataDownloadPVCNames, Return, EndReconcile, Goto
<1>6. CASE JudgeRestores
  BY <1>6, HealthyJudgement, NotCritical DEF Critical
<1>7. CASE cleanupAllCredentialSecrets
  <2>1. mem.createdNamespace
    BY <1>7 DEF cleanupAllCredentialSecrets, Inv, At, StageAt, SyncAt, WorldInv, Claims, FromPlaced
  <2> QED
    BY <1>1, <1>7, <2>1, NotCritical DEF cleanupAllCredentialSecrets, CredentialsWanted, Goto,
       Critical
<1>8. CASE ensureCredentials
  <2>1. pc' = "credentials ready" /\ "secrets" \in objs'
    BY <1>1, <1>8 DEF ensureCredentials, CreateObject, Goto
  <2> QED
    BY <2>1 DEF WorkerHealthy
<1>9. CASE PrepareFileServer
  <2>1. pc = "file server" /\ stage = "credentials" /\ Untouched
    BY <1>9 DEF PrepareFileServer, Inv, At, StageAt, Untouched, Serving
  <2>2. findSecretByLabels
    BY <2>1 DEF HealthInv, StageHealthy, findSecretByLabels
  <2>3. /\ mem.createdNamespace /\ PVCMounts(mem) # {} /\ mem.entries = server.entries
        /\ PVCMounts(mem) = NamesOf(mem.entries)
    BY <2>1, HealthyMounts
  <2>4. PVCMounts(mem) \subseteq WithClaim(restores)
    BY <2>1, <2>3 DEF HealthInv, StageHealthy, FromRestored, FromRestoring, FromPlaced
  <2>5. ClaimsReady
    BY <2>4 DEF ClaimsReady, WithClaim
  <2>6. pc' = "pod"
    BY <1>9, <2>2, <2>3, <2>5 DEF PrepareFileServer, Goto
  <2> QED
    BY <2>6, NotCritical DEF Critical
<1>10. CASE ensureFileServerAccess
  <2>1. pc' \notin {"fail"}
    BY <1>10 DEF ensureFileServerAccess, CreateObject, Goto, HealthyConstants
  <2> QED
    BY <1>10, <2>1, NotCritical DEF ensureFileServerAccess, CreateObject, Goto, Critical
<1>11. CASE \/ RecordNamespace \/ NamespaceReady
            \/ (\E b \in Backups : createVeleroRestores(b)) \/ RecordRestoreNames
            \/ WaitForRestores \/ CredentialsReady \/ CreatePod \/ CreateService
            \/ createRoutesIfRequested \/ PublishFileServer \/ WaitingForRoute
  BY <1>11, NotCritical DEF RecordNamespace, CreateObject, NamespaceReady, createVeleroRestores,
     RecordRestoreNames, WaitForRestores, CredentialsReady, CreatePod,
     CreateService, createRoutesIfRequested, PublishFileServer, WaitingForRoute, PatchEnd,
     PatchThen, Return, EndReconcile, Goto, Critical
<1> QED
  BY <1>2, <1>3, <1>4, <1>5, <1>6, <1>7, <1>8, <1>9, <1>10, <1>11 DEF Workflow

LEMMA WorkerHealthyStep ==
  ASSUME StaleReads = FALSE, HealthyConstants, Inv, Inv', HealthInv, [Next]_vars
  PROVE  WorkerHealthy'
<1>1. CASE Reconcile
  BY <1>1, ReconcileFirst, NotCritical DEF FirstPlaces, Critical
<1>2. CASE Validation
  BY <1>2, HealthyValidation
<1>3. CASE Workflow
  BY <1>3, HealthyWorkflow
<1>4. CASE Deletion
  <2>1. pc' \in RemovingRestores \cup RemovingObjects \cup {"idle"}
    BY <1>4 DEF Deletion, handleVeleroRestoreCleanup, DropRestoreFinalizer, DropFinalizer,
       handleResourceCleanup, deleteFileServerPods, deleteFileServerServices,
       deleteFileServerRoutes, deleteRestoredPVCs, deleteControllerSecrets,
       deleteFileServerAccess, DeleteObjects, PatchEnd, EndReconcile, Goto, worker,
       RemovingRestores, RemovingObjects
  <2> QED
    BY <2>1, NotCritical DEF RemovingRestores, RemovingObjects, Critical
<1>5. CASE Crash \/ NotFound
  BY <1>5, NotCritical DEF Crash, NotFound, Return, EndReconcile, Critical
<1>6. CASE UNCHANGED vars \/ (Environment /\ ~ApiError /\ ~Crash)
  <2>1. UNCHANGED <<pc, mem, todo, seen>> /\ objs \subseteq objs'
    BY <1>6 DEF vars, world, worker, Environment, VeleroAdvances, ClaimAppears, ClaimLost,
       SetRestore, DiscoveryAdvances, DiscoveryDeleted, RouteAdmitted, UserDeletes,
       InformerDelivers, RestoresDelivered
  <2>2. HasAvailable(mem)' = HasAvailable(mem) /\ NotFullyAvailable(mem)' = NotFullyAvailable(mem)
    BY <2>1 DEF HasAvailable, NotFullyAvailable, HoldingPVC, Available
  <2> QED
    BY <2>1, <2>2 DEF HealthInv, WorkerHealthy
<1>7. ~ApiError
  BY DEF HealthyConstants, ApiError
<1> QED
  BY <1>1, <1>2, <1>3, <1>4, <1>5, <1>6, <1>7 DEF Next, Controller

\* No write of a healthy reconcile is Failed or PartiallyFailed.
LEMMA NeverFailsStep ==
  ASSUME StaleReads = FALSE, HealthyConstants, Inv, Inv', HealthInv, [Next]_vars
  PROVE  HealthyNeverFails'
<1> DEFINE Good == {"", "New", "InProgress", "Completed"}
<1>1. LogPart /\ MemPart /\ TypeInv' /\ server.phase \in Good
  <2>1. server.phase \in Phases
    BY ServerFields DEF Inv
  <2> QED
    BY <2>1 DEF Inv, TypeInv, HealthInv, HealthyNeverFails, Phases, Terminal
<1>2. ASSUME NEW new, Patch(new), new.phase \in Good PROVE HealthyNeverFails'
  <2>1. server'.phase \in Good
    BY <1>1, <1>2, PatchFields
  <2> QED
    BY <2>1 DEF HealthyNeverFails
<1>3. ASSUME NEW p \in Good, NEW c, Patch(StatusPhaseConditions(p, c)) PROVE HealthyNeverFails'
  <2>1. StatusPhaseConditions(p, c).phase = p
    BY <1>1, StatusFields
  <2> QED
    BY <1>2, <1>3, <2>1
<1>4. ASSUME NEW p \in Good, NEW c, NEW i, Patch([mem EXCEPT !.phase = p, !.info = i, !.cond = c])
      PROVE  HealthyNeverFails'
  <2>1. [mem EXCEPT !.phase = p, !.info = i, !.cond = c].phase = p
    BY <1>1 DEF MemPart, Resource
  <2> QED
    BY <1>2, <1>4, <2>1
<1>5. ASSUME log' = log PROVE HealthyNeverFails'
  BY <1>5 DEF server, HealthInv, HealthyNeverFails
<1>6. mem.phase \in Good \/ pc = "idle"
  BY <1>1 DEF Inv, At, SyncAt
<1>7. CASE ensureFinalizer
  <2>1. [mem EXCEPT !.finalizers = Finalizers].phase = mem.phase
    BY <1>1 DEF MemPart, Resource
  <2>2. CASE log' = log
    BY <1>5, <2>2
  <2>3. CASE Patch([mem EXCEPT !.finalizers = Finalizers])
    <3>1. pc = "finalizer"
      BY <1>7 DEF ensureFinalizer
    <3> QED
      BY <1>2, <1>6, <2>1, <2>3, <3>1
  <2> QED
    BY <1>7, <2>2, <2>3 DEF ensureFinalizer, PatchEnd, Return
<1>8. CASE initializePhaseForFileRestore
  BY <1>3, <1>8 DEF initializePhaseForFileRestore, PatchEnd
<1>9. CASE failValidation
  BY <1>9 DEF failValidation, HealthInv, WorkerHealthy
<1>10. CASE StartValidation
  BY <1>3, <1>10 DEF StartValidation, PatchThen, InProgress
<1>11. CASE validateReferencedDiscovery
  <2>1. CASE log' = log
    BY <1>5, <2>1
  <2>2. CASE PatchEnd(InProgress("WaitingForDiscovery"), TRUE)
    BY <1>3, <2>2 DEF PatchEnd, InProgress
  <2>3. CASE Patch(Discovering)
    BY <1>1, <1>2, <2>3, DiscoveringFields
  <2> QED
    BY <1>11, <2>1, <2>2, <2>3 DEF validateReferencedDiscovery, Goto, Discovering
<1>12. CASE processDiscoveryResults
  <2>1. PICK e : Patch([mem EXCEPT !.entries = e])
    BY <1>12 DEF processDiscoveryResults, PatchThen
  <2>2. [mem EXCEPT !.entries = e].phase = mem.phase /\ pc = "discover"
    BY <1>1, <1>12 DEF MemPart, Resource, processDiscoveryResults
  <2> QED
    BY <1>2, <1>6, <2>1, <2>2
<1>13. CASE ClassifyPVCs
  <2>1. HasAvailable(mem) # {} /\ NotFullyAvailable(mem) = {}
    BY <1>13 DEF ClassifyPVCs, HealthInv, WorkerHealthy
  <2> QED
    BY <1>3, <1>13, <2>1 DEF ClassifyPVCs, PatchEnd, InProgress
<1>14. CASE JudgeRestores
  BY <1>3, <1>5, <1>14, HealthyJudgement DEF PatchEnd, InProgress
<1>15. CASE NamespaceReady \/ WaitForRestores \/ CredentialsReady
  BY <1>3, <1>15 DEF NamespaceReady, WaitForRestores, CredentialsReady, PatchEnd, InProgress
<1>16. CASE PublishFileServer \/ WaitingForRoute
  BY <1>4, <1>5, <1>16 DEF PublishFileServer, WaitingForRoute, PatchEnd, Return
<1>17. CASE server'.phase = server.phase
  BY <1>17 DEF HealthInv, HealthyNeverFails
<1> QED
  BY <1>1, <1>7, <1>8, <1>9, <1>10, <1>11, <1>12, <1>13, <1>14, <1>15, <1>16, <1>17, WriterFields
     DEF Validation

\* Which stage a stage comes from.
LEMMA StageBefore ==
  ASSUME NEW s \in Lifecycle!Stages, NEW t \in Lifecycle!After(s)
  PROVE  /\ t \in FromPlaced => s \in FromValidated
         /\ t \in FromRestored => s \in FromRestored \/ (s = "restoring" /\ t = "restored")
         /\ t = "credentials" => s = "restored"
BY DEF Lifecycle!Stages, Lifecycle!After, Lifecycle!Settled, FromValidated, FromPlaced,
   FromRestored, FromRestoring

\* How the stage moves, by the refinement of RestoreLifecycle.
LEMMA StageMoves ==
  ASSUME TypeInv, TypeInv', LifeStep
  PROVE  \/ stage' = stage /\ (chosen' = chosen \/ stage = "validating")
         \/ /\ stage' \in Lifecycle!After(stage) /\ chosen' = chosen
            /\ stage' = "validated" => chosen # {}
<1>1. chosen = Available(server) /\ chosen' = Available(server)'
  BY AbstractState
<1>2. CASE UNCHANGED Lifecycle!vars
  BY <1>1, <1>2 DEF Lifecycle!vars, stage
<1>3. CASE \E s \in Lifecycle!Stages : Lifecycle!Advance(s)
  BY <1>1, <1>3 DEF Lifecycle!Advance, stage
<1>4. CASE \E B \in SUBSET Backups : Lifecycle!Choose(B)
  BY <1>4 DEF Lifecycle!Choose, stage
<1>5. CASE \/ \E b \in Backups : Lifecycle!Restore(b) \/ Lifecycle!RemoveRestore(b)
           \/ Lifecycle!Serve \/ Lifecycle!Delete \/ Lifecycle!RestoresRemoved
           \/ Lifecycle!StopServing \/ Lifecycle!Remove
  BY <1>1, <1>5 DEF Lifecycle!Restore, Lifecycle!RemoveRestore, Lifecycle!Serve, Lifecycle!Delete,
     Lifecycle!RestoresRemoved, Lifecycle!StopServing, Lifecycle!Remove, stage
<1> QED
  BY <1>2, <1>3, <1>4, <1>5 DEF LifeStep, Lifecycle!Next

LEMMA StageIsOne ==
  ASSUME TypeInv, ReasonInv
  PROVE  stage \in Lifecycle!Stages
<1>1. server.phase \in Phases
  BY ServerFields
<1> QED
  BY <1>1, PhaseOfStage DEF Phases, Terminal, Lifecycle!Stages, Lifecycle!Settled

\* The secrets go only when new ones are to be made, and with the file server.
LEMMA SecretsStay ==
  ASSUME [Next]_vars, "secrets" \in objs
  PROVE  "secrets" \in objs' \/ pc \in {"credentials", "cleanup", "delete secrets"}
<1>1. CASE Reconcile \/ NotFound \/ UNCHANGED vars \/ Validation
  BY <1>1 DEF Reconcile, NotFound, Return, vars, world, Validation, ensureFinalizer,
     initializePhaseForFileRestore, failValidation, StartValidation, validateReferencedDiscovery,
     processDiscoveryResults, ClassifyPVCs, PatchEnd, PatchThen
<1>2. CASE Workflow
  BY <1>2 DEF Workflow, ensureRestoreNamespace, RecordNamespace, ensureFileServerAccess,
     CreateObject, NamespaceReady, PrepareRestores, createVeleroRestores, RecordRestoreNames,
     WaitForRestores, monitorVeleroRestores, UpdatePhases, fixDataDownloadPVCNames, JudgeRestores,
     cleanupAllCredentialSecrets, ensureCredentials, CredentialsReady, PrepareFileServer,
     CreatePod, CreateService, createRoutesIfRequested, PublishFileServer, WaitingForRoute,
     PatchEnd, PatchThen, Return, world
<1>3. CASE Deletion
  BY <1>3 DEF Deletion, handleVeleroRestoreCleanup, DropRestoreFinalizer, DropFinalizer,
     handleResourceCleanup, deleteFileServerPods, deleteFileServerServices, deleteFileServerRoutes,
     deleteRestoredPVCs, deleteControllerSecrets, deleteFileServerAccess, DeleteObjects, PatchEnd,
     world
<1>4. CASE Environment
  BY <1>4 DEF Environment, ApiError, Crash, VeleroAdvances, ClaimAppears, ClaimLost, SetRestore,
     DiscoveryAdvances, DiscoveryDeleted, RouteAdmitted, UserDeletes, InformerDelivers,
     RestoresDelivered, world
<1> QED
  BY <1>1, <1>2, <1>3, <1>4 DEF Next, Controller

\* Claims stay until the clean-up.
LEMMA ClaimsStay ==
  ASSUME Inv, TypeInv', [Next]_vars, Untouched, ~\E b \in Backups : createVeleroRestores(b)
  PROVE  WithClaim(restores) \subseteq WithClaim(restores')
<1>1. RestoresBecome
  BY RestoreSteps DEF Inv
<1>2. pc \notin {"cleanup", "delete claims"}
  <2>1. pc \in RemovingObjects => server.deleting /\ pc \notin Serving
    BY RemovingPlaces DEF Inv, At, SyncAt
  <2> QED
    BY <2>1 DEF Untouched, RemovingObjects
<1> QED
  BY <1>1, <1>2 DEF RestoresBecome, Becomes, WithClaim

LEMMA StageHealthyStep ==
  ASSUME StaleReads = FALSE, HealthyConstants, Inv, Inv', HealthInv, LifeStep, [Next]_vars
  PROVE  StageHealthy'
<1>1. TypeInv /\ TypeInv' /\ ReasonInv /\ stage \in Lifecycle!Stages
  BY StageIsOne DEF Inv, WorldInv
<1>2. \/ stage' = stage /\ (chosen' = chosen \/ stage = "validating")
      \/ /\ stage' \in Lifecycle!After(stage) /\ chosen' = chosen
         /\ stage' = "validated" => chosen # {}
  BY <1>1, StageMoves
<1>3. ASSUME stage' \in FromValidated PROVE Chosen(server'.entries) # {}
  <2>1. "validating" \notin FromValidated
    BY DEF FromValidated, FromPlaced
  <2>2. chosen' = chosen /\ (stage \in FromValidated \/ chosen # {})
    BY <1>1, <1>2, <1>3, <2>1, StageBefore DEF FromValidated
  <2>3. chosen # {}
    BY <2>2 DEF HealthInv, StageHealthy, chosen
  <2> QED
    BY <2>2, <2>3 DEF chosen
<1>4. ASSUME Untouched' PROVE Untouched
  BY <1>1, <1>4, UntouchedBack
<1>5. pc # "fail"
  BY DEF HealthInv, WorkerHealthy
<1>6. /\ pc \in {"finalizer", "initialize"} => stage = "created"
      /\ pc = "validate" => stage = "new"
      /\ pc \in {"discovery", "discover", "classify"} => stage = "validating"
      /\ pc \in {"namespace", "record namespace", "namespace ready"} => stage = "validated"
      /\ pc \in {"create", "names", "waiting"} => stage = "placed"
      /\ pc \in {"update", "judge"} => stage = "restoring"
      /\ pc \in {"credentials", "credentials ready"} => stage = "restored"
      /\ pc = "publish" => stage = "credentials"
      /\ pc = "route check" => stage = "exposing"
  BY DEF Inv, At, StageAt
<1>7. ASSUME stage' # stage, stage \in {"restoring", "restored"}
      PROVE  /\ stage = "restoring" => JudgeRestores
             /\ stage = "restored" => CredentialsReady
  <2>1. ~(server'.phase = server.phase /\ server'.cond = server.cond)
    BY <1>7 DEF stage, LifeStage
  <2>2. \/ Validation \/ NamespaceReady \/ WaitForRestores \/ JudgeRestores \/ CredentialsReady
        \/ PublishFileServer \/ WaitingForRoute
    BY <1>1, <2>1, WriterFields
  <2>3. ~Validation
    BY <1>5, <1>6, <1>7 DEF Validation, ensureFinalizer, initializePhaseForFileRestore,
       failValidation, StartValidation, validateReferencedDiscovery, processDiscoveryResults,
       ClassifyPVCs
  <2> QED
    BY <1>6, <1>7, <2>2, <2>3 DEF NamespaceReady, WaitForRestores, JudgeRestores, CredentialsReady,
       PublishFileServer, WaitingForRoute
<1>8. ASSUME stage' \in FromRestored, Untouched'
      PROVE  NamesOf(server'.entries) \subseteq WithClaim(restores')
  <2>1. Untouched
    BY <1>4, <1>8
  <2>2. stage \in FromRestored \/ (stage = "restoring" /\ stage' = "restored")
    BY <1>1, <1>2, <1>8, StageBefore
  <2>3. ASSUME NEW b \in Backups PROVE ~createVeleroRestores(b)
    BY <1>6, <2>2 DEF createVeleroRestores, FromRestored, FromRestoring, FromPlaced
  <2>4. WithClaim(restores) \subseteq WithClaim(restores')
    BY <1>1, <2>1, <2>3, ClaimsStay
  <2>5. ~processDiscoveryResults /\ ~RecordRestoreNames
    BY <1>6, <2>2 DEF processDiscoveryResults, RecordRestoreNames, FromRestored, FromRestoring,
       FromPlaced
  <2>6. CASE stage \in FromRestored
    <3>1. ~UpdatePhases
      BY <1>6, <2>6 DEF UpdatePhases, FromRestored, FromRestoring, FromPlaced
    <3>2. server'.entries = server.entries
      BY <1>1, <2>5, <3>1, WriterFields
    <3>3. NamesOf(server.entries) \subseteq WithClaim(restores)
      BY <2>1, <2>6 DEF HealthInv, StageHealthy
    <3> QED
      BY <2>4, <3>2, <3>3
  <2>7. CASE stage = "restoring" /\ stage' = "restored"
    <3>1. JudgeRestores
      BY <1>7, <2>7
    <3>2. ClaimsReady /\ pc = "judge"
      <4>1. log' = log => stage' = stage
        BY DEF stage, server
      <4> QED
        BY <2>7, <3>1, <4>1, HealthyJudgement
    <3>3. server'.entries = server.entries
      BY <1>1, <2>5, <3>2, WriterFields DEF UpdatePhases
    <3>4. /\ mem.entries = server.entries /\ PVCMounts(mem) = NamesOf(mem.entries)
          /\ PVCMounts(mem) \subseteq 1..Len(restores)
      BY <3>2, HealthyMounts
    <3>5. NamesOf(server.entries) \subseteq WithClaim(restores)
      BY <3>2, <3>4 DEF ClaimsReady, WithClaim
    <3> QED
      BY <2>4, <3>3, <3>5
  <2> QED
    BY <2>2, <2>6, <2>7
<1>9. ASSUME stage' = "credentials", Untouched' PROVE "secrets" \in objs'
  <2>1. stage \in {"credentials", "restored"}
    BY <1>1, <1>2, <1>9, StageBefore
  <2>2. CASE stage = "credentials"
    <3>1. "secrets" \in objs /\ Untouched
      BY <1>4, <1>9, <2>2 DEF HealthInv, StageHealthy
    <3>2. pc \notin {"cleanup", "delete secrets"}
      <4>1. pc \in RemovingObjects => server.deleting /\ pc \notin Serving
        BY RemovingPlaces DEF Inv, At, SyncAt
      <4> QED
        BY <3>1, <4>1 DEF Untouched, RemovingObjects
    <3> QED
      BY <1>6, <2>2, <3>1, <3>2, SecretsStay
  <2>3. CASE stage = "restored"
    <3>1. CredentialsReady
      BY <1>7, <1>9, <2>3
    <3> QED
      BY <3>1 DEF CredentialsReady, PatchEnd, world, HealthInv, WorkerHealthy
  <2> QED
    BY <2>1, <2>2, <2>3
<1> QED
  BY <1>3, <1>8, <1>9 DEF StageHealthy

LEMMA HealthStep ==
  ASSUME StaleReads = FALSE, HealthyConstants, Inv, Inv', HealthInv, LifeStep, [Next]_vars
  PROVE  HealthInv'
<1>1. TypeInv /\ TypeInv'
  BY DEF Inv
<1>2. DiscoveryHealthy' /\ RestoresHealthy'
  BY <1>1, DiscoveryHealthyStep, RestoresHealthyStep DEF HealthInv
<1>3. WorkerHealthy' /\ StageHealthy' /\ HealthyNeverFails'
  BY WorkerHealthyStep, StageHealthyStep, NeverFailsStep
<1> QED
  BY <1>2, <1>3 DEF HealthInv

\* A file restore of readable backups that hold claims, found by a discovery that
\* completes and restored by Restores that succeed, never becomes Failed or
\* PartiallyFailed while no API call fails: neither a restart of the controller
\* between two writes, nor a claim or a DataDownload that comes late, nor a
\* deletion makes validateAndDiscoverPVCs, monitorVeleroRestores or
\* createFileServerResources give up.
THEOREM HealthyIsNotFailed ==
  ASSUME StaleReads = FALSE, HealthyConstants
  PROVE  Spec => []HealthyNeverFails
<1>1. Init => HealthInv
  BY HealthInit
<1>2. Inv /\ Inv' /\ HealthInv /\ [Next]_vars => HealthInv'
  BY StepCore, HealthStep
<1>3. HealthInv => HealthyNeverFails
  BY DEF HealthInv
<1> QED
  BY <1>1, <1>2, <1>3, InvHolds, PTL DEF Spec

-----------------------------------------------------------------------------
(***************************************************************************)
(* Cleaning up.  Without a crash or a failing call (MaxFaults = 0) nothing *)
(* is created that the status does not lead to: the namespace is recorded  *)
(* before anything is put in it, and every Restore before the reconcile    *)
(* that created it is over.  The deletion then finds everything.           *)
(***************************************************************************)
NoClaims == \A i \in 1..Len(restores) : restores[i].claim = "none"
Removed == objs = {} /\ NoClaims /\ (spec.target = "temporary" => ~namespace)

\* CleanInv, the inductive invariant: a namespace not yet recorded is about to be
\* and holds no claim,
NamespaceClean ==
  /\ ~server.createdNamespace => restores = <<>>
  /\ spec.target = "temporary" /\ namespace /\ ~server.createdNamespace => pc = "record namespace"
  /\ ~namespace => NoClaims

IsRecorded(i, e) == \E b \in Backups : e[b].restore = i
OnePerBackup ==
  \A i, j \in 1..Len(restores) : restores[i].backup = restores[j].backup => i = j

\* outside createVeleroRestores the status names every Restore, within it there is
\* one per backup,
RestoresClean ==
  /\ pc \notin {"create", "names"} => \A i \in 1..Len(restores) : IsRecorded(i, server.entries)
  /\ pc \in {"create", "names"} => OnePerBackup
  /\ pc = "create" => \A i \in 1..Len(restores) : restores[i].backup \notin todo

\* and the removal of the objects has removed what it has passed.
RemovalClean ==
  /\ pc \in {"delete claims", "delete secrets", "delete access", "drop finalizer"} =>
       "route" \notin objs /\ "route host" \notin objs
  /\ pc \in {"delete secrets", "delete access", "drop finalizer"} => NoClaims
  /\ pc \in RemovingObjects \ {"cleanup", "drop finalizer"} => spec.target # "temporary"
  /\ pc = "drop finalizer" /\ spec.target = "temporary" => ~namespace

CleanInv ==
  NamespaceClean /\ RestoresClean /\ RemovalClean /\ (~server.exists => Removed)

LEMMA CleanInit ==
  ASSUME Init
  PROVE  CleanInv
<1>1. /\ server = Created /\ restores = <<>> /\ pc = "idle"
      /\ namespace = (spec.target = "existing") /\ Created.exists
  BY DEF Init, server, Created
<1>2. Len(restores) = 0 /\ 1..Len(restores) = {}
  BY <1>1
<1>3. NamespaceClean
  BY <1>1, <1>2 DEF NamespaceClean, NoClaims
<1>4. RestoresClean
  BY <1>1, <1>2 DEF RestoresClean
<1>5. RemovalClean
  BY <1>1 DEF RemovalClean, RemovingObjects
<1> QED
  BY <1>1, <1>3, <1>4, <1>5 DEF CleanInv

LEMMA NoFaults ==
  ASSUME MaxFaults = 0, TypeInv
  PROVE  ~ApiError /\ ~Crash
<1>1. faults \in 0..0
  BY DEF TypeInv, WorkerPart
<1>2. ~(faults > 0)
  BY <1>1
<1> QED
  BY <1>2 DEF ApiError, Crash

\* The namespace comes with ensureRestoreNamespace and goes with handleResourceCleanup.
LEMMA NamespaceMoves ==
  ASSUME [Next]_vars
  PROVE  \/ namespace' = namespace
         \/ pc = "namespace" /\ namespace' = TRUE /\ pc' = "record namespace"
         \/ /\ pc = "cleanup" /\ namespace' = FALSE /\ objs' = {}
            /\ restores' = [i \in 1..Len(restores) |-> [restores[i] EXCEPT !.claim = "none"]]
<1>1. CASE Reconcile \/ NotFound \/ UNCHANGED vars \/ Validation
  BY <1>1 DEF Reconcile, NotFound, Return, vars, world, Validation, ensureFinalizer,
     initializePhaseForFileRestore, failValidation, StartValidation, validateReferencedDiscovery,
     processDiscoveryResults, ClassifyPVCs, PatchEnd, PatchThen
<1>2. CASE Workflow
  BY <1>2 DEF Workflow, ensureRestoreNamespace, RecordNamespace, ensureFileServerAccess,
     CreateObject, NamespaceReady, PrepareRestores, createVeleroRestores, RecordRestoreNames,
     WaitForRestores, monitorVeleroRestores, UpdatePhases, fixDataDownloadPVCNames, JudgeRestores,
     cleanupAllCredentialSecrets, ensureCredentials, CredentialsReady, PrepareFileServer,
     CreatePod, CreateService, createRoutesIfRequested, PublishFileServer, WaitingForRoute,
     PatchEnd, PatchThen, Return, Goto, world
<1>3. CASE Deletion
  BY <1>3 DEF Deletion, handleVeleroRestoreCleanup, DropRestoreFinalizer, DropFinalizer,
     handleResourceCleanup, deleteFileServerPods, deleteFileServerServices, deleteFileServerRoutes,
     deleteRestoredPVCs, deleteControllerSecrets, deleteFileServerAccess, DeleteObjects, PatchEnd,
     world
<1>4. CASE Environment
  BY <1>4 DEF Environment, ApiError, Crash, VeleroAdvances, ClaimAppears, ClaimLost, SetRestore,
     DiscoveryAdvances, DiscoveryDeleted, RouteAdmitted, UserDeletes, InformerDelivers,
     RestoresDelivered, world
<1> QED
  BY <1>1, <1>2, <1>3, <1>4 DEF Next, Controller

\* Without faults, a reconcile under way goes on where it is.
LEMMA WorkerMoves ==
  ASSUME MaxFaults = 0, Inv, [Next]_vars, pc # "idle"
  PROVE  \/ Validation \/ Workflow \/ Deletion \/ (~server.exists /\ pc' = "idle")
         \/ UNCHANGED <<pc, mem, todo, seen>>
<1>1. ~ApiError /\ ~Crash
  BY NoFaults DEF Inv
<1>2. CASE Environment
  BY <1>1, <1>2 DEF Environment, VeleroAdvances, ClaimAppears, ClaimLost, SetRestore,
     DiscoveryAdvances, DiscoveryDeleted, RouteAdmitted, UserDeletes, InformerDelivers,
     RestoresDelivered, worker
<1>3. CASE Reconcile \/ NotFound \/ UNCHANGED vars
  BY <1>3 DEF Reconcile, NotFound, Return, EndReconcile, vars, worker
<1> QED
  BY <1>2, <1>3 DEF Next, Controller

\* No claim appears without a namespace, or without a Restore.
LEMMA ClaimsStayAway ==
  ASSUME TypeInv, TypeInv', [Next]_vars, NoClaims, ~\E b \in Backups : createVeleroRestores(b),
         ~namespace \/ Existing(restores) = {}
  PROVE  NoClaims'
<1>1. RestoresBecome
  BY RestoreSteps
<1> QED
  BY <1>1 DEF RestoresBecome, Becomes, NoClaims, Existing

LEMMA NamespaceCleanStep ==
  ASSUME MaxFaults = 0, Inv, Inv', CleanInv, [Next]_vars
  PROVE  NamespaceClean'
<1>1. TypeInv /\ TypeInv' /\ spec' = spec
  BY SpecKept DEF Inv
<1>2. ASSUME ~server'.createdNamespace PROVE ~server.createdNamespace /\ ~RecordNamespace
  <2>1. ~RecordNamespace
    <3>1. RecordNamespace => pc' = "serviceaccount"
      BY DEF RecordNamespace, PatchThen
    <3>2. pc' = "serviceaccount" => server'.createdNamespace
      BY DEF Inv, At, WorldAt
    <3> QED
      BY <1>2, <3>1, <3>2
  <2> QED
    BY <1>1, <1>2, <2>1, WriterFields
<1>3. ASSUME NEW b \in Backups, createVeleroRestores(b)
      PROVE  server.createdNamespace /\ namespace /\ namespace' = namespace
  <2>1. pc = "create" /\ stage = "placed" /\ Untouched
    BY <1>3 DEF createVeleroRestores, Inv, At, StageAt, Untouched, Serving
  <2> QED
    BY <1>3, <2>1 DEF Inv, WorldInv, Claims, FromPlaced, ObjectInv, createVeleroRestores
<1>4. ASSUME ~server'.createdNamespace PROVE restores' = <<>>
  <2>1. restores = <<>> /\ ~server.createdNamespace
    BY <1>2, <1>4 DEF CleanInv, NamespaceClean
  <2>2. Len(restores') = 0
    BY <1>1, <1>3, <2>1, RestoreSteps DEF RestoresBecome
  <2> QED
    BY <1>1, <2>2 DEF TypeInv, RestoresPart
<1>5. ASSUME spec'.target = "temporary", namespace', ~server'.createdNamespace
      PROVE  pc' = "record namespace"
  <2>1. ~server.createdNamespace /\ ~RecordNamespace
    BY <1>2, <1>5
  <2>2. CASE namespace
    <3>1. pc = "record namespace"
      BY <1>1, <1>5, <2>1, <2>2 DEF CleanInv, NamespaceClean
    <3>2. server.exists
      BY <3>1 DEF Inv, At, SyncAt, Serving
    <3>3. ~Validation
      BY <3>1 DEF Validation, ensureFinalizer, initializePhaseForFileRestore, failValidation,
         StartValidation, validateReferencedDiscovery, processDiscoveryResults, ClassifyPVCs
    <3>4. ~Workflow
      BY <2>1, <3>1 DEF Workflow, AccessObjects, ensureRestoreNamespace, ensureFileServerAccess,
         CreateObject,
         NamespaceReady, PrepareRestores, createVeleroRestores, RecordRestoreNames,
         WaitForRestores, monitorVeleroRestores, UpdatePhases, fixDataDownloadPVCNames,
         JudgeRestores, cleanupAllCredentialSecrets, ensureCredentials, CredentialsReady,
         PrepareFileServer, CreatePod, CreateService, createRoutesIfRequested, PublishFileServer,
         WaitingForRoute
    <3>5. ~Deletion
      BY <3>1 DEF Deletion, handleVeleroRestoreCleanup, DropRestoreFinalizer, DropFinalizer,
         handleResourceCleanup, deleteFileServerPods, deleteFileServerServices,
         deleteFileServerRoutes, deleteRestoredPVCs, deleteControllerSecrets,
         deleteFileServerAccess, DeleteObjects
    <3> QED
      BY <3>1, <3>2, <3>3, <3>4, <3>5, WorkerMoves
  <2>3. CASE ~namespace
    BY <1>5, <2>3, NamespaceMoves
  <2> QED
    BY <2>2, <2>3
<1>6. ASSUME ~namespace' PROVE NoClaims'
  <2>1. CASE ~namespace
    <3>1. NoClaims
      BY <2>1 DEF CleanInv, NamespaceClean
    <3> QED
      BY <1>1, <1>3, <2>1, <3>1, ClaimsStayAway
  <2>2. CASE namespace
    <3>1. restores' = [i \in 1..Len(restores) |-> [restores[i] EXCEPT !.claim = "none"]]
      BY <1>6, <2>2, NamespaceMoves
    <3>2. Len(restores') = Len(restores)
      BY <1>1, <1>3, <1>6, <2>2, RestoreSteps DEF RestoresBecome
    <3>3. ASSUME NEW i \in 1..Len(restores) PROVE restores'[i].claim = "none"
      <4>1. restores[i] \in VeleroRestore
        BY <1>1, RestoreTypes
      <4>2. [restores[i] EXCEPT !.claim = "none"].claim = "none"
        BY <4>1 DEF VeleroRestore
      <4> QED
        BY <3>1, <4>2
    <3> QED
      BY <3>2, <3>3 DEF NoClaims
  <2> QED
    BY <2>1, <2>2
<1> QED
  BY <1>1, <1>4, <1>5, <1>6 DEF NamespaceClean

\* A Restore and its name: names are written before the reconcile ends.
LEMMA RestoresCleanStep ==
  ASSUME StaleReads = FALSE, MaxFaults = 0, Inv, Inv', CleanInv, [Next]_vars
  PROVE  RestoresClean'
<1> DEFINE Creating == {"create", "names"}
<1>1. TypeInv /\ TypeInv' /\ Len(restores) \in Nat
  BY DEF Inv, TypeInv, RestoresPart
<1>2. ASSUME NEW b \in Backups, createVeleroRestores(b) PROVE RestoresClean'
  <2>1. /\ restores' = Append(restores, NewRestore(b)) /\ restores \in Seq(VeleroRestore)
        /\ pc = "create" /\ b \in todo /\ todo' = todo \ {b} /\ pc' \in Creating
    BY <1>1, <1>2 DEF createVeleroRestores, TypeInv, RestoresPart
  <2>2. /\ Len(restores') = Len(restores) + 1
        /\ \A i \in 1..Len(restores) : restores'[i] = restores[i]
        /\ restores'[Len(restores) + 1].backup = b
    BY <2>1 DEF NewRestore
  <2>3. \A i \in 1..Len(restores') : i \in 1..Len(restores) \/ i = Len(restores) + 1
    BY <1>1, <2>2
  <2>4. OnePerBackup /\ \A i \in 1..Len(restores) : restores[i].backup \notin todo
    BY <2>1 DEF CleanInv, RestoresClean
  <2>5. ASSUME NEW i \in 1..Len(restores'), NEW j \in 1..Len(restores'),
               restores'[i].backup = restores'[j].backup
        PROVE  i = j
    BY <2>1, <2>2, <2>3, <2>4, <2>5 DEF OnePerBackup
  <2>6. ASSUME NEW i \in 1..Len(restores') PROVE restores'[i].backup \notin todo'
    BY <2>1, <2>2, <2>3, <2>4
  <2> QED
    BY <2>1, <2>5, <2>6 DEF RestoresClean, OnePerBackup
<1>3. CASE ~\E b \in Backups : createVeleroRestores(b)
  <2>1. /\ Len(restores') = Len(restores)
        /\ \A i \in 1..Len(restores) : restores'[i].backup = restores[i].backup
    BY <1>1, <1>3, RestoreSteps DEF RestoresBecome, Becomes
  <2>2. CASE RecordRestoreNames
    <3>1. pc = "names" /\ pc' = "waiting"
      BY <2>2 DEF RecordRestoreNames, PatchThen
    <3>2. /\ OnePerBackup /\ mem.entries = server.entries /\ mem.finalizers = server.finalizers
          /\ pc \in Serving \ {"finalizer", "update"}
      BY <3>1 DEF CleanInv, RestoresClean, Inv, At, SyncAt, Serving
    <3>3. PICK e : e = [b \in Backups |->
                          IF b \in Available(mem)
                            THEN [mem.entries[b] EXCEPT !.restore = Newest(b), !.phase = "New"]
                            ELSE mem.entries[b]]
      OBVIOUS
    <3>4. Patch([mem EXCEPT !.entries = e]) /\ restores' = restores
      BY <2>2, <3>3 DEF RecordRestoreNames, PatchThen, world
    <3>5. Unnamed(server.entries)
      BY <3>1 DEF Inv, At, ChoiceAt
    <3>6. e \in [Backups -> Entry] /\ \A b \in Backups : EntryOK(e[b], Len(restores))
      BY <3>1, <3>2, <3>3, <3>5, NewNames
    <3>7. server'.entries = e
      <4>1. PICK new : new = [mem EXCEPT !.entries = e]
        OBVIOUS
      <4>2. new \in Resource /\ EntriesOK(new, Len(restores))
        BY <1>1, <3>6, <4>1, NewEntriesType DEF TypeInv
      <4>3. new.finalizers = mem.finalizers /\ new.entries = e
        BY <1>1, <4>1 DEF TypeInv, MemPart, Resource
      <4> QED
        BY <1>1, <3>2, <3>4, <4>1, <4>2, <4>3, PatchServing DEF Inv, At
    <3>8. ASSUME NEW i \in 1..Len(restores) PROVE IsRecorded(i, e)
      <4>1. PICK b \in Backups : b = restores[i].backup
        BY <1>1, RestoreTypes DEF VeleroRestore
      <4>2. b \in Available(mem)
        <5>1. BackupsOf(restores)[i] \in Chosen(server.entries)
          BY DEF Inv, WorldInv, RestoreInv
        <5> QED
          BY <3>2, <4>1, <5>1, BackupsOfAt, AvailableIsChosen
      <4>3. Newest(b) \in 1..Len(restores) /\ restores[Newest(b)].backup = b
        BY <1>1, <4>1, NewestIsOne DEF HasRestore, TypeInv
      <4>4. Newest(b) = i
        BY <3>2, <4>1, <4>3 DEF OnePerBackup
      <4>5. e[b] = [mem.entries[b] EXCEPT !.restore = Newest(b), !.phase = "New"]
        BY <3>3, <4>2
      <4>6. mem.entries[b] \in Entry
        BY <1>1 DEF TypeInv, MemPart, Resource
      <4>7. e[b].restore = i
        BY <4>4, <4>5, <4>6 DEF Entry
      <4> QED
        BY <4>7 DEF IsRecorded
    <3> QED
      BY <3>1, <3>4, <3>7, <3>8 DEF RestoresClean
  <2>3. CASE ~RecordRestoreNames /\ pc \in Creating
    <3>1. server.exists
      BY <2>3 DEF Inv, At, SyncAt, Serving
    <3>2. ~Validation /\ ~Deletion
      BY <2>3 DEF Validation, ensureFinalizer, initializePhaseForFileRestore, failValidation,
         StartValidation, validateReferencedDiscovery, processDiscoveryResults, ClassifyPVCs,
         Deletion, handleVeleroRestoreCleanup, DropRestoreFinalizer, DropFinalizer,
         handleResourceCleanup, deleteFileServerPods, deleteFileServerServices,
         deleteFileServerRoutes, deleteRestoredPVCs, deleteControllerSecrets,
         deleteFileServerAccess, DeleteObjects
    <3>3. ~Workflow
      BY <1>3, <2>3 DEF Workflow, AccessObjects, ensureRestoreNamespace, RecordNamespace,
         ensureFileServerAccess,
         CreateObject, NamespaceReady, PrepareRestores, WaitForRestores, monitorVeleroRestores,
         UpdatePhases, fixDataDownloadPVCNames, JudgeRestores, cleanupAllCredentialSecrets,
         ensureCredentials, CredentialsReady, PrepareFileServer, CreatePod, CreateService,
         createRoutesIfRequested, PublishFileServer, WaitingForRoute
    <3>4. pc' = pc /\ todo' = todo
      BY <2>3, <3>1, <3>2, <3>3, WorkerMoves
    <3> QED
      BY <2>1, <2>3, <3>4 DEF CleanInv, RestoresClean, OnePerBackup
  <2>4. CASE pc \notin Creating /\ pc' \in Creating
    <3>1. PrepareRestores /\ pc' = "create" /\ ~checkVeleroRestoresAlreadyCreated(mem)
      <4>1. CASE Validation
        BY <2>4, <4>1 DEF Validation, ensureFinalizer, initializePhaseForFileRestore,
           failValidation, StartValidation, validateReferencedDiscovery, processDiscoveryResults,
           ClassifyPVCs, PatchEnd, PatchThen, EndReconcile, Return, Goto
      <4>2. CASE Deletion
        BY <2>4, <4>2 DEF Deletion, handleVeleroRestoreCleanup, DropRestoreFinalizer,
           DropFinalizer, handleResourceCleanup, deleteFileServerPods, deleteFileServerServices,
           deleteFileServerRoutes, deleteRestoredPVCs, deleteControllerSecrets,
           deleteFileServerAccess, DeleteObjects, PatchEnd, EndReconcile, Goto, worker
      <4>3. CASE Workflow
        BY <1>3, <2>4, <4>3 DEF Workflow, ensureRestoreNamespace, RecordNamespace,
           ensureFileServerAccess, CreateObject, NamespaceReady, PrepareRestores,
           RecordRestoreNames, WaitForRestores, monitorVeleroRestores, UpdatePhases,
           fixDataDownloadPVCNames, JudgeRestores, cleanupAllCredentialSecrets, ensureCredentials,
           CredentialsReady, PrepareFileServer, CreatePod, CreateService, createRoutesIfRequested,
           PublishFileServer, WaitingForRoute, PatchEnd, PatchThen, EndReconcile, Return, Goto
      <4>4. CASE Reconcile
        BY <2>4, <4>4, ReconcileFirst DEF FirstPlaces
      <4>5. CASE pc = "idle" /\ ~Reconcile
        <5>1. ~Validation /\ ~Workflow /\ ~Deletion
          BY <2>4, <4>1, <4>2, <4>3, <4>5 DEF PrepareRestores
        <5>2. ~ApiError /\ ~Crash
          BY <1>1, NoFaults
        <5>3. pc' = pc
          BY <4>5, <5>1, <5>2 DEF Next, Controller, Environment, VeleroAdvances, ClaimAppears,
             ClaimLost, SetRestore, DiscoveryAdvances, DiscoveryDeleted, RouteAdmitted,
             UserDeletes, InformerDelivers, RestoresDelivered, worker, vars, NotFound, Return,
             EndReconcile
        <5> QED
          BY <2>4, <5>3
      <4>6. CASE pc # "idle" /\ ~Validation /\ ~Workflow /\ ~Deletion
        BY <2>4, <4>6, WorkerMoves
      <4> QED
        BY <4>1, <4>2, <4>3, <4>4, <4>5, <4>6
    <3>2. pc = "restores" /\ stage = "placed" /\ mem.entries = server.entries
      BY <3>1 DEF PrepareRestores, Inv, At, StageAt, SyncAt
    <3>3. ~Named(server.entries)
      BY <3>1, <3>2, AvailableIsChosen DEF checkVeleroRestoresAlreadyCreated, Named
    <3>4. Unnamed(server.entries)
      BY <3>2, <3>3 DEF Inv, WorldInv, Claims
    <3>5. \A i \in 1..Len(restores) : IsRecorded(i, server.entries)
      BY <2>4 DEF CleanInv, RestoresClean
    <3>6. 1..Len(restores) = {}
      <4>1. \A i \in 1..Len(restores) : i = 0
        BY <3>4, <3>5 DEF Unnamed, IsRecorded
      <4> QED
        BY <1>1, <4>1
    <3>7. 1..Len(restores') = {}
      BY <2>1, <3>6
    <3> QED
      BY <2>4, <3>7 DEF RestoresClean, OnePerBackup
  <2>5. CASE ~RecordRestoreNames /\ pc \notin Creating /\ pc' \notin Creating
    <3>1. \A i \in 1..Len(restores) : IsRecorded(i, server.entries)
      BY <2>5 DEF CleanInv, RestoresClean
    <3>2. CASE server'.entries = server.entries
      BY <2>1, <2>5, <3>1, <3>2 DEF RestoresClean
    <3>3. CASE processDiscoveryResults
      <4>1. stage = "validating"
        BY <3>3 DEF processDiscoveryResults, Inv, At, StageAt
      <4>2. restores = <<>>
        BY <4>1 DEF Inv, WorldInv, Claims, UpToValidated
      <4>3. 1..Len(restores') = {}
        BY <2>1, <4>2
      <4> QED
        BY <2>5, <4>3 DEF RestoresClean
    <3>4. CASE UpdatePhases
      <4>1. CASE log' = log
        BY <3>2, <4>1 DEF server
      <4>2. CASE Replace(mem)
        <5>1. pc = "update" /\ UNCHANGED restores
          BY <3>4 DEF UpdatePhases, Return, world
        <5>2. server' = mem
          BY <1>1, <4>2, <5>1, ReplaceType DEF TypeInv, MemPart
        <5>3. SameNames(mem.entries, server.entries)
          BY <5>1 DEF Inv, At, ChoiceAt
        <5>4. \A i \in 1..Len(restores) : IsRecorded(i, mem.entries)
          BY <3>1, <5>3 DEF SameNames, IsRecorded
        <5> QED
          BY <2>5, <5>1, <5>2, <5>4 DEF RestoresClean
      <4> QED
        BY <3>4, <4>1, <4>2 DEF UpdatePhases, Return
    <3> QED
      BY <1>1, <2>5, <3>2, <3>3, <3>4, WriterFields
  <2> QED
    BY <2>2, <2>3, <2>4, <2>5
<1> QED
  BY <1>2, <1>3

\* The objects come from a reconcile that serves, and the route's host with the route.
LEMMA ObjectsCome ==
  ASSUME [Next]_vars
  PROVE  \/ objs' \subseteq objs
         \/ pc \in Serving \ {"finalizer"}
         \/ RouteAdmitted /\ "route" \in objs
<1>1. CASE Reconcile \/ NotFound \/ UNCHANGED vars \/ Validation
  BY <1>1 DEF Reconcile, NotFound, Return, vars, world, Validation, ensureFinalizer,
     initializePhaseForFileRestore, failValidation, StartValidation, validateReferencedDiscovery,
     processDiscoveryResults, ClassifyPVCs, PatchEnd, PatchThen
<1>2. CASE Workflow
  BY <1>2 DEF Serving, Workflow, AccessObjects, ensureRestoreNamespace, RecordNamespace,
     ensureFileServerAccess,
     CreateObject, NamespaceReady, PrepareRestores, createVeleroRestores, RecordRestoreNames,
     WaitForRestores, monitorVeleroRestores, UpdatePhases, fixDataDownloadPVCNames, JudgeRestores,
     cleanupAllCredentialSecrets, ensureCredentials, CredentialsReady, PrepareFileServer,
     CreatePod, CreateService, createRoutesIfRequested, PublishFileServer, WaitingForRoute
<1>3. CASE Deletion
  BY <1>3 DEF Deletion, handleVeleroRestoreCleanup, DropRestoreFinalizer, DropFinalizer,
     handleResourceCleanup, deleteFileServerPods, deleteFileServerServices, deleteFileServerRoutes,
     deleteRestoredPVCs, deleteControllerSecrets, deleteFileServerAccess, DeleteObjects, PatchEnd,
     world
<1>4. CASE Environment
  BY <1>4 DEF Environment, ApiError, Crash, VeleroAdvances, ClaimAppears, ClaimLost, SetRestore,
     DiscoveryAdvances, DiscoveryDeleted, RouteAdmitted, UserDeletes, InformerDelivers,
     RestoresDelivered, world
<1> QED
  BY <1>1, <1>2, <1>3, <1>4 DEF Next, Controller

\* Without faults, only the deletion itself moves through the removal of the objects.
LEMMA RemovalQuiet ==
  ASSUME StaleReads = FALSE, MaxFaults = 0, Inv, [Next]_vars, ~Deletion,
         pc' \in RemovingObjects \ {"cleanup"}
  PROVE  pc' = pc
<1>1. pc' \notin Serving /\ pc' # "idle"
  BY RemovingPlaces
<1>2. ~Validation
  BY <1>1 DEF Serving, Validation, ensureFinalizer, initializePhaseForFileRestore,
     failValidation, StartValidation, validateReferencedDiscovery, processDiscoveryResults,
     ClassifyPVCs, PatchEnd, PatchThen, EndReconcile, Return, Goto
<1>3. ~Workflow
  BY <1>1 DEF Serving, Workflow, ensureRestoreNamespace, RecordNamespace, ensureFileServerAccess,
     CreateObject, NamespaceReady, PrepareRestores, createVeleroRestores, RecordRestoreNames,
     WaitForRestores, monitorVeleroRestores, UpdatePhases, fixDataDownloadPVCNames, JudgeRestores,
     cleanupAllCredentialSecrets, ensureCredentials, CredentialsReady, PrepareFileServer,
     CreatePod, CreateService, createRoutesIfRequested, PublishFileServer, WaitingForRoute,
     PatchEnd, PatchThen, EndReconcile, Return, Goto
<1>4. CASE Reconcile
  BY <1>4, ReconcileFirst DEF FirstPlaces, RemovingObjects
<1>5. ~ApiError /\ ~Crash
  BY NoFaults DEF Inv
<1>6. CASE NotFound \/ UNCHANGED vars \/ Environment
  BY <1>1, <1>5, <1>6 DEF Environment, VeleroAdvances, ClaimAppears, ClaimLost, SetRestore,
     DiscoveryAdvances, DiscoveryDeleted, RouteAdmitted, UserDeletes, InformerDelivers,
     RestoresDelivered, worker, vars, NotFound, Return, EndReconcile
<1> QED
  BY <1>2, <1>3, <1>4, <1>6 DEF Next, Controller

LEMMA RemovalCleanStep ==
  ASSUME StaleReads = FALSE, MaxFaults = 0, Inv, Inv', CleanInv, NamespaceClean', [Next]_vars
  PROVE  RemovalClean'
<1>1. TypeInv /\ TypeInv' /\ spec' = spec
  BY SpecKept DEF Inv
<1>2. ASSUME pc \in RemovingObjects
      PROVE  /\ mem.createdNamespace = server.createdNamespace /\ mem.entries = server.entries
             /\ Existing(restores) = {}
             /\ ~\E b \in Backups : createVeleroRestores(b)
             /\ pc \notin Serving
  <2>1. pc # "idle" /\ pc # "update" /\ pc # "create" /\ pc \notin Serving
    BY <1>2, RemovingPlaces DEF Serving
  <2>2. server.deleting /\ server.finalizers = {"vm-file-restore"}
    BY <1>2 DEF Inv, At, SyncAt
  <2>3. Existing(restores) = {}
    BY <2>2 DEF Inv, WorldInv, RestoreInv
  <2> QED
    BY <2>1, <2>3 DEF Inv, At, SyncAt, createVeleroRestores
<1>3. CASE pc' \notin RemovingObjects \ {"cleanup"}
  BY <1>3 DEF RemovalClean, RemovingObjects
<1>4. CASE pc' \in RemovingObjects \ {"cleanup"} /\ ~Deletion
  <2>1. pc' = pc
    BY <1>4, RemovalQuiet
  <2>2. objs' \subseteq objs \/ "route" \in objs
    BY <1>2, <1>4, <2>1, ObjectsCome
  <2>3. namespace' = namespace
    BY <1>4, <2>1, NamespaceMoves DEF RemovingObjects
  <2>4. NoClaims => NoClaims'
    BY <1>1, <1>2, <1>4, <2>1, ClaimsStayAway
  <2> QED
    BY <1>1, <2>1, <2>2, <2>3, <2>4 DEF CleanInv, RemovalClean
<1>5. CASE Deletion /\ pc' \in RemovingObjects \ {"cleanup"}
  <2>1. CASE handleResourceCleanup
    <3>1. pc = "cleanup" /\ mem.createdNamespace = server.createdNamespace
      BY <1>2, <2>1 DEF handleResourceCleanup, RemovingObjects
    <3>2. CASE ~mem.createdNamespace \/ ~namespace
      <4>1. pc' = "drop finalizer" /\ UNCHANGED <<objs, restores, namespace>>
        BY <2>1, <3>2 DEF handleResourceCleanup, Goto, world
      <4>2. objs = {}
        BY <3>1, <3>2 DEF Inv, WorldInv, ObjectInv
      <4>3. NoClaims
        <5>1. CASE ~namespace
          BY <5>1 DEF CleanInv, NamespaceClean
        <5>2. CASE ~mem.createdNamespace
          <6>1. restores = <<>>
            BY <3>1, <5>2 DEF CleanInv, NamespaceClean
          <6>2. 1..Len(restores) = {}
            BY <6>1
          <6> QED
            BY <6>2 DEF NoClaims
        <5> QED
          BY <3>2, <5>1, <5>2
      <4>4. spec.target = "temporary" => ~namespace
        BY <3>1, <3>2 DEF CleanInv, NamespaceClean
      <4> QED
        BY <1>1, <4>1, <4>2, <4>3, <4>4 DEF RemovalClean, NoClaims
    <3>3. CASE mem.createdNamespace /\ namespace /\ spec.target = "temporary"
      <4>1. pc' = "drop finalizer" /\ namespace' = FALSE /\ objs' = {}
        BY <2>1, <3>3 DEF handleResourceCleanup, Goto
      <4>2. NoClaims'
        BY <4>1 DEF NamespaceClean
      <4> QED
        BY <4>1, <4>2 DEF RemovalClean
    <3>4. CASE mem.createdNamespace /\ namespace /\ spec.target # "temporary"
      <4>1. pc' = "delete pods"
        BY <2>1, <3>4 DEF handleResourceCleanup, Goto
      <4> QED
        BY <1>1, <3>4, <4>1 DEF RemovalClean
    <3> QED
      BY <3>2, <3>3, <3>4
  <2>2. CASE deleteRestoredPVCs
    <3>1. /\ pc = "delete claims" /\ spec.target # "temporary"
          /\ "route" \notin objs /\ "route host" \notin objs /\ objs' = objs
      BY <2>2 DEF deleteRestoredPVCs, CleanInv, RemovalClean, RemovingObjects, world
    <3>2. CASE pc' = "delete secrets" /\ restores' = restores
               /\ \A i \in Recorded(mem) : restores[i].claim = "none"
      <4>1. ASSUME NEW i \in 1..Len(restores) PROVE restores[i].claim = "none"
        <5>1. IsRecorded(i, mem.entries)
          BY <1>2, <3>1 DEF CleanInv, RestoresClean, RemovingObjects
        <5>2. i # 0
          BY <1>1 DEF TypeInv, RestoresPart
        <5>3. i \in Recorded(mem)
          BY <5>1, <5>2 DEF IsRecorded, Recorded
        <5> QED
          BY <3>2, <5>3
      <4> QED
        BY <1>1, <3>1, <3>2, <4>1 DEF RemovalClean, NoClaims
    <3>3. CASE pc' = "delete claims"
      BY <1>1, <3>1, <3>3 DEF RemovalClean
    <3> QED
      BY <2>2, <3>1, <3>2, <3>3 DEF deleteRestoredPVCs, Goto, world, worker
  <2>3. ASSUME NEW at \in RemovingObjects \ {"cleanup", "drop finalizer"}, NEW gone, NEW k,
               DeleteObjects(at, gone, k)
        PROVE  /\ pc = at /\ pc' = k /\ objs' = objs \ gone /\ restores' = restores
               /\ spec.target # "temporary"
    BY <2>3 DEF DeleteObjects, Goto, CleanInv, RemovalClean
  <2>4. CASE deleteFileServerPods \/ deleteFileServerServices
    <3>1. pc' \in {"delete services", "delete routes"} /\ spec.target # "temporary"
      BY <2>3, <2>4 DEF deleteFileServerPods, deleteFileServerServices, RemovingObjects
    <3> QED
      BY <1>1, <3>1 DEF RemovalClean
  <2>5. CASE deleteFileServerRoutes
    <3>1. /\ pc' = "delete claims" /\ objs' = objs \ {"route", "route host"}
          /\ spec.target # "temporary"
      BY <2>3, <2>5 DEF deleteFileServerRoutes, RemovingObjects
    <3> QED
      BY <1>1, <3>1 DEF RemovalClean
  <2>6. CASE deleteControllerSecrets \/ deleteFileServerAccess
    <3>1. /\ pc \in {"delete secrets", "delete access"}
          /\ pc' \in {"delete access", "drop finalizer"}
          /\ objs' \subseteq objs /\ restores' = restores /\ spec.target # "temporary"
      BY <2>3, <2>6 DEF deleteControllerSecrets, deleteFileServerAccess, RemovingObjects
    <3> QED
      BY <1>1, <3>1 DEF CleanInv, RemovalClean, NoClaims
  <2>7. CASE handleVeleroRestoreCleanup \/ DropRestoreFinalizer \/ DropFinalizer
    BY <1>5, <2>7 DEF handleVeleroRestoreCleanup, DropRestoreFinalizer, DropFinalizer, PatchEnd,
       EndReconcile, Goto, worker, RemovingObjects
  <2> QED
    BY <1>5, <2>1, <2>2, <2>4, <2>5, <2>6, <2>7 DEF Deletion
<1> QED
  BY <1>3, <1>4, <1>5

\* How a VMFR goes: before it has finalizers, or at the end of the clean-up.
LEMMA LifeEnds ==
  ASSUME TypeInv, TypeInv', LifeStep, lives' = "gone", lives # "gone"
  PROVE  stage' = "created" \/ lives = "restores removed"
<1>1. CASE UNCHANGED Lifecycle!vars \/ \E s \in Lifecycle!Stages : Lifecycle!Advance(s)
  BY <1>1 DEF Lifecycle!vars, Lifecycle!Advance, lives
<1>2. CASE (\E B \in SUBSET Backups : Lifecycle!Choose(B)) \/ Lifecycle!Serve
           \/ Lifecycle!StopServing
           \/ \E b \in Backups : Lifecycle!Restore(b) \/ Lifecycle!RemoveRestore(b)
  BY <1>2 DEF Lifecycle!Choose, Lifecycle!Serve, Lifecycle!StopServing, Lifecycle!Restore,
     Lifecycle!RemoveRestore, lives
<1>3. CASE Lifecycle!Delete \/ Lifecycle!RestoresRemoved \/ Lifecycle!Remove
  BY <1>3 DEF Lifecycle!Delete, Lifecycle!RestoresRemoved, Lifecycle!Remove, lives, stage
<1> QED
  BY <1>1, <1>2, <1>3 DEF LifeStep, Lifecycle!Next

LEMMA RemovedStep ==
  ASSUME StaleReads = FALSE, MaxFaults = 0, Inv, Inv', LifeStep, CleanInv, NamespaceClean',
         [Next]_vars, ~server'.exists
  PROVE  Removed'
<1>1. /\ TypeInv /\ TypeInv' /\ spec' = spec
      /\ server.exists \in BOOLEAN /\ server.deleting \in BOOLEAN
  BY SpecKept, ServerFields DEF Inv
<1>2. lives' = "gone"
  BY DEF lives, Life
<1>3. CASE ~server.exists
  <2>1. Removed
    BY <1>3 DEF CleanInv
  <2>2. server.deleting /\ server.finalizers = {}
    BY <1>3 DEF Inv, WorldInv, FinalizerInv
  <2>3. Existing(restores) = {}
    BY <2>2 DEF Inv, WorldInv, RestoreInv
  <2>4. pc \notin Serving \ {"finalizer"}
    BY <1>3 DEF Inv, At, SyncAt
  <2>5. objs' = {}
    BY <2>1, <2>4, ObjectsCome DEF Removed
  <2>6. ASSUME NEW b \in Backups PROVE ~createVeleroRestores(b)
    BY <2>4 DEF createVeleroRestores, Serving
  <2>7. NoClaims'
    BY <1>1, <2>1, <2>3, <2>6, ClaimsStayAway DEF Removed
  <2>8. namespace' => namespace
    BY <2>4, NamespaceMoves DEF Serving
  <2> QED
    BY <1>1, <2>1, <2>5, <2>7, <2>8 DEF Removed
<1>4. CASE server.exists
  <2>1. lives # "gone"
    BY <1>1, <1>4, LivesValues
  <2>2. CASE stage' = "created"
    <3>1. ~server'.createdNamespace /\ restores' = <<>>
      BY <2>2 DEF Inv, WorldInv, Claims, UpToValidated
    <3>2. objs' = {}
      BY <3>1 DEF Inv, WorldInv, ObjectInv
    <3>3. NoClaims'
      <4>1. 1..Len(restores') = {}
        BY <3>1
      <4> QED
        BY <4>1 DEF NoClaims
    <3>4. pc' # "record namespace"
      BY <2>2 DEF Inv, At, StageAt
    <3> QED
      BY <3>1, <3>2, <3>3, <3>4 DEF Removed, NamespaceClean
  <2>3. CASE lives = "restores removed"
    <3>1. server.deleting /\ "velero-restore-cleanup" \notin server.finalizers
      BY <1>1, <1>4, <2>3, LivesValues
    <3>2. server.finalizers # Finalizers /\ server.finalizers # {}
      BY <1>4, <3>1 DEF Finalizers, Inv, WorldInv, FinalizerInv
    <3>3. pc \notin Serving /\ pc \notin RemovingRestores
      BY <3>2 DEF Inv, At, SyncAt, Serving
    <3>4. server' # server
      BY <1>4
    <3>5. ~UserDeletes /\ ~UpdatePhases
      BY <3>1, <3>3 DEF UserDeletes, UpdatePhases, Serving
    <3>6. log' # log
      BY <3>4 DEF server
    <3>7. DropFinalizer
      <4>1. ~Validation
        BY <3>3 DEF Serving, Validation, ensureFinalizer, initializePhaseForFileRestore,
           failValidation, StartValidation, validateReferencedDiscovery, processDiscoveryResults,
           ClassifyPVCs
      <4>2. ~Workflow
        BY <3>3 DEF Serving, Workflow, AccessObjects, ensureRestoreNamespace, RecordNamespace,
           ensureFileServerAccess, CreateObject, NamespaceReady, PrepareRestores,
           createVeleroRestores, RecordRestoreNames, WaitForRestores, monitorVeleroRestores,
           UpdatePhases, fixDataDownloadPVCNames, JudgeRestores, cleanupAllCredentialSecrets,
           ensureCredentials, CredentialsReady, PrepareFileServer, CreatePod, CreateService,
           createRoutesIfRequested, PublishFileServer, WaitingForRoute
      <4>3. CASE Deletion
        BY <3>3, <3>6, <4>3 DEF RemovingRestores, Deletion, handleVeleroRestoreCleanup,
           DropRestoreFinalizer, handleResourceCleanup, deleteFileServerPods,
           deleteFileServerServices, deleteFileServerRoutes, deleteRestoredPVCs,
           deleteControllerSecrets, deleteFileServerAccess, DeleteObjects, Goto
      <4>4. CASE InformerDelivers
        <5>1. Len(log) > 1 /\ log' = Tail(log) /\ log \in Seq(Resource)
          BY <1>1, <4>4 DEF InformerDelivers, TypeInv, LogPart
        <5>2. Tail(log)[Len(Tail(log))] = log[Len(log)]
          BY <5>1
        <5> QED
          BY <3>4, <5>1, <5>2 DEF server
      <4>5. ~Crash
        BY <1>1, NoFaults
      <4>6. CASE Environment /\ ~InformerDelivers
        BY <3>5, <3>6, <4>5, <4>6 DEF Environment, ApiError, VeleroAdvances, ClaimAppears,
           ClaimLost, SetRestore, DiscoveryAdvances, DiscoveryDeleted, RouteAdmitted,
           RestoresDelivered
      <4>7. CASE Reconcile \/ NotFound \/ UNCHANGED vars
        BY <3>6, <4>7 DEF Reconcile, NotFound, Return, vars
      <4> QED
        BY <4>1, <4>2, <4>3, <4>4, <4>6, <4>7 DEF Next, Controller
    <3>8. pc = "drop finalizer" /\ UNCHANGED <<restores, objs, namespace>>
      BY <3>7 DEF DropFinalizer, PatchEnd, world
    <3>9. NoClaims /\ (spec.target = "temporary" => ~namespace)
          /\ "route" \notin objs /\ "route host" \notin objs
      BY <3>8 DEF CleanInv, RemovalClean
    <3>10. /\ "pod" \notin objs /\ "service" \notin objs /\ "secrets" \notin objs
           /\ AccessObjects \cap objs = {}
      BY <3>8 DEF Inv, At, WorldAt, RemovingObjects
    <3>11. objs = {}
      BY <1>1, <3>9, <3>10 DEF TypeInv, WorldPart, Objects, AccessObjects
    <3> QED
      BY <1>1, <3>8, <3>9, <3>11 DEF Removed, NoClaims
  <2> QED
    BY <1>1, <1>2, <2>1, <2>2, <2>3, LifeEnds
<1> QED
  BY <1>1, <1>3, <1>4

\* A deleted VMFR leaves nothing behind, whatever its spec, whenever the user
\* deletes it and whatever becomes of the discovery, the Restores and their
\* claims: no Restore, no object, no claim and no temporary namespace.  A crash or
\* a failing call is excluded: either can lose the name of a Restore or of the
\* namespace before it is in the status, which is all handleResourceCleanup goes by.
THEOREM EverythingIsCleanedUp ==
  ASSUME StaleReads = FALSE, MaxFaults = 0
  PROVE  Spec => []CleanedUp
<1>1. Init => CleanInv
  BY CleanInit
<1>2. Inv /\ Inv' /\ CleanInv /\ [Next]_vars => CleanInv'
  BY StepCore, NamespaceCleanStep, RestoresCleanStep, RemovalCleanStep, RemovedStep DEF CleanInv
<1>3. Inv /\ CleanInv => CleanedUp
  <2> SUFFICES ASSUME Inv, CleanInv, ~server.exists
               PROVE  /\ objs = {} /\ (spec.target = "temporary" => ~namespace)
                      /\ \A i \in 1..Len(restores) :
                           ~restores[i].exists /\ restores[i].claim = "none"
    BY DEF CleanedUp
  <2>1. Removed
    BY DEF CleanInv
  <2>2. Existing(restores) = {}
    BY DEF Inv, WorldInv, FinalizerInv, RestoreInv
  <2> QED
    BY <2>1, <2>2 DEF Removed, NoClaims, Existing
<1> QED
  BY <1>1, <1>2, <1>3, InvHolds, PTL DEF Spec
=============================================================================

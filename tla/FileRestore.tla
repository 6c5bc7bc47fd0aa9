----------------------------- MODULE FileRestore -----------------------------
(***************************************************************************)
(* The controller of one VirtualMachineFileRestore resource (VMFR):        *)
(* internal/controller/virtualmachinefilerestore_controller.go.            *)
(*                                                                         *)
(* A reconcile is a program of API calls.  Each action below is the code   *)
(* from one API write to the next, so that the user, Velero, the discovery *)
(* controller, a crash or a failing call can come in between any two       *)
(* writes.  The worker keeps in mem the copy of the resource the code has  *)
(* in hand.  As in BackupsDiscovery, log holds the versions of the         *)
(* resource from the cached one (its head) to the API server's (its last). *)
(***************************************************************************)
EXTENDS Integers, Sequences, FiniteSets

CONSTANTS
  Backups,       \* names of the backups of the virtual machine
  PVCs,          \* UIDs of its persistent volume claims
  Contents,      \* the claims each backup holds
  Findings,      \* what reading each backup's contents may yield
  RestoreSpecs,  \* the specs a user may write
  ValidChoices,  \* the ValidBackups the discovery may end with
  StartPhases,   \* phases the referenced discovery may start in
  Mishaps,       \* what may go wrong or be deleted: see MishapKinds
  MaxFaults,     \* bound: crashes and failed API calls
  MaxRestores,   \* bound: Velero Restores ever created
  MaxVersions,   \* bound: versions between the cache and the server
  StaleReads     \* FALSE: a reconcile starts only once the caches caught up

MishapKinds == {"api error", "crash", "restore fails", "claim lost",
                "download stuck", "discovery fails", "discovery deleted",
                "user deletes", "route refused", "access refused"}

(***************************************************************************)
(* The resource.  PVCRestores lists, per claim, the backups that hold it;  *)
(* state, restore name and phase depend on the backup alone, so entries    *)
(* keeps one record per backup together with its claims.  "synthetic" is   *)
(* the entry of a backup that failed as a whole; it names no real claim.   *)
(* A Restore's name is its index in restores, 0 for the empty name.  creds *)
(* is how the access methods get their credentials, "none" a spec without  *)
(* fileAccess, which has nothing to expose.                                *)
(***************************************************************************)
RestoreSpec ==
  {s \in [target: {"temporary", "existing", "missing"},
          selected: SUBSET Backups, expose: BOOLEAN,
          creds: {"made", "in restore namespace", "invalid", "none"}] :
     s.creds = "none" => ~s.expose}

States == {"none", "available", "unsupported", "synthetic"}
RestoreInfoPhase == {"", "New", "InProgress", "WaitingForPluginOperations", "Completed",
                     "PartiallyFailed", "Failed"}
Entry == [state: States, pvcs: SUBSET PVCs, restore: 0..MaxRestores,
          phase: RestoreInfoPhase]
NoEntry == [state |-> "none", pvcs |-> {}, restore |-> 0, phase |-> ""]

WorkflowReasons == {"DiscoveringPVCs", "ValidationCompleted", "NamespaceReady",
                    "WaitingForRestores", "RestoresCompleted", "CredentialsReady",
                    "WaitingForRoute"}
Reasons == WorkflowReasons \cup
           {"", "Initialized", "Validating", "WaitingForDiscovery", "ValidationFailed",
            "PartialValidationFailed", "RestoresCompletedWithFailures",
            "RestoresFailed", "FileServerCreated"}
Conditions == [progressing: BOOLEAN, reason: Reasons, available: BOOLEAN,
               degraded: BOOLEAN, ready: BOOLEAN]
Terminal == {"Completed", "PartiallyFailed", "Failed"}
Phases == {"", "New", "InProgress"} \cup Terminal
Finalizers == {"velero-restore-cleanup", "vm-file-restore"}

Resource == [exists: BOOLEAN, deleting: BOOLEAN, finalizers: SUBSET Finalizers,
             phase: Phases, cond: Conditions, createdNamespace: BOOLEAN,
             entries: [Backups -> Entry], info: {"none", "cluster", "public"}]

\* The four conditions, in the order Progressing (with its reason), Available,
\* Degraded, Ready.
Cond(p, why, a, d, r) == [progressing |-> p, reason |-> why, available |-> a,
                          degraded |-> d, ready |-> r]

Created == [exists |-> TRUE, deleting |-> FALSE, finalizers |-> {}, phase |-> "",
            cond |-> Cond(FALSE, "", FALSE, FALSE, FALSE), createdNamespace |-> FALSE,
            entries |-> [b \in Backups |-> NoEntry], info |-> "none"]

(***************************************************************************)
(* Velero's Restore, with the claims it has restored taken as one and with *)
(* the DataDownload that fills them, if the data mover is used: "stuck"    *)
(* while it names the claim's original name.  "New" stands for the phase   *)
(* not yet set too, "Failed" for FailedValidation, and the phase in which  *)
(* Velero waits for downloads for its PartiallyFailed form.                *)
(***************************************************************************)
VeleroPhase == {"New", "InProgress", "WaitingForPluginOperations", "Finalizing",
                "FinalizingPartiallyFailed", "Completed", "PartiallyFailed", "Failed"}
VeleroRestore == [backup: Backups, exists: BOOLEAN, phase: VeleroPhase,
                  claim: {"none", "Pending", "Lost"},
                  download: {"none", "stuck", "fixed"}]

DiscoveryPhases == {"absent", "", "New", "InProgress", "Completed", "Failed"}
Objects == {"serviceaccount", "rolebinding", "secrets", "pod", "service", "route",
            "route host"}
AccessObjects == {"serviceaccount", "rolebinding"}

ASSUME ConstantsAssumption ==
  /\ IsFiniteSet(Backups)
  /\ Contents \in [Backups -> SUBSET PVCs]
  /\ Findings \in [Backups -> SUBSET {"available", "unsupported", "synthetic"}]
  /\ RestoreSpecs \subseteq RestoreSpec
  /\ ValidChoices \subseteq SUBSET Backups
  /\ StartPhases \subseteq DiscoveryPhases
  /\ Mishaps \subseteq MishapKinds
  /\ MaxFaults \in Nat /\ MaxRestores \in Nat
  /\ MaxVersions \in Nat \ {0, 1}
  /\ StaleReads \in BOOLEAN

VARIABLES
  log,       \* versions of the VMFR, from the cached one to the server's
  spec,      \* its spec
  vmbd,      \* the referenced discovery, as its informer shows it
  restores,  \* every Velero Restore created for the VMFR, in order
  listed,    \* the Restores in the informer cache, when StaleReads
  namespace, \* the restore namespace exists
  objs,      \* what the controller created in the restore namespace
  mounts,    \* the Restores whose claims the file server pod mounts
  queued,    \* the work queue holds the VMFR's key
  faults,    \* crashes and API failures left
  pc,        \* where the running reconcile is; "idle" when none runs
  mem,       \* the resource the reconcile holds in memory
  todo,      \* backups to serve, then backups still without a Restore
  seen,      \* kinds of Restore phases monitorVeleroRestores counted
  fresh      \* mem was read from the server's current version

world == <<spec, vmbd, restores, listed, namespace, objs, mounts>>
worker == <<pc, mem, todo, seen, fresh>>
vars == <<log, world, queued, faults, worker>>

cache == Head(log)
server == log[Len(log)]
Visible == IF StaleReads THEN listed ELSE restores

Places ==
  {"idle", "finalizer", "initialize", "validate", "discovery", "discover", "classify",
   "namespace", "record namespace", "serviceaccount", "rolebinding", "namespace ready",
   "restores", "create", "names", "waiting", "monitor", "update", "fix", "judge",
   "credentials", "secrets", "credentials ready", "file server", "pod", "service",
   "route", "publish", "route check", "fail", "delete restores", "drop restore finalizer",
   "cleanup", "delete pods", "delete services", "delete routes", "delete claims",
   "delete secrets", "delete access", "drop finalizer"}

\* The one type invariant of the module.
TypeOK ==
  /\ log \in Seq(Resource) /\ Len(log) \in 1..MaxVersions
  /\ spec \in RestoreSpec
  /\ vmbd \in [phase: DiscoveryPhases, valid: SUBSET Backups]
  /\ restores \in Seq(VeleroRestore) /\ Len(restores) <= MaxRestores
  /\ listed \in Seq(VeleroRestore) /\ Len(listed) <= Len(restores)
  /\ namespace \in BOOLEAN
  /\ objs \subseteq Objects
  /\ mounts \subseteq 1..Len(restores)
  /\ queued \in BOOLEAN
  /\ faults \in 0..MaxFaults
  /\ pc \in Places
  /\ mem \in Resource
  /\ todo \subseteq Backups
  /\ seen \subseteq {"completed", "failed", "inProgress"}
  /\ fresh \in BOOLEAN

-----------------------------------------------------------------------------
(***************************************************************************)
(* Writes.  Status().Patch and Patch send a merge patch: the fields that   *)
(* differ between the copy in hand (base) and its changed form (new)       *)
(* replace the server's; there is no resourceVersion check.  The reply     *)
(* becomes the copy in hand.  Removing the last finalizer of a resource    *)
(* under deletion deletes it.                                              *)
(***************************************************************************)
Merge(base, new, onto) ==
  LET pick(b, n, o) == IF n # b THEN n ELSE o IN
  [exists |-> onto.exists,
   deleting |-> onto.deleting,
   finalizers |-> pick(base.finalizers, new.finalizers, onto.finalizers),
   phase |-> pick(base.phase, new.phase, onto.phase),
   cond |-> pick(base.cond, new.cond, onto.cond),
   createdNamespace |-> pick(base.createdNamespace, new.createdNamespace,
                             onto.createdNamespace),
   entries |-> pick(base.entries, new.entries, onto.entries),
   info |-> pick(base.info, new.info, onto.info)]

Stored(o) ==
  IF o.deleting /\ o.finalizers = {} THEN [o EXCEPT !.exists = FALSE] ELSE o

Replace(o) ==
  \/ o = server /\ UNCHANGED log
  \/ o # server /\ Len(log) < MaxVersions /\ log' = Append(log, o)

Patch(new) == server.exists /\ Replace(Stored(Merge(mem, new, server)))

EndReconcile(requeue) ==
  /\ pc' = "idle" /\ mem' = Created /\ todo' = {} /\ seen' = {} /\ fresh' = FALSE
  /\ queued' = (queued \/ requeue)

\* The reconcile goes on at k with the patched resource, or ends.
PatchThen(new, k) ==
  /\ Patch(new)
  /\ pc' = k /\ mem' = Stored(Merge(mem, new, server))
  /\ UNCHANGED <<world, queued, faults, todo, seen, fresh>>

PatchEnd(new, requeue) ==
  /\ Patch(new)
  /\ EndReconcile(requeue)
  /\ UNCHANGED <<world, faults>>

\* The reconcile goes on at k, or ends, without touching the resource.
Goto(k) == pc' = k /\ UNCHANGED <<log, queued, faults, mem, todo, seen, fresh>>
Return(requeue) == EndReconcile(requeue) /\ UNCHANGED <<log, world, faults>>

\* patchVmfrStatusPhaseConditions
StatusPhaseConditions(phase, cond) == [mem EXCEPT !.phase = phase, !.cond = cond]
InProgress(why) ==
  StatusPhaseConditions("InProgress", Cond(TRUE, why, FALSE, FALSE, FALSE))

-----------------------------------------------------------------------------
(***************************************************************************)
(* Reconcile reads the resource from the cache and selects the steps.      *)
(***************************************************************************)
WorkflowStep(why) ==
  CASE why = "DiscoveringPVCs" -> "idle"
    [] why = "ValidationCompleted" -> "namespace"
    [] why = "NamespaceReady" -> "restores"
    [] why = "WaitingForRestores" -> "monitor"
    [] why = "RestoresCompleted" -> "credentials"
    [] why = "CredentialsReady" -> "file server"
    [] why = "WaitingForRoute" -> "route check"

\* Mutant of Unfinished: a partial failure is worked on again.
UnfinishedOrPartial == {"New", "InProgress", "PartiallyFailed"}
Unfinished == {"New", "InProgress"}

\* Mutant of CleanupStep: the two parts of the cleanup swapped.
CleanupStepSwapped(o) ==
  IF "vm-file-restore" \in o.finalizers THEN "cleanup"
  ELSE IF "velero-restore-cleanup" \in o.finalizers THEN "delete restores" ELSE "idle"

CleanupStep(o) ==
  IF "velero-restore-cleanup" \in o.finalizers THEN "delete restores"
  ELSE IF "vm-file-restore" \in o.finalizers THEN "cleanup" ELSE "idle"

SelectedStep(o) ==
  CASE ~o.exists -> "idle"
    [] o.exists /\ o.deleting -> CleanupStep(o)
    [] o.exists /\ ~o.deleting /\ o.phase = "" ->
         IF o.finalizers # Finalizers THEN "finalizer" ELSE "initialize"
    [] o.exists /\ ~o.deleting /\ o.phase \in Unfinished ->
         IF o.cond.reason \in WorkflowReasons THEN WorkflowStep(o.cond.reason)
         ELSE IF o.phase = "New" THEN "validate" ELSE "discovery"
    [] OTHER -> "idle"

Reconcile ==
  /\ pc = "idle" /\ queued
  /\ StaleReads \/ Len(log) = 1
  /\ queued' = FALSE
  /\ \/ /\ SelectedStep(cache) # "idle"
        /\ pc' = SelectedStep(cache) /\ mem' = cache /\ fresh' = (Len(log) = 1)
     \/ /\ SelectedStep(cache) = "idle"
        /\ UNCHANGED <<pc, mem, fresh>>
  /\ UNCHANGED <<log, world, faults, todo, seen>>

\* The API server refuses new finalizers once the resource is being deleted.
FinalizersRefused ==
  server.exists /\ server.deleting /\ server.finalizers # Finalizers

ensureFinalizer ==
  /\ pc = "finalizer"
  /\ \/ ~FinalizersRefused /\ PatchEnd([mem EXCEPT !.finalizers = Finalizers], TRUE)
     \/ FinalizersRefused /\ Return(TRUE)

initializePhaseForFileRestore ==
  /\ pc = "initialize"
  /\ PatchEnd(StatusPhaseConditions("New",
                Cond(FALSE, "Initialized", FALSE, FALSE, FALSE)), TRUE)

\* Every permanent failure ends here; the error it returns requeues the key.
failValidation ==
  /\ pc = "fail"
  /\ PatchEnd(StatusPhaseConditions("Failed",
                Cond(FALSE, "ValidationFailed", FALSE, TRUE, FALSE)), TRUE)

-----------------------------------------------------------------------------
(***************************************************************************)
(* validateAndDiscoverPVCs.                                                *)
(***************************************************************************)
StartValidation == pc = "validate" /\ PatchThen(InProgress("Validating"), "discovery")

\* getFilteredBackupsToServe, for a selection the discovery found valid.
ToServe == IF spec.selected = {} THEN vmbd.valid ELSE spec.selected

\* validateReferencedDiscovery and validateDiscoveryBackups
DiscoveryRejected ==
  \/ vmbd.phase = "absent"
  \/ vmbd.phase \notin {"absent", "New", "InProgress"}
       /\ (vmbd.valid = {} \/ ~(spec.selected \subseteq vmbd.valid))

validateReferencedDiscovery ==
  /\ pc = "discovery"
  /\ \/ DiscoveryRejected /\ Goto("fail") /\ UNCHANGED world
     \/ /\ vmbd.phase \in {"New", "InProgress"}
        /\ PatchEnd(InProgress("WaitingForDiscovery"), TRUE)
     \/ /\ vmbd.phase \notin {"New", "InProgress"} /\ ~DiscoveryRejected
        /\ LET new == [mem EXCEPT !.phase = "InProgress", !.cond.progressing = TRUE,
                                  !.cond.reason = "DiscoveringPVCs"]
           IN /\ Patch(new)
              /\ pc' = "discover" /\ mem' = Stored(Merge(mem, new, server))
              /\ todo' = ToServe
              /\ UNCHANGED <<world, queued, faults, seen, fresh>>

\* discoverPVCsFromSingleBackup for every backup to serve: a readable backup
\* lists all its claims, an unsupported one the first claim without the label.
DiscoveredEntries(b) ==
  LET found(s, P) == [state |-> s, pvcs |-> P, restore |-> 0, phase |-> ""] IN
  IF b \notin todo THEN {NoEntry}
  ELSE UNION {CASE f = "available" -> IF Contents[b] = {} THEN {NoEntry}
                                      ELSE {found("available", Contents[b])}
                [] f = "unsupported" -> {found("unsupported", {p}) : p \in Contents[b]}
                [] f = "synthetic" -> {found("synthetic", {})} : f \in Findings[b]}

processDiscoveryResults ==
  /\ pc = "discover"
  /\ \E e \in [Backups -> UNION {DiscoveredEntries(b) : b \in Backups}] :
        /\ \A b \in Backups : e[b] \in DiscoveredEntries(b)
        /\ PatchThen([mem EXCEPT !.entries = e], "classify")

Available(o) == {b \in Backups : o.entries[b].state = "available"}
HoldingPVC(o, p) == {b \in Backups : p \in o.entries[b].pvcs}
NotFullyAvailable(o) == {p \in PVCs : ~(HoldingPVC(o, p) \subseteq Available(o))}
HasAvailable(o) == {p \in PVCs : HoldingPVC(o, p) \cap Available(o) # {}}

\* The three rules over real claims; synthetic entries do not count.
ClassifyPVCs ==
  /\ pc = "classify"
  /\ \/ HasAvailable(mem) = {} /\ Goto("fail") /\ UNCHANGED world
     \/ /\ HasAvailable(mem) # {} /\ NotFullyAvailable(mem) # {}
        /\ PatchEnd(StatusPhaseConditions("PartiallyFailed",
             Cond(FALSE, "PartialValidationFailed", TRUE, TRUE, FALSE)), TRUE)
     \/ /\ HasAvailable(mem) # {} /\ NotFullyAvailable(mem) = {}
        /\ PatchEnd(InProgress("ValidationCompleted"), TRUE)

-----------------------------------------------------------------------------
(***************************************************************************)
(* ensureRestoreNamespace and ensureFileServerAccess.  Creating what       *)
(* exists already is no error.                                             *)
(***************************************************************************)
ensureRestoreNamespace ==
  /\ pc = "namespace"
  /\ \/ spec.target = "missing" /\ Goto("fail") /\ UNCHANGED world
     \/ spec.target = "existing" /\ Goto("record namespace") /\ UNCHANGED world
     \/ /\ spec.target = "temporary" /\ vmbd.phase = "absent"
        /\ Goto("fail") /\ UNCHANGED world
     \/ /\ spec.target = "temporary" /\ vmbd.phase # "absent"
        /\ namespace' = TRUE
        /\ Goto("record namespace")
        /\ UNCHANGED <<spec, vmbd, restores, listed, objs, mounts>>

RecordNamespace ==
  /\ pc = "record namespace"
  /\ PatchThen([mem EXCEPT !.createdNamespace = TRUE], "serviceaccount")

\* One object is created in the restore namespace, and the reconcile goes on.
CreateObject(at, obj, k) ==
  /\ pc = at
  /\ objs' = objs \cup {obj}
  /\ Goto(k)
  /\ UNCHANGED <<spec, vmbd, restores, listed, namespace, mounts>>

\* What has the name already may be unmanaged, or bind another role or subject,
\* and what was created may not be readable.
ensureFileServerAccess ==
  \/ CreateObject("serviceaccount", "serviceaccount", "rolebinding")
  \/ CreateObject("rolebinding", "rolebinding", "namespace ready")
  \/ /\ "access refused" \in Mishaps
     /\ \/ pc \in AccessObjects /\ Goto("fail") /\ UNCHANGED world
        \/ CreateObject("rolebinding", "rolebinding", "fail")

NamespaceReady == pc = "namespace ready" /\ PatchEnd(InProgress("NamespaceReady"), TRUE)

-----------------------------------------------------------------------------
(***************************************************************************)
(* createVeleroRestores.  Restores are created with generateName, one per  *)
(* available backup and in any order, and recorded only after the last.    *)
(***************************************************************************)
\* Mutant of checkVeleroRestoresAlreadyCreated: the status is not consulted.
NeverAlreadyCreated(o) == FALSE

checkVeleroRestoresAlreadyCreated(o) ==
  \A b \in Available(o) : o.entries[b].restore # 0

PrepareRestores ==
  /\ pc = "restores"
  /\ \/ checkVeleroRestoresAlreadyCreated(mem) /\ Goto("waiting") /\ UNCHANGED world
     \/ /\ ~checkVeleroRestoresAlreadyCreated(mem)
        /\ ~mem.createdNamespace \/ vmbd.phase = "absent"
        /\ Goto("fail") /\ UNCHANGED world
     \/ /\ ~checkVeleroRestoresAlreadyCreated(mem)
        /\ mem.createdNamespace /\ vmbd.phase # "absent"
        /\ pc' = "create" /\ todo' = Available(mem)
        /\ UNCHANGED <<log, world, queued, faults, mem, seen, fresh>>

NewRestore(b) == [backup |-> b, exists |-> TRUE, phase |-> "New", claim |-> "none",
                  download |-> "none"]

createVeleroRestores(b) ==
  /\ pc = "create" /\ b \in todo /\ Len(restores) < MaxRestores
  /\ restores' = Append(restores, NewRestore(b))
  /\ todo' = todo \ {b} /\ pc' = IF todo = {b} THEN "names" ELSE "create"
  /\ UNCHANGED <<log, spec, vmbd, listed, namespace, objs, mounts, queued, faults,
                 mem, seen, fresh>>

\* The Restore this run created for b: the newest one.
Newest(b) == CHOOSE i \in 1..Len(restores) :
               /\ restores[i].backup = b
               /\ \A j \in 1..Len(restores) : restores[j].backup = b => j <= i

RecordRestoreNames ==
  /\ pc = "names"
  /\ PatchThen([mem EXCEPT !.entries =
       [b \in Backups |->
          IF b \in Available(mem)
            THEN [mem.entries[b] EXCEPT !.restore = Newest(b), !.phase = "New"]
            ELSE mem.entries[b]]], "waiting")

WaitForRestores == pc = "waiting" /\ PatchEnd(InProgress("WaitingForRestores"), TRUE)

-----------------------------------------------------------------------------
(***************************************************************************)
(* monitorVeleroRestores lists the Restores labelled with the VMFR's UID,  *)
(* counts their phases and copies them to the entries that name them.      *)
(***************************************************************************)
\* Mutant of Category: a Restore Velero has not started on is not waited for.
CategoryIgnoringNew(phase) ==
  CASE phase \in {"New", "Completed", "Finalizing", "FinalizingPartiallyFailed"} -> "completed"
    [] phase \in {"Failed", "PartiallyFailed"} -> "failed"
    [] phase \in {"InProgress", "WaitingForPluginOperations"} -> "inProgress"

Category(phase) ==
  CASE phase \in {"Completed", "Finalizing", "FinalizingPartiallyFailed"} -> "completed"
    [] phase \in {"Failed", "PartiallyFailed"} -> "failed"
    [] phase \in {"New", "InProgress", "WaitingForPluginOperations"} -> "inProgress"

\* Mutant of Normalized: Velero's intermediate phases reach the status.
NotNormalized(phase) == phase

Normalized(phase) ==
  IF phase \in {"Finalizing", "FinalizingPartiallyFailed"} THEN "Completed" ELSE phase

Labelled == {i \in 1..Len(Visible) : Visible[i].exists}

\* An entry follows the Restore it names; one without a name takes the first.
Monitored(o) ==
  [o EXCEPT !.entries =
     [b \in Backups |->
        LET e == o.entries[b]
            own == {i \in Labelled : Visible[i].backup = b /\ e.restore \in {0, i}}
            first == CHOOSE i \in own : \A j \in own : i <= j
        IN IF e.state = "available" /\ own # {}
             THEN [e EXCEPT !.restore = first,
                            !.phase = Normalized(Visible[first].phase)] ELSE e]]

monitorVeleroRestores ==
  /\ pc = "monitor"
  /\ \/ Labelled = {} /\ Return(TRUE)
     \/ /\ Labelled # {}
        /\ seen' = {Category(Visible[i].phase) : i \in Labelled}
        /\ mem' = Monitored(mem)
        /\ pc' = IF Monitored(mem) = mem THEN "fix" ELSE "update"
        /\ UNCHANGED <<log, world, queued, faults, todo, fresh>>

\* Status().Update, which the server refuses unless mem is current.
UpdatePhases ==
  /\ pc = "update"
  /\ \/ fresh /\ Replace(mem) /\ pc' = "fix"
        /\ UNCHANGED <<world, queued, faults, mem, todo, seen, fresh>>
     \/ ~fresh /\ Return(TRUE)

\* fixDataDownloadPVCNames names the restored claim in downloads not started.
Fixed(r) ==
  IF r.exists /\ r.download = "stuck" /\ r.claim # "none"
    THEN [r EXCEPT !.download = "fixed"] ELSE r

\* Mutant of fixDataDownloadPVCNames: no polling while a Restore runs.
fixDataDownloadPVCNamesOnce ==
  /\ pc = "fix"
  /\ restores' = [i \in 1..Len(restores) |->
                    IF i \in Labelled THEN Fixed(restores[i]) ELSE restores[i]]
  /\ \/ "inProgress" \in seen /\ EndReconcile(FALSE) /\ UNCHANGED <<log, faults>>
     \/ "inProgress" \notin seen /\ Goto("judge")
  /\ UNCHANGED <<spec, vmbd, listed, namespace, objs, mounts>>

fixDataDownloadPVCNames ==
  /\ pc = "fix"
  /\ restores' = [i \in 1..Len(restores) |->
                    IF i \in Labelled THEN Fixed(restores[i]) ELSE restores[i]]
  /\ \/ "inProgress" \in seen /\ EndReconcile(TRUE) /\ UNCHANGED <<log, faults>>
     \/ "inProgress" \notin seen /\ Goto("judge")
  /\ UNCHANGED <<spec, vmbd, listed, namespace, objs, mounts>>

\* extractPVCMountsFromVMFR: the Restores whose claims are to be mounted.
PVCMounts(o) == {o.entries[b].restore : b \in {c \in Available(o) :
                                                o.entries[c].phase = "Completed"}}

\* validateRestoredPVCs
\* Mutants of ClaimsLost, a claim not there yet is taken for lost, and of
\* ClaimsReady, completed Restores are taken to have their claims.
ClaimsLostOrLate == \E i \in PVCMounts(mem) : restores[i].claim # "Pending"
ClaimsAssumedReady == TRUE

ClaimsLost == \E i \in PVCMounts(mem) : restores[i].claim = "Lost"
ClaimsReady == \A i \in PVCMounts(mem) : restores[i].claim # "none"

JudgeRestores ==
  /\ pc = "judge"
  /\ \/ /\ "completed" \in seen
        /\ ~mem.createdNamespace \/ PVCMounts(mem) = {} \/ ClaimsLost
        /\ Goto("fail") /\ UNCHANGED world
     \/ /\ "completed" \in seen
        /\ mem.createdNamespace /\ PVCMounts(mem) # {} /\ ~ClaimsLost /\ ~ClaimsReady
        /\ Return(TRUE)
     \/ /\ "completed" \in seen
        /\ mem.createdNamespace /\ PVCMounts(mem) # {} /\ ~ClaimsLost /\ ClaimsReady
        /\ \/ /\ "failed" \notin seen
              /\ PatchEnd(InProgress("RestoresCompleted"), TRUE)
           \/ /\ "failed" \in seen
              /\ PatchEnd(StatusPhaseConditions("PartiallyFailed",
                   Cond(FALSE, "RestoresCompletedWithFailures", TRUE, TRUE, TRUE)), FALSE)
     \/ /\ "completed" \notin seen
        /\ PatchEnd(StatusPhaseConditions("Failed",
             Cond(FALSE, "RestoresFailed", FALSE, TRUE, FALSE)), FALSE)

-----------------------------------------------------------------------------
(***************************************************************************)
(* ensureCredentials wants an access method, deletes every labelled        *)
(* credential secret and makes new ones: generated, from an inline key or  *)
(* copied.  A secret the user keeps in the restore namespace is validated  *)
(* and left as it is.                                                      *)
(***************************************************************************)
CredentialsWanted == mem.createdNamespace /\ spec.creds # "none"

cleanupAllCredentialSecrets ==
  /\ pc = "credentials"
  /\ objs' = IF CredentialsWanted THEN objs \ {"secrets"} ELSE objs
  /\ Goto(IF CredentialsWanted THEN "secrets" ELSE "fail")
  /\ UNCHANGED <<spec, vmbd, restores, listed, namespace, mounts>>

ensureCredentials ==
  \/ spec.creds = "made" /\ CreateObject("secrets", "secrets", "credentials ready")
  \/ /\ pc = "secrets" /\ spec.creds = "in restore namespace"
     /\ Goto("credentials ready") /\ UNCHANGED world
  \/ /\ pc = "secrets" /\ spec.creds = "invalid"
     /\ Goto("fail") /\ UNCHANGED world

CredentialsReady ==
  pc = "credentials ready" /\ PatchEnd(InProgress("CredentialsReady"), TRUE)

-----------------------------------------------------------------------------
(***************************************************************************)
(* createFileServerResources: the pod, the service, the optional route.    *)
(***************************************************************************)
findSecretByLabels == "secrets" \in objs

PrepareFileServer ==
  /\ pc = "file server"
  /\ \/ /\ mem.createdNamespace /\ PVCMounts(mem) # {} /\ ClaimsReady /\ findSecretByLabels
        /\ Goto("pod")
     \/ /\ ~(mem.createdNamespace /\ PVCMounts(mem) # {} /\ ClaimsReady /\ findSecretByLabels)
        /\ Goto("fail")
  /\ UNCHANGED world

CreatePod ==
  /\ pc = "pod"
  /\ objs' = objs \cup {"pod"}
  /\ mounts' = IF "pod" \in objs THEN mounts ELSE PVCMounts(mem)
  /\ Goto("service")
  /\ UNCHANGED <<spec, vmbd, restores, listed, namespace>>

CreateService == CreateObject("service", "service", IF spec.expose THEN "route" ELSE "publish")

\* A failure to create the route is logged and ignored: the cluster may have no
\* Route API.
createRoutesIfRequested ==
  \/ CreateObject("route", "route", "publish")
  \/ "route refused" \in Mishaps /\ pc = "route" /\ Goto("publish") /\ UNCHANGED world

\* updateFileServingInfo
ServingInfo == IF spec.expose /\ "route host" \in objs THEN "public" ELSE "cluster"
RouteReady == spec.expose => ServingInfo = "public"
CompletedCond == Cond(FALSE, "FileServerCreated", TRUE, FALSE, TRUE)

PublishFileServer ==
  /\ pc = "publish"
  /\ \/ /\ ~RouteReady
        /\ PatchEnd([mem EXCEPT !.phase = "InProgress", !.info = ServingInfo,
             !.cond = Cond(TRUE, "WaitingForRoute", TRUE, FALSE, FALSE)], TRUE)
     \/ /\ RouteReady
        /\ PatchEnd([mem EXCEPT !.phase = "Completed", !.info = ServingInfo,
                                !.cond = CompletedCond], FALSE)

WaitingForRoute ==
  /\ pc = "route check"
  /\ \/ /\ mem.createdNamespace /\ "service" \in objs /\ RouteReady
        /\ PatchEnd([mem EXCEPT !.phase = "Completed", !.info = ServingInfo,
                                !.cond = CompletedCond], FALSE)
     \/ /\ ~(mem.createdNamespace /\ "service" \in objs /\ RouteReady)
        /\ Return(TRUE)

-----------------------------------------------------------------------------
(***************************************************************************)
(* Deletion: handleVeleroRestoreCleanup, then handleResourceCleanup, each  *)
(* ending with the removal of its finalizer.                               *)
(***************************************************************************)
\* Mutant of handleVeleroRestoreCleanup: one Restore is deleted, not all.
handleVeleroRestoreCleanupOfOne ==
  /\ pc = "delete restores"
  /\ \/ Labelled = {} /\ Goto("drop restore finalizer") /\ UNCHANGED world
     \/ \E i \in Labelled :
          /\ restores' = [restores EXCEPT ![i].exists = FALSE]
          /\ Goto("drop restore finalizer")
          /\ UNCHANGED <<spec, vmbd, listed, namespace, objs, mounts>>

handleVeleroRestoreCleanup ==
  /\ pc = "delete restores"
  /\ \/ /\ Labelled = {} \/ \A i \in Labelled : ~restores[i].exists
        /\ Goto("drop restore finalizer") /\ UNCHANGED world
     \/ \E i \in Labelled :
          /\ restores[i].exists
          /\ restores' = [restores EXCEPT ![i].exists = FALSE]
          /\ queued' = TRUE
          /\ UNCHANGED <<log, spec, vmbd, listed, namespace, objs, mounts, faults, worker>>

DropRestoreFinalizer ==
  /\ pc = "drop restore finalizer"
  /\ PatchEnd([mem EXCEPT !.finalizers = @ \ {"velero-restore-cleanup"}], TRUE)

\* Mutant of handleResourceCleanup: a namespace that is not there is an error.
handleResourceCleanupNeedsNamespace ==
  /\ pc = "cleanup"
  /\ \/ (~mem.createdNamespace \/ ~namespace) /\ Return(TRUE)
     \/ /\ mem.createdNamespace /\ namespace
        /\ Goto(IF spec.target = "temporary" THEN "drop finalizer" ELSE "delete pods")
        /\ UNCHANGED world

\* Everything in a namespace goes with it.
handleResourceCleanup ==
  /\ pc = "cleanup"
  /\ \/ /\ ~mem.createdNamespace \/ ~namespace
        /\ Goto("drop finalizer") /\ UNCHANGED world
     \/ /\ mem.createdNamespace /\ namespace /\ spec.target = "temporary"
        /\ namespace' = FALSE /\ objs' = {} /\ mounts' = {}
        /\ restores' = [i \in 1..Len(restores) |-> [restores[i] EXCEPT !.claim = "none"]]
        /\ Goto("drop finalizer")
        /\ UNCHANGED <<spec, vmbd, listed>>
     \/ /\ mem.createdNamespace /\ namespace /\ spec.target # "temporary"
        /\ Goto("delete pods") /\ UNCHANGED world

DeleteObjects(at, gone, k) ==
  /\ pc = at
  /\ objs' = objs \ gone
  /\ mounts' = IF "pod" \in gone THEN {} ELSE mounts
  /\ Goto(k)
  /\ UNCHANGED <<spec, vmbd, restores, listed, namespace>>

deleteFileServerPods == DeleteObjects("delete pods", {"pod"}, "delete services")
deleteFileServerServices == DeleteObjects("delete services", {"service"}, "delete routes")
deleteFileServerRoutes == DeleteObjects("delete routes", {"route", "route host"}, "delete claims")
deleteControllerSecrets == DeleteObjects("delete secrets", {"secrets"}, "delete access")
deleteFileServerAccess ==
  DeleteObjects("delete access", {"serviceaccount", "rolebinding"}, "drop finalizer")

\* The claims are found through the Restore names in the status.
\* Mutant of Recorded: only completed Restores have left claims.
RecordedAndCompleted(o) ==
  {o.entries[b].restore : b \in {c \in Backups : o.entries[c].phase = "Completed"}}

Recorded(o) == {o.entries[b].restore : b \in Backups} \ {0}

deleteRestoredPVCs ==
  /\ pc = "delete claims"
  /\ \/ /\ \A i \in Recorded(mem) : restores[i].claim = "none"
        /\ Goto("delete secrets") /\ UNCHANGED world
     \/ \E i \in Recorded(mem) :
          /\ restores[i].claim # "none"
          /\ restores' = [restores EXCEPT ![i].claim = "none"]
          /\ UNCHANGED <<log, spec, vmbd, listed, namespace, objs, mounts, queued, faults,
                         worker>>

DropFinalizer ==
  /\ pc = "drop finalizer"
  /\ PatchEnd([mem EXCEPT !.finalizers = @ \ {"vm-file-restore"}], FALSE)

-----------------------------------------------------------------------------
(***************************************************************************)
(* Failing calls.  Where the code turns the error into failValidation, the *)
(* resource becomes Failed; elsewhere the error is returned and the key    *)
(* retried; a failing DataDownload patch, route creation or route probe is *)
(* passed over.                                                            *)
(***************************************************************************)
FailsValidation ==
  {"discovery", "discover", "namespace", "record namespace", "serviceaccount",
   "rolebinding", "restores", "create", "names", "judge", "credentials", "secrets",
   "file server", "pod", "service"}
ReturnsError ==
  {"discovery", "judge"} \cup (Places \ (FailsValidation \cup {"idle", "fix", "route"}))

ApiError ==
  /\ "api error" \in Mishaps /\ faults > 0 /\ faults' = faults - 1
  /\ \/ /\ pc \in ReturnsError \/ (pc = "fix" /\ "inProgress" \in seen)
        /\ EndReconcile(TRUE)
     \/ /\ \/ pc \in FailsValidation /\ pc' = "fail"
           \/ pc = "fix" /\ "inProgress" \notin seen /\ pc' = "judge"
           \/ pc = "route" /\ pc' = "publish"
           \/ pc = "delete routes" /\ pc' = "delete claims"
        /\ UNCHANGED <<queued, mem, todo, seen, fresh>>
  /\ UNCHANGED <<log, world>>

\* A patch of a resource that is gone is answered NotFound, and so is the patch
\* failValidation would send instead.
NotFound ==
  /\ ~server.exists
  /\ pc \in {"finalizer", "initialize", "validate", "discovery", "discover", "classify",
             "record namespace", "namespace ready", "names", "waiting", "judge",
             "credentials ready", "publish", "route check", "fail",
             "drop restore finalizer", "drop finalizer"}
  /\ Return(TRUE)

Crash ==
  /\ "crash" \in Mishaps /\ faults > 0 /\ faults' = faults - 1
  /\ pc' = "idle" /\ mem' = Created /\ todo' = {} /\ seen' = {} /\ fresh' = FALSE
  /\ log' = <<server>> /\ queued' = TRUE
  /\ listed' = IF StaleReads THEN restores ELSE listed
  /\ UNCHANGED <<spec, vmbd, restores, namespace, objs, mounts>>

-----------------------------------------------------------------------------
(***************************************************************************)
(* Velero, seen through its Restores.  VeleroRestorePredicate passes only  *)
(* changes of phase and deletions on, so a claim that appears wakes nobody.*)
(* Velero leaves a Restore alone once it is deleted.                       *)
(***************************************************************************)
RestoreEvent == queued' = IF StaleReads THEN queued ELSE TRUE

SetRestore(i, r) ==
  /\ restores' = [restores EXCEPT ![i] = r]
  /\ UNCHANGED <<log, spec, vmbd, listed, namespace, objs, mounts, faults, worker>>

\* The data mover may be at work before the informers show its claim.
Downloading(r) == "download stuck" \in Mishaps /\ r.claim = "none"

VeleroNext(r) ==
  LET fails == "restore fails" \in Mishaps
      done == {"Finalizing"} \cup
              (IF fails THEN {"FinalizingPartiallyFailed", "Failed"} ELSE {})
  IN
  CASE r.phase = "New" -> {"InProgress"} \cup (IF fails THEN {"Failed"} ELSE {})
    [] r.phase = "InProgress" ->
         (IF r.download = "none" THEN done ELSE {}) \cup
         (IF r.download # "none" \/ Downloading(r) THEN {"WaitingForPluginOperations"} ELSE {})
    [] r.phase = "WaitingForPluginOperations" ->
         IF r.download = "fixed" THEN done ELSE {}
    [] r.phase = "Finalizing" -> {"Completed"}
    [] r.phase = "FinalizingPartiallyFailed" -> {"PartiallyFailed"}
    [] r.phase \in {"Completed", "PartiallyFailed", "Failed"} -> {}

VeleroAdvances(i) ==
  /\ i \in 1..Len(restores) /\ restores[i].exists
  /\ \E p \in VeleroNext(restores[i]) : SetRestore(i, [restores[i] EXCEPT !.phase = p])
  /\ RestoreEvent

\* The claim shows up in its informer, late perhaps, and with it the download
\* that waits for it.
ClaimAppears(i) ==
  /\ i \in 1..Len(restores) /\ restores[i].exists /\ namespace
  /\ restores[i].claim = "none" /\ restores[i].phase \notin {"New", "Failed"}
  /\ \E d \in {"none", "stuck"} :
        /\ restores[i].phase = "WaitingForPluginOperations" => d = "stuck"
        /\ d = "stuck" => /\ "download stuck" \in Mishaps
                          /\ restores[i].phase \in {"InProgress", "WaitingForPluginOperations"}
        /\ SetRestore(i, [restores[i] EXCEPT !.claim = "Pending", !.download = d])
  /\ UNCHANGED queued

ClaimLost(i) ==
  /\ "claim lost" \in Mishaps
  /\ i \in 1..Len(restores) /\ restores[i].claim = "Pending"
  /\ SetRestore(i, [restores[i] EXCEPT !.claim = "Lost"])
  /\ UNCHANGED queued

-----------------------------------------------------------------------------
(***************************************************************************)
(* The discovery the spec refers to, the router, the informers, the user.  *)
(***************************************************************************)
DiscoveryNext(phase) ==
  CASE phase = "" -> {"New"}
    [] phase = "New" -> {"InProgress"}
    [] phase = "InProgress" ->
         {"Completed"} \cup (IF "discovery fails" \in Mishaps THEN {"Failed"} ELSE {})
    [] phase = "Failed" -> {"InProgress"}
    [] phase \in {"absent", "Completed"} -> {}

\* mapVMBDToVMFR enqueues every VMFR that refers to the discovery.
DiscoveryAdvances ==
  /\ \E p \in DiscoveryNext(vmbd.phase), v \in ValidChoices :
        vmbd' = [phase |-> p, valid |-> IF p = "Completed" THEN v ELSE {}]
  /\ queued' = TRUE
  /\ UNCHANGED <<log, spec, restores, listed, namespace, objs, mounts, faults, worker>>

DiscoveryDeleted ==
  /\ "discovery deleted" \in Mishaps /\ vmbd.phase # "absent"
  /\ vmbd' = [phase |-> "absent", valid |-> {}]
  /\ queued' = TRUE
  /\ UNCHANGED <<log, spec, restores, listed, namespace, objs, mounts, faults, worker>>

RouteAdmitted ==
  /\ "route" \in objs /\ "route host" \notin objs
  /\ objs' = objs \cup {"route host"} /\ queued' = TRUE
  /\ UNCHANGED <<log, spec, vmbd, restores, listed, namespace, mounts, faults, worker>>

UserDeletes ==
  /\ "user deletes" \in Mishaps
  /\ server.exists /\ ~server.deleting /\ Len(log) < MaxVersions
  /\ log' = Append(log, Stored([server EXCEPT !.deleting = TRUE]))
  /\ fresh' = FALSE
  /\ UNCHANGED <<world, queued, faults, pc, mem, todo, seen>>

InformerDelivers ==
  /\ Len(log) > 1
  /\ log' = Tail(log) /\ queued' = TRUE
  /\ UNCHANGED <<world, faults, worker>>

RestoresDelivered ==
  /\ StaleReads /\ listed # restores
  /\ listed' = restores /\ queued' = TRUE
  /\ UNCHANGED <<log, spec, vmbd, restores, namespace, objs, mounts, faults, worker>>

-----------------------------------------------------------------------------
Init ==
  /\ log = <<Created>>
  /\ spec \in RestoreSpecs
  /\ vmbd \in {[phase |-> p, valid |-> IF p = "Completed" THEN v ELSE {}] :
                 p \in StartPhases, v \in ValidChoices}
  /\ restores = <<>> /\ listed = <<>>
  /\ namespace = (spec.target = "existing") /\ objs = {} /\ mounts = {}
  /\ queued = TRUE /\ faults = MaxFaults
  /\ pc = "idle" /\ mem = Created /\ todo = {} /\ seen = {} /\ fresh = FALSE

Validation ==
  \/ ensureFinalizer
  \/ initializePhaseForFileRestore
  \/ failValidation
  \/ StartValidation
  \/ validateReferencedDiscovery
  \/ processDiscoveryResults
  \/ ClassifyPVCs

Workflow ==
  \/ ensureRestoreNamespace
  \/ RecordNamespace
  \/ ensureFileServerAccess
  \/ NamespaceReady
  \/ PrepareRestores
  \/ \E b \in Backups : createVeleroRestores(b)
  \/ RecordRestoreNames
  \/ WaitForRestores
  \/ monitorVeleroRestores
  \/ UpdatePhases
  \/ fixDataDownloadPVCNames
  \/ JudgeRestores
  \/ cleanupAllCredentialSecrets
  \/ ensureCredentials
  \/ CredentialsReady
  \/ PrepareFileServer
  \/ CreatePod
  \/ CreateService
  \/ createRoutesIfRequested
  \/ PublishFileServer
  \/ WaitingForRoute

Deletion ==
  \/ handleVeleroRestoreCleanup
  \/ DropRestoreFinalizer
  \/ handleResourceCleanup
  \/ deleteFileServerPods
  \/ deleteFileServerServices
  \/ deleteFileServerRoutes
  \/ deleteRestoredPVCs
  \/ deleteControllerSecrets
  \/ deleteFileServerAccess
  \/ DropFinalizer

Controller == Reconcile \/ Validation \/ Workflow \/ Deletion \/ NotFound

Environment ==
  \/ ApiError
  \/ Crash
  \/ \E i \in 1..MaxRestores : VeleroAdvances(i) \/ ClaimAppears(i) \/ ClaimLost(i)
  \/ DiscoveryAdvances
  \/ DiscoveryDeleted
  \/ RouteAdmitted
  \/ UserDeletes
  \/ InformerDelivers
  \/ RestoresDelivered

Next == Controller \/ Environment

Spec == Init /\ [][Next]_vars

(***************************************************************************)
(* The worker takes its next step when it can, watch events arrive, and    *)
(* Velero, the discovery and the router finish what they started.          *)
(***************************************************************************)
FairSpec ==
  /\ Spec
  /\ WF_vars(Controller)
  /\ WF_vars(InformerDelivers) /\ WF_vars(RestoresDelivered)
  /\ \A i \in 1..MaxRestores : WF_vars(VeleroAdvances(i)) /\ WF_vars(ClaimAppears(i))
  /\ WF_vars(DiscoveryAdvances) /\ WF_vars(RouteAdmitted)

-----------------------------------------------------------------------------
(***************************************************************************)
(* Properties.                                                             *)
(***************************************************************************)
Live(o) == o.exists /\ ~o.deleting

\* "Only transition when BOTH Velero Restores are complete AND PVCs exist": a
\* VMFR published as Completed has its file server, and the pod mounts the
\* claims of every backup the status calls available, whatever crashed or was
\* retried between listing the Restores, writing their phases and creating
\* the pod, which is never updated once it exists.
CompletedServesAll ==
  Live(server) /\ server.phase = "Completed" =>
    /\ AccessObjects \cup {"pod", "service"} \subseteq objs
    /\ spec.expose => server.info = "public"
    /\ {restores[i].backup : i \in mounts} = Available(server)
    /\ \A i \in mounts : restores[i].claim # "none"

\* "Terminal states - no further action needed, reconciliation stops here": no
\* requeued error, no later event of the discovery or of a Restore changes the
\* phase or the conditions of a VMFR that reached a terminal phase.
TerminalIsFinal ==
  [][ server.phase \in Terminal =>
        server'.phase = server.phase /\ server'.cond = server.cond ]_vars

\* What of that survives caches that lag: once the cache has seen the terminal
\* phase, in every version it still has to pass, and no reconcile that started
\* earlier is under way, nothing ever opens the VMFR again.  Until then a merge
\* patch from an older copy can (TerminalIsFinal).
CleanupPlaces ==
  {"delete restores", "drop restore finalizer", "cleanup", "delete pods", "delete services",
   "delete routes", "delete claims", "delete secrets", "delete access", "drop finalizer"}
Settled ==
  /\ pc \in {"idle"} \cup CleanupPlaces
  /\ \A n \in 1..Len(log) : log[n].phase \in Terminal

SettledIsFinal ==
  [][ Settled => Settled' /\ server'.phase = server.phase /\ server'.cond = server.cond ]_vars


\* A backup whose Restore is recorded in the status never gets a second one,
\* although the step that creates them is entered again after every failure
\* between recording the names and leaving the step.
RecordedRestoresAreReused ==
  [][ \A i \in (Len(restores) + 1)..Len(restores') :
        server.entries[restores'[i].backup].restore = 0 ]_vars

\* A deleted VMFR leaves nothing behind, whenever the user deletes it: no
\* Restore, no object, claim or temporary namespace.
CleanedUp ==
  ~server.exists =>
    /\ objs = {} /\ (spec.target = "temporary" => ~namespace)
    /\ \A i \in 1..Len(restores) : ~restores[i].exists /\ restores[i].claim = "none"

\* The part of CleanedUp that crashes and failing calls cannot break: in a
\* namespace the user provided, the Restores, the pod, the service, the secrets
\* and the access to the privileged SCC are gone.
WorkloadCleanedUp ==
  ~server.exists /\ spec.target = "existing" =>
    /\ objs \subseteq {"route", "route host"}
    /\ \A i \in 1..Len(restores) : ~restores[i].exists

\* With a discovery that completes, backups that can be read, restores that
\* succeed and no failing call, a file restore does not fail.
HealthyNeverFails ==
  server.phase \notin {"Failed", "PartiallyFailed"}

\* The status document: Ready=True for PartiallyFailed is "degraded but usable".
\* A VMFR that says it is ready has a file server.
ReadyMeansServed ==
  Live(server) /\ server.cond.ready => {"pod", "service"} \subseteq objs

\* Every file restore ends: Completed, PartiallyFailed, Failed or deleted.
EventuallySettles ==
  <>(server.phase \in Terminal \/ ~server.exists)

\* A VMFR the user deletes is eventually gone: no order of finalizers, failures
\* and restarts keeps it from being removed.
DeletionCompletes ==
  server.deleting ~> ~server.exists

-----------------------------------------------------------------------------
(***************************************************************************)
(* The abstract life cycle, as this state shows it.  validateAndDiscover-  *)
(* PVCs is one stage although it writes three reasons.                     *)
(***************************************************************************)
LifeStage(o) ==
  CASE o.phase = "" -> "created"
    [] o.phase = "New" -> "new"
    [] o.phase \in Terminal -> o.phase
    [] o.phase = "InProgress" ->
         CASE o.cond.reason \in {"Validating", "WaitingForDiscovery", "DiscoveringPVCs"} ->
                "validating"
           [] o.cond.reason = "ValidationCompleted" -> "validated"
           [] o.cond.reason = "NamespaceReady" -> "placed"
           [] o.cond.reason = "WaitingForRestores" -> "restoring"
           [] o.cond.reason = "RestoresCompleted" -> "restored"
           [] o.cond.reason = "CredentialsReady" -> "credentials"
           [] o.cond.reason = "WaitingForRoute" -> "exposing"

Life(o) ==
  CASE ~o.exists -> "gone"
    [] o.exists /\ ~o.deleting -> "live"
    [] o.exists /\ o.deleting ->
         IF "velero-restore-cleanup" \in o.finalizers THEN "deleting" ELSE "restores removed"

Lifecycle == INSTANCE RestoreLifecycle WITH
  stage <- LifeStage(server),
  life <- Life(server),
  chosen <- Available(server),
  restored <- {r.backup : r \in {restores[i] : i \in {j \in 1..Len(restores) :
                                                       restores[j].exists}}},
  served <- {restores[i].backup : i \in mounts}

\* The controller implements the life cycle of RestoreLifecycle: stages in their
\* order and none twice, Restores only for chosen backups and only between the
\* namespace and the wait, all chosen backups served by one pod or none, and a
\* deletion that removes the Restores before it stops the file server and the
\* file server before the resource, wherever a deletion, a crash or a failing
\* call comes between two writes.
ImplementsLifecycle == Lifecycle!Spec

=============================================================================

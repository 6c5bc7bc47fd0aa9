--------------------------- MODULE SharedNamespace ---------------------------
(***************************************************************************)
(* Several VirtualMachineFileRestores (VMFRs) that restore into one        *)
(* namespace the user provided, and the two objects they share there: the  *)
(* file server's ServiceAccount and the RoleBinding that gives it the      *)
(* privileged SCC.  ensureFileServerAccess creates them for the first VMFR *)
(* that comes, deleteFileServerAccess removes them with the last.          *)
(*                                                                         *)
(* One worker serves all VMFRs.  log holds the versions of the collection  *)
(* of VMFRs, from the one in the informer cache (its head) to the API      *)
(* server's (its last): the VMFRs share one watch, so the cached list is a *)
(* version of the whole collection.  The steps of a VMFR that touch only   *)
(* its own objects are in FileRestore; here they are one step each.        *)
(***************************************************************************)
EXTENDS Integers, Sequences

CONSTANTS
  VMFRs,        \* the file restores that name the namespace
  Foreign,      \* access objects of the same name that others may manage
  MaxFaults,    \* bound: crashes and failed API calls
  MaxVersions,  \* bound: versions between the cache and the server
  Lagging       \* whether reconciles may start before the cache caught up

AccessObjects == {"serviceaccount", "rolebinding"}

ASSUME ConstantsAssumption ==
  /\ VMFRs # {}
  /\ Foreign \subseteq AccessObjects
  /\ MaxFaults \in Nat
  /\ MaxVersions \in Nat \ {0, 1}
  /\ Lagging \subseteq BOOLEAN

(***************************************************************************)
(* A VMFR: where it is in its life, its finalizers, whether                *)
(* status.createdNamespace names the namespace, and how far its workflow   *)
(* is.                                                                     *)
(***************************************************************************)
Lives == {"uncreated", "active", "deleting", "gone"}
Progress == {"none", "validated", "namespace ready", "served", "failed"}
Finalizers == {"velero-restore-cleanup", "vm-file-restore"}
VMFR == [life: Lives, finalizers: SUBSET Finalizers, recorded: BOOLEAN,
         progress: Progress]
Uncreated == [life |-> "uncreated", finalizers |-> {}, recorded |-> FALSE,
              progress |-> "none"]
Exists(o) == o.life \in {"active", "deleting"}

VARIABLES
  log,        \* versions of the VMFRs, from the cached one to the server's
  access,     \* the two shared objects in the namespace
  pods,       \* the VMFRs whose file server pod exists
  openshift,  \* the cluster has the ClusterRole of the privileged SCC
  lags,       \* a reconcile may start from an older version of the VMFRs
  queue,      \* keys in the work queue
  faults,     \* crashes and API failures left
  pc,         \* where the running reconcile is; "idle" when none runs
  current,    \* the VMFR it works on
  mem         \* that VMFR as the reconcile holds it in memory

cluster == <<access, pods, openshift, lags>>
worker == <<pc, current, mem>>
vars == <<log, cluster, queue, faults, worker>>

cache == Head(log)
server == log[Len(log)]

Places ==
  {"idle", "finalizer", "validate", "namespace", "serviceaccount", "rolebinding",
   "ready", "pod", "publish", "fail", "delete restores", "cleanup", "delete pods", "list",
   "delete rolebinding", "delete serviceaccount", "drop finalizer"}

\* The one type invariant of the module.
TypeOK ==
  /\ log \in Seq([VMFRs -> VMFR]) /\ Len(log) \in 1..MaxVersions
  /\ access \in [AccessObjects -> {"absent", "managed", "foreign"}]
  /\ pods \subseteq VMFRs
  /\ openshift \in BOOLEAN /\ lags \in Lagging
  /\ queue \subseteq VMFRs
  /\ faults \in 0..MaxFaults
  /\ pc \in Places
  /\ current \in VMFRs
  /\ mem \in VMFR

-----------------------------------------------------------------------------
(***************************************************************************)
(* Writes are merge patches of the fields that changed, without a version  *)
(* check.  Dropping the last finalizer of a VMFR under deletion removes it. *)
(***************************************************************************)
Stored(o) ==
  IF o.life = "deleting" /\ o.finalizers = {} THEN [o EXCEPT !.life = "gone"] ELSE o

Merge(new, onto) ==
  [life |-> onto.life,
   finalizers |-> IF new.finalizers # mem.finalizers THEN new.finalizers
                  ELSE onto.finalizers,
   recorded |-> IF new.recorded # mem.recorded THEN new.recorded ELSE onto.recorded,
   progress |-> IF new.progress # mem.progress THEN new.progress ELSE onto.progress]

Write(v, o) ==
  \/ o = server[v] /\ UNCHANGED log
  \/ o # server[v] /\ Len(log) < MaxVersions /\ log' = Append(log, [server EXCEPT ![v] = o])

\* A patch of a VMFR that is gone is answered NotFound.
Patch(new) ==
  /\ Exists(server[current])
  /\ Write(current, Stored(Merge(new, server[current])))

EndReconcile(requeue) ==
  /\ pc' = "idle" /\ mem' = Uncreated /\ UNCHANGED current
  /\ queue' = IF requeue THEN queue \cup {current} ELSE queue

\* The reconcile goes on at k with the patched resource, or ends.
PatchThen(new, k) ==
  /\ Patch(new)
  /\ pc' = k /\ mem' = Stored(Merge(new, server[current]))
  /\ UNCHANGED <<cluster, queue, faults, current>>

PatchEnd(new, requeue) ==
  /\ Patch(new)
  /\ EndReconcile(requeue)
  /\ UNCHANGED <<cluster, faults>>

Goto(k) == pc' = k /\ UNCHANGED <<log, queue, faults, current, mem>>

-----------------------------------------------------------------------------
(***************************************************************************)
(* Reconcile selects a step from the cached copy.  "none" stands for the   *)
(* phases before validation is completed.                                  *)
(***************************************************************************)
CleanupStep(o) ==
  IF "velero-restore-cleanup" \in o.finalizers THEN "delete restores"
  ELSE IF "vm-file-restore" \in o.finalizers THEN "cleanup" ELSE "idle"

SelectedStep(o) ==
  CASE o.life \in {"uncreated", "gone"} -> "idle"
    [] o.life = "deleting" -> CleanupStep(o)
    [] o.life = "active" ->
         CASE o.progress = "none" ->
                IF o.finalizers # Finalizers THEN "finalizer" ELSE "validate"
           [] o.progress = "validated" -> "namespace"
           [] o.progress = "namespace ready" -> "pod"
           [] o.progress \in {"served", "failed"} -> "idle"

Reconcile(v) ==
  /\ pc = "idle" /\ v \in queue
  /\ lags \/ Len(log) = 1
  /\ queue' = queue \ {v}
  /\ \/ /\ SelectedStep(cache[v]) # "idle"
        /\ pc' = SelectedStep(cache[v]) /\ current' = v /\ mem' = cache[v]
     \/ SelectedStep(cache[v]) = "idle" /\ UNCHANGED worker
  /\ UNCHANGED <<log, cluster, faults>>

\* The API server refuses new finalizers once the VMFR is being deleted.
FinalizersRefused ==
  server[current].life = "deleting" /\ server[current].finalizers # Finalizers

ensureFinalizer ==
  /\ pc = "finalizer" /\ ~FinalizersRefused
  /\ PatchEnd([mem EXCEPT !.finalizers = Finalizers], TRUE)

\* Mutant of Validate: a partial failure is published as a step of its own.
ValidatePartially ==
  /\ pc = "validate"
  /\ \E p \in {"validated", "failed", "partially failed"} :
       PatchEnd([mem EXCEPT !.progress = p], TRUE)

\* validateAndDiscoverPVCs, seen from outside.
Validate ==
  /\ pc = "validate"
  /\ \E p \in {"validated", "failed"} : PatchEnd([mem EXCEPT !.progress = p], TRUE)

failValidation ==
  /\ pc = "fail"
  /\ PatchEnd([mem EXCEPT !.progress = "failed"], TRUE)

-----------------------------------------------------------------------------
(***************************************************************************)
(* ensureRestoreNamespace for a namespace named in the spec: the namespace *)
(* is recorded before any access object is created.                        *)
(***************************************************************************)
\* Mutant of ensureRestoreNamespace: the access objects come first.
ensureRestoreNamespaceUnrecorded ==
  pc = "namespace" /\ Goto("serviceaccount") /\ UNCHANGED cluster

ensureRestoreNamespace ==
  /\ pc = "namespace"
  /\ PatchThen([mem EXCEPT !.recorded = TRUE], "serviceaccount")

\* ensureFileServerAccess, for one of the two objects: it is created if it is
\* not there, and refused if somebody else manages it.
EnsureObject(object, creatable, k) ==
  \/ /\ access[object] = "absent" /\ creatable
     /\ access' = [access EXCEPT ![object] = "managed"]
     /\ Goto(k) /\ UNCHANGED <<pods, openshift, lags>>
  \/ /\ access[object] = "managed" \/ (access[object] = "absent" /\ ~creatable)
     /\ Goto(k) /\ UNCHANGED cluster
  \/ access[object] = "foreign" /\ Goto("fail") /\ UNCHANGED cluster

\* Without the ClusterRole the RoleBinding is answered NotFound and skipped.
ensureFileServerAccess ==
  \/ pc = "serviceaccount" /\ EnsureObject("serviceaccount", TRUE, "rolebinding")
  \/ pc = "rolebinding" /\ EnsureObject("rolebinding", openshift, "ready")

NamespaceReady ==
  /\ pc = "ready"
  /\ PatchEnd([mem EXCEPT !.progress = "namespace ready"], TRUE)

\* The API server admits a pod only with its service account and, on OpenShift,
\* only with the right to the privileged SCC.
HasAccess ==
  access["serviceaccount"] # "absent" /\ (openshift => access["rolebinding"] # "absent")

createFileServerResources ==
  /\ pc = "pod"
  /\ \/ /\ HasAccess \/ current \in pods
        /\ pods' = pods \cup {current}
        /\ Goto("publish") /\ UNCHANGED <<access, openshift, lags>>
     \/ ~HasAccess /\ current \notin pods /\ Goto("fail") /\ UNCHANGED cluster

Publish == pc = "publish" /\ PatchEnd([mem EXCEPT !.progress = "served"], FALSE)

-----------------------------------------------------------------------------
(***************************************************************************)
(* Deletion.  Once the Restores are deleted the first finalizer goes; a    *)
(* later reconcile cleans up the namespace and drops the second.           *)
(***************************************************************************)
handleVeleroRestoreCleanup ==
  /\ pc = "delete restores"
  /\ PatchEnd([mem EXCEPT !.finalizers = @ \ {"velero-restore-cleanup"}], TRUE)

handleResourceCleanup ==
  /\ pc = "cleanup"
  /\ Goto(IF mem.recorded THEN "delete pods" ELSE "drop finalizer")
  /\ UNCHANGED cluster

deleteFileServerPods ==
  /\ pc = "delete pods"
  /\ pods' = pods \ {current}
  /\ Goto("list") /\ UNCHANGED <<access, openshift, lags>>

\* Mutant of InUse: only VMFRs with a file server count.
InUseByServed(list, v) ==
  \E w \in VMFRs \ {v} : list[w].life = "active" /\ list[w].progress = "served"

\* Another VMFR in the list, not under deletion, records the namespace.
InUse(list, v) ==
  \E w \in VMFRs \ {v} : list[w].life = "active" /\ list[w].recorded

\* deleteFileServerAccess: the list is read from the cache, then the objects the
\* controller manages are deleted one after the other.
ListOthers ==
  /\ pc = "list"
  /\ Goto(IF InUse(cache, current) THEN "drop finalizer" ELSE "delete rolebinding")
  /\ UNCHANGED cluster

DeleteObject(object, k) ==
  /\ access' = [access EXCEPT ![object] = IF @ = "managed" THEN "absent" ELSE @]
  /\ Goto(k) /\ UNCHANGED <<pods, openshift, lags>>

deleteFileServerAccess ==
  \/ pc = "delete rolebinding" /\ DeleteObject("rolebinding", "delete serviceaccount")
  \/ pc = "delete serviceaccount" /\ DeleteObject("serviceaccount", "drop finalizer")

DropFinalizer ==
  /\ pc = "drop finalizer"
  /\ PatchEnd([mem EXCEPT !.finalizers = @ \ {"vm-file-restore"}], FALSE)

-----------------------------------------------------------------------------
(***************************************************************************)
(* Failing calls, crashes, the user and the informer.                      *)
(***************************************************************************)
FailsValidation == {"validate", "namespace", "serviceaccount", "rolebinding", "pod"}
ReturnsError == Places \ (FailsValidation \cup {"idle"})

\* Mutant of Retry: an error of the cleanup is logged and not returned.
RetryUnlessCleanup ==
  queue' = IF pc \in {"delete pods", "list", "delete rolebinding", "delete serviceaccount"}
           THEN queue ELSE queue \cup {current}

\* An error that Reconcile returns puts the key back.
Retry == queue' = queue \cup {current}

ApiError ==
  /\ faults > 0 /\ faults' = faults - 1
  /\ \/ pc \in FailsValidation /\ pc' = "fail" /\ UNCHANGED <<queue, current, mem>>
     \/ pc \in ReturnsError /\ pc' = "idle" /\ mem' = Uncreated /\ Retry /\ UNCHANGED current
  /\ UNCHANGED <<log, cluster>>

\* The patch cannot be applied: the VMFR is gone or refuses the finalizers.
PatchRefused ==
  /\ \/ pc \in {"finalizer", "validate", "namespace", "ready", "publish", "fail",
                "delete restores", "drop finalizer"} /\ ~Exists(server[current])
     \/ pc = "finalizer" /\ FinalizersRefused
  /\ EndReconcile(TRUE) /\ UNCHANGED <<log, cluster, faults>>

Crash ==
  /\ faults > 0 /\ faults' = faults - 1
  /\ pc' = "idle" /\ mem' = Uncreated /\ UNCHANGED current
  /\ log' = <<server>> /\ queue' = VMFRs
  /\ UNCHANGED cluster

UserCreates(v) ==
  /\ server[v].life = "uncreated"
  /\ Write(v, [server[v] EXCEPT !.life = "active"])
  /\ UNCHANGED <<cluster, queue, faults, worker>>

UserDeletes(v) ==
  /\ server[v].life = "active"
  /\ Write(v, Stored([server[v] EXCEPT !.life = "deleting"]))
  /\ UNCHANGED <<cluster, queue, faults, worker>>

InformerDelivers ==
  /\ Len(log) > 1
  /\ log' = Tail(log)
  /\ queue' = queue \cup {v \in VMFRs : log[2][v] # log[1][v]}
  /\ UNCHANGED <<cluster, faults, worker>>

-----------------------------------------------------------------------------
Init ==
  /\ log = <<[v \in VMFRs |-> Uncreated]>>
  /\ \E F \in SUBSET Foreign :
        access = [o \in AccessObjects |-> IF o \in F THEN "foreign" ELSE "absent"]
  /\ pods = {}
  /\ openshift \in BOOLEAN /\ lags \in Lagging
  /\ queue = {} /\ faults = MaxFaults
  /\ pc = "idle" /\ current = (CHOOSE v \in VMFRs : TRUE) /\ mem = Uncreated

Workflow ==
  \/ ensureFinalizer
  \/ Validate
  \/ failValidation
  \/ ensureRestoreNamespace
  \/ ensureFileServerAccess
  \/ NamespaceReady
  \/ createFileServerResources
  \/ Publish

Deletion ==
  \/ handleVeleroRestoreCleanup
  \/ handleResourceCleanup
  \/ deleteFileServerPods
  \/ ListOthers
  \/ deleteFileServerAccess
  \/ DropFinalizer

\* The work queue serves the keys in turn; which one is next is left open.
Controller == (\E v \in VMFRs : Reconcile(v)) \/ Workflow \/ Deletion \/ PatchRefused

Environment ==
  \/ ApiError
  \/ Crash
  \/ \E v \in VMFRs : UserCreates(v) \/ UserDeletes(v)
  \/ InformerDelivers

Next == Controller \/ Environment

Spec == Init /\ [][Next]_vars

\* The worker goes on when it can and watches deliver.
FairSpec == Spec /\ WF_vars(Controller) /\ WF_vars(InformerDelivers)

-----------------------------------------------------------------------------
(***************************************************************************)
(* Properties.                                                             *)
(***************************************************************************)
Managed == {o \in AccessObjects : access[o] = "managed"}

\* "Record the namespace before creating access resources. This makes partial
\* access-resource creation recoverable through the normal finalizer cleanup":
\* while the service account or the binding to the privileged SCC exists, some
\* VMFR still exists that records the namespace and will clean up.  So the last
\* VMFR takes them along, whatever failed and whoever was deleted meanwhile.
AccessHasAnOwner ==
  Managed # {} => \E v \in VMFRs : Exists(server[v]) /\ server[v].recorded

\* deleteFileServerAccess works "when no other active VMFR uses that namespace":
\* a VMFR whose namespace step is done keeps its access objects for as long as it
\* is not deleted, whatever VMFRs around it are created, fail and are cleaned up.
ActiveKeepsAccess ==
  \A v \in VMFRs :
    server[v].life = "active" /\ server[v].progress \in {"namespace ready", "served"} =>
      HasAccess

\* So it is when reconciles start from a cache that caught up, although VMFRs are
\* created and deleted, and deliveries come in, between the listing of the others
\* and the two deletions.
CurrentListKeepsAccess == ~lags => ActiveKeepsAccess

\* Once every VMFR is deleted the namespace is as the user left it: the pods and
\* the privileges go, although each VMFR in turn may have left them to another.
NamespaceLeftClean ==
  (\A v \in VMFRs : server[v].life \in {"deleting", "gone"}) ~>
    (pods = {} /\ Managed = {} /\ \A v \in VMFRs : server[v].life = "gone")

=============================================================================

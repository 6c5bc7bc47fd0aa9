--------------------------- MODULE FileRestoreSteps ---------------------------
(***************************************************************************)
(* Every step of FileRestore preserves Inv and is a step of                *)
(* RestoreLifecycle or leaves its state alone: one lemma per action.       *)
(***************************************************************************)
EXTENDS FileRestoreProofs

-----------------------------------------------------------------------------
(***************************************************************************)
(* The invariant holds initially, and a reconcile begins where it holds.   *)
(***************************************************************************)
LEMMA InitCore ==
  ASSUME Init
  PROVE  Core
<1>1. server = Created /\ pc = "idle" /\ restores = <<>> /\ objs = {} /\ mounts = {}
  BY DEF Init, server
<1>2. /\ Created.exists = TRUE /\ Created.deleting = FALSE /\ Created.finalizers = {}
      /\ Created.phase = "" /\ Created.createdNamespace = FALSE
      /\ Created.entries = [b \in Backups |-> NoEntry]
  BY DEF Created
<1>3. NoEntry.restore = 0 /\ NoEntry.state = "none"
  BY DEF NoEntry
<1>4. Unnamed(Created.entries)
  BY <1>2, <1>3, Zenon DEF Unnamed
<1>5. Chosen(Created.entries) = {}
  BY <1>2, <1>3 DEF Chosen
<1>6. stage = "created"
  BY <1>1, <1>2, StageValues DEF stage
<1>7. Len(restores) = 0 /\ Existing(restores) = {}
  BY <1>1 DEF Existing
<1>8. FinalizerInv
  BY <1>1, <1>2 DEF FinalizerInv
<1>9. ReasonInv
  BY <1>1, <1>2 DEF ReasonInv
<1>10. PublicInv
  BY <1>6 DEF PublicInv
<1>11. Claims(stage)
  BY <1>1, <1>2, <1>4, <1>5, <1>6 DEF Claims, FromRestoring, FromRestored, FromPlaced
<1>12. RestoreInv
  <2>1. Links(Created.entries, BackupsOf(restores))
    BY <1>4 DEF Unnamed, Links
  <2>2. 1..Len(restores) = {}
    BY <1>7
  <2> QED
    BY <1>1, <1>7, <2>1, <2>2 DEF RestoreInv
<1>13. ObjectInv
  BY <1>1, <1>2 DEF ObjectInv, Init
<1>14. At(pc)
  <2>1. SyncAt(pc)
    BY <1>1 DEF SyncAt, Serving, RemovingRestores, RemovingObjects
  <2>2. StageAt(pc) /\ ChoiceAt(pc)
    BY <1>1 DEF StageAt, ChoiceAt
  <2>3. WorldAt(pc)
    BY <1>1 DEF WorldAt, RemovingObjects
  <2> QED
    BY <2>1, <2>2, <2>3 DEF At
<1> QED
  BY <1>8, <1>9, <1>10, <1>11, <1>12, <1>13, <1>14 DEF Core, WorldInv

\* What the version a reconcile reads tells of the step it selects.
Begin(k) ==
  /\ k \in {"finalizer", "initialize", "validate", "discovery", "namespace", "restores",
            "monitor", "credentials", "file server", "route check", "delete restores", "cleanup"}
  /\ k \notin {"delete restores", "cleanup"} => ~server.deleting
  /\ k \notin {"finalizer", "cleanup"} => server.finalizers = Finalizers
  /\ k = "finalizer" => server.finalizers = {}
  /\ k = "cleanup" => server.finalizers = {"vm-file-restore"}
  /\ k \in {"delete restores", "cleanup"} => server.deleting
  /\ server.exists
  /\ k = "discovery" => server.cond.reason \in EarlyReasons
  /\ StageAt(k)

LEMMA ReconcileBegins ==
  ASSUME TypeInv, WorldInv, SelectedStep(server) # "idle"
  PROVE  Begin(SelectedStep(server))
<1> DEFINE k == SelectedStep(server)
<1>1. server \in Resource
  BY ServerFields
<1>2. Finalizers # {} /\ "velero-restore-cleanup" \in Finalizers
  BY DEF Finalizers
<1>3. FinalizerInv /\ ReasonInv
  BY DEF WorldInv
<1>4. CASE server.exists /\ server.deleting /\ k = CleanupStep(server)
  <2>1. server.finalizers \in {Finalizers, {"vm-file-restore"}}
    BY <1>3, <1>4 DEF FinalizerInv
  <2>2. CASE server.finalizers = Finalizers
    <3>1. k = "delete restores"
      BY <1>2, <1>4, <2>2 DEF CleanupStep
    <3>2. StageAt(k)
      BY <3>1 DEF StageAt
    <3> QED
      BY <1>4, <2>2, <3>1, <3>2 DEF Begin
  <2>3. CASE server.finalizers = {"vm-file-restore"}
    <3>1. k = "cleanup"
      BY <1>4, <2>3 DEF CleanupStep
    <3>2. StageAt(k)
      BY <3>1 DEF StageAt
    <3> QED
      BY <1>4, <2>3, <3>1, <3>2 DEF Begin
  <2> QED
    BY <2>1, <2>2, <2>3
<1>5. CASE /\ server.exists /\ ~server.deleting /\ server.phase = ""
           /\ k = IF server.finalizers # Finalizers THEN "finalizer" ELSE "initialize"
  <2>1. stage = "created"
    BY <1>5, StageValues DEF stage
  <2>2. server.finalizers \in {{}, Finalizers}
    BY <1>3, <1>5 DEF FinalizerInv
  <2>3. StageAt(k)
    BY <1>5, <2>1 DEF StageAt
  <2> QED
    BY <1>2, <1>5, <2>2, <2>3 DEF Begin
<1>6. ASSUME server.exists, ~server.deleting, server.phase # "" PROVE server.finalizers = Finalizers
  BY <1>3, <1>6 DEF FinalizerInv
<1>7. CASE /\ server.exists /\ ~server.deleting /\ server.phase \in Unfinished
           /\ server.cond.reason \in WorkflowReasons
           /\ k = WorkflowStep(server.cond.reason)
  <2>1. server.phase = "InProgress"
    BY <1>3, <1>7 DEF ReasonInv, Unfinished, WorkflowReasons
  <2>2. \/ k = "namespace" /\ stage = "validated"
        \/ k = "restores" /\ stage = "placed"
        \/ k = "monitor" /\ stage = "restoring"
        \/ k = "credentials" /\ stage = "restored"
        \/ k = "file server" /\ stage = "credentials"
        \/ k = "route check" /\ stage = "exposing"
    BY <1>7, <2>1, StageValues, WorkflowStepIs DEF stage, WorkflowReasons
  <2>3. server.finalizers = Finalizers
    BY <1>6, <1>7, <2>1
  <2> HIDE DEF k
  <2>4. StageAt(k)
    BY <2>2 DEF StageAt
  <2>5. Begin(k)
    BY <1>7, <2>2, <2>3, <2>4 DEF Begin
  <2> QED
    BY <2>5 DEF k
<1>8. CASE /\ server.exists /\ ~server.deleting /\ server.phase \in Unfinished
           /\ server.cond.reason \notin WorkflowReasons
           /\ k = IF server.phase = "New" THEN "validate" ELSE "discovery"
  <2>1. server.finalizers = Finalizers
    BY <1>6, <1>8 DEF Unfinished
  <2>2. CASE server.phase = "New"
    <3>1. stage = "new"
      BY <2>2, StageValues DEF stage
    <3>2. StageAt(k)
      BY <1>8, <2>2, <3>1 DEF StageAt
    <3> QED
      BY <1>8, <2>1, <2>2, <3>2 DEF Begin
  <2>3. CASE server.phase = "InProgress"
    <3>1. server.cond.reason \in EarlyReasons
      BY <1>3, <1>8, <2>3 DEF ReasonInv
    <3>2. stage = "validating"
      BY <2>3, <3>1, StageValues DEF stage, EarlyReasons
    <3>3. StageAt(k)
      BY <1>8, <2>3, <3>2 DEF StageAt
    <3> QED
      BY <1>8, <2>1, <2>3, <3>1, <3>3 DEF Begin
  <2> QED
    BY <1>8, <2>2, <2>3 DEF Unfinished
<1> QED
  BY <1>1, <1>4, <1>5, <1>7, <1>8, SelectedStepIs

LEMMA ReconcileCore ==
  ASSUME StaleReads = FALSE, Inv, TypeInv', Reconcile
  PROVE  Core' /\ LifeStep
<1>1. cache = server
  BY DEF Reconcile, cache, server, Inv, TypeInv, LogPart
<1>2. server' = server /\ restores' = restores /\ UNCHANGED <<spec, namespace, objs, mounts>>
      /\ pc = "idle"
  BY DEF Reconcile, world, server
<1>3. RestoresFrame
  BY <1>2, RestoresKept
<1>4. CASE SelectedStep(cache) = "idle" /\ UNCHANGED <<pc, mem, fresh>>
  BY <1>2, <1>3, <1>4, EndCore
<1>5. CASE /\ SelectedStep(cache) # "idle"
           /\ pc' = SelectedStep(cache) /\ mem' = cache /\ fresh' = (Len(log) = 1)
  <2>1. Begin(SelectedStep(server))
    BY <1>1, <1>5, ReconcileBegins DEF Inv
  <2>2. PICK k : k = SelectedStep(server)
    OBVIOUS
  <2>3. Begin(k) /\ pc' = k /\ mem' = server'
    BY <1>1, <1>2, <1>5, <2>1, <2>2
  <2>4. Untouched' => Untouched
    BY <1>2, <2>3 DEF Begin, Untouched, Serving
  <2>5. WorldInv'
    BY <1>2, <1>3, <2>4, WorldFrame DEF Inv
  <2>6. SyncAt(pc)'
    BY <1>2, <2>3 DEF Begin, SyncAt, Serving, RemovingRestores, RemovingObjects
  <2>7. StageAt(pc)'
    <3>1. stage' = stage
      BY <1>2 DEF stage
    <3> QED
      BY <2>3, <3>1 DEF Begin, StageAt
  <2>8. ChoiceAt(pc)'
    BY <1>2, <2>3 DEF Begin, ChoiceAt
  <2>9. WorldAt(pc)'
    BY <2>3 DEF Begin, WorldAt, RemovingObjects
  <2>10. LifeStep
    BY <1>2, <1>3, KeptStep DEF Inv
  <2> QED
    BY <2>5, <2>6, <2>7, <2>8, <2>9, <2>10 DEF Core, At
<1> QED
  BY <1>4, <1>5 DEF Reconcile

-----------------------------------------------------------------------------
(***************************************************************************)
(* Finalizers, initialization and validation.                              *)
(***************************************************************************)
LEMMA FinalizerCore ==
  ASSUME Inv, TypeInv', ensureFinalizer
  PROVE  Core' /\ LifeStep
<1>1. CASE Return(TRUE)
  BY <1>1, ReturnCore
<1>2. CASE PatchEnd([mem EXCEPT !.finalizers = Finalizers], TRUE)
  <2> DEFINE new == [mem EXCEPT !.finalizers = Finalizers]
  <2>1. new \in Resource /\ EntriesOK(new, Len(restores))
    BY FinalizersType DEF Inv, TypeInv
  <2>2. /\ new.finalizers = Finalizers /\ new.phase = mem.phase /\ new.cond = mem.cond
        /\ new.createdNamespace = mem.createdNamespace /\ new.entries = mem.entries
        /\ new.info = mem.info
    BY DEF Inv, TypeInv, MemPart, Resource
  <2>3. Patch(new) /\ UNCHANGED <<spec, restores, namespace, objs, mounts>> /\ pc' = "idle"
    BY <1>2 DEF PatchEnd, EndReconcile, world
  <2> HIDE DEF new
  <2>4. pc = "finalizer" /\ server.finalizers = {} /\ stage = "created"
    BY DEF ensureFinalizer, Inv, At, SyncAt, StageAt
  <2>5. server.exists /\ ~server.deleting
    BY <2>3, <2>4 DEF Patch, Inv, WorldInv, FinalizerInv, Finalizers
  <2>6. server' = Stored(Onto(new))
    BY <2>1, <2>3, <2>4, PatchSync DEF Inv, At
  <2>7. server' = Onto(new)
    BY <2>5, <2>6 DEF Stored, Onto
  <2>8. /\ server'.exists /\ ~server'.deleting /\ server'.finalizers = Finalizers
        /\ server'.phase = server.phase /\ server'.cond = server.cond
        /\ server'.createdNamespace = server.createdNamespace
        /\ server'.entries = server.entries /\ server'.info = server.info
    BY <2>2, <2>4, <2>5, <2>7 DEF Onto, Inv, At, SyncAt
  <2>9. stage' = "created"
    <3>1. server'.phase = ""
      BY <2>4, <2>8, PhaseOfStage DEF Inv, WorldInv
    <3> QED
      BY <3>1, StageValues DEF stage
  <2>10. FinalizerInv'
    <3>1. server'.phase = ""
      BY <2>4, <2>8, PhaseOfStage DEF Inv, WorldInv
    <3> QED
      BY <2>8, <3>1 DEF FinalizerInv
  <2>11. ReasonInv' /\ PublicInv'
    BY <2>8, <2>9 DEF Inv, WorldInv, ReasonInv, PublicInv
  <2>12. Untouched
    BY <2>5 DEF Untouched
  <2>13. Claims(stage)'
    BY <2>3, <2>4, <2>8, <2>9 DEF Inv, WorldInv, Claims, FromPlaced, FromRestoring, FromRestored
  <2>14. RestoreInv'
    BY <2>3, <2>8, <2>12 DEF Inv, WorldInv, RestoreInv
  <2>15. ObjectInv'
    BY <2>3, <2>8, <2>12 DEF Inv, WorldInv, ObjectInv
  <2>16. lives = "live" /\ lives' = "live"
    BY <2>5, <2>8, LivesValues DEF Inv, lives, Life
  <2>17. UNCHANGED <<chosen, restored, served>>
    BY <2>3, <2>8 DEF chosen, restored, served
  <2>18. LifeStep
    BY <2>4, <2>9, <2>16, <2>17, StutterStep DEF Inv
  <2> QED
    BY <2>3, <2>10, <2>11, <2>13, <2>14, <2>15, <2>18, AtIdle DEF Core, WorldInv
<1> QED
  BY <1>1, <1>2 DEF ensureFinalizer

LEMMA InitializeCore ==
  ASSUME Inv, TypeInv', initializePhaseForFileRestore
  PROVE  Core' /\ LifeStep
<1> DEFINE c == Cond(FALSE, "Initialized", FALSE, FALSE, FALSE)
<1>1. c \in Conditions /\ c.reason = "Initialized" /\ "New" \in Phases
  BY CondType DEF Cond, Reasons, Phases
<1>2. PatchEnd(StatusPhaseConditions("New", c), TRUE)
  BY DEF initializePhaseForFileRestore
<1>3. pc = "initialize" /\ stage = "created" /\ pc \in Serving \ {"finalizer", "update"}
  BY DEF initializePhaseForFileRestore, Inv, At, StageAt, Serving
<1>4. Claims("new")
  BY <1>3 DEF Inv, WorldInv, Claims, UpToValidated, FromPlaced, FromRestoring, FromRestored
<1>5. MayFollow("new")
  BY <1>3, AfterValues DEF MayFollow
<1> HIDE DEF c
<1>6. restores' = restores /\ UNCHANGED <<spec, namespace, objs, mounts>> /\ pc' = "idle"
  BY <1>2 DEF PatchEnd, EndReconcile, world
<1>7. Published("New", c)
  BY <1>1, <1>2, <1>3, <1>6, StatusPublished DEF Inv, At, PatchEnd
<1>8. LifeStage(server') = "new" /\ stage' = "new"
  BY <1>7, StageValues DEF stage, Published
<1>9. WorldInv'
  BY <1>1, <1>3, <1>4, <1>6, <1>7, <1>8, AdvanceWorld DEF Inv, At
<1>10. LifeStep
  BY <1>3, <1>5, <1>6, <1>7, <1>8, PublishedStep DEF Inv, At
<1> QED
  BY <1>6, <1>9, <1>10, AtIdle DEF Core

\* A permanent failure, from wherever it is reported.
LEMMA FailedCore ==
  ASSUME Inv, TypeInv', pc \in Serving \ {"finalizer", "update"}, "Failed" \in Lifecycle!After(stage),
         NEW c \in Conditions, NEW q, PatchEnd(StatusPhaseConditions("Failed", c), q)
  PROVE  Core' /\ LifeStep
<1>1. "Failed" \in Phases
  BY DEF Phases, Terminal
<1>2. Claims("Failed")
  BY DEF Claims, UpToValidated, FromPlaced, FromRestoring, FromRestored
<1>3. MayFollow("Failed")
  BY AfterValues DEF MayFollow
<1>4. \A o : o.phase = "Failed" /\ o.cond.reason = c.reason => LifeStage(o) = "Failed"
  BY StageValues
<1> DEFINE p == "Failed"
<1>5. p \notin {"", "Completed", "New", "InProgress"}
  OBVIOUS
<1>6. Claims(p) /\ MayFollow(p) /\ p \in Phases /\ PatchEnd(StatusPhaseConditions(p, c), q)
  BY <1>1, <1>2, <1>3
<1>7. \A o : o.phase = p /\ o.cond.reason = c.reason => LifeStage(o) = p
  BY <1>4
<1> HIDE DEF p
<1> QED
  BY <1>5, <1>6, <1>7, AdvanceCore

\* A partial failure ends a restore that has no pod.
LEMMA PartiallyFailedCore ==
  ASSUME Inv, TypeInv', pc \in Serving \ {"finalizer", "update"},
         stage \in {"validating", "restoring"},
         NEW c \in Conditions, NEW q, PatchEnd(StatusPhaseConditions("PartiallyFailed", c), q)
  PROVE  Core' /\ LifeStep
<1>1. "PartiallyFailed" \in Phases
  BY DEF Phases, Terminal
<1>2. "pod" \notin objs
  BY DEF Inv, WorldInv, Claims
<1>3. Claims("PartiallyFailed")
  BY <1>2 DEF Claims, UpToValidated, FromPlaced, FromRestoring, FromRestored
<1>4. MayFollow("PartiallyFailed")
  BY AfterValues DEF MayFollow
<1>5. \A o : o.phase = "PartiallyFailed" /\ o.cond.reason = c.reason => LifeStage(o) = "PartiallyFailed"
  BY StageValues
<1> DEFINE p == "PartiallyFailed"
<1>6. p \notin {"", "Completed", "New", "InProgress"}
  OBVIOUS
<1>7. Claims(p) /\ MayFollow(p) /\ p \in Phases /\ PatchEnd(StatusPhaseConditions(p, c), q)
  BY <1>1, <1>3, <1>4
<1>8. \A o : o.phase = p /\ o.cond.reason = c.reason => LifeStage(o) = p
  BY <1>5
<1> HIDE DEF p
<1> QED
  BY <1>6, <1>7, <1>8, AdvanceCore

LEMMA FailCore ==
  ASSUME Inv, TypeInv', failValidation
  PROVE  Core' /\ LifeStep
<1>1. pc = "fail" /\ pc \in Serving \ {"finalizer", "update"}
  BY DEF failValidation, Serving
<1>2. "Failed" \in Lifecycle!After(stage)
  BY <1>1, AfterValues DEF Inv, At, StageAt
<1>3. Cond(FALSE, "ValidationFailed", FALSE, TRUE, FALSE) \in Conditions
  BY CondType DEF Reasons
<1> QED
  BY <1>1, <1>2, <1>3, FailedCore DEF failValidation

LEMMA GotoFailCore ==
  ASSUME Inv, TypeInv',
         pc \in {"discovery", "discover", "classify", "namespace", "record namespace",
                 "serviceaccount", "rolebinding", "restores", "create", "names", "judge",
                 "credentials", "secrets", "file server", "pod", "service"},
         Goto("fail"), UNCHANGED world
  PROVE  Core' /\ LifeStep
BY FailAt, GotoCore DEF Inv

LEMMA StartValidationCore ==
  ASSUME Inv, TypeInv', StartValidation
  PROVE  Core' /\ LifeStep
<1> DEFINE c == Cond(TRUE, "Validating", FALSE, FALSE, FALSE)
           new == StatusPhaseConditions("InProgress", c)
<1>1. c \in Conditions /\ c.reason = "Validating" /\ "InProgress" \in Phases
  BY CondType DEF Cond, Reasons, Phases
<1>2. /\ Patch(new) /\ UNCHANGED <<spec, restores, namespace, objs, mounts, fresh>>
      /\ pc' = "discovery" /\ mem' = Stored(Merge(mem, new, server))
  BY DEF StartValidation, InProgress, PatchThen, world
<1>3. pc = "validate" /\ stage = "new" /\ pc \in Serving \ {"finalizer", "update"}
  BY DEF StartValidation, Inv, At, StageAt, Serving
<1> HIDE DEF c
<1>4. Published("InProgress", c) /\ server' = mem'
  BY <1>1, <1>2, <1>3, StatusPublished DEF Inv, At
<1>5. stage' = "validating"
  BY <1>1, <1>4, StageValues DEF stage, Published
<1>6. Claims("validating") /\ Chosen(server.entries) = {}
  BY <1>3 DEF Inv, WorldInv, Claims, UpToValidated, FromPlaced, FromRestoring, FromRestored
<1>7. LifeStage(server') = "validating"
  BY <1>5 DEF stage
<1>8. WorldInv'
  BY <1>1, <1>2, <1>3, <1>4, <1>6, <1>7, AdvanceWorld DEF Inv, At, EarlyReasons
<1>9. MayFollow("validating")
  BY <1>3, AfterValues DEF MayFollow
<1>10. LifeStep
  BY <1>2, <1>3, <1>4, <1>5, <1>9, PublishedStep DEF Inv, At
<1>11. SyncAt(pc)'
  <2>1. server.exists /\ server.finalizers = Finalizers
    BY <1>3 DEF Inv, At, SyncAt
  <2> QED
    BY <1>2, <1>4, <2>1 DEF Published, SyncAt, Serving, RemovingRestores, RemovingObjects
<1>12. StageAt(pc)' /\ WorldAt(pc)'
  BY <1>2, <1>5 DEF StageAt, WorldAt, RemovingObjects
<1>13. ChoiceAt(pc)'
  BY <1>1, <1>2, <1>4 DEF ChoiceAt, Published, EarlyReasons
<1> QED
  BY <1>8, <1>10, <1>11, <1>12, <1>13 DEF Core, At

-----------------------------------------------------------------------------
(***************************************************************************)
(* validateAndDiscoverPVCs.                                                *)
(***************************************************************************)
LEMMA DiscoveringFields ==
  ASSUME MemPart
  PROVE  /\ Discovering.finalizers = mem.finalizers /\ Discovering.phase = "InProgress"
         /\ Discovering.cond.reason = "DiscoveringPVCs"
         /\ Discovering.createdNamespace = mem.createdNamespace
         /\ Discovering.entries = mem.entries /\ Discovering.info = mem.info
BY DEF MemPart, Resource, Conditions, Discovering

LEMMA DiscoveryCore ==
  ASSUME Inv, TypeInv', validateReferencedDiscovery
  PROVE  Core' /\ LifeStep
<1>1. pc = "discovery" /\ stage = "validating" /\ pc \in Serving \ {"finalizer", "update"}
  BY DEF validateReferencedDiscovery, Inv, At, StageAt, Serving
<1>2. server.phase = "InProgress" /\ server.cond.reason \in EarlyReasons
  BY <1>1, PhaseOfStage DEF Inv, WorldInv, At, ChoiceAt
<1>3. Chosen(server.entries) = {} /\ Claims("validating")
  BY <1>1, <1>2 DEF Inv, WorldInv, ReasonInv
<1>4. CASE Goto("fail") /\ UNCHANGED world
  BY <1>1, <1>4, GotoFailCore
<1>5. CASE PatchEnd(InProgress("WaitingForDiscovery"), TRUE)
  <2> DEFINE why == "WaitingForDiscovery"
             t == "validating"
  <2>1. why \in EarlyReasons /\ t # "Completed"
    BY DEF EarlyReasons
  <2>2. MayFollow(t)
    BY <1>1, AfterValues DEF MayFollow
  <2>3. \A o : o.phase = "InProgress" /\ o.cond.reason = why => LifeStage(o) = t
    BY StageValues
  <2>4. PatchEnd(InProgress(why), TRUE) /\ Claims(t)
    BY <1>3, <1>5
  <2> HIDE DEF why, t
  <2> QED
    BY <1>1, <1>3, <2>1, <2>2, <2>3, <2>4, InProgressCore
<1>6. CASE /\ Patch(Discovering)
           /\ pc' = "discover" /\ mem' = Stored(Merge(mem, Discovering, server))
           /\ UNCHANGED <<world, queued, faults, seen, fresh>>
  <2>1. Discovering \in Resource /\ EntriesOK(Discovering, Len(restores))
    BY DiscoveringType DEF Inv, TypeInv
  <2>2. /\ Discovering.finalizers = mem.finalizers /\ Discovering.phase = "InProgress"
        /\ Discovering.cond.reason = "DiscoveringPVCs"
        /\ Discovering.createdNamespace = mem.createdNamespace
        /\ Discovering.entries = mem.entries /\ Discovering.info = mem.info
    BY DiscoveringFields DEF Inv, TypeInv
  <2>3. restores' = restores /\ UNCHANGED <<spec, namespace, objs, mounts, fresh>>
    BY <1>6 DEF world
  <2>4. /\ mem.createdNamespace = server.createdNamespace /\ mem.entries = server.entries
        /\ mem.info = server.info
    BY <1>1 DEF Inv, At, SyncAt
  <2> DEFINE c == Discovering.cond
  <2>5. /\ Published("InProgress", c) /\ server'.info = server.info /\ server' = mem'
        /\ c.reason = "DiscoveringPVCs"
    BY <1>1, <1>6, <2>1, <2>2, <2>3, <2>4, PatchServing DEF Published, Inv, At
  <2> HIDE DEF c
  <2>6. LifeStage(server') = "validating" /\ stage' = "validating"
    BY <2>5, StageValues DEF stage, Published
  <2>7. "DiscoveringPVCs" \in WorkflowReasons /\ "DiscoveringPVCs" \notin EarlyReasons
    BY DEF WorkflowReasons, EarlyReasons
  <2>8. WorldInv'
    BY <1>1, <1>3, <2>3, <2>5, <2>6, <2>7, AdvanceWorld DEF Inv, At
  <2>9. MayFollow("validating")
    BY <1>1, AfterValues DEF MayFollow
  <2>10. LifeStep
    BY <1>1, <2>3, <2>5, <2>6, <2>9, PublishedStep DEF Inv, At
  <2>11. SyncAt(pc)'
    <3>1. server.exists /\ server.finalizers = Finalizers
      BY <1>1 DEF Inv, At, SyncAt
    <3> QED
      BY <1>6, <2>3, <2>5, <3>1 DEF Published, SyncAt, Serving, RemovingRestores, RemovingObjects
  <2>12. StageAt(pc)' /\ WorldAt(pc)'
    BY <1>6, <2>6 DEF StageAt, WorldAt, RemovingObjects
  <2>13. ChoiceAt(pc)'
    BY <1>3, <1>6, <2>5 DEF ChoiceAt, Published
  <2> QED
    BY <2>8, <2>10, <2>11, <2>12, <2>13 DEF Core, At
<1> QED
  BY <1>4, <1>5, <1>6 DEF validateReferencedDiscovery, Discovering

\* The discovered entries name no Restore, and none exists yet.
LEMMA DiscoveredCore ==
  ASSUME Inv, TypeInv', processDiscoveryResults
  PROVE  Core' /\ LifeStep
<1>1. pc = "discover" /\ stage = "validating" /\ pc \in Serving \ {"finalizer", "update"}
      /\ Chosen(server.entries) = {} /\ server.cond.reason = "DiscoveringPVCs"
  BY DEF processDiscoveryResults, Inv, At, StageAt, ChoiceAt, Serving
<1>2. PICK e \in [Backups -> UNION {DiscoveredEntries(b) : b \in Backups}] :
        /\ \A b \in Backups : e[b] \in DiscoveredEntries(b)
        /\ PatchThen([mem EXCEPT !.entries = e], "classify")
  BY DEF processDiscoveryResults
<1>3. \A b \in Backups : e[b] \in Entry /\ e[b].restore = 0 /\ e[b].phase = ""
  BY <1>2, DiscoveredType
<1>4. e \in [Backups -> Entry] /\ Unnamed(e)
  BY <1>3, Zenon DEF Unnamed
<1>5. \A b \in Backups : EntryOK(e[b], Len(restores))
  <2>1. 0 \in 0..Len(restores)
    BY DEF Inv, TypeInv, RestoresPart
  <2> QED
    BY <1>3, <2>1, Zenon DEF EntryOK
<1> DEFINE new == [mem EXCEPT !.entries = e]
<1>6. new \in Resource /\ EntriesOK(new, Len(restores))
  BY <1>4, <1>5, NewEntriesType DEF Inv, TypeInv
<1>7. /\ new.finalizers = mem.finalizers /\ new.phase = mem.phase /\ new.cond = mem.cond
      /\ new.createdNamespace = mem.createdNamespace /\ new.entries = e /\ new.info = mem.info
  BY DEF Inv, TypeInv, MemPart, Resource
<1>8. /\ Patch(new) /\ pc' = "classify" /\ mem' = Stored(Merge(mem, new, server))
      /\ UNCHANGED <<spec, restores, namespace, objs, mounts, fresh>>
  BY <1>2 DEF PatchThen, world
<1> HIDE DEF new
<1>9. /\ mem.createdNamespace = server.createdNamespace /\ mem.phase = server.phase
      /\ mem.info = server.info /\ mem.cond = server.cond
      /\ server.exists /\ server.finalizers = Finalizers
  BY <1>1 DEF Inv, At, SyncAt
<1>10. /\ server'.exists = server.exists /\ server'.deleting = server.deleting
       /\ server'.finalizers = server.finalizers /\ server'.phase = server.phase
       /\ server'.cond = server.cond /\ server'.createdNamespace = server.createdNamespace
       /\ server'.entries = e /\ server'.info = server.info /\ server' = mem'
  BY <1>1, <1>6, <1>7, <1>8, <1>9, PatchServing DEF Inv, At
<1>11. stage' = "validating"
  <2>1. server.phase = "InProgress"
    BY <1>1, PhaseOfStage DEF Inv, WorldInv
  <2> QED
    BY <1>1, <1>10, <2>1, StageValues DEF stage
<1>12. restores = <<>> /\ ~server.createdNamespace
  BY <1>1 DEF Inv, WorldInv, Claims, UpToValidated
<1>13. WorldInv'
  <2>1. Untouched /\ server.phase = "InProgress"
    BY <1>1, PhaseOfStage DEF Untouched, Inv, WorldInv
  <2>2. FinalizerInv'
    BY <1>9, <1>10, <2>1 DEF FinalizerInv, Finalizers
  <2>3. ReasonInv' /\ PublicInv'
    BY <1>1, <1>10, <1>11, <2>1 DEF ReasonInv, PublicInv, WorkflowReasons, EarlyReasons
  <2>4. Claims(stage)'
    BY <1>1, <1>4, <1>8, <1>10, <1>11, <1>12 DEF Inv, WorldInv, Claims, FromPlaced, FromRestoring,
       FromRestored
  <2>5. RestoreInv'
    <3>1. 1..Len(restores) = {} /\ Existing(restores) = {}
      BY <1>12 DEF Existing
    <3>2. Links(e, BackupsOf(restores))
      BY <1>4 DEF Links, Unnamed
    <3> QED
      BY <1>8, <1>10, <3>1, <3>2 DEF RestoreInv
  <2>6. ObjectInv'
    BY <1>8, <1>9, <1>10, <1>12, <2>1 DEF Inv, WorldInv, ObjectInv
  <2> QED
    BY <2>2, <2>3, <2>4, <2>5, <2>6 DEF WorldInv
<1>14. LifeStep
  <2>1. lives \in {"live", "deleting"}
    BY <1>1, ServingLives DEF Inv, At
  <2>2. server.exists \in BOOLEAN /\ server.deleting \in BOOLEAN
    BY ServerFields DEF Inv
  <2>3. UNCHANGED <<stage, lives, restored, served>>
    BY <1>1, <1>8, <1>10, <1>11, <2>2 DEF lives, Life, restored, served
  <2>4. chosen = {}
    BY <1>1 DEF chosen
  <2> QED
    BY <1>1, <2>1, <2>3, <2>4, ChooseStep DEF Inv
<1>15. SyncAt(pc)'
  BY <1>8, <1>9, <1>10 DEF SyncAt, Serving, RemovingRestores, RemovingObjects
<1>16. StageAt(pc)' /\ ChoiceAt(pc)' /\ WorldAt(pc)'
  BY <1>8, <1>11 DEF StageAt, ChoiceAt, WorldAt, RemovingObjects
<1> QED
  BY <1>13, <1>14, <1>15, <1>16 DEF Core, At

LEMMA ClassifyCore ==
  ASSUME Inv, TypeInv', ClassifyPVCs
  PROVE  Core' /\ LifeStep
<1>1. pc = "classify" /\ stage = "validating" /\ pc \in Serving \ {"finalizer", "update"}
  BY DEF ClassifyPVCs, Inv, At, StageAt, Serving
<1>2. CASE Goto("fail") /\ UNCHANGED world
  BY <1>1, <1>2, GotoFailCore
<1>3. CASE PatchEnd(StatusPhaseConditions("PartiallyFailed",
             Cond(FALSE, "PartialValidationFailed", TRUE, TRUE, FALSE)), TRUE)
  <2>1. Cond(FALSE, "PartialValidationFailed", TRUE, TRUE, FALSE) \in Conditions
    BY CondType DEF Reasons
  <2> QED
    BY <1>1, <1>3, <2>1, PartiallyFailedCore
<1>4. CASE HasAvailable(mem) # {} /\ PatchEnd(InProgress("ValidationCompleted"), TRUE)
  <2> DEFINE why == "ValidationCompleted"
             t == "validated"
  <2>1. why \in WorkflowReasons /\ why \notin EarlyReasons /\ t # "Completed"
    BY DEF EarlyReasons, WorkflowReasons
  <2>2. chosen # {}
    <3>1. Available(mem) # {}
      BY <1>4 DEF HasAvailable
    <3>2. mem.entries = server.entries
      BY <1>1 DEF Inv, At, SyncAt
    <3> QED
      BY <3>1, <3>2 DEF Available, chosen, Chosen
  <2>3. MayFollow(t)
    BY <1>1, <2>2, AfterValues DEF MayFollow
  <2>4. \A o : o.phase = "InProgress" /\ o.cond.reason = why => LifeStage(o) = t
    BY StageValues
  <2>5. PatchEnd(InProgress(why), TRUE) 
    BY <1>4
  <2>6. Claims(t)
    BY <1>1 DEF Inv, WorldInv, Claims, UpToValidated, FromPlaced, FromRestoring, FromRestored
  <2> HIDE DEF why, t
  <2> QED
    BY <1>1, <2>1, <2>3, <2>4, <2>5, <2>6, InProgressCore
<1> QED
  BY <1>2, <1>3, <1>4 DEF ClassifyPVCs

-----------------------------------------------------------------------------
(***************************************************************************)
(* ensureRestoreNamespace and ensureFileServerAccess.                      *)
(***************************************************************************)
\* A serving reconcile goes on at k, having created objects or, at most, deleted
\* the secrets.
LEMMA ServingGoto ==
  ASSUME Inv, TypeInv', pc \in Serving \ {"finalizer", "update"},
         NEW k \in Serving \ {"finalizer"}, Goto(k), StageAt(k), ChoiceAt(k), WorldAt(k)',
         RestoresFrame, objs \ {"secrets"} \subseteq objs', "pod" \in objs' => "pod" \in objs,
         server.createdNamespace \/ objs' = objs,
         namespace => namespace', UNCHANGED <<spec, mounts>>
  PROVE  Core' /\ LifeStep
<1>1. server' = server /\ pc' = k /\ UNCHANGED <<mem, todo, seen, fresh>>
  BY DEF Goto, server
<1>2. SyncAt(k) /\ SyncAt(pc)
  BY SyncServing DEF Inv, At
<1>3. WorldInv'
  BY <1>1, <1>2, ServingWorld DEF Inv
<1>4. At(pc)'
  BY <1>1, <1>2, ServingAt
<1>5. LifeStep
  BY <1>1, KeptStep DEF Inv
<1> QED
  BY <1>3, <1>4, <1>5 DEF Core

LEMMA NamespaceCore ==
  ASSUME Inv, TypeInv', ensureRestoreNamespace
  PROVE  Core' /\ LifeStep
<1>1. pc = "namespace" /\ stage = "validated" /\ pc \in Serving \ {"finalizer", "update"}
  BY DEF ensureRestoreNamespace, Inv, At, StageAt, Serving
<1>2. CASE Goto("fail") /\ UNCHANGED world
  BY <1>1, <1>2, GotoFailCore
<1>3. ASSUME Goto("record namespace"), namespace', namespace => namespace',
             UNCHANGED <<spec, restores, objs, mounts>>
      PROVE  Core' /\ LifeStep
  <2>1. "record namespace" \in Serving \ {"finalizer"}
    BY DEF Serving
  <2>2. StageAt("record namespace") /\ ChoiceAt("record namespace")
    BY <1>1 DEF StageAt, ChoiceAt
  <2>3. WorldAt("record namespace")'
    BY <1>3 DEF WorldAt, RemovingObjects
  <2>4. RestoresFrame
    BY <1>3, RestoresKept
  <2> QED
    BY <1>1, <1>3, <2>1, <2>2, <2>3, <2>4, ServingGoto
<1>4. CASE spec.target = "existing" /\ Goto("record namespace") /\ UNCHANGED world
  <2>1. namespace
    BY <1>4 DEF Inv, WorldInv, ObjectInv
  <2> QED
    BY <1>3, <1>4, <2>1 DEF world
<1>5. CASE /\ namespace' = TRUE
           /\ Goto("record namespace")
           /\ UNCHANGED <<spec, vmbd, restores, listed, objs, mounts>>
  BY <1>3, <1>5
<1> QED
  BY <1>2, <1>4, <1>5 DEF ensureRestoreNamespace

LEMMA RecordNamespaceCore ==
  ASSUME Inv, TypeInv', RecordNamespace
  PROVE  Core' /\ LifeStep
<1>1. pc = "record namespace" /\ stage = "validated" /\ namespace
      /\ pc \in Serving \ {"finalizer", "update"}
  BY DEF RecordNamespace, Inv, At, StageAt, WorldAt, Serving
<1> DEFINE new == [mem EXCEPT !.createdNamespace = TRUE]
<1>2. new \in Resource /\ EntriesOK(new, Len(restores))
  BY NamespaceType DEF Inv, TypeInv
<1>3. /\ new.finalizers = mem.finalizers /\ new.phase = mem.phase /\ new.cond = mem.cond
      /\ new.createdNamespace = TRUE /\ new.entries = mem.entries /\ new.info = mem.info
  BY DEF Inv, TypeInv, MemPart, Resource
<1>4. /\ Patch(new) /\ pc' = "serviceaccount" /\ mem' = Stored(Merge(mem, new, server))
      /\ UNCHANGED <<spec, restores, namespace, objs, mounts, fresh>>
  BY DEF RecordNamespace, PatchThen, world
<1> HIDE DEF new
<1>5. /\ mem.entries = server.entries /\ mem.phase = server.phase
      /\ mem.info = server.info /\ mem.cond = server.cond
      /\ server.exists /\ server.finalizers = Finalizers
  BY <1>1 DEF Inv, At, SyncAt
<1>6. /\ server'.exists = server.exists /\ server'.deleting = server.deleting
      /\ server'.finalizers = server.finalizers /\ server'.phase = server.phase
      /\ server'.cond = server.cond /\ server'.createdNamespace
      /\ server'.entries = server.entries /\ server'.info = server.info /\ server' = mem'
  BY <1>1, <1>2, <1>3, <1>4, <1>5, PatchServing DEF Inv, At
<1>7. server.phase = "InProgress" /\ server.cond.reason = "ValidationCompleted"
  BY <1>1, PhaseOfStage DEF Inv, WorldInv
<1>8. stage' = "validated"
  BY <1>6, <1>7, StageValues DEF stage
<1>9. WorldInv'
  <2>1. Untouched
    BY <1>1 DEF Untouched
  <2>2. FinalizerInv'
    BY <1>5, <1>6, <1>7 DEF FinalizerInv, Finalizers
  <2>3. ReasonInv' /\ PublicInv'
    BY <1>6, <1>7, <1>8 DEF ReasonInv, PublicInv, WorkflowReasons, EarlyReasons
  <2>4. Claims(stage)'
    BY <1>1, <1>4, <1>6, <1>8 DEF Inv, WorldInv, Claims, FromPlaced, FromRestoring, FromRestored
  <2>5. RestoreInv'
    BY <1>4, <1>6, <2>1 DEF Inv, WorldInv, RestoreInv
  <2>6. ObjectInv'
    BY <1>1, <1>4, <1>5, <1>6, <2>1 DEF Inv, WorldInv, ObjectInv
  <2> QED
    BY <2>2, <2>3, <2>4, <2>5, <2>6 DEF WorldInv
<1>10. LifeStep
  <2>1. server.exists \in BOOLEAN /\ server.deleting \in BOOLEAN
    BY ServerFields DEF Inv
  <2>2. UNCHANGED <<stage, lives, chosen, restored, served>>
    BY <1>1, <1>4, <1>6, <1>8, <2>1 DEF lives, Life, chosen, restored, served
  <2> QED
    BY <2>2, StutterStep DEF Inv
<1>11. SyncAt(pc)'
  BY <1>4, <1>5, <1>6 DEF SyncAt, Serving, RemovingRestores, RemovingObjects
<1>12. StageAt(pc)' /\ ChoiceAt(pc)' /\ WorldAt(pc)'
  BY <1>4, <1>6, <1>8 DEF StageAt, ChoiceAt, WorldAt, RemovingObjects
<1> QED
  BY <1>9, <1>10, <1>11, <1>12 DEF Core, At

\* An object other than the pod is created in the restore namespace.
LEMMA CreateObjectCore ==
  ASSUME Inv, TypeInv', NEW at \in Serving \ {"finalizer", "update"}, NEW obj, obj # "pod",
         NEW k \in Serving \ {"finalizer"}, CreateObject(at, obj, k),
         server.createdNamespace, StageAt(k), ChoiceAt(k), WorldAt(k)'
  PROVE  Core' /\ LifeStep
<1>1. /\ pc = at /\ objs' = objs \cup {obj} /\ Goto(k)
      /\ UNCHANGED <<spec, restores, namespace, mounts>>
  BY DEF CreateObject
<1>2. RestoresFrame
  BY <1>1, RestoresKept
<1> QED
  BY <1>1, <1>2, ServingGoto

LEMMA AccessCore ==
  ASSUME Inv, TypeInv', ensureFileServerAccess
  PROVE  Core' /\ LifeStep
<1>1. {"serviceaccount", "rolebinding", "namespace ready"} \subseteq Serving \ {"finalizer", "update"}
  BY DEF Serving
<1>2. CASE CreateObject("serviceaccount", "serviceaccount", "rolebinding")
  <2>1. pc = "serviceaccount" /\ objs' = objs \cup {"serviceaccount"} /\ server' = server
    BY <1>2 DEF CreateObject, Goto, server
  <2>2. stage = "validated" /\ server.createdNamespace
    BY <2>1 DEF Inv, At, StageAt, WorldAt
  <2>3. StageAt("rolebinding") /\ ChoiceAt("rolebinding")
    BY <2>2 DEF StageAt, ChoiceAt
  <2>4. WorldAt("rolebinding")'
    BY <2>1, <2>2 DEF WorldAt, RemovingObjects
  <2> QED
    BY <1>1, <1>2, <2>2, <2>3, <2>4, CreateObjectCore
<1>3. CASE CreateObject("rolebinding", "rolebinding", "namespace ready")
  <2>1. pc = "rolebinding" /\ objs' = objs \cup {"rolebinding"} /\ server' = server
    BY <1>3 DEF CreateObject, Goto, server
  <2>2. stage = "validated" /\ server.createdNamespace /\ "serviceaccount" \in objs
    BY <2>1 DEF Inv, At, StageAt, WorldAt
  <2>3. StageAt("namespace ready") /\ ChoiceAt("namespace ready")
    BY <2>2 DEF StageAt, ChoiceAt
  <2>4. WorldAt("namespace ready")'
    BY <2>1, <2>2 DEF WorldAt, RemovingObjects, AccessObjects
  <2> QED
    BY <1>1, <1>3, <2>2, <2>3, <2>4, CreateObjectCore
<1>4. CASE pc \in AccessObjects /\ Goto("fail") /\ UNCHANGED world
  BY <1>4, GotoFailCore DEF AccessObjects
<1>5. CASE CreateObject("rolebinding", "rolebinding", "fail")
  <2>1. pc = "rolebinding" /\ objs' = objs \cup {"rolebinding"} /\ server' = server
    BY <1>5 DEF CreateObject, Goto, server
  <2>2. stage = "validated" /\ server.createdNamespace
    BY <2>1 DEF Inv, At, StageAt, WorldAt
  <2>3. At("fail")
    BY <2>1, FailAt DEF Inv
  <2>4. StageAt("fail") /\ ChoiceAt("fail") /\ "fail" \in Serving \ {"finalizer"}
    BY <2>3 DEF At, Serving
  <2>5. WorldAt("fail")'
    BY DEF WorldAt, RemovingObjects
  <2> QED
    BY <1>1, <1>5, <2>2, <2>4, <2>5, CreateObjectCore
<1> QED
  BY <1>2, <1>3, <1>4, <1>5 DEF ensureFileServerAccess

LEMMA NamespaceReadyCore ==
  ASSUME Inv, TypeInv', NamespaceReady
  PROVE  Core' /\ LifeStep
<1> DEFINE why == "NamespaceReady"
           t == "placed"
<1>1. /\ pc = "namespace ready" /\ stage = "validated" /\ server.createdNamespace
      /\ AccessObjects \subseteq objs /\ pc \in Serving \ {"finalizer", "update"}
  BY DEF NamespaceReady, Inv, At, StageAt, WorldAt, Serving
<1>2. why \in WorkflowReasons /\ why \notin EarlyReasons /\ t # "Completed"
  BY DEF EarlyReasons, WorkflowReasons
<1>3. MayFollow(t)
  BY <1>1, AfterValues DEF MayFollow
<1>4. \A o : o.phase = "InProgress" /\ o.cond.reason = why => LifeStage(o) = t
  BY StageValues
<1>5. PatchEnd(InProgress(why), TRUE)
  BY DEF NamespaceReady
<1>6. Claims(t)
  BY <1>1 DEF Inv, WorldInv, Claims, UpToValidated, FromPlaced, FromRestoring, FromRestored
<1> HIDE DEF why, t
<1> QED
  BY <1>1, <1>2, <1>3, <1>4, <1>5, <1>6, InProgressCore

-----------------------------------------------------------------------------
(***************************************************************************)
(* createVeleroRestores.                                                   *)
(***************************************************************************)
\* Once every chosen backup has its Restore recorded, the Restores that exist
\* are exactly those of the chosen backups.
LEMMA NamedAreRestored ==
  ASSUME TypeInv, WorldInv, Untouched, Named(server.entries)
  PROVE  chosen = restored
<1>1. EntriesOK(server, Len(restores)) /\ Len(restores) \in Nat
  BY ServerType DEF TypeInv, RestoresPart
<1>2. Existing(restores) = 1..Len(restores)
  BY DEF WorldInv, RestoreInv
<1>3. ASSUME NEW b \in chosen PROVE b \in restored
  <2>1. b \in Backups /\ server.entries[b].restore # 0
    BY <1>3 DEF chosen, Named, Chosen
  <2>2. server.entries[b].restore \in 0..Len(restores)
    BY <1>1, <2>1 DEF EntriesOK, EntryOK
  <2>3. PICK r : r = server.entries[b].restore
    OBVIOUS
  <2>4. r \in 1..Len(restores)
    <3>1. r \in 0..Len(restores) /\ r # 0
      BY <2>1, <2>2, <2>3
    <3> QED
      BY <1>1, <3>1
  <2>5. BackupsOf(restores)[r] = b
    BY <2>1, <2>3 DEF WorldInv, RestoreInv, Links
  <2> QED
    BY <1>2, <2>4, <2>5 DEF restored
<1>4. restored \subseteq chosen
  BY <1>2 DEF restored, chosen, WorldInv, RestoreInv
<1> QED
  BY <1>3, <1>4

LEMMA PrepareRestoresCore ==
  ASSUME Inv, TypeInv', PrepareRestores
  PROVE  Core' /\ LifeStep
<1>1. pc = "restores" /\ stage = "placed" /\ pc \in Serving \ {"finalizer", "update"}
  BY DEF PrepareRestores, Inv, At, StageAt, Serving
<1>2. Available(mem) = Chosen(server.entries) /\ mem.entries = server.entries
  BY <1>1, AvailableIsChosen DEF Inv, At, SyncAt
<1>3. checkVeleroRestoresAlreadyCreated(mem) <=> Named(server.entries)
  BY <1>2 DEF checkVeleroRestoresAlreadyCreated, Named
<1>4. CASE checkVeleroRestoresAlreadyCreated(mem) /\ Goto("waiting") /\ UNCHANGED world
  <2>1. "waiting" \in Serving \ {"finalizer"}
    BY DEF Serving
  <2>2. SyncAt("waiting")
    BY <1>1, <2>1, SyncServing DEF Inv, At
  <2>3. StageAt("waiting") /\ ChoiceAt("waiting") /\ WorldAt("waiting")
    BY <1>1, <1>3, <1>4 DEF StageAt, ChoiceAt, WorldAt, RemovingObjects
  <2> QED
    BY <1>1, <1>4, <2>2, <2>3, GotoCore DEF At
<1>5. CASE Goto("fail") /\ UNCHANGED world
  BY <1>1, <1>5, GotoFailCore
<1>6. CASE /\ ~checkVeleroRestoresAlreadyCreated(mem)
           /\ pc' = "create" /\ todo' = Available(mem)
           /\ UNCHANGED <<log, world, queued, faults, mem, seen, fresh>>
  <2>1. server' = server /\ restores' = restores /\ UNCHANGED <<spec, namespace, objs, mounts>>
    BY <1>6 DEF world, server
  <2>2. Unnamed(server.entries)
    BY <1>1, <1>3, <1>6 DEF Inv, WorldInv, Claims
  <2>3. "create" \in Serving \ {"finalizer"} /\ stage' = stage
    BY <2>1 DEF Serving, stage
  <2>4. RestoresFrame
    BY <2>1, RestoresKept
  <2>5. Untouched
    BY <1>1 DEF Untouched
  <2>6. WorldInv'
    BY <2>1, <2>4, <2>5, WorldFrame DEF Inv
  <2>7. SyncAt("create")
    BY <1>1, <2>3, SyncServing DEF Inv, At
  <2>8. SyncAt(pc)'
    BY <1>6, <2>1, <2>7 DEF SyncAt
  <2>9. StageAt(pc)' /\ WorldAt(pc)'
    BY <1>1, <1>6, <2>3 DEF StageAt, WorldAt, RemovingObjects
  <2>10. ChoiceAt(pc)'
    BY <1>2, <1>6, <2>1, <2>2 DEF ChoiceAt
  <2>11. LifeStep
    BY <2>1, <2>4, KeptStep DEF Inv
  <2> QED
    BY <2>6, <2>8, <2>9, <2>10, <2>11 DEF Core, At
<1> QED
  BY <1>4, <1>5, <1>6 DEF PrepareRestores

\* A Restore is appended for a backup.
LEMMA AppendedRestore ==
  ASSUME TypeInv, NEW b \in Backups, restores' = Append(restores, NewRestore(b))
  PROVE  /\ 1..Len(restores') = 1..Len(restores) \cup {Len(restores) + 1}
         /\ \A i \in 1..Len(restores) : BackupsOf(restores')[i] = BackupsOf(restores)[i]
         /\ BackupsOf(restores')[Len(restores) + 1] = b
         /\ Existing(restores') = Existing(restores) \cup {Len(restores) + 1}
<1>1. restores \in Seq(VeleroRestore) /\ Len(restores) \in Nat
  BY DEF TypeInv, RestoresPart
<1>2. /\ Len(restores') = Len(restores) + 1
      /\ \A i \in 1..Len(restores) : restores'[i] = restores[i]
      /\ restores'[Len(restores) + 1] = NewRestore(b)
  BY <1>1
<1>3. 1..Len(restores') = 1..Len(restores) \cup {Len(restores) + 1}
  BY <1>1, <1>2
<1>4. NewRestore(b).backup = b /\ NewRestore(b).exists = TRUE
  BY DEF NewRestore
<1>5. PICK n : n = Len(restores) + 1
  OBVIOUS
<1>6. /\ n \notin 1..Len(restores) /\ 1..Len(restores') = 1..Len(restores) \cup {n}
      /\ restores'[n] = NewRestore(b)
  BY <1>1, <1>2, <1>3, <1>5
<1>7. \A i \in 1..Len(restores) : BackupsOf(restores')[i] = BackupsOf(restores)[i]
  BY <1>2, <1>6 DEF BackupsOf
<1>8. BackupsOf(restores')[n] = b
  BY <1>4, <1>6 DEF BackupsOf
<1>9. Existing(restores') = Existing(restores) \cup {n}
  BY <1>2, <1>4, <1>6 DEF Existing
<1> QED
  BY <1>3, <1>5, <1>7, <1>8, <1>9

LEMMA CreateRestoreCore ==
  ASSUME Inv, TypeInv', NEW b \in Backups, createVeleroRestores(b)
  PROVE  Core' /\ LifeStep
<1>1. /\ pc = "create" /\ stage = "placed" /\ pc \in Serving \ {"finalizer", "update"}
      /\ Unnamed(server.entries) /\ todo \subseteq Chosen(server.entries)
  BY DEF createVeleroRestores, Inv, At, StageAt, ChoiceAt, Serving
<1>2. /\ b \in todo /\ restores' = Append(restores, NewRestore(b)) /\ todo' = todo \ {b}
      /\ pc' \in {"create", "names"} /\ server' = server
      /\ UNCHANGED <<spec, namespace, objs, mounts, mem, seen, fresh>>
  BY DEF createVeleroRestores, server
<1>3. PICK n : n = Len(restores) + 1
  OBVIOUS
<1>4. /\ 1..Len(restores') = 1..Len(restores) \cup {n}
      /\ \A i \in 1..Len(restores) : BackupsOf(restores')[i] = BackupsOf(restores)[i]
      /\ BackupsOf(restores')[n] = b
      /\ Existing(restores') = Existing(restores) \cup {n}
  BY <1>2, <1>3, AppendedRestore DEF Inv
<1>5. Untouched /\ Untouched' /\ stage' = stage
  BY <1>1, <1>2 DEF Untouched, Serving, stage
<1>6. WorldInv'
  <2>1. FinalizerInv' /\ ReasonInv' /\ PublicInv'
    BY <1>2, <1>5 DEF Inv, WorldInv, FinalizerInv, ReasonInv, PublicInv
  <2>2. Claims(stage)'
    BY <1>1, <1>2, <1>5 DEF Inv, WorldInv, Claims, UpToValidated
  <2>3. "pod" \notin objs /\ mounts = {}
    BY <1>1 DEF Inv, WorldInv, Claims, ObjectInv
  <2>4. ObjectInv'
    BY <1>2, <1>5, <2>3 DEF Inv, WorldInv, ObjectInv
  <2>5. Links(server.entries, BackupsOf(restores'))
    BY <1>1 DEF Links, Unnamed
  <2>6. b \in Chosen(server.entries)
    BY <1>1, <1>2
  <2>7. Existing(restores') = 1..Len(restores')
    BY <1>4, <1>5 DEF Inv, WorldInv, RestoreInv
  <2>8. "velero-restore-cleanup" \in server.finalizers
    BY <1>1 DEF Inv, At, SyncAt, Finalizers
  <2>9. RestoreInv'
    BY <1>2, <1>4, <2>5, <2>6, <2>7, <2>8 DEF Inv, WorldInv, RestoreInv
  <2> QED
    BY <2>1, <2>2, <2>4, <2>9 DEF WorldInv
<1>7. At(pc)'
  <2>1. SyncAt("create") /\ SyncAt("names")
    BY <1>1, SyncServing DEF Inv, At, Serving
  <2>2. SyncAt(pc)'
    BY <1>2, <2>1 DEF SyncAt
  <2>3. StageAt(pc)' /\ WorldAt(pc)'
    BY <1>1, <1>2, <1>5 DEF StageAt, WorldAt, RemovingObjects
  <2>4. ChoiceAt(pc)'
    BY <1>1, <1>2 DEF ChoiceAt
  <2> QED
    BY <2>2, <2>3, <2>4 DEF At
<1>8. LifeStep
  <2>1. lives \in {"live", "deleting"}
    BY <1>1, ServingLives DEF Inv, At
  <2>2. b \in chosen
    BY <1>1, <1>2 DEF chosen
  <2>3. restored' = restored \cup {b}
    BY <1>4 DEF restored, Existing
  <2>4. "pod" \notin objs /\ mounts = {}
    BY <1>1 DEF Inv, WorldInv, Claims, ObjectInv
  <2>5. UNCHANGED <<stage, lives, chosen, served>>
    BY <1>2, <1>5, <2>4 DEF lives, chosen, served
  <2> QED
    BY <1>1, <2>1, <2>2, <2>3, <2>5, RestoreStep DEF Inv
<1> QED
  BY <1>6, <1>7, <1>8 DEF Core

LEMMA RestoreNumbers ==
  ASSUME RestoresPart
  PROVE  /\ \A n \in 1..Len(restores) : n \in 0..Len(restores) /\ n # 0
         /\ 1..Len(restores) \subseteq 0..MaxRestores
<1>1. Len(restores) \in Nat /\ Len(restores) <= MaxRestores
  BY DEF RestoresPart
<1> QED
  BY <1>1, ConstantsAssumption

\* The names recorded: each chosen backup gets one of its Restores.
LEMMA NewNames ==
  ASSUME Inv, pc = "names", Unnamed(server.entries), mem.entries = server.entries,
         NEW e, e = [b \in Backups |->
                       IF b \in Available(mem)
                         THEN [mem.entries[b] EXCEPT !.restore = Newest(b), !.phase = "New"]
                         ELSE mem.entries[b]]
  PROVE  /\ e \in [Backups -> Entry] /\ \A b \in Backups : EntryOK(e[b], Len(restores))
         /\ Chosen(e) = Chosen(server.entries) /\ Named(e)
         /\ Links(e, BackupsOf(restores))
<1>0. /\ \A n \in 1..Len(restores) : n \in 0..Len(restores) /\ n # 0
      /\ 1..Len(restores) \subseteq 0..MaxRestores
  BY RestoreNumbers DEF Inv, TypeInv
<1>1. mem.entries \in [Backups -> Entry] /\ RestoresPart /\ EntriesOK(mem, Len(restores))
  BY DEF Inv, TypeInv, MemPart, Resource
<1>2. ASSUME NEW b \in Backups, b \in Available(mem)
      PROVE  /\ Newest(b) \in 1..Len(restores) /\ BackupsOf(restores)[Newest(b)] = b
             /\ e[b] \in Entry /\ e[b].restore = Newest(b) /\ e[b].phase = "New"
             /\ e[b].state = mem.entries[b].state
  <2>1. HasRestore(b)
    BY <1>2 DEF Inv, TypeInv, CreatePart
  <2>2. Newest(b) \in 1..Len(restores) /\ restores[Newest(b)].backup = b
    BY <1>1, <2>1, NewestIsOne
  <2>3. BackupsOf(restores)[Newest(b)] = b
    BY <2>2, BackupsOfAt
  <2>4. Newest(b) \in 0..MaxRestores
    BY <1>0, <2>2
  <2>5. mem.entries[b] \in Entry /\ "New" \in RestoreInfoPhase
    BY <1>1 DEF RestoreInfoPhase
  <2>6. e[b] = [mem.entries[b] EXCEPT !.restore = Newest(b), !.phase = "New"]
    BY <1>2
  <2>7. /\ e[b] \in Entry /\ e[b].restore = Newest(b) /\ e[b].phase = "New"
        /\ e[b].state = mem.entries[b].state
    BY <2>4, <2>5, <2>6 DEF Entry
  <2> QED
    BY <2>2, <2>3, <2>7
<1>3. ASSUME NEW b \in Backups, b \notin Available(mem) PROVE e[b] = mem.entries[b]
  BY <1>3
<1>4. ASSUME NEW b \in Backups
      PROVE  e[b] \in Entry /\ EntryOK(e[b], Len(restores)) /\ e[b].state = mem.entries[b].state
  <2>1. CASE b \in Available(mem)
    BY <1>0, <1>2, <2>1 DEF EntryOK
  <2>2. CASE b \notin Available(mem)
    BY <1>1, <1>3, <2>2 DEF EntriesOK
  <2> QED
    BY <2>1, <2>2
<1>5. e \in [Backups -> Entry]
  BY <1>4
<1>6. Chosen(e) = Chosen(server.entries)
  BY <1>4 DEF Chosen
<1>7. Available(mem) = Chosen(e)
  BY <1>6, AvailableIsChosen
<1>8. Named(e)
  <2>1. \A n \in 1..Len(restores) : n # 0
    BY <1>0
  <2>2. ASSUME NEW b \in Chosen(e) PROVE e[b].restore # 0
    <3>1. b \in Backups /\ b \in Available(mem)
      BY <1>7, <2>2 DEF Chosen
    <3> QED
      BY <1>2, <2>1, <3>1, Zenon
  <2> QED
    BY <2>2 DEF Named
<1>9. Links(e, BackupsOf(restores))
  <2>1. ASSUME NEW b \in Backups, e[b].restore # 0 PROVE BackupsOf(restores)[e[b].restore] = b
    <3>1. CASE b \in Available(mem)
      BY <1>2, <3>1, Zenon
    <3>2. CASE b \notin Available(mem)
      BY <1>3, <2>1, <3>2, Zenon DEF Unnamed
    <3> QED
      BY <3>1, <3>2
  <2> QED
    BY <2>1, Zenon DEF Links
<1> QED
  BY <1>4, <1>5, <1>6, <1>8, <1>9

LEMMA RecordNamesCore ==
  ASSUME Inv, TypeInv', RecordRestoreNames
  PROVE  Core' /\ LifeStep
<1>1. pc = "names" /\ stage = "placed" /\ pc \in Serving \ {"finalizer", "update"}
      /\ Unnamed(server.entries)
  BY DEF RecordRestoreNames, Inv, At, StageAt, ChoiceAt, Serving
<1>2. /\ mem.createdNamespace = server.createdNamespace /\ mem.phase = server.phase
      /\ mem.info = server.info /\ mem.cond = server.cond /\ mem.entries = server.entries
      /\ server.exists /\ server.finalizers = Finalizers
  BY <1>1 DEF Inv, At, SyncAt
<1>3. PICK e : e = [b \in Backups |->
                      IF b \in Available(mem)
                        THEN [mem.entries[b] EXCEPT !.restore = Newest(b), !.phase = "New"]
                        ELSE mem.entries[b]]
  OBVIOUS
<1>4. /\ e \in [Backups -> Entry] /\ \A b \in Backups : EntryOK(e[b], Len(restores))
      /\ Chosen(e) = Chosen(server.entries) /\ Named(e)
      /\ Links(e, BackupsOf(restores))
  BY <1>1, <1>2, <1>3, NewNames
<1> DEFINE new == [mem EXCEPT !.entries = e]
<1>5. new \in Resource /\ EntriesOK(new, Len(restores))
  BY <1>4, NewEntriesType DEF Inv, TypeInv
<1>6. /\ new.finalizers = mem.finalizers /\ new.phase = mem.phase /\ new.cond = mem.cond
      /\ new.createdNamespace = mem.createdNamespace /\ new.entries = e /\ new.info = mem.info
  BY DEF Inv, TypeInv, MemPart, Resource
<1>7. /\ Patch(new) /\ pc' = "waiting" /\ mem' = Stored(Merge(mem, new, server))
      /\ UNCHANGED <<spec, restores, namespace, objs, mounts, fresh>>
  BY <1>3 DEF RecordRestoreNames, PatchThen, world
<1> HIDE DEF new
<1>8. /\ server'.exists = server.exists /\ server'.deleting = server.deleting
      /\ server'.finalizers = server.finalizers /\ server'.phase = server.phase
      /\ server'.cond = server.cond /\ server'.createdNamespace = server.createdNamespace
      /\ server'.entries = e /\ server'.info = server.info /\ server' = mem'
  BY <1>1, <1>2, <1>5, <1>6, <1>7, PatchServing DEF Inv, At
<1>9. server.phase = "InProgress" /\ server.cond.reason = "NamespaceReady"
  BY <1>1, PhaseOfStage DEF Inv, WorldInv
<1>10. stage' = "placed"
  BY <1>8, <1>9, StageValues DEF stage
<1>11. WorldInv'
  <2>1. Untouched
    BY <1>1 DEF Untouched
  <2>2. FinalizerInv'
    BY <1>2, <1>8, <1>9 DEF FinalizerInv, Finalizers
  <2>3. ReasonInv' /\ PublicInv'
    BY <1>8, <1>9, <1>10 DEF ReasonInv, PublicInv, WorkflowReasons, EarlyReasons
  <2>4. Claims(stage)'
    BY <1>1, <1>4, <1>7, <1>8, <1>10, <2>1 DEF Inv, WorldInv, Claims, UpToValidated, FromPlaced,
       FromRestoring, FromRestored
  <2>5. RestoreInv'
    BY <1>4, <1>7, <1>8, <2>1 DEF Inv, WorldInv, RestoreInv
  <2>6. ObjectInv'
    BY <1>4, <1>7, <1>2, <1>8, <2>1 DEF Inv, WorldInv, ObjectInv
  <2> QED
    BY <2>2, <2>3, <2>4, <2>5, <2>6 DEF WorldInv
<1>12. LifeStep
  <2>1. server.exists \in BOOLEAN /\ server.deleting \in BOOLEAN
    BY ServerFields DEF Inv
  <2>2. UNCHANGED <<stage, lives, chosen, restored, served>>
    BY <1>1, <1>4, <1>7, <1>8, <1>10, <2>1 DEF lives, Life, chosen, restored, served
  <2> QED
    BY <2>2, StutterStep DEF Inv
<1>13. SyncAt(pc)'
  BY <1>2, <1>7, <1>8 DEF SyncAt, Serving, RemovingRestores, RemovingObjects
<1>14. StageAt(pc)' /\ WorldAt(pc)'
  BY <1>7, <1>10 DEF StageAt, WorldAt, RemovingObjects
<1>15. ChoiceAt(pc)'
  BY <1>4, <1>7, <1>8 DEF ChoiceAt
<1> QED
  BY <1>11, <1>12, <1>13, <1>14, <1>15 DEF Core, At

LEMMA WaitCore ==
  ASSUME Inv, TypeInv', WaitForRestores
  PROVE  Core' /\ LifeStep
<1> DEFINE why == "WaitingForRestores"
           t == "restoring"
<1>1. /\ pc = "waiting" /\ stage = "placed" /\ Named(server.entries)
      /\ pc \in Serving \ {"finalizer", "update"}
  BY DEF WaitForRestores, Inv, At, StageAt, ChoiceAt, Serving
<1>2. why \in WorkflowReasons /\ why \notin EarlyReasons /\ t # "Completed"
  BY DEF EarlyReasons, WorkflowReasons
<1>3. chosen = restored
  BY <1>1, NamedAreRestored, ServingUntouched DEF Inv
<1>4. MayFollow(t)
  BY <1>1, <1>3, AfterValues DEF MayFollow
<1>5. \A o : o.phase = "InProgress" /\ o.cond.reason = why => LifeStage(o) = t
  BY StageValues
<1>6. PatchEnd(InProgress(why), TRUE)
  BY DEF WaitForRestores
<1>7. Claims(t)
  BY <1>1 DEF Inv, WorldInv, Claims, UpToValidated, FromPlaced, FromRestoring, FromRestored
<1> HIDE DEF why, t
<1> QED
  BY <1>1, <1>2, <1>4, <1>5, <1>6, <1>7, InProgressCore

-----------------------------------------------------------------------------
(***************************************************************************)
(* monitorVeleroRestores, and the judgement of what it saw.                *)
(***************************************************************************)
LEMMA FollowFields ==
  ASSUME NEW e \in Entry, NEW i
  PROVE  /\ Follow(e, i).state = e.state /\ Follow(e, i).restore = i
         /\ Follow(e, i).phase = Normalized(Visible[i].phase)
BY DEF Entry, Follow

LEMMA CompletedCategory ==
  ASSUME NEW p \in VeleroPhase, Category(p) = "completed"
  PROVE  Normalized(p) = "Completed"
<1>1. p \notin {"Failed", "PartiallyFailed", "New", "InProgress", "WaitingForPluginOperations"}
  <2>1. CASE p \in {"Failed", "PartiallyFailed"}
    BY <2>1 DEF Category
  <2>2. CASE p \in {"New", "InProgress", "WaitingForPluginOperations"}
    BY <2>2 DEF Category
  <2> QED
    BY <2>1, <2>2
<1> QED
  BY <1>1 DEF VeleroPhase, Normalized

\* The copies of the phases keep the names, and if all that was counted are
\* completed Restores then every chosen backup's entry says so.
LEMMA MonitoredNames ==
  ASSUME StaleReads = FALSE, TypeInv, WorldInv, Untouched, Named(server.entries),
         mem.entries = server.entries
  PROVE  /\ SameNames(Monitored(mem).entries, server.entries)
         /\ {Category(Visible[i].phase) : i \in Labelled} \subseteq {"completed"} =>
              AllCompleted(Monitored(mem).entries)
<1>1. /\ mem.entries \in [Backups -> Entry] /\ RestoresPart /\ MemPart
      /\ EntriesOK(mem, Len(restores))
  BY DEF TypeInv, MemPart, Resource
<1>2. Visible = restores /\ Labelled = 1..Len(restores)
  BY DEF Visible, Labelled, WorldInv, RestoreInv, Existing
<1>3. ASSUME NEW b \in Backups, NEW i \in Own(b), mem.entries[b].state = "available"
      PROVE  mem.entries[b].restore = i
  <2>1. b \in Chosen(server.entries)
    BY <1>3 DEF Chosen
  <2>2. mem.entries[b].restore # 0
    BY <2>1 DEF Named
  <2> QED
    BY <1>3, <2>2 DEF Own
<1>4. ASSUME NEW b \in Backups
      PROVE  /\ Monitored(mem).entries[b].state = server.entries[b].state
             /\ Monitored(mem).entries[b].restore = server.entries[b].restore
  <2>1. CASE mem.entries[b].state = "available" /\ Own(b) # {}
    <3>1. PICK i \in Own(b) : Monitored(mem).entries[b] = Follow(mem.entries[b], i)
      BY <1>1, <2>1, MonitoredEntry
    <3>2. mem.entries[b] \in Entry
      BY <1>1
    <3> QED
      BY <1>3, <2>1, <3>1, <3>2, FollowFields
  <2>2. CASE ~(mem.entries[b].state = "available" /\ Own(b) # {})
    BY <1>1, <2>2, MonitoredEntry
  <2> QED
    BY <2>1, <2>2
<1>5. SameNames(Monitored(mem).entries, server.entries)
  BY <1>4 DEF SameNames
<1>6. ASSUME {Category(Visible[i].phase) : i \in Labelled} \subseteq {"completed"},
             NEW b \in Chosen(Monitored(mem).entries)
      PROVE  Monitored(mem).entries[b].phase = "Completed"
  <2>1. b \in Backups /\ b \in Chosen(server.entries) /\ mem.entries[b].state = "available"
    BY <1>4, <1>6 DEF Chosen
  <2>2. PICK r : r = mem.entries[b].restore
    OBVIOUS
  <2>3. r # 0 /\ r \in 0..Len(restores)
    BY <1>1, <2>1, <2>2 DEF Named, EntriesOK, EntryOK
  <2>4. r \in 1..Len(restores)
    BY <2>3, <1>1 DEF RestoresPart
  <2>5. restores[r].backup = b
    <3>1. BackupsOf(restores)[r] = b
      BY <2>1, <2>2, <2>3 DEF WorldInv, RestoreInv, Links
    <3> QED
      BY <2>4, <3>1, BackupsOfAt
  <2>6. r \in Own(b)
    BY <1>2, <2>2, <2>4, <2>5 DEF Own
  <2>7. PICK i \in Own(b) : Monitored(mem).entries[b] = Follow(mem.entries[b], i)
    BY <1>1, <2>1, <2>6, MonitoredEntry
  <2>8. Monitored(mem).entries[b].phase = Normalized(Visible[i].phase)
    <3>1. mem.entries[b] \in Entry
      BY <1>1, <2>1
    <3> QED
      BY <2>7, <3>1, FollowFields
  <2>9. i \in Labelled /\ restores[i] \in VeleroRestore
    <3>1. i \in Labelled
      BY <2>7 DEF Own
    <3> QED
      BY <1>2, <3>1, RestoreTypes
  <2>10. Visible[i].phase \in VeleroPhase
    BY <1>2, <2>9 DEF VeleroRestore
  <2>11. Category(Visible[i].phase) = "completed"
    BY <1>6, <2>9
  <2> QED
    BY <2>8, <2>10, <2>11, CompletedCategory
<1> QED
  BY <1>5, <1>6 DEF AllCompleted

LEMMA MonitoredFields ==
  ASSUME MemPart
  PROVE  LET new == Monitored(mem) IN
         /\ new.finalizers = mem.finalizers /\ new.phase = mem.phase /\ new.cond = mem.cond
         /\ new.createdNamespace = mem.createdNamespace /\ new.info = mem.info
         /\ new.exists = mem.exists /\ new.deleting = mem.deleting
BY DEF MemPart, Resource, Monitored

LEMMA MonitorCore ==
  ASSUME StaleReads = FALSE, Inv, TypeInv', monitorVeleroRestores
  PROVE  Core' /\ LifeStep
<1>1. pc = "monitor" /\ stage = "restoring" /\ pc \in Serving \ {"finalizer", "update"}
  BY DEF monitorVeleroRestores, Inv, At, StageAt, Serving
<1>2. CASE Return(TRUE)
  BY <1>2, ReturnCore
<1>3. CASE /\ seen' = {Category(Visible[i].phase) : i \in Labelled}
           /\ mem' = Monitored(mem)
           /\ pc' = IF Monitored(mem) = mem THEN "fix" ELSE "update"
           /\ UNCHANGED <<log, world, queued, faults, todo, fresh>>
  <2>1. server' = server /\ restores' = restores /\ UNCHANGED <<spec, namespace, objs, mounts>>
    BY <1>3 DEF world, server
  <2>2. RestoresFrame /\ Untouched /\ stage' = stage
    BY <1>1, <2>1, RestoresKept DEF Untouched, stage
  <2>3. WorldInv' /\ LifeStep
    BY <2>1, <2>2, WorldFrame, KeptStep DEF Inv
  <2>4. Named(server.entries) /\ mem.entries = server.entries
    BY <1>1 DEF Inv, WorldInv, Claims, FromRestoring, FromPlaced, At, SyncAt
  <2>5. /\ SameNames(mem'.entries, server.entries)
        /\ seen' \subseteq {"completed"} => AllCompleted(mem'.entries)
    BY <1>3, <2>2, <2>4, MonitoredNames DEF Inv
  <2>6. /\ mem'.finalizers = mem.finalizers /\ mem'.phase = mem.phase /\ mem'.cond = mem.cond
        /\ mem'.createdNamespace = mem.createdNamespace /\ mem'.info = mem.info
        /\ mem'.exists = mem.exists /\ mem'.deleting = mem.deleting
    BY <1>3, MonitoredFields DEF Inv, TypeInv
  <2>7. pc' \in {"fix", "update"} /\ (pc' = "fix" => mem' = mem) /\ fresh' = fresh
    BY <1>3
  <2>8. SyncAt(pc)'
    <3>1. /\ mem.finalizers = server.finalizers /\ mem.phase = server.phase
          /\ mem.cond = server.cond /\ mem.createdNamespace = server.createdNamespace
          /\ mem.info = server.info /\ server.exists /\ server.finalizers = Finalizers
          /\ fresh => mem.exists = server.exists /\ mem.deleting = server.deleting
      BY <1>1 DEF Inv, At, SyncAt
    <3> QED
      BY <2>1, <2>4, <2>6, <2>7, <3>1 DEF SyncAt, Serving, RemovingRestores, RemovingObjects
  <2>9. StageAt(pc)' /\ WorldAt(pc)'
    BY <1>1, <2>2, <2>7 DEF StageAt, WorldAt, RemovingObjects
  <2>10. ChoiceAt(pc)'
    BY <2>1, <2>5, <2>7 DEF ChoiceAt
  <2> QED
    BY <2>3, <2>8, <2>9, <2>10 DEF Core, At
<1> QED
  BY <1>2, <1>3 DEF monitorVeleroRestores

LEMMA SameNamesFacts ==
  ASSUME NEW e, NEW f, SameNames(e, f)
  PROVE  /\ Chosen(e) = Chosen(f) /\ (Named(e) <=> Named(f))
         /\ \A bs : Links(e, bs) <=> Links(f, bs)
BY DEF SameNames, Chosen, Named, Links

LEMMA UpdateCore ==
  ASSUME Inv, TypeInv', UpdatePhases
  PROVE  Core' /\ LifeStep
<1>1. pc = "update" /\ stage = "restoring" /\ pc \in Serving
      /\ SameNames(mem.entries, server.entries)
      /\ (seen \subseteq {"completed"} => AllCompleted(mem.entries))
  BY DEF UpdatePhases, Inv, At, StageAt, ChoiceAt, Serving
<1>2. CASE Return(TRUE)
  BY <1>2, ReturnCore
<1>3. CASE /\ fresh /\ Replace(mem) /\ pc' = "fix"
           /\ UNCHANGED <<world, queued, faults, mem, todo, seen, fresh>>
  <2>1. restores' = restores /\ UNCHANGED <<spec, namespace, objs, mounts>>
    BY <1>3 DEF world
  <2>2. server' = mem /\ mem' = mem
    BY <1>3, <2>1, ReplaceType DEF Inv, TypeInv, MemPart
  <2>3. /\ mem.finalizers = server.finalizers /\ mem.phase = server.phase
        /\ mem.cond = server.cond /\ mem.createdNamespace = server.createdNamespace
        /\ mem.info = server.info /\ server.exists /\ server.finalizers = Finalizers
        /\ mem.exists = server.exists /\ mem.deleting = server.deleting
    BY <1>1, <1>3 DEF Inv, At, SyncAt
  <2>4. /\ Chosen(mem.entries) = Chosen(server.entries)
        /\ Named(mem.entries) <=> Named(server.entries)
        /\ Links(mem.entries, BackupsOf(restores)) <=> Links(server.entries, BackupsOf(restores))
    BY <1>1, SameNamesFacts
  <2>5. server.phase = "InProgress" /\ server.cond.reason = "WaitingForRestores"
    BY <1>1, PhaseOfStage DEF Inv, WorldInv
  <2>6. stage' = "restoring"
    BY <2>2, <2>3, <2>5, StageValues DEF stage
  <2>7. WorldInv'
    <3>1. Untouched
      BY <1>1 DEF Untouched
    <3>2. FinalizerInv'
      BY <2>2, <2>3, <2>5 DEF FinalizerInv, Finalizers
    <3>3. ReasonInv' /\ PublicInv'
      BY <2>2, <2>3, <2>5, <2>6 DEF ReasonInv, PublicInv, WorkflowReasons, EarlyReasons
    <3>4. Claims(stage)'
      BY <1>1, <2>1, <2>2, <2>3, <2>4, <2>6, <3>1 DEF Inv, WorldInv, Claims, UpToValidated,
         FromPlaced, FromRestoring, FromRestored
    <3>5. RestoreInv'
      BY <2>1, <2>2, <2>3, <2>4, <3>1 DEF Inv, WorldInv, RestoreInv
    <3>6. ObjectInv'
      BY <2>1, <2>2, <2>3, <2>4, <3>1 DEF Inv, WorldInv, ObjectInv
    <3> QED
      BY <3>2, <3>3, <3>4, <3>5, <3>6 DEF WorldInv
  <2>8. LifeStep
    <3>1. server.exists \in BOOLEAN /\ server.deleting \in BOOLEAN
      BY ServerFields DEF Inv
    <3>2. UNCHANGED <<stage, lives, chosen, restored, served>>
      BY <1>1, <2>1, <2>2, <2>3, <2>4, <2>6, <3>1 DEF lives, Life, chosen, restored, served
    <3> QED
      BY <3>2, StutterStep DEF Inv
  <2>9. SyncAt(pc)'
    BY <1>3, <2>2, <2>3 DEF SyncAt, Serving, RemovingRestores, RemovingObjects
  <2>10. StageAt(pc)' /\ WorldAt(pc)'
    BY <1>3, <2>6 DEF StageAt, WorldAt, RemovingObjects
  <2>11. ChoiceAt(pc)'
    BY <1>1, <1>3, <2>2 DEF ChoiceAt
  <2> QED
    BY <2>7, <2>8, <2>9, <2>10, <2>11 DEF Core, At
<1> QED
  BY <1>2, <1>3 DEF UpdatePhases

\* The Restores changed field by field.
LEMMA FrameOfFields ==
  ASSUME TypeInv, TypeInv', Len(restores') = Len(restores),
         \A i \in 1..Len(restores) :
           /\ restores'[i].backup = restores[i].backup
           /\ restores'[i].exists = restores[i].exists
           /\ restores[i].claim # "none" => restores'[i].claim # "none"
  PROVE  RestoresFrame
<1>1. restores \in Seq(VeleroRestore) /\ restores' \in Seq(VeleroRestore)
  BY DEF TypeInv, RestoresPart
<1>2. restores = <<>> => restores' = <<>>
  BY <1>1
<1>3. BackupsOf(restores') = BackupsOf(restores)
  BY DEF BackupsOf
<1>4. Existing(restores') = Existing(restores)
  BY DEF Existing
<1>5. WithClaim(restores) \subseteq WithClaim(restores')
  BY DEF WithClaim
<1> QED
  BY <1>2, <1>3, <1>4, <1>5 DEF RestoresFrame

LEMMA FixCore ==
  ASSUME Inv, TypeInv', fixDataDownloadPVCNames
  PROVE  Core' /\ LifeStep
<1>1. pc = "fix" /\ stage = "restoring" /\ pc \in Serving \ {"finalizer", "update"}
      /\ (seen \subseteq {"completed"} => AllCompleted(mem.entries))
  BY DEF fixDataDownloadPVCNames, Inv, At, StageAt, ChoiceAt, Serving
<1>2. /\ restores' = [i \in 1..Len(restores) |->
                        IF i \in Labelled THEN Fixed(restores[i]) ELSE restores[i]]
      /\ UNCHANGED <<spec, namespace, objs, mounts, log>> /\ server' = server
  BY DEF fixDataDownloadPVCNames, Goto, server
<1>3. Len(restores') = Len(restores)
  BY <1>2 DEF Inv, TypeInv, RestoresPart
<1>4. ASSUME NEW i \in 1..Len(restores)
      PROVE  /\ restores'[i].backup = restores[i].backup
             /\ restores'[i].exists = restores[i].exists
             /\ restores'[i].claim = restores[i].claim
  <2>1. restores[i] \in VeleroRestore
    BY RestoreTypes DEF Inv
  <2>2. restores'[i] = IF i \in Labelled THEN Fixed(restores[i]) ELSE restores[i]
    BY <1>2
  <2> QED
    BY <2>1, <2>2, FixedType
<1>5. RestoresFrame
  BY <1>3, <1>4, FrameOfFields DEF Inv
<1>6. CASE EndReconcile(TRUE)
  BY <1>2, <1>5, <1>6, EndCore DEF EndReconcile
<1>7. CASE "inProgress" \notin seen /\ Goto("judge")
  <2>1. Untouched
    BY <1>1 DEF Untouched
  <2>2. WorldInv' /\ LifeStep
    BY <1>2, <1>5, <2>1, WorldFrame, KeptStep DEF Inv
  <2>3. SyncAt("judge")
    BY <1>1, SyncServing DEF Inv, At, Serving
  <2>4. StageAt("judge") /\ ChoiceAt("judge") /\ WorldAt("judge")
    BY <1>1, <1>7 DEF StageAt, ChoiceAt, WorldAt, RemovingObjects
  <2>5. At("judge")
    BY <2>3, <2>4 DEF At
  <2>6. At(pc)'
    BY <1>2, <1>5, <1>7, <2>5, AtFrame DEF Goto
  <2> QED
    BY <2>2, <2>6 DEF Core
<1> QED
  BY <1>6, <1>7 DEF fixDataDownloadPVCNames

LEMMA JudgeCore ==
  ASSUME Inv, TypeInv', JudgeRestores
  PROVE  Core' /\ LifeStep
<1>1. pc = "judge" /\ stage = "restoring" /\ pc \in Serving \ {"finalizer", "update"}
      /\ (seen \subseteq {"completed"} => AllCompleted(mem.entries)) /\ "inProgress" \notin seen
  BY DEF JudgeRestores, Inv, At, StageAt, ChoiceAt, Serving
<1>2. CASE Goto("fail") /\ UNCHANGED world
  BY <1>1, <1>2, GotoFailCore
<1>3. CASE Return(TRUE)
  BY <1>3, ReturnCore
<1>4. CASE "failed" \notin seen /\ PatchEnd(InProgress("RestoresCompleted"), TRUE)
  <2> DEFINE why == "RestoresCompleted"
             t == "restored"
  <2>1. why \in WorkflowReasons /\ why \notin EarlyReasons /\ t # "Completed"
    BY DEF EarlyReasons, WorkflowReasons
  <2>2. MayFollow(t)
    BY <1>1, AfterValues DEF MayFollow
  <2>3. \A o : o.phase = "InProgress" /\ o.cond.reason = why => LifeStage(o) = t
    BY StageValues
  <2>4. PatchEnd(InProgress(why), TRUE)
    BY <1>4
  <2>5. AllCompleted(server.entries)
    <3>1. seen \subseteq {"completed"}
      BY <1>1, <1>4 DEF Inv, TypeInv, WorkerPart
    <3> QED
      BY <1>1, <3>1 DEF Inv, At, SyncAt
  <2>6. Claims(t)
    BY <1>1, <2>5 DEF Inv, WorldInv, Claims, UpToValidated, FromPlaced, FromRestoring, FromRestored
  <2> HIDE DEF why, t
  <2> QED
    BY <1>1, <2>1, <2>2, <2>3, <2>4, <2>6, InProgressCore
<1>5. CASE PatchEnd(StatusPhaseConditions("PartiallyFailed",
             Cond(FALSE, "RestoresCompletedWithFailures", TRUE, TRUE, TRUE)), FALSE)
  <2>1. Cond(FALSE, "RestoresCompletedWithFailures", TRUE, TRUE, TRUE) \in Conditions
    BY CondType DEF Reasons
  <2> QED
    BY <1>1, <1>5, <2>1, PartiallyFailedCore
<1>6. CASE PatchEnd(StatusPhaseConditions("Failed",
             Cond(FALSE, "RestoresFailed", FALSE, TRUE, FALSE)), FALSE)
  <2>1. Cond(FALSE, "RestoresFailed", FALSE, TRUE, FALSE) \in Conditions
    BY CondType DEF Reasons
  <2>2. "Failed" \in Lifecycle!After(stage)
    BY <1>1, AfterValues
  <2> QED
    BY <1>1, <1>6, <2>1, <2>2, FailedCore
<1> QED
  BY <1>2, <1>3, <1>4, <1>5, <1>6 DEF JudgeRestores

-----------------------------------------------------------------------------
(***************************************************************************)
(* ensureCredentials and createFileServerResources.                        *)
(***************************************************************************)
LEMMA CleanSecretsCore ==
  ASSUME Inv, TypeInv', cleanupAllCredentialSecrets
  PROVE  Core' /\ LifeStep
<1>1. pc = "credentials" /\ stage = "restored" /\ pc \in Serving \ {"finalizer", "update"}
      /\ "secrets" \in Serving \ {"finalizer"}
  BY DEF cleanupAllCredentialSecrets, Inv, At, StageAt, Serving
<1>2. server.createdNamespace /\ mem.createdNamespace
  <2>1. server.createdNamespace
    BY <1>1 DEF Inv, WorldInv, Claims, FromPlaced
  <2> QED
    BY <1>1, <2>1 DEF Inv, At, SyncAt
<1>3. CASE CredentialsWanted
  <2>1. /\ objs' = objs \ {"secrets"} /\ Goto("secrets")
        /\ UNCHANGED <<spec, restores, namespace, mounts>>
    BY <1>3 DEF cleanupAllCredentialSecrets
  <2>2. StageAt("secrets") /\ ChoiceAt("secrets") /\ WorldAt("secrets")'
    BY <1>1 DEF StageAt, ChoiceAt, WorldAt, RemovingObjects
  <2>3. RestoresFrame
    BY <2>1, RestoresKept
  <2> QED
    BY <1>1, <1>2, <2>1, <2>2, <2>3, ServingGoto
<1>4. CASE ~CredentialsWanted
  BY <1>1, <1>4, GotoFailCore DEF cleanupAllCredentialSecrets, world
<1> QED
  BY <1>3, <1>4

LEMMA SecretsCore ==
  ASSUME Inv, TypeInv', ensureCredentials
  PROVE  Core' /\ LifeStep
<1>1. pc = "secrets" /\ stage = "restored"
      /\ {"secrets", "credentials ready"} \subseteq Serving \ {"finalizer", "update"}
  BY DEF ensureCredentials, CreateObject, Inv, At, StageAt, Serving
<1>2. server.createdNamespace
  BY <1>1 DEF Inv, WorldInv, Claims, FromPlaced
<1>3. StageAt("credentials ready") /\ ChoiceAt("credentials ready")
  BY <1>1 DEF StageAt, ChoiceAt
<1>4. WorldAt("credentials ready") /\ WorldAt("credentials ready")'
  BY DEF WorldAt, RemovingObjects
<1>5. CASE CreateObject("secrets", "secrets", "credentials ready")
  BY <1>1, <1>2, <1>3, <1>4, <1>5, CreateObjectCore
<1>6. CASE Goto("credentials ready") /\ UNCHANGED world
  <2>1. SyncAt("credentials ready")
    BY <1>1, SyncServing DEF Inv, At
  <2> QED
    BY <1>1, <1>3, <1>4, <1>6, <2>1, GotoCore DEF At
<1>7. CASE Goto("fail") /\ UNCHANGED world
  BY <1>1, <1>7, GotoFailCore
<1> QED
  BY <1>5, <1>6, <1>7 DEF ensureCredentials

LEMMA CredentialsReadyCore ==
  ASSUME Inv, TypeInv', CredentialsReady
  PROVE  Core' /\ LifeStep
<1> DEFINE why == "CredentialsReady"
           t == "credentials"
<1>1. pc = "credentials ready" /\ stage = "restored" /\ pc \in Serving \ {"finalizer", "update"}
  BY DEF CredentialsReady, Inv, At, StageAt, Serving
<1>2. why \in WorkflowReasons /\ why \notin EarlyReasons /\ t # "Completed"
  BY DEF EarlyReasons, WorkflowReasons
<1>3. MayFollow(t)
  BY <1>1, AfterValues DEF MayFollow
<1>4. \A o : o.phase = "InProgress" /\ o.cond.reason = why => LifeStage(o) = t
  BY StageValues
<1>5. PatchEnd(InProgress(why), TRUE)
  BY DEF CredentialsReady
<1>6. Claims(t)
  BY <1>1 DEF Inv, WorldInv, Claims, UpToValidated, FromPlaced, FromRestoring, FromRestored
<1> HIDE DEF why, t
<1> QED
  BY <1>1, <1>2, <1>3, <1>4, <1>5, <1>6, InProgressCore

LEMMA PrepareFileServerCore ==
  ASSUME Inv, TypeInv', PrepareFileServer
  PROVE  Core' /\ LifeStep
<1>1. pc = "file server" /\ stage = "credentials" /\ pc \in Serving \ {"finalizer", "update"}
      /\ UNCHANGED world /\ "pod" \in Serving \ {"finalizer", "update"}
  BY DEF PrepareFileServer, Inv, At, StageAt, Serving
<1>2. CASE Goto("fail")
  BY <1>1, <1>2, GotoFailCore
<1>3. CASE ClaimsReady /\ Goto("pod")
  <2>1. PVCMounts(mem) \subseteq WithClaim(restores)
    <3>1. PVCMounts(mem) \subseteq 1..Len(restores)
      BY MountsType DEF Inv, TypeInv
    <3> QED
      BY <1>3, <3>1 DEF ClaimsReady, WithClaim
  <2>2. SyncAt("pod")
    BY <1>1, SyncServing DEF Inv, At
  <2>3. StageAt("pod") /\ ChoiceAt("pod") /\ WorldAt("pod")
    BY <1>1, <2>1 DEF StageAt, ChoiceAt, WorldAt, RemovingObjects
  <2> QED
    BY <1>1, <1>3, <2>2, <2>3, GotoCore DEF At
<1> QED
  BY <1>2, <1>3 DEF PrepareFileServer

\* The pod mounts the claims of exactly the chosen backups.
LEMMA MountsOfChosen ==
  ASSUME TypeInv, WorldInv, Named(server.entries), AllCompleted(server.entries),
         mem.entries = server.entries
  PROVE  {BackupsOf(restores)[i] : i \in PVCMounts(mem)} = Chosen(server.entries)
<1>1. Available(mem) = Chosen(server.entries)
  BY AvailableIsChosen
<1>2. PVCMounts(mem) = {server.entries[b].restore : b \in Chosen(server.entries)}
  BY <1>1 DEF PVCMounts, AllCompleted
<1>3. ASSUME NEW b \in Chosen(server.entries)
      PROVE  BackupsOf(restores)[server.entries[b].restore] = b
  <2>1. b \in Backups /\ server.entries[b].restore # 0
    BY <1>3 DEF Named, Chosen
  <2> QED
    BY <2>1 DEF WorldInv, RestoreInv, Links
<1> QED
  BY <1>2, <1>3

LEMMA PodCore ==
  ASSUME Inv, TypeInv', CreatePod
  PROVE  Core' /\ LifeStep
<1>1. pc = "pod" /\ stage = "credentials" /\ pc \in Serving \ {"finalizer", "update"}
      /\ PVCMounts(mem) \subseteq WithClaim(restores) /\ "service" \in Serving \ {"finalizer"}
  BY DEF CreatePod, Inv, At, StageAt, WorldAt, Serving
<1>2. /\ objs' = objs \cup {"pod"} /\ Goto("service")
      /\ mounts' = IF "pod" \in objs THEN mounts ELSE PVCMounts(mem)
      /\ UNCHANGED <<spec, restores, namespace>>
  BY DEF CreatePod
<1>3. Untouched /\ StageAt("service") /\ ChoiceAt("service")
  BY <1>1 DEF Untouched, StageAt, ChoiceAt
<1>4. WorldAt("service")'
  BY <1>2 DEF WorldAt, RemovingObjects
<1>5. RestoresFrame
  BY <1>2, RestoresKept
<1>6. /\ Named(server.entries) /\ AllCompleted(server.entries) /\ server.createdNamespace
      /\ server.exists /\ mem.entries = server.entries /\ namespace
  BY <1>1, <1>3 DEF Inv, WorldInv, Claims, ObjectInv, FromRestoring, FromRestored, FromPlaced, At,
     SyncAt
<1>7. CASE "pod" \in objs
  BY <1>1, <1>2, <1>3, <1>4, <1>5, <1>7, ServingGoto
<1>8. CASE "pod" \notin objs
  <2>1. mounts = {} /\ mounts' = PVCMounts(mem) /\ server' = server /\ pc' = "service"
        /\ UNCHANGED <<mem, todo, seen, fresh>>
    BY <1>2, <1>8 DEF Inv, WorldInv, ObjectInv, Goto, server
  <2>2. {BackupsOf(restores)[i] : i \in mounts'} = Chosen(server.entries)
    BY <1>6, <2>1, MountsOfChosen DEF Inv
  <2>3. stage' = stage
    BY <2>1 DEF stage
  <2>4. WorldInv'
    <3>1. FinalizerInv' /\ ReasonInv' /\ PublicInv'
      BY <1>2, <2>1, <2>3 DEF Inv, WorldInv, FinalizerInv, ReasonInv, PublicInv
    <3>2. Claims(stage)'
      BY <1>1, <1>2, <1>3, <2>1, <2>3 DEF Inv, WorldInv, Claims, UpToValidated
    <3>3. RestoreInv'
      BY <1>2, <1>3, <2>1 DEF Inv, WorldInv, RestoreInv
    <3>4. ObjectInv'
      BY <1>1, <1>2, <1>3, <1>6, <2>1, <2>2 DEF Inv, WorldInv, ObjectInv
    <3> QED
      BY <3>1, <3>2, <3>3, <3>4 DEF WorldInv
  <2>5. At(pc)'
    <3>1. SyncAt("service")
      BY <1>1, SyncServing DEF Inv, At
    <3> QED
      BY <1>1, <1>3, <1>4, <1>5, <2>1, <3>1, ServingAt
  <2>6. LifeStep
    <3>1. lives \in {"live", "deleting"}
      BY <1>1, ServingLives DEF Inv, At
    <3>2. served = {} /\ served' = chosen
      BY <1>2, <2>1, <2>2 DEF served, chosen
    <3>3. chosen = restored
      BY <1>3, <1>6, NamedAreRestored DEF Inv
    <3>4. UNCHANGED <<stage, lives, chosen, restored>>
      BY <1>2, <2>1, <2>3 DEF lives, chosen, restored
    <3> QED
      BY <1>1, <3>1, <3>2, <3>3, <3>4, ServeStep DEF Inv
  <2> QED
    BY <2>4, <2>5, <2>6 DEF Core
<1> QED
  BY <1>7, <1>8

LEMMA ServiceCore ==
  ASSUME Inv, TypeInv', CreateService
  PROVE  Core' /\ LifeStep
<1>1. PICK k : k = IF spec.expose THEN "route" ELSE "publish"
  OBVIOUS
<1>2. CreateObject("service", "service", k) /\ k \in {"route", "publish"}
  BY <1>1 DEF CreateService
<1>3. pc = "service" /\ objs' = objs \cup {"service"} /\ server' = server
  BY <1>2 DEF CreateObject, Goto, server
<1>4. stage = "credentials" /\ "pod" \in objs /\ server.createdNamespace
  <2>1. stage = "credentials" /\ "pod" \in objs
    BY <1>3 DEF Inv, At, StageAt, WorldAt
  <2> QED
    BY <2>1 DEF Inv, WorldInv, Claims, FromPlaced
<1>5. StageAt(k) /\ ChoiceAt(k)
  BY <1>2, <1>4 DEF StageAt, ChoiceAt
<1>6. WorldAt(k)'
  BY <1>2, <1>3, <1>4 DEF WorldAt, RemovingObjects
<1>7. "service" \in Serving \ {"finalizer", "update"} /\ k \in Serving \ {"finalizer"}
  BY <1>2 DEF Serving
<1> QED
  BY <1>2, <1>4, <1>5, <1>6, <1>7, CreateObjectCore

LEMMA RouteCore ==
  ASSUME Inv, TypeInv', createRoutesIfRequested
  PROVE  Core' /\ LifeStep
<1>1. pc = "route" /\ stage = "credentials" /\ {"pod", "service"} \subseteq objs
      /\ {"route", "publish"} \subseteq Serving \ {"finalizer", "update"}
  BY DEF createRoutesIfRequested, CreateObject, Inv, At, StageAt, WorldAt, Serving
<1>2. server.createdNamespace
  BY <1>1 DEF Inv, WorldInv, Claims, FromPlaced
<1>3. StageAt("publish") /\ ChoiceAt("publish")
  BY <1>1 DEF StageAt, ChoiceAt
<1>4. CASE CreateObject("route", "route", "publish")
  <2>1. objs' = objs \cup {"route"}
    BY <1>4 DEF CreateObject
  <2>2. WorldAt("publish")'
    BY <1>1, <2>1 DEF WorldAt, RemovingObjects
  <2> QED
    BY <1>1, <1>2, <1>3, <1>4, <2>2, CreateObjectCore
<1>5. CASE Goto("publish") /\ UNCHANGED world
  <2>1. WorldAt("publish")
    BY <1>1 DEF WorldAt, RemovingObjects
  <2>2. SyncAt("publish")
    BY <1>1, SyncServing DEF Inv, At
  <2> QED
    BY <1>1, <1>3, <1>5, <2>1, <2>2, GotoCore DEF At
<1> QED
  BY <1>4, <1>5 DEF createRoutesIfRequested

\* The status says where the files are served.
LEMMA ServingInfoType == ServingInfo \in {"none", "cluster", "public"}
BY DEF ServingInfo

LEMMA PublishCore ==
  ASSUME Inv, TypeInv', pc \in Serving \ {"finalizer", "update"},
         NEW t \in {"exposing", "Completed"}, t \in Lifecycle!After(stage), stage \in FromRestored,
         {"pod", "service"} \subseteq objs,
         NEW p \in {"InProgress", "Completed"}, NEW c \in Conditions, NEW q,
         PatchEnd([mem EXCEPT !.phase = p, !.info = ServingInfo, !.cond = c], q),
         p = "InProgress" => c.reason = "WaitingForRoute",
         p = "Completed" => RouteReady,
         t = IF p = "Completed" THEN "Completed" ELSE "exposing"
  PROVE  Core' /\ LifeStep
<1>1. restores' = restores /\ UNCHANGED <<spec, namespace, objs, mounts>> /\ pc' = "idle"
  BY DEF PatchEnd, EndReconcile, world
<1>2. PICK i \in {"none", "cluster", "public"} : i = ServingInfo
  BY ServingInfoType
<1>3. p \in Phases
  BY DEF Phases, Terminal
<1>4. Patch([mem EXCEPT !.phase = p, !.info = i, !.cond = c])
  BY <1>2 DEF PatchEnd
<1>5. Published(p, c) /\ server'.info = i
  BY <1>1, <1>3, <1>4, ServedPublished DEF Inv, At
<1>6. LifeStage(server') = t /\ stage' = t
  BY <1>5, StageValues DEF Published, stage
<1>7. Claims(t)
  <2>1. Untouched
    BY DEF Untouched
  <2> QED
    BY <2>1 DEF Inv, WorldInv, Claims, UpToValidated, FromPlaced, FromRestoring, FromRestored
<1>8. p = "Completed" /\ spec.expose => server'.info = "public"
  BY <1>2, <1>5 DEF RouteReady
<1>9. "WaitingForRoute" \in WorkflowReasons /\ "WaitingForRoute" \notin EarlyReasons
  BY DEF WorkflowReasons, EarlyReasons
<1>10. WorldInv'
  BY <1>1, <1>5, <1>6, <1>7, <1>8, <1>9, AdvanceWorld DEF Inv, At
<1>11. served = chosen
  BY DEF Inv, WorldInv, ObjectInv, served, chosen
<1>12. MayFollow(t)
  BY <1>11, AfterValues DEF MayFollow
<1>13. LifeStep
  BY <1>1, <1>5, <1>6, <1>12, PublishedStep DEF Inv, At
<1> QED
  BY <1>1, <1>10, <1>13, AtIdle DEF Core

LEMMA PublishFileServerCore ==
  ASSUME Inv, TypeInv', PublishFileServer
  PROVE  Core' /\ LifeStep
<1>1. /\ pc = "publish" /\ stage = "credentials" /\ {"pod", "service"} \subseteq objs
      /\ pc \in Serving \ {"finalizer", "update"}
  BY DEF PublishFileServer, Inv, At, StageAt, WorldAt, Serving
<1>2. stage \in FromRestored /\ {"exposing", "Completed"} \subseteq Lifecycle!After(stage)
  BY <1>1, AfterValues DEF FromRestored, FromRestoring, FromPlaced
<1>3. CASE PatchEnd([mem EXCEPT !.phase = "InProgress", !.info = ServingInfo,
             !.cond = Cond(TRUE, "WaitingForRoute", TRUE, FALSE, FALSE)], TRUE)
  <2> DEFINE c == Cond(TRUE, "WaitingForRoute", TRUE, FALSE, FALSE)
  <2>1. c \in Conditions /\ c.reason = "WaitingForRoute"
    BY CondType DEF Cond, Reasons, WorkflowReasons
  <2> HIDE DEF c
  <2>2. PatchEnd([mem EXCEPT !.phase = "InProgress", !.info = ServingInfo, !.cond = c], TRUE)
    BY <1>3 DEF c
  <2> QED
    BY <1>1, <1>2, <2>1, <2>2, PublishCore
<1>4. CASE RouteReady /\ PatchEnd([mem EXCEPT !.phase = "Completed", !.info = ServingInfo,
                                              !.cond = CompletedCond], FALSE)
  <2>1. CompletedCond \in Conditions
    BY CondType DEF CompletedCond, Reasons
  <2> QED
    BY <1>1, <1>2, <1>4, <2>1, PublishCore
<1> QED
  BY <1>3, <1>4 DEF PublishFileServer

LEMMA WaitingForRouteCore ==
  ASSUME Inv, TypeInv', WaitingForRoute
  PROVE  Core' /\ LifeStep
<1>1. pc = "route check" /\ stage = "exposing" /\ pc \in Serving \ {"finalizer", "update"}
  BY DEF WaitingForRoute, Inv, At, StageAt, Serving
<1>2. {"pod", "service"} \subseteq objs
  BY <1>1, ServingUntouched DEF Inv, WorldInv, Claims
<1>3. stage \in FromRestored /\ "Completed" \in Lifecycle!After(stage)
  BY <1>1, AfterValues DEF FromRestored, FromRestoring, FromPlaced
<1>4. CASE Return(TRUE)
  BY <1>4, ReturnCore
<1>5. CASE RouteReady /\ PatchEnd([mem EXCEPT !.phase = "Completed", !.info = ServingInfo,
                                              !.cond = CompletedCond], FALSE)
  <2>1. CompletedCond \in Conditions
    BY CondType DEF CompletedCond, Reasons
  <2> QED
    BY <1>1, <1>2, <1>3, <1>5, <2>1, PublishCore
<1> QED
  BY <1>4, <1>5 DEF WaitingForRoute

-----------------------------------------------------------------------------
(***************************************************************************)
(* Deletion.                                                               *)
(***************************************************************************)
LEMMA RemovingPlaces ==
  ASSUME NEW k \in RemovingRestores \cup RemovingObjects
  PROVE  /\ k \notin Serving /\ k # "idle" /\ StageAt(k) /\ ChoiceAt(k)
         /\ StageAt(k)' /\ ChoiceAt(k)'
<1>1. k \notin Serving /\ k # "idle"
  BY DEF RemovingRestores, RemovingObjects, Serving
<1>2. StageAt(k) /\ StageAt(k)'
  BY DEF StageAt, RemovingRestores, RemovingObjects
<1>3. ChoiceAt(k) /\ ChoiceAt(k)'
  BY DEF ChoiceAt, RemovingRestores, RemovingObjects
<1> QED
  BY <1>1, <1>2, <1>3

\* Restores' claims go, and perhaps Restores: their backups stay known.
LEMMA ShrinkOfFields ==
  ASSUME TypeInv, TypeInv', Len(restores') = Len(restores),
         \A i \in 1..Len(restores) : restores'[i].backup = restores[i].backup
  PROVE  (restores = <<>> => restores' = <<>>) /\ BackupsOf(restores') = BackupsOf(restores)
<1>1. restores \in Seq(VeleroRestore) /\ restores' \in Seq(VeleroRestore)
  BY DEF TypeInv, RestoresPart
<1>2. restores = <<>> => restores' = <<>>
  BY <1>1
<1>3. BackupsOf(restores') = BackupsOf(restores)
  BY DEF BackupsOf
<1> QED
  BY <1>2, <1>3

\* One Restore is deleted.
LEMMA DeletedRestore ==
  ASSUME TypeInv, TypeInv', NEW i \in 1..Len(restores), restores[i].exists,
         restores' = [restores EXCEPT ![i].exists = FALSE]
  PROVE  /\ BackupsOf(restores') = BackupsOf(restores) /\ Len(restores') = Len(restores)
         /\ Existing(restores') = Existing(restores) \ {i}
         /\ restored' = restored \/ restored' = restored \ {BackupsOf(restores)[i]}
         /\ BackupsOf(restores)[i] \in Backups
<1>1. /\ restores[i] \in VeleroRestore /\ Len(restores') = Len(restores)
      /\ restores'[i] = [restores[i] EXCEPT !.exists = FALSE]
      /\ \A j \in 1..Len(restores) : j # i => restores'[j] = restores[j]
  <2>1. restores[i] \in VeleroRestore
    BY RestoreTypes
  <2>2. PICK r : r = [restores[i] EXCEPT !.exists = FALSE]
    OBVIOUS
  <2>3. restores' = [restores EXCEPT ![i] = r]
    BY <2>2, RestoreFieldStep
  <2>4. restores \in Seq(VeleroRestore)
    BY DEF TypeInv, RestoresPart
  <2>5. /\ Len(restores') = Len(restores) /\ restores'[i] = r
        /\ \A j \in 1..Len(restores) : j # i => restores'[j] = restores[j]
    BY <2>3, <2>4
  <2> QED
    BY <2>1, <2>2, <2>5
<1>2. restores'[i].backup = restores[i].backup /\ restores'[i].exists = FALSE
      /\ restores[i].backup \in Backups
  BY <1>1 DEF VeleroRestore
<1>3. BackupsOf(restores') = BackupsOf(restores)
  BY <1>1, <1>2 DEF BackupsOf
<1>4. Existing(restores') = Existing(restores) \ {i}
  BY <1>1, <1>2 DEF Existing
<1>5. restored' = restored \/ restored' = restored \ {BackupsOf(restores)[i]}
  <2>1. restored' = {BackupsOf(restores)[j] : j \in Existing(restores) \ {i}}
    BY <1>3, <1>4 DEF restored
  <2>2. CASE \E j \in Existing(restores) \ {i} : BackupsOf(restores)[j] = BackupsOf(restores)[i]
    BY <2>1, <2>2 DEF restored
  <2>3. CASE ~\E j \in Existing(restores) \ {i} : BackupsOf(restores)[j] = BackupsOf(restores)[i]
    BY <2>1, <2>3 DEF restored
  <2> QED
    BY <2>2, <2>3
<1>6. BackupsOf(restores)[i] \in Backups
  BY <1>2, BackupsOfAt
<1> QED
  BY <1>1, <1>3, <1>4, <1>5, <1>6

LEMMA RestoreCleanupCore ==
  ASSUME StaleReads = FALSE, Inv, TypeInv', handleVeleroRestoreCleanup
  PROVE  Core' /\ LifeStep
<1>1. /\ pc = "delete restores" /\ pc \in RemovingRestores \cup RemovingObjects
      /\ server.exists /\ server.deleting /\ server.finalizers = Finalizers
  BY DEF handleVeleroRestoreCleanup, Inv, At, SyncAt, RemovingRestores
<1>2. Labelled = Existing(restores)
  BY DEF Labelled, Visible, Existing
<1>3. CASE /\ Labelled = {} \/ \A i \in Labelled : ~restores[i].exists
           /\ Goto("drop restore finalizer") /\ UNCHANGED world
  <2>1. Existing(restores) = {}
    BY <1>2, <1>3 DEF Existing
  <2>2. "drop restore finalizer" \in RemovingRestores \cup RemovingObjects
    BY DEF RemovingRestores
  <2>3. SyncAt("drop restore finalizer")
    BY <1>1 DEF Inv, At, SyncAt, RemovingRestores, RemovingObjects, Serving
  <2>4. WorldAt("drop restore finalizer")
    BY <2>1 DEF WorldAt, RemovingObjects
  <2>5. At("drop restore finalizer")
    BY <2>2, <2>3, <2>4, RemovingPlaces DEF At
  <2> QED
    BY <1>3, <2>2, <2>5, GotoCore, RemovingPlaces
<1>4. ASSUME NEW i \in Labelled, restores[i].exists,
             restores' = [restores EXCEPT ![i].exists = FALSE],
             UNCHANGED <<log, spec, vmbd, listed, namespace, objs, mounts, faults, worker>>
      PROVE  Core' /\ LifeStep
  <2>1. server' = server /\ UNCHANGED <<spec, namespace, objs, mounts, pc, mem, todo, seen, fresh>>
    BY <1>4 DEF server, worker
  <2>2. i \in 1..Len(restores)
    BY <1>2, <1>4 DEF Existing
  <2>3. /\ BackupsOf(restores') = BackupsOf(restores) /\ Len(restores') = Len(restores)
        /\ Existing(restores') = Existing(restores) \ {i}
        /\ restored' = restored \/ restored' = restored \ {BackupsOf(restores)[i]}
        /\ BackupsOf(restores)[i] \in Backups
    BY <1>4, <2>2, DeletedRestore DEF Inv
  <2>4. ~Untouched /\ ~Untouched' /\ stage' = stage
    BY <1>1, <2>1, RemovingPlaces DEF Untouched, stage
  <2>5. WorldInv'
    <3>1. FinalizerInv' /\ ReasonInv' /\ PublicInv'
      BY <2>1, <2>4 DEF Inv, WorldInv, FinalizerInv, ReasonInv, PublicInv
    <3>2. restores # <<>>
      BY <2>2
    <3>3. Claims(stage)'
      BY <2>1, <2>4, <3>2 DEF Inv, WorldInv, Claims
    <3>4. "velero-restore-cleanup" \in server.finalizers
      BY <1>1 DEF Finalizers
    <3>5. RestoreInv'
      BY <2>1, <2>3, <2>4, <3>4 DEF Inv, WorldInv, RestoreInv
    <3>6. ObjectInv'
      BY <2>1, <2>3, <2>4 DEF Inv, WorldInv, ObjectInv
    <3> QED
      BY <3>1, <3>3, <3>5, <3>6 DEF WorldInv
  <2>6. At(pc)'
    <3>1. SyncAt(pc)'
      BY <2>1 DEF Inv, At, SyncAt
    <3>2. WorldAt(pc)'
      BY <1>1, <2>1 DEF WorldAt, RemovingObjects
    <3>3. StageAt(pc)' /\ ChoiceAt(pc)'
      BY <1>1, <2>1 DEF StageAt, ChoiceAt
    <3> QED
      BY <3>1, <3>2, <3>3 DEF At
  <2>7. LifeStep
    <3>1. lives = "deleting"
      BY <1>1, LivesValues DEF Inv, Finalizers
    <3>2. UNCHANGED <<stage, lives, chosen, served>>
      BY <2>1, <2>3, <2>4 DEF lives, chosen, served
    <3> QED
      BY <2>3, <3>1, <3>2, StutterStep, RemoveRestoreStep DEF Inv
  <2> QED
    BY <2>5, <2>6, <2>7 DEF Core
<1> QED
  BY <1>3, <1>4 DEF handleVeleroRestoreCleanup

\* A finalizer is removed.
LEMMA FinalizerRemoved ==
  ASSUME Inv, TypeInv', pc \notin {"idle", "update"}, NEW F \in SUBSET Finalizers, NEW q,
         PatchEnd([mem EXCEPT !.finalizers = F], q)
  PROVE  /\ server' = Stored(Onto([mem EXCEPT !.finalizers = F]))
         /\ Onto([mem EXCEPT !.finalizers = F]) =
              [exists |-> server.exists, deleting |-> server.deleting, finalizers |-> F,
               phase |-> server.phase, cond |-> server.cond,
               createdNamespace |-> server.createdNamespace,
               entries |-> server.entries, info |-> server.info]
         /\ restores' = restores /\ UNCHANGED <<spec, namespace, objs, mounts>> /\ pc' = "idle"
<1> DEFINE new == [mem EXCEPT !.finalizers = F]
<1>1. new \in Resource /\ EntriesOK(new, Len(restores))
  BY FinalizersType DEF Inv, TypeInv
<1>2. /\ new.finalizers = F /\ new.phase = mem.phase /\ new.cond = mem.cond
      /\ new.createdNamespace = mem.createdNamespace /\ new.entries = mem.entries
      /\ new.info = mem.info
  BY DEF Inv, TypeInv, MemPart, Resource
<1>3. /\ Patch(new) /\ restores' = restores
      /\ UNCHANGED <<spec, namespace, objs, mounts>> /\ pc' = "idle"
  BY DEF PatchEnd, EndReconcile, world
<1> HIDE DEF new
<1>4. server' = Stored(Onto(new))
  BY <1>1, <1>3, PatchSync DEF Inv, At
<1>5. Onto(new) = [exists |-> server.exists, deleting |-> server.deleting, finalizers |-> F,
                   phase |-> server.phase, cond |-> server.cond,
                   createdNamespace |-> server.createdNamespace,
                   entries |-> server.entries, info |-> server.info]
  BY <1>2 DEF Onto, Inv, At, SyncAt
<1> QED
  BY <1>3, <1>4, <1>5 DEF new

LEMMA DropRestoreFinalizerCore ==
  ASSUME Inv, TypeInv', DropRestoreFinalizer
  PROVE  Core' /\ LifeStep
<1>1. /\ pc = "drop restore finalizer" /\ Existing(restores) = {}
      /\ server.exists /\ server.deleting /\ server.finalizers = Finalizers
      /\ mem.finalizers = Finalizers
  BY DEF DropRestoreFinalizer, Inv, At, SyncAt, WorldAt, RemovingRestores
<1>2. PICK F : F = {"vm-file-restore"}
  OBVIOUS
<1>3. F \in SUBSET Finalizers /\ F # {} /\ F = mem.finalizers \ {"velero-restore-cleanup"}
  BY <1>1, <1>2 DEF Finalizers
<1>4. [mem EXCEPT !.finalizers = @ \ {"velero-restore-cleanup"}] = [mem EXCEPT !.finalizers = F]
  BY <1>3
<1>5. PatchEnd([mem EXCEPT !.finalizers = F], TRUE)
  BY <1>4 DEF DropRestoreFinalizer
<1>6. /\ server' = Stored(Onto([mem EXCEPT !.finalizers = F]))
      /\ Onto([mem EXCEPT !.finalizers = F]) =
           [exists |-> server.exists, deleting |-> server.deleting, finalizers |-> F,
            phase |-> server.phase, cond |-> server.cond,
            createdNamespace |-> server.createdNamespace,
            entries |-> server.entries, info |-> server.info]
      /\ restores' = restores /\ UNCHANGED <<spec, namespace, objs, mounts>> /\ pc' = "idle"
  BY <1>1, <1>3, <1>5, FinalizerRemoved
<1>7. /\ server'.exists = server.exists /\ server'.deleting = server.deleting
      /\ server'.finalizers = F /\ server'.phase = server.phase /\ server'.cond = server.cond
      /\ server'.createdNamespace = server.createdNamespace
      /\ server'.entries = server.entries /\ server'.info = server.info
  <2>1. PICK o : o = [exists |-> server.exists, deleting |-> server.deleting, finalizers |-> F,
                      phase |-> server.phase, cond |-> server.cond,
                      createdNamespace |-> server.createdNamespace,
                      entries |-> server.entries, info |-> server.info]
    OBVIOUS
  <2>2. server' = Stored(o) /\ o.finalizers = F
    BY <1>6, <2>1
  <2>3. server' = o
    BY <1>3, <2>2 DEF Stored
  <2> QED
    BY <2>1, <2>3
<1>8. stage' = stage
  <2>1. \A o, p : o.phase = p.phase /\ o.cond = p.cond => LifeStage(o) = LifeStage(p)
    BY DEF LifeStage
  <2> QED
    BY <1>7, <2>1 DEF stage
<1>9. ~Untouched'
  BY <1>1, <1>6, <1>7 DEF Untouched, Serving
<1>10. WorldInv'
  <2>1. FinalizerInv'
    BY <1>1, <1>2, <1>7 DEF FinalizerInv
  <2>2. ReasonInv' /\ PublicInv'
    BY <1>6, <1>7, <1>8 DEF Inv, WorldInv, ReasonInv, PublicInv
  <2>3. Claims(stage)'
    BY <1>6, <1>7, <1>8, <1>9 DEF Inv, WorldInv, Claims
  <2>4. RestoreInv'
    BY <1>1, <1>6, <1>7, <1>9 DEF Inv, WorldInv, RestoreInv
  <2>5. ObjectInv'
    BY <1>6, <1>7, <1>9 DEF Inv, WorldInv, ObjectInv
  <2> QED
    BY <2>1, <2>2, <2>3, <2>4, <2>5 DEF WorldInv
<1>11. LifeStep
  <2>1. lives = "deleting"
    BY <1>1, LivesValues DEF Inv, Finalizers
  <2>2. lives' = "restores removed"
    <3>1. \A o : o.exists /\ o.deleting /\ "velero-restore-cleanup" \notin o.finalizers =>
                 Life(o) = "restores removed"
      BY DEF Life
    <3>2. server'.exists /\ server'.deleting
      BY <1>1, <1>7, Zenon
    <3>3. "velero-restore-cleanup" \notin server'.finalizers
      BY <1>2, <1>7
    <3> QED
      BY <3>1, <3>2, <3>3 DEF lives
  <2>3. restored = {}
    BY <1>1 DEF restored
  <2>4. UNCHANGED <<stage, chosen, restored, served>>
    BY <1>6, <1>7, <1>8 DEF chosen, restored, served
  <2> QED
    BY <2>1, <2>2, <2>3, <2>4, RestoresRemovedStep DEF Inv
<1> QED
  BY <1>6, <1>10, <1>11, AtIdle DEF Core

LEMMA DropFinalizerCore ==
  ASSUME Inv, TypeInv', DropFinalizer
  PROVE  Core' /\ LifeStep
<1>1. /\ pc = "drop finalizer" /\ server.exists /\ server.deleting
      /\ server.finalizers = {"vm-file-restore"} /\ mem.finalizers = {"vm-file-restore"}
      /\ "pod" \notin objs /\ "service" \notin objs /\ "secrets" \notin objs
      /\ AccessObjects \cap objs = {}
  BY DEF DropFinalizer, Inv, At, SyncAt, WorldAt, RemovingObjects
<1>2. PICK F : F = {}
  OBVIOUS
<1>3. F \in SUBSET Finalizers /\ F = mem.finalizers \ {"vm-file-restore"}
  BY <1>1, <1>2
<1>4. [mem EXCEPT !.finalizers = @ \ {"vm-file-restore"}] = [mem EXCEPT !.finalizers = F]
  BY <1>3
<1>5. PatchEnd([mem EXCEPT !.finalizers = F], FALSE)
  BY <1>4 DEF DropFinalizer
<1>6. /\ server' = Stored(Onto([mem EXCEPT !.finalizers = F]))
      /\ Onto([mem EXCEPT !.finalizers = F]) =
           [exists |-> server.exists, deleting |-> server.deleting, finalizers |-> F,
            phase |-> server.phase, cond |-> server.cond,
            createdNamespace |-> server.createdNamespace,
            entries |-> server.entries, info |-> server.info]
      /\ restores' = restores /\ UNCHANGED <<spec, namespace, objs, mounts>> /\ pc' = "idle"
  BY <1>1, <1>3, <1>5, FinalizerRemoved
<1>7. /\ ~server'.exists /\ server'.deleting = server.deleting
      /\ server'.finalizers = {} /\ server'.phase = server.phase /\ server'.cond = server.cond
      /\ server'.createdNamespace = server.createdNamespace
      /\ server'.entries = server.entries /\ server'.info = server.info
  <2>1. PICK o : o = [exists |-> server.exists, deleting |-> server.deleting, finalizers |-> F,
                      phase |-> server.phase, cond |-> server.cond,
                      createdNamespace |-> server.createdNamespace,
                      entries |-> server.entries, info |-> server.info]
    OBVIOUS
  <2>2. server' = Stored(o) /\ o.finalizers = {} /\ o.deleting
    BY <1>1, <1>2, <1>6, <2>1
  <2>3. server' = [o EXCEPT !.exists = FALSE]
    BY <2>2 DEF Stored
  <2> QED
    BY <1>2, <2>1, <2>3
<1>8. stage' = stage
  <2>1. \A o, p : o.phase = p.phase /\ o.cond = p.cond => LifeStage(o) = LifeStage(p)
    BY DEF LifeStage
  <2> QED
    BY <1>7, <2>1 DEF stage
<1>9. ~Untouched'
  BY <1>1, <1>6, <1>7 DEF Untouched, Serving
<1>10. WorldInv'
  <2>1. FinalizerInv'
    BY <1>1, <1>7 DEF FinalizerInv
  <2>2. ReasonInv' /\ PublicInv'
    BY <1>6, <1>7, <1>8 DEF Inv, WorldInv, ReasonInv, PublicInv
  <2>3. Claims(stage)'
    BY <1>6, <1>7, <1>8, <1>9 DEF Inv, WorldInv, Claims
  <2>4. RestoreInv'
    BY <1>1, <1>6, <1>7, <1>9 DEF Inv, WorldInv, RestoreInv
  <2>5. objs \subseteq {"route", "route host"}
    BY <1>1 DEF AccessObjects, Inv, TypeInv, WorldPart, Objects
  <2>6. ObjectInv'
    BY <1>6, <1>7, <1>9, <2>5 DEF Inv, WorldInv, ObjectInv
  <2> QED
    BY <2>1, <2>2, <2>3, <2>4, <2>6 DEF WorldInv
<1>11. LifeStep
  <2>1. lives = "restores removed"
    BY <1>1, LivesValues DEF Inv
  <2>2. lives' = "gone"
    BY <1>7 DEF lives, Life
  <2>3. served = {}
    BY <1>1 DEF Inv, WorldInv, ObjectInv, served
  <2>4. UNCHANGED <<stage, chosen, restored, served>>
    BY <1>6, <1>7, <1>8 DEF chosen, restored, served
  <2> QED
    BY <2>1, <2>2, <2>3, <2>4, RemoveStep DEF Inv
<1> QED
  BY <1>6, <1>10, <1>11, AtIdle DEF Core

\* The cleanup goes on at k: the pod is gone, and nothing was created.
LEMMA CleanupCore ==
  ASSUME Inv, TypeInv', pc \in RemovingObjects, NEW k \in RemovingObjects,
         pc' = k, UNCHANGED <<log, mem, todo, seen, fresh, spec>>, WorldAt(k)',
         objs' \subseteq objs, "pod" \notin objs', mounts' = {},
         objs' # {} => namespace', spec.target = "existing" => namespace',
         restores = <<>> => restores' = <<>>, Len(restores') = Len(restores),
         BackupsOf(restores') = BackupsOf(restores), Existing(restores') = Existing(restores)
  PROVE  Core' /\ LifeStep
<1>1. server.exists /\ server.deleting /\ server.finalizers = {"vm-file-restore"}
  BY DEF Inv, At, SyncAt
<1>2. server' = server /\ stage' = stage
  BY DEF server, stage
<1>3. ~Untouched'
  BY <1>1, <1>2, RemovingPlaces DEF Untouched
<1>4. WorldInv'
  <2>1. FinalizerInv' /\ ReasonInv' /\ PublicInv'
    BY <1>2 DEF Inv, WorldInv, FinalizerInv, ReasonInv, PublicInv
  <2>2. Claims(stage)'
    BY <1>2, <1>3 DEF Inv, WorldInv, Claims
  <2>3. RestoreInv'
    BY <1>2, <1>3 DEF Inv, WorldInv, RestoreInv
  <2>4. ObjectInv'
    BY <1>1, <1>2, <1>3 DEF Inv, WorldInv, ObjectInv
  <2> QED
    BY <2>1, <2>2, <2>3, <2>4 DEF WorldInv
<1>5. SyncAt(pc)'
  <2>1. k \notin Serving /\ k \notin RemovingRestores /\ k # "finalizer" /\ pc # "idle" /\ pc # "update"
    BY DEF RemovingObjects, RemovingRestores, Serving
  <2> QED
    BY <1>1, <1>2, <2>1 DEF Inv, At, SyncAt
<1>6. StageAt(pc)' /\ ChoiceAt(pc)'
  BY RemovingPlaces
<1>7. LifeStep
  <2>1. lives = "restores removed"
    BY <1>1, LivesValues DEF Inv
  <2>2. served' = {}
    BY DEF served
  <2>3. UNCHANGED <<stage, lives, chosen, restored>>
    BY <1>2 DEF lives, chosen, restored
  <2> QED
    BY <2>1, <2>2, <2>3, StopServingStep DEF Inv
<1> QED
  BY <1>4, <1>5, <1>6, <1>7 DEF Core, At

LEMMA ResourceCleanupCore ==
  ASSUME Inv, TypeInv', handleResourceCleanup
  PROVE  Core' /\ LifeStep
<1>1. /\ pc = "cleanup" /\ pc \in RemovingObjects
      /\ {"drop finalizer", "delete pods"} \subseteq RemovingObjects
      /\ mem.createdNamespace = server.createdNamespace
  BY DEF handleResourceCleanup, Inv, At, SyncAt, RemovingObjects
<1>2. ASSUME NEW k \in RemovingObjects PROVE SyncAt(k)
  BY <1>1, RemovingPlaces DEF Inv, At, SyncAt, RemovingObjects, RemovingRestores
<1>3. CASE /\ ~mem.createdNamespace \/ ~namespace
           /\ Goto("drop finalizer") /\ UNCHANGED world
  <2>1. objs = {}
    BY <1>1, <1>3 DEF Inv, WorldInv, ObjectInv
  <2>2. WorldAt("drop finalizer")
    BY <2>1 DEF WorldAt, RemovingObjects
  <2> QED
    BY <1>1, <1>2, <1>3, <2>2, GotoCore, RemovingPlaces DEF At
<1>4. CASE /\ spec.target = "temporary"
           /\ namespace' = FALSE /\ objs' = {} /\ mounts' = {}
           /\ restores' = [i \in 1..Len(restores) |-> [restores[i] EXCEPT !.claim = "none"]]
           /\ Goto("drop finalizer")
           /\ UNCHANGED <<spec, vmbd, listed>>
  <2>1. WorldAt("drop finalizer")'
    BY <1>4 DEF WorldAt, RemovingObjects
  <2>2. Len(restores') = Len(restores)
    <3>1. Len(restores) \in Nat
      BY DEF Inv, TypeInv, RestoresPart
    <3>2. restores' = [i \in 1..Len(restores) |-> [restores[i] EXCEPT !.claim = "none"]]
      BY <1>4
    <3>3. \A n \in Nat : \A s : s = [i \in 1..n |-> [restores[i] EXCEPT !.claim = "none"]] => Len(s) = n
      OBVIOUS
    <3> QED
      BY <3>1, <3>2, <3>3
  <2>3. \A i \in 1..Len(restores) : /\ restores'[i].backup = restores[i].backup
                                    /\ restores'[i].exists = restores[i].exists
    <3>1. ASSUME NEW i \in 1..Len(restores)
          PROVE  /\ restores'[i].backup = restores[i].backup
                 /\ restores'[i].exists = restores[i].exists
      <4>1. restores[i] \in VeleroRestore
        BY RestoreTypes DEF Inv
      <4>2. restores'[i] = [restores[i] EXCEPT !.claim = "none"]
        BY <1>4
      <4> QED
        BY <4>1, <4>2 DEF VeleroRestore
    <3> QED
      BY <3>1
  <2>4. (restores = <<>> => restores' = <<>>) /\ BackupsOf(restores') = BackupsOf(restores)
    BY <2>2, <2>3, ShrinkOfFields DEF Inv
  <2>5. Existing(restores') = Existing(restores)
    BY <2>2, <2>3 DEF Existing
  <2> QED
    BY <1>1, <1>4, <2>1, <2>2, <2>4, <2>5, CleanupCore DEF Goto
<1>5. CASE Goto("delete pods") /\ UNCHANGED world
  <2>1. WorldAt("delete pods")
    BY DEF WorldAt, RemovingObjects
  <2> QED
    BY <1>1, <1>2, <1>5, <2>1, GotoCore, RemovingPlaces DEF At
<1> QED
  BY <1>3, <1>4, <1>5 DEF handleResourceCleanup

\* Objects are deleted one kind after the other, the pod first.
LEMMA DeleteObjectsCore ==
  ASSUME Inv, TypeInv', NEW at \in RemovingObjects, NEW gone, NEW k \in RemovingObjects,
         DeleteObjects(at, gone, k), "pod" \in gone \/ "pod" \notin objs, WorldAt(k)'
  PROVE  Core' /\ LifeStep
<1>1. /\ pc = at /\ objs' = objs \ gone /\ mounts' = IF "pod" \in gone THEN {} ELSE mounts
      /\ Goto(k) /\ UNCHANGED <<spec, restores, namespace>>
  BY DEF DeleteObjects
<1>2. mounts' = {}
  BY <1>1 DEF Inv, WorldInv, ObjectInv
<1>3. (objs' # {} => namespace') /\ (spec.target = "existing" => namespace')
  BY <1>1 DEF Inv, WorldInv, ObjectInv
<1> QED
  BY <1>1, <1>2, <1>3, CleanupCore DEF Goto

LEMMA DeletesCore ==
  ASSUME Inv, TypeInv',
         \/ deleteFileServerPods \/ deleteFileServerServices \/ deleteFileServerRoutes
         \/ deleteControllerSecrets \/ deleteFileServerAccess
  PROVE  Core' /\ LifeStep
<1>1. {"delete pods", "delete services", "delete routes", "delete claims", "delete secrets",
       "delete access", "drop finalizer"} \subseteq RemovingObjects
  BY DEF RemovingObjects
<1>2. CASE deleteFileServerPods
  <2>1. objs' = objs \ {"pod"}
    BY <1>2 DEF deleteFileServerPods, DeleteObjects
  <2>2. WorldAt("delete services")'
    BY <2>1 DEF WorldAt, RemovingObjects
  <2> QED
    BY <1>1, <1>2, <2>2, DeleteObjectsCore DEF deleteFileServerPods
<1>3. CASE deleteFileServerServices
  <2>1. pc = "delete services" /\ objs' = objs \ {"service"}
    BY <1>3 DEF deleteFileServerServices, DeleteObjects
  <2>2. "pod" \notin objs
    BY <1>1, <2>1 DEF Inv, At, WorldAt
  <2>3. WorldAt("delete routes")'
    BY <2>1, <2>2 DEF WorldAt, RemovingObjects
  <2> QED
    BY <1>1, <1>3, <2>2, <2>3, DeleteObjectsCore DEF deleteFileServerServices
<1>4. CASE deleteFileServerRoutes
  <2>1. pc = "delete routes" /\ objs' = objs \ {"route", "route host"}
    BY <1>4 DEF deleteFileServerRoutes, DeleteObjects
  <2>2. "pod" \notin objs /\ "service" \notin objs
    BY <1>1, <2>1 DEF Inv, At, WorldAt
  <2>3. WorldAt("delete claims")'
    BY <2>1, <2>2 DEF WorldAt, RemovingObjects
  <2> QED
    BY <1>1, <1>4, <2>2, <2>3, DeleteObjectsCore DEF deleteFileServerRoutes
<1>5. CASE deleteControllerSecrets
  <2>1. pc = "delete secrets" /\ objs' = objs \ {"secrets"}
    BY <1>5 DEF deleteControllerSecrets, DeleteObjects
  <2>2. "pod" \notin objs /\ "service" \notin objs
    BY <1>1, <2>1 DEF Inv, At, WorldAt
  <2>3. WorldAt("delete access")'
    BY <2>1, <2>2 DEF WorldAt, RemovingObjects
  <2> QED
    BY <1>1, <1>5, <2>2, <2>3, DeleteObjectsCore DEF deleteControllerSecrets
<1>6. CASE deleteFileServerAccess
  <2>1. pc = "delete access" /\ objs' = objs \ {"serviceaccount", "rolebinding"}
    BY <1>6 DEF deleteFileServerAccess, DeleteObjects
  <2>2. "pod" \notin objs /\ "service" \notin objs /\ "secrets" \notin objs
    BY <1>1, <2>1 DEF Inv, At, WorldAt
  <2>3. WorldAt("drop finalizer")'
    BY <2>1, <2>2 DEF WorldAt, RemovingObjects, AccessObjects
  <2> QED
    BY <1>1, <1>6, <2>2, <2>3, DeleteObjectsCore DEF deleteFileServerAccess
<1> QED
  BY <1>2, <1>3, <1>4, <1>5, <1>6

LEMMA DeleteClaimsCore ==
  ASSUME Inv, TypeInv', deleteRestoredPVCs
  PROVE  Core' /\ LifeStep
<1>1. /\ pc = "delete claims" /\ pc \in RemovingObjects /\ "delete secrets" \in RemovingObjects
      /\ "pod" \notin objs /\ "service" \notin objs
  BY DEF deleteRestoredPVCs, Inv, At, WorldAt, RemovingObjects
<1>2. CASE Goto("delete secrets") /\ UNCHANGED world
  <2>1. SyncAt("delete secrets")
    BY <1>1, RemovingPlaces DEF Inv, At, SyncAt, RemovingObjects, RemovingRestores
  <2>2. WorldAt("delete secrets")
    BY <1>1 DEF WorldAt, RemovingObjects
  <2> QED
    BY <1>1, <1>2, <2>1, <2>2, GotoCore, RemovingPlaces DEF At
<1>3. ASSUME NEW i \in Recorded(mem), restores' = [restores EXCEPT ![i].claim = "none"],
             UNCHANGED <<log, spec, vmbd, listed, namespace, objs, mounts, queued, faults, worker>>
      PROVE  Core' /\ LifeStep
  <2>1. UNCHANGED <<log, spec, namespace, objs, mounts, pc, mem, todo, seen, fresh>>
    BY <1>3 DEF worker
  <2>2. i \in 1..Len(restores)
    BY <1>3, RecordedType DEF Inv, TypeInv
  <2>3. restores[i] \in VeleroRestore
    BY <2>2, RestoreTypes DEF Inv
  <2>4. PICK r : r = [restores[i] EXCEPT !.claim = "none"]
    OBVIOUS
  <2>5. restores' = [restores EXCEPT ![i] = r]
    BY <1>3, <2>2, <2>4, RestoreFieldStep DEF Inv
  <2>6. r.backup = restores[i].backup /\ r.exists = restores[i].exists
    BY <2>3, <2>4 DEF VeleroRestore
  <2>7. restores \in Seq(VeleroRestore)
    BY DEF Inv, TypeInv, RestoresPart
  <2>8. /\ Len(restores') = Len(restores) /\ restores'[i] = r
        /\ \A j \in 1..Len(restores) : j # i => restores'[j] = restores[j]
    BY <2>2, <2>5, <2>7
  <2>9. \A j \in 1..Len(restores) : /\ restores'[j].backup = restores[j].backup
                                    /\ restores'[j].exists = restores[j].exists
    BY <2>6, <2>8
  <2>10. (restores = <<>> => restores' = <<>>) /\ BackupsOf(restores') = BackupsOf(restores)
    BY <2>8, <2>9, ShrinkOfFields DEF Inv
  <2>11. Existing(restores') = Existing(restores)
    BY <2>8, <2>9 DEF Existing
  <2>12. WorldAt(pc)'
    BY <1>1, <2>1 DEF WorldAt, RemovingObjects
  <2>13. mounts' = {} /\ (objs' # {} => namespace') /\ (spec.target = "existing" => namespace')
    BY <1>1, <2>1 DEF Inv, WorldInv, ObjectInv
  <2> QED
    BY <1>1, <2>1, <2>8, <2>10, <2>11, <2>12, <2>13, CleanupCore
<1> QED
  BY <1>2, <1>3 DEF deleteRestoredPVCs

-----------------------------------------------------------------------------
(***************************************************************************)
(* Failing calls, crashes, and the world outside.                          *)
(***************************************************************************)
LEMMA FaultCore ==
  ASSUME Inv, TypeInv', ApiError \/ Crash \/ NotFound
  PROVE  Core' /\ LifeStep
<1>1. CASE NotFound
  BY <1>1, ReturnCore DEF NotFound
<1>2. CASE Crash
  <2>1. log' = <<server>> /\ pc' = "idle" /\ UNCHANGED <<spec, restores, namespace, objs, mounts>>
    BY <1>2 DEF Crash
  <2>2. server' = server
    <3>1. server' = log'[Len(log')]
      BY DEF server
    <3> QED
      BY <2>1, <3>1
  <2> QED
    BY <2>1, <2>2, RestoresKept, EndCore
<1>3. CASE ApiError
  <2>1. UNCHANGED <<log, world>>
    BY <1>3 DEF ApiError
  <2>2. server' = server /\ restores' = restores /\ UNCHANGED <<spec, namespace, objs, mounts>>
    BY <2>1 DEF world, server
  <2>3. CASE EndReconcile(TRUE)
    BY <2>2, <2>3, RestoresKept, EndCore DEF EndReconcile
  <2>4. ASSUME NEW k, At(k), k \in Serving => pc \in Serving, pc' = k,
               UNCHANGED <<queued, mem, todo, seen, fresh>>
        PROVE  Core' /\ LifeStep
    <3>1. Untouched' => Untouched
      BY <2>2, <2>4 DEF Untouched
    <3>2. WorldInv' /\ LifeStep
      BY <2>2, <3>1, RestoresKept, WorldFrame, KeptStep DEF Inv
    <3>3. At(pc)'
      BY <2>2, <2>4, RestoresKept, AtFrame
    <3> QED
      BY <3>2, <3>3 DEF Core
  <2>5. CASE pc \in FailsValidation /\ pc' = "fail" /\ UNCHANGED <<queued, mem, todo, seen, fresh>>
    <3>1. pc \in {"discovery", "discover", "classify", "namespace", "record namespace",
                  "serviceaccount", "rolebinding", "restores", "create", "names", "judge",
                  "credentials", "secrets", "file server", "pod", "service"}
      BY <2>5 DEF FailsValidation
    <3>2. At("fail") /\ pc \in Serving
      BY <3>1, FailAt DEF Inv
    <3> QED
      BY <2>4, <2>5, <3>2
  <2>6. CASE /\ pc = "fix" /\ "inProgress" \notin seen /\ pc' = "judge"
             /\ UNCHANGED <<queued, mem, todo, seen, fresh>>
    <3>1. pc \in Serving \ {"finalizer", "update"} /\ "judge" \in Serving \ {"finalizer"}
      BY <2>6 DEF Serving
    <3>2. SyncAt("judge")
      BY <3>1, SyncServing DEF Inv, At
    <3>3. StageAt("judge") /\ ChoiceAt("judge") /\ WorldAt("judge")
      BY <2>6 DEF Inv, At, StageAt, ChoiceAt, WorldAt, RemovingObjects
    <3> QED
      BY <2>4, <2>6, <3>1, <3>2, <3>3 DEF At
  <2>7. CASE pc = "route" /\ pc' = "publish" /\ UNCHANGED <<queued, mem, todo, seen, fresh>>
    <3>1. pc \in Serving \ {"finalizer", "update"} /\ "publish" \in Serving \ {"finalizer"}
      BY <2>7 DEF Serving
    <3>2. SyncAt("publish")
      BY <3>1, SyncServing DEF Inv, At
    <3>3. StageAt("publish") /\ ChoiceAt("publish") /\ WorldAt("publish")
      BY <2>7 DEF Inv, At, StageAt, ChoiceAt, WorldAt, RemovingObjects
    <3> QED
      BY <2>4, <2>7, <3>1, <3>2, <3>3 DEF At
  <2>8. CASE /\ pc = "delete routes" /\ pc' = "delete claims"
             /\ UNCHANGED <<queued, mem, todo, seen, fresh>>
    <3>1. pc \in RemovingObjects /\ "delete claims" \in RemovingObjects
      BY <2>8 DEF RemovingObjects
    <3>2. SyncAt("delete claims")
      BY <2>8, <3>1, RemovingPlaces DEF Inv, At, SyncAt, RemovingObjects, RemovingRestores
    <3>3. WorldAt("delete claims")
      BY <2>8 DEF Inv, At, WorldAt, RemovingObjects
    <3> QED
      BY <2>4, <2>8, <3>1, <3>2, <3>3, RemovingPlaces DEF At
  <2> QED
    BY <1>3, <2>3, <2>5, <2>6, <2>7, <2>8 DEF ApiError
<1> QED
  BY <1>1, <1>2, <1>3

\* Velero or the router moves while the worker stands where it is.
LEMMA OutsideCore ==
  ASSUME Inv, TypeInv', server' = server, RestoresFrame,
         UNCHANGED <<spec, namespace, mounts, pc, mem, todo, seen, fresh>>,
         objs \subseteq objs', objs' \subseteq objs \cup {"route host"},
         "route" \notin objs => objs' = objs
  PROVE  Core' /\ LifeStep
<1>1. Untouched' = Untouched /\ stage' = stage
  BY DEF Untouched, stage
<1>2. WorldInv'
  <2>1. FinalizerInv' /\ ReasonInv' /\ PublicInv'
    BY <1>1 DEF Inv, WorldInv, FinalizerInv, ReasonInv, PublicInv
  <2>2. Claims(stage)'
    BY <1>1 DEF Inv, WorldInv, Claims, RestoresFrame
  <2>3. RestoreInv'
    BY <1>1 DEF Inv, WorldInv, RestoreInv, RestoresFrame
  <2>4. ObjectInv'
    BY <1>1 DEF Inv, WorldInv, ObjectInv, RestoresFrame
  <2> QED
    BY <2>1, <2>2, <2>3, <2>4 DEF WorldInv
<1>3. At(pc)'
  BY AtFrame DEF Inv
<1>4. LifeStep
  BY KeptStep DEF Inv
<1> QED
  BY <1>2, <1>3, <1>4 DEF Core

LEMMA VeleroCore ==
  ASSUME Inv, TypeInv', NEW i, VeleroAdvances(i) \/ ClaimAppears(i) \/ ClaimLost(i)
  PROVE  Core' /\ LifeStep
<1>1. ASSUME i \in 1..Len(restores), NEW r, r.backup = restores[i].backup,
             r.exists = restores[i].exists, restores[i].claim # "none" => r.claim # "none",
             SetRestore(i, r)
      PROVE  Core' /\ LifeStep
  <2>1. /\ restores' = [restores EXCEPT ![i] = r] /\ server' = server
        /\ UNCHANGED <<spec, namespace, objs, mounts, pc, mem, todo, seen, fresh>>
    BY <1>1 DEF SetRestore, worker, server
  <2>2. restores \in Seq(VeleroRestore)
    BY DEF Inv, TypeInv, RestoresPart
  <2>3. /\ Len(restores') = Len(restores) /\ restores'[i] = r
        /\ \A j \in 1..Len(restores) : j # i => restores'[j] = restores[j]
    BY <1>1, <2>1, <2>2
  <2>4. RestoresFrame
    BY <1>1, <2>3, FrameOfFields DEF Inv
  <2> QED
    BY <2>1, <2>4, OutsideCore
<1>2. i \in 1..Len(restores)
  BY DEF VeleroAdvances, ClaimAppears, ClaimLost
<1>3. restores[i] \in VeleroRestore
  BY <1>2, RestoreTypes DEF Inv
<1>4. CASE VeleroAdvances(i)
  <2>1. PICK p : SetRestore(i, [restores[i] EXCEPT !.phase = p])
    BY <1>4 DEF VeleroAdvances
  <2>2. PICK r : r = [restores[i] EXCEPT !.phase = p]
    OBVIOUS
  <2>3. /\ r.backup = restores[i].backup /\ r.exists = restores[i].exists
        /\ r.claim = restores[i].claim
    BY <1>3, <2>2 DEF VeleroRestore
  <2> QED
    BY <1>1, <1>2, <2>1, <2>2, <2>3
<1>5. CASE ClaimAppears(i)
  <2>1. PICK d : SetRestore(i, [restores[i] EXCEPT !.claim = "Pending", !.download = d])
    BY <1>5 DEF ClaimAppears
  <2>2. PICK r : r = [restores[i] EXCEPT !.claim = "Pending", !.download = d]
    OBVIOUS
  <2>3. /\ r.backup = restores[i].backup /\ r.exists = restores[i].exists
        /\ r.claim # "none"
    BY <1>3, <2>2 DEF VeleroRestore
  <2> QED
    BY <1>1, <1>2, <2>1, <2>2, <2>3
<1>6. CASE ClaimLost(i)
  <2>1. SetRestore(i, [restores[i] EXCEPT !.claim = "Lost"])
    BY <1>6 DEF ClaimLost
  <2>2. PICK r : r = [restores[i] EXCEPT !.claim = "Lost"]
    OBVIOUS
  <2>3. /\ r.backup = restores[i].backup /\ r.exists = restores[i].exists
        /\ r.claim # "none"
    BY <1>3, <2>2 DEF VeleroRestore
  <2> QED
    BY <1>1, <1>2, <2>1, <2>2, <2>3
<1> QED
  BY <1>4, <1>5, <1>6

\* The user deletes the VMFR, at any moment: a reconcile that runs keeps its copy.
LEMMA UserDeletesCore ==
  ASSUME Inv, TypeInv', UserDeletes
  PROVE  Core' /\ LifeStep
<1>1. /\ server.exists /\ ~server.deleting /\ fresh' = FALSE
      /\ UNCHANGED <<spec, restores, namespace, objs, mounts, pc, mem, todo, seen>>
  BY DEF UserDeletes, world
<1>2. PICK o : o = [server EXCEPT !.deleting = TRUE]
  OBVIOUS
<1>3. server' = Stored(o)
  <2>1. log' = Append(log, Stored(o)) /\ log \in Seq(Resource)
    BY <1>2 DEF UserDeletes, Inv, TypeInv, LogPart
  <2>2. log'[Len(log')] = Stored(o)
    BY <2>1
  <2> QED
    BY <2>2 DEF server
<1>4. server \in Resource
  BY ServerFields DEF Inv
<1>5. /\ o.exists = server.exists /\ o.deleting = TRUE /\ o.finalizers = server.finalizers
      /\ o.phase = server.phase /\ o.cond = server.cond
      /\ o.createdNamespace = server.createdNamespace /\ o.entries = server.entries
      /\ o.info = server.info /\ o \in Resource
  BY <1>2, <1>4 DEF Resource
<1>6. /\ server'.deleting = TRUE /\ server'.finalizers = server.finalizers
      /\ server'.phase = server.phase /\ server'.cond = server.cond
      /\ server'.createdNamespace = server.createdNamespace /\ server'.entries = server.entries
      /\ server'.info = server.info
  BY <1>3, <1>5, StoredType
<1>7. /\ server.finalizers # {} => server'.exists = server.exists
      /\ server.finalizers = {} => server'.exists = FALSE
  <2>1. CASE server.finalizers # {}
    BY <1>3, <1>5, <2>1 DEF Stored
  <2>2. CASE server.finalizers = {}
    <3>1. Stored(o) = [o EXCEPT !.exists = FALSE]
      BY <1>5, <2>2 DEF Stored
    <3> QED
      BY <1>3, <1>5, <2>2, <3>1 DEF Resource
  <2> QED
    BY <2>1, <2>2
<1>8. server.finalizers \in {{}, Finalizers} /\ (server.finalizers = {} => server.phase = "")
  BY <1>1 DEF Inv, WorldInv, FinalizerInv
<1>9. Untouched /\ (Untouched' => pc \in Serving)
  BY <1>1, <1>6 DEF Untouched
<1>10. stage' = stage
  <2>1. \A x, p : x.phase = p.phase /\ x.cond = p.cond => LifeStage(x) = LifeStage(p)
    BY DEF LifeStage
  <2> QED
    BY <1>6, <2>1 DEF stage
<1>11. server.finalizers = {} => stage = "created" /\ objs = {}
  <2>1. ASSUME server.finalizers = {} PROVE stage = "created" /\ objs = {}
    <3>1. stage = "created"
      BY <1>8, <2>1, StageValues DEF stage
    <3>2. ~server.createdNamespace
      BY <3>1 DEF Inv, WorldInv, Claims
    <3> QED
      BY <3>1, <3>2 DEF Inv, WorldInv, ObjectInv
  <2> QED
    BY <2>1
<1>12. restores = <<>> => Existing(restores) = {}
  BY DEF Existing
<1>13. WorldInv'
  <2>1. FinalizerInv'
    BY <1>1, <1>6, <1>7, <1>8 DEF FinalizerInv, Finalizers
  <2>2. ReasonInv' /\ PublicInv'
    BY <1>1, <1>6, <1>10 DEF Inv, WorldInv, ReasonInv, PublicInv
  <2>3. Claims(stage)'
    BY <1>1, <1>6, <1>9, <1>10 DEF Inv, WorldInv, Claims
  <2>4. "velero-restore-cleanup" \notin server.finalizers => Existing(restores) = {}
    <3>1. ASSUME "velero-restore-cleanup" \notin server.finalizers PROVE Existing(restores) = {}
      <4>1. server.finalizers = {}
        BY <1>8, <3>1 DEF Finalizers
      <4>2. restores = <<>>
        BY <1>11, <4>1 DEF Inv, WorldInv, Claims, UpToValidated
      <4> QED
        BY <1>12, <4>2
    <3> QED
      BY <3>1
  <2>5. RestoreInv'
    BY <1>1, <1>6, <1>9, <2>4 DEF Inv, WorldInv, RestoreInv
  <2>6. ObjectInv'
    BY <1>1, <1>6, <1>7, <1>9, <1>11 DEF Inv, WorldInv, ObjectInv
  <2> QED
    BY <2>1, <2>2, <2>3, <2>5, <2>6 DEF WorldInv
<1>14. At(pc)'
  <2>1. pc \notin RemovingRestores \cup RemovingObjects
    BY <1>1 DEF Inv, At, SyncAt
  <2>2. pc \in Serving \ {"finalizer"} => server.finalizers # {}
    BY DEF Inv, At, SyncAt, Finalizers
  <2>3. SyncAt(pc)'
    BY <1>1, <1>6, <1>7, <2>1, <2>2 DEF Inv, At, SyncAt
  <2>4. StageAt(pc)'
    BY <1>1, <1>10 DEF Inv, At, StageAt
  <2>5. ChoiceAt(pc)'
    BY <1>1, <1>6 DEF Inv, At, ChoiceAt
  <2>6. PVCMounts(mem)' = PVCMounts(mem)
    BY <1>1 DEF PVCMounts, Available
  <2>7. WorldAt(pc)'
    BY <1>1, <1>6, <2>1, <2>6 DEF Inv, At, WorldAt
  <2> QED
    BY <2>3, <2>4, <2>5, <2>7 DEF At
<1>15. LifeStep
  <2>1. lives = "live"
    BY <1>1, LivesValues DEF Inv
  <2>2. lives' = "deleting" \/ (stage = "created" /\ lives' = "gone")
    <3>1. CASE server.finalizers = {}
      <4>1. ~server'.exists
        BY <1>7, <3>1
      <4> QED
        BY <1>11, <3>1, <4>1 DEF lives, Life
    <3>2. CASE server.finalizers # {}
      <4>1. server'.exists /\ server'.deleting
        BY <1>1, <1>6, <1>7, <3>2, Zenon
      <4>2. "velero-restore-cleanup" \in server'.finalizers
        BY <1>6, <1>8, <3>2 DEF Finalizers
      <4>3. \A x : x.exists /\ x.deleting /\ "velero-restore-cleanup" \in x.finalizers =>
                     Life(x) = "deleting"
        BY DEF Life
      <4> QED
        BY <4>1, <4>2, <4>3 DEF lives
    <3> QED
      BY <3>1, <3>2
  <2>3. UNCHANGED <<stage, chosen, restored, served>>
    BY <1>1, <1>6, <1>10 DEF chosen, restored, served
  <2> QED
    BY <2>1, <2>2, <2>3, DeleteStep DEF Inv
<1> QED
  BY <1>13, <1>14, <1>15 DEF Core

LEMMA EnvironmentCore ==
  ASSUME StaleReads = FALSE, Inv, TypeInv', Environment
  PROVE  Core' /\ LifeStep
<1>1. CASE ApiError \/ Crash
  BY <1>1, FaultCore
<1>2. CASE \E i \in 1..MaxRestores : VeleroAdvances(i) \/ ClaimAppears(i) \/ ClaimLost(i)
  BY <1>2, VeleroCore
<1>3. CASE DiscoveryAdvances \/ DiscoveryDeleted
  <2>1. UNCHANGED <<log, spec, restores, namespace, objs, mounts, pc, mem, todo, seen, fresh>>
    BY <1>3 DEF DiscoveryAdvances, DiscoveryDeleted, worker
  <2>2. server' = server
    BY <2>1 DEF server
  <2> QED
    BY <2>1, <2>2, RestoresKept, OutsideCore
<1>4. CASE RouteAdmitted
  <2>1. /\ "route" \in objs /\ objs' = objs \cup {"route host"}
        /\ UNCHANGED <<log, spec, restores, namespace, mounts, pc, mem, todo, seen, fresh>>
    BY <1>4 DEF RouteAdmitted, worker
  <2>2. server' = server
    BY <2>1 DEF server
  <2> QED
    BY <2>1, <2>2, RestoresKept, OutsideCore
<1>5. CASE UserDeletes
  BY <1>5, UserDeletesCore
<1>6. CASE InformerDelivers
  <2>1. /\ Len(log) > 1 /\ log' = Tail(log)
        /\ UNCHANGED <<spec, restores, namespace, objs, mounts, pc, mem, todo, seen, fresh>>
    BY <1>6 DEF InformerDelivers, world, worker
  <2>2. log \in Seq(Resource)
    BY DEF Inv, TypeInv, LogPart
  <2>3. Tail(log)[Len(Tail(log))] = log[Len(log)]
    BY <2>1, <2>2
  <2>4. server' = server
    BY <2>1, <2>3 DEF server
  <2> QED
    BY <2>1, <2>4, RestoresKept, OutsideCore
<1>7. CASE RestoresDelivered
  BY <1>7 DEF RestoresDelivered
<1> QED
  BY <1>1, <1>2, <1>3, <1>4, <1>5, <1>6, <1>7 DEF Environment

-----------------------------------------------------------------------------
(***************************************************************************)
(* The invariant is inductive, and every step is one of RestoreLifecycle.  *)
(***************************************************************************)
LEMMA StepCore ==
  ASSUME StaleReads = FALSE, Inv, [Next]_vars
  PROVE  Inv' /\ LifeStep
<1>1. TypeInv'
  BY TypeNext DEF Inv
<1>2. Core' /\ LifeStep
  <2>1. CASE Reconcile
    BY <1>1, <2>1, ReconcileCore
  <2>2. CASE Validation
    BY <1>1, <2>2, FinalizerCore, InitializeCore, FailCore, StartValidationCore, DiscoveryCore,
       DiscoveredCore, ClassifyCore DEF Validation
  <2>3. CASE Workflow
    BY <1>1, <2>3, NamespaceCore, RecordNamespaceCore, AccessCore, NamespaceReadyCore,
       PrepareRestoresCore, CreateRestoreCore, RecordNamesCore, WaitCore, MonitorCore, UpdateCore,
       FixCore, JudgeCore, CleanSecretsCore, SecretsCore, CredentialsReadyCore,
       PrepareFileServerCore, PodCore, ServiceCore, RouteCore, PublishFileServerCore,
       WaitingForRouteCore DEF Workflow
  <2>4. CASE Deletion
    BY <1>1, <2>4, RestoreCleanupCore, DropRestoreFinalizerCore, ResourceCleanupCore, DeletesCore,
       DeleteClaimsCore, DropFinalizerCore DEF Deletion
  <2>5. CASE NotFound
    BY <1>1, <2>5, FaultCore
  <2>6. CASE Environment
    BY <1>1, <2>6, EnvironmentCore
  <2>7. CASE UNCHANGED vars
    <3>1. /\ server' = server /\ restores' = restores
          /\ UNCHANGED <<spec, namespace, objs, mounts, pc, mem, todo, seen, fresh>>
      BY <2>7 DEF vars, world, worker, server
    <3> QED
      BY <1>1, <3>1, RestoresKept, OutsideCore
  <2> QED
    BY <2>1, <2>2, <2>3, <2>4, <2>5, <2>6, <2>7 DEF Next, Controller
<1> QED
  BY <1>1, <1>2 DEF Inv, Core
=============================================================================

----------------------------- MODULE ServedClaims -----------------------------
(***************************************************************************)
(* The way of a VM's claims through a VirtualMachineFileRestore: from the  *)
(* contents of the backups, read by one goroutine per backup, through the  *)
(* status, in which they are regrouped by claim, and the Velero Restores,  *)
(* in which they are regrouped by backup, to the file server's volumes and *)
(* the directories its users see.  FileRestore has the phases, faults and  *)
(* retries of the same workflow; here nothing fails but what is wrong with *)
(* the backups, the spec or the guest disks.                               *)
(***************************************************************************)
EXTENDS FileServerPod

CONSTANTS
  Backups,   \* the backups, numbered in the order they were completed
  Date,      \* the day of each backup
  Claims,    \* the claims the VM ever had: their name and volume mode, by UID
  Contents,  \* what the backups may hold
  Specs      \* what the user may ask for

UIDs == DOMAIN Claims

(***************************************************************************)
(* A backup: whether its object can be read, the list of its resources,    *)
(* the archive of their manifests, the claims the VM in the archive refers *)
(* to, those whose manifest is missing, and those without the UID label of *)
(* the kubevirt plugin.                                                    *)
(***************************************************************************)
BackupContents ==
  [crd: {"kept", "deleted", "incomplete", "deleted while read"},
   list: {"with the VM", "without the VM", "unavailable"},
   tar: {"readable", "absent", "corrupt"}, hasVM: BOOLEAN,
   claims: SUBSET UIDs, lost: SUBSET UIDs, unlabelled: SUBSET UIDs]

\* No methods: a spec without fileAccess, which has nothing to expose either.
RestoreSpec ==
  {s \in [selected: Seq(Backups), methods: SUBSET Methods, expose: BOOLEAN, nameLength: Nat] :
     s.methods = {} => ~s.expose}

ASSUME ConstantsAssumption ==
  /\ Backups \subseteq Nat /\ IsFiniteSet(UIDs)
  /\ DOMAIN Date = Backups
  /\ \A u \in UIDs : Claims[u].mode \in {"Block", "Filesystem"}
  /\ Contents \subseteq BackupContents
  /\ \A s \in Specs : s \in RestoreSpec /\ s.selected # <<>>
  \* A VM cannot refer to two claims by one name.
  /\ \A c \in Contents : \A u, w \in c.claims : Claims[u].name = Claims[w].name => u = w

VARIABLES
  contents,     \* what each backup holds
  spec,         \* the file restore's spec
  phase,        \* how far the workflow is
  reading,      \* positions in the selection whose goroutine has not answered
  results,      \* the results in the order they came through the channel
  pvcRestores,  \* status.pvcRestores: per claim, the backups that hold it
  failures,     \* status.pvcRestores: the entries that stand for a whole backup
  restores,     \* the Velero Restores: per backup, the UIDs it selects
  restored,     \* the claims Velero made in the restore namespace
  pod,          \* the file server pod, if any
  serving,      \* status.fileServingInfo
  broken,       \* restored claims whose disk cannot be mounted
  guests        \* what the main container has mounted

input == <<contents, spec>>
status == <<pvcRestores, failures>>
vars == <<input, phase, reading, results, status, restores, restored, pod, serving,
          broken, guests>>

Phases == {"reading", "read", "validated", "restoring", "restored", "starting", "served",
           "Failed", "PartiallyFailed"}
Reasons == {"none", "BackupNotFound", "BackupFilesMissing", "UnsupportedBackupFormat",
            "ExtractionFailed"}
States == {"available", "backup-deleted", "backup-missing", "unsupported-plugin",
           "extraction-failed"}

None == <<>>
Selected == ToSet(spec.selected)

\* The one type invariant of the module.
TypeOK ==
  /\ contents \in [Backups -> Contents] /\ spec \in Specs
  /\ phase \in Phases
  /\ reading \subseteq DOMAIN spec.selected
  /\ Len(results) + Cardinality(reading) = Len(spec.selected)
  /\ \A r \in ToSet(results) :
       r \in [backup: Backups, reason: Reasons, claims: SUBSET UIDs]
  /\ DOMAIN pvcRestores \subseteq UIDs
  /\ \A u \in DOMAIN pvcRestores : \A e \in ToSet(pvcRestores[u]) :
       e \in [backup: Selected, state: States]
  /\ DOMAIN failures \subseteq Selected
  /\ \A b \in DOMAIN failures : failures[b] \in States \ {"available"}
  /\ DOMAIN restores \subseteq Selected /\ \A b \in DOMAIN restores : restores[b] \subseteq UIDs
  /\ \A c \in restored : c.restore \in Selected /\ c.data \in Selected \X UIDs
  /\ pod # None => DOMAIN pod.containers = spec.methods \cup {"main"}
  /\ broken \subseteq {c.uid : c \in restored}

-----------------------------------------------------------------------------
(***************************************************************************)
(* Reading one backup.  What the archive lacks is reported as not found.   *)
(***************************************************************************)
downloadVMResource(c) ==
  CASE c.tar = "absent" -> "not found"
    [] c.tar = "corrupt" -> "error"
    [] c.tar = "readable" -> IF c.hasVM THEN "VM" ELSE "not found"

\* Without the list of resources the archive decides alone.
ExtractVMFromBackupMetadata(c) ==
  IF c.list = "without the VM" THEN "not found" ELSE downloadVMResource(c)

Failure(reason) == [reason |-> reason, claims |-> {}]

\* FetchPVCFromBackup and the checks of the claim's labels.
ClaimProblem(c, u) ==
  CASE u \in c.lost -> Failure("BackupFilesMissing")
    [] u \in c.unlabelled -> [reason |-> "UnsupportedBackupFormat", claims |-> {u}]
    [] OTHER -> Failure("none")

\* The claims are visited in the order of a Go map; the first problem is reported.
extractPVCsForGivenVMFromBackup(c) ==
  LET vm == ExtractVMFromBackupMetadata(c)
      problems == {ClaimProblem(c, u) : u \in c.claims} \ {Failure("none")}
  IN CASE c.crd = "deleted while read" \/ vm = "error" -> {Failure("ExtractionFailed")}
       [] c.crd # "deleted while read" /\ vm = "not found" -> {Failure("BackupFilesMissing")}
       [] OTHER -> IF problems # {} THEN problems
                   ELSE {[reason |-> "none", claims |-> c.claims]}

getBackupMetadata(c) == c.crd \notin {"deleted", "incomplete"}

\* What the goroutine of a backup may send.
PossibleResults(c) ==
  IF getBackupMetadata(c) THEN extractPVCsForGivenVMFromBackup(c) ELSE {Failure("BackupNotFound")}

discoverPVCsFromSingleBackup(i) ==
  /\ phase = "reading" /\ i \in reading
  /\ \E r \in PossibleResults(contents[spec.selected[i]]) :
       results' = Append(results, [backup |-> spec.selected[i], reason |-> r.reason,
                                   claims |-> r.claims])
  /\ reading' = reading \ {i}
  /\ phase' = IF reading' = {} THEN "read" ELSE "reading"
  /\ UNCHANGED <<input, status, restores, restored, pod, serving, broken, guests>>

-----------------------------------------------------------------------------
(***************************************************************************)
(* processDiscoveryResults: one entry per claim UID with the backups that  *)
(* hold it, newest first, and one per failed backup without claims.        *)
(***************************************************************************)
\* Mutant: the state of a failed backup is the reason of its message.
StateOfByMessage(reason) == IF reason = "none" THEN "available" ELSE reason

StateOf(reason) ==
  CASE reason = "none" -> "available"
    [] reason = "BackupNotFound" -> "backup-deleted"
    [] reason = "BackupFilesMissing" -> "backup-missing"
    [] reason = "UnsupportedBackupFormat" -> "unsupported-plugin"
    [] OTHER -> "extraction-failed"

\* The entry at i gives way to the one at j if that is newer.
Exchange(list, i, j) ==
  IF list[j].backup > list[i].backup
  THEN [list EXCEPT ![i] = list[j], ![j] = list[i]] ELSE list

\* The inner loop: the entry at i against every later one.
Sweep(list, i) ==
  LET swept[j \in i..Len(list)] == IF j = i THEN list ELSE Exchange(swept[j - 1], i, j)
  IN swept[Len(list)]

\* Mutant: only the first position gets its entry.
sortRestoresByTimestampOnce(list) == Sweep(list, 1)

sortRestoresByTimestamp(list) ==
  LET sorted[i \in 0..Len(list)] == IF i = 0 THEN list ELSE Sweep(sorted[i - 1], i)
  IN sorted[Len(list)]

RestoresOf(u) ==
  LET holding == Those(results, {r \in ToSet(results) : u \in r.claims})
  IN sortRestoresByTimestamp(
       [i \in DOMAIN holding |-> [backup |-> holding[i].backup,
                                  state |-> StateOf(holding[i].reason)]])

GroupedClaims == [u \in UNION {r.claims : r \in ToSet(results)} |-> RestoresOf(u)]

BackupFailures ==
  LET failed == {r \in ToSet(results) : r.reason # "none" /\ r.claims = {}}
  IN [b \in {r.backup : r \in failed} |->
        StateOf((CHOOSE r \in failed : r.backup = b).reason)]

\* Whole-backup failures do not count, one entry of a claim that is not
\* available stops the file restore.
Verdict(grouped) ==
  LET entries == UNION {ToSet(grouped[u]) : u \in DOMAIN grouped}
  IN CASE \A e \in entries : e.state # "available" -> "Failed"
       [] \A e \in entries : e.state = "available" /\ entries # {} -> "validated"
       [] OTHER -> "PartiallyFailed"

processDiscoveryResults ==
  /\ phase = "read"
  /\ pvcRestores' = GroupedClaims /\ failures' = BackupFailures
  /\ phase' = Verdict(pvcRestores')
  /\ UNCHANGED <<input, reading, results, restores, restored, pod, serving, broken, guests>>

-----------------------------------------------------------------------------
(***************************************************************************)
(* One Velero Restore per backup selects the claims by the label with      *)
(* their UID.  Velero makes each anew, under a new name and UID, labelled  *)
(* with the Restore and the claim's original name.                         *)
(***************************************************************************)
createVeleroRestores ==
  /\ phase = "validated"
  /\ LET Holding(b) == {u \in DOMAIN pvcRestores :
                          \E e \in ToSet(pvcRestores[u]) : e.backup = b /\ e.state = "available"}
     IN restores' = [b \in {b \in Backups : Holding(b) # {}} |-> Holding(b)]
  /\ phase' = "restoring"
  /\ UNCHANGED <<input, reading, results, status, restored, pod, serving, broken, guests>>

VeleroRestores(b) ==
  /\ phase = "restoring" /\ b \in DOMAIN restores
  /\ \A c \in restored : c.restore # b
  /\ restored' = restored \cup
       {[restore |-> b, originalName |-> Claims[u].name, uid |-> <<b, u>>,
         mode |-> Claims[u].mode, data |-> <<b, u>>] :
          u \in (restores[b] \cap contents[b].claims) \ contents[b].unlabelled}
  /\ phase' = IF {c.restore : c \in restored'} = DOMAIN restores THEN "restored" ELSE phase
  /\ UNCHANGED <<input, reading, results, status, restores, pod, serving, broken, guests>>

\* A file restore without an access method has no credentials to get and fails.
ensureCredentials ==
  /\ phase = "restored" /\ spec.methods = {}
  /\ phase' = "Failed"
  /\ UNCHANGED <<input, reading, results, status, restores, restored, pod, serving, broken, guests>>

-----------------------------------------------------------------------------
(***************************************************************************)
(* createFileServerResources: the mounts of the status with what is known  *)
(* of the restored claims, then pod, service, route and serving info.  A   *)
(* refused pod or service fails the file restore; a refused pod is not     *)
(* there, a pod whose service was refused stays.                           *)
(***************************************************************************)
findRestoredPVCName(restore, name) ==
  CHOOSE c \in restored : c.restore = restore /\ c.originalName = name

\* Mutant: the UID the claim had in the backup is kept.
MountInfoWithOldUID(u, e) ==
  LET claim == findRestoredPVCName(e.backup, Claims[u].name)
  IN [name |-> Claims[u].name, backup |-> e.backup, date |-> Date[e.backup],
      uid |-> u, restored |-> claim.uid, mode |-> claim.mode]

MountInfo(u, e) ==
  LET claim == findRestoredPVCName(e.backup, Claims[u].name)
  IN [name |-> Claims[u].name, backup |-> e.backup, date |-> Date[e.backup],
      uid |-> claim.uid, restored |-> claim.uid, mode |-> claim.mode]

\* All versions of all claims, in the order of the status.
extractPVCMountsFromVMFR ==
  LET Available(u) == {e \in ToSet(pvcRestores[u]) : e.state = "available"}
      MountsOf(u) == LET list == Those(pvcRestores[u], Available(u))
                     IN [i \in DOMAIN list |-> MountInfo(u, list[i])]
      claims == SetToSeq(DOMAIN pvcRestores)
  IN FlattenSeq([i \in DOMAIN claims |-> MountsOf(claims[i])])

\* The route is read right after it was created, its host may be known or not.
updateFileServingInfo(ports) ==
  \E public \in {FALSE, spec.expose} :
    serving' = [m \in spec.methods |->
                  [port |-> ports[PortName(m)], public |-> public /\ m = "filebrowser"]]

createFileServerResources ==
  /\ phase = "restored" /\ spec.methods # {}
  /\ LET built == buildFileServerPodSpec(extractPVCMountsFromVMFR, spec.methods)
         fits == ServiceNameFits(spec.nameLength)
     IN /\ pod' = IF Admissible(built) THEN built ELSE None
        /\ \/ Admissible(built) /\ fits
              /\ updateFileServingInfo(gatherServicePorts(spec.methods))
              /\ phase' = "starting"
           \/ ~(Admissible(built) /\ fits) /\ phase' = "Failed" /\ UNCHANGED serving
  /\ UNCHANGED <<input, reading, results, status, restores, restored, broken, guests>>

\* The main container of the pod runs its script.
detectAndMount ==
  /\ phase = "starting"
  /\ \E lost \in SUBSET {c.uid : c \in restored} :
       broken' = lost /\ guests' = mount_with_structure(pod, lost)
  /\ phase' = "served"
  /\ UNCHANGED <<input, reading, results, status, restores, restored, pod, serving>>

-----------------------------------------------------------------------------
Init ==
  /\ contents \in [Backups -> Contents] /\ spec \in Specs
  /\ phase = "reading" /\ reading = DOMAIN spec.selected
  /\ results = <<>> /\ pvcRestores = <<>> /\ failures = <<>>
  /\ restores = <<>> /\ restored = {}
  /\ pod = None /\ serving = <<>> /\ broken = {} /\ guests = {}

\* A terminal phase, or a file server that runs.
Finished == phase \in {"Failed", "PartiallyFailed", "served"} /\ UNCHANGED vars

Next ==
  \/ \E i \in reading : discoverPVCsFromSingleBackup(i)
  \/ processDiscoveryResults
  \/ createVeleroRestores
  \/ \E b \in Backups : VeleroRestores(b)
  \/ ensureCredentials
  \/ createFileServerResources
  \/ detectAndMount
  \/ Finished

Spec == Init /\ [][Next]_vars

-----------------------------------------------------------------------------
(***************************************************************************)
(* What the backups hold, without the steps that read them.                *)
(***************************************************************************)
Readable(c) ==
  /\ c.crd = "kept" /\ c.list # "without the VM" /\ c.tar = "readable" /\ c.hasVM
  /\ c.claims \cap (c.lost \cup c.unlabelled) = {}

\* The claims that can be served, as pairs of a backup and a UID.
ServableClaims == {p \in Selected \X UIDs : Readable(contents[p[1]]) /\ p[2] \in contents[p[1]].claims}

\* Selections without a repeated backup, with an access method, for names a service
\* can have.
WellFormed ==
  IsInjective(spec.selected) /\ spec.methods # {} /\ ServiceNameFits(spec.nameLength)

(***************************************************************************)
(* Whatever order the goroutines answer in, the status lists a backup as   *)
(* available for exactly the claims a readable backup holds, lists every   *)
(* unreadable one as failed somewhere, and orders the backups of a claim   *)
(* from the newest (runConcurrentPVCDiscovery, processDiscoveryResults).   *)
(***************************************************************************)
StatusAccountsForBackups ==
  phase \notin {"reading", "read"} =>
    LET Entries(u) == ToSet(pvcRestores[u]) IN
    /\ ServableClaims = UNION {{<<e.backup, u>> : e \in {e \in Entries(u) : e.state = "available"}} :
                                 u \in DOMAIN pvcRestores}
    /\ \A b \in Selected :
         Readable(contents[b]) <=>
           b \notin DOMAIN failures
             \cup {e.backup : e \in UNION {{e \in Entries(u) : e.state # "available"} :
                                             u \in DOMAIN pvcRestores}}
    /\ \A u \in DOMAIN pvcRestores : \A i, j \in DOMAIN pvcRestores[u] :
         i < j => pvcRestores[u][i].backup >= pvcRestores[u][j].backup

Documented(method, p) ==
  (IF method = "ssh" THEN <<"restores">> ELSE <<>>) \o <<Date[p[1]], p[1], Claims[p[2]].name>>

(***************************************************************************)
(* From the backup to the user: once the file server runs, every address   *)
(* in the status leads to a listening container that shows each Block      *)
(* claim of each readable selected backup whose disk could be mounted at   *)
(* <date>/<backup>/<claim>, with that backup's version of the claim, and   *)
(* nothing else (createVeleroRestores to detect-and-mount.sh).             *)
(***************************************************************************)
BackupsAreServed ==
  phase = "served" =>
    \A m \in spec.methods :
      /\ serving[m].port \in pod.containers[m].ports
      /\ View(pod, guests, m) =
           {[path |-> Documented(m, p), claim |-> p] :
              p \in {p \in ServableClaims : Claims[p[2]].mode = "Block" /\ p \notin broken}}

(***************************************************************************)
(* A well-formed selection of readable backups with at least one claim is  *)
(* not turned down on the way to its file server: for any number of backup *)
(* versions of a claim, recreated claims and volume modes nothing that is  *)
(* built is refused, and the longest name that fits is accepted (rules 1   *)
(* to 3 of the validation, buildFileServerPodSpec, buildFileServerService).*)
(***************************************************************************)
ReadableBackupsAreAccepted ==
  (WellFormed /\ ServableClaims # {} /\ \A b \in Selected : Readable(contents[b]))
    => phase \notin {"Failed", "PartiallyFailed"}

(***************************************************************************)
(* A claim that can be served is seen by the users, whatever its volume    *)
(* mode: "For Filesystem mode PVCs: /restores/<date>/<backup>/<pvc>/       *)
(* (Kubernetes mounts)" (buildFileBrowserSidecar).                         *)
(***************************************************************************)
EveryModeIsServed ==
  phase = "served" =>
    \A m \in spec.methods : \A p \in ServableClaims :
      p \notin broken =>
        [path |-> Documented(m, p), claim |-> p] \in View(pod, guests, m)
=============================================================================

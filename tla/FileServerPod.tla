---------------------------- MODULE FileServerPod ----------------------------
(***************************************************************************)
(* The objects of a file server as fileserver_helpers.go builds them from  *)
(* the claims to mount and the access methods asked for: the volumes, the  *)
(* containers with their mounts, devices and ports, and the service.  The  *)
(* controller always asks for internal mounts.  Lists are sequences, since *)
(* Kubernetes refuses lists with repeated names; a path is the sequence of *)
(* its parts.                                                              *)
(***************************************************************************)
EXTENDS Integers, Sequences, FiniteSets, Functions, SequencesExt

Methods == {"ssh", "filebrowser"}

DefaultFileServerPort == 8080
Port(method) == CASE method = "ssh" -> 2222 [] method = "filebrowser" -> 8443

\* The name of the port a method is served at.
PortName(method) == CASE method = "ssh" -> "ssh" [] method = "filebrowser" -> "https"

\* <date>/<backup>/<claim>, below the directory the restores are served from.
RestorePath(m) == <<m.date, m.backup, m.name>>

VolumeName(m) == <<"pvc", m.uid>>
DevicePath(m) == <<"dev", "pvc", m.uid>>

Volume(name, claim) == [name |-> name, claim |-> claim]
Mount(name, path, propagation) == [name |-> name, path |-> path, propagation |-> propagation]

\* The elements of a list that are in S, appended one by one.
Those(list, S) ==
  LET kept[k \in 0..Len(list)] ==
        IF k = 0 THEN <<>>
        ELSE IF list[k] \in S THEN Append(kept[k - 1], list[k]) ELSE kept[k - 1]
  IN kept[Len(list)]

\* Volumes for all claims, mounts for Filesystem claims, devices for Block claims.
buildPVCVolumesAndMounts(mounts) ==
  LET OfMode(mode) == Those(mounts, {m \in ToSet(mounts) : m.mode = mode})
      VolumeOf(m) == Volume(VolumeName(m), m.restored)
      MountOf(m) == Mount(VolumeName(m), <<"restores">> \o RestorePath(m), "None")
      DeviceOf(m) == [name |-> VolumeName(m), path |-> DevicePath(m)]
      Each(Op(_), list) == [i \in DOMAIN list |-> Op(list[i])]
  IN [volumes |-> Each(VolumeOf, mounts),
      mounts |-> Each(MountOf, OfMode("Filesystem")),
      devices |-> Each(DeviceOf, OfMode("Block"))]

\* BACKUP_PVC_MAP: what the mounting script is told of each claim.
buildBackupPVCMapJSON(mounts) ==
  {[entry |-> RestorePath(mounts[i]), path |-> DevicePath(mounts[i])] : i \in DOMAIN mounts}

(***************************************************************************)
(* Sidecars: their own volumes, and the volume "filesystems" in which they *)
(* see what the main container mounts.  sshd confines its users to /oadp.  *)
(***************************************************************************)
Sidecar(method, volumes, root, own) ==
  [volumes |-> [i \in DOMAIN volumes |-> Volume(<<volumes[i]>>, <<>>)],
   container |->
     [mounts |-> own \o <<Mount(<<"filesystems">>, root, "HostToContainer")>>,
      devices |-> <<>>, ports |-> {Port(method)}]]

buildSSHSidecar ==
  Sidecar("ssh", <<"ssh-etc", "ssh-run", "ssh-tmp", "ssh-dev", "ssh-oadp-etc", "ssh-secret">>,
          <<"oadp", "restores">>,
          <<Mount(<<"ssh-etc">>, <<"etc">>, "None"), Mount(<<"ssh-run">>, <<"run">>, "None"),
            Mount(<<"ssh-tmp">>, <<"tmp">>, "None"), Mount(<<"ssh-dev">>, <<"oadp", "dev">>, "None"),
            Mount(<<"ssh-oadp-etc">>, <<"oadp", "etc">>, "None"),
            Mount(<<"ssh-secret">>, <<"ssh-config">>, "None"),
            Mount(<<"ssh-secret">>, <<"oadp", ".ssh", "authorized_keys">>, "None")>>)

buildFileBrowserSidecar ==
  Sidecar("filebrowser", <<"database", "tmp", "filebrowser-tls", "filebrowser-credentials">>,
          <<"restores">>,
          <<Mount(<<"database">>, <<"database">>, "None"), Mount(<<"tmp">>, <<"tmp">>, "None"),
            Mount(<<"filebrowser-tls">>, <<"etc", "filebrowser-tls">>, "None"),
            Mount(<<"filebrowser-credentials">>, <<"etc", "filebrowser-credentials">>, "None")>>)

SidecarOf(method) ==
  CASE method = "ssh" -> buildSSHSidecar [] method = "filebrowser" -> buildFileBrowserSidecar

\* The directory a user of the method starts from.
UserRoot(method) == CASE method = "ssh" -> <<"oadp">> [] method = "filebrowser" -> <<"restores">>

\* Mutant: without propagation, as in the mode with mounts by Kubernetes.
FilesystemsMountPrivate(devices) ==
  IF devices = <<>> THEN <<>> ELSE <<Mount(<<"filesystems">>, <<"restores">>, "None")>>

\* Where the main container mounts the guests' disks, for Block claims only.
FilesystemsMount(devices) ==
  IF devices = <<>> THEN <<>> ELSE <<Mount(<<"filesystems">>, <<"restores">>, "Bidirectional")>>

MainContainer(pvc) ==
  [mounts |-> <<Mount(<<"shared-mounts">>, <<"mnt", "restore">>, "Bidirectional")>>
              \o pvc.mounts
              \o <<Mount(<<"fuse-device">>, <<"dev", "fuse">>, "None"),
                   Mount(<<"kvm-device">>, <<"dev", "kvm">>, "None")>>
              \o FilesystemsMount(pvc.devices),
   devices |-> pvc.devices, ports |-> {}]

buildFileServerPodSpec(mounts, methods) ==
  LET pvc == buildPVCVolumesAndMounts(mounts)
      shared == <<"shared-mounts", "fuse-device", "kvm-device", "filesystems">>
      SidecarVolumes(method) == IF method \in methods THEN SidecarOf(method).volumes ELSE <<>>
  IN [volumes |-> pvc.volumes \o [i \in DOMAIN shared |-> Volume(<<shared[i]>>, <<>>)]
                  \o SidecarVolumes("ssh") \o SidecarVolumes("filebrowser"),
      containers |-> [c \in methods \cup {"main"} |->
                        IF c = "main" THEN MainContainer(pvc) ELSE SidecarOf(c).container],
      env |-> buildBackupPVCMapJSON(mounts)]

\* The service's ports by name; "http" is there for every file server.
gatherServicePorts(methods) ==
  [name \in {"http"} \cup {PortName(method) : method \in methods} |->
     IF name = "http" THEN DefaultFileServerPort
     ELSE Port(CHOOSE method \in methods : PortName(method) = name)]

-----------------------------------------------------------------------------
(***************************************************************************)
(* What Kubernetes asks of a pod before it stores it.                      *)
(***************************************************************************)
Admissible(pod) ==
  LET Names(list) == [i \in DOMAIN list |-> list[i].name]
      Paths(list) == [i \in DOMAIN list |-> list[i].path]
  IN /\ IsInjective(Names(pod.volumes))
     /\ \A c \in DOMAIN pod.containers :
          LET container == pod.containers[c] IN
          /\ IsInjective(Paths(container.mounts)) /\ IsInjective(Paths(container.devices))
          /\ ToSet(Names(container.mounts)) \cup ToSet(Names(container.devices))
               \subseteq ToSet(Names(pod.volumes))

\* Service names are DNS labels; <vmfr>-fileserver-svc is 15 longer than the VMFR's name.
MaxServiceName == 63
ServiceNameFits(nameLength) == nameLength + 15 <= MaxServiceName

\* The block devices the main container finds, with the restored claim behind each.
BlockDevices(pod) ==
  UNION {{[path |-> d.path, claim |-> v.claim] : v \in {v \in ToSet(pod.volumes) : v.name = d.name}} :
           d \in ToSet(pod.containers["main"].devices)}

(***************************************************************************)
(* mount_with_structure of detect-and-mount.sh: an entry whose path is a   *)
(* block device is mounted at /restores/<date>/<backup>/<claim>, unless    *)
(* both ways of mounting its disk fail.  Where the path is no device the   *)
(* script looks for a disk image below it and finds none.                  *)
(***************************************************************************)
mount_with_structure(pod, broken) ==
  UNION {{[at |-> e.entry, claim |-> d.claim] :
             d \in {d \in BlockDevices(pod) : d.path = e.path /\ d.claim \notin broken}} :
           e \in pod.env}

(***************************************************************************)
(* What the users of a method see: the mounts made in "filesystems" by the *)
(* main container, passed on to the sidecar that mounts the same volume.   *)
(***************************************************************************)
View(pod, guests, method) ==
  LET Shared(c, propagation) ==
        {m \in ToSet(pod.containers[c].mounts) :
           m.name = <<"filesystems">> /\ m.propagation = propagation}
      Seen(path) == SubSeq(path, Len(UserRoot(method)) + 1, Len(path))
  IN IF Shared("main", "Bidirectional") = {} THEN {}
     ELSE UNION {{[path |-> Seen(m.path \o g.at), claim |-> g.claim] : g \in guests} :
                   m \in Shared(method, "HostToContainer")}
=============================================================================

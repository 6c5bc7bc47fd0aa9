---------------------------- MODULE MCServedClaims ----------------------------
(* ServedClaims for TLC: three backups of a VM with two disks, the first of *)
(* which was once deleted and recreated.                                    *)
EXTENDS ServedClaims

Disk(name, mode) == [name |-> name, mode |-> mode]

RecreatedDisk == [a1 |-> Disk("a", "Block"), a2 |-> Disk("a", "Block"), b1 |-> Disk("b", "Filesystem")]
FilesystemDisk == [b1 |-> Disk("b", "Filesystem")]

TwoDays == [b \in 1..3 |-> b \div 2]

Good(uids) ==
  [crd |-> "kept", list |-> "with the VM", tar |-> "readable", hasVM |-> TRUE,
   claims |-> uids, lost |-> {}, unlabelled |-> {}]

\* Readable backups, with both incarnations of a disk, and each way a read can fail.
AnyContents ==
  {Good({"a1"}), Good({"a1", "b1"}), Good({"a2", "b1"}), Good({}),
   [Good({"a1"}) EXCEPT !.list = "unavailable"],
   [Good({"a1"}) EXCEPT !.list = "without the VM"],
   [Good({"a1"}) EXCEPT !.hasVM = FALSE],
   [Good({"a1"}) EXCEPT !.tar = "absent"],
   [Good({"a1"}) EXCEPT !.tar = "corrupt"],
   [Good({"a1"}) EXCEPT !.crd = "deleted"],
   [Good({"a1"}) EXCEPT !.crd = "incomplete"],
   [Good({"a1"}) EXCEPT !.crd = "deleted while read"],
   [Good({"a1", "b1"}) EXCEPT !.lost = {"a1"}, !.unlabelled = {"b1"}]}

Ask(selected, methods, expose, nameLength) ==
  [selected |-> selected, methods |-> methods, expose |-> expose, nameLength |-> nameLength]

\* All three backups, a part, one without fileAccess, a backup named twice; the
\* longest name and one more.
AnySpec ==
  {Ask(<<1, 2, 3>>, Methods, TRUE, 48), Ask(<<3, 1>>, {"ssh"}, FALSE, 48),
   Ask(<<1>>, {}, FALSE, 20),
   Ask(<<2, 2>>, {"filebrowser"}, FALSE, 20), Ask(<<1, 2>>, {"filebrowser"}, FALSE, 49)}

OnlyFilesystem == {Good({"b1"}), Good({})}
BothMethods == {Ask(<<1, 2, 3>>, Methods, FALSE, 20)}
=============================================================================

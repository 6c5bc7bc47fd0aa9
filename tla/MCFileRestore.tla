---------------------------- MODULE MCFileRestore ----------------------------
(* Instances of FileRestore for TLC: two backups of one virtual machine.     *)
EXTENDS FileRestore

\* Backup "old" holds one of the two claims of "new".
MCContents == [b \in Backups |-> IF b = "old" THEN {"root"} ELSE PVCs]

AllReadable == [b \in Backups |-> {"available"}]
Anything == [b \in Backups |-> {"available", "unsupported", "synthetic"}]

MakeSpec(target, selected, expose, creds) ==
  [target |-> target, selected |-> selected, expose |-> expose, creds |-> creds]

InUserNamespace == {MakeSpec("existing", {}, FALSE, "made")}
Exposed == {MakeSpec("existing", {}, TRUE, "made")}
InTemporaryNamespace == {MakeSpec("temporary", {}, FALSE, "made")}
DeletionSpecs == Exposed \cup InTemporaryNamespace
HealthySpecs == {MakeSpec("existing", {}, TRUE, "made"),
                 MakeSpec("existing", {"old"}, FALSE, "made"),
                 MakeSpec("temporary", {}, FALSE, "made"),
                 MakeSpec("temporary", {"old"}, TRUE, "made")}
NoAccessMethod == {MakeSpec("existing", {}, FALSE, "none")}
SecretInPlace == {MakeSpec("existing", {}, FALSE, "in restore namespace")}
EverySpec == {MakeSpec("existing", {"old"}, FALSE, "made"),
              MakeSpec("temporary", {}, TRUE, "made"),
              MakeSpec("temporary", {}, FALSE, "invalid"),
              MakeSpec("existing", {}, FALSE, "in restore namespace"),
              MakeSpec("existing", {}, FALSE, "none"),
              MakeSpec("missing", {}, FALSE, "made")}

BothValid == {Backups}
SomeValid == {{}, {"new"}, Backups}

=============================================================================

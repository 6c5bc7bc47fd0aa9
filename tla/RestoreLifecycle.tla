--------------------------- MODULE RestoreLifecycle ---------------------------
(***************************************************************************)
(* What a VirtualMachineFileRestore promises, without reconciles, caches,  *)
(* work queues or patches: the stages it goes through, when Velero may be  *)
(* asked to restore, when files are served, and the two parts of deletion. *)
(* FileRestore implements it: see Lifecycle there.                         *)
(***************************************************************************)
EXTENDS FiniteSets

CONSTANT Backups   \* names of the backups of the virtual machine

VARIABLES
  stage,     \* how far the file restore has come
  life,      \* where it is between creation and removal
  chosen,    \* the backups whose claims are to be served
  restored,  \* the backups with a Velero Restore
  served     \* the backups whose claims the file server mounts

vars == <<stage, life, chosen, restored, served>>

Settled == {"Completed", "PartiallyFailed", "Failed"}
Stages == {"created", "new", "validating", "validated", "placed", "restoring",
           "restored", "credentials", "exposing"} \cup Settled
Lives == {"live", "deleting", "restores removed", "gone"}

TypeOK ==
  /\ stage \in Stages
  /\ life \in Lives
  /\ chosen \subseteq Backups /\ restored \subseteq Backups /\ served \subseteq Backups

\* The stages that may come next; settled is for good.
After(s) ==
  CASE s = "created" -> {"new"}
    [] s = "new" -> {"validating"}
    [] s = "validating" -> {"validated", "PartiallyFailed", "Failed"}
    [] s = "validated" -> {"placed", "Failed"}
    [] s = "placed" -> {"restoring", "Failed"}
    [] s = "restoring" -> {"restored", "PartiallyFailed", "Failed"}
    [] s = "restored" -> {"credentials", "Failed"}
    [] s = "credentials" -> {"exposing", "Completed", "Failed"}
    [] s = "exposing" -> {"Completed"}
    [] s \in Settled -> {}

Init ==
  /\ stage = "created" /\ life = "live"
  /\ chosen = {} /\ restored = {} /\ served = {}

\* A deletion does not stop the step under way, but no step starts after it.
Advance(s) ==
  /\ life \in {"live", "deleting"}
  /\ s \in After(stage)
  /\ s = "validated" => chosen # {}
  /\ s = "restoring" => chosen = restored
  /\ s \in {"exposing", "Completed"} => served = chosen
  /\ stage' = s
  /\ UNCHANGED <<life, chosen, restored, served>>

\* The backups to serve are chosen once, while the file restore is validated.
Choose(B) ==
  /\ life \in {"live", "deleting"} /\ stage = "validating" /\ chosen = {}
  /\ chosen' = B
  /\ UNCHANGED <<stage, life, restored, served>>

\* Velero is asked to restore chosen backups only, once there is a namespace.
Restore(b) ==
  /\ life \in {"live", "deleting"} /\ stage = "placed" /\ b \in chosen
  /\ restored' = restored \cup {b}
  /\ UNCHANGED <<stage, life, chosen, served>>

\* All the chosen backups are served, at once, after all have been restored.
Serve ==
  /\ life \in {"live", "deleting"} /\ stage = "credentials" /\ served = {}
  /\ chosen = restored
  /\ served' = chosen
  /\ UNCHANGED <<stage, life, chosen, restored>>

\* Before its finalizers are there, a deleted file restore is gone at once.
Delete ==
  /\ life = "live"
  /\ \/ life' = "deleting"
     \/ stage = "created" /\ life' = "gone"
  /\ UNCHANGED <<stage, chosen, restored, served>>

RemoveRestore(b) ==
  /\ life = "deleting" /\ restored' = restored \ {b}
  /\ UNCHANGED <<stage, life, chosen, served>>

RestoresRemoved ==
  /\ life = "deleting" /\ restored = {} /\ life' = "restores removed"
  /\ UNCHANGED <<stage, chosen, restored, served>>

StopServing ==
  /\ life = "restores removed" /\ served' = {}
  /\ UNCHANGED <<stage, life, chosen, restored>>

Remove ==
  /\ life = "restores removed" /\ served = {} /\ life' = "gone"
  /\ UNCHANGED <<stage, chosen, restored, served>>

Next ==
  \/ \E s \in Stages : Advance(s)
  \/ \E B \in SUBSET Backups : Choose(B)
  \/ \E b \in Backups : Restore(b) \/ RemoveRestore(b)
  \/ Serve \/ Delete \/ RestoresRemoved \/ StopServing \/ Remove

Spec == Init /\ [][Next]_vars

-----------------------------------------------------------------------------
\* A file restore that is gone has left no Restore and no file server behind.
GoneLeavesNothing == life = "gone" => restored = {} /\ served = {}

\* Until it is removed, a completed file restore serves all the backups that were
\* chosen, from the Restores that were made for them, until it is deleted.
CompletedIsServed ==
  stage = "Completed" /\ life = "live" => served = chosen /\ restored = chosen

===============================================================================

----------------------- MODULE RestoreLifecycleProofs -----------------------
(***************************************************************************)
(* What the abstract life cycle guarantees, for every set of backups.      *)
(***************************************************************************)
EXTENDS RestoreLifecycle, TLAPS

Unstarted == {"created", "new", "validating", "validated"}
Restoring == Unstarted \cup {"placed"}
Unserved == Restoring \cup {"restoring", "restored", "PartiallyFailed"}

(***************************************************************************)
(* The inductive invariant.  What is restored and served depends on the    *)
(* stage: nothing is restored before there is a namespace, nothing served  *)
(* before the credentials, and until a deletion takes the Restores away    *)
(* all that is chosen stays restored.                                      *)
(***************************************************************************)
StageInv ==
  /\ stage \in Unstarted => restored = {}
  /\ stage \in Unserved => served = {}
  /\ stage \in {"restoring", "restored", "credentials", "exposing", "Completed"} /\ life = "live" =>
       restored = chosen
  /\ stage \in {"exposing", "Completed"} /\ life = "live" => served = chosen
  /\ life \in {"restores removed", "gone"} => restored = {}
  /\ life = "gone" => served = {}

Inv == TypeOK /\ StageInv

\* The initial state satisfies the inductive invariant.
LEMMA InitInv == Init => Inv
  BY DEF Init, Inv, TypeOK, StageInv, Stages, Lives, Settled, Unstarted, Restoring, Unserved

\* Every step of the life cycle preserves the inductive invariant.
LEMMA NextInv == Inv /\ [Next]_vars => Inv'
<1> SUFFICES ASSUME Inv, [Next]_vars PROVE Inv'
  OBVIOUS
<1>1. ASSUME NEW s \in Stages, Advance(s) PROVE Inv'
  BY <1>1 DEF Advance, Inv, TypeOK, StageInv, Stages, Lives, Settled, Unstarted, Restoring, Unserved, After
<1>2. ASSUME NEW B \in SUBSET Backups, Choose(B) PROVE Inv'
  BY <1>2 DEF Choose, Inv, TypeOK, StageInv, Stages, Lives, Settled, Unstarted, Restoring, Unserved
<1>3. ASSUME NEW b \in Backups, Restore(b) PROVE Inv'
  BY <1>3 DEF Restore, Inv, TypeOK, StageInv, Stages, Lives, Settled, Unstarted, Restoring, Unserved
<1>4. CASE Serve
  BY <1>4 DEF Serve, Inv, TypeOK, StageInv, Stages, Lives, Settled, Unstarted, Restoring, Unserved
<1>5. CASE Delete
  BY <1>5 DEF Delete, Inv, TypeOK, StageInv, Stages, Lives, Settled, Unstarted, Restoring, Unserved
<1>6. ASSUME NEW b \in Backups, RemoveRestore(b) PROVE Inv'
  BY <1>6 DEF RemoveRestore, Inv, TypeOK, StageInv, Stages, Lives, Settled, Unstarted, Restoring, Unserved
<1>7. CASE RestoresRemoved
  BY <1>7 DEF RestoresRemoved, Inv, TypeOK, StageInv, Stages, Lives, Settled, Unstarted, Restoring, Unserved
<1>8. CASE StopServing
  BY <1>8 DEF StopServing, Inv, TypeOK, StageInv, Stages, Lives, Settled, Unstarted, Restoring, Unserved
<1>9. CASE Remove
  BY <1>9 DEF Remove, Inv, TypeOK, StageInv, Stages, Lives, Settled, Unstarted, Restoring, Unserved
<1>10. CASE UNCHANGED vars
  BY <1>10 DEF vars, Inv, TypeOK, StageInv
<1> QED
  BY <1>1, <1>2, <1>3, <1>4, <1>5, <1>6, <1>7, <1>8, <1>9, <1>10 DEF Next

\* The inductive invariant holds throughout.
LEMMA InvHolds == Spec => []Inv
  BY InitInv, NextInv, PTL DEF Spec

\* The life cycle keeps its types (the stages and lives of RestoreLifecycle).
THEOREM TypeCorrect == Spec => []TypeOK
<1>1. Inv => TypeOK
  BY DEF Inv
<1> QED
  BY InvHolds, <1>1, PTL

\* Whenever a file restore is deleted, at any stage, it leaves no Restore and no
\* file server behind (the two finalizers of the controller).
THEOREM NothingIsLeft == Spec => []GoneLeavesNothing
<1>1. Inv => GoneLeavesNothing
  BY DEF Inv, StageInv, GoneLeavesNothing
<1> QED
  BY InvHolds, <1>1, PTL

\* A completed file restore that is not deleted serves exactly the chosen backups,
\* all restored (executeFileRestoreWorkflow from WaitingForRestores on).
THEOREM CompletedServes == Spec => []CompletedIsServed
<1>1. Inv => CompletedIsServed
  BY DEF Inv, StageInv, CompletedIsServed
<1> QED
  BY InvHolds, <1>1, PTL

=============================================================================

------------------------ MODULE DeployConfirmProofs ------------------------
(***************************************************************************)
(* Proofs about DeployConfirm, for every set of revisions and operators,   *)
(* every window and budget: type correctness and the snapshot with         *)
(* operations overlapping or not, then the promises that hold when they do *)
(* not.                                                                    *)
(***************************************************************************)
EXTENDS DeployConfirm, TLAPS

\* A fresh state directory is well-formed.
LEMMA InitTypeOK == Init => TypeOK
<1> SUFFICES ASSUME Init PROVE TypeOK
  OBVIOUS
<1>1. pending \in [revision : AnyRevision, left : 0 .. Within]
  BY BoundsAssumption DEF Init, NoPending, AnyRevision
<1>2. /\ pc \in [Procs -> PC] /\ told \in [Procs -> Reports]
      /\ rev \in [Procs -> AnyRevision] /\ snap \in [Procs -> AnyRevision]
  BY DEF Init, PC, Reports, AnyRevision
<1>3. \A p \in Procs : pc[p] \notin WritesSnap \cup UsesRev
  BY DEF Init, WritesSnap, UsesRev
<1>4. faults \in 0 .. MaxFaults /\ crashes \in 0 .. MaxCrashes
  BY BoundsAssumption DEF Init
<1> QED
  BY <1>1, <1>2, <1>3, <1>4 DEF Init, TypeOK, AnyRevision

\* A file operation spends at most one fault of the budget, and only if one is left.
LEMMA SpendOK ==
  ASSUME faults \in 0 .. MaxFaults,
         NEW w \in WriteOutcomes \cup ReadOutcomes, Spend(w)
  PROVE  faults' \in 0 .. MaxFaults
  BY BoundsAssumption DEF Spend, WriteOutcomes, ReadOutcomes

\* Removing the pending file, or failing to, leaves it well-formed.
LEMMA RemovesOK ==
  ASSUME pending \in [revision : AnyRevision, left : 0 .. Within], NEW w, Removes(w)
  PROVE  pending' \in [revision : AnyRevision, left : 0 .. Within]
  BY BoundsAssumption DEF Removes, Takes, NoPending, AnyRevision

\* Every step of every operation keeps the state well-formed.
LEMMA StepTypeOK == TypeOK /\ [Next]_vars => TypeOK'
<1> SUFFICES ASSUME TypeOK, [Next]_vars PROVE TypeOK'
  OBVIOUS
<1> USE RevisionsAssumption, ProcessesAssumption, BoundsAssumption
<1> USE DEF TypeOK, PC, Reports, AnyRevision, WritesSnap, UsesRev, Goto, Tell, Finish, files, hostVars, locals, budgets, history
<1>1. ASSUME NEW p \in Procs, ArmLoad(p) PROVE TypeOK'
  BY <1>1, SpendOK DEF ArmLoad, NetArmed, SnapshotFor
<1>2. ASSUME NEW p \in Procs, ArmSnapshot(p) PROVE TypeOK'
  BY <1>2, SpendOK DEF ArmSnapshot, NetArmed, Replaces, Takes, AfterWrite
<1>3. ASSUME NEW p \in Procs, ArmPending(p) PROVE TypeOK'
  BY <1>3, SpendOK DEF ArmPending, NetArmed, Replaces, Takes, AfterWrite
<1>4. ASSUME NEW p \in Procs, Save(p) PROVE TypeOK'
  BY <1>4, SpendOK DEF Save, NetArmed, Replaces, Takes
<1>5. ASSUME NEW p \in Procs, Unarm(p) PROVE TypeOK'
  BY <1>5, SpendOK DEF Unarm, NetArmed, Removes, Takes, NoPending
<1>6. ASSUME NEW p \in Procs, StartConfirm(p) PROVE TypeOK'
  BY <1>6, SpendOK DEF StartConfirm, NetArmed
<1>7. ASSUME NEW p \in Procs, ConfirmLoad(p) PROVE TypeOK'
  BY <1>7, SpendOK DEF ConfirmLoad, NetArmed
<1>8. ASSUME NEW p \in Procs, ConfirmRemove(p) PROVE TypeOK'
  BY <1>8, SpendOK DEF ConfirmRemove, NetArmed, Removes, Takes, NoPending
<1>9. ASSUME NEW p \in Procs, StartRollback(p) PROVE TypeOK'
  BY <1>9, SpendOK DEF StartRollback, NetArmed
<1>10. ASSUME NEW p \in Procs, RollbackRead(p) PROVE TypeOK'
  BY <1>10, SpendOK DEF RollbackRead, NetArmed, HasSnapshot
<1>11. ASSUME NEW p \in Procs, RollbackSave(p) PROVE TypeOK'
  BY <1>11, SpendOK DEF RollbackSave, NetArmed, Replaces, Takes, AfterWrite
<1>12. ASSUME NEW p \in Procs, RollbackClear(p) PROVE TypeOK'
  BY <1>12, SpendOK DEF RollbackClear, NetArmed, Removes, Takes, NoPending
<1>13. ASSUME NEW p \in Procs, Crash(p) PROVE TypeOK'
  BY <1>13, SpendOK DEF Crash, NetArmed
<1>14. ASSUME NEW p \in Procs, NEW r \in Revisions, NEW c \in BOOLEAN, StartDeploy(p, r, c) PROVE TypeOK'
  BY <1>14 DEF StartDeploy
<1>15. ASSUME AgentCheck PROVE TypeOK'
  BY <1>15, SpendOK DEF AgentCheck, Procs
<1>16. ASSUME AgentLoad PROVE TypeOK'
  BY <1>16, SpendOK DEF AgentLoad, Loaded, Procs
<1>17. ASSUME AgentApply PROVE TypeOK'
  BY <1>17, SpendOK DEF AgentApply, Procs
<1>18. ASSUME Tick PROVE TypeOK'
  BY <1>18 DEF Tick
<1>19. CASE UNCHANGED vars
  BY <1>19 DEF vars
<1> QED
  BY <1>1, <1>2, <1>3, <1>4, <1>5, <1>6, <1>7, <1>8, <1>9, <1>10, <1>11, <1>12, <1>13, <1>14, <1>15, <1>16, <1>17, <1>18, <1>19
  DEF Next, Deploy, Confirm, Rollback, AgentPass

\* The state of the whole system stays well-formed, and an operation that is
\* about to write a revision holds one.
THEOREM TypeCorrect == Spec => []TypeOK
<1>1. QED
  BY InitTypeOK, StepTypeOK, PTL DEF Spec

-----------------------------------------------------------------------------
(***************************************************************************)
(* The safety net can always be acted on.  SnapshotUnderNet alone is not   *)
(* inductive: an operation between its snapshot and its deadline is about  *)
(* to arm the net, and must already have both revisions on disk.           *)
(***************************************************************************)
MayArm == \E p \in Procs : pc[p] = "arm_pending"
HasRevision(p) == pc[p] = "arm_snapshot"

SnapshotInv ==
  /\ TypeOK
  /\ NetArmed \/ MayArm => previous # NoRevision
  /\ NetArmed \/ MayArm \/ (\E p \in Procs : HasRevision(p)) => desired # NoRevision

LEMMA StepSnapshotInv == SnapshotInv /\ [Next]_vars => SnapshotInv'
<1> SUFFICES ASSUME SnapshotInv, [Next]_vars PROVE SnapshotInv'
  OBVIOUS
<1>0. TypeOK'
  BY StepTypeOK DEF SnapshotInv
<1> USE RevisionsAssumption
<1> USE DEF SnapshotInv, MayArm, HasRevision, NetArmed, Goto, Tell, Finish, files, hostVars, locals, budgets, history
<1>1. ASSUME NEW p \in Procs, ArmLoad(p) PROVE SnapshotInv'
  BY <1>1, <1>0 DEF ArmLoad, TypeOK, SnapshotFor, UsesRev, WritesSnap
<1>2. ASSUME NEW p \in Procs, ArmSnapshot(p) PROVE SnapshotInv'
  BY <1>2, <1>0 DEF ArmSnapshot, TypeOK, Replaces, Takes, AfterWrite, UsesRev, WritesSnap
<1>3. ASSUME NEW p \in Procs, ArmPending(p) PROVE SnapshotInv'
  BY <1>3, <1>0 DEF ArmPending, TypeOK, Replaces, Takes, AfterWrite, UsesRev, WritesSnap
<1>4. ASSUME NEW p \in Procs, Save(p) PROVE SnapshotInv'
  BY <1>4, <1>0 DEF Save, TypeOK, Replaces, Takes, UsesRev, WritesSnap
<1>5. ASSUME NEW p \in Procs, Unarm(p) PROVE SnapshotInv'
  BY <1>5, <1>0 DEF Unarm, TypeOK, Removes, Takes, NoPending, UsesRev, WritesSnap
<1>6. ASSUME NEW p \in Procs, StartConfirm(p) PROVE SnapshotInv'
  BY <1>6, <1>0 DEF StartConfirm, TypeOK, UsesRev, WritesSnap
<1>7. ASSUME NEW p \in Procs, ConfirmLoad(p) PROVE SnapshotInv'
  BY <1>7, <1>0 DEF ConfirmLoad, TypeOK, UsesRev, WritesSnap
<1>8. ASSUME NEW p \in Procs, ConfirmRemove(p) PROVE SnapshotInv'
  BY <1>8, <1>0 DEF ConfirmRemove, TypeOK, Removes, Takes, NoPending, UsesRev, WritesSnap
<1>9. ASSUME NEW p \in Procs, StartRollback(p) PROVE SnapshotInv'
  BY <1>9, <1>0 DEF StartRollback, TypeOK, UsesRev, WritesSnap
<1>10. ASSUME NEW p \in Procs, RollbackRead(p) PROVE SnapshotInv'
  BY <1>10, <1>0 DEF RollbackRead, TypeOK, HasSnapshot, UsesRev, WritesSnap
<1>11. ASSUME NEW p \in Procs, RollbackSave(p) PROVE SnapshotInv'
  BY <1>11, <1>0 DEF RollbackSave, TypeOK, Replaces, Takes, AfterWrite, UsesRev, WritesSnap
<1>12. ASSUME NEW p \in Procs, RollbackClear(p) PROVE SnapshotInv'
  BY <1>12, <1>0 DEF RollbackClear, TypeOK, Removes, Takes, NoPending, UsesRev, WritesSnap
<1>13. ASSUME NEW p \in Procs, Crash(p) PROVE SnapshotInv'
  BY <1>13, <1>0 DEF Crash, TypeOK, UsesRev, WritesSnap
<1>14. ASSUME NEW p \in Procs, NEW r \in Revisions, NEW c \in BOOLEAN, StartDeploy(p, r, c) PROVE SnapshotInv'
  BY <1>14, <1>0 DEF StartDeploy, TypeOK
<1>15. ASSUME AgentCheck PROVE SnapshotInv'
  BY <1>15, <1>0 DEF AgentCheck, TypeOK
<1>16. ASSUME AgentLoad PROVE SnapshotInv'
  BY <1>16, <1>0 DEF AgentLoad, TypeOK
<1>17. ASSUME AgentApply PROVE SnapshotInv'
  BY <1>17, <1>0 DEF AgentApply, TypeOK
<1>18. ASSUME Tick PROVE SnapshotInv'
  BY <1>18, <1>0 DEF Tick, TypeOK, NoPending
<1>19. CASE UNCHANGED vars
  BY <1>19, <1>0 DEF vars
<1> QED
  BY <1>1, <1>2, <1>3, <1>4, <1>5, <1>6, <1>7, <1>8, <1>9, <1>10, <1>11, <1>12, <1>13, <1>14, <1>15, <1>16, <1>17, <1>18, <1>19
  DEF Next, Deploy, Confirm, Rollback, AgentPass

THEOREM SnapshotAlwaysThere == Spec => []SnapshotUnderNet
<1>1. Init => SnapshotInv
  BY InitTypeOK DEF Init, SnapshotInv, NetArmed, NoPending, MayArm, HasRevision
<1>2. SnapshotInv => SnapshotUnderNet
  BY DEF SnapshotInv, SnapshotUnderNet
<1>3. QED
  BY <1>1, <1>2, StepSnapshotInv, PTL DEF Spec

-----------------------------------------------------------------------------
(***************************************************************************)
(* When operations on the state directory do not overlap and a write that  *)
(* fails leaves its file alone, deploy-and-confirm keeps its promise: a    *)
(* live revision nobody confirmed is watched, the net returns to accepted  *)
(* ground, and the agent overrules only what has expired.  Proved for      *)
(* every set of revisions and operators and every window and budget.       *)
(***************************************************************************)

DeployLabels == {"arm_load", "arm_snapshot", "arm_pending", "save", "save_armed", "unarm"}
RollbackLabels == {"rollback_read", "rollback_save", "rollback_clear"}

\* At most one process is inside a multi-step change of the directory.
Exclusive == \A p, q \in Procs : p # q => pc[p] \in Resting \/ pc[q] \in Resting

\* What an operation in flight has read is still what the directory holds.
ReadsCurrent ==
  \A p \in Procs :
    /\ pc[p] = "arm_snapshot" => snap[p] = desired
    /\ pc[p] \in {"arm_pending", "save_armed"} => previous = desired
    /\ pc[p] \in {"save_armed", "confirm_remove"} => pending.revision = rev[p]
    /\ pc[p] = "rollback_save" => snap[p] = previous
    /\ pc[p] = "rollback_clear" => desired = previous

\* The agent is inside Rollback only over an expired net.
AgentActsOnExpired == pc[Agent] \in RollbackLabels => Expired

\* Nothing live is owed a net.
Solid == desired = NoRevision \/ desired \in accepted

\* Unless a deploy was stacked on an armed net: the snapshot is accepted
\* ground, what is live is accepted or is the very revision the net watches,
\* and a deploy in flight started from accepted ground.
Watched ==
  ~stacked =>
    /\ previous = NoRevision \/ previous \in accepted
    /\ Solid \/ (NetArmed /\ pending.revision = desired)
    /\ \A p \in Procs : pc[p] \in DeployLabels => Solid

SerialInv == TypeOK /\ Exclusive /\ ReadsCurrent /\ AgentActsOnExpired /\ Watched

LEMMA StepSerialInv ==
  ASSUME ~Overlap, ~DirSyncMayFail, SerialInv, [Next]_vars
  PROVE  SerialInv'
<1>0. TypeOK'
  BY StepTypeOK DEF SerialInv
<1>w. WriteOutcomes \subseteq {"done", "lost"} /\ ReadOutcomes \subseteq {"done", "lost"}
  BY DEF WriteOutcomes, ReadOutcomes
<1> USE RevisionsAssumption, ProcessesAssumption
<1> USE DEF SerialInv, Exclusive, ReadsCurrent, AgentActsOnExpired, Watched, Solid,
            DeployLabels, RollbackLabels, Resting, NetArmed, Expired,
            Goto, Tell, Finish, files, hostVars, locals, budgets, history
<1>1. ASSUME NEW p \in Procs, ArmLoad(p) PROVE SerialInv'
  BY <1>1, <1>0, <1>w DEF ArmLoad, TypeOK, Procs, SnapshotFor, UsesRev, WritesSnap
<1>2. ASSUME NEW p \in Procs, ArmSnapshot(p) PROVE SerialInv'
  BY <1>2, <1>0, <1>w DEF ArmSnapshot, TypeOK, Procs, Replaces, Takes, AfterWrite, UsesRev, WritesSnap
<1>3. ASSUME NEW p \in Procs, ArmPending(p) PROVE SerialInv'
  BY <1>3, <1>0, <1>w DEF ArmPending, TypeOK, Procs, Replaces, Takes, AfterWrite, UsesRev, WritesSnap
<1>4. ASSUME NEW p \in Procs, Save(p) PROVE SerialInv'
  BY <1>4, <1>0, <1>w DEF Save, TypeOK, Procs, Replaces, Takes, UsesRev, WritesSnap
<1>5. ASSUME NEW p \in Procs, Unarm(p) PROVE SerialInv'
  BY <1>5, <1>0, <1>w DEF Unarm, TypeOK, Procs, Removes, Takes, NoPending, UsesRev, WritesSnap
<1>6. ASSUME NEW p \in Procs, StartConfirm(p) PROVE SerialInv'
  BY <1>6, <1>0, <1>w DEF StartConfirm, TypeOK, Procs, MayStart, UsesRev, WritesSnap
<1>7. ASSUME NEW p \in Procs, ConfirmLoad(p) PROVE SerialInv'
  BY <1>7, <1>0, <1>w DEF ConfirmLoad, TypeOK, Procs, UsesRev, WritesSnap
<1>8. ASSUME NEW p \in Procs, ConfirmRemove(p) PROVE SerialInv'
  BY <1>8, <1>0, <1>w DEF ConfirmRemove, TypeOK, Procs, Removes, Takes, NoPending, UsesRev, WritesSnap
<1>9. ASSUME NEW p \in Procs, StartRollback(p) PROVE SerialInv'
  BY <1>9, <1>0, <1>w DEF StartRollback, TypeOK, Procs, MayStart, UsesRev, WritesSnap
<1>10. ASSUME NEW p \in Procs, RollbackRead(p) PROVE SerialInv'
  BY <1>10, <1>0, <1>w DEF RollbackRead, TypeOK, Procs, HasSnapshot, UsesRev, WritesSnap
<1>11. ASSUME NEW p \in Procs, RollbackSave(p) PROVE SerialInv'
  BY <1>11, <1>0, <1>w DEF RollbackSave, TypeOK, Procs, Replaces, Takes, AfterWrite, UsesRev, WritesSnap
<1>12. ASSUME NEW p \in Procs, RollbackClear(p) PROVE SerialInv'
  BY <1>12, <1>0, <1>w DEF RollbackClear, TypeOK, Procs, Removes, Takes, NoPending, UsesRev, WritesSnap
<1>13. ASSUME NEW p \in Procs, Crash(p) PROVE SerialInv'
  BY <1>13, <1>0, <1>w DEF Crash, TypeOK, Procs, UsesRev, WritesSnap
<1>14. ASSUME NEW p \in Procs, NEW r \in Revisions, NEW c \in BOOLEAN, StartDeploy(p, r, c) PROVE SerialInv'
  BY <1>14, <1>0 DEF StartDeploy, TypeOK, Procs, MayStart
<1>15. ASSUME AgentCheck PROVE SerialInv'
  BY <1>15, <1>0, <1>w DEF AgentCheck, TypeOK, Procs, MayStart
<1>16. ASSUME AgentLoad PROVE SerialInv'
  BY <1>16, <1>0, <1>w DEF AgentLoad, TypeOK, Procs
<1>17. ASSUME AgentApply PROVE SerialInv'
  BY <1>17, <1>0, <1>w DEF AgentApply, TypeOK, Procs
<1>18. ASSUME Tick PROVE SerialInv'
  BY <1>18, <1>0 DEF Tick, TypeOK
<1>19. CASE UNCHANGED vars
  BY <1>19, <1>0 DEF vars
<1> QED
  BY <1>1, <1>2, <1>3, <1>4, <1>5, <1>6, <1>7, <1>8, <1>9, <1>10, <1>11, <1>12, <1>13, <1>14, <1>15, <1>16, <1>17, <1>18, <1>19
  DEF Next, Deploy, Confirm, Rollback, AgentPass

LEMMA SerialInvHolds == ASSUME ~Overlap, ~DirSyncMayFail PROVE Spec => []SerialInv
<1>1. Init => SerialInv
  <2> SUFFICES ASSUME Init PROVE SerialInv
    OBVIOUS
  <2>1. \A p \in Procs : pc[p] = "idle"
    BY DEF Init
  <2> QED
    BY <2>1, InitTypeOK DEF Init, SerialInv, Exclusive, ReadsCurrent, AgentActsOnExpired,
       Watched, Solid, DeployLabels, RollbackLabels, Resting, Procs
<1>2. SerialInv /\ [Next]_vars => SerialInv'
  BY StepSerialInv
<1>3. QED
  BY <1>1, <1>2, PTL DEF Spec

\* A live revision that nobody confirmed has a net armed over it, unless some
\* deploy was started over a net still armed: deploy.go's arm-then-save order,
\* its compensation, confirm and rollback keep the promise at every instant,
\* whichever write fails and whichever process dies in between.
THEOREM UnconfirmedAlwaysWatched ==
  ASSUME ~Overlap, ~DirSyncMayFail PROVE Spec => []UnconfirmedIsWatched
<1>1. SerialInv => UnconfirmedIsWatched
  BY DEF SerialInv, Watched, Solid, UnconfirmedIsWatched
<1>2. QED
  BY <1>1, SerialInvHolds, PTL

\* What an armed net would restore is accepted ground.
THEOREM NetAlwaysReturnsToAccepted ==
  ASSUME ~Overlap, ~DirSyncMayFail PROVE Spec => []NetReturnsToAccepted
<1>1. SerialInv /\ SnapshotUnderNet => NetReturnsToAccepted
  BY DEF SerialInv, Watched, SnapshotUnderNet, NetReturnsToAccepted
<1>2. QED
  BY <1>1, SerialInvHolds, SnapshotAlwaysThere, PTL

\* The agent puts a revision back only while the net over the live one is
\* still armed and past its deadline.
THEOREM AgentOnlyOverrulesExpired ==
  ASSUME ~Overlap, ~DirSyncMayFail PROVE Spec => AgentOverrulesOnlyExpired
<1>1. SerialInv => (pc[Agent] = "rollback_save" => NetArmed /\ pending.left = 0)
  BY DEF SerialInv, AgentActsOnExpired, RollbackLabels, Expired
<1>2. SerialInv => [pc[Agent] = "rollback_save" /\ desired' # desired => NetArmed /\ pending.left = 0]_vars
  BY <1>1
<1>3. QED
  BY <1>2, SerialInvHolds, PTL DEF AgentOverrulesOnlyExpired
=============================================================================

--------------------------- MODULE DeployConfirm ---------------------------
(***************************************************************************)
(* Deploy-and-confirm: the revision store and the confirmation store of    *)
(* the state directory, driven by the operator seats (`hubctl deploy`,     *)
(* `confirm`, `rollback`, and the same three operations in the bot) and by *)
(* the agent, which restores the previous revision when nobody confirms.   *)
(*                                                                         *)
(* The files are desired-state.json, previous-state.json and               *)
(* pending-confirmation.json.  One step of this module reads, replaces or  *)
(* removes one file; between two steps of an operation any other process   *)
(* may run, the clock may move, or the process may die.  The directory     *)
(* lock is held around the single write of desired-state.json and nothing  *)
(* else, so it does not appear as state of its own.                        *)
(***************************************************************************)
EXTENDS Integers

CONSTANTS
  Revisions,        \* revisions a compile of the configuration may yield
  NoRevision,       \* "no such file"
  Operators,        \* operator seats: hubctl invocations and the bot
  Agent,            \* the vpn-hub-agent process
  Within,           \* the confirmation window, in clock ticks
  MaxFaults,        \* bound: file operations and host applies that fail
  MaxCrashes,       \* bound: processes that die mid-operation
  Overlap,          \* may operations of different processes overlap?
  DirSyncMayFail    \* may a write fail after its rename took effect?

ASSUME RevisionsAssumption == NoRevision \notin Revisions
ASSUME ProcessesAssumption == Agent \notin Operators
ASSUME BoundsAssumption ==
  /\ Within \in Nat \ {0}
  /\ MaxFaults \in Nat
  /\ MaxCrashes \in Nat
ASSUME SwitchesAssumption == Overlap \in BOOLEAN /\ DirSyncMayFail \in BOOLEAN

VARIABLES
  desired,     \* desired-state.json: the revision the agent converges on
  previous,    \* previous-state.json: the snapshot a rollback returns to
  pending,     \* pending-confirmation.json: revision, ticks left to its deadline
  host,        \* what the host runs; NoRevision when an apply stopped midway
  applied,     \* the agent's memory of the last revision that converged
  pc,          \* where each process stands in its operation
  rev,         \* the revision an operation deploys, confirms, restores or applies
  snap,        \* the revision an operation has read and is about to write
  told,        \* what the last operation of a process reported
  faults, crashes,  \* how much of the two budgets is spent
  accepted,    \* history: live revisions no net is owed to
  stacked      \* history: did a deploy ever start over an armed net?

files == <<desired, previous, pending>>
hostVars == <<host, applied>>
locals == <<pc, rev, snap, told>>
budgets == <<faults, crashes>>
history == <<accepted, stacked>>
vars == <<files, hostVars, locals, budgets, history>>

Procs == Operators \cup {Agent}
AnyRevision == Revisions \cup {NoRevision}
NoPending == [revision |-> NoRevision, left |-> 0]
NetArmed == pending.revision # NoRevision

\* Mutants: the deadline is not looked at; the comparison is turned round.
ExpiredAtOnce == NetArmed
ExpiredBefore == NetArmed /\ pending.left > 0
Expired == NetArmed /\ pending.left = 0

PC == {"idle", "arm_load", "arm_snapshot", "arm_pending", "save", "save_armed", "unarm",
       "confirm_load", "confirm_remove",
       "rollback_read", "rollback_save", "rollback_clear",
       "agent_load", "agent_apply"}
Reports == {"nothing", "armed", "saved", "confirmed", "restored", "failed"}

\* Labels at which an operation is about to write what it has read, and at
\* which it holds the revision it works for.
WritesSnap == {"arm_snapshot", "rollback_save"}
UsesRev == {"arm_load", "arm_snapshot", "arm_pending", "save", "save_armed", "confirm_remove",
            "agent_apply"}

TypeOK ==
  /\ desired \in AnyRevision
  /\ previous \in AnyRevision
  /\ pending \in [revision : AnyRevision, left : 0 .. Within]
  /\ host \in AnyRevision
  /\ applied \in AnyRevision
  /\ pc \in [Procs -> PC]
  /\ rev \in [Procs -> AnyRevision]
  /\ snap \in [Procs -> AnyRevision]
  /\ \A p \in Procs : pc[p] \in WritesSnap => snap[p] \in Revisions
  /\ \A p \in Procs : pc[p] \in UsesRev => rev[p] \in Revisions
  /\ told \in [Procs -> Reports]
  /\ faults \in 0 .. MaxFaults
  /\ crashes \in 0 .. MaxCrashes
  /\ accepted \subseteq Revisions
  /\ stacked \in BOOLEAN

\* A fresh state directory: nothing deployed, nothing armed.
Init ==
  /\ desired = NoRevision
  /\ previous = NoRevision
  /\ pending = NoPending
  /\ host = NoRevision
  /\ applied = NoRevision
  /\ pc = [p \in Procs |-> "idle"]
  /\ rev = [p \in Procs |-> NoRevision]
  /\ snap = [p \in Procs |-> NoRevision]
  /\ told = [p \in Procs |-> "nothing"]
  /\ faults = 0
  /\ crashes = 0
  /\ accepted = {}
  /\ stacked = FALSE

-----------------------------------------------------------------------------
(* How a file operation may end.  A write is done, or fails leaving the    *)
(* file alone ("lost"), or fails at the directory sync, after the rename   *)
(* has already replaced the file ("unsynced").                             *)

Takes(effect, w, file, value) == file' = IF w \in effect THEN value ELSE file

WriteOutcomes ==
  {"done"} \cup (IF faults < MaxFaults
                   THEN {"lost"} \cup (IF DirSyncMayFail THEN {"unsynced"} ELSE {})
                   ELSE {})
ReadOutcomes == {"done"} \cup (IF faults < MaxFaults THEN {"lost"} ELSE {})

Spend(w) == faults' = faults + (IF w = "done" THEN 0 ELSE 1)

Replaces(w, file, value) == Takes({"done", "unsynced"}, w, file, value)
Removes(w) == Takes({"done"}, w, pending, NoPending)

(* Control: go on to a label, or end the operation with a report.          *)
Goto(p, label) == pc' = [pc EXCEPT ![p] = label]
Tell(p, report) == told' = [told EXCEPT ![p] = report]
Finish(p, report) == Goto(p, "idle") /\ Tell(p, report)

\* Mutant: the error of a write is dropped.
AfterWriteIgnoringErrors(p, w, next) ==
  Goto(p, next) /\ UNCHANGED told
AfterWrite(p, w, next) ==
  IF w = "done" THEN Goto(p, next) /\ UNCHANGED told ELSE Finish(p, "failed")

(* Processes inside a multi-step change of the state directory.  Without   *)
(* Overlap an operation starts only when no other one is in flight.        *)
Resting == {"idle", "agent_load", "agent_apply"}
MayStart(p) ==
  /\ pc[p] = "idle"
  /\ Overlap \/ \A q \in Procs \ {p} : pc[q] \in Resting

-----------------------------------------------------------------------------
(* Deployment.Apply, from the compiled revision on.                        *)

StartDeploy(p, r, confirmWithin) ==
  /\ p \in Operators
  /\ MayStart(p)
  /\ Goto(p, IF confirmWithin THEN "arm_load" ELSE "save")
  /\ Tell(p, "nothing")
  /\ rev' = [rev EXCEPT ![p] = r]
  /\ stacked' = (stacked \/ NetArmed)
  /\ UNCHANGED <<files, hostVars, snap, budgets, accepted>>

\* What Arm snapshots.  Mutant: the revision about to be deployed.
SnapshotOfTheNew(p) == rev[p]
SnapshotFor(p) == desired

\* Arm reads the current revision.  With none there is nothing to return to
\* and the deploy goes on unarmed; a read error stops it.
ArmLoad(p) ==
  /\ pc[p] = "arm_load"
  /\ \E w \in ReadOutcomes :
       /\ Spend(w)
       /\ \/ w = "lost" /\ Finish(p, "failed") /\ UNCHANGED snap
          \/ /\ w = "done" /\ desired = NoRevision
             /\ Goto(p, "save") /\ UNCHANGED <<told, snap>>
          \/ /\ w = "done" /\ desired # NoRevision
             /\ snap' = [snap EXCEPT ![p] = SnapshotFor(p)]
             /\ Goto(p, "arm_snapshot") /\ UNCHANGED told
  /\ UNCHANGED <<files, hostVars, rev, crashes, history>>

ArmSnapshot(p) ==
  /\ pc[p] = "arm_snapshot"
  /\ \E w \in WriteOutcomes :
       /\ Spend(w)
       /\ Replaces(w, previous, snap[p])
       /\ snap' = [snap EXCEPT ![p] = NoRevision]
       /\ AfterWrite(p, w, "arm_pending")
  /\ UNCHANGED <<desired, pending, hostVars, rev, crashes, history>>

ArmPending(p) ==
  /\ pc[p] = "arm_pending"
  /\ \E w \in WriteOutcomes :
       /\ Spend(w)
       /\ Replaces(w, pending, [revision |-> rev[p], left |-> Within])
       /\ AfterWrite(p, w, "save_armed")
  /\ UNCHANGED <<desired, previous, hostVars, rev, snap, crashes, history>>

\* Service.Save, under the directory lock.  A revision that goes live under a
\* net is owed that net until it is confirmed; saving what is already live
\* puts nothing in question.
Save(p) ==
  /\ pc[p] \in {"save", "save_armed"}
  /\ \E w \in WriteOutcomes :
       /\ Spend(w)
       /\ Replaces(w, desired, rev[p])
       /\ accepted' = IF w = "lost" THEN accepted
                      ELSE IF pc[p] = "save" THEN accepted \cup {rev[p]}
                      ELSE accepted \ ({rev[p]} \ {desired})
       /\ \/ /\ w = "done"
             /\ Finish(p, IF pc[p] = "save" THEN "saved" ELSE "armed")
          \/ w # "done" /\ pc[p] = "save" /\ Finish(p, "failed")
          \/ w # "done" /\ pc[p] = "save_armed" /\ Goto(p, "unarm") /\ UNCHANGED told
  /\ UNCHANGED <<previous, pending, hostVars, rev, snap, crashes, stacked>>

\* The compensation of a failed save: clear what Arm just armed.
Unarm(p) ==
  /\ pc[p] = "unarm"
  /\ \E w \in ReadOutcomes : Spend(w) /\ Removes(w)
  /\ Finish(p, "failed")
  /\ UNCHANGED <<desired, previous, hostVars, rev, snap, crashes, history>>

-----------------------------------------------------------------------------
(* confirm: read the pending file, then remove whatever is there by then.  *)

StartConfirm(p) ==
  /\ p \in Operators
  /\ MayStart(p)
  /\ Goto(p, "confirm_load") /\ Tell(p, "nothing")
  /\ UNCHANGED <<files, hostVars, rev, snap, budgets, history>>

ConfirmLoad(p) ==
  /\ pc[p] = "confirm_load"
  /\ \E w \in ReadOutcomes :
       /\ Spend(w)
       /\ IF w = "done" /\ NetArmed
            THEN /\ rev' = [rev EXCEPT ![p] = pending.revision]
                 /\ Goto(p, "confirm_remove") /\ UNCHANGED told
            ELSE Finish(p, "failed") /\ UNCHANGED rev
  /\ UNCHANGED <<files, hostVars, snap, crashes, history>>

ConfirmRemove(p) ==
  /\ pc[p] = "confirm_remove"
  /\ \E w \in ReadOutcomes :
       /\ Spend(w)
       /\ Removes(w)
       /\ Finish(p, IF w = "done" THEN "confirmed" ELSE "failed")
       /\ accepted' = IF w = "done" THEN accepted \cup {rev[p]} ELSE accepted
  /\ UNCHANGED <<desired, previous, hostVars, rev, snap, crashes, stacked>>

-----------------------------------------------------------------------------
(* ConfirmationStore.Rollback, run by an operator or by the agent.         *)

StartRollback(p) ==
  /\ p \in Operators
  /\ MayStart(p)
  /\ Goto(p, "rollback_read") /\ Tell(p, "nothing")
  /\ UNCHANGED <<files, hostVars, rev, snap, budgets, history>>

\* Mutant: the missing snapshot is not noticed.
HasSnapshotAssumed == TRUE
HasSnapshot == previous # NoRevision

RollbackRead(p) ==
  /\ pc[p] = "rollback_read"
  /\ \E w \in ReadOutcomes :
       /\ Spend(w)
       /\ IF w = "done" /\ HasSnapshot
            THEN /\ snap' = [snap EXCEPT ![p] = previous]
                 /\ Goto(p, "rollback_save") /\ UNCHANGED told
            ELSE Finish(p, "failed") /\ UNCHANGED snap
  /\ UNCHANGED <<files, hostVars, rev, crashes, history>>

RollbackSave(p) ==
  /\ pc[p] = "rollback_save"
  /\ \E w \in WriteOutcomes :
       /\ Spend(w)
       /\ Replaces(w, desired, snap[p])
       /\ rev' = [rev EXCEPT ![p] = snap[p]]
       /\ snap' = [snap EXCEPT ![p] = NoRevision]
       /\ AfterWrite(p, w, "rollback_clear")
  /\ UNCHANGED <<previous, pending, hostVars, crashes, history>>

\* The last step of Rollback.  The agent forgets what it had applied, so that
\* the restored revision is reported, and goes on with its pass.
RollbackClear(p) ==
  /\ pc[p] = "rollback_clear"
  /\ \E w \in ReadOutcomes :
       /\ Spend(w)
       /\ Removes(w)
       /\ Tell(p, IF w = "done" THEN "restored" ELSE "failed")
       /\ Goto(p, IF w = "done" /\ p = Agent THEN "agent_load" ELSE "idle")
       /\ applied' = IF w = "done" /\ p = Agent THEN NoRevision ELSE applied
  /\ UNCHANGED <<desired, previous, host, rev, snap, crashes, history>>

-----------------------------------------------------------------------------
(* One pass of the agent: put back an expired deploy, load, converge.      *)

AgentCheck ==
  /\ MayStart(Agent)
  /\ \E w \in ReadOutcomes :
       /\ Spend(w)
       /\ Tell(Agent, IF w = "done" THEN "nothing" ELSE "failed")
       /\ Goto(Agent, IF w = "lost" THEN "idle"
                      ELSE IF Expired THEN "rollback_read" ELSE "agent_load")
  /\ UNCHANGED <<files, hostVars, rev, snap, crashes, history>>

\* The revision a pass works on.  Mutant: the first one loaded is kept.
LoadedOnce == IF rev[Agent] = NoRevision THEN desired ELSE rev[Agent]
Loaded == desired

AgentLoad ==
  /\ pc[Agent] = "agent_load"
  /\ \E w \in ReadOutcomes :
       /\ Spend(w)
       /\ IF w = "done" /\ desired # NoRevision
            THEN rev' = [rev EXCEPT ![Agent] = Loaded] /\ Goto(Agent, "agent_apply")
            ELSE Goto(Agent, "idle") /\ UNCHANGED rev
  /\ UNCHANGED <<files, hostVars, snap, told, crashes, history>>

\* HostReconciler.Apply, as one step: it converges or stops somewhere between.
AgentApply ==
  /\ pc[Agent] = "agent_apply"
  /\ \E w \in ReadOutcomes :
       /\ Spend(w)
       /\ host' = IF w = "done" THEN rev[Agent] ELSE NoRevision
       /\ applied' = IF w = "done" THEN rev[Agent] ELSE NoRevision
  /\ Goto(Agent, "idle")
  /\ UNCHANGED <<files, rev, snap, told, crashes, history>>

-----------------------------------------------------------------------------
\* Time passes towards the recorded deadline.  Only the distance to it is
\* ever compared, so that distance is what the pending file holds here; it is
\* zero once the clock is past the deadline.
Tick ==
  /\ pending.left > 0
  /\ pending' = [pending EXCEPT !.left = @ - 1]
  /\ UNCHANGED <<desired, previous, hostVars, locals, budgets, history>>

\* A process dies between two steps; what it wrote stays.  The agent is
\* started again with no memory of what it applied.
Crash(p) ==
  /\ pc[p] # "idle"
  /\ crashes < MaxCrashes
  /\ crashes' = crashes + 1
  /\ Finish(p, "failed")
  /\ rev' = [rev EXCEPT ![p] = NoRevision]
  /\ snap' = [snap EXCEPT ![p] = NoRevision]
  /\ applied' = IF p = Agent THEN NoRevision ELSE applied
  /\ UNCHANGED <<files, host, faults, history>>

Deploy(p) ==
  \/ \E r \in Revisions, confirmWithin \in BOOLEAN : StartDeploy(p, r, confirmWithin)
  \/ ArmLoad(p) \/ ArmSnapshot(p) \/ ArmPending(p) \/ Save(p) \/ Unarm(p)
Confirm(p) == StartConfirm(p) \/ ConfirmLoad(p) \/ ConfirmRemove(p)
Rollback(p) == RollbackRead(p) \/ RollbackSave(p) \/ RollbackClear(p)
AgentPass == AgentCheck \/ AgentLoad \/ AgentApply

Next ==
  \/ \E p \in Procs : Deploy(p) \/ Confirm(p) \/ StartRollback(p) \/ Rollback(p) \/ Crash(p)
  \/ AgentPass
  \/ Tick

Spec == Init /\ [][Next]_vars

(***************************************************************************)
(* Fairness.  The agent is a systemd service whose loop runs a pass every  *)
(* interval and is restarted when it dies; a command in flight is a        *)
(* bounded run of file operations; time passes.  Nothing obliges an        *)
(* operator to start anything.                                             *)
(***************************************************************************)
InFlight(p) ==
  \/ ArmLoad(p) \/ ArmSnapshot(p) \/ ArmPending(p) \/ Save(p) \/ Unarm(p)
  \/ ConfirmLoad(p) \/ ConfirmRemove(p) \/ Rollback(p)

Fairness ==
  /\ \A p \in Procs : WF_vars(InFlight(p))
  /\ WF_vars(AgentPass)
  /\ WF_vars(Tick)

FairSpec == Spec /\ Fairness

(***************************************************************************)
(* Properties.                                                             *)
(***************************************************************************)

\* A net that is armed can always be acted on: there is a snapshot to return
\* to, and a revision it returns from.  Arm writes the snapshot before the
\* deadline and nothing ever removes it, so neither a crash, a failed write
\* nor any other process leaves the agent with "no previous revision".
SnapshotUnderNet == NetArmed => previous # NoRevision /\ desired # NoRevision

Quiet == \A p \in Operators : pc[p] = "idle"

\* "An unconfirmed revision automatically rolls back": between operations, a
\* live revision nobody confirmed has a net armed over it -- provided no
\* deploy was started over a net still armed, which the README's sentence does
\* not say: such a deploy takes the unconfirmed revision for the one to return to.
UnconfirmedIsWatched ==
  Quiet /\ ~stacked => desired = NoRevision \/ desired \in accepted \/ NetArmed

\* Rolling back lands on solid ground: what an armed net would restore is a
\* revision that somebody accepted, never another unconfirmed one.
NetReturnsToAccepted == NetArmed /\ ~stacked => previous \in accepted

\* The agent overrules an operator only over a net that has run out: when it
\* puts a revision back, the deploy it undoes is still unconfirmed and overdue.
AgentOverrulesOnlyExpired ==
  [][pc[Agent] = "rollback_save" /\ desired' # desired => NetArmed /\ pending.left = 0]_vars

\* A net does not stay up for ever: once operators stop arming new ones, it is
\* confirmed, or expires and is acted on -- whatever fails or dies on the way.
NetResolves ==
  <>[](\A p \in Operators : pc[p] # "arm_pending") => []<>~NetArmed

\* The host follows the store: a revision that stays desired is converged on.
HostFollows == \A r \in Revisions : desired = r ~> (host = r \/ desired # r)

=============================================================================

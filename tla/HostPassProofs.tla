---------------------------- MODULE HostPassProofs ----------------------------
(***************************************************************************)
(* Proofs about HostPass: type correctness for any number of agents, and   *)
(* the safety of a host with one.                                          *)
(***************************************************************************)
EXTENDS HostPass, TLAPS

(* TypeOK, part by part.                                                   *)
BudgetsOK ==
  faults \in 0 .. MaxFaults /\ crashes \in 0 .. MaxCrashes /\ outages \in 0 .. MaxOutages
LocalsOK ==
  /\ pass \in [Agents -> Passes]
  /\ \A a \in Agents : /\ pass[a].at = "idle" <=> pass[a] = Resting
                       /\ pass[a].at # "idle" => pass[a].rev \in Revisions
LockOK ==
  /\ lock \in Agents \cup {None}
  /\ \A a \in Agents : lock = a <=> pass[a].at \in InTransition
HostOK ==
  /\ desired \in Revisions
  /\ table \in Plans \cup {None}
  /\ learned \in BOOLEAN /\ (table = None => ~learned)
  /\ flows \subseteq Clients \X Resolvers
  /\ state = NoState \/ state \in [plan : Plans, cleanup : SUBSET Clients, pend : BOOLEAN]
  /\ ingress \in Revisions \cup {None}
  /\ conf \in Confs \cup {None}
  /\ running \in Confs \cup {None}
  /\ cached \in BOOLEAN /\ (running = None => ~cached)

LEMMA TypeParts == TypeOK <=> BudgetsOK /\ LocalsOK /\ LockOK /\ HostOK
BY DEF TypeOK, BudgetsOK, LocalsOK, LockOK, HostOK

(* What the shared helpers do to them.                                     *)
LEMMA SpendType ==
  ASSUME NEW w \in {"ok", "fails"}, w = "fails" => "fails" \in Outcomes, BudgetsOK, Spend(w)
  PROVE  BudgetsOK'
<1>1. CASE w = "ok"
  BY <1>1, BoundsAssumption DEF BudgetsOK, Spend
<1>2. CASE w = "fails"
  <2>1. faults < MaxFaults
    BY <1>2 DEF Outcomes
  <2> QED BY <2>1, <1>2, BoundsAssumption DEF BudgetsOK, Spend
<1> QED BY <1>1, <1>2

LEMMA OutcomesType == \A w \in Outcomes : w \in {"ok", "fails"}
BY DEF Outcomes

LEMMA PassMoves ==
  ASSUME NEW a \in Agents, NEW x \in Passes, x.at # "idle", x.rev \in Revisions,
         LocalsOK, pass' = [pass EXCEPT ![a] = x]
  PROVE  LocalsOK' /\ pass'[a] = x
<1>1. pass' \in [Agents -> Passes] /\ pass'[a] = x
  BY DEF LocalsOK
<1>2. x # Resting
  BY DEF Resting
<1>3. ASSUME NEW b \in Agents
      PROVE  /\ pass'[b].at = "idle" <=> pass'[b] = Resting
             /\ pass'[b].at # "idle" => pass'[b].rev \in Revisions
  <2>1. CASE b = a
    BY <2>1, <1>1, <1>2
  <2>2. CASE b # a
    <3>1. pass'[b] = pass[b]
      BY <2>2 DEF LocalsOK
    <3> QED BY <3>1 DEF LocalsOK
  <2> QED BY <2>1, <2>2
<1> QED BY <1>1, <1>3 DEF LocalsOK

LEMMA PassLeaves ==
  ASSUME NEW a \in Agents, LocalsOK, Leave(a)
  PROVE  LocalsOK' /\ pass'[a] = Resting
BY NoneAssumption DEF LocalsOK, Leave, Resting, Passes, Labels

LEMMA PassGoes ==
  ASSUME NEW a \in Agents, NEW label \in Labels \ {"idle"}, LocalsOK, ~At(a, "idle"), Goto(a, label)
  PROVE  LocalsOK' /\ pass'[a].at = label
<1> DEFINE x == [pass[a] EXCEPT !.at = label]
<1>1. x \in Passes /\ x.at = label /\ x.rev = pass[a].rev
  BY DEF LocalsOK, Passes
<1>2. pass' = [pass EXCEPT ![a] = x]
  BY DEF Goto
<1> QED BY <1>1, <1>2, PassMoves DEF LocalsOK, At

LEMMA PassCollects ==
  ASSUME NEW a \in Agents, NEW label \in Labels \ {"idle"}, NEW w, LocalsOK, ~At(a, "idle"),
         CollectFilter(a, w, label)
  PROVE  LocalsOK' /\ pass'[a].at = label
<1> DEFINE x == [pass[a] EXCEPT !.at = label, !.fwerr = @ \/ w = "fails"]
<1>1. x \in Passes /\ x.at = label /\ x.rev = pass[a].rev
  BY ZenonT(30) DEF LocalsOK, Passes
<1>2. pass' = [pass EXCEPT ![a] = x]
  BY DEF CollectFilter
<1> QED BY <1>1, <1>2, PassMoves DEF LocalsOK, At

(* Who else stands where does not change in a step of a's pass.            *)
Alone(a) == \A b \in Agents \ {a} : pass'[b] = pass[b]

LEMMA LockKept ==
  ASSUME NEW a \in Agents, LockOK, Alone(a), UNCHANGED lock,
         pass[a].at \in InTransition <=> pass'[a].at \in InTransition
  PROVE  LockOK'
BY DEF LockOK, Alone

LEMMA LockTaken ==
  ASSUME NEW a \in Agents, LockOK, Alone(a), lock = None, lock' = a, pass'[a].at \in InTransition
  PROVE  LockOK'
BY NoneAssumption DEF LockOK, Alone

LEMMA LockReleased ==
  ASSUME NEW a \in Agents, LockOK, Alone(a), lock = a, lock' = None, pass'[a].at \notin InTransition
  PROVE  LockOK'
BY NoneAssumption DEF LockOK, Alone

(***************************************************************************)
(* HostPass is well typed: the kernel's and the runtime directory's state, *)
(* the locals of every pass, and the lock, held exactly while a pass       *)
(* replaces the packet filter, whatever fails or dies.                     *)
(***************************************************************************)
LEMMA StepType ==
  ASSUME TypeOK, NEW a \in Agents, PassStep(a) \/ Crash(a)
  PROVE  TypeOK'
<1>0. BudgetsOK /\ LocalsOK /\ LockOK /\ HostOK
  BY TypeParts
<1> SUFFICES BudgetsOK' /\ LocalsOK' /\ LockOK' /\ HostOK'
  BY DEF TypeOK, BudgetsOK, LocalsOK, LockOK, HostOK
<1> DEFINE me == pass[a]
<1> USE <1>0
<1>1. CASE StartPass(a)
  <2> DEFINE x == [Resting EXCEPT !.at = "transition", !.rev = desired]
  <2>1. x \in Passes /\ x.at = "transition" /\ x.rev = desired
    BY DEF Resting, Passes, Labels, HostOK
  <2>2. LocalsOK' /\ pass'[a] = x
    <3>1. pass' = [pass EXCEPT ![a] = x] /\ desired \in Revisions
      BY <1>1 DEF StartPass, HostOK
    <3>2. x.at # "idle"
      BY <2>1
    <3> HIDE DEF x
    <3> QED BY <2>1, <3>1, <3>2, PassMoves
  <2>3. BudgetsOK' /\ HostOK'
    BY <1>1 DEF StartPass, BudgetsOK, HostOK, filter, resolver, budgets
  <2>4. LockOK'
    BY <1>1, <2>1, <2>2, LockKept DEF StartPass, Alone, At, InTransition, LocalsOK
  <2> QED BY <2>2, <2>3, <2>4
<1>2. CASE Transition(a)
  <2> DEFINE p == PlanFor(a)
             owed == CleanupScopes(p)
  <2>0. p \in Plans /\ owed \in SUBSET Clients
    BY <1>2, MappingAssumption
       DEF Transition, At, PlanFor, CleanupScopes, Repinned, LocalsOK, HostOK
  <2>1. PICK unreadable \in BOOLEAN :
          /\ unreadable => "fails" \in Outcomes
          /\ Spend(IF unreadable THEN "fails" ELSE "ok")
          /\ state' = IF Repopulate(unreadable \/ table # p, owed)
                        THEN [plan |-> p, cleanup |-> owed, pend |-> TRUE] ELSE state
          /\ pass' = [pass EXCEPT ![a].at = IF unreadable \/ table # p THEN "nft" ELSE "clear",
                                  ![a].repop = Repopulate(unreadable \/ table # p, owed),
                                  ![a].scopes = owed]
    BY <1>2 DEF Transition, Outcomes
  <2> DEFINE x == [me EXCEPT !.at = IF unreadable \/ table # p THEN "nft" ELSE "clear",
                             !.repop = Repopulate(unreadable \/ table # p, owed),
                             !.scopes = owed]
  <2>2. BudgetsOK'
    BY <2>1, SpendType
  <2>3. Repopulate(unreadable \/ table # p, owed) \in BOOLEAN
    BY DEF Repopulate, HostOK, NoState
  <2>4. x \in Passes /\ x.at \in InTransition /\ x.at # "idle" /\ x.rev = me.rev
    BY <2>0, <2>3 DEF LocalsOK, Passes, Labels, InTransition
  <2>5. pass' = [pass EXCEPT ![a] = x]
    BY <2>1
  <2>6. LocalsOK' /\ pass'[a] = x
    BY <1>2, <2>4, <2>5, PassMoves, ZenonT(30) DEF LocalsOK, Transition, At
  <2>7. LockOK'
    BY <1>2, <2>4, <2>5, <2>6, LockTaken DEF Transition, Alone, LocalsOK
  <2>8. HostOK'
    BY <1>2, <2>0, <2>1 DEF Transition, HostOK, filter, resolver
  <2> QED BY <2>2, <2>6, <2>7, <2>8
<1>3. CASE TransitionFails(a)
  <2>1. BudgetsOK' /\ HostOK'
    BY <1>3, SpendType DEF TransitionFails, HostOK, filter, resolver
  <2>2. LocalsOK' /\ pass'[a] = Resting
    BY <1>3, PassLeaves DEF TransitionFails
  <2>3. LockOK'
    BY <1>3, <2>2, LockKept DEF TransitionFails, Leave, Alone, At, Resting, InTransition, LocalsOK
  <2> QED BY <2>1, <2>2, <2>3
<1>4. CASE LoadTable(a)
  <2>0. lock = a /\ PlanFor(a) \in Plans
    BY <1>4, MappingAssumption DEF LoadTable, At, LockOK, InTransition, LocalsOK, PlanFor
  <2>1. PICK w \in Outcomes :
          /\ Spend(w)
          /\ IF w = "ok"
               THEN /\ table' = PlanFor(a) /\ learned' = FALSE
                    /\ Goto(a, "clear") /\ UNCHANGED lock
               ELSE Refused(a) /\ UNCHANGED filter
    BY <1>4 DEF LoadTable
  <2>2. BudgetsOK'
    BY <2>1, OutcomesType, SpendType
  <2>3. HostOK'
    BY <1>4, <2>0, <2>1, NoneAssumption DEF LoadTable, HostOK, filter, resolver
  <2>4. CASE w = "ok"
    <3>1. LocalsOK' /\ pass'[a].at = "clear"
      BY <1>4, <2>1, <2>4, PassGoes DEF LoadTable, At, Labels
    <3>2. LockOK'
      BY <1>4, <2>1, <2>4, <3>1, LockKept DEF LoadTable, At, Alone, Goto, InTransition, LocalsOK
    <3> QED BY <2>2, <2>3, <3>1, <3>2
  <2>5. CASE w # "ok"
    <3>1. LocalsOK' /\ pass'[a] = Resting
      BY <2>1, <2>5, PassLeaves DEF Refused
    <3>2. LockOK'
      BY <2>0, <2>1, <2>5, <3>1, LockReleased
         DEF Refused, Release, Leave, Alone, Resting, InTransition, LocalsOK
    <3> QED BY <2>2, <2>3, <3>1, <3>2
  <2> QED BY <2>4, <2>5
<1>5. CASE ClearFlows(a)
  <2>0. lock = a
    BY <1>5 DEF ClearFlows, At, LockOK, InTransition
  <2>1. PICK w \in Outcomes : Spend(w) /\ AfterClear(a, w)
    BY <1>5 DEF ClearFlows
  <2>2. BudgetsOK'
    BY <2>1, OutcomesType, SpendType
  <2>3. HostOK'
    BY <1>5 DEF ClearFlows, HostOK, filter, resolver
  <2>4. CASE w = "ok"
    <3>1. LocalsOK' /\ pass'[a].at = "clean"
      BY <1>5, <2>1, <2>4, PassGoes DEF ClearFlows, AfterClear, At, Labels
    <3>2. LockOK'
      BY <1>5, <2>1, <2>4, <3>1, LockKept
         DEF ClearFlows, AfterClear, At, Alone, Goto, InTransition, LocalsOK
    <3> QED BY <2>2, <2>3, <3>1, <3>2
  <2>5. CASE w # "ok"
    <3>1. LocalsOK' /\ pass'[a].at = "ingress"
      BY <1>5, <2>1, <2>5, PassCollects DEF ClearFlows, AfterClear, At, Labels
    <3>2. LockOK'
      BY <2>0, <2>1, <2>5, <3>1, LockReleased
         DEF AfterClear, Release, CollectFilter, Alone, InTransition, LocalsOK
    <3> QED BY <2>2, <2>3, <3>1, <3>2
  <2> QED BY <2>4, <2>5
<1>6. CASE CleanScopes(a)
  <2>0. lock = a /\ PlanFor(a) \in Plans
    BY <1>6, MappingAssumption DEF CleanScopes, At, LockOK, InTransition, LocalsOK, PlanFor
  <2>1. PICK w \in Outcomes :
          /\ Spend(w)
          /\ state' = IF w = "ok" /\ pass[a].scopes # {}
                        THEN [plan |-> PlanFor(a), cleanup |-> {}, pend |-> TRUE] ELSE state
          /\ CollectFilter(a, w, "ingress")
    BY <1>6 DEF CleanScopes
  <2>2. BudgetsOK'
    BY <2>1, OutcomesType, SpendType
  <2>3. LocalsOK' /\ pass'[a].at = "ingress"
    BY <1>6, <2>1, PassCollects DEF CleanScopes, At, Labels
  <2>4. LockOK'
    BY <1>6, <2>0, <2>1, <2>3, LockReleased
       DEF CleanScopes, Release, CollectFilter, Alone, InTransition, LocalsOK
  <2>5. HostOK'
    BY <1>6, <2>0, <2>1 DEF CleanScopes, HostOK, filter, resolver
  <2> QED BY <2>2, <2>3, <2>4, <2>5
<1>7. CASE IngressApply(a)
  <2>1. PICK w \in Outcomes :
          /\ Spend(w)
          /\ ingress' = IF w = "ok" THEN pass[a].rev ELSE ingress
          /\ IF w = "ok" \/ pass[a].repop THEN Goto(a, "egress") ELSE Leave(a)
    BY <1>7 DEF IngressApply
  <2>2. BudgetsOK'
    BY <2>1, OutcomesType, SpendType
  <2>3. HostOK'
    BY <1>7, <2>1 DEF IngressApply, At, HostOK, LocalsOK, filter, resolver
  <2>4. LocalsOK' /\ pass'[a].at \in {"egress", "idle"}
    BY <1>7, <2>1, PassGoes, PassLeaves DEF IngressApply, At, Labels, Resting
  <2>5. LockOK'
    BY <1>7, <2>1, <2>4, LockKept DEF IngressApply, At, Alone, Goto, Leave, InTransition, LocalsOK
  <2> QED BY <2>2, <2>3, <2>4, <2>5
<1>8. CASE EgressApply(a)
  <2>1. BudgetsOK' /\ HostOK'
    BY <1>8, OutcomesType, SpendType DEF EgressApply, HostOK, filter, resolver
  <2>2. LocalsOK' /\ pass'[a].at = "resolver_write"
    BY <1>8, PassGoes DEF EgressApply, At, Labels
  <2>3. LockOK'
    BY <1>8, <2>2, LockKept DEF EgressApply, At, Alone, Goto, InTransition, LocalsOK
  <2> QED BY <2>1, <2>2, <2>3
<1>9. CASE ResolverWrite(a)
  <2>0. ConfFor(a) \in Confs
    BY <1>9, MappingAssumption DEF ResolverWrite, At, LocalsOK, ConfFor, PlanFor
  <2>1. BudgetsOK'
    BY <1>9, SpendType DEF ResolverWrite, Outcomes
  <2>2. HostOK'
    BY <1>9, <2>0 DEF ResolverWrite, HostOK, filter
  <2>3. LocalsOK' /\ pass'[a].at \in {"resolver_stop", "commit", "idle"}
    BY <1>9, PassGoes, PassLeaves DEF ResolverWrite, At, Labels, Resting
  <2>4. LockOK'
    BY <1>9, <2>3, LockKept DEF ResolverWrite, At, Alone, Goto, Leave, InTransition, LocalsOK
  <2> QED BY <2>1, <2>2, <2>3, <2>4
<1>10. CASE ResolverStop(a)
  <2>1. BudgetsOK'
    BY <1>10, OutcomesType, SpendType DEF ResolverStop
  <2>2. HostOK'
    BY <1>10, OutcomesType DEF ResolverStop, HostOK, filter
  <2>3. LocalsOK' /\ pass'[a].at = "resolver_start"
    BY <1>10, PassGoes DEF ResolverStop, At, Labels
  <2>4. LockOK'
    BY <1>10, <2>3, LockKept DEF ResolverStop, At, Alone, Goto, InTransition, LocalsOK
  <2> QED BY <2>1, <2>2, <2>3, <2>4
<1>11. CASE ResolverStart(a)
  <2>1. BudgetsOK'
    BY <1>11, OutcomesType, SpendType DEF ResolverStart
  <2>2. HostOK'
    BY <1>11, OutcomesType DEF ResolverStart, HostOK, filter
  <2>3. LocalsOK' /\ pass'[a].at \in {"commit", "idle"}
    BY <1>11, PassGoes, PassLeaves DEF ResolverStart, At, Labels, Resting
  <2>4. LockOK'
    BY <1>11, <2>3, LockKept DEF ResolverStart, At, Alone, Goto, Leave, InTransition, LocalsOK
  <2> QED BY <2>1, <2>2, <2>3, <2>4
<1>12. CASE Commit(a)
  <2>1. BudgetsOK'
    BY <1>12, OutcomesType, SpendType DEF Commit, Outcomes
  <2>2. HostOK'
    BY <1>12 DEF Commit, MayCommit, HostOK, filter, resolver
  <2>3. LocalsOK' /\ pass'[a] = Resting
    BY <1>12, PassLeaves DEF Commit
  <2>4. LockOK'
    BY <1>12, <2>3, LockKept DEF Commit, At, Alone, Leave, Resting, InTransition, LocalsOK
  <2> QED BY <2>1, <2>2, <2>3, <2>4
<1>13. CASE Crash(a)
  <2>1. BudgetsOK' /\ HostOK'
    BY <1>13, BoundsAssumption DEF Crash, BudgetsOK, HostOK, filter, resolver
  <2>2. LocalsOK' /\ pass'[a] = Resting
    BY <1>13, PassLeaves DEF Crash
  <2>3. LockOK'
    BY <1>13, <2>2, LockKept, LockReleased
       DEF Crash, LockOK, Leave, Alone, Resting, InTransition, LocalsOK
  <2> QED BY <2>1, <2>2, <2>3
<1> QED
  BY <1>1, <1>2, <1>3, <1>4, <1>5, <1>6, <1>7, <1>8, <1>9, <1>10, <1>11, <1>12, <1>13 DEF PassStep

LEMMA EnvironmentType ==
  ASSUME TypeOK, Environment
  PROVE  TypeOK'
<1>0. BudgetsOK /\ LocalsOK /\ LockOK /\ HostOK
  BY TypeParts
<1> SUFFICES BudgetsOK' /\ LocalsOK' /\ LockOK' /\ HostOK'
  BY DEF TypeOK, BudgetsOK, LocalsOK, LockOK, HostOK
<1> USE <1>0
<1>1. CASE Reboot
  <2>1. BudgetsOK' /\ HostOK'
    <3>1. BudgetsOK'
      BY <1>1, BoundsAssumption DEF Reboot, Outage, BudgetsOK
    <3>2. HostOK'
      BY <1>1 DEF Reboot, HostOK
    <3> QED BY <3>1, <3>2
  <2>2. pass' \in [Agents -> Passes] /\ \A a \in Agents : pass'[a] = Resting
    BY <1>1 DEF Reboot, Resting, Passes, Labels
  <2>3. LocalsOK'
    BY <2>2 DEF LocalsOK, Resting
  <2>4. LockOK'
    BY <1>1, <2>2, NoneAssumption DEF Reboot, LockOK, Resting, InTransition
  <2> QED BY <2>1, <2>3, <2>4
<1>2. CASE ~Reboot
  <2>1. UNCHANGED <<lock, pass>>
    BY <1>2 DEF Environment, Deploy, Query, FlowExpires, ResolverDies, Flush
  <2>2. LocalsOK' /\ LockOK'
    BY <2>1 DEF LocalsOK, LockOK
  <2>3. ASSUME NEW r \in Revisions, Deploy(r) PROVE BudgetsOK' /\ HostOK'
    BY <2>3 DEF Deploy, BudgetsOK, HostOK, filter, resolver, budgets
  <2>4. ASSUME NEW c \in Clients, Query(c) PROVE BudgetsOK' /\ HostOK'
    <3>1. ResolverOf[table][c] \in Resolvers
      BY <2>4, MappingAssumption DEF Query, HostOK
    <3> QED BY <2>4, <3>1 DEF Query, BudgetsOK, HostOK, budgets
  <2>5. ASSUME NEW f \in flows, FlowExpires(f) PROVE BudgetsOK' /\ HostOK'
    BY <2>5 DEF FlowExpires, BudgetsOK, HostOK, filter, resolver, budgets
  <2>6. ASSUME ResolverDies PROVE BudgetsOK' /\ HostOK'
    <3>1. BudgetsOK'
      BY <2>6, BoundsAssumption DEF ResolverDies, Outage, BudgetsOK
    <3>2. HostOK'
      BY <2>6 DEF ResolverDies, HostOK, filter
    <3> QED BY <3>1, <3>2
  <2>7. ASSUME Flush PROVE BudgetsOK' /\ HostOK'
    <3>1. BudgetsOK'
      BY <2>7, BoundsAssumption DEF Flush, Outage, BudgetsOK
    <3>2. HostOK'
      BY <2>7 DEF Flush, HostOK, resolver
    <3> QED BY <3>1, <3>2
  <2> QED BY <1>2, <2>2, <2>3, <2>4, <2>5, <2>6, <2>7 DEF Environment
<1> QED BY <1>1, <1>2

\* Every reachable state of HostPass is well typed, for any number of agents.
THEOREM HostTypeCorrect == Spec => []TypeOK
<1>1. Init => TypeOK
  <2> SUFFICES ASSUME Init PROVE BudgetsOK /\ LocalsOK /\ LockOK /\ HostOK
    BY DEF TypeOK, BudgetsOK, LocalsOK, LockOK, HostOK
  <2>1. BudgetsOK /\ HostOK
    <3>1. BudgetsOK
      BY BoundsAssumption DEF Init, BudgetsOK
    <3>2. HostOK
      BY DEF Init, Booted, HostOK
    <3> QED BY <3>1, <3>2
  <2>2. pass \in [Agents -> Passes] /\ \A a \in Agents : pass[a] = Resting
    BY DEF Init, Booted, Resting, Passes, Labels
  <2>3. LocalsOK
    BY <2>2 DEF LocalsOK, Resting
  <2>4. LockOK
    BY <2>2, NoneAssumption DEF Init, Booted, LockOK, Resting, InTransition
  <2> QED BY <2>1, <2>3, <2>4
<1>2. TypeOK /\ [Next]_vars => TypeOK'
  <2>1. ASSUME TypeOK, UNCHANGED vars PROVE TypeOK'
    BY <2>1 DEF vars, filter, resolver, budgets, TypeOK
  <2> QED BY <2>1, StepType, EnvironmentType DEF Next
<1> QED BY <1>1, <1>2, PTL DEF Spec

-----------------------------------------------------------------------------
(***************************************************************************)
(* The safety of HostPass on a host with one agent.  A second pass beside  *)
(* it can acknowledge a repopulation the first one still owes, so every    *)
(* theorem here assumes Agents = {me}.                                     *)
(***************************************************************************)

Begun == Labels \ {"idle", "transition"}
Filtered == Begun \ {"nft"}

(***************************************************************************)
(* The inductive invariant.  The safety properties are not inductive: that *)
(* a debt is on record depends on what each label of the pass has already  *)
(* done, and that an acknowledged host is converged on what the            *)
(* acknowledging pass had written and started.                             *)
(***************************************************************************)

\* From its transition on, the record is the pass's own.
Mine(me) ==
  pass[me].at \in Begun =>
    state # NoState /\ state.plan = PlanFor(me) /\ state.pend = pass[me].repop

\* What the transition is about to clear is on record until it is cleared.
Recorded(me) ==
  /\ pass[me].at = "nft" => pass[me].repop
  /\ pass[me].at \in InTransition =>
       /\ pass[me].scopes # {} => pass[me].repop
       /\ pass[me].repop => state.cleanup = pass[me].scopes

\* Past the load, the table is the pass's own, unless somebody flushed it.
Loaded(me) == pass[me].at \in Filtered => table \in {PlanFor(me), None}

\* Clients the loaded table redirects elsewhere than the record says are on
\* record as to be cleared.
TableOnRecord ==
  table # None /\ state # NoState =>
    \A c \in Clients : \/ ResolverOf[table][c] \in {None, ResolverOf[state.plan][c]}
                       \/ c \in state.cleanup

\* Between conntrack and the record of it, what was cleared stays clear.
Cleared(me) ==
  pass[me].at = "clean" =>
    \A f \in flows : f[1] \in pass[me].scopes => f[2] = ResolverOf[PlanFor(me)][f[1]]

\* Once the resolver is to be restarted its file is the pass's own.
Written(me) ==
  pass[me].at \in {"resolver_stop", "resolver_start", "commit"} => conf = ConfFor(me)

\* A pass that owes repopulation reaches its end with no address missing.
Refilled(me) == pass[me].at = "commit" /\ pass[me].repop => ~Misrouted

\* With nothing owed, table, file and process are those of the record.
Settled ==
  state # NoState /\ ~state.pend =>
    /\ table \in {state.plan, None}
    /\ conf = ConfOf[state.plan]
    /\ running \in {None, conf}

Converged(me) == pass[me].at = "commit" => running = ConfFor(me)

HostInv(me) ==
  /\ Mine(me) /\ Recorded(me) /\ Loaded(me) /\ Cleared(me)
  /\ Written(me) /\ Refilled(me) /\ Converged(me)
  /\ TableOnRecord /\ Settled
  /\ RepopulationOwed /\ StaleFlowsOwed

(* A pass that ends asks nothing of its locals.                            *)
LEMMA LeavingIsSafe ==
  ASSUME NEW me \in Agents, pass'[me] = Resting
  PROVE  Mine(me)' /\ Recorded(me)' /\ Loaded(me)' /\ Cleared(me)' /\ Written(me)' /\ Refilled(me)'
         /\ Converged(me)'
BY DEF Resting, Mine, Recorded, Loaded, Cleared, Written, Refilled, Converged, Begun, Filtered,
       Labels, InTransition

LEMMA LeaveRests ==
  ASSUME TypeOK, NEW me \in Agents, Leave(me) PROVE pass'[me] = Resting
BY DEF TypeOK, Leave

LEMMA GotoMoves ==
  ASSUME TypeOK, NEW me \in Agents, NEW label, Goto(me, label)
  PROVE  /\ pass'[me].at = label /\ pass'[me].rev = pass[me].rev
         /\ pass'[me].repop = pass[me].repop /\ pass'[me].scopes = pass[me].scopes
BY DEF TypeOK, Goto, Passes

LEMMA CollectMoves ==
  ASSUME TypeOK, NEW me \in Agents, NEW label, NEW w, CollectFilter(me, w, label)
  PROVE  /\ pass'[me].at = label /\ pass'[me].rev = pass[me].rev
         /\ pass'[me].repop = pass[me].repop /\ pass'[me].scopes = pass[me].scopes
BY DEF TypeOK, CollectFilter, Passes

(* The state the properties speak of, apart from the pass.                 *)
hostState == <<table, learned, flows, state, resolver>>
LEMMA HostKept ==
  ASSUME TableOnRecord, Settled, RepopulationOwed, StaleFlowsOwed, UNCHANGED hostState
  PROVE  TableOnRecord' /\ Settled' /\ RepopulationOwed' /\ StaleFlowsOwed'
BY DEF hostState, resolver, TableOnRecord, Settled, RepopulationOwed, StaleFlowsOwed, Misrouted

LEMMA StepSafe ==
  ASSUME NEW me \in Agents, TypeOK, TypeOK', HostInv(me), PassStep(me) \/ Crash(me)
  PROVE  HostInv(me)'
<1> DEFINE P == pass[me]
<1>0. /\ Mine(me) /\ Recorded(me) /\ Loaded(me) /\ Cleared(me)
      /\ Written(me) /\ Refilled(me) /\ Converged(me)
      /\ TableOnRecord /\ Settled /\ RepopulationOwed /\ StaleFlowsOwed
  BY DEF HostInv
<1> USE <1>0
<1>1. CASE StartPass(me)
  <2>1. pass'[me].at = "transition"
    BY <1>1 DEF StartPass, TypeOK, Resting
  <2>2. UNCHANGED hostState
    BY <1>1 DEF StartPass, hostState, filter
  <2> QED BY <2>1, <2>2, HostKept
      DEF HostInv, Mine, Recorded, Loaded, Cleared, Written, Refilled, Converged, Begun, Filtered,
          InTransition
<1>2. CASE Transition(me)
  <2> DEFINE p == PlanFor(me)
             owed == CleanupScopes(p)
  <2>1. PICK unreadable \in BOOLEAN :
          /\ state' = IF Repopulate(unreadable \/ table # p, owed)
                        THEN [plan |-> p, cleanup |-> owed, pend |-> TRUE] ELSE state
          /\ pass' = [pass EXCEPT ![me].at = IF unreadable \/ table # p THEN "nft" ELSE "clear",
                                  ![me].repop = Repopulate(unreadable \/ table # p, owed),
                                  ![me].scopes = owed]
    BY <1>2 DEF Transition
  <2> DEFINE again == Repopulate(unreadable \/ table # p, owed)
  <2>2. /\ pass'[me].at = IF unreadable \/ table # p THEN "nft" ELSE "clear"
        /\ pass'[me].repop = again /\ pass'[me].scopes = owed /\ pass'[me].rev = P.rev
    BY <2>1 DEF TypeOK, Passes
  <2>3. UNCHANGED <<table, learned, flows, conf, running, cached>>
    BY <1>2 DEF Transition, filter, resolver
  <2>4. p \in Plans /\ PlanFor(me)' = p
    BY <1>2, <2>2, MappingAssumption DEF TypeOK, Transition, At, PlanFor
  <2>5. CASE ~again
    <3>1. table = p /\ ~unreadable /\ state # NoState /\ ~state.pend /\ owed = {} /\ state' = state
      BY <2>1, <2>5 DEF Repopulate
    <3>2. state.plan = p
      BY <2>4, <3>1, NoneAssumption DEF Settled
    <3>3. again = FALSE
      BY <2>5, <3>1 DEF Repopulate
    <3>4. state.pend = FALSE
      BY <3>1 DEF TypeOK
    <3>5. Mine(me)'
      BY <2>2, <2>4, <3>1, <3>2, <3>3, <3>4 DEF Mine, NoState
    <3>6. Recorded(me)' /\ Loaded(me)' /\ Cleared(me)' /\ Written(me)' /\ Refilled(me)' /\ Converged(me)'
      BY <2>2, <2>3, <2>4, <3>1, <3>3
         DEF Recorded, Loaded, Cleared, Written, Refilled, Converged, Filtered, Begun
    <3> QED BY <2>3, <3>1, <3>5, <3>6, HostKept DEF HostInv, hostState, resolver
  <2>6. CASE again
    <3>1. state' = [plan |-> p, cleanup |-> owed, pend |-> TRUE]
      BY <2>1, <2>6
    <3>2. state' # NoState /\ again = TRUE
      BY <2>4, <2>6, <3>1, NoneAssumption DEF NoState, Repopulate
    <3>3. Mine(me)' /\ Recorded(me)' /\ Loaded(me)'
      BY <2>2, <2>3, <2>4, <3>1, <3>2
         DEF Mine, Recorded, Loaded, Filtered, Begun
    <3>4. Cleared(me)' /\ Written(me)' /\ Refilled(me)' /\ Converged(me)'
      BY <2>2 DEF Cleared, Written, Refilled, Converged
    <3>5. Settled' /\ RepopulationOwed'
      BY <3>1 DEF Settled, RepopulationOwed
    <3>6. TableOnRecord'
      <4> SUFFICES ASSUME table # None, NEW c \in Clients, c \notin owed, ResolverOf[table][c] # None
                   PROVE  ResolverOf[table][c] = ResolverOf[p][c]
        BY <2>3, <3>1 DEF TableOnRecord
      <4>1. state # NoState /\ c \notin state.cleanup
        BY DEF CleanupScopes
      <4>2. ResolverOf[table][c] = ResolverOf[state.plan][c]
        BY <4>1 DEF TableOnRecord
      <4> QED BY <4>1, <4>2 DEF CleanupScopes, Repinned
    <3>7. StaleFlowsOwed'
      <4> SUFFICES ASSUME NEW f \in flows, f[1] \notin owed
                   PROVE  f[2] = ResolverOf[p][f[1]]
        BY <2>3, <3>1 DEF StaleFlowsOwed
      <4>0. f[1] \in Clients /\ f[2] \in Resolvers /\ f[2] # None
        BY NoneAssumption DEF TypeOK
      <4>1. state # NoState /\ f[1] \notin state.cleanup
        BY <4>0 DEF CleanupScopes
      <4>2. f[2] = ResolverOf[state.plan][f[1]]
        BY <4>1 DEF StaleFlowsOwed
      <4> QED BY <4>0, <4>1, <4>2 DEF CleanupScopes, Repinned
    <3> QED BY <3>3, <3>4, <3>5, <3>6, <3>7 DEF HostInv
  <2> QED BY <2>5, <2>6
<1>3. CASE TransitionFails(me)
  <2>1. pass'[me] = Resting
    BY <1>3, LeaveRests DEF TransitionFails
  <2>2. UNCHANGED hostState
    BY <1>3 DEF TransitionFails, hostState, filter
  <2> QED BY <2>1, <2>2, HostKept, LeavingIsSafe DEF HostInv
<1>4. CASE LoadTable(me)
  <2>0. P.at = "nft" /\ P.repop /\ state # NoState /\ state.pend /\ state.plan = PlanFor(me)
    BY <1>4 DEF LoadTable, At, Mine, Recorded, Begun, Labels
  <2>1. UNCHANGED <<flows, state, conf, running, cached>>
    BY <1>4 DEF LoadTable, resolver
  <2>2. CASE UNCHANGED filter /\ Refused(me)
    <3>1. pass'[me] = Resting
      BY <2>2, LeaveRests DEF Refused
    <3> QED BY <2>1, <2>2, <3>1, HostKept, LeavingIsSafe DEF HostInv, hostState, filter, resolver
  <2>3. CASE table' = PlanFor(me) /\ Goto(me, "clear")
    <3>1. /\ pass'[me].at = "clear" /\ pass'[me].rev = P.rev
          /\ pass'[me].repop = P.repop /\ pass'[me].scopes = P.scopes
      BY <2>3, GotoMoves
    <3>2. PlanFor(me)' = PlanFor(me)
      BY <3>1 DEF PlanFor
    <3>3. Mine(me)' /\ Recorded(me)' /\ Loaded(me)'
      BY <2>0, <2>1, <2>3, <3>1, <3>2
         DEF Mine, Recorded, Loaded, Begun, Filtered, InTransition
    <3>4. Cleared(me)' /\ Written(me)' /\ Refilled(me)' /\ Converged(me)'
      BY <3>1 DEF Cleared, Written, Refilled, Converged
    <3>5. TableOnRecord' /\ Settled' /\ RepopulationOwed' /\ StaleFlowsOwed'
      BY <2>0, <2>1, <2>3 DEF TableOnRecord, Settled, RepopulationOwed, StaleFlowsOwed
    <3> QED BY <3>3, <3>4, <3>5 DEF HostInv
  <2> QED BY <1>4, <2>2, <2>3 DEF LoadTable
<1>5. CASE ClearFlows(me)
  <2>0. P.at = "clear"
    BY <1>5 DEF ClearFlows, At
  <2>1. UNCHANGED <<table, learned, state, conf, running, cached>>
    BY <1>5 DEF ClearFlows, filter, resolver
  <2>2. PICK w \in Outcomes, done \in SUBSET P.scopes :
          /\ w = "ok" => done = P.scopes
          /\ flows' = {f \in flows : f[1] \notin done}
          /\ AfterClear(me, w)
    BY <1>5 DEF ClearFlows
  <2>3. /\ pass'[me].at = IF w = "ok" THEN "clean" ELSE "ingress"
        /\ pass'[me].rev = P.rev /\ pass'[me].repop = P.repop /\ pass'[me].scopes = P.scopes
    BY <2>2, GotoMoves, CollectMoves DEF AfterClear
  <2>4. PlanFor(me)' = PlanFor(me)
    BY <2>3 DEF PlanFor
  <2>5. Mine(me)' /\ Recorded(me)' /\ Loaded(me)'
    BY <2>0, <2>1, <2>3, <2>4
       DEF Mine, Recorded, Loaded, Begun, Filtered, InTransition, Labels
  <2>6. Cleared(me)'
    BY <2>2, <2>3 DEF Cleared
  <2>7. Written(me)' /\ Refilled(me)' /\ Converged(me)'
    BY <2>3 DEF Written, Refilled, Converged
  <2>8. TableOnRecord' /\ Settled' /\ RepopulationOwed' /\ StaleFlowsOwed'
    BY <2>1, <2>2 DEF TableOnRecord, Settled, RepopulationOwed, Misrouted, StaleFlowsOwed
  <2> QED BY <2>5, <2>6, <2>7, <2>8 DEF HostInv
<1>6. CASE CleanScopes(me)
  <2>0. /\ P.at = "clean" /\ state # NoState /\ state.plan = PlanFor(me) /\ state.pend = P.repop
        /\ table \in {PlanFor(me), None}
    BY <1>6 DEF CleanScopes, At, Mine, Loaded, Begun, Filtered, Labels
  <2>1. UNCHANGED <<table, learned, flows, conf, running, cached>>
    BY <1>6 DEF CleanScopes, filter, resolver
  <2>2. PICK w \in Outcomes :
          /\ state' = IF w = "ok" /\ P.scopes # {}
                        THEN [plan |-> PlanFor(me), cleanup |-> {}, pend |-> TRUE] ELSE state
          /\ CollectFilter(me, w, "ingress")
    BY <1>6 DEF CleanScopes
  <2>3. /\ pass'[me].at = "ingress"
        /\ pass'[me].rev = P.rev /\ pass'[me].repop = P.repop /\ pass'[me].scopes = P.scopes
    BY <2>2, CollectMoves
  <2>4. PlanFor(me)' = PlanFor(me)
    BY <2>3 DEF PlanFor
  <2>5. Recorded(me)' /\ Cleared(me)' /\ Written(me)' /\ Refilled(me)' /\ Converged(me)' /\ Loaded(me)'
    BY <2>0, <2>1, <2>3, <2>4
       DEF Recorded, Cleared, Written, Refilled, Converged, Loaded, InTransition
  <2>6. CASE state' = state
    <3>1. Mine(me)'
      BY <2>0, <2>3, <2>4, <2>6 DEF Mine, NoState
    <3> QED BY <2>1, <2>5, <2>6, <3>1, HostKept DEF HostInv, hostState, resolver
  <2>7. CASE state' = [plan |-> PlanFor(me), cleanup |-> {}, pend |-> TRUE] /\ P.scopes # {}
    <3>1. P.repop = TRUE /\ state.cleanup = P.scopes
      BY <2>0, <2>7 DEF Recorded, InTransition, TypeOK, Passes
    <3>2. Mine(me)' /\ Settled' /\ RepopulationOwed'
      BY <2>3, <2>4, <2>7, <3>1 DEF Mine, Settled, RepopulationOwed, NoState
    <3>3. TableOnRecord'
      BY <2>0, <2>1, <2>7 DEF TableOnRecord
    <3>4. StaleFlowsOwed'
      <4> SUFFICES ASSUME NEW f \in flows PROVE f[2] = ResolverOf[PlanFor(me)][f[1]]
        BY <2>1, <2>7 DEF StaleFlowsOwed
      <4> QED BY <2>0, <3>1 DEF StaleFlowsOwed, Cleared
    <3> QED BY <2>5, <3>2, <3>3, <3>4 DEF HostInv
  <2> QED BY <2>2, <2>6, <2>7
<1>7. CASE IngressApply(me) \/ EgressApply(me)
  <2>1. UNCHANGED hostState
    BY <1>7 DEF IngressApply, EgressApply, hostState, filter
  <2>2. P.at \in {"ingress", "egress"}
    BY <1>7 DEF IngressApply, EgressApply, At
  <2>3. CASE Leave(me)
    BY <2>1, <2>3, LeaveRests, LeavingIsSafe, HostKept DEF HostInv
  <2>4. CASE Goto(me, "egress") \/ Goto(me, "resolver_write")
    <3>1. /\ pass'[me].at \in {"egress", "resolver_write"}
          /\ pass'[me].rev = P.rev /\ pass'[me].repop = P.repop /\ pass'[me].scopes = P.scopes
      BY <2>4, GotoMoves
    <3>2. PlanFor(me)' = PlanFor(me)
      BY <3>1 DEF PlanFor
    <3>3. Mine(me)' /\ Loaded(me)'
      BY <2>1, <2>2, <3>1, <3>2 DEF Mine, Loaded, hostState, Begun, Filtered, Labels
    <3>4. Recorded(me)' /\ Cleared(me)' /\ Written(me)' /\ Refilled(me)' /\ Converged(me)'
      BY <3>1 DEF Recorded, Cleared, Written, Refilled, Converged, InTransition
    <3> QED BY <2>1, <3>3, <3>4, HostKept DEF HostInv
  <2> QED BY <1>7, <2>3, <2>4 DEF IngressApply, EgressApply
<1>8. CASE ResolverWrite(me)
  <2>0. /\ P.at = "resolver_write" /\ state # NoState /\ state.plan = PlanFor(me)
        /\ state.pend = P.repop /\ table \in {PlanFor(me), None}
    BY <1>8 DEF ResolverWrite, At, Mine, Loaded, Begun, Filtered, Labels
  <2>1. UNCHANGED <<table, learned, flows, state, running, cached>>
    BY <1>8 DEF ResolverWrite, filter
  <2>2. ~P.repop => conf = ConfFor(me) /\ running \in {None, conf}
    BY <2>0 DEF Settled, ConfFor
  <2>3. Settled' \/ state.pend
    BY <1>8, <2>0, <2>1, <2>2 DEF ResolverWrite, Settled, ConfFor
  <2>4. TableOnRecord' /\ Settled' /\ RepopulationOwed' /\ StaleFlowsOwed'
    BY <2>1, <2>3 DEF TableOnRecord, Settled, RepopulationOwed, Misrouted, StaleFlowsOwed
  <2>5. CASE Leave(me)
    BY <2>4, <2>5, LeaveRests, LeavingIsSafe DEF HostInv
  <2>6. CASE conf' = ConfFor(me) /\ Goto(me, IF MustRestart(me) THEN "resolver_stop" ELSE "commit")
    <3>1. /\ pass'[me].at = IF MustRestart(me) THEN "resolver_stop" ELSE "commit"
          /\ pass'[me].rev = P.rev /\ pass'[me].repop = P.repop /\ pass'[me].scopes = P.scopes
      BY <2>6, GotoMoves
    <3>2. PlanFor(me)' = PlanFor(me) /\ ConfFor(me)' = ConfFor(me)
      BY <3>1 DEF PlanFor, ConfFor
    <3>3. Mine(me)' /\ Loaded(me)' /\ Written(me)'
      BY <2>0, <2>1, <2>6, <3>1, <3>2 DEF Mine, Loaded, Written, NoState
    <3>4. Recorded(me)' /\ Cleared(me)'
      BY <3>1 DEF Recorded, Cleared, InTransition
    <3>5. Refilled(me)' /\ Converged(me)'
      BY <2>1, <2>2, <3>1, <3>2 DEF Refilled, Converged, MustRestart
    <3> QED BY <2>4, <3>3, <3>4, <3>5 DEF HostInv
  <2> QED BY <1>8, <2>5, <2>6 DEF ResolverWrite
<1>9. CASE ResolverStop(me)
  <2>0. P.at = "resolver_stop"
    BY <1>9 DEF ResolverStop, At
  <2>1. UNCHANGED <<table, learned, flows, state, conf>>
    BY <1>9 DEF ResolverStop, filter
  <2>2. running' \in {None, running} /\ (cached' => cached)
    BY <1>9 DEF ResolverStop
  <2>3. /\ pass'[me].at = "resolver_start" /\ pass'[me].rev = P.rev
        /\ pass'[me].repop = P.repop /\ pass'[me].scopes = P.scopes
    BY <1>9, GotoMoves DEF ResolverStop
  <2>4. PlanFor(me)' = PlanFor(me) /\ ConfFor(me)' = ConfFor(me)
    BY <2>3 DEF PlanFor, ConfFor
  <2>5. Mine(me)' /\ Loaded(me)' /\ Written(me)'
    BY <2>0, <2>1, <2>3, <2>4 DEF Mine, Loaded, Written, Begun, Filtered, Labels
  <2>6. Recorded(me)' /\ Cleared(me)' /\ Refilled(me)' /\ Converged(me)'
    BY <2>3 DEF Recorded, Cleared, Refilled, Converged, InTransition
  <2>7. TableOnRecord' /\ Settled' /\ RepopulationOwed' /\ StaleFlowsOwed'
    BY <2>1, <2>2 DEF TableOnRecord, Settled, RepopulationOwed, Misrouted, StaleFlowsOwed
  <2> QED BY <2>5, <2>6, <2>7 DEF HostInv
<1>10. CASE ResolverStart(me)
  <2>0. P.at = "resolver_start" /\ conf = ConfFor(me)
    BY <1>10 DEF ResolverStart, At, Written
  <2>1. UNCHANGED <<table, learned, flows, state, conf, cached>>
    BY <1>10 DEF ResolverStart, filter
  <2>2. CASE Leave(me) /\ UNCHANGED running
    BY <2>1, <2>2, LeaveRests, LeavingIsSafe, HostKept DEF HostInv, hostState, resolver
  <2>3. CASE running = None /\ running' = conf /\ Goto(me, "commit")
    <3>1. /\ pass'[me].at = "commit" /\ pass'[me].rev = P.rev
          /\ pass'[me].repop = P.repop /\ pass'[me].scopes = P.scopes
      BY <2>3, GotoMoves
    <3>2. PlanFor(me)' = PlanFor(me) /\ ConfFor(me)' = ConfFor(me)
      BY <3>1 DEF PlanFor, ConfFor
    <3>3. Mine(me)' /\ Loaded(me)' /\ Written(me)' /\ Converged(me)'
      BY <2>0, <2>1, <2>3, <3>1, <3>2
         DEF Mine, Loaded, Written, Converged, Begun, Filtered, Labels
    <3>4. Recorded(me)' /\ Cleared(me)'
      BY <3>1 DEF Recorded, Cleared, InTransition
    <3>5. Refilled(me)'
      BY <2>1, <2>3 DEF Refilled, Misrouted, TypeOK
    <3>6. TableOnRecord' /\ Settled' /\ RepopulationOwed' /\ StaleFlowsOwed'
      BY <2>1, <2>3 DEF TableOnRecord, Settled, RepopulationOwed, Misrouted, StaleFlowsOwed
    <3> QED BY <3>3, <3>4, <3>5, <3>6 DEF HostInv
  <2> QED BY <1>10, <2>2, <2>3 DEF ResolverStart
<1>11. CASE Commit(me)
  <2>0. /\ P.at = "commit" /\ state # NoState /\ state.plan = PlanFor(me)
        /\ state.pend = P.repop /\ table \in {PlanFor(me), None}
        /\ conf = ConfFor(me) /\ running = ConfFor(me)
    BY <1>11 DEF Commit, At, Mine, Loaded, Written, Converged, Begun, Filtered, Labels
  <2>1. UNCHANGED <<table, learned, flows, conf, running, cached>>
    BY <1>11 DEF Commit, filter, resolver
  <2>2. pass'[me] = Resting
    BY <1>11, LeaveRests DEF Commit
  <2>3. CASE state' = state
    BY <2>1, <2>2, <2>3, LeavingIsSafe, HostKept DEF HostInv, hostState, resolver
  <2>4. CASE state' = [state EXCEPT !.pend = FALSE] /\ P.repop
    <3>0. state'.plan = state.plan /\ state'.cleanup = state.cleanup
      BY <2>0, <2>4 DEF TypeOK
    <3>1. TableOnRecord' /\ StaleFlowsOwed'
      BY <2>0, <2>1, <3>0 DEF TableOnRecord, StaleFlowsOwed
    <3>2. Settled'
      BY <2>0, <2>1, <3>0 DEF Settled, ConfFor
    <3>3. RepopulationOwed'
      BY <2>0, <2>1, <2>4 DEF RepopulationOwed, Refilled, Misrouted
    <3> QED BY <2>2, <3>1, <3>2, <3>3, LeavingIsSafe DEF HostInv
  <2> QED BY <1>11, <2>3, <2>4 DEF Commit
<1>12. CASE Crash(me)
  <2>1. pass'[me] = Resting
    BY <1>12, LeaveRests DEF Crash
  <2>2. UNCHANGED hostState
    BY <1>12 DEF Crash, hostState, filter
  <2> QED BY <2>1, <2>2, HostKept, LeavingIsSafe DEF HostInv
<1> QED
  BY <1>1, <1>2, <1>3, <1>4, <1>5, <1>6, <1>7, <1>8, <1>9, <1>10, <1>11, <1>12 DEF PassStep

LEMMA EnvironmentSafe ==
  ASSUME NEW me \in Agents, TypeOK, TypeOK', HostInv(me), Environment
  PROVE  HostInv(me)'
<1>0. /\ Mine(me) /\ Recorded(me) /\ Loaded(me) /\ Cleared(me)
      /\ Written(me) /\ Refilled(me) /\ Converged(me)
      /\ TableOnRecord /\ Settled /\ RepopulationOwed /\ StaleFlowsOwed
  BY DEF HostInv
<1> USE <1>0
<1>1. CASE Reboot
  <2>1. pass'[me] = Resting
    BY <1>1 DEF Reboot
  <2>2. TableOnRecord' /\ Settled' /\ RepopulationOwed' /\ StaleFlowsOwed'
    BY <1>1 DEF Reboot, TableOnRecord, Settled, RepopulationOwed, StaleFlowsOwed
  <2> QED BY <2>1, <2>2, LeavingIsSafe DEF HostInv
<1>2. ASSUME ~Reboot PROVE HostInv(me)'
  <2>1. UNCHANGED <<pass, state, conf>>
    BY <1>2 DEF Environment, Deploy, Query, FlowExpires, ResolverDies, Flush, resolver
  <2>2. Mine(me)' /\ Recorded(me)' /\ Written(me)'
    BY <2>1 DEF Mine, Recorded, Written, PlanFor, ConfFor
  <2>3. table' \in {table, None}
    BY <1>2 DEF Environment, Deploy, Query, FlowExpires, ResolverDies, Flush, filter
  <2>4. Loaded(me)' /\ TableOnRecord'
    BY <2>1, <2>3 DEF Loaded, TableOnRecord, PlanFor
  <2>5. running' \in {running, conf}
    BY <1>2 DEF Environment, Deploy, Query, FlowExpires, ResolverDies, Flush, resolver
  <2>6. Settled' /\ Converged(me)'
    BY <2>1, <2>3, <2>5 DEF Settled, Converged, Written, PlanFor, ConfFor
  <2>7. Misrouted' => Misrouted
    BY <1>2 DEF Environment, Deploy, Query, FlowExpires, ResolverDies, Flush, filter, resolver,
                Misrouted
  <2>8. RepopulationOwed' /\ Refilled(me)'
    BY <2>1, <2>7 DEF RepopulationOwed, Refilled
  <2>9. \A f \in flows' : \/ f \in flows
                          \/ /\ f[1] \in Clients /\ table # None
                             /\ f[2] = ResolverOf[table][f[1]] /\ f[2] # None
    BY <1>2 DEF Environment, Deploy, Query, FlowExpires, ResolverDies, Flush
  <2>10. StaleFlowsOwed'
    <3> SUFFICES ASSUME NEW f \in flows', state # NoState, f[1] \notin state.cleanup
                 PROVE  f[2] = ResolverOf[state.plan][f[1]]
      BY <2>1 DEF StaleFlowsOwed
    <3> QED BY <2>9 DEF StaleFlowsOwed, TableOnRecord
  <2>11. Cleared(me)'
    <3> SUFFICES ASSUME pass[me].at = "clean", NEW f \in flows', f[1] \in pass[me].scopes
                 PROVE  f[2] = ResolverOf[PlanFor(me)][f[1]]
      BY <2>1 DEF Cleared, PlanFor
    <3>1. table # None => table = PlanFor(me)
      BY DEF Loaded, Filtered, Begun, Labels
    <3> QED BY <2>9, <3>1 DEF Cleared
  <2> QED BY <2>2, <2>4, <2>6, <2>8, <2>10, <2>11 DEF HostInv
<1> QED BY <1>1, <1>2

\* With one agent, HostInv holds in every reachable state.
THEOREM HostInvariant == ASSUME NEW me, Agents = {me} PROVE Spec => []HostInv(me)
<1>0. me \in Agents
  OBVIOUS
<1>1. Init => HostInv(me)
  BY <1>0 DEF Init, Booted, Resting, HostInv, Mine, Recorded, Loaded, Cleared, Written, Refilled,
              Converged, TableOnRecord, Settled, RepopulationOwed, Misrouted, StaleFlowsOwed,
              Begun, Filtered, Labels, InTransition
<1>2. TypeOK /\ TypeOK' /\ HostInv(me) /\ [Next]_vars => HostInv(me)'
  <2>1. ASSUME HostInv(me), UNCHANGED vars PROVE HostInv(me)'
    <3>1. UNCHANGED <<pass, table, learned, flows, state, conf, running, cached>>
      BY <2>1 DEF vars, filter, resolver
    <3> QED BY <2>1, <3>1
        DEF HostInv, Mine, Recorded, Loaded, Cleared, Written, Refilled, Converged, TableOnRecord,
            Settled, RepopulationOwed, Misrouted, StaleFlowsOwed, PlanFor, ConfFor
  <2> QED BY <1>0, <2>1, StepSafe, EnvironmentSafe DEF Next
<1> QED BY <1>1, <1>2, HostTypeCorrect, PTL DEF Spec

\* While a private address is missing from the loaded table, the restart that
\* brings it back is on record: whatever failed or died, for any number of
\* revisions, clients, faults and outages.
THEOREM RepopulationAlwaysOwed == ASSUME NEW me, Agents = {me} PROVE Spec => []RepopulationOwed
<1>1. HostInv(me) => RepopulationOwed
  BY DEF HostInv
<1> QED BY <1>1, HostInvariant, PTL

\* A DNS flow pinned to a resolver that is no longer its client's is on record
\* as to be cleared.
THEOREM StaleFlowsAlwaysOwed == ASSUME NEW me, Agents = {me} PROVE Spec => []StaleFlowsOwed
<1>1. HostInv(me) => StaleFlowsOwed
  BY DEF HostInv
<1> QED BY <1>1, HostInvariant, PTL

\* A pass past Dnsmasq.Apply leaves the resolver running its configuration.
THEOREM ResolverAlwaysConverged == ASSUME NEW me, Agents = {me} PROVE Spec => []ResolverConverged
<1>1. HostInv(me) => ResolverConverged
  BY DEF HostInv, Converged, ResolverConverged, At
<1> QED BY <1>1, HostInvariant, PTL

\* The ingress is set up for a revision only under that revision's rules, or
\* under none after somebody flushed them.
THEOREM FilterAlwaysFirst == ASSUME NEW me, Agents = {me} PROVE Spec => FilterFirst
<1>1. TypeOK /\ HostInv(me) /\ [Next]_vars =>
        [ingress' \notin {ingress, None} => table \in {PlanOf[ingress'], None}]_vars
  <2> SUFFICES ASSUME TypeOK, HostInv(me), Next, ingress' \notin {ingress, None}
               PROVE  table \in {PlanOf[ingress'], None}
    BY DEF vars
  <2>1. IngressApply(me)
    BY DEF Next, PassStep, Environment, StartPass, Transition, TransitionFails, LoadTable, ClearFlows,
           CleanScopes, EgressApply, ResolverWrite, ResolverStop, ResolverStart, Commit, Crash,
           Deploy, Query, FlowExpires, ResolverDies, Flush, Reboot
  <2>2. ingress' = pass[me].rev /\ pass[me].at = "ingress"
    BY <2>1 DEF IngressApply, At
  <2> QED BY <2>2 DEF HostInv, Loaded, Filtered, Begun, Labels, PlanFor
<1> QED BY <1>1, HostInvariant, HostTypeCorrect, PTL DEF Spec, FilterFirst
=============================================================================

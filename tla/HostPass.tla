------------------------------ MODULE HostPass ------------------------------
(***************************************************************************)
(* One pass of the host reconciler, adapter by adapter: packet filter,     *)
(* ingress, egress, resolver, and the acknowledgement of the resolver's    *)
(* repopulation.  A step of this module is one command or one file write;  *)
(* a pass may fail or die between any two of them, and clients go on       *)
(* resolving names while it runs.                                          *)
(*                                                                         *)
(* Replacing the nft table empties the sets that hold the addresses the    *)
(* resolver learned for private zones, and a client whose address is       *)
(* missing there is routed to the internet.  The resolver adds an address  *)
(* only when it answers from upstream, not from its cache, so it has to be *)
(* restarted after every replacement.  dns-conntrack-state in the runtime  *)
(* directory remembers across passes that this is owed, and which clients  *)
(* still have DNS flows pinned to a resolver they no longer belong to.     *)
(*                                                                         *)
(* One private name stands for all of them, one resolver process for all   *)
(* that a pass manages: `cached` says it holds the answer, `learned` that  *)
(* the address is in the nft set.                                          *)
(***************************************************************************)
EXTENDS Integers

CONSTANTS
  Revisions,     \* desired states
  Plans,         \* firewall plans
  Confs,         \* resolver configurations
  PlanOf,        \* [Revisions -> Plans]
  ConfOf,        \* [Plans -> Confs]: the resolvers are derived from the firewall plan
  Clients,       \* client addresses
  Resolvers,     \* resolver addresses DNS is redirected to
  ResolverOf,    \* [Plans -> [Clients -> Resolvers \cup {None}]], None: not admitted
  Agents,        \* `serve`, and one-shot `reconcile` runs beside it
  None,
  MaxFaults,     \* bound: commands and writes that fail
  MaxCrashes,    \* bound: passes that die
  MaxOutages     \* bound: reboots, flushes of the ruleset, crashes of the resolver

ASSUME NoneAssumption ==
  None \notin Revisions \cup Plans \cup Confs \cup Resolvers \cup Agents
ASSUME MappingAssumption ==
  /\ PlanOf \in [Revisions -> Plans]
  /\ ConfOf \in [Plans -> Confs]
  /\ ResolverOf \in [Plans -> [Clients -> Resolvers \cup {None}]]
ASSUME BoundsAssumption ==
  MaxFaults \in Nat /\ MaxCrashes \in Nat /\ MaxOutages \in Nat

VARIABLES
  desired,   \* the revision in desired-state.json
  table,     \* plan of the loaded nft table (its fingerprint), None when absent
  learned,   \* is the private address in the table's set?
  flows,     \* DNS flows conntrack holds: <<client, resolver>>
  state,     \* dns-conntrack-state: plan, clients to clear, repopulation owed
  ingress,   \* revision the ingress interface was last set up for
  conf,      \* resolver configuration on disk, None when absent or half written
  running,   \* configuration the resolver was started with, None when stopped
  cached,    \* does the resolver hold the private answer?
  lock,      \* holder of the runtime directory lock
  pass,      \* where each agent's pass stands, with the locals of Apply
  faults, crashes, outages   \* how much of the budgets is spent

filter == <<table, learned>>
resolver == <<conf, running, cached>>
budgets == <<faults, crashes, outages>>
vars == <<desired, filter, flows, state, ingress, resolver, lock, pass, budgets>>

Labels == {"idle", "transition", "nft", "clear", "clean", "ingress", "egress",
           "resolver_write", "resolver_stop", "resolver_start", "commit"}
InTransition == {"nft", "clear", "clean"}
NoState == [plan |-> None, cleanup |-> {}, pend |-> FALSE]

\* A pass: label, revision, must DNS repopulate, clients to clear, did the
\* filter fail.
Passes ==
  [at : Labels, rev : Revisions \cup {None}, repop : BOOLEAN, scopes : SUBSET Clients,
   fwerr : BOOLEAN]
Resting ==
  [at |-> "idle", rev |-> None, repop |-> FALSE, scopes |-> {}, fwerr |-> FALSE]

TypeOK ==
  /\ desired \in Revisions
  /\ table \in Plans \cup {None}
  /\ learned \in BOOLEAN /\ (table = None => ~learned)
  /\ flows \subseteq Clients \X Resolvers
  /\ state = NoState \/ state \in [plan : Plans, cleanup : SUBSET Clients, pend : BOOLEAN]
  /\ ingress \in Revisions \cup {None}
  /\ conf \in Confs \cup {None}
  /\ running \in Confs \cup {None}
  /\ cached \in BOOLEAN /\ (running = None => ~cached)
  /\ lock \in Agents \cup {None}
  /\ pass \in [Agents -> Passes]
  /\ \A a \in Agents : /\ lock = a <=> pass[a].at \in InTransition
                       /\ pass[a].at = "idle" <=> pass[a] = Resting
                       /\ pass[a].at # "idle" => pass[a].rev \in Revisions
  /\ faults \in 0 .. MaxFaults
  /\ crashes \in 0 .. MaxCrashes
  /\ outages \in 0 .. MaxOutages

\* A host that has just booted: the runtime directory and the kernel are empty.
Booted ==
  /\ table = None /\ learned = FALSE /\ flows = {} /\ state = NoState
  /\ ingress = None
  /\ conf = None /\ running = None /\ cached = FALSE
  /\ lock = None
  /\ pass = [a \in Agents |-> Resting]

Init ==
  /\ desired \in Revisions
  /\ Booted
  /\ faults = 0 /\ crashes = 0 /\ outages = 0

-----------------------------------------------------------------------------
Outcomes == {"ok"} \cup (IF faults < MaxFaults THEN {"fails"} ELSE {})
Spend(w) ==
  faults' = faults + (IF w = "ok" THEN 0 ELSE 1) /\ UNCHANGED <<crashes, outages>>

At(a, label) == pass[a].at = label
Goto(a, label) == pass' = [pass EXCEPT ![a].at = label]
Leave(a) == pass' = [pass EXCEPT ![a] = Resting]
\* Go on after a failure of the filter, which Apply collects.
CollectFilter(a, w, label) ==
  pass' = [pass EXCEPT ![a].at = label, ![a].fwerr = @ \/ w = "fails"]

PlanFor(a) == PlanOf[pass[a].rev]
ConfFor(a) == ConfOf[PlanFor(a)]

\* The pass reads the desired state and compiles it.  Failing to, or failing
\* to observe the host, ends it with nothing changed.
StartPass(a) ==
  /\ At(a, "idle")
  /\ pass' = [pass EXCEPT ![a] = [Resting EXCEPT !.at = "transition", !.rev = desired]]
  /\ UNCHANGED <<desired, filter, flows, state, ingress, resolver, lock, budgets>>

-----------------------------------------------------------------------------
(* NFTables.Apply, under the runtime directory lock.                       *)

\* The lock is given back on every way out.  Mutant: an early return keeps it.
ReleaseForgotten == UNCHANGED lock
Release == lock' = None

\* Clients whose DNS flows a transition to plan p must clear: everyone when
\* nothing is known, else those still owed and those whose resolver changes
\* or who are no longer admitted.  Mutant: earlier debts are forgotten.
Repinned(p) == {c \in Clients : ResolverOf[state.plan][c] \notin {None, ResolverOf[p][c]}}
CleanupFresh(p) == IF state = NoState THEN Clients ELSE Repinned(p)
CleanupScopes(p) == IF state = NoState THEN Clients ELSE state.cleanup \cup Repinned(p)

\* Must the resolver be restarted?  Mutant: only if the table is rebuilt now.
RepopulateOnRebuild(rebuilt, owed) == rebuilt
Repopulate(rebuilt, owed) == rebuilt \/ state = NoState \/ state.pend \/ owed # {}

\* The transition is recorded before the table is touched.  A table that
\* cannot be read is rebuilt.
Transition(a) ==
  LET p == PlanFor(a)
      owed == CleanupScopes(p)
  IN
  /\ At(a, "transition")
  /\ lock = None
  /\ \E unreadable \in (IF faults < MaxFaults THEN BOOLEAN ELSE {FALSE}) :
       LET rebuilt == unreadable \/ table # p
           again == Repopulate(rebuilt, owed)
       IN
       /\ Spend(IF unreadable THEN "fails" ELSE "ok")
       /\ state' = IF again THEN [plan |-> p, cleanup |-> owed, pend |-> TRUE] ELSE state
       /\ pass' = [pass EXCEPT ![a].at = IF rebuilt THEN "nft" ELSE "clear",
                               ![a].repop = again, ![a].scopes = owed]
  /\ lock' = a
  /\ UNCHANGED <<desired, filter, flows, ingress, resolver>>

\* The record cannot be read or written: nothing is touched, the pass ends.
TransitionFails(a) ==
  /\ At(a, "transition")
  /\ lock = None
  /\ "fails" \in Outcomes /\ Spend("fails")
  /\ Leave(a)
  /\ UNCHANGED <<desired, filter, flows, state, ingress, resolver, lock>>

\* nft -f refuses: the old table stays and the pass ends.
Refused(a) == Leave(a) /\ Release

\* nft -f replaces the table atomically, with empty sets.
LoadTable(a) ==
  /\ At(a, "nft")
  /\ \E w \in Outcomes :
       /\ Spend(w)
       /\ IF w = "ok"
            THEN /\ table' = PlanFor(a) /\ learned' = FALSE
                 /\ Goto(a, "clear") /\ UNCHANGED lock
            ELSE Refused(a) /\ UNCHANGED filter
  /\ UNCHANGED <<desired, flows, state, ingress, resolver>>

\* conntrack -D, client by client; it stops at the first failure, having
\* cleared some of them.  Mutant: the failure is not looked at.
AfterClearAnyway(a, w) == Goto(a, "clean") /\ UNCHANGED lock
AfterClear(a, w) ==
  IF w = "ok" THEN Goto(a, "clean") /\ UNCHANGED lock
              ELSE CollectFilter(a, w, "ingress") /\ Release

ClearFlows(a) ==
  /\ At(a, "clear")
  /\ \E w \in Outcomes : \E done \in SUBSET pass[a].scopes :
       /\ w = "ok" => done = pass[a].scopes
       /\ w = "fails" => pass[a].scopes # {}
       /\ Spend(w)
       /\ flows' = {f \in flows : f[1] \notin done}
       /\ AfterClear(a, w)
  /\ UNCHANGED <<desired, filter, state, ingress, resolver>>

\* Record that the flows are cleared, and give the lock back.
CleanScopes(a) ==
  /\ At(a, "clean")
  /\ \E w \in Outcomes :
       /\ pass[a].scopes = {} => w = "ok"
       /\ Spend(w)
       /\ state' = IF w = "ok" /\ pass[a].scopes # {}
                     THEN [plan |-> PlanFor(a), cleanup |-> {}, pend |-> TRUE] ELSE state
       /\ CollectFilter(a, w, "ingress")
  /\ Release
  /\ UNCHANGED <<desired, filter, flows, ingress, resolver>>

-----------------------------------------------------------------------------
(* The rest of HostReconciler.Apply.                                       *)

\* A failing ingress ends the pass, unless the sets were emptied: then the
\* resolver must be reached.
IngressApply(a) ==
  /\ At(a, "ingress")
  /\ \E w \in Outcomes :
       /\ Spend(w)
       /\ ingress' = IF w = "ok" THEN pass[a].rev ELSE ingress
       /\ IF w = "ok" \/ pass[a].repop THEN Goto(a, "egress") ELSE Leave(a)
  /\ UNCHANGED <<desired, filter, flows, state, resolver, lock>>

\* A failing egress is reported and holds nothing back.
EgressApply(a) ==
  /\ At(a, "egress")
  /\ \E w \in Outcomes : Spend(w)
  /\ Goto(a, "resolver_write")
  /\ UNCHANGED <<desired, filter, flows, state, ingress, resolver, lock>>

\* Is the resolver to be replaced?  Mutant: what the filter owes is ignored.
RestartWhenChanged(a) == conf # ConfFor(a) \/ running = None
MustRestart(a) == conf # ConfFor(a) \/ pass[a].repop \/ running = None

\* Dnsmasq.Apply writes the configuration in place, if it differs: a failed
\* write may leave half of it.
ResolverWrite(a) ==
  /\ At(a, "resolver_write")
  /\ \/ /\ Spend("ok")
        /\ conf' = ConfFor(a)
        /\ Goto(a, IF MustRestart(a) THEN "resolver_stop" ELSE "commit")
     \/ /\ conf # ConfFor(a)
        /\ "fails" \in Outcomes /\ Spend("fails")
        /\ conf' \in {conf, None}
        /\ Leave(a)
  /\ UNCHANGED <<desired, filter, flows, state, ingress, running, cached, lock>>

\* A stop that fails is not noticed.
ResolverStop(a) ==
  /\ At(a, "resolver_stop")
  /\ \E w \in Outcomes :
       /\ Spend(w)
       /\ running' = IF w = "ok" THEN None ELSE running
       /\ cached' = (cached /\ w = "fails")
  /\ Goto(a, "resolver_start")
  /\ UNCHANGED <<desired, filter, flows, state, ingress, conf, lock>>

\* systemd-run refuses a unit name that is still taken.  A failing resolver
\* is not acknowledged: the pass goes no further.
ResolverStart(a) ==
  /\ At(a, "resolver_start")
  /\ \E w \in Outcomes :
       /\ Spend(w)
       /\ IF w = "ok" /\ running = None
            THEN running' = conf /\ Goto(a, "commit")
            ELSE Leave(a) /\ UNCHANGED running
  /\ UNCHANGED <<desired, filter, flows, state, ingress, conf, cached, lock>>

\* CommitDNSRepopulation may clear the debt only of this very plan, and only
\* once its flows are cleared.
MayCommit(a) == state # NoState /\ state.plan = PlanFor(a) /\ state.cleanup = {}

\* The end of the pass.  Nothing is acknowledged after a failure of the
\* filter step; one of the ingress or the egress does not hold it back.
Commit(a) ==
  /\ At(a, "commit")
  /\ \/ /\ pass[a].repop /\ ~pass[a].fwerr
        /\ lock = None
        /\ \E w \in Outcomes :
             /\ Spend(w)
             /\ state' = IF w = "ok" /\ MayCommit(a) THEN [state EXCEPT !.pend = FALSE] ELSE state
     \/ /\ ~pass[a].repop \/ pass[a].fwerr
        /\ Spend("ok") /\ UNCHANGED state
  /\ Leave(a)
  /\ UNCHANGED <<desired, filter, flows, ingress, resolver, lock>>

\* A pass dies; the kernel drops its lock.  The service is started again.
Crash(a) ==
  /\ ~At(a, "idle")
  /\ crashes < MaxCrashes
  /\ crashes' = crashes + 1
  /\ Leave(a)
  /\ lock' = IF lock = a THEN None ELSE lock
  /\ UNCHANGED <<desired, filter, flows, state, ingress, resolver, faults, outages>>

-----------------------------------------------------------------------------
(* What the host and its clients do meanwhile.                             *)

\* A deploy or a rollback replaces desired-state.json.
Deploy(r) ==
  /\ r # desired
  /\ desired' = r
  /\ UNCHANGED <<filter, flows, state, ingress, resolver, lock, pass, budgets>>

\* A client resolves the private name.  Its packets go where an existing flow
\* of its says, else where the table redirects it now.
Query(c) ==
  /\ table # None
  /\ ResolverOf[table][c] # None
  /\ flows' = IF \E f \in flows : f[1] = c THEN flows
              ELSE flows \cup {<<c, ResolverOf[table][c]>>}
  /\ cached' = (running # None)
  /\ learned' = (learned \/ (running # None /\ ~cached))
  /\ UNCHANGED <<desired, table, state, ingress, conf, running, lock, pass, budgets>>

FlowExpires(f) ==
  /\ f \in flows
  /\ flows' = flows \ {f}
  /\ UNCHANGED <<desired, filter, state, ingress, resolver, lock, pass, budgets>>

Outage == outages < MaxOutages /\ outages' = outages + 1 /\ UNCHANGED <<faults, crashes>>

\* systemd restarts a resolver that died, with the configuration on disk.
ResolverDies ==
  /\ running # None
  /\ Outage
  /\ running' = conf /\ cached' = FALSE
  /\ UNCHANGED <<desired, filter, flows, state, ingress, conf, lock, pass>>

\* Somebody flushes the ruleset.
Flush ==
  /\ table # None
  /\ Outage
  /\ table' = None /\ learned' = FALSE
  /\ UNCHANGED <<desired, flows, state, ingress, resolver, lock, pass>>

Reboot ==
  /\ Outage
  /\ table' = None /\ learned' = FALSE /\ flows' = {} /\ state' = NoState
  /\ ingress' = None
  /\ conf' = None /\ running' = None /\ cached' = FALSE
  /\ lock' = None
  /\ pass' = [a \in Agents |-> Resting]
  /\ UNCHANGED desired

-----------------------------------------------------------------------------
PassStep(a) ==
  \/ StartPass(a)
  \/ Transition(a) \/ TransitionFails(a) \/ LoadTable(a) \/ ClearFlows(a) \/ CleanScopes(a)
  \/ IngressApply(a) \/ EgressApply(a)
  \/ ResolverWrite(a) \/ ResolverStop(a) \/ ResolverStart(a) \/ Commit(a)

Environment ==
  \/ \E r \in Revisions : Deploy(r)
  \/ \E c \in Clients : Query(c)
  \/ \E f \in flows : FlowExpires(f)
  \/ ResolverDies \/ Flush \/ Reboot

Next == (\E a \in Agents : PassStep(a) \/ Crash(a)) \/ Environment

Spec == Init /\ [][Next]_vars

\* The service runs a pass every interval and every command of a pass ends.
FairSpec == Spec /\ \A a \in Agents : WF_vars(PassStep(a))

(***************************************************************************)
(* Properties, of a host with one agent.                                   *)
(***************************************************************************)

\* A private address the resolver will not add again, because it answers from
\* its cache, while the set has lost it: clients are routed to the internet.
Misrouted == cached /\ ~learned /\ table # None

\* Misrouting never outlives what is on record: while an address is missing
\* from a loaded set, dns-conntrack-state says that a restart is still owed,
\* whatever failed, died or was skipped since the table was replaced.
RepopulationOwed == Misrouted => state = NoState \/ state.pend

\* Every DNS flow pinned to a resolver that is not its client's own any more
\* belongs to a client on record as to be cleared.
StaleFlowsOwed ==
  \A f \in flows :
    \/ state = NoState
    \/ f[2] = ResolverOf[state.plan][f[1]]
    \/ f[1] \in state.cleanup

\* "The packet filter goes in first": the ingress is never set up for a
\* revision while the rules of another one are loaded.
FilterFirst ==
  [][ingress' \notin {ingress, None} => table \in {PlanOf[ingress'], None}]_vars

\* A pass that gets past Dnsmasq.Apply leaves the resolver running the
\* configuration of the revision applied, although the file is compared with
\* what is on disk and not with what the running process was started with.
ResolverConverged == \A a \in Agents : At(a, "commit") => running = ConfFor(a)

\* A missing private address is not misrouted for ever: the agent gets the
\* resolver to add it again.
MisroutingEnds == Misrouted ~> ~Misrouted

\* A client is not kept on a resolver it was moved away from, or out of.
Pinned(c) ==
  table # None /\ \E f \in flows : f[1] = c /\ f[2] # ResolverOf[table][c]
FlowsSettle == \A c \in Clients : Pinned(c) ~> ~Pinned(c)
=============================================================================

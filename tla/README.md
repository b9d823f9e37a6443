# vpn-hub in TLA+

vpn-hub turns one Linux host into a VPN hub. Devices connect to an AmneziaWG
ingress, or to a TCP/443 fallback listener; a compiled firewall plan sends their
traffic to private networks or out through upstream tunnels, each in a network
namespace of its own. `hubctl` and a Telegram bot edit a declarative
configuration, compile it to a *revision* and deploy it; `vpn-hub-agent serve`
converges the host on the deployed revision, again every interval.

This directory holds specifications of that program: of what a configuration
comes to mean for a packet, and of the parts whose correctness depends on orders
of events: what happens when a file operation fails, a process dies between two
steps, several processes work on the same files, a service restarts a process by
itself, or Telegram answers late, twice or not at all. Paths below are under
`src/internal/` unless they start with `src/`.

    tlc -workers 2 -config DeploySerial.cfg MCDeployConfirm    # a run
    tlapm UpstreamsProofs.tla                                  # the proofs of a module

`PROJECT.json` lists the runs, the source lines behind every definition, the
hazards and the theorems.

## The system

| part | state it keeps | operations | talks to |
|---|---|---|---|
| Configuration and its editor (`adapters/config`, `application/service.go`, `delivery/cli/operate.go`) | the YAML directory, its lock | load and validate, set a field, add and remove a device, compile to a revision | operators; revisions go to deploy |
| Revision and confirmation stores (`adapters/runtime/{revision_store,confirmation,statefile,atomic}.go`, `application/deploy.go`) | `desired-state.json`, `previous-state.json`, `pending-confirmation.json` | arm, save, confirm, roll back | operators write, the agent reads and rolls back |
| Agent loop (`delivery/cli/agent.go`) | the revision last applied, in memory | a pass: put back what expired, load, converge | the stores, the host reconciler |
| Host reconciler (`application/reconcile.go`) | none of its own | observe, plan, apply: filter, ingress, egress, resolver, acknowledgement | the host adapters |
| Packet filter (`adapters/linux/nftables.go`) | the `inet vpn_hub` table with its learned sets, `dns-conntrack-state` | replace the table, record a transition, clear DNS flows, commit | kernel, conntrack, the resolver's answers |
| Resolver (`adapters/linux/dnsmasq.go`) | configuration files, transient units | write, restart, reap | the filter's sets |
| Fallback listener (`adapters/linux/reality.go`) | configuration, its checked copy, the applied marker, a transient unit | check, replace, confirm, stop | systemd restarts it by itself |
| Ingress (`adapters/linux/ingress.go`) | interface, peers | synchronise peers | kernel |
| Egress (`adapters/linux/egress.go`) | namespaces, links, marks and tables, proxies, key files | converge each tunnel, remove what the revision dropped | kernel, systemd; reads the upstream link files |
| Canary and subscription refresh (`adapters/linux/{canary,upstreamstore}.go`, `application/subscription.go`, `delivery/bot/handlers_subs.go`) | the canary's namespace, unit, configuration, firewall hole and lock; `<id>.link` and its last-known-good; the bot's candidate lists | refresh, try one candidate, promote, restore | provider, egress adapter; the agent follows the link file |
| Policy compilation (`application/{firewall_plan,egress_spec,dns_plan,reality_spec,diff}.go`) | none | pure functions of a revision | the adapters |
| Revocations and keys (`adapters/runtime/{revocation_store,profile_key_store}.go`, `adapters/linux/{keyfile,serverkey}.go`) | one file each | add, remove, create once, rotate | compilation, profiles |
| Bot (`delivery/bot`) | update offset, operation gate, dialogs, notification marks, countdown | one update at a time; gated background operations; watchers | Telegram; everything above |

What is hard about them:

* **Several processes, one directory.** `hubctl`, the bot and the agent share the
  state directory. Its lock covers single writes, not operations that read one
  file and write another.
* **Failure and death between steps.** Every host operation is a sequence of
  commands and file writes. What decides whether a step is needed next time is
  often a file (a fingerprint, a marker, "unchanged on disk"), and the truth that
  file stands for is a process or a kernel table.
* **The environment moves by itself.** systemd restarts processes from whatever
  the file holds now; clients resolve names and leave state in conntrack and in
  nft sets; deadlines pass; hosts reboot and lose the runtime directory.
* **Fixed names.** The canary has one namespace, unit and table, worked on by two
  processes and cleaned up by a third.

For each part, correctness comes to this. Deploy: an unconfirmed change is always
watched and comes back by itself, to something that was accepted. Host pass: no
debt left by a failed pass is forgotten, and rules precede what they protect.
Listener: it serves what was applied, or nothing. Upstreams: only what was proved
is promoted, and what it replaces is kept as far as it is known. Egress: a device's traffic never
leaves by another tunnel or by the hub's own uplink. Configuration: nothing
invalid is kept, no edit of somebody else is lost. Policy: no device gets more
than the configuration grants. Bot: every update is handled, a gated operation
runs alone, what is said of an alarm alternates between alert and recovery.

## The modules

| module | models | checked by | proved in |
|---|---|---|---|
| `DeployConfirm` | revision and confirmation stores, deploy, confirm, rollback, the agent's loop | `deploy_serial`, `deploy_live`, `deploy_race` | `DeployConfirmProofs` |
| `HostPass` | one reconcile pass adapter by adapter, the DNS transition record, conntrack and the learned set | `host_pass` | `HostPassProofs` |
| `RealityListener` | the fallback listener's file, process and marker | `reality` | `RealityProofs` |
| `Upstreams` | canary selection, promotion, restore, candidate buttons, the agent's removals | `upstreams`, `upstream_restore` | `UpstreamsProofs` |
| `Policy` | validation, removal of revoked devices, compilation of a revision to plans: operators, no state | through `HubPolicy`, `ConfigEditor` | `PolicyProofs` |
| `Ruleset` | the chains of a rendered plan, the policy routing around them, and the fate of a packet: operators | through `HubPolicy` | `PolicyProofs` |
| `ConfigEdits` | every edit of the configuration editor, when it refuses and how its caller undoes it: operators | through `HubPolicy`, `ConfigEditor` | `PolicyProofs`, `ConfigEditorProofs` |
| `HubPolicy` | edits and revocations, each result compiled and its packets followed | `policy`, `acl_revoked` | `PolicyProofs` |
| `AtomicConfig` | what the editor and the revocation store promise, as one step per edit | refined by `ConfigEditor` | `ConfigEditorProofs` |
| `ConfigEditor` | bot and shells editing, revoking, re-issuing, rotating and deploying, file by file under the locks | `editor` | `ConfigEditorProofs` |
| `BotUpdates` | the bot's update loop, its offset, the operation gate, flows in the background | `bot_updates` | `BotUpdatesProofs` |
| `BotNotices` | the watchers, their queue, the notifier and their supervision | `bot_notices` | `BotNoticesProofs` |

The modules do not share variables: each opens up what the one above it takes as
one step. `DeployConfirm` has the host converge in one step (`AgentApply`);
`HostPass` is that step, with the ingress and egress adapters as single steps that
succeed or fail; `RealityListener` is the part of the ingress step that keeps a
process; `Upstreams` is what feeds the egress step. A revision is a model value there;
`Policy` is what makes one of a configuration, `HubPolicy` what it means once
applied, and `ConfigEditor` how the configuration, the revocations and the keys
come about. `BotUpdates` is the process that `ConfigEditor`'s sessions `Loop` and
`Spawned` run in: what is one step there (`Act`, `Work`) is a whole operation in
`ConfigEditor`, `DeployConfirm` or `Upstreams`, and the gate is in both.

    Policy --> Ruleset ------------> HubPolicy
       \--> ConfigEdits -----------/
                  |---> AtomicConfig <== refined by == ConfigEditor
                  \---> ConfigEditor

In the modules of processes a step is one command, one file operation or one
call, labelled by the place in the code that is about to run. Commands and file
operations may fail (`MaxFaults` of them), processes may die at any label
(`MaxCrashes`; in `ConfigEditor` a death counts among the faults, and in
`BotUpdates` a kill among the stops). These bounds, and the ones of the environment
(`MaxOutages`, `MaxDeaths`, `MaxTime`, `MaxNews`), of operators (`MaxOps`,
`MaxEdits`) and of Telegram (`MaxUpdates`, `MaxRefreshes`), are there for TLC only:
no proof uses a value of theirs. Operators named in a comment as a
*mutant* are variants of the definition that follows, with a plausible bug; they
are not part of the specification and show that a property can tell the code
from its variant.

### DeployConfirm

The three files are `desired`, `previous` and `pending`. `pending` holds the
ticks left until the recorded deadline, since only the distance to it is ever
compared. `pc`, `rev` and `snap` are where each process stands, the revision it
works for and the revision it has read and is about to write; `told` is what an
operation reported. `accepted` and `stacked` are history: the live revisions
that no net is owed to, and whether a deploy ever started over an armed net.

| actions | code |
|---|---|
| `StartDeploy`, `ArmLoad`, `ArmSnapshot`, `ArmPending`, `Save`, `Unarm` | `Deployment.Apply`, `ConfirmationStore.Arm`, `hubctl deploy`, the bot's `applyDeploy` |
| `StartConfirm`, `ConfirmLoad`, `ConfirmRemove` | `hubctl confirm`, `confirmDeploy` |
| `StartRollback`, `RollbackRead`, `RollbackSave`, `RollbackClear` | `ConfirmationStore.Rollback`, by an operator or the agent |
| `AgentCheck`, `AgentLoad`, `AgentApply` | `loop.reconcile`, `rollbackIfUnconfirmed` |

`atomicWrite` renames and then syncs the directory, so a write may be reported
as failed although it took effect (`DirSyncMayFail`). `Overlap = FALSE` keeps
operations from starting while another is in flight. That is an assumption about
how the program is used, not something the code enforces between processes.

* `deploy_serial` (three revisions, two faults, one death, no overlap; 1,056,879
  states): `UnconfirmedIsWatched`, `NetReturnsToAccepted`,
  `AgentOverrulesOnlyExpired`. Three revisions are what a
  second deploy over a first unconfirmed one needs.
* `deploy_live` (overlap, writes failing after the rename, two revisions, one
  fault, one death, fairness; 651,954 states): `SnapshotUnderNet`,
  `NetResolves`, `HostFollows`. No symmetry is used here, since it is a liveness run.
* `deploy_race` is a counterexample; see Findings.

Outside these settings: `UnconfirmedIsWatched` fails when a directory sync may
fail, because the compensation at `application/deploy.go:80-82` then disarms the
net over a revision that did go live. With overlap a deploy may report itself armed
although the agent's rollback clears the file it has just armed.

### HostPass

`HostReconciler.Apply` in its order. `table` is the plan whose rules are loaded,
`learned` says whether the private address is in the table's set, `cached` whether
the resolver holds the answer, `flows` are the DNS flows conntrack pins to a
resolver, and `state` is `dns-conntrack-state`. Replacing the table empties the
sets; a client whose address is missing there is routed to the internet, and the
resolver adds an address only when it answers from upstream. So after every
replacement it has to be restarted, and the record remembers that across passes.

| actions | code |
|---|---|
| `Transition`, `LoadTable`, `ClearFlows`, `CleanScopes` | `NFTables.Apply`, under the runtime lock |
| `IngressApply`, `EgressApply` | the ingress and egress steps, with the early return that skips the ingress when the filter failed |
| `ResolverWrite`, `ResolverStop`, `ResolverStart` | `Dnsmasq.Apply` |
| `Commit` | `CommitDNSRepopulation` |
| `Query`, `FlowExpires`, `ResolverDies`, `Flush`, `Reboot` | clients, conntrack, systemd, the host |

`host_pass` (two revisions with different plans, two clients, one of which is
moved to another resolver and the other no longer admitted, two faults, one
death, one outage; 186,966 states) checks `RepopulationOwed`, `StaleFlowsOwed`,
`ResolverConverged`, and under fairness `MisroutingEnds` and
`FlowsSettle`. Two faults and a death are enough for a failed pass, a failed
retry and a pass that dies, which is every way a debt can be handed on.

Simplifications: one private name and one resolver process stand for all of
them; flows are created only while a table is loaded; the resolver's
configuration is a function of the firewall plan. With two agents
`RepopulationOwed` fails: the lock is given back between `Apply` and
`CommitDNSRepopulation`, so one pass may acknowledge what another still owes.
The comments at `application/reconcile.go:105-109` and
`adapters/linux/nftables.go:805-818` describe the same order from both sides.

### RealityListener

`file`, `probe` (the copy that is checked, which holds the same private key) and
`marker` are the three files; `unit` and `serving` are systemd's view and the
configuration of the process; `ended` is what an agent's last pass reported.
`Look` to `WriteMarker` follow `RealityIngress.Apply` line by line, `Cleanup` is
its deferred removal, `OffStop` to `OffMarker` the disabled case. `Dies` and
`Restart` are the process and systemd; `Restart` reads the file of that moment.

`reality` (two accepted configurations and one the check rejects, two faults, two
deaths of a pass or reboots, two deaths of the listener; 107,968 states) checks
`MarkerTruth`, `ServedAsApplied` and, under fairness, `Follows`. Two of each let
a second failure hit the recovery from the first. All are for one agent. A failure to read the
server key compiles to `Off`, as in the code; a checked copy left by a death stays
on disk for as long as the applied listener is not changed.

### Upstreams

`link` and `lkg` are the two link files of one tunnel; `lock`, `ns`, `conf`,
`unit` and `hole` are the canary; `job` says where each mover stands, with its
queue of candidates and what it has read; `reaper` is the agent's removal of
namespaces its revision does not name, which includes the canary's and takes no
lock; `cache` and `shows` are the bot's candidate list and what each message has
buttons for. `proven` is history: the upstreams that carried traffic, and the
one in place at first. A `Stray` proxy runs in a namespace that has lost its name.

| actions | code |
|---|---|
| `StartRefresh`, `TakeLock`, `Selected` | `SubscriptionRefresher.Refresh`, `Canary.SelectCandidate` |
| `Build`, `WriteConf`, `Restart`, `Routes` | `Egress.applyOne` with `ensureNamespace`, `ensureLink`, `ensureProxy`, `ensureProxyRoutes` |
| `Allow`, `Probe`, `Discard`, `Clean` | `Canary.try` and its deferred clean-up |
| `Read`, `Keep`, `Put` | `UpstreamFile.Write` |
| `StartRestore`, `ReadPrevious`, `ReadCurrent`, `Demote`, `Promote` | `UpstreamFile.Restore` |
| `ShowCandidates`, `TurnPage`, `StartPick` | the bot's candidate screens |
| `Notice`, `ReapUnit`, `ReapNamespace`, `ForgetSecrets` | the removal loop of `Egress.Apply` |

`upstreams` (the bot and one shell, one message, two candidates, one fault, one
death; 2,106,168 states) checks `OnlyProven` and `KnownIsKept`. Two
movers and two candidates are enough for a mover to wait for another and to go on
to its second choice; the agent may remove the canary at any point of both. A fault is
a command, a write, or the read of a link: `UpstreamFile.Write` takes a link it cannot
read for none and replaces it unkept (`upstreamstore.go:46`). `KnownIsKept` is the
promise for the links that were read; one that was not is kept nowhere.
`upstream_restore` is a counterexample; see Findings.

Two switches name what is assumed:

* `RestartMayBreak = FALSE`: a process does not die between writing a proxy's
  configuration and restarting the proxy, and a failed restart does not leave the
  old proxy running. Without it `OnlyProven` fails: a selection dies during a
  try, the next one dies between the write and the restart of another candidate,
  and a third finds the file unchanged and the unit active, so that the old
  candidate's proxy vouches for the new one. Usually the agent's removal heals
  this in between.
* `Overlap = FALSE`: two movers are not inside the link store at once. The canary's
  lock is given back before the promotion, so nothing but habit prevents it; with
  overlap `KnownIsKept` fails.

The agent's removal can make a good candidate fail; `OnlyProven` shows that it
never makes a bad one pass. A refresh that promotes the link already active makes
the last-known-good equal to it; the code does that, and no property says
otherwise. Fetching, parsing and pinning are the list they yield; a failure of
theirs changes nothing and is not a step.

### Policy, Ruleset and HubPolicy

`Policy` is the code between a configuration and the host, as operators: identifiers
are numbers in the order the code sorts them by, prefixes, zones and routes are sets
of the numbers they cover.

| operators | code |
|---|---|
| `Validate` and its parts | `Validate`, `validateClientACLs`, `validateTunnel` and `validateRouteOverlaps` (`application/service.go`) |
| `RemoveRevoked`, `BuildDesiredState` | `application/revocation.go`, `Service.BuildDesiredState` |
| firewall plan, specs, resolvers, SOCKS endpoints, listener users | `application/{firewall_plan,egress_spec,dns_plan,reality_spec}.go` |
| `MarkOnArrival`, `Redirected`, `ForwardAccepts`, `InputAccepts`, `MarkOnOutput`, `OutputAccepts`, `Masqueraded` | the chains `RenderRuleset` and the SOCKS tables write (`adapters/linux/nftables.go`) |
| `RouteOf`, `Converged` | the rules and tables `adapters/linux/egress.go` sets up, as the kernel reads them |
| `Delivery`, `Sent`, `SentForUser` | the hooks a packet passes, by where it comes from; what the hub sends to itself passes output and then input |

`HubPolicy` has the variables `config`, `revoked` and `keyed` and an action for
each way they change: `Change` (an edit that the validation accepts), `Revoke`,
`Readmit`, `GenerateRealityKey`. Its properties compile the configuration reached,
send packets from everybody to everybody, and compare their fate with what the
configuration says in the operator's terms: `OwnWayOut` (no leak), `NothingShadowed`
(what is granted arrives), `DnsOwnEgress` (lookups are answered for the device's own
egress), `HubOriginated` (the hub's own sockets, which reach nothing of the hub's by a mark), `OutsidersConfined` (the internet
and the namespaces).

* `policy` (728 states): two egresses, one of them contained in its
  namespace; two private networks, likewise; up to three devices; a subnet of six
  addresses; every sequence of two out of 22 edits, revocations and re-admissions
  from two configurations. Each is followed with every namespace up or any one
  down, and with nothing learned by split DNS or every destination learned by one
  network. Two edits are what it takes for one to depend on another (a device is
  added, then admitted; a network is enabled, then overlaps), and two tunnels of
  each role what it takes for an order among them to matter. That several networks
  learn the same address is left out: see below.
* `acl_revoked` is a counterexample, with one edit.

`OwnWayOut` and `NothingShadowed` say nothing of a configuration where an ACL names
a revoked device (`Dangling`), which is what `acl_revoked` shows to be wrong.
`OwnWayOut` allows the one leak the ruleset has by design or oversight: a device
whose egress is the uplink itself, and a private network that is down (see below).

Two assumptions stand for what the operator must see to, because the validation does
not (`WithinAddresses`, `PrivateRangeAssumption`): no private network routes the
range of the links or the hub's public address, and the clients' subnet is of the
private ranges, so the listener refuses connections into it.

### ConfigEdits, AtomicConfig and ConfigEditor

`files`, `revoked`, `stored` and `hubKey` are the directory's three YAML files, the
revocation list, the devices' stored keys and the hub's key file; `configLock` and
`stateLock` are the two flocks, `gate` the bot's. `session` says where the bot's
loop, the goroutine of a rotation and each shell stand. `Program` is the table of
stages each operation goes through: it reads the configuration or not before it
asks for the gate, knows or does not know how to undo itself, and so on.

| actions | code |
|---|---|
| `Start`, `Claim` | the handlers and commands (`delivery/bot/handlers_*.go`, `delivery/cli/operate.go`), `Bot.claim` |
| `ReadFile`, `LoadAndValidate` | the loader's three reads, without the lock, and `Service.LoadAndValidate` |
| `Open`, `Rewrite`, `RewriteFails` | `Editor.setField` and its siblings (`adapters/config/edit.go`): lock, read, rewrite by rename, unlock |
| `NothingToPutBack` | `Bot.removeProbe` that could not read the probe |
| `RotateKey`, `StoreKey`, `Sendable`, `Send` | `ServerKeyFile.Rotate`, `ProfileKeyStore`, `sendProfile` |
| `RewriteFailsLate`, and the failures of `RewriteList`, `RotateKey`, `StoreKey` and `Save` | `runtime.AtomicWrite` that fails before its rename, or after it |
| `ReadRevocations`, `OpenList`, `RewriteList` | `RevocationStore` |
| `Save` | the compile and save of a deploy |
| `Die` | the end of the bot, or of a shell, between two steps |

`editor` (1,227,210 states) has the bot's loop, a rotation beside it and one shell,
25 operations between them, of which any three run, and one fault or death.
Four assumptions on the constants are checked by the run and used by the proofs:
a configuration has the fields of the structs it is read into, with Booleans where a
tunnel is enabled (`WrittenAssumption`); a job is one of the operations the code has,
edits a field some command or handler edits, in the way that caller goes about it
(`AskedAs`: the hub's fields and a device's egress are read before they are written,
a toggle is taken back by the opposite value, a probe is set and removed by different
handlers), and only the rotation runs beside the loop (`JobsAssumption`); no shell
edits the hub's section, adds a device, gives one a key or sends a profile
(`ShellsAssumption`: of these only the device's egress is the editor's to change in
`delivery/cli`, and `hubctl device add` prints the entry it made); and the names of
sessions, devices and nobody differ. Keys are numbers up to
`MaxKeys`, one for every operation and device. The run checks:

* `AtomicEdits`: `Atomic!Spec`, where `Atomic` is `AtomicConfig` with its `config`
  read as `files` and its `Edits` as every edit or undo somebody may make. Each
  step is one whole edit of the latest configuration, or a change of the
  revocation list by one device, or a stutter: no edit of another process is lost.
* `RevocationHeeded`: a revocation that was reported stays until lifted, and no
  deploy begun after it saves the device.
* `SentProfileWorks`: a profile carries the key, address and hub on disk at that
  moment, and the stored key.
* `RefusedLeavesNoTrace`: an edit reported cancelled is taken back, unless somebody
  else wrote the same value in between (`touched`) or its caller cannot (`Lost`).

Three operations are a change, one that races it, and one that looks at the result;
more only repeat.

Every write replaces its file by a rename and then syncs the directory, so it may fail
before the rename or after (`adapters/runtime/atomic.go:50-53`); what it reports is the
same. A revocation, a lift or an edit reported failed may therefore stand:
`RevocationHeeded` is about those that were reported done, `AtomicEdits` takes the late
failure for the whole edit it is, and `RefusedLeavesNoTrace` is about edits that were
reported cancelled, which one that failed is not. The key of a profile may lag the hub's
own from a rotation that was cut short between its two files, or was reported failed
although it replaced the first, until one is repeated (`cut`).

### BotUpdates

`sent` and `forgotten` are Telegram's queue, `net` whether it answers, `saved` the
offset file; `life`, `pc`, `offset`, `batch`, `dialog` and `tries` are the update
loop; `gate`, `task` and `launched` the gate and the flow that holds it past its
update. A handler panics inside its action or not at all (`Panic`). What Telegram has forgotten it never sends again, whatever offset a later poll
asks for (`Confirmed`). `handled`, `acted` and `interrupted` are history.

| actions | code |
|---|---|
| `Start`, `Poll`, `PollEmpty`, `Take`, `Save` | `Bot.Run`, `OffsetStore` |
| `Dispatch`, `Claim`, `Begin`, `Act`, `Show`, `Answer`, `Panic` | `handleUpdate`, `handleCallback`, `claim`, a handler and its deferred calls |
| `Ends`, `Throttled` | `Client.post`, `Client.call` |
| `Work`, `Report`, `Refresh`, `Refreshed` | a flow started by `spawn`, `scheduleRefreshes` |
| `Stop`, `Drain`, `Exit`, `Kill` | a signal, the end of `Run`, the unit |

`bot_updates` (619,712 states; two updates of six kinds, two stops or kills,
one fault, one tick of the refresh timer) checks `RerunOnlyInterrupted`: a mutation
is done twice only if a kill or a fault left its update unrecorded;
`EveryUpdateHandled`: every update that was sent is handled in the end, unless the
network stays away; and `GateReturns`: whoever holds the gate gives it back. Two
updates are a batch in which one is done and the other is not; two stops are a
replay that is itself interrupted.

### BotNotices

`files` with `mark` and `writing` are the state files and the bot's mark before its
own writes; `previous`, `fails`, `alerted`, `drifted` and `warned` are what the
watchers remember; `queue` the bounded channel; `sentAt` and `rolledBack` the
notifier's. The rest is history: `place` and `fate` follow one event of the behaviour,
any one, along the queue; `said` are the alarms whose last notice on the queue was an
alert, and `lost` those of which a notice was dropped since; `lastProbe` and `lastCheck`
what was found; `strange` and `letThrough` who wrote and what was let through.

| actions | code |
|---|---|
| `Line`, `RolledBack` | `watchJournal` on the agent's journal |
| `Mark`, `BotWrites`, `Foreign`, `Look` | `selfMarks.mark` and what is written after it; `hubctl` and the agent; `watchStateFiles` |
| `Probe`, `Prune`, `BadRow` | `probeAllTunnels`, `healthBoard.observe`, `prune` |
| `Check` | `watchDrift` |
| `Emit`, `Announce`, `Take`, `Deliver`, `Muted`, `Expired` | `emit`, its callers, the channel, `notifier`, `shouldDeliver`, `forget` |
| `Panic`, `Restart`, `Advance` | `guarded`, `supervise`; the clock |

An event is dropped when the queue is full, and `observe` and `watchDrift` have noted it
as said by then (`notify.go:44`). So what pairs alerts with recoveries is stated of what
was queued:

* `AlarmsPair`: an alert is queued after two bad findings in a row and a recovery after
  a good one, and each follows the other unless a notice was dropped in between;
* `NewsArrives`: the notifier gets to every event that was queued. Probes and checks are
  not bounded, so the queue may never be empty and the event followed has others behind
  it without end. The notifier decides on an event or panics at it; in the second case
  the event is gone, in the code too (`fate`);
* `Remembered`: the sweep forgets no line within its window; and `OwnWritesQuiet`.

`bot_notices` (1,136,154 states) checks them over a queue of two places, which is what
it takes for an event to wait behind another while a third is dropped, with one panic.
A behaviour of the run has one of two `Crews` at work: journal, prober, drift and
notifier, with one line of the journal and no clock; or journal, watcher of the files
and notifier, with three lines or writes and three units of time. The watchers share
nothing but the queue, so the first is where alarms, drops and an endless queue happen
and the second where the windows do. Time is counted in looks of the file watcher; the
windows are two and three of them, so both their edges are reached. The bot starts all
of them, and the theorems hold for any crew.

Simplifications: one tunnel stands for each, since they share nothing; what differs
between two looks is one event, and up to three in the code; a category may be on or
off at any delivery; refresh reports, which are queued the same way and remember
nothing, are left out. That what is sent arrives is Telegram's, and not modelled.

## Fairness

Liveness is claimed only under fairness of what the code schedules. It is weak
fairness except for one action:

* the agent's pass: `serve` runs it on a ticker (`delivery/cli/agent.go:67-101`),
  and systemd starts the service again when it fails
  (`src/deploy/systemd/vpn-hub-agent.service`);
* the steps of an operation in flight: that an external command returns is an
  assumption, since the agent gives its commands no deadline of their own;
* the clock, in `DeployConfirm`;
* the bot: systemd starts it again (`Restart=always`,
  `src/deploy/systemd/vpn-hub-bot.service`), and a handler or a flow takes its next
  step, because every call to Telegram ends by the deadline of its attempt
  (`adapters/telegram/client.go`);
* the bot's poll, strongly: it is repeated for as long as the bot runs, so a network
  that comes back again and again is met by one of the polls;
* a watcher that stopped is started again (`Bot.supervise`), and the notifier takes
  what is queued.

The fault and crash bounds make failures finitely many, so liveness says that the
system recovers once they stop, not that it makes progress through endless ones.
Nothing obliges an operator to start, confirm or roll back anything, nor a client
to ask, nor systemd to restart the listener, nor Telegram to answer. `Follows` and
`NetResolves` are conditional on the operators leaving the revision, or the net,
alone from some point on, since they may otherwise redeploy for ever.

## Proofs

Every theorem is for all values of the constants that satisfy the modules'
assumptions, so for any number of revisions, operators, clients, candidates,
movers, failures and deaths.

| theorem | states | assuming |
|---|---|---|
| `TypeCorrect`, `HostTypeCorrect`, `RealityTypeCorrect`, `UpstreamsTypeCorrect` | the type invariants, with what they say of locks and labels | - |
| `SnapshotAlwaysThere` | `SnapshotUnderNet` | - |
| `UnconfirmedAlwaysWatched`, `NetAlwaysReturnsToAccepted`, `AgentOnlyOverrulesExpired` | the promises of deploy-and-confirm | `~Overlap`, `~DirSyncMayFail` |
| `RepopulationAlwaysOwed`, `StaleFlowsAlwaysOwed`, `ResolverAlwaysConverged`, `FilterAlwaysFirst` | the host pass | one agent |
| `MarkerAlwaysTrue`, `ServedAlwaysAsApplied`, `OnlyCheckedEver` | the listener | one agent |
| `OnlyProvenStored` | `OnlyProven` | `~RestartMayBreak` |
| `KnownAlwaysKept` | `KnownIsKept` | `~Overlap` |
| `EditorTypeCorrect`, `BotUpdatesTypeCorrect`, `BotNoticesTypeCorrect` | the type invariants, with what they say of locks, gate and queue | - |
| `EditorImplementsAtomic` | `AtomicEdits`: the refinement of `AtomicConfig` | - |
| `RevocationsHeeded` | `RevocationHeeded` | - |
| `ProfilesWork` | `SentProfileWorks` | - |
| `CancelLeavesNoTrace` | `RefusedLeavesNoTrace` | - |
| `OnlyInterruptedRerun` | `RerunOnlyInterrupted` | - |
| `HubTypeCorrect` | `TypeOK` of `HubPolicy` | - |
| `DevicesLeaveTheirOwnWay`, `ConnectionsArrive` | `OwnWayOut`, `NothingShadowed` | - |
| `LookupsStayWithTheEgress` | `DnsOwnEgress` | - |
| `OwnTrafficIsConfined`, `OutsidersAreConfined` | `HubOriginated`, `OutsidersConfined` | - |
| `SweepForgetsNothing`, `AlarmsAreSaidInPairs`, `OwnWritesAreQuiet` | `Remembered`, `AlarmsPair`, `OwnWritesQuiet` | - |

`FilterAlwaysFirst` (the ingress and the resolver are touched only behind a loaded
filter) and `OnlyCheckedEver` (no configuration the check rejects is ever on disk)
have no run of their own. None of the safety properties is inductive by itself.

* `SnapshotInv` adds that whoever is about to arm a net has already written a
  snapshot, and whoever is about to write one has seen a revision.
* `SerialInv` adds that at most one process is inside a multi-step change, that
  what it has read is still what the directory holds, and that the snapshot is
  accepted ground for as long as no deploy was stacked.
* `HostInv` says, for each label of the pass, what it has already put in place:
  the record is the pass's own once it has begun (`Mine`, `Recorded`), the table
  is the pass's own past the load (`Loaded`), cleared flows stay clear
  (`Cleared`), and an acknowledged host is converged (`Settled`). A property such
  as `RepopulationOwed` only compares what these parts keep equal.
* `RealityInv` says that a restart backoff counts as running, because systemd will
  read the file again, and that a pass writes the marker only after its labels
  have put file and process in place.
* `ProvenInv` says that every link a mover holds has carried traffic (`AllHonest`),
  that the canary runs the candidate its mover believes it does (`Held`), and
  that between restarts the file and a live proxy agree (`Settled`), which is
  the part a restart cut short would break.
* `KeptInv` says that while a mover is inside the link store nobody else is, that
  the active link it read is still the one in place, and that before it replaces
  that link the other file holds it (`InHand`). A writer that dies before its last
  write leaves the active link alone, so nothing is owed by the next one. One that could
  not read the active link holds nothing (`Blind`), and the theorem promises nothing of
  its write.
* `EditorInv` says of each session what its place in the program implies it has read,
  generated and still to do (`NowOK`); that a lock is held by whoever has a copy of what
  it protects, and the copy is what is on disk (`LocksOK`); that the gate is held by
  the bot's session that is past asking for it (`GateOK`); that every field edited in the
  files holds a value somebody gave, generated or may put back (`FilesOK`); and that a
  deploy past reading the revocations has read all it must heed (`HeedOK`). The
  refinement follows: a rewrite applies its edit to a copy of one file, and since
  the copy still stands this is the edit of the whole configuration; `FilesOK` and
  `NowOK` are what make the edit that takes another one back one of the `Edits` of
  `AtomicConfig`.
* `ProfileInv` adds to it why a profile works. Whoever makes one is the bot's and
  holds the gate, so no other session of the bot is past asking for it
  (`AloneLemma`; `PeekOK` covers the operations that read before they ask), and a
  shell changes neither the hub's section nor a device's address or key
  (`AskedKeeps`). So what the maker has read of the hub and the devices still stands
  (`ReadStands`, `FirstStands`), the key it has written is the device's and the one
  it has stored is kept (`KeyStands`, `HasStored`). A rotation writes its key in two
  files: the hub's real key is that of `hub.yaml` except between the two, and after
  a rotation cut short there or reported failed (`HubKeyOK`).
* `TraceInv` follows one value, the one an operation edits. What the operation has read
  of it is what the files have until it writes (`ReadStill`); after that, what `before`
  holds is what its undo will put back (`Recalled`). An edit of another session either
  does not concern that value and leaves it alone (`FrameLemma`), or marks it `touched`
  and nothing more is promised. An edit taken back writes what its caller believes was
  there (`PutBackLemma`), which is the old value for the callers that read it and, for
  a toggle, because an enabled flag that changed had the opposite value: hence
  `AskedAs` and the flags being Booleans in `WrittenAssumption`.
* `RerunInv` says that a batch is consecutive and starts where the last poll asked, that
  the offset is past the update being handled and nothing else of the batch
  (`InOrder`), that in one life of the process an update comes up once
  (`OncePerLife`), and that one that was acted on is never asked for again unless it
  is recorded as interrupted (`OnceUnlessInterrupted`).
* `NoticesInv` relates what was queued of an alarm to what the health board and the
  watcher of drift have in mind: unless a notice was dropped since, the last one queued
  is an alert exactly when they believe they alerted, and bad findings they count are
  the last ones found (`AlarmsOK`). What the watcher of the files remembers it relates
  to the age of the bot's mark, which is younger by one look once the watcher has looked
  in this one (`OwnWritesMarked`).
* `HubInv` says that the configuration is one the validation accepts, with routes and
  resolvers among the addresses assumed. It is the strengthening of `TypeOK` by
  `WithinAddresses`, which the edits keep (`EditedLemma`); everything else about
  `HubPolicy` is a fact about one configuration, the revocations and a packet.
  A tunnel of a compiled plan has one position (`Pos`), and no two share one, because
  a rank in a finite set of numbers names its element (`RankLemma`, `PosLemma`). Its
  mark, table, port and links are functions of the position, so they name the tunnel
  too (`SpecsLemma`, `LinksLemma`, `MarksLemma`), and a device is in the group of its
  egress and no other (`GroupOfLemma`), since addresses are unique. What the kernel
  does follows: which mark a packet gets (`ArrivalLemma`), where a mark is routed
  with some namespaces missing (`RouteLemma`), which rule accepts it
  (`DeviceForwardLemma`); each property is a comparison of these three with the
  configuration. The theorems hold for any sets of learned addresses of the shape of
  `Conditions`, and for any number of edits `MaxEdits`.

Model-checked only: all liveness (`NetResolves`, `HostFollows`, `MisroutingEnds`,
`FlowsSettle`, `Follows`, `EveryUpdateHandled`, `GateReturns`, `NewsArrives`), which is
out of the reach of the proof system, like everything that needs ENABLED.

## Findings

Each is a run that TLC ends with a counterexample to what a comment or a document
of the repository says.

* `deploy_race`: an operator's confirm overlaps the agent's rollback. The operator
  is told that the revision is confirmed and the agent then restores the previous
  one. The lock comment in `adapters/runtime/lock_unix.go:12-13` and
  `delivery/bot/handlers_deploy.go:167-169` say that this must not race; the lock
  covers one write and the bot's gate covers the bot.
* `upstream_restore`: a restore that dies, or fails, between its two writes leaves
  the same link in both files, against `adapters/linux/upstreamstore.go:111-112`.
* `acl_revoked`: revoking the source of a client rule leaves the rule without an
  address, which opens it to the whole client network
  (`application/firewall_plan.go:192`), against `src/README.md:51`.

## Observed, without a run

Read in the code while modelling, and in part seen as counterexamples to stronger
forms of the properties above. The properties are stated around them.

Deploy and host:

* A deploy over a net still armed takes the unconfirmed revision as its snapshot.
  When the second net expires, the first revision comes back and stays, unconfirmed
  and unwatched (`src/README.md:14` promises a return by itself). The properties of
  `deploy_serial` are stated without stacked deploys.
* With two agents (`reconcile` beside `serve`) the marker of the fallback listener
  may name another configuration than the one served
  (`adapters/linux/reality.go:176-177`), and a pass may acknowledge a repopulation
  another still owes (`adapters/linux/nftables.go:873`).
* A proxy's configuration is written before the proxy is restarted
  (`adapters/linux/egress.go:371`): a death in between leaves the old proxy running
  and the file "unchanged" for the next pass.
* `adapters/linux/egress.go:172` looks for the routing of a removed tunnel by
  substring, so `vh-a` also finds `vh-ab`; the next pass sets up what was flushed.
* Every egress pass flushes the address of the link and sets it again
  (`adapters/linux/egress.go:305-312`).

Policy:

* Revoking the *target* of a client rule compiles to a rule without destination,
  which nft refuses to load (`Loadable` in `Ruleset`): the pass fails until the rule
  is removed.
* A device whose egress is the uplink reaches a private destination by the uplink
  while the private network is down: its group's rule accepts by address
  (`adapters/linux/nftables.go:384` against the kill switch of `505-507`).
* Two private networks that learn the same address: the first in the prerouting
  chain wins, and the last in the output chain (`MarkOnArrival`, `MarkOnOutput`).
* A private network may route the range of the links, or the hub's public address:
  only the clients' subnet is kept off the links
  (`application/validation_netip.go:96`). A route over the links takes connections
  to the SOCKS endpoints of others into that network; one over the public address
  has no effect on the hub, where the address is local. The properties are stated
  for networks that do neither.
* Nothing makes the clients' subnet a private one. From a public one the listener's
  `ip_is_private` rule (`adapters/linux/reality.go:402`) would not keep its users
  from the devices' addresses.
* A tunnel called `admitted` would share a set's name with the DNS clients.
* A SOCKS endpoint is reachable only from a device whose egress is that tunnel, or
  the uplink.
* The comment at `adapters/linux/reality.go:345-348` has private destinations of a
  listener's connection re-marked on output; a socket that has a mark keeps it, and
  the listener's own configuration refuses private destinations before that.
* The input chain lets a marked socket ask the hub's resolver over `lo`
  (`adapters/linux/nftables.go:450-453`), but the output chain has dropped it by then
  for every mark that names a link (`511-519`). The listener's own lookups leave by its
  unmarked outbound, so nothing depends on it.

Configuration:

* A refused toggle is undone to the opposite of what was asked, not to what stood
  before (`delivery/cli/operate.go:61-72`, `delivery/bot/handlers_view.go:55-56`):
  enabling a tunnel that is enabled already, when the configuration is invalid for
  another reason, leaves it disabled. A probe written over another is undone by
  removal (`delivery/bot/handlers_hub.go:575`). A refused egress is put back to the
  value read before the gate was asked for. All three are `Lost` or `touched` in
  `ConfigEditor`.
* A client rule is removed by its ordinal in the list.

Subscriptions and bot:

* A promotion that cannot read the link it replaces takes it for none, replaces it and
  keeps it nowhere (`adapters/linux/upstreamstore.go:46`), against `20` of that file: "The
  previous link is kept beside it." TLC finds this at once when `Blind` is taken out of
  `KnownIsKept`.
* A refresh may replace the active link between the reads and the writes of a restore,
  which then demotes what it has read and loses what it replaces, against
  `adapters/linux/upstreamstore.go:93`. TLC finds `KnownIsKept` violated with
  `Overlap = TRUE`.
* The write of the hub's new key may fail after its rename; the operator reads that the
  rotation did not start and the previous key is intact (`adapters/linux/serverkey.go:74`,
  `delivery/bot/locale_en.go:151`), although the key on disk is the new one, against
  `delivery/bot/handlers_hub.go:370-371`. Profiles made until the next rotation carry the
  old key: TLC finds `SentProfileWorks` violated when `RotateKey` failing after the
  rename leaves `cut` alone.
* A candidate's button is a position in the list fetched last, not in the list it
  was built from (`delivery/bot/handlers_subs.go:250-251`).
* A kill between an action and the save of the offset repeats the tap
  (`delivery/bot/bot.go:387-405`): a repeated deploy arms with itself as its
  snapshot, a repeated confirm confirms whatever is pending by then. An offset that
  cannot be read counts as none and replays what Telegram still keeps.
* `handleClientACLInput` discards the refusal of the gate
  (`delivery/bot/handlers_client_acls.go:139-140`), against `ops.go:44-46`.
* An alert counts as given when its event was dropped or could not be sent
  (`delivery/bot/notify.go:44`, `215`), so the recovery may be announced without it,
  against `188-189` of that file; an event the notifier panics at is gone.
* Confirming from another message than the countdown's freezes the countdown
  (`delivery/bot/handlers_deploy.go:266-268`), and a confirmation by `hubctl` with
  a deploy right after it is shown as a rollback.
* A state file that cannot be read looks empty to its watcher
  (`delivery/bot/notify.go:419-427`), and the report of a change may come before the
  journal's line about the rollback that made it (`104-106`).
* The journal is followed from its end, so what it says while the bot is down is
  not heard.

## Plan

What is left is `EgressRouting`: links, positions, marks and tables of several tunnels
while the revision adds, removes and reorders them, with the kernel's tables as state,
and `ensureProxy` of a tunnel in service with deaths between file and restart.

## Not modelled

Text: parsers of tunnel configurations and share links, rendering of profiles,
QR codes, screens, messages and journals; they keep no state and are covered by
table tests. The syntax of YAML and the formats of names and fields. Cryptography,
key generation and the exclusive creation of key files at installation. The
countdown message of a deploy. Read-only host queries. Telegram's encoding and
uploads. What the kernel keeps of links and routes between passes, which would need
a model of its own (Plan); the compiled numbers are in `Policy`. Entry points and
wiring. The documentation site, installer and scripts.

------------------------------- MODULE Upstreams -------------------------------
(***************************************************************************)
(* How a subscription's upstream is replaced.  A refresh tries the         *)
(* provider's candidates one after another in the canary namespace and     *)
(* promotes the first that carried traffic; the bot may also try the one   *)
(* candidate its operator tapped; and either the bot or the shell may go   *)
(* back to the last-known-good link.                                       *)
(*                                                                         *)
(* What the movers share has one name each: the two link files of the      *)
(* tunnel, the canary's namespace, unit, configuration and firewall hole,  *)
(* and the lock around a selection.  The agent holds no lock: its egress   *)
(* pass removes every vpn-hub namespace its revision does not name, the    *)
(* canary's too.  A step is one command or one file operation.             *)
(***************************************************************************)
EXTENDS Naturals, Sequences

CONSTANTS
  Links,            \* upstreams a provider offers
  Offers,           \* the lists it may answer with, in the order they are tried
  Bot,              \* the bot, one gated operation at a time
  Shells,           \* `hubctl subscription refresh` and `restore`
  Messages,         \* chat messages that show a list of candidates
  None,             \* no file; nothing running
  Stray,            \* a canary proxy left in a namespace that was deleted
  Overlap,          \* may two movers be inside the link store at once?
  RestartMayBreak,  \* may a restart be cut short, the file new and the proxy old?
  MaxFaults,        \* bound: commands and file operations that fail
  MaxCrashes        \* bound: processes that die

Movers == Shells \cup {Bot}

ASSUME LinksAssumption ==
  None \notin Links /\ Stray \notin Links /\ None # Stray
ASSUME OffersAssumption == Offers \subseteq Seq(Links) \ {<<>>}
ASSUME MoversAssumption == Bot \notin Shells /\ None \notin Movers
ASSUME SwitchesAssumption == Overlap \in BOOLEAN /\ RestartMayBreak \in BOOLEAN
ASSUME BoundsAssumption == MaxFaults \in Nat /\ MaxCrashes \in Nat

VARIABLES
  link,      \* subscriptions/<id>.link, the upstream the agent dials
  lkg,       \* <id>.link.last-known-good
  lock,      \* who holds the canary's flock
  ns,        \* the canary namespace exists
  conf,      \* canary-singbox.json: an upstream; None when missing or torn
  unit,      \* what the canary's proxy was started with
  hole,      \* the vpn_hub_canary table, which lets the canary out
  job,       \* where each mover stands
  reaper,    \* where the agent's removal of unwanted namespaces stands
  cache,     \* the candidates the bot fetched last
  shows,     \* the candidates each message has buttons for
  proven,    \* history: upstreams that did carry traffic, and the first one
  faults, crashes

store == <<link, lkg>>
canary == <<ns, conf, unit, hole>>
chat == <<cache, shows>>
budgets == <<faults, crashes>>
vars == <<store, lock, canary, job, reaper, chat, proven, budgets>>

Building == {"build", "write", "restart", "routes"}
Trying == Building \cup {"allow", "probe", "discard", "clean"}
Writing == {"read", "keep", "put"}
Restoring == {"previous", "current", "demote", "promote"}
Labels == {"idle", "wait"} \cup Trying \cup Writing \cup Restoring

Jobs == [at : Labels, queue : Seq(Links), ok : BOOLEAN,
         now : Links \cup {None}, was : Links \cup {None}]
Resting == [at |-> "idle", queue |-> <<>>, ok |-> FALSE,
            now |-> None, was |-> None]

At(m, label) == job[m].at = label
Candidate(m) == Head(job[m].queue)

\* A mover that tries or writes has a candidate left, and only the one that
\* tries holds the lock.
TypeOK ==
  /\ link \in Links \cup {None} /\ lkg \in Links \cup {None}
  /\ lock \in Movers \cup {None}
  /\ ns \in BOOLEAN /\ hole \in BOOLEAN
  /\ conf \in Links \cup {None}
  /\ unit \in Links \cup {None, Stray}
  /\ job \in [Movers -> Jobs]
  /\ \A m \in Movers :
       /\ job[m].at \in {"wait"} \cup Trying \cup Writing => job[m].queue # <<>>
       /\ lock = m <=> job[m].at \in Trying
       /\ job[m].at \in {"keep", "demote", "promote"} => job[m].now # None
       /\ job[m].at \in {"current", "demote", "promote"} => job[m].was # None
  /\ reaper \in {"idle", "stop", "del", "forget"}
  /\ cache \in Offers \cup {<<>>}
  /\ shows \in [Messages -> Offers \cup {<<>>}]
  /\ proven \subseteq Links
  /\ faults \in 0 .. MaxFaults /\ crashes \in 0 .. MaxCrashes

\* Before the first refresh, or with an upstream an earlier one promoted.
Init ==
  /\ link \in Links \cup {None} /\ lkg = None
  /\ lock = None
  /\ ns = FALSE /\ conf = None /\ unit = None /\ hole = FALSE
  /\ job = [m \in Movers |-> Resting]
  /\ reaper = "idle"
  /\ cache = <<>> /\ shows = [s \in Messages |-> <<>>]
  /\ proven = {link} \ {None}
  /\ faults = 0 /\ crashes = 0

-----------------------------------------------------------------------------
Outcomes == {"ok"} \cup (IF faults < MaxFaults THEN {"fails"} ELSE {})
Spend(w) == faults' = faults + (IF w = "ok" THEN 0 ELSE 1) /\ UNCHANGED crashes

Goto(m, label) == job' = [job EXCEPT ![m].at = label]
End(m) == job' = [job EXCEPT ![m] = Resting]
Step(m, w, label) == Goto(m, IF w = "ok" THEN label ELSE "discard")

\* A replacement that is reported as failed may have happened: the directory
\* is synced after the rename.
Replaced(old, new, w) == IF w = "ok" THEN {new} ELSE {old, new}
\* os.WriteFile truncates first.
Written(old, new, w) == IF w = "ok" THEN {new} ELSE {old, None}
\* An error of a clean-up command is dropped, whether or not it did its work.
Tidied(old, new, w) == IF w = "ok" THEN {new} ELSE {old, new}

\* The operator does not go back by hand while another link is being written.
Turn(m) == Overlap \/ \A n \in Movers \ {m} : job[n].at \notin Writing \cup Restoring

-----------------------------------------------------------------------------
\* The list the bot shows is fetched anew, or its cached pages are turned.
ShowCandidates(s) ==
  /\ \E list \in Offers : cache' = list /\ shows' = [shows EXCEPT ![s] = list]
  /\ UNCHANGED <<store, lock, canary, job, reaper, proven, budgets>>
TurnPage(s) ==
  /\ cache # <<>>
  /\ shows' = [shows EXCEPT ![s] = cache]
  /\ UNCHANGED <<store, lock, canary, job, reaper, cache, proven, budgets>>

\* Fetch, parse and pin; a failure of any of them changes nothing.
StartRefresh(m) ==
  /\ At(m, "idle")
  /\ \E list \in Offers : job' = [job EXCEPT ![m].at = "wait", ![m].queue = list]
  /\ UNCHANGED <<store, lock, canary, reaper, chat, proven, budgets>>

\* A button names a position, which is looked up in the list fetched last.
StartPick(s) ==
  /\ At(Bot, "idle")
  /\ \E i \in DOMAIN shows[s] \cap DOMAIN cache :
       job' = [job EXCEPT ![Bot].at = "wait", ![Bot].queue = <<cache[i]>>]
  /\ UNCHANGED <<store, lock, canary, reaper, chat, proven, budgets>>

\* Mutant: each mover takes the lock of its own runtime directory.
CanLockAnyway == TRUE
CanLock == lock = None
TakeLock(m) ==
  /\ At(m, "wait") /\ CanLock
  /\ lock' = m /\ Goto(m, "build")
  /\ UNCHANGED <<store, canary, reaper, chat, proven, budgets>>

-----------------------------------------------------------------------------
\* One try: namespace, configuration, proxy, routes, hole, probe, clean-up.

\* The namespace and its link are created or found in order.
Build(m) ==
  /\ At(m, "build")
  /\ \E w \in Outcomes :
       /\ Spend(w) /\ Step(m, w, "write")
       /\ ns' \in (IF w = "ok" THEN {TRUE} ELSE {ns, TRUE})
  /\ UNCHANGED <<store, lock, conf, unit, hole, reaper, chat, proven>>

\* The proxy is restarted when its configuration changed or it does not run.
\* Its route out is set up first, and fails once the namespace is gone.
AfterConf(changed) == IF ~changed /\ unit # None THEN "routes" ELSE "restart"
WriteConf(m) ==
  /\ At(m, "write")
  /\ \/ \E w \in Outcomes :
          /\ conf = Candidate(m) => w = "ok"
          /\ Spend(w) /\ conf' \in Written(conf, Candidate(m), w)
          /\ Step(m, w, AfterConf(conf # Candidate(m)))
     \/ ~ns /\ Goto(m, "discard") /\ UNCHANGED <<conf, budgets>>
  /\ UNCHANGED <<store, lock, ns, unit, hole, reaper, chat, proven>>

\* The old process is stopped; the new one reads whatever the file holds, if its
\* namespace is there.
Restart(m) ==
  /\ At(m, "restart")
  /\ \E w \in Outcomes :
       /\ Spend(w) /\ Step(m, w, "routes")
       /\ unit' \in IF w = "ok" THEN {IF ns THEN conf ELSE None}
                   ELSE {None} \cup (IF RestartMayBreak THEN {unit} ELSE {})
  /\ UNCHANGED <<store, lock, ns, conf, hole, reaper, chat, proven>>

\* The proxy's device is waited for in the namespace that has the name now.
Alive == ns /\ unit \in Links
Routes(m) ==
  /\ At(m, "routes")
  /\ \E w \in Outcomes :
       Spend(w) /\ Step(m, IF Alive THEN w ELSE "fails", "allow")
  /\ UNCHANGED <<store, lock, canary, reaper, chat, proven>>

Allow(m) ==
  /\ At(m, "allow")
  /\ \E w \in Outcomes :
       /\ Spend(w) /\ Step(m, w, "probe")
       /\ hole' \in (IF w = "ok" THEN {TRUE} ELSE {hole, TRUE})
  /\ UNCHANGED <<store, lock, ns, conf, unit, reaper, chat, proven>>

\* A probe through a candidate that is up may or may not come back.
Probe(m) ==
  /\ At(m, "probe")
  /\ \E passed \in {FALSE} \cup {Alive} :
       /\ job' = [job EXCEPT ![m].at = "discard", ![m].ok = passed]
       /\ proven' = IF passed THEN proven \cup {unit} ELSE proven
  /\ UNCHANGED <<store, lock, canary, reaper, chat, budgets>>

Verdict(ok, w) == ok /\ w = "ok"
Discard(m) ==
  /\ At(m, "discard")
  /\ \E w \in Outcomes :
       /\ Spend(w)
       /\ hole' = (hole /\ w # "ok")
       /\ job' = [job EXCEPT ![m].at = "clean", ![m].ok = Verdict(@, w)]
  /\ UNCHANGED <<store, lock, ns, conf, unit, reaper, chat, proven>>

\* Mutant: the loop goes round once too often.
MoreAlways(q) == q # <<>>
More(q) == Tail(q) # <<>>

\* A verdict of success ends the selection; otherwise the next candidate is
\* tried, unless there is none or the deadline has passed.
Selected(m) ==
  IF job[m].ok
  THEN {[job[m] EXCEPT !.at = "read"], Resting}
  ELSE {Resting} \cup (IF More(job[m].queue)
                       THEN {[job[m] EXCEPT !.at = "build", !.queue = Tail(@)]}
                       ELSE {})
Clean(m) ==
  /\ At(m, "clean")
  /\ \E w \in Outcomes, left \in {unit, None} :
       /\ Spend(w)
       /\ left \in Tidied(unit, None, w)
       /\ ns' \in Tidied(ns, FALSE, w)
       /\ unit' = IF left # None /\ ~ns' THEN Stray ELSE left
  /\ \E next \in Selected(m) :
       /\ next.at = "read" => Turn(m)
       /\ job' = [job EXCEPT ![m] = next]
       /\ lock' = IF next.at = "build" THEN m ELSE None
  /\ UNCHANGED <<store, conf, hole, reaper, chat, proven>>

-----------------------------------------------------------------------------
\* UpstreamFile.Write: the link in place is kept, then replaced.

\* Mutant: the link in place is not kept.
AfterReadNotKept(l) == "put"
AfterRead(l) == IF l = None THEN "put" ELSE "keep"
\* What a read makes of a file: one that cannot be read is taken for one that is not there.
Seen(file, w) == IF w = "ok" THEN file ELSE None
Read(m) ==
  /\ At(m, "read")
  /\ \E w \in Outcomes :
       /\ Spend(w)
       /\ job' = [job EXCEPT ![m].at = AfterRead(Seen(link, w)), ![m].now = Seen(link, w)]
  /\ UNCHANGED <<store, lock, canary, reaper, chat, proven>>

Keep(m) ==
  /\ At(m, "keep")
  /\ \E w \in Outcomes :
       /\ Spend(w) /\ lkg' \in Replaced(lkg, job[m].now, w)
       /\ IF w = "ok" THEN Goto(m, "put") ELSE End(m)
  /\ UNCHANGED <<link, lock, canary, reaper, chat, proven>>

Put(m) ==
  /\ At(m, "put")
  /\ \E w \in Outcomes : Spend(w) /\ link' \in Replaced(link, Candidate(m), w)
  /\ End(m)
  /\ UNCHANGED <<lkg, lock, canary, reaper, chat, proven>>

-----------------------------------------------------------------------------
\* UpstreamFile.Restore: both links are read, the active one is demoted, the
\* previous one is promoted.  Unless both are read there is nothing to swap.

StartRestore(m) ==
  /\ At(m, "idle") /\ Turn(m)
  /\ Goto(m, "previous")
  /\ UNCHANGED <<store, lock, canary, reaper, chat, proven, budgets>>

ReadPrevious(m) ==
  /\ At(m, "previous")
  /\ \E w \in Outcomes :
       /\ Spend(w)
       /\ IF Seen(lkg, w) = None THEN End(m)
          ELSE job' = [job EXCEPT ![m].at = "current", ![m].was = lkg]
  /\ UNCHANGED <<store, lock, canary, reaper, chat, proven>>

ReadCurrent(m) ==
  /\ At(m, "current")
  /\ \E w \in Outcomes :
       /\ Spend(w)
       /\ IF Seen(link, w) = None THEN End(m)
          ELSE job' = [job EXCEPT ![m].at = "demote", ![m].now = link]
  /\ UNCHANGED <<store, lock, canary, reaper, chat, proven>>

Demote(m) ==
  /\ At(m, "demote")
  /\ \E w \in Outcomes :
       /\ Spend(w) /\ lkg' \in Replaced(lkg, job[m].now, w)
       /\ IF w = "ok" THEN Goto(m, "promote") ELSE End(m)
  /\ UNCHANGED <<link, lock, canary, reaper, chat, proven>>

Promote(m) ==
  /\ At(m, "promote")
  /\ \E w \in Outcomes : Spend(w) /\ link' \in Replaced(link, job[m].was, w)
  /\ End(m)
  /\ UNCHANGED <<lkg, lock, canary, reaper, chat, proven>>

-----------------------------------------------------------------------------
\* The agent's egress pass meets a namespace its revision does not name.
Notice ==
  /\ reaper = "idle" /\ ns
  /\ reaper' = "stop"
  /\ UNCHANGED <<store, lock, canary, job, chat, proven, budgets>>
ReapUnit ==
  /\ reaper = "stop"
  /\ \E w \in Outcomes : Spend(w) /\ unit' \in Tidied(unit, None, w)
  /\ reaper' = "del"
  /\ UNCHANGED <<store, lock, ns, conf, hole, job, chat, proven>>
ReapNamespace ==
  /\ reaper = "del"
  /\ \E w \in Outcomes : Spend(w) /\ ns' \in Tidied(ns, FALSE, w)
  /\ unit' = IF unit # None /\ ~ns' THEN Stray ELSE unit
  /\ reaper' = "forget"
  /\ UNCHANGED <<store, lock, conf, hole, job, chat, proven>>
ForgetSecrets ==
  /\ reaper = "forget"
  /\ \E w \in Outcomes : Spend(w) /\ conf' \in Tidied(conf, None, w)
  /\ reaper' = "idle"
  /\ UNCHANGED <<store, lock, ns, unit, hole, job, chat, proven>>

\* The kernel drops the lock of a process that died.
Crash(m) ==
  /\ ~At(m, "idle") /\ (RestartMayBreak \/ ~At(m, "restart"))
  /\ crashes < MaxCrashes /\ crashes' = crashes + 1 /\ UNCHANGED faults
  /\ End(m)
  /\ lock' = IF lock = m THEN None ELSE lock
  /\ cache' = IF m = Bot THEN <<>> ELSE cache
  /\ UNCHANGED <<store, canary, reaper, shows, proven>>
AgentCrash ==
  /\ reaper # "idle"
  /\ crashes < MaxCrashes /\ crashes' = crashes + 1 /\ UNCHANGED faults
  /\ reaper' = "idle"
  /\ UNCHANGED <<store, lock, canary, job, chat, proven>>

Try(m) ==
  \/ Build(m) \/ WriteConf(m) \/ Restart(m) \/ Routes(m) \/ Allow(m)
  \/ Probe(m) \/ Discard(m) \/ Clean(m)
Write(m) == Read(m) \/ Keep(m) \/ Put(m)
Restore(m) == ReadPrevious(m) \/ ReadCurrent(m) \/ Demote(m) \/ Promote(m)
Move(m) == TakeLock(m) \/ Try(m) \/ Write(m) \/ Restore(m)
Reap == Notice \/ ReapUnit \/ ReapNamespace \/ ForgetSecrets

Next ==
  \/ \E m \in Movers : StartRefresh(m) \/ StartRestore(m) \/ Move(m) \/ Crash(m)
  \/ \E s \in Messages : ShowCandidates(s) \/ TurnPage(s) \/ StartPick(s)
  \/ Reap \/ AgentCrash

Spec == Init /\ [][Next]_vars

-----------------------------------------------------------------------------
\* Whatever the subscription offers and whoever tries at the same time, the
\* agent is only ever given an upstream that itself carried traffic through the
\* canary, and so is the link kept to go back to (subscription.go:18-21).
OnlyProven == {link, lkg} \subseteq proven \cup {None}

\* About to replace a link it has not read: there is none, or it could not be read.
Blind(m) == At(m, "put") /\ job[m].now = None

\* An active link that its writer knows of is last-known-good when it is replaced,
\* whichever write fails and wherever the writer dies, as long as no two writers
\* overlap (upstreamstore.go:46-57, 111-119).
KnownIsKept ==
  [][link' # link /\ link # None => lkg' = link \/ \E m \in Movers : Blind(m)]_vars

\* What upstreamstore.go:111-113 says of the two writes of Restore: if it ends
\* between them, both upstreams are still on disk.
RestoreKeepsBoth ==
  [][\A m \in Movers : At(m, "promote") /\ job'[m].at = "idle"
       => {job[m].now, job[m].was} \subseteq {link', lkg'}]_vars
=============================================================================

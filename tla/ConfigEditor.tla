---------------------------- MODULE ConfigEditor ----------------------------
(***************************************************************************)
(* Everything that changes the configuration directory, the revocation     *)
(* list and the devices' stored keys: hubctl from shells, the bot's update *)
(* loop, and the key rotation the bot runs beside it.  An operation is     *)
(* several steps (read the configuration, rewrite one file under a lock,   *)
(* read everything again, validate, take the edit back, store a key, send  *)
(* a profile), any of which may fail, and between any two of which another *)
(* session may act or the process may die.                                 *)
(*                                                                         *)
(* Three files hold the sections: hub.yaml, devices.yaml and the tunnels'. *)
(* Each is written whole and atomically; they are read one after another   *)
(* and without the lock.  A key pair is one number.                        *)
(***************************************************************************)
EXTENDS ConfigEdits, Sequences, FiniteSetsExt

CONSTANTS
  Written,        \* the configurations on disk to begin with
  Loop,           \* the bot's update loop
  Spawned,        \* the goroutine the bot rotates the hub's key in
  Shells,         \* shells an operator runs hubctl from
  Jobs,           \* [session -> the operations it may be asked for]
  Nobody,         \* holds a lock or the gate that is free
  MaxOps,         \* bound: operations started in a behaviour
  MaxFaults       \* bound: failed file operations or messages, and deaths of a process

ASSUME BoundsAssumption == MaxOps \in Nat /\ MaxFaults \in Nat

ASSUME NobodyAssumption == Nobody \notin {Loop, Spawned} \cup Shells
ASSUME SessionsAssumption == Loop # Spawned /\ {Loop, Spawned} \cap Shells = {}
ASSUME BlankAssumption == Blank \notin Devices

Bot == {Loop, Spawned}
Sessions == Bot \cup Shells
\* Bound: keys generated. An operation generates one, a rotation one more per device.
MaxKeys == MaxOps * (Cardinality(Devices) + 1)

ASSUME WrittenAssumption ==
  \A cfg \in Written :
    IsConfiguration(cfg) /\ \A t \in DOMAIN cfg.tunnels : cfg.tunnels[t].enabled \in BOOLEAN

VARIABLES
  files,          \* the configuration on disk
  revoked,        \* the revocation list
  stored,         \* [device -> the key kept for its profile, or Blank]
  hubKey,         \* the hub's own key file
  configLock,     \* the flock of the configuration directory
  stateLock,      \* the flock of the state directory
  gate,           \* the bot's operations gate
  session,        \* [session -> what it is in the middle of]
  made,           \* keys generated so far
  ops, faults,    \* what the bounds count
  told,           \* history: [session -> the outcome its operator was last told]
  before,         \* history: [session -> the value its edit replaced]
  touched,        \* history: [session -> has another one written that value since?]
  acked,          \* history: devices reported revoked, and not let back since
  owed,           \* history: [session -> those of acked it must heed]
  sent,           \* history: the last profile delivered
  cut,            \* history: did a rotation end, or fail, between its two files?
  saved           \* history: the devices of the last revision saved, those its deploy owed

disk == <<files, revoked, stored, hubKey>>
locks == <<configLock, stateLock>>
bounds == <<made, ops, faults>>
history == <<before, touched, acked, owed, sent, cut, saved>>
vars == <<disk, locks, gate, session, bounds, told, history>>

-----------------------------------------------------------------------------
(* Operations.                                                             *)

Job(kind, device, edit) == [kind |-> kind, device |-> device, edit |-> edit]

\* What each goes through.  "edit" is undone when refused, "plain" is not; "peek" reads
\* what it will undo to before it asks for the gate, "informed" after; "unprobe" goes on
\* when it cannot read it.
Program == [
  edit     |-> <<"write", "check">>,
  plain    |-> <<"write", "check">>,
  peek     |-> <<"load", "claim", "write", "check">>,
  informed |-> <<"load", "write", "check">>,
  unprobe  |-> <<"load", "write", "check">>,
  revoke   |-> <<"list">>,
  readmit  |-> <<"list">>,
  deploy   |-> <<"load", "revocations", "save">>,
  send     |-> <<"load", "revocations", "send">>,
  add      |-> <<"load", "write", "check", "store", "send">>,
  reissue  |-> <<"load", "write", "check", "store", "list", "send">>,
  rotate   |-> <<"load", "rotate", "write", "check", "rekey", "store", "send", "final">>]

ToggleTunnel(t, enable) == Job("edit", Blank, SetTunnel(t, "enabled", enable))
EditTunnelList(e) == Job("edit", Blank, e)
HubctlListEdit(e) == Job("plain", Blank, e)
ToggleAccess(e) == Job("informed", Blank, e)
SetEgress(d, t) == Job("peek", Blank, SetDevice(d, "egress", t))
AllowClients(rule) == Job("edit", Blank, AddClientACL(rule))
ForbidClients(rule) == Job("peek", Blank, RemoveClientACL(rule))
EditHub(field, value) == Job("informed", Blank, SetHub(field, value))
SetAWG(key, value) == Job("informed", Blank, SetHubMapField(key, value))
RemoveAWG(key) == Job("informed", Blank, RemoveHubMapField(key))
SetProbe(t, probe) == Job("edit", Blank, SetTunnelMapField(t, "probe", probe))
RemoveProbe(t) == Job("unprobe", Blank, RemoveTunnelMapField(t, "probe"))
NewDevice(d, address, egress) ==
  Job("add", d, [address |-> address, key |-> Blank, egress |-> egress])
Reissue(d) == Job("reissue", d, Blank)
SendCurrent(d) == Job("send", d, Blank)
RevokeDevice(d) == Job("revoke", d, Blank)
Unrevoke(d) == Job("readmit", d, Blank)
Deploy == Job("deploy", Blank, Blank)
RotateHubKey == Job("rotate", Blank, Blank)

\* What is asked for is one of these.
EditsAField(e) ==
  /\ e = Edit(e.verb, e.section, e.id, e.field, e.value)
  /\ \/ e.section = "hub" /\ e.id = Blank /\ e.verb \in {"set", "unset"} /\ e.field \in HubFields \ {"key"}
     \/ e.section = "devices" /\ e.id \in Devices /\ e.verb = "set" /\ e.field = "egress"
     \/ e.section = "acls" /\ e.id = Blank /\ e.verb \in {"add", "remove"} /\ e.field = "rule"
     \/ /\ e.section = "tunnels" /\ e.id \in Tunnels
        /\ \/ e.verb = "set" /\ e.field = "enabled" /\ e.value \in BOOLEAN
           \/ e.verb \in {"set", "unset"} /\ e.field = "probe"
           \/ e.verb \in {"append", "drop"} /\ e.field \in {"routes", "zones", "allowed"}
Asking == {"edit", "plain", "peek", "informed", "unprobe"}
\* How each caller goes about what it asks for.
AskedAs(kind, e) ==
  /\ e.section = "hub" => kind = "informed"
  /\ e.section = "devices" => kind = "peek"
  /\ e.field = "enabled" => kind = "edit"
  /\ e.field = "probe" => kind = IF e.verb = "set" THEN "edit" ELSE "unprobe"
IsJob(job) ==
  /\ job = Job(job.kind, job.device, job.edit)
  /\ \/ /\ job.kind \in Asking /\ job.device = Blank
        /\ EditsAField(job.edit) /\ AskedAs(job.kind, job.edit)
     \/ /\ job.kind = "add" /\ job.device \in Devices
        /\ job.edit = [address |-> job.edit.address, key |-> Blank, egress |-> job.edit.egress]
     \/ job.kind \in {"reissue", "send", "revoke", "readmit"} /\ job.device \in Devices
     \/ job.kind \in {"deploy", "rotate"} /\ job.device = Blank
ASSUME JobsAssumption ==
  /\ \A s \in Sessions : \A job \in Jobs[s] : IsJob(job)
  /\ \A job \in Jobs[Spawned] : job.kind = "rotate"
\* Only the bot edits the hub's section, adds devices, gives them keys and sends profiles:
\* "hubctl device add" prints the entry it made.
ASSUME ShellsAssumption ==
  \A s \in Shells : \A job \in Jobs[s] :
    /\ job.kind \notin {"add", "reissue", "send", "rotate"}
    /\ job.kind \in Asking => job.edit.section # "hub"

Undoable == {"edit", "peek", "informed", "unprobe", "add", "reissue"}
Peeking == {"peek", "informed", "unprobe", "reissue"}

\* pc 0 is taking an edit back; first holds the configuration the operation began with,
\* copy what was read under a lock: nothing before, and copy nothing after.
Idle == [job |-> Job("none", Blank, Blank), pc |-> 1, read |-> <<>>, first |-> <<>>,
         copy |-> <<>>, key |-> Blank, left |-> {}, list |-> {}]

Busy(s) == session[s] # Idle
Kind(s) == session[s].job.kind
At(s, stage) ==
  Busy(s) /\ session[s].pc # 0 /\ Program[Kind(s)][session[s].pc] = stage
Undoing(s) == Busy(s) /\ session[s].pc = 0

\* Which sections a file holds: hub.yaml has the ACLs too.
Parts == <<{"hub", "acls"}, {"devices"}, {"tunnels"}>>
PartOf(e) == CHOOSE p \in {Parts[k] : k \in DOMAIN Parts} : e.section \in p

\* Two edits of the same value.
Concerns(e, f) ==
  /\ e.section = f.section /\ e.id = f.id
  /\ e.field = f.field \/ "entry" \in {e.field, f.field}
  /\ e.section = "acls" \/ e.verb \in {"append", "drop"} => e.value = f.value

\* What an edit is about, as a configuration has it.
Value(cfg, e) ==
  CASE e.section = "acls" -> e.value \in cfg.acls
    [] e.section = "hub" -> cfg.hub[e.field]
    [] e.verb \in {"append", "drop"} -> e.value \in cfg.tunnels[e.id][e.field]
    [] e.field = "entry" -> IF e.id \in DOMAIN cfg.devices THEN cfg.devices[e.id] ELSE Blank
    [] OTHER -> IF e.id \in DOMAIN cfg[e.section] THEN cfg[e.section][e.id][e.field] ELSE Blank

\* The device a step is about: rotation takes them one by one.
Device(s) == IF Kind(s) = "rotate" THEN Min(session[s].left) ELSE session[s].job.device

Forward(s) ==
  LET now == session[s]
  IN  CASE now.job.kind = "add" -> AddDevice(now.job.device, [now.job.edit EXCEPT !.key = now.key])
        [] now.job.kind = "reissue" \/ At(s, "rekey") -> SetDevice(Device(s), "key", now.key)
        [] now.job.kind = "rotate" /\ ~At(s, "rekey") -> SetHub("key", now.key)
        [] OTHER -> now.job.edit
Backward(s) ==
  Undo(Forward(s), IF Kind(s) \in Peeking /\ session[s].first # <<>>
                     THEN Value(session[s].first[1], Forward(s)) ELSE Blank)

-----------------------------------------------------------------------------
Init ==
  /\ files \in Written
  /\ revoked = {}
  /\ stored = [d \in Devices |-> IF d \in DOMAIN files.devices THEN files.devices[d].key ELSE Blank]
  /\ hubKey = files.hub.key
  /\ configLock = Nobody /\ stateLock = Nobody /\ gate = Nobody
  /\ session = [s \in Sessions |-> Idle]
  /\ made = 0 /\ ops = 0 /\ faults = 0
  /\ told = [s \in Sessions |-> Blank]
  /\ before = [s \in Sessions |-> Blank] /\ touched = [s \in Sessions |-> FALSE]
  /\ acked = {} /\ owed = [s \in Sessions |-> {}]
  /\ sent = Blank /\ cut = FALSE /\ saved = [devices |-> {}, owed |-> {}]

Fault == faults < MaxFaults /\ faults' = faults + 1
Generate == made < MaxKeys /\ made' = made + 1

\* Mutant: a return before the gate is released.
EndHoldingGate(s, outcome) ==
  /\ session' = [session EXCEPT ![s] = Idle]
  /\ told' = [told EXCEPT ![s] = outcome]
  /\ UNCHANGED gate

\* An operation ends: the deferred release of the gate, and the answer.
End(s, outcome) ==
  /\ session' = [session EXCEPT ![s] = Idle]
  /\ told' = [told EXCEPT ![s] = outcome]
  /\ gate' = IF gate = s THEN Nobody ELSE gate

\* On to the next stage; the rotation repeats three of them for each device.
Proceed(s, now) ==
  LET program == Program[Kind(s)]
      next == IF Kind(s) = "rotate" /\ program[now.pc] \in {"check", "send"}
                THEN IF now.left = {} THEN 8 ELSE 5
                ELSE now.pc + 1
  IN  IF next > Len(program)
        THEN End(s, "done")
        ELSE session' = [session EXCEPT ![s] = [now EXCEPT !.pc = next]] /\ UNCHANGED <<gate, told>>

\* An edit that did not last is taken back by those who know how.
TakeBack(s, outcome) ==
  IF Kind(s) \in Undoable
    THEN session' = [session EXCEPT ![s] = [@ EXCEPT !.pc = 0, !.read = <<>>]]
         /\ UNCHANGED <<gate, told>>
    ELSE End(s, outcome)

\* Mutant: a session of the bot goes ahead whatever the gate says.
AdmittedAnyway(s) == TRUE

\* Check and claim are one step; a shell knows nothing of the gate.
Admitted(s) == s \in Bot => gate = Nobody
Claimed(s) == IF s \in Bot THEN s ELSE gate

Start(s, job) ==
  /\ ~Busy(s) /\ ops < MaxOps
  /\ IF job.kind = "peek" THEN UNCHANGED gate ELSE Admitted(s) /\ gate' = Claimed(s)
  /\ session' = [session EXCEPT ![s] = [Idle EXCEPT !.job = job]]
  /\ ops' = ops + 1
  /\ told' = [told EXCEPT ![s] = Blank]
  /\ before' = [before EXCEPT ![s] = Blank] /\ touched' = [touched EXCEPT ![s] = FALSE]
  /\ owed' = [owed EXCEPT ![s] = acked]
  /\ UNCHANGED <<disk, locks, made, faults, acked, sent, cut, saved>>

Claim(s) ==
  /\ At(s, "claim")
  /\ IF Admitted(s)
       THEN gate' = Claimed(s) /\ session' = [session EXCEPT ![s].pc = @ + 1] /\ UNCHANGED told
       ELSE End(s, "busy")
  /\ UNCHANGED <<disk, locks, bounds, history>>

-----------------------------------------------------------------------------
(* Reading: hub.yaml, then devices.yaml, then the tunnels, and validating. *)

Reading(s) == At(s, "load") \/ At(s, "check") \/ At(s, "final")

ReadFile(s) ==
  LET read == session[s].read
  IN  /\ Reading(s) /\ Len(read) < Len(Parts) - 1
      /\ session' = [session EXCEPT ![s].read = Append(@, Only(files, Parts[Len(read) + 1]))]
      /\ UNCHANGED <<disk, locks, gate, told, bounds, history>>

\* The last file and the verdict.  The rotation takes the hub it sends from its check.
LoadAndValidate(s) ==
  LET read == session[s].read
      cfg == [hub |-> read[1].hub, acls |-> read[1].acls, devices |-> read[2].devices,
              tunnels |-> files.tunnels]
      now == [session[s] EXCEPT !.read = <<>>]
      known == session[s].job.device \in {Blank} \cup DOMAIN cfg.devices \/ Kind(s) = "add"
  IN  /\ Reading(s) /\ Len(read) = Len(Parts) - 1
      /\ \/ ~Validate(cfg) /\ At(s, "check") /\ TakeBack(s, "invalid")
         \/ ~Validate(cfg) /\ At(s, "load") /\ Kind(s) = "unprobe" /\ Proceed(s, now)
         \/ ~Validate(cfg) /\ ~At(s, "check") /\ Kind(s) # "unprobe" /\ End(s, "invalid")
         \/ Validate(cfg) /\ At(s, "load") /\ ~known /\ End(s, "no such device")
         \/ Validate(cfg) /\ At(s, "load") /\ known
              /\ Proceed(s, [now EXCEPT !.first = <<cfg>>, !.left = DOMAIN cfg.devices])
         \/ Validate(cfg) /\ At(s, "check")
              /\ Proceed(s, IF Kind(s) = "rotate"
                              THEN [now EXCEPT !.first = <<[@[1] EXCEPT !.hub = cfg.hub]>>] ELSE now)
         \/ Validate(cfg) /\ At(s, "final") /\ Proceed(s, now)
      /\ UNCHANGED <<disk, locks, bounds, history>>

-----------------------------------------------------------------------------
(* Rewriting one file under the lock of the directory.                     *)

Writing(s) ==
  \/ At(s, "write") \/ At(s, "rekey")
  \/ Undoing(s) /\ ~(Kind(s) = "unprobe" /\ session[s].first = <<>>)
Generating(s) == At(s, "rekey") \/ (At(s, "write") /\ Kind(s) \in {"add", "reissue"})

\* The key of an edit that carries one is generated on the way.
Opened(s) ==
  [session[s] EXCEPT !.key = IF Generating(s) THEN made' ELSE @,
                     !.copy = <<Only(files, PartOf(Forward(s)))>>]

\* Mutant: the lock is not taken.
OpenUnlocked(s) ==
  /\ Writing(s) /\ session[s].copy = <<>>
  /\ IF Generating(s) THEN Generate ELSE UNCHANGED made
  /\ session' = [session EXCEPT ![s] = Opened(s)]
  /\ UNCHANGED <<disk, locks, gate, ops, faults, told, history>>

Open(s) ==
  /\ Writing(s) /\ session[s].copy = <<>>
  /\ configLock = Nobody /\ configLock' = s
  /\ IF Generating(s) THEN Generate ELSE UNCHANGED made
  /\ session' = [session EXCEPT ![s] = Opened(s)]
  /\ UNCHANGED <<disk, stateLock, gate, ops, faults, told, history>>

Released(lock, s) == IF lock = s THEN Nobody ELSE lock

Wanted(s) == IF Undoing(s) THEN Backward(s) ELSE Forward(s)
Rotating(s) == Kind(s) = "rotate" /\ At(s, "write")

\* The file is replaced by the edited copy.
Replace(s) ==
  LET copy == session[s].copy[1]
      e == Wanted(s)
      others == {t \in Sessions \ {s} : Busy(t) /\ Kind(t) \in Undoable /\ Concerns(e, Forward(t))}
  IN  /\ Writing(s) /\ session[s].copy # <<>>
      /\ Applies(copy, e)
      /\ files' = [section \in DOMAIN files |->
                     IF section \in DOMAIN copy THEN Apply(copy, e)[section] ELSE files[section]]
      /\ touched' = [t \in Sessions |->
                       \/ t \in others
                       \/ (touched[t] /\ (t = s => (Undoing(s) \/ Kind(s) \in Peeking)))]
      /\ cut' = (cut /\ ~Rotating(s))
      /\ UNCHANGED <<revoked, stored, hubKey>>

\* The write, and the release of the lock after it.  An edit of what is not there is
\* refused; one that is undone leaves whatever stands if it cannot be undone.
Rewrite(s) ==
  /\ Replace(s)
  /\ configLock' = Released(configLock, s)
  /\ IF Undoing(s) THEN End(s, "cancelled") ELSE Proceed(s, [session[s] EXCEPT !.copy = <<>>])
  /\ before' = IF Undoing(s) THEN before ELSE [before EXCEPT ![s] = Value(session[s].copy[1], Wanted(s))]
  /\ UNCHANGED <<stateLock, bounds, acked, owed, sent, saved>>

RewriteFails(s) ==
  /\ Writing(s) /\ session[s].copy # <<>>
  /\ IF Applies(session[s].copy[1], Wanted(s)) THEN Fault ELSE UNCHANGED faults
  /\ configLock' = Released(configLock, s)
  /\ End(s, IF Undoing(s) THEN "undo failed" ELSE "refused")
  /\ cut' = (cut \/ Rotating(s))
  /\ UNCHANGED <<disk, stateLock, made, ops, before, touched, acked, owed, sent, saved>>

\* A write is reported failed when the directory cannot be flushed after the rename: the
\* file is replaced all the same.
RewriteFailsLate(s) ==
  /\ Replace(s)
  /\ Fault
  /\ configLock' = Released(configLock, s)
  /\ End(s, IF Undoing(s) THEN "undo failed" ELSE "refused")
  /\ UNCHANGED <<stateLock, made, ops, before, acked, owed, sent, saved>>

\* The probe was never read: nothing to put back, and said to be.
NothingToPutBack(s) ==
  /\ Undoing(s) /\ Kind(s) = "unprobe" /\ session[s].first = <<>>
  /\ End(s, "cancelled")
  /\ UNCHANGED <<disk, locks, bounds, history>>

-----------------------------------------------------------------------------
(* The hub's key, the stored keys and the profiles: each write may fail    *)
(* before its file is replaced, or after.                                  *)

RotateKey(s) ==
  /\ At(s, "rotate")
  /\ \/ /\ Generate /\ hubKey' = made'
        /\ Proceed(s, [session[s] EXCEPT !.key = made'])
        /\ UNCHANGED <<faults, cut>>
     \/ Fault /\ End(s, "nothing changed") /\ UNCHANGED <<made, hubKey, cut>>
     \/ /\ Fault /\ End(s, "nothing changed")
        /\ Generate /\ hubKey' = made' /\ cut' = TRUE
  /\ UNCHANGED <<files, revoked, stored, locks, ops, before, touched, acked, owed, sent, saved>>

\* One write under the lock of the state directory.
StoreKey(s) ==
  LET kept == [stored EXCEPT ![Device(s)] = session[s].key]
  IN  /\ At(s, "store") /\ stateLock = Nobody
      /\ \/ stored' = kept /\ Proceed(s, session[s]) /\ UNCHANGED faults
         \/ stored' \in {stored, kept} /\ Fault /\ TakeBack(s, "interrupted")
      /\ UNCHANGED <<files, revoked, hubKey, locks, made, ops, history>>

ReadRevocations(s) ==
  /\ At(s, "revocations")
  /\ IF Kind(s) = "send" /\ Device(s) \in revoked
       THEN End(s, "revoked")
       ELSE Proceed(s, [session[s] EXCEPT !.list = revoked])
  /\ UNCHANGED <<disk, locks, bounds, history>>

\* A profile delivered again needs the key it was made with, still the device's.
Sendable(s) == Kind(s) = "send" => stored[Device(s)] = session[s].first[1].devices[Device(s)].key

Profile(s) ==
  LET d == Device(s)
      cfg == session[s].first[1]
  IN  [device |-> d, hub |-> cfg.hub,
       address |-> IF Kind(s) = "add" THEN session[s].job.edit.address ELSE cfg.devices[d].address,
       key |-> IF Kind(s) = "send" THEN stored[d] ELSE session[s].key]

Send(s) ==
  /\ At(s, "send")
  /\ \/ /\ Sendable(s)
        /\ sent' = Profile(s)
        /\ Proceed(s, [session[s] EXCEPT !.left = @ \ {Device(s)}])
        /\ UNCHANGED faults
     \/ ~Sendable(s) /\ End(s, "reissue it") /\ UNCHANGED <<sent, faults>>
     \/ Sendable(s) /\ Fault /\ End(s, "not sent") /\ UNCHANGED sent
  /\ UNCHANGED <<disk, locks, made, ops, before, touched, acked, owed, cut, saved>>

-----------------------------------------------------------------------------
(* The revocation list, and the deploy that reads it.                      *)

\* Mutant: the list is read before the lock is taken.
OpenListUnlocked(s) ==
  /\ At(s, "list") /\ session[s].copy = <<>>
  /\ session' = [session EXCEPT ![s].copy = <<revoked>>]
  /\ UNCHANGED <<disk, locks, gate, bounds, told, history>>

OpenList(s) ==
  /\ At(s, "list") /\ session[s].copy = <<>>
  /\ stateLock = Nobody /\ stateLock' = s
  /\ session' = [session EXCEPT ![s].copy = <<revoked>>]
  /\ UNCHANGED <<disk, configLock, gate, bounds, told, history>>

\* The list is replaced.  A lift takes the device out of what is to be heeded.
ReplaceList(s) ==
  LET d == Device(s)
  IN  IF Kind(s) = "revoke"
        THEN revoked' = session[s].copy[1] \cup {d} /\ UNCHANGED owed
        ELSE /\ revoked' = session[s].copy[1] \ {d}
             /\ owed' = [t \in Sessions |-> owed[t] \ {d}]

\* A reissue lifts the revocation, and steps over a failure to.  Of what is reported
\* failed, a revocation counts for nothing and a lift for what it may have done.
RewriteList(s) ==
  LET d == Device(s)
      now == [session[s] EXCEPT !.copy = <<>>]
  IN  /\ At(s, "list") /\ session[s].copy # <<>>
      /\ stateLock' = Released(stateLock, s)
      /\ \/ /\ ReplaceList(s) /\ Proceed(s, now) /\ UNCHANGED faults
           /\ acked' = IF Kind(s) = "revoke" THEN acked \cup {d} ELSE acked \ {d}
        \/ /\ Fault
           /\ IF Kind(s) = "reissue" THEN Proceed(s, now) ELSE End(s, "failed")
           /\ \/ UNCHANGED <<revoked, acked, owed>>
              \/ /\ ReplaceList(s)
                 /\ acked' = IF Kind(s) = "revoke" THEN acked ELSE acked \ {d}
      /\ UNCHANGED <<files, stored, hubKey, configLock, made, ops, before, touched, sent, cut, saved>>

\* Arming the confirmation and what may fail there is DeployConfirm's.
Save(s) ==
  LET revision == [devices |-> DOMAIN RemoveRevoked(session[s].first[1], session[s].list).devices,
                   owed |-> owed[s]]
  IN  /\ At(s, "save")
      /\ \/ saved' = revision /\ Proceed(s, session[s]) /\ UNCHANGED faults
         \/ saved' \in {saved, revision} /\ Fault /\ End(s, "failed")
      /\ UNCHANGED <<disk, locks, made, ops, before, touched, acked, owed, sent, cut>>

-----------------------------------------------------------------------------
\* A process dies: its locks are the kernel's to free, its gate was in its memory.
Die(process) ==
  LET freed(lock) == IF lock \in process THEN Nobody ELSE lock
  IN  /\ \E s \in process : Busy(s)
      /\ Fault
      /\ session' = [s \in Sessions |-> IF s \in process THEN Idle ELSE session[s]]
      /\ configLock' = freed(configLock) /\ stateLock' = freed(stateLock) /\ gate' = freed(gate)
      /\ cut' = (cut \/ \E s \in process : Rotating(s))
      /\ UNCHANGED <<disk, made, ops, told, before, touched, acked, owed, sent, saved>>

Step(s) ==
  \/ Claim(s) \/ ReadFile(s) \/ LoadAndValidate(s)
  \/ Open(s) \/ Rewrite(s) \/ RewriteFails(s) \/ RewriteFailsLate(s) \/ NothingToPutBack(s)
  \/ RotateKey(s) \/ StoreKey(s) \/ ReadRevocations(s) \/ Send(s)
  \/ OpenList(s) \/ RewriteList(s) \/ Save(s)

Next ==
  \/ \E s \in Sessions : (\E job \in Jobs[s] : Start(s, job)) \/ Step(s)
  \/ \E process \in {Bot} \cup {{s} : s \in Shells} : Die(process)

Spec == Init /\ [][Next]_vars

-----------------------------------------------------------------------------
(* Properties.                                                             *)

\* Locks and gate are held by sessions that are in the middle of what they are for.
TypeOK ==
  /\ revoked \cup acked \subseteq Devices
  /\ made \in 0 .. MaxKeys
  /\ ops \in 0 .. MaxOps /\ faults \in 0 .. MaxFaults
  /\ DOMAIN files.devices \subseteq Devices
  /\ configLock # Nobody => Writing(configLock) /\ session[configLock].copy # <<>>
  /\ stateLock # Nobody => At(stateLock, "list") /\ session[stateLock].copy # <<>>
  /\ gate # Nobody => gate \in Bot /\ Busy(gate)
  /\ ~(Busy(Loop) /\ Busy(Spawned) /\ Kind(Loop) # "peek")

\* Every edit that may be made: what is asked for, the devices that are added, the keys
\* that are generated, and what undoes these, with every value that may be put back.
AllJobs == UNION {Jobs[s] : s \in Sessions}
NewJobs == {job \in AllJobs : job.kind = "add"}
Asked == {job.edit : job \in {job \in AllJobs : job.kind \in Asking}}
Generated == 1 .. MaxKeys
Given == UNION {{cfg.devices[d].key : d \in DOMAIN cfg.devices} : cfg \in Written}
Values(e) ==
  IF e.verb \notin {"set", "unset"} THEN {Blank}
  ELSE {Blank} \cup {Value(cfg, e) : cfg \in Written}
         \cup {f.value : f \in {f \in Asked : Concerns(e, f)}}
         \cup {job.edit.egress : job \in {job \in NewJobs : e.section = "devices" /\ job.device = e.id}}
Undone == UNION {{Undo(e, v) : v \in Values(e)} : e \in Asked}
Added == UNION {{AddDevice(job.device, [job.edit EXCEPT !.key = k]) : k \in Generated} : job \in NewJobs}
Removed == {RemoveDevice(job.device) : job \in NewJobs}
Rekeyed == UNION {{SetDevice(d, "key", k) : k \in Generated} : d \in Devices}
KeysPutBack == UNION {{Undo(SetDevice(d, "key", Blank), k) : k \in Generated \cup Given} : d \in Devices}
Rotated == {SetHub("key", k) : k \in Generated}
AllEdits == Asked \cup Undone \cup Added \cup Removed \cup Rekeyed \cup KeysPutBack \cup Rotated

Atomic == INSTANCE AtomicConfig WITH config <- files, Edits <- AllEdits

\* Whatever the sessions do at once, and wherever they die, the files change by whole
\* edits applied to the latest configuration, and no revocation overwrites another.
AtomicEdits == Atomic!Spec

\* A profile carries, when it is sent, the key, the address and the hub that the
\* configuration has; a key that can be sent again; and the hub's real key, unless a
\* rotation ended between its two files: cut short, or reported failed with the key's
\* file replaced.
SentProfileWorks ==
  [][sent' # sent =>
       LET d == sent'.device
       IN  /\ d \in DOMAIN files.devices
           /\ sent'.hub = files.hub
           /\ sent'.address = files.devices[d].address
           /\ sent'.key = files.devices[d].key /\ sent'.key = stored[d]
           /\ cut \/ sent'.hub.key = hubKey]_vars

Cancels(s) == Undoing(s) /\ told'[s] # told[s] /\ told'[s] = "cancelled"
\* What a caller cannot undo although it says so: a toggle that changed nothing, a
\* probe written over another, a probe it removed without having read it.
Lost(s) ==
  LET e == Forward(s)
  IN  \/ Kind(s) = "edit" /\ e.field = "enabled" /\ before[s] = e.value
      \/ Kind(s) = "edit" /\ e.field = "probe" /\ before[s] # Blank
      \/ Kind(s) = "unprobe" /\ session[s].first = <<>>

\* What is reported cancelled is back to what the edit replaced, unless another session
\* wrote the same value in between.
RefusedLeavesNoTrace ==
  [][\A s \in Sessions :
       Cancels(s) /\ ~touched[s] /\ ~Lost(s)
         => Value(files', Forward(s)) = before[s]]_vars

\* A revocation that was reported stands until it is lifted, and no deploy begun after
\* it saves the device.
RevocationHeeded == acked \subseteq revoked /\ saved.devices \cap saved.owed = {}
=============================================================================

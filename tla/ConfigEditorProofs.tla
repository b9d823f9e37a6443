------------------------- MODULE ConfigEditorProofs -------------------------
(***************************************************************************)
(* Proofs about ConfigEditor, for any sessions, jobs, devices and tunnels: *)
(* type correctness, with what it says of the two locks and the gate; that *)
(* no deploy saves a device whose revocation was reported before it began; *)
(* that the files change by whole edits of the latest configuration, which *)
(* is what AtomicConfig promises; and that a profile works when it is sent.*)
(***************************************************************************)
EXTENDS ConfigEditor, WellFoundedInduction, FiniteSetTheorems, SequenceTheorems, TLAPS

-----------------------------------------------------------------------------
(* Where an operation stands.                                              *)

\* Each program has its stages at the same places for every session.
LEMMA Stages ==
  ASSUME NEW k \in DOMAIN Program
  PROVE  /\ Len(Program[k]) \in 1 .. 8
         /\ \A p \in 1 .. Len(Program[k]) :
              LET stage == Program[k][p]
              IN  /\ stage = "load" <=> p = 1 /\ k \notin {"edit", "plain", "revoke", "readmit"}
                  /\ stage = "claim" <=> p = 2 /\ k = "peek"
                  /\ stage = "write" <=>
                       \/ p = 1 /\ k \in {"edit", "plain"}
                       \/ p = 2 /\ k \in {"informed", "unprobe", "add", "reissue"}
                       \/ p = 3 /\ k \in {"peek", "rotate"}
                  /\ stage = "check" <=>
                       \/ p = 2 /\ k \in {"edit", "plain"}
                       \/ p = 3 /\ k \in {"informed", "unprobe", "add", "reissue"}
                       \/ p = 4 /\ k \in {"peek", "rotate"}
                  /\ stage = "list" <=> (p = 1 /\ k \in {"revoke", "readmit"}) \/ (p = 5 /\ k = "reissue")
                  /\ stage = "revocations" <=> p = 2 /\ k \in {"deploy", "send"}
                  /\ stage = "save" <=> p = 3 /\ k = "deploy"
                  /\ stage = "store" <=> (p = 4 /\ k \in {"add", "reissue"}) \/ (p = 6 /\ k = "rotate")
                  /\ stage = "send" <=>
                       \/ p = 3 /\ k = "send"
                       \/ p = 5 /\ k = "add"
                       \/ p = 6 /\ k = "reissue"
                       \/ p = 7 /\ k = "rotate"
                  /\ stage = "rotate" <=> p = 2 /\ k = "rotate"
                  /\ stage = "rekey" <=> p = 5 /\ k = "rotate"
                  /\ stage = "final" <=> p = 8 /\ k = "rotate"
<1>1. CASE k \in {"edit", "plain"}
  <2>1. Program[k] = <<"write", "check">>
    BY <1>1 DEF Program
  <2> QED
    BY <1>1, <2>1
<1>2. CASE k = "peek"
  <2>1. Program[k] = <<"load", "claim", "write", "check">>
    BY <1>2 DEF Program
  <2> QED
    BY <1>2, <2>1
<1>3. CASE k \in {"informed", "unprobe"}
  <2>1. Program[k] = <<"load", "write", "check">>
    BY <1>3 DEF Program
  <2> QED
    BY <1>3, <2>1
<1>4. CASE k \in {"revoke", "readmit"}
  <2>1. Program[k] = <<"list">>
    BY <1>4 DEF Program
  <2> QED
    BY <1>4, <2>1
<1>5. CASE k = "deploy"
  <2>1. Program[k] = <<"load", "revocations", "save">>
    BY <1>5 DEF Program
  <2> QED
    BY <1>5, <2>1
<1>6. CASE k = "send"
  <2>1. Program[k] = <<"load", "revocations", "send">>
    BY <1>6 DEF Program
  <2> QED
    BY <1>6, <2>1
<1>7. CASE k = "add"
  <2>1. Program[k] = <<"load", "write", "check", "store", "send">>
    BY <1>7 DEF Program
  <2> QED
    BY <1>7, <2>1
<1>8. CASE k = "reissue"
  <2>1. Program[k] = <<"load", "write", "check", "store", "list", "send">>
    BY <1>8 DEF Program
  <2> QED
    BY <1>8, <2>1
<1>9. CASE k = "rotate"
  <2>1. Program[k] = <<"load", "rotate", "write", "check", "rekey", "store", "send", "final">>
    BY <1>9 DEF Program
  <2> QED
    BY <1>9, <2>1
<1>10. k \in {"edit", "plain", "peek", "informed", "unprobe", "revoke", "readmit", "deploy", "send",
              "add", "reissue", "rotate"}
  BY DEF Program
<1> QED
  BY <1>1, <1>2, <1>3, <1>4, <1>5, <1>6, <1>7, <1>8, <1>9, <1>10

-----------------------------------------------------------------------------
(* The inductive invariant.                                                *)

\* Where what a session is in the middle of stands in its program.
Claims(now) == now.job.kind = "peek" /\ now.pc = 2
Loads(now) ==
  now.pc = 1 /\ now.job.kind \in {"peek", "informed", "unprobe", "deploy", "send", "add", "reissue", "rotate"}
Checks(now) ==
  \/ now.pc = 2 /\ now.job.kind \in {"edit", "plain"}
  \/ now.pc = 3 /\ now.job.kind \in {"informed", "unprobe", "add", "reissue"}
  \/ now.pc = 4 /\ now.job.kind \in {"peek", "rotate"}
Finishes(now) == now.pc = 8 /\ now.job.kind = "rotate"
Writes(now) ==
  \/ now.pc = 1 /\ now.job.kind \in {"edit", "plain"}
  \/ now.pc = 2 /\ now.job.kind \in {"informed", "unprobe", "add", "reissue"}
  \/ now.pc = 3 /\ now.job.kind \in {"peek", "rotate"}
Rekeys(now) == now.pc = 5 /\ now.job.kind = "rotate"
Restores(now) == now.pc = 0 /\ ~(now.job.kind = "unprobe" /\ now.first = <<>>)
Rewrites(now) == Writes(now) \/ Rekeys(now) \/ Restores(now)
Lists(now) ==
  (now.pc = 1 /\ now.job.kind \in {"revoke", "readmit"}) \/ (now.pc = 5 /\ now.job.kind = "reissue")
Saves(now) == now.pc = 3 /\ now.job.kind = "deploy"
Carries(now) == Rekeys(now) \/ (Writes(now) /\ now.job.kind \in {"add", "reissue"})

\* What may be in the files: keys that were given or generated, and in every field that
\* is edited a value that may be put back.
KnownHub(hub) ==
  /\ DOMAIN hub = HubFields
  /\ \A e \in Asked : e.section = "hub" => hub[e.field] \in Values(e)
KnownDevices(devices) ==
  /\ DOMAIN devices \subseteq Devices
  /\ \A d \in DOMAIN devices :
       DOMAIN devices[d] = DeviceFields /\ devices[d].key \in Generated \cup Given
  /\ \A e \in Asked :
       e.section = "devices" /\ e.id \in DOMAIN devices => devices[e.id][e.field] \in Values(e)
KnownTunnels(tunnels) ==
  /\ DOMAIN tunnels \subseteq Tunnels
  /\ \A t \in DOMAIN tunnels : DOMAIN tunnels[t] = TunnelFields
  /\ \A e \in Asked :
       e.section = "tunnels" /\ e.field = "probe" /\ e.id \in DOMAIN tunnels
         => tunnels[e.id].probe \in Values(e)
Known(cfg) ==
  /\ DOMAIN cfg = {"hub", "devices", "tunnels", "acls"}
  /\ KnownHub(cfg.hub) /\ KnownDevices(cfg.devices) /\ KnownTunnels(cfg.tunnels)

\* What a session is in the middle of: one of its jobs, at a stage of its program; the
\* devices still to be rekeyed; what it has read; a key it generated.
SessionFields == {"job", "pc", "read", "first", "copy", "key", "left", "list"}
JobOK(s, now) ==
  /\ DOMAIN now = SessionFields
  /\ now # Idle =>
       /\ now.job \in Jobs[s] /\ IsJob(now.job) /\ now.job.kind \in DOMAIN Program
       /\ now.pc \in 0 .. Len(Program[now.job.kind])
       /\ now.pc = 0 => now.job.kind \in Undoable
LeftOK(now) ==
  now.left \subseteq Devices /\ (now.job.kind = "rotate" /\ now.pc \in 5 .. 7 => now.left # {})
ReadOK(now) ==
  \/ now.read = <<>>
  \/ /\ Loads(now) \/ Checks(now) \/ Finishes(now)
     /\ KnownHub(now.read[1].hub)
     /\ \/ now.read = <<now.read[1]>>
        \/ now.read = <<now.read[1], now.read[2]>> /\ KnownDevices(now.read[2].devices)
Loading == {"peek", "informed", "deploy", "send", "add", "reissue", "rotate"}
FirstOK(now) ==
  /\ now.first # <<>> =>
       /\ Known(now.first[1])
       /\ now.job.kind = "reissue" => now.job.device \in DOMAIN now.first[1].devices
  /\ now.job.kind \in Loading /\ now.pc # 1 => now.first # <<>>
KeyOK(now) ==
  (Carries(now) /\ now.copy # <<>>) \/ (now.job.kind = "rotate" /\ now.pc = 3) => now.key \in Generated
NowOK(s, now) ==
  /\ JobOK(s, now) /\ LeftOK(now) /\ ReadOK(now) /\ FirstOK(now) /\ KeyOK(now)
  /\ now.copy # <<>> => Rewrites(now) \/ Lists(now)

SessionsOK == DOMAIN session = Sessions /\ \A s \in Sessions : NowOK(s, session[s])
FilesOK == Known(files)
\* A lock is held by whoever has read what it protects, and what was read still stands.
LocksOK ==
  /\ configLock \in {Nobody} \cup Sessions /\ stateLock \in {Nobody} \cup Sessions
  /\ \A s \in Sessions :
       /\ configLock = s <=> session[s].copy # <<>> /\ Rewrites(session[s])
       /\ configLock = s => session[s].copy = <<Only(files, PartOf(Forward(s)))>>
       /\ stateLock = s <=> session[s].copy # <<>> /\ Lists(session[s])
       /\ stateLock = s => session[s].copy = <<revoked>>
GateOK ==
  /\ gate \in {Nobody} \cup Bot
  /\ \A s \in Bot : gate = s => Busy(s)
  /\ Busy(Loop) /\ Kind(Loop) # "peek" => gate = Loop
  /\ Busy(Spawned) => gate = Spawned
CountsOK == made \in 0 .. MaxKeys /\ ops \in 0 .. MaxOps /\ faults \in 0 .. MaxFaults
\* What a session must heed it has read by the time it saves.
HeedOK ==
  /\ acked \subseteq revoked /\ revoked \subseteq Devices
  /\ DOMAIN owed = Sessions
  /\ \A s \in Sessions :
       owed[s] \subseteq acked /\ (Saves(session[s]) => owed[s] \subseteq session[s].list)
  /\ saved.devices \cap saved.owed = {}

EditorInv == SessionsOK /\ FilesOK /\ LocksOK /\ GateOK /\ CountsOK /\ HeedOK

-----------------------------------------------------------------------------
(* Where a session stands.                                                 *)

LEMMA JobKinds ==
  ASSUME NEW job, IsJob(job)
  PROVE  job.kind \in DOMAIN Program /\ job.kind # "none"
BY DEF IsJob, Asking, Program

LEMMA IdleLemma ==
  /\ DOMAIN Idle = SessionFields /\ Idle.job.kind = "none" /\ Idle.job.device = Blank /\ Idle.pc = 1
  /\ Idle.read = <<>> /\ Idle.first = <<>> /\ Idle.copy = <<>> /\ Idle.left = {}
BY DEF Idle, SessionFields, Job

LEMMA BusyLemma ==
  ASSUME NEW s, JobOK(s, session[s])
  PROVE  Busy(s) <=> session[s].job.kind \in DOMAIN Program
<1>1. "none" \notin DOMAIN Program
  BY DEF Program
<1> QED
  BY <1>1, IdleLemma DEF Busy, JobOK

LEMMA Positions ==
  ASSUME NEW s, JobOK(s, session[s])
  PROVE  LET now == session[s]
         IN  /\ At(s, "claim") <=> Claims(now)
             /\ At(s, "load") <=> Loads(now)
             /\ At(s, "check") <=> Checks(now)
             /\ At(s, "final") <=> Finishes(now)
             /\ At(s, "write") <=> Writes(now)
             /\ At(s, "rekey") <=> Rekeys(now)
             /\ At(s, "list") <=> Lists(now)
             /\ At(s, "save") <=> Saves(now)
             /\ At(s, "revocations") <=> now.pc = 2 /\ now.job.kind \in {"deploy", "send"}
             /\ At(s, "rotate") <=> now.pc = 2 /\ now.job.kind = "rotate"
             /\ At(s, "store") <=> \/ now.pc = 4 /\ now.job.kind \in {"add", "reissue"}
                                   \/ now.pc = 6 /\ now.job.kind = "rotate"
             /\ At(s, "send") <=> \/ now.pc = 3 /\ now.job.kind = "send"
                                  \/ now.pc = 5 /\ now.job.kind = "add"
                                  \/ now.pc = 6 /\ now.job.kind = "reissue"
                                  \/ now.pc = 7 /\ now.job.kind = "rotate"
             /\ Undoing(s) <=> now.pc = 0
             /\ Writing(s) <=> Rewrites(now)
             /\ Generating(s) <=> Carries(now)
<1> DEFINE now == session[s]
           k == now.job.kind
<1>1. CASE Busy(s) /\ now.pc # 0
  <2>1. k \in DOMAIN Program /\ now.pc \in 1 .. Len(Program[k])
    BY <1>1, Stages DEF JobOK, Busy
  <2>2. Undoing(s) = FALSE /\ now.pc # 0
    BY <1>1 DEF Undoing
  <2>3. \A stage : At(s, stage) <=> Program[k][now.pc] = stage
    BY <1>1 DEF At, Kind
  <2>4. /\ At(s, "claim") <=> Claims(now)
        /\ At(s, "load") <=> Loads(now)
        /\ At(s, "check") <=> Checks(now)
        /\ At(s, "final") <=> Finishes(now)
        /\ At(s, "write") <=> Writes(now)
        /\ At(s, "rekey") <=> Rekeys(now)
        /\ At(s, "list") <=> Lists(now)
        /\ At(s, "save") <=> Saves(now)
    <3>1. k \in {"edit", "plain", "peek", "informed", "unprobe", "revoke", "readmit", "deploy", "send",
                "add", "reissue", "rotate"}
      BY <2>1 DEF Program
    <3> QED
      BY <2>1, <2>3, <3>1, Stages, SMTT(30)
      DEF Claims, Loads, Checks, Finishes, Writes, Rekeys, Lists, Saves
  <2>5. /\ At(s, "revocations") <=> now.pc = 2 /\ k \in {"deploy", "send"}
        /\ At(s, "rotate") <=> now.pc = 2 /\ k = "rotate"
        /\ At(s, "store") <=> \/ now.pc = 4 /\ k \in {"add", "reissue"}
                              \/ now.pc = 6 /\ k = "rotate"
        /\ At(s, "send") <=> \/ now.pc = 3 /\ k = "send"
                             \/ now.pc = 5 /\ k = "add"
                             \/ now.pc = 6 /\ k = "reissue"
                             \/ now.pc = 7 /\ k = "rotate"
    BY <2>1, <2>3, Stages
  <2> QED
    BY <2>2, <2>4, <2>5 DEF Writing, Generating, Rewrites, Restores, Carries, Kind
<1>2. CASE Busy(s) /\ now.pc = 0
  BY <1>2
  DEF At, Undoing, Writing, Generating, Rewrites, Restores, Carries, Kind,
      Claims, Loads, Checks, Finishes, Writes, Rekeys, Lists, Saves
<1>3. CASE ~Busy(s)
  <2>1. now.pc = 1 /\ k = "none"
    BY <1>3, IdleLemma DEF Busy
  <2> QED
    BY <1>3, <2>1
    DEF At, Undoing, Writing, Generating, Rewrites, Restores, Carries, Kind,
        Claims, Loads, Checks, Finishes, Writes, Rekeys, Lists, Saves
<1> QED
  BY <1>1, <1>2, <1>3

-----------------------------------------------------------------------------
(* How a session's step leaves it: at its end, or further on.              *)

Moved(s, now) ==
  /\ session'[s] = now /\ DOMAIN session' = Sessions
  /\ \A t \in Sessions \ {s} : session'[t] = session[t]
Ends(s) == Moved(s, Idle) /\ gate' = IF gate = s THEN Nobody ELSE gate
GoesOn(s, now) ==
  \E n \in 1 .. 8 :
    /\ Moved(s, [now EXCEPT !.pc = n]) /\ UNCHANGED gate
    /\ n <= Len(Program[Kind(s)])
    /\ IF Kind(s) = "rotate" /\ session[s].pc \in {4, 7}
       THEN n = IF now.left = {} THEN 8 ELSE 5
       ELSE n = session[s].pc + 1
StepsBack(s) ==
  Kind(s) \in Undoable /\ Moved(s, [session[s] EXCEPT !.pc = 0, !.read = <<>>]) /\ UNCHANGED gate

LEMMA EndLemma ==
  ASSUME SessionsOK, NEW s \in Sessions, NEW outcome, End(s, outcome)
  PROVE  Ends(s)
BY DEF SessionsOK, End, Ends, Moved

LEMMA ProceedLemma ==
  ASSUME SessionsOK, NEW s \in Sessions, Busy(s), session[s].pc # 0,
         NEW now, now.pc = session[s].pc, Proceed(s, now)
  PROVE  Ends(s) \/ GoesOn(s, now)
<1>1. /\ Kind(s) \in DOMAIN Program /\ session[s].pc \in 1 .. Len(Program[Kind(s)])
      /\ Len(Program[Kind(s)]) \in 1 .. 8
  BY Stages DEF SessionsOK, NowOK, JobOK, Busy, Kind
<1> DEFINE stage == Program[Kind(s)][now.pc]
           next == IF Kind(s) = "rotate" /\ stage \in {"check", "send"}
                     THEN IF now.left = {} THEN 8 ELSE 5
                     ELSE now.pc + 1
<1>2. IF next > Len(Program[Kind(s)])
        THEN End(s, "done")
        ELSE session' = [session EXCEPT ![s] = [now EXCEPT !.pc = next]] /\ UNCHANGED <<gate, told>>
  BY DEF Proceed
<1>3. Kind(s) = "rotate" => (stage \in {"check", "send"} <=> session[s].pc \in {4, 7})
  BY <1>1, Stages
<1>4. next = IF Kind(s) = "rotate" /\ session[s].pc \in {4, 7}
               THEN IF now.left = {} THEN 8 ELSE 5
               ELSE session[s].pc + 1
  BY <1>3
<1>5. CASE next > Len(Program[Kind(s)])
  BY <1>2, <1>5, EndLemma
<1>6. CASE ~(next > Len(Program[Kind(s)]))
  <2>1. next \in Nat /\ next >= 1
    BY <1>1, <1>4
  <2>2. next \in 1 .. 8 /\ next <= Len(Program[Kind(s)])
    <3>1. \A n \in Nat, l \in 1 .. 8 : n >= 1 /\ ~(n > l) => n \in 1 .. 8 /\ n <= l
      OBVIOUS
    <3> HIDE DEF next
    <3> QED
      BY <1>1, <1>6, <2>1, <3>1
  <2>3. Moved(s, [now EXCEPT !.pc = next]) /\ UNCHANGED gate
    BY <1>2, <1>6 DEF Moved, SessionsOK
  <2> HIDE DEF next
  <2> QED
    BY <1>4, <2>2, <2>3 DEF GoesOn
<1> QED
  BY <1>5, <1>6

LEMMA TakeBackLemma ==
  ASSUME SessionsOK, NEW s \in Sessions, NEW outcome, TakeBack(s, outcome)
  PROVE  Ends(s) \/ StepsBack(s)
<1>1. CASE Kind(s) \in Undoable
  BY <1>1 DEF SessionsOK, TakeBack, StepsBack, Moved
<1>2. CASE Kind(s) \notin Undoable
  BY <1>2, EndLemma DEF TakeBack
<1> QED
  BY <1>1, <1>2

LEMMA IdleOK ==
  ASSUME NEW s
  PROVE  NowOK(s, Idle)
BY IdleLemma
DEF NowOK, JobOK, LeftOK, ReadOK, FirstOK, KeyOK, Carries, Rekeys, Writes, Loading

\* What a step leaves of its session: it is idle, or still in the middle of its job, and
\* what a session is in the middle of is in order.
Kept(s) ==
  /\ DOMAIN session' = Sessions /\ \A t \in Sessions \ {s} : session'[t] = session[t]
  /\ NowOK(s, session'[s]) /\ session'[s].copy = <<>>
  /\ \/ session'[s] = Idle /\ gate' = Released(gate, s)
     \/ session'[s].job = session[s].job /\ Busy(s) /\ Busy(s)' /\ UNCHANGED gate

LEMMA EndKeeps ==
  ASSUME SessionsOK, NEW s \in Sessions, NEW outcome, End(s, outcome)
  PROVE  Kept(s)
BY EndLemma, IdleOK, IdleLemma DEF Ends, Moved, Kept, Released

\* What a session may go on with.
Prepared(s, now) ==
  /\ DOMAIN now = SessionFields /\ now.job = session[s].job /\ now.pc = session[s].pc
  /\ now.read = <<>> /\ now.copy = <<>>
  /\ now.left \subseteq Devices
  /\ now.job.kind = "rotate" /\ now.pc \in {5, 6} => now.left # {}
  /\ now.first # <<>> =>
       /\ Known(now.first[1])
       /\ now.job.kind = "reissue" => now.job.device \in DOMAIN now.first[1].devices
  /\ now.job.kind \in Loading => now.first # <<>>
  /\ now.job.kind = "rotate" /\ now.pc = 2 => now.key \in Generated

LEMMA ProceedKeeps ==
  ASSUME SessionsOK, NEW s \in Sessions, Busy(s), session[s].pc # 0,
         NEW now, Prepared(s, now), Proceed(s, now)
  PROVE  Kept(s) /\ (session'[s] = Idle \/ GoesOn(s, now))
<1>1. Ends(s) \/ GoesOn(s, now)
  BY ProceedLemma DEF Prepared
<1>2. CASE Ends(s)
  BY <1>2, IdleOK, IdleLemma DEF Ends, Moved, Kept, Released
<1>3. CASE GoesOn(s, now)
  <2>1. PICK n \in 1 .. 8 :
          /\ Moved(s, [now EXCEPT !.pc = n]) /\ UNCHANGED gate
          /\ n <= Len(Program[Kind(s)])
          /\ IF Kind(s) = "rotate" /\ session[s].pc \in {4, 7}
             THEN n = IF now.left = {} THEN 8 ELSE 5
             ELSE n = session[s].pc + 1
    BY <1>3 DEF GoesOn
  <2>2. /\ now.job \in Jobs[s] /\ IsJob(now.job) /\ now.job.kind \in DOMAIN Program
        /\ session[s].pc \in 1 .. Len(Program[Kind(s)]) /\ Len(Program[Kind(s)]) \in 1 .. 8
        /\ Kind(s) = now.job.kind
    BY Stages DEF SessionsOK, NowOK, JobOK, Busy, Kind, Prepared
  <2> DEFINE next == [now EXCEPT !.pc = n]
  <2>3. /\ DOMAIN next = SessionFields /\ next.job = now.job /\ next.pc = n /\ next.read = <<>>
        /\ next.copy = <<>> /\ next.left = now.left /\ next.first = now.first /\ next.key = now.key
    BY DEF Prepared, SessionFields
  <2> HIDE DEF next
  <2>4. JobOK(s, next)
    BY <2>1, <2>2, <2>3 DEF JobOK
  <2>5. LeftOK(next)
    <3>1. now.left \subseteq Devices /\ now.pc = session[s].pc
      BY DEF Prepared
    <3>2. ASSUME now.job.kind = "rotate", n \in 5 .. 7
          PROVE  now.left # {}
      <4>1. CASE session[s].pc \in {4, 7}
        BY <2>1, <2>2, <3>2, <4>1
      <4>2. CASE session[s].pc \notin {4, 7}
        <5>1. n = session[s].pc + 1
          BY <2>1, <4>2
        <5>2. session[s].pc \in {5, 6}
          BY <2>2, <3>2, <4>2, <5>1
        <5> QED
          BY <3>1, <3>2, <5>2 DEF Prepared
      <4> QED
        BY <4>1, <4>2
    <3> QED
      BY <2>3, <3>1, <3>2 DEF LeftOK
  <2>6. ReadOK(next) /\ FirstOK(next)
    BY <2>3 DEF ReadOK, FirstOK, Prepared
  <2>7. KeyOK(next)
    <3>1. ASSUME now.job.kind = "rotate", n = 3
          PROVE  session[s].pc = 2
      BY <2>1, <2>2, <3>1
    <3> QED
      BY <2>3, <3>1 DEF KeyOK, Prepared
  <2>8. NowOK(s, next)
    BY <2>3, <2>4, <2>5, <2>6, <2>7 DEF NowOK
  <2>9. next # Idle
    BY <2>2, <2>3, JobKinds, IdleLemma
  <2> QED
    BY <1>3, <2>1, <2>3, <2>8, <2>9 DEF Moved, Kept, Busy, Prepared, next
<1> QED
  BY <1>1, <1>2, <1>3

LEMMA TakeBackKeeps ==
  ASSUME SessionsOK, NEW s \in Sessions, Busy(s), session[s].pc \notin {0, 1}, session[s].copy = <<>>,
         NEW outcome, TakeBack(s, outcome)
  PROVE  Kept(s)
<1>1. CASE Ends(s)
  BY <1>1, IdleOK, IdleLemma DEF Ends, Moved, Kept, Released
<1>2. CASE StepsBack(s)
  <2> DEFINE next == [session[s] EXCEPT !.pc = 0, !.read = <<>>]
  <2>1. NowOK(s, session[s]) /\ session[s] # Idle
    BY DEF SessionsOK, Busy
  <2>2. /\ DOMAIN next = SessionFields /\ next.job = session[s].job /\ next.pc = 0 /\ next.read = <<>>
        /\ next.copy = <<>> /\ next.left = session[s].left /\ next.first = session[s].first
    BY <2>1 DEF SessionFields, NowOK, JobOK
  <2> HIDE DEF next
  <2>3. next # Idle
    BY <2>2, IdleLemma
  <2>4. JobOK(s, next)
    <3>1. Len(Program[next.job.kind]) \in 1 .. 8
      BY <2>1, <2>2, Stages DEF NowOK, JobOK
    <3> QED
      BY <1>2, <2>1, <2>2, <3>1 DEF NowOK, JobOK, StepsBack, Kind
  <2>5. LeftOK(next) /\ ReadOK(next) /\ FirstOK(next) /\ KeyOK(next)
    BY <2>1, <2>2
    DEF NowOK, LeftOK, ReadOK, FirstOK, KeyOK, Carries, Rekeys, Writes
  <2>6. NowOK(s, next)
    BY <2>2, <2>4, <2>5 DEF NowOK
  <2> QED
    BY <1>2, <2>2, <2>3, <2>6 DEF StepsBack, Moved, Kept, Busy, next
<1> QED
  BY <1>1, <1>2, TakeBackLemma

-----------------------------------------------------------------------------
(* The parts of the invariant that a step of one session leaves alone.     *)

LEMMA SessionsLemma ==
  ASSUME SessionsOK, NEW s \in Sessions,
         DOMAIN session' = Sessions, \A t \in Sessions \ {s} : session'[t] = session[t],
         NowOK(s, session'[s])
  PROVE  SessionsOK'
BY DEF SessionsOK

LEMMA ForwardLemma ==
  ASSUME NEW t, session'[t] = session[t]
  PROVE  Forward(t)' = Forward(t)
BY DEF Forward, Device, Kind, At, Busy

\* Another session's step changes neither the locks nor what is read under them.
LEMMA LocksLemma ==
  ASSUME LocksOK, NEW s \in Sessions,
         \A t \in Sessions \ {s} : session'[t] = session[t],
         session[s].copy = <<>>, session'[s].copy = <<>>,
         UNCHANGED <<files, revoked, configLock, stateLock>>
  PROVE  LocksOK'
<1> SUFFICES ASSUME NEW t \in Sessions
             PROVE  /\ configLock = t <=> session'[t].copy # <<>> /\ Rewrites(session'[t])
                    /\ configLock = t => session'[t].copy = <<Only(files, PartOf(Forward(t)'))>>
                    /\ stateLock = t <=> session'[t].copy # <<>> /\ Lists(session'[t])
                    /\ stateLock = t => session'[t].copy = <<revoked>>
  BY DEF LocksOK
<1>1. CASE t = s
  BY <1>1 DEF LocksOK
<1>2. CASE t # s
  <2>1. session'[t] = session[t] /\ Forward(t)' = Forward(t)
    BY <1>2, ForwardLemma
  <2> QED
    BY <2>1 DEF LocksOK
<1> QED
  BY <1>1, <1>2

LEMMA GateLemma ==
  ASSUME GateOK, NEW s \in Sessions, Kept(s)
  PROVE  GateOK'
<1>0. Nobody \notin Bot /\ Loop \in Bot /\ Spawned \in Bot /\ Bot \subseteq Sessions
  BY NobodyAssumption DEF Bot, Sessions
<1>1. CASE session'[s] = Idle /\ gate' = Released(gate, s)
  BY <1>0, <1>1 DEF GateOK, Kept, Busy, Kind, Released
<1>2. CASE session'[s].job = session[s].job /\ Busy(s) /\ Busy(s)' /\ UNCHANGED gate
  BY <1>0, <1>2 DEF GateOK, Kept, Busy, Kind
<1> QED
  BY <1>1, <1>2 DEF Kept

LEMMA KeysLemma == MaxKeys \in Nat
<1>1. Cardinality(Devices) \in Nat
  BY FS_CardinalityType, IdentifiersAssumption
<1> QED
  BY <1>1, BoundsAssumption DEF MaxKeys

LEMMA CountsLemma ==
  ASSUME CountsOK, UNCHANGED made \/ Generate, UNCHANGED ops, UNCHANGED faults \/ Fault
  PROVE  CountsOK'
BY KeysLemma, BoundsAssumption DEF CountsOK, Generate, Fault

\* A deploy saves next after it has read the revocations.
LEMMA SavesLemma ==
  ASSUME SessionsOK, NEW s \in Sessions, Busy(s), NEW now, Prepared(s, now), GoesOn(s, now),
         Saves(session'[s])
  PROVE  session[s].pc = 2 /\ session[s].job.kind = "deploy"
<1>1. now.job = session[s].job /\ DOMAIN now = SessionFields
  BY DEF Prepared
<1>2. PICK n \in 1 .. 8 : /\ Moved(s, [now EXCEPT !.pc = n])
                          /\ IF Kind(s) = "rotate" /\ session[s].pc \in {4, 7}
                             THEN n = IF now.left = {} THEN 8 ELSE 5
                             ELSE n = session[s].pc + 1
  BY DEF GoesOn
<1>3. session'[s].job = session[s].job /\ session'[s].pc = n
  BY <1>1, <1>2 DEF Moved, SessionFields
<1>4. session[s].job.kind = "deploy" /\ n = 3
  BY <1>3 DEF Saves
<1>5. session[s].pc \in 0 .. Len(Program[session[s].job.kind])
      /\ Len(Program[session[s].job.kind]) \in 1 .. 8
  BY Stages DEF SessionsOK, NowOK, JobOK, Busy
<1> QED
  BY <1>2, <1>4, <1>5 DEF Kind

LEMMA HeedLemma ==
  ASSUME HeedOK, NEW s \in Sessions,
         \A t \in Sessions \ {s} : session'[t] = session[t],
         Saves(session'[s]) => owed[s] \subseteq session'[s].list,
         UNCHANGED <<revoked, acked, owed, saved>>
  PROVE  HeedOK'
BY DEF HeedOK

\* A step that reads or writes nothing under a lock.
Apart == UNCHANGED <<files, revoked, configLock, stateLock>>
LEMMA ApartLemma ==
  ASSUME EditorInv, NEW s \in Sessions, Kept(s), session[s].copy = <<>>, Apart
  PROVE  SessionsOK' /\ FilesOK' /\ LocksOK' /\ GateOK'
<1>1. SessionsOK' /\ GateOK'
  BY SessionsLemma, GateLemma DEF EditorInv, Kept
<1>2. FilesOK'
  BY DEF EditorInv, FilesOK, Apart
<1>3. LocksOK'
  BY LocksLemma DEF EditorInv, Kept, Apart
<1> QED
  BY <1>1, <1>2, <1>3

LEMMA NoCopyLemma ==
  ASSUME SessionsOK, NEW s \in Sessions, ~Rewrites(session[s]), ~Lists(session[s])
  PROVE  session[s].copy = <<>>
BY DEF SessionsOK, NowOK

LEMMA MinLemma ==
  ASSUME NEW S, S \subseteq Devices, S # {}
  PROVE  Min(S) \in S
<1>1. S \subseteq Nat
  BY IdentifiersAssumption
<1>2. PICK x \in S : \A y \in S : ~(<<y, x>> \in OpToRel(<, Nat))
  BY <1>1, WFMin, NatLessThanWellFounded
<1>3. \A y \in S : x <= y
  <2> SUFFICES ASSUME NEW y \in S, y < x PROVE FALSE
    BY <1>1
  <2>1. <<y, x>> \in OpToRel(<, Nat)
    BY <1>1 DEF OpToRel
  <2> QED
    BY <1>2, <2>1
<1> QED
  BY <1>3 DEF Min

LEMMA PreparedLemma ==
  ASSUME SessionsOK, NEW s \in Sessions, Busy(s), NEW now,
         DOMAIN now = SessionFields, now.job = session[s].job, now.pc = session[s].pc,
         now.read = <<>>, now.copy = <<>>,
         now.left = session[s].left, now.first = session[s].first,
         session[s].job.kind \in Loading => session[s].pc # 1,
         session[s].job.kind = "rotate" /\ session[s].pc = 2 => now.key \in Generated
  PROVE  Prepared(s, now)
<1>1. NowOK(s, session[s])
  BY DEF SessionsOK
<1> QED
  BY <1>1 DEF NowOK, LeftOK, FirstOK, Prepared

LEMMA PositionsLemma ==
  ASSUME SessionsOK, NEW s \in Sessions
  PROVE  NowOK(s, session[s]) /\ JobOK(s, session[s]) /\ DOMAIN session[s] = SessionFields
BY DEF SessionsOK, NowOK, JobOK

-----------------------------------------------------------------------------
(* Steps that read and write nothing under a lock.                         *)

LEMMA StartStep ==
  ASSUME EditorInv, NEW s \in Sessions, NEW job \in Jobs[s], Start(s, job)
  PROVE  EditorInv'
<1> DEFINE next == [Idle EXCEPT !.job = job]
<1>1. /\ session[s] = Idle /\ ops < MaxOps /\ ops' = ops + 1 /\ UNCHANGED <<made, faults>>
      /\ session' = [session EXCEPT ![s] = next] /\ owed' = [owed EXCEPT ![s] = acked]
      /\ IF job.kind = "peek" THEN UNCHANGED gate ELSE Admitted(s) /\ gate' = Claimed(s)
      /\ UNCHANGED <<files, revoked, configLock, stateLock, acked, saved>>
  BY DEF Start, Busy, disk, locks
<1>2. IsJob(job) /\ job.kind \in DOMAIN Program /\ job.kind # "none"
  BY JobsAssumption, JobKinds
<1>3. /\ DOMAIN next = SessionFields /\ next.job = job /\ next.pc = 1 /\ next.read = <<>>
      /\ next.first = <<>> /\ next.copy = <<>> /\ next.left = {} /\ next # Idle
  BY <1>2, IdleLemma DEF SessionFields
<1>4. /\ DOMAIN session' = Sessions /\ session'[s] = next
      /\ \A t \in Sessions \ {s} : session'[t] = session[t]
  BY <1>1 DEF EditorInv, SessionsOK
<1> HIDE DEF next
<1>5. NowOK(s, next)
  <2>1. 1 \in 0 .. Len(Program[job.kind])
    <3>1. Len(Program[job.kind]) \in 1 .. 8
      BY <1>2, Stages
    <3>2. \A l \in 1 .. 8 : 1 \in 0 .. l
      OBVIOUS
    <3> QED
      BY <3>1, <3>2
  <2> QED
    BY <1>2, <1>3, <2>1
    DEF NowOK, JobOK, LeftOK, ReadOK, FirstOK, KeyOK, Carries, Rekeys, Writes
<1>6. SessionsOK' /\ FilesOK'
  BY <1>1, <1>4, <1>5, SessionsLemma DEF EditorInv, FilesOK
<1>7. LocksOK'
  BY <1>1, <1>3, <1>4, IdleLemma, LocksLemma DEF EditorInv
<1>8. CountsOK'
  BY <1>1, BoundsAssumption DEF EditorInv, CountsOK
<1>9. GateOK'
  <2>1. Nobody \notin Bot /\ Loop \in Bot /\ Spawned \in Bot /\ Bot \subseteq Sessions /\ Loop # Spawned
    BY NobodyAssumption, SessionsAssumption DEF Bot, Sessions
  <2>2. gate' = IF s \in Bot /\ job.kind # "peek" THEN s ELSE gate
    BY <1>1 DEF Claimed
  <2>3. s \in Bot /\ job.kind # "peek" => gate = Nobody
    BY <1>1 DEF Admitted
  <2>4. s = Spawned => job.kind # "peek"
    BY JobsAssumption
  <2>5. /\ \A t \in Sessions \ {s} : Busy(t)' = Busy(t) /\ Kind(t)' = Kind(t)
        /\ Busy(s)' /\ Kind(s)' = job.kind /\ ~Busy(s)
    BY <1>1, <1>3, <1>4 DEF Busy, Kind
  <2> QED
    BY <2>1, <2>2, <2>3, <2>4, <2>5 DEF EditorInv, GateOK, Bot
<1>10. HeedOK'
  <2>1. ~Saves(next)
    BY <1>3 DEF Saves
  <2> QED
    BY <1>1, <1>4, <2>1 DEF EditorInv, HeedOK
<1> QED
  BY <1>6, <1>7, <1>8, <1>9, <1>10 DEF EditorInv

LEMMA ClaimStep ==
  ASSUME EditorInv, NEW s \in Sessions, Claim(s)
  PROVE  EditorInv'
<1>1. NowOK(s, session[s]) /\ DOMAIN session[s] = SessionFields /\ Claims(session[s])
  BY PositionsLemma, Positions DEF EditorInv, Claim
<1>2. session[s].copy = <<>> /\ session[s].read = <<>>
  BY <1>1
  DEF Claims, NowOK, ReadOK, Rewrites, Writes, Rekeys, Restores, Lists, Loads, Checks, Finishes
<1>3. Apart /\ UNCHANGED <<revoked, acked, owed, saved, made, ops, faults>>
  BY DEF Claim, Apart, disk, locks, bounds, history
<1>4. CASE Kept(s)
  <2>1. ~Saves(session'[s])
    BY <1>1, <1>4, IdleLemma DEF Kept, Claims, Saves
  <2> QED
    BY <1>2, <1>3, <1>4, <2>1, ApartLemma, CountsLemma, HeedLemma DEF EditorInv, Kept
<1>5. CASE Admitted(s) /\ gate' = Claimed(s) /\ session' = [session EXCEPT ![s].pc = @ + 1]
  <2> DEFINE next == [session[s] EXCEPT !.pc = session[s].pc + 1]
  <2>1. /\ DOMAIN next = SessionFields /\ next.job = session[s].job /\ next.pc = 3 /\ next.read = <<>>
        /\ next.first = session[s].first /\ next.copy = <<>> /\ next.left = session[s].left
    BY <1>1, <1>2 DEF Claims, SessionFields
  <2>2. /\ DOMAIN session' = Sessions /\ session'[s] = next
        /\ \A t \in Sessions \ {s} : session'[t] = session[t]
    BY <1>5 DEF EditorInv, SessionsOK
  <2> HIDE DEF next
  <2>3. session[s].job.kind = "peek" /\ session[s].pc = 2 /\ session[s] # Idle /\ next # Idle
    BY <1>1, <2>1, IdleLemma DEF Claims
  <2>4. NowOK(s, next)
    <3>1. 3 \in 0 .. Len(Program["peek"])
      BY DEF Program
    <3> QED
      BY <1>1, <2>1, <2>3, <3>1
      DEF NowOK, JobOK, LeftOK, ReadOK, FirstOK, KeyOK, Carries, Rekeys, Writes
  <2>5. SessionsOK' /\ FilesOK' /\ CountsOK'
    BY <1>3, <2>2, <2>4, SessionsLemma, CountsLemma DEF EditorInv, FilesOK, Apart
  <2>6. LocksOK'
    BY <1>2, <1>3, <2>1, <2>2, LocksLemma DEF EditorInv, Apart
  <2>7. GateOK'
    <3>1. Nobody \notin Bot /\ Loop \in Bot /\ Spawned \in Bot /\ Bot \subseteq Sessions
      BY NobodyAssumption DEF Bot, Sessions
    <3>2. gate' = IF s \in Bot THEN s ELSE gate
      BY <1>5 DEF Claimed
    <3>3. s \in Bot => gate = Nobody
      BY <1>5 DEF Admitted
    <3>4. \A t \in Sessions : Busy(t)' = Busy(t) /\ Kind(t)' = Kind(t)
      BY <2>1, <2>2, <2>3 DEF Busy, Kind
    <3>5. Busy(s) /\ Kind(s) = "peek"
      BY <2>3 DEF Busy, Kind
    <3>6. s # Spawned
      BY <2>3, <1>1, JobsAssumption DEF NowOK, JobOK
    <3> QED
      BY <3>1, <3>2, <3>3, <3>4, <3>5, <3>6 DEF EditorInv, GateOK, Bot
  <2>8. HeedOK'
    <3>1. ~Saves(next)
      BY <2>1, <2>3 DEF Saves
    <3> QED
      BY <1>3, <2>2, <3>1, HeedLemma DEF EditorInv
  <2> QED
    BY <2>5, <2>6, <2>7, <2>8 DEF EditorInv
<1> QED
  BY <1>4, <1>5, EndKeeps DEF Claim, EditorInv

LEMMA AppendLemma ==
  ASSUME NEW a, NEW b
  PROVE  Append(<<a>>, b) = <<a, b>>
<1> DEFINE S == {a, b}
           u == Append(<<a>>, b)
           v == <<a, b>>
<1>1. <<a>> \in Seq(S) /\ b \in S /\ v \in Seq(S)
  OBVIOUS
<1>2. Len(u) = 2 /\ u[1] = a /\ u[2] = b /\ Len(v) = 2 /\ v[1] = a /\ v[2] = b
  OBVIOUS
<1> HIDE DEF S
<1>3. u \in Seq(S)
  BY <1>1, AppendProperties
<1> HIDE DEF u, v
<1>4. \A i \in 1 .. Len(u) : u[i] = v[i]
  BY <1>2
<1> QED
  BY <1>1, <1>2, <1>3, <1>4, SeqEqual DEF u, v

LEMMA ReadFileStep ==
  ASSUME EditorInv, NEW s \in Sessions, ReadFile(s)
  PROVE  EditorInv'
<1> DEFINE read == session[s].read
           file == Only(files, Parts[Len(read) + 1])
           next == [session[s] EXCEPT !.read = Append(read, file)]
<1>1. /\ NowOK(s, session[s]) /\ DOMAIN session[s] = SessionFields
      /\ Loads(session[s]) \/ Checks(session[s]) \/ Finishes(session[s])
  BY PositionsLemma, Positions DEF EditorInv, ReadFile, Reading
<1>2. session[s].copy = <<>> /\ session[s].job.kind \in DOMAIN Program
  BY <1>1, IdleLemma
  DEF NowOK, JobOK, Rewrites, Writes, Rekeys, Restores, Lists, Loads, Checks, Finishes
<1>3. Apart /\ UNCHANGED <<revoked, acked, owed, saved, made, ops, faults, gate>>
  BY DEF ReadFile, Apart, disk, locks, bounds, history
<1>4. /\ DOMAIN session' = Sessions /\ session'[s] = next
      /\ \A t \in Sessions \ {s} : session'[t] = session[t]
  BY DEF ReadFile, EditorInv, SessionsOK
<1>5. /\ DOMAIN next = SessionFields /\ next.job = session[s].job /\ next.pc = session[s].pc
      /\ next.read = Append(read, file)
      /\ next.first = session[s].first /\ next.copy = <<>> /\ next.left = session[s].left
      /\ next.key = session[s].key
  BY <1>1, <1>2 DEF SessionFields
<1>6. Loads(next) \/ Checks(next) \/ Finishes(next)
  BY <1>1, <1>5 DEF Loads, Checks, Finishes
<1>7. ReadOK(next)
  <2>1. Len(Parts) = 3 /\ Parts[1] = {"hub", "acls"} /\ Parts[2] = {"devices"} /\ Len(read) < 2
    BY DEF ReadFile, Parts
  <2>2. CASE read = <<>>
    <3>1. file.hub = files.hub
      BY <2>1, <2>2 DEF EditorInv, FilesOK, Known, Only
    <3>2. next.read = <<file>>
      BY <1>5, <2>2
    <3>3. next.read[1] = file
      BY <3>2
    <3> QED
      BY <1>6, <3>1, <3>2, <3>3 DEF ReadOK, EditorInv, FilesOK, Known
  <2>3. CASE read = <<read[1]>>
    <3>1. Len(read) = 1
      BY <2>3
    <3>2. file.devices = files.devices
      BY <2>1, <3>1 DEF EditorInv, FilesOK, Known, Only
    <3>4. next.read = <<read[1], file>> /\ next.read[1] = read[1] /\ next.read[2] = file
      <4> HIDE DEF file, read, next
      <4>1. Append(read, file) = <<read[1], file>>
        BY <2>3, AppendLemma
      <4> QED
        BY <1>5, <4>1
    <3>5. KnownHub(read[1].hub)
      BY <1>1, <2>3 DEF NowOK, ReadOK
    <3> HIDE DEF file, read, next
    <3> QED
      BY <1>6, <3>2, <3>4, <3>5 DEF ReadOK, EditorInv, FilesOK, Known
  <2>4. CASE read = <<read[1], read[2]>>
    <3>1. Len(read) = 2
      BY <2>4
    <3> QED
      BY <2>1, <3>1
  <2> QED
    BY <1>1, <2>2, <2>3, <2>4 DEF NowOK, ReadOK
<1> HIDE DEF read, file, next
<1>8. next.job.kind \in DOMAIN Program /\ next # Idle /\ session[s] # Idle
  BY <1>2, <1>5, IdleLemma DEF Program
<1>9. NowOK(s, next)
  BY <1>1, <1>5, <1>7, <1>8
  DEF NowOK, JobOK, LeftOK, FirstOK, KeyOK, Carries, Rekeys, Writes
<1>10. Kept(s)
  BY <1>3, <1>4, <1>5, <1>8, <1>9 DEF Kept, Busy
<1>11. ~Saves(next)
  BY <1>6 DEF Saves, Loads, Checks, Finishes
<1> QED
  BY <1>2, <1>3, <1>4, <1>10, <1>11, ApartLemma, CountsLemma, HeedLemma DEF EditorInv

LEMMA LoadStep ==
  ASSUME EditorInv, NEW s \in Sessions, LoadAndValidate(s)
  PROVE  EditorInv'
<1> DEFINE read == session[s].read
           cfg == [hub |-> read[1].hub, acls |-> read[1].acls, devices |-> read[2].devices,
                   tunnels |-> files.tunnels]
           now == [session[s] EXCEPT !.read = <<>>]
           known == session[s].job.device \in {Blank} \cup DOMAIN cfg.devices \/ Kind(s) = "add"
           loaded == [now EXCEPT !.first = <<cfg>>, !.left = DOMAIN cfg.devices]
           rotated == [now EXCEPT !.first = <<[@[1] EXCEPT !.hub = cfg.hub]>>]
<1>1. /\ NowOK(s, session[s]) /\ DOMAIN session[s] = SessionFields
      /\ At(s, "load") <=> Loads(session[s])
      /\ At(s, "check") <=> Checks(session[s])
      /\ At(s, "final") <=> Finishes(session[s])
      /\ Loads(session[s]) \/ Checks(session[s]) \/ Finishes(session[s])
  BY PositionsLemma, Positions DEF EditorInv, LoadAndValidate, Reading
<1>2. /\ session[s].copy = <<>> /\ session[s].job.kind \in DOMAIN Program /\ session[s].pc # 0
      /\ Kind(s) = session[s].job.kind /\ Busy(s)
  BY <1>1, IdleLemma
  DEF NowOK, JobOK, Rewrites, Writes, Rekeys, Restores, Lists, Loads, Checks, Finishes, Kind, Busy
<1>3. Apart /\ UNCHANGED <<revoked, acked, owed, saved, made, ops, faults>>
  BY DEF LoadAndValidate, Apart, disk, locks, bounds, history
<1>4. Known(cfg)
  <2>1. Len(read) = 2
    <3>1. Len(Parts) = 3
      BY DEF Parts
    <3>2. Len(session[s].read) = Len(Parts) - 1
      BY Zenon DEF LoadAndValidate
    <3> QED
      BY <3>1, <3>2
  <2>2. KnownHub(read[1].hub) /\ KnownDevices(read[2].devices)
    <3>1. CASE read = <<>>
      <4>1. Len(read) = 0
        BY <3>1
      <4> QED
        BY <2>1, <4>1
    <3>2. CASE read = <<read[1]>>
      <4>1. Len(read) = 1
        BY <3>2
      <4> QED
        BY <2>1, <4>1
    <3> QED
      BY <1>1, <3>1, <3>2 DEF NowOK, ReadOK
  <2>3. KnownTunnels(files.tunnels)
    BY DEF EditorInv, FilesOK, Known
  <2> HIDE DEF read
  <2> QED
    BY <2>2, <2>3 DEF Known
<1>5. /\ DOMAIN now = SessionFields /\ now.job = session[s].job /\ now.pc = session[s].pc
      /\ now.read = <<>> /\ now.copy = <<>> /\ now.left = session[s].left
      /\ now.first = session[s].first /\ now.key = session[s].key
  BY <1>1, <1>2 DEF SessionFields
<1> HIDE DEF now, cfg
<1>6. ASSUME NEW next, Prepared(s, next), Proceed(s, next)
      PROVE  Kept(s) /\ ~Saves(session'[s])
  <2>1. Kept(s) /\ (session'[s] = Idle \/ GoesOn(s, next))
    BY <1>2, <1>6, ProceedKeeps DEF EditorInv
  <2>2. ~(session[s].pc = 2 /\ session[s].job.kind = "deploy")
    BY <1>1 DEF Loads, Checks, Finishes
  <2>3. ~Saves(session'[s])
    BY <1>2, <1>6, <2>1, <2>2, SavesLemma, IdleLemma DEF EditorInv, Saves
  <2> QED
    BY <2>1, <2>3
<1>7. ASSUME NEW outcome, End(s, outcome)
      PROVE  Kept(s) /\ ~Saves(session'[s])
  BY <1>7, EndLemma, EndKeeps, IdleLemma DEF EditorInv, Ends, Moved, Saves
<1>8. ASSUME session[s].pc # 1, NEW outcome, TakeBack(s, outcome)
      PROVE  Kept(s) /\ ~Saves(session'[s])
  <2>1. Kept(s) /\ (Ends(s) \/ StepsBack(s))
    BY <1>2, <1>8, TakeBackKeeps, TakeBackLemma DEF EditorInv
  <2>2. session'[s].pc \in {0, 1}
    BY <1>1, <2>1, IdleLemma DEF Ends, StepsBack, Moved, SessionFields
  <2> QED
    BY <2>1, <2>2 DEF Saves
<1>9. Kept(s) /\ ~Saves(session'[s])
  <2>1. CASE ~Validate(cfg) /\ At(s, "check") /\ TakeBack(s, "invalid")
    <3>1. session[s].pc # 1
      BY <1>1, <2>1 DEF Checks
    <3> QED
      BY <1>8, <2>1, <3>1
  <2>2. CASE ~Validate(cfg) /\ At(s, "load") /\ Kind(s) = "unprobe" /\ Proceed(s, now)
    <3>1. Prepared(s, now)
      BY <1>1, <1>2, <1>5, <2>2, PreparedLemma DEF EditorInv, Loading
    <3> QED
      BY <1>6, <2>2, <3>1
  <2>3. CASE ~Validate(cfg) /\ ~At(s, "check") /\ Kind(s) # "unprobe" /\ End(s, "invalid")
    BY <1>7, <2>3
  <2>4. CASE Validate(cfg) /\ At(s, "load") /\ ~known /\ End(s, "no such device")
    BY <1>7, <2>4
  <2>5. CASE Validate(cfg) /\ At(s, "load") /\ known /\ Proceed(s, loaded)
    <3>1. /\ DOMAIN loaded = SessionFields /\ loaded.job = session[s].job
          /\ loaded.pc = session[s].pc /\ loaded.read = <<>> /\ loaded.copy = <<>>
          /\ loaded.left = DOMAIN cfg.devices /\ loaded.first = <<cfg>>
      BY <1>5 DEF SessionFields
    <3>2. loaded.first[1] = cfg /\ loaded.first # <<>>
      BY <3>1
    <3>3. session[s].pc = 1
      BY <1>1, <2>5 DEF Loads
    <3>4. session[s].job.kind = "reissue" => session[s].job.device \in DOMAIN cfg.devices
      BY <1>1, <1>2, <2>5, BlankAssumption DEF NowOK, JobOK, Busy, IsJob, Asking
    <3>5. DOMAIN cfg.devices \subseteq Devices
      BY <1>4 DEF Known, KnownDevices
    <3> HIDE DEF loaded
    <3>6. Prepared(s, loaded)
      BY <1>4, <3>1, <3>2, <3>3, <3>4, <3>5 DEF Prepared
    <3> QED
      BY <1>6, <2>5, <3>6 DEF loaded
  <2>6. CASE Validate(cfg) /\ At(s, "check") /\ Proceed(s, IF Kind(s) = "rotate" THEN rotated ELSE now)
    <3>0. Checks(session[s])
      BY <1>1, <2>6
    <3>1. session[s].pc \in {3, 4} \/ (session[s].pc = 2 /\ session[s].job.kind \in {"edit", "plain"})
      BY <3>0 DEF Checks
    <3>2. CASE Kind(s) # "rotate"
      <4>1. Prepared(s, now)
        BY <1>2, <1>5, <3>1, <3>2, PreparedLemma DEF EditorInv, Loading
      <4> QED
        BY <1>6, <2>6, <3>2, <4>1
    <3>3. CASE Kind(s) = "rotate"
      <4>1. session[s].pc = 4 /\ session[s].first # <<>> /\ Known(session[s].first[1])
            /\ session[s].left \subseteq Devices
        BY <1>1, <1>2, <2>6, <3>3 DEF Checks, NowOK, FirstOK, LeftOK, Loading
      <4>2. /\ DOMAIN rotated = SessionFields /\ rotated.job = session[s].job
            /\ rotated.pc = session[s].pc /\ rotated.read = <<>> /\ rotated.copy = <<>>
            /\ rotated.left = session[s].left
            /\ rotated.first = <<[session[s].first[1] EXCEPT !.hub = cfg.hub]>>
        BY <1>5 DEF SessionFields
      <4>3. KnownHub(cfg.hub)
        BY <1>4 DEF Known
      <4>4. rotated.first # <<>> /\ Known(rotated.first[1])
        <5>1. rotated.first[1] = [session[s].first[1] EXCEPT !.hub = cfg.hub] /\ rotated.first # <<>>
          BY <4>2
        <5> QED
          BY <4>1, <4>3, <5>1 DEF Known
      <4> HIDE DEF rotated
      <4>5. rotated.job.kind = "rotate" /\ rotated.pc = 4
        BY <1>2, <3>3, <4>1, <4>2
      <4>6. rotated.job.kind # "reissue" /\ rotated.pc \notin {2, 5, 6}
        BY <4>5
      <4>7. rotated.left \subseteq Devices
        BY <4>1, <4>2
      <4>8. Prepared(s, rotated)
        BY <4>2, <4>4, <4>6, <4>7, Zenon DEF Prepared
      <4> QED
        BY <1>6, <2>6, <3>3, <4>8 DEF rotated
    <3> QED
      BY <3>2, <3>3
  <2>7. CASE Validate(cfg) /\ At(s, "final") /\ Proceed(s, now)
    <3>1. session[s].pc = 8
      BY <1>1, <2>7 DEF Finishes
    <3>2. Prepared(s, now)
      BY <1>2, <1>5, <3>1, PreparedLemma DEF EditorInv, Loading
    <3> QED
      BY <1>6, <2>7, <3>2
  <2> QED
    BY <2>1, <2>2, <2>3, <2>4, <2>5, <2>6, <2>7 DEF LoadAndValidate, cfg, now
<1> QED
  BY <1>2, <1>3, <1>9, ApartLemma, CountsLemma, HeedLemma DEF EditorInv, Kept

\* A step after which a session that is to save has read what it must heed.
Heeds(s) == Kept(s) /\ (Saves(session'[s]) => owed[s] \subseteq session'[s].list)

LEMMA ProceedHeeds ==
  ASSUME SessionsOK, NEW s \in Sessions, Busy(s), session[s].pc # 0,
         NEW now, Prepared(s, now), Proceed(s, now),
         session[s].job.kind = "deploy" /\ session[s].pc = 2 => owed[s] \subseteq now.list
  PROVE  Heeds(s)
<1>1. Kept(s) /\ (session'[s] = Idle \/ GoesOn(s, now))
  BY ProceedKeeps
<1>2. CASE session'[s] = Idle
  BY <1>1, <1>2, IdleLemma DEF Heeds, Saves
<1>3. CASE GoesOn(s, now)
  <2>1. session'[s].list = now.list
    BY <1>3 DEF GoesOn, Moved, Prepared, SessionFields
  <2> QED
    BY <1>1, <1>3, <2>1, SavesLemma DEF Heeds
<1> QED
  BY <1>1, <1>2, <1>3

LEMMA EndHeeds ==
  ASSUME SessionsOK, NEW s \in Sessions, NEW outcome, End(s, outcome)
  PROVE  Heeds(s)
BY EndKeeps, EndLemma, IdleLemma DEF Ends, Moved, Heeds, Saves

LEMMA TakeBackHeeds ==
  ASSUME SessionsOK, NEW s \in Sessions, Busy(s), session[s].pc \notin {0, 1}, session[s].copy = <<>>,
         NEW outcome, TakeBack(s, outcome)
  PROVE  Heeds(s)
<1>1. Kept(s) /\ (Ends(s) \/ StepsBack(s))
  BY TakeBackKeeps, TakeBackLemma
<1>2. session'[s].pc \in {0, 1}
  BY <1>1, PositionsLemma, IdleLemma DEF Ends, StepsBack, Moved, SessionFields
<1> QED
  BY <1>1, <1>2 DEF Heeds, Saves

LEMMA ApartStep ==
  ASSUME EditorInv, NEW s \in Sessions, Heeds(s), session[s].copy = <<>>, Apart,
         UNCHANGED <<acked, owed, saved>>, CountsOK'
  PROVE  EditorInv'
BY ApartLemma, HeedLemma DEF EditorInv, Heeds, Kept, Apart

LEMMA NothingToPutBackStep ==
  ASSUME EditorInv, NEW s \in Sessions, NothingToPutBack(s)
  PROVE  EditorInv'
<1>1. session[s].pc = 0 /\ session[s].job.kind = "unprobe" /\ session[s].first = <<>>
  BY DEF NothingToPutBack, Undoing, Kind
<1>2. session[s].copy = <<>>
  BY <1>1, NoCopyLemma DEF EditorInv, Rewrites, Writes, Rekeys, Restores, Lists
<1>3. Heeds(s)
  BY EndHeeds DEF NothingToPutBack, EditorInv
<1>4. Apart /\ UNCHANGED <<acked, owed, saved>> /\ CountsOK'
  BY CountsLemma DEF NothingToPutBack, EditorInv, Apart, disk, locks, bounds, history
<1> QED
  BY <1>2, <1>3, <1>4, ApartStep

LEMMA RotateKeyStep ==
  ASSUME EditorInv, NEW s \in Sessions, RotateKey(s)
  PROVE  EditorInv'
<1>1. session[s].pc = 2 /\ session[s].job.kind = "rotate" /\ Busy(s) /\ DOMAIN session[s] = SessionFields
  BY PositionsLemma, Positions DEF EditorInv, RotateKey, At
<1>2. session[s].copy = <<>> /\ session[s].read = <<>>
  BY <1>1, PositionsLemma
  DEF EditorInv, NowOK, ReadOK, Rewrites, Writes, Rekeys, Restores, Lists, Loads, Checks, Finishes
<1>3. Apart /\ UNCHANGED <<acked, owed, saved, ops>>
  BY DEF RotateKey, Apart, locks, history
<1>4. CASE Generate /\ Proceed(s, [session[s] EXCEPT !.key = made']) /\ UNCHANGED faults
  <2> DEFINE now == [session[s] EXCEPT !.key = made']
  <2>1. /\ DOMAIN now = SessionFields /\ now.job = session[s].job /\ now.pc = session[s].pc
        /\ now.read = <<>> /\ now.copy = <<>> /\ now.left = session[s].left
        /\ now.first = session[s].first /\ now.key = made'
    BY <1>1, <1>2 DEF SessionFields
  <2>2. CountsOK'
    BY <1>3, <1>4, CountsLemma DEF EditorInv
  <2>3. made' \in Generated
    BY <1>4, KeysLemma DEF EditorInv, CountsOK, Generate, Generated
  <2> HIDE DEF now
  <2>4. Prepared(s, now)
    BY <1>1, <2>1, <2>3, PreparedLemma DEF EditorInv
  <2>5. Heeds(s)
    BY <1>1, <1>4, <2>4, ProceedHeeds DEF EditorInv, now
  <2> QED
    BY <1>2, <1>3, <2>2, <2>5, ApartStep
<1>5. CASE Fault /\ End(s, "nothing changed") /\ UNCHANGED made
  BY <1>2, <1>3, <1>5, EndHeeds, CountsLemma, ApartStep DEF EditorInv
<1>6. CASE Fault /\ End(s, "nothing changed") /\ Generate
  BY <1>2, <1>3, <1>6, EndHeeds, CountsLemma, ApartStep DEF EditorInv
<1> QED
  BY <1>4, <1>5, <1>6 DEF RotateKey

LEMMA StoreKeyStep ==
  ASSUME EditorInv, NEW s \in Sessions, StoreKey(s)
  PROVE  EditorInv'
<1>1. /\ Busy(s) /\ DOMAIN session[s] = SessionFields
      /\ \/ session[s].pc = 4 /\ session[s].job.kind \in {"add", "reissue"}
         \/ session[s].pc = 6 /\ session[s].job.kind = "rotate"
  BY PositionsLemma, Positions DEF EditorInv, StoreKey, At
<1>2. session[s].copy = <<>> /\ session[s].read = <<>>
  BY <1>1, PositionsLemma
  DEF EditorInv, NowOK, ReadOK, Rewrites, Writes, Rekeys, Restores, Lists, Loads, Checks, Finishes
<1>3. Apart /\ UNCHANGED <<acked, owed, saved>> /\ CountsOK'
  <2>1. UNCHANGED faults \/ Fault
    BY DEF StoreKey
  <2> QED
    BY <2>1, CountsLemma DEF StoreKey, EditorInv, Apart, locks, history
<1>4. CASE Proceed(s, session[s])
  <2>1. Prepared(s, session[s])
    BY <1>1, <1>2, PreparedLemma DEF EditorInv
  <2>2. Heeds(s)
    BY <1>1, <1>4, <2>1, ProceedHeeds DEF EditorInv
  <2> QED
    BY <1>2, <1>3, <2>2, ApartStep
<1>5. CASE TakeBack(s, "interrupted")
  BY <1>1, <1>2, <1>3, <1>5, TakeBackHeeds, ApartStep DEF EditorInv
<1> QED
  BY <1>4, <1>5 DEF StoreKey

LEMMA ReadRevocationsStep ==
  ASSUME EditorInv, NEW s \in Sessions, ReadRevocations(s)
  PROVE  EditorInv'
<1> DEFINE now == [session[s] EXCEPT !.list = revoked]
<1>1. /\ Busy(s) /\ DOMAIN session[s] = SessionFields
      /\ session[s].pc = 2 /\ session[s].job.kind \in {"deploy", "send"}
  BY PositionsLemma, Positions DEF EditorInv, ReadRevocations, At
<1>2. session[s].copy = <<>> /\ session[s].read = <<>>
  BY <1>1, PositionsLemma
  DEF EditorInv, NowOK, ReadOK, Rewrites, Writes, Rekeys, Restores, Lists, Loads, Checks, Finishes
<1>3. Apart /\ UNCHANGED <<acked, owed, saved>> /\ CountsOK'
  BY CountsLemma DEF ReadRevocations, EditorInv, Apart, disk, locks, bounds, history
<1>4. CASE Proceed(s, now)
  <2>1. /\ DOMAIN now = SessionFields /\ now.job = session[s].job /\ now.pc = session[s].pc
        /\ now.read = <<>> /\ now.copy = <<>> /\ now.left = session[s].left
        /\ now.first = session[s].first /\ now.list = revoked
    BY <1>1, <1>2 DEF SessionFields
  <2> HIDE DEF now
  <2>2. Prepared(s, now)
    BY <1>1, <2>1, PreparedLemma DEF EditorInv
  <2>3. owed[s] \subseteq now.list
    BY <2>1 DEF EditorInv, HeedOK
  <2>4. Heeds(s)
    BY <1>1, <1>4, <2>2, <2>3, ProceedHeeds DEF EditorInv
  <2> QED
    BY <1>2, <1>3, <2>4, ApartStep
<1>5. CASE End(s, "revoked")
  BY <1>2, <1>3, <1>5, EndHeeds, ApartStep DEF EditorInv
<1> QED
  BY <1>4, <1>5 DEF ReadRevocations

LEMMA SendStep ==
  ASSUME EditorInv, NEW s \in Sessions, Send(s)
  PROVE  EditorInv'
<1> DEFINE now == [session[s] EXCEPT !.left = @ \ {Device(s)}]
<1>1. /\ Busy(s) /\ DOMAIN session[s] = SessionFields
      /\ \/ session[s].pc = 3 /\ session[s].job.kind = "send"
         \/ session[s].pc = 5 /\ session[s].job.kind = "add"
         \/ session[s].pc = 6 /\ session[s].job.kind = "reissue"
         \/ session[s].pc = 7 /\ session[s].job.kind = "rotate"
  BY PositionsLemma, Positions DEF EditorInv, Send, At
<1>2. NowOK(s, session[s]) /\ session[s].copy = <<>> /\ session[s].read = <<>>
  BY <1>1, PositionsLemma
  DEF EditorInv, NowOK, ReadOK, Rewrites, Writes, Rekeys, Restores, Lists, Loads, Checks, Finishes
<1>3. Apart /\ UNCHANGED <<acked, owed, saved>> /\ CountsOK'
  <2>1. UNCHANGED faults \/ Fault
    BY DEF Send
  <2> QED
    BY <2>1, CountsLemma DEF Send, EditorInv, Apart, disk, locks
<1>4. CASE Proceed(s, now)
  <2>1. /\ DOMAIN now = SessionFields /\ now.job = session[s].job /\ now.pc = session[s].pc
        /\ now.read = <<>> /\ now.copy = <<>> /\ now.left \subseteq session[s].left
        /\ now.first = session[s].first
    BY <1>1, <1>2 DEF SessionFields
  <2> HIDE DEF now
  <2>2. /\ now.left \subseteq Devices
        /\ now.job.kind \in Loading => now.first # <<>>
        /\ now.first # <<>> =>
             /\ Known(now.first[1])
             /\ now.job.kind = "reissue" => now.job.device \in DOMAIN now.first[1].devices
    BY <1>1, <1>2, <2>1 DEF NowOK, LeftOK, FirstOK
  <2>3. Prepared(s, now)
    BY <1>1, <2>1, <2>2 DEF Prepared
  <2>4. Heeds(s)
    BY <1>1, <1>4, <2>3, ProceedHeeds DEF EditorInv
  <2> QED
    BY <1>2, <1>3, <2>4, ApartStep
<1>5. ASSUME NEW outcome, End(s, outcome)
      PROVE  EditorInv'
  BY <1>2, <1>3, <1>5, EndHeeds, ApartStep DEF EditorInv
<1> QED
  BY <1>4, <1>5 DEF Send

\* The devices a deploy saves are none of those it owed.
LEMMA SaveStep ==
  ASSUME EditorInv, NEW s \in Sessions, Save(s)
  PROVE  EditorInv'
<1>1. Busy(s) /\ DOMAIN session[s] = SessionFields /\ Saves(session[s])
  BY PositionsLemma, Positions DEF EditorInv, Save, At
<1>2. NowOK(s, session[s]) /\ session[s].copy = <<>> /\ session[s].read = <<>>
  BY <1>1, PositionsLemma
  DEF EditorInv, NowOK, ReadOK, Rewrites, Writes, Rekeys, Restores, Lists, Loads, Checks, Finishes, Saves
<1>3. Apart /\ UNCHANGED <<acked, owed>> /\ CountsOK'
  <2>1. UNCHANGED faults \/ Fault
    BY DEF Save
  <2> QED
    BY <2>1, CountsLemma DEF Save, EditorInv, Apart, disk, locks
<1>4. CASE saved' = [devices |-> DOMAIN RemoveRevoked(session[s].first[1], session[s].list).devices,
                     owed |-> owed[s]]
  <2>1. Prepared(s, session[s])
    BY <1>1, <1>2, PreparedLemma DEF EditorInv, Saves
  <2>2. Heeds(s)
    BY <1>1, <2>1, ProceedHeeds, EndHeeds DEF Save, EditorInv, Saves
  <2>3. SessionsOK' /\ FilesOK' /\ LocksOK' /\ GateOK'
    BY <1>2, <1>3, <2>2, ApartLemma DEF Heeds
  <2>4. Known(session[s].first[1])
    BY <1>1, <1>2 DEF NowOK, FirstOK, Saves, Loading
  <2>5. saved'.devices \subseteq Devices \ session[s].list /\ saved'.owed = owed[s]
    BY <1>4, <2>4 DEF RemoveRevoked, Only, Known
  <2>6. owed[s] \subseteq session[s].list
    BY <1>1 DEF EditorInv, HeedOK
  <2>7. HeedOK'
    BY <1>3, <2>2, <2>5, <2>6 DEF EditorInv, HeedOK, Heeds, Kept, Apart
  <2> QED
    BY <1>3, <2>3, <2>7 DEF EditorInv
<1>5. CASE End(s, "failed") /\ UNCHANGED saved
  BY <1>2, <1>3, <1>5, EndHeeds, ApartStep DEF EditorInv
<1> QED
  BY <1>4, <1>5 DEF Save

-----------------------------------------------------------------------------
(* Steps that take a lock, and steps that release one.                     *)

LEMMA ExclusiveLemma ==
  ASSUME NEW now
  PROVE  /\ ~(Rewrites(now) /\ Lists(now))
         /\ Rewrites(now) \/ Lists(now) => ~Saves(now)
BY DEF Rewrites, Writes, Rekeys, Restores, Lists, Saves

\* What an edit is about does not depend on the key it carries.
LEMMA SectionLemma ==
  ASSUME NEW s, JobOK(s, session[s]), Busy(s), Busy(s)',
         session'[s].job = session[s].job, session'[s].pc = session[s].pc
  PROVE  PartOf(Forward(s))' = PartOf(Forward(s))
<1>1. At(s, "rekey")' = At(s, "rekey")
  BY DEF At, Kind
<1>2. Forward(s)'.section = Forward(s).section
  <2>1. CASE session[s].job.kind = "add"
    <3>1. ~At(s, "rekey")
      BY <2>1, Positions DEF Rekeys
    <3> QED
      BY <1>1, <2>1, <3>1 DEF Forward, AddDevice, Edit
  <2>2. CASE session[s].job.kind # "add" /\ (session[s].job.kind = "reissue" \/ At(s, "rekey"))
    BY <1>1, <2>2 DEF Forward, SetDevice, Edit
  <2>3. CASE session[s].job.kind = "rotate" /\ ~At(s, "rekey")
    BY <1>1, <2>3 DEF Forward, SetHub, Edit
  <2>4. CASE session[s].job.kind \notin {"add", "reissue", "rotate"} /\ ~At(s, "rekey")
    BY <1>1, <2>4 DEF Forward
  <2> QED
    BY <2>1, <2>2, <2>3, <2>4
<1> QED
  BY <1>2 DEF PartOf

LEMMA GateSameLemma ==
  ASSUME GateOK, \A t \in Sessions : Busy(t)' = Busy(t) /\ Kind(t)' = Kind(t), UNCHANGED gate
  PROVE  GateOK'
BY DEF GateOK, Sessions, Bot

LEMMA OpenStep ==
  ASSUME EditorInv, NEW s \in Sessions, Open(s)
  PROVE  EditorInv'
<1> DEFINE next == Opened(s)
<1>1. NowOK(s, session[s]) /\ DOMAIN session[s] = SessionFields /\ Rewrites(session[s])
      /\ (Generating(s) <=> Carries(session[s]))
  BY PositionsLemma, Positions DEF EditorInv, Open
<1>2. /\ session[s].copy = <<>> /\ configLock = Nobody /\ configLock' = s
      /\ IF Generating(s) THEN Generate ELSE UNCHANGED made
      /\ session' = [session EXCEPT ![s] = next]
      /\ UNCHANGED <<files, revoked, stateLock, gate, ops, faults, acked, owed, saved>>
  BY DEF Open, disk, history
<1>3. /\ DOMAIN session' = Sessions /\ session'[s] = next
      /\ \A t \in Sessions \ {s} : session'[t] = session[t]
  BY <1>2 DEF EditorInv, SessionsOK
<1>4. /\ DOMAIN next = SessionFields /\ next.job = session[s].job /\ next.pc = session[s].pc
      /\ next.read = session[s].read /\ next.first = session[s].first
      /\ next.left = session[s].left /\ next.list = session[s].list
      /\ next.key = IF Generating(s) THEN made' ELSE session[s].key
      /\ next.copy = <<Only(files, PartOf(Forward(s)))>> /\ next.copy # <<>>
  BY <1>1 DEF Opened, SessionFields
<1> HIDE DEF next
<1>5. session[s].job.kind \in DOMAIN Program /\ session[s] # Idle /\ next # Idle
  <2>1. "none" \notin DOMAIN Program
    BY DEF Program
  <2>2. session[s] # Idle
    BY <1>1, IdleLemma DEF Rewrites, Writes, Rekeys, Restores
  <2> QED
    BY <1>1, <1>4, <2>1, <2>2, IdleLemma DEF NowOK, JobOK
<1>6. CountsOK'
  BY <1>2, CountsLemma DEF EditorInv
<1>7. NowOK(s, next)
  <2>1. Generating(s) => next.key \in Generated
    BY <1>2, <1>4, KeysLemma DEF EditorInv, CountsOK, Generate, Generated
  <2>2. KeyOK(next)
    BY <1>1, <1>4, <2>1 DEF NowOK, KeyOK, Carries, Rekeys, Writes
  <2>3. Rewrites(next)
    BY <1>1, <1>4 DEF Rewrites, Writes, Rekeys, Restores
  <2>4. JobOK(s, next) /\ LeftOK(next) /\ ReadOK(next) /\ FirstOK(next)
    BY <1>1, <1>4, <1>5 DEF NowOK, JobOK, LeftOK, ReadOK, FirstOK, Loads, Checks, Finishes
  <2> QED
    BY <2>2, <2>3, <2>4 DEF NowOK
<1>8. SessionsOK' /\ FilesOK'
  BY <1>2, <1>3, <1>7, SessionsLemma DEF EditorInv, FilesOK
<1>9. Rewrites(next) /\ ~Lists(next) /\ ~Saves(next)
  BY <1>1, <1>4, ExclusiveLemma DEF Rewrites, Writes, Rekeys, Restores
<1>10. LocksOK'
  <2> SUFFICES ASSUME NEW t \in Sessions
               PROVE  /\ configLock' = t <=> session'[t].copy # <<>> /\ Rewrites(session'[t])
                      /\ configLock' = t => session'[t].copy = <<Only(files, PartOf(Forward(t))')>>
                      /\ stateLock = t <=> session'[t].copy # <<>> /\ Lists(session'[t])
                      /\ stateLock = t => session'[t].copy = <<revoked>>
    BY <1>2 DEF EditorInv, LocksOK
  <2>1. CASE t = s
    <3>1. PartOf(Forward(s))' = PartOf(Forward(s))
      BY <1>1, <1>3, <1>4, <1>5, SectionLemma DEF Busy, NowOK
    <3> QED
      BY <1>2, <1>3, <1>4, <1>9, <2>1, <3>1 DEF EditorInv, LocksOK
  <2>2. CASE t # s
    <3>1. session'[t] = session[t] /\ Forward(t)' = Forward(t)
      BY <1>3, <2>2, ForwardLemma
    <3>2. configLock # t
      BY <1>2, NobodyAssumption DEF Sessions, Bot
    <3> QED
      BY <1>2, <2>2, <3>1, <3>2 DEF EditorInv, LocksOK
  <2> QED
    BY <2>1, <2>2
<1>11. GateOK'
  <2>1. \A t \in Sessions : Busy(t)' = Busy(t) /\ Kind(t)' = Kind(t)
    BY <1>3, <1>4, <1>5 DEF Busy, Kind
  <2> QED
    BY <1>2, <2>1, GateSameLemma DEF EditorInv
<1>12. HeedOK'
  BY <1>2, <1>3, <1>9, HeedLemma DEF EditorInv
<1> QED
  BY <1>6, <1>8, <1>10, <1>11, <1>12 DEF EditorInv

LEMMA OpenListStep ==
  ASSUME EditorInv, NEW s \in Sessions, OpenList(s)
  PROVE  EditorInv'
<1> DEFINE next == [session[s] EXCEPT !.copy = <<revoked>>]
<1>1. NowOK(s, session[s]) /\ DOMAIN session[s] = SessionFields /\ Lists(session[s]) /\ session[s] # Idle
  BY PositionsLemma, Positions DEF EditorInv, OpenList, At, Busy
<1>2. /\ session[s].copy = <<>> /\ stateLock = Nobody /\ stateLock' = s
      /\ session' = [session EXCEPT ![s] = next]
      /\ UNCHANGED <<files, revoked, configLock, gate, made, ops, faults, acked, owed, saved>>
  BY DEF OpenList, disk, history, bounds
<1>3. /\ DOMAIN session' = Sessions /\ session'[s] = next
      /\ \A t \in Sessions \ {s} : session'[t] = session[t]
  BY <1>2 DEF EditorInv, SessionsOK
<1>4. /\ DOMAIN next = SessionFields /\ next.job = session[s].job /\ next.pc = session[s].pc
      /\ next.read = session[s].read /\ next.first = session[s].first
      /\ next.left = session[s].left /\ next.copy = <<revoked>> /\ next.copy # <<>>
  BY <1>1 DEF SessionFields
<1> HIDE DEF next
<1>5. next # Idle
  BY <1>4, IdleLemma
<1>6. Lists(next) /\ ~Rewrites(next) /\ ~Saves(next)
  BY <1>1, <1>4, ExclusiveLemma DEF Lists
<1>7. NowOK(s, next)
  BY <1>1, <1>4, <1>6
  DEF NowOK, JobOK, LeftOK, ReadOK, FirstOK, KeyOK, Carries, Rekeys, Writes, Lists,
      Loads, Checks, Finishes
<1>8. SessionsOK' /\ FilesOK' /\ CountsOK'
  BY <1>2, <1>3, <1>7, SessionsLemma, CountsLemma DEF EditorInv, FilesOK
<1>9. LocksOK'
  <2> SUFFICES ASSUME NEW t \in Sessions
               PROVE  /\ configLock = t <=> session'[t].copy # <<>> /\ Rewrites(session'[t])
                      /\ configLock = t => session'[t].copy = <<Only(files, PartOf(Forward(t))')>>
                      /\ stateLock' = t <=> session'[t].copy # <<>> /\ Lists(session'[t])
                      /\ stateLock' = t => session'[t].copy = <<revoked>>
    BY <1>2 DEF EditorInv, LocksOK
  <2>1. CASE t = s
    BY <1>2, <1>3, <1>4, <1>6, <2>1 DEF EditorInv, LocksOK
  <2>2. CASE t # s
    <3>1. session'[t] = session[t] /\ Forward(t)' = Forward(t)
      BY <1>3, <2>2, ForwardLemma
    <3>2. stateLock # t
      BY <1>2, NobodyAssumption DEF Sessions, Bot
    <3> QED
      BY <1>2, <2>2, <3>1, <3>2 DEF EditorInv, LocksOK
  <2> QED
    BY <2>1, <2>2
<1>10. GateOK'
  <2>1. \A t \in Sessions : Busy(t)' = Busy(t) /\ Kind(t)' = Kind(t)
    BY <1>1, <1>3, <1>4, <1>5 DEF Busy, Kind
  <2> QED
    BY <1>2, <2>1, GateSameLemma DEF EditorInv
<1>11. HeedOK'
  BY <1>2, <1>3, <1>6, HeedLemma DEF EditorInv
<1> QED
  BY <1>8, <1>9, <1>10, <1>11 DEF EditorInv

\* Whoever has read under a lock holds it, and nobody else has read what it protects.
LEMMA HolderLemma ==
  ASSUME EditorInv, NEW s \in Sessions, session[s].copy # <<>>
  PROVE  /\ Rewrites(session[s]) =>
              /\ configLock = s /\ session[s].copy = <<Only(files, PartOf(Forward(s)))>>
              /\ \A t \in Sessions \ {s} : session[t].copy = <<>> \/ ~Rewrites(session[t])
         /\ Lists(session[s]) =>
              /\ stateLock = s /\ session[s].copy = <<revoked>>
              /\ \A t \in Sessions \ {s} : session[t].copy = <<>> \/ ~Lists(session[t])
BY DEF EditorInv, LocksOK

LEMMA RewriteListStep ==
  ASSUME EditorInv, NEW s \in Sessions, RewriteList(s)
  PROVE  EditorInv'
<1> DEFINE now == [session[s] EXCEPT !.copy = <<>>]
           d == Device(s)
<1>1. NowOK(s, session[s]) /\ DOMAIN session[s] = SessionFields /\ Lists(session[s]) /\ Busy(s)
  BY PositionsLemma, Positions DEF EditorInv, RewriteList, At
<1>2. session[s].copy # <<>> /\ stateLock' = Released(stateLock, s)
      /\ UNCHANGED <<files, configLock, made, ops, saved>>
  BY DEF RewriteList
<1>3. stateLock = s /\ session[s].copy[1] = revoked
      /\ \A t \in Sessions \ {s} : session[t].copy = <<>> \/ ~Lists(session[t])
  BY <1>1, <1>2, HolderLemma
<1>4. d \in Devices
  BY <1>1 DEF Device, Kind, Lists, NowOK, JobOK, Busy, IsJob, Asking
<1>5. ASSUME Proceed(s, now)
      PROVE  Heeds(s)
  <2>1. /\ DOMAIN now = SessionFields /\ now.job = session[s].job /\ now.pc = session[s].pc
        /\ now.read = session[s].read /\ now.copy = <<>> /\ now.left = session[s].left
        /\ now.first = session[s].first
    BY <1>1 DEF SessionFields
  <2>2. session[s].read = <<>>
    BY <1>1 DEF NowOK, ReadOK, Lists, Loads, Checks, Finishes
  <2>3. /\ session[s].pc # 0 /\ session[s].job.kind \notin {"rotate", "deploy"}
        /\ session[s].job.kind \in Loading => session[s].pc # 1
    BY <1>1 DEF Lists, Loading
  <2> HIDE DEF now
  <2>4. Prepared(s, now)
    BY <1>1, <2>1, <2>2, <2>3, PreparedLemma DEF EditorInv
  <2> QED
    BY <1>1, <1>5, <2>3, <2>4, ProceedHeeds DEF EditorInv
<1>6. Heeds(s) /\ (UNCHANGED faults \/ Fault)
  BY <1>5, EndHeeds DEF RewriteList, EditorInv
<1>7. SessionsOK' /\ FilesOK' /\ GateOK' /\ CountsOK'
  BY <1>2, <1>6, SessionsLemma, GateLemma, CountsLemma DEF EditorInv, FilesOK, Heeds, Kept
<1>8. LocksOK'
  <2>1. stateLock' = Nobody /\ Nobody \notin Sessions
    BY <1>2, <1>3, NobodyAssumption DEF Released, Sessions, Bot
  <2>2. \A t \in Sessions \ {s} : session'[t] = session[t] /\ Forward(t)' = Forward(t)
    BY <1>6, ForwardLemma DEF Heeds, Kept
  <2>3. session'[s].copy = <<>> /\ configLock # s
    BY <1>1, <1>2, <1>6, ExclusiveLemma DEF Heeds, Kept, EditorInv, LocksOK
  <2> SUFFICES ASSUME NEW t \in Sessions
               PROVE  /\ configLock = t <=> session'[t].copy # <<>> /\ Rewrites(session'[t])
                      /\ configLock = t => session'[t].copy = <<Only(files, PartOf(Forward(t)'))>>
                      /\ ~(session'[t].copy # <<>> /\ Lists(session'[t]))
    BY <1>2, <2>1 DEF EditorInv, LocksOK
  <2>4. CASE t = s
    BY <2>3, <2>4
  <2>5. CASE t # s
    BY <1>3, <2>2, <2>5 DEF EditorInv, LocksOK
  <2> QED
    BY <2>4, <2>5
<1>9. HeedOK'
  <2>1. \A t \in Sessions \ {s} : session'[t] = session[t]
    BY <1>6 DEF Heeds, Kept
  <2>2. CASE /\ revoked' = session[s].copy[1] \cup {d} /\ UNCHANGED owed
             /\ acked' \in {acked, acked \cup {d}}
    BY <1>2, <1>3, <1>4, <1>6, <2>1, <2>2 DEF EditorInv, HeedOK, Heeds
  <2>3. CASE /\ revoked' = session[s].copy[1] \ {d} /\ acked' = acked \ {d}
             /\ owed' = [t \in Sessions |-> owed[t] \ {d}]
    BY <1>2, <1>3, <1>6, <2>1, <2>3 DEF EditorInv, HeedOK, Heeds
  <2>4. CASE UNCHANGED <<revoked, acked, owed>>
    BY <1>2, <1>6, <2>1, <2>4, HeedLemma DEF EditorInv, Heeds
  <2> QED
    BY <2>2, <2>3, <2>4 DEF RewriteList, ReplaceList
<1> QED
  BY <1>7, <1>8, <1>9 DEF EditorInv

\* Whatever becomes of the files, the lock is free and nobody else has read them.
LEMMA ReleaseLemma ==
  ASSUME EditorInv, NEW s \in Sessions, Rewrites(session[s]), session[s].copy # <<>>,
         Kept(s), configLock' = Released(configLock, s), UNCHANGED <<stateLock, revoked>>
  PROVE  LocksOK'
<1>1. configLock = s /\ \A t \in Sessions \ {s} : session[t].copy = <<>> \/ ~Rewrites(session[t])
  BY HolderLemma
<1>2. configLock' = Nobody /\ Nobody \notin Sessions
  BY <1>1, NobodyAssumption DEF Released, Sessions, Bot
<1>3. session'[s].copy = <<>> /\ stateLock # s
  BY ExclusiveLemma DEF Kept, EditorInv, LocksOK
<1> SUFFICES ASSUME NEW t \in Sessions
             PROVE  /\ ~(session'[t].copy # <<>> /\ Rewrites(session'[t]))
                    /\ stateLock = t <=> session'[t].copy # <<>> /\ Lists(session'[t])
                    /\ stateLock = t => session'[t].copy = <<revoked>>
  BY <1>2 DEF EditorInv, LocksOK
<1>4. CASE t = s
  BY <1>3, <1>4
<1>5. CASE t # s
  <2>1. session'[t] = session[t]
    BY <1>5 DEF Kept
  <2> QED
    BY <1>1, <1>5, <2>1 DEF EditorInv, LocksOK
<1> QED
  BY <1>4, <1>5

LEMMA RewriteFailsStep ==
  ASSUME EditorInv, NEW s \in Sessions, RewriteFails(s)
  PROVE  EditorInv'
<1>1. /\ session[s].copy # <<>> /\ Rewrites(session[s])
      /\ configLock' = Released(configLock, s)
      /\ UNCHANGED <<files, revoked, stateLock, made, ops, acked, owed, saved>>
  BY PositionsLemma, Positions DEF EditorInv, RewriteFails, disk
<1>2. Heeds(s)
  BY EndHeeds DEF RewriteFails, EditorInv
<1>3. UNCHANGED faults \/ Fault
  BY DEF RewriteFails
<1>4. LocksOK'
  BY <1>1, <1>2, ReleaseLemma DEF Heeds
<1>5. SessionsOK' /\ FilesOK' /\ GateOK' /\ CountsOK' /\ HeedOK'
  BY <1>1, <1>2, <1>3, SessionsLemma, GateLemma, CountsLemma, HeedLemma
  DEF EditorInv, FilesOK, Heeds, Kept
<1> QED
  BY <1>4, <1>5 DEF EditorInv

LEMMA DieStep ==
  ASSUME EditorInv, NEW process \in {Bot} \cup {{s} : s \in Shells}, Die(process)
  PROVE  EditorInv'
<1>1. /\ Fault /\ DOMAIN session' = Sessions
      /\ \A t \in Sessions : session'[t] = IF t \in process THEN Idle ELSE session[t]
      /\ configLock' = IF configLock \in process THEN Nobody ELSE configLock
      /\ stateLock' = IF stateLock \in process THEN Nobody ELSE stateLock
      /\ gate' = IF gate \in process THEN Nobody ELSE gate
      /\ UNCHANGED <<files, revoked, made, ops, acked, owed, saved>>
  BY DEF Die, disk
<1>2. Nobody \notin Sessions /\ Nobody \notin Bot /\ process \subseteq Sessions
  BY NobodyAssumption DEF Sessions, Bot
<1>3. SessionsOK' /\ FilesOK' /\ CountsOK'
  BY <1>1, IdleOK, CountsLemma DEF EditorInv, SessionsOK, FilesOK
<1>4. LocksOK'
  <2>1. configLock' \in {Nobody} \cup Sessions /\ stateLock' \in {Nobody} \cup Sessions
    BY <1>1 DEF EditorInv, LocksOK
  <2> SUFFICES ASSUME NEW t \in Sessions
               PROVE  /\ configLock' = t <=> session'[t].copy # <<>> /\ Rewrites(session'[t])
                      /\ configLock' = t => session'[t].copy = <<Only(files, PartOf(Forward(t)'))>>
                      /\ stateLock' = t <=> session'[t].copy # <<>> /\ Lists(session'[t])
                      /\ stateLock' = t => session'[t].copy = <<revoked>>
    BY <1>1, <2>1 DEF LocksOK
  <2>2. CASE t \in process
    BY <1>1, <1>2, <2>2, IdleLemma
  <2>3. CASE t \notin process
    <3>1. session'[t] = session[t] /\ Forward(t)' = Forward(t)
      BY <1>1, <2>3, ForwardLemma
    <3>2. (configLock' = t <=> configLock = t) /\ (stateLock' = t <=> stateLock = t)
      BY <1>1, <1>2, <2>3
    <3> QED
      BY <3>1, <3>2 DEF EditorInv, LocksOK
  <2> QED
    BY <2>2, <2>3
<1>5. GateOK'
  <2>1. Loop \in Bot /\ Spawned \in Bot /\ Bot \subseteq Sessions
    BY DEF Bot, Sessions
  <2>2. \A t \in Sessions : t \notin process => Busy(t)' = Busy(t) /\ Kind(t)' = Kind(t)
    BY <1>1 DEF Busy, Kind
  <2>3. \A t \in process : ~Busy(t)'
    BY <1>1, <1>2 DEF Busy
  <2>4. process \cap Bot = {} \/ process = Bot
    BY SessionsAssumption DEF Bot
  <2> QED
    BY <1>1, <1>2, <2>1, <2>2, <2>3, <2>4 DEF EditorInv, GateOK
<1>6. HeedOK'
  BY <1>1, IdleLemma DEF EditorInv, HeedOK, Saves
<1> QED
  BY <1>3, <1>4, <1>5, <1>6 DEF EditorInv

-----------------------------------------------------------------------------
(* The edits that may be made, and what each makes of the files.           *)

\* Two edits of one field.
Same(e, g) == g.section = e.section /\ g.id = e.id /\ g.field = e.field
\* What an edit writes may be put back.
PutsBack(e) == \A g \in Asked : Same(e, g) => e.value \in Values(g)

OfHub(e) ==
  /\ e.section = "hub" /\ e.id = Blank /\ e.verb \in {"set", "unset"}
  /\ e.field \in HubFields /\ PutsBack(e)
OfDevice(e) ==
  /\ e.section = "devices" /\ e.id \in Devices /\ e.verb \in {"set", "unset"}
  /\ \/ e.field = "egress" /\ PutsBack(e)
     \/ e.field = "key" /\ e.value \in Generated \cup Given
Adds(e) ==
  /\ e.section = "devices" /\ e.id \in Devices /\ e.verb = "add"
  /\ DOMAIN e.value = DeviceFields /\ e.value.key \in Generated \cup Given
  /\ \A g \in Asked : g.section = "devices" /\ g.id = e.id => e.value.egress \in Values(g)
Removes(e) == e.section = "devices" /\ e.verb = "remove"
OfRules(e) == e.section = "acls" /\ e.verb \in {"add", "remove"}
OfTunnel(e) ==
  /\ e.section = "tunnels" /\ e.verb \in {"set", "unset"}
  /\ e.field = "enabled" \/ (e.field = "probe" /\ PutsBack(e))
OfList(e) ==
  e.section = "tunnels" /\ e.verb \in {"append", "drop"} /\ e.field \in {"routes", "zones", "allowed"}
Shaped(e) ==
  OfHub(e) \/ OfDevice(e) \/ Adds(e) \/ Removes(e) \/ OfRules(e) \/ OfTunnel(e) \/ OfList(e)

LEMMA PartLemma ==
  ASSUME NEW e
  PROVE  /\ e.section \in {"hub", "acls"} => PartOf(e) = {"hub", "acls"}
         /\ e.section = "devices" => PartOf(e) = {"devices"}
         /\ e.section = "tunnels" => PartOf(e) = {"tunnels"}
<1>1. {Parts[k] : k \in DOMAIN Parts} = {{"hub", "acls"}, {"devices"}, {"tunnels"}}
  <2>1. /\ DOMAIN Parts = 1 .. 3
        /\ Parts[1] = {"hub", "acls"} /\ Parts[2] = {"devices"} /\ Parts[3] = {"tunnels"}
    BY DEF Parts
  <2>2. 1 .. 3 = {1, 2, 3}
    OBVIOUS
  <2> HIDE DEF Parts
  <2> QED
    BY <2>1, <2>2
<1>2. PartOf(e) = CHOOSE p \in {{"hub", "acls"}, {"devices"}, {"tunnels"}} : e.section \in p
  BY <1>1 DEF PartOf
<1> QED
  BY <1>2

LEMMA AskedLemma ==
  ASSUME NEW e \in Asked
  PROVE  EditsAField(e)
<1>1. PICK job \in AllJobs : job.kind \in Asking /\ e = job.edit
  BY DEF Asked
<1>2. IsJob(job)
  BY <1>1, JobsAssumption DEF AllJobs
<1>3. job.kind \notin {"add", "reissue", "send", "revoke", "readmit", "deploy", "rotate"}
  BY <1>1 DEF Asking
<1> QED
  BY <1>1, <1>2, <1>3 DEF IsJob

\* The values that may be put back are those of the field, whoever asks.
LEMMA ValuesLemma ==
  ASSUME NEW e \in Asked, NEW g \in Asked, Same(e, g),
         e.verb \in {"set", "unset"}, g.verb \in {"set", "unset"}
  PROVE  Values(e) = Values(g) /\ e.value \in Values(g)
<1>1. e.section # "acls" /\ g.section # "acls"
  BY AskedLemma DEF EditsAField
<1>2. \A cfg : Value(cfg, e) = Value(cfg, g)
  BY <1>1 DEF Value, Same
<1>3. \A f : Concerns(e, f) <=> Concerns(g, f)
  BY <1>1 DEF Concerns, Same
<1>4. Concerns(g, e)
  BY <1>1 DEF Concerns, Same
<1>5. Values(e) = Values(g)
  BY <1>2, <1>3 DEF Values, Same
<1>6. e.value \in Values(g)
  <2>1. e \in {f \in Asked : Concerns(g, f)}
    BY <1>4
  <2>2. e.value \in {f.value : f \in {f \in Asked : Concerns(g, f)}}
    BY <2>1
  <2> QED
    BY <2>2 DEF Values
<1> QED
  BY <1>5, <1>6

\* What an asked edit, or the edit that undoes it, may write.
LEMMA PutsBackLemma ==
  ASSUME NEW e \in Asked, e.verb \in {"set", "unset"}, e.field # "enabled",
         NEW undo, undo.section = e.section, undo.id = e.id, undo.field = e.field,
         undo.value \in Values(e) \/ undo.value = e.value
  PROVE  PutsBack(undo)
<1> SUFFICES ASSUME NEW g \in Asked, Same(undo, g)
             PROVE  undo.value \in Values(g)
  BY DEF PutsBack
<1>1. Same(e, g)
  BY DEF Same
<1>2. g.verb \in {"set", "unset"}
  BY <1>1, AskedLemma DEF EditsAField, Same, HubFields
<1> QED
  BY <1>1, <1>2, ValuesLemma

LEMMA AskedShape ==
  ASSUME NEW e \in Asked
  PROVE  Shaped(e)
<1>1. EditsAField(e)
  BY AskedLemma
<1>2. CASE e.section \in {"hub", "devices"}
  <2>1. e.verb \in {"set", "unset"} /\ e.field # "enabled"
    BY <1>1, <1>2 DEF EditsAField, HubFields
  <2>2. PutsBack(e)
    BY <2>1, PutsBackLemma
  <2> QED
    BY <1>1, <1>2, <2>1, <2>2 DEF EditsAField, Shaped, OfHub, OfDevice
<1>3. CASE e.section = "tunnels" /\ e.field = "probe"
  <2>1. e.verb \in {"set", "unset"}
    BY <1>1, <1>3 DEF EditsAField
  <2>2. PutsBack(e)
    BY <1>3, <2>1, PutsBackLemma
  <2> QED
    BY <1>3, <2>1, <2>2 DEF Shaped, OfTunnel
<1>4. CASE e.section = "acls" \/ (e.section = "tunnels" /\ e.field # "probe")
  BY <1>1, <1>4 DEF EditsAField, Shaped, OfRules, OfTunnel, OfList
<1> QED
  BY <1>1, <1>2, <1>3, <1>4 DEF EditsAField

LEMMA UndoneShape ==
  ASSUME NEW e \in Asked, NEW v \in Values(e)
  PROVE  Shaped(Undo(e, v)) /\ Undo(e, v).section = e.section
<1>1. EditsAField(e) /\ e = Edit(e.verb, e.section, e.id, e.field, e.value)
  BY AskedLemma DEF EditsAField
<1>2. DOMAIN e = {"verb", "section", "id", "field", "value"}
  BY <1>1 DEF Edit
<1>3. CASE e.verb \in {"set", "unset"} /\ e.field # "enabled"
  <2> DEFINE undo == Edit(IF v = Blank THEN "unset" ELSE "set", e.section, e.id, e.field, v)
  <2>1. Undo(e, v) = undo
    BY <1>3 DEF Undo
  <2>2. /\ undo.section = e.section /\ undo.id = e.id /\ undo.field = e.field /\ undo.value = v
        /\ undo.verb \in {"set", "unset"}
    BY DEF Edit
  <2> HIDE DEF undo
  <2>3. PutsBack(undo)
    BY <1>3, <2>2, PutsBackLemma
  <2>4. \/ e.section = "hub" /\ e.id = Blank /\ e.field \in HubFields
        \/ e.section = "devices" /\ e.id \in Devices /\ e.field = "egress"
        \/ e.section = "tunnels" /\ e.field = "probe"
    BY <1>1, <1>3 DEF EditsAField
  <2> QED
    BY <2>1, <2>2, <2>3, <2>4 DEF Shaped, OfHub, OfDevice, OfTunnel
<1>4. CASE e.verb = "set" /\ e.field = "enabled"
  <2> DEFINE undo == [e EXCEPT !.value = ~e.value]
  <2>1. Undo(e, v) = undo
    BY <1>4 DEF Undo
  <2>2. undo.section = e.section /\ undo.field = "enabled" /\ undo.verb = "set"
    BY <1>2, <1>4
  <2> HIDE DEF undo
  <2>3. e.section = "tunnels"
    BY <1>1, <1>4 DEF EditsAField, HubFields
  <2> QED
    BY <2>1, <2>2, <2>3 DEF Shaped, OfTunnel
<1>5. CASE e.verb = "append"
  <2>1. Undo(e, v) = [e EXCEPT !.verb = "drop"]
    BY <1>5 DEF Undo
  <2> QED
    BY <1>1, <1>2, <1>5, <2>1 DEF EditsAField, Shaped, OfList
<1>6. CASE e.verb = "drop"
  <2>1. Undo(e, v) = [e EXCEPT !.verb = "append"]
    BY <1>6 DEF Undo
  <2> QED
    BY <1>1, <1>2, <1>6, <2>1 DEF EditsAField, Shaped, OfList
<1>7. CASE e.section = "acls"
  <2>1. Undo(e, v) = [e EXCEPT !.verb = IF e.verb = "add" THEN "remove" ELSE "add"]
    BY <1>1, <1>7 DEF Undo, EditsAField
  <2> QED
    BY <1>2, <1>7, <2>1 DEF Shaped, OfRules
<1>8. e.verb = "unset" => e.field # "enabled"
  BY <1>1 DEF EditsAField, HubFields
<1> QED
  BY <1>1, <1>3, <1>4, <1>5, <1>6, <1>7, <1>8 DEF EditsAField

LEMMA KeyShape ==
  ASSUME NEW d \in Devices
  PROVE  /\ \A k \in Generated : Shaped(SetDevice(d, "key", k))
         /\ \A k, v : Undo(SetDevice(d, "key", k), v) =
                        Edit(IF v = Blank THEN "unset" ELSE "set", "devices", d, "key", v)
         /\ \A k, v : v \in Generated \cup Given => Shaped(Undo(SetDevice(d, "key", k), v))
<1>1. ASSUME NEW k \in Generated
      PROVE  Shaped(SetDevice(d, "key", k))
  BY DEF Shaped, OfDevice, SetDevice, Edit
<1>2. ASSUME NEW k, NEW v
      PROVE  Undo(SetDevice(d, "key", k), v) =
               Edit(IF v = Blank THEN "unset" ELSE "set", "devices", d, "key", v)
  <2> DEFINE e == SetDevice(d, "key", k)
  <2>1. e = Edit("set", "devices", d, "key", k)
    BY DEF SetDevice
  <2>2. /\ e.verb = "set" /\ e.section = "devices" /\ e.id = d /\ e.field = "key"
    BY <2>1 DEF Edit
  <2> HIDE DEF e
  <2>3. Undo(e, v) = Edit(IF v = Blank THEN "unset" ELSE "set", e.section, e.id, e.field, v)
    BY <2>2 DEF Undo
  <2> QED
    BY <2>2, <2>3 DEF e
<1>3. ASSUME NEW k, NEW v \in Generated \cup Given
      PROVE  Shaped(Undo(SetDevice(d, "key", k), v))
  BY <1>2 DEF Shaped, OfDevice, Edit
<1> QED
  BY <1>1, <1>2, <1>3

LEMMA NewJobLemma ==
  ASSUME NEW job \in NewJobs
  PROVE  /\ job.device \in Devices
         /\ job.edit = [address |-> job.edit.address, key |-> Blank, egress |-> job.edit.egress]
BY JobsAssumption DEF NewJobs, AllJobs, IsJob, Asking

LEMMA AddShape ==
  ASSUME NEW job \in NewJobs, NEW k
  PROVE  /\ k \in Generated => Shaped(AddDevice(job.device, [job.edit EXCEPT !.key = k]))
         /\ \A v : Undo(AddDevice(job.device, [job.edit EXCEPT !.key = k]), v) = RemoveDevice(job.device)
         /\ Shaped(RemoveDevice(job.device))
<1> DEFINE entry == [job.edit EXCEPT !.key = k]
           e == AddDevice(job.device, entry)
<1>1. /\ job.device \in Devices
      /\ job.edit = [address |-> job.edit.address, key |-> Blank, egress |-> job.edit.egress]
  BY NewJobLemma
<1>2. DOMAIN entry = DeviceFields /\ entry.key = k /\ entry.egress = job.edit.egress
  BY <1>1 DEF DeviceFields
<1> HIDE DEF entry
<1>3. /\ e.section = "devices" /\ e.id = job.device /\ e.verb = "add" /\ e.value = entry
      /\ e.field = "entry"
  BY DEF AddDevice, Edit
<1>4. ASSUME NEW g \in Asked, g.section = "devices", g.id = job.device
      PROVE  job.edit.egress \in Values(g)
  <2>1. g.verb \in {"set", "unset"}
    BY <1>4, AskedLemma DEF EditsAField
  <2>2. job.edit.egress \in
          {j.edit.egress : j \in {j \in NewJobs : g.section = "devices" /\ j.device = g.id}}
    BY <1>4
  <2> QED
    BY <2>1, <2>2 DEF Values
<1>5. k \in Generated => Shaped(e)
  BY <1>1, <1>2, <1>3, <1>4 DEF Shaped, Adds
<1>6. \A v : Undo(e, v) = RemoveDevice(e.id)
  <2> HIDE DEF e
  <2> QED
    BY <1>3 DEF Undo
<1>7. Shaped(RemoveDevice(job.device))
  BY DEF Shaped, Removes, RemoveDevice, Edit
<1> QED
  BY <1>3, <1>5, <1>6, <1>7 DEF entry

LEMMA ShapeLemma ==
  ASSUME NEW e \in AllEdits
  PROVE  Shaped(e)
<1>1. CASE e \in Asked
  BY <1>1, AskedShape
<1>2. CASE e \in Undone
  BY <1>2, UndoneShape DEF Undone
<1>3. CASE e \in Added
  BY <1>3, AddShape DEF Added
<1>4. CASE e \in Removed
  BY <1>4, AddShape DEF Removed
<1>5. CASE e \in Rekeyed
  BY <1>5, KeyShape DEF Rekeyed
<1>6. CASE e \in KeysPutBack
  BY <1>6, KeyShape DEF KeysPutBack
<1>7. CASE e \in Rotated
  <2>1. \A g \in Asked : g.section = "hub" => g.field # "key"
    BY AskedLemma DEF EditsAField
  <2> QED
    BY <1>7, <2>1 DEF Rotated, SetHub, Edit, Shaped, OfHub, HubFields, PutsBack, Same
<1> QED
  BY <1>1, <1>2, <1>3, <1>4, <1>5, <1>6, <1>7 DEF AllEdits

LEMMA ApplyByCase ==
  ASSUME NEW cfg, NEW e, Shaped(e)
  PROVE  /\ OfHub(e) => Apply(cfg, e) = [cfg EXCEPT !.hub[e.field] = e.value]
         /\ OfDevice(e) => Apply(cfg, e) = [cfg EXCEPT !.devices[e.id][e.field] = e.value]
         /\ OfTunnel(e) => Apply(cfg, e) = [cfg EXCEPT !.tunnels[e.id][e.field] = e.value]
         /\ Adds(e) => Apply(cfg, e) =
              [cfg EXCEPT !.devices = With(@, e.id, e.value)]
         /\ Removes(e) => Apply(cfg, e) = [cfg EXCEPT !.devices = Only(@, DOMAIN @ \ {e.id})]
         /\ OfRules(e) => Apply(cfg, e) =
              [cfg EXCEPT !.acls = IF e.verb = "add" THEN @ \cup {e.value} ELSE @ \ {e.value}]
         /\ OfList(e) => Apply(cfg, e) =
              [cfg EXCEPT !.tunnels[e.id][e.field] =
                 IF e.verb = "append" THEN @ \cup {e.value} ELSE @ \ {e.value}]
<1>1. CASE OfHub(e)
  BY <1>1 DEF OfHub, OfDevice, OfTunnel, Adds, Removes, OfRules, OfList, Apply
<1>2. CASE OfDevice(e)
  BY <1>2 DEF OfHub, OfDevice, OfTunnel, Adds, Removes, OfRules, OfList, Apply
<1>3. CASE OfTunnel(e)
  BY <1>3 DEF OfHub, OfDevice, OfTunnel, Adds, Removes, OfRules, OfList, Apply
<1>4. CASE Adds(e)
  BY <1>4 DEF OfHub, OfDevice, OfTunnel, Adds, Removes, OfRules, OfList, Apply
<1>5. CASE Removes(e)
  BY <1>5 DEF OfHub, OfDevice, OfTunnel, Adds, Removes, OfRules, OfList, Apply
<1>6. CASE OfRules(e)
  <2>1. CASE e.verb = "add"
    BY <1>6, <2>1 DEF OfHub, OfDevice, OfTunnel, Adds, Removes, OfRules, OfList, Apply
  <2>2. CASE e.verb = "remove"
    BY <1>6, <2>2 DEF OfHub, OfDevice, OfTunnel, Adds, Removes, OfRules, OfList, Apply
  <2> QED
    BY <1>6, <2>1, <2>2 DEF OfRules
<1>7. CASE OfList(e)
  <2>1. CASE e.verb = "append"
    BY <1>7, <2>1 DEF OfHub, OfDevice, OfTunnel, Adds, Removes, OfRules, OfList, Apply
  <2>2. CASE e.verb = "drop"
    BY <1>7, <2>2 DEF OfHub, OfDevice, OfTunnel, Adds, Removes, OfRules, OfList, Apply
  <2> QED
    BY <1>7, <2>1, <2>2 DEF OfList
<1> QED
  BY <1>1, <1>2, <1>3, <1>4, <1>5, <1>6, <1>7 DEF Shaped

\* Whatever is in the files stays in order under every edit that may be made.
LEMMA KnownLemma ==
  ASSUME NEW cfg, Known(cfg), NEW e, Shaped(e)
  PROVE  Known(Apply(cfg, e))
<1> DEFINE new == Apply(cfg, e)
<1>1. CASE OfHub(e)
  <2>1. new = [cfg EXCEPT !.hub = [cfg.hub EXCEPT ![e.field] = e.value]]
    BY <1>1, ApplyByCase
  <2>2. /\ DOMAIN new = {"hub", "devices", "tunnels", "acls"}
        /\ new.hub = [cfg.hub EXCEPT ![e.field] = e.value]
        /\ new.devices = cfg.devices /\ new.tunnels = cfg.tunnels
    BY <2>1 DEF Known
  <2>3. \A g \in Asked : g.section = "hub" => g.id = Blank /\ g.field \in HubFields
    BY AskedLemma DEF EditsAField
  <2>4. KnownHub(new.hub)
    BY <1>1, <2>2, <2>3 DEF Known, KnownHub, OfHub, PutsBack, Same
  <2> QED
    BY <2>2, <2>4 DEF Known
<1>2. CASE OfDevice(e)
  <2> DEFINE devices == [cfg.devices EXCEPT ![e.id] = [cfg.devices[e.id] EXCEPT ![e.field] = e.value]]
  <2>1. new = [cfg EXCEPT !.devices = devices]
    BY <1>2, ApplyByCase
  <2>2. /\ DOMAIN new = {"hub", "devices", "tunnels", "acls"}
        /\ new.devices = devices /\ new.hub = cfg.hub /\ new.tunnels = cfg.tunnels
    BY <2>1 DEF Known
  <2>3. DOMAIN devices = DOMAIN cfg.devices
    OBVIOUS
  <2>4. ASSUME NEW d \in DOMAIN cfg.devices
        PROVE  /\ DOMAIN devices[d] = DeviceFields
               /\ \A field \in DeviceFields :
                    devices[d][field] = IF d = e.id /\ field = e.field THEN e.value ELSE cfg.devices[d][field]
    BY DEF Known, KnownDevices
  <2>5. \A g \in Asked : g.section = "devices" => g.field = "egress"
    BY AskedLemma DEF EditsAField
  <2> HIDE DEF devices
  <2>6. KnownDevices(devices)
    <3>1. DOMAIN devices \subseteq Devices
      BY <2>3 DEF Known, KnownDevices
    <3>2. \A d \in DOMAIN devices :
            DOMAIN devices[d] = DeviceFields /\ devices[d].key \in Generated \cup Given
      BY <1>2, <2>3, <2>4 DEF Known, KnownDevices, OfDevice, DeviceFields
    <3>3. ASSUME NEW g \in Asked, g.section = "devices", g.id \in DOMAIN devices
          PROVE  devices[g.id][g.field] \in Values(g)
      <4>1. g.field = "egress" /\ g.field \in DeviceFields
        BY <2>5, <3>3 DEF DeviceFields
      <4>2. CASE g.id = e.id /\ e.field = "egress"
        BY <1>2, <2>3, <2>4, <3>3, <4>1, <4>2 DEF OfDevice, PutsBack, Same
      <4>3. CASE ~(g.id = e.id /\ e.field = "egress")
        BY <2>3, <2>4, <3>3, <4>1, <4>3 DEF Known, KnownDevices
      <4> QED
        BY <4>2, <4>3
    <3> QED
      BY <3>1, <3>2, <3>3 DEF KnownDevices
  <2> QED
    BY <2>2, <2>6 DEF Known
<1>3. CASE Adds(e)
  <2> DEFINE devices == With(cfg.devices, e.id, e.value)
  <2>1. new = [cfg EXCEPT !.devices = devices]
    BY <1>3, ApplyByCase
  <2>2. /\ DOMAIN new = {"hub", "devices", "tunnels", "acls"}
        /\ new.devices = devices /\ new.hub = cfg.hub /\ new.tunnels = cfg.tunnels
    BY <2>1 DEF Known
  <2>3. \A g \in Asked : g.section = "devices" => g.field = "egress"
    BY AskedLemma DEF EditsAField
  <2>4. KnownDevices(devices)
    BY <1>3, <2>3 DEF Known, KnownDevices, Adds, With
  <2> QED
    BY <2>2, <2>4 DEF Known
<1>4. CASE Removes(e)
  <2> DEFINE devices == Only(cfg.devices, DOMAIN cfg.devices \ {e.id})
  <2>1. new = [cfg EXCEPT !.devices = devices]
    BY <1>4, ApplyByCase
  <2>2. /\ DOMAIN new = {"hub", "devices", "tunnels", "acls"}
        /\ new.devices = devices /\ new.hub = cfg.hub /\ new.tunnels = cfg.tunnels
    BY <2>1 DEF Known
  <2>3. KnownDevices(devices)
    BY DEF Known, KnownDevices, Only
  <2> QED
    BY <2>2, <2>3 DEF Known
<1>5. CASE OfRules(e)
  <2> DEFINE acls == IF e.verb = "add" THEN cfg.acls \cup {e.value} ELSE cfg.acls \ {e.value}
  <2>1. new = [cfg EXCEPT !.acls = acls]
    BY <1>5, ApplyByCase
  <2> HIDE DEF acls
  <2>2. /\ DOMAIN new = {"hub", "devices", "tunnels", "acls"}
        /\ new.devices = cfg.devices /\ new.hub = cfg.hub /\ new.tunnels = cfg.tunnels
    BY <2>1 DEF Known
  <2> QED
    BY <2>2 DEF Known
<1>6. CASE OfTunnel(e) \/ OfList(e)
  <2> DEFINE value == IF OfTunnel(e) THEN e.value
                      ELSE IF e.verb = "append" THEN cfg.tunnels[e.id][e.field] \cup {e.value}
                      ELSE cfg.tunnels[e.id][e.field] \ {e.value}
             tunnels == [cfg.tunnels EXCEPT ![e.id] = [cfg.tunnels[e.id] EXCEPT ![e.field] = value]]
  <2>1. new = [cfg EXCEPT !.tunnels = tunnels]
    <3>1. CASE OfTunnel(e)
      BY <3>1, ApplyByCase
    <3>2. CASE OfList(e)
      <4>1. ~OfTunnel(e)
        BY <3>2 DEF OfTunnel, OfList
      <4> QED
        BY <3>2, <4>1, ApplyByCase
    <3> QED
      BY <1>6, <3>1, <3>2
  <2>2. /\ DOMAIN new = {"hub", "devices", "tunnels", "acls"}
        /\ new.tunnels = tunnels /\ new.hub = cfg.hub /\ new.devices = cfg.devices
    BY <2>1 DEF Known
  <2>3. OfTunnel(e) => value = e.value
    OBVIOUS
  <2> HIDE DEF value
  <2>4. DOMAIN tunnels = DOMAIN cfg.tunnels
    OBVIOUS
  <2>5. ASSUME NEW t \in DOMAIN cfg.tunnels
        PROVE  /\ DOMAIN tunnels[t] = TunnelFields
               /\ \A field \in TunnelFields :
                    tunnels[t][field] = IF t = e.id /\ field = e.field THEN value ELSE cfg.tunnels[t][field]
    BY DEF Known, KnownTunnels
  <2> HIDE DEF tunnels
  <2>6. KnownTunnels(tunnels)
    <3>1. ASSUME NEW g \in Asked, g.section = "tunnels", g.field = "probe", g.id \in DOMAIN tunnels
          PROVE  tunnels[g.id].probe \in Values(g)
      <4>1. "probe" \in TunnelFields
        BY DEF TunnelFields
      <4>2. CASE g.id = e.id /\ e.field = "probe"
        <5>1. OfTunnel(e)
          BY <1>6, <4>2 DEF OfList
        <5>2. value \in Values(g)
          BY <2>3, <3>1, <4>2, <5>1 DEF OfTunnel, PutsBack, Same
        <5> QED
          BY <2>4, <2>5, <3>1, <4>1, <4>2, <5>2
      <4>3. CASE ~(g.id = e.id /\ e.field = "probe")
        BY <2>4, <2>5, <3>1, <4>1, <4>3 DEF Known, KnownTunnels
      <4> QED
        BY <4>2, <4>3
    <3> QED
      BY <2>4, <2>5, <3>1 DEF Known, KnownTunnels
  <2> QED
    BY <2>2, <2>6 DEF Known
<1> QED
  BY <1>1, <1>2, <1>3, <1>4, <1>5, <1>6 DEF Shaped

LEMMA PatchLemma ==
  ASSUME NEW cfg, NEW copy, NEW P, NEW x \in P, NEW X,
         P \subseteq DOMAIN cfg, DOMAIN copy = P, \A y \in P : copy[y] = cfg[y]
  PROVE  [section \in DOMAIN cfg |->
            IF section \in DOMAIN copy THEN [copy EXCEPT ![x] = X][section] ELSE cfg[section]]
           = [cfg EXCEPT ![x] = X]
OBVIOUS

\* An edit of one file, read and rewritten whole, is that edit of the configuration.
Patched(cfg, copy, e) ==
  [section \in DOMAIN cfg |-> IF section \in DOMAIN copy THEN Apply(copy, e)[section] ELSE cfg[section]]

LEMMA CopyLemma ==
  ASSUME NEW cfg, DOMAIN cfg = {"hub", "devices", "tunnels", "acls"}, NEW e, Shaped(e)
  PROVE  LET copy == Only(cfg, PartOf(e))
         IN  Applies(copy, e) => Applies(cfg, e) /\ Patched(cfg, copy, e) = Apply(cfg, e)
<1> DEFINE P == PartOf(e)
           copy == Only(cfg, P)
<1>1. P \subseteq DOMAIN cfg /\ e.section \in P
  BY PartLemma DEF Shaped, OfHub, OfDevice, Adds, Removes, OfRules, OfTunnel, OfList
<1>2. DOMAIN copy = P /\ \A y \in P : copy[y] = cfg[y]
  BY <1>1 DEF Only
<1> HIDE DEF P, copy
<1>3. ASSUME NEW X, NEW x \in P, Apply(copy, e) = [copy EXCEPT ![x] = X], Apply(cfg, e) = [cfg EXCEPT ![x] = X]
      PROVE  Patched(cfg, copy, e) = Apply(cfg, e)
  BY <1>1, <1>2, <1>3, PatchLemma DEF Patched
<1>4. CASE OfHub(e)
  <2> DEFINE X(c) == [c.hub EXCEPT ![e.field] = e.value]
  <2>1. copy.hub = cfg.hub /\ "hub" \in P
    BY <1>1, <1>2, <1>4 DEF OfHub
  <2>2. Applies(copy, e) => Applies(cfg, e)
    BY <1>4, <2>1 DEF OfHub, Applies
  <2>3. Apply(cfg, e) = [cfg EXCEPT !["hub"] = X(cfg)]
    BY <1>4, ApplyByCase
  <2>4. Apply(copy, e) = [copy EXCEPT !["hub"] = X(copy)]
    BY <1>4, ApplyByCase
  <2>5. X(copy) = X(cfg)
    BY <2>1, Zenon
  <2> HIDE DEF X
  <2> QED
    BY <1>3, <2>1, <2>2, <2>3, <2>4, <2>5 DEF copy, P
<1>5. CASE OfDevice(e)
  <2> DEFINE X(c) == [c.devices EXCEPT ![e.id] = [c.devices[e.id] EXCEPT ![e.field] = e.value]]
  <2>1. copy.devices = cfg.devices /\ "devices" \in P
    BY <1>1, <1>2, <1>5 DEF OfDevice
  <2>2. Applies(copy, e) => Applies(cfg, e)
    BY <1>5, <2>1 DEF OfDevice, Applies
  <2>3. Apply(cfg, e) = [cfg EXCEPT !["devices"] = X(cfg)]
    BY <1>5, ApplyByCase
  <2>4. Apply(copy, e) = [copy EXCEPT !["devices"] = X(copy)]
    BY <1>5, ApplyByCase, ZenonT(30)
  <2>5. X(copy) = X(cfg)
    BY <2>1, Zenon
  <2> HIDE DEF X
  <2> QED
    BY <1>3, <2>1, <2>2, <2>3, <2>4, <2>5 DEF copy, P
<1>6. CASE Adds(e)
  <2> DEFINE X(c) == With(c.devices, e.id, e.value)
  <2>1. copy.devices = cfg.devices /\ "devices" \in P
    BY <1>1, <1>2, <1>6 DEF Adds
  <2>2. Applies(copy, e) => Applies(cfg, e)
    BY <1>6, <2>1 DEF Adds, Applies
  <2>3. Apply(cfg, e) = [cfg EXCEPT !["devices"] = X(cfg)]
    BY <1>6, ApplyByCase
  <2>4. Apply(copy, e) = [copy EXCEPT !["devices"] = X(copy)]
    BY <1>6, ApplyByCase
  <2>5. X(copy) = X(cfg)
    BY <2>1, Zenon
  <2> HIDE DEF X
  <2> QED
    BY <1>3, <2>1, <2>2, <2>3, <2>4, <2>5 DEF copy, P
<1>7. CASE Removes(e)
  <2> DEFINE X(c) == Only(c.devices, DOMAIN c.devices \ {e.id})
  <2>1. copy.devices = cfg.devices /\ "devices" \in P
    BY <1>1, <1>2, <1>7 DEF Removes
  <2>2. Applies(copy, e) => Applies(cfg, e)
    BY <1>7, <2>1 DEF Removes, Applies
  <2>3. Apply(cfg, e) = [cfg EXCEPT !["devices"] = X(cfg)]
    BY <1>7, ApplyByCase
  <2>4. Apply(copy, e) = [copy EXCEPT !["devices"] = X(copy)]
    BY <1>7, ApplyByCase
  <2>5. X(copy) = X(cfg)
    BY <2>1, Zenon
  <2> HIDE DEF X
  <2> QED
    BY <1>3, <2>1, <2>2, <2>3, <2>4, <2>5 DEF copy, P
<1>8. CASE OfRules(e)
  <2> DEFINE X(c) == IF e.verb = "add" THEN c.acls \cup {e.value} ELSE c.acls \ {e.value}
  <2>1. copy.acls = cfg.acls /\ "acls" \in P
    BY <1>1, <1>2, <1>8 DEF OfRules
  <2>2. Applies(copy, e) => Applies(cfg, e)
    BY <1>8, <2>1 DEF OfRules, Applies
  <2>3. Apply(cfg, e) = [cfg EXCEPT !["acls"] = X(cfg)]
    BY <1>8, ApplyByCase
  <2>4. Apply(copy, e) = [copy EXCEPT !["acls"] = X(copy)]
    BY <1>8, ApplyByCase
  <2>5. X(copy) = X(cfg)
    BY <2>1, Zenon
  <2> HIDE DEF X
  <2> QED
    BY <1>3, <2>1, <2>2, <2>3, <2>4, <2>5 DEF copy, P
<1>9. CASE OfTunnel(e)
  <2> DEFINE X(c) == [c.tunnels EXCEPT ![e.id] = [c.tunnels[e.id] EXCEPT ![e.field] = e.value]]
  <2>1. copy.tunnels = cfg.tunnels /\ "tunnels" \in P
    BY <1>1, <1>2, <1>9 DEF OfTunnel
  <2>2. Applies(copy, e) => Applies(cfg, e)
    BY <1>9, <2>1 DEF OfTunnel, Applies
  <2>3. Apply(cfg, e) = [cfg EXCEPT !["tunnels"] = X(cfg)]
    BY <1>9, ApplyByCase, ZenonT(30)
  <2>4. Apply(copy, e) = [copy EXCEPT !["tunnels"] = X(copy)]
    BY <1>9, ApplyByCase, ZenonT(30)
  <2>5. X(copy) = X(cfg)
    BY <2>1, Zenon
  <2> HIDE DEF X
  <2> QED
    BY <1>3, <2>1, <2>2, <2>3, <2>4, <2>5 DEF copy, P
<1>10. CASE OfList(e)
  <2> DEFINE list(c) == c.tunnels[e.id][e.field]
             value(c) == IF e.verb = "append" THEN list(c) \cup {e.value} ELSE list(c) \ {e.value}
             X(c) == [c.tunnels EXCEPT ![e.id] = [c.tunnels[e.id] EXCEPT ![e.field] = value(c)]]
  <2>1. copy.tunnels = cfg.tunnels /\ "tunnels" \in P
    BY <1>1, <1>2, <1>10 DEF OfList
  <2>2. Applies(copy, e) => Applies(cfg, e)
    BY <1>10, <2>1 DEF OfList, Applies
  <2>3. Apply(cfg, e) = [cfg EXCEPT !["tunnels"] = X(cfg)]
    BY <1>10, ApplyByCase
  <2>4. Apply(copy, e) = [copy EXCEPT !["tunnels"] = X(copy)]
    BY <1>10, ApplyByCase
  <2>5. X(copy) = X(cfg)
    BY <2>1, Zenon
  <2> HIDE DEF X
  <2> QED
    BY <1>3, <2>1, <2>2, <2>3, <2>4, <2>5 DEF copy, P
<1> QED
  BY <1>4, <1>5, <1>6, <1>7, <1>8, <1>9, <1>10 DEF Shaped

-----------------------------------------------------------------------------
(* A file is rewritten: the step that AtomicConfig sees.                   *)

LEMMA UndoLemma ==
  ASSUME NEW e \in Asked, e.verb \notin {"set", "unset"} \/ e.field = "enabled"
  PROVE  \A v : Undo(e, v) = Undo(e, Blank)
<1>1. EditsAField(e)
  BY AskedLemma
<1>2. e.verb # "unset" \/ e.field # "enabled"
  BY <1>1 DEF EditsAField, HubFields
<1>3. CASE e.verb = "set" /\ e.field = "enabled"
  BY <1>3 DEF Undo
<1>4. CASE e.verb \in {"append", "drop"}
  BY <1>4 DEF Undo
<1>5. CASE e.verb \in {"add", "remove"}
  <2>1. e.section = "acls"
    BY <1>1, <1>5 DEF EditsAField
  <2> QED
    BY <1>5, <2>1 DEF Undo
<1> QED
  BY <1>1, <1>2, <1>3, <1>4, <1>5 DEF EditsAField

LEMMA KnownValueLemma ==
  ASSUME NEW cfg, Known(cfg), NEW e \in Asked, e.verb \in {"set", "unset"}, e.field # "enabled"
  PROVE  Value(cfg, e) \in Values(e)
<1>1. EditsAField(e)
  BY AskedLemma
<1>2. Blank \in Values(e)
  BY DEF Values
<1>3. CASE e.section = "hub"
  <2>1. Value(cfg, e) = cfg.hub[e.field]
    <3>1. e.field # "entry"
      BY <1>1 DEF EditsAField, HubFields
    <3> QED
      BY <1>3, <3>1 DEF Value
  <2> QED
    BY <1>3, <2>1 DEF Known, KnownHub
<1>4. CASE e.section = "devices"
  <2>1. e.field = "egress"
    BY <1>1, <1>4 DEF EditsAField
  <2>2. Value(cfg, e) = IF e.id \in DOMAIN cfg.devices THEN cfg.devices[e.id][e.field] ELSE Blank
    BY <1>4, <2>1 DEF Value
  <2> QED
    BY <1>2, <1>4, <2>2 DEF Known, KnownDevices
<1>5. CASE e.section = "tunnels"
  <2>1. e.field = "probe"
    BY <1>1, <1>5 DEF EditsAField
  <2>2. Value(cfg, e) = IF e.id \in DOMAIN cfg.tunnels THEN cfg.tunnels[e.id][e.field] ELSE Blank
    BY <1>5, <2>1 DEF Value
  <2> QED
    BY <1>2, <1>5, <2>1, <2>2 DEF Known, KnownTunnels
<1> QED
  BY <1>1, <1>3, <1>4, <1>5 DEF EditsAField

LEMMA AskedByLemma ==
  ASSUME NEW s \in Sessions, JobOK(s, session[s]), session[s].job.kind \in Asking, Busy(s)
  PROVE  session[s].job.edit \in Asked /\ Forward(s) = session[s].job.edit
<1>1. session[s].job \in AllJobs
  BY DEF JobOK, Busy, AllJobs
<1>2. session[s].job.kind \notin {"add", "reissue", "rotate"} /\ ~At(s, "rekey")
  BY Positions DEF Asking, Rekeys
<1> QED
  BY <1>1, <1>2 DEF Asked, Forward

LEMMA NewByLemma ==
  ASSUME NEW s \in Sessions, JobOK(s, session[s]), session[s].job.kind = "add", Busy(s)
  PROVE  /\ session[s].job \in NewJobs
         /\ Forward(s) = AddDevice(session[s].job.device, [session[s].job.edit EXCEPT !.key = session[s].key])
<1>1. session[s].job \in AllJobs
  BY DEF JobOK, Busy, AllJobs
<1>2. ~At(s, "rekey")
  BY Positions DEF Rekeys
<1> QED
  BY <1>1, <1>2 DEF NewJobs, Forward

LEMMA ReissuedByLemma ==
  ASSUME NEW s \in Sessions, JobOK(s, session[s]), session[s].job.kind = "reissue", Busy(s)
  PROVE  /\ session[s].job.device \in Devices
         /\ Forward(s) = SetDevice(session[s].job.device, "key", session[s].key)
<1>1. session[s].job.device \in Devices
  BY DEF JobOK, Busy, IsJob, Asking
<1> QED
  BY <1>1 DEF Forward, Device, Kind

LEMMA MembersLemma ==
  /\ \A job \in NewJobs, k \in Generated : AddDevice(job.device, [job.edit EXCEPT !.key = k]) \in Added
  /\ \A d \in Devices, k \in Generated \cup Given : Undo(SetDevice(d, "key", Blank), k) \in KeysPutBack
<1>1. ASSUME NEW job \in NewJobs, NEW k \in Generated
      PROVE  AddDevice(job.device, [job.edit EXCEPT !.key = k]) \in Added
  <2>1. AddDevice(job.device, [job.edit EXCEPT !.key = k])
          \in {AddDevice(job.device, [job.edit EXCEPT !.key = j]) : j \in Generated}
    BY Zenon
  <2> QED
    BY <2>1, Zenon DEF Added
<1>2. ASSUME NEW d \in Devices, NEW k \in Generated \cup Given
      PROVE  Undo(SetDevice(d, "key", Blank), k) \in KeysPutBack
  <2>1. Undo(SetDevice(d, "key", Blank), k) \in {Undo(SetDevice(d, "key", Blank), j) : j \in Generated \cup Given}
    BY Zenon
  <2> QED
    BY <2>1, Zenon DEF KeysPutBack
<1> QED
  BY <1>1, <1>2, Zenon

LEMMA ForwardEdit ==
  ASSUME SessionsOK, NEW s \in Sessions, Rewrites(session[s]), session[s].pc # 0, session[s].copy # <<>>
  PROVE  Forward(s) \in AllEdits
<1>1. NowOK(s, session[s]) /\ JobOK(s, session[s])
  BY PositionsLemma
<1>2. Busy(s)
  BY IdleLemma DEF Rewrites, Writes, Rekeys, Restores, Busy
<1>3. CASE session[s].job.kind \in Asking
  BY <1>1, <1>2, <1>3, AskedByLemma DEF AllEdits
<1>4. CASE session[s].job.kind = "add"
  <2>1. session[s].key \in Generated
    BY <1>1, <1>4 DEF NowOK, KeyOK, Carries, Rekeys, Rewrites, Restores
  <2> QED
    BY <1>1, <1>2, <1>4, <2>1, NewByLemma, MembersLemma DEF AllEdits
<1>5. CASE session[s].job.kind = "reissue"
  <2>1. session[s].key \in Generated
    BY <1>1, <1>5 DEF NowOK, KeyOK, Carries, Rekeys, Rewrites, Restores
  <2> QED
    BY <1>1, <1>2, <1>5, <2>1, ReissuedByLemma DEF AllEdits, Rekeyed
<1>6. CASE session[s].job.kind = "rotate" /\ session[s].pc = 5
  <2>1. session[s].key \in Generated /\ At(s, "rekey")
    BY <1>1, <1>6, Positions DEF NowOK, KeyOK, Carries, Rekeys
  <2>2. session[s].left \subseteq Devices /\ session[s].left # {}
    BY <1>1, <1>6 DEF NowOK, LeftOK
  <2>3. Device(s) \in Devices
    BY <1>6, <2>2, MinLemma DEF Device, Kind
  <2>4. Forward(s) = SetDevice(Device(s), "key", session[s].key)
    BY <1>6, <2>1 DEF Forward
  <2> QED
    BY <2>1, <2>3, <2>4 DEF AllEdits, Rekeyed
<1>7. CASE session[s].job.kind = "rotate" /\ session[s].pc = 3
  <2>1. session[s].key \in Generated /\ ~At(s, "rekey")
    BY <1>1, <1>7, Positions DEF NowOK, KeyOK, Rekeys
  <2>2. Forward(s) = SetHub("key", session[s].key)
    BY <1>7, <2>1 DEF Forward
  <2> QED
    BY <2>1, <2>2 DEF AllEdits, Rotated
<1> QED
  BY <1>3, <1>4, <1>5, <1>6, <1>7 DEF Rewrites, Writes, Rekeys, Restores, Asking

LEMMA BackwardEdit ==
  ASSUME SessionsOK, NEW s \in Sessions, Restores(session[s])
  PROVE  Backward(s) \in AllEdits /\ Backward(s).section = Forward(s).section
<1>1. NowOK(s, session[s]) /\ JobOK(s, session[s]) /\ session[s].pc = 0
  BY PositionsLemma DEF Restores
<1>2. Busy(s)
  BY <1>1, IdleLemma DEF Busy
<1>3. session[s].job.kind \in Undoable
  BY <1>1, <1>2 DEF JobOK, Busy
<1> DEFINE cfg == session[s].first[1]
<1>4. Backward(s) \in AllEdits /\ Backward(s).section = Forward(s).section
  <2>1. CASE session[s].job.kind = "edit"
    <3>1. session[s].job.edit \in Asked /\ Forward(s) = session[s].job.edit
      BY <1>1, <1>2, <2>1, AskedByLemma DEF Asking
    <3>2. Backward(s) = Undo(Forward(s), Blank)
      BY <2>1 DEF Backward, Kind, Peeking
    <3>3. Blank \in Values(Forward(s))
      BY DEF Values
    <3>4. Undo(Forward(s), Blank) \in Undone
      BY <3>1, <3>3 DEF Undone
    <3> QED
      BY <3>1, <3>2, <3>3, <3>4, UndoneShape DEF AllEdits
  <2>2. CASE session[s].job.kind \in {"peek", "informed", "unprobe"}
    <3> DEFINE e == Forward(s)
               v == Value(cfg, e)
    <3>1. session[s].job.edit \in Asked /\ e = session[s].job.edit
      BY <1>1, <1>2, <2>2, AskedByLemma DEF Asking
    <3>2. session[s].first # <<>> /\ Known(cfg)
      BY <1>1, <2>2 DEF NowOK, FirstOK, Restores, Loading
    <3>3. Backward(s) = Undo(e, v)
      BY <2>2, <3>2 DEF Backward, Kind, Peeking
    <3> HIDE DEF cfg, e, v
    <3>4. \E w \in Values(e) : Undo(e, v) = Undo(e, w)
      <4>1. CASE e.verb \in {"set", "unset"} /\ e.field # "enabled"
        BY <3>1, <3>2, <4>1, KnownValueLemma DEF v
      <4>2. CASE ~(e.verb \in {"set", "unset"} /\ e.field # "enabled")
        <5>1. Blank \in Values(e)
          BY DEF Values
        <5>2. Undo(e, v) = Undo(e, Blank)
          BY <3>1, <4>2, UndoLemma
        <5> QED
          BY <5>1, <5>2
      <4> QED
        BY <4>1, <4>2
    <3>5. PICK w \in Values(e) : Backward(s) = Undo(e, w)
      BY <3>3, <3>4
    <3>6. Undo(e, w) \in Undone
      BY <3>1, <3>5 DEF Undone
    <3>7. Undo(e, w).section = e.section
      BY <3>1, UndoneShape
    <3> QED
      BY <3>5, <3>6, <3>7 DEF AllEdits, e
  <2>3. CASE session[s].job.kind = "add"
    <3>1. /\ session[s].job \in NewJobs
          /\ Forward(s) = AddDevice(session[s].job.device, [session[s].job.edit EXCEPT !.key = session[s].key])
      BY <1>1, <1>2, <2>3, NewByLemma
    <3>2. Backward(s) = RemoveDevice(session[s].job.device)
      BY <3>1, AddShape DEF Backward
    <3>3. Backward(s) \in AllEdits
      BY <3>1, <3>2 DEF AllEdits, Removed
    <3>4. Backward(s).section = "devices" /\ Forward(s).section = "devices"
      BY <3>1, <3>2 DEF RemoveDevice, AddDevice, Edit
    <3> QED
      BY <3>3, <3>4
  <2>4. CASE session[s].job.kind = "reissue"
    <3> DEFINE d == session[s].job.device
    <3>1. d \in Devices /\ Forward(s) = SetDevice(d, "key", session[s].key)
      BY <1>1, <1>2, <2>4, ReissuedByLemma
    <3>2. session[s].first # <<>> /\ Known(cfg) /\ d \in DOMAIN cfg.devices
      BY <1>1, <2>4 DEF NowOK, FirstOK, Loading
    <3>3. Backward(s) = Undo(Forward(s), Value(cfg, Forward(s)))
      BY <2>4, <3>2 DEF Backward, Kind, Peeking
    <3>4. Value(cfg, Forward(s)) = cfg.devices[d].key
      BY <3>1, <3>2 DEF Value, SetDevice, Edit
    <3>5. cfg.devices[d].key \in Generated \cup Given
      BY <3>2 DEF Known, KnownDevices
    <3>6. Backward(s) = Undo(SetDevice(d, "key", Blank), cfg.devices[d].key)
      BY <3>1, <3>3, <3>4, KeyShape
    <3>7. Backward(s) \in AllEdits
      BY <3>1, <3>5, <3>6, MembersLemma DEF AllEdits
    <3>8. Forward(s).section = "devices"
      BY <3>1 DEF SetDevice, Edit
    <3>9. Backward(s).section = "devices"
      <4>1. \A v : Undo(SetDevice(d, "key", Blank), v).section = "devices"
        BY <3>1, KeyShape DEF Edit
      <4> QED
        BY <3>6, <4>1
    <3> QED
      BY <3>7, <3>8, <3>9
  <2> QED
    BY <1>3, <2>1, <2>2, <2>3, <2>4 DEF Undoable
<1> QED
  BY <1>4

\* What a rewrite makes of the files is its edit of them, though it edited a copy.
LEMMA RewriteLemma ==
  ASSUME EditorInv, NEW s \in Sessions, Replace(s)
  PROVE  /\ Wanted(s) \in AllEdits /\ Wanted(s).section = Forward(s).section
         /\ Applies(files, Wanted(s)) /\ files' = Apply(files, Wanted(s))
<1> DEFINE e == Wanted(s)
           copy == session[s].copy[1]
<1>1. /\ Rewrites(session[s]) /\ session[s].copy # <<>>
      /\ Undoing(s) <=> session[s].pc = 0
  BY PositionsLemma, Positions DEF EditorInv, Replace
<1>2. e \in AllEdits /\ e.section = Forward(s).section
  <2>1. CASE Undoing(s)
    <3>1. Restores(session[s])
      BY <1>1, <2>1 DEF Rewrites, Writes, Rekeys
    <3> QED
      BY <2>1, <3>1, BackwardEdit DEF EditorInv, Wanted
  <2>2. CASE ~Undoing(s)
    BY <1>1, <2>2, ForwardEdit DEF EditorInv, Wanted
  <2> QED
    BY <2>1, <2>2
<1>3. Applies(copy, e) /\ files' = [section \in DOMAIN files |->
                                      IF section \in DOMAIN copy THEN Apply(copy, e)[section] ELSE files[section]]
  BY DEF Replace
<1> HIDE DEF e
<1>4. copy = Only(files, PartOf(e))
  <2>1. PartOf(e) = PartOf(Forward(s))
    BY <1>2 DEF PartOf
  <2> QED
    BY <1>1, <2>1, HolderLemma
<1> HIDE DEF copy
<1>5. files' = Patched(files, copy, e)
  BY <1>3 DEF Patched
<1>6. DOMAIN files = {"hub", "devices", "tunnels", "acls"}
  BY DEF EditorInv, FilesOK, Known
<1> QED
  BY <1>2, <1>3, <1>4, <1>5, <1>6, ShapeLemma, CopyLemma DEF e

LEMMA RewriteStep ==
  ASSUME EditorInv, NEW s \in Sessions, Rewrite(s)
  PROVE  EditorInv'
<1> DEFINE now == [session[s] EXCEPT !.copy = <<>>]
<1>1. /\ NowOK(s, session[s]) /\ DOMAIN session[s] = SessionFields
      /\ Rewrites(session[s]) /\ session[s].copy # <<>>
      /\ Undoing(s) <=> session[s].pc = 0
  BY PositionsLemma, Positions DEF EditorInv, Rewrite, Replace
<1>2. /\ configLock' = Released(configLock, s)
      /\ IF Undoing(s) THEN End(s, "cancelled") ELSE Proceed(s, now)
      /\ UNCHANGED <<revoked, stateLock, made, ops, faults, acked, owed, saved>>
  BY DEF Rewrite, Replace, bounds
<1>3. Busy(s)
  BY <1>1, IdleLemma DEF Rewrites, Writes, Rekeys, Restores, Busy
<1>4. FilesOK'
  BY RewriteLemma, ShapeLemma, KnownLemma DEF Rewrite, EditorInv, FilesOK
<1>5. Heeds(s)
  <2>1. CASE Undoing(s)
    BY <1>2, <2>1, EndHeeds DEF EditorInv
  <2>2. CASE ~Undoing(s)
    <3>1. /\ DOMAIN now = SessionFields /\ now.job = session[s].job /\ now.pc = session[s].pc
          /\ now.read = session[s].read /\ now.copy = <<>> /\ now.left = session[s].left
          /\ now.first = session[s].first
      BY <1>1 DEF SessionFields
    <3>2. Writes(session[s]) \/ Rekeys(session[s])
      BY <1>1, <2>2 DEF Rewrites, Restores
    <3>3. session[s].read = <<>>
      BY <1>1, <3>2 DEF NowOK, ReadOK, Loads, Checks, Finishes, Writes, Rekeys
    <3>4. /\ session[s].job.kind \in Loading => session[s].pc # 1
          /\ ~(session[s].job.kind = "rotate" /\ session[s].pc = 2)
          /\ ~(session[s].job.kind = "deploy" /\ session[s].pc = 2)
      BY <3>2 DEF Writes, Rekeys, Loading
    <3> HIDE DEF now
    <3>5. Prepared(s, now)
      BY <1>3, <3>1, <3>3, <3>4, PreparedLemma DEF EditorInv
    <3> QED
      BY <1>1, <1>2, <1>3, <2>2, <3>4, <3>5, ProceedHeeds DEF EditorInv
  <2> QED
    BY <2>1, <2>2
<1>6. LocksOK'
  BY <1>1, <1>2, <1>5, ReleaseLemma DEF Heeds
<1>7. SessionsOK' /\ GateOK' /\ CountsOK' /\ HeedOK'
  BY <1>2, <1>5, SessionsLemma, GateLemma, CountsLemma, HeedLemma DEF EditorInv, Heeds, Kept
<1> QED
  BY <1>4, <1>6, <1>7 DEF EditorInv

LEMMA RewriteFailsLateStep ==
  ASSUME EditorInv, NEW s \in Sessions, RewriteFailsLate(s)
  PROVE  EditorInv'
<1>1. /\ session[s].copy # <<>> /\ Rewrites(session[s])
      /\ configLock' = Released(configLock, s) /\ Fault
      /\ UNCHANGED <<revoked, stateLock, made, ops, acked, owed, saved>>
  BY PositionsLemma, Positions DEF EditorInv, RewriteFailsLate, Replace
<1>2. Heeds(s)
  BY EndHeeds DEF RewriteFailsLate, EditorInv
<1>3. FilesOK'
  BY RewriteLemma, ShapeLemma, KnownLemma DEF RewriteFailsLate, EditorInv, FilesOK
<1>4. LocksOK'
  BY <1>1, <1>2, ReleaseLemma DEF Heeds
<1>5. SessionsOK' /\ GateOK' /\ CountsOK' /\ HeedOK'
  BY <1>1, <1>2, SessionsLemma, GateLemma, CountsLemma, HeedLemma DEF EditorInv, Heeds, Kept
<1> QED
  BY <1>3, <1>4, <1>5 DEF EditorInv

-----------------------------------------------------------------------------
(* The theorems.                                                           *)

LEMMA EditorInit == Init => EditorInv
<1> SUFFICES ASSUME Init PROVE EditorInv
  OBVIOUS
<1>1. IsConfiguration(files)
  BY WrittenAssumption DEF Init
<1>2. FilesOK
  <2>1. \A e \in Asked : EditsAField(e)
    BY AskedLemma
  <2>2. \A d \in DOMAIN files.devices : files.devices[d].key \in Given
    BY DEF Init, Given
  <2>3. ASSUME NEW e \in Asked, e.verb \in {"set", "unset"}
        PROVE  Value(files, e) \in Values(e)
    BY <2>3 DEF Init, Values
  <2>4. ASSUME NEW e \in Asked, e.section = "hub"
        PROVE  files.hub[e.field] \in Values(e)
    <3>1. e.verb \in {"set", "unset"} /\ e.field # "entry"
      BY <2>1, <2>4 DEF EditsAField, HubFields
    <3>2. Value(files, e) = files.hub[e.field]
      BY <2>4, <3>1 DEF Value
    <3> QED
      BY <2>3, <3>1, <3>2
  <2>5. ASSUME NEW e \in Asked, e.section = "devices", e.id \in DOMAIN files.devices
        PROVE  files.devices[e.id][e.field] \in Values(e)
    <3>1. e.verb \in {"set", "unset"} /\ e.field = "egress"
      BY <2>1, <2>5 DEF EditsAField
    <3>2. Value(files, e) = files.devices[e.id][e.field]
      BY <2>5, <3>1 DEF Value
    <3> QED
      BY <2>3, <3>1, <3>2
  <2>6. ASSUME NEW e \in Asked, e.section = "tunnels", e.field = "probe", e.id \in DOMAIN files.tunnels
        PROVE  files.tunnels[e.id].probe \in Values(e)
    <3>1. e.verb \in {"set", "unset"}
      BY <2>1, <2>6 DEF EditsAField
    <3>2. Value(files, e) = files.tunnels[e.id][e.field]
      BY <2>6, <3>1 DEF Value
    <3> QED
      BY <2>3, <2>6, <3>1, <3>2
  <2> QED
    BY <1>1, <2>2, <2>4, <2>5, <2>6
    DEF IsConfiguration, FilesOK, Known, KnownHub, KnownDevices, KnownTunnels
<1>3. SessionsOK
  BY IdleOK DEF Init, SessionsOK
<1>4. LocksOK /\ GateOK /\ HeedOK
  BY NobodyAssumption, IdleLemma
  DEF Init, LocksOK, GateOK, HeedOK, Sessions, Bot, Busy, Saves
<1>5. CountsOK
  BY KeysLemma, BoundsAssumption DEF Init, CountsOK
<1> QED
  BY <1>2, <1>3, <1>4, <1>5 DEF EditorInv

\* The sessions are left alone, and so is everything they are about.
LEMMA StutterStep ==
  ASSUME EditorInv, UNCHANGED vars
  PROVE  EditorInv'
<1>1. /\ session' = session /\ gate' = gate
      /\ UNCHANGED <<files, revoked, configLock, stateLock, made, ops, faults, acked, owed, saved>>
  BY DEF vars, disk, locks, bounds, history
<1>2. SessionsOK' /\ FilesOK' /\ GateOK' /\ CountsOK'
  BY <1>1 DEF EditorInv, SessionsOK, FilesOK, GateOK, CountsOK, Busy, Kind
<1>3. LocksOK'
  <2>1. \A t \in Sessions : Forward(t)' = Forward(t)
    BY <1>1, ForwardLemma
  <2> QED
    BY <1>1, <2>1 DEF EditorInv, LocksOK
<1>4. HeedOK'
  BY <1>1 DEF EditorInv, HeedOK
<1> QED
  BY <1>2, <1>3, <1>4 DEF EditorInv

LEMMA EditorNext == EditorInv /\ [Next]_vars => EditorInv'
<1> SUFFICES ASSUME EditorInv, [Next]_vars PROVE EditorInv'
  OBVIOUS
<1>1. ASSUME NEW s \in Sessions, NEW job \in Jobs[s], Start(s, job)
      PROVE  EditorInv'
  BY <1>1, StartStep
<1>2. ASSUME NEW s \in Sessions, Step(s)
      PROVE  EditorInv'
  <2>1. CASE Claim(s)
    BY <2>1, ClaimStep
  <2>2. CASE ReadFile(s)
    BY <2>2, ReadFileStep
  <2>3. CASE LoadAndValidate(s)
    BY <2>3, LoadStep
  <2>4. CASE Open(s)
    BY <2>4, OpenStep
  <2>5. CASE Rewrite(s)
    BY <2>5, RewriteStep
  <2>6. CASE RewriteFails(s)
    BY <2>6, RewriteFailsStep
  <2>7. CASE NothingToPutBack(s)
    BY <2>7, NothingToPutBackStep
  <2>8. CASE RotateKey(s)
    BY <2>8, RotateKeyStep
  <2>9. CASE StoreKey(s)
    BY <2>9, StoreKeyStep
  <2>10. CASE ReadRevocations(s)
    BY <2>10, ReadRevocationsStep
  <2>11. CASE Send(s)
    BY <2>11, SendStep
  <2>12. CASE OpenList(s)
    BY <2>12, OpenListStep
  <2>13. CASE RewriteList(s)
    BY <2>13, RewriteListStep
  <2>14. CASE Save(s)
    BY <2>14, SaveStep
  <2>15. CASE RewriteFailsLate(s)
    BY <2>15, RewriteFailsLateStep
  <2> QED
    BY <1>2, <2>1, <2>2, <2>3, <2>4, <2>5, <2>6, <2>7, <2>8, <2>9, <2>10, <2>11, <2>12, <2>13, <2>14,
       <2>15
    DEF Step
<1>3. ASSUME NEW process \in {Bot} \cup {{s} : s \in Shells}, Die(process)
      PROVE  EditorInv'
  BY <1>3, DieStep
<1>4. CASE UNCHANGED vars
  BY <1>4, StutterStep
<1> QED
  BY <1>1, <1>2, <1>3, <1>4 DEF Next

\* The revocation list stays within the devices, the counters within their bounds; a lock
\* is held only by a session that has read what it protects, the gate by a session of the
\* bot in the middle of an operation, and the loop and the rotation beside it are busy
\* together only while the loop is at an operation it has not asked the gate for yet.
THEOREM EditorTypeCorrect == Spec => []TypeOK
<1>1. EditorInv => TypeOK
  <2> SUFFICES ASSUME EditorInv PROVE TypeOK
    OBVIOUS
  <2>1. configLock # Nobody => Writing(configLock) /\ session[configLock].copy # <<>>
    <3> SUFFICES ASSUME configLock # Nobody
                 PROVE  Writing(configLock) /\ session[configLock].copy # <<>>
      OBVIOUS
    <3>1. configLock \in Sessions
      BY DEF EditorInv, LocksOK
    <3>2. session[configLock].copy # <<>> /\ Rewrites(session[configLock])
      BY <3>1 DEF EditorInv, LocksOK
    <3>3. JobOK(configLock, session[configLock])
      BY <3>1 DEF EditorInv, SessionsOK, NowOK
    <3> QED
      BY <3>2, <3>3, Positions
  <2>2. stateLock # Nobody => At(stateLock, "list") /\ session[stateLock].copy # <<>>
    <3> SUFFICES ASSUME stateLock # Nobody
                 PROVE  At(stateLock, "list") /\ session[stateLock].copy # <<>>
      OBVIOUS
    <3>1. stateLock \in Sessions
      BY DEF EditorInv, LocksOK
    <3>2. session[stateLock].copy # <<>> /\ Lists(session[stateLock])
      BY <3>1 DEF EditorInv, LocksOK
    <3>3. JobOK(stateLock, session[stateLock])
      BY <3>1 DEF EditorInv, SessionsOK, NowOK
    <3> QED
      BY <3>2, <3>3, Positions
  <2>3. gate # Nobody => gate \in Bot /\ Busy(gate)
    BY DEF EditorInv, GateOK
  <2>4. ~(Busy(Loop) /\ Busy(Spawned) /\ Kind(Loop) # "peek")
    BY SessionsAssumption DEF EditorInv, GateOK
  <2>5. revoked \cup acked \subseteq Devices
    BY DEF EditorInv, HeedOK
  <2>6. DOMAIN files.devices \subseteq Devices
    BY DEF EditorInv, FilesOK, Known, KnownDevices
  <2>7. made \in 0 .. MaxKeys /\ ops \in 0 .. MaxOps /\ faults \in 0 .. MaxFaults
    BY DEF EditorInv, CountsOK
  <2> QED
    BY <2>1, <2>2, <2>3, <2>4, <2>5, <2>6, <2>7 DEF TypeOK
<1> QED
  BY <1>1, EditorInit, EditorNext, PTL DEF Spec

\* A revocation that was reported stays in the list until it is lifted, whoever rewrites
\* the list at the same time, and a deploy begun after the report saves no such device.
THEOREM RevocationsHeeded == Spec => []RevocationHeeded
<1>1. EditorInv => RevocationHeeded
  BY DEF EditorInv, HeedOK, RevocationHeeded
<1> QED
  BY <1>1, EditorInit, EditorNext, PTL DEF Spec

-----------------------------------------------------------------------------
(* The files and the revocation list change as AtomicConfig says.          *)

\* The edits of the abstract specification are those of the detailed one.
LEMMA SameEdits ==
  ASSUME NEW cfg, NEW e
  PROVE  (Atomic!Applies(cfg, e) <=> Applies(cfg, e)) /\ Atomic!Apply(cfg, e) = Apply(cfg, e)
BY DEF Atomic!Applies, Applies, Atomic!Apply, Apply, Atomic!With, With

LEMMA AtomicInit == Init => Atomic!Init
BY DEF Init, Atomic!Init

\* A rewrite of the list is one device revoked or readmitted, or nothing.
LEMMA ListLemma ==
  ASSUME EditorInv, NEW s \in Sessions, RewriteList(s)
  PROVE  [Atomic!Next]_(Atomic!vars)
<1> DEFINE d == Device(s)
<1>1. NowOK(s, session[s]) /\ Lists(session[s]) /\ Busy(s) /\ session[s].copy # <<>>
  BY PositionsLemma, Positions DEF EditorInv, RewriteList, At
<1>2. session[s].copy[1] = revoked
  BY <1>1, HolderLemma
<1>3. d \in Devices
  BY <1>1 DEF Device, Kind, Lists, NowOK, JobOK, Busy, IsJob, Asking
<1>4. UNCHANGED files
  BY DEF RewriteList
<1>5. CASE revoked' = session[s].copy[1] \cup {d}
  <2>1. Atomic!Revoke(d)
    BY <1>2, <1>4, <1>5 DEF Atomic!Revoke
  <2> QED
    BY <1>3, <2>1 DEF Atomic!Next
<1>6. CASE revoked' = session[s].copy[1] \ {d}
  <2>1. Atomic!Readmit(d)
    BY <1>2, <1>4, <1>6 DEF Atomic!Readmit
  <2> QED
    BY <1>3, <2>1 DEF Atomic!Next
<1>7. CASE UNCHANGED revoked
  BY <1>4, <1>7 DEF Atomic!vars
<1> QED
  BY <1>5, <1>6, <1>7 DEF RewriteList, ReplaceList

LEMMA AtomicStep == EditorInv /\ [Next]_vars => [Atomic!Next]_(Atomic!vars)
<1> SUFFICES ASSUME EditorInv, [Next]_vars PROVE [Atomic!Next]_(Atomic!vars)
  OBVIOUS
<1>1. ASSUME NEW s \in Sessions, Replace(s)
      PROVE  Atomic!Next
  <2>1. PICK e \in AllEdits : Applies(files, e) /\ files' = Apply(files, e)
    BY <1>1, RewriteLemma
  <2>2. UNCHANGED revoked
    BY <1>1 DEF Replace
  <2>3. Atomic!Change(e)
    BY <2>1, <2>2, SameEdits DEF Atomic!Change
  <2> QED
    BY <2>3 DEF Atomic!Next
<1>2. ASSUME NEW s \in Sessions, RewriteList(s)
      PROVE  [Atomic!Next]_(Atomic!vars)
  BY <1>2, ListLemma
<1>3. ASSUME NEW s \in Sessions, Step(s), ~Replace(s), ~RewriteList(s)
      PROVE  UNCHANGED <<files, revoked>>
  BY <1>3
  DEF Step, Rewrite, RewriteFailsLate, Claim, ReadFile, LoadAndValidate, Open, RewriteFails, NothingToPutBack, RotateKey,
      StoreKey, ReadRevocations, Send, OpenList, Save, disk
<1>4. ASSUME NEW s \in Sessions, NEW job \in Jobs[s], Start(s, job)
      PROVE  UNCHANGED <<files, revoked>>
  BY <1>4 DEF Start, disk
<1>5. ASSUME NEW process \in {Bot} \cup {{s} : s \in Shells}, Die(process)
      PROVE  UNCHANGED <<files, revoked>>
  BY <1>5 DEF Die, disk
<1>6. CASE UNCHANGED vars
  BY <1>6 DEF vars, disk, Atomic!vars
<1> QED
  BY <1>1, <1>2, <1>3, <1>4, <1>5, <1>6 DEF Next, Atomic!vars

\* However many sessions edit at once, fail and die between their steps, every change of
\* the three files is one whole edit of what the latest one left, and every change of the
\* revocation list one device more or one device less: nothing is lost to a rewrite from
\* a stale copy.
THEOREM EditorImplementsAtomic == Spec => AtomicEdits
BY AtomicInit, AtomicStep, EditorInit, EditorNext, PTL DEF Spec, AtomicEdits, Atomic!Spec

-----------------------------------------------------------------------------
(* Why a profile works when it is sent.  Whoever makes one holds the gate, *)
(* and nobody without the gate changes the hub's section, a device's       *)
(* address or a key; so what the maker has read still stands, and what it  *)
(* has written is what it carries.                                         *)

Sending == {"send", "add", "reissue", "rotate"}
SamePlaces(f, g) == DOMAIN f = DOMAIN g /\ \A d \in DOMAIN f : f[d].address = g[d].address
SameKeys(f, g) == \A d \in DOMAIN f : f[d].key = g[d].key
SameDevices(f, g) == SamePlaces(f, g) /\ SameKeys(f, g)

\* The device it is about; between the writing of a device's key and the next one's;
\* between the storing of it and the next one's.
About(now) == IF now.job.kind = "rotate" THEN Min(now.left) ELSE now.job.device
HasKey(now) ==
  \/ now.job.kind \in {"add", "reissue"} /\ now.pc \in 3 .. 6
  \/ now.job.kind = "rotate" /\ now.pc \in {6, 7}
HasStored(now) ==
  \/ now.job.kind \in {"add", "reissue"} /\ now.pc \in {5, 6}
  \/ now.job.kind = "rotate" /\ now.pc = 7

ReadStands(now, cfg) ==
  /\ now.read # <<>> => now.read[1].hub = cfg.hub
  /\ Len(now.read) = 2 => SameDevices(now.read[2].devices, cfg.devices)
FirstStands(now, cfg) ==
  /\ ~(now.job.kind = "rotate" /\ now.pc = 4) => now.first[1].hub = cfg.hub
  /\ now.job.kind # "add" => SamePlaces(now.first[1].devices, cfg.devices)
  /\ now.job.kind = "send" => SameKeys(now.first[1].devices, cfg.devices)
  /\ now.job.kind \in {"send", "reissue"} => now.job.device \in DOMAIN cfg.devices
  /\ now.job.kind = "rotate" => now.left \subseteq DOMAIN cfg.devices
KeyStands(now, cfg) ==
  /\ About(now) \in DOMAIN cfg.devices /\ cfg.devices[About(now)].key = now.key
  /\ now.job.kind = "add" => cfg.devices[About(now)].address = now.job.edit.address
Stands(now, cfg, keys) ==
  /\ ReadStands(now, cfg)
  /\ now.pc \notin {0, 1} => FirstStands(now, cfg)
  /\ HasKey(now) => KeyStands(now, cfg)
  /\ HasStored(now) => keys[About(now)] = now.key

\* A rotation between its two files.
Between(now) == now.job.kind = "rotate" /\ now.pc = 3
HubKeyOK ==
  /\ cut \/ files.hub.key = hubKey \/ \E s \in Bot : Between(session[s])
  /\ \A s \in Bot : Between(session[s]) => session[s].key = hubKey
PeekOK == \A s \in Bot : session[s].job.kind = "peek" /\ session[s].pc \notin {1, 2} => gate = s
ProfileInv ==
  /\ DOMAIN stored = Devices
  /\ PeekOK /\ HubKeyOK
  /\ \A s \in Bot : session[s].job.kind \in Sending => Stands(session[s], files, stored)

\* A session's kind is one that sends only if it is the bot's and in the middle of it.
LEMMA SenderLemma ==
  ASSUME EditorInv, NEW s \in Sessions, session[s].job.kind \in Sending
  PROVE  s \in Bot /\ Busy(s) /\ gate = s /\ session[s].job \in Jobs[s] /\ IsJob(session[s].job)
<1>1. Busy(s)
  BY IdleLemma DEF Busy, Sending
<1>2. session[s].job \in Jobs[s] /\ IsJob(session[s].job)
  BY <1>1, PositionsLemma DEF EditorInv, JobOK, Busy
<1>3. s \in Bot
  BY <1>2, ShellsAssumption DEF Sessions, Sending
<1> QED
  BY <1>1, <1>2, <1>3 DEF EditorInv, GateOK, Bot, Kind, Sending

\* While it is, no other session of the bot has got past asking for the gate.
LEMMA AloneLemma ==
  ASSUME EditorInv, PeekOK, NEW s \in Bot, NEW t \in Bot, s # t, session[t].job.kind \in Sending
  PROVE  session[s] = Idle \/ (session[s].job.kind = "peek" /\ session[s].pc \in {1, 2})
<1>1. s \in Sessions /\ t \in Sessions
  BY DEF Sessions
<1>2. gate = t
  BY <1>1, SenderLemma
<1>3. CASE Busy(s) /\ session[s].job.kind # "peek"
  BY <1>2, <1>3 DEF EditorInv, GateOK, Bot, Kind
<1>4. CASE Busy(s) /\ session[s].job.kind = "peek"
  BY <1>2, <1>4 DEF PeekOK
<1> QED
  BY <1>3, <1>4 DEF Busy

\* What a step leaves alone, and what it makes of its own session.
OthersStay(s) == \A t \in Sessions \ {s} : session'[t] = session[t] /\ (gate = t => gate' = t)
OwnStands(s) ==
  s \in Bot =>
    /\ session'[s].job.kind = "peek" /\ session'[s].pc \notin {1, 2} => gate' = s
    /\ session'[s].job.kind \in Sending => Stands(session'[s], files', stored')
    /\ Between(session'[s]) => session'[s].key = hubKey'

LEMMA QuietLemma ==
  ASSUME ProfileInv, NEW s \in Sessions, OthersStay(s), OwnStands(s),
         UNCHANGED <<files, stored, hubKey>>, cut => cut',
         s \in Bot /\ Between(session[s]) => cut' \/ Between(session'[s])
  PROVE  ProfileInv'
<1>0. Bot \subseteq Sessions
  BY DEF Sessions
<1>1. \A t \in Bot \ {s} : session'[t] = session[t] /\ (gate = t => gate' = t)
  BY <1>0 DEF OthersStay
<1>2. PeekOK'
  BY <1>1 DEF ProfileInv, PeekOK, OwnStands
<1>3. HubKeyOK'
  <2>1. \A t \in Bot : Between(session'[t]) => session'[t].key = hubKey
    BY <1>1 DEF ProfileInv, HubKeyOK, OwnStands
  <2>2. cut' \/ files.hub.key = hubKey \/ \E t \in Bot : Between(session'[t])
    BY <1>1 DEF ProfileInv, HubKeyOK
  <2> QED
    BY <2>1, <2>2 DEF HubKeyOK
<1>4. \A t \in Bot : session'[t].job.kind \in Sending => Stands(session'[t], files', stored')
  BY <1>1 DEF ProfileInv, OwnStands
<1> QED
  BY <1>2, <1>3, <1>4 DEF ProfileInv

\* A step of the one that sends, or is to: no other session of the bot is in its way.
LEMMA SoleLemma ==
  ASSUME EditorInv, ProfileInv, NEW s \in Bot, Busy(s),
         session[s].job.kind = "peek" => session[s].pc \notin {1, 2},
         OthersStay(s), OwnStands(s), DOMAIN stored' = Devices,
         cut' \/ files'.hub.key = hubKey' \/ Between(session'[s])
  PROVE  ProfileInv'
<1>0. Bot \subseteq Sessions
  BY DEF Sessions
<1>1. \A t \in Bot \ {s} : session'[t] = session[t] /\ (gate = t => gate' = t)
  BY <1>0 DEF OthersStay
<1>2. \A t \in Bot \ {s} : session[t].job.kind \notin Sending
  BY AloneLemma DEF ProfileInv, Busy
<1>3. \A t \in Bot \ {s} : ~Between(session[t])
  BY <1>2 DEF Between, Sending
<1>4. PeekOK'
  BY <1>1 DEF ProfileInv, PeekOK, OwnStands
<1>5. HubKeyOK'
  BY <1>1, <1>3 DEF HubKeyOK, OwnStands
<1> QED
  BY <1>1, <1>2, <1>4, <1>5 DEF ProfileInv, OwnStands

\* An idle session claims nothing.
LEMMA IdleStands ==
  ASSUME NEW s, session'[s] = Idle
  PROVE  OwnStands(s) /\ ~Between(session'[s])
BY IdleLemma DEF OwnStands, Between, Sending

LEMMA EndStands ==
  ASSUME EditorInv, ProfileInv, NEW s \in Sessions, Ends(s),
         UNCHANGED <<files, stored, hubKey>>, cut => cut',
         s \in Bot /\ Between(session[s]) => cut'
  PROVE  ProfileInv'
<1>1. session'[s] = Idle /\ OthersStay(s)
  BY DEF Ends, Moved, OthersStay
<1> QED
  BY <1>1, IdleStands, QuietLemma

\* Where a session goes on.
LEMMA OnwardLemma ==
  ASSUME EditorInv, NEW s \in Sessions, NEW now, DOMAIN now = SessionFields, GoesOn(s, now)
  PROVE  LET next == session'[s]
         IN  /\ next.job = now.job /\ next.read = now.read /\ next.first = now.first
             /\ next.key = now.key /\ next.left = now.left /\ UNCHANGED gate
             /\ next.pc <= Len(Program[Kind(s)])
             /\ IF Kind(s) = "rotate" /\ session[s].pc \in {4, 7}
                THEN next.pc = IF now.left = {} THEN 8 ELSE 5
                ELSE next.pc = session[s].pc + 1
BY DEF GoesOn, Moved, SessionFields

\* A session that is asked for nothing of the kind has nothing to stand by.
LEMMA OtherStands ==
  ASSUME NEW s \in Sessions, session'[s].job.kind \notin Sending,
         session'[s].job.kind = "peek" /\ session'[s].pc \notin {1, 2} => gate' = s
  PROVE  OwnStands(s) /\ ~Between(session'[s])
BY DEF OwnStands, Between, Sending

\* What stands depends on the job, the stage, what was read first, the key and the devices
\* that are left; at the beginning only on what has been read.
LEMMA SameStands ==
  ASSUME NEW now, NEW next, NEW cfg, NEW keys, Stands(now, cfg, keys), ReadStands(next, cfg),
         next.job = now.job, next.pc = now.pc, next.first = now.first, next.key = now.key,
         next.left = now.left
  PROVE  Stands(next, cfg, keys)
BY DEF Stands, FirstStands, HasKey, HasStored, KeyStands, About

LEMMA EarlyStands ==
  ASSUME NEW next, NEW cfg, NEW keys, next.read = <<>>,
         \/ next.pc \in {0, 1}
         \/ next.pc = 2 /\ FirstStands(next, cfg)
  PROVE  Stands(next, cfg, keys)
<1>1. Len(<<>>) # 2
  OBVIOUS
<1> QED
  BY <1>1 DEF Stands, ReadStands, HasKey, HasStored

LEMMA StartProfile ==
  ASSUME EditorInv, ProfileInv, NEW s \in Sessions, NEW job \in Jobs[s], Start(s, job)
  PROVE  ProfileInv'
<1> DEFINE next == [Idle EXCEPT !.job = job]
<1>1. /\ session[s] = Idle /\ session' = [session EXCEPT ![s] = next]
      /\ IF job.kind = "peek" THEN UNCHANGED gate ELSE Admitted(s) /\ gate' = Claimed(s)
      /\ UNCHANGED <<files, stored, hubKey, cut>>
  BY DEF Start, Busy, disk
<1>2. next.job = job /\ next.pc = 1 /\ next.read = <<>>
  BY IdleLemma DEF SessionFields
<1>3. session'[s] = next /\ \A t \in Sessions \ {s} : session'[t] = session[t]
  BY <1>1 DEF EditorInv, SessionsOK
<1> HIDE DEF next
<1>4. OthersStay(s)
  <2>1. \A t \in Sessions : gate = t => gate' = t
    BY <1>1, NobodyAssumption DEF Admitted, Claimed, Sessions, Bot
  <2> QED
    BY <1>3, <2>1 DEF OthersStay
<1>5. Stands(next, files, stored)
  BY <1>2, EarlyStands
<1>6. OwnStands(s)
  BY <1>1, <1>2, <1>3, <1>5 DEF OwnStands, Between
<1>7. ~Between(session[s])
  BY <1>1, IdleLemma DEF Between
<1> QED
  BY <1>1, <1>4, <1>6, <1>7, QuietLemma

LEMMA ClaimProfile ==
  ASSUME EditorInv, ProfileInv, NEW s \in Sessions, Claim(s)
  PROVE  ProfileInv'
<1>1. DOMAIN session[s] = SessionFields /\ Claims(session[s])
  BY PositionsLemma, Positions DEF EditorInv, Claim
<1>2. UNCHANGED <<files, stored, hubKey, cut>> /\ ~Between(session[s])
  BY <1>1 DEF Claim, disk, history, Claims, Between
<1>3. CASE End(s, "busy")
  BY <1>2, <1>3, EndLemma, EndStands DEF EditorInv
<1>4. CASE Admitted(s) /\ gate' = Claimed(s) /\ session' = [session EXCEPT ![s].pc = @ + 1]
  <2>1. /\ session'[s].job = session[s].job
        /\ \A t \in Sessions \ {s} : session'[t] = session[t]
    BY <1>1, <1>4 DEF SessionFields, EditorInv, SessionsOK
  <2>2. OthersStay(s) /\ (s \in Bot => gate' = s)
    BY <1>4, <2>1, NobodyAssumption DEF OthersStay, Admitted, Claimed, Sessions, Bot
  <2>3. OwnStands(s)
    BY <1>1, <2>1, <2>2 DEF OwnStands, Claims, Sending, Between
  <2> QED
    BY <1>2, <2>2, <2>3, QuietLemma
<1> QED
  BY <1>3, <1>4 DEF Claim

LEMMA ReadFileProfile ==
  ASSUME EditorInv, ProfileInv, NEW s \in Sessions, ReadFile(s)
  PROVE  ProfileInv'
<1> DEFINE read == session[s].read
           file == Only(files, Parts[Len(read) + 1])
           next == [session[s] EXCEPT !.read = Append(read, file)]
<1>1. NowOK(s, session[s]) /\ DOMAIN session[s] = SessionFields
  BY PositionsLemma DEF EditorInv
<1>2. /\ session'[s] = next /\ Len(read) < Len(Parts) - 1
      /\ \A t \in Sessions \ {s} : session'[t] = session[t]
      /\ UNCHANGED <<files, stored, hubKey, cut, gate>>
  BY DEF ReadFile, EditorInv, SessionsOK, disk, history
<1>3. /\ next.job = session[s].job /\ next.pc = session[s].pc /\ next.read = Append(read, file)
      /\ next.first = session[s].first /\ next.key = session[s].key /\ next.left = session[s].left
  BY <1>1 DEF SessionFields
<1>4. OthersStay(s) /\ (Between(session'[s]) <=> Between(session[s]))
  BY <1>2, <1>3 DEF OthersStay, Between
<1>5. ASSUME s \in Bot, session[s].job.kind \in Sending
      PROVE  Stands(next, files, stored)
  <2>0. Stands(session[s], files, stored)
    BY <1>5 DEF ProfileInv
  <2>1. Len(Parts) = 3 /\ Parts[1] = {"hub", "acls"} /\ Parts[2] = {"devices"}
    BY DEF Parts
  <2>2. CASE read = <<>>
    <3>1. file.hub = files.hub
      BY <2>1, <2>2 DEF EditorInv, FilesOK, Known, Only
    <3>2. next.read = <<file>>
      BY <1>3, <2>2
    <3>3. next.read[1] = file /\ Len(next.read) = 1
      BY <3>2
    <3>4. ReadStands(next, files)
      BY <3>1, <3>3 DEF ReadStands
    <3> HIDE DEF next
    <3> QED
      BY <1>3, <2>0, <3>4, SameStands
  <2>3. CASE read = <<read[1]>>
    <3>1. Len(read) = 1
      BY <2>3
    <3>2. file.devices = files.devices
      BY <2>1, <3>1 DEF EditorInv, FilesOK, Known, Only
    <3>3. read[1].hub = files.hub
      BY <2>0, <2>3 DEF Stands, ReadStands
    <3> HIDE DEF file, read, next
    <3>4. next.read = <<read[1], file>>
      BY <1>3, <2>3, AppendLemma
    <3>5. next.read[1] = read[1] /\ next.read[2] = file
      BY <3>4
    <3>6. ReadStands(next, files)
      BY <3>2, <3>3, <3>5 DEF ReadStands, SameDevices, SamePlaces, SameKeys
    <3> QED
      BY <1>3, <2>0, <3>6, SameStands
  <2>4. CASE read = <<read[1], read[2]>>
    <3>1. Len(read) = 2
      BY <2>4
    <3> QED
      BY <1>2, <2>1, <3>1
  <2> QED
    BY <1>1, <2>2, <2>3, <2>4 DEF NowOK, ReadOK
<1> HIDE DEF next
<1>6. OwnStands(s)
  BY <1>2, <1>3, <1>4, <1>5 DEF OwnStands, ProfileInv, PeekOK, HubKeyOK
<1> QED
  BY <1>2, <1>4, <1>6, QuietLemma

\* A device's key stays written while its operation goes on.
LEMMA OnStands ==
  ASSUME NEW now, NEW next, NEW cfg, NEW keys, Stands(now, cfg, keys),
         next.job = now.job, next.read = <<>>, next.first = now.first, next.key = now.key,
         next.left = now.left, now.job.kind \in {"add", "reissue"},
         now.pc \in {3, 5} /\ next.pc = now.pc + 1
  PROVE  Stands(next, cfg, keys)
<1>1. Len(<<>>) # 2
  OBVIOUS
<1> QED
  BY <1>1 DEF Stands, ReadStands, FirstStands, HasKey, HasStored, KeyStands, About

\* The rotation between two devices owes nothing to either.
LEMMA RotatingStands ==
  ASSUME NEW next, NEW cfg, NEW keys, next.read = <<>>, next.job.kind = "rotate",
         next.pc \in {2, 3, 4, 5, 8}, FirstStands(next, cfg)
  PROVE  Stands(next, cfg, keys)
<1>1. Len(<<>>) # 2
  OBVIOUS
<1> QED
  BY <1>1 DEF Stands, ReadStands, HasKey, HasStored

LEMMA LoadProfile ==
  ASSUME EditorInv, ProfileInv, NEW s \in Sessions, LoadAndValidate(s)
  PROVE  ProfileInv'
<1> DEFINE read == session[s].read
           cfg == [hub |-> read[1].hub, acls |-> read[1].acls, devices |-> read[2].devices,
                   tunnels |-> files.tunnels]
           now == [session[s] EXCEPT !.read = <<>>]
           known == session[s].job.device \in {Blank} \cup DOMAIN cfg.devices \/ Kind(s) = "add"
           loaded == [now EXCEPT !.first = <<cfg>>, !.left = DOMAIN cfg.devices]
           rotated == [now EXCEPT !.first = <<[@[1] EXCEPT !.hub = cfg.hub]>>]
<1>1. /\ NowOK(s, session[s]) /\ DOMAIN session[s] = SessionFields
      /\ At(s, "load") <=> Loads(session[s])
      /\ At(s, "check") <=> Checks(session[s])
      /\ At(s, "final") <=> Finishes(session[s])
      /\ Loads(session[s]) \/ Checks(session[s]) \/ Finishes(session[s])
  BY PositionsLemma, Positions DEF EditorInv, LoadAndValidate, Reading
<1>2. /\ Kind(s) = session[s].job.kind /\ ~Between(session[s]) /\ session[s].pc # 0
      /\ UNCHANGED <<files, stored, hubKey, cut>> /\ Len(read) = 2
  <2>1. Len(Parts) = 3
    BY DEF Parts
  <2>2. Len(session[s].read) = Len(Parts) - 1
    BY Zenon DEF LoadAndValidate
  <2>3. UNCHANGED <<files, stored, hubKey, cut>>
    BY DEF LoadAndValidate, disk, history
  <2>4. ~Between(session[s]) /\ session[s].pc # 0
    BY <1>1 DEF Between, Loads, Checks, Finishes
  <2> QED
    BY <2>1, <2>2, <2>3, <2>4 DEF Kind
<1>3. /\ DOMAIN now = SessionFields /\ now.job = session[s].job /\ now.pc = session[s].pc
      /\ now.read = <<>> /\ now.left = session[s].left
      /\ now.first = session[s].first /\ now.key = session[s].key
  BY <1>1 DEF SessionFields
<1>4. s \in Bot /\ session[s].job.kind \in Sending =>
        /\ Stands(session[s], files, stored)
        /\ read[1].hub = files.hub /\ SameDevices(read[2].devices, files.devices)
  <2>1. read # <<>>
    <3>1. Len(<<>>) # 2
      OBVIOUS
    <3> QED
      BY <1>2, <3>1
  <2> QED
    BY <1>2, <2>1 DEF ProfileInv, Stands, ReadStands
<1>5. cfg.hub = read[1].hub /\ cfg.devices = read[2].devices
  OBVIOUS
<1> HIDE DEF read, cfg, now
<1>6. ASSUME Ends(s)
      PROVE  ProfileInv'
  BY <1>2, <1>6, EndStands
<1>7. ASSUME StepsBack(s), Checks(session[s])
      PROVE  ProfileInv'
  <2>1. /\ session'[s].pc = 0 /\ session'[s].job = session[s].job /\ session'[s].read = <<>>
        /\ OthersStay(s) /\ UNCHANGED gate
    BY <1>1, <1>7 DEF StepsBack, Moved, SessionFields, OthersStay
  <2>2. Stands(session'[s], files', stored')
    BY <2>1, EarlyStands
  <2>3. OwnStands(s)
    BY <1>7, <2>1, <2>2 DEF OwnStands, Between, Checks, ProfileInv, PeekOK
  <2> QED
    BY <1>2, <2>1, <2>3, QuietLemma
<1>8. ASSUME NEW next, DOMAIN next = SessionFields, next.job = session[s].job, GoesOn(s, next),
             s \in Bot /\ session[s].job.kind \in Sending => Stands(session'[s], files, stored)
      PROVE  ProfileInv'
  <2>1. /\ session'[s].job = session[s].job /\ UNCHANGED gate
        /\ session[s].job.kind # "rotate" => session'[s].pc = session[s].pc + 1
        /\ session[s].job.kind = "rotate" /\ session[s].pc \in {4, 7} => session'[s].pc \in {5, 8}
        /\ session[s].job.kind = "rotate" /\ session[s].pc \notin {4, 7} => session'[s].pc = session[s].pc + 1
    BY <1>2, <1>8, OnwardLemma
  <2>2. OthersStay(s)
    BY <1>8, <2>1 DEF GoesOn, Moved, OthersStay
  <2>3. ~Between(session'[s])
    BY <1>1, <2>1 DEF Between, Loads, Checks, Finishes
  <2>4. session[s].job.kind = "peek" =>
          \/ session[s].pc = 1 /\ session'[s].pc = 2
          \/ session[s].pc = 4
    BY <1>1, <2>1 DEF Loads, Checks, Finishes
  <2>5. OwnStands(s)
    BY <1>2, <1>8, <2>1, <2>3, <2>4 DEF OwnStands, ProfileInv, PeekOK
  <2> QED
    BY <1>2, <2>2, <2>5, QuietLemma
<1>9. ASSUME NEW next, DOMAIN next = SessionFields, next.job = session[s].job, next.pc = session[s].pc,
             Proceed(s, next),
             s \in Bot /\ session[s].job.kind \in Sending /\ GoesOn(s, next) => Stands(session'[s], files, stored)
      PROVE  ProfileInv'
  <2>1. Busy(s)
    BY <1>1, IdleLemma DEF Loads, Checks, Finishes, Busy
  <2>2. Ends(s) \/ GoesOn(s, next)
    BY <1>2, <1>9, <2>1, ProceedLemma DEF EditorInv
  <2> QED
    BY <1>6, <1>8, <1>9, <2>2
<1>10. CASE At(s, "check") /\ TakeBack(s, "invalid")
  BY <1>1, <1>6, <1>7, <1>10, TakeBackLemma DEF EditorInv
<1>11. ASSUME NEW outcome, End(s, outcome)
       PROVE  ProfileInv'
  BY <1>6, <1>11, EndLemma DEF EditorInv
<1>12. CASE Kind(s) = "unprobe" /\ Proceed(s, now)
  <2>1. session[s].job.kind \notin Sending
    BY <1>2, <1>12 DEF Sending
  <2> QED
    BY <1>3, <1>9, <1>12, <2>1
<1>13. CASE At(s, "load") /\ known /\ Proceed(s, loaded)
  <2>1. /\ DOMAIN loaded = SessionFields /\ loaded.job = session[s].job
        /\ loaded.pc = session[s].pc /\ loaded.read = <<>>
        /\ loaded.left = DOMAIN cfg.devices /\ loaded.first = <<cfg>>
    BY <1>3 DEF SessionFields
  <2>2. loaded.first[1] = cfg
    BY <2>1
  <2> HIDE DEF loaded
  <2>3. ASSUME s \in Bot, session[s].job.kind \in Sending, GoesOn(s, loaded)
        PROVE  Stands(session'[s], files, stored)
    <3>1. session[s].pc = 1 /\ session[s].job.kind \in {"send", "add", "reissue", "rotate"}
      BY <1>1, <1>13, <2>3 DEF Loads, Sending
    <3>2. /\ session'[s].pc = 2 /\ session'[s].job = session[s].job /\ session'[s].read = <<>>
          /\ session'[s].first[1] = cfg /\ session'[s].left = DOMAIN cfg.devices
      BY <2>1, <2>2, <2>3, <3>1, OnwardLemma
    <3>3. SameDevices(cfg.devices, files.devices) /\ cfg.hub = files.hub
      BY <1>4, <1>5, <2>3
    <3>4. session[s].job.kind \in {"send", "reissue"} => session[s].job.device \in DOMAIN cfg.devices
      <4>1. IsJob(session[s].job)
        BY <2>3, SenderLemma
      <4> QED
        BY <1>2, <1>13, <4>1, BlankAssumption DEF IsJob, Asking
    <3>5. FirstStands(session'[s], files)
      BY <3>2, <3>3, <3>4 DEF FirstStands, SameDevices, SamePlaces
    <3> QED
      BY <3>2, <3>5, EarlyStands
  <2> QED
    BY <1>9, <1>13, <2>1, <2>3 DEF loaded
<1>14. CASE At(s, "check") /\ Proceed(s, IF Kind(s) = "rotate" THEN rotated ELSE now)
  <2>1. CASE Kind(s) # "rotate"
    <3>1. ASSUME s \in Bot, session[s].job.kind \in Sending, GoesOn(s, now)
          PROVE  Stands(session'[s], files, stored)
      <4>1. session[s].pc = 3 /\ session[s].job.kind \in {"add", "reissue"}
        BY <1>1, <1>2, <1>14, <2>1, <3>1 DEF Checks, Sending
      <4>2. /\ session'[s].pc = 4 /\ session'[s].job = session[s].job /\ session'[s].read = <<>>
            /\ session'[s].first = session[s].first /\ session'[s].left = session[s].left
            /\ session'[s].key = session[s].key
        BY <1>2, <1>3, <3>1, <4>1, OnwardLemma
      <4> QED
        BY <1>4, <3>1, <4>1, <4>2, OnStands
    <3> QED
      BY <1>3, <1>9, <1>14, <2>1, <3>1
  <2>2. CASE Kind(s) = "rotate"
    <3>1. /\ DOMAIN rotated = SessionFields /\ rotated.job = session[s].job
          /\ rotated.pc = session[s].pc /\ rotated.read = <<>> /\ rotated.left = session[s].left
          /\ rotated.first = <<[session[s].first[1] EXCEPT !.hub = cfg.hub]>>
      BY <1>3 DEF SessionFields
    <3>2. rotated.first[1] = [session[s].first[1] EXCEPT !.hub = cfg.hub]
      BY <3>1
    <3> HIDE DEF rotated
    <3>3. ASSUME s \in Bot, session[s].job.kind \in Sending, GoesOn(s, rotated)
          PROVE  Stands(session'[s], files, stored)
      <4>1. session[s].pc = 4 /\ session[s].job.kind = "rotate"
        BY <1>1, <1>2, <1>14, <2>2 DEF Checks
      <4>2. /\ session'[s].pc \in {5, 8} /\ session'[s].job = session[s].job /\ session'[s].read = <<>>
            /\ session'[s].first = rotated.first /\ session'[s].left = session[s].left
        BY <1>2, <3>1, <3>3, <4>1, OnwardLemma
      <4>3. Known(session[s].first[1]) /\ FirstStands(session[s], files)
        BY <1>1, <1>4, <3>3, <4>1 DEF NowOK, FirstOK, Loading, Stands
      <4>4. /\ rotated.first[1].hub = files.hub
            /\ rotated.first[1].devices = session[s].first[1].devices
        BY <1>4, <1>5, <3>2, <3>3, <4>3 DEF Known
      <4>5. FirstStands(session'[s], files)
        BY <4>1, <4>2, <4>3, <4>4 DEF FirstStands
      <4> QED
        BY <4>1, <4>2, <4>5, RotatingStands
    <3> QED
      BY <1>9, <1>14, <2>2, <3>1, <3>3 DEF rotated
  <2> QED
    BY <2>1, <2>2
<1>15. CASE At(s, "final") /\ Proceed(s, now)
  <2>1. ASSUME GoesOn(s, now) PROVE FALSE
    <3>1. session[s].pc = 8 /\ Kind(s) = "rotate"
      BY <1>1, <1>2, <1>15 DEF Finishes
    <3>2. session'[s].pc = 9 /\ session'[s].pc <= Len(Program["rotate"])
      BY <1>3, <2>1, <3>1, OnwardLemma
    <3>3. Len(Program["rotate"]) = 8
      BY DEF Program
    <3> QED
      BY <3>2, <3>3
  <2> QED
    BY <1>3, <1>9, <1>15, <2>1
<1> QED
  BY <1>10, <1>11, <1>12, <1>13, <1>14, <1>15 DEF LoadAndValidate, cfg, now, read

\* A step that leaves a session's job, stage, key and what it read first.
LEMMA StillStands ==
  ASSUME EditorInv, ProfileInv, NEW s \in Sessions, OthersStay(s), UNCHANGED gate,
         session[s].read = <<>>, session'[s].read = <<>>,
         session'[s].job = session[s].job, session'[s].pc = session[s].pc,
         session'[s].first = session[s].first, session'[s].left = session[s].left,
         session'[s].key = session[s].key \/ ~(HasKey(session[s]) \/ Between(session[s])),
         UNCHANGED <<files, stored, hubKey, cut>>
  PROVE  ProfileInv'
<1>1. ASSUME s \in Bot, session[s].job.kind \in Sending
      PROVE  Stands(session'[s], files, stored)
  <2>1. Stands(session[s], files, stored) /\ Len(<<>>) # 2
    BY <1>1 DEF ProfileInv
  <2>2. HasStored(session[s]) => HasKey(session[s])
    BY DEF HasStored, HasKey
  <2> QED
    BY <2>1, <2>2 DEF Stands, ReadStands, FirstStands, HasKey, HasStored, KeyStands, About
<1>2. Between(session'[s]) <=> Between(session[s])
  BY DEF Between
<1>3. s \in Bot /\ Between(session[s]) => session'[s].key = hubKey
  BY DEF ProfileInv, HubKeyOK
<1>4. OwnStands(s)
  BY <1>1, <1>2, <1>3 DEF OwnStands, ProfileInv, PeekOK
<1> QED
  BY <1>2, <1>4, QuietLemma

LEMMA OpenProfile ==
  ASSUME EditorInv, ProfileInv, NEW s \in Sessions, Open(s)
  PROVE  ProfileInv'
<1> DEFINE next == Opened(s)
<1>1. NowOK(s, session[s]) /\ DOMAIN session[s] = SessionFields /\ Rewrites(session[s])
      /\ (Generating(s) <=> Carries(session[s]))
  BY PositionsLemma, Positions DEF EditorInv, Open
<1>2. /\ session'[s] = next /\ \A t \in Sessions \ {s} : session'[t] = session[t]
      /\ UNCHANGED <<files, stored, hubKey, cut, gate>>
  BY DEF Open, EditorInv, SessionsOK, disk, history
<1>3. /\ next.job = session[s].job /\ next.pc = session[s].pc /\ next.read = session[s].read
      /\ next.first = session[s].first /\ next.left = session[s].left
      /\ ~Generating(s) => next.key = session[s].key
  BY <1>1 DEF Opened, SessionFields
<1> HIDE DEF next
<1>4. session[s].read = <<>>
  BY <1>1 DEF NowOK, ReadOK, Rewrites, Writes, Rekeys, Restores, Loads, Checks, Finishes
<1>5. Carries(session[s]) => ~(HasKey(session[s]) \/ Between(session[s]))
  BY DEF Carries, Rekeys, Writes, HasKey, Between
<1>6. OthersStay(s)
  BY <1>2 DEF OthersStay
<1> QED
  BY <1>1, <1>2, <1>3, <1>4, <1>5, <1>6, StillStands

LEMMA RewriteFailsProfile ==
  ASSUME EditorInv, ProfileInv, NEW s \in Sessions, RewriteFails(s)
  PROVE  ProfileInv'
<1>1. JobOK(s, session[s])
  BY PositionsLemma DEF EditorInv
<1>2. Ends(s)
  BY EndLemma DEF RewriteFails, EditorInv
<1>3. UNCHANGED <<files, stored, hubKey>> /\ cut' = (cut \/ Rotating(s))
  BY DEF RewriteFails, disk
<1>4. Between(session[s]) => cut'
  BY <1>1, <1>3, Positions DEF Rotating, Between, Writes, Kind
<1> QED
  BY <1>2, <1>3, <1>4, EndStands

LEMMA NothingToPutBackProfile ==
  ASSUME EditorInv, ProfileInv, NEW s \in Sessions, NothingToPutBack(s)
  PROVE  ProfileInv'
<1>1. Ends(s)
  BY EndLemma DEF NothingToPutBack, EditorInv
<1>2. ~Between(session[s]) /\ UNCHANGED <<files, stored, hubKey, cut>>
  BY DEF NothingToPutBack, Undoing, Kind, Between, disk, history
<1> QED
  BY <1>1, <1>2, EndStands

\* How a session that is past its first stage takes its next step.
LEMMA AfterLemma ==
  ASSUME EditorInv, NEW s \in Sessions, Busy(s), session[s].pc # 0,
         NEW now, DOMAIN now = SessionFields, now.job = session[s].job, now.pc = session[s].pc,
         now.read = session[s].read, now.first = session[s].first,
         Proceed(s, now), session[s].job.kind \notin {"peek"}
  PROVE  \/ Ends(s)
         \/ /\ OthersStay(s) /\ UNCHANGED gate
            /\ session'[s].job = session[s].job /\ session'[s].read = session[s].read
            /\ session'[s].first = session[s].first
            /\ session'[s].key = now.key /\ session'[s].left = now.left
            /\ session'[s].pc <= Len(Program[session[s].job.kind])
            /\ IF session[s].job.kind = "rotate" /\ session[s].pc \in {4, 7}
               THEN session'[s].pc = IF now.left = {} THEN 8 ELSE 5
               ELSE session'[s].pc = session[s].pc + 1
<1>1. Ends(s) \/ GoesOn(s, now)
  BY ProceedLemma DEF EditorInv
<1>2. CASE GoesOn(s, now)
  <2>1. OthersStay(s)
    BY <1>2 DEF GoesOn, Moved, OthersStay
  <2> QED
    BY <1>2, <2>1, OnwardLemma DEF Kind
<1> QED
  BY <1>1, <1>2

LEMMA RotateKeyProfile ==
  ASSUME EditorInv, ProfileInv, NEW s \in Sessions, RotateKey(s)
  PROVE  ProfileInv'
<1>1. /\ session[s].pc = 2 /\ session[s].job.kind = "rotate" /\ Busy(s)
      /\ NowOK(s, session[s]) /\ DOMAIN session[s] = SessionFields
  BY PositionsLemma, Positions DEF EditorInv, RotateKey, At
<1>2. session[s].read = <<>> /\ UNCHANGED <<files, stored>> /\ ~Between(session[s])
  <2>1. UNCHANGED <<files, stored>>
    BY DEF RotateKey
  <2> QED
    BY <1>1, <2>1 DEF NowOK, ReadOK, Loads, Checks, Finishes, Between
<1>3. CASE End(s, "nothing changed") /\ UNCHANGED <<hubKey, cut>>
  <2>1. Ends(s)
    BY <1>3, EndLemma DEF EditorInv
  <2> QED
    BY <1>2, <1>3, <2>1, EndStands
<1>4. CASE hubKey' = made' /\ Proceed(s, [session[s] EXCEPT !.key = made'])
  <2> DEFINE now == [session[s] EXCEPT !.key = made']
  <2>1. /\ DOMAIN now = SessionFields /\ now.job = session[s].job /\ now.pc = session[s].pc
        /\ now.read = session[s].read /\ now.left = session[s].left
        /\ now.first = session[s].first /\ now.key = made'
    BY <1>1 DEF SessionFields
  <2>0. Proceed(s, now)
    BY <1>4
  <2> HIDE DEF now
  <2>2. ~Ends(s)
    <3>1. Len(Program["rotate"]) = 8 /\ Program["rotate"][2] = "rotate"
      BY DEF Program
    <3>2. session' = [session EXCEPT ![s] = [now EXCEPT !.pc = 3]]
      <4>1. Kind(s) = "rotate" /\ now.pc = 2
        BY <1>1, <2>1 DEF Kind
      <4>2. Program[Kind(s)][now.pc] \notin {"check", "send"} /\ ~(now.pc + 1 > Len(Program[Kind(s)]))
            /\ now.pc + 1 = 3
        <5>1. Program[Kind(s)][now.pc] = "rotate" /\ Len(Program[Kind(s)]) = 8
          BY <3>1, <4>1, Zenon
        <5> QED
          BY <4>1, <5>1
      <4> QED
        BY <2>0, <4>2 DEF Proceed
    <3>3. session'[s].pc = 3
      BY <2>1, <3>2 DEF EditorInv, SessionsOK, SessionFields
    <3> QED
      BY <3>3, IdleLemma DEF Ends, Moved
  <2>3. /\ OthersStay(s) /\ session'[s].job = session[s].job /\ session'[s].read = <<>>
        /\ session'[s].first = session[s].first /\ session'[s].left = session[s].left
        /\ session'[s].key = hubKey' /\ session'[s].pc = 3
    <3>1. session[s].pc # 0 /\ session[s].job.kind \notin {"peek"} /\ hubKey' = made'
      BY <1>1, <1>4
    <3> QED
      BY <1>1, <1>2, <2>0, <2>1, <2>2, <3>1, AfterLemma
  <2>4. s \in Bot
    BY <1>1, SenderLemma DEF Sending
  <2>5. FirstStands(session[s], files)
    BY <1>1, <2>4 DEF ProfileInv, Stands, Sending
  <2>6. FirstStands(session'[s], files)
    BY <1>1, <2>3, <2>5 DEF FirstStands
  <2>7. Stands(session'[s], files', stored')
    BY <1>1, <1>2, <2>3, <2>6, RotatingStands
  <2>8. OwnStands(s) /\ Between(session'[s]) /\ DOMAIN stored' = Devices
    BY <1>1, <1>2, <2>3, <2>7 DEF OwnStands, Between, ProfileInv
  <2> QED
    BY <1>1, <2>3, <2>4, <2>8, SoleLemma
<1>5. CASE End(s, "nothing changed") /\ cut' = TRUE
  <2>1. Ends(s) /\ s \in Bot
    BY <1>1, <1>5, EndLemma, SenderLemma DEF EditorInv, Sending
  <2>2. OthersStay(s) /\ OwnStands(s)
    BY <2>1, IdleStands DEF Ends, Moved, OthersStay
  <2> QED
    BY <1>1, <1>2, <1>5, <2>1, <2>2, SoleLemma DEF ProfileInv
<1> QED
  BY <1>3, <1>4, <1>5 DEF RotateKey

LEMMA StoreKeyProfile ==
  ASSUME EditorInv, ProfileInv, NEW s \in Sessions, StoreKey(s)
  PROVE  ProfileInv'
<1>1. /\ Busy(s) /\ NowOK(s, session[s]) /\ DOMAIN session[s] = SessionFields
      /\ \/ session[s].pc = 4 /\ session[s].job.kind \in {"add", "reissue"}
         \/ session[s].pc = 6 /\ session[s].job.kind = "rotate"
  BY PositionsLemma, Positions DEF EditorInv, StoreKey, At
<1>2. session[s].read = <<>> /\ ~Between(session[s])
  BY <1>1 DEF NowOK, ReadOK, Loads, Checks, Finishes, Between
<1>3. UNCHANGED <<files, hubKey, cut>>
  BY DEF StoreKey, history
<1>4. s \in Bot
  BY <1>1, SenderLemma DEF Sending
<1>5. Stands(session[s], files, stored)
  BY <1>1, <1>4 DEF ProfileInv, Sending
<1>6. CASE stored' = [stored EXCEPT ![Device(s)] = session[s].key] /\ Proceed(s, session[s])
  <2>1. Device(s) = About(session[s])
    BY DEF Device, About, Kind
  <2>2. About(session[s]) \in Devices
    <3>1. CASE session[s].job.kind = "rotate"
      <4>1. session[s].left \subseteq Devices /\ session[s].left # {}
        BY <1>1, <3>1 DEF NowOK, LeftOK
      <4> QED
        BY <3>1, <4>1, MinLemma DEF About
    <3>2. CASE session[s].job.kind # "rotate"
      <4>1. IsJob(session[s].job)
        BY <1>1, SenderLemma DEF Sending
      <4> QED
        BY <1>1, <3>2, <4>1 DEF About, IsJob, Asking
    <3> QED
      BY <3>1, <3>2
  <2>3. DOMAIN stored' = Devices /\ stored'[About(session[s])] = session[s].key
    BY <1>6, <2>1, <2>2 DEF ProfileInv
  <2>4. Ends(s) \/
        /\ OthersStay(s) /\ session'[s].job = session[s].job /\ session'[s].read = <<>>
        /\ session'[s].first = session[s].first /\ session'[s].left = session[s].left
        /\ session'[s].key = session[s].key /\ session'[s].pc = session[s].pc + 1
    BY <1>1, <1>2, <1>6, AfterLemma
  <2>5. OthersStay(s) /\ OwnStands(s)
    <3>1. CASE Ends(s)
      BY <3>1, IdleStands DEF Ends, Moved, OthersStay
    <3>2. CASE ~Ends(s)
      <4>1. HasKey(session[s]) /\ FirstStands(session[s], files) /\ KeyStands(session[s], files)
        BY <1>1, <1>5 DEF HasKey, Stands
      <4>2. About(session'[s]) = About(session[s])
        BY <2>4, <3>2 DEF About
      <4>3. FirstStands(session'[s], files) /\ KeyStands(session'[s], files)
        BY <1>1, <2>4, <3>2, <4>1, <4>2 DEF FirstStands, KeyStands
      <4>4. Len(<<>>) # 2
        OBVIOUS
      <4>5. Stands(session'[s], files', stored')
        BY <1>3, <2>3, <2>4, <3>2, <4>2, <4>3, <4>4 DEF Stands, ReadStands
      <4> QED
        BY <1>1, <2>4, <3>2, <4>5 DEF OwnStands, Between
    <3> QED
      BY <3>1, <3>2
  <2>6. cut' \/ files'.hub.key = hubKey' \/ Between(session'[s])
    <3>1. \A t \in Bot \ {s} : ~Between(session[t])
      BY <1>1, <1>4, AloneLemma DEF ProfileInv, Busy, Between, Sending
    <3> QED
      BY <1>2, <1>3, <3>1 DEF ProfileInv, HubKeyOK
  <2> QED
    BY <1>1, <1>4, <2>3, <2>5, <2>6, SoleLemma
<1>7. CASE TakeBack(s, "interrupted") /\ stored' \in {stored, [stored EXCEPT ![Device(s)] = session[s].key]}
  <2>1. OthersStay(s) /\ OwnStands(s)
    <3>1. CASE Ends(s)
      BY <3>1, IdleStands DEF Ends, Moved, OthersStay
    <3>2. CASE StepsBack(s)
      <4>1. /\ session'[s].pc = 0 /\ session'[s].job = session[s].job /\ session'[s].read = <<>>
            /\ OthersStay(s)
        BY <1>1, <3>2 DEF StepsBack, Moved, SessionFields, OthersStay
      <4>2. Stands(session'[s], files', stored')
        BY <4>1, EarlyStands
      <4> QED
        BY <1>1, <4>1, <4>2 DEF OwnStands, Between
    <3> QED
      BY <1>7, <3>1, <3>2, TakeBackLemma DEF EditorInv
  <2>2. DOMAIN stored' = Devices
    BY <1>7 DEF ProfileInv
  <2>3. cut' \/ files'.hub.key = hubKey' \/ Between(session'[s])
    <3>1. \A t \in Bot \ {s} : ~Between(session[t])
      BY <1>1, <1>4, AloneLemma DEF ProfileInv, Busy, Between, Sending
    <3> QED
      BY <1>2, <1>3, <3>1 DEF ProfileInv, HubKeyOK
  <2> QED
    BY <1>1, <1>4, <2>1, <2>2, <2>3, SoleLemma
<1> QED
  BY <1>6, <1>7 DEF StoreKey

LEMMA ReadRevocationsProfile ==
  ASSUME EditorInv, ProfileInv, NEW s \in Sessions, ReadRevocations(s)
  PROVE  ProfileInv'
<1> DEFINE now == [session[s] EXCEPT !.list = revoked]
<1>1. /\ Busy(s) /\ NowOK(s, session[s]) /\ DOMAIN session[s] = SessionFields
      /\ session[s].pc = 2 /\ session[s].job.kind \in {"deploy", "send"}
  BY PositionsLemma, Positions DEF EditorInv, ReadRevocations, At
<1>2. session[s].read = <<>> /\ ~Between(session[s]) /\ UNCHANGED <<files, stored, hubKey, cut>>
  <2>1. UNCHANGED <<files, stored, hubKey, cut>>
    BY DEF ReadRevocations, disk, history
  <2> QED
    BY <1>1, <2>1 DEF NowOK, ReadOK, Loads, Checks, Finishes, Between
<1>3. CASE Ends(s)
  BY <1>2, <1>3, EndStands
<1>4. CASE Proceed(s, now)
  <2>1. /\ DOMAIN now = SessionFields /\ now.job = session[s].job /\ now.pc = session[s].pc
        /\ now.read = session[s].read /\ now.left = session[s].left
        /\ now.first = session[s].first /\ now.key = session[s].key
    BY <1>1 DEF SessionFields
  <2> HIDE DEF now
  <2>2. Ends(s) \/
        /\ OthersStay(s) /\ session'[s].job = session[s].job /\ session'[s].read = <<>>
        /\ session'[s].first = session[s].first /\ session'[s].left = session[s].left
        /\ session'[s].pc = 3
    BY <1>1, <1>2, <1>4, <2>1, AfterLemma
  <2>3. CASE ~Ends(s)
    <3>1. ASSUME s \in Bot, session[s].job.kind = "send"
          PROVE  Stands(session'[s], files, stored)
      <4>1. FirstStands(session[s], files)
        BY <1>1, <3>1 DEF ProfileInv, Stands, Sending
      <4>2. FirstStands(session'[s], files)
        BY <2>2, <2>3, <3>1, <4>1 DEF FirstStands
      <4>3. Len(<<>>) # 2
        OBVIOUS
      <4> QED
        BY <2>2, <2>3, <3>1, <4>2, <4>3 DEF Stands, ReadStands, HasKey, HasStored
    <3>2. OwnStands(s)
      BY <1>1, <1>2, <2>2, <2>3, <3>1 DEF OwnStands, Between, Sending
    <3> QED
      BY <1>2, <2>2, <2>3, <3>2, QuietLemma
  <2> QED
    BY <1>3, <2>3
<1> QED
  BY <1>3, <1>4, EndLemma DEF ReadRevocations, EditorInv

LEMMA SendProfile ==
  ASSUME EditorInv, ProfileInv, NEW s \in Sessions, Send(s)
  PROVE  ProfileInv'
<1> DEFINE now == [session[s] EXCEPT !.left = @ \ {Device(s)}]
<1>1. /\ Busy(s) /\ NowOK(s, session[s]) /\ DOMAIN session[s] = SessionFields
      /\ \/ session[s].pc = 3 /\ session[s].job.kind = "send"
         \/ session[s].pc = 5 /\ session[s].job.kind = "add"
         \/ session[s].pc = 6 /\ session[s].job.kind = "reissue"
         \/ session[s].pc = 7 /\ session[s].job.kind = "rotate"
  BY PositionsLemma, Positions DEF EditorInv, Send, At
<1>2. session[s].read = <<>> /\ ~Between(session[s]) /\ UNCHANGED <<files, stored, hubKey, cut>>
  <2>1. UNCHANGED <<files, stored, hubKey, cut>>
    BY DEF Send, disk
  <2> QED
    BY <1>1, <2>1 DEF NowOK, ReadOK, Loads, Checks, Finishes, Between
<1>3. CASE Ends(s)
  BY <1>2, <1>3, EndStands
<1>4. CASE Proceed(s, now)
  <2>1. /\ DOMAIN now = SessionFields /\ now.job = session[s].job /\ now.pc = session[s].pc
        /\ now.read = session[s].read /\ now.left \subseteq session[s].left
        /\ now.first = session[s].first
    BY <1>1 DEF SessionFields
  <2> HIDE DEF now
  <2>2. CASE session[s].job.kind = "rotate" /\ ~Ends(s)
    <3>1. /\ OthersStay(s) /\ session'[s].job = session[s].job /\ session'[s].read = <<>>
          /\ session'[s].first = session[s].first /\ session'[s].left \subseteq session[s].left
          /\ session'[s].pc \in {5, 8}
      BY <1>1, <1>2, <1>4, <2>1, <2>2, AfterLemma
    <3>2. s \in Bot
      BY <1>1, SenderLemma DEF Sending
    <3>3. FirstStands(session[s], files)
      BY <1>1, <3>2 DEF ProfileInv, Stands, Sending
    <3>4. FirstStands(session'[s], files)
      BY <1>1, <2>2, <3>1, <3>3 DEF FirstStands
    <3>5. Stands(session'[s], files, stored)
      BY <2>2, <3>1, <3>4, RotatingStands
    <3>6. OwnStands(s)
      BY <1>2, <2>2, <3>1, <3>5 DEF OwnStands, Between
    <3> QED
      BY <1>2, <3>1, <3>6, QuietLemma
  <2>3. CASE session[s].job.kind # "rotate"
    <3>1. Len(Program["send"]) = 3 /\ Len(Program["add"]) = 5 /\ Len(Program["reissue"]) = 6
      BY DEF Program
    <3>2. Ends(s) \/ (/\ session'[s].pc <= Len(Program[session[s].job.kind])
                      /\ session'[s].pc = session[s].pc + 1)
      BY <1>1, <1>4, <2>1, <2>3, AfterLemma
    <3>3. session[s].pc + 1 > Len(Program[session[s].job.kind])
      <4>1. CASE session[s].job.kind = "send"
        <5>1. Len(Program[session[s].job.kind]) = 3
          BY <3>1, <4>1, Zenon
        <5> QED
          BY <1>1, <4>1, <5>1
      <4>2. CASE session[s].job.kind = "add"
        <5>1. Len(Program[session[s].job.kind]) = 5
          BY <3>1, <4>2, Zenon
        <5> QED
          BY <1>1, <4>2, <5>1
      <4>3. CASE session[s].job.kind = "reissue"
        <5>1. Len(Program[session[s].job.kind]) = 6
          BY <3>1, <4>3, Zenon
        <5> QED
          BY <1>1, <4>3, <5>1
      <4> QED
        BY <1>1, <2>3, <4>1, <4>2, <4>3
    <3>4. CASE ~Ends(s)
      <4>1. session[s].pc \in Nat /\ Len(Program[session[s].job.kind]) \in Nat
        <5>1. session[s].job.kind \in DOMAIN Program
          BY <1>1 DEF Program
        <5> QED
          BY <1>1, <5>1, Stages
      <4> QED
        BY <3>2, <3>3, <3>4, <4>1
    <3> QED
      BY <1>3, <3>4
  <2> QED
    BY <1>3, <2>2, <2>3
<1> QED
  BY <1>3, <1>4, EndLemma DEF Send, EditorInv

LEMMA OpenListProfile ==
  ASSUME EditorInv, ProfileInv, NEW s \in Sessions, OpenList(s)
  PROVE  ProfileInv'
<1> DEFINE next == [session[s] EXCEPT !.copy = <<revoked>>]
<1>1. NowOK(s, session[s]) /\ DOMAIN session[s] = SessionFields /\ Lists(session[s])
  BY PositionsLemma, Positions DEF EditorInv, OpenList
<1>2. /\ session'[s] = next /\ \A t \in Sessions \ {s} : session'[t] = session[t]
      /\ UNCHANGED <<files, stored, hubKey, cut, gate>>
  BY DEF OpenList, EditorInv, SessionsOK, disk, history
<1>3. /\ next.job = session[s].job /\ next.pc = session[s].pc /\ next.read = session[s].read
      /\ next.first = session[s].first /\ next.left = session[s].left /\ next.key = session[s].key
  BY <1>1 DEF SessionFields
<1> HIDE DEF next
<1>4. session[s].read = <<>>
  BY <1>1 DEF NowOK, ReadOK, Lists, Loads, Checks, Finishes
<1>5. OthersStay(s)
  BY <1>2 DEF OthersStay
<1> QED
  BY <1>2, <1>3, <1>4, <1>5, StillStands

LEMMA RewriteListProfile ==
  ASSUME EditorInv, ProfileInv, NEW s \in Sessions, RewriteList(s)
  PROVE  ProfileInv'
<1> DEFINE now == [session[s] EXCEPT !.copy = <<>>]
<1>1. /\ NowOK(s, session[s]) /\ DOMAIN session[s] = SessionFields /\ Lists(session[s])
      /\ Busy(s) /\ session[s].pc # 0 /\ session[s].job.kind \notin {"peek"}
  BY PositionsLemma, Positions DEF EditorInv, RewriteList, At, Lists
<1>2. session[s].read = <<>> /\ ~Between(session[s]) /\ UNCHANGED <<files, stored, hubKey, cut>>
  <2>1. UNCHANGED <<files, stored, hubKey, cut>>
    BY DEF RewriteList
  <2> QED
    BY <1>1, <2>1 DEF NowOK, ReadOK, Lists, Loads, Checks, Finishes, Between
<1>3. CASE Ends(s)
  BY <1>2, <1>3, EndStands
<1>4. CASE Proceed(s, now)
  <2>1. /\ DOMAIN now = SessionFields /\ now.job = session[s].job /\ now.pc = session[s].pc
        /\ now.read = session[s].read /\ now.left = session[s].left
        /\ now.first = session[s].first /\ now.key = session[s].key
    BY <1>1 DEF SessionFields
  <2> HIDE DEF now
  <2>2. Ends(s) \/
        /\ OthersStay(s) /\ session'[s].job = session[s].job /\ session'[s].read = <<>>
        /\ session'[s].first = session[s].first /\ session'[s].left = session[s].left
        /\ session'[s].key = session[s].key /\ session'[s].pc = session[s].pc + 1
    BY <1>1, <1>2, <1>4, <2>1, AfterLemma DEF Lists
  <2>3. CASE ~Ends(s)
    <3>1. ASSUME s \in Bot, session[s].job.kind \in Sending
          PROVE  Stands(session'[s], files, stored)
      <4>1. session[s].job.kind = "reissue" /\ session[s].pc = 5
        BY <1>1, <3>1 DEF Lists, Sending
      <4>2. Stands(session[s], files, stored)
        BY <3>1 DEF ProfileInv
      <4> QED
        BY <2>2, <2>3, <4>1, <4>2, OnStands
    <3>2. OwnStands(s)
      BY <1>1, <1>2, <2>2, <2>3, <3>1 DEF OwnStands, Between, Lists
    <3> QED
      BY <1>2, <2>2, <2>3, <3>2, QuietLemma
  <2> QED
    BY <1>3, <2>3
<1> QED
  BY <1>3, <1>4, EndLemma DEF RewriteList, EditorInv

LEMMA SaveProfile ==
  ASSUME EditorInv, ProfileInv, NEW s \in Sessions, Save(s)
  PROVE  ProfileInv'
<1>1. DOMAIN session[s] = SessionFields /\ Saves(session[s]) /\ Busy(s)
  BY PositionsLemma, Positions DEF EditorInv, Save, At
<1>2. ~Between(session[s]) /\ UNCHANGED <<files, stored, hubKey, cut>>
  <2>1. UNCHANGED <<files, stored, hubKey, cut>>
    BY DEF Save, disk
  <2> QED
    BY <1>1, <2>1 DEF Saves, Between
<1>3. CASE Ends(s)
  BY <1>2, <1>3, EndStands
<1>4. CASE Proceed(s, session[s])
  <2>1. Ends(s)
    <3>1. Len(Program["deploy"]) = 3
      BY DEF Program
    <3>2. session[s].pc = 3 /\ session[s].job.kind = "deploy"
      BY <1>1 DEF Saves
    <3>3. Ends(s) \/ (/\ session'[s].pc <= Len(Program[session[s].job.kind])
                      /\ session'[s].pc = session[s].pc + 1)
      BY <1>1, <1>4, <3>2, AfterLemma
    <3>4. Len(Program[session[s].job.kind]) = 3
      BY <3>1, <3>2, Zenon
    <3> QED
      BY <3>2, <3>3, <3>4
  <2> QED
    BY <1>3, <2>1
<1> QED
  BY <1>3, <1>4, EndLemma DEF Save, EditorInv

LEMMA DieProfile ==
  ASSUME EditorInv, ProfileInv, NEW process \in {Bot} \cup {{s} : s \in Shells}, Die(process)
  PROVE  ProfileInv'
<1>1. /\ \A t \in Sessions : session'[t] = IF t \in process THEN Idle ELSE session[t]
      /\ gate' = IF gate \in process THEN Nobody ELSE gate
      /\ UNCHANGED <<files, stored, hubKey>>
      /\ cut' = (cut \/ \E s \in process : Rotating(s))
  BY DEF Die, disk
<1>2. Bot \subseteq Sessions /\ process \subseteq Sessions
  BY DEF Sessions
<1>3. CASE process = Bot
  <2>1. \A t \in Bot : session'[t] = Idle
    BY <1>1, <1>2, <1>3
  <2>2. \A t \in Bot : Between(session[t]) => cut'
    <3> SUFFICES ASSUME NEW t \in Bot, Between(session[t]) PROVE cut'
      OBVIOUS
    <3>1. Rotating(t)
      BY <1>2, PositionsLemma, Positions DEF EditorInv, Rotating, Between, Writes, Kind
    <3> QED
      BY <1>1, <1>3, <3>1
  <2> QED
    BY <1>1, <2>1, <2>2, IdleLemma DEF ProfileInv, PeekOK, HubKeyOK, Between, Sending
<1>4. CASE process # Bot
  <2>1. \A t \in Bot : t \notin process
    BY <1>4, SessionsAssumption DEF Bot
  <2>2. \A t \in Bot : session'[t] = session[t] /\ (gate = t => gate' = t)
    BY <1>1, <1>2, <2>1
  <2>3. PeekOK'
    BY <2>2 DEF ProfileInv, PeekOK
  <2>4. HubKeyOK'
    BY <1>1, <2>2 DEF ProfileInv, HubKeyOK
  <2> QED
    BY <1>1, <2>2, <2>3, <2>4 DEF ProfileInv
<1> QED
  BY <1>3, <1>4

-----------------------------------------------------------------------------
(* The rewrites, whatever is reported of them.                             *)

Replaces(s) == Rewrite(s) \/ RewriteFailsLate(s)

\* An edit leaves the other sections as they are.
LEMMA ApplyElsewhere ==
  ASSUME NEW cfg, DOMAIN cfg = {"hub", "devices", "tunnels", "acls"}, NEW e, Shaped(e)
  PROVE  \A other \in DOMAIN cfg \ {e.section} : Apply(cfg, e)[other] = cfg[other]
<1>1. ASSUME NEW part \in DOMAIN cfg, NEW X, Apply(cfg, e) = [cfg EXCEPT ![part] = X]
      PROVE  \A other \in DOMAIN cfg \ {part} : Apply(cfg, e)[other] = cfg[other]
  BY <1>1
<1>2. CASE OfHub(e)
  <2> DEFINE X == [cfg.hub EXCEPT ![e.field] = e.value]
  <2>1. Apply(cfg, e) = [cfg EXCEPT !["hub"] = X]
    BY <1>2, ApplyByCase
  <2> HIDE DEF X
  <2> QED
    BY <1>1, <1>2, <2>1 DEF OfHub
<1>4. CASE OfDevice(e)
  <2> DEFINE X == [cfg.devices EXCEPT ![e.id][e.field] = e.value]
  <2>1. Apply(cfg, e) = [cfg EXCEPT !["devices"] = X]
    BY <1>4, ApplyByCase
  <2> HIDE DEF X
  <2> QED
    BY <1>1, <1>4, <2>1 DEF OfDevice
<1>5. CASE Adds(e)
  <2> DEFINE X == With(cfg.devices, e.id, e.value)
  <2>1. Apply(cfg, e) = [cfg EXCEPT !["devices"] = X]
    BY <1>5, ApplyByCase
  <2> HIDE DEF X
  <2> QED
    BY <1>1, <1>5, <2>1 DEF Adds
<1>6. CASE Removes(e)
  <2> DEFINE X == Only(cfg.devices, DOMAIN cfg.devices \ {e.id})
  <2>1. Apply(cfg, e) = [cfg EXCEPT !["devices"] = X]
    BY <1>6, ApplyByCase
  <2> HIDE DEF X
  <2> QED
    BY <1>1, <1>6, <2>1 DEF Removes
<1>7. CASE OfRules(e)
  <2> DEFINE X == IF e.verb = "add" THEN cfg.acls \cup {e.value} ELSE cfg.acls \ {e.value}
  <2>1. Apply(cfg, e) = [cfg EXCEPT !["acls"] = X]
    BY <1>7, ApplyByCase
  <2> HIDE DEF X
  <2> QED
    BY <1>1, <1>7, <2>1 DEF OfRules
<1>8. CASE OfTunnel(e)
  <2> DEFINE X == [cfg.tunnels EXCEPT ![e.id][e.field] = e.value]
  <2>1. Apply(cfg, e) = [cfg EXCEPT !["tunnels"] = X]
    BY <1>8, ApplyByCase
  <2> HIDE DEF X
  <2> QED
    BY <1>1, <1>8, <2>1 DEF OfTunnel
<1>9. CASE OfList(e)
  <2> DEFINE X == [cfg.tunnels EXCEPT ![e.id][e.field] =
                     IF e.verb = "append" THEN @ \cup {e.value} ELSE @ \ {e.value}]
  <2>1. Apply(cfg, e) = [cfg EXCEPT !["tunnels"] = X]
    BY <1>9, ApplyByCase
  <2> HIDE DEF X
  <2> QED
    BY <1>1, <1>9, <2>1 DEF OfList
<1> QED
  BY <1>2, <1>4, <1>5, <1>6, <1>7, <1>8, <1>9 DEF Shaped

\* Which part of the files an edit leaves as it is.
LEMMA ApplyKeeps ==
  ASSUME FilesOK, NEW e, Shaped(e)
  PROVE  /\ e.section # "hub" => Apply(files, e).hub = files.hub
         /\ e.section # "devices" => Apply(files, e).devices = files.devices
         /\ e.section = "hub" /\ e.field # "key" => Apply(files, e).hub.key = files.hub.key
<1>1. DOMAIN files = {"hub", "devices", "tunnels", "acls"} /\ DOMAIN files.hub = HubFields
  BY DEF FilesOK, Known, KnownHub
<1>2. \A other \in DOMAIN files \ {e.section} : Apply(files, e)[other] = files[other]
  BY <1>1, ApplyElsewhere
<1>3. ASSUME e.section = "hub", e.field # "key"
      PROVE  Apply(files, e).hub.key = files.hub.key
  <2>1. OfHub(e)
    BY <1>3 DEF Shaped, OfDevice, Adds, Removes, OfRules, OfTunnel, OfList
  <2>2. Apply(files, e) = [files EXCEPT !.hub[e.field] = e.value]
    BY <2>1, ApplyByCase
  <2> QED
    BY <1>1, <1>3, <2>2 DEF HubFields
<1> QED
  BY <1>1, <1>2, <1>3

\* What is asked for changes no key and no address, and neither does taking it back.
LEMMA UndoKeeps ==
  ASSUME NEW e \in Asked, NEW v, e.section \in {"hub", "devices"}
  PROVE  /\ Undo(e, v).verb \in {"set", "unset"} /\ Undo(e, v).field = e.field
         /\ e.verb \in {"set", "unset"}
         /\ e.section = "hub" => e.field # "key"
         /\ e.section = "devices" => e.field = "egress"
<1>1. EditsAField(e)
  BY AskedLemma
<1>2. e.verb \in {"set", "unset"} /\ e.field # "enabled"
  BY <1>1 DEF EditsAField, HubFields
<1>3. Undo(e, v) = Edit(IF v = Blank THEN "unset" ELSE "set", e.section, e.id, e.field, v)
  BY <1>2 DEF Undo
<1> QED
  BY <1>1, <1>2, <1>3 DEF EditsAField, Edit

LEMMA AskedKeeps ==
  ASSUME EditorInv, NEW s \in Sessions, Replaces(s), session[s].job.kind \in Asking
  PROVE  /\ session[s].job.edit.section # "hub" => files'.hub = files.hub
         /\ files'.hub.key = files.hub.key
         /\ SameDevices(files.devices, files'.devices)
<1> DEFINE e == Wanted(s)
           f == session[s].job.edit
<1>1. e \in AllEdits /\ e.section = Forward(s).section /\ files' = Apply(files, e) /\ Shaped(e)
  BY RewriteLemma, ShapeLemma DEF Replaces, Rewrite, RewriteFailsLate
<1>2. f \in Asked /\ Forward(s) = f
  <2>1. JobOK(s, session[s])
    BY PositionsLemma DEF EditorInv
  <2>2. Busy(s)
    BY IdleLemma DEF Busy, Asking
  <2> QED
    BY <2>1, <2>2, AskedByLemma
<1>3. e = f \/ \E v : e = Undo(f, v)
  BY <1>2 DEF Wanted, Backward
<1> HIDE DEF e, f
<1>4. f.section \in {"hub", "devices"} =>
        /\ e.verb \in {"set", "unset"}
        /\ f.section = "hub" => e.field # "key"
        /\ f.section = "devices" => e.field = "egress"
  BY <1>2, <1>3, UndoKeeps
<1>5. FilesOK
  BY DEF EditorInv
<1>6. files'.hub.key = files.hub.key /\ (f.section # "hub" => files'.hub = files.hub)
  BY <1>1, <1>2, <1>4, <1>5, ApplyKeeps
<1>7. SameDevices(files.devices, files'.devices)
  <2>1. CASE f.section = "devices"
    <3>1. OfDevice(e) /\ e.field = "egress"
      BY <1>1, <1>2, <1>4, <2>1 DEF Shaped, OfHub, OfDevice, Adds, Removes, OfRules, OfTunnel, OfList
    <3> DEFINE X == [files.devices EXCEPT ![e.id][e.field] = e.value]
    <3>2. files' = [files EXCEPT !["devices"] = X]
      <4>1. Shaped(e) /\ files' = Apply(files, e)
        BY <1>1
      <4> QED
        BY <3>1, <4>1, ApplyByCase
    <3> HIDE DEF X
    <3>3. files'.devices = X
      BY <1>5, <3>2 DEF FilesOK, Known
    <3>4. \A d \in DOMAIN files.devices : DOMAIN files.devices[d] = DeviceFields
      BY <1>5 DEF FilesOK, Known, KnownDevices
    <3> QED
      BY <3>1, <3>3, <3>4 DEF SameDevices, SamePlaces, SameKeys, DeviceFields, X
  <2>2. CASE f.section # "devices"
    <3>1. files'.devices = files.devices
      BY <1>1, <1>2, <1>5, <2>2, ApplyKeeps
    <3> QED
      BY <3>1 DEF SameDevices, SamePlaces, SameKeys
  <2> QED
    BY <2>1, <2>2
<1> QED
  BY <1>6, <1>7 DEF f

LEMMA KeptStands ==
  ASSUME NEW now, NEW keys, NEW cfg, NEW next, Stands(now, cfg, keys),
         next.hub = cfg.hub, SameDevices(cfg.devices, next.devices)
  PROVE  Stands(now, next, keys)
<1>1. ReadStands(now, next)
  BY DEF Stands, ReadStands, SameDevices, SamePlaces, SameKeys
<1>2. now.pc \notin {0, 1} => FirstStands(now, next)
  BY DEF Stands, FirstStands, SameDevices, SamePlaces, SameKeys
<1>3. HasKey(now) => KeyStands(now, next)
  BY DEF Stands, KeyStands, SameDevices, SamePlaces, SameKeys
<1> QED
  BY <1>1, <1>2, <1>3 DEF Stands

\* What the edits that carry a key do to the files.
LEMMA KeyWritten ==
  ASSUME FilesOK, NEW d \in Devices, NEW k \in Generated, Applies(files, SetDevice(d, "key", k))
  PROVE  LET next == Apply(files, SetDevice(d, "key", k))
         IN  /\ next.hub = files.hub /\ SamePlaces(files.devices, next.devices)
             /\ d \in DOMAIN next.devices /\ next.devices[d].key = k
<1> DEFINE e == SetDevice(d, "key", k)
           X == [files.devices EXCEPT ![e.id][e.field] = e.value]
<1>1. Shaped(e) /\ Applies(files, e)
  BY KeyShape
<1>2. /\ e.verb = "set" /\ e.section = "devices" /\ e.id = d /\ e.field = "key" /\ e.value = k
      /\ OfDevice(e)
  BY DEF SetDevice, Edit, OfDevice
<1> HIDE DEF e
<1>3. d \in DOMAIN files.devices
  BY <1>1, <1>2 DEF Applies
<1>4. Apply(files, e) = [files EXCEPT !["devices"] = X]
  BY <1>1, <1>2, ApplyByCase
<1>5. \A c \in DOMAIN files.devices : DOMAIN files.devices[c] = DeviceFields
  BY DEF FilesOK, Known, KnownDevices
<1>6. SamePlaces(files.devices, X) /\ d \in DOMAIN X /\ X[d].key = k
  BY <1>2, <1>3, <1>5 DEF SamePlaces, DeviceFields
<1> HIDE DEF X
<1> QED
  BY <1>4, <1>6 DEF FilesOK, Known, e

LEMMA DeviceAdded ==
  ASSUME FilesOK, NEW job \in NewJobs, NEW k \in Generated
  PROVE  LET next == Apply(files, AddDevice(job.device, [job.edit EXCEPT !.key = k]))
         IN  /\ next.hub = files.hub /\ job.device \in DOMAIN next.devices
             /\ next.devices[job.device].key = k
             /\ next.devices[job.device].address = job.edit.address
<1> DEFINE entry == [job.edit EXCEPT !.key = k]
           e == AddDevice(job.device, entry)
           X == With(files.devices, e.id, e.value)
<1>1. Shaped(e)
  BY AddShape
<1>2. entry.key = k /\ entry.address = job.edit.address
  BY NewJobLemma
<1>3. e.verb = "add" /\ e.section = "devices" /\ e.id = job.device /\ e.value = entry
  BY DEF AddDevice, Edit
<1> HIDE DEF entry, e
<1>4. Adds(e)
  BY <1>1, <1>3 DEF Shaped, OfHub, OfDevice, Adds, Removes, OfRules, OfTunnel, OfList
<1>5. Apply(files, e) = [files EXCEPT !["devices"] = X]
  BY <1>1, <1>4, ApplyByCase
<1>6. job.device \in DOMAIN X /\ X[job.device] = entry
  BY <1>3 DEF With
<1> HIDE DEF X
<1> QED
  BY <1>2, <1>5, <1>6 DEF FilesOK, Known, e, entry

LEMMA HubKeyWritten ==
  ASSUME FilesOK, NEW k \in Generated
  PROVE  /\ Apply(files, SetHub("key", k)).hub.key = k
         /\ Apply(files, SetHub("key", k)).devices = files.devices
<1> DEFINE e == SetHub("key", k)
<1>1. Shaped(e)
  BY ShapeLemma DEF AllEdits, Rotated
<1>2. e.verb = "set" /\ e.section = "hub" /\ e.field = "key" /\ e.value = k
  BY DEF SetHub, Edit
<1> HIDE DEF e
<1>3. OfHub(e)
  BY <1>1, <1>2 DEF Shaped, OfHub, OfDevice, Adds, Removes, OfRules, OfTunnel, OfList
<1>4. Apply(files, e) = [files EXCEPT !.hub[e.field] = e.value]
  BY <1>1, <1>3, ApplyByCase
<1>5. "hub" \in DOMAIN files /\ "devices" \in DOMAIN files /\ "key" \in DOMAIN files.hub
  BY DEF FilesOK, Known, KnownHub, HubFields
<1> QED
  BY <1>2, <1>4, <1>5 DEF e

\* Where a rewrite leaves its session.
LEMMA RewriteLeaves ==
  ASSUME EditorInv, NEW s \in Sessions, Replaces(s)
  PROVE  /\ Busy(s) /\ NowOK(s, session[s]) /\ Rewrites(session[s]) /\ OthersStay(s)
         /\ session[s].read = <<>> \/ session[s].pc = 0
         /\ Replace(s) /\ UNCHANGED <<stored, hubKey>>
         /\ session[s].pc = 0 => Ends(s)
         /\ \/ Ends(s)
            \/ /\ UNCHANGED gate
               /\ session'[s].job = session[s].job /\ session'[s].read = session[s].read
               /\ session'[s].first = session[s].first
               /\ session'[s].key = session[s].key /\ session'[s].left = session[s].left
               /\ session'[s].pc <= Len(Program[session[s].job.kind])
               /\ session'[s].pc = session[s].pc + 1
<1> DEFINE now == [session[s] EXCEPT !.copy = <<>>]
<1>1. /\ NowOK(s, session[s]) /\ DOMAIN session[s] = SessionFields
      /\ Rewrites(session[s]) /\ (Undoing(s) <=> session[s].pc = 0)
  BY PositionsLemma, Positions DEF EditorInv, Replaces, Rewrite, RewriteFailsLate, Replace
<1>2. Busy(s)
  BY <1>1, IdleLemma DEF Rewrites, Writes, Rekeys, Restores, Busy
<1>3. /\ Replace(s) /\ UNCHANGED <<stored, hubKey>>
      /\ \/ \E outcome : End(s, outcome)
         \/ ~Undoing(s) /\ Proceed(s, now)
  BY DEF Replaces, Rewrite, RewriteFailsLate, Replace
<1>4. session[s].read = <<>> \/ session[s].pc = 0
  BY <1>1 DEF NowOK, ReadOK, Loads, Checks, Finishes, Rewrites, Writes, Rekeys, Restores
<1>5. CASE \E outcome : End(s, outcome)
  <2>1. Ends(s)
    BY <1>5, EndLemma DEF EditorInv
  <2>2. OthersStay(s)
    BY <2>1 DEF Ends, Moved, OthersStay
  <2> QED
    BY <1>1, <1>2, <1>3, <1>4, <2>1, <2>2
<1>6. CASE ~Undoing(s) /\ Proceed(s, now)
  <2>1. /\ DOMAIN now = SessionFields /\ now.job = session[s].job /\ now.pc = session[s].pc
        /\ now.read = session[s].read /\ now.left = session[s].left
        /\ now.first = session[s].first /\ now.key = session[s].key
    BY <1>1 DEF SessionFields
  <2>2. Proceed(s, now)
    BY <1>6
  <2>3. ~(session[s].job.kind = "rotate" /\ session[s].pc \in {4, 7}) /\ session[s].pc # 0
    BY <1>1, <1>6 DEF Rewrites, Writes, Rekeys, Restores
  <2> HIDE DEF now
  <2>4. Ends(s) \/ GoesOn(s, now)
    BY <1>2, <2>1, <2>2, <2>3, ProceedLemma DEF EditorInv
  <2>5. OthersStay(s)
    BY <2>4 DEF Ends, GoesOn, Moved, OthersStay
  <2>6. Ends(s) \/
          /\ UNCHANGED gate
          /\ session'[s].job = session[s].job /\ session'[s].read = session[s].read
          /\ session'[s].first = session[s].first
          /\ session'[s].key = session[s].key /\ session'[s].left = session[s].left
          /\ session'[s].pc <= Len(Program[session[s].job.kind])
          /\ session'[s].pc = session[s].pc + 1
    BY <2>1, <2>3, <2>4, OnwardLemma DEF Kind
  <2> QED
    BY <1>1, <1>2, <1>3, <1>4, <2>3, <2>5, <2>6
<1> QED
  BY <1>3, <1>5, <1>6

\* A rewrite that nobody who sends owes anything to.
LEMMA KeptProfile ==
  ASSUME ProfileInv, NEW s \in Sessions, OthersStay(s), OwnStands(s),
         UNCHANGED <<stored, hubKey>>, cut => cut', ~Between(session[s]),
         files'.hub = files.hub \/ (\A t \in Bot \ {s} : session[t].job.kind \notin Sending),
         files'.hub.key = files.hub.key, SameDevices(files.devices, files'.devices)
  PROVE  ProfileInv'
<1>0. Bot \subseteq Sessions
  BY DEF Sessions
<1>1. \A t \in Bot \ {s} : session'[t] = session[t] /\ (gate = t => gate' = t)
  BY <1>0 DEF OthersStay
<1>2. PeekOK'
  BY <1>1 DEF ProfileInv, PeekOK, OwnStands
<1>3. HubKeyOK'
  <2>1. \A t \in Bot : Between(session'[t]) => session'[t].key = hubKey
    BY <1>1 DEF ProfileInv, HubKeyOK, OwnStands
  <2>2. cut' \/ files'.hub.key = hubKey \/ \E t \in Bot : Between(session'[t])
    BY <1>1 DEF ProfileInv, HubKeyOK
  <2> QED
    BY <2>1, <2>2 DEF HubKeyOK
<1>4. ASSUME NEW t \in Bot \ {s}, session[t].job.kind \in Sending
      PROVE  Stands(session'[t], files', stored')
  <2>1. Stands(session[t], files, stored) /\ files'.hub = files.hub
    BY <1>4 DEF ProfileInv
  <2>2. Stands(session[t], files', stored)
    BY <2>1, KeptStands
  <2> QED
    BY <1>1, <2>2
<1>5. \A t \in Bot : session'[t].job.kind \in Sending => Stands(session'[t], files', stored')
  BY <1>1, <1>4 DEF OwnStands
<1> QED
  BY <1>2, <1>3, <1>5 DEF ProfileInv

\* The rewrites that carry no key.
LEMMA AskedRewriteProfile ==
  ASSUME EditorInv, ProfileInv, NEW s \in Sessions, Replaces(s), session[s].job.kind \in Asking
  PROVE  ProfileInv'
<1>1. /\ OthersStay(s) /\ Busy(s) /\ NowOK(s, session[s]) /\ Rewrites(session[s])
      /\ UNCHANGED <<stored, hubKey>>
      /\ Ends(s) \/ (session'[s].job = session[s].job /\ UNCHANGED gate)
  BY RewriteLeaves
<1>2. cut => cut'
  <2>1. ~Rotating(s) /\ cut' = (cut /\ ~Rotating(s))
    BY RewriteLeaves DEF Asking, Replace, Rotating, Kind
  <2> QED
    BY <2>1
<1>3. OwnStands(s) /\ ~Between(session[s])
  <2>1. CASE Ends(s)
    BY <2>1, IdleStands DEF Ends, Moved, Between, Asking
  <2>2. CASE session'[s].job = session[s].job /\ UNCHANGED gate
    <3>1. session[s].job.kind = "peek" /\ s \in Bot => session[s].pc \notin {1, 2}
      BY <1>1 DEF Rewrites, Writes, Rekeys, Restores
    <3>2. session[s].job.kind = "peek" /\ s \in Bot => gate = s
      BY <3>1 DEF ProfileInv, PeekOK
    <3> QED
      BY <2>2, <3>2 DEF OwnStands, Between, Asking, Sending
  <2> QED
    BY <1>1, <2>1, <2>2
<1>4. files'.hub = files.hub \/ (\A t \in Bot \ {s} : session[t].job.kind \notin Sending)
  <2>1. CASE s \in Shells
    <3>1. session[s].job \in Jobs[s]
      BY <1>1 DEF NowOK, JobOK, Busy
    <3> QED
      BY <2>1, <3>1, AskedKeeps, ShellsAssumption
  <2>2. CASE s \in Bot
    <3>1. session[s].job.kind = "peek" => session[s].pc \notin {1, 2}
      BY <1>1 DEF Rewrites, Writes, Rekeys, Restores
    <3>2. session[s] # Idle
      BY <1>1 DEF Busy
    <3> QED
      BY <2>2, <3>1, <3>2, AloneLemma DEF ProfileInv
  <2> QED
    BY <2>1, <2>2 DEF Sessions
<1> QED
  BY <1>1, <1>2, <1>3, <1>4, AskedKeeps, KeptProfile

\* The rewrites that do: of a device that is added or gets another key, or of one that
\* did and is put back.
LEMMA DeviceRewriteProfile ==
  ASSUME EditorInv, ProfileInv, NEW s \in Sessions, Replaces(s),
         \/ session[s].job.kind \in {"add", "reissue"}
         \/ session[s].job.kind = "rotate" /\ session[s].pc = 5
  PROVE  ProfileInv'
<1> DEFINE now == session[s]
<1>1. /\ OthersStay(s) /\ Busy(s) /\ NowOK(s, now) /\ Rewrites(now) /\ JobOK(s, now)
      /\ UNCHANGED <<stored, hubKey>> /\ (now.read = <<>> \/ now.pc = 0)
      /\ now.pc = 0 => Ends(s)
      /\ \/ Ends(s)
         \/ /\ session'[s].job = now.job /\ session'[s].read = now.read
            /\ session'[s].first = now.first
            /\ session'[s].key = now.key /\ session'[s].left = now.left
            /\ session'[s].pc = now.pc + 1
  BY RewriteLeaves DEF NowOK
<1>2. s \in Bot /\ Stands(now, files, stored)
  BY SenderLemma DEF ProfileInv, Sending
<1>3. /\ FilesOK /\ Wanted(s) \in AllEdits /\ Wanted(s).section = Forward(s).section
      /\ Applies(files, Wanted(s)) /\ files' = Apply(files, Wanted(s))
  BY RewriteLeaves, RewriteLemma DEF EditorInv
<1>4. ~Between(now)
  BY DEF Between
<1>5. cut => cut'
  <2>1. ~Rotating(s) /\ cut' = (cut /\ ~Rotating(s))
    BY <1>1, Positions, RewriteLeaves DEF Replace, Rotating, Kind, Writes
  <2> QED
    BY <2>1
<1>6. CASE now.pc = 0
  <2>1. now.job.kind \in {"add", "reissue"}
    BY <1>6
  <2>2. Forward(s).section = "devices"
    BY <1>1, <2>1, NewByLemma, ReissuedByLemma DEF AddDevice, SetDevice, Edit
  <2>3. files'.hub = files.hub
    BY <1>3, <2>2, ShapeLemma, ApplyKeeps
  <2>4. OwnStands(s)
    BY <1>1, <1>6, IdleStands DEF Ends, Moved
  <2>5. cut' \/ files'.hub.key = hubKey'
    <3>1. \A t \in Bot \ {s} : ~Between(session[t])
      BY <1>2, AloneLemma DEF ProfileInv, Between, Sending
    <3> QED
      BY <1>1, <1>4, <1>5, <2>3, <3>1 DEF ProfileInv, HubKeyOK
  <2> QED
    BY <1>1, <1>2, <1>6, <2>1, <2>4, <2>5, SoleLemma DEF ProfileInv
<1>7. CASE now.pc # 0
  <2>1. Carries(now) /\ now.copy # <<>> /\ now.key \in Generated /\ now.read = <<>>
    <3>1. Carries(now)
      BY <1>1, <1>7 DEF Rewrites, Writes, Rekeys, Restores, Carries
    <3>2. now.copy # <<>>
      BY RewriteLeaves DEF Replace
    <3> QED
      BY <1>1, <1>7, <3>1, <3>2 DEF NowOK, KeyOK
  <2>2. Wanted(s) = Forward(s)
    BY <1>1, <1>7, Positions DEF Wanted
  <2>3. FirstStands(now, files) /\ now.pc \notin {0, 1}
    BY <1>2, <2>1 DEF Stands, Carries, Rekeys, Writes
  <2>4. /\ files'.hub = files.hub /\ KeyStands(now, files')
        /\ now.job.kind # "add" => SamePlaces(files.devices, files'.devices)
    <3>1. CASE now.job.kind = "add"
      <4>1. now.job \in NewJobs /\ Forward(s) = AddDevice(now.job.device, [now.job.edit EXCEPT !.key = now.key])
        BY <1>1, <3>1, NewByLemma
      <4>2. files' = Apply(files, AddDevice(now.job.device, [now.job.edit EXCEPT !.key = now.key]))
        BY <1>3, <2>2, <4>1
      <4>3. /\ files'.hub = files.hub /\ now.job.device \in DOMAIN files'.devices
            /\ files'.devices[now.job.device].key = now.key
            /\ files'.devices[now.job.device].address = now.job.edit.address
        <5>1. FilesOK /\ now.key \in Generated
          BY <1>3, <2>1
        <5> QED
          BY <4>1, <4>2, <5>1, DeviceAdded
      <4>4. About(now) = now.job.device
        BY <3>1 DEF About
      <4> QED
        BY <3>1, <4>3, <4>4 DEF KeyStands
    <3>2. CASE now.job.kind = "reissue"
      <4>1. now.job.device \in Devices /\ Forward(s) = SetDevice(now.job.device, "key", now.key)
        BY <1>1, <3>2, ReissuedByLemma
      <4>2. /\ files' = Apply(files, SetDevice(now.job.device, "key", now.key))
            /\ Applies(files, SetDevice(now.job.device, "key", now.key))
        BY <1>3, <2>2, <4>1
      <4> QED
        BY <1>3, <2>1, <3>2, <4>1, <4>2, KeyWritten DEF KeyStands, About
    <3>3. CASE now.job.kind = "rotate"
      <4>1. now.left \subseteq Devices /\ now.left # {}
        BY <1>1, <3>3 DEF NowOK, LeftOK
      <4>2. Min(now.left) \in Devices
        BY <4>1, MinLemma
      <4>3. At(s, "rekey") /\ Device(s) = Min(now.left)
        BY <1>1, <3>3, Positions DEF Rekeys, Device, Kind
      <4>4. Forward(s) = SetDevice(Min(now.left), "key", now.key)
        BY <3>3, <4>3 DEF Forward
      <4>5. /\ files' = Apply(files, SetDevice(Min(now.left), "key", now.key))
            /\ Applies(files, SetDevice(Min(now.left), "key", now.key))
        BY <1>3, <2>2, <4>4
      <4> QED
        BY <1>3, <2>1, <3>3, <4>2, <4>5, KeyWritten DEF KeyStands, About
    <3> QED
      BY <3>1, <3>2, <3>3
  <2>5. OwnStands(s)
    <3>1. CASE Ends(s)
      BY <3>1, IdleStands DEF Ends, Moved
    <3>2. CASE ~Ends(s)
      <4>1. /\ session'[s].job = now.job /\ session'[s].read = <<>>
            /\ session'[s].first = now.first
            /\ session'[s].key = now.key /\ session'[s].left = now.left
            /\ session'[s].pc = now.pc + 1
        BY <1>1, <2>1, <3>2
      <4>2. KeyStands(session'[s], files')
        BY <2>4, <4>1 DEF KeyStands, About
      <4>3. now.pc = 2 \/ (now.job.kind = "rotate" /\ now.pc = 5)
        BY <2>1 DEF Carries, Rekeys, Writes
      <4>4. FirstStands(session'[s], files')
        BY <2>3, <2>4, <4>1, <4>3 DEF FirstStands, SamePlaces
      <4>5. ~HasStored(session'[s]) /\ Len(<<>>) # 2
        BY <4>1, <4>3 DEF HasStored
      <4>6. Stands(session'[s], files', stored')
        BY <4>1, <4>2, <4>4, <4>5 DEF Stands, ReadStands
      <4> QED
        BY <4>1, <4>3, <4>6 DEF OwnStands, Between
    <3> QED
      BY <3>1, <3>2
  <2>6. cut' \/ files'.hub.key = hubKey'
    <3>1. \A t \in Bot \ {s} : ~Between(session[t])
      BY <1>2, AloneLemma DEF ProfileInv, Between, Sending
    <3> QED
      BY <1>1, <1>4, <1>5, <2>4, <3>1 DEF ProfileInv, HubKeyOK
  <2> QED
    BY <1>1, <1>2, <2>5, <2>6, SoleLemma DEF ProfileInv
<1> QED
  BY <1>6, <1>7

\* And of the hub, which ends the rotation's time between the two files.
LEMMA HubRewriteProfile ==
  ASSUME EditorInv, ProfileInv, NEW s \in Sessions, Replaces(s),
         session[s].job.kind = "rotate", session[s].pc = 3
  PROVE  ProfileInv'
<1> DEFINE now == session[s]
<1>1. /\ OthersStay(s) /\ Busy(s) /\ NowOK(s, now) /\ Rewrites(now) /\ JobOK(s, now)
      /\ UNCHANGED <<stored, hubKey>> /\ now.read = <<>>
      /\ \/ Ends(s)
         \/ /\ session'[s].job = now.job /\ session'[s].read = now.read
            /\ session'[s].first = now.first
            /\ session'[s].key = now.key /\ session'[s].left = now.left
            /\ session'[s].pc = now.pc + 1
  BY RewriteLeaves DEF NowOK
<1>2. s \in Bot /\ Stands(now, files, stored)
  BY SenderLemma DEF ProfileInv, Sending
<1>3. FilesOK /\ files' = Apply(files, Wanted(s))
  BY RewriteLeaves, RewriteLemma DEF EditorInv
<1>4. now.key \in Generated /\ now.key = hubKey
  BY <1>1, <1>2 DEF NowOK, KeyOK, ProfileInv, HubKeyOK, Between
<1>5. Wanted(s) = SetHub("key", now.key)
  <2>1. ~At(s, "rekey") /\ ~Undoing(s)
    BY <1>1, Positions DEF Rekeys
  <2> QED
    BY <2>1 DEF Wanted, Forward
<1>6. files'.hub.key = hubKey' /\ files'.devices = files.devices
  BY <1>1, <1>3, <1>4, <1>5, HubKeyWritten
<1>7. OwnStands(s)
  <2>1. CASE Ends(s)
    BY <2>1, IdleStands DEF Ends, Moved
  <2>2. CASE ~Ends(s)
    <3>1. /\ session'[s].job = now.job /\ session'[s].read = <<>>
          /\ session'[s].first = now.first /\ session'[s].left = now.left
          /\ session'[s].pc = 4
      BY <1>1, <2>2
    <3>2. FirstStands(now, files)
      BY <1>2 DEF Stands
    <3>3. FirstStands(session'[s], files')
      BY <1>6, <3>1, <3>2 DEF FirstStands
    <3>4. Stands(session'[s], files', stored')
      BY <3>1, <3>3, RotatingStands
    <3> QED
      BY <3>1, <3>4 DEF OwnStands, Between
  <2> QED
    BY <2>1, <2>2
<1> QED
  BY <1>1, <1>2, <1>6, <1>7, SoleLemma DEF ProfileInv

LEMMA RewriteProfile ==
  ASSUME EditorInv, ProfileInv, NEW s \in Sessions, Replaces(s)
  PROVE  ProfileInv'
<1>1. Rewrites(session[s]) /\ Busy(s) /\ JobOK(s, session[s])
  BY RewriteLeaves DEF NowOK
<1>2. CASE session[s].job.kind \in Asking
  BY <1>2, AskedRewriteProfile
<1>3. CASE session[s].job.kind \in {"add", "reissue"} \/ (session[s].job.kind = "rotate" /\ session[s].pc = 5)
  BY <1>3, DeviceRewriteProfile
<1>4. CASE session[s].job.kind = "rotate" /\ session[s].pc = 3
  BY <1>4, HubRewriteProfile
<1> QED
  BY <1>1, <1>2, <1>3, <1>4 DEF Rewrites, Writes, Rekeys, Restores, JobOK, Busy, Asking, Undoable

-----------------------------------------------------------------------------
(* The profile that is sent.                                               *)

LEMMA ProfileInit == Init => ProfileInv
<1> SUFFICES ASSUME Init PROVE ProfileInv
  OBVIOUS
<1>1. \A s \in Bot : session[s].job.kind = "none"
  BY IdleLemma DEF Init, Sessions
<1>2. DOMAIN stored = Devices /\ files.hub.key = hubKey
  BY DEF Init
<1> QED
  BY <1>1, <1>2 DEF ProfileInv, PeekOK, HubKeyOK, Between, Sending

LEMMA ProfileNext == EditorInv /\ ProfileInv /\ [Next]_vars => ProfileInv'
<1> SUFFICES ASSUME EditorInv, ProfileInv, [Next]_vars PROVE ProfileInv'
  OBVIOUS
<1>1. ASSUME NEW s \in Sessions, NEW job \in Jobs[s], Start(s, job)
      PROVE  ProfileInv'
  BY <1>1, StartProfile
<1>2. ASSUME NEW s \in Sessions, Step(s)
      PROVE  ProfileInv'
  <2>1. CASE Claim(s)
    BY <2>1, ClaimProfile
  <2>2. CASE ReadFile(s)
    BY <2>2, ReadFileProfile
  <2>3. CASE LoadAndValidate(s)
    BY <2>3, LoadProfile
  <2>4. CASE Open(s)
    BY <2>4, OpenProfile
  <2>5. CASE Replaces(s)
    BY <2>5, RewriteProfile
  <2>6. CASE RewriteFails(s)
    BY <2>6, RewriteFailsProfile
  <2>7. CASE NothingToPutBack(s)
    BY <2>7, NothingToPutBackProfile
  <2>8. CASE RotateKey(s)
    BY <2>8, RotateKeyProfile
  <2>9. CASE StoreKey(s)
    BY <2>9, StoreKeyProfile
  <2>10. CASE ReadRevocations(s)
    BY <2>10, ReadRevocationsProfile
  <2>11. CASE Send(s)
    BY <2>11, SendProfile
  <2>12. CASE OpenList(s)
    BY <2>12, OpenListProfile
  <2>13. CASE RewriteList(s)
    BY <2>13, RewriteListProfile
  <2>14. CASE Save(s)
    BY <2>14, SaveProfile
  <2> QED
    BY <1>2, <2>1, <2>2, <2>3, <2>4, <2>5, <2>6, <2>7, <2>8, <2>9, <2>10, <2>11, <2>12, <2>13, <2>14
    DEF Step, Replaces
<1>3. ASSUME NEW process \in {Bot} \cup {{s} : s \in Shells}, Die(process)
      PROVE  ProfileInv'
  BY <1>3, DieProfile
<1>4. CASE UNCHANGED vars
  <2>1. UNCHANGED <<files, stored, hubKey, gate, session, cut>>
    BY <1>4 DEF vars, disk, history
  <2> QED
    BY <2>1 DEF ProfileInv, PeekOK, HubKeyOK
<1> QED
  BY <1>1, <1>2, <1>3, <1>4 DEF Next

SentWorks ==
  sent' # sent =>
    LET d == sent'.device
    IN  /\ d \in DOMAIN files.devices
        /\ sent'.hub = files.hub
        /\ sent'.address = files.devices[d].address
        /\ sent'.key = files.devices[d].key /\ sent'.key = stored[d]
        /\ cut \/ sent'.hub.key = hubKey

LEMMA SendWorks ==
  ASSUME EditorInv, ProfileInv, NEW s \in Sessions, Send(s)
  PROVE  SentWorks
<1> SUFFICES ASSUME sent' # sent PROVE SentWorks
  BY DEF SentWorks
<1> DEFINE now == session[s]
           d == About(now)
           cfg == now.first[1]
<1>1. /\ Busy(s) /\ NowOK(s, now)
      /\ \/ now.pc = 3 /\ now.job.kind = "send"
         \/ now.pc = 5 /\ now.job.kind = "add"
         \/ now.pc = 6 /\ now.job.kind = "reissue"
         \/ now.pc = 7 /\ now.job.kind = "rotate"
  BY PositionsLemma, Positions DEF EditorInv, Send, At
<1>2. s \in Bot /\ Stands(now, files, stored)
  BY <1>1, SenderLemma DEF ProfileInv, Sending
<1>3. FirstStands(now, files) /\ cfg.hub = files.hub
  BY <1>1, <1>2 DEF Stands, FirstStands
<1>4. Sendable(s) /\ sent' = Profile(s)
  BY DEF Send
<1>5. Device(s) = d
  BY DEF Device, About, Kind
<1>6. /\ sent'.device = d /\ sent'.hub = cfg.hub
      /\ sent'.address = IF now.job.kind = "add" THEN now.job.edit.address ELSE cfg.devices[d].address
      /\ sent'.key = IF now.job.kind = "send" THEN stored[d] ELSE now.key
  BY <1>4, <1>5 DEF Profile, Kind
<1>7. cut \/ files.hub.key = hubKey
  <2>1. \A t \in Bot : ~Between(session[t])
    BY <1>1, <1>2, AloneLemma DEF ProfileInv, Between, Sending
  <2> QED
    BY <2>1 DEF ProfileInv, HubKeyOK
<1>8. CASE now.job.kind = "send"
  <2>1. d \in DOMAIN files.devices /\ SamePlaces(cfg.devices, files.devices) /\ SameKeys(cfg.devices, files.devices)
    BY <1>3, <1>8 DEF FirstStands, About
  <2>2. stored[d] = cfg.devices[d].key
    BY <1>4, <1>5, <1>8 DEF Sendable, Kind
  <2> QED
    BY <1>3, <1>6, <1>7, <1>8, <2>1, <2>2 DEF SentWorks, SamePlaces, SameKeys
<1>9. CASE now.job.kind # "send"
  <2>1. KeyStands(now, files) /\ stored[d] = now.key
    BY <1>1, <1>2, <1>9 DEF Stands, HasKey, HasStored
  <2>2. now.job.kind # "add" => SamePlaces(cfg.devices, files.devices)
    BY <1>3 DEF FirstStands
  <2> QED
    BY <1>3, <1>6, <1>7, <1>9, <2>1, <2>2 DEF SentWorks, KeyStands, SamePlaces
<1> QED
  BY <1>8, <1>9

LEMMA SentStep == EditorInv /\ ProfileInv /\ [Next]_vars => [SentWorks]_vars
<1> SUFFICES ASSUME EditorInv, ProfileInv, Next PROVE SentWorks
  BY DEF vars
<1>1. ASSUME NEW s \in Sessions, NEW job \in Jobs[s], Start(s, job)
      PROVE  SentWorks
  BY <1>1 DEF Start, SentWorks
<1>2. ASSUME NEW s \in Sessions, Step(s)
      PROVE  SentWorks
  <2>1. CASE Send(s)
    BY <2>1, SendWorks
  <2>2. CASE ~Send(s)
    <3>1. UNCHANGED sent
      BY <1>2, <2>2
      DEF Step, Claim, ReadFile, LoadAndValidate, Open, Rewrite, RewriteFails, RewriteFailsLate, NothingToPutBack,
          RotateKey, StoreKey, ReadRevocations, OpenList, RewriteList, Save, history
    <3> QED
      BY <3>1 DEF SentWorks
  <2> QED
    BY <2>1, <2>2
<1>3. ASSUME NEW process \in {Bot} \cup {{s} : s \in Shells}, Die(process)
      PROVE  SentWorks
  BY <1>3 DEF Die, SentWorks
<1> QED
  BY <1>1, <1>2, <1>3 DEF Next

\* Whatever edits, fails or dies beside it, a profile that is sent carries the hub, the
\* address and the key that the configuration has at that moment, a key that is kept to
\* send again, and the hub's real key unless a rotation ended between its files.
THEOREM ProfilesWork == Spec => SentProfileWorks
BY ProfileInit, ProfileNext, SentStep, EditorInit, EditorNext, PTL
DEF Spec, SentProfileWorks, SentWorks

-----------------------------------------------------------------------------
(* What is cancelled leaves no trace.  One value is followed: that of what *)
(* an operation edits, from what was read of it to what is put back.       *)

\* What an operation that may be undone edits, whatever key it will have.
Target(job) ==
  CASE job.kind = "add" -> AddDevice(job.device, Blank)
    [] job.kind = "reissue" -> SetDevice(job.device, "key", Blank)
    [] OTHER -> job.edit
Scalar(g) == g.verb \in {"set", "unset"} /\ g.field # "enabled"
\* It is put back to what was read of it.
Remembers(now) == now.job.kind \in Peeking /\ Scalar(Target(now.job))

\* Past the rewrite of it.
Wrote(now) ==
  \/ now.pc = 0
  \/ now.pc > 1 /\ now.job.kind = "edit"
  \/ now.pc > 2 /\ now.job.kind \in {"informed", "unprobe", "add", "reissue"}
  \/ now.pc > 3 /\ now.job.kind = "peek"

\* What has been read of it is what the files have, until it is written.
ReadStill(now, g, cfg) ==
  /\ g.section = "hub" /\ now.read # <<>> => Value(now.read[1], g) = Value(cfg, g)
  /\ g.section = "devices" /\ Len(now.read) = 2 => Value(now.read[2], g) = Value(cfg, g)
\* And what was there then is what will be put back.
Recalled(now, g, was) ==
  /\ Remembers(now) /\ now.first # <<>> => was = Value(now.first[1], g)
  /\ g.field = "enabled" => was \in BOOLEAN
  /\ g.field = "entry" => was = Blank
  /\ g.verb = "append" \/ (g.verb = "add" /\ g.section = "acls") => was = FALSE
  /\ g.verb = "drop" \/ (g.verb = "remove" /\ g.section = "acls") => was = TRUE
Traced(now, cfg, was) ==
  LET g == Target(now.job)
  IN  /\ Remembers(now) /\ now.pc = 1 => ReadStill(now, g, cfg)
      /\ Remembers(now) /\ now.first # <<>> /\ ~Wrote(now) => Value(now.first[1], g) = Value(cfg, g)
      /\ Wrote(now) => Recalled(now, g, was)

TraceInv ==
  /\ DOMAIN before = Sessions /\ DOMAIN touched = Sessions /\ DOMAIN told = Sessions
  /\ \A t \in DOMAIN files.tunnels : files.tunnels[t].enabled \in BOOLEAN
  /\ \A s \in Sessions :
       session[s].job.kind \in Undoable /\ ~touched[s] => Traced(session[s], files, before[s])

\* Of what kind a target is.
IsTarget(g) ==
  \/ g.section = "hub" /\ g.id = Blank /\ Scalar(g) /\ g.verb \in {"set", "unset"} /\ g.field \in HubFields \ {"key"}
  \/ g.section = "devices" /\ g.verb = "set" /\ g.field \in {"egress", "key"}
  \/ g.section = "devices" /\ g.verb = "add" /\ g.field = "entry"
  \/ g.section = "acls" /\ g.id = Blank /\ g.verb \in {"add", "remove"} /\ g.field = "rule"
  \/ g.section = "tunnels" /\ g.verb = "set" /\ g.field = "enabled" /\ g.value \in BOOLEAN
  \/ g.section = "tunnels" /\ g.verb \in {"set", "unset"} /\ g.field = "probe"
  \/ g.section = "tunnels" /\ g.verb \in {"append", "drop"} /\ g.field \in {"routes", "zones", "allowed"}
SameTarget(f, g) ==
  /\ f.verb = g.verb /\ f.section = g.section /\ f.id = g.id /\ f.field = g.field
  /\ f.value = g.value \/ g.section = "devices"

LEMMA TargetLemma ==
  ASSUME NEW s \in Sessions, JobOK(s, session[s]), Busy(s), session[s].job.kind \in Undoable
  PROVE  /\ IsTarget(Target(session[s].job)) /\ SameTarget(Forward(s), Target(session[s].job))
         /\ session[s].job.kind \in Asking =>
              /\ Target(session[s].job) = session[s].job.edit /\ session[s].job.edit \in Asked
              /\ AskedAs(session[s].job.kind, session[s].job.edit)
         /\ session[s].job.kind = "reissue" =>
              /\ Target(session[s].job).section = "devices" /\ Target(session[s].job).field = "key"
         /\ session[s].job.kind = "add" => Target(session[s].job).field = "entry"
<1> DEFINE job == session[s].job
<1>0. IsJob(job)
  BY DEF JobOK, Busy
<1>1. CASE job.kind \in Asking
  <2>1. Target(job) = job.edit /\ Forward(s) = job.edit /\ job.edit \in Asked
    BY <1>1, AskedByLemma DEF Target, Asking
  <2>2. EditsAField(job.edit) /\ AskedAs(job.kind, job.edit)
    BY <1>0, <1>1 DEF IsJob, Asking
  <2>3. IsTarget(job.edit)
    BY <2>2 DEF EditsAField, IsTarget, Scalar, HubFields
  <2> QED
    BY <1>1, <2>1, <2>2, <2>3 DEF SameTarget, Asking
<1>2. CASE job.kind = "add"
  <2>1. Target(job) = AddDevice(job.device, Blank)
    BY <1>2 DEF Target
  <2>2. Forward(s) = AddDevice(job.device, [job.edit EXCEPT !.key = session[s].key])
    BY <1>2, NewByLemma
  <2> QED
    BY <1>2, <2>1, <2>2 DEF SameTarget, IsTarget, AddDevice, Edit, Asking
<1>3. CASE job.kind = "reissue"
  <2>1. Target(job) = SetDevice(job.device, "key", Blank)
    BY <1>3 DEF Target
  <2>2. Forward(s) = SetDevice(job.device, "key", session[s].key)
    BY <1>3, ReissuedByLemma
  <2> QED
    BY <1>3, <2>1, <2>2 DEF SameTarget, IsTarget, SetDevice, Edit, Asking
<1> QED
  BY <1>1, <1>2, <1>3 DEF Undoable, Asking

\* The value of a target by what it is of.
DeviceValue(cfg, g) ==
  IF g.field = "entry" THEN IF g.id \in DOMAIN cfg.devices THEN cfg.devices[g.id] ELSE Blank
  ELSE IF g.id \in DOMAIN cfg.devices THEN cfg.devices[g.id][g.field] ELSE Blank
TunnelValue(cfg, g) ==
  IF g.id \in DOMAIN cfg.tunnels THEN cfg.tunnels[g.id][g.field] ELSE Blank
LEMMA ValueByCase ==
  ASSUME NEW cfg, NEW g, IsTarget(g)
  PROVE  /\ g.section = "hub" => Value(cfg, g) = cfg.hub[g.field]
         /\ g.section = "acls" => Value(cfg, g) = (g.value \in cfg.acls)
         /\ g.section = "devices" => Value(cfg, g) = DeviceValue(cfg, g)
         /\ g.section = "tunnels" /\ g.verb \in {"append", "drop"} =>
              Value(cfg, g) = (g.value \in cfg.tunnels[g.id][g.field])
         /\ g.section = "tunnels" /\ g.verb \notin {"append", "drop"} => Value(cfg, g) = TunnelValue(cfg, g)
<1>1. CASE g.section = "hub"
  <2>1. g.verb \notin {"append", "drop"} /\ g.field # "entry"
    BY <1>1 DEF IsTarget, HubFields
  <2> QED
    BY <1>1, <2>1 DEF Value
<1>2. CASE g.section = "acls"
  <2>1. g.verb \notin {"append", "drop"} /\ g.field # "entry"
    BY <1>2 DEF IsTarget
  <2> QED
    BY <1>2, <2>1 DEF Value
<1>3. CASE g.section = "devices"
  <2>1. g.verb \notin {"append", "drop"}
    BY <1>3 DEF IsTarget
  <2>2. CASE g.field = "entry"
    BY <1>3, <2>1, <2>2 DEF Value, DeviceValue
  <2>3. CASE g.field # "entry"
    BY <1>3, <2>1, <2>3 DEF Value, DeviceValue
  <2> QED
    BY <1>3, <2>2, <2>3
<1>4. CASE g.section = "tunnels" /\ g.verb \in {"append", "drop"}
  <2>1. g.field # "entry"
    BY <1>4 DEF IsTarget
  <2> QED
    BY <1>4, <2>1 DEF Value
<1>5. CASE g.section = "tunnels" /\ g.verb \notin {"append", "drop"}
  <2>1. g.field # "entry"
    BY <1>5 DEF IsTarget
  <2> QED
    BY <1>5, <2>1 DEF Value, TunnelValue
<1> QED
  BY <1>1, <1>2, <1>3, <1>4, <1>5 DEF IsTarget

\* Two targets of the same name have the same value.
LEMMA SameTargetLemma ==
  ASSUME NEW f, NEW g, IsTarget(g), SameTarget(f, g)
  PROVE  /\ IsTarget(f)
         /\ \A cfg : Value(cfg, f) = Value(cfg, g)
<1>1. IsTarget(f)
  BY DEF IsTarget, SameTarget, Scalar
<1>2. ASSUME NEW cfg
      PROVE  Value(cfg, f) = Value(cfg, g)
  <2>1. CASE g.section = "hub"
    BY <1>1, <2>1, ValueByCase DEF SameTarget
  <2>2. CASE g.section = "acls"
    BY <1>1, <2>2, ValueByCase DEF SameTarget
  <2>3. CASE g.section = "devices"
    BY <1>1, <2>3, ValueByCase DEF SameTarget, DeviceValue
  <2>4. CASE g.section = "tunnels"
    BY <1>1, <2>4, ValueByCase DEF SameTarget, TunnelValue
  <2> QED
    BY <2>1, <2>2, <2>3, <2>4 DEF IsTarget
<1> QED
  BY <1>1, <1>2

\* A file that holds the section shows the value.
LEMMA OnlyValue ==
  ASSUME NEW cfg, NEW P \in SUBSET DOMAIN cfg, NEW g, IsTarget(g), g.section \in P
  PROVE  Value(Only(cfg, P), g) = Value(cfg, g)
<1>1. Only(cfg, P)[g.section] = cfg[g.section]
  BY DEF Only
<1>2. CASE g.section = "hub"
  BY <1>1, <1>2, ValueByCase
<1>3. CASE g.section = "acls"
  BY <1>1, <1>3, ValueByCase
<1>4. CASE g.section = "devices"
  BY <1>1, <1>4, ValueByCase DEF DeviceValue
<1>5. CASE g.section = "tunnels"
  BY <1>1, <1>5, ValueByCase DEF TunnelValue
<1> QED
  BY <1>2, <1>3, <1>4, <1>5 DEF IsTarget

LEMMA SectionValue ==
  ASSUME NEW cfg, NEW next, NEW g, IsTarget(g), next[g.section] = cfg[g.section]
  PROVE  Value(next, g) = Value(cfg, g)
<1>1. CASE g.section = "hub"
  BY <1>1, ValueByCase
<1>2. CASE g.section = "acls"
  BY <1>2, ValueByCase
<1>3. CASE g.section = "devices"
  BY <1>3, ValueByCase DEF DeviceValue
<1>4. CASE g.section = "tunnels"
  BY <1>4, ValueByCase DEF TunnelValue
<1> QED
  BY <1>1, <1>2, <1>3, <1>4 DEF IsTarget

\* What the edits of entries are called.
LEMMA EntryLemma ==
  ASSUME NEW e \in AllEdits, e.section = "devices", e.verb \in {"add", "remove"}
  PROVE  e.field = "entry"
<1>1. e \notin Asked
  BY AskedLemma DEF EditsAField
<1>2. e \notin Undone
  <2>1. ASSUME NEW f \in Asked, NEW v \in Values(f)
        PROVE  Undo(f, v).section = "devices" => Undo(f, v).verb \notin {"add", "remove"}
    BY UndoneShape, UndoKeeps
  <2> QED
    BY <2>1 DEF Undone
<1>3. e \notin Rekeyed \cup KeysPutBack
  <2>1. e \notin Rekeyed
    BY DEF Rekeyed, SetDevice, Edit
  <2>2. e \notin KeysPutBack
    BY KeyShape DEF KeysPutBack, Edit
  <2> QED
    BY <2>1, <2>2
<1>4. e \notin Rotated
  BY DEF Rotated, SetHub, Edit
<1>5. e \in Added \cup Removed => e.field = "entry"
  BY DEF Added, Removed, AddDevice, RemoveDevice, Edit
<1> QED
  BY <1>1, <1>2, <1>3, <1>4, <1>5 DEF AllEdits

\* An edit that does not concern a field leaves it.
LEMMA FrameLemma ==
  ASSUME NEW cfg, Known(cfg), NEW e \in AllEdits, NEW g, IsTarget(g), Scalar(g), ~Concerns(e, g)
  PROVE  Value(Apply(cfg, e), g) = Value(cfg, g)
<1> DEFINE next == Apply(cfg, e)
<1>1. DOMAIN cfg = {"hub", "devices", "tunnels", "acls"} /\ Shaped(e)
  BY ShapeLemma DEF Known
<1>2. CASE e.section # g.section
  <2>1. next[g.section] = cfg[g.section]
    BY <1>1, <1>2, ApplyElsewhere DEF IsTarget
  <2> QED
    BY <2>1, SectionValue
<1>3. CASE e.section = "hub" /\ g.section = "hub"
  <2>1. OfHub(e) /\ g.id = Blank
    BY <1>1, <1>3 DEF Shaped, OfHub, OfDevice, Adds, Removes, OfRules, OfTunnel, OfList, IsTarget
  <2>2. e.field # g.field
    BY <1>3, <2>1 DEF Concerns, OfHub, IsTarget
  <2>3. next = [cfg EXCEPT !.hub[e.field] = e.value]
    BY <1>1, <2>1, ApplyByCase
  <2>4. next.hub[g.field] = cfg.hub[g.field]
    BY <1>1, <2>2, <2>3
  <2> QED
    BY <1>3, <2>4, ValueByCase
<1>4. CASE e.section = "devices" /\ g.section = "devices"
  <2>1. OfDevice(e) \/ Adds(e) \/ Removes(e)
    BY <1>1, <1>4 DEF Shaped, OfHub, OfDevice, Adds, Removes, OfRules, OfTunnel, OfList
  <2>2. e.id # g.id \/ (OfDevice(e) /\ g.field # "entry" /\ e.field # g.field)
    BY <1>4, <2>1, EntryLemma DEF Concerns, Adds, Removes, OfDevice, IsTarget
  <2>3. CASE OfDevice(e)
    <3> DEFINE X == [cfg.devices EXCEPT ![e.id][e.field] = e.value]
    <3>1. next = [cfg EXCEPT !["devices"] = X]
      BY <1>1, <2>3, ApplyByCase
    <3>2. DOMAIN X = DOMAIN cfg.devices
      OBVIOUS
    <3>3. ASSUME e.id # g.id, g.id \in DOMAIN X
          PROVE  X[g.id] = cfg.devices[g.id]
      BY <3>3
    <3>4. ASSUME e.field # g.field, g.id \in DOMAIN X
          PROVE  X[g.id][g.field] = cfg.devices[g.id][g.field]
      BY <3>4
    <3> HIDE DEF X
    <3>5. next.devices = X
      BY <1>1, <3>1
    <3> QED
      BY <1>4, <2>2, <3>2, <3>3, <3>4, <3>5, ValueByCase DEF DeviceValue
  <2>4. CASE Adds(e)
    <3> DEFINE X == With(cfg.devices, e.id, e.value)
    <3>1. next = [cfg EXCEPT !["devices"] = X]
      BY <1>1, <2>4, ApplyByCase
    <3>2. e.id # g.id
      BY <2>2, <2>4 DEF OfDevice, Adds
    <3>3. /\ g.id \in DOMAIN X <=> g.id \in DOMAIN cfg.devices
          /\ g.id \in DOMAIN X => X[g.id] = cfg.devices[g.id]
      BY <3>2 DEF With
    <3> HIDE DEF X
    <3>4. next.devices = X
      BY <1>1, <3>1
    <3> QED
      BY <1>4, <3>3, <3>4, ValueByCase DEF DeviceValue
  <2>5. CASE Removes(e)
    <3> DEFINE X == Only(cfg.devices, DOMAIN cfg.devices \ {e.id})
    <3>1. next = [cfg EXCEPT !["devices"] = X]
      BY <1>1, <2>5, ApplyByCase
    <3>2. e.id # g.id
      BY <2>2, <2>5 DEF OfDevice, Removes
    <3>3. /\ g.id \in DOMAIN X <=> g.id \in DOMAIN cfg.devices
          /\ g.id \in DOMAIN X => X[g.id] = cfg.devices[g.id]
      BY <3>2 DEF Only
    <3> HIDE DEF X
    <3>4. next.devices = X
      BY <1>1, <3>1
    <3> QED
      BY <1>4, <3>3, <3>4, ValueByCase DEF DeviceValue
  <2> QED
    BY <2>1, <2>3, <2>4, <2>5
<1>5. CASE e.section = "tunnels" /\ g.section = "tunnels"
  <2>1. OfTunnel(e) \/ OfList(e)
    BY <1>1, <1>5 DEF Shaped, OfHub, OfDevice, Adds, Removes, OfRules, OfTunnel, OfList
  <2>3. CASE OfTunnel(e)
    <3>1. e.id # g.id \/ e.field # g.field
      BY <1>5, <2>3 DEF Concerns, OfTunnel
    <3> DEFINE X == [cfg.tunnels EXCEPT ![e.id][e.field] = e.value]
    <3>2. next = [cfg EXCEPT !["tunnels"] = X]
      BY <1>1, <2>3, ApplyByCase
    <3>3. DOMAIN X = DOMAIN cfg.tunnels
      OBVIOUS
    <3>4. g.id \in DOMAIN X => X[g.id][g.field] = cfg.tunnels[g.id][g.field]
      BY <3>1
    <3> HIDE DEF X
    <3>5. next.tunnels = X
      BY <1>1, <3>2
    <3> QED
      BY <1>5, <3>3, <3>4, <3>5, ValueByCase DEF TunnelValue, Scalar
  <2>4. CASE OfList(e)
    <3>1. e.field # g.field
      BY <1>5, <2>4 DEF OfList, IsTarget, Scalar
    <3> DEFINE X == [cfg.tunnels EXCEPT ![e.id][e.field] =
                       IF e.verb = "append" THEN @ \cup {e.value} ELSE @ \ {e.value}]
    <3>2. next = [cfg EXCEPT !["tunnels"] = X]
      BY <1>1, <2>4, ApplyByCase
    <3>3. DOMAIN X = DOMAIN cfg.tunnels
      OBVIOUS
    <3>4. g.id \in DOMAIN X => X[g.id][g.field] = cfg.tunnels[g.id][g.field]
      BY <3>1
    <3> HIDE DEF X
    <3>5. next.tunnels = X
      BY <1>1, <3>2
    <3> QED
      BY <1>5, <3>3, <3>4, <3>5, ValueByCase DEF TunnelValue, Scalar
  <2> QED
    BY <2>1, <2>3, <2>4
<1> QED
  BY <1>1, <1>2, <1>3, <1>4, <1>5 DEF Shaped, Scalar, IsTarget, OfHub, OfDevice, Adds, Removes, OfRules, OfTunnel, OfList

LEMMA MemberLemma ==
  ASSUME NEW x, NEW S, NEW v, v = (x \in S)
  PROVE  (x \in S => v = TRUE) /\ (x \notin S => v = FALSE)
<1>1. ASSUME x \in S PROVE (x \in S) = TRUE
  BY <1>1
<1>2. ASSUME x \notin S PROVE (x \in S) = FALSE
  BY <1>2
<1> QED
  BY <1>1, <1>2

\* What an edit leaves of the value it is of.
LEMMA OwnValue ==
  ASSUME NEW cfg, Known(cfg), NEW e, Shaped(e), Applies(cfg, e), NEW g, IsTarget(g),
         e.section = g.section, e.id = g.id, e.field = g.field,
         g.section = "acls" \/ g.verb \in {"append", "drop"} => e.value = g.value
  PROVE  LET next == Value(Apply(cfg, e), g)
         IN  /\ e.verb \in {"set", "unset"} => next = e.value
             /\ e.verb = "append" \/ (e.verb = "add" /\ e.section = "acls") => next = TRUE
             /\ e.verb = "drop" \/ (e.verb = "remove" /\ e.section = "acls") => next = FALSE
             /\ e.verb = "remove" /\ e.section = "devices" /\ g.field = "entry" => next = Blank
<1> DEFINE next == Apply(cfg, e)
<1>0. DOMAIN cfg = {"hub", "devices", "tunnels", "acls"}
  BY DEF Known
<1>1. CASE OfHub(e)
  <2>1. e.field \in DOMAIN cfg.hub /\ e.section = "hub" /\ e.verb \in {"set", "unset"}
    BY <1>1 DEF Known, KnownHub, OfHub
  <2>2. next = [cfg EXCEPT !.hub[e.field] = e.value]
    BY <1>1, ApplyByCase
  <2>3. next.hub[g.field] = e.value
    BY <1>0, <2>1, <2>2
  <2> HIDE DEF next
  <2>4. Value(next, g) = next.hub[g.field]
    BY <2>1, ValueByCase
  <2> QED
    BY <2>1, <2>3, <2>4 DEF next
<1>2. CASE OfDevice(e)
  <2>1. e.section = "devices" /\ e.verb \in {"set", "unset"} /\ e.field \in {"egress", "key"}
    BY <1>2 DEF OfDevice
  <2>2. e.id \in DOMAIN cfg.devices
    BY <2>1 DEF Applies
  <2>3. DOMAIN cfg.devices[e.id] = DeviceFields
    BY <2>2 DEF Known, KnownDevices
  <2> DEFINE X == [cfg.devices EXCEPT ![e.id][e.field] = e.value]
  <2>4. next = [cfg EXCEPT !["devices"] = X]
    BY <1>2, ApplyByCase
  <2>5. e.id \in DOMAIN X /\ X[e.id][e.field] = e.value
    BY <2>1, <2>2, <2>3 DEF DeviceFields
  <2> HIDE DEF X
  <2>6. next.devices = X
    BY <1>0, <2>4
  <2> QED
    BY <2>1, <2>5, <2>6, ValueByCase DEF DeviceValue
<1>3. CASE Adds(e)
  BY <1>3 DEF Adds
<1>4. CASE Removes(e)
  <2> DEFINE X == Only(cfg.devices, DOMAIN cfg.devices \ {e.id})
  <2>1. next = [cfg EXCEPT !["devices"] = X]
    BY <1>4, ApplyByCase
  <2>2. e.id \notin DOMAIN X
    BY DEF Only
  <2> HIDE DEF X
  <2>3. next.devices = X
    BY <1>0, <2>1
  <2> QED
    BY <1>4, <2>2, <2>3, ValueByCase DEF Removes, DeviceValue
<1>5. CASE OfRules(e)
  <2> DEFINE X == IF e.verb = "add" THEN cfg.acls \cup {e.value} ELSE cfg.acls \ {e.value}
  <2>1. next = [cfg EXCEPT !["acls"] = X]
    BY <1>5, ApplyByCase
  <2>2. e.verb = "add" => e.value \in X
    OBVIOUS
  <2>3. e.verb = "remove" => e.value \notin X
    OBVIOUS
  <2> HIDE DEF X
  <2>4. next.acls = X
    BY <1>0, <2>1
  <2>5. e.section = "acls" /\ g.section = "acls" /\ e.verb \in {"add", "remove"} /\ e.value = g.value
    BY <1>5 DEF OfRules
  <2>6. Value(next, g) = (g.value \in X)
    BY <2>4, <2>5, ValueByCase
  <2>7. (e.verb = "add" => Value(next, g) = TRUE) /\ (e.verb = "remove" => Value(next, g) = FALSE)
    BY <2>2, <2>3, <2>5, <2>6, MemberLemma
  <2> QED
    BY <2>5, <2>7
<1>6. CASE OfTunnel(e)
  <2>1. e.section = "tunnels" /\ e.verb \in {"set", "unset"} /\ e.field \in {"enabled", "probe"}
    BY <1>6 DEF OfTunnel
  <2>2. e.id \in DOMAIN cfg.tunnels
    BY <2>1 DEF Applies
  <2>3. DOMAIN cfg.tunnels[e.id] = TunnelFields
    BY <2>2 DEF Known, KnownTunnels
  <2> DEFINE X == [cfg.tunnels EXCEPT ![e.id][e.field] = e.value]
  <2>4. next = [cfg EXCEPT !["tunnels"] = X]
    BY <1>6, ApplyByCase
  <2>5. e.id \in DOMAIN X /\ X[e.id][e.field] = e.value
    BY <2>1, <2>2, <2>3 DEF TunnelFields
  <2> HIDE DEF X
  <2>6. next.tunnels = X
    BY <1>0, <2>4
  <2>7. g.verb \notin {"append", "drop"}
    BY <2>1 DEF IsTarget
  <2> QED
    BY <2>1, <2>5, <2>6, <2>7, ValueByCase DEF TunnelValue
<1>7. CASE OfList(e)
  <2>1. e.section = "tunnels" /\ e.verb \in {"append", "drop"} /\ e.field \in {"routes", "zones", "allowed"}
    BY <1>7 DEF OfList
  <2>2. e.id \in DOMAIN cfg.tunnels
    BY <2>1 DEF Applies
  <2>3. DOMAIN cfg.tunnels[e.id] = TunnelFields
    BY <2>2 DEF Known, KnownTunnels
  <2> DEFINE list == cfg.tunnels[e.id][e.field]
             value == IF e.verb = "append" THEN list \cup {e.value} ELSE list \ {e.value}
             X == [cfg.tunnels EXCEPT ![e.id] = [cfg.tunnels[e.id] EXCEPT ![e.field] = value]]
  <2>4. next = [cfg EXCEPT !["tunnels"] = X]
    BY <1>7, ApplyByCase
  <2>5. X[e.id][e.field] = value
    BY <2>1, <2>2, <2>3 DEF TunnelFields
  <2>6. (e.verb = "append" => e.value \in value) /\ (e.verb = "drop" => e.value \notin value)
    OBVIOUS
  <2> HIDE DEF X, value
  <2>7. next.tunnels = X
    BY <1>0, <2>4
  <2>8. g.verb \in {"append", "drop"}
    BY <2>1 DEF IsTarget, Scalar
  <2>9. Value(next, g) = (g.value \in value)
    <3>1. next.tunnels[g.id][g.field] = value
      BY <2>5, <2>7
    <3> HIDE DEF next
    <3>2. Value(next, g) = (g.value \in next.tunnels[g.id][g.field])
      BY <2>1, <2>8, ValueByCase
    <3> QED
      BY <3>1, <3>2, Zenon
  <2>10. e.value = g.value
    BY <2>8
  <2>11. (e.verb = "append" => Value(next, g) = TRUE) /\ (e.verb = "drop" => Value(next, g) = FALSE)
    BY <2>6, <2>9, <2>10, MemberLemma
  <2> QED
    BY <2>1, <2>11
<1> QED
  BY <1>1, <1>2, <1>3, <1>4, <1>5, <1>6, <1>7 DEF Shaped

\* What the edit that takes another back writes.
LEMMA UndoOf ==
  ASSUME NEW f, IsTarget(f), f = Edit(f.verb, f.section, f.id, f.field, f.value), NEW v
  PROVE  LET e == Undo(f, v)
         IN  /\ e.section = f.section /\ e.id = f.id /\ e.field = f.field
             /\ Scalar(f) => e.verb \in {"set", "unset"} /\ e.value = v
             /\ f.field = "enabled" => e.verb = "set" /\ e.value = ~f.value
             /\ f.field = "entry" => e.verb = "remove"
             /\ f.verb = "append" => e.verb = "drop" /\ e.value = f.value
             /\ f.verb = "drop" => e.verb = "append" /\ e.value = f.value
             /\ f.section = "acls" /\ f.verb = "add" => e.verb = "remove" /\ e.value = f.value
             /\ f.section = "acls" /\ f.verb = "remove" => e.verb = "add" /\ e.value = f.value
<1>0. DOMAIN f = {"verb", "section", "id", "field", "value"}
  BY DEF Edit
<1>1. CASE Scalar(f)
  <2>1. Undo(f, v) = Edit(IF v = Blank THEN "unset" ELSE "set", f.section, f.id, f.field, v)
    BY <1>1 DEF Scalar, Undo
  <2>2. f.verb \in {"set", "unset"} /\ f.field \notin {"enabled", "entry"} /\ f.section # "acls"
    BY <1>1 DEF IsTarget, Scalar, HubFields
  <2>3. /\ Undo(f, v).section = f.section /\ Undo(f, v).id = f.id /\ Undo(f, v).field = f.field
        /\ Undo(f, v).value = v /\ Undo(f, v).verb \in {"set", "unset"}
    BY <2>1 DEF Edit
  <2> QED
    BY <2>2, <2>3
<1>2. CASE f.field = "enabled"
  <2>1. f.verb = "set" /\ f.section = "tunnels"
    BY <1>2 DEF IsTarget, Scalar
  <2>2. Undo(f, v) = [f EXCEPT !.value = ~f.value]
    BY <1>2, <2>1 DEF Undo
  <2> QED
    BY <1>0, <1>2, <2>1, <2>2 DEF Scalar
<1>3. CASE f.field = "entry"
  <2>1. f.verb = "add" /\ f.section = "devices"
    BY <1>3 DEF IsTarget, Scalar, HubFields
  <2>2. Undo(f, v) = RemoveDevice(f.id)
    BY <1>3, <2>1 DEF Undo
  <2> QED
    BY <1>3, <2>1, <2>2 DEF RemoveDevice, Edit, Scalar
<1>4. CASE f.verb \in {"append", "drop"}
  <2>1. f.field \notin {"enabled", "entry"} /\ f.section = "tunnels"
    BY <1>4 DEF IsTarget, Scalar
  <2>2. Undo(f, v) = [f EXCEPT !.verb = IF f.verb = "append" THEN "drop" ELSE "append"]
    BY <1>4 DEF Undo
  <2> QED
    BY <1>0, <1>4, <2>1, <2>2 DEF Scalar
<1>5. CASE f.section = "acls"
  <2>1. f.verb \in {"add", "remove"} /\ f.field = "rule"
    BY <1>5 DEF IsTarget
  <2>2. Undo(f, v) = [f EXCEPT !.verb = IF f.verb = "add" THEN "remove" ELSE "add"]
    BY <1>5, <2>1 DEF Undo
  <2> QED
    BY <1>0, <1>5, <2>1, <2>2 DEF Scalar
<1> QED
  BY <1>1, <1>2, <1>3, <1>4, <1>5 DEF IsTarget, Scalar

\* Taken back, an edit leaves what its caller believes was there.
LEMMA PutBackLemma ==
  ASSUME NEW cfg, Known(cfg), NEW f, IsTarget(f), f = Edit(f.verb, f.section, f.id, f.field, f.value),
         NEW v, Shaped(Undo(f, v)), Applies(cfg, Undo(f, v))
  PROVE  LET next == Value(Apply(cfg, Undo(f, v)), f)
         IN  /\ Scalar(f) => next = v
             /\ f.field = "enabled" => next = ~f.value
             /\ f.field = "entry" => next = Blank
             /\ f.verb = "append" \/ (f.verb = "add" /\ f.section = "acls") => next = FALSE
             /\ f.verb = "drop" \/ (f.verb = "remove" /\ f.section = "acls") => next = TRUE
<1> DEFINE e == Undo(f, v)
<1>1. /\ e.section = f.section /\ e.id = f.id /\ e.field = f.field
      /\ Scalar(f) => e.verb \in {"set", "unset"} /\ e.value = v
      /\ f.field = "enabled" => e.verb = "set" /\ e.value = ~f.value
      /\ f.field = "entry" => e.verb = "remove"
      /\ f.verb = "append" => e.verb = "drop" /\ e.value = f.value
      /\ f.verb = "drop" => e.verb = "append" /\ e.value = f.value
      /\ f.section = "acls" /\ f.verb = "add" => e.verb = "remove" /\ e.value = f.value
      /\ f.section = "acls" /\ f.verb = "remove" => e.verb = "add" /\ e.value = f.value
  BY UndoOf
<1> HIDE DEF e
<1>2. Shaped(e) /\ Applies(cfg, e)
  BY DEF e
<1>3. f.section = "acls" \/ f.verb \in {"append", "drop"} => e.value = f.value
  BY <1>1 DEF IsTarget
<1>4. f.field = "entry" => f.section = "devices"
  BY DEF IsTarget, Scalar, HubFields
<1> DEFINE next == Value(Apply(cfg, e), f)
<1>5. /\ e.verb \in {"set", "unset"} => next = e.value
      /\ e.verb = "append" \/ (e.verb = "add" /\ e.section = "acls") => next = TRUE
      /\ e.verb = "drop" \/ (e.verb = "remove" /\ e.section = "acls") => next = FALSE
      /\ e.verb = "remove" /\ e.section = "devices" /\ f.field = "entry" => next = Blank
  BY <1>1, <1>2, <1>3, OwnValue
<1> HIDE DEF next
<1> QED
  BY <1>1, <1>4, <1>5 DEF e, next

\* A step after which an operation has done no more to its value than before it.
Onward(now, next) ==
  /\ next.job = now.job /\ next.first = now.first /\ (Wrote(next) <=> Wrote(now))
  /\ next.pc = 1 => next.read = <<>> \/ (now.pc = 1 /\ next.read = now.read)

LEMMA OnwardTraced ==
  ASSUME NEW now, NEW next, NEW cfg, NEW was, Traced(now, cfg, was), Onward(now, next)
  PROVE  Traced(next, cfg, was)
<1> DEFINE g == Target(now.job)
<1>1. Target(next.job) = g /\ (Remembers(next) <=> Remembers(now))
  BY DEF Onward, Remembers
<1> HIDE DEF g
<1>2. next.pc = 1 /\ Remembers(next) => ReadStill(next, g, cfg)
  <2>1. Len(<<>>) # 2
    OBVIOUS
  <2> QED
    BY <1>1, <2>1 DEF Onward, Traced, ReadStill, g
<1>3. Recalled(now, g, was) => Recalled(next, g, was)
  BY <1>1 DEF Onward, Recalled
<1> QED
  BY <1>1, <1>2, <1>3 DEF Onward, Traced, g

LEMMA QuietTrace ==
  ASSUME TraceInv, NEW s \in Sessions, \A t \in Sessions \ {s} : session'[t] = session[t],
         UNCHANGED <<files, before, touched>>, DOMAIN told' = DOMAIN told,
         session'[s].job.kind \in Undoable => Onward(session[s], session'[s])
  PROVE  TraceInv'
<1> SUFFICES ASSUME NEW t \in Sessions, session'[t].job.kind \in Undoable, ~touched[t]
             PROVE  Traced(session'[t], files, before[t])
  BY DEF TraceInv
<1>1. CASE t # s
  BY <1>1 DEF TraceInv
<1>2. CASE t = s
  <2>1. Traced(session[s], files, before[s])
    BY <1>2 DEF TraceInv, Onward
  <2> QED
    BY <1>2, <2>1, OnwardTraced
<1> QED
  BY <1>1, <1>2

LEMMA ToldLemma ==
  ASSUME NEW s, NEW outcome, NEW now,
         End(s, outcome) \/ Proceed(s, now) \/ TakeBack(s, outcome)
  PROVE  DOMAIN told' = DOMAIN told /\ \A t \in DOMAIN told \ {s} : told'[t] = told[t]
<1>1. ASSUME NEW o, End(s, o)
      PROVE  DOMAIN told' = DOMAIN told /\ \A t \in DOMAIN told \ {s} : told'[t] = told[t]
  BY <1>1 DEF End
<1>2. Proceed(s, now) => End(s, "done") \/ UNCHANGED told
  BY DEF Proceed
<1>3. TakeBack(s, outcome) => End(s, outcome) \/ UNCHANGED told
  BY DEF TakeBack
<1> QED
  BY <1>1, <1>2, <1>3

LEMMA EndTrace ==
  ASSUME EditorInv, TraceInv, NEW s \in Sessions, NEW outcome, End(s, outcome),
         UNCHANGED <<files, before, touched>>
  PROVE  TraceInv'
<1>1. Ends(s) /\ DOMAIN told' = DOMAIN told
  BY EndLemma, ToldLemma DEF EditorInv
<1>2. session'[s].job.kind \notin Undoable
  BY <1>1, IdleLemma DEF Ends, Moved, Undoable
<1> QED
  BY <1>1, <1>2, QuietTrace DEF Ends, Moved

LEMMA ProceedTrace ==
  ASSUME EditorInv, TraceInv, NEW s \in Sessions, Busy(s), session[s].pc # 0,
         NEW now, DOMAIN now = SessionFields, now.job = session[s].job, now.pc = session[s].pc,
         session[s].job.kind \in Undoable =>
           now.first = session[s].first /\ ~Writes(session[s]),
         Proceed(s, now), UNCHANGED <<files, before, touched>>
  PROVE  TraceInv'
<1>1. DOMAIN told' = DOMAIN told
  BY ToldLemma
<1>2. Ends(s) \/ GoesOn(s, now)
  BY ProceedLemma DEF EditorInv
<1>3. CASE Ends(s)
  <2>1. session'[s].job.kind \notin Undoable
    BY <1>3, IdleLemma DEF Ends, Moved, Undoable
  <2> QED
    BY <1>1, <1>3, <2>1, QuietTrace DEF Ends, Moved
<1>4. CASE GoesOn(s, now)
  <2>1. /\ session'[s].job = session[s].job /\ session'[s].first = now.first
        /\ session[s].job.kind # "rotate" => session'[s].pc = session[s].pc + 1
    BY <1>4, OnwardLemma DEF Kind
  <2>2. ASSUME session[s].job.kind \in Undoable
        PROVE  Onward(session[s], session'[s])
    <3>1. session'[s].pc = session[s].pc + 1 /\ session'[s].first = session[s].first
      BY <2>1, <2>2 DEF Undoable
    <3>2. session[s].pc \in 1 .. 8
      BY PositionsLemma, Stages DEF EditorInv, JobOK, Busy
    <3>3. Wrote(session'[s]) <=> Wrote(session[s])
      BY <2>1, <2>2, <3>1, <3>2 DEF Wrote, Writes, Undoable
    <3> QED
      BY <2>1, <3>1, <3>2, <3>3 DEF Onward
  <2> QED
    BY <1>1, <1>4, <2>1, <2>2, QuietTrace DEF GoesOn, Moved
<1> QED
  BY <1>2, <1>3, <1>4

LEMMA TakeBackTrace ==
  ASSUME EditorInv, TraceInv, NEW s \in Sessions, NEW outcome, TakeBack(s, outcome),
         session[s].job.kind \in Undoable => Wrote(session[s]),
         UNCHANGED <<files, before, touched>>
  PROVE  TraceInv'
<1>1. DOMAIN told' = DOMAIN told
  BY ToldLemma
<1>2. CASE Ends(s)
  <2>1. session'[s].job.kind \notin Undoable
    BY <1>2, IdleLemma DEF Ends, Moved, Undoable
  <2> QED
    BY <1>1, <1>2, <2>1, QuietTrace DEF Ends, Moved
<1>3. CASE StepsBack(s)
  <2>1. /\ session'[s].pc = 0 /\ session'[s].job = session[s].job
        /\ session'[s].first = session[s].first
    BY <1>3, PositionsLemma DEF EditorInv, StepsBack, Moved, SessionFields
  <2>2. session'[s].job.kind \in Undoable => Onward(session[s], session'[s])
    BY <2>1 DEF Onward, Wrote
  <2> QED
    BY <1>1, <1>3, <2>2, QuietTrace DEF StepsBack, Moved
<1> QED
  BY <1>2, <1>3, TakeBackLemma DEF EditorInv

-----------------------------------------------------------------------------
(* The steps that leave the values alone.                                  *)

LEMMA StartTrace ==
  ASSUME EditorInv, TraceInv, NEW s \in Sessions, NEW job \in Jobs[s], Start(s, job)
  PROVE  TraceInv'
<1> DEFINE next == [Idle EXCEPT !.job = job]
<1>1. /\ session' = [session EXCEPT ![s] = next] /\ UNCHANGED files
      /\ told' = [told EXCEPT ![s] = Blank]
      /\ before' = [before EXCEPT ![s] = Blank] /\ touched' = [touched EXCEPT ![s] = FALSE]
  BY DEF Start, disk
<1>2. next.job = job /\ next.pc = 1 /\ next.read = <<>> /\ next.first = <<>>
  BY IdleLemma DEF SessionFields
<1>3. session'[s] = next /\ \A t \in Sessions \ {s} : session'[t] = session[t]
  BY <1>1 DEF EditorInv, SessionsOK
<1> HIDE DEF next
<1>4. Traced(next, files, before'[s])
  <2>1. Len(<<>>) # 2
    OBVIOUS
  <2> QED
    BY <1>2, <2>1 DEF Traced, ReadStill, Wrote
<1>5. /\ DOMAIN told' = Sessions /\ DOMAIN before' = Sessions /\ DOMAIN touched' = Sessions
      /\ \A t \in Sessions \ {s} : before'[t] = before[t] /\ touched'[t] = touched[t]
  BY <1>1 DEF TraceInv
<1>6. ASSUME NEW t \in Sessions, session'[t].job.kind \in Undoable, ~touched'[t]
      PROVE  Traced(session'[t], files, before'[t])
  <2>1. CASE t = s
    BY <1>3, <1>4, <2>1
  <2>2. CASE t # s
    BY <1>3, <1>5, <1>6, <2>2 DEF TraceInv
  <2> QED
    BY <2>1, <2>2
<1> QED
  BY <1>1, <1>5, <1>6 DEF TraceInv

LEMMA ClaimTrace ==
  ASSUME EditorInv, TraceInv, NEW s \in Sessions, Claim(s)
  PROVE  TraceInv'
<1>1. DOMAIN session[s] = SessionFields /\ Claims(session[s])
  BY PositionsLemma, Positions DEF EditorInv, Claim
<1>2. UNCHANGED <<files, before, touched>>
  BY DEF Claim, disk, history
<1>3. CASE End(s, "busy")
  BY <1>2, <1>3, EndTrace
<1>4. CASE session' = [session EXCEPT ![s].pc = @ + 1] /\ UNCHANGED told
  <2>1. /\ session'[s].job = session[s].job /\ session'[s].first = session[s].first
        /\ session'[s].pc = session[s].pc + 1
        /\ \A t \in Sessions \ {s} : session'[t] = session[t]
    BY <1>1, <1>4 DEF SessionFields, EditorInv, SessionsOK
  <2>2. Onward(session[s], session'[s])
    BY <1>1, <2>1 DEF Onward, Wrote, Claims
  <2> QED
    BY <1>2, <1>4, <2>1, <2>2, QuietTrace
<1> QED
  BY <1>3, <1>4 DEF Claim

LEMMA OpenTrace ==
  ASSUME EditorInv, TraceInv, NEW s \in Sessions, Open(s)
  PROVE  TraceInv'
<1> DEFINE next == Opened(s)
<1>1. DOMAIN session[s] = SessionFields
  BY PositionsLemma DEF EditorInv
<1>2. /\ session'[s] = next /\ \A t \in Sessions \ {s} : session'[t] = session[t]
      /\ UNCHANGED <<files, before, touched, told>>
  BY DEF Open, EditorInv, SessionsOK, disk, history
<1>3. /\ next.job = session[s].job /\ next.pc = session[s].pc /\ next.read = session[s].read
      /\ next.first = session[s].first
  BY <1>1 DEF Opened, SessionFields
<1> HIDE DEF next
<1>4. Onward(session[s], session'[s])
  BY <1>2, <1>3 DEF Onward, Wrote
<1> QED
  BY <1>2, <1>4, QuietTrace

LEMMA OpenListTrace ==
  ASSUME EditorInv, TraceInv, NEW s \in Sessions, OpenList(s)
  PROVE  TraceInv'
<1> DEFINE next == [session[s] EXCEPT !.copy = <<revoked>>]
<1>1. DOMAIN session[s] = SessionFields
  BY PositionsLemma DEF EditorInv
<1>2. /\ session'[s] = next /\ \A t \in Sessions \ {s} : session'[t] = session[t]
      /\ UNCHANGED <<files, before, touched, told>>
  BY DEF OpenList, EditorInv, SessionsOK, disk, history
<1>3. /\ next.job = session[s].job /\ next.pc = session[s].pc /\ next.read = session[s].read
      /\ next.first = session[s].first
  BY <1>1 DEF SessionFields
<1> HIDE DEF next
<1>4. Onward(session[s], session'[s])
  BY <1>2, <1>3 DEF Onward, Wrote
<1> QED
  BY <1>2, <1>4, QuietTrace

LEMMA FailTrace ==
  ASSUME EditorInv, TraceInv, NEW s \in Sessions, RewriteFails(s) \/ NothingToPutBack(s)
  PROVE  TraceInv'
<1>1. CASE RewriteFails(s)
  <2>1. UNCHANGED <<files, before, touched>>
    BY <1>1 DEF RewriteFails, disk
  <2>2. PICK outcome : End(s, outcome)
    BY <1>1 DEF RewriteFails
  <2> QED
    BY <2>1, <2>2, EndTrace
<1>2. CASE NothingToPutBack(s)
  <2>1. UNCHANGED <<files, before, touched>> /\ End(s, "cancelled")
    BY <1>2 DEF NothingToPutBack, disk, history
  <2> QED
    BY <2>1, EndTrace
<1> QED
  BY <1>1, <1>2

\* A session that is past its edit, or has none, goes on or ends.
LEMMA PassTrace ==
  ASSUME EditorInv, TraceInv, NEW s \in Sessions, Busy(s), session[s].pc # 0, ~Writes(session[s]),
         NEW now, DOMAIN now = SessionFields, now.job = session[s].job, now.pc = session[s].pc,
         now.first = session[s].first,
         Proceed(s, now) \/ \E outcome : End(s, outcome),
         UNCHANGED <<files, before, touched>>
  PROVE  TraceInv'
BY ProceedTrace, EndTrace

LEMMA RotateKeyTrace ==
  ASSUME EditorInv, TraceInv, NEW s \in Sessions, RotateKey(s)
  PROVE  TraceInv'
<1> DEFINE now == [session[s] EXCEPT !.key = made']
<1>1. /\ session[s].pc = 2 /\ session[s].job.kind = "rotate" /\ Busy(s) /\ ~Writes(session[s])
      /\ DOMAIN session[s] = SessionFields
  BY PositionsLemma, Positions DEF EditorInv, RotateKey, At, Writes
<1>2. UNCHANGED <<files, before, touched>>
  BY DEF RotateKey, history
<1>3. /\ DOMAIN now = SessionFields /\ now.job = session[s].job /\ now.pc = session[s].pc
      /\ now.first = session[s].first
  BY <1>1 DEF SessionFields
<1>4. Proceed(s, now) \/ \E outcome : End(s, outcome)
  BY DEF RotateKey
<1> HIDE DEF now
<1> QED
  BY <1>1, <1>2, <1>3, <1>4, PassTrace

LEMMA ReadRevocationsTrace ==
  ASSUME EditorInv, TraceInv, NEW s \in Sessions, ReadRevocations(s)
  PROVE  TraceInv'
<1> DEFINE now == [session[s] EXCEPT !.list = revoked]
<1>1. /\ Busy(s) /\ session[s].pc # 0 /\ ~Writes(session[s]) /\ DOMAIN session[s] = SessionFields
  BY PositionsLemma, Positions DEF EditorInv, ReadRevocations, At, Writes
<1>2. UNCHANGED <<files, before, touched>>
  BY DEF ReadRevocations, disk, history
<1>3. /\ DOMAIN now = SessionFields /\ now.job = session[s].job /\ now.pc = session[s].pc
      /\ now.first = session[s].first
  BY <1>1 DEF SessionFields
<1>4. Proceed(s, now) \/ \E outcome : End(s, outcome)
  BY DEF ReadRevocations
<1> HIDE DEF now
<1> QED
  BY <1>1, <1>2, <1>3, <1>4, PassTrace

LEMMA SendTrace ==
  ASSUME EditorInv, TraceInv, NEW s \in Sessions, Send(s)
  PROVE  TraceInv'
<1> DEFINE now == [session[s] EXCEPT !.left = @ \ {Device(s)}]
<1>1. /\ Busy(s) /\ session[s].pc # 0 /\ ~Writes(session[s]) /\ DOMAIN session[s] = SessionFields
  BY PositionsLemma, Positions DEF EditorInv, Send, At, Writes
<1>2. UNCHANGED <<files, before, touched>>
  BY DEF Send, disk
<1>3. /\ DOMAIN now = SessionFields /\ now.job = session[s].job /\ now.pc = session[s].pc
      /\ now.first = session[s].first
  BY <1>1 DEF SessionFields
<1>4. Proceed(s, now) \/ \E outcome : End(s, outcome)
  BY DEF Send
<1> HIDE DEF now
<1> QED
  BY <1>1, <1>2, <1>3, <1>4, PassTrace

LEMMA SaveTrace ==
  ASSUME EditorInv, TraceInv, NEW s \in Sessions, Save(s)
  PROVE  TraceInv'
<1>1. /\ Busy(s) /\ session[s].pc # 0 /\ ~Writes(session[s]) /\ DOMAIN session[s] = SessionFields
  BY PositionsLemma, Positions DEF EditorInv, Save, At, Saves, Writes
<1>2. UNCHANGED <<files, before, touched>>
  BY DEF Save, disk
<1>3. Proceed(s, session[s]) \/ \E outcome : End(s, outcome)
  BY DEF Save
<1> QED
  BY <1>1, <1>2, <1>3, PassTrace

LEMMA RewriteListTrace ==
  ASSUME EditorInv, TraceInv, NEW s \in Sessions, RewriteList(s)
  PROVE  TraceInv'
<1> DEFINE now == [session[s] EXCEPT !.copy = <<>>]
<1>1. /\ Busy(s) /\ session[s].pc # 0 /\ ~Writes(session[s]) /\ DOMAIN session[s] = SessionFields
  BY PositionsLemma, Positions DEF EditorInv, RewriteList, At, Lists, Writes
<1>2. UNCHANGED <<files, before, touched>>
  BY DEF RewriteList
<1>3. /\ DOMAIN now = SessionFields /\ now.job = session[s].job /\ now.pc = session[s].pc
      /\ now.first = session[s].first
  BY <1>1 DEF SessionFields
<1>4. Proceed(s, now) \/ \E outcome : End(s, outcome)
  BY DEF RewriteList
<1> HIDE DEF now
<1> QED
  BY <1>1, <1>2, <1>3, <1>4, PassTrace

LEMMA StoreKeyTrace ==
  ASSUME EditorInv, TraceInv, NEW s \in Sessions, StoreKey(s)
  PROVE  TraceInv'
<1>1. /\ Busy(s) /\ session[s].pc # 0 /\ ~Writes(session[s]) /\ DOMAIN session[s] = SessionFields
      /\ session[s].job.kind \in Undoable => Wrote(session[s])
  BY PositionsLemma, Positions DEF EditorInv, StoreKey, At, Writes, Wrote, Undoable
<1>2. UNCHANGED <<files, before, touched>>
  BY DEF StoreKey, history
<1>3. Proceed(s, session[s]) \/ TakeBack(s, "interrupted")
  BY DEF StoreKey
<1> QED
  BY <1>1, <1>2, <1>3, PassTrace, TakeBackTrace

LEMMA DieTrace ==
  ASSUME EditorInv, TraceInv, NEW process \in {Bot} \cup {{s} : s \in Shells}, Die(process)
  PROVE  TraceInv'
<1>1. /\ \A t \in Sessions : session'[t] = IF t \in process THEN Idle ELSE session[t]
      /\ UNCHANGED <<files, before, touched, told>>
  BY DEF Die, disk
<1>2. Idle.job.kind \notin Undoable
  BY IdleLemma DEF Undoable
<1>3. ASSUME NEW t \in Sessions, session'[t].job.kind \in Undoable, ~touched[t]
      PROVE  Traced(session'[t], files, before[t])
  BY <1>1, <1>2, <1>3 DEF TraceInv
<1> QED
  BY <1>1, <1>3 DEF TraceInv

-----------------------------------------------------------------------------
(* What is read is followed to where it is kept.                           *)

\* The target of what is going on, and where it may be.
LEMMA HeldTarget ==
  ASSUME EditorInv, NEW s \in Sessions, session[s].job.kind \in Undoable
  PROVE  /\ IsTarget(Target(session[s].job)) /\ SameTarget(Forward(s), Target(session[s].job))
         /\ Busy(s) /\ JobOK(s, session[s])
<1>1. JobOK(s, session[s])
  BY PositionsLemma DEF EditorInv
<1>2. Busy(s)
  BY IdleLemma DEF Busy, Undoable
<1> QED
  BY <1>1, <1>2, TargetLemma

LEMMA ReadFileTrace ==
  ASSUME EditorInv, TraceInv, NEW s \in Sessions, ReadFile(s)
  PROVE  TraceInv'
<1> DEFINE read == session[s].read
           file == Only(files, Parts[Len(read) + 1])
           next == [session[s] EXCEPT !.read = Append(read, file)]
           g == Target(session[s].job)
<1>1. NowOK(s, session[s]) /\ DOMAIN session[s] = SessionFields
  BY PositionsLemma DEF EditorInv
<1>2. /\ session'[s] = next /\ Len(read) < Len(Parts) - 1
      /\ \A t \in Sessions \ {s} : session'[t] = session[t]
      /\ UNCHANGED <<files, before, touched, told>>
  BY DEF ReadFile, EditorInv, SessionsOK, disk, history
<1>3. /\ next.job = session[s].job /\ next.pc = session[s].pc /\ next.read = Append(read, file)
      /\ next.first = session[s].first
  BY <1>1 DEF SessionFields
<1>4. ASSUME session[s].job.kind \in Undoable, Remembers(session[s]), ReadStill(session[s], g, files)
      PROVE  ReadStill(next, g, files)
  <2>0. IsTarget(g)
    BY <1>4, HeldTarget
  <2>1. Len(Parts) = 3 /\ Parts[1] = {"hub", "acls"} /\ Parts[2] = {"devices"}
    BY DEF Parts
  <2>2. \A P \in SUBSET DOMAIN files : g.section \in P => Value(Only(files, P), g) = Value(files, g)
    BY <2>0, OnlyValue
  <2>3. {"hub", "acls"} \in SUBSET DOMAIN files /\ {"devices"} \in SUBSET DOMAIN files
    BY DEF EditorInv, FilesOK, Known
  <2> HIDE DEF g
  <2>4. CASE read = <<>>
    <3>1. file = Only(files, {"hub", "acls"})
      <4>1. Len(<<>>) + 1 = 1
        OBVIOUS
      <4> QED
        BY <2>1, <2>4, <4>1
    <3> HIDE DEF file
    <3>2. next.read = <<file>>
      BY <1>3, <2>4
    <3>3. next.read[1] = file /\ Len(next.read) = 1
      BY <3>2
    <3> QED
      BY <2>2, <2>3, <3>1, <3>3 DEF ReadStill
  <2>5. CASE read = <<read[1]>>
    <3>0. \A x : Len(<<x>>) = 1 /\ <<x>> # <<>>
      OBVIOUS
    <3>1. Len(read) = 1 /\ read # <<>>
      BY <2>5, <3>0, Zenon
    <3>2. file = Only(files, {"devices"})
      <4>1. Len(read) + 1 = 2
        BY <3>1
      <4> QED
        BY <2>1, <4>1, Zenon
    <3>3. g.section = "hub" => Value(read[1], g) = Value(files, g)
      BY <1>4, <3>1 DEF ReadStill
    <3> HIDE DEF file, read, next
    <3>4. next.read = <<read[1], file>>
      BY <1>3, <2>5, AppendLemma
    <3>5. next.read[1] = read[1] /\ next.read[2] = file
      BY <3>4
    <3> QED
      BY <2>2, <2>3, <3>2, <3>3, <3>5 DEF ReadStill
  <2>6. CASE read = <<read[1], read[2]>>
    <3>1. Len(read) = 2
      BY <2>6
    <3> QED
      BY <1>2, <2>1, <3>1
  <2> QED
    BY <1>1, <2>4, <2>5, <2>6 DEF NowOK, ReadOK
<1> HIDE DEF next, read, file
<1>5. ASSUME session[s].job.kind \in Undoable, Traced(session[s], files, before[s])
      PROVE  Traced(next, files, before[s])
  <2>1. Target(next.job) = g /\ (Remembers(next) <=> Remembers(session[s]))
        /\ (Wrote(next) <=> Wrote(session[s]))
        /\ (Recalled(next, g, before[s]) <=> Recalled(session[s], g, before[s]))
    BY <1>3 DEF Remembers, Wrote, Recalled
  <2> QED
    BY <1>3, <1>4, <1>5, <2>1 DEF Traced
<1>6. ASSUME NEW t \in Sessions, session'[t].job.kind \in Undoable, ~touched[t]
      PROVE  Traced(session'[t], files, before[t])
  <2>1. CASE t = s
    BY <1>2, <1>3, <1>5, <1>6, <2>1 DEF TraceInv
  <2>2. CASE t # s
    BY <1>2, <1>6, <2>2 DEF TraceInv
  <2> QED
    BY <2>1, <2>2
<1> QED
  BY <1>2, <1>6 DEF TraceInv

\* What is read at the beginning is kept.
LEMMA KeepsFirst ==
  ASSUME EditorInv, TraceInv, NEW s \in Sessions, Loads(session[s]),
         NEW cfg, cfg.hub = session[s].read[1].hub, cfg.devices = session[s].read[2].devices,
         cfg.tunnels = files.tunnels, Len(session[s].read) = 2,
         NEW now, DOMAIN now = SessionFields, now.job = session[s].job, now.pc = session[s].pc,
         now.first = <<cfg>>, now.read = <<>>,
         GoesOn(s, now), DOMAIN told' = DOMAIN told, UNCHANGED <<files, before, touched>>
  PROVE  TraceInv'
<1> DEFINE g == Target(session[s].job)
           read == session[s].read
<1>1. now.first[1] = cfg /\ now.first # <<>>
  OBVIOUS
<1>2. /\ session'[s].job = session[s].job /\ session'[s].first = now.first /\ session'[s].read = <<>>
      /\ session[s].job.kind # "rotate" => session'[s].pc = session[s].pc + 1
      /\ \A t \in Sessions \ {s} : session'[t] = session[t]
  BY OnwardLemma DEF Kind, GoesOn, Moved
<1>3. ASSUME session[s].job.kind \in Undoable, ~touched[s]
      PROVE  Traced(session'[s], files, before[s])
  <2>1. IsTarget(g) /\ Traced(session[s], files, before[s])
    BY <1>3, HeldTarget DEF TraceInv
  <2>2. session[s].pc = 1 /\ session'[s].pc = 2 /\ session[s].job.kind # "edit"
    BY <1>2, <1>3 DEF Loads, Undoable
  <2>3. ~Wrote(session'[s])
    BY <1>2, <1>3, <2>2 DEF Wrote, Undoable
  <2>4. Target(session'[s].job) = g /\ (Remembers(session'[s]) <=> Remembers(session[s]))
    BY <1>2 DEF Remembers
  <2>5. Remembers(session[s]) => ReadStill(session[s], g, files)
    BY <2>1, <2>2 DEF Traced
  <2>6. Remembers(session[s]) => g.section \in {"hub", "devices", "tunnels"}
    BY <2>1 DEF Remembers, IsTarget, Scalar
  <2>7. read # <<>>
    <3>1. Len(<<>>) # 2
      OBVIOUS
    <3> QED
      BY <3>1
  <2> HIDE DEF g
  <2>8. ASSUME Remembers(session[s])
        PROVE  Value(cfg, g) = Value(files, g)
    <3>1. CASE g.section = "hub"
      <4>1. Value(cfg, g) = Value(read[1], g)
        BY <2>1, <3>1, SectionValue
      <4> QED
        BY <2>5, <2>7, <2>8, <3>1, <4>1 DEF ReadStill
    <3>2. CASE g.section = "devices"
      <4>1. Value(cfg, g) = Value(read[2], g)
        BY <2>1, <3>2, SectionValue
      <4> QED
        BY <2>5, <2>8, <3>2, <4>1 DEF ReadStill
    <3>3. CASE g.section = "tunnels"
      BY <2>1, <3>3, SectionValue
    <3> QED
      BY <2>6, <2>8, <3>1, <3>2, <3>3
  <2> QED
    BY <1>1, <1>2, <2>2, <2>3, <2>4, <2>8 DEF Traced
<1>4. ASSUME NEW t \in Sessions, session'[t].job.kind \in Undoable, ~touched[t]
      PROVE  Traced(session'[t], files, before[t])
  BY <1>2, <1>3, <1>4 DEF TraceInv
<1> QED
  BY <1>4 DEF TraceInv

LEMMA LoadTrace ==
  ASSUME EditorInv, TraceInv, NEW s \in Sessions, LoadAndValidate(s)
  PROVE  TraceInv'
<1> DEFINE read == session[s].read
           cfg == [hub |-> read[1].hub, acls |-> read[1].acls, devices |-> read[2].devices,
                   tunnels |-> files.tunnels]
           now == [session[s] EXCEPT !.read = <<>>]
           known == session[s].job.device \in {Blank} \cup DOMAIN cfg.devices \/ Kind(s) = "add"
           loaded == [now EXCEPT !.first = <<cfg>>, !.left = DOMAIN cfg.devices]
           rotated == [now EXCEPT !.first = <<[@[1] EXCEPT !.hub = cfg.hub]>>]
<1>1. /\ DOMAIN session[s] = SessionFields
      /\ At(s, "load") <=> Loads(session[s])
      /\ At(s, "check") <=> Checks(session[s])
      /\ Loads(session[s]) \/ Checks(session[s]) \/ Finishes(session[s])
  BY PositionsLemma, Positions DEF EditorInv, LoadAndValidate, Reading
<1>2. /\ Busy(s) /\ session[s].pc # 0 /\ ~Writes(session[s])
      /\ Checks(session[s]) /\ session[s].job.kind \in Undoable => Wrote(session[s])
  BY <1>1, IdleLemma DEF Busy, Loads, Checks, Finishes, Writes, Wrote, Undoable
<1>3. UNCHANGED <<files, before, touched>> /\ Len(read) = 2
  <2>1. Len(Parts) = 3
    BY DEF Parts
  <2>2. Len(session[s].read) = Len(Parts) - 1
    BY Zenon DEF LoadAndValidate
  <2>3. UNCHANGED <<files, before, touched>>
    BY DEF LoadAndValidate, disk, history
  <2> QED
    BY <2>1, <2>2, <2>3
<1>4. /\ DOMAIN now = SessionFields /\ now.job = session[s].job /\ now.pc = session[s].pc
      /\ now.read = <<>> /\ now.first = session[s].first
  BY <1>1 DEF SessionFields
<1>5. cfg.hub = read[1].hub /\ cfg.devices = read[2].devices /\ cfg.tunnels = files.tunnels
  OBVIOUS
<1> HIDE DEF cfg, now
<1>6. CASE At(s, "check") /\ TakeBack(s, "invalid")
  BY <1>1, <1>2, <1>3, <1>6, TakeBackTrace
<1>7. ASSUME NEW outcome, End(s, outcome)
      PROVE  TraceInv'
  BY <1>3, <1>7, EndTrace
<1>8. CASE Proceed(s, now)
  BY <1>2, <1>3, <1>4, <1>8, ProceedTrace
<1>9. CASE At(s, "load") /\ Proceed(s, loaded)
  <2>1. /\ DOMAIN loaded = SessionFields /\ loaded.job = session[s].job
        /\ loaded.pc = session[s].pc /\ loaded.read = <<>> /\ loaded.first = <<cfg>>
    BY <1>4 DEF SessionFields
  <2>2. Proceed(s, loaded)
    BY <1>9
  <2> HIDE DEF loaded
  <2>3. Ends(s) \/ GoesOn(s, loaded)
    BY <1>2, <2>1, <2>2, ProceedLemma DEF EditorInv
  <2>4. DOMAIN told' = DOMAIN told
    BY <2>2, ToldLemma
  <2>5. CASE Ends(s)
    <3>1. session'[s].job.kind \notin Undoable
      BY <2>5, IdleLemma DEF Ends, Moved, Undoable
    <3> QED
      BY <1>3, <2>4, <2>5, <3>1, QuietTrace DEF Ends, Moved
  <2>6. CASE GoesOn(s, loaded)
    <3>1. Loads(session[s])
      BY <1>1, <1>9
    <3> QED
      BY <1>3, <1>5, <2>1, <2>4, <2>6, <3>1, KeepsFirst
  <2> QED
    BY <2>3, <2>5, <2>6
<1>10. CASE Kind(s) = "rotate" /\ Proceed(s, rotated)
  <2>1. /\ DOMAIN rotated = SessionFields /\ rotated.job = session[s].job
        /\ rotated.pc = session[s].pc
    BY <1>4 DEF SessionFields
  <2> HIDE DEF rotated
  <2>2. session[s].job.kind \notin Undoable
    BY <1>10 DEF Kind, Undoable
  <2> QED
    BY <1>2, <1>3, <1>10, <2>1, <2>2, ProceedTrace
<1>11. CASE Proceed(s, IF Kind(s) = "rotate" THEN rotated ELSE now)
  BY <1>8, <1>10, <1>11
<1> QED
  BY <1>6, <1>7, <1>8, <1>9, <1>11 DEF LoadAndValidate, cfg, now, read

-----------------------------------------------------------------------------
(* The rewrite of a file.                                                  *)

\* An asked edit is a target.
LEMMA AskedTarget ==
  ASSUME NEW e \in Asked
  PROVE  IsTarget(e) /\ e = Edit(e.verb, e.section, e.id, e.field, e.value)
<1>1. EditsAField(e)
  BY AskedLemma
<1> QED
  BY <1>1 DEF EditsAField, IsTarget, Scalar, HubFields

\* Whether a tunnel is enabled is known before and after every edit.
LEMMA EnabledEdit ==
  ASSUME NEW e \in AllEdits, e.section = "tunnels", e.field = "enabled"
  PROVE  e.value \in BOOLEAN
<1>1. CASE e \in Asked
  BY <1>1, AskedLemma DEF EditsAField
<1>2. CASE e \in Undone
  <2>1. ASSUME NEW f \in Asked, NEW v \in Values(f), Undo(f, v).field = "enabled"
        PROVE  Undo(f, v).value \in BOOLEAN
    <3>1. IsTarget(f) /\ f = Edit(f.verb, f.section, f.id, f.field, f.value)
      BY AskedTarget
    <3>2. /\ Undo(f, v).field = f.field
          /\ f.field = "enabled" => Undo(f, v).value = ~f.value
      BY <3>1, UndoOf
    <3> QED
      BY <2>1, <3>2
  <2> QED
    BY <1>2, <2>1 DEF Undone
<1>3. e \notin Rekeyed \cup KeysPutBack \cup Added \cup Removed \cup Rotated
  <2>1. e \notin Rekeyed
    BY DEF Rekeyed, SetDevice, Edit
  <2>2. e \notin KeysPutBack
    BY KeyShape DEF KeysPutBack, Edit
  <2>3. e \notin Added \cup Removed
    BY DEF Added, Removed, AddDevice, RemoveDevice, Edit
  <2>4. e \notin Rotated
    BY DEF Rotated, SetHub, Edit
  <2> QED
    BY <2>1, <2>2, <2>3, <2>4
<1> QED
  BY <1>1, <1>2, <1>3 DEF AllEdits

EnabledKnown(tunnels) == \A t \in DOMAIN tunnels : tunnels[t].enabled \in BOOLEAN
LEMMA EnabledStays ==
  ASSUME NEW cfg, Known(cfg), EnabledKnown(cfg.tunnels), NEW e \in AllEdits
  PROVE  EnabledKnown(Apply(cfg, e).tunnels)
<1> DEFINE next == Apply(cfg, e)
<1>1. DOMAIN cfg = {"hub", "devices", "tunnels", "acls"} /\ Shaped(e)
  BY ShapeLemma DEF Known
<1>2. CASE e.section # "tunnels"
  <2>1. next.tunnels = cfg.tunnels
    BY <1>1, <1>2, ApplyElsewhere
  <2> QED
    BY <2>1
<1>3. CASE OfTunnel(e)
  <2> DEFINE X == [cfg.tunnels EXCEPT ![e.id][e.field] = e.value]
  <2>1. next = [cfg EXCEPT !["tunnels"] = X]
    BY <1>1, <1>3, ApplyByCase
  <2>2. e.field = "probe" \/ (e.field = "enabled" /\ e.value \in BOOLEAN)
    BY <1>3, EnabledEdit DEF OfTunnel
  <2>3. ASSUME NEW t \in DOMAIN X
        PROVE  X[t].enabled \in BOOLEAN
    <3>1. t \in DOMAIN cfg.tunnels /\ cfg.tunnels[t].enabled \in BOOLEAN
          /\ DOMAIN cfg.tunnels[t] = TunnelFields
      BY DEF EnabledKnown, Known, KnownTunnels
    <3>2. X[t].enabled = cfg.tunnels[t].enabled \/ (X[t].enabled = e.value /\ e.field = "enabled")
      <4>1. CASE t = e.id
        <5>1. X[t] = [cfg.tunnels[t] EXCEPT ![e.field] = e.value]
          BY <3>1, <4>1
        <5> HIDE DEF X
        <5>2. CASE e.field = "enabled"
          BY <3>1, <5>1, <5>2 DEF TunnelFields
        <5>3. CASE e.field # "enabled"
          BY <3>1, <5>1, <5>3 DEF TunnelFields
        <5> QED
          BY <5>2, <5>3
      <4>2. CASE t # e.id
        BY <3>1, <4>2
      <4> QED
        BY <4>1, <4>2
    <3> HIDE DEF X
    <3> QED
      BY <2>2, <3>1, <3>2
  <2> HIDE DEF X
  <2>4. next.tunnels = X
    BY <1>1, <2>1
  <2> QED
    BY <2>3, <2>4 DEF EnabledKnown
<1>4. CASE OfList(e)
  <2> DEFINE X == [cfg.tunnels EXCEPT ![e.id][e.field] =
                     IF e.verb = "append" THEN @ \cup {e.value} ELSE @ \ {e.value}]
  <2>1. next = [cfg EXCEPT !["tunnels"] = X]
    BY <1>1, <1>4, ApplyByCase
  <2>2. e.field # "enabled"
    BY <1>4 DEF OfList
  <2>3. ASSUME NEW t \in DOMAIN X
        PROVE  X[t].enabled \in BOOLEAN
    <3>1. t \in DOMAIN cfg.tunnels /\ cfg.tunnels[t].enabled \in BOOLEAN
      BY DEF EnabledKnown
    <3>2. X[t].enabled = cfg.tunnels[t].enabled
      BY <2>2, <3>1
    <3> HIDE DEF X
    <3> QED
      BY <3>1, <3>2
  <2> HIDE DEF X
  <2>4. next.tunnels = X
    BY <1>1, <2>1
  <2> QED
    BY <2>3, <2>4 DEF EnabledKnown
<1> QED
  BY <1>1, <1>2, <1>3, <1>4 DEF Shaped, OfHub, OfDevice, Adds, Removes, OfRules

\* An operation the edit of another does not concern.
LEMMA OtherTrace ==
  ASSUME EditorInv, NEW t \in Sessions, session[t].job.kind \in Undoable,
         NEW e \in AllEdits, ~Concerns(e, Forward(t)),
         NEW was, Traced(session[t], files, was)
  PROVE  Traced(session[t], Apply(files, e), was)
<1> DEFINE g == Target(session[t].job)
           next == Apply(files, e)
<1>1. IsTarget(g) /\ SameTarget(Forward(t), g)
  BY HeldTarget
<1> HIDE DEF g, next
<1>2. ~Concerns(e, g)
  <2>1. e.section = "devices" => e.verb \notin {"append", "drop"}
    BY ShapeLemma DEF Shaped, OfHub, OfDevice, Adds, Removes, OfRules, OfTunnel, OfList
  <2> QED
    BY <1>1, <2>1 DEF Concerns, SameTarget
<1>3. Remembers(session[t]) => Value(next, g) = Value(files, g)
  BY <1>1, <1>2, FrameLemma DEF EditorInv, FilesOK, Remembers, g, next
<1>4. Remembers(session[t]) /\ ReadStill(session[t], g, files) => ReadStill(session[t], g, next)
  BY <1>3 DEF ReadStill
<1> QED
  BY <1>3, <1>4 DEF Traced, g, next

\* What an edit is found to replace.
LEMMA FoundLemma ==
  ASSUME NEW cfg, EnabledKnown(cfg.tunnels), NEW f, IsTarget(f), Applies(cfg, f)
  PROVE  /\ f.field = "enabled" => Value(cfg, f) \in BOOLEAN
         /\ f.field = "entry" => Value(cfg, f) = Blank
         /\ f.verb = "append" \/ (f.verb = "add" /\ f.section = "acls") => Value(cfg, f) = FALSE
         /\ f.verb = "drop" \/ (f.verb = "remove" /\ f.section = "acls") => Value(cfg, f) = TRUE
<1>1. CASE f.field = "enabled"
  <2>1. f.section = "tunnels" /\ f.verb = "set"
    BY <1>1 DEF IsTarget, Scalar
  <2>2. f.id \in DOMAIN cfg.tunnels
    BY <2>1 DEF Applies
  <2>3. Value(cfg, f) = cfg.tunnels[f.id].enabled
    BY <1>1, <2>1, <2>2, ValueByCase DEF TunnelValue
  <2> QED
    BY <1>1, <2>1, <2>2, <2>3 DEF EnabledKnown
<1>2. CASE f.field = "entry"
  <2>1. f.section = "devices" /\ f.verb = "add"
    BY <1>2 DEF IsTarget, Scalar, HubFields
  <2>2. f.id \notin DOMAIN cfg.devices
    BY <2>1 DEF Applies
  <2> QED
    BY <1>2, <2>1, <2>2, ValueByCase DEF DeviceValue
<1>3. CASE f.verb \in {"append", "drop"}
  <2>1. f.section = "tunnels" /\ f.field \notin {"enabled", "entry"}
    BY <1>3 DEF IsTarget, Scalar
  <2>2. Value(cfg, f) = (f.value \in cfg.tunnels[f.id][f.field])
    BY <1>3, <2>1, ValueByCase
  <2>3. /\ f.verb = "append" => f.value \notin cfg.tunnels[f.id][f.field]
        /\ f.verb = "drop" => f.value \in cfg.tunnels[f.id][f.field]
    BY <1>3 DEF Applies
  <2> DEFINE list == cfg.tunnels[f.id][f.field]
  <2> HIDE DEF list
  <2>4. (f.verb = "append" => Value(cfg, f) = FALSE) /\ (f.verb = "drop" => Value(cfg, f) = TRUE)
    <3>1. (f.value \in list => Value(cfg, f) = TRUE) /\ (f.value \notin list => Value(cfg, f) = FALSE)
      BY <2>2, MemberLemma DEF list
    <3> QED
      BY <2>3, <3>1 DEF list
  <2> QED
    BY <1>3, <2>1, <2>4
<1>4. CASE f.section = "acls"
  <2>1. f.field = "rule" /\ f.verb \in {"add", "remove"}
    BY <1>4 DEF IsTarget
  <2>2. Value(cfg, f) = (f.value \in cfg.acls)
    BY <1>4, ValueByCase
  <2>3. (f.verb = "add" => f.value \notin cfg.acls) /\ (f.verb = "remove" => f.value \in cfg.acls)
    BY <1>4, <2>1 DEF Applies
  <2>4. (f.verb = "add" => Value(cfg, f) = FALSE) /\ (f.verb = "remove" => Value(cfg, f) = TRUE)
    BY <2>2, <2>3, MemberLemma
  <2> QED
    BY <1>4, <2>1, <2>4
<1>5. CASE f.field \notin {"enabled", "entry"} /\ f.verb \notin {"append", "drop"} /\ f.section # "acls"
  BY <1>5
<1> QED
  BY <1>1, <1>2, <1>3, <1>4, <1>5

\* The step of the session that writes.
LEMMA OwnTrace ==
  ASSUME EditorInv, TraceInv, NEW s \in Sessions, Rewrite(s), ~Undoing(s),
         session'[s].job.kind \in Undoable,
         session[s].job.kind \in Peeking => ~touched[s]
  PROVE  Traced(session'[s], files', before'[s])
<1> DEFINE now == [session[s] EXCEPT !.copy = <<>>]
           copy == session[s].copy[1]
           f == Forward(s)
           g == Target(session[s].job)
<1>1. /\ NowOK(s, session[s]) /\ DOMAIN session[s] = SessionFields
      /\ Rewrites(session[s]) /\ session[s].copy # <<>> /\ session[s].pc # 0
  BY PositionsLemma, Positions DEF EditorInv, Rewrite, Replace
<1>2. Proceed(s, now) /\ before' = [before EXCEPT ![s] = Value(copy, f)]
  BY DEF Rewrite, Wanted
<1>3. /\ DOMAIN now = SessionFields /\ now.job = session[s].job /\ now.pc = session[s].pc
      /\ now.read = session[s].read /\ now.first = session[s].first
  BY <1>1 DEF SessionFields
<1>4. Writes(session[s]) \/ Rekeys(session[s])
  BY <1>1 DEF Rewrites, Restores
<1>5. Busy(s)
  BY <1>4, IdleLemma DEF Writes, Rekeys, Busy
<1> HIDE DEF now
<1>6. /\ session'[s].job = session[s].job /\ session'[s].first = session[s].first
      /\ session[s].job.kind # "rotate" => session'[s].pc = session[s].pc + 1
  <2>1. GoesOn(s, now) \/ Ends(s)
    BY <1>1, <1>2, <1>3, <1>5, ProceedLemma DEF EditorInv
  <2>2. ~Ends(s)
    BY IdleLemma DEF Ends, Moved, Undoable
  <2> QED
    BY <1>3, <2>1, <2>2, OnwardLemma DEF Kind
<1>7. IsTarget(g) /\ SameTarget(f, g)
  BY <1>6, HeldTarget
<1>8. Writes(session[s]) /\ Wrote(session'[s]) /\ ~Wrote(session[s]) /\ session'[s].pc # 1
  BY <1>4, <1>6 DEF Writes, Rekeys, Wrote, Undoable
<1>9. Value(copy, f) = Value(files, g)
  <2>1. copy = Only(files, PartOf(f))
    BY <1>1, HolderLemma
  <2>2. IsTarget(f) /\ Value(files, f) = Value(files, g)
    BY <1>7, SameTargetLemma
  <2>3. PartOf(f) \in SUBSET DOMAIN files /\ f.section \in PartOf(f)
    BY <2>2, PartLemma DEF EditorInv, FilesOK, Known, IsTarget
  <2> QED
    BY <2>1, <2>2, <2>3, OnlyValue
<1>10. Applies(files, f)
  BY RewriteLemma DEF Rewrite, Wanted
<1>11. Remembers(session'[s]) /\ session'[s].first # <<>> => Value(files, g) = Value(session'[s].first[1], g)
  <2>1. ASSUME Remembers(session'[s]), session'[s].first # <<>>
        PROVE  Value(files, g) = Value(session'[s].first[1], g)
    <3>1. Remembers(session[s]) /\ session[s].first # <<>> /\ ~touched[s]
      BY <1>6, <2>1 DEF Remembers
    <3>2. Traced(session[s], files, before[s])
      BY <1>6, <3>1 DEF TraceInv
    <3> QED
      BY <1>6, <1>8, <3>1, <3>2 DEF Traced
  <2> QED
    BY <2>1
<1>12. /\ f.field = "enabled" => Value(files, f) \in BOOLEAN
       /\ f.field = "entry" => Value(files, f) = Blank
       /\ f.verb = "append" \/ (f.verb = "add" /\ f.section = "acls") => Value(files, f) = FALSE
       /\ f.verb = "drop" \/ (f.verb = "remove" /\ f.section = "acls") => Value(files, f) = TRUE
  <2>1. EnabledKnown(files.tunnels) /\ IsTarget(f)
    BY <1>7, SameTargetLemma DEF TraceInv, EnabledKnown
  <2> QED
    BY <1>10, <2>1, FoundLemma
<1>13. Value(files, f) = Value(files, g)
  BY <1>7, SameTargetLemma
<1>14. before'[s] = Value(files, g)
  BY <1>2, <1>9 DEF TraceInv
<1>15. f.field = g.field /\ f.verb = g.verb /\ f.section = g.section
  BY <1>7 DEF SameTarget
<1> HIDE DEF f, g, copy
<1>16. Recalled(session'[s], g, before'[s])
  BY <1>11, <1>12, <1>13, <1>14, <1>15 DEF Recalled
<1> QED
  BY <1>6, <1>8, <1>16 DEF Traced, g

LEMMA RewriteTrace ==
  ASSUME EditorInv, TraceInv, NEW s \in Sessions, Replaces(s)
  PROVE  TraceInv'
<1> DEFINE e == Wanted(s)
           now == [session[s] EXCEPT !.copy = <<>>]
           others == {t \in Sessions \ {s} : Busy(t) /\ Kind(t) \in Undoable /\ Concerns(e, Forward(t))}
<1>1. /\ (\E outcome : End(s, outcome)) \/ (Proceed(s, now) /\ Rewrite(s) /\ ~Undoing(s))
      /\ before' = before \/ before' = [before EXCEPT ![s] = Value(session[s].copy[1], e)]
      /\ touched' = [t \in Sessions |->
                       \/ t \in others
                       \/ (touched[t] /\ (t = s => (Undoing(s) \/ Kind(s) \in Peeking)))]
  BY DEF Replaces, Rewrite, RewriteFailsLate, Replace
<1>2. e \in AllEdits /\ files' = Apply(files, e)
  BY RewriteLemma DEF Replaces, Rewrite, RewriteFailsLate
<1>3. DOMAIN told' = Sessions
  BY <1>1, ToldLemma DEF TraceInv
<1>4. \A t \in Sessions \ {s} : session'[t] = session[t]
  BY <1>1 DEF End, Proceed, EditorInv, SessionsOK
<1>5. /\ DOMAIN before' = Sessions /\ DOMAIN touched' = Sessions
      /\ \A t \in Sessions \ {s} : before'[t] = before[t]
  BY <1>1 DEF TraceInv
<1>6. /\ \A t \in Sessions \ {s} : ~touched'[t] => t \notin others /\ ~touched[t]
      /\ ~touched'[s] /\ Kind(s) \in Peeking => ~touched[s]
  BY <1>1, Zenon
<1>7. \A t \in DOMAIN files'.tunnels : files'.tunnels[t].enabled \in BOOLEAN
  <2>1. Known(files) /\ EnabledKnown(files.tunnels)
    BY DEF EditorInv, FilesOK, TraceInv, EnabledKnown
  <2> QED
    BY <1>2, <2>1, EnabledStays DEF EnabledKnown
<1>8. ASSUME NEW t \in Sessions, session'[t].job.kind \in Undoable, ~touched'[t]
      PROVE  Traced(session'[t], files', before'[t])
  <2>1. CASE t # s
    <3>1. /\ session'[t] = session[t] /\ before'[t] = before[t] /\ ~touched[t] /\ t \notin others
      BY <1>4, <1>5, <1>6, <1>8, <2>1
    <3>2. Traced(session[t], files, before[t]) /\ Busy(t) /\ Kind(t) \in Undoable
      BY <1>8, <3>1, HeldTarget DEF TraceInv, Kind
    <3>3. ~Concerns(e, Forward(t))
      BY <2>1, <3>1, <3>2
    <3> QED
      BY <1>2, <1>8, <3>1, <3>2, <3>3, OtherTrace
  <2>2. CASE t = s
    <3>1. Rewrite(s) /\ ~Undoing(s)
      BY <1>1, <1>8, <2>2, EndLemma, IdleLemma DEF EditorInv, Ends, Moved, Undoable
    <3> QED
      BY <1>6, <1>8, <2>2, <3>1, OwnTrace DEF Kind
  <2> QED
    BY <2>1, <2>2
<1> QED
  BY <1>3, <1>5, <1>7, <1>8 DEF TraceInv

LEMMA TraceInit == Init => TraceInv
<1> SUFFICES ASSUME Init PROVE TraceInv
  OBVIOUS
<1>1. \A t \in DOMAIN files.tunnels : files.tunnels[t].enabled \in BOOLEAN
  BY WrittenAssumption DEF Init
<1>2. \A s \in Sessions : session[s].job.kind \notin Undoable
  BY IdleLemma DEF Init, Undoable
<1> QED
  BY <1>1, <1>2 DEF Init, TraceInv

LEMMA TraceNext == EditorInv /\ TraceInv /\ [Next]_vars => TraceInv'
<1> SUFFICES ASSUME EditorInv, TraceInv, [Next]_vars
             PROVE  TraceInv'
  OBVIOUS
<1>1. ASSUME NEW s \in Sessions, NEW job \in Jobs[s], Start(s, job)
      PROVE  TraceInv'
  BY <1>1, StartTrace
<1>2. ASSUME NEW s \in Sessions, Step(s)
      PROVE  TraceInv'
  BY <1>2, ClaimTrace, ReadFileTrace, LoadTrace, OpenTrace, RewriteTrace, FailTrace, RotateKeyTrace,
     StoreKeyTrace, ReadRevocationsTrace, SendTrace, OpenListTrace, RewriteListTrace, SaveTrace
  DEF Step, Replaces
<1>3. ASSUME NEW process \in {Bot} \cup {{s} : s \in Shells}, Die(process)
      PROVE  TraceInv'
  BY <1>3, DieTrace
<1>4. CASE UNCHANGED vars
  BY <1>4 DEF vars, disk, history, TraceInv
<1> QED
  BY <1>1, <1>2, <1>3, <1>4 DEF Next

\* What an operation that takes its edit back leaves is what it found.
LEMMA CancelWrites ==
  ASSUME EditorInv, TraceInv, NEW s \in Sessions, Rewrite(s), Undoing(s), ~touched[s], ~Lost(s)
  PROVE  Value(files', Forward(s)) = before[s]
<1> DEFINE f == Forward(s)
           job == session[s].job
           g == Target(job)
           was == before[s]
           v == IF Kind(s) \in Peeking /\ session[s].first # <<>> THEN Value(session[s].first[1], f) ELSE Blank
<1>1. session[s].pc = 0 /\ NowOK(s, session[s]) /\ Busy(s) /\ job.kind \in Undoable /\ Kind(s) = job.kind
  BY PositionsLemma DEF EditorInv, Undoing, JobOK, Busy, Kind
<1>2. IsTarget(g) /\ SameTarget(f, g)
  BY <1>1, HeldTarget
<1>3. IsTarget(f) /\ \A cfg : Value(cfg, f) = Value(cfg, g)
  BY <1>2, SameTargetLemma
<1>4. Recalled(session[s], g, was)
  BY <1>1 DEF TraceInv, Traced, Wrote
<1>5. f = Edit(f.verb, f.section, f.id, f.field, f.value)
  <2>1. JobOK(s, session[s])
    BY <1>1 DEF NowOK
  <2>2. CASE job.kind \in Asking
    BY <1>1, <2>1, <2>2, AskedByLemma, AskedTarget
  <2>3. CASE job.kind = "add"
    BY <1>1, <2>1, <2>3, NewByLemma DEF AddDevice, Edit
  <2>4. CASE job.kind = "reissue"
    BY <1>1, <2>1, <2>4, ReissuedByLemma DEF SetDevice, Edit
  <2> QED
    BY <1>1, <2>2, <2>3, <2>4 DEF Undoable, Asking
<1>6. Wanted(s) = Undo(f, v)
  BY DEF Wanted, Backward
<1>7. Known(files) /\ Shaped(Undo(f, v)) /\ Applies(files, Undo(f, v)) /\ files' = Apply(files, Undo(f, v))
  BY <1>6, RewriteLemma, ShapeLemma DEF Rewrite, EditorInv, FilesOK
<1>8. /\ job.kind \in Asking => f = job.edit /\ AskedAs(job.kind, f)
      /\ job.kind = "reissue" => g.section = "devices" /\ g.field = "key"
      /\ job.kind = "add" => g.field = "entry"
  <2>1. JobOK(s, session[s])
    BY <1>1 DEF NowOK
  <2> QED
    BY <1>1, <2>1, TargetLemma, AskedByLemma
<1>9. job.kind \in {"peek", "informed", "reissue"} => session[s].first # <<>>
  BY <1>1 DEF NowOK, FirstOK, Loading
<1>10. /\ job.kind = "edit" /\ f.field = "enabled" => was # f.value
       /\ job.kind = "edit" /\ f.field = "probe" => was = Blank
       /\ job.kind = "unprobe" => session[s].first # <<>>
  BY <1>1 DEF Lost
<1>11. f.verb = g.verb /\ f.section = g.section /\ f.field = g.field
       /\ (f.value = g.value \/ g.section = "devices")
  BY <1>2 DEF SameTarget
<1>12. Scalar(f) => was = v
  <2>1. ASSUME Scalar(f), job.kind \in Peeking
        PROVE  was = v
    <3>1. session[s].first # <<>>
      BY <1>9, <1>10, <2>1 DEF Peeking
    <3>2. Remembers(session[s])
      BY <1>11, <2>1 DEF Remembers, Scalar
    <3> QED
      BY <1>1, <1>3, <1>4, <2>1, <3>1, <3>2 DEF Recalled
  <2>2. ASSUME Scalar(f), job.kind \notin Peeking
        PROVE  was = v
    <3>1. job.kind \in {"edit", "add"}
      BY <1>1, <2>2 DEF Undoable, Peeking
    <3>2. job.kind = "edit"
      BY <1>2, <1>8, <1>11, <2>2, <3>1 DEF IsTarget, Scalar, HubFields
    <3>3. f.field = "probe"
      BY <1>3, <1>8, <2>2, <3>2 DEF AskedAs, IsTarget, Scalar, Asking
    <3> QED
      BY <1>1, <1>10, <2>2, <3>2, <3>3
  <2> QED
    BY <2>1, <2>2
<1>13. f.field = "enabled" => was = ~f.value
  <2>1. ASSUME f.field = "enabled"
        PROVE  was = ~f.value
    <3>1. g.section = "tunnels" /\ g.value \in BOOLEAN
      BY <1>2, <1>11, <2>1 DEF IsTarget, Scalar, HubFields
    <3>2. job.kind = "edit"
      BY <1>1, <1>8, <1>11, <2>1, <3>1 DEF AskedAs, Undoable, Asking
    <3>3. was \in BOOLEAN /\ f.value \in BOOLEAN /\ was # f.value
      BY <1>4, <1>10, <1>11, <2>1, <3>1, <3>2 DEF Recalled
    <3> QED
      BY <3>3
  <2> QED
    BY <2>1
<1> HIDE DEF f, g, job, was, v
<1>14. /\ f.field = "entry" => was = Blank
       /\ f.verb = "append" \/ (f.verb = "add" /\ f.section = "acls") => was = FALSE
       /\ f.verb = "drop" \/ (f.verb = "remove" /\ f.section = "acls") => was = TRUE
  BY <1>4, <1>11 DEF Recalled
<1>15. /\ Scalar(f) => Value(files', f) = v
       /\ f.field = "enabled" => Value(files', f) = ~f.value
       /\ f.field = "entry" => Value(files', f) = Blank
       /\ f.verb = "append" \/ (f.verb = "add" /\ f.section = "acls") => Value(files', f) = FALSE
       /\ f.verb = "drop" \/ (f.verb = "remove" /\ f.section = "acls") => Value(files', f) = TRUE
  <2>1. IsTarget(f)
    BY <1>3
  <2> QED
    BY <1>5, <1>7, <2>1, PutBackLemma
<1>16. \/ Scalar(f) \/ f.field \in {"enabled", "entry"} \/ f.verb \in {"append", "drop"}
       \/ f.verb \in {"add", "remove"} /\ f.section = "acls"
  BY <1>3 DEF IsTarget, Scalar
<1>17. Value(files', f) = was
  <2>1. CASE Scalar(f)
    BY <1>12, <1>15, <2>1, Zenon
  <2>2. CASE f.field = "enabled"
    BY <1>13, <1>15, <2>2, Zenon
  <2>3. CASE f.field = "entry"
    BY <1>14, <1>15, <2>3, Zenon
  <2>4. CASE f.verb \in {"append", "drop"} \/ (f.verb \in {"add", "remove"} /\ f.section = "acls")
    BY <1>14, <1>15, <2>4, Zenon
  <2> QED
    BY <1>16, <2>1, <2>2, <2>3, <2>4
<1> QED
  BY <1>17 DEF f, was

\* An operation is told of its own steps only.
LEMMA OtherTold ==
  ASSUME TraceInv, NEW s \in Sessions, NEW t \in Sessions \ {s}, Step(t)
  PROVE  told'[s] = told[s]
<1>1. s \in DOMAIN told \ {t}
  BY DEF TraceInv
<1>2. (\E outcome : End(t, outcome)) \/ (\E now : Proceed(t, now)) \/ (\E outcome : TakeBack(t, outcome))
        \/ UNCHANGED told
  BY Zenon DEF Step, Claim, ReadFile, LoadAndValidate, Open, Rewrite, RewriteFails, RewriteFailsLate,
     NothingToPutBack, RotateKey, StoreKey, ReadRevocations, Send, OpenList, RewriteList, Save
<1> QED
  BY <1>1, <1>2, ToldLemma

\* The cancellation is a rewrite.
LEMMA CancelIsRewrite ==
  ASSUME EditorInv, TraceInv, NEW s \in Sessions, Cancels(s), ~Lost(s), Next
  PROVE  Rewrite(s)
<1>1. session[s].pc = 0 /\ Busy(s) /\ told'[s] # told[s] /\ told'[s] = "cancelled"
  BY DEF Cancels, Undoing
<1>2. /\ \A stage : ~At(s, stage)
      /\ s \in DOMAIN told
  BY <1>1 DEF At, TraceInv
<1>3. ASSUME NEW t \in Sessions, NEW job \in Jobs[t], Start(t, job)
      PROVE  FALSE
  <2>1. t # s /\ told' = [told EXCEPT ![t] = Blank]
    BY <1>1, <1>3 DEF Start
  <2> QED
    BY <1>1, <1>2, <2>1
<1>4. ASSUME NEW t \in Sessions \ {s}, Step(t)
      PROVE  FALSE
  BY <1>1, <1>4, OtherTold
<1>5. ASSUME NEW process, Die(process)
      PROVE  FALSE
  BY <1>1, <1>5 DEF Die
<1>6. ASSUME Step(s)
      PROVE  Rewrite(s)
  <2>1. ~(Claim(s) \/ RotateKey(s) \/ StoreKey(s) \/ ReadRevocations(s) \/ Send(s)
            \/ OpenList(s) \/ RewriteList(s) \/ Save(s))
    BY <1>2 DEF Claim, RotateKey, StoreKey, ReadRevocations, Send, OpenList, RewriteList, Save
  <2>2. ~(ReadFile(s) \/ LoadAndValidate(s))
    BY <1>2, Zenon DEF ReadFile, LoadAndValidate, Reading
  <2>3. ~Open(s)
    BY <1>1 DEF Open
  <2>4. ~RewriteFails(s) /\ ~RewriteFailsLate(s)
    <3>1. ASSUME NEW outcome, outcome # "cancelled", End(s, outcome)
          PROVE  FALSE
      BY <1>1, <1>2, <3>1 DEF End
    <3> QED
      BY <3>1 DEF RewriteFails, RewriteFailsLate
  <2>5. ~NothingToPutBack(s)
    BY DEF NothingToPutBack, Lost, Kind
  <2> QED
    BY <1>6, <2>1, <2>2, <2>3, <2>4, <2>5 DEF Step
<1> QED
  BY <1>3, <1>4, <1>5, <1>6 DEF Next

Traceless ==
  \A s \in Sessions : Cancels(s) /\ ~touched[s] /\ ~Lost(s) => Value(files', Forward(s)) = before[s]
LEMMA CancelStep == EditorInv /\ TraceInv /\ [Next]_vars => [Traceless]_vars
<1> SUFFICES ASSUME EditorInv, TraceInv, Next, NEW s \in Sessions, Cancels(s), ~touched[s], ~Lost(s)
             PROVE  Value(files', Forward(s)) = before[s]
  BY DEF Traceless
<1>1. Rewrite(s) /\ Undoing(s)
  BY CancelIsRewrite DEF Cancels
<1> QED
  BY <1>1, CancelWrites

\* What is reported cancelled is back to what the edit replaced, unless another session
\* wrote the same value in between: for any sessions, jobs and configurations.
THEOREM CancelLeavesNoTrace == Spec => RefusedLeavesNoTrace
BY TraceInit, TraceNext, CancelStep, EditorInit, EditorNext, PTL
DEF Spec, RefusedLeavesNoTrace, Traceless
=============================================================================

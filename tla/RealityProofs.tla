----------------------------- MODULE RealityProofs -----------------------------
(***************************************************************************)
(* Type correctness of RealityListener for any number of agents, and, with *)
(* one agent, that its marker and its reports are true.                    *)
(***************************************************************************)
EXTENDS RealityListener, TLAPS

(* TypeOK, part by part.                                                   *)
BudgetsOK ==
  faults \in 0 .. MaxFaults /\ crashes \in 0 .. MaxCrashes /\ deaths \in 0 .. MaxDeaths
LocalsOK ==
  /\ pass \in [Agents -> Passes]
  /\ \A a \in Agents : /\ pass[a].at = "idle" <=> pass[a] = Resting
                       /\ pass[a].at # "idle" => pass[a].spec \in Specs
                       /\ pass[a].at \in On => pass[a].spec \in Configs
EndedOK == ended \in [Agents -> Specs \cup {None}]
HostOK ==
  /\ want \in Specs
  /\ file \in Contents /\ probe \in Contents /\ marker \in Contents
  /\ unit \in {"dead", "running", "auto-restart"}
  /\ serving \in Configs \cup {None}
  /\ serving # None <=> unit = "running"
ProbeOK ==
  probe # None => (\E a \in Agents : pass[a].at \in Probing) \/ faults + crashes > 0

LEMMA TypeParts == TypeOK <=> BudgetsOK /\ LocalsOK /\ EndedOK /\ HostOK /\ ProbeOK
BY DEF TypeOK, BudgetsOK, LocalsOK, EndedOK, HostOK, ProbeOK, At, SpecOf

(* What the shared helpers do to them.                                     *)
LEMMA OutcomesType == \A w \in Outcomes : w \in {"ok", "fails"}
BY DEF Outcomes

\* A step spends at most a fault, and one that failed has spent it.
LEMMA SpendType ==
  ASSUME NEW w \in Outcomes, BudgetsOK, Spend(w)
  PROVE  /\ BudgetsOK'
         /\ faults + crashes > 0 => faults' + crashes' > 0
         /\ w = "fails" => faults' + crashes' > 0
<1>1. CASE w = "ok"
  BY <1>1, BoundsAssumption DEF BudgetsOK, Spend
<1>2. CASE w # "ok"
  <2>1. faults < MaxFaults
    BY <1>2 DEF Outcomes
  <2> QED BY <2>1, <1>2, BoundsAssumption DEF BudgetsOK, Spend
<1> QED BY <1>1, <1>2

LEMMA PassMoves ==
  ASSUME NEW a \in Agents, NEW x \in Passes, x.at # "idle", x.spec \in Specs,
         x.at \in On => x.spec \in Configs,
         LocalsOK, pass' = [pass EXCEPT ![a] = x]
  PROVE  LocalsOK' /\ pass'[a] = x /\ \A b \in Agents \ {a} : pass'[b] = pass[b]
<1>1. pass' \in [Agents -> Passes] /\ pass'[a] = x
  BY DEF LocalsOK
<1>2. x # Resting
  BY DEF Resting
<1>3. \A b \in Agents \ {a} : pass'[b] = pass[b]
  BY DEF LocalsOK
<1> QED BY <1>1, <1>2, <1>3 DEF LocalsOK

LEMMA PassGoes ==
  ASSUME NEW a \in Agents, NEW label \in Labels \ {"idle"}, LocalsOK, EndedOK, pass[a].at # "idle",
         label \in On => pass[a].spec \in Configs, Goto(a, label)
  PROVE  /\ LocalsOK' /\ EndedOK'
         /\ pass'[a].at = label /\ pass'[a].spec = pass[a].spec /\ pass'[a].ok = pass[a].ok
         /\ ended' = ended /\ \A b \in Agents \ {a} : pass'[b] = pass[b]
<1> DEFINE x == [pass[a] EXCEPT !.at = label]
<1>1. x \in Passes /\ x.at = label /\ x.spec = pass[a].spec /\ x.ok = pass[a].ok
  BY DEF LocalsOK, Passes
<1>2. pass' = [pass EXCEPT ![a] = x] /\ ended' = ended
  BY DEF Goto
<1>3. pass[a].spec \in Specs
  BY DEF LocalsOK
<1> HIDE DEF x
<1> QED BY <1>1, <1>2, <1>3, PassMoves DEF EndedOK

LEMMA PassEnds ==
  ASSUME NEW a \in Agents, NEW r \in Specs \cup {None}, LocalsOK, EndedOK, End(a, r)
  PROVE  /\ LocalsOK' /\ EndedOK'
         /\ pass'[a] = Resting /\ ended'[a] = r
         /\ \A b \in Agents \ {a} : pass'[b] = pass[b] /\ ended'[b] = ended[b]
<1>1. Resting \in Passes /\ Resting.at = "idle" /\ Resting.at \notin On
  BY DEF Resting, Passes, Labels, On, Probing
<1> QED BY <1>1 DEF LocalsOK, EndedOK, End

LEMMA StopsType == ASSUME NEW w, HostOK, Stops(w) PROVE unit' \in {"dead", unit} /\
  serving' \in Configs \cup {None} /\ (serving' # None <=> unit' = "running")
BY DistinctAssumption, ConfigsAssumption DEF HostOK, Stops, process


(***************************************************************************)
(* The runtime directory, the unit and every pass stay well formed, and    *)
(* the probe, with the private key in it, outlives no pass unless          *)
(* something failed or died, for any number of agents.                     *)
(***************************************************************************)
LEMMA StepType ==
  ASSUME TypeOK, NEW a \in Agents, PassStep(a) \/ Crash(a)
  PROVE  TypeOK'
<1>0. BudgetsOK /\ LocalsOK /\ EndedOK /\ HostOK /\ ProbeOK
  BY TypeParts
<1> SUFFICES BudgetsOK' /\ LocalsOK' /\ EndedOK' /\ HostOK' /\ ProbeOK'
  BY DEF TypeOK, BudgetsOK, LocalsOK, EndedOK, HostOK, ProbeOK, At, SpecOf
<1> USE <1>0
<1> DEFINE me == pass[a]

<1>1. CASE StartPass(a)
  <2>1. PICK w \in Outcomes :
          /\ Spend(w)
          /\ pass' = [pass EXCEPT ![a] = [at |-> IF (IF w = "ok" THEN want ELSE Off) = Off
                                                   THEN "off" ELSE "look",
                                          spec |-> IF w = "ok" THEN want ELSE Off, ok |-> FALSE]]
          /\ ended' = [ended EXCEPT ![a] = None]
    BY <1>1 DEF StartPass
  <2> DEFINE spec == IF w = "ok" THEN want ELSE Off
             x == [at |-> IF spec = Off THEN "off" ELSE "look", spec |-> spec, ok |-> FALSE]
  <2>2. /\ x \in Passes /\ x.at \in {"off", "look"} /\ x.spec = spec /\ spec \in Specs
        /\ x.at \in On => spec \in Configs
    BY DEF Passes, Labels, HostOK, Specs, On, Probing
  <2>3. pass' = [pass EXCEPT ![a] = x] /\ x.at # "idle"
    BY <2>1, <2>2
  <2> HIDE DEF x, spec
  <2>4. LocalsOK' /\ \A b \in Agents \ {a} : pass'[b] = pass[b]
    BY <2>2, <2>3, PassMoves
  <2>5. EndedOK' /\ BudgetsOK'
    BY <2>1, SpendType DEF EndedOK
  <2>6. HostOK' /\ probe' = probe /\ me.at \notin Probing
    BY <1>1 DEF StartPass, HostOK, files, process, At, Probing
  <2>7. ProbeOK'
    BY <2>1, <2>4, <2>6, SpendType DEF ProbeOK
  <2> QED BY <2>4, <2>5, <2>6, <2>7
<1>2. CASE OffStop(a)
  <2>1. PICK w \in Outcomes :
          /\ Spend(w)
          /\ Stops(w)
          /\ IF w = "ok" THEN Goto(a, "off_file") ELSE End(a, None)
    BY <1>2 DEF OffStop, After, Step, StopAlways
  <2>2. me.at = "off" /\ BudgetsOK'
    BY <1>2, <2>1, SpendType DEF OffStop, At
  <2>3. Goto(a, "off_file") \/ End(a, None)
    BY <2>1
  <2>4. LocalsOK' /\ EndedOK' /\ \A b \in Agents \ {a} : pass'[b] = pass[b]
    <3>1. CASE Goto(a, "off_file")
      <4>1. "off_file" \in Labels \ {"idle"} /\ "off_file" \notin On
        BY DEF Labels, On, Probing
      <4> QED BY <2>2, <3>1, <4>1, PassGoes
    <3>2. CASE End(a, None)
      <4>1. None \in Specs \cup {None}
        BY <2>2 DEF Specs
      <4> QED BY <3>2, <4>1, PassEnds
    <3> QED BY <2>3, <3>1, <3>2
  <2>5. HostOK'
    BY <1>2, <2>1, StopsType DEF OffStop, HostOK, files
  <2>6. ProbeOK'
    <3>1. me.at \notin Probing /\ probe' = probe
      BY <1>2, <2>2 DEF OffStop, Probing, files
    <3> QED BY <2>1, <2>4, <3>1, SpendType DEF ProbeOK
  <2> QED BY <2>2, <2>4, <2>5, <2>6
<1>3. CASE OffFile(a)
  <2>1. PICK w \in Outcomes :
          /\ Spend(w)
          /\ file' \in {None, file}
          /\ IF w = "ok" THEN Goto(a, "off_probe") ELSE End(a, None)
    BY <1>3 DEF OffFile, After, Step
  <2>2. me.at = "off_file" /\ BudgetsOK'
    BY <1>3, <2>1, SpendType DEF OffFile, At
  <2>3. Goto(a, "off_probe") \/ End(a, None)
    BY <2>1
  <2>4. LocalsOK' /\ EndedOK' /\ \A b \in Agents \ {a} : pass'[b] = pass[b]
    <3>1. CASE Goto(a, "off_probe")
      <4>1. "off_probe" \in Labels \ {"idle"} /\ "off_probe" \notin On
        BY DEF Labels, On, Probing
      <4> QED BY <2>2, <3>1, <4>1, PassGoes
    <3>2. CASE End(a, None)
      <4>1. None \in Specs \cup {None}
        BY <2>2 DEF Specs
      <4> QED BY <3>2, <4>1, PassEnds
    <3> QED BY <2>3, <3>1, <3>2
  <2>5. HostOK'
    BY <1>3, <2>1 DEF OffFile, HostOK, process, Contents
  <2>6. ProbeOK'
    <3>1. me.at \notin Probing /\ probe' = probe
      BY <1>3, <2>2 DEF OffFile, Probing, files
    <3> QED BY <2>1, <2>4, <3>1, SpendType DEF ProbeOK
  <2> QED BY <2>2, <2>4, <2>5, <2>6
<1>4. CASE OffProbe(a)
  <2>1. PICK w \in Outcomes :
          /\ Spend(w)
          /\ probe' \in {None, probe}
          /\ IF w = "ok" THEN Goto(a, "off_marker") ELSE End(a, None)
    BY <1>4 DEF OffProbe, After, Step
  <2>2. me.at = "off_probe" /\ BudgetsOK'
    BY <1>4, <2>1, SpendType DEF OffProbe, At
  <2>3. Goto(a, "off_marker") \/ End(a, None)
    BY <2>1
  <2>4. LocalsOK' /\ EndedOK' /\ \A b \in Agents \ {a} : pass'[b] = pass[b]
    <3>1. CASE Goto(a, "off_marker")
      <4>1. "off_marker" \in Labels \ {"idle"} /\ "off_marker" \notin On
        BY DEF Labels, On, Probing
      <4> QED BY <2>2, <3>1, <4>1, PassGoes
    <3>2. CASE End(a, None)
      <4>1. None \in Specs \cup {None}
        BY <2>2 DEF Specs
      <4> QED BY <3>2, <4>1, PassEnds
    <3> QED BY <2>3, <3>1, <3>2
  <2>5. HostOK'
    BY <1>4, <2>1 DEF OffProbe, HostOK, process, Contents
  <2>6. ProbeOK'
    BY <2>1, <2>2, <2>4, SpendType DEF ProbeOK, Probing
  <2> QED BY <2>2, <2>4, <2>5, <2>6
<1>5. CASE OffMarker(a)
  <2>1. PICK w \in Outcomes :
          /\ Spend(w)
          /\ marker' \in {None, marker}
          /\ IF w = "ok" THEN End(a, Off) ELSE End(a, None)
    BY <1>5 DEF OffMarker, After, Step
  <2>2. me.at = "off_marker" /\ BudgetsOK'
    BY <1>5, <2>1, SpendType DEF OffMarker, At
  <2>3. End(a, Off) \/ End(a, None)
    BY <2>1
  <2>4. LocalsOK' /\ EndedOK' /\ \A b \in Agents \ {a} : pass'[b] = pass[b]
    <3>1. CASE End(a, Off)
      <4>1. Off \in Specs \cup {None}
        BY <2>2 DEF Specs
      <4> QED BY <3>1, <4>1, PassEnds
    <3>2. CASE End(a, None)
      <4>1. None \in Specs \cup {None}
        BY <2>2 DEF Specs
      <4> QED BY <3>2, <4>1, PassEnds
    <3> QED BY <2>3, <3>1, <3>2
  <2>5. HostOK'
    BY <1>5, <2>1 DEF OffMarker, HostOK, process, Contents
  <2>6. ProbeOK'
    <3>1. me.at \notin Probing /\ probe' = probe
      BY <1>5, <2>2 DEF OffMarker, Probing, files
    <3> QED BY <2>1, <2>4, <3>1, SpendType DEF ProbeOK
  <2> QED BY <2>2, <2>4, <2>5, <2>6
<1>6. CASE Look(a)
  <2>1. PICK w \in Outcomes :
          /\ Spend(w)
          /\ IF w = "ok" /\ Applied(a) THEN End(a, SpecOf(a)) ELSE Goto(a, "probe")
    BY <1>6 DEF Look, After, Step
  <2>2. me.at = "look" /\ BudgetsOK' /\ me.spec \in Configs /\ me.at \in On
    BY <1>6, <2>1, SpendType DEF Look, At, LocalsOK, On, Probing
  <2>3. Goto(a, "probe") \/ End(a, SpecOf(a))
    BY <2>1
  <2>4. LocalsOK' /\ EndedOK' /\ \A b \in Agents \ {a} : pass'[b] = pass[b]
    <3>1. CASE Goto(a, "probe")
      <4>1. "probe" \in Labels \ {"idle"}
        BY DEF Labels, On, Probing
      <4> QED BY <2>2, <3>1, <4>1, PassGoes
    <3>2. CASE End(a, SpecOf(a))
      <4>1. SpecOf(a) \in Specs \cup {None}
        BY <2>2 DEF Specs, SpecOf
      <4> QED BY <3>2, <4>1, PassEnds
    <3> QED BY <2>3, <3>1, <3>2
  <2>5. HostOK'
    BY <1>6 DEF Look, HostOK, files, process
  <2>6. ProbeOK'
    <3>1. me.at \notin Probing /\ probe' = probe
      BY <1>6, <2>2 DEF Look, Probing, files
    <3> QED BY <2>1, <2>4, <3>1, SpendType DEF ProbeOK
  <2> QED BY <2>2, <2>4, <2>5, <2>6
<1>7. CASE WriteProbe(a)
  <2>1. PICK w \in Outcomes :
          /\ Spend(w)
          /\ probe' \in Written(probe, SpecOf(a), w)
          /\ IF w = "ok" THEN Goto(a, "check") ELSE End(a, None)
    BY <1>7 DEF WriteProbe, After, Step
  <2>2. me.at = "probe" /\ BudgetsOK' /\ me.spec \in Configs /\ me.at \in On
    BY <1>7, <2>1, SpendType DEF WriteProbe, At, LocalsOK, On, Probing
  <2>3. Goto(a, "check") \/ End(a, None)
    BY <2>1
  <2>4. LocalsOK' /\ EndedOK' /\ \A b \in Agents \ {a} : pass'[b] = pass[b]
    <3>1. CASE Goto(a, "check")
      <4>1. "check" \in Labels \ {"idle"}
        BY DEF Labels, On, Probing
      <4> QED BY <2>2, <3>1, <4>1, PassGoes
    <3>2. CASE End(a, None)
      <4>1. None \in Specs \cup {None}
        BY <2>2 DEF Specs
      <4> QED BY <3>2, <4>1, PassEnds
    <3> QED BY <2>3, <3>1, <3>2
  <2>5. HostOK'
    BY <1>7, <2>1, <2>2 DEF WriteProbe, HostOK, process, Written, Contents, SpecOf
  <2>6. ProbeOK'
    <3>1. CASE w = "ok"
      <4>1. Goto(a, "check") /\ "check" \in Labels \ {"idle"} /\ "check" \in Probing
        BY <2>1, <3>1 DEF Labels, On, Probing
      <4> QED BY <2>2, <4>1, PassGoes DEF ProbeOK
    <3>2. CASE w # "ok"
      BY <2>1, <3>2, OutcomesType, SpendType DEF ProbeOK
    <3> QED BY <3>1, <3>2
  <2> QED BY <2>2, <2>4, <2>5, <2>6
<1>8. CASE Check(a)
  <2>1. PICK w \in Outcomes :
          /\ Spend(w)
          /\ Goto(a, IF w = "ok" /\ probe \in Accepted THEN "unmark" ELSE "reject")
    BY <1>8 DEF Check, After, Step
  <2>2. me.at = "check" /\ BudgetsOK' /\ me.spec \in Configs /\ me.at \in On
    BY <1>8, <2>1, SpendType DEF Check, At, LocalsOK, On, Probing
  <2>3. Goto(a, "unmark") \/ Goto(a, "reject")
    BY <2>1
  <2>4. LocalsOK' /\ EndedOK' /\ \A b \in Agents \ {a} : pass'[b] = pass[b]
    <3>1. CASE Goto(a, "unmark")
      <4>1. "unmark" \in Labels \ {"idle"}
        BY DEF Labels, On, Probing
      <4> QED BY <2>2, <3>1, <4>1, PassGoes
    <3>2. CASE Goto(a, "reject")
      <4>1. "reject" \in Labels \ {"idle"}
        BY DEF Labels, On, Probing
      <4> QED BY <2>2, <3>2, <4>1, PassGoes
    <3> QED BY <2>3, <3>1, <3>2
  <2>5. HostOK'
    BY <1>8 DEF Check, HostOK, files, process
  <2>6. ProbeOK'
    <3>1. pass'[a].at \in Probing
      BY <2>2, <2>3, PassGoes DEF Labels, On, Probing
    <3> QED BY <3>1 DEF ProbeOK
  <2> QED BY <2>2, <2>4, <2>5, <2>6
<1>9. CASE RejectStop(a)
  <2>1. PICK w \in Outcomes :
          /\ Spend(w)
          /\ Stops(w)
          /\ Goto(a, "cleanup")
    BY <1>9 DEF RejectStop, After, Step
  <2>2. me.at = "reject" /\ BudgetsOK' /\ me.spec \in Configs /\ me.at \in On
    BY <1>9, <2>1, SpendType DEF RejectStop, At, LocalsOK, On, Probing
  <2>3. Goto(a, "cleanup")
    BY <2>1
  <2>4. LocalsOK' /\ EndedOK' /\ \A b \in Agents \ {a} : pass'[b] = pass[b]
    <3>1. CASE Goto(a, "cleanup")
      <4>1. "cleanup" \in Labels \ {"idle"}
        BY DEF Labels, On, Probing
      <4> QED BY <2>2, <3>1, <4>1, PassGoes
    <3> QED BY <2>3, <3>1
  <2>5. HostOK'
    BY <1>9, <2>1, StopsType DEF RejectStop, HostOK, files
  <2>6. ProbeOK'
    <3>1. pass'[a].at \in Probing
      BY <2>2, <2>3, PassGoes DEF Labels, On, Probing
    <3> QED BY <3>1 DEF ProbeOK
  <2> QED BY <2>2, <2>4, <2>5, <2>6
<1>10. CASE RemoveMarker(a)
  <2>1. PICK w \in Outcomes :
          /\ Spend(w)
          /\ marker' \in {None, marker}
          /\ Goto(a, IF w = "ok" THEN "write" ELSE "cleanup")
    BY <1>10 DEF RemoveMarker, After, Step
  <2>2. me.at = "unmark" /\ BudgetsOK' /\ me.spec \in Configs /\ me.at \in On
    BY <1>10, <2>1, SpendType DEF RemoveMarker, At, LocalsOK, On, Probing
  <2>3. Goto(a, "write") \/ Goto(a, "cleanup")
    BY <2>1
  <2>4. LocalsOK' /\ EndedOK' /\ \A b \in Agents \ {a} : pass'[b] = pass[b]
    <3>1. CASE Goto(a, "write")
      <4>1. "write" \in Labels \ {"idle"}
        BY DEF Labels, On, Probing
      <4> QED BY <2>2, <3>1, <4>1, PassGoes
    <3>2. CASE Goto(a, "cleanup")
      <4>1. "cleanup" \in Labels \ {"idle"}
        BY DEF Labels, On, Probing
      <4> QED BY <2>2, <3>2, <4>1, PassGoes
    <3> QED BY <2>3, <3>1, <3>2
  <2>5. HostOK'
    BY <1>10, <2>1 DEF RemoveMarker, HostOK, process, Contents
  <2>6. ProbeOK'
    <3>1. pass'[a].at \in Probing
      BY <2>2, <2>3, PassGoes DEF Labels, On, Probing
    <3> QED BY <3>1 DEF ProbeOK
  <2> QED BY <2>2, <2>4, <2>5, <2>6
<1>11. CASE WriteFile(a)
  <2>1. PICK w \in Outcomes :
          /\ Spend(w)
          /\ file' \in Written(file, SpecOf(a), w)
          /\ Goto(a, IF w = "ok" THEN "stop" ELSE "cleanup")
    BY <1>11 DEF WriteFile, After, Step
  <2>2. me.at = "write" /\ BudgetsOK' /\ me.spec \in Configs /\ me.at \in On
    BY <1>11, <2>1, SpendType DEF WriteFile, At, LocalsOK, On, Probing
  <2>3. Goto(a, "stop") \/ Goto(a, "cleanup")
    BY <2>1
  <2>4. LocalsOK' /\ EndedOK' /\ \A b \in Agents \ {a} : pass'[b] = pass[b]
    <3>1. CASE Goto(a, "stop")
      <4>1. "stop" \in Labels \ {"idle"}
        BY DEF Labels, On, Probing
      <4> QED BY <2>2, <3>1, <4>1, PassGoes
    <3>2. CASE Goto(a, "cleanup")
      <4>1. "cleanup" \in Labels \ {"idle"}
        BY DEF Labels, On, Probing
      <4> QED BY <2>2, <3>2, <4>1, PassGoes
    <3> QED BY <2>3, <3>1, <3>2
  <2>5. HostOK'
    BY <1>11, <2>1, <2>2 DEF WriteFile, HostOK, process, Written, Contents, SpecOf
  <2>6. ProbeOK'
    <3>1. pass'[a].at \in Probing
      BY <2>2, <2>3, PassGoes DEF Labels, On, Probing
    <3> QED BY <3>1 DEF ProbeOK
  <2> QED BY <2>2, <2>4, <2>5, <2>6
<1>12. CASE Stop(a)
  <2>1. PICK w \in Outcomes :
          /\ Spend(w)
          /\ Stops(w)
          /\ Goto(a, IF w = "ok" THEN "start" ELSE "cleanup")
    BY <1>12 DEF Stop, After, Step
  <2>2. me.at = "stop" /\ BudgetsOK' /\ me.spec \in Configs /\ me.at \in On
    BY <1>12, <2>1, SpendType DEF Stop, At, LocalsOK, On, Probing
  <2>3. Goto(a, "start") \/ Goto(a, "cleanup")
    BY <2>1
  <2>4. LocalsOK' /\ EndedOK' /\ \A b \in Agents \ {a} : pass'[b] = pass[b]
    <3>1. CASE Goto(a, "start")
      <4>1. "start" \in Labels \ {"idle"}
        BY DEF Labels, On, Probing
      <4> QED BY <2>2, <3>1, <4>1, PassGoes
    <3>2. CASE Goto(a, "cleanup")
      <4>1. "cleanup" \in Labels \ {"idle"}
        BY DEF Labels, On, Probing
      <4> QED BY <2>2, <3>2, <4>1, PassGoes
    <3> QED BY <2>3, <3>1, <3>2
  <2>5. HostOK'
    BY <1>12, <2>1, StopsType DEF Stop, HostOK, files
  <2>6. ProbeOK'
    <3>1. pass'[a].at \in Probing
      BY <2>2, <2>3, PassGoes DEF Labels, On, Probing
    <3> QED BY <3>1 DEF ProbeOK
  <2> QED BY <2>2, <2>4, <2>5, <2>6
<1>13. CASE Start(a)
  <2>1. PICK w \in Outcomes :
          /\ Spend(w)
          /\ IF w = "ok" /\ unit = "dead" THEN Started /\ Goto(a, "confirm")
                                        ELSE UNCHANGED process /\ Goto(a, "cleanup")
    BY <1>13 DEF Start, After, Step
  <2>2. me.at = "start" /\ BudgetsOK' /\ me.spec \in Configs /\ me.at \in On
    BY <1>13, <2>1, SpendType DEF Start, At, LocalsOK, On, Probing
  <2>3. Goto(a, "confirm") \/ Goto(a, "cleanup")
    BY <2>1
  <2>4. LocalsOK' /\ EndedOK' /\ \A b \in Agents \ {a} : pass'[b] = pass[b]
    <3>1. CASE Goto(a, "confirm")
      <4>1. "confirm" \in Labels \ {"idle"}
        BY DEF Labels, On, Probing
      <4> QED BY <2>2, <3>1, <4>1, PassGoes
    <3>2. CASE Goto(a, "cleanup")
      <4>1. "cleanup" \in Labels \ {"idle"}
        BY DEF Labels, On, Probing
      <4> QED BY <2>2, <3>2, <4>1, PassGoes
    <3> QED BY <2>3, <3>1, <3>2
  <2>5. HostOK'
    BY <1>13, <2>1, ConfigsAssumption DEF Start, HostOK, files, process, Started
  <2>6. ProbeOK'
    <3>1. pass'[a].at \in Probing
      BY <2>2, <2>3, PassGoes DEF Labels, On, Probing
    <3> QED BY <3>1 DEF ProbeOK
  <2> QED BY <2>2, <2>4, <2>5, <2>6
<1>14. CASE ConfirmRunning(a)
  <2>1. PICK w \in Outcomes :
          /\ Spend(w)
          /\ Goto(a, IF w = "ok" /\ unit = "running" THEN "mark" ELSE "cleanup")
    BY <1>14 DEF ConfirmRunning, After, Step
  <2>2. me.at = "confirm" /\ BudgetsOK' /\ me.spec \in Configs /\ me.at \in On
    BY <1>14, <2>1, SpendType DEF ConfirmRunning, At, LocalsOK, On, Probing
  <2>3. Goto(a, "mark") \/ Goto(a, "cleanup")
    BY <2>1
  <2>4. LocalsOK' /\ EndedOK' /\ \A b \in Agents \ {a} : pass'[b] = pass[b]
    <3>1. CASE Goto(a, "mark")
      <4>1. "mark" \in Labels \ {"idle"}
        BY DEF Labels, On, Probing
      <4> QED BY <2>2, <3>1, <4>1, PassGoes
    <3>2. CASE Goto(a, "cleanup")
      <4>1. "cleanup" \in Labels \ {"idle"}
        BY DEF Labels, On, Probing
      <4> QED BY <2>2, <3>2, <4>1, PassGoes
    <3> QED BY <2>3, <3>1, <3>2
  <2>5. HostOK'
    BY <1>14 DEF ConfirmRunning, HostOK, files, process
  <2>6. ProbeOK'
    <3>1. pass'[a].at \in Probing
      BY <2>2, <2>3, PassGoes DEF Labels, On, Probing
    <3> QED BY <3>1 DEF ProbeOK
  <2> QED BY <2>2, <2>4, <2>5, <2>6
<1>15. CASE WriteMarker(a)
  <2>1. PICK w \in Outcomes :
          /\ Spend(w)
          /\ marker' \in Written(marker, SpecOf(a), w)
          /\ pass' = [pass EXCEPT ![a].at = "cleanup", ![a].ok = (w = "ok")]
          /\ ended' = ended
    BY <1>15 DEF WriteMarker
  <2> DEFINE x == [me EXCEPT !.at = "cleanup", !.ok = (w = "ok")]
  <2>2. me.at = "mark" /\ me.spec \in Configs /\ me \in Passes
    BY <1>15 DEF WriteMarker, At, LocalsOK, On, Probing
  <2>3. x \in Passes /\ x.at = "cleanup" /\ x.spec = me.spec
    BY <2>2 DEF Passes, Labels, On, Probing
  <2>4. pass' = [pass EXCEPT ![a] = x]
    BY <2>1
  <2> HIDE DEF x
  <2>5. LocalsOK' /\ pass'[a] = x
    BY <2>2, <2>3, <2>4, PassMoves DEF Specs
  <2>6. BudgetsOK' /\ EndedOK' /\ HostOK'
    BY <1>15, <2>1, <2>2, SpendType
       DEF WriteMarker, EndedOK, HostOK, process, Written, Contents, SpecOf
  <2>7. ProbeOK'
    BY <2>3, <2>5 DEF ProbeOK, Probing
  <2> QED BY <2>5, <2>6, <2>7
<1>16. CASE Cleanup(a)
  <2>1. PICK w \in Outcomes : Spend(w) /\ probe' = IF w = "ok" THEN None ELSE probe
    BY <1>16 DEF Cleanup, Cleans
  <2>2. PICK r \in Specs \cup {None} : End(a, r)
    <3>1. SpecOf(a) \in Specs
      BY <1>16 DEF Cleanup, At, LocalsOK, SpecOf
    <3> QED BY <1>16, <3>1 DEF Cleanup
  <2>3. LocalsOK' /\ EndedOK'
    BY <2>2, PassEnds
  <2>4. BudgetsOK' /\ HostOK'
    BY <1>16, <2>1, SpendType DEF Cleanup, HostOK, process, Contents
  <2>5. ProbeOK'
    BY <2>1, OutcomesType, SpendType DEF ProbeOK
  <2> QED BY <2>3, <2>4, <2>5
<1>17. CASE Crash(a)
  <2>1. End(a, None) /\ None \in Specs \cup {None}
    BY <1>17 DEF Crash
  <2>2. LocalsOK' /\ EndedOK'
    BY <2>1, PassEnds
  <2>3. BudgetsOK' /\ HostOK' /\ faults' + crashes' > 0
    BY <1>17, BoundsAssumption DEF Crash, BudgetsOK, HostOK, files, process
  <2>4. ProbeOK'
    BY <2>3 DEF ProbeOK
  <2> QED BY <2>2, <2>3, <2>4
<1> QED BY <1>1, <1>2, <1>3, <1>4, <1>5, <1>6, <1>7, <1>8, <1>9, <1>10, <1>11, <1>12, <1>13, <1>14,
           <1>15, <1>16, <1>17 DEF PassStep

LEMMA EnvironmentType == TypeOK /\ Environment => TypeOK'
<1> SUFFICES ASSUME TypeOK, Environment PROVE TypeOK'
  OBVIOUS
<1>0. BudgetsOK /\ LocalsOK /\ EndedOK /\ HostOK /\ ProbeOK
  BY TypeParts
<1> USE <1>0
<1>1. CASE Reboot
  <2>1. BudgetsOK' /\ ProbeOK'
    BY <1>1, BoundsAssumption DEF Reboot, BudgetsOK, ProbeOK
  <2>2. HostOK'
    BY <1>1 DEF Reboot, HostOK, Contents
  <2>3. LocalsOK'
    BY <1>1 DEF Reboot, LocalsOK, Resting, Passes, Labels, On, Probing
  <2>4. EndedOK'
    BY <1>1 DEF Reboot, EndedOK
  <2> QED BY <2>1, <2>2, <2>3, <2>4
      DEF TypeOK, BudgetsOK, LocalsOK, EndedOK, HostOK, ProbeOK, At, SpecOf
<1>2. CASE (\E x \in Specs : Deploy(x)) \/ Restart
  <2>1. UNCHANGED <<pass, ended, probe, faults, crashes, deaths>>
    BY <1>2 DEF Deploy, Restart, files, budgets
  <2>2. HostOK'
    BY <1>2, ConfigsAssumption DEF Deploy, Restart, HostOK, files, process, Specs
  <2> QED BY <2>1, <2>2 DEF TypeOK, BudgetsOK, LocalsOK, EndedOK, HostOK, ProbeOK, At, SpecOf
<1>3. CASE Dies
  <2>1. UNCHANGED <<pass, ended, probe, faults, crashes>>
    BY <1>3 DEF Dies, files
  <2>2. HostOK' /\ BudgetsOK'
    BY <1>3, BoundsAssumption DEF Dies, HostOK, files, BudgetsOK
  <2> QED BY <2>1, <2>2 DEF TypeOK, BudgetsOK, LocalsOK, EndedOK, HostOK, ProbeOK, At, SpecOf
<1> QED BY <1>1, <1>2, <1>3 DEF Environment

THEOREM RealityTypeCorrect == Spec => []TypeOK
<1>1. Init => TypeOK
  BY BoundsAssumption
     DEF Init, TypeOK, Resting, Passes, Labels, On, Probing, At, SpecOf, Contents, Specs
<1>2. TypeOK /\ [Next]_vars => TypeOK'
  <2>1. TypeOK /\ UNCHANGED vars => TypeOK'
    BY DEF TypeOK, vars, files, process, budgets, At, SpecOf
  <2> QED BY <2>1, StepType, EnvironmentType DEF Next
<1> QED BY <1>1, <1>2, PTL DEF Spec


(***************************************************************************)
(* Safety, with one agent.  MarkerTruth is not inductive: a unit in its    *)
(* restart backoff will read the file again, so the marker must be true of *)
(* the file even while nothing runs; and that a pass may write the marker  *)
(* depends on what each of its labels has already put in place.            *)
(***************************************************************************)

\* The marker is true of the file whenever systemd may read it.
MarkerHolds ==
  unit # "dead" /\ marker \in Configs => file = marker /\ serving \in {marker, None}

\* What is checked is the pass's own configuration.
Checked(me) ==
  /\ pass[me].at = "check" => probe = pass[me].spec
  /\ pass[me].at \in {"unmark", "write", "stop", "start", "confirm", "mark"} =>
       pass[me].spec \in Accepted

\* Nothing is on record while the file and the process are being replaced.
Unrecorded(me) ==
  pass[me].at \in {"write", "stop", "start", "confirm", "mark"} => marker = None

\* Once written, the file is the pass's own, and the old process is gone before
\* a new one is started.
Replaced(me) ==
  /\ pass[me].at \in {"stop", "start", "confirm", "mark"} => file = pass[me].spec
  /\ pass[me].at = "start" => unit = "dead"
  /\ pass[me].at \in {"start", "confirm", "mark"} => serving \in {pass[me].spec, None}
  /\ pass[me].at = "cleanup" /\ pass[me].ok =>
       file = pass[me].spec /\ serving \in {pass[me].spec, None}

\* A pass has succeeded only at its end.
Unsuccessful(me) == pass[me].ok => pass[me].at = "cleanup"

\* A disabled listener is down before its files go, in their order.
Disabled(me) ==
  /\ pass[me].at \in {"off_file", "off_probe", "off_marker"} => unit = "dead"
  /\ pass[me].at \in {"off_probe", "off_marker"} => file = None
  /\ pass[me].at = "off_marker" => probe = None

\* A report stands only between passes.
Reported(me) ==
  /\ ended[me] # None => pass[me].at = "idle"
  /\ ended[me] \in Configs => serving \in {ended[me], None} /\ file = ended[me]
  /\ ended[me] = Off => unit = "dead" /\ file = None /\ probe = None /\ marker = None

RealityInv(me) ==
  /\ MarkerHolds /\ Checked(me) /\ Unrecorded(me) /\ Replaced(me) /\ Unsuccessful(me)
  /\ Disabled(me)
  /\ Reported(me) /\ OnlyCheckedOnDisk

\* A pass that has failed or died leaves nothing to show but the files.
LEMMA RestingIsSafe ==
  ASSUME NEW me \in Agents, pass'[me] = Resting, ended'[me] = None
  PROVE  Checked(me)' /\ Unrecorded(me)' /\ Replaced(me)' /\ Unsuccessful(me)'
         /\ Disabled(me)' /\ Reported(me)'
BY DistinctAssumption, ConfigsAssumption
   DEF Resting, Checked, Unrecorded, Replaced, Unsuccessful, Disabled, Reported

\* What holds in every step of a pass that moves on.
LEMMA GotoKeeps ==
  ASSUME TypeOK, NEW me \in Agents, NEW label, Goto(me, label)
  PROVE  /\ pass'[me].at = label /\ pass'[me].spec = pass[me].spec
         /\ pass'[me].ok = pass[me].ok /\ ended' = ended
BY DEF TypeOK, Goto, Passes

LEMMA EndRests ==
  ASSUME TypeOK, NEW me \in Agents, NEW r, End(me, r)
  PROVE  pass'[me] = Resting /\ ended'[me] = r
BY DEF TypeOK, End

LEMMA Names ==
  /\ "check" # "reject" /\ Off \notin Configs /\ None \notin Configs /\ Torn \notin Configs
  /\ Off # None /\ Accepted \subseteq Configs
BY DistinctAssumption, ConfigsAssumption

LEMMA StepSafe ==
  ASSUME NEW me \in Agents, TypeOK, RealityInv(me), PassStep(me) \/ Crash(me)
  PROVE  RealityInv(me)'
<1> DEFINE P == pass[me]
<1>0. /\ MarkerHolds /\ Checked(me) /\ Unrecorded(me) /\ Replaced(me) /\ Unsuccessful(me)
      /\ Disabled(me)
      /\ Reported(me) /\ OnlyCheckedOnDisk
  BY DEF RealityInv
<1>a. serving # None <=> unit = "running"
  BY DEF TypeOK
<1>b. P.at \in On => P.spec \in Configs
  BY DEF TypeOK, SpecOf
<1> USE <1>0, Names

<1>1. CASE StartPass(me)
  <2>1. pass'[me].at \in {"off", "look"} /\ ~pass'[me].ok /\ ended'[me] = None
    BY <1>1 DEF StartPass, TypeOK
  <2>2. UNCHANGED <<file, probe, marker, unit, serving>>
    BY <1>1 DEF StartPass, files, process
  <2> QED BY <2>1, <2>2
      DEF RealityInv, MarkerHolds, Checked, Unrecorded, Replaced, Unsuccessful, Disabled,
          Reported, OnlyCheckedOnDisk
<1>2. CASE OffStop(me)
  <2>1. UNCHANGED <<file, probe, marker>> /\ unit' \in {unit, "dead"} /\ serving' \in {serving, None}
    BY <1>2 DEF OffStop, StopAlways, Stops, files, process
  <2>2. MarkerHolds' /\ OnlyCheckedOnDisk'
    BY <2>1 DEF MarkerHolds, OnlyCheckedOnDisk
  <2>3. CASE Goto(me, "off_file") /\ unit' = "dead"
    BY <1>2, <2>1, <2>2, <2>3, GotoKeeps
       DEF OffStop, At, RealityInv, Checked, Unrecorded, Replaced, Unsuccessful,
           Disabled, Reported
  <2>4. CASE End(me, None)
    BY <2>2, <2>4, EndRests, RestingIsSafe DEF RealityInv
  <2> QED BY <1>2, <2>3, <2>4 DEF OffStop, StopAlways, Stops
<1>3. CASE OffFile(me)
  <2>1. P.at = "off_file" /\ UNCHANGED <<probe, marker, unit, serving>>
    BY <1>3 DEF OffFile, At, process
  <2>2. file' \in {file, None}
    BY <1>3 DEF OffFile
  <2>3. MarkerHolds' /\ OnlyCheckedOnDisk'
    BY <2>1, <2>2 DEF MarkerHolds, OnlyCheckedOnDisk, Disabled
  <2>4. CASE Goto(me, "off_probe") /\ file' = None
    BY <2>1, <2>3, <2>4, GotoKeeps
       DEF RealityInv, Checked, Unrecorded, Replaced, Unsuccessful, Disabled, Reported
  <2>5. CASE End(me, None)
    BY <2>3, <2>5, EndRests, RestingIsSafe DEF RealityInv
  <2> QED BY <1>3, <2>4, <2>5 DEF OffFile
<1>4. CASE OffProbe(me)
  <2>1. P.at = "off_probe" /\ UNCHANGED <<file, marker, unit, serving>>
    BY <1>4 DEF OffProbe, At, process
  <2>2. MarkerHolds' /\ OnlyCheckedOnDisk'
    BY <2>1 DEF MarkerHolds, OnlyCheckedOnDisk
  <2>3. CASE Goto(me, "off_marker") /\ probe' = None
    BY <2>1, <2>2, <2>3, GotoKeeps
       DEF RealityInv, Checked, Unrecorded, Replaced, Unsuccessful, Disabled, Reported
  <2>4. CASE End(me, None)
    BY <2>2, <2>4, EndRests, RestingIsSafe DEF RealityInv
  <2> QED BY <1>4, <2>3, <2>4 DEF OffProbe
<1>5. CASE OffMarker(me)
  <2>1. P.at = "off_marker" /\ UNCHANGED <<file, probe, unit, serving>>
    BY <1>5 DEF OffMarker, At, process
  <2>2. unit = "dead" /\ file = None /\ probe = None
    BY <2>1 DEF Disabled
  <2>3. MarkerHolds' /\ OnlyCheckedOnDisk'
    BY <2>1, <2>2 DEF MarkerHolds, OnlyCheckedOnDisk
  <2>4. CASE End(me, Off) /\ marker' = None
    <3>1. pass'[me] = Resting /\ ended'[me] = Off
      BY <2>4, EndRests
    <3> QED BY <2>1, <2>2, <2>3, <2>4, <3>1
        DEF RealityInv, Resting, Checked, Unrecorded, Replaced, Unsuccessful, Disabled, Reported
  <2>5. CASE End(me, None)
    BY <2>3, <2>5, EndRests, RestingIsSafe DEF RealityInv
  <2> QED BY <1>5, <2>4, <2>5 DEF OffMarker
<1>6. CASE Look(me)
  <2>1. P.at = "look" /\ P.spec \in Configs /\ UNCHANGED <<file, probe, marker, unit, serving>>
    BY <1>6, <1>b DEF Look, At, files, process, On
  <2>2. MarkerHolds' /\ OnlyCheckedOnDisk'
    BY <2>1 DEF MarkerHolds, OnlyCheckedOnDisk
  <2>3. CASE End(me, SpecOf(me)) /\ Applied(me)
    <3>1. pass'[me] = Resting /\ ended'[me] = P.spec
      BY <2>3, EndRests DEF SpecOf
    <3>2. file = P.spec /\ serving \in {P.spec, None}
      BY <2>1, <2>3 DEF Applied, SpecOf, MarkerHolds
    <3> QED BY <2>1, <2>2, <3>1, <3>2
        DEF RealityInv, Resting, Checked, Unrecorded, Replaced, Unsuccessful, Disabled, Reported
  <2>4. CASE Goto(me, "probe")
    BY <2>1, <2>2, <2>4, GotoKeeps
       DEF RealityInv, Checked, Unrecorded, Replaced, Unsuccessful, Disabled, Reported
  <2> QED BY <1>6, <2>3, <2>4 DEF Look
<1>7. CASE WriteProbe(me)
  <2>1. P.at = "probe" /\ P.spec \in Configs /\ UNCHANGED <<file, marker, unit, serving>>
    BY <1>7, <1>b DEF WriteProbe, At, process, On
  <2>2. MarkerHolds' /\ OnlyCheckedOnDisk'
    BY <2>1 DEF MarkerHolds, OnlyCheckedOnDisk
  <2>3. CASE Goto(me, "check") /\ probe' = P.spec
    BY <2>1, <2>2, <2>3, GotoKeeps
       DEF RealityInv, Checked, Unrecorded, Replaced, Unsuccessful, Disabled, Reported
  <2>4. CASE End(me, None)
    BY <2>2, <2>4, EndRests, RestingIsSafe DEF RealityInv
  <2> QED BY <1>7, <2>3, <2>4 DEF WriteProbe, Written, After, SpecOf
<1>8. CASE Check(me)
  <2>1. P.at = "check" /\ UNCHANGED <<file, probe, marker, unit, serving>>
    BY <1>8 DEF Check, At, files, process
  <2>2. (Goto(me, "unmark") /\ probe \in Accepted) \/ Goto(me, "reject")
    BY <1>8 DEF Check, After
  <2> QED BY <2>1, <2>2, GotoKeeps
      DEF RealityInv, MarkerHolds, Checked, Unrecorded, Replaced, Unsuccessful, Disabled,
          Reported, OnlyCheckedOnDisk
<1>9. CASE RejectStop(me)
  <2>1. /\ P.at = "reject" /\ UNCHANGED <<file, probe, marker>> /\ Goto(me, "cleanup")
        /\ unit' \in {unit, "dead"} /\ serving' \in {serving, None}
    BY <1>9 DEF RejectStop, At, Stops, files, process
  <2>2. ~P.ok
    BY <2>1 DEF Unsuccessful
  <2> QED BY <2>1, <2>2, GotoKeeps
      DEF RealityInv, MarkerHolds, Checked, Unrecorded, Replaced, Unsuccessful, Disabled,
          Reported, OnlyCheckedOnDisk
<1>10. CASE RemoveMarker(me)
  <2>1. P.at = "unmark" /\ ~P.ok /\ UNCHANGED <<file, probe, unit, serving>>
    BY <1>10 DEF RemoveMarker, At, process, Unsuccessful
  <2>2. (Goto(me, "write") /\ marker' = None) \/ (Goto(me, "cleanup") /\ marker' = marker)
    BY <1>10 DEF RemoveMarker, Step, After
  <2> QED BY <2>1, <2>2, GotoKeeps
      DEF RealityInv, MarkerHolds, Checked, Unrecorded, Replaced, Unsuccessful, Disabled,
          Reported, OnlyCheckedOnDisk
<1>11. CASE WriteFile(me)
  <2>1. P.at = "write" /\ ~P.ok /\ P.spec \in Accepted /\ UNCHANGED <<probe, marker, unit, serving>>
    BY <1>11 DEF WriteFile, At, process, Unsuccessful, Checked
  <2>2. (Goto(me, "stop") /\ file' = P.spec) \/ (Goto(me, "cleanup") /\ file' \in {file, Torn})
    BY <1>11 DEF WriteFile, Step, After, Written, SpecOf
    <2> QED BY <2>1, <2>2, GotoKeeps
        DEF RealityInv, MarkerHolds, Checked, Unrecorded, Replaced, Unsuccessful,
            Disabled, Reported, OnlyCheckedOnDisk
<1>12. CASE Stop(me)
  <2>1. /\ P.at = "stop" /\ ~P.ok /\ UNCHANGED <<file, probe, marker>>
        /\ unit' \in {unit, "dead"} /\ serving' \in {serving, None}
    BY <1>12 DEF Stop, At, Stops, files, process, Unsuccessful
  <2>2. (Goto(me, "start") /\ unit' = "dead" /\ serving' = None) \/ Goto(me, "cleanup")
    BY <1>12 DEF Stop, Stops, Step
  <2> QED BY <2>1, <2>2, GotoKeeps
      DEF RealityInv, MarkerHolds, Checked, Unrecorded, Replaced, Unsuccessful, Disabled,
          Reported, OnlyCheckedOnDisk
<1>13. CASE Start(me)
  <2>1. P.at = "start" /\ ~P.ok /\ UNCHANGED <<file, probe, marker>> /\ marker = None /\ file = P.spec
    BY <1>13 DEF Start, At, files, Unsuccessful, Unrecorded, Replaced
  <2>2. serving' \in {serving, None, P.spec} /\ (Goto(me, "confirm") \/ Goto(me, "cleanup"))
    BY <1>13, <2>1 DEF Start, Started, process
  <2>3. serving \in {P.spec, None}
    BY <2>1 DEF Replaced
  <2> QED BY <2>1, <2>2, <2>3, GotoKeeps
      DEF RealityInv, MarkerHolds, Checked, Unrecorded, Replaced, Unsuccessful, Disabled,
          Reported, OnlyCheckedOnDisk
<1>14. CASE ConfirmRunning(me)
  <2>1. P.at = "confirm" /\ ~P.ok /\ UNCHANGED <<file, probe, marker, unit, serving>>
    BY <1>14 DEF ConfirmRunning, At, files, process, Unsuccessful
  <2>2. Goto(me, "mark") \/ Goto(me, "cleanup")
    BY <1>14 DEF ConfirmRunning
  <2> QED BY <2>1, <2>2, GotoKeeps
      DEF RealityInv, MarkerHolds, Checked, Unrecorded, Replaced, Unsuccessful, Disabled,
          Reported, OnlyCheckedOnDisk
<1>15. CASE WriteMarker(me)
  <2>1. /\ P.at = "mark" /\ UNCHANGED <<file, probe, unit, serving, ended>>
        /\ marker' \in {P.spec, marker, Torn}
    BY <1>15, <1>b DEF WriteMarker, At, process, Written, SpecOf
  <2>2. pass'[me].at = "cleanup" /\ pass'[me].spec = P.spec
    BY <1>15 DEF WriteMarker, TypeOK, Passes
  <2>3. file = P.spec /\ serving \in {P.spec, None} /\ marker = None
    BY <2>1 DEF Replaced, Unrecorded
  <2> QED BY <2>1, <2>2, <2>3
      DEF RealityInv, MarkerHolds, Checked, Unrecorded, Replaced, Unsuccessful, Disabled,
          Reported, OnlyCheckedOnDisk
<1>16. CASE Cleanup(me)
  <2>1. P.at = "cleanup" /\ P.spec \in Configs /\ UNCHANGED <<file, marker, unit, serving>>
    BY <1>16, <1>b DEF Cleanup, At, process, On, Probing
  <2>2. MarkerHolds' /\ OnlyCheckedOnDisk'
    BY <2>1 DEF MarkerHolds, OnlyCheckedOnDisk
  <2>3. CASE End(me, SpecOf(me)) /\ P.ok
    <3>1. pass'[me] = Resting /\ ended'[me] = P.spec
      BY <2>3, EndRests DEF SpecOf
    <3> QED BY <2>1, <2>2, <2>3, <3>1
        DEF RealityInv, Resting, Checked, Unrecorded, Replaced, Unsuccessful, Disabled, Reported
  <2>4. CASE End(me, None)
    BY <2>2, <2>4, EndRests, RestingIsSafe DEF RealityInv
  <2> QED BY <1>16, <2>3, <2>4 DEF Cleanup
<1>17. CASE Crash(me)
  <2>1. End(me, None) /\ UNCHANGED <<file, marker, unit, serving>>
    BY <1>17 DEF Crash, files, process
  <2>2. MarkerHolds' /\ OnlyCheckedOnDisk'
    BY <2>1 DEF MarkerHolds, OnlyCheckedOnDisk
  <2> QED BY <2>1, <2>2, EndRests, RestingIsSafe DEF RealityInv
<1> QED BY <1>1, <1>2, <1>3, <1>4, <1>5, <1>6, <1>7, <1>8, <1>9, <1>10, <1>11, <1>12, <1>13, <1>14, <1>15, <1>16, <1>17
    DEF PassStep

LEMMA EnvironmentSafe ==
  ASSUME NEW me \in Agents, TypeOK, RealityInv(me), Environment
  PROVE  RealityInv(me)'
<1>0. /\ MarkerHolds /\ Checked(me) /\ Unrecorded(me) /\ Replaced(me) /\ Unsuccessful(me)
      /\ Disabled(me)
      /\ Reported(me) /\ OnlyCheckedOnDisk
  BY DEF RealityInv
<1> USE <1>0, Names
<1>1. CASE \E x \in Specs : Deploy(x)
  BY <1>1
     DEF Deploy, files, process, RealityInv, MarkerHolds, Checked, Unrecorded, Replaced,
         Unsuccessful, Disabled, Reported, OnlyCheckedOnDisk
<1>2. CASE Dies
  <2>1. UNCHANGED <<file, probe, marker, pass, ended>> /\ unit = "running" /\ serving' = None
    BY <1>2 DEF Dies, files
  <2> QED BY <2>1
      DEF RealityInv, MarkerHolds, Checked, Unrecorded, Replaced, Unsuccessful, Disabled,
          Reported, OnlyCheckedOnDisk
<1>3. CASE Restart
  <2>1. UNCHANGED <<file, probe, marker, pass, ended>> /\ unit = "auto-restart" /\ serving' = file
    BY <1>3 DEF Restart, files
  <2> QED BY <2>1
      DEF RealityInv, MarkerHolds, Checked, Unrecorded, Replaced, Unsuccessful, Disabled,
          Reported, OnlyCheckedOnDisk
<1>4. CASE Reboot
  <2>1. pass'[me] = Resting /\ ended'[me] = None
    BY <1>4 DEF Reboot
  <2>2. MarkerHolds' /\ OnlyCheckedOnDisk'
    BY <1>4 DEF Reboot, MarkerHolds, OnlyCheckedOnDisk
  <2> QED BY <2>1, <2>2, RestingIsSafe DEF RealityInv
<1> QED BY <1>1, <1>2, <1>3, <1>4 DEF Environment

\* With one agent, RealityInv holds in every reachable state.
THEOREM RealityInvariant == ASSUME NEW me, Agents = {me} PROVE Spec => []RealityInv(me)
<1>0. me \in Agents
  OBVIOUS
<1>1. Init => RealityInv(me)
  BY <1>0, Names
     DEF Init, Resting, RealityInv, MarkerHolds, Checked, Unrecorded, Replaced,
         Unsuccessful, Disabled, Reported, OnlyCheckedOnDisk
<1>2. TypeOK /\ RealityInv(me) /\ [Next]_vars => RealityInv(me)'
  <2>1. RealityInv(me) /\ UNCHANGED vars => RealityInv(me)'
    BY
       DEF vars, files, process, RealityInv, MarkerHolds, Checked, Unrecorded, Replaced,
           Unsuccessful, Disabled, Reported, OnlyCheckedOnDisk
  <2> QED BY <1>0, <2>1, StepSafe, EnvironmentSafe DEF Next
<1> QED BY <1>1, <1>2, RealityTypeCorrect, PTL DEF Spec

\* The marker never claims what the listener does not serve, whichever
\* command fails and wherever the pass or the listener dies.
THEOREM MarkerAlwaysTrue == ASSUME NEW me, Agents = {me} PROVE Spec => []MarkerTruth
<1>1. TypeOK /\ RealityInv(me) => MarkerTruth
  BY DEF TypeOK, RealityInv, MarkerHolds, MarkerTruth
<1> QED BY <1>1, RealityInvariant, RealityTypeCorrect, PTL

\* After a pass that reported success nobody is admitted but by what it applied.
THEOREM ServedAlwaysAsApplied == ASSUME NEW me, Agents = {me} PROVE Spec => []ServedAsApplied
<1>1. RealityInv(me) => ServedAsApplied
  BY DEF RealityInv, Reported, ServedAsApplied
<1> QED BY <1>1, RealityInvariant, PTL

\* The live configuration is always one that passed its check.
THEOREM OnlyCheckedEver == ASSUME NEW me, Agents = {me} PROVE Spec => []OnlyCheckedOnDisk
<1>1. RealityInv(me) => OnlyCheckedOnDisk
  BY DEF RealityInv
<1> QED BY <1>1, RealityInvariant, PTL
=============================================================================

---------------------------- MODULE RealityListener ----------------------------
(***************************************************************************)
(* The TCP/443 fallback listener: sing-box as a transient unit, started    *)
(* from a configuration in the runtime directory that names every device   *)
(* allowed in.  RealityIngress.Apply brings it to what the revision asks   *)
(* for, "including asking for it to be gone".                              *)
(*                                                                         *)
(* Three things have to agree: the file, which systemd re-reads whenever   *)
(* the process dies; the process, which serves the file it was started     *)
(* from; and the .applied marker, by which the next pass decides whether   *)
(* anything is to be done at all.  A step of this module is one command or *)
(* one file operation; each may fail, the pass may die before it, and the  *)
(* listener may die at any time.                                           *)
(***************************************************************************)
EXTENDS Integers

CONSTANTS
  Configs,     \* rendered listener configurations
  Accepted,    \* those `sing-box check` lets pass
  Agents,      \* `serve`, and one-shot `reconcile` runs beside it
  Off,         \* the fallback is disabled
  None, Torn,  \* no file; a file half written
  MaxFaults,   \* bound: commands and file operations that fail
  MaxCrashes,  \* bound: passes that die, and reboots
  MaxDeaths    \* bound: deaths of the listener

ASSUME ConfigsAssumption == Accepted \subseteq Configs /\ {Off, None, Torn} \cap Configs = {}
ASSUME DistinctAssumption == Off # None /\ Off # Torn /\ None # Torn
ASSUME BoundsAssumption == MaxFaults \in Nat /\ MaxCrashes \in Nat /\ MaxDeaths \in Nat

VARIABLES
  want,      \* what the desired revision compiles to: a configuration or Off
  file,      \* reality-singbox.json
  probe,     \* reality-singbox.json.check, which holds the same private key
  marker,    \* reality-singbox.json.applied: which configuration is running
  unit,      \* SubState of the unit
  serving,   \* configuration of the process, None when there is none
  pass,      \* where each agent's Apply stands
  ended,     \* what an agent's last pass applied, None when it failed
  faults, crashes, deaths

files == <<file, probe, marker>>
process == <<unit, serving>>
budgets == <<faults, crashes, deaths>>
vars == <<want, files, process, pass, ended, budgets>>

Specs == Configs \cup {Off}
Contents == Configs \cup {None, Torn}
Probing == {"check", "unmark", "write", "stop", "start", "confirm", "mark",
            "reject", "cleanup"}
On == Probing \cup {"look", "probe"}
Labels == On \cup {"idle", "off", "off_file", "off_probe", "off_marker"}
Passes == [at : Labels, spec : Specs \cup {None}, ok : BOOLEAN]
Resting == [at |-> "idle", spec |-> None, ok |-> FALSE]

At(a, label) == pass[a].at = label
SpecOf(a) == pass[a].spec

\* The copy that is checked is left behind only by a failure or a crash.
TypeOK ==
  /\ want \in Specs
  /\ file \in Contents /\ probe \in Contents /\ marker \in Contents
  /\ unit \in {"dead", "running", "auto-restart"}
  /\ serving \in Configs \cup {None}
  /\ serving # None <=> unit = "running"
  /\ pass \in [Agents -> Passes]
  /\ \A a \in Agents : /\ At(a, "idle") <=> pass[a] = Resting
                       /\ ~At(a, "idle") => SpecOf(a) \in Specs
                       /\ pass[a].at \in On => SpecOf(a) \in Configs
  /\ ended \in [Agents -> Specs \cup {None}]
  /\ faults \in 0 .. MaxFaults /\ crashes \in 0 .. MaxCrashes /\ deaths \in 0 .. MaxDeaths
  /\ probe # None => \/ \E a \in Agents : pass[a].at \in Probing
                     \/ faults + crashes > 0

Init ==
  /\ want \in Specs
  /\ file = None /\ probe = None /\ marker = None
  /\ unit = "dead" /\ serving = None
  /\ pass = [a \in Agents |-> Resting]
  /\ ended = [a \in Agents |-> None]
  /\ faults = 0 /\ crashes = 0 /\ deaths = 0

-----------------------------------------------------------------------------
Outcomes == {"ok"} \cup (IF faults < MaxFaults THEN {"fails"} ELSE {})
Spend(w) ==
  faults' = faults + (IF w = "ok" THEN 0 ELSE 1) /\ UNCHANGED <<crashes, deaths>>

Goto(a, label) == pass' = [pass EXCEPT ![a].at = label] /\ UNCHANGED ended
End(a, result) ==
  pass' = [pass EXCEPT ![a] = Resting] /\ ended' = [ended EXCEPT ![a] = result]

\* Go on, or give up by way of the deferred removal of the probe.
Step(a, w, label) ==
  Goto(a, IF w = "ok" THEN label ELSE "cleanup")

\* os.WriteFile truncates first: a failed write may leave half a file.
Written(old, new, w) == IF w = "ok" THEN {new} ELSE {old, Torn}

\* A stop that failed may still have gone through, later or at once.
Stops(w) ==
  \/ w = "ok" /\ unit' = "dead" /\ serving' = None
  \/ w = "fails" /\ UNCHANGED process
  \/ w = "fails" /\ unit' = "dead" /\ serving' = None

\* The order in which a configuration is put in place.  Mutant: the record of what
\* runs goes after the file changed.
AfterWriteFirst ==
  [probe |-> "check", check |-> "write", write |-> "unmark", unmark |-> "stop"]
After ==
  [probe |-> "check", check |-> "unmark", unmark |-> "write", write |-> "stop"]

\* A pass reaches the listener, last of all adapters.  A key that cannot be
\* read compiles to a disabled listener.
StartPass(a) ==
  /\ At(a, "idle")
  /\ \E w \in Outcomes :
       LET spec == IF w = "ok" THEN want ELSE Off IN
       /\ Spend(w)
       /\ pass' = [pass EXCEPT ![a] = [at |-> IF spec = Off THEN "off" ELSE "look",
                                       spec |-> spec, ok |-> FALSE]]
       /\ ended' = [ended EXCEPT ![a] = None]
  /\ UNCHANGED <<want, files, process>>

-----------------------------------------------------------------------------
(* The fallback is off.                                                    *)

\* "Unconditional": a listener in its restart backoff is stopped as well.
\* Mutant: only an active one is.
StopIfActive == unit = "running"
StopAlways == TRUE

OffStop(a) ==
  /\ At(a, "off")
  /\ \E w \in Outcomes :
       /\ Spend(w)
       /\ IF StopAlways THEN Stops(w) ELSE UNCHANGED process
       /\ IF w = "ok" THEN Goto(a, "off_file") ELSE End(a, None)
  /\ UNCHANGED <<want, files>>

\* The configuration, the probe and the marker go, in this order; the first
\* that cannot be removed ends the pass.
OffFile(a) ==
  /\ At(a, "off_file")
  /\ \E w \in Outcomes :
       /\ Spend(w)
       /\ IF w = "ok" THEN file' = None /\ Goto(a, "off_probe")
                      ELSE UNCHANGED file /\ End(a, None)
  /\ UNCHANGED <<want, probe, marker, process>>

OffProbe(a) ==
  /\ At(a, "off_probe")
  /\ \E w \in Outcomes :
       /\ Spend(w)
       /\ IF w = "ok" THEN probe' = None /\ Goto(a, "off_marker")
                      ELSE UNCHANGED probe /\ End(a, None)
  /\ UNCHANGED <<want, file, marker, process>>

OffMarker(a) ==
  /\ At(a, "off_marker")
  /\ \E w \in Outcomes :
       /\ Spend(w)
       /\ IF w = "ok" THEN marker' = None /\ End(a, Off)
                      ELSE UNCHANGED marker /\ End(a, None)
  /\ UNCHANGED <<want, file, probe, process>>

-----------------------------------------------------------------------------
(* The fallback is on.                                                     *)

\* Is the configuration already running?  Mutant: the file is asked, not the
\* record of what was started.
AppliedByFile(a) == unit = "running" /\ file = SpecOf(a)
Applied(a) == unit = "running" /\ marker = SpecOf(a)

Look(a) ==
  /\ At(a, "look")
  /\ \E w \in Outcomes :
       /\ Spend(w)
       /\ IF w = "ok" /\ Applied(a) THEN End(a, SpecOf(a)) ELSE Goto(a, "probe")
  /\ UNCHANGED <<want, files, process>>

\* A probe that cannot be written ends the pass before its removal is deferred.
WriteProbe(a) ==
  /\ At(a, "probe")
  /\ \E w \in Outcomes :
       /\ Spend(w)
       /\ probe' \in Written(probe, SpecOf(a), w)
       /\ IF w = "ok" THEN Goto(a, After.probe) ELSE End(a, None)
  /\ UNCHANGED <<want, file, marker, process>>

\* sing-box check reads whatever is in the probe by then.
Check(a) ==
  /\ At(a, "check")
  /\ \E w \in Outcomes :
       /\ Spend(w)
       /\ Goto(a, IF w = "ok" /\ probe \in Accepted THEN After.check ELSE "reject")
  /\ UNCHANGED <<want, files, process>>

\* A rejected configuration stops the listener that serves the previous one.
RejectStop(a) ==
  /\ At(a, "reject")
  /\ \E w \in Outcomes : Spend(w) /\ Stops(w)
  /\ Goto(a, "cleanup")
  /\ UNCHANGED <<want, files>>

RemoveMarker(a) ==
  /\ At(a, "unmark")
  /\ \E w \in Outcomes :
       /\ Spend(w)
       /\ marker' = IF w = "ok" THEN None ELSE marker
       /\ Step(a, w, After.unmark)
  /\ UNCHANGED <<want, file, probe, process>>

WriteFile(a) ==
  /\ At(a, "write")
  /\ \E w \in Outcomes :
       /\ Spend(w)
       /\ file' \in Written(file, SpecOf(a), w)
       /\ Step(a, w, After.write)
  /\ UNCHANGED <<want, probe, marker, process>>

Stop(a) ==
  /\ At(a, "stop")
  /\ \E w \in Outcomes : Spend(w) /\ Stops(w) /\ Step(a, w, "start")
  /\ UNCHANGED <<want, files>>

\* systemd starts the process from the file as it is: a listener that cannot
\* read it waits out its backoff.
Started ==
  IF file \in Accepted THEN unit' = "running" /\ serving' = file
                       ELSE unit' = "auto-restart" /\ serving' = None

\* systemd-run refuses a unit name that is still taken.
Start(a) ==
  /\ At(a, "start")
  /\ \E w \in Outcomes :
       /\ Spend(w)
       /\ IF w = "ok" /\ unit = "dead" THEN Started /\ Goto(a, "confirm")
                                       ELSE UNCHANGED process /\ Goto(a, "cleanup")
  /\ UNCHANGED <<want, files>>

\* Two seconds of looking at its SubState.
ConfirmRunning(a) ==
  /\ At(a, "confirm")
  /\ \E w \in Outcomes :
       /\ Spend(w)
       /\ Goto(a, IF w = "ok" /\ unit = "running" THEN "mark" ELSE "cleanup")
  /\ UNCHANGED <<want, files, process>>

\* "Recorded last, so it means 'this is what is running'".
WriteMarker(a) ==
  /\ At(a, "mark")
  /\ \E w \in Outcomes :
       /\ Spend(w)
       /\ marker' \in Written(marker, SpecOf(a), w)
       /\ pass' = [pass EXCEPT ![a].at = "cleanup", ![a].ok = (w = "ok")]
       /\ UNCHANGED ended
  /\ UNCHANGED <<want, file, probe, process>>

\* The deferred removal of the probe, whose failure is ignored, and the return.
\* Mutant: it is not removed when the configuration is rejected.
CleanUnlessRejected(a, w) == w = "ok" /\ probe \in Accepted
Cleans(a, w) == w = "ok"

Cleanup(a) ==
  /\ At(a, "cleanup")
  /\ \E w \in Outcomes :
       /\ Spend(w)
       /\ probe' = IF Cleans(a, w) THEN None ELSE probe
  /\ End(a, IF pass[a].ok THEN SpecOf(a) ELSE None)
  /\ UNCHANGED <<want, file, marker, process>>

-----------------------------------------------------------------------------
(* What happens around it.                                                 *)

\* A deploy or a rollback makes another revision the desired one.
Deploy(w) ==
  /\ w # want
  /\ want' = w
  /\ UNCHANGED <<files, process, pass, ended, budgets>>

\* The listener crashes, or is stopped by hand.
Dies ==
  /\ unit = "running"
  /\ deaths < MaxDeaths /\ deaths' = deaths + 1
  /\ unit' \in {"auto-restart", "dead"}
  /\ serving' = None
  /\ UNCHANGED <<want, files, pass, ended, faults, crashes>>

\* Restart=on-failure: systemd starts it again, from the file of that moment.
Restart ==
  /\ unit = "auto-restart"
  /\ file \in Accepted
  /\ unit' = "running" /\ serving' = file
  /\ UNCHANGED <<want, files, pass, ended, budgets>>

Crash(a) ==
  /\ ~At(a, "idle")
  /\ crashes < MaxCrashes /\ crashes' = crashes + 1
  /\ End(a, None)
  /\ UNCHANGED <<want, files, process, faults, deaths>>

\* The runtime directory is a tmpfs.
Reboot ==
  /\ crashes < MaxCrashes /\ crashes' = crashes + 1
  /\ file' = None /\ probe' = None /\ marker' = None
  /\ unit' = "dead" /\ serving' = None
  /\ pass' = [a \in Agents |-> Resting]
  /\ ended' = [a \in Agents |-> None]
  /\ UNCHANGED <<want, faults, deaths>>

-----------------------------------------------------------------------------
PassStep(a) ==
  \/ StartPass(a)
  \/ OffStop(a) \/ OffFile(a) \/ OffProbe(a) \/ OffMarker(a)
  \/ Look(a) \/ WriteProbe(a) \/ Check(a) \/ RejectStop(a)
  \/ RemoveMarker(a) \/ WriteFile(a) \/ Stop(a) \/ Start(a)
  \/ ConfirmRunning(a) \/ WriteMarker(a) \/ Cleanup(a)

Environment == (\E w \in Specs : Deploy(w)) \/ Dies \/ Restart \/ Reboot

Next == (\E a \in Agents : PassStep(a) \/ Crash(a)) \/ Environment

Spec == Init /\ [][Next]_vars

\* The service runs a pass every interval and every command of a pass ends.
FairSpec == Spec /\ \A a \in Agents : WF_vars(PassStep(a))

(***************************************************************************)
(* Properties, of a host with one agent.                                   *)
(***************************************************************************)

\* The marker never claims what is not so: while the process runs and the
\* marker names a configuration, the process serves that configuration, and
\* systemd would restart it from that configuration.  Otherwise every later
\* pass would call the listener applied and leave it as it is.
MarkerTruth ==
  unit = "running" /\ marker \in Configs => serving = marker /\ file = marker

\* After a pass that reported success, and for as long as no other pass has
\* begun, the listener admits exactly what that pass applied or nobody, even
\* if it dies and systemd restarts it; a disabled one leaves nothing behind.
ServedAsApplied ==
  \A a \in Agents :
    /\ ended[a] \in Configs => serving \in {ended[a], None} /\ file = ended[a]
    /\ ended[a] = Off => unit = "dead" /\ {file, probe, marker} = {None}

\* A configuration that was not checked never becomes the live one, from
\* which a restart would load it.
OnlyCheckedOnDisk == file \in Accepted \cup {None, Torn}

\* If the desired revision stays, the listener ends up with its configuration,
\* or down for good if the fallback is off or its configuration is rejected,
\* and so does not go on admitting what the revision no longer admits.
Matches(w) == IF w \in Accepted THEN serving = w ELSE unit = "dead"
Follows == \A w \in Specs : <>[](want = w) => <>[]Matches(w)

=============================================================================

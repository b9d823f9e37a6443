---------------------------- MODULE UpstreamsProofs ----------------------------
(***************************************************************************)
(* Upstreams, for any lists of any upstreams, any number of shells and any *)
(* number of faults: the types; that only what carried traffic is ever put *)
(* in the store, when no mover dies between writing the canary's           *)
(* configuration and restarting its proxy; and that a link which is known  *)
(* to the mover that replaces it is kept, when two movers are not inside   *)
(* the store at once.                                                      *)
(***************************************************************************)
EXTENDS Upstreams, TLAPS

(* TypeOK, part by part.                                                   *)
Shape(j) ==
  /\ j \in Jobs
  /\ j.at \in {"wait"} \cup Trying \cup Writing => j.queue # <<>>
  /\ j.at \in {"keep", "demote", "promote"} => j.now # None
  /\ j.at \in {"current", "demote", "promote"} => j.was # None
JobsOK == job \in [Movers -> Jobs] /\ \A m \in Movers : Shape(job[m])
LockOK == lock \in Movers \cup {None} /\ \A m \in Movers : lock = m <=> job[m].at \in Trying
StoreOK == link \in Links \cup {None} /\ lkg \in Links \cup {None}
CanaryOK ==
  /\ ns \in BOOLEAN /\ hole \in BOOLEAN
  /\ conf \in Links \cup {None} /\ unit \in Links \cup {None, Stray}
RestOK ==
  /\ reaper \in {"idle", "stop", "del", "forget"}
  /\ cache \in Offers \cup {<<>>}
  /\ shows \in [Messages -> Offers \cup {<<>>}]
  /\ proven \subseteq Links
BudgetsOK == faults \in 0 .. MaxFaults /\ crashes \in 0 .. MaxCrashes

LEMMA TypeParts ==
  TypeOK <=> JobsOK /\ LockOK /\ StoreOK /\ CanaryOK /\ RestOK /\ BudgetsOK
BY DEF TypeOK, JobsOK, Shape, LockOK, StoreOK, CanaryOK, RestOK, BudgetsOK

LEMMA SpendType ==
  ASSUME NEW w \in Outcomes, BudgetsOK, Spend(w)
  PROVE  BudgetsOK'
<1>1. CASE w = "ok"
  BY <1>1, BoundsAssumption DEF BudgetsOK, Spend
<1>2. CASE w # "ok"
  <2>1. faults < MaxFaults
    BY <1>2 DEF Outcomes
  <2> QED BY <2>1, <1>2, BoundsAssumption DEF BudgetsOK, Spend
<1> QED BY <1>1, <1>2

LEMMA SubLabels ==
  /\ Trying \subseteq Labels /\ Writing \subseteq Labels /\ Restoring \subseteq Labels
  /\ "idle" \in Labels /\ "wait" \in Labels
BY DEF Labels

LEMMA RestingShape == Shape(Resting)
<1>1. <<>> \in Seq(Links)
  OBVIOUS
<1>2. Resting \in Jobs
  BY <1>1, SubLabels DEF Resting, Jobs
<1> QED BY <1>2 DEF Shape, Resting, Trying, Building, Writing

(* A mover's record changes, and with it perhaps who holds the lock.       *)
LockFollows(m, x) ==
  \/ UNCHANGED lock /\ (x.at \in Trying <=> job[m].at \in Trying)
  \/ lock = None /\ lock' = m /\ x.at \in Trying
  \/ lock = m /\ lock' = None /\ x.at \notin Trying
OthersStay(m) == \A n \in Movers \ {m} : job'[n] = job[n]

LEMMA JobMoves ==
  ASSUME JobsOK, LockOK, NEW m \in Movers, NEW x, Shape(x),
         job' = [job EXCEPT ![m] = x], LockFollows(m, x)
  PROVE  JobsOK' /\ LockOK' /\ job'[m] = x /\ OthersStay(m)
<1>1. x \in Jobs
  BY DEF Shape
<1>2. job' \in [Movers -> Jobs] /\ job'[m] = x /\ OthersStay(m)
  BY <1>1 DEF JobsOK, OthersStay
<1>3. ASSUME NEW n \in Movers PROVE Shape(job'[n])
  <2>1. CASE n = m
    BY <2>1, <1>2
  <2>2. CASE n # m
    <3>1. job'[n] = job[n]
      BY <2>2, <1>2 DEF OthersStay
    <3> QED BY <3>1 DEF JobsOK
  <2> QED BY <2>1, <2>2
<1>4. JobsOK'
  BY <1>2, <1>3 DEF JobsOK, Shape
<1>5. LockOK'
  BY <1>2, MoversAssumption DEF LockOK, LockFollows, OthersStay
<1> QED BY <1>2, <1>4, <1>5

LEMMA Goes ==
  ASSUME JobsOK, LockOK, NEW m \in Movers, NEW label \in Labels,
         Goto(m, label), Shape([job[m] EXCEPT !.at = label]),
         LockFollows(m, [job[m] EXCEPT !.at = label])
  PROVE  /\ JobsOK' /\ LockOK' /\ OthersStay(m)
         /\ job'[m] = [job[m] EXCEPT !.at = label]
<1> DEFINE x == [job[m] EXCEPT !.at = label]
<1>1. job' = [job EXCEPT ![m] = x]
  BY DEF Goto
<1> HIDE DEF x
<1>2. JobsOK' /\ LockOK' /\ job'[m] = x /\ OthersStay(m)
  BY <1>1, JobMoves DEF x
<1> QED BY <1>2 DEF x

LEMMA Ends ==
  ASSUME JobsOK, LockOK, NEW m \in Movers, End(m), LockFollows(m, Resting)
  PROVE  JobsOK' /\ LockOK' /\ OthersStay(m) /\ job'[m] = Resting
BY RestingShape, JobMoves DEF End

(* Within a try only the label changes.                                    *)
LEMMA TryGoes ==
  ASSUME JobsOK, LockOK, NEW m \in Movers, NEW label \in Trying, job[m].at \in Trying,
         Goto(m, label), UNCHANGED lock
  PROVE  /\ JobsOK' /\ LockOK' /\ OthersStay(m)
         /\ job'[m] = [job[m] EXCEPT !.at = label]
<1> DEFINE x == [job[m] EXCEPT !.at = label]
<1>0. Shape(job[m])
  BY DEF JobsOK
<1>1. /\ x \in Jobs /\ x.at = label /\ x.queue = job[m].queue
      /\ x.now = job[m].now /\ x.was = job[m].was
  BY <1>0, SubLabels DEF Shape, Jobs
<1>2. x.queue # <<>>
  BY <1>0, <1>1 DEF Shape
<1> HIDE DEF x
<1>3. Shape(x)
  BY <1>1, <1>2 DEF Shape, Trying, Building
<1>4. LockFollows(m, x)
  BY <1>1 DEF LockFollows
<1> QED BY <1>3, <1>4, Goes, SubLabels DEF x

LEMMA HeadTail ==
  ASSUME NEW q \in Seq(Links), q # <<>>
  PROVE  Head(q) \in Links /\ Tail(q) \in Seq(Links)
OBVIOUS

(* An action that leaves every mover alone.                                *)
LEMMA JobsStay ==
  ASSUME JobsOK, LockOK, UNCHANGED <<job, lock>>
  PROVE  JobsOK' /\ LockOK'
BY DEF JobsOK, LockOK, Shape

LEMMA CacheEntry ==
  ASSUME RestOK, NEW i \in DOMAIN cache
  PROVE  cache[i] \in Links
<1>1. cache # <<>>
  OBVIOUS
<1>2. cache \in Seq(Links)
  BY <1>1, OffersAssumption DEF RestOK
<1> QED BY <1>2

LEMMA StartType ==
  ASSUME TypeOK, NEW m \in Movers,
         \/ StartRefresh(m) \/ StartRestore(m) \/ TakeLock(m)
  PROVE  TypeOK'
<1>0. JobsOK /\ LockOK /\ StoreOK /\ CanaryOK /\ RestOK /\ BudgetsOK
  BY TypeParts
<1> SUFFICES JobsOK' /\ LockOK' /\ StoreOK' /\ CanaryOK' /\ RestOK' /\ BudgetsOK'
  BY DEF TypeOK, JobsOK, Shape, LockOK, StoreOK, CanaryOK, RestOK, BudgetsOK
<1> USE <1>0
<1>j. Shape(job[m]) /\ job[m] \in Jobs
  BY DEF JobsOK, Shape
<1>r. UNCHANGED <<store, canary, reaper, chat, proven, budgets>>
  BY DEF StartRefresh, StartRestore, TakeLock
<1>s. StoreOK' /\ CanaryOK' /\ RestOK' /\ BudgetsOK'
  BY <1>r DEF StoreOK, CanaryOK, RestOK, BudgetsOK, store, canary, chat, budgets
<1>1. CASE StartRefresh(m)
  <2>1. PICK list \in Offers : job' = [job EXCEPT ![m].at = "wait", ![m].queue = list]
    BY <1>1 DEF StartRefresh
  <2> DEFINE x == [job[m] EXCEPT !.at = "wait", !.queue = list]
  <2>2. list \in Seq(Links) /\ list # <<>>
    BY OffersAssumption
  <2>3. x \in Jobs /\ x.at = "wait" /\ x.queue = list
    BY <1>j, <2>2, SubLabels DEF Jobs
  <2>4. job' = [job EXCEPT ![m] = x]
    BY <2>1
  <2> HIDE DEF x
  <2>5. Shape(x)
    BY <2>2, <2>3 DEF Shape
  <2>6. LockFollows(m, x)
    BY <1>1, <2>3 DEF LockFollows, StartRefresh, At, Trying, Building
  <2> QED BY <1>s, <2>4, <2>5, <2>6, JobMoves
<1>2. CASE StartRestore(m)
  <2> DEFINE x == [job[m] EXCEPT !.at = "previous"]
  <2>1. x \in Jobs /\ x.at = "previous"
    BY <1>j DEF Jobs, Labels, Restoring
  <2>2. Goto(m, "previous") /\ "previous" \in Labels
    BY <1>2 DEF StartRestore, Labels, Restoring
  <2>3. Shape(x)
    BY <2>1 DEF Shape, Trying, Building, Writing
  <2>4. LockFollows(m, x)
    BY <1>2, <2>1 DEF LockFollows, StartRestore, At, Trying, Building
  <2> QED BY <1>s, <2>2, <2>3, <2>4, Goes
<1>3. CASE TakeLock(m)
  <2> DEFINE x == [job[m] EXCEPT !.at = "build"]
  <2>1. x \in Jobs /\ x.at = "build" /\ x.queue = job[m].queue
    BY <1>j, SubLabels DEF Jobs, Trying, Building
  <2>2. Goto(m, "build") /\ "build" \in Labels
    BY <1>3 DEF TakeLock, Labels, Trying, Building
  <2>3. job[m].queue # <<>>
    BY <1>3, <1>j DEF TakeLock, At, Shape
  <2>4. Shape(x)
    BY <2>1, <2>3 DEF Shape
  <2>5. LockFollows(m, x)
    BY <1>3, <2>1 DEF LockFollows, TakeLock, CanLock, Trying, Building
  <2> QED BY <1>s, <2>2, <2>4, <2>5, Goes
<1> QED BY <1>1, <1>2, <1>3

LEMMA PickType ==
  ASSUME TypeOK, NEW s \in Messages, StartPick(s)
  PROVE  TypeOK'
<1>0. JobsOK /\ LockOK /\ StoreOK /\ CanaryOK /\ RestOK /\ BudgetsOK
  BY TypeParts
<1> SUFFICES JobsOK' /\ LockOK' /\ StoreOK' /\ CanaryOK' /\ RestOK' /\ BudgetsOK'
  BY DEF TypeOK, JobsOK, Shape, LockOK, StoreOK, CanaryOK, RestOK, BudgetsOK
<1> USE <1>0
<1>1. StoreOK' /\ CanaryOK' /\ RestOK' /\ BudgetsOK'
  BY DEF StartPick, StoreOK, CanaryOK, RestOK, BudgetsOK, store, canary, chat, budgets
<1>2. PICK i \in DOMAIN shows[s] \cap DOMAIN cache :
        job' = [job EXCEPT ![Bot].at = "wait", ![Bot].queue = <<cache[i]>>]
  BY DEF StartPick
<1> DEFINE x == [job[Bot] EXCEPT !.at = "wait", !.queue = <<cache[i]>>]
<1>3. Bot \in Movers /\ job[Bot] \in Jobs
  BY DEF Movers, JobsOK
<1>4. cache[i] \in Links
  BY CacheEntry
<1>5. <<cache[i]>> \in Seq(Links) /\ <<cache[i]>> # <<>>
  BY <1>4
<1>6. x \in Jobs /\ x.at = "wait" /\ x.queue # <<>>
  BY <1>3, <1>4, <1>5, SubLabels DEF Jobs
<1>7. job' = [job EXCEPT ![Bot] = x]
  BY <1>2
<1> HIDE DEF x
<1>8. Shape(x)
  BY <1>6 DEF Shape
<1>9. LockFollows(Bot, x)
  BY <1>6 DEF LockFollows, StartPick, At, Trying, Building
<1> QED BY <1>1, <1>3, <1>7, <1>8, <1>9, JobMoves

LEMMA WrittenTypes ==
  ASSUME NEW old, NEW new, NEW w
  PROVE  /\ Written(old, new, w) \subseteq {old, new, None}
         /\ Replaced(old, new, w) \subseteq {old, new}
         /\ Tidied(old, new, w) \subseteq {old, new}
BY DEF Written, Replaced, Tidied

LEMMA CandidateType ==
  ASSUME JobsOK, NEW m \in Movers, job[m].at \in {"wait"} \cup Trying \cup Writing
  PROVE  Candidate(m) \in Links /\ job[m].queue \in Seq(Links) /\ job[m].queue # <<>>
<1>1. job[m].queue \in Seq(Links) /\ job[m].queue # <<>>
  BY DEF JobsOK, Shape, Jobs
<1> QED BY <1>1, HeadTail DEF Candidate

LEMMA TryType ==
  ASSUME TypeOK, NEW m \in Movers,
         Build(m) \/ WriteConf(m) \/ Restart(m) \/ Routes(m) \/ Allow(m)
  PROVE  TypeOK'
<1>0. JobsOK /\ LockOK /\ StoreOK /\ CanaryOK /\ RestOK /\ BudgetsOK
  BY TypeParts
<1> SUFFICES JobsOK' /\ LockOK' /\ StoreOK' /\ CanaryOK' /\ RestOK' /\ BudgetsOK'
  BY DEF TypeOK, JobsOK, Shape, LockOK, StoreOK, CanaryOK, RestOK, BudgetsOK
<1> USE <1>0
<1>1. job[m].at \in Trying
  BY DEF Build, WriteConf, Restart, Routes, Allow, At, Trying, Building
<1>2. PICK label \in Trying : Goto(m, label)
  <2>1. {"write", "restart", "routes", "allow", "probe", "discard"} \subseteq Trying
    BY DEF Trying, Building
  <2> QED BY <2>1 DEF Build, WriteConf, Restart, Routes, Allow, Step, AfterConf
<1>3. UNCHANGED lock
  BY DEF Build, WriteConf, Restart, Routes, Allow
<1>4. JobsOK' /\ LockOK'
  BY <1>1, <1>2, <1>3, TryGoes
<1>5. StoreOK' /\ RestOK'
  BY DEF Build, WriteConf, Restart, Routes, Allow, StoreOK, RestOK, store, chat
<1>6. BudgetsOK'
  <2>1. (\E w \in Outcomes : Spend(w)) \/ UNCHANGED budgets
    BY DEF Build, WriteConf, Restart, Routes, Allow
  <2> QED BY <2>1, SpendType DEF BudgetsOK, budgets
<1>7. CanaryOK'
  <2>1. Candidate(m) \in Links
    BY <1>1, CandidateType
  <2>2. CASE Build(m)
    BY <2>2 DEF Build, CanaryOK
  <2>3. CASE WriteConf(m)
    <3>1. conf' \in {conf, Candidate(m), None}
      BY <2>3, WrittenTypes DEF WriteConf
    <3> QED BY <2>1, <2>3, <3>1 DEF WriteConf, CanaryOK
  <2>4. CASE Restart(m)
    BY <2>4 DEF Restart, CanaryOK
  <2>5. CASE Routes(m)
    BY <2>5 DEF Routes, CanaryOK, canary
  <2>6. CASE Allow(m)
    BY <2>6 DEF Allow, CanaryOK
  <2> QED BY <2>2, <2>3, <2>4, <2>5, <2>6
<1> QED BY <1>4, <1>5, <1>6, <1>7

LEMMA ProbeType ==
  ASSUME TypeOK, NEW m \in Movers, Probe(m) \/ Discard(m)
  PROVE  TypeOK'
<1>0. JobsOK /\ LockOK /\ StoreOK /\ CanaryOK /\ RestOK /\ BudgetsOK
  BY TypeParts
<1> SUFFICES JobsOK' /\ LockOK' /\ StoreOK' /\ CanaryOK' /\ RestOK' /\ BudgetsOK'
  BY DEF TypeOK, JobsOK, Shape, LockOK, StoreOK, CanaryOK, RestOK, BudgetsOK
<1> USE <1>0
<1>j. job[m] \in Jobs /\ Shape(job[m])
  BY DEF JobsOK, Shape
<1>m. ASSUME NEW label \in {"discard", "clean"}, NEW b \in BOOLEAN, job[m].at \in Trying,
             UNCHANGED lock, job' = [job EXCEPT ![m] = [job[m] EXCEPT !.at = label, !.ok = b]]
      PROVE  JobsOK' /\ LockOK'
  <2> DEFINE x == [job[m] EXCEPT !.at = label, !.ok = b]
  <2>1. label \in Trying /\ label \in Labels
    BY SubLabels DEF Trying, Building
  <2>2. x \in Jobs /\ x.at = label /\ x.queue = job[m].queue
    BY <1>j, <2>1 DEF Jobs
  <2>3. x.queue # <<>>
    BY <1>j, <1>m, <2>2 DEF Shape
  <2> HIDE DEF x
  <2>4. Shape(x)
    BY <2>2, <2>3 DEF Shape
  <2>5. LockFollows(m, x)
    BY <1>m, <2>1, <2>2 DEF LockFollows
  <2> QED BY <1>m, <2>4, <2>5, JobMoves DEF x
<1>1. CASE Probe(m)
  <2>1. PICK passed \in {FALSE} \cup {Alive} :
          /\ job' = [job EXCEPT ![m].at = "discard", ![m].ok = passed]
          /\ proven' = IF passed THEN proven \cup {unit} ELSE proven
    BY <1>1 DEF Probe
  <2>2. passed \in BOOLEAN /\ (passed => unit \in Links)
    BY DEF Alive, CanaryOK
  <2>3. job' = [job EXCEPT ![m] = [job[m] EXCEPT !.at = "discard", !.ok = passed]]
    BY <2>1
  <2>4. job[m].at \in Trying /\ UNCHANGED lock
    BY <1>1 DEF Probe, At, Trying
  <2>5. JobsOK' /\ LockOK'
    BY <2>2, <2>3, <2>4, <1>m
  <2>6. proven' \subseteq Links
    BY <2>1, <2>2 DEF RestOK
  <2>7. StoreOK' /\ CanaryOK' /\ RestOK' /\ BudgetsOK'
    BY <1>1, <2>6 DEF Probe, StoreOK, CanaryOK, RestOK, BudgetsOK, store, canary, chat, budgets
  <2> QED BY <2>5, <2>7
<1>2. CASE Discard(m)
  <2>1. PICK w \in Outcomes :
          /\ Spend(w)
          /\ hole' = (hole /\ w # "ok")
          /\ job' = [job EXCEPT ![m].at = "clean", ![m].ok = Verdict(@, w)]
    BY <1>2 DEF Discard
  <2> DEFINE b == Verdict(job[m].ok, w)
  <2>2. b \in BOOLEAN
    BY DEF Verdict
  <2>3. job' = [job EXCEPT ![m] = [job[m] EXCEPT !.at = "clean", !.ok = b]]
    BY <2>1
  <2>4. job[m].at \in Trying /\ UNCHANGED lock
    BY <1>2 DEF Discard, At, Trying
  <2> HIDE DEF b
  <2>5. JobsOK' /\ LockOK'
    BY <2>2, <2>3, <2>4, <1>m
  <2>6. StoreOK' /\ CanaryOK' /\ RestOK'
    BY <1>2, <2>1 DEF Discard, StoreOK, CanaryOK, RestOK, store, chat
  <2>7. BudgetsOK'
    BY <2>1, SpendType
  <2> QED BY <2>5, <2>6, <2>7
<1> QED BY <1>1, <1>2

LEMMA SelectedShape ==
  ASSUME JobsOK, NEW m \in Movers, At(m, "clean"), NEW next \in Selected(m)
  PROVE  /\ Shape(next) /\ next.at \in {"read", "build", "idle"}
         /\ next.at = "idle" => next = Resting
         /\ next.at = "read" => next = [job[m] EXCEPT !.at = "read"] /\ job[m].ok
         /\ next.at = "build" => /\ next = [job[m] EXCEPT !.at = "build", !.queue = Tail(@)]
                                 /\ ~job[m].ok
<1>1. job[m] \in Jobs /\ Shape(job[m])
  BY DEF JobsOK, Shape
<1>2. job[m].queue \in Seq(Links) /\ job[m].queue # <<>>
  BY CandidateType DEF At, Trying
<1>3. "read" \in Labels /\ "build" \in Labels /\ Resting.at = "idle"
  BY DEF Labels, Writing, Trying, Building, Resting
<1>4. CASE next = Resting
  BY <1>3, <1>4, RestingShape
<1>5. CASE job[m].ok /\ next = [job[m] EXCEPT !.at = "read"]
  <2>1. next \in Jobs /\ next.at = "read" /\ next.queue = job[m].queue
    BY <1>1, <1>3, <1>5 DEF Jobs
  <2>2. Shape(next)
    BY <1>2, <2>1 DEF Shape
  <2> QED BY <1>5, <2>1, <2>2
<1>6. CASE /\ ~job[m].ok /\ More(job[m].queue)
           /\ next = [job[m] EXCEPT !.at = "build", !.queue = Tail(@)]
  <2>1. Tail(job[m].queue) \in Seq(Links) /\ Tail(job[m].queue) # <<>>
    BY <1>2, <1>6, HeadTail DEF More
  <2>2. next \in Jobs /\ next.at = "build" /\ next.queue = Tail(job[m].queue)
    BY <1>1, <1>3, <1>6, <2>1 DEF Jobs
  <2>3. Shape(next)
    BY <2>1, <2>2 DEF Shape
  <2> QED BY <1>6, <2>2, <2>3
<1> QED BY <1>4, <1>5, <1>6 DEF Selected

LEMMA CleanType ==
  ASSUME TypeOK, NEW m \in Movers, Clean(m)
  PROVE  TypeOK'
<1>0. JobsOK /\ LockOK /\ StoreOK /\ CanaryOK /\ RestOK /\ BudgetsOK
  BY TypeParts
<1> SUFFICES JobsOK' /\ LockOK' /\ StoreOK' /\ CanaryOK' /\ RestOK' /\ BudgetsOK'
  BY DEF TypeOK, JobsOK, Shape, LockOK, StoreOK, CanaryOK, RestOK, BudgetsOK
<1> USE <1>0
<1>1. PICK next \in Selected(m) :
        /\ job' = [job EXCEPT ![m] = next]
        /\ lock' = IF next.at = "build" THEN m ELSE None
  BY DEF Clean
<1>2. At(m, "clean") /\ job[m].at \in Trying /\ lock = m
  BY DEF Clean, At, Trying, LockOK
<1>3. Shape(next) /\ next.at \in {"read", "build", "idle"}
  BY <1>2, SelectedShape
<1>4. LockFollows(m, next)
  BY <1>1, <1>2, <1>3 DEF LockFollows, Trying, Building
<1>5. JobsOK' /\ LockOK'
  BY <1>1, <1>3, <1>4, JobMoves
<1>6. BudgetsOK'
  BY SpendType DEF Clean
<1>7. StoreOK' /\ RestOK'
  BY DEF Clean, StoreOK, RestOK, store, chat
<1>8. CanaryOK'
  <2>1. PICK w \in Outcomes, left \in {unit, None} :
          ns' \in Tidied(ns, FALSE, w) /\ unit' = IF left # None /\ ~ns' THEN Stray ELSE left
    BY DEF Clean
  <2>2. ns' = ns \/ ns' = FALSE
    BY <2>1 DEF Tidied
  <2> QED BY <2>1, <2>2 DEF Clean, CanaryOK
<1> QED BY <1>5, <1>6, <1>7, <1>8

LEMMA StoreMoves ==
  ASSUME TypeOK, NEW m \in Movers, Write(m) \/ Restore(m)
  PROVE  /\ job[m].at \notin Trying /\ UNCHANGED <<lock, canary, reaper, chat, proven>>
         /\ (\E w \in Outcomes : Spend(w)) \/ UNCHANGED budgets
BY DEF Write, Restore, Read, Keep, Put, ReadPrevious, ReadCurrent, Demote, Promote, At,
       Trying, Building

LEMMA StoreMoveType ==
  ASSUME TypeOK, NEW m \in Movers, Write(m) \/ Restore(m)
  PROVE  TypeOK'
<1>0. JobsOK /\ LockOK /\ StoreOK /\ CanaryOK /\ RestOK /\ BudgetsOK
  BY TypeParts
<1> SUFFICES JobsOK' /\ LockOK' /\ StoreOK' /\ CanaryOK' /\ RestOK' /\ BudgetsOK'
  BY DEF TypeOK, JobsOK, Shape, LockOK, StoreOK, CanaryOK, RestOK, BudgetsOK
<1> USE <1>0
<1>1. CanaryOK' /\ RestOK' /\ BudgetsOK'
  BY StoreMoves, SpendType DEF CanaryOK, RestOK, BudgetsOK, canary, chat, budgets
<1>j. Shape(job[m]) /\ job[m] \in Jobs /\ job[m].queue \in Seq(Links)
  BY DEF JobsOK, Shape, Jobs
<1>e. ASSUME End(m) PROVE JobsOK' /\ LockOK'
  <2>1. Resting.at \notin Trying
    BY DEF Resting, Trying, Building
  <2> QED BY <1>e, <2>1, Ends, StoreMoves DEF LockFollows
<1>m. ASSUME NEW x, Shape(x), x.at \notin Trying, job' = [job EXCEPT ![m] = x]
      PROVE  JobsOK' /\ LockOK'
  BY <1>m, JobMoves, StoreMoves DEF LockFollows
<1>2. CASE Read(m)
  <2>0. PICK w \in Outcomes : job' = [job EXCEPT ![m].at = AfterRead(Seen(link, w)), ![m].now = Seen(link, w)]
    BY <1>2 DEF Read
  <2> DEFINE seen == Seen(link, w)
             x == [job[m] EXCEPT !.at = AfterRead(seen), !.now = seen]
  <2>1. /\ seen \in Links \cup {None}
        /\ AfterRead(seen) \in {"put", "keep"} /\ (AfterRead(seen) = "keep" => seen # None)
    BY DEF AfterRead, Seen, StoreOK
  <2>2. x \in Jobs /\ x.at = AfterRead(seen) /\ x.now = seen /\ x.queue = job[m].queue
    BY <1>j, <2>1, SubLabels DEF Jobs, Writing
  <2>3. x.queue # <<>>
    BY <1>2, <1>j, <2>2 DEF Read, At, Shape, Writing
  <2>4. job' = [job EXCEPT ![m] = x]
    BY <2>0
  <2> HIDE DEF x
  <2>5. Shape(x) /\ x.at \notin Trying
    BY <2>1, <2>2, <2>3 DEF Shape, Trying, Building
  <2>6. StoreOK'
    BY <1>2 DEF Read, StoreOK, store
  <2> QED BY <1>1, <1>m, <2>4, <2>5, <2>6
<1>3. CASE Keep(m)
  <2>1. job[m].now \in Links
    BY <1>3, <1>j DEF Keep, At, Shape, Jobs
  <2>2. StoreOK'
    <3>1. lkg' \in {lkg, job[m].now}
      BY <1>3, WrittenTypes DEF Keep
    <3> QED BY <1>3, <2>1, <3>1 DEF Keep, StoreOK
  <2>3. CASE Goto(m, "put")
    <3> DEFINE x == [job[m] EXCEPT !.at = "put"]
    <3>1. x \in Jobs /\ x.at = "put" /\ x.queue = job[m].queue
      BY <1>j, SubLabels DEF Jobs, Writing
    <3>2. x.queue # <<>>
      BY <1>3, <1>j, <3>1 DEF Keep, At, Shape, Writing
    <3>3. job' = [job EXCEPT ![m] = x]
      BY <2>3 DEF Goto
    <3> HIDE DEF x
    <3>4. Shape(x) /\ x.at \notin Trying
      BY <3>1, <3>2 DEF Shape, Trying, Building
    <3> QED BY <1>1, <1>m, <2>2, <3>3, <3>4
  <2>4. CASE End(m)
    BY <1>1, <1>e, <2>2, <2>4
  <2> QED BY <1>3, <2>3, <2>4 DEF Keep
<1>4. CASE Put(m)
  <2>1. Candidate(m) \in Links
    BY <1>4, CandidateType DEF Put, At, Writing
  <2>2. link' \in {link, Candidate(m)}
    BY <1>4, WrittenTypes DEF Put
  <2>3. StoreOK'
    BY <1>4, <2>1, <2>2 DEF Put, StoreOK
  <2> QED BY <1>1, <1>4, <1>e, <2>3 DEF Put
<1>5. CASE ReadPrevious(m)
  <2>1. StoreOK'
    BY <1>5 DEF ReadPrevious, StoreOK, store
  <2>2. CASE End(m)
    BY <1>1, <1>e, <2>1, <2>2
  <2>3. CASE ~End(m)
    <3> DEFINE x == [job[m] EXCEPT !.at = "current", !.was = lkg]
    <3>1. x \in Jobs /\ x.at = "current" /\ x.was = lkg
      BY <1>j, SubLabels DEF Jobs, StoreOK, Restoring
    <3>2. job' = [job EXCEPT ![m] = x] /\ lkg # None
      BY <1>5, <2>3 DEF ReadPrevious, Seen
    <3> HIDE DEF x
    <3>3. Shape(x) /\ x.at \notin Trying
      BY <3>1, <3>2 DEF Shape, Trying, Building, Writing
    <3> QED BY <1>1, <1>m, <2>1, <3>2, <3>3
  <2> QED BY <2>2, <2>3
<1>6. CASE ReadCurrent(m)
  <2>1. StoreOK'
    BY <1>6 DEF ReadCurrent, StoreOK, store
  <2>2. CASE End(m)
    BY <1>1, <1>e, <2>1, <2>2
  <2>3. CASE ~End(m)
    <3> DEFINE x == [job[m] EXCEPT !.at = "demote", !.now = link]
    <3>1. x \in Jobs /\ x.at = "demote" /\ x.now = link /\ x.was = job[m].was
      BY <1>j, SubLabels DEF Jobs, StoreOK, Restoring
    <3>2. job' = [job EXCEPT ![m] = x] /\ link # None
      BY <1>6, <2>3 DEF ReadCurrent, Seen
    <3>3. job[m].was # None
      BY <1>6, <1>j DEF ReadCurrent, At, Shape
    <3> HIDE DEF x
    <3>4. Shape(x) /\ x.at \notin Trying
      BY <3>1, <3>2, <3>3 DEF Shape, Trying, Building, Writing
    <3> QED BY <1>1, <1>m, <2>1, <3>2, <3>4
  <2> QED BY <2>2, <2>3
<1>7. CASE Demote(m)
  <2>1. job[m].now \in Links /\ job[m].now # None /\ job[m].was # None
    BY <1>7, <1>j DEF Demote, At, Shape, Jobs
  <2>2. StoreOK'
    <3>1. lkg' \in {lkg, job[m].now}
      BY <1>7, WrittenTypes DEF Demote
    <3> QED BY <1>7, <2>1, <3>1 DEF Demote, StoreOK
  <2>3. CASE Goto(m, "promote")
    <3> DEFINE x == [job[m] EXCEPT !.at = "promote"]
    <3>1. x \in Jobs /\ x.at = "promote" /\ x.now = job[m].now /\ x.was = job[m].was
      BY <1>j, SubLabels DEF Jobs, Restoring
    <3>2. job' = [job EXCEPT ![m] = x]
      BY <2>3 DEF Goto
    <3> HIDE DEF x
    <3>3. Shape(x) /\ x.at \notin Trying
      BY <2>1, <3>1 DEF Shape, Trying, Building, Writing
    <3> QED BY <1>1, <1>m, <2>2, <3>2, <3>3
  <2>4. CASE End(m)
    BY <1>1, <1>e, <2>2, <2>4
  <2> QED BY <1>7, <2>3, <2>4 DEF Demote
<1>8. CASE Promote(m)
  <2>1. job[m].was \in Links \cup {None}
    BY <1>j DEF Jobs
  <2>2. link' \in {link, job[m].was}
    BY <1>8, WrittenTypes DEF Promote
  <2>3. StoreOK'
    BY <1>8, <2>1, <2>2 DEF Promote, StoreOK
  <2> QED BY <1>1, <1>8, <1>e, <2>3 DEF Promote
<1> QED BY <1>2, <1>3, <1>4, <1>5, <1>6, <1>7, <1>8 DEF Write, Restore

LEMMA CrashType ==
  ASSUME TypeOK, NEW m \in Movers, Crash(m)
  PROVE  TypeOK'
<1>0. JobsOK /\ LockOK /\ StoreOK /\ CanaryOK /\ RestOK /\ BudgetsOK
  BY TypeParts
<1> SUFFICES JobsOK' /\ LockOK' /\ StoreOK' /\ CanaryOK' /\ RestOK' /\ BudgetsOK'
  BY DEF TypeOK, JobsOK, Shape, LockOK, StoreOK, CanaryOK, RestOK, BudgetsOK
<1> USE <1>0
<1>1. Resting.at \notin Trying
  BY DEF Resting, Trying, Building
<1>2. LockFollows(m, Resting)
  BY <1>1 DEF Crash, LockFollows, LockOK
<1>3. JobsOK' /\ LockOK'
  BY <1>2, Ends DEF Crash
<1>4. StoreOK' /\ CanaryOK' /\ RestOK'
  BY DEF Crash, StoreOK, CanaryOK, RestOK, store, canary
<1>5. BudgetsOK'
  BY BoundsAssumption DEF Crash, BudgetsOK
<1> QED BY <1>3, <1>4, <1>5

LEMMA OtherType ==
  ASSUME TypeOK,
         \/ \E s \in Messages : ShowCandidates(s) \/ TurnPage(s)
         \/ Reap \/ AgentCrash
  PROVE  TypeOK'
<1>0. JobsOK /\ LockOK /\ StoreOK /\ CanaryOK /\ RestOK /\ BudgetsOK
  BY TypeParts
<1> SUFFICES JobsOK' /\ LockOK' /\ StoreOK' /\ CanaryOK' /\ RestOK' /\ BudgetsOK'
  BY DEF TypeOK, JobsOK, Shape, LockOK, StoreOK, CanaryOK, RestOK, BudgetsOK
<1> USE <1>0
<1>1. JobsOK' /\ LockOK' /\ StoreOK'
  BY JobsStay DEF ShowCandidates, TurnPage, Reap, Notice, ReapUnit, ReapNamespace,
     ForgetSecrets, AgentCrash, StoreOK, store
<1>2. CASE \E s \in Messages : ShowCandidates(s) \/ TurnPage(s)
  BY <1>1, <1>2 DEF ShowCandidates, TurnPage, CanaryOK, RestOK, BudgetsOK, canary, budgets
<1>3. CASE Notice
  BY <1>1, <1>3 DEF Notice, CanaryOK, RestOK, BudgetsOK, canary, chat, budgets
<1>4. CASE ReapUnit
  <2>1. BudgetsOK'
    BY <1>4, SpendType DEF ReapUnit
  <2>2. unit' \in {unit, None}
    BY <1>4, WrittenTypes DEF ReapUnit
  <2> QED BY <1>1, <1>4, <2>1, <2>2 DEF ReapUnit, CanaryOK, RestOK, chat
<1>5. CASE ReapNamespace
  <2>1. BudgetsOK'
    BY <1>5, SpendType DEF ReapNamespace
  <2>2. ns' = ns \/ ns' = FALSE
    BY <1>5 DEF ReapNamespace, Tidied
  <2> QED BY <1>1, <1>5, <2>1, <2>2 DEF ReapNamespace, CanaryOK, RestOK, chat
<1>6. CASE ForgetSecrets
  <2>1. BudgetsOK'
    BY <1>6, SpendType DEF ForgetSecrets
  <2>2. conf' \in {conf, None}
    BY <1>6, WrittenTypes DEF ForgetSecrets
  <2> QED BY <1>1, <1>6, <2>1, <2>2 DEF ForgetSecrets, CanaryOK, RestOK, chat
<1>7. CASE AgentCrash
  BY <1>1, <1>7, BoundsAssumption DEF AgentCrash, CanaryOK, RestOK, BudgetsOK, canary, chat
<1> QED BY <1>2, <1>3, <1>4, <1>5, <1>6, <1>7 DEF Reap

LEMMA InitType == Init => TypeOK
<1> SUFFICES ASSUME Init PROVE JobsOK /\ LockOK /\ StoreOK /\ CanaryOK /\ RestOK /\ BudgetsOK
  BY TypeParts
<1>1. JobsOK
  BY RestingShape DEF Init, JobsOK, Shape
<1>2. LockOK
  BY MoversAssumption DEF Init, LockOK, Resting, Trying, Building
<1>3. StoreOK /\ CanaryOK /\ RestOK
  BY DEF Init, StoreOK, CanaryOK, RestOK
<1>4. BudgetsOK
  BY BoundsAssumption DEF Init, BudgetsOK
<1> QED BY <1>1, <1>2, <1>3, <1>4

LEMMA NextType == TypeOK /\ [Next]_vars => TypeOK'
<1> SUFFICES ASSUME TypeOK, [Next]_vars PROVE TypeOK'
  OBVIOUS
<1>1. CASE UNCHANGED vars
  BY <1>1 DEF TypeOK, vars, store, canary, chat, budgets
<1>2. ASSUME NEW m \in Movers, StartRefresh(m) \/ StartRestore(m) \/ Move(m) \/ Crash(m)
      PROVE  TypeOK'
  BY <1>2, StartType, TryType, ProbeType, CleanType, StoreMoveType, CrashType DEF Move, Try
<1>3. ASSUME NEW s \in Messages, ShowCandidates(s) \/ TurnPage(s) \/ StartPick(s)
      PROVE  TypeOK'
  BY <1>3, PickType, OtherType
<1>4. CASE Reap \/ AgentCrash
  BY <1>4, OtherType
<1> QED BY <1>1, <1>2, <1>3, <1>4 DEF Next

(***************************************************************************)
(* Upstreams is well typed; in particular whoever is inside a try, and     *)
(* nobody else, holds the canary's lock, and never without a candidate.    *)
(***************************************************************************)
THEOREM UpstreamsTypeCorrect == Spec => []TypeOK
<1>1. Init => TypeOK
  BY InitType
<1>2. TypeOK /\ [Next]_vars => TypeOK'
  BY NextType
<1> QED BY <1>1, <1>2, PTL DEF Spec

-----------------------------------------------------------------------------
(* Why only proven upstreams are stored.  What a mover read or is about to *)
(* write has carried traffic; the canary's proxy runs the candidate its    *)
(* mover believes it does, because a file and a proxy that disagree are    *)
(* never left behind: that is the part a death before the restart breaks.  *)
Honest(j, p) ==
  /\ j.now \in p \cup {None} /\ j.was \in p \cup {None}
  /\ j.ok => j.at \in {"discard", "clean"} \cup Writing
  /\ j.ok \/ j.at \in Writing => Head(j.queue) \in p
AllHonest == \A m \in Movers : Honest(job[m], proven)
Held ==
  \A m \in Movers :
    /\ job[m].at = "restart" => conf \in {Candidate(m), None}
    /\ job[m].at \in {"routes", "allow", "probe"} => unit \in {Candidate(m), None, Stray}
Settled ==
  (\A m \in Movers : job[m].at # "restart") => (unit \in Links /\ conf # None => unit = conf)
ProvenInv == AllHonest /\ Held /\ Settled /\ OnlyProven

LEMMA Alone ==
  ASSUME TypeOK, NEW m \in Movers, job[m].at \in Trying
  PROVE  \A n \in Movers \ {m} : job[n].at \notin Trying
BY TypeParts DEF LockOK

LEMMA HonestMoves ==
  ASSUME AllHonest, NEW m \in Movers, OthersStay(m), proven \subseteq proven',
         Honest(job'[m], proven')
  PROVE  AllHonest'
<1>1. ASSUME NEW n \in Movers PROVE Honest(job'[n], proven')
  <2>1. CASE n = m
    BY <2>1
  <2>2. CASE n # m
    <3>1. job'[n] = job[n] /\ Honest(job[n], proven)
      BY <2>2 DEF OthersStay, AllHonest
    <3> QED BY <3>1 DEF Honest
  <2> QED BY <2>1, <2>2
<1> QED BY <1>1 DEF AllHonest, Honest

LEMMA CanaryRests ==
  ASSUME Held, Settled, NEW m \in Movers, OthersStay(m), UNCHANGED <<conf, unit>>,
         job[m].at # "restart", job'[m].at \notin {"restart", "routes", "allow", "probe"}
  PROVE  Held' /\ Settled'
BY DEF Held, Settled, OthersStay, Candidate

LEMMA StartProven ==
  ASSUME TypeOK, ProvenInv, NEW m \in Movers,
         \/ StartRefresh(m) \/ StartRestore(m) \/ TakeLock(m)
         \/ m = Bot /\ \E s \in Messages : StartPick(s)
  PROVE  ProvenInv'
<1>0. JobsOK
  BY TypeParts
<1>1. job[m].at \in {"idle", "wait"}
  BY DEF StartRefresh, StartRestore, TakeLock, StartPick, At
<1>2. UNCHANGED <<link, lkg, conf, unit, proven>>
  BY DEF StartRefresh, StartRestore, TakeLock, StartPick, store, canary
<1>j. job \in [Movers -> Jobs] /\ job[m] \in Jobs
  BY <1>0 DEF JobsOK
<1>3. /\ OthersStay(m)
      /\ job'[m].at \in {"wait", "previous", "build"} /\ job'[m].ok = job[m].ok
      /\ job'[m].now = job[m].now /\ job'[m].was = job[m].was
  <2>1. CASE StartRefresh(m)
    <3>1. PICK list \in Offers : job' = [job EXCEPT ![m].at = "wait", ![m].queue = list]
      BY <2>1 DEF StartRefresh
    <3>2. job'[m] = [job[m] EXCEPT !.at = "wait", !.queue = list] /\ OthersStay(m)
      BY <1>j, <3>1 DEF OthersStay
    <3> QED BY <1>j, <3>2 DEF Jobs
  <2>2. CASE StartRestore(m) \/ TakeLock(m)
    BY <1>j, <2>2 DEF StartRestore, TakeLock, Goto, OthersStay, Jobs
  <2>3. CASE m = Bot /\ \E s \in Messages : StartPick(s)
    <3>1. PICK s \in Messages : StartPick(s)
      BY <2>3
    <3>2. PICK i \in DOMAIN shows[s] \cap DOMAIN cache :
            job' = [job EXCEPT ![m].at = "wait", ![m].queue = <<cache[i]>>]
      BY <2>3, <3>1 DEF StartPick
    <3>3. job'[m] = [job[m] EXCEPT !.at = "wait", !.queue = <<cache[i]>>]
          /\ OthersStay(m)
      BY <1>j, <3>2 DEF OthersStay
    <3> QED BY <1>j, <3>3 DEF Jobs
  <2> QED BY <2>1, <2>2, <2>3
<1>4. ~job[m].ok /\ Honest(job[m], proven)
  BY <1>1 DEF ProvenInv, AllHonest, Honest, Writing
<1>5. Honest(job'[m], proven')
  BY <1>2, <1>3, <1>4 DEF Honest, Writing
<1>6. AllHonest'
  BY <1>2, <1>3, <1>5, HonestMoves DEF ProvenInv
<1>7. Held' /\ Settled'
  BY <1>1, <1>2, <1>3, CanaryRests DEF ProvenInv
<1> QED BY <1>2, <1>6, <1>7 DEF ProvenInv, OnlyProven

(* The steps of a try up to the probe, after which ok is decided.          *)
LEMMA BuildingProven ==
  ASSUME ~RestartMayBreak, TypeOK, ProvenInv, NEW m \in Movers,
         Build(m) \/ WriteConf(m) \/ Restart(m) \/ Routes(m) \/ Allow(m)
  PROVE  ProvenInv'
<1>0. JobsOK /\ LockOK /\ CanaryOK
  BY TypeParts
<1>1. job[m].at \in Building \cup {"allow"} /\ job[m].at \in Trying
  BY DEF Build, WriteConf, Restart, Routes, Allow, At, Trying, Building
<1>2. PICK label \in Trying : Goto(m, label)
  <2>1. {"write", "restart", "routes", "allow", "probe", "discard"} \subseteq Trying
    BY DEF Trying, Building
  <2> QED BY <2>1 DEF Build, WriteConf, Restart, Routes, Allow, Step, AfterConf
<1>3. UNCHANGED <<lock, link, lkg, proven>>
  BY DEF Build, WriteConf, Restart, Routes, Allow, store
<1>4. OthersStay(m) /\ job'[m] = [job[m] EXCEPT !.at = label]
  BY <1>0, <1>1, <1>2, <1>3, TryGoes
<1>5. /\ job'[m].at = label /\ job'[m].ok = job[m].ok /\ job'[m].queue = job[m].queue
      /\ job'[m].now = job[m].now /\ job'[m].was = job[m].was
      /\ Candidate(m)' = Candidate(m)
  BY <1>0, <1>4 DEF JobsOK, Jobs, Candidate
<1>6. ~job[m].ok /\ Honest(job[m], proven)
  BY <1>1 DEF ProvenInv, AllHonest, Honest, Writing, Building
<1>7. AllHonest'
  <2>1. label \notin Writing
    BY DEF Trying, Building, Writing
  <2>2. Honest(job'[m], proven')
    BY <1>3, <1>5, <1>6, <2>1 DEF Honest
  <2> QED BY <1>3, <1>4, <2>2, HonestMoves DEF ProvenInv
<1>8. OnlyProven'
  BY <1>3 DEF ProvenInv, OnlyProven
<1>9. \A n \in Movers \ {m} : job[n].at \notin Trying /\ job'[n].at \notin Trying
  BY <1>1, <1>4, Alone DEF OthersStay
<1>10. \A n \in Movers \ {m} : job'[n].at \notin {"restart", "routes", "allow", "probe"}
                               /\ job[n].at # "restart"
  BY <1>9 DEF Trying, Building
<1>11. Held' /\ Settled'
  <2>1. CASE Build(m)
    <3>1. label \in {"write", "discard"} /\ job[m].at = "build" /\ UNCHANGED <<conf, unit>>
      BY <1>0, <2>1, <1>2, <1>5 DEF Build, Step, Goto, At, JobsOK, Jobs
    <3> QED BY <1>4, <1>5, <3>1, CanaryRests DEF ProvenInv
  <2>2. CASE WriteConf(m)
    <3>0. job[m].at = "write" /\ UNCHANGED unit
      BY <2>2 DEF WriteConf, At
    <3>1. unit \in Links /\ conf # None => unit = conf
      BY <1>10, <3>0 DEF ProvenInv, Settled
    <3>2. CASE label = "discard"
      <4>1. ASSUME NEW w \in Outcomes,
                   conf' \in Written(conf, Candidate(m), w),
                   Step(m, w, AfterConf(conf # Candidate(m)))
            PROVE  conf' \in {conf, None}
        <5>1. w = "ok" => job'[m].at = AfterConf(conf # Candidate(m))
          BY <1>0, <4>1 DEF Step, Goto, JobsOK, Jobs
        <5>2. w # "ok"
          BY <1>5, <3>2, <5>1 DEF AfterConf
        <5> QED BY <4>1, <5>2 DEF Written
      <4>2. conf' \in {conf, None}
        BY <2>2, <4>1 DEF WriteConf
      <4> QED BY <1>5, <1>10, <3>0, <3>1, <3>2, <4>2 DEF Held, Settled
    <3>3. CASE label # "discard"
      <4>1. PICK w \in Outcomes :
              /\ conf' \in Written(conf, Candidate(m), w)
              /\ Step(m, w, AfterConf(conf # Candidate(m)))
        BY <1>0, <1>5, <2>2, <3>3 DEF WriteConf, Goto, JobsOK, Jobs
      <4>2. w = "ok" /\ label = AfterConf(conf # Candidate(m))
        BY <1>0, <1>5, <3>3, <4>1 DEF Step, Goto, JobsOK, Jobs
      <4>3. conf' = Candidate(m)
        BY <4>1, <4>2 DEF Written
      <4>4. CASE label = "restart"
        BY <1>5, <1>10, <4>3, <4>4 DEF Held, Settled
      <4>5. CASE label = "routes"
        <5>1. conf = Candidate(m) /\ unit # None
          BY <4>2, <4>5 DEF AfterConf
        <5>2. Candidate(m) \in Links
          BY <1>0, <1>1, CandidateType
        <5>3. unit \in {Candidate(m), Stray}
          BY <1>0, <3>1, <5>1, <5>2, LinksAssumption DEF CanaryOK
        <5> QED BY <1>5, <1>10, <3>0, <3>1, <4>3, <4>5, <5>1, <5>3 DEF Held, Settled
      <4> QED BY <4>2, <4>4, <4>5 DEF AfterConf
    <3> QED BY <3>2, <3>3
  <2>3. CASE Restart(m)
    <3>1. conf \in {Candidate(m), None} /\ unit' \in {conf, None} /\ UNCHANGED conf
      BY <2>3 DEF Restart, At, ProvenInv, Held
    <3>2. label \in {"routes", "discard"}
      BY <1>0, <1>2, <1>5, <2>3 DEF Restart, Step, Goto, JobsOK, Jobs
    <3> QED BY <1>5, <1>10, <3>1, <3>2, LinksAssumption DEF Held, Settled
  <2>4. CASE Routes(m) \/ Allow(m)
    <3>1. job[m].at \in {"routes", "allow"} /\ UNCHANGED <<conf, unit>>
      BY <2>4 DEF Routes, Allow, At, canary
    <3>2. unit \in {Candidate(m), None, Stray}
      BY <3>1 DEF ProvenInv, Held
    <3>3. label \in {"allow", "probe", "discard"}
      BY <1>0, <1>2, <1>5, <2>4, ZenonT(30) DEF Routes, Allow, Step, Goto, JobsOK, Jobs
    <3>4. unit \in Links /\ conf # None => unit = conf
      BY <1>10, <3>1 DEF ProvenInv, Settled
    <3> QED BY <1>5, <1>10, <3>1, <3>2, <3>3, <3>4 DEF Held, Settled
  <2> QED BY <2>1, <2>2, <2>3, <2>4
<1> QED BY <1>7, <1>8, <1>11 DEF ProvenInv

(* The probe: whatever runs in the canary then is what it was tried as.    *)
LEMMA ProbeProven ==
  ASSUME TypeOK, ProvenInv, NEW m \in Movers, Probe(m)
  PROVE  ProvenInv'
<1>0. JobsOK /\ CanaryOK /\ job[m] \in Jobs
  BY TypeParts DEF JobsOK
<1>1. PICK passed \in {FALSE} \cup {Alive} :
        /\ job' = [job EXCEPT ![m].at = "discard", ![m].ok = passed]
        /\ proven' = IF passed THEN proven \cup {unit} ELSE proven
  BY DEF Probe
<1>2. job[m].at = "probe" /\ UNCHANGED <<link, lkg, conf, unit>>
  BY DEF Probe, At, store, canary
<1>3. job'[m] = [job[m] EXCEPT !.at = "discard", !.ok = passed] /\ OthersStay(m)
  BY <1>0, <1>1 DEF JobsOK, OthersStay
<1>4. /\ job'[m].at = "discard" /\ job'[m].ok = passed /\ job'[m].queue = job[m].queue
      /\ job'[m].now = job[m].now /\ job'[m].was = job[m].was
  BY <1>0, <1>3 DEF Jobs
<1>5. passed => unit = Candidate(m)
  BY <1>2, LinksAssumption DEF ProvenInv, Held, Alive
<1>6. proven \subseteq proven' /\ (passed => Candidate(m) \in proven')
  BY <1>1, <1>5
<1>7. Honest(job[m], proven)
  BY DEF ProvenInv, AllHonest
<1>8. Honest(job'[m], proven')
  BY <1>4, <1>6, <1>7 DEF Honest, Candidate, Writing
<1>9. AllHonest'
  BY <1>3, <1>6, <1>8, HonestMoves DEF ProvenInv
<1>10. Held' /\ Settled'
  BY <1>2, <1>3, <1>4, CanaryRests DEF ProvenInv
<1> QED BY <1>2, <1>6, <1>9, <1>10 DEF ProvenInv, OnlyProven

LEMMA DiscardProven ==
  ASSUME TypeOK, ProvenInv, NEW m \in Movers, Discard(m)
  PROVE  ProvenInv'
<1>0. JobsOK /\ job[m] \in Jobs
  BY TypeParts DEF JobsOK
<1>1. PICK w \in Outcomes : job' = [job EXCEPT ![m].at = "clean", ![m].ok = Verdict(@, w)]
  BY DEF Discard
<1>2. job[m].at = "discard" /\ UNCHANGED <<link, lkg, conf, unit, proven>>
  BY DEF Discard, At, store
<1>3. job'[m] = [job[m] EXCEPT !.at = "clean", !.ok = Verdict(job[m].ok, w)] /\ OthersStay(m)
  BY <1>0, <1>1 DEF JobsOK, OthersStay
<1>4. /\ job'[m].at = "clean" /\ (job'[m].ok => job[m].ok) /\ job'[m].queue = job[m].queue
      /\ job'[m].now = job[m].now /\ job'[m].was = job[m].was
  BY <1>0, <1>3 DEF Jobs, Verdict
<1>5. Honest(job[m], proven)
  BY DEF ProvenInv, AllHonest
<1>6. Honest(job'[m], proven')
  BY <1>2, <1>4, <1>5 DEF Honest, Writing
<1>7. AllHonest'
  BY <1>2, <1>3, <1>6, HonestMoves DEF ProvenInv
<1>8. Held' /\ Settled'
  BY <1>2, <1>3, <1>4, CanaryRests DEF ProvenInv
<1> QED BY <1>2, <1>7, <1>8 DEF ProvenInv, OnlyProven

LEMMA CleanProven ==
  ASSUME TypeOK, ProvenInv, NEW m \in Movers, Clean(m)
  PROVE  ProvenInv'
<1>0. JobsOK /\ job[m] \in Jobs
  BY TypeParts DEF JobsOK
<1>1. PICK next \in Selected(m) : job' = [job EXCEPT ![m] = next]
  BY DEF Clean
<1>2. At(m, "clean") /\ job[m].at = "clean" /\ job[m].at \in Trying
      /\ UNCHANGED <<link, lkg, conf, proven>>
  BY DEF Clean, At, Trying, store
<1>3. job'[m] = next /\ OthersStay(m)
  BY <1>0, <1>1 DEF JobsOK, OthersStay
<1>4. /\ next.at \in {"read", "build", "idle"}
      /\ next.at = "idle" => next = Resting
      /\ next.at = "read" => next = [job[m] EXCEPT !.at = "read"] /\ job[m].ok
      /\ next.at = "build" => next = [job[m] EXCEPT !.at = "build", !.queue = Tail(@)] /\ ~job[m].ok
  BY <1>0, <1>2, SelectedShape
<1>5. Honest(job[m], proven)
  BY DEF ProvenInv, AllHonest
<1>6. Honest(next, proven)
  <2>1. CASE next.at = "idle"
    BY <1>4, <2>1 DEF Honest, Resting, Writing
  <2>2. CASE next.at = "read"
    <3>1. next.queue = job[m].queue /\ next.now = job[m].now /\ next.was = job[m].was /\ job[m].ok
      BY <1>0, <1>4, <2>2 DEF Jobs
    <3> QED BY <1>5, <2>2, <3>1 DEF Honest, Writing
  <2>3. CASE next.at = "build"
    <3>1. ~next.ok /\ next.now = job[m].now /\ next.was = job[m].was
      BY <1>0, <1>4, <2>3 DEF Jobs
    <3> QED BY <1>5, <2>3, <3>1 DEF Honest, Writing
  <2> QED BY <1>4, <2>1, <2>2, <2>3
<1>7. AllHonest'
  <2>1. Honest(job'[m], proven')
    BY <1>2, <1>3, <1>6 DEF Honest
  <2> QED BY <1>2, <1>3, <2>1, HonestMoves DEF ProvenInv
<1>8. \A n \in Movers : job[n].at # "restart"
                        /\ job'[n].at \notin {"restart", "routes", "allow", "probe"}
  BY <1>2, <1>3, <1>4, Alone DEF OthersStay, Trying, Building
<1>9. unit' \in {unit, None, Stray}
  BY DEF Clean
<1>10. Held' /\ Settled'
  BY <1>2, <1>8, <1>9, LinksAssumption DEF ProvenInv, Held, Settled
<1> QED BY <1>2, <1>7, <1>10 DEF ProvenInv, OnlyProven

(* The store takes over what a mover chose or read.                        *)
LEMMA StoreProven ==
  ASSUME TypeOK, ProvenInv, NEW m \in Movers, Write(m) \/ Restore(m)
  PROVE  ProvenInv'
<1>0. JobsOK /\ job[m] \in Jobs
  BY TypeParts DEF JobsOK
<1>1. job[m].at \in Writing \cup Restoring
  BY DEF Write, Restore, Read, Keep, Put, ReadPrevious, ReadCurrent, Demote, Promote, At,
     Writing, Restoring
<1>2. UNCHANGED <<conf, unit, proven>>
  BY StoreMoves DEF canary
<1>3. Honest(job[m], proven)
  BY DEF ProvenInv, AllHonest
<1>4. /\ OthersStay(m) /\ job'[m].at \in {"idle"} \cup Writing \cup Restoring
      /\ Honest(job'[m], proven)
  <2>1. CASE End(m)
    <3>1. job'[m] = Resting /\ OthersStay(m)
      BY <1>0, <2>1 DEF End, JobsOK, OthersStay
    <3> QED BY <3>1 DEF Resting, Honest, Writing
  <2>2. CASE Read(m)
    <3>1. PICK seen \in {link, None} :
            job'[m] = [job[m] EXCEPT !.at = AfterRead(seen), !.now = seen] /\ OthersStay(m)
      BY <1>0, <2>2 DEF Read, Seen, JobsOK, OthersStay
    <3>2. job'[m].at \in {"put", "keep"} /\ job'[m].now = seen /\ job'[m].was = job[m].was
          /\ job'[m].queue = job[m].queue
      BY <1>0, <3>1 DEF Jobs, AfterRead
    <3>3. job[m].at \in Writing
      BY <2>2 DEF Read, At, Writing
    <3> QED BY <1>3, <3>1, <3>2, <3>3 DEF Honest, Writing, ProvenInv, OnlyProven
  <2>3. CASE Keep(m) /\ Goto(m, "put")
    <3>1. job'[m] = [job[m] EXCEPT !.at = "put"] /\ OthersStay(m)
      BY <1>0, <2>3 DEF Goto, JobsOK, OthersStay
    <3>2. job'[m].at = "put" /\ job'[m].now = job[m].now /\ job'[m].was = job[m].was
          /\ job'[m].queue = job[m].queue
      BY <1>0, <3>1 DEF Jobs
    <3>3. job[m].at \in Writing
      BY <2>3 DEF Keep, At, Writing
    <3> QED BY <1>3, <3>1, <3>2, <3>3 DEF Honest, Writing
  <2>4. CASE (ReadPrevious(m) \/ ReadCurrent(m) \/ Demote(m)) /\ ~End(m)
    <3>1. job[m].at \in Restoring
      BY <2>4 DEF ReadPrevious, ReadCurrent, Demote, At, Restoring
    <3>2. ~job[m].ok
      BY <1>3, <3>1 DEF Honest, Restoring, Writing
    <3>3. CASE ReadPrevious(m)
      <4>1. job'[m] = [job[m] EXCEPT !.at = "current", !.was = lkg] /\ OthersStay(m)
        BY <1>0, <2>4, <3>3 DEF ReadPrevious, JobsOK, OthersStay
      <4>2. job'[m].at = "current" /\ job'[m].was = lkg /\ job'[m].now = job[m].now
            /\ job'[m].ok = job[m].ok
        BY <1>0, <4>1 DEF Jobs
      <4> QED BY <1>3, <3>2, <4>1, <4>2 DEF Honest, Writing, Restoring, ProvenInv, OnlyProven
    <3>4. CASE ReadCurrent(m)
      <4>1. job'[m] = [job[m] EXCEPT !.at = "demote", !.now = link] /\ OthersStay(m)
        BY <1>0, <2>4, <3>4 DEF ReadCurrent, JobsOK, OthersStay
      <4>2. job'[m].at = "demote" /\ job'[m].now = link /\ job'[m].was = job[m].was
            /\ job'[m].ok = job[m].ok
        BY <1>0, <4>1 DEF Jobs
      <4> QED BY <1>3, <3>2, <4>1, <4>2 DEF Honest, Writing, Restoring, ProvenInv, OnlyProven
    <3>5. CASE Demote(m)
      <4>1. job'[m] = [job[m] EXCEPT !.at = "promote"] /\ OthersStay(m)
        BY <1>0, <2>4, <3>5 DEF Demote, Goto, JobsOK, OthersStay
      <4>2. job'[m].at = "promote" /\ job'[m].now = job[m].now /\ job'[m].was = job[m].was
            /\ job'[m].ok = job[m].ok
        BY <1>0, <4>1 DEF Jobs
      <4> QED BY <1>3, <3>2, <4>1, <4>2 DEF Honest, Writing, Restoring
    <3> QED BY <2>4, <3>3, <3>4, <3>5
  <2> QED BY <2>1, <2>2, <2>3, <2>4 DEF Write, Restore, Keep, Put, Promote
<1>5. AllHonest'
  <2>1. Honest(job'[m], proven')
    BY <1>2, <1>4 DEF Honest
  <2> QED BY <1>2, <1>4, <2>1, HonestMoves DEF ProvenInv
<1>6. Held' /\ Settled'
  BY <1>1, <1>2, <1>4, CanaryRests DEF ProvenInv, Writing, Restoring
<1>7. link' \in {link, job[m].was} \/ (Put(m) /\ link' \in {link, Candidate(m)})
  BY WrittenTypes DEF Write, Restore, Read, Keep, Put, ReadPrevious, ReadCurrent, Demote,
     Promote, store
<1>8. lkg' \in {lkg, job[m].now}
  BY WrittenTypes DEF Write, Restore, Read, Keep, Put, ReadPrevious, ReadCurrent, Demote,
     Promote, store
<1>9. Put(m) => Candidate(m) \in proven
  BY <1>3 DEF Put, At, Honest, Writing, Candidate
<1>10. OnlyProven'
  BY <1>2, <1>3, <1>7, <1>8, <1>9 DEF ProvenInv, OnlyProven, Honest
<1> QED BY <1>5, <1>6, <1>10 DEF ProvenInv

LEMMA CrashProven ==
  ASSUME ~RestartMayBreak, TypeOK, ProvenInv, NEW m \in Movers, Crash(m)
  PROVE  ProvenInv'
<1>0. JobsOK
  BY TypeParts
<1>1. job[m].at # "restart" /\ UNCHANGED <<link, lkg, conf, unit, proven>>
  BY DEF Crash, At, store, canary
<1>2. job'[m] = Resting /\ OthersStay(m)
  BY <1>0 DEF Crash, End, JobsOK, OthersStay
<1>3. AllHonest'
  <2>1. Honest(job'[m], proven')
    BY <1>2 DEF Honest, Resting, Writing
  <2> QED BY <1>1, <1>2, <2>1, HonestMoves DEF ProvenInv
<1>4. Held' /\ Settled'
  BY <1>1, <1>2, CanaryRests DEF ProvenInv, Resting
<1> QED BY <1>1, <1>3, <1>4 DEF ProvenInv, OnlyProven

(* The agent only ever takes away from the canary.                         *)
LEMMA OtherProven ==
  ASSUME TypeOK, ProvenInv,
         \/ \E s \in Messages : ShowCandidates(s) \/ TurnPage(s)
         \/ Reap \/ AgentCrash
  PROVE  ProvenInv'
<1>1. UNCHANGED <<link, lkg, job, proven>>
  BY DEF ShowCandidates, TurnPage, Reap, Notice, ReapUnit, ReapNamespace, ForgetSecrets,
     AgentCrash, store
<1>2. unit' \in {unit, None, Stray} /\ conf' \in {conf, None}
  <2>1. CASE ReapUnit \/ ForgetSecrets
    BY <2>1, WrittenTypes DEF ReapUnit, ForgetSecrets
  <2>2. CASE ReapNamespace
    BY <2>2 DEF ReapNamespace
  <2>3. CASE Notice \/ AgentCrash \/ \E s \in Messages : ShowCandidates(s) \/ TurnPage(s)
    BY <2>3 DEF ShowCandidates, TurnPage, Notice, AgentCrash, canary
  <2> QED BY <2>1, <2>2, <2>3 DEF Reap
<1>3. Held' /\ Settled'
  BY <1>1, <1>2, LinksAssumption DEF ProvenInv, Held, Settled, Candidate
<1> QED BY <1>1, <1>3 DEF ProvenInv, AllHonest, Honest, OnlyProven

LEMMA InitProven == Init => ProvenInv
<1> SUFFICES ASSUME Init PROVE ProvenInv
  OBVIOUS
<1>1. \A m \in Movers : job[m] = Resting
  BY DEF Init
<1>2. AllHonest
  BY <1>1 DEF AllHonest, Honest, Resting, Writing
<1>3. Held /\ Settled
  BY <1>1, LinksAssumption DEF Init, Held, Settled, Resting
<1> QED BY <1>2, <1>3 DEF Init, ProvenInv, OnlyProven

LEMMA NextProven ==
  ASSUME ~RestartMayBreak
  PROVE  TypeOK /\ ProvenInv /\ [Next]_vars => ProvenInv'
<1> SUFFICES ASSUME TypeOK, ProvenInv, [Next]_vars PROVE ProvenInv'
  OBVIOUS
<1>1. CASE UNCHANGED vars
  BY <1>1 DEF vars, store, canary, ProvenInv, AllHonest, Honest, Held, Settled, OnlyProven,
     Candidate
<1>2. ASSUME NEW m \in Movers, StartRefresh(m) \/ StartRestore(m) \/ Move(m) \/ Crash(m)
      PROVE  ProvenInv'
  BY <1>2, StartProven, BuildingProven, ProbeProven, DiscardProven, CleanProven, StoreProven,
     CrashProven DEF Move, Try
<1>3. ASSUME NEW s \in Messages, ShowCandidates(s) \/ TurnPage(s) \/ StartPick(s)
      PROVE  ProvenInv'
  <2>1. Bot \in Movers
    BY DEF Movers
  <2> QED BY <1>3, <2>1, StartProven, OtherProven
<1>4. CASE Reap \/ AgentCrash
  BY <1>4, OtherProven
<1> QED BY <1>1, <1>2, <1>3, <1>4 DEF Next

(***************************************************************************)
(* As long as no restart of the canary's proxy is cut short after its      *)
(* configuration is written, only upstreams that carried traffic are       *)
(* stored, however movers, the agent's removals, failures and deaths       *)
(* interleave.                                                             *)
(***************************************************************************)
THEOREM OnlyProvenStored ==
  ASSUME ~RestartMayBreak
  PROVE  Spec => []OnlyProven
<1>1. Init => TypeOK /\ ProvenInv
  BY InitType, InitProven
<1>2. TypeOK /\ ProvenInv /\ [Next]_vars => (TypeOK /\ ProvenInv)'
  BY NextType, NextProven
<1>3. ProvenInv => OnlyProven
  BY DEF ProvenInv
<1> QED BY <1>1, <1>2, <1>3, PTL DEF Spec

-----------------------------------------------------------------------------
(* Why a link that is replaced is kept.  While a mover is inside the store *)
(* nobody else is, so what it read is still what is there, and before it   *)
(* replaces an active link it has read, that link is in the other file.    *)
Inside == Writing \cup Restoring
OneInside == \A m, n \in Movers : m # n /\ job[m].at \in Inside => job[n].at \notin Inside
InHand(j) ==
  /\ j.at \in {"keep", "put", "demote", "promote"} /\ j.now # None => j.now = link
  /\ j.at \in {"put", "promote"} /\ j.now # None => lkg = link
KeptInv == OneInside /\ \A m \in Movers : InHand(job[m])

\* A mover comes in only by the first step of a write or of a restore, in its turn.
LEMMA Enters ==
  ASSUME TypeOK, NEW m \in Movers,
         \/ StartRefresh(m) \/ StartRestore(m) \/ TakeLock(m) \/ Try(m) \/ Crash(m)
         \/ m = Bot /\ \E s \in Messages : StartPick(s)
  PROVE  /\ OthersStay(m) /\ UNCHANGED <<link, lkg>>
         /\ job'[m].at \in Inside => job'[m].at \in {"read", "previous"} /\ Turn(m)
<1>0. JobsOK /\ LockOK /\ job \in [Movers -> Jobs] /\ job[m] \in Jobs
  BY TypeParts DEF JobsOK
<1>1. UNCHANGED <<link, lkg>>
  BY DEF StartRefresh, StartRestore, TakeLock, Try, Build, WriteConf, Restart, Routes, Allow,
     Probe, Discard, Clean, Crash, StartPick, store
<1>2. CASE StartRefresh(m)
  <2>1. PICK list \in Offers : job' = [job EXCEPT ![m].at = "wait", ![m].queue = list]
    BY <1>2 DEF StartRefresh
  <2>2. job'[m].at = "wait" /\ OthersStay(m)
    BY <1>0, <2>1 DEF OthersStay, Jobs
  <2> QED BY <1>1, <2>2 DEF Inside, Writing, Restoring
<1>3. CASE StartRestore(m)
  BY <1>0, <1>1, <1>3 DEF StartRestore, Goto, OthersStay, Jobs
<1>4. CASE TakeLock(m)
  <2>1. job'[m].at = "build" /\ OthersStay(m)
    BY <1>0, <1>4 DEF TakeLock, Goto, OthersStay, Jobs
  <2> QED BY <1>1, <2>1 DEF Inside, Writing, Restoring
<1>5. CASE Build(m) \/ WriteConf(m) \/ Restart(m) \/ Routes(m) \/ Allow(m)
  <2>1. PICK label \in Trying : Goto(m, label)
    <3>1. {"write", "restart", "routes", "allow", "probe", "discard"} \subseteq Trying
      BY DEF Trying, Building
    <3> QED BY <1>5, <3>1 DEF Build, WriteConf, Restart, Routes, Allow, Step, AfterConf
  <2>2. job'[m].at = label /\ OthersStay(m)
    BY <1>0, <2>1 DEF Goto, OthersStay, Jobs
  <2> QED BY <1>1, <2>2 DEF Inside, Writing, Restoring, Trying, Building
<1>6. CASE Probe(m) \/ Discard(m)
  <2>1. job'[m].at \in {"discard", "clean"} /\ OthersStay(m)
    BY <1>0, <1>6 DEF Probe, Discard, OthersStay, Jobs
  <2> QED BY <1>1, <2>1 DEF Inside, Writing, Restoring
<1>7. CASE Clean(m)
  <2>1. PICK next \in Selected(m) :
          (next.at = "read" => Turn(m)) /\ job' = [job EXCEPT ![m] = next]
    BY <1>7 DEF Clean
  <2>2. job'[m] = next /\ OthersStay(m)
    BY <1>0, <2>1 DEF OthersStay
  <2>3. next.at \in {"read", "build", "idle"}
    BY <1>0, <1>7, SelectedShape DEF Clean, At
  <2> QED BY <1>1, <2>1, <2>2, <2>3 DEF Inside, Writing, Restoring
<1>8. CASE Crash(m)
  <2>1. job'[m] = Resting /\ OthersStay(m)
    BY <1>0, <1>8 DEF Crash, End, OthersStay
  <2> QED BY <1>1, <2>1 DEF Inside, Writing, Restoring, Resting
<1>9. CASE m = Bot /\ \E s \in Messages : StartPick(s)
  <2>1. PICK s \in Messages : StartPick(s)
    BY <1>9
  <2>2. PICK i \in DOMAIN shows[s] \cap DOMAIN cache :
          job' = [job EXCEPT ![m].at = "wait", ![m].queue = <<cache[i]>>]
    BY <1>9, <2>1 DEF StartPick
  <2>3. job'[m].at = "wait" /\ OthersStay(m)
    BY <1>0, <2>2 DEF OthersStay, Jobs
  <2> QED BY <1>1, <2>3 DEF Inside, Writing, Restoring
<1> QED BY <1>2, <1>3, <1>4, <1>5, <1>6, <1>7, <1>8, <1>9 DEF Try

LEMMA EntersKept ==
  ASSUME ~Overlap, TypeOK, KeptInv, NEW m \in Movers,
         \/ StartRefresh(m) \/ StartRestore(m) \/ TakeLock(m) \/ Try(m) \/ Crash(m)
         \/ m = Bot /\ \E s \in Messages : StartPick(s)
  PROVE  KeptInv'
<1>1. /\ OthersStay(m) /\ UNCHANGED <<link, lkg>>
      /\ job'[m].at \in Inside => job'[m].at \in {"read", "previous"} /\ Turn(m)
  BY Enters
<1>2. job'[m].at \in Inside => \A n \in Movers \ {m} : job[n].at \notin Inside
  BY <1>1 DEF Turn, Inside
<1>3. OneInside'
  BY <1>1, <1>2 DEF KeptInv, OneInside, OthersStay
<1>4. job'[m].at \notin {"keep", "put", "demote", "promote"}
  BY <1>1 DEF Inside, Writing, Restoring
<1>5. ASSUME NEW n \in Movers PROVE InHand(job[n])'
  <2>1. CASE n = m
    BY <1>4, <2>1 DEF InHand
  <2>2. CASE n # m
    BY <1>1, <2>2 DEF KeptInv, InHand, OthersStay
  <2> QED BY <2>1, <2>2
<1> QED BY <1>3, <1>5 DEF KeptInv

\* A step inside the store leaves the mover with what it has read, or outside.
LEMMA StoreKept ==
  ASSUME TypeOK, KeptInv, NEW m \in Movers, Write(m) \/ Restore(m)
  PROVE  KeptInv' /\ (link' # link /\ link # None => lkg' = link \/ \E n \in Movers : Blind(n))
<1>0. JobsOK /\ job \in [Movers -> Jobs] /\ job[m] \in Jobs
  BY TypeParts DEF JobsOK
<1>1. job[m].at \in Inside
  BY DEF Write, Restore, Read, Keep, Put, ReadPrevious, ReadCurrent, Demote, Promote, At,
     Inside, Writing, Restoring
<1>2. InHand(job[m]) /\ \A n \in Movers \ {m} : job[n].at \notin Inside
  BY <1>1 DEF KeptInv, OneInside
<1>3. /\ OthersStay(m) /\ InHand(job[m])'
      /\ link' # link /\ link # None => lkg' = link \/ Blind(m)
  <2>e. ASSUME End(m) PROVE job'[m] = Resting /\ OthersStay(m) /\ InHand(job[m])'
    BY <1>0, <2>e DEF End, OthersStay, Resting, InHand
  <2>1. CASE Read(m)
    <3>1. PICK seen \in {link, None} :
            job'[m].at = AfterRead(seen) /\ job'[m].now = seen /\ OthersStay(m)
      BY <1>0, <2>1 DEF Read, Seen, OthersStay, Jobs
    <3>2. UNCHANGED <<link, lkg>> /\ (AfterRead(seen) = "keep" \/ (AfterRead(seen) = "put" /\ seen = None))
      BY <2>1 DEF Read, AfterRead, store
    <3> QED BY <3>1, <3>2 DEF InHand
  <2>2. CASE Keep(m) \/ Demote(m)
    <3>0. Shape(job[m])
      BY <1>0 DEF JobsOK
    <3>1. job[m].now # None /\ job[m].now = link /\ link' = link
      BY <1>2, <2>2, <3>0 DEF Keep, Demote, At, InHand, Shape
    <3>2. CASE End(m)
      BY <2>e, <3>1, <3>2
    <3>3. CASE ~End(m)
      <4>1. PICK label \in {"put", "promote"} : Goto(m, label) /\ lkg' = job[m].now
        BY <2>2, <3>3 DEF Keep, Demote, Replaced
      <4>2. job'[m].at = label /\ job'[m].now = job[m].now /\ OthersStay(m)
        BY <1>0, <4>1 DEF Goto, OthersStay, Jobs
      <4> QED BY <3>1, <4>1, <4>2 DEF InHand
    <3> QED BY <3>2, <3>3
  <2>3. CASE Put(m) \/ Promote(m)
    <3>0. Shape(job[m])
      BY <1>0 DEF JobsOK
    <3>1. End(m) /\ lkg' = lkg
      BY <2>3 DEF Put, Promote
    <3>2. Blind(m) \/ job[m].now # None
      BY <2>3, <3>0 DEF Put, Promote, At, Blind, Shape
    <3>3. job[m].now # None => lkg = link
      BY <1>2, <2>3 DEF Put, Promote, At, InHand
    <3> QED BY <2>e, <3>1, <3>2, <3>3
  <2>4. CASE ReadPrevious(m)
    <3>1. UNCHANGED <<link, lkg>>
      BY <2>4 DEF ReadPrevious, store
    <3>2. CASE ~End(m)
      <4>1. job'[m].at = "current" /\ OthersStay(m)
        BY <1>0, <2>4, <3>2 DEF ReadPrevious, OthersStay, Jobs
      <4> QED BY <3>1, <4>1 DEF InHand
    <3> QED BY <2>e, <3>1, <3>2
  <2>5. CASE ReadCurrent(m)
    <3>1. UNCHANGED <<link, lkg>>
      BY <2>5 DEF ReadCurrent, store
    <3>2. CASE ~End(m)
      <4>1. job'[m].at = "demote" /\ job'[m].now = link /\ OthersStay(m)
        BY <1>0, <2>5, <3>2 DEF ReadCurrent, OthersStay, Jobs
      <4> QED BY <3>1, <4>1 DEF InHand
    <3> QED BY <2>e, <3>1, <3>2
  <2> QED BY <2>1, <2>2, <2>3, <2>4, <2>5 DEF Write, Restore
<1>4. OneInside'
  BY <1>1, <1>2, <1>3 DEF OneInside, OthersStay
<1>5. ASSUME NEW n \in Movers PROVE InHand(job[n])'
  <2>1. CASE n = m
    BY <1>3, <2>1
  <2>2. CASE n # m
    <3>1. job'[n].at \notin Inside
      BY <1>2, <1>3, <2>2 DEF OthersStay
    <3> QED BY <3>1 DEF InHand, Inside, Writing, Restoring
  <2> QED BY <2>1, <2>2
<1> QED BY <1>3, <1>4, <1>5 DEF KeptInv

LEMMA NextKept ==
  ASSUME ~Overlap
  PROVE  TypeOK /\ KeptInv /\ [Next]_vars
           => KeptInv' /\ (link' # link /\ link # None => lkg' = link \/ \E n \in Movers : Blind(n))
<1> SUFFICES ASSUME TypeOK, KeptInv, [Next]_vars
             PROVE  KeptInv' /\ (link' # link /\ link # None => lkg' = link \/ \E n \in Movers : Blind(n))
  OBVIOUS
<1>1. ASSUME UNCHANGED <<link, lkg, job>>
      PROVE  KeptInv' /\ (link' # link /\ link # None => lkg' = link \/ \E n \in Movers : Blind(n))
  BY <1>1 DEF KeptInv, OneInside, InHand
<1>2. ASSUME NEW m \in Movers, StartRefresh(m) \/ StartRestore(m) \/ Move(m) \/ Crash(m)
      PROVE  KeptInv' /\ (link' # link /\ link # None => lkg' = link \/ \E n \in Movers : Blind(n))
  BY <1>2, Enters, EntersKept, StoreKept DEF Move
<1>3. ASSUME NEW s \in Messages, ShowCandidates(s) \/ TurnPage(s) \/ StartPick(s)
      PROVE  KeptInv' /\ (link' # link /\ link # None => lkg' = link \/ \E n \in Movers : Blind(n))
  <2>1. Bot \in Movers
    BY DEF Movers
  <2>2. CASE StartPick(s)
    BY <2>1, <2>2, Enters, EntersKept
  <2>3. CASE ShowCandidates(s) \/ TurnPage(s)
    BY <1>1, <2>3 DEF ShowCandidates, TurnPage, store
  <2> QED BY <1>3, <2>2, <2>3
<1>4. CASE Reap \/ AgentCrash \/ UNCHANGED vars
  BY <1>1, <1>4 DEF Reap, Notice, ReapUnit, ReapNamespace, ForgetSecrets, AgentCrash, store, vars
<1> QED BY <1>2, <1>3, <1>4 DEF Next

(***************************************************************************)
(* As long as two movers are not inside the store at once, the active link *)
(* a promotion or a restore replaces is the last-known-good, whichever     *)
(* write fails and wherever the writer dies, unless the writer could not   *)
(* read the link when it began.                                            *)
(***************************************************************************)
THEOREM KnownAlwaysKept ==
  ASSUME ~Overlap
  PROVE  Spec => KnownIsKept
<1>1. Init => TypeOK /\ KeptInv
  <2>1. Init => KeptInv
    BY DEF Init, KeptInv, OneInside, InHand, Inside, Writing, Restoring, Resting
  <2> QED BY <2>1, InitType
<1>2. TypeOK /\ KeptInv /\ [Next]_vars => (TypeOK /\ KeptInv)'
  BY NextType, NextKept
<1>3. TypeOK /\ KeptInv /\ [Next]_vars =>
        [link' # link /\ link # None => lkg' = link \/ \E m \in Movers : Blind(m)]_vars
  BY NextKept
<1> QED BY <1>1, <1>2, <1>3, PTL DEF Spec, KnownIsKept
=============================================================================

-------------------------- MODULE BotNoticesProofs --------------------------
(***************************************************************************)
(* Proofs about BotNotices, for any lines, files, windows and capacity of  *)
(* the queue: type correctness; that the sweep forgets nothing that could  *)
(* still mute a line; that alarms are said once and taken back once; and   *)
(* that the bot's own writes are not reported as somebody else's.          *)
(***************************************************************************)
EXTENDS BotNotices, TLAPS

(* What is on the queue, and what it may carry.                            *)
QueueOK ==
  /\ queue \in Seq(Events) /\ Len(queue) <= Capacity
  /\ \A i \in DOMAIN queue : queue[i].category = "agent-error" => queue[i].what \in Lines

\* The event that is followed is on the queue, or is not yet or no more.
PlaceOK == place \in 0 .. Len(queue) /\ fate \in {None, "decided", "lost"}

CountsOK ==
  /\ crew \in Crews /\ running \subseteq crew /\ now \in 0 .. MaxTime[crew]
  /\ news \in 0 .. MaxNews[crew] /\ faults \in 0 .. MaxFaults

FlagsOK ==
  /\ writing \in BOOLEAN /\ ticked \in BOOLEAN /\ strange \in BOOLEAN
  /\ alerted \in BOOLEAN /\ drifted \in BOOLEAN /\ warned \in BOOLEAN

FilesOK ==
  /\ files \in Files /\ previous \in Files \cup {None, "unread"}
  /\ mark \in 0 .. now \cup {None} /\ (writing => mark # None)

NotifierOK ==
  /\ DOMAIN sentAt \subseteq Lines /\ \A l \in DOMAIN sentAt : sentAt[l] \in 0 .. now
  /\ \A l \in DOMAIN letThrough : letThrough[l] \in 0 .. now
  /\ rolledBack \in 0 .. now \cup {None}

\* As long as no notice of it was dropped since, an alarm's last notice that was queued is
\* what the board and the watcher of drift have in mind; a row of bad findings is not
\* broken.
AlarmsOK ==
  /\ said \cup lost \subseteq {"health", "drift"}
  /\ "health" \notin lost => ("health" \in said <=> alerted)
  /\ "drift" \notin lost => ("drift" \in said <=> warned)
  /\ fails \in 0 .. 3 /\ (fails >= 1 => lastProbe = "unhealthy")
  /\ (warned => drifted) /\ (drifted => lastCheck)

\* The watcher of the files remembers while it runs.  When all that differs from what it
\* remembers is the bot's own, the bot's mark is younger than the window, by a unit more
\* once the watcher has looked in this one.
OwnWritesMarked ==
  /\ previous # None => StateFiles \in running
  /\ writing => now - mark <= SelfWindow - 2
  /\ previous # None /\ previous # files /\ ~strange =>
       /\ mark # None /\ now - mark <= SelfWindow - 1
       /\ ticked => now - mark <= SelfWindow - 2

NoticesInv ==
  /\ QueueOK /\ PlaceOK /\ CountsOK /\ FlagsOK /\ FilesOK
  /\ NotifierOK /\ AlarmsOK /\ OwnWritesMarked /\ Remembered

-----------------------------------------------------------------------------
(* The queue.                                                              *)

\* What is emitted is the last on the queue, or is dropped.
LEMMA EmitLemma ==
  ASSUME QueueOK, PlaceOK, NEW e \in Events, e.category = "agent-error" => e.what \in Lines, Emit(e)
  PROVE  /\ QueueOK' /\ PlaceOK'
         /\ Len(queue') > Len(queue) => queue'[Len(queue')] = e
<1>1. queue \in Seq(Events) /\ Len(queue) \in Nat /\ DOMAIN queue = 1 .. Len(queue)
  BY DEF QueueOK
<1>2. CASE Len(queue) < Capacity
  <2>1. queue' = Append(queue, e)
    BY <1>2 DEF Emit
  <2>2. /\ Append(queue, e) \in Seq(Events) /\ Len(Append(queue, e)) = Len(queue) + 1
        /\ DOMAIN Append(queue, e) = 1 .. Len(queue) + 1
        /\ \A i \in 1 .. Len(queue) : Append(queue, e)[i] = queue[i]
        /\ Append(queue, e)[Len(queue) + 1] = e
    BY <1>1
  <2>3. \A i \in DOMAIN queue' : queue'[i].category = "agent-error" => queue'[i].what \in Lines
    <3> TAKE i \in DOMAIN queue'
    <3>1. i \in 1 .. Len(queue) \/ i = Len(queue) + 1
      BY <1>1, <2>1, <2>2
    <3> QED
      BY <1>1, <2>1, <2>2, <3>1 DEF QueueOK
  <2>4. Len(queue') <= Capacity
    BY <1>1, <1>2, <2>1, <2>2, CapacityAssumption
  <2>5. PlaceOK'
    <3>1. place' = place \/ place' = Len(queue')
      BY DEF Emit, Followed
    <3>2. Len(queue') = Len(queue) + 1 /\ place \in 0 .. Len(queue)
      BY <2>1, <2>2 DEF PlaceOK
    <3>3. place' \in 0 .. Len(queue')
      BY <1>1, <3>1, <3>2
    <3>4. fate' = fate
      BY DEF Emit, Followed
    <3> QED
      BY <3>3, <3>4 DEF PlaceOK
  <2> QED
    BY <2>1, <2>2, <2>3, <2>4, <2>5 DEF QueueOK
<1>3. CASE ~(Len(queue) < Capacity)
  <2>1. queue' = queue
    BY <1>3 DEF Emit
  <2>2. PlaceOK'
    BY <2>1 DEF PlaceOK, Emit, Followed
  <2> QED
    BY <1>1, <2>1, <2>2 DEF QueueOK
<1> QED
  BY <1>2, <1>3

\* The first may be taken off; what it is, the queue could carry.
LEMMA HeadLemma ==
  ASSUME QueueOK, queue # <<>>
  PROVE  /\ Head(queue) \in Events
         /\ Head(queue).category = "agent-error" => Head(queue).what \in Lines
         /\ Len(queue) \in Nat \ {0}
         /\ queue' = Tail(queue) => QueueOK' /\ Len(queue') = Len(queue) - 1
<1>1. /\ queue \in Seq(Events) /\ Len(queue) \in Nat \ {0} /\ DOMAIN queue = 1 .. Len(queue)
      /\ Head(queue) = queue[1]
  BY DEF QueueOK
<1>2. 1 \in DOMAIN queue /\ queue[1] \in Events
  BY <1>1
<1>3. ASSUME queue' = Tail(queue)
      PROVE  QueueOK' /\ Len(queue') = Len(queue) - 1
  <2>1. /\ Tail(queue) \in Seq(Events) /\ Len(Tail(queue)) = Len(queue) - 1
        /\ DOMAIN Tail(queue) = 1 .. Len(queue) - 1
        /\ \A i \in 1 .. Len(queue) - 1 : Tail(queue)[i] = queue[i + 1]
    BY <1>1
  <2>2. \A i \in 1 .. Len(queue) - 1 : i + 1 \in DOMAIN queue
    BY <1>1
  <2>3. \A i \in DOMAIN queue' : queue'[i].category = "agent-error" => queue'[i].what \in Lines
    BY <1>3, <2>1, <2>2 DEF QueueOK
  <2>4. Len(queue') <= Capacity /\ Len(queue') = Len(queue) - 1
    BY <1>1, <1>3, <2>1, CapacityAssumption DEF QueueOK
  <2> QED
    BY <1>3, <2>1, <2>3, <2>4 DEF QueueOK
<1> QED
  BY <1>1, <1>2, <1>3 DEF QueueOK

\* Whatever becomes of what is taken, the queue and the place of what is followed are kept.
LEMMA TakeLemma ==
  ASSUME QueueOK, PlaceOK, NEW becomes \in {"decided", "lost"}, Take(becomes)
  PROVE  QueueOK' /\ PlaceOK'
<1>1. QueueOK' /\ Len(queue') = Len(queue) - 1 /\ Len(queue) \in Nat \ {0}
  BY HeadLemma DEF Take
<1>2. place \in 0 .. Len(queue) /\ place' = (IF place > 0 THEN place - 1 ELSE 0)
  BY DEF Take, PlaceOK
<1>4. place' \in 0 .. Len(queue')
  BY <1>1, <1>2
<1>5. fate' \in {None, "decided", "lost"}
  BY DEF Take, PlaceOK
<1> QED
  BY <1>1, <1>4, <1>5 DEF PlaceOK

\* Every event there is.
LEMMA EventLemma ==
  /\ \A l \in Lines : Event("agent-error", l) \in Events
  /\ Event("converge", "converged") \in Events /\ Event("rollback", "rolled back") \in Events
  /\ Event("oob", "changed") \in Events
  /\ Event("health", "down") \in Events /\ Event("health", "up") \in Events
  /\ Event("drift", "drift") \in Events /\ Event("drift", "settled") \in Events
BY DEF Event, Events, Categories

-----------------------------------------------------------------------------
(* Each step keeps the parts of the invariant, and says what it says.      *)

LEMMA InitNotices == Init => NoticesInv
<1> SUFFICES ASSUME Init PROVE NoticesInv
  OBVIOUS
<1>1. QueueOK /\ PlaceOK
  <2>1. queue = <<>> /\ <<>> \in Seq(Events) /\ Len(<<>>) = 0 /\ DOMAIN <<>> = {}
    BY DEF Init
  <2>2. place = 0 /\ fate = None
    BY DEF Init
  <2> QED
    BY <2>1, <2>2, CapacityAssumption DEF QueueOK, PlaceOK
<1>2. CountsOK /\ FilesOK
  BY BoundsAssumption, CrewsAssumption DEF Init, CountsOK, FilesOK
<1>5. FlagsOK
  BY Zenon DEF Init, FlagsOK
<1>3. NotifierOK /\ Remembered
  BY DEF Init, NotifierOK, Remembered
<1>4. AlarmsOK /\ OwnWritesMarked
  BY DEF Init, AlarmsOK, OwnWritesMarked
<1> QED
  BY <1>1, <1>2, <1>3, <1>4, <1>5 DEF NoticesInv

LEMMA StepQueue ==
  ASSUME QueueOK, PlaceOK, [Next]_vars
  PROVE  QueueOK' /\ PlaceOK'
<1> USE EventLemma
<1>0. UNCHANGED events => QueueOK' /\ PlaceOK'
  BY DEF QueueOK, PlaceOK, events
<1>1. CASE Line
  <2>1. CASE UNCHANGED events
    BY <1>0, <2>1
  <2>2. CASE Emit(Event("converge", "converged"))
    <3>1. Event("converge", "converged").category # "agent-error"
      BY DEF Event
    <3> QED
      BY <2>2, <3>1, EmitLemma
  <2>3. CASE \E l \in Lines : Emit(Event("agent-error", l))
    <3>1. \A l \in Lines : Event("agent-error", l).what \in Lines
      BY DEF Event
    <3> QED
      BY <2>3, <3>1, EmitLemma
  <2> QED
    BY <1>1, <2>1, <2>2, <2>3 DEF Line
<1>2. CASE RolledBack
  <2>1. Event("rollback", "rolled back").category # "agent-error"
    BY DEF Event
  <2> QED
    BY <1>0, <1>2, <2>1, EmitLemma DEF RolledBack
<1>3. CASE Look
  <2>1. Event("oob", "changed").category # "agent-error"
    BY DEF Event
  <2> QED
    BY <1>0, <1>3, <2>1, EmitLemma DEF Look
<1>4. CASE Probe
  <2>1. Event("health", "down").category # "agent-error" /\ Event("health", "up").category # "agent-error"
    BY DEF Event
  <2>2. UNCHANGED events \/ Emit(Event("health", "down")) \/ Emit(Event("health", "up"))
    BY <1>4 DEF Probe, Announce
  <2> QED
    BY <1>0, <2>1, <2>2, EmitLemma
<1>5. CASE Check
  <2>1. Event("drift", "drift").category # "agent-error" /\ Event("drift", "settled").category # "agent-error"
    BY DEF Event
  <2>2. UNCHANGED events \/ Emit(Event("drift", "drift")) \/ Emit(Event("drift", "settled"))
    BY <1>5 DEF Check, Announce
  <2> QED
    BY <1>0, <2>1, <2>2, EmitLemma
<1>6. CASE Deliver
  BY <1>6, TakeLemma DEF Deliver
<1>7. CASE \E w \in Watchers : Panic(w)
  BY <1>0, <1>7, TakeLemma DEF Panic
<1>8. CASE Foreign \/ Mark \/ BotWrites \/ Prune \/ Advance \/ \E w \in Watchers : Restart(w)
  BY <1>0, <1>8 DEF Foreign, Mark, BotWrites, Prune, Advance, Restart
<1>9. CASE UNCHANGED vars
  BY <1>0, <1>9 DEF vars
<1> QED
  BY <1>1, <1>2, <1>3, <1>4, <1>5, <1>6, <1>7, <1>8, <1>9 DEF Next

LEMMA StepCounts ==
  ASSUME CountsOK, [Next]_vars
  PROVE  CountsOK' /\ now' \in {now, now + 1}
<1> USE BoundsAssumption, CrewsAssumption DEF CountsOK, News, Fault, budgets
<1>1. CASE Line
  BY <1>1 DEF Line
<1>8. CASE RolledBack
  <2>1. News /\ UNCHANGED <<crew, now, running>>
    BY <1>8, Zenon DEF RolledBack
  <2> QED
    BY <2>1
<1>9. CASE Foreign \/ Mark
  BY <1>9 DEF Foreign, Mark
<1>6. CASE BotWrites
  BY <1>6 DEF BotWrites
<1>7. CASE Look
  BY <1>7 DEF Look
<1>2. CASE Probe \/ Prune \/ Check \/ Deliver
  BY <1>2 DEF Probe, Prune, Check, Deliver
<1>3. CASE \E w \in Watchers : Panic(w)
  BY <1>3 DEF Panic
<1>10. CASE \E w \in Watchers : Restart(w)
  BY <1>10 DEF Restart, Restarts
<1>4. CASE Advance
  BY <1>4 DEF Advance
<1>5. CASE UNCHANGED vars
  BY <1>5 DEF vars
<1> QED
  BY <1>1, <1>2, <1>3, <1>4, <1>5, <1>6, <1>7, <1>8, <1>9, <1>10 DEF Next

LEMMA StepFlags ==
  ASSUME FlagsOK, [Next]_vars
  PROVE  FlagsOK'
<1> USE DEF FlagsOK, bot, file, board, drift
<1>1. CASE Line \/ RolledBack \/ Deliver \/ \E w \in Watchers : Restart(w)
  BY <1>1, Zenon DEF Line, RolledBack, Deliver, Restart
<1>2. CASE Foreign \/ Mark \/ BotWrites \/ Look \/ Advance
  BY <1>2, Zenon DEF Foreign, Mark, BotWrites, Look, Advance
<1>3. CASE Probe
  BY <1>3, Zenon DEF Probe
<1>4. CASE Prune
  BY <1>4, Zenon DEF Prune
<1>5. CASE Check
  BY <1>5, Zenon DEF Check
<1>6. CASE \E w \in Watchers : Panic(w)
  BY <1>6, Zenon DEF Panic
<1>7. CASE UNCHANGED vars
  BY <1>7, Zenon DEF vars
<1> QED
  BY <1>1, <1>2, <1>3, <1>4, <1>5, <1>6, <1>7 DEF Next

LEMMA StepFiles ==
  ASSUME CountsOK, FlagsOK, FlagsOK', FilesOK, OwnWritesMarked, [Next]_vars
  PROVE  FilesOK' /\ OwnWritesMarked'
<1> USE NoneAssumption, WindowsAssumption DEF CountsOK, FlagsOK, FilesOK, OwnWritesMarked, bot, file
<1>1. CASE Line \/ RolledBack \/ Probe \/ Prune \/ Check \/ Deliver
  BY <1>1 DEF Line, RolledBack, Probe, Prune, Check, Deliver
<1>2. CASE Foreign
  BY <1>2 DEF Foreign
<1>3. CASE Mark
  BY <1>3 DEF Mark
<1>4. CASE BotWrites
  BY <1>4 DEF BotWrites
<1>5. CASE Look
  BY <1>5 DEF Look
<1>6. CASE \E w \in Watchers : Panic(w)
  BY <1>6 DEF Panic
<1>7. CASE \E w \in Watchers : Restart(w)
  BY <1>7 DEF Restart
<1>8. CASE Advance
  BY <1>8 DEF Advance, Within
<1>9. CASE UNCHANGED vars
  BY <1>9 DEF vars
<1> QED
  BY <1>1, <1>2, <1>3, <1>4, <1>5, <1>6, <1>7, <1>8, <1>9 DEF Next

LEMMA StepAlarms ==
  ASSUME FlagsOK, FlagsOK', AlarmsOK, [Next]_vars
  PROVE  AlarmsOK'
<1> USE DEF FlagsOK, AlarmsOK, board, drift, alarms
<1>1. CASE Line \/ RolledBack \/ Foreign \/ Mark \/ BotWrites \/ Look \/ Deliver \/ Advance
  BY <1>1 DEF Line, RolledBack, Foreign, Mark, BotWrites, Look, Deliver, Advance
<1>2. CASE Probe
  <2>1. PICK result \in Results :
          LET down == result = "unhealthy" /\ BadRow(result) = 2 /\ ~alerted
              up == result = "healthy" /\ alerted
          IN  /\ fails' = BadRow(result)
              /\ alerted' = ((alerted \/ down) /\ ~up)
              /\ lastProbe' = result
              /\ IF down \/ up THEN Announce("health", IF down THEN "down" ELSE "up")
                 ELSE UNCHANGED <<events, said, lost>>
    BY <1>2 DEF Probe
  <2>2. fails' \in 0 .. 3 /\ (fails' >= 1 => lastProbe' = "unhealthy")
    BY <2>1 DEF BadRow
  <2>3. UNCHANGED <<drifted, warned, lastCheck>>
    BY <1>2 DEF Probe
  <2>4. /\ said' \cup lost' \subseteq {"health", "drift"}
        /\ ("drift" \in said' <=> "drift" \in said) /\ ("drift" \in lost' <=> "drift" \in lost)
    BY <2>1 DEF Announce
  <2>5. "health" \notin lost' => ("health" \in said' <=> alerted')
    <3>1. CASE UNCHANGED <<said, lost>> /\ alerted' = alerted
      BY <3>1
    <3>2. CASE Announce("health", "down") /\ alerted'
      BY <3>2 DEF Announce
    <3>3. CASE Announce("health", "up") /\ ~alerted'
      BY <3>3 DEF Announce
    <3> QED
      BY <2>1, <3>1, <3>2, <3>3
  <2> QED
    BY <2>2, <2>3, <2>4, <2>5
<1>3. CASE Prune
  BY <1>3 DEF Prune
<1>4. CASE Check
  <2>1. PICK found \in BOOLEAN :
          /\ drifted' = found /\ warned' = (found /\ drifted) /\ lastCheck' = found
          /\ IF (found /\ drifted /\ ~warned) \/ (~found /\ warned)
             THEN Announce("drift", IF found THEN "drift" ELSE "settled")
             ELSE UNCHANGED <<events, said, lost>>
    BY <1>4 DEF Check
  <2>2. UNCHANGED <<fails, alerted, lastProbe>>
    BY <1>4 DEF Check
  <2>3. /\ said' \cup lost' \subseteq {"health", "drift"}
        /\ ("health" \in said' <=> "health" \in said) /\ ("health" \in lost' <=> "health" \in lost)
    BY <2>1 DEF Announce
  <2>4. "drift" \notin lost' => ("drift" \in said' <=> warned')
    <3>1. CASE UNCHANGED <<said, lost>> /\ warned' = warned
      BY <3>1
    <3>2. CASE Announce("drift", "drift") /\ warned'
      BY <3>2 DEF Announce
    <3>3. CASE Announce("drift", "settled") /\ ~warned'
      BY <3>3 DEF Announce
    <3> QED
      BY <2>1, <3>1, <3>2, <3>3
  <2> QED
    BY <2>1, <2>2, <2>3, <2>4
<1>5. CASE \E w \in Watchers : Panic(w) \/ Restart(w)
  BY <1>5 DEF Panic, Restart
<1>6. CASE UNCHANGED vars
  BY <1>6 DEF vars
<1> QED
  BY <1>1, <1>2, <1>3, <1>4, <1>5, <1>6 DEF Next

LEMMA StepNotifier ==
  ASSUME QueueOK, CountsOK, CountsOK', NotifierOK, Remembered, [Next]_vars
  PROVE  NotifierOK' /\ Remembered'
<1> USE NoneAssumption, WindowsAssumption DEF CountsOK, NotifierOK, Remembered, notifier
<1>1. CASE Line \/ RolledBack \/ Foreign \/ Mark \/ BotWrites \/ Look \/ Probe \/ Prune \/ Check
  BY <1>1 DEF Line, RolledBack, Foreign, Mark, BotWrites, Look, Probe, Prune, Check
<1>2. CASE Deliver
  <2> DEFINE line == Head(queue).what
             kept == {l \in DOMAIN sentAt : ~Expired(l)}
  <2>1. now' = now /\ rolledBack' \in {rolledBack, now}
    BY <1>2 DEF Deliver
  <2>2. CASE UNCHANGED <<sentAt, letThrough>>
    BY <2>1, <2>2
  <2>3. CASE /\ Head(queue).category = "agent-error"
             /\ sentAt' = Put(line, Restrict(sentAt, kept))
             /\ letThrough' = Put(line, letThrough)
    <3>1. line \in Lines
      BY <1>2, <2>3, HeadLemma DEF Deliver, Take
    <3>2. DOMAIN sentAt' = kept \cup {line} /\ DOMAIN letThrough' = DOMAIN letThrough \cup {line}
      BY <2>3 DEF Put, Restrict
    <3>3. /\ \A l \in DOMAIN sentAt' : sentAt'[l] = IF l = line THEN now ELSE sentAt[l]
          /\ \A l \in DOMAIN letThrough' : letThrough'[l] = IF l = line THEN now ELSE letThrough[l]
      BY <2>3, <3>2 DEF Put, Restrict
    <3>4. NotifierOK'
      BY <2>1, <3>1, <3>2, <3>3
    <3>5. ASSUME NEW l \in DOMAIN letThrough', now' - letThrough'[l] < Debounce
          PROVE  l \in DOMAIN sentAt' /\ sentAt'[l] = letThrough'[l]
      <4>1. CASE l = line
        BY <3>2, <3>3, <4>1
      <4>2. CASE l # line
        <5>1. l \in DOMAIN letThrough /\ letThrough'[l] = letThrough[l] /\ now - letThrough[l] < Debounce
          BY <2>1, <3>2, <3>3, <3>5, <4>2
        <5>2. l \in DOMAIN sentAt /\ sentAt[l] = letThrough[l] /\ sentAt[l] \in 0 .. now
          BY <5>1
        <5>3. ~Expired(l)
          BY <5>1, <5>2 DEF Expired
        <5> QED
          BY <3>2, <3>3, <4>2, <5>1, <5>2, <5>3
      <4> QED
        BY <4>1, <4>2
    <3> QED
      BY <3>4, <3>5
  <2> QED
    BY <1>2, <2>2, <2>3 DEF Deliver
<1>3. CASE \E w \in Watchers : Panic(w) \/ Restart(w)
  BY <1>3 DEF Panic, Restart
<1>4. CASE Advance
  BY <1>4 DEF Advance
<1>5. CASE UNCHANGED vars
  BY <1>5 DEF vars
<1> QED
  BY <1>1, <1>2, <1>3, <1>4, <1>5 DEF Next

LEMMA StepNotices == NoticesInv /\ [Next]_vars => NoticesInv'
BY StepQueue, StepCounts, StepFlags, StepFiles, StepAlarms, StepNotifier DEF NoticesInv

-----------------------------------------------------------------------------
(* Type correctness and the sweep.                                         *)

\* Types, among them that the queue never outgrows its capacity.
THEOREM BotNoticesTypeCorrect == Spec => []TypeOK
<1>1. Init => NoticesInv
  BY InitNotices
<1>2. NoticesInv /\ [Next]_vars => NoticesInv'
  BY StepNotices
<1>3. NoticesInv => TypeOK
  <2> SUFFICES ASSUME NoticesInv PROVE TypeOK
    OBVIOUS
  <2>1. \A i \in DOMAIN queue : queue[i] \in Events
    BY DEF NoticesInv, QueueOK
  <2>2. Len(queue) <= Capacity /\ place \in 0 .. Len(queue) /\ fate \in {None, "decided", "lost"}
    BY DEF NoticesInv, QueueOK, PlaceOK
  <2>3. said \cup lost \subseteq {"health", "drift"} /\ fails \in 0 .. 3 /\ (warned => drifted)
    BY DEF NoticesInv, AlarmsOK
  <2>4. DOMAIN sentAt \subseteq Lines /\ \A l \in DOMAIN sentAt : sentAt[l] <= now
    BY DEF NoticesInv, NotifierOK, CountsOK
  <2> QED
    BY <2>1, <2>2, <2>3, <2>4 DEF NoticesInv, CountsOK, FlagsOK, FilesOK, NotifierOK, TypeOK
<1> QED
  BY <1>1, <1>2, <1>3, PTL DEF Spec

\* The sweep of the sent lines forgets none that could still mute a repetition.
THEOREM SweepForgetsNothing == Spec => []Remembered
<1>1. Init => NoticesInv
  BY InitNotices
<1>2. NoticesInv /\ [Next]_vars => NoticesInv'
  BY StepNotices
<1>3. NoticesInv => Remembered
  BY DEF NoticesInv
<1> QED
  BY <1>1, <1>2, <1>3, PTL DEF Spec

-----------------------------------------------------------------------------
(* What is said.                                                           *)

\* Who says what: each watcher says only what is its own.
LEMMA WhoSays ==
  ASSUME QueueOK, PlaceOK, [Next]_vars, NEW e, Said(e)
  PROVE  \/ Line /\ e.category \in {"converge", "agent-error"}
         \/ RolledBack /\ e.category = "rollback"
         \/ Look /\ e.category = "oob" /\ previous \notin {None, previous'} /\ ~Quiet
         \/ Probe /\ e \in {Event("health", "down"), Event("health", "up")}
         \/ Check /\ e \in {Event("drift", "drift"), Event("drift", "settled")}
<1>0. Len(queue') > Len(queue) /\ queue'[Len(queue')] = e
  BY Zenon DEF Said
<1>l. Len(queue) \in Nat /\ Len(queue') \in Nat
  <2>1. QueueOK'
    BY StepQueue
  <2> QED
    BY <2>1 DEF QueueOK
<1>u. queue' # queue
  <2>1. ~(Len(queue) > Len(queue))
    BY <1>l
  <2> QED
    BY <1>0, <2>1, Zenon
<1>1. CASE Line
  <2>1. PICK event \in {Event("converge", "converged")} \cup {Event("agent-error", l) : l \in Lines} : Emit(event)
    BY <1>1, <1>u DEF Line, events
  <2>2. /\ event \in Events /\ event.category \in {"converge", "agent-error"}
        /\ event.category = "agent-error" => event.what \in Lines
    <3>1. CASE event = Event("converge", "converged")
      BY <3>1, EventLemma DEF Event
    <3>2. CASE event \in {Event("agent-error", l) : l \in Lines}
      <4>1. PICK l \in Lines : event = Event("agent-error", l)
        BY <3>2
      <4> QED
        BY <4>1, EventLemma DEF Event
    <3> QED
      BY <2>1, <3>1, <3>2, EventLemma
  <2>3. event = e
    BY <1>0, <2>1, <2>2, EmitLemma, EventLemma
  <2> QED
    BY <1>1, <2>2, <2>3
<1>2. CASE RolledBack
  <2>1. Emit(Event("rollback", "rolled back"))
    BY <1>2, <1>u DEF RolledBack, events
  <2>2. Event("rollback", "rolled back").category = "rollback"
    BY DEF Event
  <2> QED
    BY <1>0, <1>2, <2>1, <2>2, EmitLemma, EventLemma
<1>3. CASE Look
  <2>1. Emit(Event("oob", "changed")) /\ previous \notin {None, previous'} /\ ~Quiet
    BY <1>3, <1>u DEF Look, events
  <2>2. Event("oob", "changed").category = "oob"
    BY DEF Event
  <2> QED
    BY <1>0, <1>3, <2>1, <2>2, EmitLemma, EventLemma
<1>4. CASE Probe
  <2>1. Emit(Event("health", "down")) \/ Emit(Event("health", "up"))
    BY <1>4, <1>u DEF Probe, Announce, events
  <2>2. Event("health", "down").category = "health" /\ Event("health", "up").category = "health"
    BY DEF Event
  <2> QED
    BY <1>0, <1>4, <2>1, <2>2, EmitLemma, EventLemma
<1>5. CASE Check
  <2>1. Emit(Event("drift", "drift")) \/ Emit(Event("drift", "settled"))
    BY <1>5, <1>u DEF Check, Announce, events
  <2>2. Event("drift", "drift").category = "drift" /\ Event("drift", "settled").category = "drift"
    BY DEF Event
  <2> QED
    BY <1>0, <1>5, <2>1, <2>2, EmitLemma, EventLemma
<1>6. CASE Deliver \/ \E w \in Watchers : Panic(w)
  <2>1. queue # <<>> /\ queue' = Tail(queue)
    BY <1>6, <1>u DEF Deliver, Panic, Take, events
  <2>2. Len(queue') < Len(queue)
    BY <2>1, HeadLemma
  <2>3. ~(Len(queue') > Len(queue))
    BY <1>l, <2>2
  <2> QED
    BY <1>0, <2>3, Zenon
<1>7. CASE \/ Foreign \/ Mark \/ BotWrites \/ Prune \/ Advance \/ \E w \in Watchers : Restart(w)
           \/ UNCHANGED vars
  BY <1>7, <1>u DEF Foreign, Mark, BotWrites, Prune, Advance, Restart, vars, events
<1> QED
  BY <1>1, <1>2, <1>3, <1>4, <1>5, <1>6, <1>7 DEF Next

\* An alarm is said after two bad findings in a row, when it was not said last; it is
\* taken back after a good one, when it was.
LEMMA AlarmStep ==
  ASSUME NoticesInv, [Next]_vars
  PROVE  /\ Said(Event("health", "down")) =>
              /\ lastProbe = "unhealthy" /\ lastProbe' = "unhealthy"
              /\ "health" \notin said \ lost
         /\ Said(Event("health", "up")) =>
              /\ lastProbe' = "healthy"
              /\ "health" \in said \cup lost
         /\ Said(Event("drift", "drift")) =>
              /\ lastCheck /\ lastCheck'
              /\ "drift" \notin said \ lost
         /\ Said(Event("drift", "settled")) =>
              /\ ~lastCheck'
              /\ "drift" \in said \cup lost
<1> USE DEF NoticesInv
<1>e. /\ Event("health", "down").category = "health" /\ Event("health", "down").what = "down"
      /\ Event("health", "up").category = "health" /\ Event("health", "up").what = "up"
      /\ Event("drift", "drift").category = "drift" /\ Event("drift", "drift").what = "drift"
      /\ Event("drift", "settled").category = "drift" /\ Event("drift", "settled").what = "settled"
  BY DEF Event
<1>s. \A e : Said(e) => queue' # queue /\ queue'[Len(queue')] = e /\ Len(queue') > Len(queue)
  BY DEF Said, QueueOK
<1>p. ASSUME Probe, queue' # queue
      PROVE  \/ Emit(Event("health", "down")) /\ ~alerted /\ fails + 1 = 2 /\ lastProbe' = "unhealthy"
             \/ Emit(Event("health", "up")) /\ alerted /\ lastProbe' = "healthy"
  BY <1>p DEF Probe, Announce, events, BadRow, AlarmsOK
<1>c. ASSUME Check, queue' # queue
      PROVE  \/ Emit(Event("drift", "drift")) /\ ~warned /\ lastCheck /\ lastCheck'
             \/ Emit(Event("drift", "settled")) /\ warned /\ ~lastCheck'
  <2>1. PICK found \in BOOLEAN :
          /\ lastCheck' = found
          /\ IF (found /\ drifted /\ ~warned) \/ (~found /\ warned)
             THEN Emit(Event("drift", IF found THEN "drift" ELSE "settled"))
             ELSE UNCHANGED queue
    BY <1>c DEF Check, Announce, events
  <2>2. CASE found
    <3>1. (IF found THEN "drift" ELSE "settled") = "drift"
      BY <2>2
    <3>2. IF drifted /\ ~warned THEN Emit(Event("drift", "drift")) ELSE UNCHANGED queue
      BY <2>1, <2>2, <3>1, Zenon
    <3> QED
      BY <1>c, <2>1, <2>2, <3>2 DEF AlarmsOK
  <2>3. CASE ~found
    <3>1. (IF found THEN "drift" ELSE "settled") = "settled"
      BY <2>3
    <3>2. IF warned THEN Emit(Event("drift", "settled")) ELSE UNCHANGED queue
      BY <2>1, <2>3, <3>1, Zenon
    <3> QED
      BY <1>c, <2>1, <2>3, <3>2
  <2> QED
    BY <2>2, <2>3
<1>1. ASSUME Said(Event("health", "down"))
      PROVE  /\ lastProbe = "unhealthy" /\ lastProbe' = "unhealthy"
             /\ "health" \notin said \ lost
  <2>1. Probe
    BY <1>1, <1>e, WhoSays
  <2>2. ~Emit(Event("health", "up"))
    BY <1>1, <1>e, <1>s, EmitLemma, EventLemma
  <2> QED
    BY <1>1, <1>p, <1>s, <2>1, <2>2 DEF AlarmsOK
<1>2. ASSUME Said(Event("health", "up"))
      PROVE  lastProbe' = "healthy" /\ "health" \in said \cup lost
  <2>1. Probe
    BY <1>2, <1>e, WhoSays
  <2>2. ~Emit(Event("health", "down"))
    BY <1>2, <1>e, <1>s, EmitLemma, EventLemma
  <2> QED
    BY <1>2, <1>p, <1>s, <2>1, <2>2 DEF AlarmsOK
<1>3. ASSUME Said(Event("drift", "drift"))
      PROVE  lastCheck /\ lastCheck' /\ "drift" \notin said \ lost
  <2>1. Check
    BY <1>3, <1>e, WhoSays
  <2>2. ~Emit(Event("drift", "settled"))
    BY <1>3, <1>e, <1>s, EmitLemma, EventLemma
  <2> QED
    BY <1>3, <1>c, <1>s, <2>1, <2>2 DEF AlarmsOK
<1>4. ASSUME Said(Event("drift", "settled"))
      PROVE  ~lastCheck' /\ "drift" \in said \cup lost
  <2>1. Check
    BY <1>4, <1>e, WhoSays
  <2>2. ~Emit(Event("drift", "drift"))
    BY <1>4, <1>e, <1>s, EmitLemma, EventLemma
  <2> QED
    BY <1>4, <1>c, <1>s, <2>1, <2>2 DEF AlarmsOK
<1> QED
  BY <1>1, <1>2, <1>3, <1>4

\* One bad probe or check is never an alert; what is queued of an alarm alternates between
\* alert and recovery, except across a notice that was dropped.
THEOREM AlarmsAreSaidInPairs == Spec => AlarmsPair
<1>1. Init => NoticesInv
  BY InitNotices
<1>2. NoticesInv /\ [Next]_vars => NoticesInv'
  BY StepNotices
<1>3. NoticesInv /\ [Next]_vars =>
        [/\ Said(Event("health", "down")) =>
              /\ lastProbe = "unhealthy" /\ lastProbe' = "unhealthy"
              /\ "health" \notin said \ lost
         /\ Said(Event("health", "up")) =>
              /\ lastProbe' = "healthy"
              /\ "health" \in said \cup lost
         /\ Said(Event("drift", "drift")) =>
              /\ lastCheck /\ lastCheck'
              /\ "drift" \notin said \ lost
         /\ Said(Event("drift", "settled")) =>
              /\ ~lastCheck'
              /\ "drift" \in said \cup lost]_vars
  BY AlarmStep
<1> QED
  BY <1>1, <1>2, <1>3, PTL DEF Spec, AlarmsPair

\* The watcher of the files reports nothing the bot wrote itself.
THEOREM OwnWritesAreQuiet == Spec => OwnWritesQuiet
<1>1. Init => NoticesInv
  BY InitNotices
<1>2. NoticesInv /\ [Next]_vars => NoticesInv'
  BY StepNotices
<1>3. NoticesInv /\ [Next]_vars => [Said(Event("oob", "changed")) => strange \/ previous' = "unread"]_vars
  <2> SUFFICES ASSUME NoticesInv, [Next]_vars, Said(Event("oob", "changed")), ~strange, previous' # "unread"
               PROVE  FALSE
    OBVIOUS
  <2>1. Event("oob", "changed").category = "oob"
    BY DEF Event
  <2>2. /\ Event("health", "down").category # "oob" /\ Event("health", "up").category # "oob"
        /\ Event("drift", "drift").category # "oob" /\ Event("drift", "settled").category # "oob"
    BY DEF Event
  <2>3. Look /\ previous \notin {None, previous'} /\ ~Quiet
    BY <2>1, <2>2, WhoSays DEF NoticesInv
  <2>4. previous' = files /\ ~ticked
    BY <2>3 DEF Look
  <2>5. mark # None /\ now - mark <= SelfWindow - 1
    BY <2>3, <2>4 DEF NoticesInv, OwnWritesMarked
  <2> QED
    BY <2>3, <2>5, WindowsAssumption DEF Quiet, Within, NoticesInv, FilesOK, CountsOK
<1> QED
  BY <1>1, <1>2, <1>3, PTL DEF Spec, OwnWritesQuiet
=============================================================================

------------------------------ MODULE BotNotices ------------------------------
(***************************************************************************)
(* What the bot says on its own.  Four watchers look at the agent's        *)
(* journal, the state files, a tunnel's health and the host's drift; each  *)
(* remembers what it said before and puts what is new on one bounded       *)
(* queue, which a single notifier empties: it mutes what is switched off   *)
(* or said already and sends the rest.  Watchers and notifier may panic    *)
(* and are started again with nothing remembered, except the health board, *)
(* which is the process's.                                                 *)
(*                                                                         *)
(* What the refresh of subscriptions reports is queued the same way, needs *)
(* no memory and is left out.                                              *)
(*                                                                         *)
(* The state files are written by the bot, which marks itself first, and   *)
(* by hubctl and the agent.  One unit of time is the period of the watcher *)
(* of the files; the tunnel stands for each, for they share nothing.       *)
(***************************************************************************)
EXTENDS Naturals, Sequences, FiniteSets, FiniteSetsExt, Functions

CONSTANTS
  Lines,           \* lines of failure the agent's journal may show
  Files,           \* what the state files may hold
  Journal, StateFiles, Prober, Drift, Notifier,  \* who may panic
  Crews,           \* bound: who is at work in a behaviour, as in the bot all are
  Capacity,        \* places on the queue
  SelfWindow,      \* how long the bot's mark keeps the watcher of the files quiet
  RollbackWindow,  \* how long a rollback stands for the changes it makes
  Debounce,        \* how long a line is not said again
  None,            \* never, nothing
  MaxTime,         \* bound: units of time, for each crew
  MaxNews,         \* bound: lines and writes, for each crew
  MaxFaults        \* bound: panics, and files that cannot be read

Watchers == {Journal, StateFiles, Prober, Drift, Notifier}
ASSUME CrewsAssumption == Crews \subseteq SUBSET Watchers

ASSUME CapacityAssumption == Capacity \in Nat \ {0}
ASSUME WindowsAssumption == {SelfWindow, RollbackWindow, Debounce} \subseteq Nat \ {0, 1}
ASSUME NoneAssumption == None \notin Files /\ None \notin Nat
ASSUME BoundsAssumption == {MaxTime, MaxNews} \subseteq [Crews -> Nat] /\ MaxFaults \in Nat

Categories == {"agent-error", "converge", "rollback", "oob", "health", "drift"}

VARIABLES
  crew,       \* the watchers the bot started
  now,
  running,    \* the watchers that are not waiting to be restarted
  files,      \* what the state files hold
  mark,       \* when the bot last marked itself
  writing,    \* it did, and has not written yet
  ticked,     \* the watcher of the files has looked in this unit
  previous,   \* what it saw last; None before the first look
  fails,      \* bad probes in a row; counted to 3 only
  alerted,    \* the tunnel's alert is out
  drifted, warned,  \* the last check saw drift; it was said
  queue,      \* events: a category and what is said
  sentAt,     \* when each line was last let through, as far as remembered
  rolledBack, \* when a rollback was last heard of
  place,      \* history: the place on the queue of one event, any one; 0 when it is not there
  fate,       \* history: what became of it
  lastProbe,  \* history: the last result, "unknown" when there is none
  lastCheck,  \* history: what the last check of drift found
  said,       \* history: the alarms whose last notice that was queued is an alert
  lost,       \* history: the alarms of which a notice was dropped since
  strange,    \* history: hubctl or the agent wrote, or the files were unreadable
  letThrough, \* history: when each line was last let through
  news, faults

bot == <<mark, writing>>
file == <<ticked, previous>>
board == <<fails, alerted>>
drift == <<drifted, warned>>
notifier == <<sentAt, rolledBack>>
events == <<queue, place, fate>>
alarms == <<lastProbe, lastCheck, said, lost>>
budgets == <<news, faults>>
vars == <<crew, now, running, files, bot, file, board, drift, notifier,
          events, alarms, strange, letThrough, budgets>>

Results == {"healthy", "unhealthy", "unknown"}
Event(category, what) == [category |-> category, what |-> what]
Events == [category : Categories, what : Lines \cup {"converged", "rolled back", "changed", "down", "up", "drift", "settled"}]

TypeOK ==
  /\ crew \in Crews /\ running \subseteq crew /\ now \in 0 .. MaxTime[crew]
  /\ files \in Files /\ previous \in Files \cup {None, "unread"}
  /\ mark \in 0 .. now \cup {None} /\ writing \in BOOLEAN /\ ticked \in BOOLEAN
  /\ (writing => mark # None)
  /\ fails \in 0 .. 3 /\ alerted \in BOOLEAN
  /\ drifted \in BOOLEAN /\ warned \in BOOLEAN /\ (warned => drifted)
  /\ Len(queue) <= Capacity /\ \A i \in DOMAIN queue : queue[i] \in Events
  /\ DOMAIN sentAt \subseteq Lines /\ \A l \in DOMAIN sentAt : sentAt[l] <= now
  /\ rolledBack \in 0 .. now \cup {None}
  /\ place \in 0 .. Len(queue) /\ fate \in {None, "decided", "lost"}
  /\ said \cup lost \subseteq {"health", "drift"}
  /\ strange \in BOOLEAN
  /\ news \in 0 .. MaxNews[crew] /\ faults \in 0 .. MaxFaults

Init ==
  /\ crew \in Crews /\ running = crew /\ now = 0
  /\ files \in Files /\ mark = None /\ writing = FALSE
  /\ ticked = FALSE /\ previous = None
  /\ fails = 0 /\ alerted = FALSE /\ drifted = FALSE /\ warned = FALSE
  /\ queue = <<>>
  /\ sentAt = [l \in {} |-> 0] /\ rolledBack = None
  /\ place = 0 /\ fate = None
  /\ lastProbe = "unknown" /\ lastCheck = FALSE
  /\ said = {} /\ lost = {}
  /\ strange = FALSE /\ letThrough = [l \in {} |-> 0]
  /\ news = 0 /\ faults = 0

-----------------------------------------------------------------------------
News == news < MaxNews[crew] /\ news' = news + 1 /\ UNCHANGED faults
Fault == faults < MaxFaults /\ faults' = faults + 1 /\ UNCHANGED news
Within(time, window) == time # None /\ now - time < window
Put(l, f) == [x \in DOMAIN f \cup {l} |-> IF x = l THEN now ELSE f[x]]

\* History: one event of the behaviour, whichever, is followed from when it is queued.
Followed ==
  /\ \/ UNCHANGED place
     \/ queue' # queue /\ place = 0 /\ fate = None /\ place' = Len(queue')
  /\ UNCHANGED fate

\* An event that finds the queue full is dropped, so that no watcher waits.
\* Mutant: whether it is full is seen one event too late.
EmitLate(event) ==
  /\ queue' = IF Len(queue) <= Capacity THEN Append(queue, event) ELSE queue
  /\ Followed
Emit(event) ==
  /\ queue' = IF Len(queue) < Capacity THEN Append(queue, event) ELSE queue
  /\ Followed

\* A notice of an alarm, and whether it found a place.
Announce(alarm, what) ==
  /\ Emit(Event(alarm, what))
  /\ IF queue' = queue THEN UNCHANGED said
     ELSE said' = IF what \in {"down", "drift"} THEN said \cup {alarm} ELSE said \ {alarm}
  /\ lost' = IF queue' = queue THEN lost \cup {alarm} ELSE lost \ {alarm}

\* The first event is taken off the queue, and this becomes of it.
Take(becomes) ==
  /\ queue # <<>> /\ queue' = Tail(queue)
  /\ place' = IF place > 0 THEN place - 1 ELSE 0
  /\ fate' = IF place = 1 THEN becomes ELSE fate

-----------------------------------------------------------------------------
(* The agent's journal. *)

\* Its lines are followed as they come: what it says while nobody follows is not
\* heard.  Of a restored revision the files have told already.
Line ==
  /\ News
  /\ \E event \in {Event("converge", "converged")} \cup {Event("agent-error", l) : l \in Lines} :
       IF Journal \in running THEN Emit(event) ELSE UNCHANGED events
  /\ UNCHANGED <<crew, now, running, files, bot, file, board, drift, notifier,
                 alarms, strange, letThrough>>

RolledBack ==
  /\ News /\ strange
  /\ IF Journal \in running THEN Emit(Event("rollback", "rolled back")) ELSE UNCHANGED events
  /\ UNCHANGED <<crew, now, running, files, bot, file, board, drift, notifier,
                 alarms, strange, letThrough>>

-----------------------------------------------------------------------------
(* The state files. *)

\* Written by hubctl, or by the agent that restores a revision.
Foreign ==
  /\ News
  /\ files' \in Files \ {files}
  /\ strange' = TRUE
  /\ UNCHANGED <<crew, now, running, bot, file, board, drift, notifier,
                 events, alarms, letThrough>>

\* Mutant: an operation that does not mark itself.
MarkForgotten ==
  /\ News /\ ~writing
  /\ mark' = mark /\ writing' = TRUE
  /\ UNCHANGED <<crew, now, running, files, file, board, drift, notifier,
                 events, alarms, strange, letThrough>>
Mark ==
  /\ News /\ ~writing
  /\ mark' = now /\ writing' = TRUE
  /\ UNCHANGED <<crew, now, running, files, file, board, drift, notifier,
                 events, alarms, strange, letThrough>>

BotWrites ==
  /\ writing /\ writing' = FALSE
  /\ files' \in Files
  /\ UNCHANGED <<crew, now, running, mark, file, board, drift, notifier,
                 events, alarms, strange, letThrough, budgets>>

Quiet == Within(mark, SelfWindow)

\* The first look only remembers.  A file that cannot be read counts as empty,
\* for this look and for the next one's comparison.  What differs is one event here,
\* and up to three in the code.
Look ==
  /\ StateFiles \in running /\ ~ticked
  /\ ticked' = TRUE
  /\ \/ previous' = files /\ UNCHANGED budgets
     \/ Fault /\ previous' = "unread"
  /\ IF previous \notin {None, previous'} /\ ~Quiet
     THEN Emit(Event("oob", "changed")) ELSE UNCHANGED events
  /\ strange' = (previous' = "unread")
  /\ UNCHANGED <<crew, now, running, files, bot, board, drift, notifier,
                 alarms, letThrough>>

-----------------------------------------------------------------------------
(* The tunnel's health. *)

\* Two bad probes in a row are an alert, once; a probe that could not measure
\* breaks the row and leaves the alert.
\* Mutant: a probe that could not measure leaves the row.
BadRowKept(result) ==
  CASE result = "unhealthy" -> IF fails < 3 THEN fails + 1 ELSE 3
    [] result = "unknown" -> fails
    [] OTHER -> 0
BadRow(result) ==
  CASE result = "unhealthy" -> IF fails < 3 THEN fails + 1 ELSE 3
    [] OTHER -> 0

Probe ==
  /\ Prober \in running
  /\ \E result \in Results :
       LET down == result = "unhealthy" /\ BadRow(result) = 2 /\ ~alerted
           up == result = "healthy" /\ alerted
       IN  /\ fails' = BadRow(result)
           /\ alerted' = ((alerted \/ down) /\ ~up)
           /\ lastProbe' = result
           /\ IF down \/ up THEN Announce("health", IF down THEN "down" ELSE "up")
              ELSE UNCHANGED <<events, said, lost>>
  /\ UNCHANGED <<crew, now, running, files, bot, file, drift, notifier, lastCheck, strange, letThrough, budgets>>

\* A tunnel that is disabled or gone is forgotten, alert and all.
Prune ==
  /\ Prober \in running
  /\ fails' = 0 /\ alerted' = FALSE
  /\ lastProbe' = "unknown"
  /\ said' = said \ {"health"} /\ lost' = lost \ {"health"}
  /\ UNCHANGED <<crew, now, running, files, bot, file, drift, notifier,
                 events, lastCheck, strange, letThrough, budgets>>

-----------------------------------------------------------------------------
(* Drift. *)

\* Only drift that is still there at the next check is said.
Check ==
  /\ Drift \in running
  /\ \E found \in BOOLEAN :
       /\ drifted' = found
       /\ warned' = (found /\ drifted)
       /\ lastCheck' = found
       /\ IF (found /\ drifted /\ ~warned) \/ (~found /\ warned)
          THEN Announce("drift", IF found THEN "drift" ELSE "settled")
          ELSE UNCHANGED <<events, said, lost>>
  /\ UNCHANGED <<crew, now, running, files, bot, file, board, notifier,
                 lastProbe, strange, letThrough, budgets>>

-----------------------------------------------------------------------------
(* The notifier. *)

\* Entries that can suppress nothing any more.
\* Mutant: one that is about to run out is swept already.
ExpiredEarly(l) == now - sentAt[l] >= Debounce - 1
Expired(l) == now - sentAt[l] >= Debounce

Muted(event) ==
  \/ event.category = "oob" /\ Within(rolledBack, RollbackWindow)
  \/ event.what \in DOMAIN sentAt /\ now - sentAt[event.what] < Debounce

\* One event, in the order they came.  Its category may be switched off or on by then,
\* for the admin switches as he likes.  A rollback is noted even when it is not said,
\* and only a line that is let through is remembered, after the sweep.
Deliver ==
  /\ Notifier \in running /\ Take("decided")
  /\ LET event == Head(queue)
     IN  /\ rolledBack' = IF event.category = "rollback" THEN now ELSE rolledBack
         /\ \E on \in BOOLEAN :
            IF event.category = "agent-error" /\ on /\ ~Muted(event)
            THEN /\ sentAt' = Put(event.what, Restrict(sentAt, {l \in DOMAIN sentAt : ~Expired(l)}))
                 /\ letThrough' = Put(event.what, letThrough)
            ELSE UNCHANGED <<sentAt, letThrough>>
  /\ UNCHANGED <<crew, now, running, files, bot, file, board, drift,
                 alarms, strange, budgets>>

-----------------------------------------------------------------------------
(* Supervision and time. *)

\* What a watcher keeps in its own variables goes with it; the notifier's map too,
\* and the event it was at.
Panic(w) ==
  /\ w \in running /\ Fault
  /\ IF w = Notifier THEN Take("lost") ELSE UNCHANGED events
  /\ running' = running \ {w}
  /\ previous' = IF w = StateFiles THEN None ELSE previous
  /\ IF w = Drift
     THEN /\ drifted' = FALSE /\ warned' = FALSE
          /\ said' = said \ {"drift"} /\ lost' = lost \ {"drift"}
     ELSE UNCHANGED <<drift, said, lost>>
  /\ IF w = Notifier
     THEN /\ sentAt' = [l \in {} |-> 0] /\ rolledBack' = None
          /\ letThrough' = [l \in {} |-> 0]
     ELSE UNCHANGED <<notifier, letThrough>>
  /\ UNCHANGED <<crew, now, files, bot, ticked, board, lastProbe, lastCheck, strange>>

\* Mutant: a watcher that died is not started again.
RestartsNever(w) == FALSE
Restarts(w) == w \in crew \ running

Restart(w) ==
  /\ Restarts(w)
  /\ running' = running \cup {w}
  /\ UNCHANGED <<crew, now, files, bot, file, board, drift, notifier,
                 events, alarms, strange, letThrough, budgets>>

\* The watcher of the files looks in every unit unless it is down, and a write of
\* the bot is over well within the window its mark opened.
Advance ==
  /\ now < MaxTime[crew]
  /\ ticked \/ StateFiles \notin running
  /\ writing => Within(mark, SelfWindow - 2)
  /\ now' = now + 1 /\ ticked' = FALSE
  /\ UNCHANGED <<crew, running, files, bot, previous, board, drift, notifier,
                 events, alarms, strange, letThrough, budgets>>

Next ==
  \/ Line \/ RolledBack
  \/ Foreign \/ Mark \/ BotWrites \/ Look
  \/ Probe \/ Prune \/ Check
  \/ Deliver
  \/ \E w \in Watchers : Panic(w) \/ Restart(w)
  \/ Advance

\* supervise starts what stopped again, and the notifier takes what is queued.
Fairness == WF_vars(Deliver) /\ \A w \in Watchers : WF_vars(Restart(w))
Spec == Init /\ [][Next]_vars /\ Fairness
-----------------------------------------------------------------------------
Said(event) == Len(queue') > Len(queue) /\ queue'[Len(queue')] = event

\* "One bad probe is a blip, two in a row is an alert, and recovery is announced only
\* after an alert went out" (notify.go:188-189), and likewise of drift: whatever is
\* found and not found, forgotten, and dropped because the queue was full, an alert is
\* queued after two bad findings in a row and a recovery after a good one, each of them
\* after the other; only when a notice was dropped in between may two of a kind follow
\* one another, or a recovery come first.
AlarmsPair ==
  [][/\ Said(Event("health", "down")) =>
          /\ lastProbe = "unhealthy" /\ lastProbe' = "unhealthy"
          /\ "health" \notin said \ lost
     /\ Said(Event("health", "up")) =>
          /\ lastProbe' = "healthy"
          /\ "health" \in said \cup lost
     /\ Said(Event("drift", "drift")) =>
          /\ lastCheck /\ lastCheck'
          /\ "drift" \notin said \ lost
     /\ Said(Event("drift", "settled")) =>
          /\ ~lastCheck'
          /\ "drift" \in said \cup lost]_vars

\* "Nothing is lost" by the sweep (notify.go:72-75): a line that was let through less
\* than a window ago is still remembered, with its time.
Remembered ==
  \A l \in DOMAIN letThrough :
    now - letThrough[l] < Debounce => l \in DOMAIN sentAt /\ sentAt[l] = letThrough[l]

\* The bot's own writes are not reported as made outside it (notify.go:277-279): such
\* a report means that hubctl or the agent wrote since the last look, or that the
\* files could not be read.
OwnWritesQuiet ==
  [][Said(Event("oob", "changed")) => strange \/ previous' = "unread"]_vars

\* "A watcher that dies silently is the worst failure the bot has" (bot.go:277-278):
\* whoever panics, and whatever is queued behind it without end, the notifier gets to
\* each event on the queue, and decides on it unless it panics at this very one.
NewsArrives == place > 0 ~> fate \in {"decided", "lost"}
=============================================================================

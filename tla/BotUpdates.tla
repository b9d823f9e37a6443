------------------------------ MODULE BotUpdates ------------------------------
(***************************************************************************)
(* How the bot gets its operator's updates, and what it does with each     *)
(* once, twice or never.  Telegram keeps an update until a poll asks for   *)
(* later ones; the update loop handles a batch one by one and then saves   *)
(* where to resume; a mutation takes the one gate, which a flow started in *)
(* the background carries on after its update is over, and which the       *)
(* refresh timer takes too.  Every call to Telegram may be throttled, be   *)
(* refused or hang; the process is stopped, is killed and comes back.      *)
(*                                                                         *)
(* What a mutation does is ConfigEditor's, DeployConfirm's and Upstreams'  *)
(* matter.  Here it is only counted.                                       *)
(***************************************************************************)
EXTENDS Integers, Sequences

CONSTANTS
  Kinds,       \* the updates that may arrive, a subset of AllKinds
  Loop,        \* the update loop, while it handles an update
  Task,        \* a flow spawned by an update
  Timer,       \* the scheduled refresh of subscriptions
  Free,        \* nobody holds the gate
  MaxUpdates,  \* bound: updates that are sent
  MaxStops,    \* bound: times the process is stopped or killed
  MaxFaults,   \* bound: reads and writes of the saved offset that fail, panics
  MaxRefreshes \* bound: times the refresh timer fires

\* From someone else; a command; a button that opens a dialog, that mutates, or
\* that starts a flow in the background; and plain text.
AllKinds == {"stranger", "command", "ask", "mutate", "launch", "text"}

ASSUME KindsAssumption == Kinds \subseteq AllKinds
ASSUME HoldersAssumption == Free \notin {Loop, Task, Timer} /\ Timer \notin {Loop, Task} /\ Loop # Task
ASSUME BoundsAssumption ==
  MaxUpdates \in Nat /\ MaxStops \in Nat /\ MaxFaults \in Nat /\ MaxRefreshes \in Nat

VARIABLES
  sent,         \* what arrived: the kind of update 1, of update 2, ...
  forgotten,    \* Telegram drops the updates up to this one
  net,          \* does Telegram answer?
  saved,        \* the file telegram-offset: the update to ask for; 0 when missing
  life,         \* "down", "running", or "stopping" once the context is cancelled
  pc,           \* where the update loop stands
  offset,       \* what the next poll asks for
  batch,        \* the updates of the last poll that are not over yet
  dialog,       \* is a dialog waiting for an answer?
  tries,        \* retries of the call the loop is waiting for
  gate,         \* who holds the gate
  task,         \* where the spawned flow stands
  launched,     \* the update that spawned it
  handled,      \* history: the updates that were handled
  acted,        \* history: how often each update's mutation was done
  interrupted,  \* history: updates a kill or a fault left unrecorded
  stops, faults, refreshes

telegram == <<sent, forgotten, net>>
loop == <<pc, offset, batch, tries>>
flow == <<task, launched>>
history == <<handled, acted, interrupted>>
budgets == <<stops, faults, refreshes>>
vars == <<telegram, saved, life, loop, dialog, gate, flow, history, budgets>>

Updates == 1 .. MaxUpdates
Calling == {"begin", "show", "resend", "answer"}
Handling == {"claim", "act", "save"} \cup Calling
Labels == {"off", "poll", "take", "wait"} \cup Handling

Update == Head(batch)
Kind == sent[Update]
Tapped == Kind \in {"ask", "mutate", "launch"}
Span(first, last) == [i \in 1 .. last - first + 1 |-> first + i - 1]

\* The gate is held by whoever is inside a mutation, and by nobody else.
TypeOK ==
  /\ sent \in Seq(Kinds) /\ Len(sent) <= MaxUpdates
  /\ forgotten \in 0 .. Len(sent) /\ net \in BOOLEAN
  /\ saved \in 0 .. Len(sent) + 1 /\ offset \in 0 .. Len(sent) + 1
  /\ life \in {"down", "running", "stopping"}
  /\ pc \in Labels /\ (life = "down" <=> pc = "off")
  /\ pc \in {"take"} \cup Handling <=> batch # <<>>
  /\ batch \in Seq(DOMAIN sent)
  /\ dialog \in BOOLEAN /\ tries \in 0 .. 2
  /\ gate \in {Free, Loop, Task, Timer}
  /\ gate = Loop => pc \in {"begin", "act", "show", "resend"}
  /\ pc \in {"begin", "act"} => gate = Loop
  /\ task \in {"none", "work", "report"} /\ launched \in 0 .. Len(sent)
  /\ gate = Task <=> task # "none"
  /\ handled \subseteq Updates /\ acted \in [Updates -> 0 .. MaxStops + 1]
  /\ interrupted \subseteq Updates
  /\ stops \in 0 .. MaxStops /\ faults \in 0 .. MaxFaults
  /\ refreshes \in 0 .. MaxRefreshes

Init ==
  /\ sent = <<>> /\ forgotten = 0 /\ net = TRUE
  /\ saved = 0 /\ life = "down"
  /\ pc = "off" /\ offset = 0 /\ batch = <<>> /\ tries = 0
  /\ dialog = FALSE /\ gate = Free
  /\ task = "none" /\ launched = 0
  /\ handled = {} /\ acted = [u \in Updates |-> 0]
  /\ interrupted = {}
  /\ stops = 0 /\ faults = 0 /\ refreshes = 0

-----------------------------------------------------------------------------
(* Telegram, and the network between. *)

Send(kind) ==
  /\ Len(sent) < MaxUpdates
  /\ sent' = Append(sent, kind)
  /\ UNCHANGED <<forgotten, net, saved, life, loop, dialog, gate, flow, history, budgets>>

Reach == net' = ~net /\ UNCHANGED <<sent, forgotten, saved, life, loop, dialog, gate, flow, history, budgets>>

\* How a call may end: with a reply, or with an error -- a refusal, the deadline
\* of an attempt, or the context cancelled by a stop.
\* Mutant: only the connection's own end, or a stop, ends a call.
EndsUnbounded == (IF net THEN {"reply"} ELSE {}) \cup (IF net \/ life = "stopping" THEN {"error"} ELSE {})
Ends == (IF net THEN {"reply"} ELSE {}) \cup {"error"}

\* Too many requests: the call is repeated, twice at most.
Throttled ==
  /\ net /\ life = "running" /\ pc \in Calling /\ tries < 2
  /\ tries' = tries + 1
  /\ UNCHANGED <<telegram, saved, life, pc, offset, batch, dialog, gate, flow, history, budgets>>

-----------------------------------------------------------------------------
(* The update loop. *)

Fail == faults < MaxFaults /\ faults' = faults + 1 /\ UNCHANGED <<stops, refreshes>>
Goto(label) == pc' = label /\ tries' = 0 /\ UNCHANGED <<offset, batch>>
Release(who) == gate' = IF gate = who THEN Free ELSE gate

\* An offset that cannot be read counts as none: the poll starts from whatever
\* Telegram still keeps.
Start ==
  /\ life = "down"
  /\ life' = "running" /\ pc' = "poll"
  /\ \/ /\ offset' = saved
        /\ UNCHANGED <<history, budgets>>
     \/ /\ Fail
        /\ offset' = 0
        /\ interrupted' = interrupted \cup {u \in DOMAIN sent : u > forgotten}
        /\ UNCHANGED <<handled, acted>>
  /\ UNCHANGED <<telegram, saved, batch, tries, dialog, gate, flow>>

\* Asking for an update gives up the ones before it, whether or not the answer
\* arrives; what is given up does not come back.
Confirmed == IF offset > forgotten THEN offset - 1 ELSE forgotten

\* Mutant: where to resume is saved with the batch, before it is handled.
PollAhead ==
  /\ life = "running" /\ pc = "poll" /\ net
  /\ forgotten' = Confirmed
  /\ forgotten' < Len(sent)
  /\ batch' = Span(forgotten' + 1, Len(sent))
  /\ saved' = Len(sent) + 1
  /\ pc' = "take" /\ UNCHANGED <<offset, tries>>
  /\ UNCHANGED <<sent, net, life, dialog, gate, flow, history, budgets>>
Poll ==
  /\ life = "running" /\ pc = "poll" /\ net
  /\ forgotten' = Confirmed
  /\ forgotten' < Len(sent)
  /\ batch' = Span(forgotten' + 1, Len(sent))
  /\ pc' = "take" /\ UNCHANGED <<offset, tries>>
  /\ UNCHANGED <<sent, net, saved, life, dialog, gate, flow, history, budgets>>

\* There is nothing new, or the answer is lost and the same offset is asked again.
PollEmpty ==
  /\ life = "running" /\ pc = "poll" /\ net
  /\ forgotten' = Confirmed
  /\ UNCHANGED <<sent, net, saved, life, loop, dialog, gate, flow, history, budgets>>

\* A command abandons the dialog.  Text answers it: an answer that is understood
\* ends the dialog, whatever becomes of the mutation, and any other is asked again.
Dispatch ==
  \E answers \in IF Kind = "text" /\ dialog THEN BOOLEAN ELSE {FALSE} :
    /\ dialog' = (Kind = "ask" \/ (dialog /\ Kind # "command" /\ ~answers))
    /\ pc' = CASE Kind = "stranger" -> "save"
               [] Kind \in {"mutate", "launch"} \/ answers -> "claim"
               [] OTHER -> "show"

\* Mutant: the offset is the update's own number.
TakeInPlace ==
  /\ pc = "take"
  /\ offset' = Update
  /\ handled' = handled \cup {Update}
  /\ Dispatch
  /\ UNCHANGED <<telegram, saved, life, batch, tries, gate, flow, acted, interrupted, budgets>>
Take ==
  /\ pc = "take"
  /\ offset' = Update + 1
  /\ handled' = handled \cup {Update}
  /\ Dispatch
  /\ UNCHANGED <<telegram, saved, life, batch, tries, gate, flow, acted, interrupted, budgets>>

\* Contention is answered at once, with what is running.
\* Mutant: the gate is not looked at.
ClaimHeld ==
  /\ pc = "claim"
  /\ gate' = Loop /\ Goto(IF Kind = "launch" THEN "begin" ELSE "act")
  /\ UNCHANGED <<telegram, saved, life, dialog, flow, history, budgets>>
Claim ==
  /\ pc = "claim"
  /\ IF gate = Free
     THEN gate' = Loop /\ Goto(IF Kind = "launch" THEN "begin" ELSE "act")
     ELSE UNCHANGED gate /\ Goto(IF Tapped THEN "answer" ELSE "show")
  /\ UNCHANGED <<telegram, saved, life, dialog, flow, history, budgets>>

\* The flow is spawned once its progress message stands, and takes over the gate.
Begin ==
  /\ pc = "begin"
  /\ \E end \in Ends :
       IF end = "reply" THEN gate' = Task /\ task' = "work" /\ launched' = Update
       ELSE Release(Loop) /\ UNCHANGED flow
  /\ Goto("answer")
  /\ UNCHANGED <<telegram, saved, life, dialog, history, budgets>>

Act ==
  /\ pc = "act"
  /\ acted' = [acted EXCEPT ![Update] = @ + 1]
  /\ Goto("show")
  /\ UNCHANGED <<telegram, saved, life, dialog, gate, flow, handled, interrupted, budgets>>

\* A handler that panics gives the gate back; its update is over.
Panic ==
  /\ pc = "act"
  /\ Fail
  /\ \E done \in {0, 1} : acted' = [acted EXCEPT ![Update] = @ + done]
  /\ Release(Loop)
  /\ Goto("save")
  /\ UNCHANGED <<telegram, saved, life, dialog, flow, handled, interrupted>>

\* A tapped message is edited or, when that fails, a new one is sent; the gate is
\* given back on return, and a tap is then answered.
Show ==
  /\ pc \in {"show", "resend"}
  /\ \E end \in Ends :
       IF end = "error" /\ pc = "show" /\ Tapped
       THEN Goto("resend") /\ UNCHANGED gate
       ELSE Goto(IF Tapped THEN "answer" ELSE "save") /\ Release(Loop)
  /\ UNCHANGED <<telegram, saved, life, dialog, flow, history, budgets>>

Answer ==
  /\ pc = "answer"
  /\ \E end \in Ends : Goto("save")
  /\ UNCHANGED <<telegram, saved, life, dialog, gate, flow, history, budgets>>

\* A stop is looked for between batches, not between updates.
Save ==
  /\ pc = "save"
  /\ \/ saved' = offset /\ UNCHANGED <<history, budgets>>
     \/ /\ Fail
        /\ interrupted' = interrupted \cup {Update}
        /\ UNCHANGED <<saved, handled, acted>>
  /\ batch' = Tail(batch)
  /\ pc' = IF batch' = <<>> THEN "poll" ELSE "take"
  /\ UNCHANGED <<telegram, life, offset, tries, dialog, gate, flow>>

-----------------------------------------------------------------------------
(* The flow in the background and the timer. *)

\* A cancelled context fails what the flow runs; a panic ends it.  Either way the
\* gate is given back.
Work ==
  /\ task = "work"
  /\ \/ acted' = [acted EXCEPT ![launched] = @ + 1] /\ task' = "report"
        /\ UNCHANGED <<gate, launched, handled, interrupted, budgets>>
     \/ life = "stopping" /\ task' = "report" /\ UNCHANGED <<gate, launched, history, budgets>>
     \/ Fail /\ task' = "none" /\ launched' = 0 /\ Release(Task) /\ UNCHANGED history
  /\ UNCHANGED <<telegram, saved, life, loop, dialog>>

Report ==
  /\ task = "report"
  /\ \E end \in Ends : task' = "none" /\ launched' = 0 /\ Release(Task)
  /\ UNCHANGED <<telegram, saved, life, loop, dialog, history, budgets>>

\* A scheduled refresh that finds the gate taken waits for its next tick.
Refresh ==
  /\ life = "running" /\ gate = Free /\ refreshes < MaxRefreshes
  /\ gate' = Timer /\ refreshes' = refreshes + 1
  /\ UNCHANGED <<telegram, saved, life, loop, dialog, flow, history, stops, faults>>

Refreshed ==
  /\ gate = Timer
  /\ Release(Timer)
  /\ UNCHANGED <<telegram, saved, life, loop, dialog, flow, history, budgets>>

-----------------------------------------------------------------------------
(* The process. *)

Stop ==
  /\ life = "running" /\ stops < MaxStops
  /\ life' = "stopping" /\ stops' = stops + 1
  /\ UNCHANGED <<telegram, saved, loop, dialog, gate, flow, history, faults, refreshes>>

Drain ==
  /\ life = "stopping" /\ pc = "poll"
  /\ Goto("wait")
  /\ UNCHANGED <<telegram, saved, life, dialog, gate, flow, history, budgets>>

Vanish ==
  /\ life' = "down" /\ pc' = "off" /\ batch' = <<>> /\ offset' = 0 /\ tries' = 0
  /\ dialog' = FALSE /\ gate' = Free /\ task' = "none" /\ launched' = 0
  /\ UNCHANGED <<telegram, saved, handled, acted, faults, refreshes>>

\* Run returns once everything it spawned has ended.
Exit == pc = "wait" /\ gate = Free /\ Vanish /\ UNCHANGED <<interrupted, stops>>

Kill ==
  /\ life # "down" /\ stops < MaxStops
  /\ stops' = stops + 1
  /\ interrupted' = interrupted \cup (IF pc \in Handling THEN {Update} ELSE {})
  /\ Vanish

-----------------------------------------------------------------------------
Handle == Take \/ Claim \/ Begin \/ Act \/ Show \/ Answer \/ Save \/ Drain \/ Exit
Background == Work \/ Report \/ Refreshed
Next ==
  \/ \E kind \in Kinds : Send(kind)
  \/ Reach \/ Throttled
  \/ Start \/ Poll \/ PollEmpty
  \/ Take \/ Claim \/ Begin \/ Act \/ Panic \/ Show \/ Answer \/ Save
  \/ Work \/ Report \/ Refresh \/ Refreshed
  \/ Stop \/ Drain \/ Exit \/ Kill

\* systemd starts the process again; a handler and a spawned flow take their next
\* step, calls included, for each ends by its own deadline; a poll that can be
\* answered again and again is in the end.
Fairness == WF_vars(Start) /\ WF_vars(Handle) /\ WF_vars(Background) /\ SF_vars(Poll)
Spec == Init /\ [][Next]_vars /\ Fairness

-----------------------------------------------------------------------------
\* "Never auto-repeat a destructive op" (bot.go:403-405, offset_store.go:12-16), as
\* far as the code keeps it: a mutation is done twice for one update only if the
\* process was killed while it handled that very update, or the saved offset could
\* not be written after it or read back -- not because of a stop, however many
\* updates it cut through, nor for a flow in the background that was killed later.
RerunOnlyInterrupted == \A u \in Updates : acted[u] > 1 => u \in interrupted

\* No update is passed over: stopped, killed, throttled or out of reach for a while,
\* the bot gets to each one as long as Telegram answers again and again.
EveryUpdateHandled ==
  []<>net => \A u \in Updates : u \in DOMAIN sent ~> u \in handled

\* "A spawned flow blocked here holds the ops gate the whole time" (client.go:102-104):
\* whoever takes the gate gives it back, even if Telegram never answers again.
GateReturns == gate # Free ~> gate = Free
=============================================================================

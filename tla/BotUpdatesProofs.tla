-------------------------- MODULE BotUpdatesProofs --------------------------
(***************************************************************************)
(* Proofs about BotUpdates, for any number of updates, stops, faults and   *)
(* ticks of the timer: type correctness, with what it says of the gate and *)
(* of how often an update is acted on, and that only what was interrupted  *)
(* is acted on twice.                                                      *)
(***************************************************************************)
EXTENDS BotUpdates, TLAPS

(* TypeOK, part by part; how often an update was acted on comes later.     *)
TelegramOK ==
  /\ sent \in Seq(Kinds) /\ Len(sent) <= MaxUpdates
  /\ forgotten \in 0 .. Len(sent) /\ net \in BOOLEAN
  /\ saved \in 0 .. Len(sent) + 1 /\ offset \in 0 .. Len(sent) + 1
BatchOK == batch \in Seq(DOMAIN sent)
LoopOK ==
  /\ life \in {"down", "running", "stopping"}
  /\ pc \in Labels /\ (life = "down" <=> pc = "off") /\ (pc = "wait" => life = "stopping")
  /\ pc \in {"take"} \cup Handling <=> batch # <<>>
  /\ BatchOK
  /\ dialog \in BOOLEAN /\ tries \in 0 .. 2
GateOK ==
  /\ gate \in {Free, Loop, Task, Timer}
  /\ gate = Loop => pc \in {"begin", "act", "show", "resend"}
  /\ pc \in {"begin", "act"} => gate = Loop
  /\ task \in {"none", "work", "report"} /\ launched \in 0 .. Len(sent)
  /\ gate = Task <=> task # "none"
  /\ launched = 0 <=> task = "none"
HistoryOK ==
  /\ handled \subseteq Updates /\ acted \in [Updates -> Nat] /\ interrupted \subseteq Updates
  /\ stops \in 0 .. MaxStops /\ faults \in 0 .. MaxFaults
  /\ refreshes \in 0 .. MaxRefreshes
StateOK == TelegramOK /\ LoopOK /\ GateOK /\ HistoryOK

\* A batch is consecutive and starts where the last poll asked; the offset is past the
\* update being handled, and past nothing else of the batch.
InOrder ==
  /\ \A i \in DOMAIN batch : batch[i] = batch[1] + i - 1
  /\ pc = "take" => offset <= batch[1]
  /\ pc \in Handling => offset = batch[1] + 1

\* Acted on, or about to be by the flow in the background.
Pending(u) == IF task = "work" /\ launched = u THEN 1 ELSE 0
Times(u) == acted[u] + Pending(u)

\* In one life of the process an update comes up once, so it is acted on once a life.
Done(u) == life # "down" /\ u < offset /\ ~(pc \in {"claim", "begin", "act"} /\ batch[1] = u)
Lives(u) == stops + (IF life = "stopping" THEN 0 ELSE 1) + (IF Done(u) THEN 1 ELSE 0)
OncePerLife == \A u \in Updates : Times(u) + 1 <= Lives(u)

\* No poll asks for it again, unless the saved offset is lost.
Over(u) == u <= forgotten \/ u < saved
Late(u) == pc \in {"show", "resend", "answer", "save"} /\ batch[1] = u
OnceUnlessInterrupted ==
  \A u \in Updates \ interrupted :
    /\ Times(u) <= 1
    /\ Times(u) = 1 => Over(u) \/ Late(u)
    /\ life # "down" /\ Over(u) =>
         (u <= forgotten \/ u < offset) /\ \A i \in DOMAIN batch : batch[i] # u

RerunInv == StateOK /\ InOrder /\ OncePerLife /\ OnceUnlessInterrupted

-----------------------------------------------------------------------------
(* Batches.                                                                *)

\* A poll's answer is the updates from the first to the last, in their order.
LEMMA SpanLemma ==
  ASSUME NEW first \in Nat \ {0}, NEW last \in Nat, first <= last
  PROVE  /\ Span(first, last) \in Seq(1 .. last) /\ Span(first, last) # <<>>
         /\ DOMAIN Span(first, last) = 1 .. last - first + 1
         /\ \A i \in DOMAIN Span(first, last) : Span(first, last)[i] = first + i - 1
BY DEF Span

\* What is left of a consecutive batch is consecutive.
LEMMA TailLemma ==
  ASSUME NEW S, NEW b \in Seq(S), b # <<>>, b[1] \in Nat, \A i \in DOMAIN b : b[i] = b[1] + i - 1
  PROVE  /\ \A i \in DOMAIN Tail(b) : /\ i + 1 \in DOMAIN b /\ Tail(b)[i] = b[i + 1]
                                      /\ Tail(b)[i] = b[1] + i /\ Tail(b)[i] = Tail(b)[1] + i - 1
         /\ Tail(b) # <<>> => 1 \in DOMAIN Tail(b) /\ Tail(b)[1] = b[1] + 1
<1>1. Len(b) \in Nat \ {0} /\ DOMAIN b = 1 .. Len(b)
  OBVIOUS
<1>2. Tail(b) \in Seq(S) /\ Len(Tail(b)) = Len(b) - 1 /\ DOMAIN Tail(b) = 1 .. Len(b) - 1
  BY <1>1
<1>3. \A i \in 1 .. Len(b) - 1 : Tail(b)[i] = b[i + 1]
  BY <1>1
<1>4. \A i \in DOMAIN Tail(b) : i + 1 \in DOMAIN b /\ Tail(b)[i] = b[i + 1] /\ i \in Nat
  BY <1>1, <1>2, <1>3
<1>5. \A i \in DOMAIN Tail(b) : Tail(b)[i] = b[1] + i
  <2> TAKE i \in DOMAIN Tail(b)
  <2>1. b[i + 1] = b[1] + (i + 1) - 1
    BY <1>4
  <2> QED
    BY <1>4, <2>1
<1>6. Tail(b) # <<>> => Len(Tail(b)) # 0
  BY <1>2
<1>7. \A i \in DOMAIN Tail(b) : 1 \in DOMAIN Tail(b)
  BY <1>1, <1>2
<1>8. Tail(b) # <<>> => 1 \in DOMAIN Tail(b)
  BY <1>1, <1>2, <1>6
<1>9. 1 \in DOMAIN Tail(b) => Tail(b)[1] = b[1] + 1
  BY <1>5
<1> QED
  BY <1>4, <1>5, <1>7, <1>8, <1>9

\* What is being handled is an update that was sent, and what follows it is the rest.
LEMMA BatchLemma ==
  ASSUME StateOK, batch # <<>>
  PROVE  /\ Update = batch[1] /\ Update \in 1 .. Len(sent) /\ Update \in Updates
         /\ 1 \in DOMAIN batch /\ DOMAIN batch = 1 .. Len(batch)
         /\ Tail(batch) \in Seq(DOMAIN sent)
         /\ DOMAIN Tail(batch) = 1 .. Len(batch) - 1
         /\ \A i \in DOMAIN Tail(batch) : i + 1 \in DOMAIN batch /\ Tail(batch)[i] = batch[i + 1]
<1>1. /\ sent \in Seq(Kinds) /\ batch \in Seq(DOMAIN sent) /\ Len(sent) <= MaxUpdates
      /\ DOMAIN sent = 1 .. Len(sent) /\ Len(sent) \in Nat
  BY DEF StateOK, TelegramOK, LoopOK, BatchOK
<1>2. DOMAIN batch = 1 .. Len(batch) /\ Len(batch) \in Nat \ {0} /\ 1 \in DOMAIN batch
  BY <1>1
<1>3. Update = batch[1] /\ batch[1] \in 1 .. Len(sent)
  BY <1>1, <1>2 DEF Update
<1>4. Tail(batch) \in Seq(DOMAIN sent) /\ Len(Tail(batch)) = Len(batch) - 1
  BY <1>1, <1>2
<1>5. \A i \in 1 .. Len(batch) - 1 : Tail(batch)[i] = batch[i + 1]
  BY <1>1, <1>2
<1> QED
  BY <1>1, <1>2, <1>3, <1>4, <1>5, BoundsAssumption DEF Updates

\* A poll gives up what it confirms, and brings what comes right after.
LEMMA PollLemma ==
  ASSUME StateOK, Poll
  PROVE  /\ Confirmed \in Nat /\ forgotten <= Confirmed /\ offset <= Confirmed + 1
         /\ forgotten' = Confirmed /\ BatchOK' /\ batch' # <<>>
         /\ 1 \in DOMAIN batch' /\ \A i \in DOMAIN batch' : i \in Nat \ {0} /\ batch'[i] = Confirmed + i
<1>1. /\ Confirmed \in Nat /\ Confirmed + 1 \in Nat \ {0} /\ Confirmed + 1 <= Len(sent)
      /\ forgotten <= Confirmed /\ offset <= Confirmed + 1 /\ Len(sent) \in Nat
  BY DEF StateOK, TelegramOK, Poll, Confirmed
<1>2. batch' = Span(Confirmed + 1, Len(sent)) /\ sent' = sent /\ forgotten' = Confirmed
  BY DEF Poll
<1>3. /\ Span(Confirmed + 1, Len(sent)) \in Seq(1 .. Len(sent)) /\ Span(Confirmed + 1, Len(sent)) # <<>>
      /\ DOMAIN Span(Confirmed + 1, Len(sent)) = 1 .. Len(sent) - (Confirmed + 1) + 1
      /\ \A i \in DOMAIN Span(Confirmed + 1, Len(sent)) :
           Span(Confirmed + 1, Len(sent))[i] = (Confirmed + 1) + i - 1
  BY <1>1, SpanLemma, Zenon
<1>4. BatchOK' /\ batch' # <<>>
  <2>1. DOMAIN sent' = 1 .. Len(sent)
    BY <1>2 DEF StateOK, TelegramOK
  <2> QED
    BY <1>2, <1>3, <2>1, Zenon DEF BatchOK
<1>5. DOMAIN batch' = 1 .. Len(sent) - (Confirmed + 1) + 1
      /\ \A i \in DOMAIN batch' : batch'[i] = (Confirmed + 1) + i - 1
  BY <1>2, <1>3, Zenon
<1> QED
  BY <1>1, <1>2, <1>4, <1>5

-----------------------------------------------------------------------------
(* Type correctness.                                                       *)

LEMMA InitState == Init => StateOK
<1> SUFFICES ASSUME Init PROVE StateOK
  OBVIOUS
<1>1. TelegramOK
  BY BoundsAssumption DEF Init, TelegramOK
<1>2. LoopOK
  <2>1. batch = <<>> /\ <<>> \in Seq(DOMAIN sent)
    BY DEF Init
  <2>2. BatchOK
    BY <2>1, Zenon DEF BatchOK
  <2>3. dialog \in BOOLEAN
    BY Zenon DEF Init
  <2> QED
    BY <2>2, <2>3 DEF Init, LoopOK, Labels, Handling, Calling
<1>3. GateOK
  BY HoldersAssumption DEF Init, GateOK
<1>4. HistoryOK
  BY BoundsAssumption DEF Init, HistoryOK
<1> QED
  BY <1>1, <1>2, <1>3, <1>4 DEF StateOK

\* Every step keeps the parts of the type invariant.
LEMMA StepState == StateOK /\ [Next]_vars => StateOK'
<1> SUFFICES ASSUME StateOK, [Next]_vars PROVE StateOK'
  OBVIOUS
<1> USE BoundsAssumption, HoldersAssumption
<1> USE DEF StateOK, TelegramOK, LoopOK, BatchOK, GateOK, HistoryOK, Labels, Handling, Calling,
           telegram, loop, flow, history, budgets, Goto, Fail
<1>1. CASE \E kind \in Kinds : Send(kind)
  BY <1>1, BatchLemma DEF Send
<1>2. CASE Reach
  BY <1>2, BatchLemma DEF Reach
<1>3. CASE Throttled
  BY <1>3, BatchLemma DEF Throttled
<1>4. CASE Start
  <2>1. TelegramOK'
    BY <1>4, BatchLemma DEF Start
  <2>2. LoopOK'
    BY <1>4, BatchLemma DEF Start
  <2>3. GateOK'
    BY <1>4, BatchLemma DEF Start
  <2>4. HistoryOK'
    <3>1. {u \in DOMAIN sent : u > forgotten} \subseteq Updates
      BY DEF Updates
    <3> QED
      BY <1>4, <3>1 DEF Start
  <2> QED
    BY <2>1, <2>2, <2>3, <2>4
<1>5. CASE Poll
  <2>1. TelegramOK'
    BY <1>5, BatchLemma DEF Poll, Confirmed
  <2>2. LoopOK'
    <3>1. BatchOK' /\ batch' # <<>>
      BY <1>5, PollLemma
    <3> QED
      BY <1>5, <3>1 DEF Poll
  <2>3. GateOK'
    BY <1>5, BatchLemma DEF Poll, Confirmed
  <2>4. HistoryOK'
    BY <1>5, BatchLemma DEF Poll, Confirmed
  <2> QED
    BY <2>1, <2>2, <2>3, <2>4
<1>6. CASE PollEmpty
  BY <1>6, BatchLemma DEF PollEmpty, Confirmed
<1>7. CASE Take
  <2>1. TelegramOK'
    <3>1. Update \in 1 .. Len(sent)
      BY <1>7, BatchLemma DEF Take
    <3>2. offset' = Update + 1 /\ UNCHANGED <<sent, forgotten, net, saved>>
      BY <1>7 DEF Take
    <3> QED
      BY <3>1, <3>2
  <2>2. LoopOK'
    BY <1>7, BatchLemma DEF Take, Dispatch
  <2>3. GateOK'
    BY <1>7, BatchLemma DEF Take, Dispatch
  <2>4. HistoryOK'
    BY <1>7, BatchLemma DEF Take, Dispatch
  <2> QED
    BY <2>1, <2>2, <2>3, <2>4
<1>8. CASE Claim
  BY <1>8, BatchLemma, SMTT(30) DEF Claim
<1>9. CASE Begin
  BY <1>9, BatchLemma DEF Begin, Release
<1>10. CASE Act
  BY <1>10, BatchLemma DEF Act
<1>11. CASE Panic
  BY <1>11, BatchLemma, SMTT(30) DEF Panic, Release
<1>12. CASE Show
  <2>1. TelegramOK' /\ HistoryOK'
    BY <1>12 DEF Show
  <2>2. LoopOK'
    BY <1>12 DEF Show
  <2>3. GateOK'
    BY <1>12, BatchLemma DEF Show, Release
  <2> QED
    BY <2>1, <2>2, <2>3
<1>13. CASE Answer
  BY <1>13, BatchLemma DEF Answer
<1>14. CASE Save
  <2>1. TelegramOK'
    BY <1>14, BatchLemma DEF Save
  <2>2. LoopOK'
    BY <1>14, BatchLemma DEF Save
  <2>3. GateOK'
    BY <1>14, BatchLemma DEF Save
  <2>4. HistoryOK'
    <3>1. Update \in Updates
      BY <1>14, BatchLemma DEF Save
    <3>2. CASE saved' = offset /\ UNCHANGED <<history, budgets>>
      BY <3>2
    <3>3. CASE Fail /\ interrupted' = interrupted \cup {Update} /\ UNCHANGED <<saved, handled, acted>>
      BY <3>1, <3>3
    <3> QED
      BY <1>14, <3>2, <3>3 DEF Save
  <2> QED
    BY <2>1, <2>2, <2>3, <2>4
<1>15. CASE Work
  <2>1. TelegramOK'
    BY <1>15, BatchLemma DEF Work, Release
  <2>2. LoopOK'
    BY <1>15, BatchLemma DEF Work, Release
  <2>3. GateOK'
    BY <1>15, BatchLemma, SMTT(30) DEF Work, Release
  <2>4. HistoryOK'
    <3>1. launched \in Updates
      BY <1>15 DEF Work, Updates
    <3>2. acted' \in [Updates -> Nat]
      <4>1. CASE acted' = [acted EXCEPT ![launched] = @ + 1]
        BY <3>1, <4>1
      <4> QED
        BY <1>15, <4>1 DEF Work
    <3>3. UNCHANGED <<handled, interrupted, stops, refreshes>> /\ faults' \in 0 .. MaxFaults
      BY <1>15 DEF Work
    <3> QED
      BY <3>2, <3>3
  <2> QED
    BY <2>1, <2>2, <2>3, <2>4
<1>16. CASE Report
  BY <1>16, BatchLemma DEF Report, Release
<1>17. CASE Refresh
  BY <1>17, BatchLemma DEF Refresh
<1>18. CASE Refreshed
  BY <1>18, BatchLemma DEF Refreshed, Release
<1>19. CASE Stop
  BY <1>19, BatchLemma DEF Stop
<1>20. CASE Drain
  BY <1>20, BatchLemma DEF Drain
<1>21. CASE Exit
  <2>1. TelegramOK'
    BY <1>21, BatchLemma DEF Exit, Vanish
  <2>2. LoopOK'
    <3>1. batch' = <<>> /\ <<>> \in Seq(DOMAIN sent')
      BY <1>21 DEF Exit, Vanish
    <3>2. BatchOK'
      BY <3>1, Zenon DEF BatchOK
    <3>3. dialog' \in BOOLEAN
      BY <1>21, Zenon DEF Exit, Vanish
    <3> QED
      BY <1>21, <3>1, <3>2, <3>3 DEF Exit, Vanish
  <2>3. GateOK'
    BY <1>21, BatchLemma DEF Exit, Vanish
  <2>4. HistoryOK'
    BY <1>21, BatchLemma DEF Exit, Vanish
  <2> QED
    BY <2>1, <2>2, <2>3, <2>4
<1>22. CASE Kill
  <2>1. TelegramOK'
    BY <1>22, BatchLemma DEF Kill, Vanish
  <2>2. LoopOK'
    <3>1. batch' = <<>> /\ <<>> \in Seq(DOMAIN sent')
      BY <1>22 DEF Kill, Vanish
    <3>2. BatchOK'
      BY <3>1, Zenon DEF BatchOK
    <3>3. dialog' \in BOOLEAN
      BY <1>22, Zenon DEF Kill, Vanish
    <3> QED
      BY <1>22, <3>1, <3>2, <3>3 DEF Kill, Vanish
  <2>3. GateOK'
    BY <1>22, BatchLemma DEF Kill, Vanish
  <2>4. HistoryOK'
    BY <1>22, BatchLemma DEF Kill, Vanish
  <2> QED
    BY <2>1, <2>2, <2>3, <2>4
<1>23. CASE UNCHANGED vars
  BY <1>23 DEF vars
<1> QED
  BY <1>1, <1>2, <1>3, <1>4, <1>5, <1>6, <1>7, <1>8, <1>9, <1>10, <1>11, <1>12, <1>13, <1>14, <1>15, <1>16, <1>17, <1>18, <1>19, <1>20, <1>21, <1>22, <1>23 DEF Next

-----------------------------------------------------------------------------
(* Batches are in order.                                                   *)

\* What neither the order nor the count of an update depends on.
Still == UNCHANGED <<acted, flow, stops, life, pc, offset, batch, forgotten, saved, interrupted>>

LEMMA StillSteps ==
  ASSUME (\E kind \in Kinds : Send(kind)) \/ Reach \/ Throttled \/ Refresh \/ Refreshed \/ UNCHANGED vars
  PROVE  Still
BY DEF Still, Send, Reach, Throttled, Refresh, Refreshed, vars, telegram, loop, flow, history, budgets

\* The loop's own actions, the flow's, and the process's.
Moves ==
  \/ Start \/ Poll \/ PollEmpty
  \/ Take \/ Claim \/ Begin \/ Act \/ Panic \/ Show \/ Answer \/ Save
  \/ Work \/ Report \/ Stop \/ Drain \/ Exit \/ Kill

LEMMA StillOrMoves == [Next]_vars => Still \/ Moves
BY StillSteps DEF Next, Moves

\* Once an update is over, the rest of its batch is next.
LEMMA SaveLemma ==
  ASSUME StateOK, InOrder, Save
  PROVE  /\ InOrder' /\ offset = batch[1] + 1 /\ batch[1] \in Nat
         /\ Update = batch[1] /\ batch[1] \in Updates
         /\ \A i \in DOMAIN batch' : /\ i + 1 \in DOMAIN batch /\ batch'[i] = batch[i + 1]
                                    /\ i \in Nat \ {0} /\ batch'[i] = batch[1] + i
<1>1. /\ batch # <<>> /\ batch \in Seq(DOMAIN sent) /\ offset = batch[1] + 1
      /\ \A i \in DOMAIN batch : batch[i] = batch[1] + i - 1
  BY DEF Save, StateOK, LoopOK, BatchOK, InOrder, Handling
<1>2. batch[1] \in Nat /\ batch[1] \in Updates /\ Update = batch[1]
  BY <1>1, BatchLemma
<1>3. batch' = Tail(batch) /\ offset' = offset /\ pc' = IF batch' = <<>> THEN "poll" ELSE "take"
  BY DEF Save
<1>4. DOMAIN Tail(batch) = 1 .. Len(batch) - 1
  BY <1>1, BatchLemma
<1>5. \A i \in DOMAIN batch' : /\ i + 1 \in DOMAIN batch /\ batch'[i] = batch[i + 1]
                               /\ batch'[i] = batch[1] + i /\ batch'[i] = batch'[1] + i - 1
  BY <1>1, <1>2, <1>3, TailLemma
<1>6. batch' # <<>> => batch'[1] = batch[1] + 1
  BY <1>1, <1>2, <1>3, TailLemma
<1>7. InOrder'
  <2>1. pc' = "take" => offset' <= batch'[1]
    BY <1>1, <1>2, <1>3, <1>6
  <2>2. pc' \notin Handling
    BY <1>3 DEF Handling, Calling
  <2> QED
    BY <1>5, <2>1, <2>2 DEF InOrder
<1>8. \A i \in DOMAIN batch' : i \in Nat \ {0}
  <2>1. Len(batch) \in Nat
    BY <1>1
  <2> QED
    BY <1>3, <1>4, <2>1
<1> QED
  BY <1>1, <1>2, <1>5, <1>7, <1>8

\* The next poll and the next update only go on from where the last one ended.
LEMMA StepOrder ==
  ASSUME StateOK, InOrder, [Next]_vars
  PROVE  InOrder'
<1> USE DEF InOrder, StateOK, TelegramOK, LoopOK, GateOK, Labels, Handling, Calling,
           telegram, loop, flow, history, Goto
<1>1. CASE Still
  BY <1>1 DEF Still
<1>2. CASE Start
  BY <1>2, BatchLemma DEF Start, Fail
<1>3. CASE Poll
  <2>1. pc' = "take" /\ offset' = offset
    BY <1>3 DEF Poll
  <2>2. /\ Confirmed \in Nat /\ offset <= Confirmed + 1
        /\ 1 \in DOMAIN batch' /\ \A i \in DOMAIN batch' : i \in Nat \ {0} /\ batch'[i] = Confirmed + i
    BY <1>3, PollLemma
  <2>3. batch'[1] = Confirmed + 1
    BY <2>2
  <2> QED
    BY <2>1, <2>2, <2>3
<1>4. CASE PollEmpty
  BY <1>4 DEF PollEmpty
<1>5. CASE Take
  BY <1>5, BatchLemma DEF Take, Dispatch
<1>6. CASE Claim
  BY <1>6, BatchLemma DEF Claim
<1>7. CASE Begin
  BY <1>7, BatchLemma DEF Begin, Release
<1>8. CASE Act
  BY <1>8, BatchLemma DEF Act
<1>9. CASE Panic
  BY <1>9, BatchLemma DEF Panic, Release, Fail
<1>10. CASE Show
  BY <1>10, BatchLemma DEF Show, Release
<1>11. CASE Answer
  BY <1>11, BatchLemma DEF Answer
<1>12. CASE Save
  BY <1>12, SaveLemma
<1>13. CASE Work
  BY <1>13, BatchLemma DEF Work, Fail, Release
<1>14. CASE Report
  BY <1>14, BatchLemma DEF Report, Release
<1>15. CASE Stop
  BY <1>15, BatchLemma DEF Stop
<1>16. CASE Drain
  BY <1>16, BatchLemma DEF Drain
<1>17. CASE Exit
  BY <1>17, BatchLemma DEF Exit, Vanish
<1>18. CASE Kill
  BY <1>18, BatchLemma DEF Kill, Vanish
<1> QED
  BY <1>1, <1>2, <1>3, <1>4, <1>5, <1>6, <1>7, <1>8, <1>9, <1>10, <1>11, <1>12, <1>13, <1>14, <1>15, <1>16, <1>17, <1>18, StillOrMoves DEF Moves

-----------------------------------------------------------------------------
(* Once in a life.                                                         *)

\* What keeps an update from being done over, and what adds to how often it was done.
LEMMA CountLemma ==
  ASSUME StateOK, StateOK', NEW u \in Updates
  PROVE  /\ Times(u) \in Nat /\ Times(u)' \in Nat /\ Lives(u) \in Nat /\ Lives(u)' \in Nat
         /\ UNCHANGED <<acted, flow>> => Times(u)' = Times(u)
         /\ UNCHANGED <<stops, life>> /\ (Done(u) => Done(u)') => Lives(u)' >= Lives(u)
         /\ UNCHANGED <<stops, life>> /\ ~Done(u) /\ Done(u)' => Lives(u)' = Lives(u) + 1
<1>1. acted[u] \in Nat /\ acted'[u] \in Nat /\ stops \in Nat /\ stops' \in Nat
  BY DEF StateOK, HistoryOK
<1>2. Pending(u) \in {0, 1} /\ Pending(u)' \in {0, 1}
  BY DEF Pending
<1>3. Times(u) = acted[u] + Pending(u) /\ Times(u)' = acted'[u] + Pending(u)'
  BY DEF Times
<1>4. UNCHANGED <<acted, flow>> => Times(u)' = Times(u)
  BY DEF Times, Pending, flow
<1>5. /\ Lives(u) = stops + (IF life = "stopping" THEN 0 ELSE 1) + (IF Done(u) THEN 1 ELSE 0)
      /\ Lives(u)' = stops' + (IF life' = "stopping" THEN 0 ELSE 1) + (IF Done(u)' THEN 1 ELSE 0)
  BY DEF Lives
<1>6. Times(u) \in Nat /\ Times(u)' \in Nat
  BY <1>1, <1>2, <1>3
<1>7. Lives(u) \in Nat /\ Lives(u)' \in Nat
  <2> DEFINE ends == IF life = "stopping" THEN 0 ELSE 1
             done == IF Done(u) THEN 1 ELSE 0
  <2>1. ends \in {0, 1} /\ done \in {0, 1} /\ ends' \in {0, 1} /\ done' \in {0, 1}
    OBVIOUS
  <2>2. Lives(u) = stops + ends + done /\ Lives(u)' = stops' + ends' + done'
    BY <1>5
  <2>3. \A n \in Nat, x, y \in {0, 1} : n + x + y \in Nat
    OBVIOUS
  <2>4. stops + ends + done \in Nat
    BY <1>1, <2>1, <2>3, Zenon
  <2>5. stops' + ends' + done' \in Nat
    BY <1>1, <2>1, <2>3, Zenon
  <2> QED
    BY <2>2, <2>4, <2>5, Zenon
<1>8. ASSUME UNCHANGED <<stops, life>>, Done(u) => Done(u)'
      PROVE  Lives(u)' >= Lives(u)
  BY <1>1, <1>5, <1>8
<1>9. ASSUME UNCHANGED <<stops, life>>, ~Done(u), Done(u)'
      PROVE  Lives(u)' = Lives(u) + 1
  BY <1>1, <1>5, <1>9
<1> QED
  BY <1>4, <1>6, <1>7, <1>8, <1>9

\* A flow is spawned only when none is under way.
LEMMA BeginLemma ==
  ASSUME StateOK, StateOK', Begin, NEW u \in Updates
  PROVE  Times(u)' <= Times(u) + (IF u = batch[1] THEN 1 ELSE 0)
<1>1. batch # <<>> /\ Update = batch[1] /\ task = "none" /\ acted' = acted
  BY BatchLemma, HoldersAssumption DEF Begin, StateOK, LoopOK, GateOK, Handling, Calling, history
<1>2. UNCHANGED flow \/ launched' = Update
  BY DEF Begin
<1>3. Pending(u) = 0 /\ (u # batch[1] => Pending(u)' = 0) /\ Pending(u)' \in {0, 1}
  BY <1>1, <1>2 DEF Pending, flow
<1> QED
  BY <1>1, <1>3 DEF Times, StateOK, HistoryOK

LEMMA ActLemma ==
  ASSUME StateOK, StateOK', Act \/ Panic, NEW u \in Updates
  PROVE  Times(u)' <= Times(u) + (IF u = batch[1] THEN 1 ELSE 0)
<1>1. batch # <<>> /\ Update = batch[1] /\ UNCHANGED flow
  BY BatchLemma DEF Act, Panic, StateOK, LoopOK, Handling
<1>2. PICK done \in {0, 1} : acted' = [acted EXCEPT ![Update] = @ + done]
  BY DEF Act, Panic
<1>3. Pending(u)' = Pending(u) /\ Pending(u) \in {0, 1}
  BY <1>1 DEF Pending, flow
<1>4. acted'[u] = IF u = batch[1] THEN acted[u] + done ELSE acted[u]
  BY <1>1, <1>2 DEF StateOK, HistoryOK
<1> QED
  BY <1>3, <1>4 DEF Times, StateOK, HistoryOK

\* What was about to be done is done, or is not done any more.
LEMMA WorkLemma ==
  ASSUME StateOK, StateOK', Work \/ Report, NEW u \in Updates
  PROVE  Times(u)' <= Times(u)
<1>1. CASE acted' = [acted EXCEPT ![launched] = @ + 1] /\ task = "work" /\ task' = "report"
  <2>1. acted'[u] = IF u = launched THEN acted[u] + 1 ELSE acted[u]
    BY <1>1 DEF StateOK, HistoryOK
  <2> QED
    BY <1>1, <2>1 DEF Times, Pending, StateOK, HistoryOK
<1>2. CASE acted' = acted /\ task' # "work"
  BY <1>2 DEF Times, Pending, StateOK, HistoryOK
<1> QED
  BY <1>1, <1>2 DEF Work, Report, history

\* An update is acted on once it is taken, and a stop or a kill opens the next life.
LEMMA StepLives ==
  ASSUME StateOK, StateOK', InOrder, OncePerLife, [Next]_vars
  PROVE  OncePerLife'
<1> SUFFICES ASSUME NEW u \in Updates PROVE Times(u)' + 1 <= Lives(u)'
  BY DEF OncePerLife
<1> USE CountLemma
<1>a. Times(u) + 1 <= Lives(u) /\ u \in Nat
  BY BoundsAssumption DEF OncePerLife, Updates
<1>b. batch # <<>> => batch[1] \in Nat /\ Update = batch[1]
  BY BatchLemma
<1>c. pc \in {"take"} \cup Handling <=> batch # <<>>
  BY DEF StateOK, LoopOK
<1>d. offset \in Nat
  BY DEF StateOK, TelegramOK
<1> USE <1>a, <1>d
\* When nobody acts, it is enough that the update stays done.
<1>q. ASSUME UNCHANGED <<acted, flow, stops, life>>, Done(u) => Done(u)'
      PROVE  Times(u)' + 1 <= Lives(u)'
  BY <1>q
\* When the loop acts, on the update that it holds, that update is done then.
<1>m. ASSUME UNCHANGED <<stops, life>>, life # "down", batch # <<>>, UNCHANGED batch, offset' = offset,
             pc \in {"begin", "act"}, pc' \notin {"claim", "begin", "act"},
             Times(u)' <= Times(u) + (IF u = batch[1] THEN 1 ELSE 0)
      PROVE  Times(u)' + 1 <= Lives(u)'
  <2>1. offset = batch[1] + 1 /\ batch[1] \in Nat
    BY <1>m, <1>b DEF InOrder, Handling, Calling
  <2>2. CASE u = batch[1]
    <3>1. ~Done(u) /\ Done(u)'
      BY <1>m, <2>1, <2>2 DEF Done
    <3> QED
      BY <1>m, <2>2, <3>1
  <2>3. CASE u # batch[1]
    <3>1. Done(u) => Done(u)'
      BY <1>m, <2>3 DEF Done
    <3> QED
      BY <1>m, <2>3, <3>1
  <2> QED
    BY <2>2, <2>3
<1>1. CASE Still
  <2>1. Done(u)' = Done(u)
    BY <1>1 DEF Still, Done
  <2> QED
    BY <1>1, <2>1, <1>q DEF Still
<1>2. CASE Start
  <2>1. life = "down" /\ life' = "running" /\ stops' = stops /\ UNCHANGED <<acted, flow>>
    BY <1>2 DEF Start, Fail, budgets, history
  <2>2. Lives(u) = stops + 1 /\ Lives(u)' >= stops + 1
    BY <2>1 DEF Lives, Done, StateOK, HistoryOK
  <2> QED
    BY <2>1, <2>2
<1>3. CASE Poll \/ PollEmpty
  <2>1. Done(u) => Done(u)'
    BY <1>3 DEF Poll, PollEmpty, Done, loop
  <2> QED
    BY <1>3, <2>1, <1>q DEF Poll, PollEmpty, history, budgets
<1>4. CASE Take
  <2>1. pc = "take" /\ offset' = batch[1] + 1 /\ batch[1] \in Nat /\ offset <= batch[1]
    BY <1>4, <1>b, <1>c DEF Take, InOrder
  <2>2. UNCHANGED <<acted, flow, stops, life, batch>>
    BY <1>4 DEF Take, budgets
  <2>3. Done(u) => Done(u)'
    BY <2>1, <2>2 DEF Done
  <2> QED
    BY <2>2, <2>3, <1>q
<1>5. CASE Claim
  <2>1. UNCHANGED <<acted, flow, stops, life, batch, offset>> /\ pc = "claim"
    BY <1>5 DEF Claim, Goto, history, budgets
  <2>2. Done(u) => Done(u)'
    BY <2>1 DEF Done
  <2> QED
    BY <2>1, <2>2, <1>q
<1>6. CASE Begin
  <2>1. /\ UNCHANGED <<acted, stops, life, batch, offset>> /\ pc = "begin" /\ pc' = "answer"
    BY <1>6 DEF Begin, Goto, history, budgets
  <2>2. life # "down" /\ batch # <<>> /\ Update = batch[1]
    BY <2>1, <1>b, <1>c DEF StateOK, LoopOK, Handling, Calling
  <2>3. Times(u)' <= Times(u) + (IF u = batch[1] THEN 1 ELSE 0)
    BY <1>6, BeginLemma
  <2> QED
    BY <2>1, <2>2, <2>3, <1>m
<1>7. CASE Act \/ Panic
  <2>1. /\ UNCHANGED <<flow, stops, life, batch, offset>> /\ pc = "act" /\ pc' \in {"show", "save"}
    BY <1>7 DEF Act, Panic, Goto, Fail, budgets
  <2>2. life # "down" /\ batch # <<>> /\ Update = batch[1]
    BY <2>1, <1>b, <1>c DEF StateOK, LoopOK, Handling, Calling
  <2>3. Times(u)' <= Times(u) + (IF u = batch[1] THEN 1 ELSE 0)
    BY <1>7, ActLemma
  <2> QED
    BY <2>1, <2>2, <2>3, <1>m
<1>8. CASE Show \/ Answer \/ Save
  <2>1. /\ UNCHANGED <<acted, flow, stops, life, offset>>
        /\ pc \notin {"claim", "begin", "act"} /\ pc' \notin {"claim", "begin", "act"}
    BY <1>8 DEF Show, Answer, Save, Goto, Fail, history, budgets
  <2>2. Done(u) => Done(u)'
    BY <2>1 DEF Done
  <2> QED
    BY <2>1, <2>2, <1>q
<1>9. CASE Work \/ Report
  <2>1. UNCHANGED <<stops, life, pc, batch, offset>>
    BY <1>9 DEF Work, Report, Fail, loop, budgets
  <2>2. Times(u)' <= Times(u)
    BY <1>9, WorkLemma
  <2>3. Done(u)' = Done(u)
    BY <2>1 DEF Done
  <2> QED
    BY <2>1, <2>2, <2>3
<1>10. CASE Stop
  <2>1. /\ UNCHANGED <<acted, flow, pc, batch, offset>>
        /\ stops' = stops + 1 /\ life = "running" /\ life' = "stopping"
    BY <1>10 DEF Stop, loop, history
  <2>2. Done(u)' = Done(u)
    BY <2>1 DEF Done
  <2>3. Lives(u)' = Lives(u)
    BY <2>1, <2>2 DEF Lives, StateOK, HistoryOK
  <2> QED
    BY <2>1, <2>3
<1>11. CASE Drain
  <2>1. UNCHANGED <<acted, flow, stops, life, batch, offset>> /\ pc' = "wait"
    BY <1>11 DEF Drain, Goto, history, budgets
  <2>2. Done(u) => Done(u)'
    BY <2>1 DEF Done
  <2> QED
    BY <2>1, <2>2, <1>q
<1>12. CASE Exit \/ Kill
  <2>1. /\ acted' = acted /\ task' = "none" /\ life' = "down" /\ life # "down"
        /\ (stops' = stops /\ life = "stopping") \/ stops' = stops + 1
    BY <1>12 DEF Exit, Kill, Vanish, StateOK, LoopOK
  <2>2. Times(u)' <= Times(u)
    BY <2>1 DEF Times, Pending, StateOK, HistoryOK
  <2>3. Lives(u)' >= Lives(u)
    <3>1. Lives(u)' = stops' + 1 /\ stops \in Nat
      BY <2>1 DEF Lives, Done, StateOK, HistoryOK
    <3>2. Lives(u) <= stops + (IF life = "stopping" THEN 0 ELSE 1) + 1
      BY <3>1 DEF Lives
    <3> QED
      BY <2>1, <3>1, <3>2
  <2> QED
    BY <2>2, <2>3
<1> QED
  BY <1>1, <1>2, <1>3, <1>4, <1>5, <1>6, <1>7, <1>8, <1>9, <1>10, <1>11, <1>12, StillOrMoves DEF Moves

-----------------------------------------------------------------------------
(* Once, unless interrupted.                                               *)

\* What a poll confirmed and what the saved offset is past stay over; what is late gets
\* recorded, or else is interrupted.
LEMMA StepOnce ==
  ASSUME StateOK, StateOK', InOrder, OnceUnlessInterrupted, [Next]_vars
  PROVE  OnceUnlessInterrupted'
<1> DEFINE Met(u) == life # "down" /\ Over(u) =>
                        (u <= forgotten \/ u < offset) /\ \A i \in DOMAIN batch : batch[i] # u
<1> SUFFICES ASSUME NEW u \in Updates, u \notin interrupted'
             PROVE  /\ Times(u)' <= 1
                    /\ Times(u)' = 1 => Over(u)' \/ Late(u)'
                    /\ Met(u)'
  BY DEF OnceUnlessInterrupted
<1> USE CountLemma
<1>g. interrupted \subseteq interrupted'
  <2>1. CASE Still
    BY <2>1 DEF Still
  <2>2. CASE Moves
    BY <2>2 DEF Moves, Start, Poll, PollEmpty, Take, Claim, Begin, Act, Panic, Show, Answer, Save,
               Work, Report, Stop, Drain, Exit, Kill, Vanish, history
  <2> QED
    BY <2>1, <2>2, StillOrMoves
<1>a. /\ Times(u) \in Nat /\ Times(u) <= 1 /\ (Times(u) = 1 => Over(u) \/ Late(u)) /\ Met(u)
  BY <1>g DEF OnceUnlessInterrupted
<1>b. batch # <<>> => /\ batch[1] \in Nat /\ Update = batch[1] /\ 1 \in DOMAIN batch
  BY BatchLemma
<1>c. pc \in {"take"} \cup Handling <=> batch # <<>>
  BY DEF StateOK, LoopOK
<1>d. /\ offset \in Nat /\ forgotten \in Nat /\ saved \in Nat /\ u \in Nat /\ Len(sent) \in Nat
      /\ offset' \in Nat /\ forgotten' \in Nat /\ saved' \in Nat
  BY BoundsAssumption DEF StateOK, TelegramOK, Updates
<1> HIDE DEF Met
\* Nobody acts, and nothing is confirmed, saved or begun.
<1>q. ASSUME Times(u)' <= Times(u), Late(u) => Late(u)', UNCHANGED <<forgotten, saved, batch>>,
             offset' >= offset, life' # "down" => life # "down"
      PROVE  Times(u)' <= 1 /\ (Times(u)' = 1 => Over(u)' \/ Late(u)') /\ Met(u)'
  BY <1>a, <1>d, <1>q DEF Over, Met
\* The loop acts on the update it holds, and is late then.
<1>m. ASSUME UNCHANGED <<life, forgotten, saved, batch, offset>>, life # "down", batch # <<>>, pc \in {"begin", "act"},
             pc' \in {"show", "resend", "answer", "save"}, Times(u)' <= Times(u) + (IF u = batch[1] THEN 1 ELSE 0)
      PROVE  Times(u)' <= 1 /\ (Times(u)' = 1 => Over(u)' \/ Late(u)') /\ Met(u)'
  <2>1. ~Late(u)
    BY <1>m DEF Late
  <2>2. Met(u)' /\ Over(u)' = Over(u)
    BY <1>a, <1>m DEF Met, Over
  <2>3. CASE u = batch[1]
    <3>1. ~Over(u)
      BY <1>a, <1>b, <1>m, <2>3 DEF Met
    <3>2. Times(u) = 0
      BY <1>a, <2>1, <3>1
    <3> QED
      BY <1>m, <2>2, <2>3, <3>2 DEF Late
  <2>4. CASE u # batch[1]
    BY <1>a, <1>m, <2>1, <2>2, <2>4
  <2> QED
    BY <2>3, <2>4
<1>1. CASE Still
  BY <1>1, <1>q, <1>d DEF Still, Late
<1>2. CASE Start
  <2>1. life = "down" /\ pc = "off" /\ batch = <<>> /\ UNCHANGED <<acted, flow, forgotten, saved, batch>>
    BY <1>2, <1>c DEF Start, StateOK, LoopOK, history, telegram, Handling, Calling
  <2>2. ~Late(u)
    BY <2>1 DEF Late
  <2>3. u < saved => u <= forgotten \/ u < offset'
    <3>1. CASE offset' = saved
      BY <3>1
    <3>2. CASE interrupted' = interrupted \cup {v \in DOMAIN sent : v > forgotten}
      <4>1. u \notin 1 .. Len(sent) \/ u <= forgotten
        BY <3>2, <1>d, SMTT(30) DEF StateOK, TelegramOK
      <4>2. saved <= Len(sent) + 1 /\ u >= 1
        BY DEF StateOK, TelegramOK, Updates
      <4> QED
        BY <4>1, <4>2, <1>d
    <3> QED
      BY <1>2, <3>1, <3>2 DEF Start
  <2>4. \A i \in DOMAIN batch' : FALSE
    BY <2>1
  <2>5. Met(u)'
    BY <2>1, <2>3, <2>4 DEF Met, Over
  <2> QED
    BY <1>a, <2>1, <2>2, <2>5 DEF Over
<1>3. CASE Poll \/ PollEmpty
  <2>1. /\ life = "running" /\ pc = "poll" /\ forgotten' = Confirmed
        /\ UNCHANGED <<life, offset, saved, acted, flow>>
    BY <1>3 DEF Poll, PollEmpty, history, loop
  <2>2. forgotten <= forgotten' /\ offset <= forgotten' + 1
    BY <2>1, <1>d DEF Confirmed
  <2>3. \A i \in DOMAIN batch' : batch'[i] \in Nat /\ batch'[i] > forgotten'
    <3>1. CASE Poll
      BY <3>1, PollLemma
    <3>2. CASE PollEmpty
      <4>1. batch' = <<>>
        BY <3>2, <2>1, <1>c DEF PollEmpty, loop, Handling, Calling
      <4> QED
        BY <4>1
    <3> QED
      BY <1>3, <3>1, <3>2
  <2>4. ~Late(u)
    BY <2>1 DEF Late
  <2>5. Over(u) => Over(u)'
    BY <1>d, <2>1, <2>2 DEF Over
  <2>6. u < saved => u <= forgotten'
    BY <1>a, <1>d, <2>1, <2>2 DEF Met, Over
  <2>7. Met(u)'
    BY <1>d, <2>1, <2>3, <2>6 DEF Met, Over
  <2> QED
    BY <1>a, <2>1, <2>4, <2>5, <2>7
<1>4. CASE Take
  <2>1. pc = "take" /\ offset' = batch[1] + 1 /\ batch[1] \in Nat /\ offset <= batch[1]
    BY <1>4, <1>b, <1>c DEF Take, InOrder
  <2>2. UNCHANGED <<acted, flow, life, batch, forgotten, saved>>
    BY <1>4 DEF Take, telegram
  <2>3. ~Late(u)
    BY <2>1 DEF Late
  <2> QED
    BY <2>1, <2>2, <2>3, <1>q, <1>d
<1>5. CASE Claim \/ Show \/ Answer
  <2>1. UNCHANGED <<acted, flow, life, batch, forgotten, saved, offset>>
    BY <1>5 DEF Claim, Show, Answer, Goto, telegram, history
  <2>2. Late(u) => Late(u)'
    BY <1>5, <2>1 DEF Claim, Show, Answer, Goto, Late
  <2> QED
    BY <2>1, <2>2, <1>q, <1>d
<1>6. CASE Begin
  <2>1. UNCHANGED <<acted, life, batch, forgotten, saved, offset>> /\ pc = "begin" /\ pc' = "answer"
    BY <1>6 DEF Begin, Goto, telegram, history
  <2>2. life # "down" /\ batch # <<>> /\ Update = batch[1]
    BY <2>1, <1>b, <1>c DEF StateOK, LoopOK, Handling, Calling
  <2>3. Times(u)' <= Times(u) + (IF u = batch[1] THEN 1 ELSE 0)
    BY <1>6, <2>2, BeginLemma
  <2> QED
    BY <2>1, <2>2, <2>3, <1>m
<1>7. CASE Act \/ Panic
  <2>1. UNCHANGED <<life, batch, forgotten, saved, offset>> /\ pc = "act" /\ pc' \in {"show", "save"}
    BY <1>7 DEF Act, Panic, Goto, telegram
  <2>2. life # "down" /\ batch # <<>> /\ Update = batch[1]
    BY <2>1, <1>b, <1>c DEF StateOK, LoopOK, Handling, Calling
  <2>3. Times(u)' <= Times(u) + (IF u = batch[1] THEN 1 ELSE 0)
    BY <1>7, <2>2, ActLemma
  <2> QED
    BY <2>1, <2>2, <2>3, <1>m
<1>8. CASE Save
  <2>1. /\ pc = "save" /\ UNCHANGED <<acted, flow, life, forgotten, offset>>
        /\ pc' \in {"poll", "take"}
    BY <1>8 DEF Save, history, telegram
  <2>2. /\ offset = batch[1] + 1 /\ batch[1] \in Nat /\ Update = batch[1]
        /\ \A i \in DOMAIN batch' : /\ i + 1 \in DOMAIN batch /\ batch'[i] = batch[i + 1]
                                   /\ i \in Nat \ {0} /\ batch'[i] = batch[1] + i
    BY <1>8, SaveLemma
  <2>3. life # "down"
    BY <2>1 DEF StateOK, LoopOK
  <2>4. Over(u) => \A i \in DOMAIN batch' : batch'[i] # u
    BY <1>a, <2>2, <2>3 DEF Met
  <2>5. CASE saved' = offset
    <3>1. u < saved' => \A i \in DOMAIN batch' : batch'[i] # u
      BY <1>d, <2>2, <2>5, SMTT(30)
    <3>2. Met(u)'
      BY <1>d, <2>1, <2>4, <2>5, <3>1 DEF Met, Over
    <3>3. Late(u) => Over(u)'
      BY <2>2, <2>5 DEF Late, Over
    <3>4. Over(u) => Over(u)'
      BY <1>a, <2>1, <2>3, <2>5 DEF Met, Over
    <3> QED
      BY <1>a, <2>1, <3>2, <3>3, <3>4
  <2>6. CASE saved' = saved /\ interrupted' = interrupted \cup {Update}
    <3>1. ~Late(u)
      BY <2>2, <2>6 DEF Late
    <3>2. Over(u)' = Over(u)
      BY <2>1, <2>6 DEF Over
    <3>3. Met(u)'
      BY <1>a, <2>1, <2>3, <2>4, <3>2 DEF Met
    <3> QED
      BY <1>a, <2>1, <3>1, <3>2, <3>3
  <2> QED
    BY <1>8, <2>5, <2>6 DEF Save
<1>9. CASE Work \/ Report
  <2>1. UNCHANGED <<life, pc, batch, offset, forgotten, saved>>
    BY <1>9 DEF Work, Report, loop, telegram
  <2>2. Times(u)' <= Times(u)
    BY <1>9, WorkLemma
  <2> QED
    BY <2>1, <2>2, <1>q, <1>d DEF Late
<1>10. CASE Stop \/ Drain
  <2>1. UNCHANGED <<acted, flow, batch, offset, forgotten, saved>> /\ life # "down"
    BY <1>10 DEF Stop, Drain, Goto, loop, telegram, history
  <2>2. Late(u) => Late(u)'
    BY <1>10 DEF Stop, Drain, Goto, loop, Late
  <2> QED
    BY <2>1, <2>2, <1>q, <1>d
<1>11. CASE Exit \/ Kill
  <2>1. acted' = acted /\ task' = "none" /\ life' = "down" /\ UNCHANGED <<forgotten, saved>>
    BY <1>11 DEF Exit, Kill, Vanish, telegram
  <2>2. Times(u)' <= Times(u)
    BY <2>1 DEF Times, Pending, StateOK, HistoryOK
  <2>3. ~Late(u)
    BY <1>11, <1>b, <1>c DEF Exit, Kill, Late, Handling, Calling
  <2>4. Met(u)' /\ Over(u)' = Over(u)
    BY <2>1 DEF Met, Over
  <2> QED
    BY <1>a, <2>2, <2>3, <2>4
<1> QED
  BY <1>1, <1>2, <1>3, <1>4, <1>5, <1>6, <1>7, <1>8, <1>9, <1>10, <1>11, StillOrMoves DEF Moves

-----------------------------------------------------------------------------
(* Together.                                                               *)

LEMMA InitRerun == Init => RerunInv
<1> SUFFICES ASSUME Init PROVE RerunInv
  OBVIOUS
<1>1. StateOK
  BY InitState
<1>2. InOrder
  BY DEF Init, InOrder, Handling, Calling
<1>3. \A u \in Updates : Times(u) = 0 /\ ~Done(u)
  BY DEF Init, Times, Pending, Done
<1>4. \A u \in Updates : Lives(u) = 1
  BY <1>3 DEF Init, Lives
<1>5. OncePerLife
  BY <1>3, <1>4 DEF OncePerLife
<1>6. OnceUnlessInterrupted
  BY <1>3 DEF Init, OnceUnlessInterrupted
<1> QED
  BY <1>1, <1>2, <1>5, <1>6 DEF RerunInv

LEMMA StepRerun == RerunInv /\ [Next]_vars => RerunInv'
BY StepState, StepOrder, StepLives, StepOnce DEF RerunInv

\* How often an update is acted on is bounded by the lives of the process.
LEMMA RerunTypes == RerunInv => TypeOK
<1> SUFFICES ASSUME RerunInv PROVE TypeOK
  OBVIOUS
<1>1. \A u \in Updates : acted[u] \in 0 .. MaxStops + 1
  <2> TAKE u \in Updates
  <2>1. acted[u] \in Nat /\ stops \in 0 .. MaxStops
    BY DEF RerunInv, StateOK, HistoryOK
  <2>2. acted[u] <= Times(u)
    BY <2>1 DEF Times, Pending
  <2>3. Times(u) + 1 <= Lives(u) /\ Times(u) \in Nat
    BY <2>1 DEF RerunInv, OncePerLife, Times, Pending
  <2>4. Lives(u) <= stops + 2 /\ Lives(u) \in Nat
    BY <2>1 DEF Lives
  <2> QED
    BY <2>1, <2>2, <2>3, <2>4, BoundsAssumption
<1>2. acted \in [Updates -> 0 .. MaxStops + 1]
  BY <1>1 DEF RerunInv, StateOK, HistoryOK
<1> QED
  BY <1>2 DEF RerunInv, StateOK, TelegramOK, LoopOK, BatchOK, GateOK, HistoryOK, TypeOK

\* Types, among them that the gate is held by whoever is inside a mutation and by
\* nobody else, and that no update is acted on more often than the process lived.
THEOREM BotUpdatesTypeCorrect == Spec => []TypeOK
<1>1. Init => RerunInv
  BY InitRerun
<1>2. RerunInv /\ [Next]_vars => RerunInv'
  BY StepRerun
<1>3. RerunInv => TypeOK
  BY RerunTypes
<1> QED
  BY <1>1, <1>2, <1>3, PTL DEF Spec

\* What the update loop did is done again only for an update that a kill or a fault of
\* the saved offset interrupted: a stop, a panic, a lost poll never repeat a mutation.
THEOREM OnlyInterruptedRerun == Spec => []RerunOnlyInterrupted
<1>1. Init => RerunInv
  BY InitRerun
<1>2. RerunInv /\ [Next]_vars => RerunInv'
  BY StepRerun
<1>3. RerunInv => RerunOnlyInterrupted
  <2> SUFFICES ASSUME RerunInv, NEW u \in Updates, acted[u] > 1 PROVE u \in interrupted
    BY DEF RerunOnlyInterrupted
  <2>1. acted[u] \in Nat /\ Times(u) > 1 /\ Times(u) \in Nat
    BY DEF RerunInv, StateOK, HistoryOK, Times, Pending
  <2> QED
    BY <2>1 DEF RerunInv, OnceUnlessInterrupted
<1> QED
  BY <1>1, <1>2, <1>3, PTL DEF Spec

=============================================================================

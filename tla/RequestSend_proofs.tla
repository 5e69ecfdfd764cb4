------------------------- MODULE RequestSend_proofs -------------------------
(***************************************************************************)
(* Proofs about RequestSend, for any requests, any of them scripted or     *)
(* authenticated with OAuth, any number of sends and reloads: Stop is      *)
(* final, a run is recorded once, the button tells the truth and is never  *)
(* stuck, and an interval that waits has a send to wait for.               *)
(*                                                                         *)
(* The window keeps no register of sends for the stages before the         *)
(* execution: it knows a request by its name in several sets.  The         *)
(* invariant says, request by request, how these sets follow its one open  *)
(* send, until something crosses it.                                       *)
(***************************************************************************)
EXTENDS RequestSend, TLAPS

Steps == {"unused", "preparing", "authorizing", "wire", "live", "over"}
SendRecord == [req : Requests \cup {None}, step : Steps, from : SUBSET Requests,
               filed : Seq(Requests), cancelled : BOOLEAN, regretted : BOOLEAN]
Schedules == [req : Requests \cup {None}, type : SendTypes \cup {"none"},
              phase : {"none", "counting", "firing"}]

EditorTyped ==
  /\ currentNode \in Requests /\ sendType \in SendTypes \cup {"immediate"}
  /\ schedule \in Schedules
  /\ inFlight \subseteq Requests /\ spinning \subseteq Requests
  /\ streaming \in [Requests -> Sends \cup {0}]
  /\ tangled \subseteq Requests /\ reloads \in 0..MaxReloads

WireTyped ==
  /\ engine \in [Sends -> [phase : {"idle", "running", "live", "over"}, stopped : BOOLEAN]]
  /\ toWindow \in [Sends -> Seq({"answer", "marker", "end"})]
  /\ toMain \in [Sends -> {"none", "abort", "streamAbort"}]

Open(s) == At(s, {"preparing", "authorizing", "wire", "live"})

\* A send has a request from its beginning, and an execution only after its
\* token came.
SendsTyped ==
  /\ sends \in [Sends -> SendRecord]
  /\ \A s \in Sends : /\ ~At(s, {"unused"}) => sends[s].req \in Requests
                      /\ At(s, {"unused"}) => sends[s].req = None
EarlySendsIdle ==
  \A s \in Sends : At(s, {"unused", "preparing", "authorizing"}) => engine[s].phase = "idle"

\* Only a send that is over has been recorded or cancelled, and only one that
\* has begun can be regretted.
Filing ==
  \A s \in Sends :
    /\ ~At(s, {"over"}) => sends[s].filed = <<>> /\ ~sends[s].cancelled
    /\ At(s, {"unused", "preparing"}) => ~sends[s].regretted

\* The button is handed only to live streams of its request.
StreamIsLive ==
  \A r \in Requests : streaming[r] # 0 =>
    sends[streaming[r]].req = r /\ At(streaming[r], {"live"})

\* A schedule is of the request on screen; only an interval waits.
ScheduleIsOfLoaded ==
  /\ schedule # NoSchedule => schedule.req = currentNode
  /\ schedule.phase = "firing" => schedule.type = "interval"

-----------------------------------------------------------------------------
(* What holds of a request nothing has tangled *)

Firing(r) == schedule.phase = "firing" /\ schedule.req = r

\* It has one open send at most.
OpenOnce(r) ==
  \A s, t \in Sends :
    Open(s) /\ Open(t) /\ sends[s].req = r /\ sends[t].req = r => s = t

\* Its live stream has the button, and the tree shows no stop control for it.
LiveStreams(r) ==
  \A s \in Sends : At(s, {"live"}) /\ sends[s].req = r =>
    streaming[r] = s /\ r \notin spinning

\* A send regretted too early is still waiting for its token, and no interval
\* waits for it.
RegretsWait(r) ==
  \A s \in Sends : sends[s].regretted /\ sends[s].req = r =>
    At(s, {"authorizing"}) /\ ~Firing(r)

ButtonOf(r) ==
  (r \in inFlight) <=> \E s \in Sends :
    /\ sends[s].req = r /\ At(s, {"authorizing", "wire", "live"})
    /\ ~(At(s, {"authorizing"}) /\ sends[s].regretted)

FiringWaits(r) == Firing(r) => Underway(r)

Sound(r) == OpenOnce(r) /\ LiveStreams(r) /\ RegretsWait(r) /\ ButtonOf(r) /\ FiringWaits(r)

Typed == EditorTyped /\ WireTyped /\ SendsTyped
SendsInv ==
  /\ Typed /\ EarlySendsIdle /\ Filing /\ RecordedOnce /\ StreamIsLive /\ ScheduleIsOfLoaded
  /\ \A r \in Requests \ tangled : Sound(r)

-----------------------------------------------------------------------------
(* Lemmas *)

\* A request stays sound while nothing of it moves.
LEMMA Frame ==
  ASSUME NEW r \in Requests, Sound(r),
         \A s \in Sends : sends[s].req = r \/ sends'[s].req = r => sends'[s] = sends[s],
         (r \in inFlight') <=> (r \in inFlight), streaming'[r] = streaming[r],
         r \in spinning' => r \in spinning, Firing(r)' => Firing(r)
  PROVE  Sound(r)'
<1>1. OpenOnce(r)'
  BY DEF Sound, OpenOnce, Open, At
<1>2. LiveStreams(r)'
  BY DEF Sound, LiveStreams, At
<1>3. RegretsWait(r)'
  BY DEF Sound, RegretsWait, At
<1>4. ButtonOf(r)'
  BY DEF Sound, ButtonOf, At
<1>5. FiringWaits(r)'
  BY DEF Sound, FiringWaits, Underway, At
<1> QED
  BY <1>1, <1>2, <1>3, <1>4, <1>5 DEF Sound

\* Nor does it matter to a request that another one's send moved.
LEMMA OtherRequest ==
  ASSUME NEW r \in Requests, Sound(r), NEW s \in Sends,
         \A t \in Sends : t # s => sends'[t] = sends[t],
         sends[s].req # r, sends'[s].req # r,
         (r \in inFlight') <=> (r \in inFlight), streaming'[r] = streaming[r],
         r \in spinning' => r \in spinning, Firing(r)' => Firing(r)
  PROVE  Sound(r)'
<1>1. \A t \in Sends : sends[t].req = r \/ sends'[t].req = r => sends'[t] = sends[t]
  OBVIOUS
<1> QED
  BY <1>1, Frame

\* A request none of whose sends is open is sound if its button says Send and
\* no interval waits for it.
LEMMA Quiet ==
  ASSUME NEW r \in Requests, \A s \in Sends : sends[s].req = r => ~Open(s) /\ ~sends[s].regretted,
         r \notin inFlight, ~Firing(r)
  PROVE  Sound(r)
<1> SUFFICES OpenOnce(r) /\ LiveStreams(r) /\ RegretsWait(r) /\ ButtonOf(r) /\ FiringWaits(r)
  BY DEF Sound
<1> QED
  BY DEF OpenOnce, LiveStreams, RegretsWait, ButtonOf, FiringWaits, Open, At

\* What is left of a send that is over.
LEMMA OverType ==
  ASSUME Typed, NEW s \in Sends, NEW filed \in Seq(Requests), NEW cancelled \in BOOLEAN
  PROVE  /\ Over(s, filed, cancelled) \in SendRecord
         /\ Over(s, filed, cancelled).req = sends[s].req
         /\ Over(s, filed, cancelled).step = "over"
         /\ Over(s, filed, cancelled).filed = filed
         /\ Over(s, filed, cancelled).cancelled = cancelled
         /\ ~Over(s, filed, cancelled).regretted
<1>1. sends[s].req \in Requests \cup {None}
  BY DEF Typed, SendsTyped, SendRecord
<1>2. Unused \in SendRecord /\ ~Unused.regretted
  BY DEF Unused, SendRecord, Steps
<1> QED
  BY <1>1, <1>2 DEF Over, SendRecord, Steps

\* The settled interval counts again or is gone.
LEMMA RestartedType ==
  ASSUME Typed, ScheduleIsOfLoaded, NEW r \in Requests
  PROVE  /\ Restarted(r) \in Schedules
         /\ ~(Restarted(r).phase = "firing" /\ Restarted(r).req = r)
         /\ \A q : Restarted(r).phase = "firing" /\ Restarted(r).req = q => Firing(q)
         /\ Restarted(r) # NoSchedule => Restarted(r).req = currentNode
         /\ Restarted(r).phase = "firing" => Restarted(r).type = "interval"
<1>1. schedule \in Schedules /\ currentNode \in Requests
  BY DEF Typed, EditorTyped
<1>2. CASE schedule.type = "interval" /\ schedule.phase = "firing" /\ schedule.req = r /\ r = currentNode
  <2>1. Restarted(r) = [req |-> currentNode, type |-> "interval", phase |-> "counting"]
    BY <1>2 DEF Restarted, Countdown
  <2>2. "interval" \in SendTypes \cup {"none"}
    BY <1>1, <1>2 DEF Schedules
  <2> QED
    BY <1>1, <2>1, <2>2 DEF Schedules
<1>3. CASE schedule.type = "interval" /\ schedule.phase = "firing" /\ schedule.req = r /\ r # currentNode
  <2>1. Restarted(r) = NoSchedule
    BY <1>3 DEF Restarted
  <2> QED
    BY <2>1, SendAssumption DEF Schedules, NoSchedule
<1>4. CASE ~(schedule.type = "interval" /\ schedule.phase = "firing" /\ schedule.req = r)
  <2>1. Restarted(r) = schedule
    BY <1>4 DEF Restarted
  <2> QED
    BY <1>1, <1>4, <2>1 DEF Firing, ScheduleIsOfLoaded
<1> QED
  BY <1>2, <1>3, <1>4

-----------------------------------------------------------------------------
(* A send begins and proceeds *)

\* A send that proceeds is on its way to a token or on the wire.
LEMMA ProceedStep ==
  ASSUME Typed, EarlySendsIdle, Filing, NEW s \in Sends, NEW r \in Requests,
         NEW from \in SUBSET Requests,
         At(s, {"unused", "preparing"}), Proceed(s, r, from)
  PROVE  /\ \A t \in Sends : t # s => sends'[t] = sends[t] /\ engine'[t] = engine[t]
         /\ sends'[s].req = r /\ sends'[s].step \in {"authorizing", "wire"}
         /\ ~sends'[s].regretted /\ ~sends'[s].cancelled /\ sends'[s].filed = <<>>
         /\ SendsTyped' /\ WireTyped' /\ EarlySendsIdle'
         /\ sends'[s].step = "authorizing" => engine' = engine
         /\ inFlight' = inFlight \cup {r} /\ spinning' = spinning \cup {r}
         /\ UNCHANGED <<currentNode, sendType, streaming, toWindow, toMain, reloads>>
<1> DEFINE step == IF currentNode \in OAuthed THEN "authorizing" ELSE "wire"
<1>1. sends' = [sends EXCEPT ![s].req = r, ![s].from = from, ![s].step = step]
  BY DEF Proceed
<1>2. sends \in [Sends -> SendRecord] /\ step \in {"authorizing", "wire"}
  BY DEF Typed, SendsTyped
<1>3. engine' = IF step = "authorizing" THEN engine ELSE [engine EXCEPT ![s].phase = "running"]
  BY DEF Proceed
<1> HIDE DEF step
<1>4. /\ sends' \in [Sends -> SendRecord]
      /\ \A t \in Sends : t # s => sends'[t] = sends[t]
      /\ sends'[s].req = r /\ sends'[s].step = step
      /\ sends'[s].regretted = sends[s].regretted
      /\ sends'[s].cancelled = sends[s].cancelled /\ sends'[s].filed = sends[s].filed
  <2> DEFINE x == [sends[s] EXCEPT !.req = r, !.from = from, !.step = step]
  <2>1. sends[s] \in SendRecord
    BY <1>2
  <2>2. /\ x \in SendRecord /\ x.req = r /\ x.step = step /\ x.regretted = sends[s].regretted
        /\ x.cancelled = sends[s].cancelled /\ x.filed = sends[s].filed
    BY <1>2, <2>1 DEF SendRecord, Steps
  <2>3. sends' = [sends EXCEPT ![s] = x]
    BY <1>1, <1>2
  <2> HIDE DEF x
  <2> QED
    BY <1>2, <2>2, <2>3
<1>5. ~sends[s].regretted /\ ~sends[s].cancelled /\ sends[s].filed = <<>>
  BY DEF Filing, At
<1>6. SendsTyped'
  BY <1>2, <1>4 DEF Typed, SendsTyped, Open, At
<1>7. inFlight' = inFlight \cup {r} /\ spinning' = spinning \cup {r}
      /\ UNCHANGED <<currentNode, sendType, streaming, toWindow, toMain, reloads>>
  BY DEF Proceed, Loading
<1>8. WireTyped'
  BY <1>3, <1>7 DEF Typed, WireTyped
<1>9. /\ \A t \in Sends : t # s => engine'[t] = engine[t]
      /\ step = "authorizing" => engine' = engine
  BY <1>3 DEF Typed, WireTyped
<1>10. EarlySendsIdle'
  BY <1>2, <1>4, <1>9 DEF EarlySendsIdle, At
<1> QED
  BY <1>2, <1>4, <1>5, <1>6, <1>7, <1>8, <1>9, <1>10

\* A request whose only open send proceeds is sound: it has the button.
LEMMA ProceedSound ==
  ASSUME NEW r \in Requests, Sound(r), NEW s \in Sends,
         \A t \in Sends : t # s => sends'[t] = sends[t],
         \A t \in Sends : Open(t) /\ sends[t].req = r => t = s,
         At(s, {"unused", "preparing"}), ~At(s, {"unused"}) => sends[s].req = r,
         sends'[s].req = r, sends'[s].step \in {"authorizing", "wire"}, ~sends'[s].regretted,
         r \in inFlight'
  PROVE  Sound(r)'
<1>1. \A t \in Sends : sends[t].req = r /\ t # s => ~Open(t) /\ ~sends[t].regretted
  BY DEF Sound, RegretsWait, Open, At
<1>2. OpenOnce(r)'
  BY <1>1 DEF OpenOnce, Open, At
<1>3. LiveStreams(r)' /\ RegretsWait(r)'
  BY <1>1 DEF LiveStreams, RegretsWait, Open, At
<1>4. ButtonOf(r)' /\ FiringWaits(r)'
  BY DEF ButtonOf, FiringWaits, Underway, At
<1> QED
  BY <1>2, <1>3, <1>4 DEF Sound

\* Filing survives a send that moves on without being recorded or regretted.
LEMMA FilingKept ==
  ASSUME Filing, RecordedOnce, NEW s \in Sends, \A t \in Sends : t # s => sends'[t] = sends[t],
         ~sends'[s].cancelled, sends'[s].filed = <<>>, ~sends'[s].regretted
  PROVE  Filing' /\ RecordedOnce'
  BY DEF Filing, RecordedOnce, At

\* Beginning a send of the request on screen keeps the invariant, if only that
\* request's interval starts to wait.
LEMMA BeginInv ==
  ASSUME SendsInv, Begin(currentNode), schedule' \in Schedules, ScheduleIsOfLoaded',
         \A q \in Requests : q # currentNode /\ Firing(q)' => Firing(q)
  PROVE  SendsInv'
<1> USE DEF SendsInv
<1>0. currentNode \in Requests
  BY DEF Typed, EditorTyped
<1>1. PICK s \in Sends :
        /\ At(s, {"unused"})
        /\ tangled' = IF Underway(currentNode) THEN tangled \cup {currentNode} ELSE tangled
        /\ IF currentNode \in Scripted
           THEN /\ sends' = [sends EXCEPT ![s].req = currentNode, ![s].step = "preparing"]
                /\ UNCHANGED <<currentNode, sendType, inFlight, streaming, spinning, wireVars, reloads>>
           ELSE Proceed(s, currentNode, {currentNode})
  BY DEF Begin
<1>2. /\ \A t \in Sends : t # s => sends'[t] = sends[t]
      /\ sends'[s].req = currentNode /\ sends'[s].step \in {"preparing", "authorizing", "wire"}
      /\ ~sends'[s].regretted /\ ~sends'[s].cancelled /\ sends'[s].filed = <<>>
      /\ SendsTyped' /\ WireTyped' /\ EarlySendsIdle'
      /\ IF sends'[s].step = "preparing" THEN UNCHANGED <<inFlight, spinning>>
         ELSE inFlight' = inFlight \cup {currentNode} /\ spinning' = spinning \cup {currentNode}
      /\ UNCHANGED <<currentNode, sendType, streaming, reloads>>
  <2>1. CASE currentNode \in Scripted
    <3>1. sends \in [Sends -> SendRecord]
      BY DEF Typed, SendsTyped
    <3>2. sends' = [sends EXCEPT ![s].req = currentNode, ![s].step = "preparing"]
          /\ UNCHANGED <<currentNode, sendType, inFlight, streaming, spinning, wireVars, reloads>>
      BY <1>1, <2>1
    <3>3. /\ sends' \in [Sends -> SendRecord]
          /\ \A t \in Sends : t # s => sends'[t] = sends[t]
          /\ sends'[s].req = currentNode /\ sends'[s].step = "preparing"
          /\ sends'[s].regretted = sends[s].regretted
          /\ sends'[s].cancelled = sends[s].cancelled /\ sends'[s].filed = sends[s].filed
      BY <1>0, <3>1, <3>2 DEF SendRecord, Steps
    <3>4. ~sends[s].regretted /\ ~sends[s].cancelled /\ sends[s].filed = <<>>
      BY <1>1 DEF Filing, At
    <3>5. SendsTyped' /\ WireTyped' /\ EarlySendsIdle'
      BY <1>0, <1>1, <3>2, <3>3
         DEF Typed, SendsTyped, WireTyped, EarlySendsIdle, Open, At, wireVars
    <3> QED
      BY <3>2, <3>3, <3>4, <3>5
  <2>2. CASE currentNode \notin Scripted
    <3>1. Proceed(s, currentNode, {currentNode}) /\ At(s, {"unused", "preparing"})
          /\ {currentNode} \in SUBSET Requests
      BY <1>0, <1>1, <2>2 DEF At
    <3> QED
      BY <1>0, <3>1, ProceedStep
  <2> QED
    BY <2>1, <2>2
<1>3. EditorTyped'
  BY <1>0, <1>1, <1>2 DEF Typed, EditorTyped
<1>4. Filing' /\ RecordedOnce'
  BY <1>2, FilingKept
<1>5. StreamIsLive'
  BY <1>1, <1>2 DEF Typed, EditorTyped, StreamIsLive, At
<1>6. ASSUME NEW r \in Requests \ tangled' PROVE Sound(r)'
  <2>1. r \notin tangled /\ Sound(r) /\ (r = currentNode => ~Underway(r))
    BY <1>1
  <2>2. sends[s].req # r
    BY <1>1, SendAssumption DEF Typed, SendsTyped
  <2>3. CASE r # currentNode
    BY <1>2, <2>1, <2>2, <2>3, OtherRequest
  <2>4. CASE r = currentNode
    <3>1. \A t \in Sends : sends[t].req = r => ~Open(t) /\ ~sends[t].regretted
      BY <2>1, <2>4 DEF Sound, RegretsWait, Underway, Open, At
    <3>2. CASE sends'[s].step = "preparing"
      <4>1. r \notin inFlight /\ r \notin inFlight'
        BY <1>2, <2>1, <3>1, <3>2 DEF Sound, ButtonOf, Open, At
      <4>2. OpenOnce(r)' /\ LiveStreams(r)' /\ RegretsWait(r)'
        BY <1>2, <3>1, <3>2 DEF OpenOnce, LiveStreams, RegretsWait, Open, At
      <4>3. ButtonOf(r)' /\ FiringWaits(r)'
        BY <1>2, <2>4, <3>1, <3>2, <4>1 DEF ButtonOf, FiringWaits, Underway, Open, At
      <4> QED
        BY <4>2, <4>3 DEF Sound
    <3>3. CASE sends'[s].step # "preparing"
      <4>1. At(s, {"unused", "preparing"}) /\ ~(~At(s, {"unused"})) /\ r \in inFlight'
        BY <1>1, <1>2, <2>4, <3>3 DEF At
      <4> QED
        BY <1>2, <2>1, <2>4, <3>1, <3>3, <4>1, ProceedSound
    <3> QED
      BY <3>2, <3>3
  <2> QED
    BY <2>3, <2>4
<1> QED
  BY <1>2, <1>3, <1>4, <1>5, <1>6 DEF Typed

-----------------------------------------------------------------------------
(* A send is over *)

LEMMA CloseStep ==
  ASSUME Typed, EarlySendsIdle, Filing, RecordedOnce, NEW s \in Sends, Open(s),
         NEW filed \in Seq(Requests), Len(filed) <= 1, Close(s, filed), engine' = engine
  PROVE  /\ \A t \in Sends : t # s => sends'[t] = sends[t]
         /\ sends'[s].req = sends[s].req /\ sends'[s].step = "over" /\ ~sends'[s].regretted
         /\ SendsTyped' /\ EarlySendsIdle' /\ Filing' /\ RecordedOnce'
<1>1. sends \in [Sends -> SendRecord] /\ sends[s] \in SendRecord
  BY DEF Typed, SendsTyped
<1>2. sends[s].filed = <<>> /\ ~sends[s].cancelled /\ sends[s].cancelled \in BOOLEAN
  BY <1>1 DEF Filing, Open, At, SendRecord
<1> DEFINE x == Over(s, sends[s].filed \o filed, sends[s].cancelled)
<1>3. sends[s].filed \o filed = filed
  BY <1>2
<1>4. /\ x \in SendRecord /\ x.req = sends[s].req /\ x.step = "over"
      /\ x.filed = filed /\ ~x.cancelled /\ ~x.regretted
  BY <1>2, <1>3, OverType
<1>5. sends' = [sends EXCEPT ![s] = x]
  BY <1>1 DEF Close
<1> HIDE DEF x
<1>6. sends' \in [Sends -> SendRecord] /\ sends'[s] = x /\ \A t \in Sends : t # s => sends'[t] = sends[t]
  BY <1>1, <1>4, <1>5
<1>7. SendsTyped'
  BY <1>4, <1>6 DEF Typed, SendsTyped, Open, At
<1>8. EarlySendsIdle'
  BY <1>4, <1>6 DEF EarlySendsIdle, At
<1>9. Filing'
  BY <1>4, <1>6 DEF Filing, At
<1>10. RecordedOnce'
  BY <1>4, <1>6 DEF RecordedOnce
<1> QED
  BY <1>4, <1>6, <1>7, <1>8, <1>9, <1>10

\* A request whose only open send is over is sound once its button is settled
\* and nothing waits for it.
LEMMA CloseSound ==
  ASSUME NEW r \in Requests, Sound(r), NEW s \in Sends, Open(s), sends[s].req = r,
         \A t \in Sends : t # s => sends'[t] = sends[t],
         sends'[s].step = "over", ~sends'[s].regretted, r \notin inFlight', ~Firing(r)'
  PROVE  Sound(r)'
<1>1. \A t \in Sends : t # s /\ sends[t].req = r => ~Open(t) /\ ~sends[t].regretted
  BY DEF Sound, OpenOnce, RegretsWait, Open, At
<1>2. \A t \in Sends : sends'[t].req = r => ~Open(t)' /\ ~sends'[t].regretted
  BY <1>1 DEF Open, At
<1> QED
  BY <1>2, Quiet DEF Sound, OpenOnce, LiveStreams, RegretsWait, ButtonOf, FiringWaits, Open, At

\* Every send of a request that is sound and has an open one, but that one, is over.
LEMMA OnlyOpen ==
  ASSUME NEW r \in Requests, Sound(r), NEW s \in Sends, Open(s), sends[s].req = r
  PROVE  /\ \A t \in Sends : Open(t) /\ sends[t].req = r => t = s
         /\ r \notin inFlight /\ ~At(s, {"preparing"}) => At(s, {"authorizing"}) /\ sends[s].regretted
         /\ sends[s].regretted => r \notin inFlight /\ ~Firing(r)
         /\ At(s, {"preparing"}) => r \notin inFlight
  BY DEF Sound, OpenOnce, LiveStreams, RegretsWait, ButtonOf, Open, At

\* A send that closes as its request is settled, or after the request already
\* was, keeps the invariant.
LEMMA CloseInv ==
  ASSUME SendsInv, NEW s \in Sends, Open(s), NEW r \in Requests, sends[s].req = r,
         NEW filed \in Seq(Requests), Len(filed) <= 1, Close(s, filed),
         EditorTyped', WireTyped', engine' = engine, tangled' = tangled,
         ScheduleIsOfLoaded', StreamIsLive',
         \A q \in Requests : q # r => /\ (q \in inFlight') <=> (q \in inFlight)
                                      /\ streaming'[q] = streaming[q]
                                      /\ q \in spinning' => q \in spinning,
         \A q \in Requests : Firing(q)' => Firing(q),
         r \notin tangled => r \notin inFlight' /\ ~Firing(r)'
  PROVE  SendsInv'
<1> USE DEF SendsInv
<1>1. /\ \A t \in Sends : t # s => sends'[t] = sends[t]
      /\ sends'[s].req = sends[s].req /\ sends'[s].step = "over" /\ ~sends'[s].regretted
      /\ SendsTyped' /\ EarlySendsIdle' /\ Filing' /\ RecordedOnce'
  BY CloseStep
<1>2. ASSUME NEW q \in Requests \ tangled' PROVE Sound(q)'
  <2>1. CASE q = r
    BY <1>1, <2>1, CloseSound
  <2>2. CASE q # r
    BY <1>1, <2>2, OtherRequest
  <2> QED
    BY <2>1, <2>2
<1> QED
  BY <1>1, <1>2 DEF Typed

\* Stop: what is on the wire is over, what waits for its token is regretted.
LEMMA CancelInv ==
  ASSUME SendsInv, NEW r \in Requests, Cancel(r),
         UNCHANGED <<currentNode, sendType, engine, toWindow, tangled, reloads>>,
         schedule' \in Schedules, ScheduleIsOfLoaded',
         \A q \in Requests : Firing(q)' => q # r /\ Firing(q),
         r \notin tangled => \A s \in Sends : sends[s].req = r => ~At(s, {"live"})
  PROVE  SendsInv'
<1> USE DEF SendsInv
<1> DEFINE mine == {s \in Sends : sends[s].req = r /\ At(s, {"wire"})}
           held == {s \in Sends : sends[s].req = r /\ At(s, {"authorizing"})}
<1>1. sends \in [Sends -> SendRecord]
  BY DEF Typed, SendsTyped
<1>2. /\ DOMAIN sends' = Sends
      /\ sends' = [s \in Sends |-> sends'[s]]
      /\ \A s \in mine : sends'[s] = Over(s, sends[s].filed, TRUE)
      /\ \A s \in held : sends'[s] = [sends[s] EXCEPT !.regretted = TRUE]
      /\ \A s \in Sends : s \notin mine /\ s \notin held => sends'[s] = sends[s]
  BY DEF Cancel, At
<1>3. \A s \in mine : /\ sends'[s] \in SendRecord /\ sends'[s].req = r /\ sends'[s].step = "over"
                      /\ sends'[s].filed = <<>> /\ ~sends'[s].regretted
  <2> SUFFICES ASSUME NEW s \in mine
               PROVE  /\ sends'[s] \in SendRecord /\ sends'[s].req = r /\ sends'[s].step = "over"
                      /\ sends'[s].filed = <<>> /\ ~sends'[s].regretted
    OBVIOUS
  <2>1. sends[s].filed = <<>> /\ sends[s].filed \in Seq(Requests) /\ sends[s].req = r
    BY <1>1 DEF Filing, At, SendRecord
  <2>2. sends'[s] = Over(s, <<>>, TRUE) /\ s \in Sends /\ <<>> \in Seq(Requests) /\ TRUE \in BOOLEAN
    BY <1>2, <2>1
  <2>3. sends[s].req \in Requests \cup {None}
    BY <1>1 DEF SendRecord
  <2>4. Unused \in SendRecord /\ ~Unused.regretted
    BY DEF Unused, SendRecord, Steps
  <2>5. sends'[s] = [Unused EXCEPT !.req = sends[s].req, !.step = "over", !.filed = <<>>,
                                   !.cancelled = TRUE]
    BY <2>2 DEF Over
  <2> HIDE DEF mine
  <2> QED
    BY <2>1, <2>3, <2>4, <2>5 DEF SendRecord, Steps
<1>4. \A s \in held : /\ sends'[s] \in SendRecord /\ sends'[s].req = r
                      /\ sends'[s].step = "authorizing" /\ sends'[s].filed = <<>>
                      /\ ~sends'[s].cancelled /\ sends'[s].regretted
  <2> SUFFICES ASSUME NEW s \in held
               PROVE  /\ sends'[s] \in SendRecord /\ sends'[s].req = r
                      /\ sends'[s].step = "authorizing" /\ sends'[s].filed = <<>>
                      /\ ~sends'[s].cancelled /\ sends'[s].regretted
    OBVIOUS
  <2>1. sends[s] \in SendRecord /\ sends[s].req = r /\ sends[s].step = "authorizing"
        /\ sends[s].filed = <<>> /\ ~sends[s].cancelled
    BY <1>1 DEF Filing, At
  <2> QED
    BY <1>2, <2>1 DEF SendRecord
<1>5. /\ inFlight' = inFlight \ {r} /\ spinning' = spinning \ {r}
      /\ streaming' = [streaming EXCEPT ![r] = 0]
      /\ toMain' = [s \in Sends |-> IF s \in mine THEN "abort" ELSE toMain[s]]
  BY DEF Cancel
<1> HIDE DEF mine, held
<1>6. SendsTyped'
  <2>1. sends' \in [Sends -> SendRecord]
    BY <1>1, <1>2, <1>3, <1>4
  <2>2. ASSUME NEW s \in Sends
        PROVE  /\ ~At(s, {"unused"})' => sends'[s].req \in Requests
               /\ At(s, {"unused"})' => sends'[s].req = None
    BY <1>2, <1>3, <1>4 DEF Typed, SendsTyped, Open, At
  <2> QED
    BY <2>1, <2>2 DEF SendsTyped
<1>7. EditorTyped' /\ WireTyped'
  BY <1>5 DEF Typed, EditorTyped, WireTyped
<1>8. EarlySendsIdle'
  <2>1. \A s \in held : At(s, {"authorizing"})
    BY DEF held
  <2> QED
    BY <1>2, <1>3, <2>1 DEF EarlySendsIdle, At
<1>9. Filing' /\ RecordedOnce'
  BY <1>2, <1>3, <1>4 DEF Filing, RecordedOnce, At
<1>10. StreamIsLive'
  <2> SUFFICES ASSUME NEW q \in Requests, streaming'[q] # 0
               PROVE  sends'[streaming'[q]].req = q /\ sends'[streaming'[q]].step = "live"
    BY DEF StreamIsLive, At
  <2>1. q # r /\ streaming'[q] = streaming[q] /\ streaming[q] \in Sends
    BY <1>5 DEF Typed, EditorTyped
  <2>2. sends[streaming[q]].req = q /\ sends[streaming[q]].step = "live"
    BY <2>1 DEF StreamIsLive, At
  <2>3. streaming[q] \notin mine /\ streaming[q] \notin held
    BY <2>2 DEF mine, held, At
  <2> QED
    BY <1>2, <2>1, <2>2, <2>3
<1>11. ASSUME NEW q \in Requests \ tangled' PROVE Sound(q)'
  <2>1. CASE q # r
    <3>1. \A s \in Sends : sends[s].req = q \/ sends'[s].req = q => sends'[s] = sends[s]
      BY <1>2, <1>3, <1>4, <2>1 DEF mine, held
    <3>2. streaming'[q] = streaming[q]
      BY <1>5, <2>1 DEF Typed, EditorTyped
    <3> QED
      BY <1>5, <2>1, <3>1, <3>2, Frame
  <2>2. CASE q = r
    <3>1. Sound(r) /\ r \notin inFlight' /\ ~Firing(r)'
      BY <1>5, <2>2
    <3>2. \A s \in Sends : sends'[s].req = r => sends[s].req = r
      BY <1>2, <1>3, <1>4 DEF mine, held
    <3>3. \A s \in Sends : sends'[s].req = r /\ Open(s)' =>
            /\ Open(s) /\ (At(s, {"preparing"})' \/ (At(s, {"authorizing"})' /\ sends'[s].regretted))
      <4> SUFFICES ASSUME NEW s \in Sends, sends'[s].req = r, Open(s)'
                   PROVE  /\ Open(s)
                          /\ At(s, {"preparing"})' \/ (At(s, {"authorizing"})' /\ sends'[s].regretted)
        OBVIOUS
      <4>1. CASE s \in mine
        BY <1>3, <4>1 DEF Open, At
      <4>2. CASE s \in held
        BY <1>4, <4>2 DEF Open, At, held
      <4>3. CASE s \notin mine /\ s \notin held
        <5>1. sends'[s] = sends[s] /\ ~At(s, {"wire"}) /\ ~At(s, {"authorizing"}) /\ ~At(s, {"live"})
          BY <1>2, <2>2, <4>3 DEF mine, held
        <5> QED
          BY <5>1 DEF Open, At
      <4> QED
        BY <4>1, <4>2, <4>3
    <3>4. OpenOnce(r)'
      BY <3>1, <3>2, <3>3 DEF Sound, OpenOnce
    <3>5. LiveStreams(r)' /\ ButtonOf(r)'
      BY <3>1, <3>3 DEF LiveStreams, ButtonOf, Open, At
    <3>6. RegretsWait(r)'
      <4> SUFFICES ASSUME NEW s \in Sends, sends'[s].regretted, sends'[s].req = r
                   PROVE  At(s, {"authorizing"})'
        BY <3>1 DEF RegretsWait
      <4>1. CASE s \in held
        BY <1>4, <4>1 DEF At
      <4>2. CASE s \notin held
        <5>1. s \notin mine /\ sends'[s] = sends[s]
          BY <1>2, <1>3, <4>2
        <5> QED
          BY <3>1, <5>1 DEF Sound, RegretsWait, At
      <4> QED
        BY <4>1, <4>2
    <3> QED
      BY <2>2, <3>1, <3>4, <3>5, <3>6 DEF Sound, FiringWaits
  <2> QED
    BY <2>1, <2>2
<1> QED
  BY <1>6, <1>7, <1>8, <1>9, <1>10, <1>11 DEF Typed

\* A step that moves no send and no button.
LEMMA StillInv ==
  ASSUME SendsInv, UNCHANGED <<sends, inFlight, streaming, spinning>>,
         EditorTyped', WireTyped', EarlySendsIdle', ScheduleIsOfLoaded',
         tangled \subseteq tangled',
         \A q \in Requests \ tangled' : Firing(q)' => Firing(q)
  PROVE  SendsInv'
<1> USE DEF SendsInv
<1>1. ASSUME NEW r \in Requests \ tangled' PROVE Sound(r)'
  BY <1>1, Frame
<1>2. SendsTyped' /\ Filing' /\ RecordedOnce' /\ StreamIsLive'
  BY DEF Typed, SendsTyped, Filing, RecordedOnce, StreamIsLive, Open, At
<1> QED
  BY <1>1, <1>2 DEF Typed

-----------------------------------------------------------------------------
(* The steps of the user and of the timers *)

LEMMA UserInv ==
  ASSUME SendsInv,
         \/ \E r \in Requests : LoadRequest(r) \/ TreeStop(r) \/ ReloadWindow(r)
         \/ \E type \in SendTypes : SetType(type)
         \/ PressEnter \/ ClickCancel \/ ClickSend \/ ClickStop \/ ViewOldRun
         \/ ScheduleFires
  PROVE  SendsInv'
<1> USE DEF SendsInv
<1>0. /\ currentNode \in Requests /\ schedule \in Schedules
      /\ NoSchedule \in Schedules /\ NoSchedule.phase = "none"
      /\ sendType \in SendTypes \cup {"immediate"}
  BY DEF Typed, EditorTyped, NoSchedule, Schedules
<1>1. ASSUME NEW r \in Requests, LoadRequest(r) PROVE SendsInv'
  <2>1. /\ EditorTyped' /\ WireTyped' /\ EarlySendsIdle'
        /\ ScheduleIsOfLoaded' /\ UNCHANGED <<sends, inFlight, streaming, spinning, tangled>>
        /\ \A q \in Requests : ~Firing(q)'
    BY <1>0, <1>1 DEF LoadRequest, wireVars, Typed, EditorTyped, WireTyped, EarlySendsIdle, At,
                      ScheduleIsOfLoaded, Firing
  <2> QED
    BY <2>1, StillInv
<1>2. ASSUME NEW r \in Requests, TreeStop(r) PROVE SendsInv'
  <2>1. /\ schedule' = Restarted(r) /\ Cancel(r)
        /\ UNCHANGED <<currentNode, sendType, engine, toWindow, tangled, reloads>>
    BY <1>2 DEF TreeStop
  <2>2. /\ schedule' \in Schedules /\ ScheduleIsOfLoaded'
        /\ \A q \in Requests : Firing(q)' => q # r /\ Firing(q)
    BY <2>1, RestartedType DEF ScheduleIsOfLoaded, Firing
  <2>3. r \notin tangled => \A s \in Sends : sends[s].req = r => ~At(s, {"live"})
    BY <1>2 DEF TreeStop, Sound, LiveStreams
  <2> QED
    BY <2>1, <2>2, <2>3, CancelInv
<1>3. ASSUME NEW r \in Requests, ReloadWindow(r) PROVE SendsInv'
  <2>1. /\ currentNode' = r /\ sendType' = "immediate" /\ schedule' = NoSchedule
        /\ inFlight' = {} /\ spinning' = {} /\ streaming' = [q \in Requests |-> 0]
        /\ reloads' \in 0..MaxReloads /\ tangled' = tangled
    BY <1>3, SendAssumption DEF ReloadWindow, Typed, EditorTyped
  <2>2. EditorTyped'
    BY <1>0, <2>1 DEF Typed, EditorTyped
  <2>3. /\ sends' \in [Sends -> SendRecord]
        /\ \A s \in Sends : At(s, {"unused"}) => sends'[s] = sends[s]
        /\ \A s \in Sends : ~At(s, {"unused"}) =>
             /\ sends'[s].step = "over" /\ sends'[s].req = sends[s].req
             /\ sends'[s].filed = sends[s].filed /\ sends'[s].cancelled = sends[s].cancelled
             /\ ~sends'[s].regretted
    <3>1. sends' = [s \in Sends |-> IF At(s, {"unused"}) THEN sends[s]
                                    ELSE Over(s, sends[s].filed, sends[s].cancelled)]
      BY <1>3 DEF ReloadWindow
    <3>2. \A s \in Sends :
            /\ sends[s] \in SendRecord /\ sends[s].filed \in Seq(Requests)
            /\ sends[s].cancelled \in BOOLEAN
      BY DEF Typed, SendsTyped, SendRecord
    <3>3. \A s \in Sends : LET x == Over(s, sends[s].filed, sends[s].cancelled) IN
            /\ x \in SendRecord /\ x.step = "over" /\ x.req = sends[s].req
            /\ x.filed = sends[s].filed /\ x.cancelled = sends[s].cancelled
            /\ ~x.regretted
      BY <3>2, OverType
    <3> QED
      BY <3>1, <3>2, <3>3
  <2>4. SendsTyped' /\ Filing' /\ RecordedOnce'
    BY <2>3 DEF Typed, SendsTyped, Filing, RecordedOnce, Open, At
  <2>5. WireTyped' /\ EarlySendsIdle'
    <3>1. engine' = [s \in Sends |-> [engine[s] EXCEPT
                      !.stopped = @ \/ engine[s].phase \in {"running", "live"}]]
      BY <1>3 DEF ReloadWindow
    <3>2. \A s \in Sends : /\ engine'[s].phase = engine[s].phase
            /\ engine'[s] \in [phase : {"idle", "running", "live", "over"}, stopped : BOOLEAN]
      BY <3>1 DEF Typed, WireTyped
    <3>3. toWindow' = [s \in Sends |-> <<>>] /\ toMain' = [s \in Sends |-> "none"]
      BY <1>3 DEF ReloadWindow
    <3>4. WireTyped'
      BY <3>1, <3>2, <3>3 DEF WireTyped
    <3>5. EarlySendsIdle'
      BY <2>3, <3>2 DEF EarlySendsIdle, At
    <3> QED
      BY <3>4, <3>5
  <2>6. StreamIsLive' /\ ScheduleIsOfLoaded'
    BY <1>0, <2>1 DEF StreamIsLive, ScheduleIsOfLoaded
  <2>7. ASSUME NEW q \in Requests \ tangled' PROVE Sound(q)'
    <3>1. \A s \in Sends : ~Open(s)' /\ ~sends'[s].regretted
      BY <2>3 DEF Filing, Open, At
    <3> QED
      BY <1>0, <2>1, <3>1 DEF Sound, OpenOnce, LiveStreams, RegretsWait, ButtonOf, FiringWaits,
                              Firing, Open, At
  <2> QED
    BY <2>2, <2>4, <2>5, <2>6, <2>7 DEF Typed
<1>4. ASSUME NEW type \in SendTypes, SetType(type) PROVE SendsInv'
  <2>1. /\ EditorTyped' /\ WireTyped' /\ EarlySendsIdle'
        /\ ScheduleIsOfLoaded' /\ UNCHANGED <<sends, inFlight, streaming, spinning, tangled, schedule>>
    BY <1>4 DEF SetType, wireVars, Typed, EditorTyped, WireTyped, EarlySendsIdle, At,
                ScheduleIsOfLoaded
  <2> QED
    BY <2>1, StillInv DEF Firing
<1>5. ASSUME PressEnter PROVE SendsInv'
  <2>1. Begin(currentNode) /\ schedule' = schedule
    BY <1>5 DEF PressEnter
  <2>2. currentNode' = currentNode
    BY <2>1 DEF Begin, Proceed
  <2>3. ScheduleIsOfLoaded'
    BY <2>1, <2>2 DEF ScheduleIsOfLoaded
  <2> QED
    BY <1>0, <2>1, <2>3, BeginInv DEF Firing
<1>6. ASSUME ClickCancel PROVE SendsInv'
  <2>1. /\ EditorTyped' /\ WireTyped' /\ EarlySendsIdle'
        /\ ScheduleIsOfLoaded' /\ UNCHANGED <<sends, inFlight, streaming, spinning, tangled>>
        /\ \A q \in Requests : ~Firing(q)'
    BY <1>0, <1>6 DEF ClickCancel, wireVars, Typed, EditorTyped, WireTyped, EarlySendsIdle, At,
                      ScheduleIsOfLoaded, Firing
  <2> QED
    BY <2>1, StillInv
<1>7. ASSUME ClickSend PROVE SendsInv'
  <2>1. CASE Begin(currentNode) /\ UNCHANGED schedule
    <3>1. currentNode' = currentNode
      BY <2>1 DEF Begin, Proceed
    <3>2. ScheduleIsOfLoaded'
      BY <2>1, <3>1 DEF ScheduleIsOfLoaded
    <3> QED
      BY <1>0, <2>1, <3>2, BeginInv DEF Firing
  <2>2. CASE /\ sendType # "immediate" /\ schedule' = Countdown(sendType)
             /\ UNCHANGED <<currentNode, sendType, inFlight, streaming, spinning, sends, wireVars, tangled, reloads>>
    <3>1. schedule' \in Schedules /\ schedule'.req = currentNode /\ schedule'.phase = "counting"
      BY <1>0, <2>2 DEF Countdown, Schedules
    <3>2. /\ EditorTyped' /\ WireTyped' /\ EarlySendsIdle'
          /\ ScheduleIsOfLoaded' /\ UNCHANGED <<sends, inFlight, streaming, spinning, tangled>>
          /\ \A q \in Requests : ~Firing(q)'
      BY <2>2, <3>1 DEF wireVars, Typed, EditorTyped, WireTyped, EarlySendsIdle, At,
                        ScheduleIsOfLoaded, Firing
    <3> QED
      BY <3>2, StillInv
  <2> QED
    BY <1>7, <2>1, <2>2 DEF ClickSend
<1>8. ASSUME ClickStop PROVE SendsInv'
  <2>1. /\ schedule' = NoSchedule /\ schedule' \in Schedules /\ ScheduleIsOfLoaded'
        /\ \A q \in Requests : ~Firing(q)'
        /\ UNCHANGED <<currentNode, sendType, engine, toWindow, tangled, reloads>>
    BY <1>0, <1>8 DEF ClickStop, ScheduleIsOfLoaded, Firing
  <2>2. CASE streaming[currentNode] # 0
    <3>1. UNCHANGED <<inFlight, streaming, spinning, sends>>
          /\ toMain' = [toMain EXCEPT ![streaming[currentNode]] = "streamAbort"]
      BY <1>8, <2>2 DEF ClickStop
    <3>2. EditorTyped' /\ WireTyped' /\ EarlySendsIdle'
      BY <2>1, <3>1 DEF Typed, EditorTyped, WireTyped, EarlySendsIdle, At
    <3> QED
      BY <2>1, <3>1, <3>2, StillInv
  <2>3. CASE streaming[currentNode] = 0
    <3>1. Cancel(currentNode)
      BY <1>8, <2>3 DEF ClickStop
    <3>2. currentNode \notin tangled => \A s \in Sends : sends[s].req = currentNode => ~At(s, {"live"})
      <4> SUFFICES ASSUME currentNode \notin tangled, NEW s \in Sends, sends[s].req = currentNode,
                          At(s, {"live"})
                   PROVE  FALSE
        OBVIOUS
      <4>1. streaming[currentNode] = s
        BY <1>0 DEF Sound, LiveStreams
      <4> QED
        BY <2>3, <4>1, SendAssumption DEF Sends
    <3> QED
      BY <1>0, <2>1, <3>1, <3>2, CancelInv
  <2> QED
    BY <2>2, <2>3
<1>9. ASSUME ViewOldRun PROVE SendsInv'
  <2>1. /\ inFlight' = inFlight \ {currentNode} /\ streaming' = [streaming EXCEPT ![currentNode] = 0]
        /\ schedule' = Restarted(currentNode)
        /\ UNCHANGED <<currentNode, sendType, spinning, sends, engine, toWindow, toMain, reloads>>
        /\ tangled' = IF Underway(currentNode) THEN tangled \cup {currentNode} ELSE tangled
    BY <1>9 DEF ViewOldRun, Settle, wireVars
  <2>2. /\ schedule' \in Schedules /\ ScheduleIsOfLoaded'
        /\ \A q \in Requests : Firing(q)' => q # currentNode /\ Firing(q)
    BY <1>0, <2>1, RestartedType DEF ScheduleIsOfLoaded, Firing
  <2>3. EditorTyped' /\ WireTyped' /\ EarlySendsIdle' /\ SendsTyped' /\ Filing' /\ RecordedOnce'
    BY <1>0, <2>1, <2>2 DEF Typed, EditorTyped, WireTyped, EarlySendsIdle, SendsTyped, Filing,
                            RecordedOnce, Open, At
  <2>4. StreamIsLive'
    BY <2>1 DEF Typed, EditorTyped, StreamIsLive, At
  <2>5. ASSUME NEW q \in Requests \ tangled' PROVE Sound(q)'
    <3>1. CASE q # currentNode
      BY <2>1, <2>2, <3>1, Frame DEF Typed, EditorTyped
    <3>2. CASE q = currentNode
      <4>1. Sound(q) /\ \A s \in Sends : sends[s].req = q => ~Open(s)
        BY <2>1, <3>2 DEF Underway, Open
      <4>2. \A s \in Sends : sends[s].req = q => ~sends[s].regretted
        BY <4>1 DEF Sound, RegretsWait, Open, At
      <4> QED
        BY <2>1, <2>2, <3>2, <4>1, <4>2 DEF Sound, OpenOnce, LiveStreams, RegretsWait, ButtonOf,
                                            FiringWaits, Open, At
    <3> QED
      BY <3>1, <3>2
  <2> QED
    BY <2>2, <2>3, <2>4, <2>5 DEF Typed
<1>10. ASSUME ScheduleFires PROVE SendsInv'
  <2>0. schedule.phase = "counting" /\ schedule # NoSchedule
    BY <1>0, <1>10 DEF ScheduleFires
  <2>1. CASE /\ schedule' = NoSchedule
             /\ UNCHANGED <<currentNode, sendType, inFlight, streaming, spinning, sends, wireVars, tangled, reloads>>
    <3>1. /\ EditorTyped' /\ WireTyped' /\ EarlySendsIdle'
          /\ ScheduleIsOfLoaded' /\ UNCHANGED <<sends, inFlight, streaming, spinning, tangled>>
          /\ \A q \in Requests : ~Firing(q)'
      BY <1>0, <2>1 DEF wireVars, Typed, EditorTyped, WireTyped, EarlySendsIdle, At,
                        ScheduleIsOfLoaded, Firing
    <3> QED
      BY <3>1, StillInv
  <2>2. CASE /\ schedule' = IF schedule.type = "interval"
                            THEN [schedule EXCEPT !.phase = "firing"] ELSE NoSchedule
             /\ Begin(currentNode) \/ Refused
    <3>1. /\ schedule' \in Schedules
          /\ schedule' # NoSchedule => schedule'.req = currentNode
          /\ schedule'.phase = "firing" => schedule'.type = "interval"
          /\ \A q \in Requests : Firing(q)' => q = currentNode
      <4>1. CASE schedule.type = "interval"
        <5>1. schedule' = [schedule EXCEPT !.phase = "firing"] /\ schedule.req = currentNode
          BY <2>0, <2>2, <4>1 DEF ScheduleIsOfLoaded
        <5> QED
          BY <1>0, <4>1, <5>1 DEF Schedules, Firing
      <4>2. CASE schedule.type # "interval"
        BY <1>0, <2>2, <4>2 DEF Firing
      <4> QED
        BY <4>1, <4>2
    <3>2. currentNode' = currentNode
      BY <2>2 DEF Begin, Proceed, Refused
    <3>3. ScheduleIsOfLoaded'
      BY <3>1, <3>2 DEF ScheduleIsOfLoaded
    <3>4. CASE Begin(currentNode)
      BY <3>1, <3>3, <3>4, BeginInv
    <3>5. CASE Refused
      <4>1. /\ EditorTyped' /\ WireTyped' /\ EarlySendsIdle'
            /\ UNCHANGED <<sends, inFlight, streaming, spinning>>
            /\ tangled' = tangled \cup {currentNode}
        BY <1>0, <3>1, <3>5 DEF Refused, wireVars, Typed, EditorTyped, WireTyped, EarlySendsIdle, At
      <4> QED
        BY <3>1, <3>3, <4>1, StillInv
    <3> QED
      BY <2>2, <3>4, <3>5
  <2> QED
    BY <1>10, <2>1, <2>2 DEF ScheduleFires
<1> QED
  BY <1>1, <1>2, <1>3, <1>4, <1>5, <1>6, <1>7, <1>8, <1>9, <1>10

-----------------------------------------------------------------------------
(* The steps of a send *)

LEMMA PreparedInv ==
  ASSUME SendsInv, NEW s \in Sends, Prepared(s)
  PROVE  SendsInv'
<1> USE DEF SendsInv
<1> DEFINE r == sends[s].req
<1>0. At(s, {"preparing"}) /\ Open(s) /\ r \in Requests /\ currentNode \in Requests
  BY DEF Prepared, Typed, EditorTyped, SendsTyped, Open, At
<1>1. Proceed(s, r, {r, currentNode}) /\ UNCHANGED <<schedule, tangled>>
  BY DEF Prepared
<1>2. At(s, {"unused", "preparing"}) /\ {r, currentNode} \in SUBSET Requests
  BY <1>0 DEF At
<1> HIDE DEF r
<1>3. /\ \A t \in Sends : t # s => sends'[t] = sends[t]
      /\ sends'[s].req = r /\ sends'[s].step \in {"authorizing", "wire"}
      /\ ~sends'[s].regretted /\ ~sends'[s].cancelled /\ sends'[s].filed = <<>>
      /\ SendsTyped' /\ WireTyped' /\ EarlySendsIdle'
      /\ inFlight' = inFlight \cup {r} /\ spinning' = spinning \cup {r}
      /\ UNCHANGED <<currentNode, sendType, streaming, toWindow, toMain, reloads>>
  BY <1>0, <1>1, <1>2, ProceedStep
<1>4. EditorTyped' /\ ScheduleIsOfLoaded'
  BY <1>0, <1>1, <1>3 DEF Typed, EditorTyped, ScheduleIsOfLoaded
<1>5. Filing' /\ RecordedOnce'
  BY <1>3, FilingKept
<1>6. StreamIsLive'
  BY <1>0, <1>3 DEF Typed, EditorTyped, StreamIsLive, At
<1>7. ASSUME NEW q \in Requests \ tangled' PROVE Sound(q)'
  <2>1. CASE q # r
    BY <1>1, <1>3, <2>1, OtherRequest DEF Firing, r
  <2>2. CASE q = r
    <3>1. Sound(r) /\ \A t \in Sends : Open(t) /\ sends[t].req = r => t = s
      BY <1>0, <1>1, <2>2, OnlyOpen DEF r
    <3> QED
      BY <1>0, <1>2, <1>3, <2>2, <3>1, ProceedSound DEF r
  <2> QED
    BY <2>1, <2>2
<1> QED
  BY <1>3, <1>4, <1>5, <1>6, <1>7 DEF Typed

LEMMA ScriptAbortsInv ==
  ASSUME SendsInv, NEW s \in Sends, ScriptAborts(s)
  PROVE  SendsInv'
<1> USE DEF SendsInv
<1>1. /\ At(s, {"preparing"}) /\ Open(s) /\ Close(s, <<>>) /\ sends[s].req \in Requests
      /\ <<>> \in Seq(Requests) /\ Len(<<>>) <= 1
      /\ tangled' = tangled \cup {sends[s].req}
      /\ UNCHANGED <<currentNode, sendType, schedule, inFlight, streaming, spinning,
                     engine, toWindow, toMain, reloads>>
  BY DEF ScriptAborts, Typed, SendsTyped, Open, At, editorVars, wireVars
<1>2. /\ \A t \in Sends : t # s => sends'[t] = sends[t]
      /\ sends'[s].req = sends[s].req /\ sends'[s].step = "over" /\ ~sends'[s].regretted
      /\ SendsTyped' /\ EarlySendsIdle' /\ Filing' /\ RecordedOnce'
  BY <1>1, CloseStep
<1>3. EditorTyped' /\ WireTyped' /\ ScheduleIsOfLoaded'
  BY <1>1 DEF Typed, EditorTyped, WireTyped, ScheduleIsOfLoaded
<1>4. StreamIsLive'
  BY <1>1, <1>2 DEF Typed, EditorTyped, StreamIsLive, At
<1>5. ASSUME NEW q \in Requests \ tangled' PROVE Sound(q)'
  BY <1>1, <1>2, OtherRequest DEF Firing
<1> QED
  BY <1>2, <1>3, <1>4, <1>5 DEF Typed

\* A button is settled.
LEMMA SettleStep ==
  ASSUME SendsInv, NEW r \in Requests, Settle(r), UNCHANGED <<currentNode, sendType, tangled, reloads>>,
         spinning' \subseteq spinning
  PROVE  /\ EditorTyped' /\ ScheduleIsOfLoaded'
         /\ r \notin inFlight' /\ streaming'[r] = 0 /\ ~Firing(r)'
         /\ \A q \in Requests : q # r => /\ (q \in inFlight') <=> (q \in inFlight)
                                         /\ streaming'[q] = streaming[q]
         /\ \A q \in Requests : Firing(q)' => Firing(q)
<1> USE DEF SendsInv
<1>1. /\ inFlight' = inFlight \ {r} /\ streaming' = [streaming EXCEPT ![r] = 0]
      /\ schedule' = Restarted(r)
  BY DEF Settle
<1>2. /\ schedule' \in Schedules /\ ScheduleIsOfLoaded'
      /\ ~Firing(r)' /\ \A q \in Requests : Firing(q)' => Firing(q)
  BY <1>1, RestartedType DEF ScheduleIsOfLoaded, Firing
<1> QED
  BY <1>1, <1>2 DEF Typed, EditorTyped

LEMMA TokenInv ==
  ASSUME SendsInv, NEW s \in Sends,
         TokenArrives(s) \/ \E threw \in BOOLEAN : TokenFails(s, threw)
  PROVE  SendsInv'
<1> USE DEF SendsInv
<1>r. PICK r \in Requests : sends[s].req = r /\ At(s, {"authorizing"})
  BY DEF TokenArrives, TokenFails, Typed, SendsTyped, Open, At
<1>0. At(s, {"authorizing"}) /\ Open(s) /\ sends[s].req = r /\ r \in Requests /\ currentNode \in Requests
  BY <1>r DEF Typed, EditorTyped, Open, At
<1>a. /\ <<>> \in Seq(Requests) /\ Len(<<>>) <= 1
      /\ <<currentNode>> \in Seq(Requests) /\ Len(<<currentNode>>) <= 1
  BY <1>0
<1>b. \A q \in Requests : streaming[q] # s
  BY <1>0, SendAssumption DEF StreamIsLive, At, Sends
\* A send that nobody waits for any more ends unheard of.
<1>1. ASSUME r \notin inFlight, Close(s, <<>>),
             UNCHANGED <<currentNode, sendType, schedule, inFlight, streaming, spinning,
                         engine, toWindow, toMain, tangled, reloads>>
      PROVE  SendsInv'
  <2>1. EditorTyped' /\ WireTyped' /\ ScheduleIsOfLoaded'
    BY <1>1 DEF Typed, EditorTyped, WireTyped, ScheduleIsOfLoaded
  <2>2. \A t \in Sends : t # s => sends'[t] = sends[t]
    BY <1>0, <1>1, <1>a, CloseStep
  <2>3. StreamIsLive'
    BY <1>1, <1>b, <2>2 DEF Typed, EditorTyped, StreamIsLive, At
  <2>4. r \notin tangled => r \notin inFlight' /\ ~Firing(r)'
    <3> SUFFICES ASSUME r \notin tangled PROVE ~Firing(r)'
      BY <1>1
    <3>1. Sound(r) /\ sends[s].req = r
      BY <1>0
    <3>2. sends[s].regretted /\ ~Firing(r)
      BY <1>0, <1>1, <3>1, OnlyOpen DEF At
    <3> QED
      BY <1>1, <3>2 DEF Firing
  <2>5. \A q \in Requests : Firing(q)' => Firing(q)
    BY <1>1 DEF Firing
  <2> HIDE DEF SendsInv
  <2> QED
    BY <1>0, <1>1, <1>a, <2>1, <2>3, <2>4, <2>5, CloseInv
<1>2. CASE TokenArrives(s)
  <2>1. CASE r \in inFlight
    <3>1. /\ sends' = [sends EXCEPT ![s].step = "wire"]
          /\ engine' = [engine EXCEPT ![s].phase = "running"]
          /\ inFlight' = inFlight \cup {r} /\ spinning' = spinning \cup {r}
          /\ UNCHANGED <<currentNode, sendType, schedule, streaming, toWindow, toMain, tangled, reloads>>
      BY <1>0, <1>2, <2>1 DEF TokenArrives, Loading
    <3>2. sends \in [Sends -> SendRecord]
      BY DEF Typed, SendsTyped
    <3>3. /\ sends' \in [Sends -> SendRecord]
          /\ \A t \in Sends : t # s => sends'[t] = sends[t]
          /\ sends'[s].req = r /\ sends'[s].step = "wire"
          /\ sends'[s].regretted = sends[s].regretted
          /\ sends'[s].cancelled = sends[s].cancelled /\ sends'[s].filed = sends[s].filed
      BY <1>0, <3>1, <3>2 DEF SendRecord, Steps
    <3>4. SendsTyped'
      BY <1>0, <3>3 DEF Typed, SendsTyped, Open, At
    <3>5. EditorTyped' /\ WireTyped' /\ ScheduleIsOfLoaded'
      BY <1>0, <3>1 DEF Typed, EditorTyped, WireTyped, ScheduleIsOfLoaded
    <3>6. EarlySendsIdle'
      BY <3>1, <3>3 DEF Typed, WireTyped, EarlySendsIdle, At
    <3>7. Filing' /\ RecordedOnce'
      BY <1>0, <3>3 DEF Filing, RecordedOnce, At
    <3>8. StreamIsLive'
      BY <1>b, <3>1, <3>3 DEF Typed, EditorTyped, StreamIsLive, At
    <3>9. ASSUME NEW q \in Requests \ tangled' PROVE Sound(q)'
      <4>1. CASE q # r
        BY <1>0, <3>1, <3>3, <4>1, OtherRequest DEF Firing
      <4>2. CASE q = r
        <5>1. Sound(r) /\ \A t \in Sends : Open(t) /\ sends[t].req = r => t = s
          BY <1>0, <3>1, <4>2, OnlyOpen
        <5>2. ~sends[s].regretted
          BY <1>0, <2>1, <5>1, OnlyOpen
        <5>3. \A t \in Sends : t # s /\ sends[t].req = r => ~Open(t) /\ ~sends[t].regretted
          BY <5>1 DEF Sound, RegretsWait, Open, At
        <5>4. OpenOnce(r)' /\ LiveStreams(r)' /\ RegretsWait(r)'
          BY <3>3, <5>2, <5>3 DEF OpenOnce, LiveStreams, RegretsWait, Open, At
        <5>5. ButtonOf(r)' /\ FiringWaits(r)'
          BY <3>1, <3>3 DEF ButtonOf, FiringWaits, Underway, At
        <5> QED
          BY <4>2, <5>4, <5>5 DEF Sound
      <4> QED
        BY <4>1, <4>2
    <3> QED
      BY <3>4, <3>5, <3>6, <3>7, <3>8, <3>9 DEF Typed
  <2>2. CASE r \notin inFlight
    BY <1>0, <1>1, <1>2, <2>2 DEF TokenArrives
  <2> QED
    BY <2>1, <2>2
<1>3. ASSUME NEW threw \in BOOLEAN, TokenFails(s, threw) PROVE SendsInv'
  <2>1. CASE threw \/ r \in inFlight
    <3>1. /\ Settle(r) /\ spinning' = spinning \ {r} /\ Close(s, <<currentNode>>)
          /\ UNCHANGED <<currentNode, sendType, engine, toWindow, toMain, tangled, reloads>>
      BY <1>0, <1>3, <2>1 DEF TokenFails, wireVars
    <3>2. /\ EditorTyped' /\ ScheduleIsOfLoaded'
          /\ r \notin inFlight' /\ streaming'[r] = 0 /\ ~Firing(r)'
          /\ \A q \in Requests : q # r => /\ (q \in inFlight') <=> (q \in inFlight)
                                          /\ streaming'[q] = streaming[q]
          /\ \A q \in Requests : Firing(q)' => Firing(q)
      BY <1>0, <3>1, SettleStep
    <3>3. WireTyped'
      BY <3>1 DEF Typed, WireTyped
    <3>4. \A t \in Sends : t # s => sends'[t] = sends[t]
      BY <1>0, <1>a, <3>1, CloseStep
    <3>5. StreamIsLive'
      BY <1>b, <3>2, <3>4 DEF Typed, EditorTyped, StreamIsLive, At
    <3>6. \A q \in Requests : q # r => (q \in spinning' => q \in spinning)
      BY <3>1
    <3> HIDE DEF SendsInv
    <3> QED
      BY <1>0, <1>a, <3>1, <3>2, <3>3, <3>5, <3>6, CloseInv
  <2>2. CASE ~(threw \/ r \in inFlight)
    BY <1>0, <1>1, <1>3, <2>2 DEF TokenFails, wireVars
  <2> QED
    BY <2>1, <2>2
<1> QED
  BY <1>2, <1>3

-----------------------------------------------------------------------------
(* The main process, and its answers in the window *)

LEMMA EngineInv ==
  ASSUME SendsInv, NEW s \in Sends,
         EngineAnswers(s, "answer") \/ EngineGoesLive(s) \/ StreamEnds(s) \/ ServeAbort(s)
  PROVE  SendsInv'
<1> USE DEF SendsInv
<1>1. /\ UNCHANGED <<currentNode, sendType, schedule, inFlight, streaming, spinning, sends,
                     tangled, reloads>>
  BY DEF EngineAnswers, EngineGoesLive, StreamEnds, ServeAbort, editorVars
<1>2. WireTyped' /\ \A t \in Sends : engine[t].phase = "idle" => engine'[t].phase = "idle"
  <2>1. \A m \in {"answer", "marker", "end"} :
          toWindow' = [toWindow EXCEPT ![s] = Append(@, m)] =>
            toWindow' \in [Sends -> Seq({"answer", "marker", "end"})]
    BY DEF Typed, WireTyped
  <2>2. CASE EngineAnswers(s, "answer")
    BY <2>1, <2>2 DEF EngineAnswers, Typed, WireTyped
  <2>3. CASE EngineGoesLive(s)
    BY <2>1, <2>3 DEF EngineGoesLive, Typed, WireTyped
  <2>4. CASE StreamEnds(s)
    BY <2>1, <2>4 DEF StreamEnds, Typed, WireTyped
  <2>5. CASE ServeAbort(s)
    <3>1. /\ toMain' = [toMain EXCEPT ![s] = "none"] /\ toWindow' = toWindow
          /\ engine' = [engine EXCEPT ![s].stopped = @ \/
               engine[s].phase = (IF toMain[s] = "abort" THEN "running" ELSE "live")]
      BY <2>5 DEF ServeAbort
    <3> QED
      BY <3>1 DEF Typed, WireTyped
  <2> QED
    BY <2>2, <2>3, <2>4, <2>5
<1>3. EditorTyped' /\ ScheduleIsOfLoaded'
  BY <1>1 DEF Typed, EditorTyped, ScheduleIsOfLoaded
<1>4. EarlySendsIdle'
  BY <1>1, <1>2 DEF EarlySendsIdle, At
<1> QED
  BY <1>1, <1>2, <1>3, <1>4, StillInv DEF Firing

\* A message taken off a queue.
LEMMA TakeType ==
  ASSUME Typed, NEW s \in Sends, toWindow[s] # <<>>, Take(s), UNCHANGED <<engine, toMain>>
  PROVE  WireTyped'
<1>1. Tail(toWindow[s]) \in Seq({"answer", "marker", "end"})
  BY DEF Typed, WireTyped
<1> QED
  BY <1>1 DEF Typed, WireTyped, Take

LEMMA AnswerInv ==
  ASSUME SendsInv, NEW s \in Sends, AnswerArrives(s)
  PROVE  SendsInv'
<1> USE DEF SendsInv
<1>1. WireTyped'
  BY TakeType DEF AnswerArrives, Arrives
<1>2. CASE At(s, {"wire"})
  <2>1. PICK r \in Requests : sends[s].req = r
    BY <1>2 DEF Typed, SendsTyped, Open, At
  <2>2. /\ Settle(r) /\ spinning' = spinning \ {r} /\ Close(s, <<r>>)
        /\ UNCHANGED <<currentNode, sendType, engine, toMain, tangled, reloads>>
    BY <1>2, <2>1 DEF AnswerArrives
  <2>3. Open(s) /\ <<r>> \in Seq(Requests) /\ Len(<<r>>) <= 1
    BY <1>2 DEF Open, At
  <2>4. /\ EditorTyped' /\ ScheduleIsOfLoaded'
        /\ r \notin inFlight' /\ streaming'[r] = 0 /\ ~Firing(r)'
        /\ \A q \in Requests : q # r => /\ (q \in inFlight') <=> (q \in inFlight)
                                        /\ streaming'[q] = streaming[q]
        /\ \A q \in Requests : Firing(q)' => Firing(q)
    BY <2>2, SettleStep
  <2>5. \A t \in Sends : t # s => sends'[t] = sends[t]
    BY <2>2, <2>3, CloseStep
  <2>6. StreamIsLive'
    BY <1>2, <2>4, <2>5 DEF Typed, EditorTyped, StreamIsLive, At
  <2>7. \A q \in Requests : q # r => (q \in spinning' => q \in spinning)
    BY <2>2
  <2> HIDE DEF SendsInv
  <2> QED
    BY <1>1, <2>1, <2>2, <2>3, <2>4, <2>6, <2>7, CloseInv
<1>3. CASE ~At(s, {"wire"})
  <2>1. UNCHANGED <<currentNode, sendType, schedule, inFlight, streaming, spinning, sends,
                    engine, tangled, reloads>>
    BY <1>3 DEF AnswerArrives
  <2>2. EditorTyped' /\ ScheduleIsOfLoaded' /\ EarlySendsIdle'
    BY <2>1 DEF Typed, EditorTyped, ScheduleIsOfLoaded, EarlySendsIdle, At
  <2> QED
    BY <1>1, <2>1, <2>2, StillInv DEF Firing
<1> QED
  BY <1>2, <1>3

LEMMA MarkerInv ==
  ASSUME SendsInv, NEW s \in Sends, MarkerArrives(s)
  PROVE  SendsInv'
<1> USE DEF SendsInv
<1>1. WireTyped'
  BY TakeType DEF MarkerArrives, Arrives
<1>0. UNCHANGED <<currentNode, sendType, schedule, inFlight, engine, toMain, tangled, reloads>>
  BY DEF MarkerArrives
<1>2. CASE At(s, {"wire"})
  <2>1. PICK r \in Requests : sends[s].req = r
    BY <1>2 DEF Typed, SendsTyped, Open, At
  <2>2. /\ streaming' = [streaming EXCEPT ![r] = s] /\ spinning' = spinning \ {r}
        /\ sends' = [sends EXCEPT ![s].step = "live"]
    BY <1>2, <2>1 DEF MarkerArrives
  <2>3. sends \in [Sends -> SendRecord]
    BY DEF Typed, SendsTyped
  <2>4. /\ sends' \in [Sends -> SendRecord]
        /\ \A t \in Sends : t # s => sends'[t] = sends[t]
        /\ sends'[s].req = r /\ sends'[s].step = "live"
        /\ sends'[s].regretted = sends[s].regretted
        /\ sends'[s].cancelled = sends[s].cancelled /\ sends'[s].filed = sends[s].filed
    BY <2>1, <2>2, <2>3 DEF SendRecord, Steps
  <2>5. SendsTyped' /\ EarlySendsIdle'
    BY <1>0, <2>4 DEF Typed, SendsTyped, EarlySendsIdle, Open, At
  <2>6. EditorTyped' /\ ScheduleIsOfLoaded'
    BY <1>0, <2>2 DEF Typed, EditorTyped, ScheduleIsOfLoaded
  <2>7. Filing' /\ RecordedOnce'
    BY <1>2, <2>4 DEF Filing, RecordedOnce, At
  <2>8. StreamIsLive'
    <3>1. \A q \in Requests : streaming'[q] = IF q = r THEN s ELSE streaming[q]
      BY <2>2 DEF Typed, EditorTyped
    <3>2. \A q \in Requests : streaming[q] \in Sends \cup {0}
      BY DEF Typed, EditorTyped
    <3> QED
      BY <1>2, <2>4, <3>1, <3>2 DEF StreamIsLive, At
  <2>9. ASSUME NEW q \in Requests \ tangled' PROVE Sound(q)'
    <3>1. streaming'[r] = s /\ \A p \in Requests : p # r => streaming'[p] = streaming[p]
      BY <2>2 DEF Typed, EditorTyped
    <3>2. CASE q # r
      BY <1>0, <2>1, <2>2, <2>4, <3>1, <3>2, OtherRequest DEF Firing
    <3>3. CASE q = r
      <4>1. Sound(r) /\ \A t \in Sends : Open(t) /\ sends[t].req = r => t = s
        BY <1>0, <1>2, <2>1, <3>3, OnlyOpen DEF Open, At
      <4>2. ~sends[s].regretted
        BY <1>2, <2>1, <4>1 DEF Sound, RegretsWait, At
      <4>3. \A t \in Sends : t # s /\ sends[t].req = r => ~Open(t) /\ ~sends[t].regretted
        BY <4>1 DEF Sound, RegretsWait, Open, At
      <4>4. OpenOnce(r)' /\ LiveStreams(r)' /\ RegretsWait(r)'
        BY <2>2, <2>4, <3>1, <4>2, <4>3 DEF OpenOnce, LiveStreams, RegretsWait, Open, At
      <4>5. r \in inFlight
        BY <1>2, <2>1, <4>1 DEF Sound, ButtonOf, At
      <4>6. ButtonOf(r)' /\ FiringWaits(r)'
        BY <1>0, <2>4, <4>5 DEF ButtonOf, FiringWaits, Underway, At
      <4> QED
        BY <3>3, <4>4, <4>6 DEF Sound
    <3> QED
      BY <3>2, <3>3
  <2> QED
    BY <1>1, <2>5, <2>6, <2>7, <2>8, <2>9 DEF Typed
<1>3. CASE ~At(s, {"wire"})
  <2>1. UNCHANGED <<streaming, spinning, sends>>
    BY <1>3 DEF MarkerArrives
  <2>2. EditorTyped' /\ ScheduleIsOfLoaded' /\ EarlySendsIdle'
    BY <1>0, <2>1 DEF Typed, EditorTyped, ScheduleIsOfLoaded, EarlySendsIdle, At
  <2> QED
    BY <1>0, <1>1, <2>1, <2>2, StillInv DEF Firing
<1> QED
  BY <1>2, <1>3

LEMMA EndInv ==
  ASSUME SendsInv, NEW s \in Sends, EndArrives(s)
  PROVE  SendsInv'
<1> USE DEF SendsInv
<1> DEFINE done == {q \in Requests : streaming[q] = s}
<1>0. /\ inFlight' = inFlight \ done
      /\ streaming' = [q \in Requests |-> IF q \in done THEN 0 ELSE streaming[q]]
      /\ schedule' = IF sends[s].req \in done THEN Restarted(sends[s].req) ELSE schedule
      /\ UNCHANGED <<currentNode, sendType, spinning, engine, toMain, tangled, reloads>>
  BY DEF EndArrives
<1>1. WireTyped'
  BY TakeType DEF EndArrives, Arrives
<1>2. \A q \in done : sends[s].req = q /\ At(s, {"live"})
  BY SendAssumption DEF StreamIsLive, Sends
<1>3. CASE At(s, {"live"})
  <2>1. PICK r \in Requests : sends[s].req = r
    BY <1>3 DEF Typed, SendsTyped, Open, At
  <2>2. Close(s, <<r>>) /\ done \subseteq {r}
    BY <1>2, <1>3, <2>1 DEF EndArrives
  <2>3. Open(s) /\ <<r>> \in Seq(Requests) /\ Len(<<r>>) <= 1
    BY <1>3 DEF Open, At
  <2>4. /\ schedule' \in Schedules /\ ScheduleIsOfLoaded'
        /\ \A q \in Requests : Firing(q)' => Firing(q)
        /\ r \in done => ~Firing(r)'
    <3>1. CASE r \in done
      <4>1. schedule' = Restarted(r)
        BY <1>0, <2>1, <3>1
      <4> QED
        BY <1>0, <4>1, RestartedType DEF ScheduleIsOfLoaded, Firing
    <3>2. CASE r \notin done
      BY <1>0, <2>1, <3>2 DEF Typed, EditorTyped, ScheduleIsOfLoaded, Firing
    <3> QED
      BY <3>1, <3>2
  <2>5. EditorTyped'
    BY <1>0, <2>4 DEF Typed, EditorTyped
  <2>6. \A t \in Sends : t # s => sends'[t] = sends[t]
    BY <1>0, <2>2, <2>3, CloseStep
  <2>7. StreamIsLive'
    <3>1. \A q \in Requests : streaming'[q] # 0 => streaming'[q] = streaming[q] /\ streaming[q] # s
      BY <1>0
    <3> QED
      BY <2>6, <3>1 DEF Typed, EditorTyped, StreamIsLive, At
  <2>8. \A q \in Requests : q # r => /\ (q \in inFlight') <=> (q \in inFlight)
                                     /\ streaming'[q] = streaming[q]
                                     /\ q \in spinning' => q \in spinning
    BY <1>0, <2>2
  <2>9. r \notin tangled => r \notin inFlight' /\ ~Firing(r)'
    <3> SUFFICES ASSUME r \notin tangled PROVE r \in done
      BY <1>0, <2>4
    <3> QED
      BY <1>3, <2>1 DEF Sound, LiveStreams
  <2> HIDE DEF SendsInv, done
  <2> QED
    BY <1>0, <1>1, <2>1, <2>2, <2>3, <2>4, <2>5, <2>7, <2>8, <2>9, CloseInv
<1>4. CASE ~At(s, {"live"})
  <2>1. done = {}
    BY <1>2, <1>4
  <2>2. UNCHANGED <<currentNode, sendType, schedule, inFlight, streaming, spinning, sends,
                    engine, tangled, reloads>>
    <3>1. streaming' = streaming
      BY <1>0, <2>1 DEF Typed, EditorTyped
    <3>2. sends' = sends
      BY <1>4 DEF EndArrives
    <3> QED
      BY <1>0, <2>1, <3>1, <3>2
  <2>3. EditorTyped' /\ ScheduleIsOfLoaded' /\ EarlySendsIdle'
    BY <2>2 DEF Typed, EditorTyped, ScheduleIsOfLoaded, EarlySendsIdle, At
  <2> QED
    BY <1>1, <2>2, <2>3, StillInv DEF Firing
<1> QED
  BY <1>3, <1>4

-----------------------------------------------------------------------------
(* The invariant and what follows from it *)

LEMMA SendsInitInv == SendInit => SendsInv
<1> SUFFICES ASSUME SendInit PROVE SendsInv
  OBVIOUS
<1>1. Unused \in SendRecord
  BY DEF Unused, SendRecord, Steps
<1>2. EditorTyped
  BY SendAssumption DEF SendInit, EditorTyped, NoSchedule, Schedules
<1>3. WireTyped
  BY DEF SendInit, WireTyped
<1>4. SendsTyped
  BY <1>1 DEF SendInit, SendsTyped, Open, At, Unused
<1>5. EarlySendsIdle /\ Filing /\ RecordedOnce
  BY DEF SendInit, EarlySendsIdle, Filing, RecordedOnce, At, Unused
<1>6. StreamIsLive /\ ScheduleIsOfLoaded
  BY DEF SendInit, StreamIsLive, ScheduleIsOfLoaded, NoSchedule
<1>7. ASSUME NEW r \in Requests PROVE Sound(r)
  BY SendAssumption DEF SendInit, Sound, OpenOnce, LiveStreams, RegretsWait, ButtonOf,
                        FiringWaits, Firing, Open, At, Unused, NoSchedule
<1> QED
  BY <1>2, <1>3, <1>4, <1>5, <1>6, <1>7 DEF SendsInv, Typed

LEMMA SendsNextInv == SendsInv /\ [SendNext]_sendVars => SendsInv'
<1> SUFFICES ASSUME SendsInv, [SendNext]_sendVars PROVE SendsInv'
  OBVIOUS
<1>1. CASE UNCHANGED sendVars
  BY <1>1 DEF sendVars, editorVars, wireVars, SendsInv, Typed, EditorTyped, WireTyped, SendsTyped,
              EarlySendsIdle, Filing, RecordedOnce, StreamIsLive, ScheduleIsOfLoaded, Sound,
              OpenOnce, LiveStreams, RegretsWait, ButtonOf, FiringWaits, Firing, Underway, Open, At
<1>2. CASE SendNext
  <2>1. ASSUME NEW s \in Sends, Prepared(s) \/ ScriptAborts(s) PROVE SendsInv'
    BY <2>1, PreparedInv, ScriptAbortsInv
  <2>2. ASSUME NEW s \in Sends, TokenArrives(s) \/ \E threw \in BOOLEAN : TokenFails(s, threw)
        PROVE  SendsInv'
    BY <2>2, TokenInv
  <2>3. ASSUME NEW s \in Sends,
               EngineAnswers(s, "answer") \/ EngineGoesLive(s) \/ StreamEnds(s) \/ ServeAbort(s)
        PROVE  SendsInv'
    BY <2>3, EngineInv
  <2>4. ASSUME NEW s \in Sends, AnswerArrives(s) \/ MarkerArrives(s) \/ EndArrives(s)
        PROVE  SendsInv'
    BY <2>4, AnswerInv, MarkerInv, EndInv
  <2> QED
    BY <1>2, <2>1, <2>2, <2>3, <2>4, UserInv DEF SendNext
<1> QED
  BY <1>1, <1>2

LEMMA SendsInvariant == SendSpec => []SendsInv
  BY SendsInitInv, SendsNextInv, PTL DEF SendSpec

\* Type correctness.
THEOREM SendTypeCorrect == SendSpec => []SendTypeOK
<1>1. SendsInv => SendTypeOK
  BY DEF SendsInv, Typed, EditorTyped, WireTyped, SendsTyped, SendRecord, Steps, Schedules, SendTypeOK
<1> QED
  BY <1>1, SendsInvariant, PTL

\* Stop is final: a cancelled send is never recorded, none is recorded twice,
\* and a send stopped before its token came never reaches the main process.
THEOREM StopsStay == SendSpec => []StopIsFinal
<1>1. ASSUME SendsInv PROVE StopIsFinal
  <2>1. ASSUME NEW s \in Sends, sends[s].regretted, sends[s].req \notin tangled
        PROVE  engine[s].phase = "idle"
    <3>1. sends[s].req \in Requests
      BY <1>1, <2>1 DEF SendsInv, Typed, SendsTyped, SendRecord, Steps, Filing, Open, At
    <3>2. At(s, {"authorizing"})
      BY <1>1, <2>1, <3>1 DEF SendsInv, Sound, RegretsWait
    <3> QED
      BY <1>1, <3>2 DEF SendsInv, EarlySendsIdle, At
  <2> QED
    BY <1>1, <2>1 DEF SendsInv, StopIsFinal, StoppedSendStaysHome
<1> QED
  BY <1>1, SendsInvariant, PTL

\* The button of a request nothing has tangled says Stop exactly while one of
\* its sends is under way.
THEOREM ButtonsTellTheTruth == SendSpec => []ButtonTellsTheTruth
<1>1. SendsInv => ButtonTellsTheTruth
  BY DEF SendsInv, Sound, ButtonOf, ButtonTellsTheTruth
<1> QED
  BY <1>1, SendsInvariant, PTL

\* A schedule is of the request on screen, and an interval that waits for its
\* send has one to wait for.
THEOREM IntervalsWaitForASend == SendSpec => []IntervalWaitsForItsSend
<1>1. SendsInv => IntervalWaitsForItsSend
  BY DEF SendsInv, Typed, EditorTyped, ScheduleIsOfLoaded, Sound, FiringWaits, Firing,
         IntervalWaitsForItsSend
<1> QED
  BY <1>1, SendsInvariant, PTL

-----------------------------------------------------------------------------
(* No button is stuck, tangled or not *)

\* What the main process does for a send, and what it has told the window, are
\* in step with what the window believes of the send.
Lane(s) ==
  LET phase == engine[s].phase
      told == toWindow[s]
  IN
  /\ At(s, {"unused", "preparing", "authorizing"}) => told = <<>>
  /\ At(s, {"wire"}) => \/ phase = "running" /\ told = <<>>
                        \/ phase = "over" /\ told = <<"answer">>
                        \/ phase = "live" /\ told = <<"marker">>
                        \/ phase = "over" /\ Len(told) = 2 /\ told[1] = "marker" /\ told[2] = "end"
  /\ At(s, {"live"}) => \/ phase = "live" /\ told = <<>>
                        \/ phase = "over" /\ Len(told) = 1 /\ told[1] = "end"

\* A button that says Stop is a stream's, or some send of its request goes on.
Waits(r) ==
  r \in inFlight => \/ streaming[r] # 0
                    \/ \E s \in Sends : sends[s].req = r /\ At(s, {"authorizing", "wire"})

Lanes == \A s \in Sends : Lane(s)
AllWait == \A r \in Requests : Waits(r)
StuckInv == SendsInv /\ Lanes /\ AllWait

LEMMA LaneKept ==
  ASSUME NEW s \in Sends, Lane(s), sends'[s].step = sends[s].step,
         engine'[s].phase = engine[s].phase, toWindow'[s] = toWindow[s]
  PROVE  Lane(s)'
  BY DEF Lane, At

\* A request goes on waiting while its sends under way stay under way.
LEMMA WaitsKept ==
  ASSUME NEW r \in Requests, Waits(r), r \in inFlight' => r \in inFlight,
         streaming'[r] = streaming[r],
         \A s \in Sends : sends[s].req = r /\ At(s, {"authorizing", "wire"}) =>
           sends'[s].req = r /\ sends'[s].step \in {"authorizing", "wire"}
  PROVE  Waits(r)'
  BY DEF Waits, At

\* A send that is over leaves nobody waiting if its request's button is settled.
LEMMA CloseWaits ==
  ASSUME SendsInv, Lanes, AllWait, NEW s \in Sends, Open(s),
         \A t \in Sends : t # s => /\ sends'[t] = sends[t] /\ engine'[t] = engine[t]
                                   /\ toWindow'[t] = toWindow[t],
         sends'[s].step = "over",
         \A q \in Requests : q # sends[s].req => /\ (q \in inFlight') <=> (q \in inFlight)
                                                 /\ streaming'[q] = streaming[q],
         sends[s].req \notin inFlight'
  PROVE  Lanes' /\ AllWait'
<1>1. ASSUME NEW t \in Sends PROVE Lane(t)'
  <2>1. CASE t = s
    BY <2>1 DEF Lane, At
  <2>2. CASE t # s
    BY <2>2, LaneKept DEF Lanes
  <2> QED
    BY <2>1, <2>2
<1>2. ASSUME NEW q \in Requests PROVE Waits(q)'
  <2>1. CASE q = sends[s].req
    BY <2>1 DEF Waits
  <2>2. CASE q # sends[s].req
    BY <2>2, WaitsKept DEF AllWait, At
  <2> QED
    BY <2>1, <2>2
<1> QED
  BY <1>1, <1>2 DEF Lanes, AllWait

LEMMA ProceedWaits ==
  ASSUME SendsInv, Lanes, AllWait, NEW s \in Sends, NEW r \in Requests,
         NEW from \in SUBSET Requests, At(s, {"unused", "preparing"}), Proceed(s, r, from)
  PROVE  Lanes' /\ AllWait'
<1>1. /\ \A t \in Sends : t # s => sends'[t] = sends[t] /\ engine'[t] = engine[t]
      /\ sends'[s].req = r /\ sends'[s].step \in {"authorizing", "wire"}
      /\ inFlight' = inFlight \cup {r}
      /\ UNCHANGED <<streaming, toWindow>>
  BY ProceedStep DEF SendsInv
<1>2. sends'[s].step = "wire" => engine'[s].phase = "running"
  <2>1. /\ sends \in [Sends -> SendRecord]
        /\ engine \in [Sends -> [phase : {"idle", "running", "live", "over"}, stopped : BOOLEAN]]
    BY DEF SendsInv, Typed, SendsTyped, WireTyped
  <2>2. CASE currentNode \in OAuthed
    <3>1. sends'[s].step = "authorizing"
      BY <2>1, <2>2 DEF Proceed, SendRecord
    <3> QED
      BY <3>1
  <2>3. CASE currentNode \notin OAuthed
    BY <2>1, <2>3 DEF Proceed
  <2> QED
    BY <2>2, <2>3
<1>3. toWindow[s] = <<>>
  BY DEF Lanes, Lane, At
<1>4. ASSUME NEW t \in Sends PROVE Lane(t)'
  <2>1. CASE t = s
    BY <1>1, <1>2, <1>3, <2>1 DEF Lane, At
  <2>2. CASE t # s
    BY <1>1, <2>2, LaneKept DEF Lanes
  <2> QED
    BY <2>1, <2>2
<1>5. ASSUME NEW q \in Requests PROVE Waits(q)'
  <2>1. CASE q = r
    BY <1>1, <2>1 DEF Waits, At
  <2>2. CASE q # r
    BY <1>1, <2>2, WaitsKept DEF AllWait, At
  <2> QED
    BY <2>1, <2>2
<1> QED
  BY <1>4, <1>5 DEF Lanes, AllWait

LEMMA BeginWaits ==
  ASSUME SendsInv, Lanes, AllWait, NEW r \in Requests, Begin(r)
  PROVE  Lanes' /\ AllWait'
<1>1. PICK s \in Sends :
        /\ At(s, {"unused"})
        /\ IF r \in Scripted
           THEN /\ sends' = [sends EXCEPT ![s].req = r, ![s].step = "preparing"]
                /\ UNCHANGED <<inFlight, streaming, wireVars>>
           ELSE Proceed(s, r, {r})
  BY DEF Begin
<1>2. CASE r \in Scripted
  <2>1. sends \in [Sends -> SendRecord]
    BY DEF SendsInv, Typed, SendsTyped
  <2>2. /\ sends'[s].step = "preparing"
        /\ \A t \in Sends : t # s => sends'[t] = sends[t]
        /\ UNCHANGED <<inFlight, streaming, engine, toWindow>>
    BY <1>1, <1>2, <2>1 DEF SendRecord, wireVars
  <2>3. ASSUME NEW t \in Sends PROVE Lane(t)'
    <3>1. CASE t = s
      BY <1>1, <2>2, <3>1 DEF Lanes, Lane, At
    <3>2. CASE t # s
      BY <2>2, <3>2, LaneKept DEF Lanes
    <3> QED
      BY <3>1, <3>2
  <2>4. ASSUME NEW q \in Requests PROVE Waits(q)'
    BY <1>1, <2>2, WaitsKept DEF AllWait, At
  <2> QED
    BY <2>3, <2>4 DEF Lanes, AllWait
<1>3. CASE r \notin Scripted
  BY <1>1, <1>3, ProceedWaits DEF At
<1> QED
  BY <1>2, <1>3

\* Stop settles the button of its request at once, whatever the engine does.
LEMMA CancelWaits ==
  ASSUME SendsInv, Lanes, AllWait, NEW r \in Requests, Cancel(r), UNCHANGED <<engine, toWindow>>
  PROVE  Lanes' /\ AllWait'
<1> DEFINE mine == {s \in Sends : sends[s].req = r /\ At(s, {"wire"})}
<1>1. /\ inFlight' = inFlight \ {r}
      /\ \A q \in Requests : q # r => streaming'[q] = streaming[q]
  BY DEF Cancel, SendsInv, Typed, EditorTyped
<1>2. \A s \in Sends : sends'[s] = IF s \in mine THEN Over(s, sends[s].filed, TRUE)
                                   ELSE IF sends[s].req = r /\ At(s, {"authorizing"})
                                   THEN [sends[s] EXCEPT !.regretted = TRUE] ELSE sends[s]
  BY DEF Cancel
<1>3. ASSUME NEW s \in Sends
      PROVE  /\ s \in mine => sends'[s].step = "over"
             /\ s \notin mine => sends'[s].step = sends[s].step /\ sends'[s].req = sends[s].req
  <2>1. sends[s] \in SendRecord /\ (s \in mine => sends[s].filed \in Seq(Requests))
    BY DEF SendsInv, Typed, SendsTyped, SendRecord
  <2>2. CASE s \in mine
    <3>1. sends'[s] = Over(s, sends[s].filed, TRUE)
      BY <1>2, <2>2
    <3>2. Over(s, sends[s].filed, TRUE).step = "over"
      BY <2>1, <2>2, OverType DEF SendsInv
    <3> QED
      BY <2>2, <3>1, <3>2
  <2>3. CASE s \notin mine
    BY <1>2, <2>1, <2>3 DEF SendRecord
  <2> QED
    BY <2>2, <2>3
<1>4. ASSUME NEW s \in Sends PROVE Lane(s)'
  <2>1. CASE s \in mine
    BY <1>3, <2>1 DEF Lane, At
  <2>2. CASE s \notin mine
    BY <1>3, <2>2, LaneKept DEF Lanes
  <2> QED
    BY <2>1, <2>2
<1>5. ASSUME NEW q \in Requests PROVE Waits(q)'
  <2>1. CASE q = r
    BY <1>1, <2>1 DEF Waits
  <2>2. CASE q # r
    BY <1>1, <1>3, <2>2, WaitsKept DEF AllWait, At
  <2> QED
    BY <2>1, <2>2
<1> QED
  BY <1>4, <1>5 DEF Lanes, AllWait

\* What the user and the timers do.
LEMMA UserWaits ==
  ASSUME SendsInv, Lanes, AllWait,
         \/ \E r \in Requests : LoadRequest(r) \/ TreeStop(r) \/ ReloadWindow(r)
         \/ \E type \in SendTypes : SetType(type)
         \/ PressEnter \/ ClickCancel \/ ClickSend \/ ClickStop \/ ViewOldRun \/ ScheduleFires
  PROVE  Lanes' /\ AllWait'
<1>0. currentNode \in Requests /\ streaming \in [Requests -> Sends \cup {0}]
  BY DEF SendsInv, Typed, EditorTyped
<1>1. ASSUME UNCHANGED <<inFlight, streaming, sends, engine, toWindow>> PROVE Lanes' /\ AllWait'
  BY <1>1 DEF Lanes, Lane, AllWait, Waits, At
<1>2. CASE \E r \in Requests : LoadRequest(r)
  BY <1>1, <1>2 DEF LoadRequest, wireVars
<1>3. CASE \E r \in Requests : TreeStop(r)
  BY <1>3, CancelWaits DEF TreeStop
<1>4. ASSUME NEW r \in Requests, ReloadWindow(r) PROVE Lanes' /\ AllWait'
  <2>1. /\ inFlight' = {} /\ toWindow' = [s \in Sends |-> <<>>]
        /\ sends' = [s \in Sends |-> IF At(s, {"unused"}) THEN sends[s]
                                     ELSE Over(s, sends[s].filed, sends[s].cancelled)]
    BY <1>4 DEF ReloadWindow
  <2>2. ASSUME NEW s \in Sends PROVE Lane(s)'
    <3>1. sends[s] \in SendRecord
      BY DEF SendsInv, Typed, SendsTyped
    <3>2. sends[s].filed \in Seq(Requests) /\ sends[s].cancelled \in BOOLEAN
      BY <3>1 DEF SendRecord
    <3>3. At(s, {"unused"}) \/ sends'[s].step = "over"
      BY <2>1, <3>2, OverType DEF SendsInv
    <3>4. toWindow'[s] = <<>> /\ (At(s, {"unused"}) => sends'[s] = sends[s])
      BY <2>1
    <3> QED
      BY <3>3, <3>4 DEF Lane, At
  <2> QED
    BY <2>1, <2>2 DEF Lanes, AllWait, Waits
<1>5. CASE \E type \in SendTypes : SetType(type)
  BY <1>1, <1>5 DEF SetType, wireVars
<1>6. CASE PressEnter
  BY <1>0, <1>6, BeginWaits DEF PressEnter
<1>7. CASE ClickCancel
  BY <1>1, <1>7 DEF ClickCancel, wireVars
<1>8. CASE ClickSend
  <2>1. CASE Begin(currentNode)
    BY <1>0, <2>1, BeginWaits
  <2>2. CASE ~Begin(currentNode)
    BY <1>1, <1>8, <2>2 DEF ClickSend, wireVars
  <2> QED
    BY <2>1, <2>2
<1>9. CASE ClickStop
  <2>1. CASE streaming[currentNode] # 0
    BY <1>1, <1>9, <2>1 DEF ClickStop
  <2>2. CASE streaming[currentNode] = 0
    BY <1>0, <1>9, <2>2, CancelWaits DEF ClickStop
  <2> QED
    BY <2>1, <2>2
<1>10. CASE ViewOldRun
  <2>1. /\ UNCHANGED <<sends, engine, toWindow>> /\ inFlight' = inFlight \ {currentNode}
        /\ streaming' = [streaming EXCEPT ![currentNode] = 0]
    BY <1>10 DEF ViewOldRun, Settle, wireVars
  <2>2. \A s \in Sends : Lane(s)'
    BY <2>1, LaneKept DEF Lanes
  <2>3. ASSUME NEW q \in Requests PROVE Waits(q)'
    <3>1. CASE q = currentNode
      BY <2>1, <3>1 DEF Waits
    <3>2. CASE q # currentNode
      BY <1>0, <2>1, <3>2, WaitsKept DEF AllWait, At
    <3> QED
      BY <3>1, <3>2
  <2> QED
    BY <2>2, <2>3 DEF Lanes, AllWait
<1>11. CASE ScheduleFires
  <2>1. CASE Begin(currentNode)
    BY <1>0, <2>1, BeginWaits
  <2>2. CASE ~Begin(currentNode)
    BY <1>1, <1>11, <2>2 DEF ScheduleFires, Refused, wireVars
  <2> QED
    BY <2>1, <2>2
<1> QED
  BY <1>2, <1>3, <1>4, <1>5, <1>6, <1>7, <1>8, <1>9, <1>10, <1>11

\* Scripts and tokens.
LEMMA AwaitWaits ==
  ASSUME SendsInv, Lanes, AllWait, NEW s \in Sends,
         \/ Prepared(s) \/ ScriptAborts(s) \/ TokenArrives(s)
         \/ \E threw \in BOOLEAN : TokenFails(s, threw)
  PROVE  Lanes' /\ AllWait'
<1>0. /\ sends \in [Sends -> SendRecord] /\ sends[s] \in SendRecord /\ currentNode \in Requests
      /\ streaming \in [Requests -> Sends \cup {0}]
      /\ engine \in [Sends -> [phase : {"idle", "running", "live", "over"}, stopped : BOOLEAN]]
  BY DEF SendsInv, Typed, SendsTyped, EditorTyped, WireTyped
<1>1. At(s, {"preparing", "authorizing"}) => sends[s].req \in Requests
  BY DEF SendsInv, Typed, SendsTyped, At
<1>2. CASE Prepared(s)
  <2>1. /\ At(s, {"preparing"}) /\ Proceed(s, sends[s].req, {sends[s].req, currentNode})
    BY <1>2 DEF Prepared
  <2>2. {sends[s].req, currentNode} \in SUBSET Requests /\ At(s, {"unused", "preparing"})
    BY <1>0, <1>1, <2>1 DEF At
  <2> QED
    BY <1>1, <2>1, <2>2, ProceedWaits DEF At
<1>3. ASSUME NEW filed \in Seq(Requests), Len(filed) <= 1, Close(s, filed), Open(s),
             engine' = engine, toWindow' = toWindow,
             \A q \in Requests : q # sends[s].req =>
               /\ (q \in inFlight') <=> (q \in inFlight)
               /\ streaming'[q] = streaming[q],
             sends[s].req \notin inFlight'
      PROVE  Lanes' /\ AllWait'
  <2>1. sends'[s].step = "over" /\ \A t \in Sends : t # s => sends'[t] = sends[t]
    <3> USE DEF SendsInv
    <3> QED
      BY <1>3, CloseStep
  <2> QED
    BY <1>3, <2>1, CloseWaits
<1>4. CASE ScriptAborts(s)
  <2>1. /\ At(s, {"preparing"}) /\ Close(s, <<>>)
        /\ UNCHANGED <<inFlight, streaming, engine, toWindow>>
    BY <1>4 DEF ScriptAborts, editorVars, wireVars
  <2>2. sends'[s].step = "over" /\ \A t \in Sends : t # s => sends'[t] = sends[t]
    <3>1. Open(s) /\ <<>> \in Seq(Requests) /\ Len(<<>>) <= 1
      BY <2>1 DEF Open, At
    <3> USE DEF SendsInv
    <3> QED
      BY <2>1, <3>1, CloseStep
  <2>3. ASSUME NEW t \in Sends PROVE Lane(t)'
    <3>1. CASE t = s
      BY <2>2, <3>1 DEF Lane, At
    <3>2. CASE t # s
      BY <2>1, <2>2, <3>2, LaneKept DEF Lanes
    <3> QED
      BY <3>1, <3>2
  <2>4. ASSUME NEW q \in Requests PROVE Waits(q)'
    BY <2>1, <2>2, WaitsKept DEF AllWait, At
  <2> QED
    BY <2>3, <2>4 DEF Lanes, AllWait
<1>5. CASE TokenArrives(s)
  <2>1. At(s, {"authorizing"}) /\ streaming' = streaming /\ toWindow' = toWindow
    BY <1>5 DEF TokenArrives
  <2>2. CASE sends[s].req \in inFlight
    <3>1. /\ sends' = [sends EXCEPT ![s].step = "wire"]
          /\ engine' = [engine EXCEPT ![s].phase = "running"]
          /\ inFlight' = inFlight \cup {sends[s].req}
      BY <1>5, <2>2 DEF TokenArrives, Loading
    <3>2. /\ \A t \in Sends : t # s => sends'[t] = sends[t] /\ engine'[t] = engine[t]
          /\ sends'[s].step = "wire" /\ sends'[s].req = sends[s].req
          /\ engine'[s].phase = "running"
      BY <1>0, <3>1 DEF SendRecord
    <3>3. toWindow[s] = <<>>
      BY <2>1 DEF Lanes, Lane, At
    <3>4. ASSUME NEW t \in Sends PROVE Lane(t)'
      <4>1. CASE t = s
        BY <2>1, <3>2, <3>3, <4>1 DEF Lane, At
      <4>2. CASE t # s
        BY <2>1, <3>2, <4>2, LaneKept DEF Lanes
      <4> QED
        BY <4>1, <4>2
    <3>5. ASSUME NEW q \in Requests PROVE Waits(q)'
      <4>1. inFlight' = inFlight
        BY <2>2, <3>1
      <4> QED
        BY <2>1, <3>2, <4>1, WaitsKept DEF AllWait, At
    <3> QED
      BY <3>4, <3>5 DEF Lanes, AllWait
  <2>3. CASE sends[s].req \notin inFlight
    <3>1. Close(s, <<>>) /\ UNCHANGED <<engine, inFlight>>
      BY <1>5, <2>3 DEF TokenArrives
    <3>2. Open(s) /\ <<>> \in Seq(Requests) /\ Len(<<>>) <= 1
      BY <2>1 DEF Open, At
    <3> QED
      BY <1>3, <2>1, <2>3, <3>1, <3>2
  <2> QED
    BY <2>2, <2>3
<1>6. ASSUME NEW threw \in BOOLEAN, TokenFails(s, threw) PROVE Lanes' /\ AllWait'
  <2>1. /\ At(s, {"authorizing"}) /\ engine' = engine /\ toWindow' = toWindow
    BY <1>6 DEF TokenFails, wireVars
  <2>2. Open(s) /\ <<>> \in Seq(Requests) /\ Len(<<>>) <= 1
        /\ <<currentNode>> \in Seq(Requests) /\ Len(<<currentNode>>) <= 1
    BY <1>0, <2>1 DEF Open, At
  <2>3. CASE threw \/ sends[s].req \in inFlight
    <3>1. /\ inFlight' = inFlight \ {sends[s].req}
          /\ streaming' = [streaming EXCEPT ![sends[s].req] = 0]
          /\ Close(s, <<currentNode>>)
      BY <1>6, <2>3 DEF TokenFails, Settle
    <3> QED
      BY <1>0, <1>3, <2>1, <2>2, <3>1
  <2>4. CASE ~(threw \/ sends[s].req \in inFlight)
    <3>1. Close(s, <<>>) /\ UNCHANGED <<inFlight, streaming>>
      BY <1>6, <2>4 DEF TokenFails
    <3> QED
      BY <1>3, <2>1, <2>2, <2>4, <3>1
  <2> QED
    BY <2>3, <2>4
<1> QED
  BY <1>2, <1>4, <1>5, <1>6

\* The main process: it speaks of a running execution once, and of a live stream
\* when it ends.
LEMMA EngineWaits ==
  ASSUME SendsInv, Lanes, AllWait, NEW s \in Sends,
         EngineAnswers(s, "answer") \/ EngineGoesLive(s) \/ StreamEnds(s) \/ ServeAbort(s)
  PROVE  Lanes' /\ AllWait'
<1>0. /\ engine \in [Sends -> [phase : {"idle", "running", "live", "over"}, stopped : BOOLEAN]]
      /\ toWindow \in [Sends -> Seq({"answer", "marker", "end"})]
      /\ sends[s].step \in Steps
  BY DEF SendsInv, Typed, WireTyped, SendsTyped, SendRecord
<1>1. UNCHANGED <<inFlight, streaming, sends>>
  BY DEF EngineAnswers, EngineGoesLive, StreamEnds, ServeAbort, editorVars
<1>2. At(s, {"unused", "preparing", "authorizing"}) => engine[s].phase = "idle"
  BY DEF SendsInv, EarlySendsIdle
<1>3. Lane(s)'
  <2>1. CASE EngineAnswers(s, "answer")
    <3>1. /\ engine[s].phase = "running" /\ engine'[s].phase = "over"
          /\ toWindow'[s] = Append(toWindow[s], "answer")
      BY <1>0, <2>1 DEF EngineAnswers
    <3>2. /\ ~At(s, {"unused", "preparing", "authorizing"}) /\ ~At(s, {"live"})
          /\ At(s, {"wire"}) => toWindow[s] = <<>>
      BY <1>2, <3>1 DEF Lanes, Lane
    <3>3. Append(<<>>, "answer") = <<"answer">>
      OBVIOUS
    <3> QED
      BY <1>1, <3>1, <3>2, <3>3 DEF Lane, At
  <2>2. CASE EngineGoesLive(s)
    <3>1. /\ engine[s].phase = "running" /\ engine'[s].phase = "live"
          /\ toWindow'[s] = Append(toWindow[s], "marker")
      BY <1>0, <2>2 DEF EngineGoesLive
    <3>2. /\ ~At(s, {"unused", "preparing", "authorizing"}) /\ ~At(s, {"live"})
          /\ At(s, {"wire"}) => toWindow[s] = <<>>
      BY <1>2, <3>1 DEF Lanes, Lane
    <3>3. Append(<<>>, "marker") = <<"marker">>
      OBVIOUS
    <3> QED
      BY <1>1, <3>1, <3>2, <3>3 DEF Lane, At
  <2>3. CASE StreamEnds(s)
    <3>1. /\ engine[s].phase = "live" /\ engine'[s].phase = "over"
          /\ toWindow'[s] = Append(toWindow[s], "end")
      BY <1>0, <2>3 DEF StreamEnds
    <3>2. /\ ~At(s, {"unused", "preparing", "authorizing"})
          /\ At(s, {"wire"}) => toWindow[s] = <<"marker">>
          /\ At(s, {"live"}) => toWindow[s] = <<>>
      BY <1>2, <3>1 DEF Lanes, Lane
    <3>3. /\ At(s, {"wire"}) => /\ Len(toWindow'[s]) = 2
                                /\ toWindow'[s][1] = "marker" /\ toWindow'[s][2] = "end"
          /\ At(s, {"live"}) => Len(toWindow'[s]) = 1 /\ toWindow'[s][1] = "end"
      BY <3>1, <3>2
    <3> QED
      BY <1>1, <3>1, <3>2, <3>3 DEF Lane, At
  <2>4. CASE ServeAbort(s)
    <3>1. engine' = [engine EXCEPT ![s].stopped = @ \/
            engine[s].phase = (IF toMain[s] = "abort" THEN "running" ELSE "live")]
          /\ toWindow' = toWindow
      BY <2>4 DEF ServeAbort
    <3>2. engine'[s].phase = engine[s].phase
      BY <1>0, <3>1
    <3> QED
      BY <1>1, <3>1, <3>2, LaneKept DEF Lanes
  <2> QED
    BY <2>1, <2>2, <2>3, <2>4
<1>4. ASSUME NEW t \in Sends, t # s PROVE Lane(t)'
  <2>1. engine'[t] = engine[t] /\ toWindow'[t] = toWindow[t]
    BY <1>0, <1>4 DEF EngineAnswers, EngineGoesLive, StreamEnds, ServeAbort
  <2> QED
    BY <1>1, <2>1, LaneKept DEF Lanes
<1>5. AllWait'
  BY <1>1 DEF AllWait, Waits, At
<1> QED
  BY <1>3, <1>4, <1>5 DEF Lanes

LEMMA TailOfTwo ==
  ASSUME NEW q \in Seq({"answer", "marker", "end"}), Len(q) = 2
  PROVE  Len(Tail(q)) = 1 /\ Tail(q)[1] = q[2]
  OBVIOUS

\* What arrives in the window settles the request it is about, or hands its
\* button to the stream.
LEMMA ArrivalWaits ==
  ASSUME SendsInv, Lanes, AllWait, NEW s \in Sends,
         AnswerArrives(s) \/ MarkerArrives(s) \/ EndArrives(s)
  PROVE  Lanes' /\ AllWait'
<1>0. /\ sends \in [Sends -> SendRecord] /\ sends[s] \in SendRecord
      /\ streaming \in [Requests -> Sends \cup {0}]
      /\ toWindow \in [Sends -> Seq({"answer", "marker", "end"})]
  BY DEF SendsInv, Typed, SendsTyped, EditorTyped, WireTyped
<1>1. /\ toWindow[s] # <<>> /\ toWindow'[s] = Tail(toWindow[s])
      /\ \A t \in Sends : t # s => toWindow'[t] = toWindow[t]
      /\ engine' = engine
  BY <1>0 DEF AnswerArrives, MarkerArrives, EndArrives, Take, Arrives
<1>2. At(s, {"wire", "live"}) => sends[s].req \in Requests
  BY DEF SendsInv, Typed, SendsTyped, At
<1>3. ASSUME UNCHANGED <<inFlight, streaming, sends>>, ~At(s, {"wire", "live"})
      PROVE  Lanes' /\ AllWait'
  <2>1. Lane(s)'
    <3>1. sends[s].step = "over"
      BY <1>0, <1>1, <1>3 DEF Lanes, Lane, At, SendRecord, Steps
    <3> QED
      BY <1>3, <3>1 DEF Lane, At
  <2>2. \A t \in Sends : t # s => Lane(t)'
    BY <1>1, <1>3, LaneKept DEF Lanes
  <2>3. AllWait'
    BY <1>3 DEF AllWait, Waits, At
  <2> QED
    BY <2>1, <2>2, <2>3 DEF Lanes
<1>4. CASE AnswerArrives(s)
  <2>1. ~At(s, {"live"})
    BY <1>4 DEF AnswerArrives, Arrives, Lanes, Lane, At
  <2>2. CASE At(s, {"wire"})
    <3>1. /\ inFlight' = inFlight \ {sends[s].req}
          /\ streaming' = [streaming EXCEPT ![sends[s].req] = 0]
          /\ Close(s, <<sends[s].req>>)
      BY <1>4, <2>2 DEF AnswerArrives, Settle
    <3>2. Open(s) /\ <<sends[s].req>> \in Seq(Requests) /\ Len(<<sends[s].req>>) <= 1
      BY <1>2, <2>2 DEF Open, At
    <3>3. sends'[s].step = "over" /\ \A t \in Sends : t # s => sends'[t] = sends[t]
      BY <1>1, <3>1, <3>2, CloseStep DEF SendsInv
    <3> QED
      BY <1>0, <1>1, <3>1, <3>2, <3>3, CloseWaits
  <2>3. CASE ~At(s, {"wire"})
    BY <1>3, <1>4, <2>1, <2>3 DEF AnswerArrives, At
  <2> QED
    BY <2>2, <2>3
<1>5. CASE MarkerArrives(s)
  <2>1. ~At(s, {"live"})
    BY <1>5 DEF MarkerArrives, Arrives, Lanes, Lane, At
  <2>2. CASE At(s, {"wire"})
    <3>1. /\ streaming' = [streaming EXCEPT ![sends[s].req] = s]
          /\ sends' = [sends EXCEPT ![s].step = "live"] /\ inFlight' = inFlight
      BY <1>5, <2>2 DEF MarkerArrives
    <3>2. /\ \A t \in Sends : t # s => sends'[t] = sends[t]
          /\ sends'[s].step = "live" /\ sends'[s].req = sends[s].req
      BY <1>0, <3>1 DEF SendRecord
    <3>3. Lane(s)'
      <4>1. toWindow[s][1] = "marker"
        BY <1>5 DEF MarkerArrives, Arrives
      <4>2. \/ engine[s].phase = "live" /\ toWindow[s] = <<"marker">>
            \/ engine[s].phase = "over" /\ Len(toWindow[s]) = 2 /\ toWindow[s][2] = "end"
        <5>1. toWindow[s] # <<"answer">> /\ toWindow[s] # <<>>
          BY <1>1, <4>1
        <5> QED
          BY <2>2, <5>1 DEF Lanes, Lane
      <4>3. CASE engine[s].phase = "live" /\ toWindow[s] = <<"marker">>
        <5>1. Tail(<<"marker">>) = <<>>
          OBVIOUS
        <5> QED
          BY <1>1, <3>2, <4>3, <5>1 DEF Lane, At
      <4>4. CASE engine[s].phase = "over" /\ Len(toWindow[s]) = 2 /\ toWindow[s][2] = "end"
        <5>1. Len(toWindow'[s]) = 1 /\ toWindow'[s][1] = "end"
          <6>1. toWindow[s] \in Seq({"answer", "marker", "end"})
            BY <1>0
          <6>2. Len(Tail(toWindow[s])) = 1 /\ Tail(toWindow[s])[1] = toWindow[s][2]
            BY <4>4, <6>1, TailOfTwo
          <6> QED
            BY <1>1, <4>4, <6>2
        <5>2. engine'[s].phase = "over"
          BY <1>1, <4>4
        <5> QED
          BY <3>2, <5>1, <5>2 DEF Lane, At
      <4> QED
        BY <4>2, <4>3, <4>4
    <3>4. \A t \in Sends : t # s => Lane(t)'
      BY <1>1, <3>2, LaneKept DEF Lanes
    <3>5. ASSUME NEW q \in Requests PROVE Waits(q)'
      <4>1. CASE q = sends[s].req
        BY <1>0, <3>1, <4>1, SendAssumption DEF Waits, Sends
      <4>2. CASE q # sends[s].req
        BY <1>0, <3>1, <3>2, <4>2, WaitsKept DEF AllWait, At
      <4> QED
        BY <4>1, <4>2
    <3> QED
      BY <3>3, <3>4, <3>5 DEF Lanes, AllWait
  <2>3. CASE ~At(s, {"wire"})
    BY <1>3, <1>5, <2>1, <2>3 DEF MarkerArrives, At
  <2> QED
    BY <2>2, <2>3
<1>6. CASE EndArrives(s)
  <2> DEFINE done == {r \in Requests : streaming[r] = s}
  <2>1. /\ inFlight' = inFlight \ done
        /\ streaming' = [r \in Requests |-> IF r \in done THEN 0 ELSE streaming[r]]
    BY <1>6 DEF EndArrives
  <2>2. \A r \in done : sends[s].req = r /\ At(s, {"live"})
    BY SendAssumption DEF SendsInv, StreamIsLive, Sends
  <2>3. ~At(s, {"wire"})
    BY <1>6 DEF EndArrives, Arrives, Lanes, Lane, At
  <2>4. CASE At(s, {"live"})
    <3>1. Close(s, <<sends[s].req>>)
      BY <1>6, <2>4 DEF EndArrives
    <3>2. Open(s) /\ <<sends[s].req>> \in Seq(Requests) /\ Len(<<sends[s].req>>) <= 1
      BY <1>2, <2>4 DEF Open, At
    <3>3. sends'[s].step = "over" /\ \A t \in Sends : t # s => sends'[t] = sends[t]
      BY <1>1, <3>1, <3>2, CloseStep DEF SendsInv
    <3>4. ASSUME NEW t \in Sends PROVE Lane(t)'
      <4>1. CASE t = s
        BY <3>3, <4>1 DEF Lane, At
      <4>2. CASE t # s
        BY <1>1, <3>3, <4>2, LaneKept DEF Lanes
      <4> QED
        BY <4>1, <4>2
    <3>5. ASSUME NEW q \in Requests PROVE Waits(q)'
      <4>1. CASE q \in done
        BY <2>1, <4>1 DEF Waits
      <4>2. CASE q \notin done
        BY <2>1, <2>4, <3>3, <4>2, WaitsKept DEF AllWait, At
      <4> QED
        BY <4>1, <4>2
    <3> QED
      BY <3>4, <3>5 DEF Lanes, AllWait
  <2>5. CASE ~At(s, {"live"})
    <3>1. done = {}
      BY <2>2, <2>5
    <3>2. UNCHANGED <<inFlight, streaming>>
      BY <1>0, <2>1, <3>1
    <3>3. sends' = sends
      BY <1>6, <2>5 DEF EndArrives
    <3> QED
      BY <1>3, <2>3, <2>5, <3>2, <3>3 DEF At
  <2> QED
    BY <2>4, <2>5
<1> QED
  BY <1>4, <1>5, <1>6

LEMMA StuckInitInv == SendInit => StuckInv
<1> SUFFICES ASSUME SendInit PROVE StuckInv
  OBVIOUS
<1>1. Lanes /\ AllWait
  BY DEF SendInit, Lanes, Lane, AllWait, Waits, At, Unused
<1> QED
  BY <1>1, SendsInitInv DEF StuckInv

LEMMA StuckNextInv == StuckInv /\ [SendNext]_sendVars => StuckInv'
<1> SUFFICES ASSUME StuckInv, [SendNext]_sendVars PROVE StuckInv'
  OBVIOUS
<1> USE DEF StuckInv
<1>1. CASE UNCHANGED sendVars
  BY <1>1, SendsNextInv DEF sendVars, editorVars, wireVars, Lanes, Lane, AllWait, Waits, At
<1>2. CASE SendNext
  BY <1>2, SendsNextInv, UserWaits, AwaitWaits, EngineWaits, ArrivalWaits DEF SendNext
<1> QED
  BY <1>1, <1>2

\* Whatever crosses, a button that says Stop has something on its way that
\* settles it.
THEOREM NoButtonStaysStuck == SendSpec => []NoButtonIsStuck
<1>1. ASSUME StuckInv, NEW r \in inFlight, streaming[r] # 0
      PROVE  streaming[r] \in Sends
             /\ (engine[streaming[r]].phase = "live" \/ toWindow[streaming[r]] # <<>>)
  <2>1. r \in Requests /\ streaming[r] \in Sends
    BY <1>1 DEF StuckInv, SendsInv, Typed, EditorTyped
  <2>2. At(streaming[r], {"live"})
    BY <1>1, <2>1 DEF StuckInv, SendsInv, StreamIsLive
  <2> QED
    BY <1>1, <2>1, <2>2 DEF StuckInv, Lanes, Lane
<1>2. ASSUME StuckInv, NEW s \in Sends, At(s, {"authorizing", "wire"}) PROVE Pending(s)
  BY <1>2 DEF StuckInv, Lanes, Lane, Pending, At
<1>3. StuckInv => NoButtonIsStuck
  <2> SUFFICES ASSUME StuckInv, NEW r \in inFlight
               PROVE  \/ \E s \in Sends : sends[s].req = r /\ Pending(s)
                      \/ \E s \in Sends : /\ streaming[r] = s
                                          /\ engine[s].phase = "live" \/ toWindow[s] # <<>>
    BY DEF NoButtonIsStuck
  <2>1. r \in Requests /\ Waits(r)
    BY DEF StuckInv, SendsInv, Typed, EditorTyped, AllWait
  <2> QED
    BY <1>1, <1>2, <2>1 DEF Waits
<1> QED
  BY <1>3, StuckInitInv, StuckNextInv, PTL DEF SendSpec
=============================================================================

---------------------------- MODULE RequestSend ----------------------------
(***************************************************************************)
(* A send from the button to the record of its run: the request editor     *)
(* (request-editor.js) with its scheduled sends (scheduled-send.js), the   *)
(* register of executions and the lifecycle events in app.js, the messages *)
(* between window and main process, and the main process as HttpExecute    *)
(* promises it.                                                            *)
(*                                                                         *)
(* A window handler is one action between two awaits.  The main process    *)
(* begins an execution as soon as it is asked for: everything the window   *)
(* may send about it later queues up behind.                               *)
(***************************************************************************)
EXTENDS Naturals, Sequences, FiniteSets

CONSTANTS
  Requests,     \* saved requests; None is none of them
  Scripted,     \* those that await something before their fields are read
  OAuthed,      \* those whose authentication is OAuth 2
  SendTypes,    \* immediate and others of delayed, interval
  MaxSends,     \* bound on the sends
  MaxReloads,   \* bound on reloads of the window
  None

ASSUME SendAssumption ==
  /\ Scripted \subseteq Requests /\ OAuthed \subseteq Requests
  /\ None \notin Requests /\ MaxSends \in Nat /\ MaxReloads \in Nat

Sends == 1..MaxSends

VARIABLES
  currentNode, \* #currentNodeId, also app.js's _selectedNode
  sendType,    \* ScheduledSend#type
  schedule,    \* ScheduledSend#schedule
  inFlight,    \* #inFlightIds: the button of these reads Stop
  streaming,   \* #streamingReqs, 0 for none
  spinning,    \* the tree nodes that show a stop control
  sends,       \* every #sendRequest and the execution it led to
  engine,      \* the executions in the main process
  toWindow,    \* answers, markers and stream ends on their way
  toMain,      \* the abort on its way
  tangled,     \* history: requests with two sends at a time, with an old run
               \* shown during one, or with one that returned unheard of
  reloads

editorVars == <<currentNode, sendType, schedule, inFlight, streaming, spinning>>
wireVars == <<engine, toWindow, toMain>>
sendVars == <<editorVars, sends, wireVars, tangled, reloads>>

NoSchedule == [req |-> None, type |-> "none", phase |-> "none"]
Countdown(type) == [req |-> currentNode, type |-> type, phase |-> "counting"]

\* `from` are the requests whose fields the send carries, `filed` those its
\* run was recorded under, `cancelled` is exec.cancelled, `regretted` says
\* that Stop was pressed before there was an execution.
Unused == [req |-> None, step |-> "unused", from |-> {}, filed |-> <<>>,
           cancelled |-> FALSE, regretted |-> FALSE]

SendInit ==
  /\ currentNode \in Requests /\ sendType = "immediate" /\ schedule = NoSchedule
  /\ inFlight = {} /\ spinning = {} /\ streaming = [r \in Requests |-> 0]
  /\ sends = [s \in Sends |-> Unused]
  /\ engine = [s \in Sends |-> [phase |-> "idle", stopped |-> FALSE]]
  /\ toWindow = [s \in Sends |-> <<>>] /\ toMain = [s \in Sends |-> "none"]
  /\ tangled = {} /\ reloads = 0

\* What is left of a send that is over: was it recorded, was it cancelled.
Over(s, filed, cancelled) ==
  [Unused EXCEPT !.req = sends[s].req, !.step = "over", !.filed = filed,
                 !.cancelled = cancelled]
Close(s, filed) == sends' = [sends EXCEPT ![s] = Over(s, sends[s].filed \o filed, @.cancelled)]

At(s, steps) == sends[s].step \in steps
Underway(r) == \E s \in Sends : sends[s].req = r /\ At(s, {"preparing", "authorizing", "wire", "live"})

-----------------------------------------------------------------------------
(* The editor's reaction to lifecycle events *)

\* maybeRestartInterval: a fired interval counts again once its send is over.
Restarted(r) ==
  IF schedule.type = "interval" /\ schedule.phase = "firing" /\ schedule.req = r
  THEN IF r = currentNode THEN Countdown("interval") ELSE NoSchedule
  ELSE schedule

\* Variant: an answer leaves the button alone.
Variant_SettleKeepsButton(r) ==
  /\ streaming' = [streaming EXCEPT ![r] = 0]
  /\ schedule' = Restarted(r) /\ UNCHANGED inFlight

\* settleSendBtn
Settle(r) ==
  /\ inFlight' = inFlight \ {r}
  /\ streaming' = [streaming EXCEPT ![r] = 0]
  /\ schedule' = Restarted(r)

\* request-loading
Loading(r) == inFlight' = inFlight \cup {r} /\ spinning' = spinning \cup {r}

\* A send's fields are read and it goes on: to the token, or out (the
\* send-request event is handled before dispatch returns).  Which of the two
\* is told by the authentication of the request on screen.
Proceed(s, r, from) ==
  /\ Loading(r)
  /\ LET oauth == currentNode \in OAuthed IN
     /\ sends' = [sends EXCEPT ![s].req = r, ![s].from = from,
                               ![s].step = IF oauth THEN "authorizing" ELSE "wire"]
     /\ engine' = IF oauth THEN engine ELSE [engine EXCEPT ![s].phase = "running"]
  /\ UNCHANGED <<currentNode, sendType, streaming, toWindow, toMain, reloads>>

\* #sendRequest up to its first real await.
Begin(r) ==
  \E s \in Sends :
    /\ At(s, {"unused"}) /\ \A t \in 1..(s - 1) : ~At(t, {"unused"})
    /\ tangled' = IF Underway(r) THEN tangled \cup {r} ELSE tangled
    /\ IF r \in Scripted
       THEN /\ sends' = [sends EXCEPT ![s].req = r, ![s].step = "preparing"]
            /\ UNCHANGED <<currentNode, sendType, inFlight, streaming, spinning, wireVars, reloads>>
       ELSE Proceed(s, r, {r})

\* No URL, an unnamed path parameter, an unresolved variable: nothing is sent
\* and no event says so.  A fired interval waits for one.
Refused ==
  /\ tangled' = tangled \cup {currentNode}
  /\ UNCHANGED <<currentNode, sendType, inFlight, streaming, spinning, sends, wireVars, reloads>>

-----------------------------------------------------------------------------
(* What the user does *)

\* Variant: a schedule survives the switch to another request.
Variant_LoadKeepsSchedule(r) ==
  /\ r # currentNode /\ currentNode' = r /\ sendType' = "immediate"
  /\ UNCHANGED <<schedule, inFlight, streaming, spinning, sends, wireVars, tangled, reloads>>

\* load: the schedule belongs to the request that armed it; what it fired
\* goes on in the background.
LoadRequest(r) ==
  /\ r # currentNode /\ currentNode' = r
  /\ schedule' = NoSchedule /\ sendType' = "immediate"
  /\ UNCHANGED <<inFlight, streaming, spinning, sends, wireVars, tangled, reloads>>

Counting == schedule.phase = "counting" /\ schedule.req = currentNode

\* The type picker is hidden during a countdown and while in flight.
SetType(type) ==
  /\ ~Counting /\ currentNode \notin inFlight /\ type # sendType
  /\ sendType' = type
  /\ UNCHANGED <<currentNode, schedule, inFlight, streaming, spinning, sends, wireVars, tangled, reloads>>

\* Enter in the URL bar goes past the button.
PressEnter == Begin(currentNode) /\ UNCHANGED schedule

ClickCancel ==
  /\ Counting
  /\ schedule' = NoSchedule
  /\ UNCHANGED <<currentNode, sendType, inFlight, streaming, spinning, sends, wireVars, tangled, reloads>>

ClickSend ==
  /\ ~Counting /\ currentNode \notin inFlight
  /\ \/ sendType = "immediate" /\ Begin(currentNode) /\ UNCHANGED schedule
     \/ /\ sendType # "immediate"
        /\ schedule' = Countdown(sendType)
        /\ UNCHANGED <<currentNode, sendType, inFlight, streaming, spinning, sends, wireVars,
                       tangled, reloads>>

\* hippo:cancel-request without a stream: every execution of the request is
\* cancelled and an AbortError settles its button, even if there was none.
Cancel(r) ==
  LET mine == {s \in Sends : sends[s].req = r /\ At(s, {"wire"})} IN
  /\ sends' = [s \in Sends |->
       IF s \in mine THEN Over(s, sends[s].filed, TRUE)
       ELSE IF sends[s].req = r /\ At(s, {"authorizing"})
            THEN [sends[s] EXCEPT !.regretted = TRUE] ELSE sends[s]]
  /\ toMain' = [s \in Sends |-> IF s \in mine THEN "abort" ELSE toMain[s]]
  /\ inFlight' = inFlight \ {r} /\ spinning' = spinning \ {r}
  /\ streaming' = [streaming EXCEPT ![r] = 0]

\* The button ends an interval as well.
ClickStop ==
  /\ ~Counting /\ currentNode \in inFlight
  /\ schedule' = NoSchedule
  /\ IF streaming[currentNode] # 0
     THEN /\ toMain' = [toMain EXCEPT ![streaming[currentNode]] = "streamAbort"]
          /\ UNCHANGED <<inFlight, streaming, spinning, sends>>
     ELSE Cancel(currentNode)
  /\ UNCHANGED <<currentNode, sendType, engine, toWindow, tangled, reloads>>

\* The stop control of a tree node does not.
TreeStop(r) ==
  /\ r \in spinning
  /\ Cancel(r) /\ schedule' = Restarted(r)
  /\ UNCHANGED <<currentNode, sendType, engine, toWindow, tangled, reloads>>

\* Showing a run of the past raises a lifecycle event without a requestId,
\* which the editor takes for that of the request on screen.
ViewOldRun ==
  /\ Settle(currentNode)
  /\ tangled' = IF Underway(currentNode) THEN tangled \cup {currentNode} ELSE tangled
  /\ UNCHANGED <<currentNode, sendType, spinning, sends, wireVars, reloads>>

\* A reload loses everything the window knew; the main process drops what it
\* was doing for it.
ReloadWindow(r) ==
  /\ reloads < MaxReloads /\ reloads' = reloads + 1
  /\ currentNode' = r /\ sendType' = "immediate" /\ schedule' = NoSchedule
  /\ inFlight' = {} /\ spinning' = {} /\ streaming' = [q \in Requests |-> 0]
  /\ sends' = [s \in Sends |-> IF At(s, {"unused"}) THEN sends[s]
                               ELSE Over(s, sends[s].filed, sends[s].cancelled)]
  /\ engine' = [s \in Sends |-> [engine[s] EXCEPT
                 !.stopped = @ \/ engine[s].phase \in {"running", "live"}]]
  /\ toWindow' = [s \in Sends |-> <<>>] /\ toMain' = [s \in Sends |-> "none"]
  /\ UNCHANGED tangled

-----------------------------------------------------------------------------
(* Timers and awaits *)

\* onScheduleFire
ScheduleFires ==
  /\ schedule.phase = "counting"
  /\ \/ schedule' = NoSchedule                                   \* the URL is gone
        /\ UNCHANGED <<currentNode, sendType, inFlight, streaming, spinning, sends, wireVars,
                       tangled, reloads>>
     \/ /\ schedule' = IF schedule.type = "interval"
                       THEN [schedule EXCEPT !.phase = "firing"] ELSE NoSchedule
        /\ Begin(currentNode) \/ Refused

\* The pre-request script and the prefetch are done: the rest of the fields
\* are read from whatever request is on screen by now.
Prepared(s) ==
  /\ At(s, {"preparing"})
  /\ Proceed(s, sends[s].req, {sends[s].req, currentNode})
  /\ UNCHANGED <<schedule, tangled>>

\* The script failed: its error is shown, no event settles the send.
ScriptAborts(s) ==
  /\ At(s, {"preparing"})
  /\ Close(s, <<>>)
  /\ tangled' = tangled \cup {sends[s].req}
  /\ UNCHANGED <<editorVars, wireVars, reloads>>

\* Variant: nobody asks whether Stop was pressed meanwhile.
Variant_TokenArrivesAnyway(s) ==
  /\ At(s, {"authorizing"})
  /\ sends' = [sends EXCEPT ![s].step = "wire"]
  /\ engine' = [engine EXCEPT ![s].phase = "running"]
  /\ Loading(sends[s].req)
  /\ UNCHANGED <<currentNode, sendType, schedule, streaming, toWindow, toMain, tangled, reloads>>

\* acquireToken succeeded.  Only a request that is not in flight any more
\* tells that Stop was pressed.
TokenArrives(s) ==
  /\ At(s, {"authorizing"})
  /\ IF sends[s].req \in inFlight
     THEN /\ sends' = [sends EXCEPT ![s].step = "wire"]
          /\ engine' = [engine EXCEPT ![s].phase = "running"]
          /\ Loading(sends[s].req)
     ELSE /\ Close(s, <<>>)
          /\ UNCHANGED <<engine, inFlight, spinning>>
  /\ UNCHANGED <<currentNode, sendType, schedule, streaming, toWindow, toMain, tangled, reloads>>

\* acquireToken failed.  The error names no node: the run is recorded under
\* the request on screen.  After a failure it reported itself (not one it
\* threw) a stopped send is not heard of.
TokenFails(s, threw) ==
  /\ At(s, {"authorizing"})
  /\ IF threw \/ sends[s].req \in inFlight
     THEN /\ Settle(sends[s].req) /\ spinning' = spinning \ {sends[s].req}
          /\ Close(s, <<currentNode>>)
     ELSE /\ Close(s, <<>>)
          /\ UNCHANGED <<inFlight, streaming, schedule, spinning>>
  /\ UNCHANGED <<currentNode, sendType, wireVars, tangled, reloads>>

-----------------------------------------------------------------------------
(* The main process *)

EngineAnswers(s, kind) ==
  /\ engine[s].phase = "running"
  /\ engine' = [engine EXCEPT ![s] = [phase |-> "over", stopped |-> FALSE]]
  /\ toWindow' = [toWindow EXCEPT ![s] = Append(@, kind)]
  /\ UNCHANGED <<editorVars, sends, toMain, tangled, reloads>>

EngineGoesLive(s) ==
  /\ engine[s].phase = "running" /\ ~engine[s].stopped
  /\ engine' = [engine EXCEPT ![s].phase = "live"]
  /\ toWindow' = [toWindow EXCEPT ![s] = Append(@, "marker")]
  /\ UNCHANGED <<editorVars, sends, toMain, tangled, reloads>>

StreamEnds(s) ==
  /\ engine[s].phase = "live"
  /\ engine' = [engine EXCEPT ![s] = [phase |-> "over", stopped |-> FALSE]]
  /\ toWindow' = [toWindow EXCEPT ![s] = Append(@, "end")]
  /\ UNCHANGED <<editorVars, sends, toMain, tangled, reloads>>

\* http:abort finds running executions, http:stream:abort live ones.
ServeAbort(s) ==
  /\ toMain[s] # "none"
  /\ toMain' = [toMain EXCEPT ![s] = "none"]
  /\ engine' = [engine EXCEPT ![s].stopped = @ \/
       engine[s].phase = (IF toMain[s] = "abort" THEN "running" ELSE "live")]
  /\ UNCHANGED <<editorVars, sends, toWindow, tangled, reloads>>

-----------------------------------------------------------------------------
(* Answers in the window *)

Take(s) == toWindow' = [toWindow EXCEPT ![s] = Tail(@)]
Arrives(s, kinds) == toWindow[s] # <<>> /\ toWindow[s][1] \in kinds

\* Variant: a cancelled execution's answer is shown and recorded.
Variant_AnswerArrivesAnyway(s) ==
  /\ Arrives(s, {"answer"}) /\ Take(s)
  /\ Settle(sends[s].req) /\ spinning' = spinning \ {sends[s].req}
  /\ Close(s, <<sends[s].req>>)
  /\ UNCHANGED <<currentNode, sendType, engine, toMain, tangled, reloads>>

\* A response or a failure settles the button and is recorded under the
\* request that was sent; that of a cancelled execution is dropped.
AnswerArrives(s) ==
  /\ Arrives(s, {"answer"}) /\ Take(s)
  /\ IF At(s, {"wire"})
     THEN /\ Settle(sends[s].req) /\ spinning' = spinning \ {sends[s].req}
          /\ Close(s, <<sends[s].req>>)
     ELSE UNCHANGED <<inFlight, streaming, schedule, spinning, sends>>
  /\ UNCHANGED <<currentNode, sendType, engine, toMain, tangled, reloads>>

\* Variant: the marker is kept from the editor.
Variant_MarkerForgetsStream(s) ==
  /\ Arrives(s, {"marker"}) /\ Take(s)
  /\ IF At(s, {"wire"})
     THEN spinning' = spinning \ {sends[s].req} /\ sends' = [sends EXCEPT ![s].step = "live"]
     ELSE UNCHANGED <<spinning, sends>>
  /\ UNCHANGED <<currentNode, sendType, schedule, inFlight, streaming, engine, toMain,
                 tangled, reloads>>

\* The marker of a live stream hands the button to the stream.
MarkerArrives(s) ==
  /\ Arrives(s, {"marker"}) /\ Take(s)
  /\ IF At(s, {"wire"})
     THEN /\ streaming' = [streaming EXCEPT ![sends[s].req] = s]
          /\ spinning' = spinning \ {sends[s].req}
          /\ sends' = [sends EXCEPT ![s].step = "live"]
     ELSE UNCHANGED <<streaming, spinning, sends>>
  /\ UNCHANGED <<currentNode, sendType, schedule, inFlight, engine, toMain, tangled, reloads>>

\* settleStream and _recordStreamRun
EndArrives(s) ==
  LET done == {r \in Requests : streaming[r] = s} IN
  /\ Arrives(s, {"end"}) /\ Take(s)
  /\ inFlight' = inFlight \ done
  /\ streaming' = [r \in Requests |-> IF r \in done THEN 0 ELSE streaming[r]]
  /\ schedule' = IF sends[s].req \in done THEN Restarted(sends[s].req) ELSE schedule
  /\ IF At(s, {"live"}) THEN Close(s, <<sends[s].req>>) ELSE UNCHANGED sends
  /\ UNCHANGED <<currentNode, sendType, spinning, engine, toMain, tangled, reloads>>

SendNext ==
  \/ \E r \in Requests : LoadRequest(r) \/ TreeStop(r) \/ ReloadWindow(r)
  \/ \E type \in SendTypes : SetType(type)
  \/ PressEnter \/ ClickCancel \/ ClickSend \/ ClickStop \/ ViewOldRun \/ ScheduleFires
  \/ \E s \in Sends :
       \/ Prepared(s) \/ ScriptAborts(s) \/ TokenArrives(s)
       \/ \E threw \in BOOLEAN : TokenFails(s, threw)
       \/ EngineAnswers(s, "answer") \/ EngineGoesLive(s) \/ StreamEnds(s) \/ ServeAbort(s)
       \/ AnswerArrives(s) \/ MarkerArrives(s) \/ EndArrives(s)

SendSpec == SendInit /\ [][SendNext]_sendVars

-----------------------------------------------------------------------------
(* Properties *)

\* The type invariant.
SendTypeOK ==
  /\ currentNode \in Requests /\ sendType \in SendTypes \cup {"immediate"}
  /\ schedule \in [req : Requests \cup {None}, type : SendTypes \cup {"none"},
                   phase : {"none", "counting", "firing"}]
  /\ inFlight \subseteq Requests /\ spinning \subseteq Requests
  /\ streaming \in [Requests -> Sends \cup {0}]
  /\ \A s \in Sends :
       /\ sends[s].req \in Requests \cup {None}
       /\ sends[s].step \in {"unused", "preparing", "authorizing", "wire", "live", "over"}
       /\ sends[s].from \subseteq Requests /\ sends[s].filed \in Seq(Requests)
       /\ engine[s] \in [phase : {"idle", "running", "live", "over"}, stopped : BOOLEAN]
       /\ toWindow[s] \in Seq({"answer", "marker", "end"})
       /\ toMain[s] \in {"none", "abort", "streamAbort"}
  /\ tangled \subseteq Requests /\ reloads \in 0..MaxReloads

\* A run is recorded once, and not at all when it was cancelled
\* (app.js 3503-3504: a result that arrives late is discarded).
RecordedOnce ==
  \A s \in Sends : Len(sends[s].filed) <= 1 /\ (sends[s].cancelled => sends[s].filed = <<>>)

\* The button of a request says Stop exactly while one of its sends is under
\* way, whatever is stopped, fired, loaded or answered in which order - for
\* requests whose sends did not get in each other's way.
ButtonTellsTheTruth ==
  \A r \in Requests \ tangled :
    (r \in inFlight) <=> \E s \in Sends :
      /\ sends[s].req = r /\ At(s, {"authorizing", "wire", "live"})
      /\ ~(At(s, {"authorizing"}) /\ sends[s].regretted)

\* A send that was stopped before its token came is never sent, unless the
\* same request was sent again: the guard (request-editor.js 3046) asks for
\* the request, not for the send.
StoppedSendStaysHome ==
  \A s \in Sends : sends[s].regretted /\ sends[s].req \notin tangled =>
    engine[s].phase = "idle"

\* Stop is final, before the execution or during it, and no run is recorded
\* twice.
StopIsFinal == RecordedOnce /\ StoppedSendStaysHome

\* A schedule belongs to the request on screen, and an interval that waits
\* for its send has one to wait for (scheduled-send.js 173).
IntervalWaitsForItsSend ==
  schedule # NoSchedule =>
    /\ schedule.req = currentNode
    /\ schedule.phase = "firing" =>
         schedule.req \in tangled \/ Underway(schedule.req)

\* Whatever is stopped, answered, loaded or reloaded in which order, and even for
\* requests whose sends got in each other's way, a button that says Stop has
\* something on its way that settles it: a token, an execution or its answer, or
\* the stream it was handed to (request-editor.js 570-577, app.js 2112-2205).
Pending(s) ==
  \/ At(s, {"authorizing"})
  \/ At(s, {"wire"}) /\ (engine[s].phase = "running" \/ toWindow[s] # <<>>)
NoButtonIsStuck ==
  \A r \in inFlight :
    \/ \E s \in Sends : sends[s].req = r /\ Pending(s)
    \/ \E s \in Sends : streaming[r] = s /\ (engine[s].phase = "live" \/ toWindow[s] # <<>>)

\* "this send belongs to the request that was loaded when it started"
\* (request-editor.js 2856): its fields are that request's.
SendIsOfOneRequest == \A s \in Sends : sends[s].from \subseteq {sends[s].req}

\* "Route to the request that was sent, not the current selection" (app.js
\* 1997): its run is recorded under it.
RunsAreFiledUnderTheirRequest ==
  \A s \in Sends : \A i \in 1..Len(sends[s].filed) : sends[s].filed[i] = sends[s].req
=============================================================================

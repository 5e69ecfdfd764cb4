--------------------------- MODULE WsConnections ---------------------------
(***************************************************************************)
(* WebSocket connections: the hub of sockets in the main process           *)
(* (net/websocket.js, ipc/websocket.js), the window's registry of live     *)
(* connections (app.js, ws-handlers.js) and the Connect button of the      *)
(* request on screen (request-editor.js).                                  *)
(*                                                                         *)
(* A socket's id is the number of the attempt that opened it.  The main    *)
(* process serves a call as soon as it is made; its answers and pushes     *)
(* arrive later, those of one socket in their order.                       *)
(***************************************************************************)
EXTENDS Naturals, Sequences, FiniteSets, SequencesExt

CONSTANTS
  Sessions,      \* WebSocket requests
  MaxSockets,    \* bound on the attempts to connect
  MaxNavigations,\* bound on reloads of the window
  Nobody         \* no request on screen

ASSUME WsAssumption ==
  MaxSockets \in Nat /\ MaxNavigations \in Nat /\ Nobody \notin Sessions

Sockets == 1..MaxSockets

VARIABLES
  selected,      \* _selectedNode
  button,        \* #wsState
  attempts,      \* what each run of connect awaits
  registry,      \* _wsConns, in the order of insertion
  early,         \* _wsPendingTerminal: sockets that died, and how
  question,      \* the modal "keep it open?", asked on leaving a request
  leaving,       \* request-selected handlers that await ws:close
  hub,           \* the sockets of the main process
  pushes,        \* per socket, what is on its way to the window
  navigations

windowVars == <<selected, button, attempts, registry, early, question, leaving>>
wsVars == <<windowVars, hub, pushes, navigations>>

NoQuestion == [from |-> Nobody, to |-> Nobody]
Alive(a) == hub[a] \in {"connecting", "open"}

WsInit ==
  /\ selected \in Sessions /\ button = "idle"
  /\ attempts = [a \in Sockets |-> "unused"] /\ registry = <<>> /\ early = [a \in Sockets |-> "none"]
  /\ question = NoQuestion /\ leaving = {}
  /\ hub = [a \in Sockets |-> "none"] /\ pushes = [a \in Sockets |-> <<>>]
  /\ navigations = 0

\* _connForRequest: the connection of a request that was registered first.  What was
\* registered while no request was on screen is nobody's: it is filed under null, and
\* looked up as undefined.
Connected(r) == r # Nobody /\ \E i \in DOMAIN registry : registry[i].req = r
FirstOf(r) == CHOOSE i \in DOMAIN registry :
  registry[i].req = r /\ \A j \in 1..(i - 1) : registry[j].req # r
ConnOf(r) == registry[FirstOf(r)]

\* The registry is keyed by the id of the socket.
PosOf(id) == CHOOSE i \in DOMAIN registry : registry[i].id = id
Without(id) == RemoveAt(registry, PosOf(id))

\* What the button shows of a request it is told to resume.
StateOf(r) == IF Connected(r) THEN ConnOf(r).state ELSE "idle"

-----------------------------------------------------------------------------
(* The hub *)

\* ws:close: a handshake is torn down, an open socket begins to close.
CloseSocket(id) ==
  IF hub[id] = "connecting"
  THEN /\ hub' = [hub EXCEPT ![id] = "none"]
       /\ pushes' = [pushes EXCEPT ![id] = @ \o <<"error", "closed">>]
  ELSE /\ hub' = [hub EXCEPT ![id] = IF @ = "open" THEN "closing" ELSE @]
       /\ UNCHANGED pushes

HandshakeDone(a) ==
  /\ hub[a] = "connecting"
  /\ hub' = [hub EXCEPT ![a] = "open"]
  /\ pushes' = [pushes EXCEPT ![a] = Append(@, "open")]
  /\ UNCHANGED <<windowVars, navigations>>

\* Refused with a status, or unable to connect: an error, then its close.
HandshakeFails(a, refused) ==
  /\ hub[a] = "connecting"
  /\ hub' = [hub EXCEPT ![a] = "none"]
  /\ pushes' = [pushes EXCEPT ![a] = @ \o IF refused THEN <<"error">> ELSE <<"error", "closed">>]
  /\ UNCHANGED <<windowVars, navigations>>

\* The peer closes, the connection breaks, or a close is complete.
SocketEnds(a, broken) ==
  /\ hub[a] \in {"open", "closing"}
  /\ hub' = [hub EXCEPT ![a] = "none"]
  /\ pushes' = [pushes EXCEPT ![a] = @ \o IF broken THEN <<"error", "closed">> ELSE <<"closed">>]
  /\ UNCHANGED <<windowVars, navigations>>

-----------------------------------------------------------------------------
(* Connecting *)

Asked == question # NoQuestion

\* The button, unless it reads Disconnect: the fields are resolved first.
PressConnect(a) ==
  /\ selected # Nobody /\ ~Asked /\ button \notin {"open", "connecting"}
  /\ attempts[a] = "unused" /\ \A b \in 1..(a - 1) : attempts[b] # "unused"
  /\ attempts' = [attempts EXCEPT ![a] = "resolving"]
  /\ UNCHANGED <<selected, button, registry, early, question, leaving, hub, pushes, navigations>>

\* ws:open: a URL that is none fails before the call is answered.
Open(a, valid) ==
  /\ attempts' = [attempts EXCEPT ![a] = "opening"] /\ button' = "connecting"
  /\ hub' = [hub EXCEPT ![a] = IF valid THEN "connecting" ELSE @]
  /\ pushes' = [pushes EXCEPT ![a] = IF valid THEN <<"reply">> ELSE <<"error", "reply">>]

\* ws-connect: a connection of the request on screen is closed first.
Connect(a, valid) ==
  /\ attempts[a] = "resolving"
  /\ IF Connected(selected)
     THEN LET old == ConnOf(selected).id IN
          /\ registry' = Without(old) /\ CloseSocket(old)
          /\ attempts' = [attempts EXCEPT ![a] = "closing"] /\ UNCHANGED button
     ELSE Open(a, valid) /\ UNCHANGED registry
  /\ UNCHANGED <<selected, early, question, leaving, navigations>>

OldOneClosed(a, valid) ==
  /\ attempts[a] = "closing"
  /\ Open(a, valid)
  /\ UNCHANGED <<selected, registry, early, question, leaving, navigations>>

\* Variant: nobody looks whether the socket has already died.
Variant_ReplyIgnoresEarly(a) ==
  /\ pushes[a] # <<>> /\ Head(pushes[a]) = "reply"
  /\ pushes' = [pushes EXCEPT ![a] = Tail(@)]
  /\ attempts' = [attempts EXCEPT ![a] = "over"]
  /\ registry' = Append(registry, [id |-> a, req |-> selected, state |-> "connecting"])
  /\ UNCHANGED <<selected, button, early, question, leaving, hub, navigations>>

\* The answer of ws:open: the socket is registered under the request that is
\* on screen now, unless it died before it could be.
Reply(a) ==
  /\ pushes[a] # <<>> /\ Head(pushes[a]) = "reply"
  /\ pushes' = [pushes EXCEPT ![a] = Tail(@)]
  /\ attempts' = [attempts EXCEPT ![a] = "over"]
  /\ IF early[a] # "none"
     THEN /\ early' = [early EXCEPT ![a] = "none"] /\ button' = early[a]
          /\ UNCHANGED registry
     ELSE /\ registry' = Append(registry, [id |-> a, req |-> selected, state |-> "connecting"])
          /\ UNCHANGED <<early, button>>
  /\ UNCHANGED <<selected, question, leaving, hub, navigations>>

\* _onWsStatus
Status(a) ==
  /\ pushes[a] # <<>> /\ Head(pushes[a]) # "reply"
  /\ pushes' = [pushes EXCEPT ![a] = Tail(@)]
  /\ LET state == Head(pushes[a])
         dead == state \in {"error", "closed"}
         known == {i \in DOMAIN registry : registry[i].id = a}
     IN IF known = {}
        THEN /\ early' = IF dead THEN [early EXCEPT ![a] = state] ELSE early
             /\ UNCHANGED <<registry, button>>
        ELSE /\ registry' = IF dead THEN Without(a)
                            ELSE [i \in DOMAIN registry |->
                                   IF i \in known THEN [registry[i] EXCEPT !.state = state]
                                   ELSE registry[i]]
             /\ button' = IF selected # Nobody /\ \E i \in known : registry[i].req = selected
                          THEN state ELSE button
             /\ UNCHANGED early
  /\ UNCHANGED <<selected, attempts, question, leaving, hub, navigations>>

\* The button reads Disconnect.  A connection that is not registered yet
\* cannot be closed.
PressDisconnect ==
  /\ ~Asked /\ button \in {"open", "connecting"} /\ Connected(selected)
  /\ LET old == ConnOf(selected).id IN
     /\ registry' = [i \in DOMAIN registry |->
          IF registry[i].id = old THEN [registry[i] EXCEPT !.state = "closing"] ELSE registry[i]]
     /\ CloseSocket(old)
  /\ button' = "closing"
  /\ UNCHANGED <<selected, attempts, early, question, leaving, navigations>>

-----------------------------------------------------------------------------
(* Leaving a request *)

SelectSession(r) ==
  /\ ~Asked /\ r # selected /\ selected' = r
  /\ IF Connected(selected) /\ ConnOf(selected).state \in {"open", "connecting"}
     THEN question' = [from |-> selected, to |-> r] /\ UNCHANGED button
     ELSE button' = StateOf(r) /\ UNCHANGED question
  /\ UNCHANGED <<attempts, registry, early, leaving, hub, pushes, navigations>>

KeepOpen ==
  /\ Asked /\ question' = NoQuestion /\ button' = StateOf(question.to)
  /\ UNCHANGED <<selected, attempts, registry, early, leaving, hub, pushes, navigations>>

\* By the time of the answer the connection may have died by itself.
CloseOnLeaving ==
  /\ Asked /\ question' = NoQuestion
  /\ IF Connected(question.from)
     THEN LET old == ConnOf(question.from).id IN
          /\ registry' = Without(old) /\ CloseSocket(old)
          /\ leaving' = leaving \cup {question.to} /\ UNCHANGED button
     ELSE button' = StateOf(question.to) /\ UNCHANGED <<registry, leaving, hub, pushes>>
  /\ UNCHANGED <<selected, attempts, early, navigations>>

\* ws:close is answered: the request selected then is resumed, whichever is
\* on screen.
ResumeSession(r) ==
  /\ r \in leaving /\ leaving' = leaving \ {r} /\ button' = StateOf(r)
  /\ UNCHANGED <<selected, attempts, registry, early, question, hub, pushes, navigations>>

\* _clearRequestEditor: the request is gone, or its collection left.  It asks
\* to close the connection of no request in particular, and none is.
ClearEditor ==
  /\ ~Asked /\ selected # Nobody /\ selected' = Nobody
  /\ UNCHANGED <<button, attempts, registry, early, question, leaving, hub, pushes, navigations>>

\* Variant: a reload leaves the sockets alone.
Variant_NavigateKeepsSockets ==
  /\ navigations < MaxNavigations /\ navigations' = navigations + 1
  /\ button' = "idle" /\ registry' = <<>> /\ early' = [a \in Sockets |-> "none"]
  /\ attempts' = [a \in Sockets |-> IF attempts[a] = "unused" THEN "unused" ELSE "over"]
  /\ question' = NoQuestion /\ leaving' = {}
  /\ pushes' = [a \in Sockets |-> <<>>]
  /\ UNCHANGED <<selected, hub>>

\* did-navigate: the window starts over, its sockets are dropped.
Navigate ==
  /\ navigations < MaxNavigations /\ navigations' = navigations + 1
  /\ button' = "idle" /\ registry' = <<>> /\ early' = [a \in Sockets |-> "none"]
  /\ attempts' = [a \in Sockets |-> IF attempts[a] = "unused" THEN "unused" ELSE "over"]
  /\ question' = NoQuestion /\ leaving' = {}
  /\ hub' = [a \in Sockets |-> "none"] /\ pushes' = [a \in Sockets |-> <<>>]
  /\ UNCHANGED selected

WsNext ==
  \/ \E a \in Sockets :
       \/ HandshakeDone(a) \/ PressConnect(a) \/ Reply(a) \/ Status(a)
       \/ \E flag \in BOOLEAN :
            HandshakeFails(a, flag) \/ SocketEnds(a, flag) \/ Connect(a, flag) \/ OldOneClosed(a, flag)
  \/ PressDisconnect
  \/ \E r \in Sessions : SelectSession(r) \/ ResumeSession(r)
  \/ KeepOpen \/ CloseOnLeaving \/ ClearEditor \/ Navigate

WsSpec == WsInit /\ [][WsNext]_wsVars

-----------------------------------------------------------------------------
(* Properties *)

\* The type invariant.
WsTypeOK ==
  /\ selected \in Sessions \cup {Nobody}
  /\ button \in {"idle", "connecting", "open", "closing", "closed", "error"}
  /\ attempts \in [Sockets -> {"unused", "resolving", "closing", "opening", "over"}]
  /\ \A i \in DOMAIN registry :
       registry[i] \in [id : Sockets, req : Sessions \cup {Nobody},
                        state : {"connecting", "open", "closing"}]
  /\ early \in [Sockets -> {"none", "error", "closed"}]
  /\ leaving \subseteq Sessions
  /\ hub \in [Sockets -> {"none", "connecting", "open", "closing"}]
  /\ \A a \in Sockets : ToSet(pushes[a]) \subseteq {"reply", "open", "error", "closed"}

Registered(a) == \E i \in DOMAIN registry : registry[i].id = a
Coming(a, what) == \E i \in DOMAIN pushes[a] : pushes[a][i] \in what

\* A socket that is alive is one the window has in its registry, or will hear of by
\* the answer of ws:open ("never leak a socket past its renderer", ipc/websocket.js
\* 91): no reload, early death or second connection makes it forget one.  That it can
\* close the socket too is not said: see ClearingTearsDown.
NoSocketIsLost ==
  \A a \in Sockets : Alive(a) => Registered(a) \/ Coming(a, {"reply"})

\* No "live-dot is stranded for a socket that already died" (app.js 706-710):
\* what is registered is alive, or the news of its end is on the way.
NoDotIsStranded ==
  \A a \in Sockets : Registered(a) =>
    hub[a] # "none" \/ Coming(a, {"error", "closed"})

\* The window's registry and the sockets of the main process agree, up to what
\* is on its way.
RegistryMatchesHub == NoSocketIsLost /\ NoDotIsStranded

\* "Tear down any live WebSocket and restore the normal Response viewer" (app.js
\* 3873): when the editor is cleared, the connection of the request that was on screen
\* is closed.  Nothing else would close it: no handler looks it up again unless the
\* request is selected.
ClearingTearsDown ==
  [][(Connected(selected) /\ selected' = Nobody)
       => hub'[ConnOf(selected).id] \in {"none", "closing"}]_wsVars
=============================================================================

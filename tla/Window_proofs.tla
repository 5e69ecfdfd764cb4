--------------------------- MODULE Window_proofs ---------------------------
(***************************************************************************)
(* Proofs about what the window keeps in step with the main process:       *)
(* WebSocket connections (WsConnections), for any requests and any number  *)
(* of attempts and of reloads, the environments of the active collection   *)
(* (EnvironmentWrites), for any collections and any number of writes,      *)
(* calls and switches, and the runs of a folder (FolderRun), for any tree  *)
(* and any number of runs.                                                 *)
(***************************************************************************)
EXTENDS WsConnections, EnvironmentWrites, FolderRun, FiniteSetTheorems, SequenceTheorems,
        WellFoundedInduction, TLAPS

-----------------------------------------------------------------------------
(* Sequences of pushes *)

Push == {"reply", "open", "error", "closed"}
Dead == {"error", "closed"}

Has(s, what) == \E i \in DOMAIN s : s[i] \in what
OneReply(s) == \A i, j \in DOMAIN s : s[i] = "reply" /\ s[j] = "reply" => i = j

\* What the window reads is the first of what is on its way.
LEMMA PushTaken ==
  ASSUME NEW s \in Seq(Push), s # <<>>
  PROVE  /\ Head(s) \in Push /\ Tail(s) \in Seq(Push)
         /\ \A what : Has(s, what) <=> Head(s) \in what \/ Has(Tail(s), what)
         /\ OneReply(s) => OneReply(Tail(s))
         /\ OneReply(s) /\ Head(s) = "reply" => ~Has(Tail(s), {"reply"})
<1>1. /\ Len(s) \in Nat \ {0} /\ DOMAIN s = 1..Len(s) /\ Head(s) = s[1]
      /\ Head(s) \in Push /\ Tail(s) \in Seq(Push) /\ DOMAIN Tail(s) = 1..(Len(s) - 1)
      /\ \A i \in 1..(Len(s) - 1) : Tail(s)[i] = s[i + 1]
  BY EmptySeq, HeadTailProperties, LenProperties
<1>2. \A i \in DOMAIN s : i = 1 \/ (i - 1 \in DOMAIN Tail(s) /\ Tail(s)[i - 1] = s[i])
  BY <1>1
<1>3. \A i \in DOMAIN Tail(s) : i + 1 \in DOMAIN s /\ Tail(s)[i] = s[i + 1] /\ i + 1 # 1
  BY <1>1
<1>4. ASSUME NEW what PROVE Has(s, what) <=> Head(s) \in what \/ Has(Tail(s), what)
  <2>1. Has(s, what) => Head(s) \in what \/ Has(Tail(s), what)
    BY <1>1, <1>2 DEF Has
  <2>2. Has(Tail(s), what) => Has(s, what)
    BY <1>3 DEF Has
  <2>3. Head(s) \in what => Has(s, what)
    <3>1. 1 \in DOMAIN s
      BY <1>1
    <3> QED
      BY <1>1, <3>1 DEF Has
  <2> QED
    BY <2>1, <2>2, <2>3
<1>5. OneReply(s) => OneReply(Tail(s))
  BY <1>1, <1>3 DEF OneReply
<1>6. OneReply(s) /\ Head(s) = "reply" => ~Has(Tail(s), {"reply"})
  <2>1. 1 \in DOMAIN s
    BY <1>1
  <2> QED
    BY <1>1, <1>3, <2>1 DEF OneReply, Has
<1> QED
  BY <1>1, <1>4, <1>5, <1>6

\* The pushes of one step are sent behind those on their way.
LEMMA PushesSent ==
  ASSUME NEW s \in Seq(Push), NEW t \in Seq(Push)
  PROVE  /\ s \o t \in Seq(Push)
         /\ \A what : Has(s \o t, what) <=> Has(s, what) \/ Has(t, what)
         /\ OneReply(s) /\ ~Has(t, {"reply"}) => OneReply(s \o t)
<1>1. /\ Len(s) \in Nat /\ DOMAIN s = 1..Len(s) /\ Len(t) \in Nat /\ DOMAIN t = 1..Len(t)
      /\ s \o t \in Seq(Push) /\ DOMAIN (s \o t) = 1..(Len(s) + Len(t))
      /\ \A i \in 1..(Len(s) + Len(t)) :
           (s \o t)[i] = IF i <= Len(s) THEN s[i] ELSE t[i - Len(s)]
  BY ConcatProperties, LenProperties
<1>2. \A i \in DOMAIN (s \o t) :
        \/ i \in DOMAIN s /\ (s \o t)[i] = s[i]
        \/ i - Len(s) \in DOMAIN t /\ (s \o t)[i] = t[i - Len(s)]
  BY <1>1
<1>3. /\ \A i \in DOMAIN s : i \in DOMAIN (s \o t) /\ (s \o t)[i] = s[i]
      /\ \A i \in DOMAIN t : Len(s) + i \in DOMAIN (s \o t) /\ (s \o t)[Len(s) + i] = t[i]
  BY <1>1
<1>4. ASSUME NEW what PROVE Has(s \o t, what) <=> Has(s, what) \/ Has(t, what)
  <2>1. Has(s \o t, what) => Has(s, what) \/ Has(t, what)
    BY <1>2 DEF Has
  <2>2. Has(s, what) \/ Has(t, what) => Has(s \o t, what)
    BY <1>3 DEF Has
  <2> QED
    BY <2>1, <2>2
<1>5. OneReply(s) /\ ~Has(t, {"reply"}) => OneReply(s \o t)
  BY <1>2 DEF OneReply, Has
<1> QED
  BY <1>1, <1>4, <1>5

LEMMA NoPush == <<>> \in Seq(Push) /\ OneReply(<<>>) /\ \A what : ~Has(<<>>, what)
  BY EmptySeq DEF OneReply, Has

LEMMA OnePush ==
  ASSUME NEW x \in Push
  PROVE  /\ <<x>> \in Seq(Push) /\ <<x>> # <<>> /\ OneReply(<<x>>)
         /\ \A what : Has(<<x>>, what) <=> x \in what
  BY DEF OneReply, Has

LEMMA TwoPushes ==
  ASSUME NEW x \in Push, NEW y \in Push
  PROVE  /\ <<x, y>> \in Seq(Push) /\ <<x, y>> # <<>>
         /\ x # y => OneReply(<<x, y>>)
         /\ \A what : Has(<<x, y>>, what) <=> x \in what \/ y \in what
  BY DEF OneReply, Has

-----------------------------------------------------------------------------
(* The registry *)

Entry == [id : Sockets, req : Sessions \cup {Nobody}, state : {"connecting", "open", "closing"}]
Ids(s) == {s[i].id : i \in DOMAIN s}
Keyed(s) == \A i, j \in DOMAIN s : s[i].id = s[j].id => i = j

\* Removing an entry removes its id, and no other.
LEMMA EntryRemoved ==
  ASSUME NEW s \in Seq(Entry), Keyed(s), NEW p \in DOMAIN s
  PROVE  /\ RemoveAt(s, p) \in Seq(Entry) /\ Keyed(RemoveAt(s, p))
         /\ Ids(RemoveAt(s, p)) = Ids(s) \ {s[p].id}
<1> DEFINE t == RemoveAt(s, p)
           u == SubSeq(s, 1, p - 1)
           v == SubSeq(s, p + 1, Len(s))
<1>1. Len(s) \in Nat /\ DOMAIN s = 1..Len(s) /\ p \in 1..Len(s) /\ \A i \in 1..Len(s) : s[i] \in Entry
  BY LenProperties, ElementOfSeq
<1>2. /\ u \in Seq(Entry) /\ Len(u) = p - 1
      /\ \A i \in 1..(p - 1) : u[i] = s[i]
  <2>1. 1 \in Int /\ p - 1 \in Int /\ \A i \in 1..(p - 1) : s[i] \in Entry
    BY <1>1
  <2>2. /\ u \in Seq(Entry) /\ Len(u) = IF 1 <= p - 1 THEN p - 1 - 1 + 1 ELSE 0
        /\ \A i \in 1..(p - 1 - 1 + 1) : u[i] = s[1 + i - 1]
    BY <2>1, SubSeqProperties
  <2>3. p - 1 - 1 + 1 = p - 1 /\ (~(1 <= p - 1) => p - 1 = 0) /\ \A i \in 1..(p - 1) : 1 + i - 1 = i
    BY <1>1
  <2> QED
    BY <2>2, <2>3
<1>3. /\ v \in Seq(Entry) /\ Len(v) = Len(s) - p
      /\ \A i \in 1..(Len(s) - p) : v[i] = s[p + i]
  <2>1. p + 1 \in Int /\ Len(s) \in Int /\ \A i \in (p + 1)..Len(s) : s[i] \in Entry
    BY <1>1
  <2>2. /\ v \in Seq(Entry) /\ Len(v) = IF p + 1 <= Len(s) THEN Len(s) - (p + 1) + 1 ELSE 0
        /\ \A i \in 1..(Len(s) - (p + 1) + 1) : v[i] = s[p + 1 + i - 1]
    BY <2>1, SubSeqProperties
  <2>3. /\ Len(s) - (p + 1) + 1 = Len(s) - p /\ (~(p + 1 <= Len(s)) => Len(s) - p = 0)
        /\ \A i \in 1..(Len(s) - p) : p + 1 + i - 1 = p + i
    BY <1>1
  <2> QED
    BY <2>2, <2>3
<1>4. t = u \o v
  BY DEF RemoveAt
<1> HIDE DEF u, v, t
<1>5. /\ t \in Seq(Entry) /\ Len(t) = Len(s) - 1
      /\ \A i \in 1..(Len(s) - 1) : t[i] = IF i < p THEN s[i] ELSE s[i + 1]
  <2>1. /\ t \in Seq(Entry) /\ Len(t) = Len(u) + Len(v)
        /\ \A i \in 1..(Len(u) + Len(v)) : t[i] = IF i <= Len(u) THEN u[i] ELSE v[i - Len(u)]
    BY <1>2, <1>3, <1>4, ConcatProperties
  <2>2. Len(u) + Len(v) = Len(s) - 1
    BY <1>1, <1>2, <1>3
  <2>3. ASSUME NEW i \in 1..(Len(s) - 1) PROVE t[i] = IF i < p THEN s[i] ELSE s[i + 1]
    <3>1. CASE i < p
      <4>1. i <= Len(u) /\ i \in 1..(p - 1)
        BY <1>1, <1>2, <3>1
      <4> QED
        BY <2>1, <2>2, <1>2, <3>1, <4>1
    <3>2. CASE ~(i < p)
      <4>1. ~(i <= Len(u)) /\ i - Len(u) \in 1..(Len(s) - p) /\ p + (i - Len(u)) = i + 1
        BY <1>1, <1>2, <3>2
      <4> QED
        BY <2>1, <2>2, <1>3, <3>2, <4>1
    <3> QED
      BY <3>1, <3>2
  <2> QED
    BY <2>1, <2>2, <2>3
<1>6. DOMAIN t = 1..(Len(s) - 1)
  BY <1>5, LenProperties
<1>7. \A i \in DOMAIN t : LET k == IF i < p THEN i ELSE i + 1 IN
        k \in DOMAIN s /\ k # p /\ t[i] = s[k]
  BY <1>1, <1>5, <1>6
<1>8. \A k \in DOMAIN s : k # p =>
        LET i == IF k < p THEN k ELSE k - 1 IN i \in DOMAIN t /\ t[i] = s[k]
  BY <1>1, <1>5, <1>6
<1>9. Keyed(t)
  <2> SUFFICES ASSUME NEW i \in DOMAIN t, NEW j \in DOMAIN t, t[i].id = t[j].id PROVE i = j
    BY DEF Keyed
  <2>1. (IF i < p THEN i ELSE i + 1) = (IF j < p THEN j ELSE j + 1)
    BY <1>7 DEF Keyed
  <2> QED
    BY <1>1, <1>6, <2>1
<1>10. Ids(t) = Ids(s) \ {s[p].id}
  <2>1. ASSUME NEW x \in Ids(t) PROVE x \in Ids(s) \ {s[p].id}
    BY <1>7 DEF Ids, Keyed
  <2>2. ASSUME NEW x \in Ids(s) \ {s[p].id} PROVE x \in Ids(t)
    <3>1. PICK k \in DOMAIN s : x = s[k].id
      BY DEF Ids
    <3>2. k # p
      BY <3>1
    <3>3. PICK i \in DOMAIN t : t[i] = s[k]
      BY <1>8, <3>2
    <3> QED
      BY <3>1, <3>3 DEF Ids
  <2> QED
    BY <2>1, <2>2
<1> QED
  BY <1>5, <1>9, <1>10 DEF t

\* A socket that is not registered is registered once.
LEMMA EntryAdded ==
  ASSUME NEW s \in Seq(Entry), Keyed(s), NEW e \in Entry, e.id \notin Ids(s)
  PROVE  /\ Append(s, e) \in Seq(Entry) /\ Keyed(Append(s, e))
         /\ Ids(Append(s, e)) = Ids(s) \cup {e.id}
<1> DEFINE t == Append(s, e)
           n == Len(s) + 1
<1>1. Len(s) \in Nat /\ DOMAIN s = 1..Len(s)
  BY LenProperties
<1>2. t \in Seq(Entry) /\ Len(t) = n /\ (\A i \in 1..Len(s) : t[i] = s[i]) /\ t[n] = e
  BY AppendProperties
<1>3. DOMAIN t = 1..n
  BY <1>2, LenProperties
<1> HIDE DEF t
<1>4. \A i \in DOMAIN t : (i = n /\ t[i] = e) \/ (i \in DOMAIN s /\ t[i] = s[i])
  BY <1>1, <1>2, <1>3
<1>5. n \in DOMAIN t /\ \A i \in DOMAIN s : i \in DOMAIN t
  BY <1>1, <1>3
<1>6. Keyed(t)
  BY <1>4 DEF Keyed, Ids
<1>7. Ids(t) = Ids(s) \cup {e.id}
  <2>1. Ids(t) \subseteq Ids(s) \cup {e.id}
    BY <1>4 DEF Ids
  <2>2. e.id \in Ids(t)
    BY <1>2, <1>5 DEF Ids
  <2>3. Ids(s) \subseteq Ids(t)
    BY <1>1, <1>2, <1>5 DEF Ids
  <2> QED
    BY <2>1, <2>2, <2>3
<1> QED
  BY <1>2, <1>6, <1>7 DEF t

\* Restating some entries leaves their ids alone.
LEMMA EntriesRestated ==
  ASSUME NEW s \in Seq(Entry), Keyed(s), NEW t, DOMAIN t = DOMAIN s,
         t = [i \in DOMAIN s |-> t[i]],
         \A i \in DOMAIN s : t[i] \in Entry /\ t[i].id = s[i].id
  PROVE  t \in Seq(Entry) /\ Keyed(t) /\ Ids(t) = Ids(s)
<1>1. Len(s) \in Nat /\ DOMAIN s = 1..Len(s)
  BY LenProperties
<1>2. t \in [1..Len(s) -> Entry]
  BY <1>1
<1>3. t \in Seq(Entry)
  BY <1>1, <1>2, SeqDef
<1>4. Keyed(t) /\ Ids(t) = Ids(s)
  BY DEF Keyed, Ids
<1> QED
  BY <1>3, <1>4

\* The connection of a request is the one that was registered first, and there
\* is a first.
LEMMA FirstConnection ==
  ASSUME registry \in Seq(Entry), NEW r, Connected(r)
  PROVE  /\ FirstOf(r) \in DOMAIN registry /\ ConnOf(r) \in Entry
         /\ ConnOf(r).id \in Ids(registry)
<1> DEFINE S == {i \in DOMAIN registry : registry[i].req = r}
<1>1. Len(registry) \in Nat /\ DOMAIN registry = 1..Len(registry)
  BY LenProperties
<1>2. S \subseteq Nat /\ S # {}
  BY <1>1 DEF Connected
<1>3. PICK i \in S : \A j \in S : <<j, i>> \notin OpToRel(<, Nat)
  BY <1>2, NatLessThanWellFounded, WFMin
<1>4. \A j \in S : ~(j < i)
  BY <1>2, <1>3 DEF OpToRel
<1>5. i \in DOMAIN registry /\ registry[i].req = r /\ \A j \in 1..(i - 1) : registry[j].req # r
  BY <1>1, <1>4
<1>6. FirstOf(r) \in DOMAIN registry
  BY <1>5 DEF FirstOf
<1>7. ConnOf(r) \in Entry
  BY <1>1, <1>6, ElementOfSeq DEF ConnOf
<1> QED
  BY <1>6, <1>7 DEF ConnOf, Ids

\* Which entry is dropped when a socket is.
LEMMA Dropped ==
  ASSUME registry \in Seq(Entry), Keyed(registry), NEW id \in Ids(registry)
  PROVE  /\ Without(id) \in Seq(Entry) /\ Keyed(Without(id))
         /\ Ids(Without(id)) = Ids(registry) \ {id}
<1>1. \E i \in DOMAIN registry : registry[i].id = id
  BY DEF Ids
<1>2. PosOf(id) \in DOMAIN registry /\ registry[PosOf(id)].id = id
  BY <1>1 DEF PosOf
<1> QED
  BY <1>2, EntryRemoved DEF Without

-----------------------------------------------------------------------------
(* The invariant *)

Attempt == {"unused", "resolving", "closing", "opening", "over"}
Button == {"idle", "connecting", "open", "closing", "closed", "error"}
HubState == {"none", "connecting", "open", "closing"}

SocketsTyped ==
  /\ selected \in Sessions \cup {Nobody} /\ button \in Button
  /\ attempts \in [Sockets -> Attempt]
  /\ registry \in Seq(Entry) /\ Keyed(registry)
  /\ early \in [Sockets -> {"none", "error", "closed"}]
  /\ question \in [from : Sessions \cup {Nobody}, to : Sessions \cup {Nobody}]
  /\ Asked => question.to \in Sessions
  /\ leaving \subseteq Sessions
  /\ hub \in [Sockets -> HubState] /\ pushes \in [Sockets -> Seq(Push)]

\* Until ws:open is called a socket has left no trace.
Fresh(a) ==
  attempts[a] \in {"unused", "resolving", "closing"} =>
    hub[a] = "none" /\ pushes[a] = <<>> /\ early[a] = "none"

\* An attempt is answered once, and registered only by its answer.
AnsweredOnce(a) ==
  /\ Has(pushes[a], {"reply"}) => attempts[a] = "opening"
  /\ OneReply(pushes[a])
  /\ a \in Ids(registry) => attempts[a] = "over"

\* A socket whose end is known, or on its way to be, has ended.
EndIsFinal(a) ==
  Has(pushes[a], Dead) \/ early[a] # "none" => hub[a] = "none"

\* A socket that is alive is registered or will be; one that is registered or
\* will be is alive, or its end is known or on its way to be.
Accounted(a) ==
  /\ Alive(a) => a \in Ids(registry) \/ Has(pushes[a], {"reply"})
  /\ a \in Ids(registry) => hub[a] # "none" \/ Has(pushes[a], Dead)
  /\ attempts[a] = "opening" => hub[a] # "none" \/ Has(pushes[a], Dead) \/ early[a] # "none"

SocketSound(a) == Fresh(a) /\ AnsweredOnce(a) /\ EndIsFinal(a) /\ Accounted(a)

SocketsInv == SocketsTyped /\ \A a \in Sockets : SocketSound(a)

LEMMA InitSocketsInv == WsInit => SocketsInv
<1> SUFFICES ASSUME WsInit PROVE SocketsInv
  OBVIOUS
<1>1. Ids(registry) = {} /\ Keyed(registry) /\ registry \in Seq(Entry)
  BY EmptySeq DEF WsInit, Ids, Keyed
<1>2. SocketsTyped
  BY <1>1, NoPush DEF WsInit, SocketsTyped, Attempt, Button, HubState, NoQuestion, Asked
<1>3. \A a \in Sockets : SocketSound(a)
  BY <1>1, NoPush
     DEF WsInit, SocketSound, Fresh, AnsweredOnce, EndIsFinal, Accounted, Alive
<1> QED
  BY <1>2, <1>3 DEF SocketsInv

\* A socket is sound as long as nothing that is known of it changes.
LEMMA SocketAlone ==
  ASSUME NEW a \in Sockets, SocketSound(a),
         attempts'[a] = attempts[a], hub'[a] = hub[a], pushes'[a] = pushes[a],
         early'[a] = early[a], a \in Ids(registry)' <=> a \in Ids(registry)
  PROVE  SocketSound(a)'
  BY DEF SocketSound, Fresh, AnsweredOnce, EndIsFinal, Accounted, Alive, Has, OneReply

-----------------------------------------------------------------------------
(* The hub's steps *)

\* A socket the window knows, or waits for, changes state and says so.
LEMMA HubStep ==
  ASSUME SocketsInv, NEW a \in Sockets, hub[a] # "none",
         NEW state \in HubState, NEW said \in Seq(Push),
         ~Has(said, {"reply"}),
         state = "none" <=> Has(said, Dead),
         state \in {"connecting", "open"} => Alive(a),
         hub' = [hub EXCEPT ![a] = state],
         pushes' = [pushes EXCEPT ![a] = @ \o said],
         UNCHANGED <<windowVars, navigations>>
  PROVE  SocketsInv'
<1> USE DEF SocketsInv
<1>1. pushes[a] \in Seq(Push) /\ pushes'[a] = pushes[a] \o said /\ hub'[a] = state
  BY DEF SocketsTyped
<1>2. /\ pushes'[a] \in Seq(Push)
      /\ \A what : Has(pushes'[a], what) <=> Has(pushes[a], what) \/ Has(said, what)
      /\ OneReply(pushes[a]) => OneReply(pushes'[a])
  BY <1>1, PushesSent
<1>3. SocketsTyped'
  BY <1>1, <1>2 DEF SocketsTyped, windowVars, Asked
<1>4. SocketSound(a)'
  <2>1. SocketSound(a)
    OBVIOUS
  <2>2. /\ Has(pushes[a]', {"reply"}) <=> Has(pushes[a], {"reply"})
        /\ Has(pushes[a]', Dead) <=> Has(pushes[a], Dead) \/ Has(said, Dead)
        /\ OneReply(pushes[a]) => OneReply(pushes[a]')
        /\ hub[a]' = state /\ UNCHANGED <<attempts, early, Ids(registry)>>
    BY <1>1, <1>2 DEF windowVars, Ids
  <2>3. Fresh(a)'
    BY <2>1, <2>2 DEF SocketSound, Fresh
  <2>4. AnsweredOnce(a)'
    BY <2>1, <2>2 DEF SocketSound, AnsweredOnce
  <2>5. EndIsFinal(a)'
    BY <2>1, <2>2 DEF SocketSound, EndIsFinal
  <2>6. Accounted(a)'
    BY <2>1, <2>2 DEF SocketSound, Accounted, EndIsFinal, Alive
  <2> QED
    BY <2>3, <2>4, <2>5, <2>6 DEF SocketSound
<1>5. ASSUME NEW b \in Sockets, b # a PROVE SocketSound(b)'
  <2>1. hub'[b] = hub[b] /\ pushes'[b] = pushes[b]
    BY <1>5 DEF SocketsTyped
  <2> QED
    BY <2>1, SocketAlone DEF windowVars, Ids
<1> QED
  BY <1>3, <1>4, <1>5

LEMMA HandshakeDoneInv ==
  ASSUME SocketsInv, NEW a \in Sockets, HandshakeDone(a) PROVE SocketsInv'
<1>1. "open" \in Push /\ "open" \in HubState
  BY DEF Push, HubState
<1>2. /\ <<"open">> \in Seq(Push) /\ ~Has(<<"open">>, {"reply"}) /\ ~Has(<<"open">>, Dead)
  BY <1>1, OnePush DEF Dead
<1>3. pushes' = [pushes EXCEPT ![a] = @ \o <<"open">>]
  <2>1. pushes[a] \in Seq(Push)
    BY DEF SocketsInv, SocketsTyped
  <2>2. Append(pushes[a], "open") = pushes[a] \o <<"open">>
    BY <1>1, <2>1, AppendIsConcat
  <2> QED
    BY <2>2 DEF HandshakeDone
<1> QED
  BY <1>1, <1>2, <1>3, HubStep DEF HandshakeDone, Alive

LEMMA HandshakeFailsInv ==
  ASSUME SocketsInv, NEW a \in Sockets, NEW refused \in BOOLEAN, HandshakeFails(a, refused)
  PROVE  SocketsInv'
<1> DEFINE said == IF refused THEN <<"error">> ELSE <<"error", "closed">>
<1>1. "error" \in Push /\ "closed" \in Push /\ "none" \in HubState
  BY DEF Push, HubState
<1>2. said \in Seq(Push) /\ ~Has(said, {"reply"}) /\ Has(said, Dead)
  BY <1>1, OnePush, TwoPushes DEF Dead
<1>3. /\ hub[a] # "none" /\ hub' = [hub EXCEPT ![a] = "none"]
      /\ pushes' = [pushes EXCEPT ![a] = @ \o said]
      /\ UNCHANGED <<windowVars, navigations>>
  BY DEF HandshakeFails
<1> HIDE DEF said
<1> QED
  BY <1>1, <1>2, <1>3, HubStep

LEMMA SocketEndsInv ==
  ASSUME SocketsInv, NEW a \in Sockets, NEW broken \in BOOLEAN, SocketEnds(a, broken)
  PROVE  SocketsInv'
<1> DEFINE said == IF broken THEN <<"error", "closed">> ELSE <<"closed">>
<1>1. "error" \in Push /\ "closed" \in Push /\ "none" \in HubState
  BY DEF Push, HubState
<1>2. said \in Seq(Push) /\ ~Has(said, {"reply"}) /\ Has(said, Dead)
  BY <1>1, OnePush, TwoPushes DEF Dead
<1>3. /\ hub[a] # "none" /\ hub' = [hub EXCEPT ![a] = "none"]
      /\ pushes' = [pushes EXCEPT ![a] = @ \o said]
      /\ UNCHANGED <<windowVars, navigations>>
  BY DEF SocketEnds
<1> HIDE DEF said
<1> QED
  BY <1>1, <1>2, <1>3, HubStep

-----------------------------------------------------------------------------
(* Closing a connection *)

\* What becomes of a registered socket that is closed, and of the others.
LEMMA ClosingSound ==
  ASSUME SocketsInv, NEW id \in Ids(registry), CloseSocket(id)
  PROVE  /\ hub' \in [Sockets -> HubState] /\ pushes' \in [Sockets -> Seq(Push)]
         /\ \A b \in Sockets :
              attempts'[b] = attempts[b] /\ early'[b] = early[b]
              /\ (b \in Ids(registry)' <=> b \in Ids(registry) \ {id}) => SocketSound(b)'
         /\ \A b \in Sockets :
              attempts'[b] = attempts[b] /\ early'[b] = early[b]
              /\ (b \in Ids(registry)' <=> b \in Ids(registry)) => SocketSound(b)'
<1> USE DEF SocketsInv
<1>1. id \in Sockets
  <2>1. \A i \in DOMAIN registry : registry[i] \in Entry
    BY LenProperties, ElementOfSeq DEF SocketsTyped
  <2> QED
    BY <2>1 DEF Ids, Entry
<1>2. pushes[id] \in Seq(Push) /\ hub[id] \in HubState /\ SocketSound(id)
  BY <1>1 DEF SocketsTyped
<1>3. "error" \in Push /\ "closed" \in Push
  BY DEF Push
<1>4. /\ hub' \in [Sockets -> HubState] /\ pushes' \in [Sockets -> Seq(Push)]
      /\ hub'[id] \in {"none", "closing"}
      /\ \A b \in Sockets \ {id} : hub'[b] = hub[b] /\ pushes'[b] = pushes[b]
      /\ OneReply(pushes'[id])
      /\ Has(pushes'[id], {"reply"}) <=> Has(pushes[id], {"reply"})
      /\ Has(pushes'[id], Dead) => hub'[id] = "none"
      /\ hub'[id] # "none" \/ Has(pushes'[id], Dead)
  <2>1. CASE hub[id] = "connecting"
    <3>1. /\ hub' = [hub EXCEPT ![id] = "none"]
          /\ pushes' = [pushes EXCEPT ![id] = @ \o <<"error", "closed">>]
      BY <2>1 DEF CloseSocket
    <3>2. /\ <<"error", "closed">> \in Seq(Push)
          /\ ~Has(<<"error", "closed">>, {"reply"}) /\ Has(<<"error", "closed">>, Dead)
      BY <1>3, TwoPushes DEF Dead
    <3>3. /\ pushes[id] \o <<"error", "closed">> \in Seq(Push)
          /\ Has(pushes[id] \o <<"error", "closed">>, Dead)
          /\ Has(pushes[id] \o <<"error", "closed">>, {"reply"}) <=> Has(pushes[id], {"reply"})
          /\ OneReply(pushes[id] \o <<"error", "closed">>)
      BY <1>2, <3>2, PushesSent DEF SocketSound, AnsweredOnce
    <3>4. hub'[id] = "none" /\ pushes'[id] = pushes[id] \o <<"error", "closed">>
      BY <1>1, <3>1 DEF SocketsTyped
    <3>5. /\ hub' \in [Sockets -> HubState] /\ pushes' \in [Sockets -> Seq(Push)]
          /\ \A b \in Sockets \ {id} : hub'[b] = hub[b] /\ pushes'[b] = pushes[b]
      BY <1>1, <3>1, <3>3 DEF SocketsTyped, HubState
    <3> QED
      BY <3>3, <3>4, <3>5
  <2>2. CASE hub[id] # "connecting"
    <3>1. /\ hub' = [hub EXCEPT ![id] = IF @ = "open" THEN "closing" ELSE @]
          /\ UNCHANGED pushes
      BY <2>2 DEF CloseSocket
    <3>2. /\ hub' \in [Sockets -> HubState] /\ hub'[id] = IF hub[id] = "open" THEN "closing" ELSE hub[id]
          /\ \A b \in Sockets \ {id} : hub'[b] = hub[b]
      BY <1>1, <3>1 DEF SocketsTyped, HubState
    <3> QED
      BY <1>2, <2>2, <3>1, <3>2
         DEF SocketsTyped, HubState, SocketSound, AnsweredOnce, EndIsFinal, Accounted
  <2> QED
    BY <2>1, <2>2
<1>5. ASSUME NEW b \in Sockets, attempts'[b] = attempts[b], early'[b] = early[b],
             \/ b \in Ids(registry)' <=> b \in Ids(registry) \ {id}
             \/ b \in Ids(registry)' <=> b \in Ids(registry)
      PROVE  SocketSound(b)'
  <2>1. CASE b # id
    BY <1>4, <1>5, <2>1, SocketAlone
  <2>2. CASE b = id
    <3>1. attempts'[id] = "over" /\ attempts[id] = "over" /\ early'[id] = early[id]
      BY <1>2, <1>5, <2>2 DEF SocketSound, AnsweredOnce
    <3>2. Has(pushes[id]', {"reply"}) => FALSE
      BY <1>2, <1>4, <3>1 DEF SocketSound, AnsweredOnce
    <3>3. early[id]' # "none" => hub[id]' = "none"
      <4>1. early[id] # "none" => hub[id] = "none"
        BY <1>2 DEF SocketSound, EndIsFinal
      <4>2. hub[id] = "none" => hub'[id] = "none"
        BY <1>1 DEF CloseSocket, SocketsTyped
      <4> QED
        BY <3>1, <4>1, <4>2
    <3>4. Fresh(id)' /\ AnsweredOnce(id)'
      BY <1>4, <3>1, <3>2 DEF Fresh, AnsweredOnce
    <3>5. EndIsFinal(id)'
      BY <1>4, <3>3 DEF EndIsFinal
    <3>6. Accounted(id)'
      BY <1>4, <3>1 DEF Accounted, Alive
    <3> QED
      BY <2>2, <3>4, <3>5, <3>6 DEF SocketSound
  <2> QED
    BY <2>1, <2>2
<1> QED
  BY <1>4, <1>5

LEMMA PressDisconnectInv == ASSUME SocketsInv, PressDisconnect PROVE SocketsInv'
<1> USE DEF SocketsInv
<1> DEFINE old == ConnOf(selected).id
<1>1. old \in Ids(registry) /\ CloseSocket(old)
  BY FirstConnection DEF PressDisconnect, SocketsTyped
<1>2. /\ registry' = [i \in DOMAIN registry |->
           IF registry[i].id = old THEN [registry[i] EXCEPT !.state = "closing"] ELSE registry[i]]
      /\ button' = "closing"
      /\ UNCHANGED <<selected, attempts, early, question, leaving, navigations>>
  BY DEF PressDisconnect
<1> HIDE DEF old
<1>3. \A i \in DOMAIN registry : registry[i] \in Entry
  BY LenProperties, ElementOfSeq DEF SocketsTyped
<1>4. /\ DOMAIN registry' = DOMAIN registry
      /\ \A i \in DOMAIN registry : registry'[i] \in Entry /\ registry'[i].id = registry[i].id
  BY <1>2, <1>3 DEF Entry
<1>5. registry' = [i \in DOMAIN registry |-> registry'[i]]
  BY <1>2
<1>6. registry' \in Seq(Entry) /\ Keyed(registry') /\ Ids(registry') = Ids(registry)
  BY <1>4, <1>5, EntriesRestated DEF SocketsTyped
<1>7. \A b \in Sockets : SocketSound(b)'
  BY <1>1, <1>2, <1>6, ClosingSound
<1>8. SocketsTyped'
  BY <1>1, <1>2, <1>6, ClosingSound DEF SocketsTyped, Asked, Button
<1> QED
  BY <1>7, <1>8

\* What the button shows is one of its states.
LEMMA StateType ==
  ASSUME registry \in Seq(Entry), NEW r PROVE StateOf(r) \in Button
  BY FirstConnection DEF StateOf, Entry, Button

LEMMA CloseOnLeavingInv == ASSUME SocketsInv, CloseOnLeaving PROVE SocketsInv'
<1> USE DEF SocketsInv
<1>1. question.to \in Sessions /\ StateOf(question.to) \in Button
  BY StateType DEF CloseOnLeaving, SocketsTyped
<1>2. question' = NoQuestion /\ UNCHANGED <<selected, attempts, early, navigations>>
  BY DEF CloseOnLeaving
<1>3. CASE Connected(question.from)
  <2> DEFINE old == ConnOf(question.from).id
  <2>1. old \in Ids(registry) /\ CloseSocket(old)
    BY <1>3, FirstConnection DEF CloseOnLeaving, SocketsTyped
  <2>2. registry' = Without(old) /\ leaving' = leaving \cup {question.to} /\ UNCHANGED button
    BY <1>3 DEF CloseOnLeaving
  <2> HIDE DEF old
  <2>3. registry' \in Seq(Entry) /\ Keyed(registry') /\ Ids(registry') = Ids(registry) \ {old}
    BY <2>1, <2>2, Dropped DEF SocketsTyped
  <2>4. \A b \in Sockets : SocketSound(b)'
    BY <1>2, <2>1, <2>3, ClosingSound
  <2>5. SocketsTyped'
    BY <1>1, <1>2, <2>1, <2>2, <2>3, ClosingSound DEF SocketsTyped, Asked, NoQuestion
  <2> QED
    BY <2>4, <2>5
<1>4. CASE ~Connected(question.from)
  <2>1. button' = StateOf(question.to) /\ UNCHANGED <<registry, leaving, hub, pushes>>
    BY <1>4 DEF CloseOnLeaving
  <2>2. \A b \in Sockets : SocketSound(b)'
    BY <1>2, <2>1, SocketAlone DEF Ids
  <2>3. SocketsTyped'
    BY <1>1, <1>2, <2>1 DEF SocketsTyped, Asked, NoQuestion
  <2> QED
    BY <2>2, <2>3
<1> QED
  BY <1>3, <1>4

-----------------------------------------------------------------------------
(* Connecting *)

LEMMA PressConnectInv == ASSUME SocketsInv, NEW a \in Sockets, PressConnect(a) PROVE SocketsInv'
<1> USE DEF SocketsInv
<1>1. /\ attempts[a] = "unused" /\ attempts' = [attempts EXCEPT ![a] = "resolving"]
      /\ UNCHANGED <<selected, button, registry, early, question, leaving, hub, pushes, navigations>>
  BY DEF PressConnect
<1>2. SocketsTyped'
  BY <1>1 DEF SocketsTyped, Attempt, Asked
<1>3. SocketSound(a)'
  <2>1. attempts'[a] = "resolving" /\ SocketSound(a)
    BY <1>1 DEF SocketsTyped
  <2> QED
    BY <1>1, <2>1 DEF SocketSound, Fresh, AnsweredOnce, EndIsFinal, Accounted, Alive, Ids
<1>4. ASSUME NEW b \in Sockets, b # a PROVE SocketSound(b)'
  <2>1. attempts'[b] = attempts[b]
    BY <1>1, <1>4 DEF SocketsTyped
  <2> QED
    BY <1>1, <2>1, SocketAlone DEF Ids
<1> QED
  BY <1>2, <1>3, <1>4

\* ws:open: the answer is on its way, behind the error of a URL that is none.
LEMMA OpenInv ==
  ASSUME SocketsInv, NEW a \in Sockets, NEW valid \in BOOLEAN,
         attempts[a] \in {"resolving", "closing"}, Open(a, valid),
         UNCHANGED <<selected, registry, early, question, leaving, navigations>>
  PROVE  SocketsInv'
<1> USE DEF SocketsInv
<1>1. SocketSound(a) /\ hub[a] = "none" /\ pushes[a] = <<>> /\ early[a] = "none" /\ a \notin Ids(registry)
  BY DEF SocketSound, Fresh, AnsweredOnce
<1>2. "error" \in Push /\ "reply" \in Push
  BY DEF Push
<1> DEFINE said == IF valid THEN <<"reply">> ELSE <<"error", "reply">>
<1>3. /\ said \in Seq(Push) /\ OneReply(said) /\ Has(said, {"reply"})
      /\ Has(said, Dead) <=> ~valid
  BY <1>2, OnePush, TwoPushes DEF Dead
<1>4. /\ attempts' = [attempts EXCEPT ![a] = "opening"] /\ button' = "connecting"
      /\ hub' = [hub EXCEPT ![a] = IF valid THEN "connecting" ELSE @]
      /\ pushes' = [pushes EXCEPT ![a] = said]
  BY DEF Open
<1> HIDE DEF said
<1>5. SocketsTyped'
  BY <1>3, <1>4 DEF SocketsTyped, Asked, Attempt, HubState, Button
<1>6. /\ attempts[a]' = "opening" /\ pushes[a]' = said
      /\ hub[a]' = (IF valid THEN "connecting" ELSE "none") /\ early[a]' = "none"
      /\ Ids(registry)' = Ids(registry)
  BY <1>1, <1>4 DEF SocketsTyped, Ids
<1>7. SocketSound(a)'
  <2>1. Fresh(a)' /\ AnsweredOnce(a)'
    BY <1>1, <1>3, <1>6 DEF Fresh, AnsweredOnce
  <2>2. EndIsFinal(a)'
    BY <1>3, <1>6 DEF EndIsFinal
  <2>3. Accounted(a)'
    BY <1>1, <1>3, <1>6 DEF Accounted, Alive
  <2> QED
    BY <2>1, <2>2, <2>3 DEF SocketSound
<1>8. ASSUME NEW b \in Sockets, b # a PROVE SocketSound(b)'
  <2>1. attempts'[b] = attempts[b] /\ hub'[b] = hub[b] /\ pushes'[b] = pushes[b]
    BY <1>4, <1>8 DEF SocketsTyped
  <2> QED
    BY <2>1, <1>6, SocketAlone
<1> QED
  BY <1>5, <1>7, <1>8

LEMMA ConnectInv ==
  ASSUME SocketsInv, NEW a \in Sockets, NEW valid \in BOOLEAN, Connect(a, valid) PROVE SocketsInv'
<1> USE DEF SocketsInv
<1>1. attempts[a] = "resolving" /\ UNCHANGED <<selected, early, question, leaving, navigations>>
  BY DEF Connect
<1>2. CASE ~Connected(selected)
  <2>1. Open(a, valid) /\ UNCHANGED registry
    BY <1>2 DEF Connect
  <2> QED
    BY <1>1, <2>1, OpenInv
<1>3. CASE Connected(selected)
  <2> DEFINE old == ConnOf(selected).id
  <2>1. old \in Ids(registry) /\ CloseSocket(old)
    BY <1>3, FirstConnection DEF Connect, SocketsTyped
  <2>2. /\ registry' = Without(old)
        /\ attempts' = [attempts EXCEPT ![a] = "closing"] /\ UNCHANGED button
    BY <1>3 DEF Connect
  <2> HIDE DEF old
  <2>3. registry' \in Seq(Entry) /\ Keyed(registry') /\ Ids(registry') = Ids(registry) \ {old}
    BY <2>1, <2>2, Dropped DEF SocketsTyped
  <2>4. SocketSound(a) /\ a \notin Ids(registry) /\ a # old
    BY <1>1, <2>1 DEF SocketSound, AnsweredOnce
  <2>5. ASSUME NEW b \in Sockets, b # a PROVE SocketSound(b)'
    <3>1. attempts'[b] = attempts[b]
      BY <2>2, <2>5 DEF SocketsTyped
    <3> QED
      BY <1>1, <2>1, <2>3, <3>1, ClosingSound
  <2>6. SocketSound(a)'
    <3>1. attempts[a]' = "closing" /\ hub[a]' = hub[a] /\ pushes[a]' = pushes[a]
          /\ early[a]' = early[a] /\ a \notin Ids(registry)'
      BY <1>1, <2>1, <2>2, <2>3, <2>4 DEF SocketsTyped, CloseSocket
    <3>2. hub[a] = "none" /\ pushes[a] = <<>> /\ early[a] = "none"
      BY <1>1, <2>4 DEF SocketSound, Fresh
    <3> QED
      BY <3>1, <3>2, NoPush
         DEF SocketSound, Fresh, AnsweredOnce, EndIsFinal, Accounted, Alive
  <2>7. SocketsTyped'
    BY <1>1, <2>1, <2>2, <2>3, ClosingSound DEF SocketsTyped, Attempt, Asked
  <2> QED
    BY <2>5, <2>6, <2>7
<1> QED
  BY <1>2, <1>3

LEMMA OldOneClosedInv ==
  ASSUME SocketsInv, NEW a \in Sockets, NEW valid \in BOOLEAN, OldOneClosed(a, valid)
  PROVE  SocketsInv'
  BY OpenInv DEF OldOneClosed

\* The news of a socket are taken one by one: how that disturbs the others.
LEMMA Taken ==
  ASSUME SocketsInv, NEW a \in Sockets, pushes[a] # <<>>,
         pushes' = [pushes EXCEPT ![a] = Tail(@)]
  PROVE  /\ pushes' \in [Sockets -> Seq(Push)] /\ OneReply(pushes[a]')
         /\ \A what : Has(pushes[a], what) <=> Head(pushes[a]) \in what \/ Has(pushes[a]', what)
         /\ Head(pushes[a]) = "reply" => ~Has(pushes[a]', {"reply"})
         /\ Head(pushes[a]) \in Push
         /\ \A b \in Sockets \ {a} : pushes[b]' = pushes[b]
<1>1. pushes[a] \in Seq(Push) /\ OneReply(pushes[a]) /\ pushes[a]' = Tail(pushes[a])
  BY DEF SocketsInv, SocketsTyped, SocketSound, AnsweredOnce
<1>2. pushes' \in [Sockets -> Seq(Push)] /\ \A b \in Sockets \ {a} : pushes[b]' = pushes[b]
  BY <1>1, PushTaken DEF SocketsInv, SocketsTyped
<1> QED
  BY <1>1, <1>2, PushTaken

LEMMA ReplyInv == ASSUME SocketsInv, NEW a \in Sockets, Reply(a) PROVE SocketsInv'
<1> USE DEF SocketsInv
<1>1. /\ pushes[a] # <<>> /\ Head(pushes[a]) = "reply"
      /\ pushes' = [pushes EXCEPT ![a] = Tail(@)] /\ attempts' = [attempts EXCEPT ![a] = "over"]
      /\ UNCHANGED <<selected, question, leaving, hub, navigations>>
  BY DEF Reply
<1>2. /\ pushes' \in [Sockets -> Seq(Push)] /\ OneReply(pushes[a]')
      /\ Has(pushes[a], {"reply"}) /\ ~Has(pushes[a]', {"reply"})
      /\ Has(pushes[a], Dead) <=> Has(pushes[a]', Dead)
      /\ \A b \in Sockets \ {a} : pushes[b]' = pushes[b]
  BY <1>1, Taken DEF Dead
<1>3. SocketSound(a) /\ attempts[a] = "opening" /\ a \notin Ids(registry)
  BY <1>2 DEF SocketSound, AnsweredOnce
<1>4. /\ attempts[a]' = "over" /\ hub[a]' = hub[a] /\ attempts' \in [Sockets -> Attempt]
      /\ \A b \in Sockets \ {a} : attempts[b]' = attempts[b] /\ hub[b]' = hub[b]
  BY <1>1 DEF SocketsTyped, Attempt
<1>5. CASE early[a] # "none"
  <2>1. /\ early' = [early EXCEPT ![a] = "none"] /\ button' = early[a] /\ UNCHANGED registry
    BY <1>5 DEF Reply
  <2>2. /\ early[a]' = "none" /\ Ids(registry)' = Ids(registry)
        /\ \A b \in Sockets \ {a} : early[b]' = early[b]
    BY <2>1 DEF SocketsTyped, Ids
  <2>3. hub[a] = "none"
    BY <1>3, <1>5 DEF SocketSound, EndIsFinal
  <2>4. SocketSound(a)'
    BY <1>2, <1>3, <1>4, <2>2, <2>3
       DEF SocketSound, Fresh, AnsweredOnce, EndIsFinal, Accounted, Alive
  <2>5. \A b \in Sockets \ {a} : SocketSound(b)'
    BY <1>2, <1>4, <2>2, SocketAlone
  <2>6. early' \in [Sockets -> {"none", "error", "closed"}] /\ button' \in Button
    BY <1>5, <2>1 DEF SocketsTyped, Button
  <2>7. SocketsTyped'
    BY <1>1, <1>2, <1>4, <2>1, <2>6 DEF SocketsTyped, Asked
  <2> QED
    BY <2>4, <2>5, <2>7
<1>6. CASE early[a] = "none"
  <2> DEFINE e == [id |-> a, req |-> selected, state |-> "connecting"]
  <2>1. registry' = Append(registry, e) /\ UNCHANGED <<early, button>>
    BY <1>6 DEF Reply
  <2>2. e \in Entry /\ e.id = a
    BY DEF Entry, SocketsTyped
  <2> HIDE DEF e
  <2>3. /\ registry' \in Seq(Entry) /\ Keyed(registry')
        /\ Ids(registry)' = Ids(registry) \cup {a}
    BY <1>3, <2>1, <2>2, EntryAdded DEF SocketsTyped
  <2>4. SocketSound(a)'
    <3>1. hub[a] # "none" \/ Has(pushes[a], Dead)
      BY <1>3, <1>6 DEF SocketSound, Accounted
    <3> QED
      BY <1>2, <1>3, <1>4, <2>1, <2>3, <3>1
         DEF SocketSound, Fresh, AnsweredOnce, EndIsFinal, Accounted, Alive
  <2>5. \A b \in Sockets \ {a} : SocketSound(b)'
    BY <1>2, <1>4, <2>1, <2>3, SocketAlone
  <2>6. SocketsTyped'
    BY <1>1, <1>2, <1>4, <2>1, <2>3 DEF SocketsTyped, Asked
  <2> QED
    BY <2>4, <2>5, <2>6
<1> QED
  BY <1>5, <1>6

LEMMA StatusInv == ASSUME SocketsInv, NEW a \in Sockets, Status(a) PROVE SocketsInv'
<1> USE DEF SocketsInv
<1> DEFINE state == Head(pushes[a])
           dead == state \in {"error", "closed"}
           known == {i \in DOMAIN registry : registry[i].id = a}
<1>1. /\ pushes[a] # <<>> /\ state # "reply" /\ pushes' = [pushes EXCEPT ![a] = Tail(@)]
      /\ UNCHANGED <<selected, attempts, question, leaving, hub, navigations>>
  BY DEF Status
<1>2. /\ pushes' \in [Sockets -> Seq(Push)] /\ OneReply(pushes[a]')
      /\ Has(pushes[a], {"reply"}) <=> Has(pushes[a]', {"reply"})
      /\ Has(pushes[a], Dead) <=> dead \/ Has(pushes[a]', Dead)
      /\ \A b \in Sockets \ {a} : pushes[b]' = pushes[b]
      /\ state \in {"open", "error", "closed"}
  <2>1. state \in Push
    BY <1>1, Taken
  <2>2. state \in {"open", "error", "closed"}
    BY <1>1, <2>1 DEF Push
  <2> QED
    BY <1>1, <2>2, Taken DEF Dead
<1>3. SocketSound(a) /\ (dead => hub[a] = "none")
  BY <1>2 DEF SocketSound, EndIsFinal
<1>4. known = {} <=> a \notin Ids(registry)
  BY DEF Ids
<1>5. CASE a \notin Ids(registry)
  <2>1. /\ early' = IF dead THEN [early EXCEPT ![a] = state] ELSE early
        /\ UNCHANGED <<registry, button>>
    BY <1>4, <1>5 DEF Status
  <2>2. /\ early' \in [Sockets -> {"none", "error", "closed"}]
        /\ early[a]' = IF dead THEN state ELSE early[a]
        /\ \A b \in Sockets \ {a} : early[b]' = early[b]
    BY <2>1 DEF SocketsTyped
  <2>3. Ids(registry)' = Ids(registry)
    BY <2>1 DEF Ids
  <2> HIDE DEF state
  <2>4. Fresh(a)'
    <3>1. attempts[a] \notin {"unused", "resolving", "closing"}
      BY <1>1, <1>3 DEF SocketSound, Fresh
    <3> QED
      BY <1>1, <3>1 DEF Fresh
  <2>5. AnsweredOnce(a)'
    BY <1>1, <1>2, <1>3, <2>3 DEF SocketSound, AnsweredOnce
  <2>6. EndIsFinal(a)'
    BY <1>1, <1>2, <1>3, <2>2 DEF SocketSound, EndIsFinal
  <2>7. Accounted(a)'
    BY <1>1, <1>2, <1>3, <1>5, <2>2, <2>3 DEF SocketSound, Accounted, Alive
  <2>8. \A b \in Sockets \ {a} : SocketSound(b)'
    BY <1>1, <1>2, <2>2, <2>3, SocketAlone
  <2>9. SocketsTyped'
    BY <1>1, <1>2, <2>1, <2>2 DEF SocketsTyped, Asked
  <2> QED
    BY <2>4, <2>5, <2>6, <2>7, <2>8, <2>9 DEF SocketSound
<1>6. CASE a \in Ids(registry)
  <2>1. /\ registry' = IF dead THEN Without(a)
                       ELSE [i \in DOMAIN registry |->
                              IF i \in known THEN [registry[i] EXCEPT !.state = state]
                              ELSE registry[i]]
        /\ button' \in {state, button}
        /\ UNCHANGED early
    BY <1>4, <1>6 DEF Status
  <2>2. button' \in Button
    BY <1>2, <2>1 DEF SocketsTyped, Button
  <2>3. /\ registry' \in Seq(Entry) /\ Keyed(registry')
        /\ Ids(registry)' = IF dead THEN Ids(registry) \ {a} ELSE Ids(registry)
    <3>1. CASE dead
      BY <1>6, <2>1, <3>1, Dropped DEF SocketsTyped
    <3>2. CASE ~dead
      <4>1. state = "open"
        BY <1>2, <3>2
      <4> HIDE DEF state
      <4>2. \A i \in DOMAIN registry : registry[i] \in Entry
        BY LenProperties, ElementOfSeq DEF SocketsTyped
      <4>3. /\ DOMAIN registry' = DOMAIN registry
            /\ \A i \in DOMAIN registry :
                 registry'[i] \in Entry /\ registry'[i].id = registry[i].id
        BY <2>1, <3>2, <4>1, <4>2 DEF Entry
      <4>4. registry' = [i \in DOMAIN registry |-> registry'[i]]
        BY <2>1, <3>2
      <4>5. registry' \in Seq(Entry) /\ Keyed(registry') /\ Ids(registry') = Ids(registry)
        BY <4>3, <4>4, EntriesRestated DEF SocketsTyped
      <4> QED
        BY <3>2, <4>5
    <3> QED
      BY <3>1, <3>2
  <2> HIDE DEF state
  <2>4. Fresh(a)' /\ AnsweredOnce(a)'
    BY <1>1, <1>2, <1>3, <1>6, <2>3 DEF SocketSound, Fresh, AnsweredOnce
  <2>5. EndIsFinal(a)'
    BY <1>1, <1>2, <1>3, <2>1 DEF SocketSound, EndIsFinal
  <2>6. Accounted(a)'
    BY <1>1, <1>2, <1>3, <1>6, <2>1, <2>3 DEF SocketSound, Accounted, AnsweredOnce, Alive
  <2>7. \A b \in Sockets \ {a} : SocketSound(b)'
    BY <1>1, <1>2, <2>1, <2>3, SocketAlone
  <2>8. SocketsTyped'
    BY <1>1, <1>2, <2>1, <2>2, <2>3 DEF SocketsTyped, Asked
  <2> QED
    BY <2>4, <2>5, <2>6, <2>7, <2>8 DEF SocketSound
<1> QED
  BY <1>5, <1>6
-----------------------------------------------------------------------------
(* Every step *)

\* What only concerns the request on screen.
LEMMA ScreenInv ==
  ASSUME SocketsInv,
         UNCHANGED <<attempts, registry, early, hub, pushes, navigations>>,
         selected' \in Sessions \cup {Nobody}, button' \in Button, leaving' \subseteq Sessions,
         \/ UNCHANGED question \/ question' = NoQuestion
         \/ \E r \in Sessions : question' = [from |-> selected, to |-> r]
  PROVE  SocketsInv'
<1>1. /\ question' \in [from : Sessions \cup {Nobody}, to : Sessions \cup {Nobody}]
      /\ Asked' => question'.to \in Sessions
  BY DEF SocketsInv, SocketsTyped, NoQuestion, Asked
<1>2. SocketsTyped'
  BY <1>1 DEF SocketsInv, SocketsTyped
<1>3. \A a \in Sockets : SocketSound(a)'
  BY SocketAlone DEF SocketsInv, Ids
<1> QED
  BY <1>2, <1>3 DEF SocketsInv

LEMMA NavigateInv == ASSUME SocketsInv, Navigate PROVE SocketsInv'
<1>1. /\ registry' = <<>> /\ question' = NoQuestion /\ leaving' = {} /\ button' = "idle"
      /\ UNCHANGED selected
  BY DEF Navigate
<1>2. \A a \in Sockets :
        /\ attempts[a]' \in {"unused", "over"} /\ hub[a]' = "none" /\ early[a]' = "none"
        /\ pushes[a]' = <<>>
  BY DEF Navigate
<1>3. Ids(registry)' = {} /\ Keyed(registry') /\ registry' \in Seq(Entry)
  BY <1>1, EmptySeq DEF Ids, Keyed
<1>4. SocketsTyped'
  <2>1. attempts' \in [Sockets -> Attempt]
    BY DEF Navigate, Attempt
  <2>2. hub' \in [Sockets -> HubState] /\ early' \in [Sockets -> {"none", "error", "closed"}]
    BY DEF Navigate, HubState
  <2>3. pushes' \in [Sockets -> Seq(Push)]
    BY NoPush DEF Navigate
  <2>4. question' \in [from : Sessions \cup {Nobody}, to : Sessions \cup {Nobody}] /\ ~Asked'
    BY <1>1 DEF NoQuestion, Asked
  <2> QED
    BY <1>1, <1>3, <2>1, <2>2, <2>3, <2>4 DEF SocketsInv, SocketsTyped, Button
<1>5. \A a \in Sockets : SocketSound(a)'
  BY <1>2, <1>3, NoPush DEF SocketSound, Fresh, AnsweredOnce, EndIsFinal, Accounted, Alive
<1> QED
  BY <1>4, <1>5 DEF SocketsInv

LEMMA NextSocketsInv == SocketsInv /\ [WsNext]_wsVars => SocketsInv'
<1> SUFFICES ASSUME SocketsInv, [WsNext]_wsVars PROVE SocketsInv'
  OBVIOUS
<1>1. CASE UNCHANGED wsVars
  BY <1>1, ScreenInv DEF wsVars, windowVars, SocketsInv, SocketsTyped
<1>2. ASSUME NEW a \in Sockets, HandshakeDone(a) \/ PressConnect(a) \/ Reply(a) \/ Status(a)
      PROVE SocketsInv'
  BY <1>2, HandshakeDoneInv, PressConnectInv, ReplyInv, StatusInv
<1>3. ASSUME NEW a \in Sockets, NEW flag \in BOOLEAN,
             HandshakeFails(a, flag) \/ SocketEnds(a, flag) \/ Connect(a, flag) \/ OldOneClosed(a, flag)
      PROVE SocketsInv'
  BY <1>3, HandshakeFailsInv, SocketEndsInv, ConnectInv, OldOneClosedInv
<1>4. CASE PressDisconnect
  BY <1>4, PressDisconnectInv
<1>5. \A r : StateOf(r) \in Button
  BY StateType DEF SocketsInv, SocketsTyped
<1>6. /\ selected \in Sessions \cup {Nobody} /\ button \in Button /\ leaving \subseteq Sessions
  BY DEF SocketsInv, SocketsTyped
<1>7. ASSUME NEW r \in Sessions, SelectSession(r) PROVE SocketsInv'
  <2>1. /\ selected' = r
        /\ UNCHANGED <<attempts, registry, early, leaving, hub, pushes, navigations>>
    BY <1>7 DEF SelectSession
  <2>2. \/ question' = [from |-> selected, to |-> r] /\ UNCHANGED button
        \/ button' = StateOf(r) /\ UNCHANGED question
    BY <1>7 DEF SelectSession
  <2> QED
    BY <1>5, <1>6, <2>1, <2>2, ScreenInv
<1>8. ASSUME NEW r \in Sessions, ResumeSession(r) PROVE SocketsInv'
  BY <1>5, <1>6, <1>8, ScreenInv DEF ResumeSession
<1>9. CASE KeepOpen
  BY <1>5, <1>6, <1>9, ScreenInv DEF KeepOpen
<1>10. CASE CloseOnLeaving
  BY <1>10, CloseOnLeavingInv
<1>11. CASE ClearEditor
  BY <1>6, <1>11, ScreenInv DEF ClearEditor
<1>12. CASE Navigate
  BY <1>12, NavigateInv
<1> QED
  BY <1>1, <1>2, <1>3, <1>4, <1>7, <1>8, <1>9, <1>10, <1>11, <1>12 DEF WsNext

LEMMA SocketsInvariant == WsSpec => []SocketsInv
<1> QED
  BY InitSocketsInv, NextSocketsInv, PTL DEF WsSpec

\* The registry, the hub and what is on its way between them are well-typed.
THEOREM SocketTypeCorrect == WsSpec => []WsTypeOK
<1>1. SocketsInv => WsTypeOK
  <2> SUFFICES ASSUME SocketsInv PROVE WsTypeOK
    OBVIOUS
  <2>1. SocketsTyped
    BY DEF SocketsInv
  <2>2. \A i \in DOMAIN registry : registry[i] \in Entry
    BY <2>1, LenProperties, ElementOfSeq DEF SocketsTyped
  <2>3. ASSUME NEW a \in Sockets PROVE ToSet(pushes[a]) \subseteq Push
    <3>1. pushes[a] \in Seq(Push)
      BY <2>1 DEF SocketsTyped
    <3>2. \A i \in DOMAIN pushes[a] : pushes[a][i] \in Push
      BY <3>1, LenProperties, ElementOfSeq
    <3> QED
      BY <3>2 DEF ToSet
  <2> QED
    BY <2>1, <2>2, <2>3 DEF SocketsTyped, WsTypeOK, Entry, Push, Attempt, Button, HubState
<1> QED
  BY <1>1, SocketsInvariant, PTL

\* No open socket is forgotten by its window (ipc/websocket.js 91) and no live
\* dot is stranded for a socket that died (app.js 706-710): however handshakes,
\* answers, closes and reloads interleave, the window's registry and the hub
\* agree up to what is on its way.
THEOREM ConnectionsAreKnown == WsSpec => []RegistryMatchesHub
<1>1. SocketsInv => RegistryMatchesHub
  <2> SUFFICES ASSUME SocketsInv PROVE RegistryMatchesHub
    OBVIOUS
  <2>1. ASSUME NEW a \in Sockets
        PROVE  /\ Registered(a) <=> a \in Ids(registry)
               /\ \A what : Coming(a, what) <=> Has(pushes[a], what)
               /\ Accounted(a)
    BY DEF Registered, Ids, Coming, Has, SocketsInv, SocketSound
  <2>2. NoSocketIsLost
    BY <2>1 DEF NoSocketIsLost, Accounted
  <2>3. NoDotIsStranded
    BY <2>1 DEF NoDotIsStranded, Accounted, Dead
  <2> QED
    BY <2>2, <2>3 DEF RegistryMatchesHub
<1> QED
  BY <1>1, SocketsInvariant, PTL
-----------------------------------------------------------------------------
(* Environments: the invariant *)

SaveCall == [kind : {"save"}, at : Places, document : Document]
LoadCall == [kind : {"load"}, visit : Visits]
Call == SaveCall \cup LoadCall
OnTheWay(v) == visits[v].step \in {"flushing", "active", "loading"}

EnvTyped ==
  /\ EnvTypeOK /\ calls \in Seq(Call)
  /\ \A i \in DOMAIN calls : calls[i].kind = "load" => visits[calls[i].visit].step # "unused"
  /\ \A v \in Visits : visits[v].step # "unused" => visits[v].to \in Places

\* One switch at a time, to the collection that is active as it ends.
OneSwitch ==
  /\ \A u, v \in Visits : OnTheWay(u) /\ OnTheWay(v) => u = v
  /\ \A v \in Visits : visits[v].step \in {"active", "loading"} => place = visits[v].to

\* Every call saves a document in its own file, or loads one after all others.
CallsAtHome ==
  \A i \in DOMAIN calls :
    /\ calls[i].kind = "save" => calls[i].document.of = calls[i].at
    /\ calls[i].kind = "load" => i = Len(calls) /\ visits[calls[i].visit].step = "loading"

\* Between switches all calls save the active collection, the last of them what
\* the window holds.
LastSaveWins ==
  ~Halfway =>
    /\ held.of = place
    /\ \A i \in DOMAIN calls : calls[i].kind = "save" /\ calls[i].at = place
    /\ calls = <<>> => shelf[place] = held
    /\ calls # <<>> => calls[Len(calls)].document = held

Uncrossed == EnvironmentsStayHome /\ OneSwitch /\ CallsAtHome /\ LastSaveWins

EnvInv == EnvTyped /\ (~crossed => Uncrossed)

LEMMA InitEnvInv == EnvInit => EnvInv
<1> SUFFICES ASSUME EnvInit PROVE EnvInv
  OBVIOUS
<1>1. calls \in Seq(Call) /\ DOMAIN calls = {}
  BY EmptySeq DEF EnvInit
<1>2. \A v \in Visits : visits[v].step = "unused"
  BY DEF EnvInit
<1>3. EnvTypeOK
  <2>1. shelf \in [Places -> Document] /\ held \in Document /\ place \in Places
    BY DEF EnvInit, Document
  <2>2. visits \in [Visits -> [to : Places \cup {Elsewhere},
                              step : {"unused", "flushing", "active", "loading", "over"}]]
    BY DEF EnvInit
  <2>3. draft \in [open : BOOLEAN, variables : SUBSET (1..MaxWrites)]
    BY DEF EnvInit, Closed
  <2>4. written = 0 /\ 0 \in 0..MaxWrites
    BY EnvironmentAssumption DEF EnvInit
  <2>5. crossed \in BOOLEAN
    BY DEF EnvInit
  <2> QED
    BY <2>1, <2>2, <2>3, <2>4, <2>5 DEF EnvTypeOK
<1>4. Uncrossed
  BY <1>1, <1>2
     DEF EnvInit, Uncrossed, EnvironmentsStayHome, OneSwitch, OnTheWay, CallsAtHome, LastSaveWins
<1> QED
  BY <1>1, <1>2, <1>3, <1>4 DEF EnvInv, EnvTyped

\* What a call appended to the others does to them.
LEMMA CallAppended ==
  ASSUME calls \in Seq(Call), NEW call \in Call, calls' = Append(calls, call)
  PROVE  /\ calls' \in Seq(Call) /\ calls' # <<>>
         /\ Len(calls') \in DOMAIN calls' /\ calls'[Len(calls')] = call
         /\ \A i \in DOMAIN calls' :
              \/ i \in DOMAIN calls /\ calls'[i] = calls[i]
              \/ i = Len(calls') /\ calls'[i] = call
<1>1. /\ calls' \in Seq(Call) /\ calls' # <<>> /\ Len(calls') = Len(calls) + 1
      /\ \A i \in 1..Len(calls) : calls'[i] = calls[i]
      /\ calls'[Len(calls) + 1] = call
  BY AppendProperties
<1>2. /\ Len(calls) \in Nat /\ DOMAIN calls = 1..Len(calls)
      /\ DOMAIN calls' = 1..(Len(calls) + 1)
  BY <1>1, LenProperties
<1> QED
  BY <1>1, <1>2

\* What the first call leaves of the others when it is served.
LEMMA CallServed ==
  ASSUME calls \in Seq(Call), calls # <<>>, calls' = Tail(calls)
  PROVE  /\ calls' \in Seq(Call) /\ 1 \in DOMAIN calls /\ Head(calls) = calls[1]
         /\ Head(calls) \in Call /\ Len(calls) \in Nat
         /\ \A i \in DOMAIN calls' : i + 1 \in DOMAIN calls /\ calls'[i] = calls[i + 1]
         /\ Len(calls) = Len(calls') + 1
         /\ calls' = <<>> <=> Len(calls) = 1
         /\ calls' # <<>> => /\ Len(calls') \in DOMAIN calls'
                             /\ calls'[Len(calls')] = calls[Len(calls)]
<1>1. /\ Len(calls) \in Nat \ {0} /\ DOMAIN calls = 1..Len(calls) /\ Head(calls) = calls[1]
      /\ Head(calls) \in Call /\ calls' \in Seq(Call) /\ Len(calls') = Len(calls) - 1
      /\ \A i \in 1..Len(calls') : calls'[i] = calls[i + 1]
  BY EmptySeq, HeadTailProperties, LenProperties
<1>2. DOMAIN calls' = 1..Len(calls') /\ (calls' # <<>> => Len(calls') \in Nat \ {0})
  BY <1>1, EmptySeq, LenProperties
<1>3. calls' = <<>> => Len(calls') = 0
  BY EmptySeq
<1> QED
  BY <1>1, <1>2, <1>3

-----------------------------------------------------------------------------
(* Environments: the steps *)

\* A write, between switches: what it saves is the last that is saved.
LEMMA Written ==
  ASSUME EnvTyped, NEW variables \in SUBSET (1..MaxWrites), Write(variables),
         UNCHANGED <<place, shelf>>
  PROVE  /\ held' \in Document /\ calls' \in Seq(Call)
         /\ \A i \in DOMAIN calls' : calls'[i].kind = "load" => i \in DOMAIN calls /\ calls'[i] = calls[i]
         /\ Uncrossed /\ ~Halfway =>
              /\ held'.of = place
              /\ \A i \in DOMAIN calls' :
                   calls'[i].kind = "save" /\ calls'[i].at = place /\ calls'[i].document.of = place
              /\ calls' # <<>> /\ calls'[Len(calls')].document = held'
<1> DEFINE call == [kind |-> "save", at |-> place, document |-> held']
<1>1. held' \in Document /\ held'.of = held.of
  BY DEF Write, EnvTyped, EnvTypeOK, Document
<1>2. call \in Call
  BY <1>1 DEF Call, SaveCall, EnvTyped, EnvTypeOK
<1>3. calls' = Append(calls, call) /\ calls \in Seq(Call)
  BY DEF Write, EnvTyped
<1>4. call.kind = "save" /\ call.at = place /\ call.document = held'
  OBVIOUS
<1> HIDE DEF call
<1>5. /\ calls' \in Seq(Call) /\ calls' # <<>> /\ calls'[Len(calls')] = call
      /\ \A i \in DOMAIN calls' :
           \/ i \in DOMAIN calls /\ calls'[i] = calls[i]
           \/ i = Len(calls') /\ calls'[i] = call
  BY <1>2, <1>3, CallAppended
<1>6. Uncrossed /\ ~Halfway => held.of = place /\ \A i \in DOMAIN calls :
        calls[i].kind = "save" /\ calls[i].at = place /\ calls[i].document.of = place
  BY DEF Uncrossed, LastSaveWins, CallsAtHome
<1> QED
  BY <1>1, <1>4, <1>5, <1>6

LEMMA SaveEnvironmentsInv ==
  ASSUME EnvInv, NEW variables \in SUBSET (1..MaxWrites), SaveEnvironments(variables),
         UNCHANGED <<place, shelf, visits>>,
         draft' \in [open : BOOLEAN, variables : SUBSET (1..MaxWrites)],
         written' \in 0..MaxWrites
  PROVE  EnvInv'
<1>1. /\ held' \in Document /\ calls' \in Seq(Call) /\ crossed' = (crossed \/ Halfway)
      /\ \A i \in DOMAIN calls' : calls'[i].kind = "load" => i \in DOMAIN calls /\ calls'[i] = calls[i]
  BY Written DEF SaveEnvironments, EnvInv
<1>2. EnvTyped'
  <2>1. crossed' \in BOOLEAN
    BY <1>1 DEF EnvInv, EnvTyped, EnvTypeOK, Halfway
  <2> QED
    BY <1>1, <2>1 DEF EnvInv, EnvTyped, EnvTypeOK
<1>3. ASSUME ~crossed' PROVE Uncrossed'
  <2>1. ~Halfway /\ ~Halfway' /\ Uncrossed
    BY <1>1, <1>3 DEF EnvInv, Halfway
  <2>2. /\ held'.of = place
        /\ \A i \in DOMAIN calls' :
             calls'[i].kind = "save" /\ calls'[i].at = place /\ calls'[i].document.of = place
        /\ calls' # <<>> /\ calls'[Len(calls')].document = held'
    BY <2>1, Written DEF SaveEnvironments, EnvInv
  <2>3. EnvironmentsStayHome' /\ OneSwitch'
    BY <2>1 DEF Uncrossed, EnvironmentsStayHome, OneSwitch, OnTheWay
  <2>4. CallsAtHome' /\ LastSaveWins'
    BY <2>2 DEF CallsAtHome, LastSaveWins
  <2> QED
    BY <2>3, <2>4 DEF Uncrossed
<1> QED
  BY <1>2, <1>3 DEF EnvInv

LEMMA CaptureInv == ASSUME EnvInv, Capture PROVE EnvInv'
<1>1. written' \in 1..MaxWrites /\ written' \in 0..MaxWrites
  BY EnvironmentAssumption DEF Capture, EnvInv, EnvTyped, EnvTypeOK
<1>2. held.variables \cup {written'} \in SUBSET (1..MaxWrites)
  BY <1>1 DEF EnvInv, EnvTyped, EnvTypeOK, Document
<1> QED
  BY <1>1, <1>2, SaveEnvironmentsInv DEF Capture, EnvInv, EnvTyped, EnvTypeOK

LEMMA SaveDraftInv == ASSUME EnvInv, NEW closing \in BOOLEAN, SaveDraft(closing) PROVE EnvInv'
<1>1. draft' \in [open : BOOLEAN, variables : SUBSET (1..MaxWrites)]
      /\ draft.variables \in SUBSET (1..MaxWrites)
  BY DEF SaveDraft, Closed, EnvInv, EnvTyped, EnvTypeOK
<1> QED
  BY <1>1, SaveEnvironmentsInv DEF SaveDraft, EnvInv, EnvTyped, EnvTypeOK

\* What only the editor shows.
LEMMA EditorInv ==
  ASSUME EnvInv, UNCHANGED <<place, held, shelf, calls, visits, crossed>>,
         draft' \in [open : BOOLEAN, variables : SUBSET (1..MaxWrites)],
         written' \in 0..MaxWrites
  PROVE  EnvInv'
  BY DEF EnvInv, EnvTyped, EnvTypeOK, Uncrossed, EnvironmentsStayHome, OneSwitch, OnTheWay,
         CallsAtHome, LastSaveWins, Halfway
Visit == [to : Places \cup {Elsewhere},
          step : {"unused", "flushing", "active", "loading", "over"}]

LEMMA BeginVisitInv == ASSUME EnvInv, NEW c \in Places, BeginVisit(c) PROVE EnvInv'
<1>1. PICK v \in Visits :
        visits[v].step = "unused" /\ visits' = [visits EXCEPT ![v] = [to |-> c, step |-> "flushing"]]
  BY DEF BeginVisit, Departs
<1>2. /\ visits' \in [Visits -> Visit] /\ visits'[v] = [to |-> c, step |-> "flushing"]
      /\ \A u \in Visits \ {v} : visits'[u] = visits[u]
  BY <1>1 DEF EnvInv, EnvTyped, EnvTypeOK, Visit
<1>3. /\ crossed' = (crossed \/ Travelling) /\ UNCHANGED <<place, shelf, draft, written>>
      /\ draft.variables \in SUBSET (1..MaxWrites)
      /\ \/ Write(draft.variables)
         \/ UNCHANGED <<held, calls>>
  BY DEF BeginVisit, EnvInv, EnvTyped, EnvTypeOK
<1>4. /\ held' \in Document /\ calls' \in Seq(Call)
      /\ \A i \in DOMAIN calls' : calls'[i].kind = "load" => i \in DOMAIN calls /\ calls'[i] = calls[i]
  BY <1>3, Written DEF EnvInv, EnvTyped, EnvTypeOK
<1>5. \A i \in DOMAIN calls : calls[i].kind = "load" => calls[i].visit \in Visits
  BY LenProperties, ElementOfSeq DEF EnvInv, EnvTyped, Call, SaveCall, LoadCall
<1>6. EnvTyped'
  <2>1. crossed' \in BOOLEAN
    BY <1>3 DEF EnvInv, EnvTyped, EnvTypeOK, Travelling
  <2>2. EnvTypeOK'
    BY <1>2, <1>3, <1>4, <2>1 DEF EnvInv, EnvTyped, EnvTypeOK, Visit
  <2>3. \A i \in DOMAIN calls' : calls'[i].kind = "load" => visits'[calls'[i].visit].step # "unused"
    BY <1>1, <1>2, <1>4, <1>5 DEF EnvInv, EnvTyped
  <2>4. \A u \in Visits : visits'[u].step # "unused" => visits'[u].to \in Places
    BY <1>2 DEF EnvInv, EnvTyped
  <2> QED
    BY <1>4, <2>2, <2>3, <2>4 DEF EnvTyped
<1>7. ASSUME ~crossed' PROVE Uncrossed'
  <2>1. ~crossed /\ ~Travelling /\ Uncrossed
    BY <1>3, <1>7 DEF EnvInv
  <2>2. \A u \in Visits : ~OnTheWay(u)
    BY <2>1 DEF Travelling, OnTheWay
  <2>3. ~Halfway /\ ~Halfway' /\ OneSwitch'
    BY <1>2, <2>2 DEF Halfway, OnTheWay, OneSwitch
  <2>4. EnvironmentsStayHome'
    BY <1>3, <2>1 DEF Uncrossed, EnvironmentsStayHome
  <2>5. CASE Write(draft.variables)
    <3>1. /\ held'.of = place
          /\ \A i \in DOMAIN calls' :
               calls'[i].kind = "save" /\ calls'[i].at = place /\ calls'[i].document.of = place
          /\ calls' # <<>> /\ calls'[Len(calls')].document = held'
      BY <1>3, <2>1, <2>3, <2>5, Written DEF EnvInv
    <3>2. CallsAtHome' /\ LastSaveWins'
      BY <1>3, <3>1 DEF CallsAtHome, LastSaveWins
    <3> QED
      BY <2>3, <2>4, <3>2 DEF Uncrossed
  <2>6. CASE UNCHANGED <<held, calls>>
    <3>1. CallsAtHome' /\ LastSaveWins'
      BY <1>3, <2>1, <2>3, <2>6 DEF Uncrossed, CallsAtHome, LastSaveWins
    <3> QED
      BY <2>3, <2>4, <3>1 DEF Uncrossed
  <2> QED
    BY <1>3, <2>5, <2>6
<1> QED
  BY <1>6, <1>7 DEF EnvInv

LEMMA SetActiveInv == ASSUME EnvInv, NEW v \in Visits, SetActive(v) PROVE EnvInv'
<1>1. /\ visits[v].step = "flushing" /\ visits' = [visits EXCEPT ![v].step = "active"]
      /\ place' = visits[v].to
      /\ UNCHANGED <<held, shelf, calls, draft, written, crossed>>
  BY DEF SetActive
<1>2. /\ visits' \in [Visits -> Visit] /\ visits'[v].step = "active" /\ visits'[v].to = visits[v].to
      /\ \A u \in Visits \ {v} : visits'[u] = visits[u]
  BY <1>1 DEF EnvInv, EnvTyped, EnvTypeOK, Visit
<1>3. visits[v].to \in Places
  BY <1>1 DEF EnvInv, EnvTyped
<1>4. \A i \in DOMAIN calls : calls[i].kind = "load" => calls[i].visit \in Visits
  BY LenProperties, ElementOfSeq DEF EnvInv, EnvTyped, Call, SaveCall, LoadCall
<1>5. EnvTyped'
  BY <1>1, <1>2, <1>3, <1>4 DEF EnvInv, EnvTyped, EnvTypeOK, Visit
<1>6. ASSUME ~crossed' PROVE Uncrossed'
  <2>1. Uncrossed
    BY <1>1, <1>6 DEF EnvInv
  <2>2. \A u \in Visits : OnTheWay(u)' <=> OnTheWay(u)
    BY <1>1, <1>2 DEF OnTheWay
  <2>3. \A u \in Visits : OnTheWay(u) => u = v
    BY <1>1, <2>1 DEF Uncrossed, OneSwitch, OnTheWay
  <2>4. OneSwitch'
    BY <1>1, <1>2, <2>2, <2>3 DEF OneSwitch, OnTheWay
  <2>5. Halfway'
    BY <1>2 DEF Halfway
  <2>6. EnvironmentsStayHome'
    BY <1>1, <2>1 DEF Uncrossed, EnvironmentsStayHome
  <2>7. CallsAtHome'
    <3>1. \A i \in DOMAIN calls : calls[i].kind = "load" => calls[i].visit # v
      BY <1>1, <2>1 DEF Uncrossed, CallsAtHome
    <3> QED
      BY <1>1, <1>2, <1>4, <2>1, <3>1 DEF Uncrossed, CallsAtHome
  <2> QED
    BY <2>4, <2>5, <2>6, <2>7 DEF Uncrossed, LastSaveWins
<1> QED
  BY <1>5, <1>6 DEF EnvInv

LEMMA AskEnvironmentsInv == ASSUME EnvInv, NEW v \in Visits, AskEnvironments(v) PROVE EnvInv'
<1> DEFINE call == [kind |-> "load", visit |-> v]
<1>1. /\ visits[v].step = "active" /\ visits' = [visits EXCEPT ![v].step = "loading"]
      /\ calls' = Append(calls, call)
      /\ UNCHANGED <<place, held, shelf, draft, written, crossed>>
  BY DEF AskEnvironments
<1>2. /\ visits' \in [Visits -> Visit] /\ visits'[v].step = "loading" /\ visits'[v].to = visits[v].to
      /\ \A u \in Visits \ {v} : visits'[u] = visits[u]
  BY <1>1 DEF EnvInv, EnvTyped, EnvTypeOK, Visit
<1>3. call \in Call /\ call.kind = "load" /\ call.visit = v
  BY DEF Call, LoadCall
<1> HIDE DEF call
<1>4. /\ calls' \in Seq(Call)
      /\ \A i \in DOMAIN calls' :
           \/ i \in DOMAIN calls /\ calls'[i] = calls[i]
           \/ i = Len(calls') /\ calls'[i] = call
  BY <1>1, <1>3, CallAppended DEF EnvInv, EnvTyped
<1>5. \A i \in DOMAIN calls : calls[i].kind = "load" => calls[i].visit \in Visits
  BY LenProperties, ElementOfSeq DEF EnvInv, EnvTyped, Call, SaveCall, LoadCall
<1>6. EnvTyped'
  <2>1. EnvTypeOK'
    BY <1>1, <1>2 DEF EnvInv, EnvTyped, EnvTypeOK, Visit
  <2>2. \A i \in DOMAIN calls' : calls'[i].kind = "load" => visits'[calls'[i].visit].step # "unused"
    BY <1>2, <1>3, <1>4, <1>5 DEF EnvInv, EnvTyped
  <2>3. \A u \in Visits : visits'[u].step # "unused" => visits'[u].to \in Places
    BY <1>1, <1>2 DEF EnvInv, EnvTyped
  <2> QED
    BY <1>4, <2>1, <2>2, <2>3 DEF EnvTyped
<1>7. ASSUME ~crossed' PROVE Uncrossed'
  <2>1. Uncrossed
    BY <1>1, <1>7 DEF EnvInv
  <2>2. \A u \in Visits : OnTheWay(u) => u = v
    BY <1>1, <2>1 DEF Uncrossed, OneSwitch, OnTheWay
  <2>3. OneSwitch' /\ Halfway'
    BY <1>1, <1>2, <2>1, <2>2 DEF Uncrossed, OneSwitch, OnTheWay, Halfway
  <2>4. EnvironmentsStayHome'
    BY <1>1, <2>1 DEF Uncrossed, EnvironmentsStayHome
  <2>5. \A i \in DOMAIN calls : calls[i].kind = "save"
    <3>1. \A i \in DOMAIN calls : calls[i].kind = "save" \/ calls[i].kind = "load"
      BY LenProperties, ElementOfSeq DEF EnvInv, EnvTyped, Call, SaveCall, LoadCall
    <3>2. \A i \in DOMAIN calls : calls[i].kind # "load"
      BY <1>1, <1>5, <2>1, <2>2 DEF Uncrossed, CallsAtHome, OnTheWay
    <3> QED
      BY <3>1, <3>2
  <2>6. CallsAtHome'
    BY <1>2, <1>3, <1>4, <2>1, <2>5 DEF Uncrossed, CallsAtHome
  <2> QED
    BY <2>3, <2>4, <2>6 DEF Uncrossed, LastSaveWins
<1> QED
  BY <1>6, <1>7 DEF EnvInv
LEMMA ServeCallInv == ASSUME EnvInv, ServeCall PROVE EnvInv'
<1> DEFINE call == Head(calls)
<1>1. /\ calls # <<>> /\ calls' = Tail(calls) /\ UNCHANGED <<place, written, crossed>>
      /\ calls \in Seq(Call)
  BY DEF ServeCall, EnvInv, EnvTyped
<1>2. /\ calls' \in Seq(Call) /\ 1 \in DOMAIN calls /\ call = calls[1] /\ call \in Call
      /\ Len(calls) \in Nat
      /\ \A i \in DOMAIN calls' : i + 1 \in DOMAIN calls /\ calls'[i] = calls[i + 1]
      /\ Len(calls) = Len(calls') + 1 /\ (calls' = <<>> <=> Len(calls) = 1)
      /\ calls' # <<>> => Len(calls') \in DOMAIN calls' /\ calls'[Len(calls')] = calls[Len(calls)]
  BY <1>1, CallServed
<1>3. \A i \in DOMAIN calls : calls[i].kind = "load" => calls[i].visit \in Visits
  BY LenProperties, ElementOfSeq DEF EnvInv, EnvTyped, Call, SaveCall, LoadCall
<1>4. CASE call.kind = "save"
  <2>1. shelf' = [shelf EXCEPT ![call.at] = call.document] /\ UNCHANGED <<held, visits, draft>>
    BY <1>4 DEF ServeCall
  <2>2. call.at \in Places /\ call.document \in Document
    BY <1>2, <1>4 DEF Call, SaveCall, LoadCall
  <2>3. EnvTyped'
    <3>1. EnvTypeOK'
      BY <1>1, <2>1, <2>2 DEF EnvInv, EnvTyped, EnvTypeOK
    <3> QED
      BY <1>2, <2>1, <3>1 DEF EnvInv, EnvTyped
  <2>4. ASSUME ~crossed' PROVE Uncrossed'
    <3>1. Uncrossed /\ call.document.of = call.at
      BY <1>1, <1>2, <1>4, <2>4 DEF EnvInv, Uncrossed, CallsAtHome
    <3>2. EnvironmentsStayHome'
      BY <2>1, <2>2, <3>1 DEF Uncrossed, EnvironmentsStayHome, EnvInv, EnvTyped, EnvTypeOK
    <3>3. OneSwitch'
      BY <1>1, <2>1, <3>1 DEF Uncrossed, OneSwitch, OnTheWay
    <3>4. CallsAtHome'
      <4> SUFFICES ASSUME NEW i \in DOMAIN calls'
                   PROVE  /\ calls'[i].kind = "save" => calls'[i].document.of = calls'[i].at
                          /\ calls'[i].kind = "load" =>
                               i = Len(calls') /\ visits[calls'[i].visit].step = "loading"
        BY <2>1 DEF CallsAtHome
      <4>1. i + 1 \in DOMAIN calls /\ calls'[i] = calls[i + 1] /\ i \in Nat
        BY <1>2, LenProperties
      <4>2. Len(calls') \in Nat
        BY <1>2, LenProperties
      <4> QED
        BY <1>2, <3>1, <4>1, <4>2 DEF Uncrossed, CallsAtHome
    <3>5. LastSaveWins'
      <4> SUFFICES ASSUME ~Halfway'
                   PROVE  /\ held.of = place
                          /\ \A i \in DOMAIN calls' : calls'[i].kind = "save" /\ calls'[i].at = place
                          /\ calls' = <<>> => shelf'[place] = held
                          /\ calls' # <<>> => calls'[Len(calls')].document = held
        BY <1>1, <2>1 DEF LastSaveWins
      <4>1. /\ held.of = place /\ \A i \in DOMAIN calls : calls[i].kind = "save" /\ calls[i].at = place
            /\ calls[Len(calls)].document = held
        BY <1>1, <2>1, <3>1 DEF Uncrossed, LastSaveWins, Halfway
      <4>2. calls' = <<>> => shelf'[place] = held
        BY <1>2, <2>1, <2>2, <4>1 DEF EnvInv, EnvTyped, EnvTypeOK
      <4> QED
        BY <1>2, <4>1, <4>2
    <3> QED
      BY <3>2, <3>3, <3>4, <3>5 DEF Uncrossed
  <2> QED
    BY <2>3, <2>4 DEF EnvInv
<1>5. CASE call.kind # "save"
  <2> DEFINE v == call.visit
  <2>1. /\ visits' = [visits EXCEPT ![v].step = "over"] /\ held' = shelf[visits[v].to]
        /\ draft' = IF draft.open THEN [draft EXCEPT !.variables = held'.variables] ELSE draft
        /\ UNCHANGED shelf
    BY <1>5 DEF ServeCall
  <2>2. call.kind = "load" /\ v \in Visits
    BY <1>2, <1>5 DEF Call, SaveCall, LoadCall
  <2> HIDE DEF call
  <2>3. visits[v].step # "unused" /\ visits[v].to \in Places
    BY <1>2, <2>2 DEF EnvInv, EnvTyped
  <2> HIDE DEF v
  <2>4. /\ visits' \in [Visits -> Visit] /\ visits'[v].step = "over" /\ visits'[v].to = visits[v].to
        /\ \A u \in Visits \ {v} : visits'[u] = visits[u]
    BY <2>1, <2>2 DEF EnvInv, EnvTyped, EnvTypeOK, Visit
  <2>5. EnvTyped'
    <3>1. held' \in Document
      BY <2>1, <2>3 DEF EnvInv, EnvTyped, EnvTypeOK
    <3>2. draft' \in [open : BOOLEAN, variables : SUBSET (1..MaxWrites)]
      BY <2>1, <3>1 DEF EnvInv, EnvTyped, EnvTypeOK, Document
    <3>3. EnvTypeOK'
      BY <1>1, <2>1, <2>4, <3>1, <3>2 DEF EnvInv, EnvTyped, EnvTypeOK, Visit
    <3>4. ASSUME NEW i \in DOMAIN calls', calls'[i].kind = "load"
          PROVE  visits'[calls'[i].visit].step # "unused"
      <4>1. calls'[i] \in Call /\ calls'[i].visit \in Visits
        BY <1>2, <3>4, ElementOfSeq DEF Call, SaveCall, LoadCall
      <4>2. visits[calls'[i].visit].step # "unused"
        BY <1>2, <1>3, <3>4 DEF EnvInv, EnvTyped
      <4> QED
        BY <2>4, <4>1, <4>2
    <3>5. \A u \in Visits : visits'[u].step # "unused" => visits'[u].to \in Places
      BY <2>3, <2>4 DEF EnvInv, EnvTyped
    <3> QED
      BY <1>2, <3>3, <3>4, <3>5 DEF EnvTyped
  <2>6. ASSUME ~crossed' PROVE Uncrossed'
    <3>1. Uncrossed /\ Len(calls) = 1 /\ visits[v].step = "loading"
      BY <1>1, <1>2, <2>2, <2>6 DEF EnvInv, Uncrossed, CallsAtHome, v
    <3>2. calls' = <<>> /\ DOMAIN calls' = {}
      BY <1>2, <3>1
    <3>3. place = visits[v].to /\ \A u \in Visits : OnTheWay(u) => u = v
      BY <2>2, <3>1 DEF Uncrossed, OneSwitch, OnTheWay
    <3>4. EnvironmentsStayHome' /\ held'.of = place' /\ held' = shelf'[place']
      BY <1>1, <2>1, <2>3, <3>1, <3>3 DEF Uncrossed, EnvironmentsStayHome
    <3>5. OneSwitch'
      BY <2>4, <3>3 DEF OneSwitch, OnTheWay
    <3> QED
      BY <3>2, <3>4, <3>5 DEF Uncrossed, CallsAtHome, LastSaveWins
  <2> QED
    BY <2>5, <2>6 DEF EnvInv
<1> QED
  BY <1>4, <1>5

LEMMA NextEnvInv == EnvInv /\ [EnvNext]_envVars => EnvInv'
<1> SUFFICES ASSUME EnvInv, [EnvNext]_envVars PROVE EnvInv'
  OBVIOUS
<1>1. /\ draft \in [open : BOOLEAN, variables : SUBSET (1..MaxWrites)] /\ written \in 0..MaxWrites
      /\ held.variables \in SUBSET (1..MaxWrites)
  BY DEF EnvInv, EnvTyped, EnvTypeOK, Document
<1>2. CASE UNCHANGED envVars
  BY <1>1, <1>2, EditorInv DEF envVars
<1>3. CASE Capture
  BY <1>3, CaptureInv
<1>4. CASE OpenEditor
  BY <1>1, <1>4, EditorInv DEF OpenEditor
<1>5. CASE EditDraft
  <2>1. written' \in 0..MaxWrites /\ written' \in 1..MaxWrites
    BY <1>1, <1>5, EnvironmentAssumption DEF EditDraft
  <2>2. draft' \in [open : BOOLEAN, variables : SUBSET (1..MaxWrites)]
    BY <1>1, <1>5, <2>1 DEF EditDraft
  <2> QED
    BY <1>5, <2>1, <2>2, EditorInv DEF EditDraft
<1>6. CASE SaveDraft(TRUE) \/ SaveDraft(FALSE)
  BY <1>6, SaveDraftInv
<1>7. ASSUME NEW c \in Places, BeginVisit(c) PROVE EnvInv'
  BY <1>7, BeginVisitInv
<1>8. ASSUME NEW v \in Visits, SetActive(v) \/ AskEnvironments(v) PROVE EnvInv'
  BY <1>8, SetActiveInv, AskEnvironmentsInv
<1>9. CASE ServeCall
  BY <1>9, ServeCallInv
<1> QED
  BY <1>2, <1>3, <1>4, <1>5, <1>6, <1>7, <1>8, <1>9 DEF EnvNext

LEMMA EnvInvariant == EnvSpec => []EnvInv
<1> QED
  BY InitEnvInv, NextEnvInv, PTL DEF EnvSpec

\* Documents, calls and switches are well-typed.
THEOREM EnvironmentTypeCorrect == EnvSpec => []EnvTypeOK
<1>1. EnvInv => EnvTypeOK
  BY DEF EnvInv, EnvTyped
<1> QED
  BY <1>1, EnvInvariant, PTL

\* As long as nothing is written halfway through a switch and no two switches
\* overlap, the environments of a collection stay in its own file and, once
\* every call is served, the file of the active one is what the window holds
\* ("environments are per collection", app.js 2335).
THEOREM EnvironmentsAgree == EnvSpec => []UncrossedEnvironmentsAgree
<1>1. EnvInv => UncrossedEnvironmentsAgree
  BY DEF EnvInv, Uncrossed, LastSaveWins, UncrossedEnvironmentsAgree, EnvironmentsReachTheDisk
<1> QED
  BY <1>1, EnvInvariant, PTL

-----------------------------------------------------------------------------
(* Runs of a folder *)

\* What a run still has to do, and the requests of a folder among it.
Remaining(run) == run.left \cup ({run.at} \ {Blank})
Owed(run, f) == {r \in Remaining(run) : f \in run.chain[r]}

Tally == [count : Nat, passed : Nat, failed : Nat, completed : Nat]
FolderRuns == [root : Folders \cup {Blank}, left : SUBSET Runnables,
               at : Runnables \cup {Blank}, stage : {"idle", "sent", "scored"},
               passed : 0..1, chain : [Runnables -> SUBSET Folders],
               tally : [Folders -> Tally], live : BOOLEAN]

FolderTyped ==
  /\ tree \in [Nodes -> Folders \cup {Top, Gone}]
  /\ runs \in [Runs -> FolderRuns]
  /\ badges \in [Folders -> [tally : Tally, running : BOOLEAN] \cup {Blank}]
  /\ moves \in 0..MaxMoves /\ moved \in BOOLEAN

\* A run owes each of its folders what the folder was told it has and has not heard of
\* yet, and heard of no more passes and failures than requests.
TallySound(run) ==
  /\ (run.stage = "idle") <=> (run.at = Blank)
  /\ run.at # Blank => run.at \notin run.left
  /\ \A f \in Folders :
       LET t == run.tally[f]
       IN /\ t.completed + Cardinality(Owed(run, f)) = t.count
          /\ t.passed <= t.completed /\ t.failed <= t.completed

\* As long as the tree stood still, the parent of a request still to be sent is a folder
\* of the run.
ParentIsLocked(n) == \A r \in Remaining(runs[n]) : tree[r] \in runs[n].chain[r]

FolderInv ==
  /\ FolderTyped
  /\ \A n \in Runs : runs[n].live => TallySound(runs[n])
  /\ \A n \in Runs : ~runs[n].live => runs[n].stage = "idle"
  /\ ~moved => \A n \in Runs : runs[n].live => ParentIsLocked(n)
  /\ FolderRunsAreSound

\* A folder above a node is its parent or above its parent.
LEMMA AboveSplit ==
  ASSUME NEW x, NEW f \in Above(x)
  PROVE  tree[x] \in Folders /\ tree[x] \in Above(x) /\ (f = tree[x] \/ f \in Above(tree[x]))
<1>1. tree[x] \in Folders
  <2>1. {} \in SUBSET Folders /\ f \notin {} /\ \A g \in {} : tree[g] \in {}
    OBVIOUS
  <2> QED
    BY <2>1 DEF Above
<1> DEFINE S == {tree[x]} \cup Above(tree[x])
<1>2. S \in SUBSET Folders /\ tree[x] \in S
  BY <1>1 DEF Above
<1>3. \A g \in S : tree[g] \in Folders => tree[g] \in S
  BY DEF Above
<1>4. f \in S
  BY <1>2, <1>3 DEF Above
<1> QED
  BY <1>1, <1>4 DEF Above

LEMMA ParentIsCredited ==
  ASSUME NEW f, NEW r \in Collected(f) PROVE tree[r] \in Credited(r, f)
<1>1. f \in Above(r)
  BY DEF Collected
<1> QED
  BY <1>1, AboveSplit DEF Credited

LEMMA OwedFinite ==
  ASSUME NEW run \in FolderRuns, NEW f
  PROVE  /\ Remaining(run) \in SUBSET Runnables
         /\ IsFiniteSet(Owed(run, f)) /\ Cardinality(Owed(run, f)) \in Nat
<1>1. Remaining(run) \in SUBSET Runnables
  BY DEF Remaining, FolderRuns
<1>2. Owed(run, f) \in SUBSET Runnables
  BY <1>1 DEF Owed
<1> QED
  BY <1>1, <1>2, FolderRunAssumption, FS_Subset, FS_CardinalityType

\* A folder that is owed a request is locked.
LEMMA OwedIsLocked ==
  ASSUME FolderTyped, NEW n \in Runs, TallySound(runs[n]),
         NEW r \in Remaining(runs[n]), NEW f \in Folders, f \in runs[n].chain[r]
  PROVE  f \in Locked(n)
<1>1. runs[n] \in FolderRuns
  BY DEF FolderTyped
<1>2. runs[n].tally[f] \in Tally
  BY <1>1 DEF FolderRuns
<1>3. /\ IsFiniteSet(Owed(runs[n], f)) /\ Cardinality(Owed(runs[n], f)) \in Nat
  BY <1>1, OwedFinite
<1>4. r \in Owed(runs[n], f)
  BY DEF Owed
<1>5. Cardinality(Owed(runs[n], f)) # 0
  BY <1>3, <1>4, FS_EmptySet
<1>6. runs[n].tally[f].count > 0
  BY <1>2, <1>3, <1>5 DEF TallySound, Tally
<1> QED
  BY <1>6 DEF Locked

\* A run that goes on, with the folders it has and no request it did not have.
LEMMA RunGoesOn ==
  ASSUME FolderInv, FolderTyped', UNCHANGED <<tree, moved>>, NEW n \in Runs,
         \A m \in Runs : m # n => runs'[m] = runs[m],
         runs[n].live, runs'[n].live, runs'[n].chain = runs[n].chain,
         \A f \in Folders : runs'[n].tally[f].count = runs[n].tally[f].count,
         Remaining(runs'[n]) \subseteq Remaining(runs[n]), TallySound(runs'[n]),
         BadgesAddUp'
  PROVE  FolderInv'
<1> USE DEF FolderInv
<1>1. \A m \in Runs : /\ runs'[m].live <=> runs[m].live
                      /\ Locked(m)' = Locked(m)
                      /\ Remaining(runs'[m]) \subseteq Remaining(runs[m])
  <2> TAKE m \in Runs
  <2>1. CASE m = n
    BY <2>1 DEF Locked
  <2>2. CASE m # n
    <3>1. runs'[m] = runs[m]
      BY <2>2
    <3> QED
      BY <3>1 DEF Locked
  <2> QED
    BY <2>1, <2>2
<1>2. \A m \in Runs : runs'[m].live => TallySound(runs'[m])
  OBVIOUS
<1>3. \A m \in Runs : ~runs'[m].live => runs'[m].stage = "idle"
  OBVIOUS
<1>4. ~moved => \A m \in Runs : runs'[m].live => ParentIsLocked(m)'
  <2> SUFFICES ASSUME ~moved, NEW m \in Runs, runs'[m].live,
                      NEW r \in Remaining(runs'[m])
               PROVE  tree'[r] \in runs'[m].chain[r]
    BY DEF ParentIsLocked
  <2>1. r \in Remaining(runs[m]) /\ runs[m].live /\ runs'[m].chain = runs[m].chain /\ tree' = tree
    BY <1>1
  <2> QED
    BY <2>1 DEF ParentIsLocked
<1>5. RunsDoNotOverlap'
  <2> SUFFICES ASSUME NEW k \in Runs, NEW m \in Runs, k # m, runs'[k].live, runs'[m].live
               PROVE  /\ Locked(k)' \cap Locked(m)' = {}
                      /\ moved \/ (runs'[k].left \cup {runs'[k].at})
                                    \cap (runs'[m].left \cup {runs'[m].at}) \subseteq {Blank}
    BY DEF RunsDoNotOverlap
  <2>1. /\ Locked(k) \cap Locked(m) = {}
        /\ moved \/ (runs[k].left \cup {runs[k].at})
                                    \cap (runs[m].left \cup {runs[m].at}) \subseteq {Blank}
    BY <1>1 DEF FolderRunsAreSound, RunsDoNotOverlap
  <2>2. Remaining(runs'[k]) \subseteq Remaining(runs[k]) /\ Remaining(runs'[m]) \subseteq Remaining(runs[m])
    BY <1>1
  <2> QED
    BY <1>1, <2>1, <2>2 DEF Remaining
<1> QED
  BY <1>2, <1>3, <1>4, <1>5 DEF FolderRunsAreSound

\* Its badges do not change, or become those of a folder that runs.
LEMMA BadgesGoOn ==
  ASSUME FolderInv, NEW n \in Runs, \A m \in Runs : m # n => runs'[m] = runs[m],
         runs'[n].live,
         \A f \in Folders : runs'[n].tally[f].count = runs[n].tally[f].count,
         \A f \in Folders : badges'[f] = badges[f] \/ (badges'[f].running /\ f \in Locked(n))
  PROVE  BadgesAddUp'
<1>1. \A m \in Runs : Locked(m)' = Locked(m) /\ (runs[m].live => runs'[m].live)
  BY DEF Locked
<1>2. _runningFolders \subseteq _runningFolders' /\ Locked(n) \subseteq _runningFolders'
  BY <1>1 DEF _runningFolders
<1> QED
  BY <1>2 DEF FolderInv, FolderRunsAreSound, BadgesAddUp

LEMMA StartRunInv ==
  ASSUME FolderInv, NEW n \in Runs, NEW folder \in Folders, StartRun(n, folder)
  PROVE  FolderInv'
<1> USE DEF FolderInv
<1> DEFINE C == Collected(folder)
           chain == [r \in Runnables |-> IF r \in C THEN Credited(r, folder) ELSE {}]
           tally == [f \in Folders |-> [NoTally EXCEPT !.count =
                       Cardinality({r \in Runnables : f \in chain[r]})]]
           R == [root |-> folder, left |-> C, at |-> Blank, stage |-> "idle",
                 passed |-> 0, chain |-> chain, tally |-> tally, live |-> TRUE]
<1>1. /\ runs[n] = NotStarted /\ runs' = [runs EXCEPT ![n] = R]
      /\ badges' = [f \in Folders |-> IF tally[f].count > 0 THEN Badge(tally[f], TRUE) ELSE badges[f]]
      /\ UNCHANGED <<tree, moves, moved>>
      /\ \A r \in C : Credited(r, folder) \cap _runningFolders = {}
  <2>1. (UNION {Credited(r, folder) : r \in C}) \cap _runningFolders = {}
    BY DEF StartRun, StartRunGuarding
  <2>2. runs[n] = NotStarted /\ runs' = [runs EXCEPT ![n] = R]
    BY DEF StartRun, StartRunGuarding
  <2>3. badges' = [f \in Folders |-> IF tally[f].count > 0 THEN Badge(tally[f], TRUE) ELSE badges[f]]
    BY DEF StartRun, StartRunGuarding
  <2>4. UNCHANGED <<tree, moves, moved>>
    BY DEF StartRun, StartRunGuarding
  <2> QED
    BY <2>1, <2>2, <2>3, <2>4
<1>2. C \in SUBSET Runnables /\ chain \in [Runnables -> SUBSET Folders]
  BY DEF Collected, Credited, Above
<1>3. \A f \in Folders : /\ IsFiniteSet({r \in Runnables : f \in chain[r]})
                         /\ Cardinality({r \in Runnables : f \in chain[r]}) \in Nat
  <2> TAKE f \in Folders
  <2>1. {r \in Runnables : f \in chain[r]} \in SUBSET Runnables
    OBVIOUS
  <2> QED
    BY <2>1, FolderRunAssumption, FS_Subset, FS_CardinalityType
<1>4. \A f \in Folders : /\ tally[f].count = Cardinality({r \in Runnables : f \in chain[r]})
                         /\ tally[f].passed = 0 /\ tally[f].failed = 0 /\ tally[f].completed = 0
                         /\ tally[f] \in Tally
  BY <1>3 DEF NoTally, Tally
<1>5. tally \in [Folders -> Tally]
  BY <1>4
<1>6. \A r \in C : chain[r] = Credited(r, folder)
  BY <1>2
<1>7. \A r \in Runnables : chain[r] # {} => r \in C
  OBVIOUS
<1> HIDE DEF chain, tally, C
<1>8. /\ R.root = folder /\ R.left = C /\ R.at = Blank /\ R.stage = "idle" /\ R.passed = 0
      /\ R.chain = chain /\ R.tally = tally /\ R.live = TRUE /\ R \in FolderRuns
  BY <1>2, <1>5 DEF FolderRuns
<1> HIDE DEF R
<1>9. Remaining(R) = C
  BY <1>2, <1>8, FolderRunAssumption DEF Remaining
<1>10. runs'[n] = R /\ (\A m \in Runs : m # n => runs'[m] = runs[m]) /\ ~runs[n].live
       /\ Blank \notin Runnables
  BY <1>1, FolderRunAssumption DEF FolderTyped, NotStarted
<1>11. FolderTyped'
  <2>1. runs' \in [Runs -> FolderRuns]
    BY <1>1, <1>8 DEF FolderTyped
  <2>2. badges' \in [Folders -> [tally : Tally, running : BOOLEAN] \cup {Blank}]
    BY <1>1, <1>5 DEF FolderTyped, Badge
  <2> QED
    BY <1>1, <2>1, <2>2 DEF FolderTyped
<1>12. TallySound(R)
  <2>1. ASSUME NEW f \in Folders PROVE Owed(R, f) = {r \in Runnables : f \in chain[r]}
    BY <1>2, <1>7, <1>8, <1>9 DEF Owed
  <2> QED
    BY <1>3, <1>4, <1>8, <2>1 DEF TallySound
<1>13. \A r \in Remaining(R) : tree[r] \in R.chain[r]
  <2> SUFFICES ASSUME NEW r \in C PROVE tree[r] \in chain[r]
    BY <1>8, <1>9
  <2>1. tree[r] \in Credited(r, folder)
    BY ParentIsCredited DEF C
  <2> QED
    BY <1>6, <2>1
<1>14. \A f \in Locked(n)' : \E r \in C : f \in Credited(r, folder)
  <2> TAKE f \in Locked(n)'
  <2>1. f \in Folders /\ tally[f].count > 0
    BY <1>8, <1>10 DEF Locked
  <2>2. {r \in Runnables : f \in chain[r]} # {}
    BY <1>3, <1>4, <2>1, FS_EmptySet
  <2> QED
    BY <1>6, <1>7, <2>2
<1>15. \A m \in Runs : m # n => Locked(m)' = Locked(m)
  BY <1>10 DEF Locked
<1>16. \A m \in Runs : runs'[m].live => m = n \/ runs[m].live
  BY <1>10
<1>17. RunsDoNotOverlap'
  <2>1. ASSUME NEW m \in Runs, m # n, runs[m].live
        PROVE  /\ Locked(n)' \cap Locked(m)' = {}
               /\ moved \/ (R.left \cup {R.at}) \cap (runs[m].left \cup {runs[m].at}) \subseteq {Blank}
    <3>1. Locked(m) \subseteq _runningFolders
      BY <2>1 DEF _runningFolders
    <3>2. Locked(n)' \cap Locked(m)' = {}
      <4> HIDE DEF FolderInv
      <4>1. Locked(m)' = Locked(m)
        BY <1>15, <2>1
      <4>2. \A r \in C : Credited(r, folder) \cap _runningFolders = {}
        BY <1>1
      <4> QED
        BY <1>14, <3>1, <4>1, <4>2
    <3>3. ASSUME ~moved, NEW r \in C, r \in Remaining(runs[m]) PROVE FALSE
      <4>1. tree[r] \in runs[m].chain[r] /\ TallySound(runs[m])
        BY <2>1, <3>3 DEF ParentIsLocked
      <4>2. runs[m] \in FolderRuns /\ r \in Runnables
        BY <1>2, <3>3 DEF FolderTyped
      <4>3. tree[r] \in Folders
        BY <4>1, <4>2 DEF FolderRuns
      <4>4. tree[r] \in Locked(m)
        BY <3>3, <4>1, <4>3, OwedIsLocked
      <4>5. tree[r] \in Credited(r, folder)
        BY <3>3, ParentIsCredited DEF C
      <4>6. \A q \in C : Credited(q, folder) \cap _runningFolders = {}
        BY <1>1
      <4> QED
        BY <3>1, <3>3, <4>4, <4>5, <4>6
    <3> QED
      BY <1>8, <3>2, <3>3 DEF Remaining
  <2>2. ASSUME NEW k \in Runs, NEW m \in Runs, k # m, runs[k].live, runs[m].live, k # n, m # n
        PROVE  /\ Locked(k)' \cap Locked(m)' = {}
               /\ moved \/ (runs[k].left \cup {runs[k].at}) \cap (runs[m].left \cup {runs[m].at}) \subseteq {Blank}
    BY <1>15, <2>2 DEF FolderRunsAreSound, RunsDoNotOverlap
  <2> SUFFICES ASSUME NEW k \in Runs, NEW m \in Runs, k # m, runs'[k].live, runs'[m].live
               PROVE  /\ Locked(k)' \cap Locked(m)' = {}
                      /\ moved \/ (runs'[k].left \cup {runs'[k].at})
                                    \cap (runs'[m].left \cup {runs'[m].at}) \subseteq {Blank}
    BY <1>1 DEF RunsDoNotOverlap
  <2>3. CASE k = n
    BY <1>10, <1>16, <2>1, <2>3
  <2>4. CASE m = n
    BY <1>10, <1>16, <2>1, <2>4
  <2>5. CASE k # n /\ m # n
    BY <1>10, <1>16, <2>2, <2>5
  <2> QED
    BY <2>3, <2>4, <2>5
<1>18. BadgesAddUp'
  <2>1. _runningFolders \subseteq _runningFolders'
    BY <1>10, <1>15 DEF _runningFolders
  <2>2. \A f \in Folders : tally[f].count > 0 => f \in _runningFolders'
    BY <1>8, <1>10 DEF _runningFolders, Locked
  <2> SUFFICES ASSUME NEW f \in Folders, badges'[f] # Blank
               PROVE  IF badges'[f].running THEN f \in _runningFolders'
                      ELSE LET t == badges'[f].tally
                           IN t.completed = t.count /\ t.passed <= t.count /\ t.failed <= t.count
    BY DEF BadgesAddUp
  <2>3. CASE tally[f].count > 0
    BY <1>1, <2>2, <2>3 DEF Badge
  <2>4. CASE ~(tally[f].count > 0)
    BY <1>1, <2>1, <2>4 DEF FolderRunsAreSound, BadgesAddUp
  <2> QED
    BY <2>3, <2>4
<1>19. ~moved => \A m \in Runs : runs'[m].live => ParentIsLocked(m)'
  <2> SUFFICES ASSUME ~moved, NEW m \in Runs, runs'[m].live PROVE ParentIsLocked(m)'
    OBVIOUS
  <2>1. CASE m = n
    BY <1>1, <1>10, <1>13, <2>1 DEF ParentIsLocked
  <2>2. CASE m # n
    <3>1. runs'[m] = runs[m] /\ ParentIsLocked(m) /\ tree' = tree
      BY <1>1, <1>10, <2>2
    <3> QED
      BY <3>1 DEF ParentIsLocked
  <2> QED
    BY <2>1, <2>2
<1>20. /\ \A m \in Runs : runs'[m].live => TallySound(runs'[m])
       /\ \A m \in Runs : ~runs'[m].live => runs'[m].stage = "idle"
  BY <1>8, <1>10, <1>12
<1> QED
  BY <1>1, <1>11, <1>17, <1>18, <1>19, <1>20 DEF FolderRunsAreSound

LEMMA ExecuteInv ==
  ASSUME FolderInv, NEW n \in Runs, NEW r \in Runnables, Execute(n, r) \/ \E p \in 0..1 : Answered(n, p)
  PROVE  FolderInv'
<1> USE DEF FolderInv
<1>1. runs[n] \in FolderRuns /\ Blank \notin Runnables
  BY FolderRunAssumption DEF FolderTyped
<1>2. /\ \A m \in Runs : m # n => runs'[m] = runs[m]
      /\ runs'[n] \in FolderRuns /\ runs'[n].live = runs[n].live /\ runs'[n].chain = runs[n].chain
      /\ runs'[n].tally = runs[n].tally /\ runs' \in [Runs -> FolderRuns]
      /\ UNCHANGED <<tree, badges, moves, moved>>
  <2>1. CASE Execute(n, r)
    BY <1>1, <2>1 DEF Execute, FolderTyped, FolderRuns
  <2>2. ASSUME NEW p \in 0..1, Answered(n, p) PROVE <1>2!:
    BY <1>1, <2>2 DEF Answered, FolderTyped, FolderRuns
  <2> QED
    BY <2>1, <2>2
<1>3. /\ Remaining(runs'[n]) = Remaining(runs[n])
      /\ (runs'[n].stage = "idle") <=> (runs'[n].at = Blank)
      /\ runs'[n].at # Blank => runs'[n].at \notin runs'[n].left
      /\ runs[n].live
  <2>1. CASE Execute(n, r)
    BY <1>1, <2>1 DEF Execute, FolderTyped, FolderRuns, Remaining
  <2>2. ASSUME NEW p \in 0..1, Answered(n, p) PROVE <1>3!:
    <3>1. runs[n].stage = "sent" /\ runs[n].live
      BY <2>2 DEF Answered
    <3> QED
      BY <1>1, <2>2, <3>1 DEF Answered, FolderTyped, FolderRuns, Remaining, TallySound
  <2> QED
    BY <2>1, <2>2
<1>4. FolderTyped'
  BY <1>2 DEF FolderTyped
<1>5. TallySound(runs'[n])
  <2>1. \A f : Owed(runs'[n], f) = Owed(runs[n], f)
    BY <1>2, <1>3 DEF Owed
  <2> QED
    BY <1>2, <1>3, <2>1 DEF TallySound
<1>6. BadgesAddUp'
  BY <1>2, <1>3, BadgesGoOn
<1> QED
  BY <1>2, <1>3, <1>4, <1>5, <1>6, RunGoesOn

\* What a folder makes of a request that is done.
Added(t, p, q) == [t EXCEPT !.passed = @ + p, !.failed = @ + q, !.completed = @ + 1]

LEMMA AddedTally ==
  ASSUME NEW t \in Tally, NEW p \in Nat, NEW q \in Nat
  PROVE  /\ Added(t, p, q) \in Tally
         /\ Added(t, p, q).count = t.count /\ Added(t, p, q).completed = t.completed + 1
         /\ Added(t, p, q).passed = t.passed + p /\ Added(t, p, q).failed = t.failed + q
<1> DEFINE u == Added(t, p, q)
<1>1. u.count = t.count /\ u.completed = t.completed + 1 /\ u.passed = t.passed + p /\ u.failed = t.failed + q
  BY DEF Added, Tally
<1>2. t.passed + p \in Nat /\ t.failed + q \in Nat /\ t.completed + 1 \in Nat
  BY DEF Tally
<1>3. \A a, b, c \in Nat : [t EXCEPT !.passed = a, !.failed = b, !.completed = c] \in Tally
  BY DEF Tally
<1>4. u \in Tally
  BY <1>2, <1>3 DEF Added
<1> QED
  BY <1>1, <1>4 DEF u

LEMMA CreditInv ==
  ASSUME FolderInv, NEW n \in Runs, NEW failed \in 0..1, Credit(n, failed),
         runs[n].stage \in {"sent", "scored"}
  PROVE  FolderInv'
<1> USE DEF FolderInv
<1> DEFINE run == runs[n]
           add(t) == [t EXCEPT !.passed = @ + run.passed, !.failed = @ + failed, !.completed = @ + 1]
           chain == run.chain[run.at]
           tally == [f \in Folders |-> IF f \in chain THEN add(run.tally[f]) ELSE run.tally[f]]
<1>1. /\ run \in FolderRuns /\ Blank \notin Runnables
      /\ run.live /\ TallySound(run) /\ run.at \in Runnables /\ run.at \notin run.left /\ run.passed \in 0..1
  <2>1. run \in FolderRuns /\ Blank \notin Runnables /\ run.live
    BY FolderRunAssumption DEF FolderTyped
  <2> QED
    BY <2>1 DEF FolderRuns, TallySound
<1>2. /\ runs' = [runs EXCEPT ![n].tally = tally, ![n].at = Blank, ![n].stage = "idle", ![n].passed = 0]
      /\ badges' = [f \in Folders |-> IF f \in chain THEN Badge(tally[f], TRUE) ELSE badges[f]]
      /\ UNCHANGED <<tree, moves, moved>>
  BY DEF Credit
<1>3. \A f \in Folders :
        /\ run.tally[f] \in Tally /\ tally[f] \in Tally /\ tally[f].count = run.tally[f].count
        /\ f \notin chain => tally[f] = run.tally[f]
        /\ f \in chain => /\ tally[f].completed = run.tally[f].completed + 1
                          /\ tally[f].passed = run.tally[f].passed + run.passed
                          /\ tally[f].failed = run.tally[f].failed + failed
  <2> TAKE f \in Folders
  <2>1. run.tally[f] \in Tally
    BY <1>1 DEF FolderRuns
  <2>2. run.passed \in Nat /\ failed \in Nat
    BY <1>1
  <2>3. tally[f] = IF f \in chain THEN add(run.tally[f]) ELSE run.tally[f]
    OBVIOUS
  <2>4. add(run.tally[f]) = Added(run.tally[f], run.passed, failed)
    BY DEF Added
  <2> DEFINE t == run.tally[f]
             u == Added(t, run.passed, failed)
  <2> HIDE DEF FolderInv, tally, chain, run, add
  <2>5. /\ u \in Tally /\ u.count = t.count /\ u.completed = t.completed + 1
        /\ u.passed = t.passed + run.passed /\ u.failed = t.failed + failed
    BY <2>1, <2>2, AddedTally
  <2>6. tally[f] = IF f \in chain THEN u ELSE t
    BY <2>3, <2>4
  <2> HIDE DEF u
  <2>7. CASE f \in chain
    BY <2>1, <2>5, <2>6, <2>7
  <2>8. CASE f \notin chain
    BY <2>1, <2>6, <2>8
  <2> QED
    BY <2>7, <2>8
<1>4. tally \in [Folders -> Tally]
  BY <1>3
<1> HIDE DEF tally
<1>5. /\ \A m \in Runs : m # n => runs'[m] = runs[m]
      /\ runs'[n].live /\ runs'[n].chain = run.chain /\ runs'[n].tally = tally
      /\ runs'[n].at = Blank /\ runs'[n].stage = "idle" /\ runs'[n].left = run.left
      /\ runs' \in [Runs -> FolderRuns]
  BY <1>1, <1>2, <1>4 DEF FolderTyped, FolderRuns
<1>6. FolderTyped'
  <2>1. badges' \in [Folders -> [tally : Tally, running : BOOLEAN] \cup {Blank}]
    BY <1>2, <1>4 DEF FolderTyped, Badge
  <2> QED
    BY <1>2, <1>5, <2>1 DEF FolderTyped
<1>7. Remaining(run) = run.left \cup {run.at} /\ Remaining(runs'[n]) = run.left
  BY <1>1, <1>5 DEF Remaining, FolderRuns
<1>8. TallySound(runs'[n])
  <2> SUFFICES ASSUME NEW f \in Folders
               PROVE  /\ tally[f].completed + Cardinality(Owed(runs'[n], f)) = tally[f].count
                      /\ tally[f].passed <= tally[f].completed /\ tally[f].failed <= tally[f].completed
    BY <1>5 DEF TallySound
  <2>1. /\ run.tally[f].completed + Cardinality(Owed(run, f)) = run.tally[f].count
        /\ run.tally[f].passed <= run.tally[f].completed /\ run.tally[f].failed <= run.tally[f].completed
    BY <1>1 DEF TallySound
  <2>2. IsFiniteSet(Owed(run, f)) /\ Cardinality(Owed(run, f)) \in Nat
    BY <1>1, OwedFinite
  <2>3. CASE f \in chain
    <3>1. run.at \in Owed(run, f) /\ Owed(runs'[n], f) = Owed(run, f) \ {run.at}
      BY <1>1, <1>5, <1>7, <2>3 DEF Owed
    <3>2. Cardinality(Owed(runs'[n], f)) = Cardinality(Owed(run, f)) - 1
      <4> HIDE DEF FolderInv, run, chain
      <4> QED
        BY <2>2, <3>1, FS_RemoveElement
    <3> HIDE DEF run, chain
    <3> QED
      BY <1>1, <1>3, <2>1, <2>2, <2>3, <3>2 DEF Tally
  <2>4. CASE f \notin chain
    <3>1. Owed(runs'[n], f) = Owed(run, f)
      BY <1>1, <1>5, <1>7, <2>4 DEF Owed
    <3> QED
      BY <1>3, <2>1, <2>4, <3>1
  <2> QED
    BY <2>3, <2>4
<1>9. \A f \in Folders : badges'[f] = badges[f] \/ (badges'[f].running /\ f \in Locked(n))
  <2> TAKE f \in Folders
  <2>1. f \in chain => f \in Locked(n)
    BY <1>1, <1>7, OwedIsLocked
  <2> QED
    BY <1>2, <2>1 DEF Badge
<1>10. BadgesAddUp'
  BY <1>3, <1>5, <1>9, BadgesGoOn
<1> QED
  BY <1>1, <1>2, <1>3, <1>5, <1>6, <1>7, <1>8, <1>10, RunGoesOn

LEMMA EndRunInv == ASSUME FolderInv, NEW n \in Runs, EndRun(n) PROVE FolderInv'
<1> USE DEF FolderInv
<1>1. runs[n] \in FolderRuns /\ TallySound(runs[n]) /\ Remaining(runs[n]) = {}
  BY DEF EndRun, FolderTyped, Remaining
<1>2. /\ \A m \in Runs : m # n => runs'[m] = runs[m]
      /\ ~runs'[n].live /\ runs'[n].stage = "idle" /\ runs' \in [Runs -> FolderRuns]
      /\ runs'[n].tally = runs[n].tally /\ UNCHANGED <<tree, moves, moved>>
      /\ badges' = [f \in Folders |-> IF f \in Locked(n) THEN Badge(runs[n].tally[f], FALSE) ELSE badges[f]]
  BY <1>1 DEF EndRun, Settle_, FolderTyped, FolderRuns
<1>3. FolderTyped'
  <2>1. badges' \in [Folders -> [tally : Tally, running : BOOLEAN] \cup {Blank}]
    BY <1>1, <1>2 DEF FolderTyped, Badge, FolderRuns
  <2> QED
    BY <1>2, <2>1 DEF FolderTyped
<1>4. \A m \in Runs : runs'[m].live => m # n /\ runs[m].live /\ runs'[m] = runs[m]
  BY <1>2
<1>5. \A m \in Runs : Locked(m)' = Locked(m)
  BY <1>2 DEF Locked
<1>6. RunsDoNotOverlap'
  BY <1>2, <1>4, <1>5 DEF FolderRunsAreSound, RunsDoNotOverlap
<1>7. BadgesAddUp'
  <2>1. _runningFolders \ Locked(n) \subseteq _runningFolders'
    BY <1>2, <1>5 DEF _runningFolders
  <2> SUFFICES ASSUME NEW f \in Folders, badges'[f] # Blank
               PROVE  IF badges'[f].running THEN f \in _runningFolders'
                      ELSE LET t == badges'[f].tally
                           IN t.completed = t.count /\ t.passed <= t.count /\ t.failed <= t.count
    BY DEF BadgesAddUp
  <2>2. CASE f \in Locked(n)
    <3>1. Owed(runs[n], f) = {}
      BY <1>1 DEF Owed
    <3>2. Cardinality(Owed(runs[n], f)) = 0 /\ runs[n].tally[f] \in Tally
      BY <1>1, <3>1, FS_EmptySet DEF FolderRuns
    <3>3. /\ runs[n].tally[f].completed + Cardinality(Owed(runs[n], f)) = runs[n].tally[f].count
          /\ runs[n].tally[f].passed <= runs[n].tally[f].completed
          /\ runs[n].tally[f].failed <= runs[n].tally[f].completed
      BY <1>1 DEF TallySound
    <3>4. badges'[f].running = FALSE /\ badges'[f].tally = runs[n].tally[f]
      BY <1>2, <2>2 DEF Badge
    <3>5. /\ runs[n].tally[f].completed = runs[n].tally[f].count
          /\ runs[n].tally[f].passed <= runs[n].tally[f].count
          /\ runs[n].tally[f].failed <= runs[n].tally[f].count
      BY <3>2, <3>3 DEF Tally
    <3> QED
      BY <3>4, <3>5
  <2>3. CASE f \notin Locked(n)
    BY <1>2, <2>1, <2>3 DEF FolderRunsAreSound, BadgesAddUp
  <2> QED
    BY <2>2, <2>3
<1>8. ~moved => \A m \in Runs : runs'[m].live => ParentIsLocked(m)'
  BY <1>2, <1>4 DEF ParentIsLocked
<1> QED
  BY <1>2, <1>3, <1>4, <1>6, <1>7, <1>8 DEF FolderRunsAreSound

LEMMA TreeStepInv ==
  ASSUME FolderInv, \/ \E f \in Folders : ClearCounts(f)
                    \/ \E x \in Nodes, to \in Folders \cup {Top, Gone} : Move(x, to)
  PROVE  FolderInv'
<1> USE DEF FolderInv
<1>1. /\ runs' = runs /\ moved \in BOOLEAN /\ moved' \in BOOLEAN
      /\ moved => moved'
      /\ \A f \in Folders : badges'[f] = badges[f] \/ badges'[f] = Blank
      /\ tree' = tree \/ moved' \/ \A n \in Runs : ~runs[n].live
  BY DEF ClearCounts, Move, FolderTyped
<1>2. FolderTyped'
  <2>1. ASSUME NEW f \in Folders, ClearCounts(f) PROVE FolderTyped'
    BY <2>1 DEF ClearCounts, FolderTyped
  <2>2. ASSUME NEW x \in Nodes, NEW to \in Folders \cup {Top, Gone}, Move(x, to) PROVE FolderTyped'
    <3>1. tree' \in [Nodes -> Folders \cup {Top, Gone}] /\ moves' \in 0..MaxMoves
          /\ UNCHANGED <<runs, badges>>
      BY <2>2, FolderRunAssumption DEF Move, FolderTyped
    <3> QED
      BY <1>1, <3>1 DEF FolderTyped
  <2> QED
    BY <2>1, <2>2
<1>3. /\ \A m : Locked(m)' = Locked(m)
      /\ _runningFolders' = _runningFolders
  BY <1>1 DEF Locked, _runningFolders
<1>4. RunsDoNotOverlap'
  BY <1>1, <1>3 DEF FolderRunsAreSound, RunsDoNotOverlap
<1>5. BadgesAddUp'
  BY <1>1, <1>3 DEF FolderRunsAreSound, BadgesAddUp
<1>6. ~moved' => \A m \in Runs : runs'[m].live => ParentIsLocked(m)'
  BY <1>1 DEF ParentIsLocked
<1> QED
  BY <1>1, <1>2, <1>4, <1>5, <1>6 DEF FolderRunsAreSound

LEMMA FolderInvariant == FolderRunSpec => []FolderInv
<1>1. FolderRunInit => FolderInv
  <2> SUFFICES ASSUME FolderRunInit PROVE FolderInv
    OBVIOUS
  <2>1. NotStarted \in FolderRuns /\ ~NotStarted.live /\ NotStarted.stage = "idle"
    BY DEF NotStarted, FolderRuns, NoTally, Tally
  <2>2. \A n \in Runs : runs[n] = NotStarted
    BY DEF FolderRunInit
  <2>3. FolderTyped
    <3>1. tree \in [Nodes -> Folders \cup {Top, Gone}]
      BY FolderRunAssumption DEF FolderRunInit, Nodes
    <3>2. runs \in [Runs -> FolderRuns]
      BY <2>1 DEF FolderRunInit
    <3>3. moves \in 0..MaxMoves
      BY FolderRunAssumption DEF FolderRunInit
    <3> QED
      BY <3>1, <3>2, <3>3 DEF FolderRunInit, FolderTyped
  <2>4. FolderRunsAreSound
    BY <2>1, <2>2 DEF FolderRunInit, FolderRunsAreSound, RunsDoNotOverlap, BadgesAddUp
  <2> QED
    BY <2>1, <2>2, <2>3, <2>4 DEF FolderInv
<1>2. FolderInv /\ [FolderRunNext]_folderVars => FolderInv'
  <2> SUFFICES ASSUME FolderInv, [FolderRunNext]_folderVars PROVE FolderInv'
    OBVIOUS
  <2>1. ASSUME NEW n \in Runs, Recorded(n) \/ RequestFails(n) PROVE FolderInv'
    BY <2>1, CreditInv DEF Recorded, RequestFails
  <2>2. CASE UNCHANGED folderVars
    BY <2>2 DEF folderVars, FolderInv, FolderTyped, ParentIsLocked, FolderRunsAreSound,
       RunsDoNotOverlap, BadgesAddUp, Locked, _runningFolders
  <2>3. ASSUME NEW n \in Runs, NEW p \in 0..1, Answered(n, p) PROVE FolderInv'
    <3>1. runs[n].at \in Runnables
      BY <2>3, FolderRunAssumption DEF Answered, FolderInv, FolderTyped, FolderRuns, TallySound
    <3> QED
      BY <2>3, <3>1, ExecuteInv
  <2> QED
    BY <2>1, <2>2, <2>3, StartRunInv, ExecuteInv, EndRunInv, TreeStepInv DEF FolderRunNext
<1> QED
  BY <1>1, <1>2, PTL DEF FolderRunSpec

\* However runs of folders and requests, the clearing of badges and moves in the tree
\* interleave, runs keep out of each other's folders and bring every badge to its end.
THEOREM FolderRunsKeepApart == FolderRunSpec => []FolderRunsAreSound
<1>1. FolderInv => FolderRunsAreSound
  BY DEF FolderInv
<1> QED
  BY <1>1, FolderInvariant, PTL

=============================================================================

---------------------- MODULE WorkspaceDisk_proofs ----------------------
(***************************************************************************)
(* Proof that the disk catches up with the user (DiskCatchesUp), for any   *)
(* collections, requests, commands and crashes.                            *)
(*                                                                         *)
(* The invariants of WorkspaceSaves_proofs say where everything stays; the *)
(* one of this module says where it comes to.  It plays the queue of calls *)
(* forward: what the manifest, a collection's directory and the headers    *)
(* will be once every message under way is served, and that this, with     *)
(* what timers and unfinished handlers still hold back, is what the user   *)
(* wanted.  When nothing is under way, the two are the same.               *)
(***************************************************************************)
EXTENDS WorkspaceSaves_proofs

-----------------------------------------------------------------------------
(* What comes to the disk *)

\* Once the queue q is served something is so: it is so now and all in q spares it, or a
\* message of q sets it, all behind spares it, and none of the early ones is before.
Comes(q, now, sets, spares, early) ==
  \/ now /\ \A i \in DOMAIN q : q[i] \in spares
  \/ \E i \in DOMAIN q : /\ q[i] \in sets
                         /\ \A j \in DOMAIN q : i < j => q[j] \in spares
                         /\ \A j \in DOMAIN q : j < i => q[j] \notin early

\* A request r of the collection c is in its tree or not; it has the version w; the headers are h.
Puts(c, r, w) == {m \in Messages : m.op = "save" /\ m.coll = c /\ (m.items[r] > 0 <=> w > 0)}
PutsOnly(c, r, w) == {m \in Messages : m.op = "save" /\ m.coll = c => (m.items[r] > 0 <=> w > 0)}
Patches(r, w) == {m \in Messages : m.op = "update" /\ m.req = r /\ w > 0}
Writes(c, r, w) == {m \in Messages : \/ m.op = "save" /\ m.coll = c /\ m.items[r] = w
                                     \/ m.op = "update" /\ m.req = r /\ m.version = w}
WritesOnly(c, r, w) == {m \in Messages : /\ m.op = "save" /\ m.coll = c => m.items[r] = w
                                         /\ m.op = "update" /\ m.req = r => m.version = w}
Heads(c, h) == {m \in Messages : m.op = "save" /\ m.coll = c /\ m.headers = h}
HeadsOnly(c, h) == {m \in Messages : m.op = "save" /\ m.coll = c => m.headers = h}

HoldsIn(d, r) == IF r \in d.tree THEN d.files[r] ELSE 0
PresenceComes(q, d, r, c, w) ==
  Comes(q, HoldsIn(d, r) > 0 <=> w > 0, Puts(c, r, w), PutsOnly(c, r, w), Patches(r, w))
VersionComes(q, d, r, c, w) ==
  Comes(q, HoldsIn(d, r) = w, Writes(c, r, w), WritesOnly(c, r, w), {})
HeadersCome(q, d, c, h) == Comes(q, d.headers = h, Heads(c, h), HeadsOnly(c, h), {})

\* The version w of r waits for the timer, or in a batch that has messages in q or is answered t.
Carried(t, r, w) == t.step = "batch" /\ t.patches[r] = w
Waits(q, t, p, r, w) == p[r] = w \/ Carried(t, r, w) \/ \E i \in DOMAIN q : Carried(q[i].then, r, w)
RequestComes(q, t, p, d, r, c, w) ==
  /\ PresenceComes(q, d, r, c, w)
  /\ w > 0 => Waits(q, t, p, r, w) \/ VersionComes(q, d, r, c, w)

LEMMA ComesSpared ==
  ASSUME NEW q \in Seq(Messages), NEW m \in Messages, NEW now \in BOOLEAN, NEW sets, NEW spares, NEW early,
         Comes(q, now, sets, spares, early), m \in spares
  PROVE  Comes(Append(q, m), now, sets, spares, early)
<1> DEFINE n == Append(q, m)
<1>1. /\ DOMAIN n = DOMAIN q \cup {Len(q) + 1} /\ Len(q) + 1 \notin DOMAIN q
      /\ n[Len(q) + 1] = m
      /\ \A i \in DOMAIN q : n[i] = q[i]
  BY Appended
<1>2. \A i \in DOMAIN q : ~(Len(q) + 1 < i)
  OBVIOUS
<1> HIDE DEF n
<1> QED BY <1>1, <1>2 DEF Comes, n

LEMMA ComesSet ==
  ASSUME NEW q \in Seq(Messages), NEW m \in Messages, NEW now \in BOOLEAN, NEW sets, NEW spares, NEW early,
         m \in sets, \A i \in DOMAIN q : q[i] \notin early
  PROVE  Comes(Append(q, m), now, sets, spares, early)
<1> DEFINE n == Append(q, m)
           k == Len(q) + 1
<1>1. /\ DOMAIN n = DOMAIN q \cup {k} /\ k \notin DOMAIN q
      /\ n[k] = m
      /\ \A i \in DOMAIN q : n[i] = q[i]
  BY Appended
<1>2. \A i \in DOMAIN n : ~(k < i) /\ (i < k => i \in DOMAIN q)
  BY <1>1
<1> HIDE DEF n, k
<1> QED BY <1>1, <1>2 DEF Comes, n

LEMMA ComesServed ==
  ASSUME NEW q \in Seq(Messages), q # <<>>, NEW now \in BOOLEAN, NEW then \in BOOLEAN,
         NEW sets, NEW spares, NEW early, Comes(q, now, sets, spares, early),
         Head(q) \in sets => then,
         now /\ Head(q) \in spares => then
  PROVE  Comes(Tail(q), then, sets, spares, early)
<1> DEFINE n == Tail(q)
<1>1. /\ Head(q) = q[1] /\ 1 \in DOMAIN q
      /\ \A i \in DOMAIN n : i + 1 \in DOMAIN q /\ n[i] = q[i + 1] /\ i + 1 # 1
  BY HeadAndTail
<1>2. DOMAIN q = 1..Len(q) /\ Len(q) \in Nat /\ DOMAIN n = 1..(Len(q) - 1)
  BY HeadTailProperties
<1>3. /\ \A i \in DOMAIN q : i = 1 \/ (i - 1 \in DOMAIN n /\ (i - 1) + 1 = i /\ 1 < i)
      /\ \A i, j \in DOMAIN n : i < j <=> i + 1 < j + 1
      /\ \A i \in DOMAIN n : 1 < i + 1
  BY <1>2
<1> HIDE DEF n
<1>4. CASE now /\ \A i \in DOMAIN q : q[i] \in spares
  BY <1>1, <1>4 DEF Comes, n
<1>5. CASE \E i \in DOMAIN q : /\ q[i] \in sets
                               /\ \A j \in DOMAIN q : i < j => q[j] \in spares
                               /\ \A j \in DOMAIN q : j < i => q[j] \notin early
  <2>1. PICK i \in DOMAIN q : /\ q[i] \in sets
                              /\ \A j \in DOMAIN q : i < j => q[j] \in spares
                              /\ \A j \in DOMAIN q : j < i => q[j] \notin early
    BY <1>5
  <2>2. CASE i = 1
    BY <1>1, <1>3, <2>1, <2>2 DEF Comes, n
  <2>3. CASE i # 1
    <3> DEFINE k == i - 1
    <3>1. k \in DOMAIN n /\ k + 1 = i /\ n[k] = q[i]
      BY <1>1, <1>3, <2>3
    <3>2. \A j \in DOMAIN n : (k < j => i < j + 1) /\ (j < k => j + 1 < i)
      BY <1>2, <1>3, <3>1
    <3> HIDE DEF k
    <3>3. /\ \A j \in DOMAIN n : k < j => n[j] \in spares
          /\ \A j \in DOMAIN n : j < k => n[j] \notin early
      BY <1>1, <2>1, <3>2
    <3> QED BY <2>1, <3>1, <3>3 DEF Comes, n
  <2> QED BY <2>2, <2>3
<1>6. \/ now /\ \A i \in DOMAIN q : q[i] \in spares
      \/ \E i \in DOMAIN q : /\ q[i] \in sets
                             /\ \A j \in DOMAIN q : i < j => q[j] \in spares
                             /\ \A j \in DOMAIN q : j < i => q[j] \notin early
  BY DEF Comes
<1> QED BY <1>4, <1>5, <1>6

\* What comes is so already when the first message is an early one.
LEMMA ComesEarly ==
  ASSUME NEW q \in Seq(Messages), q # <<>>, NEW now \in BOOLEAN, NEW sets, NEW spares, NEW early,
         Comes(q, now, sets, spares, early), Head(q) \in early \ sets
  PROVE  now /\ \A i \in DOMAIN q : q[i] \in spares
<1>1. Head(q) = q[1] /\ 1 \in DOMAIN q /\ \A i \in DOMAIN q : i = 1 \/ 1 < i
  BY HeadAndTail
<1> QED BY <1>1 DEF Comes

LEMMA ComesUnsent ==
  ASSUME NEW now \in BOOLEAN, NEW sets, NEW spares, NEW early
  PROVE  Comes(<<>>, now, sets, spares, early) <=> now
BY DEF Comes

\* Nothing has gone wrong that the code does not cope with.
Clean == ~overlapped /\ slips = {}

\* What fails leaves a slip.
CleanInv == slips = {} => failures = 0

LEMMA SlipsStay == ASSUME [Next]_vars PROVE slips \subseteq slips' /\ (slips' = {} => failures' = failures)
<1>a. /\ \A c, items, t : SaveCollectionData(c, items, t) => slips \subseteq slips'
      /\ \A t : FlushAndSave(t) => slips \subseteq slips'
  BY DEF FlushAndSave, SaveCollectionData, Note
<1>b. \A slip : Fails(slip) => slips \subseteq slips' /\ slips' # {}
  BY DEF Fails
<1>1. CASE Boot \/ Crash \/ UNCHANGED vars
  BY <1>1, <1>b DEF Boot, Crash, vars, historyVars, Works
<1>2. ASSUME NEW r \in Req, Edit(r) \/ AddRequest(r) \/ DeleteRequest(r)
      PROVE slips \subseteq slips' /\ failures' = failures
  BY <1>2 DEF Edit, AddRequest, DeleteRequest, SaveStructure, Note, Command
<1>3. ASSUME NEW c \in Coll, SelectCollection(c) \/ AddCollection(c) \/ DeleteCollection(c)
      PROVE slips \subseteq slips' /\ failures' = failures
  BY <1>3, <1>a DEF SelectCollection, AddCollection, DeleteCollection, Note, CollectionCommand, Command
<1>4. CASE SetHeaders \/ TimerFires
  BY <1>4 DEF SetHeaders, TimerFires, Note, Command
<1>5. CASE NextPatch \/ Flushed \/ Rewrite \/ RewriteHeaders
  BY <1>5, <1>a DEF NextPatch, Flushed, Rewrite, RewriteHeaders, Resume
<1>6. CASE SwitchSaved \/ SwitchListed \/ SwitchLoaded \/ AddStored \/ AddSaved \/ AddListed
  BY <1>6, <1>a DEF SwitchSaved, SwitchListed, SwitchLoaded, AddStored, AddSaved, AddListed, Resume
<1>7. CASE DeleteLoaded \/ DeleteShown \/ DeleteListed
  BY <1>7 DEF DeleteLoaded, DeleteShown, DeleteListed, Resume
<1>8. CASE ServeSave \/ ServeLoad \/ ServeManifest \/ ServeUpdate \/ ServeDelete \/ ServeRemove
           \/ ServeEnvironments
  BY <1>8, <1>b DEF ServeSave, ServeLoad, ServeManifest, ServeUpdate, ServeDelete, ServeRemove,
     ServeEnvironments, Works
<1> QED BY <1>1, <1>2, <1>3, <1>4, <1>5, <1>6, <1>7, <1>8 DEF Next

LEMMA CleanBefore == ASSUME SavesIInv, [Next]_vars, Clean' PROVE Clean
<1>1. slips = {}
  BY SlipsStay DEF Clean
<1> SUFFICES ASSUME overlapped PROVE FALSE
  BY <1>1 DEF Clean
<1>2. ~Command
  BY DEF Command
<1>3. CASE Boot \/ Crash \/ UNCHANGED vars
  BY <1>3 DEF Boot, Crash, vars, historyVars, Clean
<1>4. ASSUME NEW r \in Req, Edit(r) \/ AddRequest(r) \/ DeleteRequest(r) PROVE FALSE
  BY <1>2, <1>4 DEF Edit, AddRequest, DeleteRequest
<1>5. ASSUME NEW c \in Coll, SelectCollection(c) \/ AddCollection(c) \/ DeleteCollection(c) PROVE FALSE
  BY <1>2, <1>5 DEF SelectCollection, AddCollection, DeleteCollection, CollectionCommand
<1>6. CASE SetHeaders
  BY <1>2, <1>6 DEF SetHeaders
<1>7. CASE TimerFires
  <2>1. overlapped' = (overlapped \/ OffScreen)
    BY <1>7 DEF TimerFires
  <2>2. overlapped'
    BY <2>1, Zenon
  <2> QED BY <2>2 DEF Clean
<1>8. CASE NextPatch \/ Flushed \/ Rewrite \/ RewriteHeaders \/ SwitchSaved \/ SwitchListed
           \/ SwitchLoaded \/ AddStored \/ AddSaved \/ AddListed \/ DeleteLoaded \/ DeleteShown \/ DeleteListed
  BY <1>8 DEF NextPatch, Flushed, Rewrite, RewriteHeaders, SwitchSaved, SwitchListed, SwitchLoaded,
     AddStored, AddSaved, AddListed, DeleteLoaded, DeleteShown, DeleteListed, Resume, Clean
<1>9. CASE ServeSave \/ ServeLoad \/ ServeManifest \/ ServeUpdate \/ ServeDelete \/ ServeRemove
           \/ ServeEnvironments
  BY <1>9 DEF ServeSave, ServeLoad, ServeManifest, ServeUpdate, ServeDelete, ServeRemove,
     ServeEnvironments, Serve, Clean
<1> QED BY <1>3, <1>4, <1>5, <1>6, <1>7, <1>8, <1>9 DEF Next

\* What holds while the program runs and nothing has gone wrong.
LEMMA CleanFacts ==
  ASSUME DeletionsInv, CleanInv, Clean, up
  PROVE  /\ Shapes /\ Homely /\ Apart /\ Tracked /\ Resolves /\ Made /\ GoneFor
         /\ ListedUntil(queue, home, manifest.colls)
         /\ view.active \in view.colls /\ OneHandler(queue, reply, view, mirror.active)
         /\ queue \in Seq(Messages) /\ \A i \in DOMAIN queue : queue[i] \in Messages /\ queue[i].then \in Thens
         /\ reply.then \in Thens /\ reply.data \in Contents
         /\ view \in Views /\ mirror \in Mirrors /\ pending \in Items /\ wanted \in [Coll -> Contents]
         /\ home \in [Req -> Coll \cup {0}] /\ dirs \in [Coll -> Directories]
         /\ life \in [Coll -> {"unused", "made", "listed", "deleted"}]
         /\ view.colls \subseteq Coll /\ {view.active, view.shown, mirror.active} \subseteq Coll
         /\ view.items \in Items /\ mirror.items \in Items /\ mirror.headers \in Versions
<1>1. ~overlapped /\ slips = {} /\ failures = 0
  BY DEF Clean, CleanInv
<1>2. Shapes /\ HomesKept /\ OneAtATime /\ AwayInv /\ FaultlessInv /\ GoneInv
  BY DEF DeletionsInv, SavesIInv
<1>3. /\ Homely /\ Apart /\ Tracked /\ Resolves /\ Made /\ GoneFor
      /\ ListedUntil(queue, home, manifest.colls)
      /\ view.active \in view.colls /\ OneHandler(queue, reply, view, mirror.active)
  BY <1>1, <1>2 DEF HomesKept, OneAtATime, AwayInv, FaultlessInv, GoneInv
<1>4. \A i \in DOMAIN queue : queue[i] \in Messages /\ queue[i].then \in Thens
  BY <1>2, MessageTypes DEF Shapes, MessagesFit
<1> QED BY <1>2, <1>3, <1>4 DEF Shapes, StoresFit, WindowFits, MessagesFit, HistoryFits, Views, Mirrors

-----------------------------------------------------------------------------
(* What each step does while nothing goes wrong *)

Sane == DeletionsInv /\ CleanInv /\ Clean

\* The message m sends the patch of r out of p, for a handler or timer that goes on as t.
Patch(m, r, p, t) ==
  /\ r \in Req /\ p[r] > 0 /\ m.op = "update" /\ m.req = r /\ m.version = p[r]
  /\ \/ m.then = Ends /\ t = Ends /\ \A s \in Req : s # r => p[s] = 0
     \/ m.then \in Batches /\ m.then.then = t /\ m.then.patches = [p EXCEPT ![r] = 0]

LEMMA BatchPatches ==
  ASSUME NEW p \in Items, NEW t \in {Ends} \cup AfterSave, Batch(p, t)
  PROVE  \E m \in Messages, r \in Req : queue' = Append(queue, m) /\ Patch(m, r, p, t)
<1>1. PICK r \in In(p) : LET rest == [p EXCEPT ![r] = 0] IN
    Send(Update(r, p[r],
                IF rest = Nothing /\ t = Ends THEN Ends
                ELSE [step |-> "batch", patches |-> rest, then |-> t]))
  BY DEF Batch
<1> DEFINE rest == [p EXCEPT ![r] = 0]
           b == [step |-> "batch", patches |-> rest, then |-> t]
           u == IF rest = Nothing /\ t = Ends THEN Ends ELSE b
           m == Update(r, p[r], u)
<1>2. r \in Req /\ p[r] \in Versions /\ rest \in Items /\ p[r] > 0
  BY BoundFacts DEF In, Items
<1>3. ~(rest = Nothing /\ t = Ends) => b \in Batches
  BY <1>2, ThensMade
<1>4. b.then = t /\ b.patches = rest
  OBVIOUS
<1>5. u \in {Ends} \cup Batches
  BY <1>3
<1>6. m \in Messages /\ m.then = u /\ m.op = "update" /\ m.req = r /\ m.version = p[r]
  BY <1>2, <1>5, MessagesMade DEF Update
<1>7. queue' = Append(queue, m)
  BY <1>1 DEF Send
<1>8. rest = Nothing => \A s \in Req : s # r => p[s] = 0
  BY DEF Nothing, Items
<1>9. \/ u = Ends /\ t = Ends /\ rest = Nothing
      \/ u = b /\ b \in Batches
  BY <1>3
<1>10. \/ m.then = Ends /\ t = Ends /\ \A s \in Req : s # r => p[s] = 0
       \/ m.then \in Batches /\ m.then.then = t /\ m.then.patches = [p EXCEPT ![r] = 0]
  BY <1>4, <1>6, <1>8, <1>9
<1> HIDE DEF m, u, b
<1> QED BY <1>10, <1>2, <1>4, <1>6, <1>7, <1>8, <1>9 DEF Patch

\* What a save, and a flush, of the collection that the mirror holds sends.
LEMMA SaveKeepsMirror ==
  ASSUME Shapes, NEW items \in Items, NEW t \in AfterSave,
         SaveCollectionData(mirror.active, items, t), mirror.active \in Coll, slips' = {}
  PROVE  /\ mirror' \in Mirrors /\ mirror'.active = mirror.active /\ mirror'.headers = mirror.headers
         /\ mirror'.items = items
         /\ \E m \in Messages :
              /\ queue' = Append(queue, m) /\ m.op = "save" /\ m.coll = mirror.active /\ m.items = items
              /\ m.headers = wanted[mirror.active].headers /\ m.then = t
<1> DEFINE c == mirror.active
           m == Save(c, items, mirror.headers, t)
<1>1. /\ mirror' = [mirror EXCEPT !.items = items] /\ queue' = Append(queue, m)
      /\ mirror.headers = wanted[c].headers
  BY DEF SaveCollectionData, Send, Note, HeadersStale
<1>2. /\ mirror.headers \in Versions /\ mirror' \in Mirrors /\ mirror'.active = mirror.active
      /\ mirror'.headers = mirror.headers /\ mirror'.items = items
  BY <1>1 DEF Shapes, WindowFits, Mirrors
<1>3. m \in Messages
  BY <1>2, MessagesMade
<1>4. m.op = "save" /\ m.coll = c /\ m.items = items /\ m.headers = mirror.headers /\ m.then = t
  BY DEF Save
<1> HIDE DEF m
<1> QED BY <1>1, <1>2, <1>3, <1>4

Flushes(m, t) ==
  \/ /\ pending = Nothing /\ m.op = "save" /\ m.coll = mirror.active /\ m.items = view.items
     /\ m.headers = wanted[mirror.active].headers /\ m.then = t
  \/ \E r \in Req : Patch(m, r, pending, t)

LEMMA FlushKeepsMirror ==
  ASSUME Shapes, view.active = mirror.active, view.active \in Coll, NEW t \in AfterSave, FlushAndSave(t),
         slips' = {}
  PROVE  /\ pending' = Nothing /\ armed' = FALSE
         /\ mirror' \in Mirrors /\ mirror'.active = mirror.active /\ mirror'.headers = mirror.headers
         /\ mirror'.items = view.items
         /\ \E m \in Messages : queue' = Append(queue, m) /\ Flushes(m, t)
<1>1. view.items \in Items /\ pending \in Items /\ pending' = Nothing /\ armed' = FALSE
  BY DEF Shapes, StoresFit, WindowFits, MessagesFit, HistoryFits, Views, FlushAndSave
<1>2. CASE pending = Nothing
  <2>1. SaveCollectionData(mirror.active, view.items, t)
    BY <1>2 DEF FlushAndSave
  <2> QED BY <1>1, <1>2, <2>1, SaveKeepsMirror DEF Flushes
<1>3. CASE pending # Nothing
  <2>1. mirror' = [mirror EXCEPT !.items = view.items] /\ Batch(pending, t)
    BY <1>3 DEF FlushAndSave
  <2>2. /\ mirror' \in Mirrors /\ mirror'.active = mirror.active /\ mirror'.headers = mirror.headers
        /\ mirror'.items = view.items
    BY <1>1, <2>1 DEF Shapes, StoresFit, WindowFits, MessagesFit, HistoryFits, Mirrors
  <2>3. PICK m \in Messages, r \in Req : queue' = Append(queue, m) /\ Patch(m, r, pending, t)
    BY <1>1, <2>1, BatchPatches
  <2> QED BY <1>1, <2>2, <2>3 DEF Flushes
<1> QED BY <1>2, <1>3

LEMMA TimerEffect ==
  ASSUME Sane, Clean', TimerFires
  PROVE  /\ up /\ up' /\ reply = NoReply /\ reply' = reply
         /\ UNCHANGED <<manifest, dirs, cache, view, wanted, home, gone, life>>
         /\ view.shown = mirror.active /\ mirror'.active = mirror.active /\ mirror'.items = view.items
         /\ pending' = Nothing /\ \A r \in Req : pending[r] > 0 => home[r] = view.shown
         /\ \/ pending = Nothing /\ queue' = queue
            \/ \E m \in Messages, r \in Req : queue' = Append(queue, m) /\ Patch(m, r, pending, Ends)
<1>1. /\ up /\ up' /\ reply = NoReply /\ reply' = reply
      /\ UNCHANGED <<manifest, dirs, cache, view, wanted, home, gone, life>>
      /\ mirror' = [mirror EXCEPT !.items = view.items]
      /\ overlapped' = (overlapped \/ OffScreen) /\ Note("late", Late) /\ pending' = Nothing
      /\ IF pending = Nothing THEN UNCHANGED queue ELSE Batch(pending, Ends)
  BY DEF TimerFires, mainVars
<1>2. mirror \in Mirrors /\ pending \in Items
  BY <1>1, CleanFacts DEF Sane
<1>3. ~OffScreen
  <2>1. ~overlapped'
    BY DEF Clean
  <2> QED BY <1>1, <2>1, Zenon
<1>4. ~Late
  BY <1>1 DEF Note, Clean
<1>5. mirror'.active = mirror.active /\ mirror'.items = view.items
  BY <1>1, <1>2 DEF Mirrors
<1>6. \/ pending = Nothing /\ queue' = queue
      \/ \E m \in Messages, r \in Req : queue' = Append(queue, m) /\ Patch(m, r, pending, Ends)
  BY <1>1, <1>2, BatchPatches
<1> QED BY <1>1, <1>3, <1>4, <1>5, <1>6 DEF OffScreen, Late, In

\* What a command, and a resumption, leave alone.
Commanded == /\ up /\ up' /\ reply = NoReply /\ reply' = NoReply
             /\ UNCHANGED <<manifest, dirs, cache>>

LEMMA EditEffect ==
  ASSUME Sane, Clean', NEW r \in Req, Edit(r)
  PROVE  /\ Commanded
         /\ UNCHANGED <<mirror, queue, home, gone, life>>
         /\ \E v \in Versions :
              /\ v = view.items[r] + 1 /\ view.items[r] > 0
              /\ view'.items = [view.items EXCEPT ![r] = v]
              /\ view'.colls = view.colls /\ view'.active = view.active /\ view'.shown = view.shown
              /\ wanted' = [wanted EXCEPT ![view.shown].items[r] = v]
              /\ pending' = [pending EXCEPT ![r] = v]
<1>1. up
  BY DEF Edit, Command
<1>2. view \in Views
  BY <1>1, CleanFacts DEF Sane
<1> QED BY <1>2 DEF Edit, Command, Commanded, mainVars, Views

\* A change of the tree shown.
Restructured(items) ==
  /\ Commanded /\ view.shown = mirror.active /\ mirror.headers = wanted[mirror.active].headers
  /\ view'.items = items /\ view'.colls = view.colls /\ view'.active = view.active
  /\ view'.shown = view.shown
  /\ wanted' = [wanted EXCEPT ![view.shown].items = items]
  /\ mirror'.items = items /\ mirror'.active = mirror.active

LEMMA StructureEffect ==
  ASSUME Sane, Clean', Command, NEW items \in Items, SaveStructure(items)
  PROVE  Restructured(items)
<1>1. up
  BY DEF Command
<1>2. view \in Views /\ mirror \in Mirrors
  BY <1>1, CleanFacts DEF Sane
<1>3. /\ view' = [view EXCEPT !.items = items]
      /\ wanted' = [wanted EXCEPT ![view.shown].items = items]
      /\ mirror' = [mirror EXCEPT !.items = items]
      /\ overlapped' = (overlapped \/ OffScreen)
      /\ mirror.headers = wanted[view.shown].headers
  BY DEF SaveStructure, Note, Clean, HeadersStale
<1>4. ~OffScreen
  <2>1. ~overlapped'
    BY DEF Clean
  <2> QED BY <1>3, <2>1, Zenon
<1>5. Commanded
  BY DEF Command, Commanded, mainVars
<1> QED BY <1>2, <1>3, <1>4, <1>5 DEF Restructured, OffScreen, Views, Mirrors

\* The save of the changed tree.
SavesShown(m, items) ==
  /\ m \in Messages /\ m.op = "save" /\ m.coll = view.shown /\ m.items = items
  /\ m.headers = wanted[view.shown].headers /\ m.then = Ends

LEMMA AddRequestEffect ==
  ASSUME Sane, Clean', NEW r \in Req, AddRequest(r)
  PROVE  /\ Restructured([view.items EXCEPT ![r] = 1]) /\ [view.items EXCEPT ![r] = 1] \in Items
         /\ home[r] = 0 /\ home' = [home EXCEPT ![r] = view.shown]
         /\ UNCHANGED <<pending, armed, gone, life>>
         /\ \E m \in Messages : queue' = Append(queue, m) /\ SavesShown(m, [view.items EXCEPT ![r] = 1])
<1> DEFINE items == [view.items EXCEPT ![r] = 1]
           m == Save(mirror.active, items, mirror.headers, Ends)
<1>1. up /\ Command /\ SaveStructure(items) /\ queue' = Append(queue, m)
      /\ home[r] = 0 /\ home' = [home EXCEPT ![r] = view.shown]
      /\ UNCHANGED <<pending, armed, gone, life>>
  BY DEF AddRequest, Command, Send
<1>2. /\ view.items \in Items /\ mirror \in Mirrors /\ mirror.headers \in Versions
      /\ mirror.active \in Coll
  BY <1>1, CleanFacts DEF Sane
<1>3. items \in Items
  BY <1>2, BoundFacts DEF Items
<1> HIDE DEF items
<1>4. Restructured(items)
  BY <1>1, <1>3, StructureEffect
<1>5. m \in Messages
  BY <1>2, <1>3, MessagesMade
<1>6. SavesShown(m, items)
  BY <1>4, <1>5 DEF SavesShown, Restructured, Save
<1> HIDE DEF m
<1> QED BY <1>1, <1>3, <1>4, <1>5, <1>6 DEF items

LEMMA DeleteRequestEffect ==
  ASSUME Sane, Clean', NEW r \in Req, DeleteRequest(r)
  PROVE  /\ Restructured([view.items EXCEPT ![r] = 0]) /\ [view.items EXCEPT ![r] = 0] \in Items
         /\ view.items[r] > 0 /\ gone' = gone \cup {r} /\ pending' = [pending EXCEPT ![r] = 0]
         /\ UNCHANGED <<armed, home, life>>
         /\ \E m, n \in Messages :
              /\ queue' = Append(Append(queue, m), n)
              /\ SavesShown(m, [view.items EXCEPT ![r] = 0])
              /\ n.op = "delete" /\ n.req = r /\ n.then = Ends
<1> DEFINE items == [view.items EXCEPT ![r] = 0]
           m == Save(mirror.active, items, mirror.headers, Ends)
           n == DeleteFile(r)
<1>1. up /\ Command /\ SaveStructure(items) /\ queue' = queue \o <<m, n>>
      /\ view.items[r] > 0 /\ gone' = gone \cup {r} /\ pending' = [pending EXCEPT ![r] = 0]
      /\ UNCHANGED <<armed, home, life>>
  BY DEF DeleteRequest, Command
<1>2. /\ view.items \in Items /\ mirror \in Mirrors /\ mirror.headers \in Versions
      /\ mirror.active \in Coll /\ queue \in Seq(Messages)
  BY <1>1, CleanFacts DEF Sane
<1>3. items \in Items
  BY <1>2, BoundFacts DEF Items
<1> HIDE DEF items
<1>4. Restructured(items)
  BY <1>1, <1>3, StructureEffect
<1>5. m \in Messages /\ n \in Messages
  BY <1>2, <1>3, MessagesMade
<1>6. SavesShown(m, items) /\ n.op = "delete" /\ n.req = r /\ n.then = Ends
  BY <1>4, <1>5 DEF SavesShown, Restructured, Save, DeleteFile
<1> HIDE DEF m, n
<1>7. queue' = Append(Append(queue, m), n)
  BY <1>1, <1>2, <1>5
<1> QED BY <1>1, <1>3, <1>4, <1>5, <1>6, <1>7 DEF items

LEMMA SetHeadersEffect ==
  ASSUME Sane, Clean', SetHeaders
  PROVE  /\ Commanded /\ view.active = mirror.active /\ view.shown = mirror.active
         /\ UNCHANGED <<view, pending, armed, home, gone, life>>
         /\ In(mirror.items) = In(wanted[view.active].items)
         /\ mirror'.items = mirror.items /\ mirror'.active = mirror.active
         /\ \E h \in Versions, m \in Messages :
              /\ wanted' = [wanted EXCEPT ![view.active].headers = h]
              /\ queue' = Append(queue, m)
              /\ m.op = "save" /\ m.coll = view.active /\ m.items = mirror.items
              /\ m.headers = h /\ m.then = Ends
<1> DEFINE c == view.active
           h == wanted[c].headers + 1
           m == Save(c, mirror.items, h, Ends)
<1>1. /\ up /\ Commanded /\ h \in Versions /\ wanted' = [wanted EXCEPT ![c].headers = h]
      /\ overlapped' = (overlapped \/ OffScreen \/ c # mirror.active)
      /\ c = mirror.active => /\ mirror' = [mirror EXCEPT !.headers = h] /\ queue' = Append(queue, m)
                              /\ In(mirror.items) = In(wanted[c].items)
      /\ UNCHANGED <<view, pending, armed, home, gone, life>>
  BY DEF SetHeaders, Command, Commanded, mainVars, Send, Note, Clean
<1>2. ~OffScreen /\ c = mirror.active
  <2>1. ~overlapped'
    BY DEF Clean
  <2> QED BY <1>1, <2>1, Zenon
<1>3. mirror \in Mirrors /\ mirror.items \in Items /\ c \in Coll
  BY <1>1, CleanFacts DEF Sane
<1>4. m \in Messages
  BY <1>1, <1>3, MessagesMade
<1>5. m.op = "save" /\ m.coll = c /\ m.items = mirror.items /\ m.headers = h /\ m.then = Ends
  BY DEF Save
<1>6. mirror'.items = mirror.items /\ mirror'.active = mirror.active
  BY <1>1, <1>2, <1>3 DEF Mirrors
<1> HIDE DEF m
<1> QED BY <1>1, <1>2, <1>4, <1>5, <1>6 DEF OffScreen

\* A command that meets no handler.
Alone == /\ Commanded /\ Together(view, mirror.active)
         /\ \A i \in DOMAIN queue : ~OfCollections(queue[i].then)

LEMMA CommandAlone ==
  ASSUME Sane, Clean', CollectionCommand
  PROVE  Alone /\ UNCHANGED <<wanted, home, gone>>
<1>1. /\ up /\ up' = up /\ reply = NoReply /\ reply' = NoReply
      /\ UNCHANGED <<manifest, dirs, cache>>
      /\ Together(view, mirror.active) /\ \A i \in DOMAIN queue : ~OfCollections(queue[i].then)
  <2>1. ~overlapped'
    BY DEF Clean
  <2>2. UNCHANGED <<manifest, dirs, cache>>
    BY DEF CollectionCommand, Command, mainVars
  <2> QED BY <2>1, <2>2, CommandBegins DEF Sane, DeletionsInv
<1> QED BY <1>1 DEF CollectionCommand, Alone, Commanded

LEMMA SelectEffect ==
  ASSUME Sane, Clean', NEW c \in Coll, SelectCollection(c)
  PROVE  /\ Alone /\ c \in view.colls \ {view.active}
         /\ UNCHANGED <<view, life, wanted, home, gone>>
         /\ pending' = Nothing
         /\ mirror' \in Mirrors /\ mirror'.active = mirror.active /\ mirror'.headers = mirror.headers
         /\ mirror'.items = view.items
         /\ \E t \in AfterSave, m \in Messages :
              /\ t.step = "switchSaved" /\ t.coll = c
              /\ queue' = Append(queue, m) /\ Flushes(m, t)
<1> DEFINE t == [step |-> "switchSaved", coll |-> c]
<1>1. /\ CollectionCommand /\ c \in view.colls \ {view.active} /\ FlushAndSave(t)
      /\ UNCHANGED <<view, life>>
  BY DEF SelectCollection
<1>2. Alone /\ UNCHANGED <<wanted, home, gone>> /\ up
  BY <1>1, CommandAlone DEF Alone, Commanded
<1>3. Shapes /\ view.active \in Coll
  BY <1>2, CleanFacts DEF Sane
<1>4. t \in AfterSave /\ t.step = "switchSaved" /\ t.coll = c
  BY ThensMade
<1> HIDE DEF t
<1>5. slips' = {}
  BY DEF Clean
<1>6. view.active = mirror.active
  BY <1>2 DEF Alone, Together
<1>7. /\ pending' = Nothing
      /\ mirror' \in Mirrors /\ mirror'.active = mirror.active /\ mirror'.headers = mirror.headers
      /\ mirror'.items = view.items
      /\ \E m \in Messages : queue' = Append(queue, m) /\ Flushes(m, t)
  BY <1>1, <1>3, <1>4, <1>5, <1>6, FlushKeepsMirror
<1> QED BY <1>1, <1>2, <1>4, <1>7

LEMMA AddCollectionEffect ==
  ASSUME Sane, Clean', NEW c \in Coll, AddCollection(c)
  PROVE  /\ Alone /\ life[c] = "unused" /\ life' = [life EXCEPT ![c] = "made"]
         /\ UNCHANGED <<view, mirror, pending, wanted, home, gone>>
         /\ \E m \in Messages :
              /\ queue' = Append(queue, m)
              /\ m.op = "load" /\ m.coll = c /\ m.then.step = "rewrite" /\ m.then.coll = c
              /\ m.then.items = Nothing /\ m.then.then \in AfterSave /\ m.then.then.step = "addStored"
              /\ m.then.then.coll = c /\ m.then.then.colls = view.colls \cup {c}
<1> DEFINE t == [step |-> "addStored", coll |-> c, colls |-> view.colls \cup {c}]
           u == [step |-> "rewrite", coll |-> c, items |-> Nothing, then |-> t]
           m == Load(c, u)
<1>1. /\ CollectionCommand /\ life[c] = "unused" /\ life' = [life EXCEPT ![c] = "made"]
      /\ SaveCollectionData(c, Nothing, t) /\ UNCHANGED <<view, pending, armed>>
  BY DEF AddCollection
<1>2. Alone /\ UNCHANGED <<wanted, home, gone>> /\ up
  BY <1>1, CommandAlone DEF Alone, Commanded
<1>3. view.colls \in SUBSET Coll /\ view.active \in view.colls /\ Known(view.colls, manifest.colls, life, home)
  BY <1>2, CleanFacts DEF Sane, Tracked
<1>4. c # mirror.active
  BY <1>1, <1>2, <1>3 DEF Known, Alone, Together
<1>5. mirror' = mirror /\ queue' = Append(queue, m)
  BY <1>1, <1>4 DEF SaveCollectionData, Send
<1>6. view.colls \cup {c} \in SUBSET Coll
  BY <1>3
<1>7. t \in AfterSave /\ t.step = "addStored" /\ t.coll = c /\ t.colls = view.colls \cup {c}
  BY <1>6, ThensMade
<1> HIDE DEF t
<1>8. u \in Rewrites /\ u.step = "rewrite" /\ u.coll = c /\ u.items = Nothing /\ u.then = t
  BY <1>7, ThensMade, BoundFacts
<1> HIDE DEF u
<1>9. m \in Messages /\ m.op = "load" /\ m.coll = c /\ m.then = u
  BY <1>8, MessagesMade DEF Load
<1> HIDE DEF m
<1> QED BY <1>1, <1>2, <1>5, <1>7, <1>8, <1>9

LEMMA DeleteCollectionEffect ==
  ASSUME Sane, Clean', NEW c \in Coll, DeleteCollection(c)
  PROVE  /\ Alone /\ c \in view.colls /\ life' = [life EXCEPT ![c] = "deleted"]
         /\ UNCHANGED <<wanted, home, gone>>
         /\ view'.items = view.items /\ view'.active = view.active /\ view'.shown = view.shown
         /\ mirror'.active = mirror.active /\ mirror'.items \in {mirror.items, Nothing}
         /\ \E m \in Messages :
              /\ queue' = Append(queue, m)
              /\ \/ /\ c = view.active /\ view' = view /\ mirror' = mirror /\ pending' = Nothing
                    /\ \A r \in Req : pending[r] > 0 => home[r] = view.shown
                    /\ m.op = "load" /\ m.then.step = "deleteLoaded" /\ m.then.coll \in view.colls \ {c}
                    /\ m.coll = m.then.coll
                    /\ m.then.colls = view.colls \ {c} /\ m.then.old = c
                 \/ /\ c # view.active /\ view'.colls = view.colls \ {c} /\ pending' = pending
                    /\ m.op = "manifest" /\ m.colls = view.colls \ {c} /\ m.coll = view.active
                    /\ m.then.step = "deleteListed" /\ m.then.old = c
<1> DEFINE rest == view.colls \ {c}
<1>1. /\ CollectionCommand /\ c \in view.colls /\ life' = [life EXCEPT ![c] = "deleted"]
      /\ Note("late", c = view.active /\ Late)
  BY DEF DeleteCollection
<1>2. Alone /\ UNCHANGED <<wanted, home, gone>> /\ up
  BY <1>1, CommandAlone DEF Alone, Commanded
<1>3. /\ view.colls \in SUBSET Coll /\ view.active \in view.colls /\ view \in Views /\ pending \in Items
      /\ mirror.active = view.active
  BY <1>2, CleanFacts DEF Sane, Alone, Together
<1>4. rest \in SUBSET Coll
  BY <1>3
<1>5. CASE c = view.active
  <2>1. PICK next \in rest :
          queue' = Append(queue, Load(next, [step |-> "deleteLoaded", coll |-> next, colls |-> rest, old |-> c]))
    BY <1>5 DEF DeleteCollection, Send
  <2>2. view' = view /\ mirror' = mirror /\ pending' = Nothing
    BY <1>5 DEF DeleteCollection
  <2>3. ~Late
    BY <1>1, <1>5 DEF Note, Clean
  <2>4. \A r \in Req : pending[r] > 0 => home[r] = view.shown
    BY <2>3 DEF Late, In
  <2> DEFINE t == [step |-> "deleteLoaded", coll |-> next, colls |-> rest, old |-> c]
             m == Load(next, t)
  <2>5. t \in AfterLoad /\ t.step = "deleteLoaded" /\ t.coll = next /\ t.colls = rest /\ t.old = c
    BY <1>4, ThensMade
  <2> HIDE DEF t
  <2>6. m \in Messages /\ m.op = "load" /\ m.then = t /\ m.coll = next
    BY <1>4, <2>5, MessagesMade DEF Load
  <2>7. queue' = Append(queue, m)
    BY <2>1 DEF t
  <2> HIDE DEF m
  <2> QED BY <1>1, <1>2, <1>5, <2>2, <2>4, <2>5, <2>6, <2>7
<1>6. CASE c # view.active
  <2> DEFINE t == [step |-> "deleteListed", old |-> c]
             m == SaveManifest(rest, view.active, t)
  <2>1. /\ view' = [view EXCEPT !.colls = rest] /\ pending' = pending
        /\ mirror' = [active |-> view.active, items |-> Nothing, headers |-> 0]
        /\ queue' = Append(queue, m)
    BY <1>6 DEF DeleteCollection, Send
  <2>2. t \in AfterManifest /\ t.step = "deleteListed" /\ t.old = c
    BY ThensMade
  <2> HIDE DEF t
  <2>3. m \in Messages /\ m.op = "manifest" /\ m.colls = rest /\ m.coll = view.active /\ m.then = t
    BY <1>3, <1>4, <2>2, MessagesMade DEF SaveManifest
  <2>4. /\ view'.items = view.items /\ view'.active = view.active /\ view'.shown = view.shown
        /\ view'.colls = rest
    BY <1>3, <2>1 DEF Views
  <2> HIDE DEF m
  <2> QED BY <1>1, <1>2, <1>3, <1>6, <2>1, <2>2, <2>3, <2>4
<1> QED BY <1>5, <1>6

\* A handler, or a batch, that goes on.
Resumed == /\ up /\ up' /\ reply' = NoReply /\ reply.then \in Thens
           /\ UNCHANGED <<manifest, dirs, cache, wanted, home, gone, life>>
HandlerAlone == /\ Resumed /\ OfCollections(reply.then) /\ Phase(reply.then, view, mirror.active)
                /\ \A i \in DOMAIN queue : ~OfCollections(queue[i].then)
KeepsWindow == UNCHANGED <<view, mirror, pending>>

LEMMA ResumeEffect ==
  ASSUME Sane, NEW s \in {"batch", "rewrite", "headers", "switchSaved", "switchListed",
                          "switchLoaded", "addStored", "addSaved", "addListed",
                          "deleteLoaded", "deleteShown", "deleteListed"},
         Resume(s)
  PROVE  /\ Resumed /\ reply.then.step = s /\ reply.data \in Contents
         /\ s = "batch" => reply.then \in Batches
         /\ s # "batch" \/ reply.then.then # Ends => HandlerAlone
<1>1. /\ up /\ up' = up /\ reply' = NoReply /\ UNCHANGED <<manifest, dirs, cache, wanted, gone, life, home>>
      /\ reply.then \in Thens /\ reply.data \in Contents /\ reply.then.step = s
  BY Resumption DEF Sane, DeletionsInv
<1>2. OneHandler(queue, reply, view, mirror.active)
  BY <1>1, CleanFacts DEF Sane
<1>3. s = "batch" => reply.then \in Batches
  BY <1>1, StepsOf DEF Thens, Handlers
<1>4. s # "batch" \/ reply.then.then # Ends => OfCollections(reply.then)
  BY <1>1, StepsOf DEF OfCollections
<1> QED BY <1>1, <1>2, <1>3, <1>4, NobodyElse DEF Resumed, HandlerAlone

LEMMA NextPatchEffect ==
  ASSUME Sane, Clean', NextPatch
  PROVE  /\ Resumed /\ KeepsWindow /\ reply.then \in Batches
         /\ \A s \in Req : reply.then.patches[s] > 0 =>
              /\ \/ reply.then.patches[s] >= wanted[view.shown].items[s]
                 \/ pending[s] >= wanted[view.shown].items[s]
              /\ reply.then.then = Ends => home[s] = view.shown
         /\ \E m \in Messages, r \in Req :
              queue' = Append(queue, m) /\ Patch(m, r, reply.then.patches, reply.then.then)
<1> DEFINE p == reply.then.patches
           newest == wanted[view.shown].items
<1>1. /\ Resume("batch") /\ Batch(p, reply.then.then) /\ KeepsWindow
      /\ slips' = slips
           \cup {x \in {"overtaken"} : \E r \in In(p) : p[r] < newest[r] /\ pending[r] < newest[r]}
           \cup {x \in {"late"} : reply.then.then = Ends /\ \E r \in In(p) : home[r] # view.shown}
  BY DEF NextPatch, rendererVars, KeepsWindow
<1>2. Resumed /\ reply.then \in Batches
  BY <1>1, ResumeEffect
<1>3. p \in Items /\ reply.then.then \in {Ends} \cup AfterSave
  BY <1>2 DEF Batches
<1>4. /\ pending \in Items /\ newest \in Items
  <2>1. up
    BY <1>2 DEF Resumed
  <2> QED BY <2>1, CleanFacts DEF Sane, Contents
<1>5. /\ ~\E r \in In(p) : p[r] < newest[r] /\ pending[r] < newest[r]
      /\ ~(reply.then.then = Ends /\ \E r \in In(p) : home[r] # view.shown)
  BY <1>1 DEF Clean
<1>6. \A s \in Req : p[s] \in Nat /\ newest[s] \in Nat /\ pending[s] \in Nat
  BY <1>3, <1>4, BoundFacts DEF Items
<1>7. \E m \in Messages, r \in Req : queue' = Append(queue, m) /\ Patch(m, r, p, reply.then.then)
  BY <1>1, <1>3, BatchPatches
<1>8. \A s \in Req : p[s] > 0 =>
              /\ p[s] >= newest[s] \/ pending[s] >= newest[s]
              /\ reply.then.then = Ends => home[s] = view.shown
  BY <1>5, <1>6 DEF In
<1> QED BY <1>1, <1>2, <1>7, <1>8

LEMMA FlushedEffect ==
  ASSUME Sane, Clean', Flushed
  PROVE  /\ HandlerAlone /\ reply.then \in Batches /\ reply.then.patches = Nothing
         /\ UNCHANGED <<view, pending>> /\ Together(view, mirror.active)
         /\ mirror'.active = mirror.active /\ mirror'.items = view.items
         /\ reply.then.then \in AfterSave
         /\ \E m \in Messages :
              /\ queue' = Append(queue, m) /\ m.op = "save" /\ m.coll = mirror.active /\ m.items = view.items
              /\ m.headers = wanted[mirror.active].headers /\ m.then = reply.then.then
<1>1. /\ Resume("batch") /\ reply.then.patches = Nothing
      /\ SaveCollectionData(view.active, view.items, reply.then.then) /\ UNCHANGED <<view, pending, armed>>
  BY DEF Flushed
<1>2. Resumed /\ reply.then \in Batches
  BY <1>1, ResumeEffect
<1>3. reply.then.then \in AfterSave /\ reply.then.then # Ends
  BY <1>1, <1>2, StepsOf DEF Batches
<1>4. HandlerAlone
  BY <1>1, <1>3, ResumeEffect
<1>5. Core(reply.then).step \in {"switchSaved", "addStored", "addSaved"}
  BY <1>2, <1>3, StepsOf DEF Core
<1>6. Together(view, mirror.active)
  BY <1>4, <1>5 DEF HandlerAlone, Phase
<1>7. Shapes /\ view.items \in Items /\ mirror.active \in Coll /\ slips' = {}
  BY <1>2, CleanFacts DEF Sane, Resumed, Clean
<1>8. SaveCollectionData(mirror.active, view.items, reply.then.then)
  BY <1>1, <1>6 DEF Together
<1> QED BY <1>1, <1>2, <1>3, <1>4, <1>6, <1>7, <1>8, SaveKeepsMirror

LEMMA RewriteEffect ==
  ASSUME Sane, Clean', Rewrite
  PROVE  /\ HandlerAlone /\ KeepsWindow /\ reply.then \in Rewrites
         /\ \E m \in Messages :
              /\ queue' = Append(queue, m) /\ m.op = "save" /\ m.coll = reply.then.coll
              /\ m.items = reply.then.items /\ m.headers = reply.data.headers /\ m.then = reply.then.then
<1> DEFINE m == Save(reply.then.coll, reply.then.items, reply.data.headers, reply.then.then)
<1>1. Resume("rewrite") /\ queue' = Append(queue, m) /\ KeepsWindow
  BY DEF Rewrite, Send, rendererVars, KeepsWindow
<1>2. HandlerAlone /\ reply.then \in Thens /\ reply.data \in Contents /\ reply.then.step = "rewrite"
  BY <1>1, ResumeEffect DEF Resumed
<1>3. reply.then \in Rewrites
  BY <1>2, StepsOf DEF Thens, Handlers
<1>4. m \in Messages
  BY <1>2, <1>3, MessagesMade DEF Rewrites, Contents
<1>5. m.op = "save" /\ m.coll = reply.then.coll /\ m.items = reply.then.items
      /\ m.headers = reply.data.headers /\ m.then = reply.then.then
  BY DEF Save
<1> HIDE DEF m
<1> QED BY <1>1, <1>2, <1>3, <1>4, <1>5

LEMMA NeverRewritesHeaders == ASSUME Sane PROVE ~RewriteHeaders
<1> SUFFICES ASSUME RewriteHeaders PROVE FALSE
  OBVIOUS
<1>1. HandlerAlone /\ reply.then.step = "headers"
  BY ResumeEffect DEF RewriteHeaders
<1> QED BY <1>1 DEF HandlerAlone, Phase, Core

\* Where a handler is that awaited one of these.
LEMMA StepEffect ==
  ASSUME Sane, NEW s \in {"switchSaved", "switchListed", "switchLoaded", "addStored", "addSaved", "addListed",
                          "deleteLoaded", "deleteShown", "deleteListed"},
         Resume(s)
  PROVE  /\ HandlerAlone /\ reply.then.step = s /\ Core(reply.then) = reply.then
         /\ reply.data.items \in Items /\ reply.data.headers \in Versions /\ view \in Views /\ mirror \in Mirrors
<1>1. HandlerAlone /\ reply.then.step = s /\ reply.data \in Contents
  BY ResumeEffect
<1>2. view \in Views /\ mirror \in Mirrors
  BY <1>1, CleanFacts DEF Sane, HandlerAlone, Resumed
<1> QED BY <1>1, <1>2 DEF Core, Contents

LEMMA SwitchSavedEffect ==
  ASSUME Sane, Clean', SwitchSaved
  PROVE  /\ HandlerAlone /\ reply.then.step = "switchSaved" /\ pending' = pending
         /\ reply.then.coll \in view.colls /\ Together(view, mirror.active)
         /\ mirror'.active = reply.then.coll /\ mirror'.items = Nothing
         /\ view'.active = reply.then.coll
         /\ view'.colls = view.colls /\ view'.shown = view.shown /\ view'.items = view.items
         /\ \E m \in Messages :
              /\ queue' = Append(queue, m) /\ m.op = "manifest" /\ m.colls = view.colls
              /\ m.coll = reply.then.coll /\ m.then.step = "switchListed" /\ m.then.coll = reply.then.coll
<1> DEFINE c == reply.then.coll
           t == [step |-> "switchListed", coll |-> c]
           m == SaveManifest(view.colls, c, t)
<1>1. /\ Resume("switchSaved") /\ mirror' = [active |-> c, items |-> Nothing, headers |-> 0]
      /\ view' = [view EXCEPT !.active = c] /\ queue' = Append(queue, m) /\ pending' = pending
  BY DEF SwitchSaved, Send
<1>2. HandlerAlone /\ reply.then.step = "switchSaved" /\ Core(reply.then) = reply.then /\ view \in Views
  BY <1>1, StepEffect
<1>3. c \in view.colls /\ Together(view, mirror.active) /\ view.colls \in SUBSET Coll /\ c \in Coll
  BY <1>2 DEF HandlerAlone, Phase, Views
<1>4. t \in AfterManifest /\ t.step = "switchListed" /\ t.coll = c
  BY <1>3, ThensMade
<1> HIDE DEF t
<1>5. m \in Messages /\ m.op = "manifest" /\ m.colls = view.colls /\ m.coll = c /\ m.then = t
  BY <1>3, <1>4, MessagesMade DEF SaveManifest
<1> HIDE DEF m
<1>6. view'.active = c /\ view'.colls = view.colls /\ view'.shown = view.shown /\ view'.items = view.items
  BY <1>1, <1>2 DEF Views
<1> QED BY <1>1, <1>2, <1>3, <1>4, <1>5, <1>6

LEMMA SwitchListedEffect ==
  ASSUME Sane, Clean', SwitchListed
  PROVE  /\ HandlerAlone /\ reply.then.step = "switchListed" /\ KeepsWindow
         /\ \E m \in Messages :
              /\ queue' = Append(queue, m) /\ m.op = "load" /\ m.coll = reply.then.coll
              /\ m.then.step = "switchLoaded" /\ m.then.coll = reply.then.coll
<1> DEFINE c == reply.then.coll
           t == [step |-> "switchLoaded", coll |-> c]
           m == Load(c, t)
<1>1. Resume("switchListed") /\ queue' = Append(queue, m) /\ KeepsWindow
  BY DEF SwitchListed, Send, rendererVars, KeepsWindow
<1>2. HandlerAlone /\ reply.then.step = "switchListed" /\ reply.then \in Thens
  BY <1>1, StepEffect DEF HandlerAlone, Resumed
<1>3. t \in AfterLoad /\ t.step = "switchLoaded" /\ t.coll = c /\ c \in Coll
  BY <1>2, ThenTypes, ThensMade
<1> HIDE DEF t
<1>4. m \in Messages /\ m.op = "load" /\ m.coll = c /\ m.then = t
  BY <1>3, MessagesMade DEF Load
<1> HIDE DEF m
<1> QED BY <1>1, <1>2, <1>3, <1>4

LEMMA SwitchLoadedEffect ==
  ASSUME Sane, Clean', SwitchLoaded
  PROVE  /\ HandlerAlone /\ reply.then.step = "switchLoaded" /\ UNCHANGED <<pending, queue>>
         /\ reply.then.coll = mirror.active /\ view.active = mirror.active
         /\ mirror'.active = mirror.active /\ mirror'.items = reply.data.items
         /\ view'.items = reply.data.items /\ view'.shown = mirror.active
         /\ view'.colls = view.colls /\ view'.active = view.active
<1> DEFINE c == reply.then.coll
<1>1. /\ Resume("switchLoaded") /\ mirror' = Mirrored(c, reply.data)
      /\ view' = [view EXCEPT !.items = reply.data.items, !.shown = c] /\ UNCHANGED <<pending, queue>>
  BY DEF SwitchLoaded
<1>2. HandlerAlone /\ reply.then.step = "switchLoaded" /\ Core(reply.then) = reply.then /\ view \in Views
  BY <1>1, StepEffect
<1>3. c = mirror.active /\ view.active = mirror.active
  BY <1>2 DEF HandlerAlone, Phase
<1>4. mirror'.active = c /\ mirror'.items = reply.data.items
  BY <1>1, <1>3 DEF Mirrored
<1> QED BY <1>1, <1>2, <1>3, <1>4 DEF Views

LEMMA AddStoredEffect ==
  ASSUME Sane, Clean', AddStored
  PROVE  /\ HandlerAlone /\ reply.then.step = "addStored" /\ view' = view /\ pending' = Nothing
         /\ Together(view, mirror.active)
         /\ mirror'.active = mirror.active /\ mirror'.items = view.items
         /\ \E t \in AfterSave, m \in Messages :
              /\ t.step = "addSaved" /\ t.coll = reply.then.coll /\ t.colls = reply.then.colls
              /\ queue' = Append(queue, m) /\ Flushes(m, t)
<1> DEFINE t == [reply.then EXCEPT !.step = "addSaved"]
<1>1. Resume("addStored") /\ FlushAndSave(t) /\ view' = view
  BY DEF AddStored
<1>2. HandlerAlone /\ reply.then.step = "addStored" /\ Core(reply.then) = reply.then /\ reply.then \in Thens
  BY <1>1, StepEffect DEF HandlerAlone, Resumed
<1>3. t \in AfterSave /\ t.step = "addSaved" /\ t.coll = reply.then.coll /\ t.colls = reply.then.colls
  BY <1>2, ThenTypes, ThensChanged
<1>4. Together(view, mirror.active)
  BY <1>2 DEF HandlerAlone, Phase
<1>5. Shapes /\ view.active \in Coll /\ slips' = {}
  BY <1>2, CleanFacts DEF Sane, HandlerAlone, Resumed, Clean
<1> HIDE DEF t
<1>6. view.active = mirror.active
  BY <1>4 DEF Together
<1>7. /\ pending' = Nothing
      /\ mirror'.active = mirror.active /\ mirror'.items = view.items
      /\ \E m \in Messages : queue' = Append(queue, m) /\ Flushes(m, t)
  BY <1>1, <1>3, <1>5, <1>6, FlushKeepsMirror
<1> QED BY <1>1, <1>2, <1>3, <1>4, <1>7

LEMMA AddSavedEffect ==
  ASSUME Sane, Clean', AddSaved
  PROVE  /\ HandlerAlone /\ reply.then.step = "addSaved" /\ pending' = pending /\ Together(view, mirror.active)
         /\ reply.then.coll \in reply.then.colls
         /\ mirror'.active = reply.then.coll /\ mirror'.items = Nothing
         /\ view'.active = reply.then.coll /\ view'.colls = reply.then.colls
         /\ view'.shown = view.shown /\ view'.items = view.items
         /\ \E m \in Messages :
              /\ queue' = Append(queue, m) /\ m.op = "manifest" /\ m.colls = reply.then.colls
              /\ m.coll = reply.then.coll /\ m.then.step = "addListed" /\ m.then.coll = reply.then.coll
<1> DEFINE c == reply.then.coll
           t == [step |-> "addListed", coll |-> c]
           m == SaveManifest(reply.then.colls, c, t)
<1>1. /\ Resume("addSaved") /\ mirror' = [active |-> c, items |-> Nothing, headers |-> 0]
      /\ view' = [view EXCEPT !.colls = reply.then.colls, !.active = c]
      /\ queue' = Append(queue, m) /\ pending' = pending
  BY DEF AddSaved, Send
<1>2. /\ HandlerAlone /\ reply.then.step = "addSaved" /\ Core(reply.then) = reply.then /\ view \in Views
      /\ reply.then \in Thens
  BY <1>1, StepEffect DEF HandlerAlone, Resumed
<1>3. c \in reply.then.colls /\ Together(view, mirror.active)
  BY <1>2 DEF HandlerAlone, Phase
<1>4. c \in Coll /\ reply.then.colls \in SUBSET Coll
  BY <1>2, ThenTypes
<1>5. t \in AfterManifest /\ t.step = "addListed" /\ t.coll = c
  BY <1>4, ThensMade
<1> HIDE DEF t
<1>6. m \in Messages /\ m.op = "manifest" /\ m.colls = reply.then.colls /\ m.coll = c /\ m.then = t
  BY <1>4, <1>5, MessagesMade DEF SaveManifest
<1> HIDE DEF m
<1>7. /\ view'.active = c /\ view'.colls = reply.then.colls
      /\ view'.shown = view.shown /\ view'.items = view.items
  BY <1>1, <1>2 DEF Views
<1> QED BY <1>1, <1>2, <1>3, <1>5, <1>6, <1>7

LEMMA AddListedEffect ==
  ASSUME Sane, Clean', AddListed
  PROVE  /\ HandlerAlone /\ reply.then.step = "addListed" /\ UNCHANGED <<mirror, pending, queue>>
         /\ reply.then.coll = mirror.active /\ view.active = mirror.active
         /\ view'.items = Nothing /\ view'.shown = mirror.active
         /\ view'.colls = view.colls /\ view'.active = view.active
<1>1. /\ Resume("addListed") /\ view' = [view EXCEPT !.items = Nothing, !.shown = reply.then.coll]
      /\ UNCHANGED <<mirror, pending, queue>>
  BY DEF AddListed
<1>2. HandlerAlone /\ reply.then.step = "addListed" /\ Core(reply.then) = reply.then /\ view \in Views
  BY <1>1, StepEffect
<1>3. reply.then.coll = mirror.active /\ view.active = mirror.active
  BY <1>2 DEF HandlerAlone, Phase
<1> QED BY <1>1, <1>2, <1>3 DEF Views

LEMMA DeleteLoadedEffect ==
  ASSUME Sane, Clean', DeleteLoaded
  PROVE  /\ HandlerAlone /\ reply.then.step = "deleteLoaded" /\ pending' = pending
         /\ Together(view, mirror.active) /\ reply.then.coll \in reply.then.colls
         /\ mirror'.active = reply.then.coll /\ mirror'.items = Nothing
         /\ view'.items = reply.data.items /\ view'.shown = reply.then.coll
         /\ view'.colls = view.colls /\ view'.active = view.active
         /\ \E m \in Messages :
              /\ queue' = Append(queue, m) /\ m.op = "environments" /\ m.then.step = "deleteShown"
              /\ m.then.coll = reply.then.coll /\ m.then.colls = reply.then.colls /\ m.then.old = reply.then.old
<1> DEFINE c == reply.then.coll
           t == [reply.then EXCEPT !.step = "deleteShown"]
           m == LoadEnvironments(t)
<1>1. /\ Resume("deleteLoaded") /\ mirror' = [active |-> c, items |-> Nothing, headers |-> 0]
      /\ view' = [view EXCEPT !.items = reply.data.items, !.shown = c]
      /\ queue' = Append(queue, m) /\ pending' = pending
  BY DEF DeleteLoaded, Send
<1>2. /\ HandlerAlone /\ reply.then.step = "deleteLoaded" /\ Core(reply.then) = reply.then /\ view \in Views
      /\ reply.then \in Thens
  BY <1>1, StepEffect DEF HandlerAlone, Resumed
<1>3. c \in reply.then.colls /\ Together(view, mirror.active)
  BY <1>2 DEF HandlerAlone, Phase
<1>4. /\ t \in AfterEnvironments /\ t.step = "deleteShown"
      /\ t.coll = c /\ t.colls = reply.then.colls /\ t.old = reply.then.old
  BY <1>2, ThenTypes, ThensChanged
<1> HIDE DEF t
<1>5. m \in Messages /\ m.op = "environments" /\ m.then = t
  BY <1>4, MessagesMade DEF LoadEnvironments
<1> HIDE DEF m
<1>6. /\ view'.items = reply.data.items /\ view'.shown = c
      /\ view'.colls = view.colls /\ view'.active = view.active
  BY <1>1, <1>2 DEF Views
<1> QED BY <1>1, <1>2, <1>3, <1>4, <1>5, <1>6

LEMMA DeleteShownEffect ==
  ASSUME Sane, Clean', DeleteShown
  PROVE  /\ HandlerAlone /\ reply.then.step = "deleteShown" /\ UNCHANGED <<mirror, pending>>
         /\ view'.active = reply.then.coll /\ view'.colls = reply.then.colls
         /\ view'.shown = view.shown /\ view'.items = view.items
         /\ \E m \in Messages :
              /\ queue' = Append(queue, m) /\ m.op = "manifest" /\ m.colls = reply.then.colls
              /\ m.coll = reply.then.coll /\ m.then.step = "deleteListed" /\ m.then.old = reply.then.old
<1> DEFINE c == reply.then.coll
           t == [step |-> "deleteListed", old |-> reply.then.old]
           m == SaveManifest(reply.then.colls, c, t)
<1>1. /\ Resume("deleteShown")
      /\ view' = [view EXCEPT !.colls = reply.then.colls, !.active = c]
      /\ queue' = Append(queue, m) /\ UNCHANGED <<mirror, pending>>
  BY DEF DeleteShown, Send
<1>2. /\ HandlerAlone /\ reply.then.step = "deleteShown" /\ view \in Views /\ reply.then \in Thens
  BY <1>1, StepEffect DEF HandlerAlone, Resumed
<1>3. c \in Coll /\ reply.then.colls \in SUBSET Coll /\ reply.then.old \in Coll
  BY <1>2, ThenTypes
<1>4. t \in AfterManifest /\ t.step = "deleteListed" /\ t.old = reply.then.old
  BY <1>3, ThensMade
<1> HIDE DEF t
<1>5. m \in Messages /\ m.op = "manifest" /\ m.colls = reply.then.colls /\ m.coll = c /\ m.then = t
  BY <1>3, <1>4, MessagesMade DEF SaveManifest
<1> HIDE DEF m
<1>6. /\ view'.active = c /\ view'.colls = reply.then.colls
      /\ view'.shown = view.shown /\ view'.items = view.items
  BY <1>1, <1>2 DEF Views
<1> QED BY <1>1, <1>2, <1>4, <1>5, <1>6

LEMMA DeleteListedEffect ==
  ASSUME Sane, Clean', DeleteListed
  PROVE  /\ HandlerAlone /\ reply.then.step = "deleteListed" /\ KeepsWindow
         /\ \E m \in Messages :
              queue' = Append(queue, m) /\ m.op = "remove" /\ m.coll = reply.then.old /\ m.then = Ends
<1> DEFINE m == RemoveDir(reply.then.old)
<1>1. Resume("deleteListed") /\ queue' = Append(queue, m) /\ KeepsWindow
  BY DEF DeleteListed, Send, rendererVars, KeepsWindow
<1>2. HandlerAlone /\ reply.then.step = "deleteListed" /\ reply.then \in Thens
  BY <1>1, StepEffect DEF HandlerAlone, Resumed
<1>3. m \in Messages /\ m.op = "remove" /\ m.coll = reply.then.old /\ m.then = Ends
  BY <1>2, ThenTypes, MessagesMade DEF RemoveDir
<1> HIDE DEF m
<1> QED BY <1>1, <1>2, <1>3

\* The main process serves a message, and nothing fails.
ServedWell ==
  /\ up /\ up' /\ reply = NoReply /\ queue # <<>> /\ queue' = Tail(queue)
  /\ Head(queue) \in Messages /\ Head(queue) = queue[1] /\ 1 \in DOMAIN queue
  /\ reply'.then = Head(queue).then
  /\ UNCHANGED <<view, mirror, pending, wanted, home, gone>>

LEMMA ServeEffect ==
  ASSUME Sane, NEW op, Serve(op), NEW d, Answer(d)
  PROVE  /\ ServedWell /\ Head(queue).op = op
         /\ reply'.then # Ends => reply'.data = d
<1>1. /\ up /\ up' /\ reply = NoReply /\ queue # <<>> /\ queue' = Tail(queue) /\ Head(queue).op = op
      /\ UNCHANGED <<view, mirror, pending, wanted, home, gone>>
  BY DEF Serve, rendererVars
<1>2. Head(queue) \in Messages /\ Head(queue) = queue[1] /\ 1 \in DOMAIN queue
  BY <1>1, CleanFacts, HeadAndTail DEF Sane
<1>3. reply'.then = Head(queue).then /\ (reply'.then # Ends => reply'.data = d)
  BY BoundFacts DEF Answer
<1> QED BY <1>1, <1>2, <1>3 DEF ServedWell

-----------------------------------------------------------------------------
(* The manifest, and the collections deleted *)

\* The manifest, once the queue q is served, is what the window v lists.
Lists(q, mf, v) ==
  /\ \A i \in DOMAIN q : q[i].op = "manifest" => q[i].colls = v.colls /\ q[i].coll = v.active
  /\ \/ \E i \in DOMAIN q : q[i].op = "manifest"
     \/ mf = [colls |-> v.colls, active |-> v.active]
ManifestInv ==
  /\ Clean => manifest.colls = {} \/ manifest.active \in manifest.colls
  /\ Clean /\ up => Lists(queue, manifest, view)

\* Who goes on as t does not work with what was deleted, except to remove it; what the
\* window lists is deleted only while a handler is about to say so.
Dropped(t, c) == t.step \in {"deleteLoaded", "deleteShown"} /\ t.old = c
ThenSpares(t, l) ==
  LET u == Core(t) IN
  /\ u.step \in {"addStored", "addSaved", "deleteLoaded", "deleteShown"} => \A c \in u.colls : l[c] # "deleted"
  /\ u.step \in {"switchSaved", "switchListed", "switchLoaded"} => l[u.coll] # "deleted"
  /\ u.step \in {"deleteLoaded", "deleteShown", "deleteListed"} => l[u.old] = "deleted"
Spares(q, t, v, l) ==
  /\ \A c \in v.colls : \/ l[c] # "deleted" \/ Dropped(t, c)
                        \/ \E i \in DOMAIN q : Dropped(q[i].then, c)
  /\ ThenSpares(t, l) /\ \A i \in DOMAIN q : ThenSpares(q[i].then, l)
  /\ \A i \in DOMAIN q : q[i].op = "remove" => l[q[i].coll] = "deleted"
DeletedInv == Clean /\ up => Spares(queue, reply.then, view, life)

LEMMA ListsQuiet ==
  ASSUME NEW q \in Seq(Messages), NEW mf, NEW v, NEW w, Lists(q, mf, v), NEW m \in Messages,
         m.op # "manifest", w.colls = v.colls, w.active = v.active
  PROVE  Lists(Append(q, m), mf, w) /\ Lists(q, mf, w)
<1> DEFINE n == Append(q, m)
<1>1. /\ DOMAIN n = DOMAIN q \cup {Len(q) + 1} /\ n[Len(q) + 1] = m
      /\ \A i \in DOMAIN q : n[i] = q[i]
  BY Appended
<1> HIDE DEF n
<1> QED BY <1>1 DEF Lists, n

LEMMA ListsSent ==
  ASSUME NEW q \in Seq(Messages), NEW mf, NEW w, NEW m \in Messages,
         \A i \in DOMAIN q : q[i].op # "manifest",
         m.op = "manifest", w.colls = m.colls, w.active = m.coll
  PROVE  Lists(Append(q, m), mf, w)
<1> DEFINE n == Append(q, m)
<1>1. /\ DOMAIN n = DOMAIN q \cup {Len(q) + 1} /\ n[Len(q) + 1] = m
      /\ \A i \in DOMAIN q : n[i] = q[i]
  BY Appended
<1> HIDE DEF n
<1> QED BY <1>1 DEF Lists, n

LEMMA ListsServed ==
  ASSUME NEW q \in Seq(Messages), q # <<>>, NEW mf, NEW mf2, NEW v, Lists(q, mf, v),
         IF Head(q).op = "manifest" THEN mf2 = [colls |-> Head(q).colls, active |-> Head(q).coll] ELSE mf2 = mf
  PROVE  Lists(Tail(q), mf2, v)
<1>1. /\ Head(q) = q[1] /\ 1 \in DOMAIN q
      /\ \A i \in DOMAIN Tail(q) : i + 1 \in DOMAIN q /\ Tail(q)[i] = q[i + 1]
  BY HeadAndTail
<1>2. \A i \in DOMAIN q : i = 1 \/ (i - 1 \in DOMAIN Tail(q) /\ Tail(q)[i - 1] = q[i])
  BY HeadTailProperties
<1> DEFINE n == Tail(q)
<1> HIDE DEF n
<1>3. \A i \in DOMAIN n : n[i].op = "manifest" => n[i].colls = v.colls /\ n[i].coll = v.active
  BY <1>1 DEF Lists, n
<1>4. (\E i \in DOMAIN n : n[i].op = "manifest") \/ mf2 = [colls |-> v.colls, active |-> v.active]
  <2>1. CASE q[1].op = "manifest"
    BY <1>1, <2>1 DEF Lists
  <2>2. CASE q[1].op # "manifest" /\ \E i \in DOMAIN q : q[i].op = "manifest"
    BY <1>2, <2>2 DEF n
  <2>3. CASE q[1].op # "manifest" /\ mf = [colls |-> v.colls, active |-> v.active]
    BY <1>1, <2>3
  <2> QED BY <2>1, <2>2, <2>3 DEF Lists
<1> QED BY <1>3, <1>4 DEF Lists, n

\* Whoever waits for a manifest is a handler, and whoever waits for a collection too.
LEMMA QuietQueue ==
  ASSUME NEW q \in Seq(Messages), \A i \in DOMAIN q : ~OfCollections(q[i].then)
  PROVE  /\ \A i \in DOMAIN q : q[i].op \notin {"manifest", "load", "environments"}
         /\ \A i \in DOMAIN q : \A c : ~Dropped(q[i].then, c)
         /\ \A i \in DOMAIN q : Core(q[i].then) = Ends
<1> SUFFICES ASSUME NEW i \in DOMAIN q
             PROVE  /\ q[i].op \notin {"manifest", "load", "environments"} /\ Core(q[i].then) = Ends
                    /\ \A c : ~Dropped(q[i].then, c)
  OBVIOUS
<1>1. q[i] \in Messages /\ ~OfCollections(q[i].then)
  OBVIOUS
<1>2. q[i].op \notin {"manifest", "load", "environments"}
  BY <1>1, MessageTypes, WhoHandles DEF Handlers
<1>3. q[i].then \in Thens
  BY <1>1, MessageTypes
<1>4. Core(q[i].then) = Ends /\ q[i].then.step \in {"ends", "batch"}
  BY <1>1, <1>3, QuietCore
<1> QED BY <1>2, <1>4 DEF Dropped

LEMMA SparesQuiet ==
  ASSUME NEW q \in Seq(Messages), NEW t, NEW v, NEW w, NEW l, NEW m \in Messages, Spares(q, t, v, l),
         ~OfCollections(m.then), m.op # "remove", w.colls = v.colls
  PROVE  Spares(Append(q, m), t, w, l) /\ Spares(q, t, w, l)
<1> DEFINE n == Append(q, m)
<1>1. /\ DOMAIN n = DOMAIN q \cup {Len(q) + 1} /\ n[Len(q) + 1] = m
      /\ \A i \in DOMAIN q : n[i] = q[i]
  BY Appended
<1>2. m.then \in Thens /\ Core(m.then) = Ends /\ Ends.step = "ends"
  BY MessageTypes, QuietCore, StepsOf
<1>3. ThenSpares(m.then, l)
  BY <1>2 DEF ThenSpares
<1> HIDE DEF n
<1> QED BY <1>1, <1>3 DEF Spares, n

\* With one handler, or none, in a message to come.
LEMMA SparesAlone ==
  ASSUME NEW q \in Seq(Messages), NEW w, NEW l,
         \A i \in DOMAIN q : ~OfCollections(q[i].then),
         \A i \in DOMAIN q : q[i].op = "remove" => l[q[i].coll] = "deleted"
  PROVE  /\ (\A c \in w.colls : l[c] # "deleted") => Spares(q, NoReply.then, w, l)
         /\ \A m \in Messages :
              /\ ThenSpares(m.then, l) /\ (m.op = "remove" => l[m.coll] = "deleted")
              /\ \A c \in w.colls : l[c] # "deleted" \/ Dropped(m.then, c)
              => Spares(Append(q, m), NoReply.then, w, l)
<1>1. /\ \A i \in DOMAIN q : ThenSpares(q[i].then, l)
      /\ ThenSpares(NoReply.then, l)
  <2>1. Ends.step = "ends" /\ NoReply.then = Ends /\ Core(Ends) = Ends
    BY StepsOf, BoundFacts DEF Core
  <2>2. \A i \in DOMAIN q : Core(q[i].then) = Ends
    BY QuietQueue
  <2> QED BY <2>1, <2>2 DEF ThenSpares
<1>2. (\A c \in w.colls : l[c] # "deleted") => Spares(q, NoReply.then, w, l)
  BY <1>1 DEF Spares
<1>3. ASSUME NEW m \in Messages,
             ThenSpares(m.then, l) /\ (m.op = "remove" => l[m.coll] = "deleted"),
             \A c \in w.colls : l[c] # "deleted" \/ Dropped(m.then, c)
      PROVE  Spares(Append(q, m), NoReply.then, w, l)
  <2> DEFINE n == Append(q, m)
  <2>1. /\ DOMAIN n = DOMAIN q \cup {Len(q) + 1} /\ n[Len(q) + 1] = m
        /\ \A i \in DOMAIN q : n[i] = q[i]
    BY Appended
  <2> HIDE DEF n
  <2> QED BY <1>1, <1>3, <2>1 DEF Spares, n
<1> QED BY <1>2, <1>3

LEMMA SparesServed ==
  ASSUME NEW q \in Seq(Messages), q # <<>>, NEW t, NEW v, NEW l, NEW k, Spares(q, Ends, v, l), t = Head(q).then,
         \A c \in Coll : k[c] = "deleted" <=> l[c] = "deleted", v.colls \subseteq Coll
  PROVE  Spares(Tail(q), t, v, k)
<1>1. /\ Head(q) = q[1] /\ 1 \in DOMAIN q
      /\ \A i \in DOMAIN Tail(q) : i + 1 \in DOMAIN q /\ Tail(q)[i] = q[i + 1]
  BY HeadAndTail
<1>2. \A i \in DOMAIN q : i = 1 \/ (i - 1 \in DOMAIN Tail(q) /\ Tail(q)[i - 1] = q[i])
  BY HeadTailProperties
<1>3. \A u \in Thens : ThenSpares(u, l) => ThenSpares(u, k)
  <2> SUFFICES ASSUME NEW u \in Thens, ThenSpares(u, l) PROVE ThenSpares(u, k)
    OBVIOUS
  <2>1. Core(u) \in Thens
    BY ThenTypes, StepsOf DEF Core
  <2> QED BY <2>1, ThenTypes DEF ThenSpares
<1>4. /\ \A i \in DOMAIN q : q[i] \in Messages /\ q[i].then \in Thens
      /\ \A i \in DOMAIN q : q[i].op = "remove" => q[i].coll \in Coll
  BY MessageTypes
<1> DEFINE n == Tail(q)
<1>5. ~Dropped(Ends, 0) /\ \A c : ~Dropped(Ends, c)
  BY StepsOf DEF Dropped
<1> HIDE DEF n
<1>6. \A c \in v.colls : k[c] # "deleted" \/ Dropped(t, c) \/ \E i \in DOMAIN n : Dropped(n[i].then, c)
  <2> SUFFICES ASSUME NEW c \in v.colls, k[c] = "deleted"
               PROVE  Dropped(t, c) \/ \E i \in DOMAIN n : Dropped(n[i].then, c)
    OBVIOUS
  <2>1. PICK i \in DOMAIN q : Dropped(q[i].then, c)
    BY <1>5 DEF Spares
  <2>2. CASE i = 1
    BY <1>1, <2>1, <2>2
  <2>3. CASE i - 1 \in DOMAIN n /\ n[i - 1] = q[i]
    BY <2>1, <2>3
  <2> QED BY <1>2, <2>2, <2>3 DEF n
<1>7. ThenSpares(t, k) /\ \A i \in DOMAIN n : ThenSpares(n[i].then, k)
  BY <1>1, <1>3, <1>4 DEF Spares, n
<1>8. \A i \in DOMAIN n : n[i].op = "remove" => k[n[i].coll] = "deleted"
  BY <1>1, <1>4 DEF Spares, n
<1> QED BY <1>6, <1>7, <1>8 DEF Spares, n

ListingInv == ManifestInv /\ DeletedInv

\* What a batch sends is for who goes on as t.
LEMMA PatchThen ==
  ASSUME NEW m \in Messages, NEW r, NEW p, NEW t \in {Ends} \cup AfterSave, Patch(m, r, p, t)
  PROVE  /\ m.op = "update" /\ Core(m.then) = t
         /\ t = Ends => ~OfCollections(m.then)
         /\ \A c : ~Dropped(m.then, c)
<1>1. m.then \in Batches => m.then.step = "batch" /\ Core(m.then) = m.then.then
  BY StepsOf DEF Core
<1>2. Core(Ends) = Ends /\ Ends.step = "ends"
  BY StepsOf DEF Core
<1> QED BY <1>1, <1>2, WhoHandles DEF Patch, Dropped

LEMMA FlushThen ==
  ASSUME NEW m \in Messages, NEW t \in AfterSave, Flushes(m, t)
  PROVE  /\ m.op \in {"update", "save"} /\ Core(m.then) = t /\ \A c : ~Dropped(m.then, c)
<1>1. t.step \in {"switchSaved", "addStored", "addSaved"}
  BY StepsOf
<1>2. CASE m.op = "save" /\ m.then = t
  BY <1>1, <1>2 DEF Core, Dropped
<1>3. CASE \E r \in Req : Patch(m, r, pending, t)
  BY <1>3, PatchThen
<1> QED BY <1>2, <1>3 DEF Flushes

\* A message that no handler awaits joins the queue, or none.
LEMMA QuietListing ==
  ASSUME Sane, ListingInv, up, reply'.then = reply.then \/ (~OfCollections(reply.then) /\ reply' = NoReply),
         reply.then \in Thens,
         UNCHANGED <<manifest, life>>, view'.colls = view.colls, view'.active = view.active,
         \/ queue' = queue
         \/ \E m \in Messages : /\ queue' = Append(queue, m) /\ ~OfCollections(m.then)
                                /\ m.op \notin {"manifest", "remove"}
  PROVE  ListingInv'
<1>1. /\ queue \in Seq(Messages) /\ Lists(queue, manifest, view) /\ Spares(queue, reply.then, view, life)
      /\ Clean
  BY CleanFacts DEF Sane, ListingInv, ManifestInv, DeletedInv
<1>2. Lists(queue', manifest, view')
  <2>1. CASE queue' = queue
    BY <1>1, <2>1 DEF Lists
  <2>2. CASE \E m \in Messages : /\ queue' = Append(queue, m) /\ ~OfCollections(m.then)
                                 /\ m.op \notin {"manifest", "remove"}
    BY <1>1, <2>2, ListsQuiet
  <2> QED BY <2>1, <2>2
<1>3. Spares(queue', reply.then, view', life)
  <2>1. CASE queue' = queue
    BY <1>1, <2>1 DEF Spares
  <2>2. CASE \E m \in Messages : /\ queue' = Append(queue, m) /\ ~OfCollections(m.then)
                                 /\ m.op \notin {"manifest", "remove"}
    BY <1>1, <2>2, SparesQuiet
  <2> QED BY <2>1, <2>2
<1>4. Spares(queue', reply'.then, view', life)
  <2>1. CASE reply'.then = reply.then
    BY <1>3, <2>1
  <2>2. CASE ~OfCollections(reply.then) /\ reply' = NoReply
    <3>1. /\ Core(reply.then) = Ends /\ reply.then.step \in {"ends", "batch"}
          /\ NoReply.then = Ends /\ Ends.step = "ends" /\ Core(Ends) = Ends
      BY <2>2, QuietCore, StepsOf, BoundFacts DEF Core
    <3>2. ThenSpares(reply'.then, life) /\ \A c : ~Dropped(reply.then, c)
      BY <2>2, <3>1 DEF ThenSpares, Dropped
    <3> QED BY <1>3, <3>2 DEF Spares
  <2> QED BY <2>1, <2>2
<1> QED BY <1>1, <1>2, <1>4 DEF ListingInv, ManifestInv, DeletedInv

LEMMA EditsListing ==
  ASSUME Sane, ListingInv, Clean', NEW r \in Req, Edit(r) \/ AddRequest(r) \/ DeleteRequest(r)
  PROVE  ListingInv'
<1>1. ~OfCollections(Ends)
  BY WhoHandles
<1>2. CASE Edit(r)
  <2>1. /\ up /\ reply' = reply /\ UNCHANGED <<manifest, life, queue>>
        /\ view'.colls = view.colls /\ view'.active = view.active
    BY <1>2, EditEffect DEF Commanded
  <2> QED BY <2>1, QuietListing, CleanFacts DEF Sane
<1>3. CASE AddRequest(r)
  <2>1. /\ up /\ reply' = reply /\ UNCHANGED <<manifest, life>>
        /\ view'.colls = view.colls /\ view'.active = view.active
        /\ \E m \in Messages : queue' = Append(queue, m) /\ m.op = "save" /\ m.then = Ends
    BY <1>3, AddRequestEffect DEF Commanded, Restructured, SavesShown
  <2> QED BY <1>1, <2>1, QuietListing, CleanFacts DEF Sane
<1>4. CASE DeleteRequest(r)
  <2>1. /\ up /\ reply = NoReply /\ reply' = NoReply /\ UNCHANGED <<manifest, life>>
        /\ view'.colls = view.colls /\ view'.active = view.active
    BY <1>4, DeleteRequestEffect DEF Commanded, Restructured
  <2>a. PICK m, n \in Messages : /\ queue' = Append(Append(queue, m), n)
                                 /\ SavesShown(m, [view.items EXCEPT ![r] = 0])
                                 /\ n.op = "delete" /\ n.req = r /\ n.then = Ends
    BY <1>4, DeleteRequestEffect
  <2>2. /\ queue' = Append(Append(queue, m), n)
        /\ m.op = "save" /\ m.then = Ends /\ n.op = "delete" /\ n.then = Ends
    BY <2>a DEF SavesShown
  <2>3. /\ queue \in Seq(Messages) /\ Lists(queue, manifest, view) /\ Spares(queue, reply.then, view, life)
    BY <2>1, CleanFacts DEF Sane, ListingInv, ManifestInv, DeletedInv
  <2> DEFINE q == Append(queue, m)
  <2>4. q \in Seq(Messages) /\ Lists(q, manifest, view) /\ Spares(q, reply.then, view, life)
    BY <1>1, <2>2, <2>3, ListsQuiet, SparesQuiet
  <2> HIDE DEF q
  <2>5. Lists(Append(q, n), manifest, view') /\ Spares(Append(q, n), reply.then, view', life)
    BY <1>1, <2>1, <2>2, <2>4, ListsQuiet, SparesQuiet
  <2>6. queue' = Append(q, n)
    BY <2>2 DEF q
  <2> QED BY <2>1, <2>5, <2>6 DEF ListingInv, ManifestInv, DeletedInv, Sane
<1> QED BY <1>2, <1>3, <1>4

LEMMA OthersListing ==
  ASSUME Sane, ListingInv, Clean', SetHeaders \/ TimerFires
  PROVE  ListingInv'
<1>1. ~OfCollections(Ends)
  BY WhoHandles
<1>2. CASE SetHeaders
  <2>1. /\ up /\ reply' = reply /\ UNCHANGED <<manifest, life, view>>
        /\ \E m \in Messages : queue' = Append(queue, m) /\ m.op = "save" /\ m.then = Ends
    BY <1>2, SetHeadersEffect DEF Commanded
  <2> QED BY <1>1, <2>1, QuietListing, CleanFacts DEF Sane
<1>3. CASE TimerFires
  <2>1. up /\ reply' = reply /\ UNCHANGED <<manifest, life, view>>
    BY <1>3, TimerEffect
  <2>2. \/ queue' = queue
        \/ \E m \in Messages : queue' = Append(queue, m) /\ m.op = "update" /\ ~OfCollections(m.then)
    BY <1>3, TimerEffect, PatchThen
  <2> QED BY <2>1, <2>2, QuietListing, CleanFacts DEF Sane
<1> QED BY <1>2, <1>3

\* Nobody else is a handler: a message joins the queue, or none.
LEMMA AloneListing ==
  ASSUME Sane, ListingInv, Clean', up, reply' = NoReply, manifest' = manifest,
         \A i \in DOMAIN queue : ~OfCollections(queue[i].then),
         \A c \in Coll : life[c] = "deleted" => life'[c] = "deleted",
         NEW m \in Messages, queue' = Append(queue, m),
         ThenSpares(m.then, life'), m.op = "remove" => life'[m.coll] = "deleted",
         \A c \in view'.colls : life'[c] # "deleted" \/ Dropped(m.then, c),
         \/ m.op = "manifest" /\ view'.colls = m.colls /\ view'.active = m.coll
         \/ m.op # "manifest" /\ view'.colls = view.colls /\ view'.active = view.active
  PROVE  ListingInv'
<1>1. /\ queue \in Seq(Messages) /\ Lists(queue, manifest, view) /\ Spares(queue, reply.then, view, life)
      /\ Clean
  BY CleanFacts DEF Sane, ListingInv, ManifestInv, DeletedInv
<1>2. \A i \in DOMAIN queue : queue[i].op # "manifest"
  BY <1>1, QuietQueue
<1>3. Lists(queue', manifest, view')
  BY <1>1, <1>2, ListsSent, ListsQuiet
<1>4. \A i \in DOMAIN queue : queue[i].op = "remove" => life'[queue[i].coll] = "deleted"
  BY <1>1, MessageTypes DEF Spares
<1>5. Spares(queue', reply'.then, view', life')
  BY <1>1, <1>4, SparesAlone
<1> QED BY <1>1, <1>3, <1>5 DEF ListingInv, ManifestInv, DeletedInv

LEMMA AloneAlive ==
  ASSUME Sane, ListingInv, up, \A i \in DOMAIN queue : ~OfCollections(queue[i].then)
  PROVE  /\ \A c \in view.colls : life[c] # "deleted" \/ Dropped(reply.then, c)
         /\ ThenSpares(reply.then, life)
BY CleanFacts, QuietQueue DEF Sane, ListingInv, DeletedInv, Spares

\* Where no handler is, what the window lists is there.
LEMMA AllAlive ==
  ASSUME Sane, ListingInv, up, \A i \in DOMAIN queue : ~OfCollections(queue[i].then),
         reply = NoReply \/ reply.then.step \notin {"deleteLoaded", "deleteShown"}
  PROVE  \A c \in view.colls : life[c] # "deleted"
<1>1. Ends.step = "ends" /\ NoReply.then = Ends
  BY StepsOf, BoundFacts
<1>2. \A c : ~Dropped(reply.then, c)
  BY <1>1 DEF Dropped
<1> QED BY <1>2, AloneAlive

LEMMA CommandsListing ==
  ASSUME Sane, ListingInv, Clean', NEW c \in Coll,
         SelectCollection(c) \/ AddCollection(c) \/ DeleteCollection(c)
  PROVE  ListingInv'
<1>1. CASE SelectCollection(c)
  <2>1. /\ Alone /\ c \in view.colls /\ view' = view /\ life' = life
        /\ \E t \in AfterSave, m \in Messages :
              /\ t.step = "switchSaved" /\ t.coll = c
              /\ queue' = Append(queue, m) /\ Flushes(m, t)
    BY <1>1, SelectEffect
  <2>2. PICK t \in AfterSave, m \in Messages :
              /\ t.step = "switchSaved" /\ t.coll = c
              /\ queue' = Append(queue, m) /\ Flushes(m, t)
    BY <2>1
  <2>3. /\ up /\ reply = NoReply /\ reply' = NoReply /\ manifest' = manifest
        /\ \A i \in DOMAIN queue : ~OfCollections(queue[i].then)
    BY <2>1 DEF Alone, Commanded
  <2>4. \A d \in view.colls : life[d] # "deleted"
    BY <2>3, AllAlive
  <2>5. m.op \in {"update", "save"} /\ Core(m.then) = t
    BY <2>2, FlushThen
  <2>6. ThenSpares(m.then, life')
    BY <2>1, <2>2, <2>4, <2>5 DEF ThenSpares
  <2>7. /\ m.op = "remove" => life'[m.coll] = "deleted"
        /\ \A d \in view'.colls : life'[d] # "deleted" \/ Dropped(m.then, d)
        /\ m.op # "manifest" /\ view'.colls = view.colls /\ view'.active = view.active
        /\ \A d \in Coll : life[d] = "deleted" => life'[d] = "deleted"
    BY <2>1, <2>4, <2>5
  <2> QED BY <2>2, <2>3, <2>6, <2>7, AloneListing
<1>2. CASE AddCollection(c)
  <2>1. /\ Alone /\ life[c] = "unused" /\ life' = [life EXCEPT ![c] = "made"] /\ view' = view
        /\ \E m \in Messages :
              /\ queue' = Append(queue, m)
              /\ m.op = "load" /\ m.then.step = "rewrite" /\ m.then.then \in AfterSave
              /\ m.then.then.step = "addStored" /\ m.then.then.colls = view.colls \cup {c}
    BY <1>2, AddCollectionEffect
  <2>2. PICK m \in Messages :
              /\ queue' = Append(queue, m)
              /\ m.op = "load" /\ m.then.step = "rewrite" /\ m.then.then \in AfterSave
              /\ m.then.then.step = "addStored" /\ m.then.then.colls = view.colls \cup {c}
    BY <2>1
  <2>3. /\ up /\ reply = NoReply /\ reply' = NoReply /\ manifest' = manifest
        /\ \A i \in DOMAIN queue : ~OfCollections(queue[i].then)
    BY <2>1 DEF Alone, Commanded
  <2>4. \A d \in view.colls : life[d] # "deleted"
    BY <2>3, AllAlive
  <2>5. /\ life'[c] = "made" /\ \A d \in Coll \ {c} : life'[d] = life[d]
        /\ view.colls \subseteq Coll
    BY <2>1, <2>3, CleanFacts DEF Sane
  <2>6. ThenSpares(m.then, life')
    BY <2>2, <2>4, <2>5 DEF ThenSpares, Core
  <2>7. /\ m.op # "remove" /\ m.op # "manifest" /\ view'.colls = view.colls /\ view'.active = view.active
        /\ \A d \in view'.colls : life'[d] # "deleted" \/ Dropped(m.then, d)
        /\ \A d \in Coll : life[d] = "deleted" => life'[d] = "deleted"
    BY <2>1, <2>2, <2>4, <2>5
  <2> QED BY <2>2, <2>3, <2>6, <2>7, AloneListing
<1>3. CASE DeleteCollection(c)
  <2>1. /\ Alone /\ c \in view.colls /\ life' = [life EXCEPT ![c] = "deleted"] /\ view'.active = view.active
        /\ \E m \in Messages :
              /\ queue' = Append(queue, m)
              /\ \/ /\ view' = view
                    /\ m.op = "load" /\ m.then.step = "deleteLoaded"
                    /\ m.then.colls = view.colls \ {c} /\ m.then.old = c
                 \/ /\ view'.colls = view.colls \ {c}
                    /\ m.op = "manifest" /\ m.colls = view.colls \ {c} /\ m.coll = view.active
                    /\ m.then.step = "deleteListed" /\ m.then.old = c
    BY <1>3, DeleteCollectionEffect
  <2>2. PICK m \in Messages :
              /\ queue' = Append(queue, m)
              /\ \/ /\ view' = view
                    /\ m.op = "load" /\ m.then.step = "deleteLoaded"
                    /\ m.then.colls = view.colls \ {c} /\ m.then.old = c
                 \/ /\ view'.colls = view.colls \ {c}
                    /\ m.op = "manifest" /\ m.colls = view.colls \ {c} /\ m.coll = view.active
                    /\ m.then.step = "deleteListed" /\ m.then.old = c
    BY <2>1
  <2>3. /\ up /\ reply = NoReply /\ reply' = NoReply /\ manifest' = manifest
        /\ \A i \in DOMAIN queue : ~OfCollections(queue[i].then)
    BY <2>1 DEF Alone, Commanded
  <2>4. \A d \in view.colls : life[d] # "deleted"
    BY <2>3, AllAlive
  <2>5. /\ life'[c] = "deleted" /\ \A d \in Coll \ {c} : life'[d] = life[d]
        /\ view.colls \subseteq Coll
    BY <2>1, <2>3, CleanFacts DEF Sane
  <2>6. ThenSpares(m.then, life')
    BY <2>2, <2>4, <2>5 DEF ThenSpares, Core
  <2>7. \A d \in view'.colls : life'[d] # "deleted" \/ Dropped(m.then, d)
    BY <2>2, <2>4, <2>5 DEF Dropped
  <2>8. /\ m.op # "remove"
        /\ \/ m.op = "manifest" /\ view'.colls = m.colls /\ view'.active = m.coll
           \/ m.op # "manifest" /\ view'.colls = view.colls /\ view'.active = view.active
        /\ \A d \in Coll : life[d] = "deleted" => life'[d] = "deleted"
    BY <2>1, <2>2, <2>5
  <2> QED BY <2>2, <2>3, <2>6, <2>7, <2>8, AloneListing
<1> QED BY <1>1, <1>2, <1>3

LEMMA BatchesListing ==
  ASSUME Sane, ListingInv, Clean', NextPatch \/ Flushed \/ Rewrite
  PROVE  ListingInv'
<1>1. CASE NextPatch
  <2>1. /\ Resumed /\ view' = view /\ reply.then \in Batches
        /\ \E m \in Messages, r \in Req :
              queue' = Append(queue, m) /\ Patch(m, r, reply.then.patches, reply.then.then)
    BY <1>1, NextPatchEffect DEF KeepsWindow
  <2>2. PICK m \in Messages, r \in Req :
              queue' = Append(queue, m) /\ Patch(m, r, reply.then.patches, reply.then.then)
    BY <2>1
  <2>3. /\ up /\ reply' = NoReply /\ UNCHANGED <<manifest, life>> /\ reply.then \in Thens
        /\ view'.colls = view.colls /\ view'.active = view.active
    BY <2>1 DEF Resumed
  <2>4. reply.then.then \in {Ends} \cup AfterSave
    BY <2>1 DEF Batches
  <2>5. /\ m.op = "update" /\ Core(m.then) = reply.then.then
        /\ reply.then.then = Ends => ~OfCollections(m.then)
    BY <2>2, <2>4, PatchThen
  <2>6. CASE reply.then.then = Ends
    <3>1. ~OfCollections(reply.then)
      BY <2>1, <2>6, WhoHandles
    <3> QED BY <2>2, <2>3, <2>5, <2>6, <3>1, QuietListing
  <2>7. CASE reply.then.then # Ends
    <3>1. Resume("batch")
      BY <1>1 DEF NextPatch
    <3>2. HandlerAlone
      BY <3>1, <2>7, ResumeEffect
    <3>3. reply.then.step = "batch" /\ Core(reply.then) = reply.then.then
      BY <2>1, StepsOf DEF Core
    <3>4. \A i \in DOMAIN queue : ~OfCollections(queue[i].then)
      BY <3>2 DEF HandlerAlone
    <3>5. (\A d \in view.colls : life[d] # "deleted") /\ ThenSpares(reply.then, life)
      BY <2>3, <3>3, <3>4, AllAlive, AloneAlive
    <3>6. ThenSpares(m.then, life')
      BY <2>3, <2>5, <3>3, <3>5 DEF ThenSpares
    <3>7. /\ m.op # "remove" /\ m.op # "manifest"
          /\ \A d \in view'.colls : life'[d] # "deleted" \/ Dropped(m.then, d)
          /\ \A d \in Coll : life[d] = "deleted" => life'[d] = "deleted"
      BY <2>3, <2>5, <3>5
    <3> QED BY <2>2, <2>3, <3>4, <3>6, <3>7, AloneListing
  <2> QED BY <2>6, <2>7
<1>2. CASE Flushed \/ Rewrite
  <2>1. /\ HandlerAlone /\ view' = view /\ reply.then.step \in {"batch", "rewrite"}
        /\ \E m \in Messages : queue' = Append(queue, m) /\ m.op = "save" /\ m.then = reply.then.then
    <3>1. CASE Flushed
      BY <3>1, FlushedEffect DEF Batches
    <3>2. CASE Rewrite
      BY <3>2, RewriteEffect DEF Rewrites, KeepsWindow
    <3> QED BY <1>2, <3>1, <3>2
  <2>2. PICK m \in Messages : queue' = Append(queue, m) /\ m.op = "save" /\ m.then = reply.then.then
    BY <2>1
  <2>3. /\ up /\ reply' = NoReply /\ UNCHANGED <<manifest, life>> /\ reply.then \in Thens
        /\ \A i \in DOMAIN queue : ~OfCollections(queue[i].then)
    BY <2>1 DEF HandlerAlone, Resumed
  <2>4. (\A d \in view.colls : life[d] # "deleted") /\ ThenSpares(reply.then, life)
    BY <2>1, <2>3, AllAlive, AloneAlive
  <2>5. Core(reply.then) = reply.then.then /\ Core(m.then) = m.then
    <3>1. m.then \in {Ends} \cup AfterSave
      BY <2>2, MessageTypes
    <3>2. m.then.step \notin {"batch", "rewrite"}
      BY <3>1, StepsOf
    <3> QED BY <2>1, <3>2 DEF Core
  <2>6. ThenSpares(m.then, life')
    BY <2>2, <2>3, <2>4, <2>5 DEF ThenSpares
  <2>7. /\ m.op # "remove" /\ m.op # "manifest" /\ view'.colls = view.colls /\ view'.active = view.active
        /\ \A d \in view'.colls : life'[d] # "deleted" \/ Dropped(m.then, d)
        /\ \A d \in Coll : life[d] = "deleted" => life'[d] = "deleted"
    BY <2>1, <2>2, <2>3, <2>4
  <2> QED BY <2>2, <2>3, <2>6, <2>7, AloneListing
<1> QED BY <1>1, <1>2

\* A message of these is of no other handler.
LEMMA PlainCore ==
  ASSUME NEW t \in Thens, t.step \notin {"batch", "rewrite"}
  PROVE  Core(t) = t
BY DEF Core

LEMMA SwitchesListing ==
  ASSUME Sane, ListingInv, Clean', SwitchSaved \/ SwitchListed \/ AddStored \/ DeleteListed
  PROVE  ListingInv'
<1>1. CASE SwitchSaved
  <2>1. /\ HandlerAlone /\ reply.then.step = "switchSaved"
        /\ view'.active = reply.then.coll /\ view'.colls = view.colls
        /\ \E m \in Messages :
              /\ queue' = Append(queue, m) /\ m.op = "manifest" /\ m.colls = view.colls
              /\ m.coll = reply.then.coll /\ m.then.step = "switchListed" /\ m.then.coll = reply.then.coll
    BY <1>1, SwitchSavedEffect
  <2>2. PICK m \in Messages :
              /\ queue' = Append(queue, m) /\ m.op = "manifest" /\ m.colls = view.colls
              /\ m.coll = reply.then.coll /\ m.then.step = "switchListed" /\ m.then.coll = reply.then.coll
    BY <2>1
  <2>3. /\ up /\ reply' = NoReply /\ UNCHANGED <<manifest, life>> /\ reply.then \in Thens
        /\ \A i \in DOMAIN queue : ~OfCollections(queue[i].then)
    BY <2>1 DEF HandlerAlone, Resumed
  <2>4. (\A d \in view.colls : life[d] # "deleted") /\ ThenSpares(reply.then, life)
    BY <2>1, <2>3, AllAlive, AloneAlive
  <2>5. Core(reply.then) = reply.then
    BY <2>1, <2>3, PlainCore
  <2>6. ThenSpares(m.then, life')
    BY <2>1, <2>2, <2>3, <2>4, <2>5, MessageTypes, PlainCore DEF ThenSpares
  <2>7. /\ m.op # "remove" /\ m.op = "manifest" /\ view'.colls = m.colls /\ view'.active = m.coll
        /\ \A d \in view'.colls : life'[d] # "deleted" \/ Dropped(m.then, d)
        /\ \A d \in Coll : life[d] = "deleted" => life'[d] = "deleted"
    BY <2>1, <2>2, <2>3, <2>4
  <2> QED BY <2>2, <2>3, <2>6, <2>7, AloneListing
<1>2. CASE SwitchListed
  <2>1. /\ HandlerAlone /\ reply.then.step = "switchListed" /\ view' = view
        /\ \E m \in Messages :
              /\ queue' = Append(queue, m) /\ m.op = "load"
              /\ m.then.step = "switchLoaded" /\ m.then.coll = reply.then.coll
    BY <1>2, SwitchListedEffect DEF KeepsWindow
  <2>2. PICK m \in Messages :
              /\ queue' = Append(queue, m) /\ m.op = "load"
              /\ m.then.step = "switchLoaded" /\ m.then.coll = reply.then.coll
    BY <2>1
  <2>3. /\ up /\ reply' = NoReply /\ UNCHANGED <<manifest, life>> /\ reply.then \in Thens
        /\ \A i \in DOMAIN queue : ~OfCollections(queue[i].then)
    BY <2>1 DEF HandlerAlone, Resumed
  <2>4. (\A d \in view.colls : life[d] # "deleted") /\ ThenSpares(reply.then, life)
    BY <2>1, <2>3, AllAlive, AloneAlive
  <2>5. Core(reply.then) = reply.then
    BY <2>1, <2>3, PlainCore
  <2>6. ThenSpares(m.then, life')
    BY <2>1, <2>2, <2>3, <2>4, <2>5, MessageTypes, PlainCore DEF ThenSpares
  <2>7. /\ m.op # "remove" /\ m.op # "manifest" /\ view'.colls = view.colls /\ view'.active = view.active
        /\ \A d \in view'.colls : life'[d] # "deleted" \/ Dropped(m.then, d)
        /\ \A d \in Coll : life[d] = "deleted" => life'[d] = "deleted"
    BY <2>1, <2>2, <2>3, <2>4
  <2> QED BY <2>2, <2>3, <2>6, <2>7, AloneListing
<1>3. CASE AddStored
  <2>1. /\ HandlerAlone /\ reply.then.step = "addStored" /\ view' = view
        /\ \E t \in AfterSave, m \in Messages :
              /\ t.step = "addSaved" /\ t.coll = reply.then.coll /\ t.colls = reply.then.colls
              /\ queue' = Append(queue, m) /\ Flushes(m, t)
    BY <1>3, AddStoredEffect
  <2>2. PICK t \in AfterSave, m \in Messages :
              /\ t.step = "addSaved" /\ t.coll = reply.then.coll /\ t.colls = reply.then.colls
              /\ queue' = Append(queue, m) /\ Flushes(m, t)
    BY <2>1
  <2>3. /\ up /\ reply' = NoReply /\ UNCHANGED <<manifest, life>> /\ reply.then \in Thens
        /\ \A i \in DOMAIN queue : ~OfCollections(queue[i].then)
    BY <2>1 DEF HandlerAlone, Resumed
  <2>4. (\A d \in view.colls : life[d] # "deleted") /\ ThenSpares(reply.then, life)
    BY <2>1, <2>3, AllAlive, AloneAlive
  <2>5. Core(reply.then) = reply.then
    BY <2>1, <2>3, PlainCore
  <2>a. m.op \in {"update", "save"} /\ Core(m.then) = t
    BY <2>2, FlushThen
  <2>6. ThenSpares(m.then, life')
    BY <2>1, <2>2, <2>3, <2>4, <2>5, <2>a DEF ThenSpares
  <2>7. /\ m.op # "remove" /\ m.op # "manifest" /\ view'.colls = view.colls /\ view'.active = view.active
        /\ \A d \in view'.colls : life'[d] # "deleted" \/ Dropped(m.then, d)
        /\ \A d \in Coll : life[d] = "deleted" => life'[d] = "deleted"
    BY <2>1, <2>3, <2>4, <2>a
  <2> QED BY <2>2, <2>3, <2>6, <2>7, AloneListing
<1>4. CASE DeleteListed
  <2>1. /\ HandlerAlone /\ reply.then.step = "deleteListed" /\ view' = view
        /\ \E m \in Messages :
              queue' = Append(queue, m) /\ m.op = "remove" /\ m.coll = reply.then.old /\ m.then = Ends
    BY <1>4, DeleteListedEffect DEF KeepsWindow
  <2>2. PICK m \in Messages :
              queue' = Append(queue, m) /\ m.op = "remove" /\ m.coll = reply.then.old /\ m.then = Ends
    BY <2>1
  <2>3. /\ up /\ reply' = NoReply /\ UNCHANGED <<manifest, life>> /\ reply.then \in Thens
        /\ \A i \in DOMAIN queue : ~OfCollections(queue[i].then)
    BY <2>1 DEF HandlerAlone, Resumed
  <2>4. (\A d \in view.colls : life[d] # "deleted") /\ ThenSpares(reply.then, life)
    BY <2>1, <2>3, AllAlive, AloneAlive
  <2>5. Core(reply.then) = reply.then
    BY <2>1, <2>3, PlainCore
  <2>6. ThenSpares(m.then, life')
    BY <2>2, StepsOf DEF ThenSpares, Core
  <2>7. /\ m.op = "remove" => life'[m.coll] = "deleted"
        /\ m.op # "manifest" /\ view'.colls = view.colls /\ view'.active = view.active
        /\ \A d \in view'.colls : life'[d] # "deleted" \/ Dropped(m.then, d)
        /\ \A d \in Coll : life[d] = "deleted" => life'[d] = "deleted"
    BY <2>1, <2>2, <2>3, <2>4, <2>5 DEF ThenSpares
  <2> QED BY <2>2, <2>3, <2>6, <2>7, AloneListing
<1> QED BY <1>1, <1>2, <1>3, <1>4

LEMMA AddSavedListing ==
  ASSUME Sane, ListingInv, Clean', AddSaved
  PROVE  ListingInv'
<1>1. /\ HandlerAlone /\ reply.then.step = "addSaved"
      /\ view'.active = reply.then.coll /\ view'.colls = reply.then.colls
      /\ \E m \in Messages :
            /\ queue' = Append(queue, m) /\ m.op = "manifest" /\ m.colls = reply.then.colls
            /\ m.coll = reply.then.coll /\ m.then.step = "addListed"
  BY AddSavedEffect
<1>2. PICK m \in Messages :
            /\ queue' = Append(queue, m) /\ m.op = "manifest" /\ m.colls = reply.then.colls
            /\ m.coll = reply.then.coll /\ m.then.step = "addListed"
  BY <1>1
<1>3. /\ up /\ reply' = NoReply /\ UNCHANGED <<manifest, life>> /\ reply.then \in Thens
      /\ \A i \in DOMAIN queue : ~OfCollections(queue[i].then)
  BY <1>1 DEF HandlerAlone, Resumed
<1>4. ThenSpares(reply.then, life)
  BY <1>3, AloneAlive
<1>5. Core(reply.then) = reply.then
  BY <1>1, <1>3, PlainCore
<1>6. ThenSpares(m.then, life')
  BY <1>2, MessageTypes, PlainCore DEF ThenSpares
<1>7. /\ m.op # "remove" /\ m.op = "manifest" /\ view'.colls = m.colls /\ view'.active = m.coll
      /\ \A d \in view'.colls : life'[d] # "deleted" \/ Dropped(m.then, d)
      /\ \A d \in Coll : life[d] = "deleted" => life'[d] = "deleted"
  BY <1>1, <1>2, <1>3, <1>4, <1>5 DEF ThenSpares
<1> QED BY <1>2, <1>3, <1>6, <1>7, AloneListing

LEMMA DeleteLoadedListing ==
  ASSUME Sane, ListingInv, Clean', DeleteLoaded
  PROVE  ListingInv'
<1>1. /\ HandlerAlone /\ reply.then.step = "deleteLoaded"
      /\ view'.colls = view.colls /\ view'.active = view.active
      /\ \E m \in Messages :
            /\ queue' = Append(queue, m) /\ m.op = "environments" /\ m.then.step = "deleteShown"
            /\ m.then.colls = reply.then.colls /\ m.then.old = reply.then.old
  BY DeleteLoadedEffect
<1>2. PICK m \in Messages :
            /\ queue' = Append(queue, m) /\ m.op = "environments" /\ m.then.step = "deleteShown"
            /\ m.then.colls = reply.then.colls /\ m.then.old = reply.then.old
  BY <1>1
<1>3. /\ up /\ reply' = NoReply /\ UNCHANGED <<manifest, life>> /\ reply.then \in Thens
      /\ \A i \in DOMAIN queue : ~OfCollections(queue[i].then)
  BY <1>1 DEF HandlerAlone, Resumed
<1>4. /\ \A d \in view.colls : life[d] # "deleted" \/ Dropped(reply.then, d)
      /\ ThenSpares(reply.then, life)
  BY <1>3, AloneAlive
<1>5. Core(reply.then) = reply.then /\ Core(m.then) = m.then
  BY <1>1, <1>2, <1>3, PlainCore, MessageTypes
<1>6. ThenSpares(m.then, life')
  BY <1>1, <1>2, <1>3, <1>4, <1>5 DEF ThenSpares
<1>7. /\ m.op # "remove" /\ m.op # "manifest" /\ view'.colls = view.colls /\ view'.active = view.active
      /\ \A d \in view'.colls : life'[d] # "deleted" \/ Dropped(m.then, d)
      /\ \A d \in Coll : life[d] = "deleted" => life'[d] = "deleted"
  BY <1>1, <1>2, <1>3, <1>4 DEF Dropped
<1> QED BY <1>2, <1>3, <1>6, <1>7, AloneListing

LEMMA DeleteShownListing ==
  ASSUME Sane, ListingInv, Clean', DeleteShown
  PROVE  ListingInv'
<1>1. /\ HandlerAlone /\ reply.then.step = "deleteShown"
      /\ view'.active = reply.then.coll /\ view'.colls = reply.then.colls
      /\ \E m \in Messages :
            /\ queue' = Append(queue, m) /\ m.op = "manifest" /\ m.colls = reply.then.colls
            /\ m.coll = reply.then.coll /\ m.then.step = "deleteListed" /\ m.then.old = reply.then.old
  BY DeleteShownEffect
<1>2. PICK m \in Messages :
            /\ queue' = Append(queue, m) /\ m.op = "manifest" /\ m.colls = reply.then.colls
            /\ m.coll = reply.then.coll /\ m.then.step = "deleteListed" /\ m.then.old = reply.then.old
  BY <1>1
<1>3. /\ up /\ reply' = NoReply /\ UNCHANGED <<manifest, life>> /\ reply.then \in Thens
      /\ \A i \in DOMAIN queue : ~OfCollections(queue[i].then)
  BY <1>1 DEF HandlerAlone, Resumed
<1>4. ThenSpares(reply.then, life)
  BY <1>3, AloneAlive
<1>5. Core(reply.then) = reply.then /\ Core(m.then) = m.then
  BY <1>1, <1>2, <1>3, PlainCore, MessageTypes
<1>6. ThenSpares(m.then, life')
  BY <1>1, <1>2, <1>3, <1>4, <1>5 DEF ThenSpares
<1>7. /\ m.op # "remove" /\ m.op = "manifest" /\ view'.colls = m.colls /\ view'.active = m.coll
      /\ \A d \in view'.colls : life'[d] # "deleted" \/ Dropped(m.then, d)
      /\ \A d \in Coll : life[d] = "deleted" => life'[d] = "deleted"
  BY <1>1, <1>2, <1>3, <1>4, <1>5 DEF ThenSpares
<1> QED BY <1>2, <1>3, <1>6, <1>7, AloneListing

\* A handler ends, and sends nothing.
LEMMA EndsListing ==
  ASSUME Sane, ListingInv, Clean', SwitchLoaded \/ AddListed
  PROVE  ListingInv'
<1>1. /\ HandlerAlone /\ reply.then.step \in {"switchLoaded", "addListed"} /\ queue' = queue
      /\ view'.colls = view.colls /\ view'.active = view.active
  BY SwitchLoadedEffect, AddListedEffect
<1>2. /\ up /\ reply' = NoReply /\ UNCHANGED <<manifest, life>>
      /\ \A i \in DOMAIN queue : ~OfCollections(queue[i].then)
  BY <1>1 DEF HandlerAlone, Resumed
<1>3. \A d \in view.colls : life[d] # "deleted"
  BY <1>1, <1>2, AllAlive
<1>4. /\ queue \in Seq(Messages) /\ Lists(queue, manifest, view) /\ Spares(queue, reply.then, view, life)
  BY <1>2, CleanFacts DEF Sane, ListingInv, ManifestInv, DeletedInv
<1>5. Lists(queue', manifest, view')
  BY <1>1, <1>4 DEF Lists
<1>6. \A i \in DOMAIN queue : queue[i].op = "remove" => life[queue[i].coll] = "deleted"
  BY <1>4 DEF Spares
<1>7. Spares(queue', reply'.then, view', life)
  BY <1>1, <1>2, <1>3, <1>4, <1>6, SparesAlone
<1> QED BY <1>2, <1>5, <1>7 DEF ListingInv, ManifestInv, DeletedInv, Sane

\* The start, while nothing goes wrong.
LEMMA BootEffect ==
  ASSUME DeletionsInv, CleanInv, Clean, Clean', Boot
  PROVE  /\ ~up /\ up' /\ UNCHANGED <<dirs, pending, home, overlapped>> /\ queue' = <<>> /\ reply' = NoReply
         /\ wanted' = [x \in Coll |-> Content(x)]
         /\ gone' = {r \in gone : \A x \in Coll : Content(x).items[r] = 0}
         /\ \E c \in Coll :
              /\ view'.shown = c /\ view'.active = c /\ c \in view'.colls
              /\ mirror' = [active |-> c, items |-> view'.items, headers |-> dirs[c].headers]
              /\ \/ /\ view'.colls = manifest.colls /\ view'.items = Content(c).items
                    /\ manifest.active \in manifest.colls => c = manifest.active
                    /\ manifest' = manifest /\ life' = Relisted
                 \/ /\ view'.colls = {c} /\ view'.items = Nothing /\ life[c] = "unused"
                    /\ manifest' = [colls |-> {c}, active |-> c]
                    /\ life' = [life EXCEPT ![c] = "listed"]
<1>1. /\ ~up /\ up' = TRUE /\ UNCHANGED <<dirs, pending, queue, reply, home, overlapped>>
      /\ wanted' = [x \in Coll |-> Content(x)]
      /\ gone' = {r \in gone : \A x \in Coll : Content(x).items[r] = 0}
      /\ mirror' = [active |-> view'.active, items |-> view'.items,
                    headers |-> dirs[view'.active].headers]
  BY DEF Boot
<1>2. queue = <<>> /\ reply = NoReply /\ manifest.colls \subseteq Coll
  BY <1>1 DEF DeletionsInv, SavesIInv, Shapes, MessagesFit, StoresFit
<1>3. slips' = {}
  BY DEF Clean
<1>4. \A s : ~Fails(s)
  BY <1>3 DEF Fails
<1>5. \E c \in Coll :
        \/ /\ view' = [colls |-> manifest.colls, active |-> c, shown |-> c, items |-> Content(c).items]
           /\ c \in manifest.colls /\ (manifest.active \in manifest.colls => c = manifest.active)
           /\ manifest' = manifest /\ life' = Relisted
        \/ /\ view' = [colls |-> {c}, active |-> c, shown |-> c, items |-> Nothing]
           /\ life[c] = "unused"
           /\ manifest' = [colls |-> {c}, active |-> c] /\ life' = [life EXCEPT ![c] = "listed"]
  <2>1. CASE /\ manifest.colls # {}
             /\ Works
             /\ \E c \in IF manifest.active \in manifest.colls THEN {manifest.active}
                                                                ELSE manifest.colls :
                  view' = [colls |-> manifest.colls, active |-> c, shown |-> c, items |-> Content(c).items]
             /\ life' = Relisted
             /\ UNCHANGED manifest
    <3>1. PICK c \in manifest.colls :
            /\ view' = [colls |-> manifest.colls, active |-> c, shown |-> c, items |-> Content(c).items]
            /\ manifest.active \in manifest.colls => c = manifest.active
      BY <2>1
    <3>2. c \in Coll
      BY <1>2
    <3> QED BY <2>1, <3>1, <3>2
  <2>2. CASE \E c \in Coll :
          /\ life[c] = "unused"
          /\ view' = [colls |-> {c}, active |-> c, shown |-> c, items |-> Nothing]
          /\ \/ /\ IF manifest.colls = {} THEN Works ELSE Fails("unread")
                /\ life' = [life EXCEPT ![c] = "listed"]
                /\ manifest' = [colls |-> {c}, active |-> c]
             \/ /\ manifest.colls = {} /\ Fails("failed")
                /\ life' = [life EXCEPT ![c] = "made"]
                /\ UNCHANGED manifest
    BY <1>4, <2>2
  <2> QED BY <2>1, <2>2 DEF Boot, Relisted
<1>6. PICK c \in Coll :
        \/ /\ view' = [colls |-> manifest.colls, active |-> c, shown |-> c, items |-> Content(c).items]
           /\ c \in manifest.colls /\ (manifest.active \in manifest.colls => c = manifest.active)
           /\ manifest' = manifest /\ life' = Relisted
        \/ /\ view' = [colls |-> {c}, active |-> c, shown |-> c, items |-> Nothing]
           /\ life[c] = "unused"
           /\ manifest' = [colls |-> {c}, active |-> c] /\ life' = [life EXCEPT ![c] = "listed"]
  BY <1>5
<1>7. /\ view'.shown = c /\ view'.active = c /\ c \in view'.colls
      /\ \/ /\ view'.colls = manifest.colls /\ view'.items = Content(c).items
            /\ manifest.active \in manifest.colls => c = manifest.active
            /\ manifest' = manifest /\ life' = Relisted
         \/ /\ view'.colls = {c} /\ view'.items = Nothing /\ life[c] = "unused"
            /\ manifest' = [colls |-> {c}, active |-> c]
            /\ life' = [life EXCEPT ![c] = "listed"]
  BY <1>6
<1> QED BY <1>1, <1>2, <1>7

\* What serving a message does, while nothing fails.
LEMMA ServesEffect ==
  ASSUME Sane, Clean'
  PROVE  /\ ServeSave => LET m == Head(queue) IN
              /\ ServedWell /\ m.op = "save" /\ UNCHANGED <<manifest, life>>
              /\ dirs' = [dirs EXCEPT ![m.coll] = Saved(dirs[m.coll], m.items, m.headers, In(m.items))]
         /\ ServeLoad => /\ ServedWell /\ Head(queue).op = "load" /\ UNCHANGED <<manifest, life, dirs>>
                         /\ reply'.then # Ends => reply'.data = Content(Head(queue).coll)
         /\ ServeManifest => /\ ServedWell /\ Head(queue).op = "manifest" /\ UNCHANGED dirs
                             /\ manifest' = [colls |-> Head(queue).colls, active |-> Head(queue).coll]
                             /\ \A c \in Coll : life'[c] = "deleted" <=> life[c] = "deleted"
         /\ ServeUpdate => LET m == Head(queue)
                               c == Resolved[m.req]
                               known == c # 0 /\ dirs[c].files[m.req] > 0 IN
              /\ ServedWell /\ m.op = "update" /\ UNCHANGED <<manifest, life>>
              /\ dirs' = IF known THEN [dirs EXCEPT ![c].files[m.req] = m.version] ELSE dirs
         /\ ServeDelete => LET m == Head(queue)
                               c == Resolved[m.req]
                               known == c # 0 /\ dirs[c].files[m.req] > 0 IN
              /\ ServedWell /\ m.op = "delete" /\ UNCHANGED <<manifest, life>>
              /\ dirs' = IF known
                         THEN [dirs EXCEPT ![c].files[m.req] = 0, ![c].tree = @ \ {m.req}]
                         ELSE dirs
         /\ ServeRemove => /\ ServedWell /\ Head(queue).op = "remove" /\ UNCHANGED <<manifest, life>>
                           /\ dirs' = [dirs EXCEPT ![Head(queue).coll] = NoDir]
         /\ ServeEnvironments => /\ ServedWell /\ Head(queue).op = "environments"
                                 /\ UNCHANGED <<manifest, life, dirs>>
<1>1. \A s : ~Fails(s)
  BY DEF Fails, Clean
<1>2. ASSUME ServeSave
      PROVE  LET m == Head(queue) IN
              /\ ServedWell /\ m.op = "save" /\ UNCHANGED <<manifest, life>>
              /\ dirs' = [dirs EXCEPT ![m.coll] = Saved(dirs[m.coll], m.items, m.headers, In(m.items))]
  <2>1. /\ Serve("save") /\ Answer(Empty) /\ UNCHANGED <<manifest, life>>
        /\ dirs' = [dirs EXCEPT ![Head(queue).coll] =
                      Saved(@, Head(queue).items, Head(queue).headers, In(Head(queue).items))]
    BY <1>1, <1>2 DEF ServeSave
  <2> QED BY <2>1, ServeEffect
<1>3. ASSUME ServeLoad
      PROVE  /\ ServedWell /\ Head(queue).op = "load" /\ UNCHANGED <<manifest, life, dirs>>
             /\ reply'.then # Ends => reply'.data = Content(Head(queue).coll)
  <2>1. Serve("load") /\ Answer(Content(Head(queue).coll)) /\ UNCHANGED <<manifest, life, dirs>>
    BY <1>1, <1>3 DEF ServeLoad, mainVars
  <2> QED BY <2>1, ServeEffect
<1>4. ASSUME ServeManifest
      PROVE  /\ ServedWell /\ Head(queue).op = "manifest" /\ UNCHANGED dirs
             /\ manifest' = [colls |-> Head(queue).colls, active |-> Head(queue).coll]
             /\ \A c \in Coll : life'[c] = "deleted" <=> life[c] = "deleted"
  <2>1. /\ Serve("manifest") /\ Answer(Empty) /\ UNCHANGED dirs
        /\ manifest' = [colls |-> Head(queue).colls, active |-> Head(queue).coll]
        /\ life' = [c \in Coll |-> IF c \in Head(queue).colls /\ life[c] = "made" THEN "listed" ELSE life[c]]
    BY <1>1, <1>4 DEF ServeManifest
  <2>2. \A c \in Coll : life'[c] = "deleted" <=> life[c] = "deleted"
    BY <2>1
  <2> QED BY <2>1, <2>2, ServeEffect
<1>5. ASSUME ServeUpdate
      PROVE  LET m == Head(queue)
                 c == Resolved[m.req]
                 known == c # 0 /\ dirs[c].files[m.req] > 0 IN
              /\ ServedWell /\ m.op = "update" /\ UNCHANGED <<manifest, life>>
              /\ dirs' = IF known THEN [dirs EXCEPT ![c].files[m.req] = m.version] ELSE dirs
  <2> DEFINE m == Head(queue)
             c == Resolved[m.req]
             known == c # 0 /\ dirs[c].files[m.req] > 0
  <2>1. /\ Serve("update") /\ Answer(Empty) /\ UNCHANGED <<manifest, life>>
        /\ dirs' = IF known THEN [dirs EXCEPT ![c].files[m.req] = m.version] ELSE dirs
    BY <1>1, <1>5 DEF ServeUpdate
  <2> HIDE DEF m, c, known
  <2>2. ServedWell /\ Head(queue).op = "update"
    BY <2>1, ServeEffect
  <2> QED BY <2>1, <2>2 DEF m, c, known
<1>6. ASSUME ServeDelete
      PROVE  LET m == Head(queue)
                 c == Resolved[m.req]
                 known == c # 0 /\ dirs[c].files[m.req] > 0 IN
              /\ ServedWell /\ m.op = "delete" /\ UNCHANGED <<manifest, life>>
              /\ dirs' = IF known
                         THEN [dirs EXCEPT ![c].files[m.req] = 0, ![c].tree = @ \ {m.req}]
                         ELSE dirs
  <2> DEFINE m == Head(queue)
             c == Resolved[m.req]
             known == c # 0 /\ dirs[c].files[m.req] > 0
  <2>1. /\ Serve("delete") /\ Answer(Empty) /\ UNCHANGED <<manifest, life>>
        /\ dirs' = IF known
                   THEN [dirs EXCEPT ![c].files[m.req] = 0, ![c].tree = @ \ {m.req}]
                   ELSE dirs
    BY <1>1, <1>6 DEF ServeDelete, Works
  <2> HIDE DEF m, c, known
  <2>2. ServedWell /\ Head(queue).op = "delete"
    BY <2>1, ServeEffect
  <2> QED BY <2>1, <2>2 DEF m, c, known
<1>7. ASSUME ServeRemove
      PROVE  /\ ServedWell /\ Head(queue).op = "remove" /\ UNCHANGED <<manifest, life>>
             /\ dirs' = [dirs EXCEPT ![Head(queue).coll] = NoDir]
  <2>1. /\ Serve("remove") /\ Answer(Empty) /\ UNCHANGED <<manifest, life>>
        /\ dirs' = [dirs EXCEPT ![Head(queue).coll] = NoDir]
    BY <1>1, <1>7 DEF ServeRemove
  <2> QED BY <2>1, ServeEffect
<1>8. ASSUME ServeEnvironments
      PROVE  /\ ServedWell /\ Head(queue).op = "environments" /\ UNCHANGED <<manifest, life, dirs>>
  <2>1. Serve("environments") /\ Answer(Empty) /\ UNCHANGED <<manifest, life, dirs>>
    BY <1>8 DEF ServeEnvironments, mainVars
  <2> QED BY <2>1, ServeEffect
<1> QED BY <1>2, <1>3, <1>4, <1>5, <1>6, <1>7, <1>8

LEMMA ServesListing ==
  ASSUME Sane, ListingInv, Clean',
         \/ ServeSave \/ ServeLoad \/ ServeManifest \/ ServeUpdate \/ ServeDelete
         \/ ServeRemove \/ ServeEnvironments
  PROVE  ListingInv'
<1> DEFINE m == Head(queue)
<1>1. /\ ServedWell
      /\ \A c \in Coll : life'[c] = "deleted" <=> life[c] = "deleted"
      /\ IF m.op = "manifest" THEN manifest' = [colls |-> m.colls, active |-> m.coll]
                              ELSE manifest' = manifest
  BY ServesEffect
<1>2. /\ queue \in Seq(Messages) /\ queue # <<>> /\ up /\ queue' = Tail(queue) /\ view' = view
      /\ reply.then = Ends /\ reply'.then = m.then
      /\ Lists(queue, manifest, view) /\ Spares(queue, reply.then, view, life)
      /\ view.colls \subseteq Coll /\ view.active \in view.colls /\ m = queue[1] /\ 1 \in DOMAIN queue
  <2>1. up /\ reply = NoReply
    BY <1>1 DEF ServedWell
  <2>2. reply.then = Ends
    BY <2>1, BoundFacts
  <2> QED BY <1>1, <2>1, <2>2, CleanFacts DEF ServedWell, Sane, ListingInv, ManifestInv, DeletedInv
<1>3. Lists(queue', manifest', view')
  BY <1>1, <1>2, ListsServed
<1>4. Spares(queue', reply'.then, view', life')
  BY <1>1, <1>2, SparesServed
<1>5. manifest'.colls = {} \/ manifest'.active \in manifest'.colls
  <2>1. CASE m.op = "manifest"
    BY <1>1, <1>2, <2>1 DEF Lists
  <2>2. CASE m.op # "manifest"
    BY <1>1, <2>2 DEF ListingInv, ManifestInv, Sane
  <2> QED BY <2>1, <2>2
<1> QED BY <1>3, <1>4, <1>5 DEF ListingInv, ManifestInv, DeletedInv

LEMMA BootListing ==
  ASSUME DeletionsInv, CleanInv, Clean, ListingInv, Clean', Boot
  PROVE  ListingInv'
<1>1. /\ queue' = <<>> /\ reply' = NoReply
      /\ \E c \in Coll :
           /\ view'.active = c /\ c \in view'.colls
           /\ \/ /\ view'.colls = manifest.colls
                 /\ manifest.active \in manifest.colls => c = manifest.active
                 /\ manifest' = manifest /\ life' = Relisted
              \/ /\ view'.colls = {c} /\ life[c] = "unused"
                 /\ manifest' = [colls |-> {c}, active |-> c]
                 /\ life' = [life EXCEPT ![c] = "listed"]
  BY BootEffect
<1>2. PICK c \in Coll :
           /\ view'.active = c /\ c \in view'.colls
           /\ \/ /\ view'.colls = manifest.colls
                 /\ manifest.active \in manifest.colls => c = manifest.active
                 /\ manifest' = manifest /\ life' = Relisted
              \/ /\ view'.colls = {c} /\ life[c] = "unused"
                 /\ manifest' = [colls |-> {c}, active |-> c]
                 /\ life' = [life EXCEPT ![c] = "listed"]
  BY <1>1
<1>3. /\ manifest \in [colls : SUBSET Coll, active : Coll \cup {0}]
      /\ life \in [Coll -> {"unused", "made", "listed", "deleted"}]
  BY DEF DeletionsInv, SavesIInv, Shapes, StoresFit, HistoryFits
<1>4. manifest.colls = {} \/ manifest.active \in manifest.colls
  BY DEF ListingInv, ManifestInv
<1>5. /\ manifest' = [colls |-> view'.colls, active |-> view'.active]
      /\ manifest'.active \in manifest'.colls
      /\ \A x \in view'.colls : life'[x] # "deleted"
  <2>1. CASE /\ view'.colls = manifest.colls
             /\ manifest.active \in manifest.colls => c = manifest.active
             /\ manifest' = manifest /\ life' = Relisted
    BY <1>2, <1>3, <1>4, <2>1 DEF Relisted
  <2>2. CASE /\ view'.colls = {c} /\ life[c] = "unused"
             /\ manifest' = [colls |-> {c}, active |-> c]
             /\ life' = [life EXCEPT ![c] = "listed"]
    BY <1>2, <1>3, <2>2
  <2> QED BY <1>2, <2>1, <2>2
<1>6. Lists(queue', manifest', view')
  BY <1>1, <1>5 DEF Lists
<1>7. Spares(queue', reply'.then, view', life')
  <2>1. DOMAIN queue' = {} /\ queue' \in Seq(Messages)
    BY <1>1
  <2> QED BY <1>1, <1>5, <2>1, SparesAlone
<1> QED BY <1>5, <1>6, <1>7 DEF ListingInv, ManifestInv, DeletedInv

LEMMA CleanStep == ASSUME CleanInv, failures \in Nat, [Next]_vars PROVE CleanInv'
<1>1. slips \subseteq slips' /\ (slips' = {} => failures' = failures)
  BY SlipsStay
<1> QED BY <1>1 DEF CleanInv

LEMMA ListingStep ==
  ASSUME DeletionsInv, CleanInv, ListingInv, [Next]_vars
  PROVE  ListingInv'
<1> SUFFICES ASSUME Clean' PROVE ListingInv'
  BY DEF ListingInv, ManifestInv, DeletedInv
<1>1. Clean
  BY CleanBefore DEF DeletionsInv
<1>2. Sane
  BY <1>1 DEF Sane
<1>3. CASE Boot
  BY <1>1, <1>3, BootListing
<1>4. CASE Crash \/ UNCHANGED vars
  <2>1. CASE Crash
    <3>1. ~up' /\ manifest' = manifest
      BY <2>1 DEF Crash
    <3> QED BY <1>1, <3>1 DEF ListingInv, ManifestInv, DeletedInv
  <2>2. CASE UNCHANGED vars
    <3>1. UNCHANGED <<manifest, up, queue, reply, view, life, overlapped, slips>>
      BY <2>2 DEF vars, mainVars, rendererVars, historyVars
    <3> QED BY <3>1 DEF ListingInv, ManifestInv, DeletedInv, Clean
  <2> QED BY <1>4, <2>1, <2>2
<1>5. ASSUME NEW r \in Req, Edit(r) \/ AddRequest(r) \/ DeleteRequest(r) PROVE ListingInv'
  BY <1>2, <1>5, EditsListing
<1>6. ASSUME NEW c \in Coll, SelectCollection(c) \/ AddCollection(c) \/ DeleteCollection(c) PROVE ListingInv'
  BY <1>2, <1>6, CommandsListing
<1>7. CASE SetHeaders \/ TimerFires
  BY <1>2, <1>7, OthersListing
<1>8. CASE NextPatch \/ Flushed \/ Rewrite
  BY <1>2, <1>8, BatchesListing
<1>9. CASE RewriteHeaders
  BY <1>2, <1>9, NeverRewritesHeaders
<1>10. CASE SwitchSaved \/ SwitchListed \/ AddStored \/ DeleteListed
  BY <1>2, <1>10, SwitchesListing
<1>11. CASE AddSaved \/ DeleteLoaded \/ DeleteShown
  BY <1>2, <1>11, AddSavedListing, DeleteLoadedListing, DeleteShownListing
<1>12. CASE SwitchLoaded \/ AddListed
  BY <1>2, <1>12, EndsListing
<1>13. CASE ServeSave \/ ServeLoad \/ ServeManifest \/ ServeUpdate \/ ServeDelete
            \/ ServeRemove \/ ServeEnvironments
  BY <1>2, <1>13, ServesListing
<1> QED BY <1>3, <1>4, <1>5, <1>6, <1>7, <1>8, <1>9, <1>10, <1>11, <1>12, <1>13 DEF Next

LEMMA ListingInit == Init => CleanInv /\ ListingInv
<1> SUFFICES ASSUME Init PROVE CleanInv /\ ListingInv
  OBVIOUS
<1>1. failures = 0 /\ manifest.colls = {} /\ ~up
  BY DEF Init
<1> QED BY <1>1 DEF CleanInv, ListingInv, ManifestInv, DeletedInv

-----------------------------------------------------------------------------
(* What the user did reaches the disk *)

\* The version of r that is due: what r should be, w being what is wanted and h where each
\* request was made.  Its collection is there.
Due(w, h, r) == w[h[r]].items[r]
There(l, h, r) == h[r] # 0 /\ l[h[r]] # "deleted"

\* The window shows what is wanted.  The edits that wait are the newest, and the mirror has no
\* older version of what it has, or the newest waits.
WindowTells(v, mi, p, w, h, l) ==
  /\ v.items = w[v.shown].items
  /\ \A c \in Coll : HomelyItems(w[c].items, c, h)
  /\ \A r \in Req : p[r] > 0 => h[r] # 0 /\ p[r] = Due(w, h, r)
  /\ \A r \in Req : There(l, h, r) /\ h[r] = mi.active =>
       mi.items[r] \in {0, Due(w, h, r)} \/ (p[r] > 0 /\ p[r] = Due(w, h, r))

\* What a message, and who goes on after it, may be about.
MessageFits(m, w, h, l) ==
  /\ m.op = "save" => l[m.coll] # "unused"
  /\ m.op = "update" => m.version > 0 /\ h[m.req] # 0
  /\ m.op = "delete" => h[m.req] # 0 /\ Due(w, h, m.req) = 0
BatchFits(t, w, h, s) ==
  t.step = "batch" => \A r \in Req : t.patches[r] > 0 =>
    /\ h[r] # 0
    /\ Due(w, h, r) = 0 \/ t.patches[r] <= Due(w, h, r)
    /\ t.then # Ends /\ h[r] # s => Due(w, h, r) \in {0, t.patches[r]}
ThenFits(t, p, w, h, s, l) ==
  /\ BatchFits(t, w, h, s)
  /\ Core(t).step \in {"switchSaved", "switchListed", "switchLoaded", "deleteLoaded"} =>
       \A r \in Req : p[r] > 0 => h[r] # Core(t).coll
  /\ Core(t).step \in {"addStored", "addSaved", "addListed"} =>
       Core(t).coll # s /\ \A r \in Req : h[r] # Core(t).coll
  /\ t.step = "rewrite" => t.then.step = "addStored" /\ t.then.coll = t.coll /\ l[t.coll] # "unused"
QueueFits(q, t, p, w, h, s, l) ==
  /\ \A i \in DOMAIN q : MessageFits(q[i], w, h, l) /\ ThenFits(q[i].then, p, w, h, s, l)
  /\ ThenFits(t, p, w, h, s, l)

\* What is sent after a collection is saved, or its load, leaves it alone until it is shown; and
\* what is rewritten is not saved.
Arriving(t) == t.step \in {"switchSaved", "switchListed", "switchLoaded", "deleteLoaded"}
LeavesAlone(m, c, h) ==
  /\ m.op = "save" => m.coll # c
  /\ m.op = "update" => h[m.req] # c
  /\ m.then.step = "batch" => \A r \in Req : m.then.patches[r] > 0 => h[r] # c
Arrivals(q, t, h) ==
  /\ \A i, j \in DOMAIN q : i < j /\ Arriving(q[i].then) => LeavesAlone(q[j], q[i].then.coll, h)
  /\ Arriving(t) => \A j \in DOMAIN q : LeavesAlone(q[j], t.coll, h)
Unsaved(q, t) == t.step = "rewrite" => \A j \in DOMAIN q : q[j].op = "save" => q[j].coll # t.coll
RewritesAlone(q, t) == Unsaved(q, t) /\ \A i \in DOMAIN q : Unsaved(q, q[i].then)

\* What was loaded is what there is.
AnswerTells == reply.then.step \in {"switchLoaded", "deleteLoaded", "rewrite"} =>
                 reply.data = Content(reply.then.coll)

\* Every request and every header comes.
RequestsCome(q, t, p, ds, w, h, l) ==
  \A r \in Req : There(l, h, r) => RequestComes(q, t, p, ds[h[r]], r, h[r], Due(w, h, r))
AllHeadersCome(q, ds, w, l) ==
  \A c \in Coll : l[c] # "deleted" => HeadersCome(q, ds[c], c, w[c].headers)

Reached ==
  /\ WindowTells(view, mirror, pending, wanted, home, life)
  /\ QueueFits(queue, reply.then, pending, wanted, home, view.shown, life)
  /\ Arrivals(queue, reply.then, home)
  /\ RewritesAlone(queue, reply.then)
  /\ AnswerTells
  /\ RequestsCome(queue, reply.then, pending, dirs, wanted, home, life)
  /\ AllHeadersCome(queue, dirs, wanted, life)
ReachInv == Clean => (IF up THEN Reached ELSE pending = Nothing)

\* What changes as the window s stays: what is wanted of the requests made is so still, or is
\* nothing, or is newer and shown; a request is made where the window is; edits wait of what is
\* shown; and collections once used stay so.
Evolves(p, w, h, s, l, p2, w2, h2, l2) ==
  /\ \A r \in Req :
       /\ h[r] # 0 => /\ h2[r] = h[r]
                      /\ \/ Due(w2, h2, r) \in {0, Due(w, h, r)}
                         \/ h[r] = s /\ Due(w, h, r) > 0 /\ Due(w2, h2, r) >= Due(w, h, r)
       /\ h[r] = 0 => h2[r] \in {0, s}
       /\ p2[r] > 0 => (p[r] > 0 /\ h[r] # 0) \/ h2[r] = s
  /\ \A c \in Coll : l[c] # "unused" => l2[c] # "unused"

LEMMA DueTypes ==
  ASSUME NEW w \in [Coll -> Contents], NEW h \in [Req -> Coll \cup {0}], NEW r \in Req, h[r] # 0
  PROVE  h[r] \in Coll /\ Due(w, h, r) \in Versions /\ Due(w, h, r) \in Nat
<1>1. h[r] \in Coll
  OBVIOUS
<1>2. w[h[r]].items \in Items
  BY <1>1 DEF Contents
<1> QED BY <1>1, <1>2, BoundFacts DEF Due, Items

LEMMA MessageKeeps ==
  ASSUME NEW m \in Messages, NEW p, NEW w, NEW h, NEW s, NEW l, NEW p2, NEW w2, NEW h2, NEW l2,
         Evolves(p, w, h, s, l, p2, w2, h2, l2),
         w \in [Coll -> Contents], h \in [Req -> Coll \cup {0}],
         MessageFits(m, w, h, l)
  PROVE  MessageFits(m, w2, h2, l2)
<1>1. m.op = "save" => l2[m.coll] # "unused"
  BY MessageTypes DEF MessageFits, Evolves
<1>2. m.op = "update" => m.version > 0 /\ h2[m.req] # 0
  BY MessageTypes DEF MessageFits, Evolves
<1>3. m.op = "delete" => h2[m.req] # 0 /\ Due(w2, h2, m.req) = 0
  BY MessageTypes DEF MessageFits, Evolves
<1> QED BY <1>1, <1>2, <1>3 DEF MessageFits

LEMMA BatchKeeps ==
  ASSUME NEW t \in Thens, NEW p, NEW w, NEW h, NEW s, NEW l, NEW p2, NEW w2, NEW h2, NEW l2,
         Evolves(p, w, h, s, l, p2, w2, h2, l2),
         w \in [Coll -> Contents], h \in [Req -> Coll \cup {0}],
         w2 \in [Coll -> Contents], h2 \in [Req -> Coll \cup {0}],
         BatchFits(t, w, h, s)
  PROVE  BatchFits(t, w2, h2, s)
<1> SUFFICES ASSUME t.step = "batch", NEW r \in Req, t.patches[r] > 0
             PROVE  /\ h2[r] # 0
                    /\ Due(w2, h2, r) = 0 \/ t.patches[r] <= Due(w2, h2, r)
                    /\ t.then # Ends /\ h2[r] # s => Due(w2, h2, r) \in {0, t.patches[r]}
  BY DEF BatchFits
<1> DEFINE a == t.patches[r]
           d == Due(w, h, r)
           e == Due(w2, h2, r)
<1>1. /\ d = 0 \/ a <= d
      /\ h[r] # 0
      /\ t.then # Ends /\ h[r] # s => d \in {0, a}
  BY DEF BatchFits
<1>2. h2[r] = h[r] /\ (e \in {0, d} \/ (h[r] = s /\ d > 0 /\ e >= d))
  BY <1>1 DEF Evolves
<1>3. a \in Nat /\ d \in Nat /\ e \in Nat
  <2>1. t.patches \in Items
    BY ThenTypes
  <2> QED BY <2>1, <1>1, <1>2, DueTypes, BoundFacts DEF Items
<1> HIDE DEF a, d, e
<1>4. e = 0 \/ a <= e
  BY <1>1, <1>2, <1>3
<1>5. t.then # Ends /\ h2[r] # s => e \in {0, a}
  BY <1>1, <1>2
<1> QED BY <1>1, <1>2, <1>4, <1>5 DEF a, e

LEMMA ThenKeeps ==
  ASSUME NEW t \in Thens, NEW p, NEW w, NEW h, NEW s, NEW l, NEW p2, NEW w2, NEW h2, NEW l2,
         Evolves(p, w, h, s, l, p2, w2, h2, l2), ThenAway(t, s),
         w \in [Coll -> Contents], h \in [Req -> Coll \cup {0}],
         w2 \in [Coll -> Contents], h2 \in [Req -> Coll \cup {0}],
         ThenFits(t, p, w, h, s, l)
  PROVE  ThenFits(t, p2, w2, h2, s, l2)
<1>1. BatchFits(t, w2, h2, s)
  BY BatchKeeps DEF ThenFits
<1>2. ASSUME Core(t).step \in {"switchSaved", "switchListed", "switchLoaded", "deleteLoaded"},
             NEW r \in Req, p2[r] > 0
      PROVE  h2[r] # Core(t).coll
  <2>1. Core(t).coll # s
    BY <1>2 DEF ThenAway
  <2>2. p[r] > 0 => h[r] # Core(t).coll
    BY <1>2 DEF ThenFits
  <2> QED BY <1>2, <2>1, <2>2 DEF Evolves
<1>3. ASSUME Core(t).step \in {"addStored", "addSaved", "addListed"}
      PROVE  Core(t).coll # s /\ \A r \in Req : h2[r] # Core(t).coll
  <2>1. Core(t).coll # s /\ \A r \in Req : h[r] # Core(t).coll
    BY <1>3 DEF ThenFits
  <2>2. Core(t) \in Thens
    BY ThenTypes, StepsOf DEF Core
  <2>3. Core(t).coll \in Coll
    BY <1>3, <2>2, ThenTypes
  <2> QED BY <2>1, <2>3, BoundFacts DEF Evolves
<1>4. t.step = "rewrite" => t.then.step = "addStored" /\ t.then.coll = t.coll /\ l2[t.coll] # "unused"
  BY ThenTypes DEF ThenFits, Evolves
<1> QED BY <1>1, <1>2, <1>3, <1>4 DEF ThenFits

\* Whoever is no handler does not mind what is shown.
LEMMA QuietFits ==
  ASSUME NEW t \in Thens, ~OfCollections(t), NEW p, NEW w, NEW h, NEW s, NEW l, NEW p2, NEW s2, NEW l2,
         ThenFits(t, p, w, h, s, l)
  PROVE  ThenFits(t, p2, w, h, s2, l2)
<1>1. Core(t) = Ends /\ t.step \in {"ends", "batch"} /\ Ends.step = "ends"
  BY QuietCore, StepsOf
<1>2. t.step = "batch" => t.then = Ends
  BY <1>1 DEF Core
<1> QED BY <1>1, <1>2 DEF ThenFits, BatchFits

LEMMA EndsFits == \A p, w, h, s, l : ThenFits(Ends, p, w, h, s, l)
<1>1. Ends.step = "ends" /\ Core(Ends) = Ends
  BY StepsOf DEF Core
<1> QED BY <1>1 DEF ThenFits, BatchFits

LEMMA LeavesKept ==
  ASSUME NEW m \in Messages, NEW w, NEW h, NEW s, NEW l, NEW p, MessageFits(m, w, h, l),
         ThenFits(m.then, p, w, h, s, l), NEW h2, \A r \in Req : h[r] # 0 => h2[r] = h[r],
         NEW c, LeavesAlone(m, c, h)
  PROVE  LeavesAlone(m, c, h2)
<1>1. m.op = "update" => h2[m.req] # c
  BY MessageTypes DEF MessageFits, LeavesAlone
<1>2. m.then.step = "batch" => \A r \in Req : m.then.patches[r] > 0 => h2[r] # c
  BY DEF ThenFits, BatchFits, LeavesAlone
<1> QED BY <1>1, <1>2 DEF LeavesAlone

\* The messages on their way, and who waits for them, as the window goes on.
LEMMA QueueKeeps ==
  ASSUME NEW q \in Seq(Messages), NEW t, NEW p, NEW w, NEW h, NEW s, NEW l, NEW p2, NEW w2, NEW h2, NEW s2, NEW l2,
         QueueFits(q, t, p, w, h, s, l), Evolves(p, w, h, s, l, p2, w2, h2, l2),
         w \in [Coll -> Contents], h \in [Req -> Coll \cup {0}],
         w2 \in [Coll -> Contents], h2 \in [Req -> Coll \cup {0}],
         \A i \in DOMAIN q : ThenAway(q[i].then, s),
         s2 = s \/ (w2 = w /\ h2 = h /\ \A i \in DOMAIN q : ~OfCollections(q[i].then))
  PROVE  \A i \in DOMAIN q : MessageFits(q[i], w2, h2, l2) /\ ThenFits(q[i].then, p2, w2, h2, s2, l2)
<1> SUFFICES ASSUME NEW i \in DOMAIN q
             PROVE  MessageFits(q[i], w2, h2, l2) /\ ThenFits(q[i].then, p2, w2, h2, s2, l2)
  OBVIOUS
<1>1. q[i] \in Messages /\ q[i].then \in Thens /\ MessageFits(q[i], w, h, l) /\ ThenFits(q[i].then, p, w, h, s, l)
  BY MessageTypes DEF QueueFits
<1>2. MessageFits(q[i], w2, h2, l2)
  BY <1>1, MessageKeeps
<1>3. ThenFits(q[i].then, p2, w2, h2, s2, l2)
  <2>1. CASE s2 = s
    BY <1>1, <2>1, ThenKeeps
  <2>2. CASE w2 = w /\ h2 = h /\ \A j \in DOMAIN q : ~OfCollections(q[j].then)
    BY <1>1, <2>2, QuietFits
  <2> QED BY <2>1, <2>2
<1> QED BY <1>2, <1>3

LEMMA QueueGrowsFit ==
  ASSUME NEW q \in Seq(Messages), NEW m \in Messages, NEW p, NEW w, NEW h, NEW s, NEW l,
         \A i \in DOMAIN q : MessageFits(q[i], w, h, l) /\ ThenFits(q[i].then, p, w, h, s, l),
         MessageFits(m, w, h, l), ThenFits(m.then, p, w, h, s, l)
  PROVE  QueueFits(Append(q, m), Ends, p, w, h, s, l)
<1> DEFINE n == Append(q, m)
<1>1. /\ DOMAIN n = DOMAIN q \cup {Len(q) + 1} /\ n[Len(q) + 1] = m
      /\ \A i \in DOMAIN q : n[i] = q[i]
  BY Appended
<1> HIDE DEF n
<1> QED BY <1>1, EndsFits DEF QueueFits, n

LEMMA ArrivalsGrow ==
  ASSUME NEW q \in Seq(Messages), NEW m \in Messages, NEW t, NEW p, NEW w, NEW h, NEW s, NEW l, NEW h2,
         QueueFits(q, t, p, w, h, s, l), Arrivals(q, t, h), \A r \in Req : h[r] # 0 => h2[r] = h[r],
         \A i \in DOMAIN q : Arriving(q[i].then) => LeavesAlone(m, q[i].then.coll, h2)
  PROVE  Arrivals(Append(q, m), Ends, h2)
<1> DEFINE n == Append(q, m)
<1>1. /\ DOMAIN n = DOMAIN q \cup {Len(q) + 1} /\ n[Len(q) + 1] = m
      /\ \A i \in DOMAIN q : n[i] = q[i] /\ i < Len(q) + 1 /\ i \in Nat
  <2>1. \A i \in DOMAIN q : i < Len(q) + 1 /\ i \in Nat
    OBVIOUS
  <2> QED BY <2>1, Appended
<1>2. Ends.step = "ends" /\ Len(q) \in Nat
  BY StepsOf
<1> HIDE DEF n
<1> SUFFICES ASSUME NEW i \in DOMAIN n, NEW j \in DOMAIN n, i < j, Arriving(n[i].then)
             PROVE  LeavesAlone(n[j], n[i].then.coll, h2)
  BY <1>2 DEF Arrivals, Arriving, n
<1>3. i \in DOMAIN q /\ n[i] = q[i]
  BY <1>1, <1>2
<1>4. CASE j \in DOMAIN q
  <2>1. /\ n[j] = q[j] /\ q[j] \in Messages /\ LeavesAlone(q[j], q[i].then.coll, h)
        /\ MessageFits(q[j], w, h, l) /\ ThenFits(q[j].then, p, w, h, s, l)
    BY <1>1, <1>3, <1>4 DEF Arrivals, QueueFits
  <2> QED BY <1>3, <2>1, LeavesKept
<1>5. CASE j = Len(q) + 1
  BY <1>1, <1>3, <1>5
<1> QED BY <1>1, <1>4, <1>5

LEMMA RewritesGrow ==
  ASSUME NEW q \in Seq(Messages), NEW m \in Messages, NEW t, RewritesAlone(q, t),
         m.op = "save" => \A i \in DOMAIN q : q[i].then.step = "rewrite" => m.coll # q[i].then.coll,
         m.then.step = "rewrite" => m.op # "save" /\ \A i \in DOMAIN q : q[i].op = "save" => q[i].coll # m.then.coll
  PROVE  RewritesAlone(Append(q, m), Ends)
<1> DEFINE n == Append(q, m)
<1>1. /\ DOMAIN n = DOMAIN q \cup {Len(q) + 1} /\ n[Len(q) + 1] = m
      /\ \A i \in DOMAIN q : n[i] = q[i]
  BY Appended
<1>2. Ends.step = "ends" /\ (m.op = "save" => m.then.step # "rewrite")
  BY StepsOf, MessageTypes
<1> HIDE DEF n
<1>3. \A i \in DOMAIN n : Unsaved(n, n[i].then)
  <2> SUFFICES ASSUME NEW i \in DOMAIN n, n[i].then.step = "rewrite", NEW j \in DOMAIN n, n[j].op = "save"
               PROVE  n[j].coll # n[i].then.coll
    BY DEF Unsaved
  <2>1. CASE i \in DOMAIN q /\ j \in DOMAIN q
    BY <1>1, <2>1 DEF RewritesAlone, Unsaved
  <2>2. CASE i \in DOMAIN q /\ j \notin DOMAIN q
    BY <1>1, <2>2
  <2>3. CASE i \notin DOMAIN q
    BY <1>1, <1>2, <2>3
  <2> QED BY <2>1, <2>2, <2>3
<1> QED BY <1>2, <1>3 DEF RewritesAlone, Unsaved, n

\* What m does to a request r of c whose version w is due, while t goes on or the edits p are sent.
Follows(m, t, p, p2, c, r, w) ==
  /\ m.op = "save" /\ m.coll = c => (m.items[r] > 0 <=> w > 0)
  /\ w > 0 => \/ p2[r] = w \/ Carried(m.then, r, w) \/ m \in Writes(c, r, w)
              \/ m \in WritesOnly(c, r, w) /\ (p[r] = w => p2[r] = w) /\ ~Carried(t, r, w)

LEMMA RequestFollows ==
  ASSUME NEW q \in Seq(Messages), NEW m \in Messages, NEW t, NEW p, NEW p2, NEW d \in Directories, NEW r \in Req,
         NEW c, NEW w, RequestComes(q, t, p, d, r, c, w), Follows(m, t, p, p2, c, r, w)
  PROVE  RequestComes(Append(q, m), Ends, p2, d, r, c, w)
<1> DEFINE n == Append(q, m)
<1>1. /\ DOMAIN n = DOMAIN q \cup {Len(q) + 1} /\ n[Len(q) + 1] = m
      /\ \A i \in DOMAIN q : n[i] = q[i]
  BY Appended
<1>2. PresenceComes(Append(q, m), d, r, c, w)
  <2>1. m \in PutsOnly(c, r, w)
    BY DEF PutsOnly, Follows
  <2>2. PresenceComes(q, d, r, c, w)
    BY DEF RequestComes
  <2>3. (HoldsIn(d, r) > 0 <=> w > 0) \in BOOLEAN
    OBVIOUS
  <2> QED BY <2>1, <2>2, <2>3, ComesSpared DEF PresenceComes
<1>3. ASSUME w > 0 PROVE Waits(Append(q, m), Ends, p2, r, w) \/ VersionComes(Append(q, m), d, r, c, w)
  <2>0. (HoldsIn(d, r) = w) \in BOOLEAN
    OBVIOUS
  <2>1. CASE p2[r] = w \/ Carried(m.then, r, w)
    BY <1>1, <2>1 DEF Waits
  <2>2. CASE m \in Writes(c, r, w)
    BY <2>0, <2>2, ComesSet DEF VersionComes
  <2>3. CASE m \in WritesOnly(c, r, w) /\ (p[r] = w => p2[r] = w) /\ ~Carried(t, r, w)
    <3>1. CASE VersionComes(q, d, r, c, w)
      BY <2>0, <2>3, <3>1, ComesSpared DEF VersionComes
    <3>2. CASE Waits(q, t, p, r, w)
      BY <1>1, <2>3, <3>2 DEF Waits
    <3> QED BY <1>3, <3>1, <3>2 DEF RequestComes
  <2> QED BY <1>3, <2>1, <2>2, <2>3 DEF Follows
<1> QED BY <1>2, <1>3 DEF RequestComes

LEMMA HeadersFollow ==
  ASSUME NEW q \in Seq(Messages), NEW m \in Messages, NEW d \in Directories, NEW c, NEW k,
         HeadersCome(q, d, c, k), m.op = "save" /\ m.coll = c => m.headers = k
  PROVE  HeadersCome(Append(q, m), d, c, k)
<1>1. m \in HeadsOnly(c, k) /\ (d.headers = k) \in BOOLEAN
  BY DEF HeadsOnly
<1> QED BY <1>1, ComesSpared DEF HeadersCome

\* The window with an edit or less in wait, or with what it has loaded, tells still.
LEMMA WindowStays ==
  ASSUME NEW v, NEW mi, NEW p, NEW w, NEW h, NEW l, NEW v2, NEW mi2, NEW p2, NEW l2,
         WindowTells(v, mi, p, w, h, l), v2.items = w[v2.shown].items,
         p2 \in {p, Nothing}, \A c \in Coll : l2[c] # "deleted" => l[c] # "deleted",
         h \in [Req -> Coll \cup {0}],
         \/ mi2.items = w[mi2.active].items
         \/ mi2.items = Nothing
         \/ mi2.items = mi.items /\ mi2.active = mi.active /\ (p2 = p \/ l2[mi.active] = "deleted")
  PROVE  WindowTells(v2, mi2, p2, w, h, l2)
<1>1. \A r \in Req : p2[r] > 0 => p2 = p
  BY DEF Nothing
<1>2. \A r \in Req : p2[r] > 0 => h[r] # 0 /\ p2[r] = Due(w, h, r)
  BY <1>1 DEF WindowTells
<1>3. ASSUME NEW r \in Req, There(l2, h, r), h[r] = mi2.active
      PROVE  mi2.items[r] \in {0, Due(w, h, r)} \/ (p2[r] > 0 /\ p2[r] = Due(w, h, r))
  <2>1. There(l, h, r) /\ h[r] \in Coll
    BY <1>3 DEF There
  <2>2. CASE mi2.items = w[mi2.active].items
    BY <1>3, <2>2 DEF Due
  <2>3. CASE mi2.items = Nothing
    BY <2>3 DEF Nothing
  <2>4. CASE mi2.items = mi.items /\ mi2.active = mi.active /\ (p2 = p \/ l2[mi.active] = "deleted")
    BY <1>3, <2>1, <2>4 DEF WindowTells, There
  <2> QED BY <2>2, <2>3, <2>4
<1> QED BY <1>2, <1>3 DEF WindowTells

\* The facts at hand while the window is sane.
LEMMA ReachedFacts ==
  ASSUME Sane, ReachInv, up
  PROVE  /\ Reached /\ queue \in Seq(Messages) /\ Apart
         /\ \A i \in DOMAIN queue : queue[i] \in Messages /\ queue[i].then \in Thens
         /\ \A i \in DOMAIN queue : ThenAway(queue[i].then, view.shown)
         /\ reply.then \in Thens /\ ThenAway(reply.then, view.shown)
         /\ wanted \in [Coll -> Contents] /\ home \in [Req -> Coll \cup {0}] /\ dirs \in [Coll -> Directories]
         /\ pending \in Items /\ view.shown \in Coll /\ view.shown # 0
BY CleanFacts, BoundFacts DEF Sane, ReachInv, Apart

LEMMA StillEvolves ==
  ASSUME NEW p, NEW w, NEW h, NEW s, NEW l, NEW p2, NEW l2, p2 \in {p, Nothing},
         \A r \in Req : p[r] > 0 => h[r] # 0,
         \A c \in Coll : l[c] # "unused" => l2[c] # "unused"
  PROVE  Evolves(p, w, h, s, l, p2, w, h, l2)
BY DEF Evolves, Nothing

\* A message joins the queue, while what is wanted stays so.
LEMMA SendsReach ==
  ASSUME Sane, ReachInv, up, up', UNCHANGED <<wanted, home, dirs>>, reply' = NoReply,
         NEW m \in Messages, queue' = Append(queue, m),
         view'.shown = view.shown \/ \A i \in DOMAIN queue : ~OfCollections(queue[i].then),
         view'.items = wanted[view'.shown].items,
         pending' \in {pending, Nothing},
         \A c \in Coll : /\ life[c] # "unused" => life'[c] # "unused"
                         /\ life'[c] # "deleted" => life[c] # "deleted",
         \/ mirror'.items = wanted[mirror'.active].items
         \/ mirror'.items = Nothing
         \/ /\ mirror'.items = mirror.items /\ mirror'.active = mirror.active
            /\ pending' = pending \/ life'[mirror.active] = "deleted",
         MessageFits(m, wanted, home, life'),
         ThenFits(m.then, pending', wanted, home, view'.shown, life'),
         \A i \in DOMAIN queue : Arriving(queue[i].then) => LeavesAlone(m, queue[i].then.coll, home),
         m.op = "save" => \A i \in DOMAIN queue : queue[i].then.step = "rewrite" => m.coll # queue[i].then.coll,
         m.then.step = "rewrite" =>
           m.op # "save" /\ \A i \in DOMAIN queue : queue[i].op = "save" => queue[i].coll # m.then.coll,
         \A r \in Req : There(life', home, r) =>
           Follows(m, reply.then, pending, pending', home[r], r, Due(wanted, home, r)),
         m.op = "save" /\ life'[m.coll] # "deleted" => m.headers = wanted[m.coll].headers
  PROVE  ReachInv'
<1>1. /\ Reached /\ queue \in Seq(Messages) /\ wanted \in [Coll -> Contents]
      /\ home \in [Req -> Coll \cup {0}] /\ dirs \in [Coll -> Directories]
      /\ \A i \in DOMAIN queue : ThenAway(queue[i].then, view.shown)
  BY ReachedFacts
<1>2. /\ WindowTells(view, mirror, pending, wanted, home, life)
      /\ QueueFits(queue, reply.then, pending, wanted, home, view.shown, life)
      /\ Arrivals(queue, reply.then, home) /\ RewritesAlone(queue, reply.then)
      /\ RequestsCome(queue, reply.then, pending, dirs, wanted, home, life)
      /\ AllHeadersCome(queue, dirs, wanted, life)
  BY <1>1 DEF Reached
<1>3. WindowTells(view', mirror', pending', wanted, home, life')
  BY <1>1, <1>2, WindowStays
<1>4. Evolves(pending, wanted, home, view.shown, life, pending', wanted, home, life')
  BY <1>2, StillEvolves DEF WindowTells
<1>5. \A i \in DOMAIN queue : MessageFits(queue[i], wanted, home, life')
        /\ ThenFits(queue[i].then, pending', wanted, home, view'.shown, life')
  BY <1>1, <1>2, <1>4, QueueKeeps
<1>6. QueueFits(queue', Ends, pending', wanted, home, view'.shown, life')
  BY <1>1, <1>5, QueueGrowsFit
<1>7. Arrivals(queue', Ends, home)
  BY <1>1, <1>2, ArrivalsGrow
<1>8. RewritesAlone(queue', Ends)
  BY <1>1, <1>2, RewritesGrow
<1>9. RequestsCome(queue', Ends, pending', dirs, wanted, home, life')
  <2> SUFFICES ASSUME NEW r \in Req, There(life', home, r)
               PROVE  RequestComes(queue', Ends, pending', dirs[home[r]], r, home[r], Due(wanted, home, r))
    BY DEF RequestsCome
  <2>1. home[r] \in Coll /\ There(life, home, r) /\ dirs[home[r]] \in Directories
    BY <1>1 DEF There
  <2>2. RequestComes(queue, reply.then, pending, dirs[home[r]], r, home[r], Due(wanted, home, r))
    BY <1>2, <2>1 DEF RequestsCome
  <2> QED BY <1>1, <2>1, <2>2, RequestFollows
<1>10. AllHeadersCome(queue', dirs, wanted, life')
  <2> SUFFICES ASSUME NEW c \in Coll, life'[c] # "deleted"
               PROVE  HeadersCome(queue', dirs[c], c, wanted[c].headers)
    BY DEF AllHeadersCome
  <2>1. HeadersCome(queue, dirs[c], c, wanted[c].headers) /\ dirs[c] \in Directories
    BY <1>1, <1>2 DEF AllHeadersCome
  <2> QED BY <1>1, <2>1, HeadersFollow
<1>11. reply'.then = Ends /\ Ends.step = "ends"
  BY BoundFacts, StepsOf
<1>12. AnswerTells'
  BY <1>11 DEF AnswerTells
<1>13. Reached'
  BY <1>3, <1>6, <1>7, <1>8, <1>9, <1>10, <1>11, <1>12 DEF Reached
<1> QED BY <1>13 DEF ReachInv

\* A message joins a queue without a handler in it.
LEMMA AloneSends ==
  ASSUME Sane, ReachInv, up, up', UNCHANGED <<wanted, home, dirs>>, reply' = NoReply,
         NEW m \in Messages, queue' = Append(queue, m),
         \A i \in DOMAIN queue : ~OfCollections(queue[i].then),
         view'.items = wanted[view'.shown].items,
         pending' \in {pending, Nothing},
         \A c \in Coll : /\ life[c] # "unused" => life'[c] # "unused"
                         /\ life'[c] # "deleted" => life[c] # "deleted",
         \/ mirror'.items = wanted[mirror'.active].items
         \/ mirror'.items = Nothing
         \/ /\ mirror'.items = mirror.items /\ mirror'.active = mirror.active
            /\ pending' = pending \/ life'[mirror.active] = "deleted",
         MessageFits(m, wanted, home, life'),
         ThenFits(m.then, pending', wanted, home, view'.shown, life'),
         m.then.step = "rewrite" =>
           m.op # "save" /\ \A i \in DOMAIN queue : queue[i].op = "save" => queue[i].coll # m.then.coll,
         \A r \in Req : There(life', home, r) =>
           Follows(m, reply.then, pending, pending', home[r], r, Due(wanted, home, r)),
         m.op = "save" /\ life'[m.coll] # "deleted" => m.headers = wanted[m.coll].headers
  PROVE  ReachInv'
<1>1. \A i \in DOMAIN queue : queue[i].then \in Thens
  BY ReachedFacts
<1>2. \A i \in DOMAIN queue : queue[i].then.step \in {"ends", "batch"}
  BY <1>1, QuietCore
<1>3. \A i \in DOMAIN queue : ~Arriving(queue[i].then) /\ queue[i].then.step # "rewrite"
  BY <1>2 DEF Arriving
<1> QED BY <1>3, SendsReach

\* No message joins the queue.
LEMMA EndsReach ==
  ASSUME Sane, ReachInv, up, up', UNCHANGED <<wanted, home, dirs, queue, life>>, reply' = NoReply,
         view'.shown = view.shown \/ \A i \in DOMAIN queue : ~OfCollections(queue[i].then),
         view'.items = wanted[view'.shown].items,
         pending' = pending,
         \/ mirror'.items = wanted[mirror'.active].items
         \/ mirror'.items = mirror.items /\ mirror'.active = mirror.active,
         reply.then.step # "batch"
  PROVE  ReachInv'
<1>1. /\ Reached /\ queue \in Seq(Messages) /\ wanted \in [Coll -> Contents]
      /\ home \in [Req -> Coll \cup {0}] /\ dirs \in [Coll -> Directories]
      /\ \A i \in DOMAIN queue : ThenAway(queue[i].then, view.shown)
  BY ReachedFacts
<1>2. /\ WindowTells(view, mirror, pending, wanted, home, life)
      /\ QueueFits(queue, reply.then, pending, wanted, home, view.shown, life)
      /\ Arrivals(queue, reply.then, home) /\ RewritesAlone(queue, reply.then)
      /\ RequestsCome(queue, reply.then, pending, dirs, wanted, home, life)
      /\ AllHeadersCome(queue, dirs, wanted, life)
  BY <1>1 DEF Reached
<1>3. WindowTells(view', mirror', pending', wanted, home, life')
  BY <1>1, <1>2, WindowStays
<1>4. Evolves(pending, wanted, home, view.shown, life, pending', wanted, home, life')
  BY <1>2, StillEvolves DEF WindowTells
<1>5. \A i \in DOMAIN queue : MessageFits(queue[i], wanted, home, life')
        /\ ThenFits(queue[i].then, pending', wanted, home, view'.shown, life')
  BY <1>1, <1>2, <1>4, QueueKeeps
<1>6. QueueFits(queue', Ends, pending', wanted, home, view'.shown, life')
  BY <1>5, EndsFits DEF QueueFits
<1>7. Ends.step = "ends" /\ reply'.then = Ends
  BY BoundFacts, StepsOf
<1>8. Arrivals(queue', Ends, home) /\ RewritesAlone(queue', Ends)
  BY <1>2, <1>7 DEF Arrivals, RewritesAlone, Unsaved, Arriving
<1>9. RequestsCome(queue', Ends, pending', dirs, wanted, home, life')
  BY <1>2 DEF RequestsCome, RequestComes, Waits, Carried
<1>10. AnswerTells'
  BY <1>7 DEF AnswerTells
<1>11. Reached'
  BY <1>2, <1>3, <1>6, <1>7, <1>8, <1>9, <1>10 DEF Reached
<1> QED BY <1>11 DEF ReachInv

\* The patches p, sent for who goes on as t, are old or the newest.
PatchesFit(p, t, w, h, s) ==
  \A r \in Req : p[r] > 0 => /\ h[r] # 0
                             /\ Due(w, h, r) = 0 \/ p[r] <= Due(w, h, r)
                             /\ t # Ends /\ h[r] # s => Due(w, h, r) \in {0, p[r]}

\* A patch on its way fits.
LEMMA PatchFits ==
  ASSUME NEW m \in Messages, NEW r, NEW p \in Items, NEW t \in {Ends} \cup AfterSave, Patch(m, r, p, t),
         NEW w, NEW h, NEW s, NEW l, NEW p2,
         PatchesFit(p, t, w, h, s),
         t # Ends => ThenFits(t, p2, w, h, s, l)
  PROVE  MessageFits(m, w, h, l) /\ ThenFits(m.then, p2, w, h, s, l)
<1>1. MessageFits(m, w, h, l)
  BY DEF Patch, MessageFits, PatchesFit
<1>2. CASE m.then = Ends
  BY <1>1, <1>2, EndsFits
<1>3. CASE m.then \in Batches /\ m.then.then = t /\ m.then.patches = [p EXCEPT ![r] = 0]
  <2>1. m.then.step = "batch" /\ Core(m.then) = t
    BY <1>3, StepsOf DEF Core
  <2>2. \A x \in Req : m.then.patches[x] > 0 => m.then.patches[x] = p[x] /\ p[x] > 0
    BY <1>3 DEF Items
  <2>3. BatchFits(m.then, w, h, s)
    BY <1>3, <2>2 DEF BatchFits, PatchesFit
  <2>4. /\ t = Ends \/ t.step \in {"switchSaved", "addStored", "addSaved"}
        /\ Ends.step = "ends"
    BY StepsOf
  <2>5. CASE t = Ends
    BY <1>1, <2>1, <2>3, <2>4, <2>5 DEF ThenFits
  <2>6. CASE t # Ends
    <3>1. Core(t) = t
      BY <2>4, <2>6 DEF Core
    <3> QED BY <1>1, <2>1, <2>3, <2>6, <3>1 DEF ThenFits
  <2> QED BY <2>5, <2>6
<1> QED BY <1>1, <1>2, <1>3 DEF Patch

\* What a patch does to what is due: it is it, or goes on carrying it, if it was among the patches.
LEMMA PatchFollows ==
  ASSUME NEW m \in Messages, NEW r, NEW q \in Items, NEW u, Patch(m, r, q, u),
         NEW t, NEW p, NEW p2, NEW c, NEW x \in Req, NEW w \in Nat,
         w > 0 /\ q[x] # w => /\ p[x] = w => p2[x] = w
                              /\ ~Carried(t, x, w)
                              /\ x = r => p2[x] = w
  PROVE  Follows(m, t, p, p2, c, x, w)
<1>1. m.op = "update" /\ m.req = r /\ m.version = q[r] /\ r \in Req
  BY DEF Patch
<1>2. CASE w > 0 /\ q[x] = w /\ x = r
  BY <1>1, <1>2 DEF Follows, Writes
<1>3. CASE w > 0 /\ q[x] = w /\ x # r
  <2>1. m.then \in Batches /\ m.then.patches = [q EXCEPT ![r] = 0]
    BY <1>3 DEF Patch
  <2>2. m.then.step = "batch" /\ m.then.patches[x] = w
    BY <1>3, <2>1, StepsOf DEF Items
  <2> QED BY <1>1, <2>2 DEF Follows, Carried
<1>4. CASE w > 0 /\ q[x] # w
  BY <1>1, <1>4 DEF Follows, WritesOnly
<1>5. CASE ~(w > 0)
  BY <1>1, <1>5 DEF Follows
<1> QED BY <1>2, <1>3, <1>4, <1>5

\* A save of what is due of its collection, or of another.
LEMMA SaveFollows ==
  ASSUME NEW m \in Messages, m.op = "save", NEW t, NEW p, NEW p2, NEW c, NEW x \in Req, NEW w \in Nat,
         m.coll = c => m.items[x] = w,
         w > 0 /\ m.coll # c => (p[x] = w => p2[x] = w) /\ ~Carried(t, x, w)
  PROVE  Follows(m, t, p, p2, c, x, w)
BY DEF Follows, Writes, WritesOnly

LEMMA OtherFollows ==
  ASSUME NEW m \in Messages, m.op \notin {"save", "update"}, NEW t, NEW p, NEW p2, NEW c, NEW x \in Req,
         NEW w \in Nat,
         w > 0 => (p[x] = w => p2[x] = w) /\ ~Carried(t, x, w)
  PROVE  Follows(m, t, p, p2, c, x, w)
BY DEF Follows, WritesOnly

\* What the window has in wait is the newest.
LEMMA PendingFacts ==
  ASSUME Sane, ReachInv, up
  PROVE  /\ \A x \in Req : pending[x] > 0 => home[x] # 0 /\ pending[x] = Due(wanted, home, x)
         /\ \A x \in Req : home[x] # 0 => home[x] \in Coll /\ Due(wanted, home, x) \in Nat
         /\ view.items = wanted[view.shown].items
         /\ \A x \in Req : pending[x] \in Nat
<1>1. Reached /\ wanted \in [Coll -> Contents] /\ home \in [Req -> Coll \cup {0}] /\ pending \in Items
  BY ReachedFacts
<1>2. \A x \in Req : home[x] # 0 => home[x] \in Coll /\ Due(wanted, home, x) \in Nat
  BY <1>1, DueTypes
<1>3. \A x \in Req : pending[x] \in Nat
  BY <1>1, BoundFacts DEF Items
<1> QED BY <1>1, <1>2, <1>3 DEF Reached, WindowTells

LEMMA TimerReach ==
  ASSUME Sane, ReachInv, Clean', TimerFires
  PROVE  ReachInv'
<1>1. /\ up /\ up' /\ reply = NoReply /\ reply' = reply
      /\ UNCHANGED <<dirs, view, wanted, home, life>>
      /\ view.shown = mirror.active /\ mirror'.active = mirror.active /\ mirror'.items = view.items
      /\ pending' = Nothing /\ \A r \in Req : pending[r] > 0 => home[r] = view.shown
      /\ \/ pending = Nothing /\ queue' = queue
         \/ \E m \in Messages, r \in Req : queue' = Append(queue, m) /\ Patch(m, r, pending, Ends)
  BY TimerEffect
<1>2. /\ \A x \in Req : pending[x] > 0 => home[x] # 0 /\ pending[x] = Due(wanted, home, x)
      /\ \A x \in Req : home[x] # 0 => home[x] \in Coll /\ Due(wanted, home, x) \in Nat
      /\ view.items = wanted[view.shown].items
  BY <1>1, PendingFacts
<1>3. reply'.then = Ends /\ reply.then = Ends /\ Ends.step = "ends"
  BY <1>1, BoundFacts, StepsOf
<1>4. /\ \A i \in DOMAIN queue : ThenAway(queue[i].then, view.shown) /\ queue[i].then \in Thens
      /\ pending \in Items /\ view.shown # 0
  BY <1>1, ReachedFacts
<1>5. CASE pending = Nothing /\ queue' = queue
  <2>1. reply.then.step # "batch" /\ pending' = pending /\ mirror'.items = wanted[mirror'.active].items
    BY <1>1, <1>2, <1>3, <1>5
  <2> QED BY <1>1, <1>2, <1>5, <2>1, EndsReach
<1>6. CASE \E m \in Messages, r \in Req : queue' = Append(queue, m) /\ Patch(m, r, pending, Ends)
  <2>1. PICK m \in Messages, r \in Req : queue' = Append(queue, m) /\ Patch(m, r, pending, Ends)
    BY <1>6
  <2>2. PatchesFit(pending, Ends, wanted, home, view'.shown)
    <3>1. \A x \in Req : home[x] # 0 => Due(wanted, home, x) <= Due(wanted, home, x)
      BY <1>2
    <3> QED BY <1>2, <3>1 DEF PatchesFit
  <2>10. Ends \in {Ends} \cup AfterSave
    OBVIOUS
  <2>3. /\ MessageFits(m, wanted, home, life')
        /\ ThenFits(m.then, pending', wanted, home, view'.shown, life')
    BY <1>4, <2>1, <2>2, <2>10, PatchFits
  <2>4. \A i \in DOMAIN queue : Arriving(queue[i].then) => LeavesAlone(m, queue[i].then.coll, home)
    <3> SUFFICES ASSUME NEW i \in DOMAIN queue, Arriving(queue[i].then)
                 PROVE  LeavesAlone(m, queue[i].then.coll, home)
      OBVIOUS
    <3>1. queue[i].then.coll # view.shown
      BY <1>4 DEF ThenAway, Core, Arriving
    <3>2. m.op = "update" /\ m.req = r /\ pending[r] > 0 /\ r \in Req
      BY <2>1 DEF Patch
    <3>3. m.then.step = "batch" => \A x \in Req : m.then.patches[x] > 0 => pending[x] > 0
      BY <1>3, <1>4, <2>1 DEF Patch, Items
    <3> QED BY <1>1, <3>1, <3>2, <3>3 DEF LeavesAlone
  <2>5. m.op = "update" /\ m.then.step # "rewrite"
    BY <1>3, <2>1, StepsOf DEF Patch
  <2>6. \A x \in Req : There(life', home, x) =>
           Follows(m, reply.then, pending, pending', home[x], x, Due(wanted, home, x))
    <3> SUFFICES ASSUME NEW x \in Req, There(life', home, x)
                 PROVE  Follows(m, reply.then, pending, pending', home[x], x, Due(wanted, home, x))
      OBVIOUS
    <3>1. Due(wanted, home, x) \in Nat
      BY <1>2 DEF There
    <3>2. \A w : ~Carried(reply.then, x, w)
      BY <1>3 DEF Carried
    <3>3. x = r => pending[x] = Due(wanted, home, x)
      BY <1>2, <2>1 DEF Patch
    <3> QED BY <1>4, <2>1, <3>1, <3>2, <3>3, PatchFollows
  <2>7. mirror'.items = wanted[mirror'.active].items
    BY <1>1, <1>2
  <2>8. /\ reply' = NoReply /\ view'.shown = view.shown /\ view'.items = wanted[view'.shown].items
        /\ \A c \in Coll : /\ life[c] # "unused" => life'[c] # "unused"
                           /\ life'[c] # "deleted" => life[c] # "deleted"
    BY <1>1, <1>2
  <2> QED BY <1>1, <2>1, <2>3, <2>4, <2>5, <2>6, <2>7, <2>8, SendsReach
<1> QED BY <1>1, <1>5, <1>6

LEMMA NextPatchReach ==
  ASSUME Sane, ReachInv, Clean', NextPatch
  PROVE  ReachInv'
<1>1. /\ Resumed /\ KeepsWindow /\ reply.then \in Batches
      /\ \A s \in Req : reply.then.patches[s] > 0 =>
              /\ \/ reply.then.patches[s] >= wanted[view.shown].items[s]
                 \/ pending[s] >= wanted[view.shown].items[s]
              /\ reply.then.then = Ends => home[s] = view.shown
      /\ \E m \in Messages, r \in Req :
            queue' = Append(queue, m) /\ Patch(m, r, reply.then.patches, reply.then.then)
  BY NextPatchEffect
<1>2. PICK m \in Messages, r \in Req :
            queue' = Append(queue, m) /\ Patch(m, r, reply.then.patches, reply.then.then)
  BY <1>1
<1>3. /\ up /\ up' /\ UNCHANGED <<wanted, home, dirs, life, view, mirror, pending>> /\ reply' = NoReply
  BY <1>1 DEF Resumed, KeepsWindow
<1>4. /\ reply.then.step = "batch" /\ reply.then.patches \in Items /\ reply.then.then \in {Ends} \cup AfterSave
      /\ Core(reply.then) = reply.then.then /\ Ends.step = "ends" /\ reply.then \in Thens
  BY <1>1, StepsOf DEF Batches, Core
<1>5. /\ \A x \in Req : pending[x] > 0 => home[x] # 0 /\ pending[x] = Due(wanted, home, x)
      /\ \A x \in Req : home[x] # 0 => home[x] \in Coll /\ Due(wanted, home, x) \in Nat
      /\ view.items = wanted[view.shown].items
      /\ \A x \in Req : pending[x] \in Nat
  BY <1>3, PendingFacts
<1>6. /\ \A i \in DOMAIN queue : ThenAway(queue[i].then, view.shown) /\ queue[i].then \in Thens
      /\ Reached
  BY <1>3, ReachedFacts
<1>7. ThenFits(reply.then, pending, wanted, home, view.shown, life)
  BY <1>6 DEF Reached, QueueFits
<1>8. PatchesFit(reply.then.patches, reply.then.then, wanted, home, view.shown)
  BY <1>4, <1>7 DEF ThenFits, BatchFits, PatchesFit
<1>9. reply.then.then # Ends => ThenFits(reply.then.then, pending, wanted, home, view.shown, life)
  <2> SUFFICES ASSUME reply.then.then # Ends
               PROVE  ThenFits(reply.then.then, pending, wanted, home, view.shown, life)
    OBVIOUS
  <2>1. reply.then.then.step \notin {"batch", "rewrite"}
    BY <1>4, StepsOf
  <2>2. Core(reply.then.then) = reply.then.then
    BY <2>1 DEF Core
  <2> QED BY <1>4, <1>7, <2>1, <2>2 DEF ThenFits, BatchFits
<1>10. /\ MessageFits(m, wanted, home, life')
       /\ ThenFits(m.then, pending', wanted, home, view'.shown, life')
  BY <1>2, <1>3, <1>4, <1>8, <1>9, PatchFits
<1>11. m.op = "update" /\ m.req = r /\ reply.then.patches[r] > 0 /\ r \in Req /\ m.then.step # "rewrite"
  BY <1>2, <1>4, StepsOf DEF Patch
<1>12. \A i \in DOMAIN queue : Arriving(queue[i].then) => LeavesAlone(m, queue[i].then.coll, home)
  <2> SUFFICES ASSUME NEW i \in DOMAIN queue, Arriving(queue[i].then)
               PROVE  LeavesAlone(m, queue[i].then.coll, home)
    OBVIOUS
  <2>1. queue[i].then.coll # view.shown
    BY <1>6 DEF ThenAway, Core, Arriving
  <2>2. reply.then.then = Ends
    <3>1. SUFFICES ASSUME reply.then.then # Ends PROVE FALSE
      OBVIOUS
    <3>2. Resume("batch")
      BY DEF NextPatch
    <3>3. HandlerAlone
      BY <3>1, <3>2, ResumeEffect
    <3>4. ~OfCollections(queue[i].then)
      BY <3>3 DEF HandlerAlone
    <3>5. queue[i].then.step \in {"ends", "batch"}
      BY <1>6, <3>4, QuietCore
    <3> QED BY <3>5 DEF Arriving
  <2>3. m.then.step = "batch" => \A x \in Req : m.then.patches[x] > 0 => reply.then.patches[x] > 0
    BY <1>2, <1>4 DEF Patch, Items
  <2> QED BY <1>1, <1>11, <2>1, <2>2, <2>3 DEF LeavesAlone
<1>13. \A x \in Req : There(life', home, x) =>
         Follows(m, reply.then, pending, pending', home[x], x, Due(wanted, home, x))
  <2> SUFFICES ASSUME NEW x \in Req, There(life', home, x)
               PROVE  Follows(m, reply.then, pending, pending', home[x], x, Due(wanted, home, x))
    OBVIOUS
  <2> DEFINE W == Due(wanted, home, x)
  <2>1. W \in Nat /\ home[x] # 0
    BY <1>5 DEF There
  <2>2. reply.then.patches[x] # W => ~Carried(reply.then, x, W)
    BY DEF Carried
  <2>3. ASSUME W > 0, reply.then.patches[x] # W, x = r PROVE pending[x] = W
    <3>1. reply.then.patches[x] > 0 /\ reply.then.patches[x] \in Nat
      BY <1>4, <1>11, <2>3, BoundFacts DEF Items
    <3>2. reply.then.patches[x] < W
      BY <1>8, <2>1, <2>3, <3>1 DEF PatchesFit
    <3>3. home[x] = view.shown
      BY <1>1, <1>8, <2>1, <2>3, <3>1 DEF PatchesFit
    <3>4. W = wanted[view.shown].items[x]
      BY <3>3 DEF Due
    <3>5. pending[x] >= W
      BY <1>1, <2>1, <3>1, <3>2, <3>4
    <3> QED BY <1>5, <2>1, <2>3, <3>5
  <2> HIDE DEF W
  <2>4. Follows(m, reply.then, pending, pending', home[x], x, W)
    BY <1>2, <1>3, <1>4, <2>1, <2>2, <2>3, PatchFollows
  <2> QED BY <2>4 DEF W
<1>14. /\ view'.items = wanted[view'.shown].items /\ view'.shown = view.shown
       /\ mirror'.items = mirror.items /\ mirror'.active = mirror.active
       /\ \A c \in Coll : /\ life[c] # "unused" => life'[c] # "unused"
                          /\ life'[c] # "deleted" => life[c] # "deleted"
  BY <1>3, <1>5
<1> QED BY <1>2, <1>3, <1>10, <1>11, <1>12, <1>13, <1>14, SendsReach

\* A flush, while no other handler is under way, for who goes on as t.
LEMMA FlushReach ==
  ASSUME Sane, ReachInv, up, up', UNCHANGED <<view, wanted, home, dirs, life>>, reply' = NoReply,
         Together(view, mirror.active),
         \A i \in DOMAIN queue : ~OfCollections(queue[i].then),
         pending' = Nothing, mirror'.active = mirror.active, mirror'.items = view.items,
         reply.then.step # "batch",
         NEW t \in AfterSave, NEW m \in Messages, queue' = Append(queue, m), Flushes(m, t),
         ThenFits(t, Nothing, wanted, home, view.shown, life)
  PROVE  ReachInv'
<1>1. /\ \A x \in Req : pending[x] > 0 => home[x] # 0 /\ pending[x] = Due(wanted, home, x)
      /\ \A x \in Req : home[x] # 0 => home[x] \in Coll /\ Due(wanted, home, x) \in Nat
      /\ view.items = wanted[view.shown].items
      /\ \A x \in Req : pending[x] \in Nat
  BY PendingFacts
<1>2. view.shown = mirror.active /\ pending \in Items /\ Tracked /\ mirror.active \in Coll
  BY CleanFacts DEF Together, Sane
<1>3. t # Ends /\ Ends.step = "ends" /\ t.step \in {"switchSaved", "addStored", "addSaved"}
  BY StepsOf
<1>4. MessageFits(m, wanted, home, life') /\ ThenFits(m.then, pending', wanted, home, view'.shown, life')
  <2>1. CASE \E r \in Req : Patch(m, r, pending, t)
    <3>1. PICK r \in Req : Patch(m, r, pending, t)
      BY <2>1
    <3>2. PatchesFit(pending, t, wanted, home, view.shown)
      <4>1. \A x \in Req : home[x] # 0 => Due(wanted, home, x) <= Due(wanted, home, x)
        BY <1>1
      <4> QED BY <1>1, <4>1 DEF PatchesFit
    <3>3. t \in {Ends} \cup AfterSave
      OBVIOUS
    <3>4. MessageFits(m, wanted, home, life) /\ ThenFits(m.then, Nothing, wanted, home, view.shown, life)
      BY <1>2, <3>1, <3>2, <3>3, PatchFits
    <3> QED BY <3>4
  <2>2. CASE m.op = "save" /\ m.coll = mirror.active /\ m.then = t
    <3>1. life[view.shown] # "unused"
      BY <1>2 DEF Tracked, Known
    <3> QED BY <1>2, <2>2, <3>1 DEF MessageFits
  <2> QED BY <2>1, <2>2 DEF Flushes
<1>5. \A x \in Req : There(life', home, x) =>
         Follows(m, reply.then, pending, pending', home[x], x, Due(wanted, home, x))
  <2> SUFFICES ASSUME NEW x \in Req, There(life', home, x)
               PROVE  Follows(m, reply.then, pending, pending', home[x], x, Due(wanted, home, x))
    OBVIOUS
  <2>1. Due(wanted, home, x) \in Nat /\ home[x] # 0
    BY <1>1 DEF There
  <2>2. \A w : ~Carried(reply.then, x, w)
    BY DEF Carried
  <2>3. CASE \E r \in Req : Patch(m, r, pending, t)
    <3>1. PICK r \in Req : Patch(m, r, pending, t)
      BY <2>3
    <3>2. x = r => pending[x] = Due(wanted, home, x)
      BY <1>1, <3>1 DEF Patch
    <3> QED BY <1>2, <2>1, <2>2, <3>1, <3>2, PatchFollows
  <2>4. CASE pending = Nothing /\ m.op = "save" /\ m.coll = mirror.active /\ m.items = view.items
    <3>1. m.coll = home[x] => m.items[x] = Due(wanted, home, x)
      BY <1>1, <1>2, <2>4 DEF Due
    <3> QED BY <2>1, <2>2, <2>4, <3>1, SaveFollows
  <2> QED BY <2>3, <2>4 DEF Flushes
<1>6. m.op = "save" => m.headers = wanted[m.coll].headers
  BY DEF Flushes, Patch
<1>7. m.then.step # "rewrite"
  BY <1>3, StepsOf DEF Flushes, Patch
<1>8. /\ view'.items = wanted[view'.shown].items /\ mirror'.items = wanted[mirror'.active].items
      /\ \A c \in Coll : /\ life[c] # "unused" => life'[c] # "unused"
                         /\ life'[c] # "deleted" => life[c] # "deleted"
  BY <1>1, <1>2
<1> QED BY <1>4, <1>5, <1>6, <1>7, <1>8, AloneSends

LEMMA SelectReach ==
  ASSUME Sane, ReachInv, Clean', NEW c \in Coll, SelectCollection(c)
  PROVE  ReachInv'
<1>1. /\ Alone /\ UNCHANGED <<view, life, wanted, home>> /\ pending' = Nothing
      /\ mirror'.active = mirror.active /\ mirror'.items = view.items
      /\ \E t \in AfterSave, m \in Messages :
              /\ t.step = "switchSaved" /\ t.coll = c
              /\ queue' = Append(queue, m) /\ Flushes(m, t)
  BY SelectEffect
<1>2. PICK t \in AfterSave, m \in Messages :
              /\ t.step = "switchSaved" /\ t.coll = c
              /\ queue' = Append(queue, m) /\ Flushes(m, t)
  BY <1>1
<1>3. /\ up /\ up' /\ reply = NoReply /\ reply' = NoReply /\ dirs' = dirs
      /\ Together(view, mirror.active) /\ \A i \in DOMAIN queue : ~OfCollections(queue[i].then)
  BY <1>1 DEF Alone, Commanded
<1>4. reply.then.step # "batch"
  BY <1>3, BoundFacts, StepsOf
<1>5. ThenFits(t, Nothing, wanted, home, view.shown, life)
  BY <1>2 DEF ThenFits, BatchFits, Core, Nothing
<1> QED BY <1>1, <1>2, <1>3, <1>4, <1>5, FlushReach

LEMMA AddStoredReach ==
  ASSUME Sane, ReachInv, Clean', AddStored
  PROVE  ReachInv'
<1>1. /\ HandlerAlone /\ reply.then.step = "addStored" /\ view' = view /\ pending' = Nothing
      /\ Together(view, mirror.active)
      /\ mirror'.active = mirror.active /\ mirror'.items = view.items
      /\ \E t \in AfterSave, m \in Messages :
           /\ t.step = "addSaved" /\ t.coll = reply.then.coll /\ t.colls = reply.then.colls
           /\ queue' = Append(queue, m) /\ Flushes(m, t)
  BY AddStoredEffect
<1>2. PICK t \in AfterSave, m \in Messages :
           /\ t.step = "addSaved" /\ t.coll = reply.then.coll
           /\ queue' = Append(queue, m) /\ Flushes(m, t)
  BY <1>1
<1>3. /\ up /\ up' /\ reply' = NoReply /\ UNCHANGED <<dirs, wanted, home, life>>
      /\ \A i \in DOMAIN queue : ~OfCollections(queue[i].then)
  BY <1>1 DEF HandlerAlone, Resumed
<1>4. ThenFits(reply.then, pending, wanted, home, view.shown, life)
  BY <1>3, ReachedFacts DEF Reached, QueueFits
<1>5. ThenFits(t, Nothing, wanted, home, view.shown, life)
  BY <1>1, <1>2, <1>4 DEF ThenFits, BatchFits, Core
<1>6. reply.then.step # "batch"
  BY <1>1
<1> QED BY <1>1, <1>2, <1>3, <1>5, <1>6, FlushReach

LEMMA AddCollectionReach ==
  ASSUME Sane, ReachInv, Clean', NEW c \in Coll, AddCollection(c)
  PROVE  ReachInv'
<1>1. /\ Alone /\ life[c] = "unused" /\ life' = [life EXCEPT ![c] = "made"]
      /\ UNCHANGED <<view, mirror, pending, wanted, home>>
      /\ \E m \in Messages :
              /\ queue' = Append(queue, m)
              /\ m.op = "load" /\ m.coll = c /\ m.then.step = "rewrite" /\ m.then.coll = c
              /\ m.then.then \in AfterSave /\ m.then.then.step = "addStored"
              /\ m.then.then.coll = c
  BY AddCollectionEffect
<1>2. PICK m \in Messages :
              /\ queue' = Append(queue, m)
              /\ m.op = "load" /\ m.coll = c /\ m.then.step = "rewrite" /\ m.then.coll = c
              /\ m.then.then \in AfterSave /\ m.then.then.step = "addStored"
              /\ m.then.then.coll = c
  BY <1>1
<1>3. /\ up /\ up' /\ reply = NoReply /\ reply' = NoReply /\ dirs' = dirs
      /\ \A i \in DOMAIN queue : ~OfCollections(queue[i].then)
  BY <1>1 DEF Alone, Commanded
<1>4. /\ \A x \in Req : home[x] # 0 => home[x] \in Coll /\ Due(wanted, home, x) \in Nat
      /\ view.items = wanted[view.shown].items
  BY <1>3, PendingFacts
<1>5. /\ Tracked /\ Made /\ life \in [Coll -> {"unused", "made", "listed", "deleted"}]
  BY <1>3, CleanFacts DEF Sane
<1>6. /\ c # view.shown /\ \A x \in Req : home[x] # c
  <2>1. life[view.shown] # "unused"
    BY <1>5 DEF Tracked, Known
  <2>2. c # 0
    BY BoundFacts
  <2> QED BY <1>1, <1>5, <2>1, <2>2 DEF Made
<1>7. life'[c] = "made" /\ \A d \in Coll \ {c} : life'[d] = life[d]
  BY <1>1, <1>5
<1>8. /\ MessageFits(m, wanted, home, life')
      /\ ThenFits(m.then, pending', wanted, home, view'.shown, life')
  BY <1>1, <1>2, <1>6, <1>7 DEF MessageFits, ThenFits, BatchFits, Core
<1>9. m.op # "save" /\ \A i \in DOMAIN queue : queue[i].op = "save" => queue[i].coll # m.then.coll
  BY <1>1, <1>2, <1>3, ReachedFacts DEF Reached, QueueFits, MessageFits
<1>10. \A x \in Req : There(life', home, x) =>
         Follows(m, reply.then, pending, pending', home[x], x, Due(wanted, home, x))
  <2> SUFFICES ASSUME NEW x \in Req, There(life', home, x)
               PROVE  Follows(m, reply.then, pending, pending', home[x], x, Due(wanted, home, x))
    OBVIOUS
  <2>1. Due(wanted, home, x) \in Nat
    BY <1>4 DEF There
  <2>2. \A w : ~Carried(reply.then, x, w)
    BY <1>3, BoundFacts, StepsOf DEF Carried
  <2>3. m.op \notin {"save", "update"}
    BY <1>2
  <2> QED BY <1>1, <2>1, <2>2, <2>3, OtherFollows
<1>11. /\ view'.items = wanted[view'.shown].items /\ pending' \in {pending, Nothing}
       /\ mirror'.items = mirror.items /\ mirror'.active = mirror.active
       /\ \A d \in Coll : /\ life[d] # "unused" => life'[d] # "unused"
                          /\ life'[d] # "deleted" => life[d] # "deleted"
  BY <1>1, <1>4, <1>7
<1> QED BY <1>1, <1>2, <1>3, <1>8, <1>9, <1>10, <1>11, AloneSends

LEMMA DeleteCollectionReach ==
  ASSUME Sane, ReachInv, Clean', NEW c \in Coll, DeleteCollection(c)
  PROVE  ReachInv'
<1>1. /\ Alone /\ c \in view.colls /\ life' = [life EXCEPT ![c] = "deleted"]
      /\ UNCHANGED <<wanted, home>>
      /\ view'.items = view.items /\ view'.shown = view.shown
      /\ mirror'.active = mirror.active /\ mirror'.items \in {mirror.items, Nothing}
      /\ \E m \in Messages :
           /\ queue' = Append(queue, m)
           /\ \/ /\ c = view.active /\ view' = view /\ mirror' = mirror /\ pending' = Nothing
                 /\ \A r \in Req : pending[r] > 0 => home[r] = view.shown
                 /\ m.op = "load" /\ m.then.step = "deleteLoaded" /\ m.then.coll \in view.colls \ {c}
              \/ /\ c # view.active /\ pending' = pending
                 /\ m.op = "manifest" /\ m.then.step = "deleteListed"
  BY DeleteCollectionEffect
<1>2. PICK m \in Messages :
           /\ queue' = Append(queue, m)
           /\ \/ /\ c = view.active /\ view' = view /\ mirror' = mirror /\ pending' = Nothing
                 /\ \A r \in Req : pending[r] > 0 => home[r] = view.shown
                 /\ m.op = "load" /\ m.then.step = "deleteLoaded" /\ m.then.coll \in view.colls \ {c}
              \/ /\ c # view.active /\ pending' = pending
                 /\ m.op = "manifest" /\ m.then.step = "deleteListed"
  BY <1>1
<1>3. /\ up /\ up' /\ reply = NoReply /\ reply' = NoReply /\ dirs' = dirs
      /\ Together(view, mirror.active) /\ \A i \in DOMAIN queue : ~OfCollections(queue[i].then)
  BY <1>1 DEF Alone, Commanded
<1>4. /\ \A x \in Req : home[x] # 0 => home[x] \in Coll /\ Due(wanted, home, x) \in Nat
      /\ view.items = wanted[view.shown].items
  BY <1>3, PendingFacts
<1>5. /\ life \in [Coll -> {"unused", "made", "listed", "deleted"}] /\ mirror.active \in Coll
      /\ view.active = mirror.active /\ view.shown = mirror.active
  BY <1>3, CleanFacts DEF Sane, Together
<1>6. life'[c] = "deleted" /\ \A d \in Coll \ {c} : life'[d] = life[d]
  BY <1>1, <1>5
<1>7. MessageFits(m, wanted, home, life')
  BY <1>2 DEF MessageFits
<1>8. ThenFits(m.then, pending', wanted, home, view'.shown, life')
  BY <1>1, <1>2 DEF ThenFits, BatchFits, Core, Nothing
<1>9. \A x \in Req : There(life', home, x) =>
         Follows(m, reply.then, pending, pending', home[x], x, Due(wanted, home, x))
  <2> SUFFICES ASSUME NEW x \in Req, There(life', home, x)
               PROVE  Follows(m, reply.then, pending, pending', home[x], x, Due(wanted, home, x))
    OBVIOUS
  <2>1. Due(wanted, home, x) \in Nat /\ home[x] # c
    BY <1>4, <1>6 DEF There
  <2>2. \A w : ~Carried(reply.then, x, w)
    BY <1>3, BoundFacts, StepsOf DEF Carried
  <2>3. m.op \notin {"save", "update"}
    BY <1>2
  <2>4. \A w \in Nat : w > 0 => (pending[x] = w => pending'[x] = w)
    BY <1>2, <1>5, <2>1
  <2> QED BY <2>1, <2>2, <2>3, <2>4, OtherFollows
<1>10. /\ view'.items = wanted[view'.shown].items /\ pending' \in {pending, Nothing}
       /\ \A d \in Coll : /\ life[d] # "unused" => life'[d] # "unused"
                          /\ life'[d] # "deleted" => life[d] # "deleted"
       /\ m.then.step # "rewrite" /\ m.op # "save"
  BY <1>1, <1>2, <1>4, <1>6
<1>11. \/ mirror'.items = Nothing
       \/ /\ mirror'.items = mirror.items /\ mirror'.active = mirror.active
          /\ pending' = pending \/ life'[mirror.active] = "deleted"
  BY <1>1, <1>2, <1>5, <1>6
<1> QED BY <1>1, <1>2, <1>3, <1>7, <1>8, <1>9, <1>10, <1>11, AloneSends

LEMMA FlushedReach ==
  ASSUME Sane, ReachInv, Clean', Flushed
  PROVE  ReachInv'
<1>1. /\ HandlerAlone /\ reply.then \in Batches /\ reply.then.patches = Nothing
      /\ UNCHANGED <<view, pending>> /\ Together(view, mirror.active)
      /\ mirror'.active = mirror.active /\ mirror'.items = view.items
      /\ reply.then.then \in AfterSave
      /\ \E m \in Messages :
           /\ queue' = Append(queue, m) /\ m.op = "save" /\ m.coll = mirror.active /\ m.items = view.items
           /\ m.headers = wanted[mirror.active].headers /\ m.then = reply.then.then
  BY FlushedEffect
<1>2. PICK m \in Messages :
           /\ queue' = Append(queue, m) /\ m.op = "save" /\ m.coll = mirror.active /\ m.items = view.items
           /\ m.headers = wanted[mirror.active].headers /\ m.then = reply.then.then
  BY <1>1
<1>3. /\ up /\ up' /\ reply' = NoReply /\ UNCHANGED <<dirs, wanted, home, life>>
      /\ \A i \in DOMAIN queue : ~OfCollections(queue[i].then)
  BY <1>1 DEF HandlerAlone, Resumed
<1>4. /\ \A x \in Req : home[x] # 0 => home[x] \in Coll /\ Due(wanted, home, x) \in Nat
      /\ view.items = wanted[view.shown].items
  BY <1>3, PendingFacts
<1>5. /\ view.active = mirror.active /\ view.shown = mirror.active /\ Tracked
  BY <1>1, <1>3, CleanFacts DEF Sane, Together
<1>6. ThenFits(reply.then, pending, wanted, home, view.shown, life)
  BY <1>3, ReachedFacts DEF Reached, QueueFits
<1>7. /\ reply.then.step = "batch" /\ Core(reply.then) = m.then /\ m.then.step \notin {"batch", "rewrite"}
      /\ Core(m.then) = m.then
  BY <1>1, <1>2, StepsOf DEF Core
<1>8. life[mirror.active] # "unused"
  BY <1>5 DEF Tracked, Known
<1>9. /\ MessageFits(m, wanted, home, life')
      /\ ThenFits(m.then, pending', wanted, home, view'.shown, life')
  BY <1>1, <1>2, <1>3, <1>6, <1>7, <1>8 DEF MessageFits, ThenFits, BatchFits
<1>10. \A x \in Req : There(life', home, x) =>
         Follows(m, reply.then, pending, pending', home[x], x, Due(wanted, home, x))
  <2> SUFFICES ASSUME NEW x \in Req, There(life', home, x)
               PROVE  Follows(m, reply.then, pending, pending', home[x], x, Due(wanted, home, x))
    OBVIOUS
  <2>1. Due(wanted, home, x) \in Nat
    BY <1>4 DEF There
  <2>2. \A w \in Nat : w > 0 => ~Carried(reply.then, x, w)
    BY <1>1 DEF Carried, Nothing
  <2>3. m.coll = home[x] => m.items[x] = Due(wanted, home, x)
    BY <1>2, <1>4, <1>5 DEF Due
  <2> QED BY <1>1, <1>2, <2>1, <2>2, <2>3, SaveFollows
<1>11. /\ view'.items = wanted[view'.shown].items /\ pending' \in {pending, Nothing}
       /\ \A d \in Coll : /\ life[d] # "unused" => life'[d] # "unused"
                          /\ life'[d] # "deleted" => life[d] # "deleted"
       /\ mirror'.items = wanted[mirror'.active].items /\ m.headers = wanted[m.coll].headers
  BY <1>1, <1>2, <1>3, <1>4, <1>5
<1> QED BY <1>1, <1>2, <1>3, <1>7, <1>9, <1>10, <1>11, AloneSends

LEMMA RewriteReach ==
  ASSUME Sane, ReachInv, Clean', Rewrite
  PROVE  ReachInv'
<1>1. /\ HandlerAlone /\ KeepsWindow /\ reply.then \in Rewrites
      /\ \E m \in Messages :
           /\ queue' = Append(queue, m) /\ m.op = "save" /\ m.coll = reply.then.coll
           /\ m.items = reply.then.items /\ m.headers = reply.data.headers /\ m.then = reply.then.then
  BY RewriteEffect
<1>2. PICK m \in Messages :
           /\ queue' = Append(queue, m) /\ m.op = "save" /\ m.coll = reply.then.coll
           /\ m.items = reply.then.items /\ m.headers = reply.data.headers /\ m.then = reply.then.then
  BY <1>1
<1>3. /\ up /\ up' /\ reply' = NoReply /\ UNCHANGED <<dirs, wanted, home, life, view, mirror, pending>>
      /\ \A i \in DOMAIN queue : ~OfCollections(queue[i].then)
  BY <1>1 DEF HandlerAlone, Resumed, KeepsWindow
<1>4. /\ \A x \in Req : home[x] # 0 => home[x] \in Coll /\ Due(wanted, home, x) \in Nat
      /\ view.items = wanted[view.shown].items
  BY <1>3, PendingFacts
<1>5. /\ ThenFits(reply.then, pending, wanted, home, view.shown, life) /\ Reached
      /\ dirs \in [Coll -> Directories]
  BY <1>3, ReachedFacts DEF Reached, QueueFits
<1>6. /\ reply.then.step = "rewrite" /\ reply.then.then \in AfterSave /\ Core(reply.then) = m.then
      /\ m.then.step \notin {"batch", "rewrite"}
      /\ Core(m.then) = m.then /\ reply.then.coll \in Coll
  BY <1>1, <1>2, StepsOf DEF Core, Rewrites
<1>7. /\ reply.then.then.step = "addStored" /\ reply.then.then.coll = reply.then.coll
      /\ life[reply.then.coll] # "unused"
  BY <1>5, <1>6 DEF ThenFits
<1>8. \A x \in Req : home[x] # m.coll
  BY <1>2, <1>5, <1>6, <1>7 DEF ThenFits
<1>9. /\ MessageFits(m, wanted, home, life')
      /\ ThenFits(m.then, pending', wanted, home, view'.shown, life')
  BY <1>2, <1>3, <1>5, <1>6, <1>7 DEF MessageFits, ThenFits, BatchFits
<1>10. \A x \in Req : There(life', home, x) =>
         Follows(m, reply.then, pending, pending', home[x], x, Due(wanted, home, x))
  <2> SUFFICES ASSUME NEW x \in Req, There(life', home, x)
               PROVE  Follows(m, reply.then, pending, pending', home[x], x, Due(wanted, home, x))
    OBVIOUS
  <2>1. Due(wanted, home, x) \in Nat
    BY <1>4 DEF There
  <2>2. \A w : ~Carried(reply.then, x, w)
    BY <1>6 DEF Carried
  <2> QED BY <1>2, <1>3, <1>8, <2>1, <2>2, SaveFollows
<1>11. ASSUME life'[m.coll] # "deleted" PROVE m.headers = wanted[m.coll].headers
  <2>1. reply.data = Content(m.coll)
    BY <1>2, <1>5, <1>6 DEF Reached, AnswerTells
  <2>2. HeadersCome(queue, dirs[m.coll], m.coll, wanted[m.coll].headers)
    BY <1>2, <1>3, <1>5, <1>6, <1>11 DEF Reached, AllHeadersCome
  <2>3. \A i \in DOMAIN queue : queue[i] \notin Heads(m.coll, wanted[m.coll].headers)
    BY <1>2, <1>5, <1>6 DEF Reached, RewritesAlone, Unsaved, Heads
  <2>4. dirs[m.coll].headers = wanted[m.coll].headers
    BY <2>2, <2>3 DEF HeadersCome, Comes
  <2> QED BY <1>2, <2>1, <2>4 DEF Content
<1>12. /\ view'.items = wanted[view'.shown].items /\ pending' \in {pending, Nothing}
       /\ \A d \in Coll : /\ life[d] # "unused" => life'[d] # "unused"
                          /\ life'[d] # "deleted" => life[d] # "deleted"
       /\ mirror'.items = mirror.items /\ mirror'.active = mirror.active
  BY <1>3, <1>4
<1> QED BY <1>2, <1>3, <1>6, <1>9, <1>10, <1>11, <1>12, AloneSends

\* A handler goes on with a message that is no tree, no edit and no removal of a request.
LEMMA PlainSends ==
  ASSUME Sane, ReachInv, HandlerAlone, reply.then.step # "batch", Core(reply.then) = reply.then,
         pending' = pending, view'.items = wanted[view'.shown].items,
         mirror'.items = Nothing \/ (mirror'.items = mirror.items /\ mirror'.active = mirror.active),
         NEW m \in Messages, queue' = Append(queue, m),
         m.op \in {"load", "manifest", "remove", "environments"},
         m.then.step \in {"switchListed", "switchLoaded"} =>
           /\ reply.then.step \in {"switchSaved", "switchListed", "switchLoaded"}
           /\ m.then.coll = reply.then.coll,
         m.then.step = "addListed" =>
           /\ reply.then.step = "addSaved" /\ m.then.coll = reply.then.coll /\ view'.shown = view.shown,
         m.then.step \in {"ends", "switchListed", "switchLoaded", "addListed", "deleteShown", "deleteListed"}
  PROVE  ReachInv'
<1>1. /\ up /\ up' /\ reply' = NoReply /\ UNCHANGED <<dirs, wanted, home, life>>
      /\ \A i \in DOMAIN queue : ~OfCollections(queue[i].then)
  BY DEF HandlerAlone, Resumed
<1>2. \A x \in Req : home[x] # 0 => home[x] \in Coll /\ Due(wanted, home, x) \in Nat
  BY <1>1, PendingFacts
<1>3. ThenFits(reply.then, pending, wanted, home, view.shown, life)
  BY <1>1, ReachedFacts DEF Reached, QueueFits
<1>4. MessageFits(m, wanted, home, life')
  BY DEF MessageFits
<1>5. ThenFits(m.then, pending', wanted, home, view'.shown, life')
  BY <1>3 DEF ThenFits, BatchFits, Core
<1>6. \A x \in Req : There(life', home, x) =>
         Follows(m, reply.then, pending, pending', home[x], x, Due(wanted, home, x))
  <2> SUFFICES ASSUME NEW x \in Req, There(life', home, x)
               PROVE  Follows(m, reply.then, pending, pending', home[x], x, Due(wanted, home, x))
    OBVIOUS
  <2>1. Due(wanted, home, x) \in Nat
    BY <1>2 DEF There
  <2>2. \A w : ~Carried(reply.then, x, w)
    BY DEF Carried
  <2>3. m.op \notin {"save", "update"}
    OBVIOUS
  <2> QED BY <2>1, <2>2, <2>3, OtherFollows
<1>7. /\ \A d \in Coll : /\ life[d] # "unused" => life'[d] # "unused"
                         /\ life'[d] # "deleted" => life[d] # "deleted"
      /\ m.then.step # "rewrite" /\ m.op # "save"
  BY <1>1
<1> QED BY <1>1, <1>4, <1>5, <1>6, <1>7, AloneSends

LEMMA SwitchesReach ==
  ASSUME Sane, ReachInv, Clean', SwitchSaved \/ SwitchListed \/ AddSaved \/ DeleteListed \/ DeleteShown
  PROVE  ReachInv'
<1>0. up
  <2>1. reply.then # Ends
    BY StepsOf DEF SwitchSaved, SwitchListed, AddSaved, DeleteListed, DeleteShown, Resume
  <2>2. MessagesFit
    BY DEF Sane, DeletionsInv, SavesIInv, Shapes
  <2> QED BY <2>1, <2>2, BoundFacts DEF MessagesFit
<1>1. view.items = wanted[view.shown].items
  BY <1>0, PendingFacts
<1>2. CASE SwitchSaved
  <2>1. /\ HandlerAlone /\ reply.then.step = "switchSaved" /\ pending' = pending /\ mirror'.items = Nothing
        /\ view'.shown = view.shown /\ view'.items = view.items
        /\ \E m \in Messages :
              /\ queue' = Append(queue, m) /\ m.op = "manifest"
              /\ m.then.step = "switchListed" /\ m.then.coll = reply.then.coll
    BY <1>2, SwitchSavedEffect
  <2>2. PICK m \in Messages :
              /\ queue' = Append(queue, m) /\ m.op = "manifest"
              /\ m.then.step = "switchListed" /\ m.then.coll = reply.then.coll
    BY <2>1
  <2>3. Core(reply.then) = reply.then
    BY <2>1 DEF Core
  <2>5. view'.items = wanted[view'.shown].items
    BY <1>1, <2>1
  <2>4. mirror'.items = Nothing \/ (mirror'.items = mirror.items /\ mirror'.active = mirror.active)
    BY <2>1
  <2> QED BY <1>1, <2>1, <2>2, <2>3, <2>4, <2>5, PlainSends
<1>3. CASE SwitchListed
  <2>1. /\ HandlerAlone /\ reply.then.step = "switchListed" /\ KeepsWindow
        /\ \E m \in Messages :
              /\ queue' = Append(queue, m) /\ m.op = "load"
              /\ m.then.step = "switchLoaded" /\ m.then.coll = reply.then.coll
    BY <1>3, SwitchListedEffect
  <2>2. PICK m \in Messages :
              /\ queue' = Append(queue, m) /\ m.op = "load"
              /\ m.then.step = "switchLoaded" /\ m.then.coll = reply.then.coll
    BY <2>1
  <2>3. /\ Core(reply.then) = reply.then /\ pending' = pending /\ view'.items = view.items
        /\ view'.shown = view.shown /\ mirror'.items = mirror.items /\ mirror'.active = mirror.active
    BY <2>1 DEF Core, HandlerAlone, Resumed, KeepsWindow
  <2> QED BY <1>1, <2>1, <2>2, <2>3, PlainSends
<1>4. CASE AddSaved
  <2>1. /\ HandlerAlone /\ reply.then.step = "addSaved" /\ pending' = pending /\ mirror'.items = Nothing
        /\ view'.shown = view.shown /\ view'.items = view.items
        /\ \E m \in Messages :
              /\ queue' = Append(queue, m) /\ m.op = "manifest"
              /\ m.then.step = "addListed" /\ m.then.coll = reply.then.coll
    BY <1>4, AddSavedEffect
  <2>2. PICK m \in Messages :
              /\ queue' = Append(queue, m) /\ m.op = "manifest"
              /\ m.then.step = "addListed" /\ m.then.coll = reply.then.coll
    BY <2>1
  <2>3. Core(reply.then) = reply.then
    BY <2>1 DEF Core
  <2>5. view'.items = wanted[view'.shown].items
    BY <1>1, <2>1
  <2>4. mirror'.items = Nothing \/ (mirror'.items = mirror.items /\ mirror'.active = mirror.active)
    BY <2>1
  <2> QED BY <1>1, <2>1, <2>2, <2>3, <2>4, <2>5, PlainSends
<1>5. CASE DeleteListed
  <2>1. /\ HandlerAlone /\ reply.then.step = "deleteListed" /\ KeepsWindow
        /\ \E m \in Messages :
              queue' = Append(queue, m) /\ m.op = "remove" /\ m.then = Ends
    BY <1>5, DeleteListedEffect
  <2>2. PICK m \in Messages :
              queue' = Append(queue, m) /\ m.op = "remove" /\ m.then = Ends
    BY <2>1
  <2>3. /\ Core(reply.then) = reply.then /\ pending' = pending /\ view'.items = view.items
        /\ view'.shown = view.shown /\ mirror'.items = mirror.items /\ mirror'.active = mirror.active
        /\ m.then.step = "ends"
    BY <2>1, <2>2, StepsOf DEF Core, HandlerAlone, Resumed, KeepsWindow
  <2> QED BY <1>1, <2>1, <2>2, <2>3, PlainSends
<1>6. CASE DeleteShown
  <2>1. /\ HandlerAlone /\ reply.then.step = "deleteShown" /\ UNCHANGED <<mirror, pending>>
        /\ view'.shown = view.shown /\ view'.items = view.items
        /\ \E m \in Messages :
              queue' = Append(queue, m) /\ m.op = "manifest" /\ m.then.step = "deleteListed"
    BY <1>6, DeleteShownEffect
  <2>2. PICK m \in Messages :
              queue' = Append(queue, m) /\ m.op = "manifest" /\ m.then.step = "deleteListed"
    BY <2>1
  <2>3. Core(reply.then) = reply.then
    BY <2>1 DEF Core
  <2>5. view'.items = wanted[view'.shown].items
    BY <1>1, <2>1
  <2>4. mirror'.items = Nothing \/ (mirror'.items = mirror.items /\ mirror'.active = mirror.active)
    BY <2>1
  <2> QED BY <1>1, <2>1, <2>2, <2>3, <2>4, <2>5, PlainSends
<1> QED BY <1>2, <1>3, <1>4, <1>5, <1>6

\* What a switch or a deletion has loaded is what is wanted.
LEMMA ArrivedTells ==
  ASSUME Sane, ListingInv, ReachInv, HandlerAlone, reply.then.step \in {"switchLoaded", "deleteLoaded"},
         reply.data.items \in Items
  PROVE  reply.data.items = wanted[reply.then.coll].items
<1> DEFINE c == reply.then.coll
<1>1. up /\ \A i \in DOMAIN queue : ~OfCollections(queue[i].then)
  BY DEF HandlerAlone, Resumed
<1>2. /\ Reached /\ wanted \in [Coll -> Contents] /\ home \in [Req -> Coll \cup {0}] /\ dirs \in [Coll -> Directories]
      /\ pending \in Items /\ queue \in Seq(Messages)
      /\ \A i \in DOMAIN queue : queue[i] \in Messages
  BY <1>1, ReachedFacts
<1>3. c \in Coll /\ Core(reply.then) = reply.then /\ reply.then \in Thens
  BY <1>1, CleanFacts, ThenTypes DEF Core, Sane
<1>4. life[c] # "deleted"
  <2>1. ThenSpares(reply.then, life)
    BY <1>1, AloneAlive
  <2>2. reply.then.step = "deleteLoaded" => c \in reply.then.colls
    BY <1>3 DEF HandlerAlone, Phase
  <2> QED BY <1>3, <2>1, <2>2 DEF ThenSpares
<1>5. reply.data = Content(c) /\ HomelyItems(reply.data.items, c, home)
  <2>1. Homely
    BY <1>1, CleanFacts DEF Sane
  <2> QED BY <1>2, <2>1 DEF Reached, AnswerTells, Homely, HomelyReply
<1>6. /\ HomelyItems(wanted[c].items, c, home)
      /\ \A j \in DOMAIN queue : LeavesAlone(queue[j], c, home)
      /\ RequestsCome(queue, reply.then, pending, dirs, wanted, home, life)
      /\ \A r \in Req : pending[r] > 0 => home[r] # c
  BY <1>2, <1>3 DEF Reached, WindowTells, Arrivals, Arriving, QueueFits, ThenFits
<1>7. wanted[c].items \in Items
  BY <1>2, <1>3 DEF Contents
<1>8. ASSUME NEW r \in Req, home[r] = c PROVE reply.data.items[r] = wanted[c].items[r]
  <2> DEFINE W == Due(wanted, home, r)
  <2>1. W = wanted[c].items[r] /\ W \in Nat
    BY <1>7, <1>8, BoundFacts DEF Due, Items
  <2>2. reply.data.items[r] = HoldsIn(dirs[c], r)
    BY <1>5 DEF Content, HoldsIn
  <2>3. There(life, home, r)
    BY <1>3, <1>4, <1>8, BoundFacts DEF There
  <2>4. RequestComes(queue, reply.then, pending, dirs[c], r, c, W)
    BY <1>6, <1>8, <2>3 DEF RequestsCome
  <2> HIDE DEF W
  <2>5. \A i \in DOMAIN queue : queue[i] \notin Puts(c, r, W) /\ queue[i] \notin Writes(c, r, W)
    BY <1>6, <1>8 DEF LeavesAlone, Puts, Writes
  <2>6. HoldsIn(dirs[c], r) \in Nat
    <3>1. dirs[c].files \in [Req -> Versions]
      BY <1>2, <1>3 DEF Directories
    <3>2. dirs[c].files[r] \in Nat
      BY <3>1, BoundFacts
    <3> QED BY <3>2 DEF HoldsIn
  <2>7. CASE W = 0
    <3>1. HoldsIn(dirs[c], r) > 0 <=> W > 0
      BY <2>4, <2>5 DEF RequestComes, PresenceComes, Comes
    <3> QED BY <2>1, <2>2, <2>6, <2>7, <3>1
  <2>8. CASE W > 0
    <3>1. pending[r] # W
      BY <1>6, <1>8, <2>8
    <3>2. ~Carried(reply.then, r, W)
      BY DEF Carried
    <3>3. \A i \in DOMAIN queue : ~Carried(queue[i].then, r, W)
      BY <1>6, <1>8, <2>8 DEF LeavesAlone, Carried
    <3>4. VersionComes(queue, dirs[c], r, c, W)
      BY <2>4, <2>8, <3>1, <3>2, <3>3 DEF RequestComes, Waits
    <3>5. HoldsIn(dirs[c], r) = W
      BY <2>5, <3>4 DEF VersionComes, Comes
    <3> QED BY <2>1, <2>2, <3>5
  <2> QED BY <2>1, <2>7, <2>8
<1>9. ASSUME NEW r \in Req, home[r] # c PROVE reply.data.items[r] = wanted[c].items[r]
  <2>1. reply.data.items[r] \in Nat /\ wanted[c].items[r] \in Nat
    BY <1>7, BoundFacts DEF Items
  <2> QED BY <1>5, <1>6, <1>9, <2>1 DEF HomelyItems
<1>10. \A r \in Req : reply.data.items[r] = wanted[c].items[r]
  BY <1>8, <1>9
<1> QED BY <1>7, <1>10 DEF Items

LEMMA LoadedReach ==
  ASSUME Sane, ListingInv, ReachInv, Clean', SwitchLoaded \/ AddListed \/ DeleteLoaded
  PROVE  ReachInv'
<1>1. CASE SwitchLoaded
  <2>1. /\ HandlerAlone /\ reply.then.step = "switchLoaded" /\ UNCHANGED <<pending, queue>>
        /\ reply.then.coll = mirror.active
        /\ mirror'.active = mirror.active /\ mirror'.items = reply.data.items
        /\ view'.items = reply.data.items /\ view'.shown = mirror.active
    BY <1>1, SwitchLoadedEffect
  <2>2. /\ up /\ up' /\ reply' = NoReply /\ UNCHANGED <<dirs, wanted, home, life>>
        /\ \A i \in DOMAIN queue : ~OfCollections(queue[i].then)
    BY <2>1 DEF HandlerAlone, Resumed
  <2>3. reply.data.items \in Items
    BY <2>2, CleanFacts DEF Sane, Contents
  <2>4. reply.data.items = wanted[mirror.active].items
    BY <2>1, <2>3, ArrivedTells
  <2>5. /\ view'.items = wanted[view'.shown].items /\ mirror'.items = wanted[mirror'.active].items
        /\ reply.then.step # "batch"
    BY <2>1, <2>4
  <2> QED BY <2>1, <2>2, <2>5, EndsReach
<1>2. CASE AddListed
  <2>1. /\ HandlerAlone /\ reply.then.step = "addListed" /\ UNCHANGED <<mirror, pending, queue>>
        /\ reply.then.coll = mirror.active
        /\ view'.items = Nothing /\ view'.shown = mirror.active
    BY <1>2, AddListedEffect
  <2>2. /\ up /\ up' /\ reply' = NoReply /\ UNCHANGED <<dirs, wanted, home, life>>
        /\ \A i \in DOMAIN queue : ~OfCollections(queue[i].then)
    BY <2>1 DEF HandlerAlone, Resumed
  <2>3. /\ ThenFits(reply.then, pending, wanted, home, view.shown, life) /\ Reached
        /\ wanted \in [Coll -> Contents]
    BY <2>2, ReachedFacts DEF Reached, QueueFits
  <2>4. mirror.active \in Coll
    BY <2>2, CleanFacts DEF Sane
  <2>5. \A x \in Req : home[x] # mirror.active
    BY <2>1, <2>3 DEF ThenFits, Core
  <2>6. wanted[mirror.active].items \in Items
    BY <2>3, <2>4 DEF Contents
  <2>7. \A x \in Req : wanted[mirror.active].items[x] = 0
    <3> TAKE x \in Req
    <3>1. wanted[mirror.active].items[x] \in Nat
      BY <2>6, BoundFacts DEF Items
    <3> QED BY <2>3, <2>4, <2>5, <3>1 DEF Reached, WindowTells, HomelyItems
  <2>8. view'.items = wanted[view'.shown].items
    BY <2>1, <2>6, <2>7 DEF Nothing, Items
  <2>9. mirror'.items = mirror.items /\ mirror'.active = mirror.active /\ reply.then.step # "batch"
    BY <2>1
  <2> QED BY <2>1, <2>2, <2>8, <2>9, EndsReach
<1>3. CASE DeleteLoaded
  <2>1. /\ HandlerAlone /\ reply.then.step = "deleteLoaded" /\ pending' = pending
        /\ mirror'.active = reply.then.coll /\ mirror'.items = Nothing
        /\ view'.items = reply.data.items /\ view'.shown = reply.then.coll
        /\ \E m \in Messages :
              queue' = Append(queue, m) /\ m.op = "environments" /\ m.then.step = "deleteShown"
    BY <1>3, DeleteLoadedEffect
  <2>2. PICK m \in Messages :
              queue' = Append(queue, m) /\ m.op = "environments" /\ m.then.step = "deleteShown"
    BY <2>1
  <2>3. up
    BY <2>1 DEF HandlerAlone, Resumed
  <2>4. reply.data.items \in Items
    BY <2>3, CleanFacts DEF Sane, Contents
  <2>5. reply.data.items = wanted[reply.then.coll].items
    BY <2>1, <2>4, ArrivedTells
  <2>6. view'.items = wanted[view'.shown].items
    BY <2>1, <2>5
  <2>7. Core(reply.then) = reply.then
    BY <2>1 DEF Core
  <2> QED BY <2>1, <2>2, <2>6, <2>7, PlainSends
<1> QED BY <1>1, <1>2, <1>3

\* The user changes what is wanted of the collection shown, s: the messages on their way still fit,
\* and a save of s, or a deletion, joins them.
LEMMA ShownGrows ==
  ASSUME NEW q \in Seq(Messages), NEW p, NEW w, NEW h, NEW s, NEW l, NEW p2, NEW w2, NEW h2, NEW l2,
         \A i \in DOMAIN q : ThenAway(q[i].then, s),
         Evolves(p, w, h, s, l, p2, w2, h2, l2),
         w \in [Coll -> Contents], h \in [Req -> Coll \cup {0}],
         w2 \in [Coll -> Contents], h2 \in [Req -> Coll \cup {0}],
         QueueFits(q, Ends, p, w, h, s, l), Arrivals(q, Ends, h), RewritesAlone(q, Ends),
         NEW m \in Messages, m.then = Ends, m.op \in {"save", "delete"}, m.op = "save" => m.coll = s,
         MessageFits(m, w2, h2, l2)
  PROVE  /\ QueueFits(Append(q, m), Ends, p2, w2, h2, s, l2)
         /\ Arrivals(Append(q, m), Ends, h2)
         /\ RewritesAlone(Append(q, m), Ends)
         /\ Append(q, m) \in Seq(Messages)
         /\ \A i \in DOMAIN Append(q, m) : ThenAway(Append(q, m)[i].then, s)
<1>1. Ends.step = "ends" /\ Core(Ends) = Ends
  BY StepsOf DEF Core
<1>2. \A i \in DOMAIN q : MessageFits(q[i], w2, h2, l2) /\ ThenFits(q[i].then, p2, w2, h2, s, l2)
  BY QueueKeeps
<1>3. ThenFits(m.then, p2, w2, h2, s, l2)
  BY EndsFits
<1>4. QueueFits(Append(q, m), Ends, p2, w2, h2, s, l2)
  BY <1>2, <1>3, QueueGrowsFit
<1>5. \A i \in DOMAIN q : Arriving(q[i].then) => LeavesAlone(m, q[i].then.coll, h2)
  BY <1>1 DEF Arriving, LeavesAlone, ThenAway, Core
<1>6. \A r \in Req : h[r] # 0 => h2[r] = h[r]
  BY DEF Evolves
<1>7. Arrivals(Append(q, m), Ends, h2)
  BY <1>5, <1>6, ArrivalsGrow
<1>8. /\ m.op = "save" => \A i \in DOMAIN q : q[i].then.step = "rewrite" => m.coll # q[i].then.coll
      /\ m.then.step # "rewrite"
  BY <1>1 DEF ThenAway
<1>9. RewritesAlone(Append(q, m), Ends)
  BY <1>8, RewritesGrow
<1>10. \A i \in DOMAIN Append(q, m) : ThenAway(Append(q, m)[i].then, s)
  <2>1. ThenAway(m.then, s)
    BY <1>1 DEF ThenAway
  <2> QED BY <2>1, Appended
<1> QED BY <1>4, <1>7, <1>9, <1>10, Appended

\* Whether a request of some version comes does not depend on which.
LEMMA PresenceOf ==
  ASSUME NEW q, NEW d, NEW r, NEW c, NEW w, NEW v, w > 0 <=> v > 0, PresenceComes(q, d, r, c, w)
  PROVE  PresenceComes(q, d, r, c, v)
<1>1. /\ Puts(c, r, w) = Puts(c, r, v) /\ PutsOnly(c, r, w) = PutsOnly(c, r, v)
      /\ Patches(r, w) = Patches(r, v)
  BY DEF Puts, PutsOnly, Patches
<1>2. (HoldsIn(d, r) > 0 <=> w > 0) <=> (HoldsIn(d, r) > 0 <=> v > 0)
  OBVIOUS
<1> QED BY <1>1, <1>2 DEF PresenceComes, Comes

\* What is wanted of a collection changes in its tree, or in its headers.
LEMMA WantedItems ==
  ASSUME wanted \in [Coll -> Contents], NEW s \in Coll, NEW items, home \in [Req -> Coll \cup {0}],
         wanted' = [wanted EXCEPT ![s].items = items]
  PROVE  /\ wanted'[s].items = items /\ \A c \in Coll : wanted'[c].headers = wanted[c].headers
         /\ \A c \in Coll : c # s => wanted'[c].items = wanted[c].items
         /\ \A x \in Req : home[x] # 0 => Due(wanted', home, x) = IF home[x] = s THEN items[x] ELSE Due(wanted, home, x)
<1>1. wanted'[s].items = items /\ \A c \in Coll : c # s => wanted'[c].items = wanted[c].items
  BY DEF Contents
<1>2. \A c \in Coll : wanted'[c].headers = wanted[c].headers
  BY DEF Contents
<1>3. \A x \in Req : home[x] # 0 => Due(wanted', home, x) = IF home[x] = s THEN items[x] ELSE Due(wanted, home, x)
  BY <1>1 DEF Due
<1> QED BY <1>1, <1>2, <1>3

LEMMA WantedHeaders ==
  ASSUME wanted \in [Coll -> Contents], NEW s \in Coll, NEW k, home \in [Req -> Coll \cup {0}],
         wanted' = [wanted EXCEPT ![s].headers = k]
  PROVE  /\ wanted'[s].headers = k /\ \A c \in Coll : wanted'[c].items = wanted[c].items
         /\ \A c \in Coll : c # s => wanted'[c].headers = wanted[c].headers
         /\ \A x \in Req : home[x] # 0 => Due(wanted', home, x) = Due(wanted, home, x)
<1>1. wanted'[s].headers = k /\ \A c \in Coll : c # s => wanted'[c].headers = wanted[c].headers
  BY DEF Contents
<1>2. \A c \in Coll : wanted'[c].items = wanted[c].items
  BY DEF Contents
<1>3. \A x \in Req : home[x] # 0 => Due(wanted', home, x) = Due(wanted, home, x)
  BY <1>2 DEF Due
<1> QED BY <1>1, <1>2, <1>3

\* A command of the user: what there was.
LEMMA CommandFacts ==
  ASSUME Sane, ReachInv, Commanded, SavesIInv'
  PROVE  /\ up /\ up' /\ reply = NoReply /\ reply' = NoReply /\ dirs' = dirs
         /\ reply.then = Ends /\ reply'.then = Ends /\ Ends.step = "ends"
         /\ WindowTells(view, mirror, pending, wanted, home, life)
         /\ QueueFits(queue, Ends, pending, wanted, home, view.shown, life)
         /\ Arrivals(queue, Ends, home) /\ RewritesAlone(queue, Ends)
         /\ RequestsCome(queue, Ends, pending, dirs, wanted, home, life)
         /\ AllHeadersCome(queue, dirs, wanted, life)
         /\ queue \in Seq(Messages) /\ \A i \in DOMAIN queue : queue[i] \in Messages
         /\ \A i \in DOMAIN queue : ThenAway(queue[i].then, view.shown)
         /\ wanted \in [Coll -> Contents] /\ home \in [Req -> Coll \cup {0}] /\ dirs \in [Coll -> Directories]
         /\ wanted' \in [Coll -> Contents] /\ home' \in [Req -> Coll \cup {0}]
         /\ pending \in Items /\ view.shown \in Coll /\ view.shown # 0 /\ view.items \in Items
         /\ HomelyItems(view.items, view.shown, home) /\ Tracked
         /\ life[view.shown] # "unused"
<1>1. /\ up /\ up' /\ reply = NoReply /\ reply' = NoReply /\ dirs' = dirs
  BY DEF Commanded
<1>2. reply.then = Ends /\ reply'.then = Ends /\ Ends.step = "ends"
  BY <1>1, BoundFacts, StepsOf
<1>3. /\ Reached /\ queue \in Seq(Messages) /\ \A i \in DOMAIN queue : queue[i] \in Messages
      /\ \A i \in DOMAIN queue : ThenAway(queue[i].then, view.shown)
      /\ wanted \in [Coll -> Contents] /\ home \in [Req -> Coll \cup {0}] /\ dirs \in [Coll -> Directories]
      /\ pending \in Items /\ view.shown \in Coll /\ view.shown # 0
  BY <1>1, ReachedFacts
<1>4. wanted' \in [Coll -> Contents] /\ home' \in [Req -> Coll \cup {0}]
  BY DEF SavesIInv, Shapes, HistoryFits
<1>5. Homely /\ Tracked /\ view.items \in Items
  BY <1>1, CleanFacts DEF Sane
<1>6. life[view.shown] # "unused"
  BY <1>5 DEF Tracked, Known
<1> QED BY <1>1, <1>2, <1>3, <1>4, <1>5, <1>6 DEF Reached, Homely

\* After a command nothing is answered.
LEMMA CommandReached ==
  ASSUME up', reply' = NoReply, dirs' = dirs,
         WindowTells(view', mirror', pending', wanted', home', life'),
         QueueFits(queue', Ends, pending', wanted', home', view'.shown, life'),
         Arrivals(queue', Ends, home'), RewritesAlone(queue', Ends),
         RequestsCome(queue', Ends, pending', dirs, wanted', home', life'),
         AllHeadersCome(queue', dirs, wanted', life')
  PROVE  ReachInv'
<1>1. reply'.then = Ends /\ Ends.step = "ends"
  BY BoundFacts, StepsOf
<1>2. AnswerTells'
  BY <1>1 DEF AnswerTells
<1> QED BY <1>1, <1>2 DEF ReachInv, Reached

LEMMA EditReach ==
  ASSUME Sane, ReachInv, Clean', SavesIInv', NEW r \in Req, Edit(r)
  PROVE  ReachInv'
<1>1. /\ Commanded /\ UNCHANGED <<mirror, queue, home, life>>
      /\ \E v \in Versions :
           /\ v = view.items[r] + 1 /\ view.items[r] > 0
           /\ view'.items = [view.items EXCEPT ![r] = v]
           /\ view'.shown = view.shown
           /\ wanted' = [wanted EXCEPT ![view.shown].items[r] = v]
           /\ pending' = [pending EXCEPT ![r] = v]
  BY EditEffect
<1>2. PICK v \in Versions :
           /\ v = view.items[r] + 1 /\ view.items[r] > 0
           /\ view'.items = [view.items EXCEPT ![r] = v]
           /\ view'.shown = view.shown
           /\ wanted' = [wanted EXCEPT ![view.shown].items[r] = v]
           /\ pending' = [pending EXCEPT ![r] = v]
  BY <1>1
<1> DEFINE s == view.shown
           items == [view.items EXCEPT ![r] = v]
<1>3. /\ up /\ up' /\ reply = NoReply /\ reply' = NoReply /\ dirs' = dirs
      /\ Ends.step = "ends"
      /\ WindowTells(view, mirror, pending, wanted, home, life)
      /\ QueueFits(queue, Ends, pending, wanted, home, s, life)
      /\ Arrivals(queue, Ends, home) /\ RewritesAlone(queue, Ends)
      /\ RequestsCome(queue, Ends, pending, dirs, wanted, home, life)
      /\ AllHeadersCome(queue, dirs, wanted, life)
      /\ queue \in Seq(Messages) /\ \A i \in DOMAIN queue : ThenAway(queue[i].then, s)
      /\ wanted \in [Coll -> Contents] /\ home \in [Req -> Coll \cup {0}]
      /\ wanted' \in [Coll -> Contents]
      /\ pending \in Items /\ s \in Coll /\ s # 0 /\ view.items \in Items
      /\ HomelyItems(view.items, s, home)
  BY <1>1, CommandFacts
<1>4. home[r] = s /\ v \in Nat /\ v > 0 /\ v >= view.items[r]
  BY <1>2, <1>3, BoundFacts DEF HomelyItems, Items
<1>5. view.items = wanted[s].items
  BY <1>3 DEF WindowTells
<1>6. wanted' = [wanted EXCEPT ![s].items = items]
  BY <1>2, <1>5
<1>7. /\ wanted'[s].items = items /\ \A c \in Coll : wanted'[c].headers = wanted[c].headers
      /\ \A c \in Coll : c # s => wanted'[c].items = wanted[c].items
      /\ \A x \in Req : home[x] # 0 =>
           Due(wanted', home, x) = IF home[x] = s THEN items[x] ELSE Due(wanted, home, x)
  BY <1>3, <1>6, WantedItems
<1>8. /\ items[r] = v /\ \A x \in Req : x # r => items[x] = wanted[s].items[x]
      /\ \A x \in Req : items[x] > 0 <=> wanted[s].items[x] > 0
      /\ pending'[r] = v /\ \A x \in Req : x # r => pending'[x] = pending[x]
  BY <1>2, <1>3, <1>4, <1>5 DEF Items
<1> HIDE DEF items
<1>9. /\ Due(wanted, home, r) = view.items[r] /\ Due(wanted', home, r) = v
      /\ \A x \in Req : x # r /\ home[x] # 0 => Due(wanted', home, x) = Due(wanted, home, x)
  BY <1>3, <1>4, <1>5, <1>7, <1>8 DEF Due
<1>10. WindowTells(view', mirror', pending', wanted', home', life')
  <2>1. view'.items = wanted'[view'.shown].items
    BY <1>2, <1>7 DEF items
  <2>2. \A c \in Coll : HomelyItems(wanted'[c].items, c, home)
    BY <1>3, <1>7, <1>8 DEF WindowTells, HomelyItems
  <2>3. \A x \in Req : pending'[x] > 0 => home[x] # 0 /\ pending'[x] = Due(wanted', home, x)
    BY <1>3, <1>4, <1>8, <1>9 DEF WindowTells
  <2>4. \A x \in Req : There(life, home, x) /\ home[x] = mirror.active =>
           mirror.items[x] \in {0, Due(wanted', home, x)}
           \/ (pending'[x] > 0 /\ pending'[x] = Due(wanted', home, x))
    BY <1>3, <1>4, <1>8, <1>9 DEF WindowTells, There
  <2> QED BY <1>1, <2>1, <2>2, <2>3, <2>4 DEF WindowTells
<1>11. Evolves(pending, wanted, home, s, life, pending', wanted', home, life)
  <2>1. Due(wanted, home, r) > 0 /\ Due(wanted', home, r) >= Due(wanted, home, r)
    BY <1>2, <1>4, <1>9
  <2>2. \A x \in Req : pending'[x] > 0 => (pending[x] > 0 /\ home[x] # 0) \/ home[x] = s
    BY <1>3, <1>4, <1>8 DEF WindowTells
  <2> QED BY <1>4, <1>9, <2>1, <2>2 DEF Evolves
<1>12. \A i \in DOMAIN queue : /\ MessageFits(queue[i], wanted', home, life)
                               /\ ThenFits(queue[i].then, pending', wanted', home, s, life)
  BY <1>3, <1>11, QueueKeeps
<1>13. QueueFits(queue', Ends, pending', wanted', home', view'.shown, life')
  BY <1>1, <1>2, <1>12, EndsFits DEF QueueFits
<1>14. RequestsCome(queue', Ends, pending', dirs, wanted', home', life')
  <2> SUFFICES ASSUME NEW x \in Req, There(life, home, x)
               PROVE  RequestComes(queue, Ends, pending', dirs[home[x]], x, home[x], Due(wanted', home, x))
    BY <1>1 DEF RequestsCome
  <2>1. RequestComes(queue, Ends, pending, dirs[home[x]], x, home[x], Due(wanted, home, x))
    BY <1>3 DEF RequestsCome
  <2>2. CASE x # r
    <3>1. Due(wanted', home, x) = Due(wanted, home, x) /\ pending'[x] = pending[x]
      BY <1>8, <1>9, <2>2 DEF There
    <3> QED BY <2>1, <3>1 DEF RequestComes, Waits
  <2>3. CASE x = r
    <3>1. PresenceComes(queue, dirs[home[r]], r, home[r], view.items[r])
      BY <1>9, <2>1, <2>3 DEF RequestComes
    <3>2. view.items[r] > 0 <=> v > 0
      BY <1>2, <1>4
    <3>3. PresenceComes(queue, dirs[home[r]], r, home[r], v)
      BY <3>1, <3>2, PresenceOf
    <3> QED BY <1>8, <1>9, <2>3, <3>3 DEF RequestComes, Waits
  <2> QED BY <2>2, <2>3
<1>15. AllHeadersCome(queue', dirs, wanted', life')
  BY <1>1, <1>3, <1>7 DEF AllHeadersCome
<1> QED BY <1>1, <1>3, <1>10, <1>13, <1>14, <1>15, CommandReached

LEMMA SetHeadersReach ==
  ASSUME Sane, ReachInv, Clean', SavesIInv', SetHeaders
  PROVE  ReachInv'
<1>1. /\ Commanded /\ view.active = mirror.active /\ view.shown = mirror.active
      /\ UNCHANGED <<view, pending, home, life>>
      /\ In(mirror.items) = In(wanted[view.active].items)
      /\ mirror'.items = mirror.items /\ mirror'.active = mirror.active
      /\ \E h \in Versions, m \in Messages :
           /\ wanted' = [wanted EXCEPT ![view.active].headers = h]
           /\ queue' = Append(queue, m)
           /\ m.op = "save" /\ m.coll = view.active /\ m.items = mirror.items
           /\ m.headers = h /\ m.then = Ends
  BY SetHeadersEffect
<1>2. PICK h \in Versions, m \in Messages :
           /\ wanted' = [wanted EXCEPT ![view.active].headers = h]
           /\ queue' = Append(queue, m)
           /\ m.op = "save" /\ m.coll = view.active /\ m.items = mirror.items
           /\ m.headers = h /\ m.then = Ends
  BY <1>1
<1> DEFINE s == view.shown
<1>3. /\ up /\ up' /\ reply = NoReply /\ reply' = NoReply /\ dirs' = dirs
      /\ Ends.step = "ends"
      /\ WindowTells(view, mirror, pending, wanted, home, life)
      /\ QueueFits(queue, Ends, pending, wanted, home, s, life)
      /\ Arrivals(queue, Ends, home) /\ RewritesAlone(queue, Ends)
      /\ RequestsCome(queue, Ends, pending, dirs, wanted, home, life)
      /\ AllHeadersCome(queue, dirs, wanted, life)
      /\ queue \in Seq(Messages) /\ \A i \in DOMAIN queue : ThenAway(queue[i].then, s)
      /\ wanted \in [Coll -> Contents] /\ home \in [Req -> Coll \cup {0}] /\ dirs \in [Coll -> Directories]
      /\ wanted' \in [Coll -> Contents]
      /\ s \in Coll /\ s # 0 /\ life[s] # "unused"
  BY <1>1, CommandFacts
<1>4. wanted' = [wanted EXCEPT ![s].headers = h] /\ m.coll = s
  BY <1>1, <1>2
<1>5. /\ wanted'[s].headers = h /\ \A c \in Coll : wanted'[c].items = wanted[c].items
      /\ \A c \in Coll : c # s => wanted'[c].headers = wanted[c].headers
      /\ \A x \in Req : home[x] # 0 => Due(wanted', home, x) = Due(wanted, home, x)
  BY <1>3, <1>4, WantedHeaders
<1>6. WindowTells(view', mirror', pending', wanted', home', life')
  <2>1. view.items = wanted'[s].items
    BY <1>3, <1>5 DEF WindowTells
  <2>2. \A c \in Coll : HomelyItems(wanted'[c].items, c, home)
    BY <1>3, <1>5 DEF WindowTells
  <2>3. \A x \in Req : pending[x] > 0 => home[x] # 0 /\ pending[x] = Due(wanted', home, x)
    BY <1>3, <1>5 DEF WindowTells
  <2>4. \A x \in Req : There(life, home, x) /\ home[x] = mirror.active =>
           mirror.items[x] \in {0, Due(wanted', home, x)}
           \/ (pending[x] > 0 /\ pending[x] = Due(wanted', home, x))
    BY <1>3, <1>5 DEF WindowTells, There
  <2> QED BY <1>1, <2>1, <2>2, <2>3, <2>4 DEF WindowTells
<1>7. Evolves(pending, wanted, home, s, life, pending, wanted', home, life)
  BY <1>3, <1>5 DEF Evolves, WindowTells
<1>8. MessageFits(m, wanted', home, life)
  BY <1>2, <1>3, <1>4 DEF MessageFits
<1>9. /\ QueueFits(queue', Ends, pending, wanted', home, s, life)
      /\ Arrivals(queue', Ends, home) /\ RewritesAlone(queue', Ends)
  BY <1>2, <1>3, <1>4, <1>7, <1>8, ShownGrows
<1>10. RequestsCome(queue', Ends, pending, dirs, wanted', home, life)
  <2> SUFFICES ASSUME NEW x \in Req, There(life, home, x)
               PROVE  RequestComes(queue', Ends, pending, dirs[home[x]], x, home[x], Due(wanted', home, x))
    BY DEF RequestsCome
  <2> DEFINE W == Due(wanted, home, x)
  <2>1. RequestComes(queue, Ends, pending, dirs[home[x]], x, home[x], W)
    BY <1>3 DEF RequestsCome
  <2>2. W \in Nat /\ home[x] \in Coll /\ dirs[home[x]] \in Directories /\ Due(wanted', home, x) = W
    BY <1>3, <1>5, DueTypes DEF There
  <2>3. \A w : ~Carried(Ends, x, w)
    BY <1>3 DEF Carried
  <2>4. home[x] = s => /\ W = wanted[s].items[x]
                       /\ mirror.items[x] \in {0, W} \/ pending[x] = W
    BY <1>1, <1>3 DEF Due, WindowTells
  <2>5. home[x] = s => (mirror.items[x] > 0 <=> W > 0)
    BY <1>1, <2>4 DEF In
  <2> HIDE DEF W
  <2>6. Follows(m, Ends, pending, pending, home[x], x, W)
    <3>1. CASE home[x] = s
      BY <1>2, <1>4, <2>2, <2>4, <2>5, <3>1 DEF Follows, Writes
    <3>2. CASE home[x] # s
      BY <1>2, <1>4, <2>2, <2>3, <3>2, SaveFollows
    <3> QED BY <3>1, <3>2
  <2> QED BY <1>2, <1>3, <2>1, <2>2, <2>6, RequestFollows
<1>11. AllHeadersCome(queue', dirs, wanted', life)
  <2> SUFFICES ASSUME NEW c \in Coll, life[c] # "deleted"
               PROVE  HeadersCome(queue', dirs[c], c, wanted'[c].headers)
    BY DEF AllHeadersCome
  <2>1. HeadersCome(queue, dirs[c], c, wanted[c].headers) /\ dirs[c] \in Directories
    BY <1>3 DEF AllHeadersCome
  <2>2. CASE c = s
    <3>1. m \in Heads(s, h)
      BY <1>2, <1>4 DEF Heads
    <3>2. (dirs[s].headers = h) \in BOOLEAN
      OBVIOUS
    <3>3. Comes(Append(queue, m), dirs[s].headers = h, Heads(s, h), HeadsOnly(s, h), {})
      BY <1>3, <3>1, <3>2, ComesSet
    <3> QED BY <1>2, <1>5, <2>2, <3>3 DEF HeadersCome
  <2>3. CASE c # s
    BY <1>2, <1>3, <1>4, <1>5, <2>1, <2>3, HeadersFollow
  <2> QED BY <2>2, <2>3
<1> QED BY <1>1, <1>3, <1>6, <1>9, <1>10, <1>11, CommandReached

\* The tree shown changes in r alone, to the version v: the window tells so, and a save of it brings
\* the other requests and the headers still.
LEMMA RestructureTells ==
  ASSUME Sane, ReachInv, SavesIInv', NEW r \in Req, NEW v \in Versions,
         NEW items \in Items, items = [view.items EXCEPT ![r] = v], Restructured(items),
         home'[r] = view.shown, \A x \in Req : x # r => home'[x] = home[x],
         life' = life, \A x \in Req : x # r => pending'[x] = pending[x], pending'[r] = 0,
         home[r] \in {0, view.shown}
  PROVE  /\ WindowTells(view', mirror', pending', wanted', home', life')
         /\ Due(wanted', home', r) = v
         /\ \A x \in Req : x # r /\ home[x] # 0 => Due(wanted', home', x) = Due(wanted, home, x)
         /\ \A x \in Req : x # r /\ home[x] = view.shown => items[x] = Due(wanted, home, x)
         /\ items[r] = v
         /\ \A c \in Coll : wanted'[c].headers = wanted[c].headers
<1> DEFINE s == view.shown
<1>1. /\ Commanded /\ s = mirror.active
      /\ view'.items = items /\ view'.shown = s
      /\ wanted' = [wanted EXCEPT ![s].items = items]
      /\ mirror'.items = items /\ mirror'.active = mirror.active
  BY DEF Restructured
<1>2. /\ WindowTells(view, mirror, pending, wanted, home, life)
      /\ wanted \in [Coll -> Contents] /\ home \in [Req -> Coll \cup {0}]
      /\ s \in Coll /\ s # 0 /\ view.items \in Items
      /\ HomelyItems(view.items, s, home)
  BY <1>1, CommandFacts
<1>3. /\ wanted'[s].items = items /\ \A c \in Coll : wanted'[c].headers = wanted[c].headers
      /\ \A c \in Coll : c # s => wanted'[c].items = wanted[c].items
  BY <1>1, <1>2, WantedItems
<1>4. items[r] = v /\ \A x \in Req : x # r => items[x] = view.items[x]
  BY <1>2 DEF Items
<1>5. view.items = wanted[s].items
  BY <1>2 DEF WindowTells
<1>6. Due(wanted', home', r) = v
  BY <1>3, <1>4 DEF Due
<1>7. \A x \in Req : x # r /\ home[x] = s => items[x] = Due(wanted, home, x)
  BY <1>4, <1>5 DEF Due
<1>8. ASSUME NEW x \in Req, x # r, home[x] # 0 PROVE Due(wanted', home', x) = Due(wanted, home, x)
  <2>1. home'[x] = home[x] /\ home[x] \in Coll
    BY <1>2, <1>8
  <2>2. CASE home[x] = s
    <3>1. Due(wanted', home', x) = items[x]
      BY <1>3, <2>1, <2>2 DEF Due
    <3> QED BY <1>7, <1>8, <2>2, <3>1
  <2>3. CASE home[x] # s
    BY <1>3, <2>1, <2>3 DEF Due
  <2> QED BY <2>2, <2>3
<1>9. \A c \in Coll : HomelyItems(wanted'[c].items, c, home')
  <2> SUFFICES ASSUME NEW c \in Coll, NEW x \in Req, wanted'[c].items[x] > 0
               PROVE  home'[x] = c
    BY DEF HomelyItems
  <2>1. CASE c = s
    BY <1>2, <1>3, <1>4, <2>1 DEF HomelyItems
  <2>2. CASE c # s
    <3>1. home[x] = c
      BY <1>2, <1>3, <2>2 DEF WindowTells, HomelyItems
    <3>2. x # r
      BY <1>2, <2>2, <3>1, BoundFacts
    <3> QED BY <3>1, <3>2
  <2> QED BY <2>1, <2>2
<1>10. \A x \in Req : pending'[x] > 0 => home'[x] # 0 /\ pending'[x] = Due(wanted', home', x)
  BY <1>2, <1>8 DEF WindowTells
<1>11. \A x \in Req : home'[x] = s => items[x] = Due(wanted', home', x)
  BY <1>3 DEF Due
<1>12. WindowTells(view', mirror', pending', wanted', home', life')
  BY <1>1, <1>3, <1>9, <1>10, <1>11 DEF WindowTells
<1> QED BY <1>3, <1>4, <1>6, <1>7, <1>8, <1>12

LEMMA AddRequestReach ==
  ASSUME Sane, ReachInv, Clean', SavesIInv', NEW r \in Req, AddRequest(r)
  PROVE  ReachInv'
<1> DEFINE s == view.shown
           items == [view.items EXCEPT ![r] = 1]
<1>1. /\ Restructured(items) /\ items \in Items
      /\ home[r] = 0 /\ home' = [home EXCEPT ![r] = s]
      /\ UNCHANGED <<pending, life>>
      /\ \E m \in Messages : queue' = Append(queue, m) /\ SavesShown(m, items)
  BY AddRequestEffect
<1>2. items = [view.items EXCEPT ![r] = 1]
  OBVIOUS
<1> HIDE DEF items
<1>3. PICK m \in Messages : queue' = Append(queue, m) /\ SavesShown(m, items)
  BY <1>1
<1>4. /\ m.op = "save" /\ m.coll = s /\ m.items = items /\ m.headers = wanted[s].headers /\ m.then = Ends
      /\ Commanded /\ view'.shown = s
  BY <1>1, <1>3 DEF SavesShown, Restructured
<1>5. /\ up /\ up' /\ reply = NoReply /\ reply' = NoReply /\ dirs' = dirs
      /\ Ends.step = "ends"
      /\ WindowTells(view, mirror, pending, wanted, home, life)
      /\ QueueFits(queue, Ends, pending, wanted, home, s, life)
      /\ Arrivals(queue, Ends, home) /\ RewritesAlone(queue, Ends)
      /\ RequestsCome(queue, Ends, pending, dirs, wanted, home, life)
      /\ AllHeadersCome(queue, dirs, wanted, life)
      /\ queue \in Seq(Messages) /\ \A i \in DOMAIN queue : ThenAway(queue[i].then, s)
      /\ wanted \in [Coll -> Contents] /\ home \in [Req -> Coll \cup {0}] /\ dirs \in [Coll -> Directories]
      /\ wanted' \in [Coll -> Contents] /\ home' \in [Req -> Coll \cup {0}]
      /\ s \in Coll /\ s # 0 /\ life[s] # "unused" /\ pending \in Items
  BY <1>4, CommandFacts
<1>6. home'[r] = s /\ \A x \in Req : x # r => home'[x] = home[x]
  BY <1>1, <1>5
<1>7. pending[r] = 0 /\ 1 \in Versions
  <2>1. pending[r] \in Nat
    BY <1>5, BoundFacts DEF Items
  <2>2. ~(pending[r] > 0)
    BY <1>1, <1>5 DEF WindowTells
  <2> QED BY <2>1, <2>2, BoundFacts
<1>8. /\ WindowTells(view', mirror', pending', wanted', home', life')
      /\ Due(wanted', home', r) = 1
      /\ \A x \in Req : x # r /\ home[x] # 0 => Due(wanted', home', x) = Due(wanted, home, x)
      /\ \A x \in Req : x # r /\ home[x] = s => items[x] = Due(wanted, home, x)
      /\ items[r] = 1
      /\ \A c \in Coll : wanted'[c].headers = wanted[c].headers
  BY <1>1, <1>2, <1>6, <1>7, RestructureTells
<1>9. Evolves(pending, wanted, home, s, life, pending, wanted', home', life)
  BY <1>1, <1>5, <1>6, <1>8 DEF Evolves, WindowTells
<1>10. MessageFits(m, wanted', home', life)
  BY <1>4, <1>5 DEF MessageFits
<1>11. /\ QueueFits(queue', Ends, pending, wanted', home', s, life)
       /\ Arrivals(queue', Ends, home') /\ RewritesAlone(queue', Ends)
  BY <1>3, <1>4, <1>5, <1>9, <1>10, ShownGrows
<1>12. RequestsCome(queue', Ends, pending, dirs, wanted', home', life)
  <2> SUFFICES ASSUME NEW x \in Req, There(life, home', x)
               PROVE  RequestComes(queue', Ends, pending, dirs[home'[x]], x, home'[x], Due(wanted', home', x))
    BY DEF RequestsCome
  <2>1. CASE x # r
    <3> DEFINE W == Due(wanted, home, x)
    <3>1. There(life, home, x) /\ home'[x] = home[x] /\ Due(wanted', home', x) = W
      BY <1>6, <1>8, <2>1 DEF There
    <3>2. RequestComes(queue, Ends, pending, dirs[home[x]], x, home[x], W)
      BY <1>5, <3>1 DEF RequestsCome
    <3>3. W \in Nat /\ home[x] \in Coll /\ dirs[home[x]] \in Directories
      BY <1>5, <3>1, DueTypes DEF There
    <3>4. \A w : ~Carried(Ends, x, w)
      BY <1>5 DEF Carried
    <3>5. m.coll = home[x] => m.items[x] = W
      BY <1>4, <1>8, <2>1
    <3> HIDE DEF W
    <3>6. Follows(m, Ends, pending, pending, home[x], x, W)
      BY <1>4, <3>3, <3>4, <3>5, SaveFollows
    <3> QED BY <1>3, <1>5, <3>1, <3>2, <3>3, <3>6, RequestFollows
  <2>2. CASE x = r
    <3>1. m \in Puts(s, r, 1) /\ m \in Writes(s, r, 1)
      BY <1>4, <1>8 DEF Puts, Writes
    <3>2. \A i \in DOMAIN queue : queue[i] \notin Patches(r, 1) /\ queue[i] \notin {}
      BY <1>1, <1>5 DEF Patches, QueueFits, MessageFits
    <3>3. (HoldsIn(dirs[s], r) > 0 <=> 1 > 0) \in BOOLEAN /\ (HoldsIn(dirs[s], r) = 1) \in BOOLEAN
      OBVIOUS
    <3>4. PresenceComes(queue', dirs[s], r, s, 1)
      BY <1>3, <1>5, <3>1, <3>2, <3>3, ComesSet DEF PresenceComes
    <3>5. VersionComes(queue', dirs[s], r, s, 1)
      BY <1>3, <1>5, <3>1, <3>2, <3>3, ComesSet DEF VersionComes
    <3> QED BY <1>6, <1>8, <2>2, <3>4, <3>5 DEF RequestComes
  <2> QED BY <2>1, <2>2
<1>13. AllHeadersCome(queue', dirs, wanted', life)
  <2> SUFFICES ASSUME NEW c \in Coll, life[c] # "deleted"
               PROVE  HeadersCome(queue', dirs[c], c, wanted[c].headers)
    BY <1>8 DEF AllHeadersCome
  <2>1. HeadersCome(queue, dirs[c], c, wanted[c].headers) /\ dirs[c] \in Directories
    BY <1>5 DEF AllHeadersCome
  <2> QED BY <1>3, <1>4, <1>5, <2>1, HeadersFollow
<1> QED BY <1>1, <1>4, <1>5, <1>8, <1>11, <1>12, <1>13, CommandReached

LEMMA DeleteRequestReach ==
  ASSUME Sane, ReachInv, Clean', SavesIInv', NEW r \in Req, DeleteRequest(r)
  PROVE  ReachInv'
<1> DEFINE s == view.shown
           items == [view.items EXCEPT ![r] = 0]
<1>1. /\ Restructured(items) /\ items \in Items
      /\ view.items[r] > 0 /\ pending' = [pending EXCEPT ![r] = 0]
      /\ UNCHANGED <<home, life>>
      /\ \E m, n \in Messages :
           /\ queue' = Append(Append(queue, m), n)
           /\ SavesShown(m, items)
           /\ n.op = "delete" /\ n.req = r /\ n.then = Ends
  BY DeleteRequestEffect
<1>2. items = [view.items EXCEPT ![r] = 0]
  OBVIOUS
<1> HIDE DEF items
<1>3. PICK m, n \in Messages :
           /\ queue' = Append(Append(queue, m), n)
           /\ SavesShown(m, items)
           /\ n.op = "delete" /\ n.req = r /\ n.then = Ends
  BY <1>1
<1>4. /\ m.op = "save" /\ m.coll = s /\ m.items = items /\ m.headers = wanted[s].headers /\ m.then = Ends
      /\ Commanded /\ view'.shown = s
  BY <1>1, <1>3 DEF SavesShown, Restructured
<1>5. /\ up /\ up' /\ reply = NoReply /\ reply' = NoReply /\ dirs' = dirs
      /\ Ends.step = "ends"
      /\ WindowTells(view, mirror, pending, wanted, home, life)
      /\ QueueFits(queue, Ends, pending, wanted, home, s, life)
      /\ Arrivals(queue, Ends, home) /\ RewritesAlone(queue, Ends)
      /\ RequestsCome(queue, Ends, pending, dirs, wanted, home, life)
      /\ AllHeadersCome(queue, dirs, wanted, life)
      /\ queue \in Seq(Messages) /\ \A i \in DOMAIN queue : ThenAway(queue[i].then, s)
      /\ wanted \in [Coll -> Contents] /\ home \in [Req -> Coll \cup {0}] /\ dirs \in [Coll -> Directories]
      /\ wanted' \in [Coll -> Contents] /\ home' \in [Req -> Coll \cup {0}]
      /\ s \in Coll /\ s # 0 /\ life[s] # "unused" /\ pending \in Items
      /\ HomelyItems(view.items, s, home)
  BY <1>4, CommandFacts
<1>6. home[r] = s
  BY <1>1, <1>5 DEF HomelyItems
<1>7. /\ pending'[r] = 0 /\ \A x \in Req : x # r => pending'[x] = pending[x]
      /\ 0 \in Versions
  BY <1>1, <1>5, BoundFacts DEF Items
<1>8. /\ WindowTells(view', mirror', pending', wanted', home', life')
      /\ Due(wanted', home', r) = 0
      /\ \A x \in Req : x # r /\ home[x] # 0 => Due(wanted', home', x) = Due(wanted, home, x)
      /\ \A x \in Req : x # r /\ home[x] = s => items[x] = Due(wanted, home, x)
      /\ items[r] = 0
      /\ \A c \in Coll : wanted'[c].headers = wanted[c].headers
  BY <1>1, <1>2, <1>6, <1>7, RestructureTells
<1> DEFINE q == Append(queue, m)
<1>9. Evolves(pending, wanted, home, s, life, pending', wanted', home, life)
  BY <1>1, <1>5, <1>7, <1>8 DEF Evolves, WindowTells
<1>10. MessageFits(m, wanted', home, life) /\ MessageFits(n, wanted', home, life)
  BY <1>1, <1>3, <1>4, <1>5, <1>6, <1>8 DEF MessageFits
<1>11. /\ QueueFits(q, Ends, pending', wanted', home, s, life)
       /\ Arrivals(q, Ends, home) /\ RewritesAlone(q, Ends)
       /\ q \in Seq(Messages) /\ \A i \in DOMAIN q : ThenAway(q[i].then, s)
  BY <1>4, <1>5, <1>9, <1>10, ShownGrows
<1> HIDE DEF q
<1>12. Evolves(pending', wanted', home, s, life, pending', wanted', home, life)
  <2>1. \A x \in Req : pending'[x] > 0 => home[x] # 0
    BY <1>1, <1>8 DEF WindowTells
  <2> QED BY <2>1, StillEvolves
<1>13. queue' = Append(q, n) /\ n.then = Ends /\ n.op = "delete" /\ n.req = r
  BY <1>3 DEF q
<1>14. /\ QueueFits(queue', Ends, pending', wanted', home, s, life)
       /\ Arrivals(queue', Ends, home) /\ RewritesAlone(queue', Ends)
  BY <1>5, <1>10, <1>11, <1>12, <1>13, ShownGrows
<1>15. \A w, x : ~Carried(Ends, x, w)
  BY <1>5 DEF Carried
<1>16. ASSUME NEW x \in Req, NEW d \in Directories, NEW w \in Nat,
              RequestComes(q, Ends, pending', d, x, home[x], w)
       PROVE  RequestComes(queue', Ends, pending', d, x, home[x], w)
  <2>1. Follows(n, Ends, pending', pending', home[x], x, w)
    BY <1>13, <1>15, OtherFollows
  <2> QED BY <1>11, <1>13, <1>16, <2>1, RequestFollows
<1>17. RequestsCome(queue', Ends, pending', dirs, wanted', home', life)
  <2> SUFFICES ASSUME NEW x \in Req, There(life, home, x)
               PROVE  RequestComes(queue', Ends, pending', dirs[home[x]], x, home[x], Due(wanted', home', x))
    BY <1>1 DEF RequestsCome
  <2> DEFINE W == Due(wanted', home', x)
  <2>1. home[x] \in Coll /\ dirs[home[x]] \in Directories
    BY <1>5 DEF There
  <2>2. CASE x # r
    <3>1. W = Due(wanted, home, x)
      BY <1>8, <2>2 DEF There
    <3>2. RequestComes(queue, Ends, pending, dirs[home[x]], x, home[x], W)
      BY <1>5, <3>1 DEF RequestsCome
    <3>3. W \in Nat
      BY <1>5, <3>1, DueTypes DEF There
    <3>4. (m.coll = home[x] => m.items[x] = W) /\ pending'[x] = pending[x]
      BY <1>4, <1>7, <1>8, <2>2, <3>1
    <3> HIDE DEF W
    <3>5. Follows(m, Ends, pending, pending', home[x], x, W)
      BY <1>4, <1>15, <3>3, <3>4, SaveFollows
    <3>6. RequestComes(q, Ends, pending', dirs[home[x]], x, home[x], W)
      BY <1>5, <2>1, <3>2, <3>5, RequestFollows DEF q
    <3> QED BY <1>16, <2>1, <3>3, <3>6 DEF W
  <2>3. CASE x = r
    <3>1. m \in Puts(s, r, 0) /\ Patches(r, 0) = {}
      BY <1>4, <1>8 DEF Puts, Patches
    <3>2. (HoldsIn(dirs[s], r) > 0 <=> 0 > 0) \in BOOLEAN
      OBVIOUS
    <3>3. PresenceComes(q, dirs[s], r, s, 0)
      BY <1>5, <3>1, <3>2, ComesSet DEF PresenceComes, q
    <3>4. RequestComes(q, Ends, pending', dirs[home[r]], r, home[r], 0)
      BY <1>6, <3>3 DEF RequestComes
    <3> QED BY <1>8, <1>16, <2>1, <2>3, <3>4
  <2> QED BY <2>2, <2>3
<1>18. AllHeadersCome(queue', dirs, wanted', life)
  <2> SUFFICES ASSUME NEW c \in Coll, life[c] # "deleted"
               PROVE  HeadersCome(queue', dirs[c], c, wanted[c].headers)
    BY <1>8 DEF AllHeadersCome
  <2>1. HeadersCome(queue, dirs[c], c, wanted[c].headers) /\ dirs[c] \in Directories
    BY <1>5 DEF AllHeadersCome
  <2>2. HeadersCome(q, dirs[c], c, wanted[c].headers)
    BY <1>4, <1>5, <2>1, HeadersFollow DEF q
  <2> QED BY <1>11, <1>13, <2>1, <2>2, HeadersFollow
<1> QED BY <1>1, <1>4, <1>5, <1>8, <1>14, <1>17, <1>18, CommandReached

-----------------------------------------------------------------------------
(* The collections with requests are listed *)

\* What the manifest lists, and where a request was made, was listed once.
HomesListed == Clean =>
  /\ \A c \in manifest.colls : life[c] \in {"listed", "deleted"}
  /\ \A r \in Req : home[r] # 0 => life[home[r]] \in {"listed", "deleted"}

LEMMA HomesStay ==
  ASSUME HomesListed, Clean, UNCHANGED <<manifest, home, life>> PROVE HomesListed'
BY DEF HomesListed

LEMMA HomesTypes ==
  ASSUME DeletionsInv, CleanInv, Clean
  PROVE  /\ manifest \in [colls : SUBSET Coll, active : Coll \cup {0}]
         /\ home \in [Req -> Coll \cup {0}]
         /\ life \in [Coll -> {"unused", "made", "listed", "deleted"}]
         /\ Made
BY DEF DeletionsInv, SavesIInv, Shapes, StoresFit, HistoryFits, FaultlessInv, CleanInv, Clean

LEMMA CommandsHomes ==
  ASSUME Sane, HomesListed, Clean', NEW r \in Req, Edit(r) \/ AddRequest(r) \/ DeleteRequest(r)
  PROVE  HomesListed'
<1>1. CASE Edit(r)
  <2>1. UNCHANGED <<manifest, home, life>>
    BY <1>1, EditEffect DEF Commanded
  <2> QED BY <2>1, HomesStay DEF Sane
<1>2. CASE DeleteRequest(r)
  <2>1. UNCHANGED <<manifest, home, life>>
    BY <1>2, DeleteRequestEffect DEF Restructured, Commanded
  <2> QED BY <2>1, HomesStay DEF Sane
<1>3. CASE AddRequest(r)
  <2>1. /\ manifest' = manifest /\ life' = life /\ home' = [home EXCEPT ![r] = view.shown] /\ up
    BY <1>3, AddRequestEffect DEF Restructured, Commanded
  <2>2. view.shown \in manifest.colls /\ home \in [Req -> Coll \cup {0}]
    BY <2>1, CleanFacts, HomesTypes DEF Tracked, Sane
  <2> QED BY <2>1, <2>2 DEF HomesListed, Sane
<1> QED BY <1>1, <1>2, <1>3

LEMMA CollectionsHomes ==
  ASSUME Sane, HomesListed, Clean', NEW c \in Coll,
         SelectCollection(c) \/ AddCollection(c) \/ DeleteCollection(c)
  PROVE  HomesListed'
<1>1. CASE SelectCollection(c)
  <2>1. UNCHANGED <<manifest, home, life>>
    BY <1>1, SelectEffect DEF Alone, Commanded
  <2> QED BY <2>1, HomesStay DEF Sane
<1>2. CASE AddCollection(c)
  <2>1. manifest' = manifest /\ home' = home /\ life[c] = "unused" /\ life' = [life EXCEPT ![c] = "made"]
    BY <1>2, AddCollectionEffect DEF Alone, Commanded
  <2>2. \A x \in Coll : x # c => life'[x] = life[x]
    BY <2>1, HomesTypes DEF Sane
  <2>3. manifest.colls \subseteq Coll /\ (\A r \in Req : home[r] # 0 => home[r] \in Coll)
    BY HomesTypes DEF Sane
  <2> QED BY <2>1, <2>2, <2>3 DEF HomesListed, Sane
<1>3. CASE DeleteCollection(c)
  <2>1. manifest' = manifest /\ home' = home /\ life' = [life EXCEPT ![c] = "deleted"]
    BY <1>3, DeleteCollectionEffect DEF Alone, Commanded
  <2>2. \A x \in Coll : life'[x] \in {life[x], "deleted"}
    BY <2>1, HomesTypes DEF Sane
  <2>3. manifest.colls \subseteq Coll /\ (\A r \in Req : home[r] # 0 => home[r] \in Coll)
    BY HomesTypes DEF Sane
  <2> QED BY <2>1, <2>2, <2>3 DEF HomesListed, Sane
<1> QED BY <1>1, <1>2, <1>3

LEMMA ResumesHomes ==
  ASSUME Sane, HomesListed, Clean',
         \/ NextPatch \/ Flushed \/ Rewrite
         \/ SwitchSaved \/ SwitchListed \/ AddStored \/ DeleteListed
         \/ AddSaved \/ DeleteLoaded \/ DeleteShown \/ SwitchLoaded \/ AddListed
  PROVE  HomesListed'
<1>1. \E s : Resume(s)
  BY DEF NextPatch, Flushed, Rewrite, SwitchSaved, SwitchListed, AddStored, DeleteListed,
         AddSaved, DeleteLoaded, DeleteShown, SwitchLoaded, AddListed
<1>2. UNCHANGED <<manifest, home, life>>
  BY <1>1 DEF Resume, mainVars
<1> QED BY <1>2, HomesStay DEF Sane

LEMMA OthersHomes ==
  ASSUME Sane, HomesListed, Clean', SetHeaders \/ TimerFires
  PROVE  HomesListed'
<1>1. UNCHANGED <<manifest, home, life>>
  BY SetHeadersEffect, TimerEffect DEF Commanded
<1> QED BY <1>1, HomesStay DEF Sane

\* The manifest served lists what the window does, and nothing in it is unused.
LEMMA ManifestServed ==
  ASSUME Sane, ListingInv, Clean', ServeManifest
  PROVE  /\ home' = home /\ manifest'.colls \subseteq Coll
         /\ life' = [c \in Coll |-> IF c \in manifest'.colls /\ life[c] = "made" THEN "listed" ELSE life[c]]
         /\ \A c \in manifest'.colls : life[c] # "unused"
<1> DEFINE m == Head(queue)
<1>1. /\ ServedWell /\ m.op = "manifest" /\ manifest' = [colls |-> m.colls, active |-> m.coll]
  BY ServesEffect
<1>2. up /\ home' = home /\ m = queue[1] /\ 1 \in DOMAIN queue
  BY <1>1 DEF ServedWell
<1>3. m.colls = view.colls
  BY <1>1, <1>2 DEF ListingInv, ManifestInv, Lists, Sane
<1>4. view.colls \subseteq Coll /\ \A c \in view.colls : life[c] # "unused"
  BY <1>2, CleanFacts DEF Sane, Tracked, Known
<1>5. \/ life' = [c \in Coll |-> IF c \in m.colls /\ life[c] = "made" THEN "listed" ELSE life[c]]
      \/ Fails("failed")
  BY DEF ServeManifest
<1>6. ~Fails("failed")
  BY DEF Fails, Clean
<1> QED BY <1>1, <1>2, <1>3, <1>4, <1>5, <1>6

LEMMA ServesHomes ==
  ASSUME Sane, ListingInv, HomesListed, Clean',
         \/ ServeSave \/ ServeLoad \/ ServeManifest \/ ServeUpdate \/ ServeDelete
         \/ ServeRemove \/ ServeEnvironments
  PROVE  HomesListed'
<1>1. CASE ServeManifest
  <2>1. /\ home' = home /\ manifest'.colls \subseteq Coll
        /\ life' = [c \in Coll |-> IF c \in manifest'.colls /\ life[c] = "made" THEN "listed" ELSE life[c]]
        /\ \A c \in manifest'.colls : life[c] # "unused"
    BY <1>1, ManifestServed
  <2>2. home \in [Req -> Coll \cup {0}] /\ life \in [Coll -> {"unused", "made", "listed", "deleted"}]
    BY HomesTypes DEF Sane
  <2>3. \A c \in manifest'.colls : life'[c] \in {"listed", "deleted"}
    BY <2>1, <2>2
  <2>4. \A c \in Coll : life[c] \in {"listed", "deleted"} => life'[c] = life[c]
    BY <2>1
  <2>5. \A r \in Req : home[r] # 0 => life'[home[r]] \in {"listed", "deleted"}
    BY <2>2, <2>4 DEF HomesListed, Sane
  <2> QED BY <2>1, <2>3, <2>5 DEF HomesListed
<1>2. CASE \/ ServeSave \/ ServeLoad \/ ServeUpdate \/ ServeDelete \/ ServeRemove \/ ServeEnvironments
  <2>1. UNCHANGED <<manifest, home, life>>
    BY <1>2, ServesEffect DEF ServedWell
  <2> QED BY <2>1, HomesStay DEF Sane
<1> QED BY <1>1, <1>2

LEMMA BootHomes ==
  ASSUME DeletionsInv, CleanInv, Clean, HomesListed, Clean', Boot
  PROVE  HomesListed'
<1>1. /\ home' = home
      /\ \E c \in Coll :
           \/ manifest' = manifest /\ life' = Relisted
           \/ /\ manifest' = [colls |-> {c}, active |-> c]
              /\ life' = [life EXCEPT ![c] = "listed"]
  BY BootEffect
<1>2. /\ home \in [Req -> Coll \cup {0}] /\ life \in [Coll -> {"unused", "made", "listed", "deleted"}]
      /\ manifest.colls \subseteq Coll
  BY HomesTypes
<1>3. CASE manifest' = manifest /\ life' = Relisted
  <2>1. \A x \in Coll : life'[x] \in {life[x], "listed"}
    BY <1>2, <1>3 DEF Relisted
  <2> QED BY <1>1, <1>2, <1>3, <2>1 DEF HomesListed
<1>4. ASSUME NEW c \in Coll, manifest' = [colls |-> {c}, active |-> c], life' = [life EXCEPT ![c] = "listed"]
      PROVE  HomesListed'
  <2>1. life'[c] = "listed" /\ \A x \in Coll : life'[x] \in {life[x], "listed"}
    BY <1>2, <1>4
  <2>2. manifest'.colls = {c}
    BY <1>4
  <2> QED BY <1>1, <1>2, <2>1, <2>2 DEF HomesListed
<1> QED BY <1>1, <1>3, <1>4

LEMMA HomesStep ==
  ASSUME DeletionsInv, CleanInv, ListingInv, HomesListed, [Next]_vars
  PROVE  HomesListed'
<1> SUFFICES ASSUME Clean' PROVE HomesListed'
  BY DEF HomesListed
<1>1. Clean
  BY CleanBefore DEF DeletionsInv
<1>2. Sane
  BY <1>1 DEF Sane
<1>3. CASE Boot
  BY <1>1, <1>3, BootHomes
<1>4. CASE Crash \/ UNCHANGED vars
  <2>1. UNCHANGED <<manifest, home, life>>
    BY <1>4 DEF Crash, vars, mainVars, historyVars
  <2> QED BY <1>1, <2>1, HomesStay
<1>5. ASSUME NEW r \in Req, Edit(r) \/ AddRequest(r) \/ DeleteRequest(r) PROVE HomesListed'
  BY <1>2, <1>5, CommandsHomes
<1>6. ASSUME NEW c \in Coll, SelectCollection(c) \/ AddCollection(c) \/ DeleteCollection(c) PROVE HomesListed'
  BY <1>2, <1>6, CollectionsHomes
<1>7. CASE SetHeaders \/ TimerFires
  BY <1>2, <1>7, OthersHomes
<1>8. CASE RewriteHeaders
  BY <1>2, <1>8, NeverRewritesHeaders
<1>9. CASE \/ NextPatch \/ Flushed \/ Rewrite
           \/ SwitchSaved \/ SwitchListed \/ AddStored \/ DeleteListed
           \/ AddSaved \/ DeleteLoaded \/ DeleteShown \/ SwitchLoaded \/ AddListed
  BY <1>2, <1>9, ResumesHomes
<1>10. CASE ServeSave \/ ServeLoad \/ ServeManifest \/ ServeUpdate \/ ServeDelete
            \/ ServeRemove \/ ServeEnvironments
  BY <1>2, <1>10, ServesHomes
<1> QED BY <1>3, <1>4, <1>5, <1>6, <1>7, <1>8, <1>9, <1>10 DEF Next

LEMMA HomesInit == Init => HomesListed
BY DEF Init, HomesListed

-----------------------------------------------------------------------------
(* What was sent is served *)

\* The first message m, served, makes of the directory d another, d2: what it should of r.
ServedFor(m, d, d2, r, c, w) ==
  /\ m \in Puts(c, r, w) => (HoldsIn(d2, r) > 0 <=> w > 0)
  /\ (HoldsIn(d, r) > 0 <=> w > 0) /\ m \in PutsOnly(c, r, w) => (HoldsIn(d2, r) > 0 <=> w > 0)
  /\ w > 0 /\ m \in Writes(c, r, w) => HoldsIn(d2, r) = w
  /\ w > 0 /\ HoldsIn(d, r) = w /\ m \in WritesOnly(c, r, w) => HoldsIn(d2, r) = w

LEMMA HoldsNat ==
  ASSUME NEW d \in Directories, NEW r \in Req
  PROVE  HoldsIn(d, r) \in Versions /\ HoldsIn(d, r) \in Nat
<1>1. d.files[r] \in Versions
  BY DEF Directories
<1>2. HoldsIn(d, r) \in Versions
  BY <1>1, BoundFacts DEF HoldsIn
<1> QED BY <1>2, BoundFacts

LEMMA RequestServed ==
  ASSUME NEW q \in Seq(Messages), q # <<>>, NEW p, NEW d \in Directories, NEW d2 \in Directories,
         NEW r \in Req, NEW c, NEW w \in Nat, RequestComes(q, Ends, p, d, r, c, w),
         ServedFor(Head(q), d, d2, r, c, w)
  PROVE  RequestComes(Tail(q), Head(q).then, p, d2, r, c, w)
<1>1. PresenceComes(Tail(q), d2, r, c, w)
  <2>1. (HoldsIn(d, r) > 0 <=> w > 0) \in BOOLEAN /\ (HoldsIn(d2, r) > 0 <=> w > 0) \in BOOLEAN
    OBVIOUS
  <2>2. Comes(q, HoldsIn(d, r) > 0 <=> w > 0, Puts(c, r, w), PutsOnly(c, r, w), Patches(r, w))
    BY DEF RequestComes, PresenceComes
  <2>3. /\ Head(q) \in Puts(c, r, w) => (HoldsIn(d2, r) > 0 <=> w > 0)
        /\ (HoldsIn(d, r) > 0 <=> w > 0) /\ Head(q) \in PutsOnly(c, r, w) => (HoldsIn(d2, r) > 0 <=> w > 0)
    BY DEF ServedFor
  <2>4. Comes(Tail(q), HoldsIn(d2, r) > 0 <=> w > 0, Puts(c, r, w), PutsOnly(c, r, w), Patches(r, w))
    BY <2>1, <2>2, <2>3, ComesServed
  <2> QED BY <2>4 DEF PresenceComes
<1>2. ASSUME w > 0 PROVE Waits(Tail(q), Head(q).then, p, r, w) \/ VersionComes(Tail(q), d2, r, c, w)
  <2>1. CASE Waits(q, Ends, p, r, w)
    <3>1. ~Carried(Ends, r, w)
      BY StepsOf DEF Carried
    <3>2. CASE p[r] = w
      BY <3>2 DEF Waits
    <3>3. ASSUME NEW i \in DOMAIN q, Carried(q[i].then, r, w)
          PROVE  Waits(Tail(q), Head(q).then, p, r, w)
      <4>1. CASE i = 1
        <5>1. Head(q) = q[i]
          BY <4>1, HeadAndTail
        <5> QED BY <3>3, <5>1 DEF Waits
      <4>2. CASE i # 1
        <5>1. i - 1 \in DOMAIN Tail(q) /\ Tail(q)[i - 1] = q[i]
          BY <4>2, HeadTailProperties
        <5> QED BY <3>3, <5>1 DEF Waits
      <4> QED BY <4>1, <4>2
    <3> QED BY <2>1, <3>1, <3>2, <3>3 DEF Waits
  <2>2. CASE VersionComes(q, d, r, c, w)
    <3>1. (HoldsIn(d, r) = w) \in BOOLEAN /\ (HoldsIn(d2, r) = w) \in BOOLEAN
      OBVIOUS
    <3>2. Comes(q, HoldsIn(d, r) = w, Writes(c, r, w), WritesOnly(c, r, w), {})
      BY <2>2 DEF VersionComes
    <3>3. /\ Head(q) \in Writes(c, r, w) => HoldsIn(d2, r) = w
          /\ HoldsIn(d, r) = w /\ Head(q) \in WritesOnly(c, r, w) => HoldsIn(d2, r) = w
      BY <1>2 DEF ServedFor
    <3>4. Comes(Tail(q), HoldsIn(d2, r) = w, Writes(c, r, w), WritesOnly(c, r, w), {})
      BY <3>1, <3>2, <3>3, ComesServed
    <3> QED BY <3>4 DEF VersionComes
  <2> QED BY <1>2, <2>1, <2>2 DEF RequestComes
<1> QED BY <1>1, <1>2 DEF RequestComes

LEMMA HeadersServed ==
  ASSUME NEW q \in Seq(Messages), q # <<>>, NEW d, NEW d2, NEW c, NEW k, HeadersCome(q, d, c, k),
         IF Head(q).op = "save" /\ Head(q).coll = c THEN d2.headers = Head(q).headers
                                                    ELSE d2.headers = d.headers
  PROVE  HeadersCome(Tail(q), d2, c, k)
<1>1. (d.headers = k) \in BOOLEAN /\ (d2.headers = k) \in BOOLEAN
  OBVIOUS
<1>2. Comes(q, d.headers = k, Heads(c, k), HeadsOnly(c, k), {})
  BY DEF HeadersCome
<1>3. /\ Head(q) \in Heads(c, k) => d2.headers = k
      /\ d.headers = k /\ Head(q) \in HeadsOnly(c, k) => d2.headers = k
  BY DEF Heads, HeadsOnly
<1>4. Comes(Tail(q), d2.headers = k, Heads(c, k), HeadsOnly(c, k), {})
  BY <1>1, <1>2, <1>3, ComesServed
<1> QED BY <1>4 DEF HeadersCome

\* The first message is served, and its answer is about what it was.
LEMMA ServeReach ==
  ASSUME Sane, ReachInv, ServedWell,
         \A c \in Coll : /\ life[c] # "unused" => life'[c] # "unused"
                         /\ life'[c] = "deleted" <=> life[c] = "deleted",
         \A r \in Req : There(life, home, r) =>
           ServedFor(Head(queue), dirs[home[r]], dirs'[home[r]], r, home[r], Due(wanted, home, r)),
         dirs' \in [Coll -> Directories],
         \A c \in Coll : life[c] # "deleted" =>
           IF Head(queue).op = "save" /\ Head(queue).coll = c
           THEN dirs'[c].headers = Head(queue).headers ELSE dirs'[c].headers = dirs[c].headers,
         AnswerTells'
  PROVE  ReachInv'
<1> DEFINE m == Head(queue)
<1>1. /\ up /\ up' /\ reply = NoReply /\ queue # <<>> /\ queue' = Tail(queue)
      /\ m = queue[1] /\ 1 \in DOMAIN queue /\ reply'.then = m.then
      /\ UNCHANGED <<view, mirror, pending, wanted, home, gone>>
  BY DEF ServedWell
<1>2. /\ Reached /\ queue \in Seq(Messages) /\ reply.then = Ends
      /\ \A i \in DOMAIN queue : queue[i] \in Messages /\ queue[i].then \in Thens
      /\ \A i \in DOMAIN queue : ThenAway(queue[i].then, view.shown)
      /\ wanted \in [Coll -> Contents] /\ home \in [Req -> Coll \cup {0}] /\ dirs \in [Coll -> Directories]
      /\ view.shown \in Coll /\ pending \in Items
  BY <1>1, ReachedFacts, BoundFacts
<1>3. /\ Tail(queue) \in Seq(Messages)
      /\ \A i \in DOMAIN Tail(queue) : i + 1 \in DOMAIN queue /\ Tail(queue)[i] = queue[i + 1] /\ i + 1 # 1
      /\ \A i \in DOMAIN Tail(queue) : i \in Nat /\ i > 0
  BY <1>1, <1>2, HeadAndTail, HeadTailProperties
<1>4. WindowTells(view', mirror', pending', wanted', home', life')
  <2>1. WindowTells(view, mirror, pending, wanted, home, life) /\ view.items = wanted[view.shown].items
    BY <1>2 DEF Reached, WindowTells
  <2>2. WindowTells(view, mirror, pending, wanted, home, life')
    BY <1>2, <2>1, WindowStays
  <2> QED BY <1>1, <2>2
<1>5. \A i \in DOMAIN queue : /\ MessageFits(queue[i], wanted, home, life')
                              /\ ThenFits(queue[i].then, pending, wanted, home, view.shown, life')
  <2>1. QueueFits(queue, reply.then, pending, wanted, home, view.shown, life)
    BY <1>2 DEF Reached
  <2>2. \A r \in Req : pending[r] > 0 => home[r] # 0
    BY <1>2 DEF Reached, WindowTells
  <2>3. Evolves(pending, wanted, home, view.shown, life, pending, wanted, home, life')
    BY <2>2, StillEvolves
  <2> QED BY <1>2, <2>1, <2>3, QueueKeeps
<1>6. QueueFits(queue', reply'.then, pending', wanted', home', view'.shown, life')
  <2>1. ThenFits(m.then, pending, wanted, home, view.shown, life')
    BY <1>1, <1>5
  <2>2. \A i \in DOMAIN Tail(queue) :
          /\ MessageFits(Tail(queue)[i], wanted, home, life')
          /\ ThenFits(Tail(queue)[i].then, pending, wanted, home, view.shown, life')
    BY <1>3, <1>5
  <2> QED BY <1>1, <2>1, <2>2 DEF QueueFits
<1>7. Arrivals(queue', reply'.then, home')
  <2>1. \A i, j \in DOMAIN queue : i < j /\ Arriving(queue[i].then) =>
          LeavesAlone(queue[j], queue[i].then.coll, home)
    BY <1>2 DEF Reached, Arrivals
  <2>2. ASSUME NEW i \in DOMAIN Tail(queue), NEW j \in DOMAIN Tail(queue), i < j, Arriving(Tail(queue)[i].then)
        PROVE  LeavesAlone(Tail(queue)[j], Tail(queue)[i].then.coll, home)
    <3>1. i + 1 < j + 1
      BY <1>3, <2>2
    <3> QED BY <1>3, <2>1, <2>2, <3>1
  <2>3. ASSUME NEW j \in DOMAIN Tail(queue), Arriving(m.then)
        PROVE  LeavesAlone(Tail(queue)[j], m.then.coll, home)
    <3>1. 1 < j + 1
      BY <1>3, <2>3
    <3> QED BY <1>1, <1>3, <2>1, <2>3, <3>1
  <2> HIDE DEF m
  <2>4. Arrivals(Tail(queue), m.then, home)
    BY <2>2, <2>3 DEF Arrivals
  <2> QED BY <1>1, <2>4
<1>8. RewritesAlone(queue', reply'.then)
  <2>1. \A i \in DOMAIN queue : Unsaved(queue, queue[i].then)
    BY <1>2 DEF Reached, RewritesAlone
  <2>2. \A t : Unsaved(queue, t) => Unsaved(Tail(queue), t)
    BY <1>3 DEF Unsaved
  <2>3. Unsaved(Tail(queue), m.then) /\ \A i \in DOMAIN Tail(queue) : Unsaved(Tail(queue), Tail(queue)[i].then)
    BY <1>1, <1>3, <2>1, <2>2
  <2> QED BY <1>1, <2>3 DEF RewritesAlone
<1>9. RequestsCome(queue', reply'.then, pending', dirs', wanted', home', life')
  <2> SUFFICES ASSUME NEW r \in Req, There(life', home, r)
               PROVE  RequestComes(Tail(queue), m.then, pending, dirs'[home[r]], r, home[r], Due(wanted, home, r))
    BY <1>1 DEF RequestsCome
  <2>1. home[r] # 0 /\ home[r] \in Coll
    BY <1>2 DEF There
  <2>2. There(life, home, r)
    BY <2>1 DEF There
  <2>3. Due(wanted, home, r) \in Nat
    BY <1>2, <2>1, DueTypes
  <2>4. RequestComes(queue, Ends, pending, dirs[home[r]], r, home[r], Due(wanted, home, r))
    BY <1>2, <2>2 DEF Reached, RequestsCome
  <2>5. dirs[home[r]] \in Directories /\ dirs'[home[r]] \in Directories
    BY <1>2, <2>1
  <2>6. ServedFor(Head(queue), dirs[home[r]], dirs'[home[r]], r, home[r], Due(wanted, home, r))
    BY <2>2
  <2> HIDE DEF m
  <2>7. RequestComes(Tail(queue), Head(queue).then, pending, dirs'[home[r]], r, home[r], Due(wanted, home, r))
    BY <1>1, <1>2, <2>3, <2>4, <2>5, <2>6, RequestServed
  <2> QED BY <2>7 DEF m
<1>10. AllHeadersCome(queue', dirs', wanted', life')
  <2>1. AllHeadersCome(queue, dirs, wanted, life)
    BY <1>2 DEF Reached
  <2>2. ASSUME NEW c \in Coll, life'[c] # "deleted"
        PROVE  HeadersCome(Tail(queue), dirs'[c], c, wanted[c].headers)
    <3>1. life[c] # "deleted"
      BY <2>2
    <3>2. HeadersCome(queue, dirs[c], c, wanted[c].headers)
      BY <2>1, <3>1 DEF AllHeadersCome
    <3> QED BY <1>1, <1>2, <3>1, <3>2, HeadersServed
  <2> QED BY <1>1, <2>2 DEF AllHeadersCome
<1> QED BY <1>1, <1>4, <1>6, <1>7, <1>8, <1>9, <1>10 DEF ReachInv, Reached

\* A message that is no save of c and no edit of r does nothing to it, unless it removes it.
LEMMA ServedAside ==
  ASSUME NEW m \in Messages, NEW d, NEW d2, NEW r, NEW c, NEW w \in Nat,
         ~(m.op = "save" /\ m.coll = c), ~(m.op = "update" /\ m.req = r),
         HoldsIn(d2, r) = HoldsIn(d, r) \/ (w = 0 /\ HoldsIn(d2, r) = 0)
  PROVE  ServedFor(m, d, d2, r, c, w)
<1>1. m \notin Puts(c, r, w) /\ m \notin Writes(c, r, w)
  BY DEF Puts, Writes
<1> QED BY <1>1 DEF ServedFor

\* What a save leaves.
LEMMA SavedHolds ==
  ASSUME NEW d \in Directories, NEW items \in Items, NEW h \in Versions
  PROVE  LET s == Saved(d, items, h, In(items)) IN
         /\ s.headers = h
         /\ \A r \in Req : HoldsIn(s, r) = items[r]
<1> DEFINE hd == Headed(d, h)
           f == [q \in Req |-> IF q \in In(items) THEN items[q] ELSE hd.files[q]]
           s == Saved(d, items, h, In(items))
<1>1. hd \in Directories /\ hd.headers = h
  BY DEF Headed, Directories
<1>2. s = [hd EXCEPT !.tree = In(items), !.files = f]
  BY DEF Saved
<1>3. \A r \in Req : f[r] = IF r \in In(items) THEN items[r] ELSE hd.files[r]
  OBVIOUS
<1>4. s.headers = h /\ s.tree = In(items) /\ s.files = f
  <2> HIDE DEF f, hd
  <2> QED BY <1>1, <1>2 DEF Directories
<1>5. \A r \in Req : items[r] \in Nat
  BY BoundFacts DEF Items
<1>6. \A r \in Req : r \notin In(items) => items[r] = 0
  BY <1>5 DEF In
<1> HIDE DEF s, f
<1>7. \A r \in Req : HoldsIn(s, r) = items[r]
  BY <1>3, <1>4, <1>6 DEF HoldsIn
<1> QED BY <1>4, <1>7 DEF s

LEMMA ServeSaveReach ==
  ASSUME Sane, ReachInv, SavesIInv', Clean', ServeSave
  PROVE  ReachInv'
<1> DEFINE m == Head(queue)
<1>1. /\ ServedWell /\ m.op = "save" /\ UNCHANGED <<manifest, life>>
      /\ dirs' = [dirs EXCEPT ![m.coll] = Saved(dirs[m.coll], m.items, m.headers, In(m.items))]
  BY ServesEffect
<1>2. m \in Messages /\ up /\ reply'.then = m.then
  BY <1>1 DEF ServedWell
<1> HIDE DEF m
<1>3. /\ dirs \in [Coll -> Directories] /\ dirs' \in [Coll -> Directories]
      /\ wanted \in [Coll -> Contents] /\ home \in [Req -> Coll \cup {0}]
  BY <1>2, ReachedFacts DEF SavesIInv, Shapes, StoresFit
<1>4. m.coll \in Coll /\ m.items \in Items /\ m.headers \in Versions /\ dirs[m.coll] \in Directories
  BY <1>1, <1>2, <1>3, MessageTypes
<1>5. /\ dirs'[m.coll] = Saved(dirs[m.coll], m.items, m.headers, In(m.items))
      /\ \A c \in Coll : c # m.coll => dirs'[c] = dirs[c]
  BY <1>1, <1>3, <1>4
<1>6. /\ dirs'[m.coll].headers = m.headers
      /\ \A r \in Req : HoldsIn(dirs'[m.coll], r) = m.items[r]
  <2> DEFINE e == Saved(dirs[m.coll], m.items, m.headers, In(m.items))
  <2>1. e.headers = m.headers /\ \A r \in Req : HoldsIn(e, r) = m.items[r]
    BY <1>4, SavedHolds
  <2>2. dirs'[m.coll] = e
    BY <1>5
  <2> HIDE DEF e
  <2> QED BY <2>1, <2>2
<1>7. ASSUME NEW r \in Req, There(life, home, r)
      PROVE  ServedFor(m, dirs[home[r]], dirs'[home[r]], r, home[r], Due(wanted, home, r))
  <2>1. home[r] # 0 /\ home[r] \in Coll
    BY <1>3, <1>7 DEF There
  <2>2. Due(wanted, home, r) \in Nat
    BY <1>3, <2>1, DueTypes
  <2>3. CASE home[r] = m.coll
    <3> DEFINE w == Due(wanted, home, r)
    <3>1. HoldsIn(dirs'[home[r]], r) = m.items[r]
      BY <1>6, <2>3
    <3> HIDE DEF w
    <3>2. ServedFor(m, dirs[home[r]], dirs'[home[r]], r, home[r], w)
      BY <1>1, <2>3, <3>1 DEF ServedFor, Puts, PutsOnly, Writes, WritesOnly
    <3> QED BY <3>2 DEF w
  <2>4. CASE home[r] # m.coll
    <3>1. HoldsIn(dirs'[home[r]], r) = HoldsIn(dirs[home[r]], r)
      BY <1>5, <2>1, <2>4
    <3> QED BY <1>1, <1>2, <2>2, <2>4, <3>1, ServedAside
  <2> QED BY <2>3, <2>4
<1>8. AnswerTells'
  <2>1. m.then.step \notin {"switchLoaded", "deleteLoaded", "rewrite"}
    BY <1>1, <1>2, NotALoad
  <2> QED BY <1>2, <2>1 DEF AnswerTells
<1>9. \A c \in Coll : IF m.op = "save" /\ m.coll = c THEN dirs'[c].headers = m.headers
                                                     ELSE dirs'[c].headers = dirs[c].headers
  BY <1>1, <1>5, <1>6
<1>10. \A c \in Coll : life'[c] = life[c]
  BY <1>1
<1> QED BY <1>1, <1>3, <1>7, <1>8, <1>9, <1>10, ServeReach DEF m

\* A message that is not about a tree or a request is served.
LEMMA PlainServed ==
  ASSUME Sane, ReachInv, ServedWell, Head(queue).op \notin {"save", "update"},
         \A c \in Coll : /\ life[c] # "unused" => life'[c] # "unused"
                         /\ life'[c] = "deleted" <=> life[c] = "deleted",
         dirs' \in [Coll -> Directories],
         \A c \in Coll : life[c] # "deleted" => dirs'[c] = dirs[c],
         AnswerTells'
  PROVE  ReachInv'
<1> DEFINE m == Head(queue)
<1>1. m \in Messages /\ up /\ m.op \notin {"save", "update"}
  BY DEF ServedWell
<1> HIDE DEF m
<1>2. /\ wanted \in [Coll -> Contents] /\ home \in [Req -> Coll \cup {0}]
  BY <1>1, ReachedFacts
<1>3. ASSUME NEW r \in Req, There(life, home, r)
      PROVE  ServedFor(m, dirs[home[r]], dirs'[home[r]], r, home[r], Due(wanted, home, r))
  <2>1. home[r] # 0 /\ home[r] \in Coll /\ life[home[r]] # "deleted"
    BY <1>2, <1>3 DEF There
  <2>2. Due(wanted, home, r) \in Nat
    BY <1>2, <2>1, DueTypes
  <2>3. HoldsIn(dirs'[home[r]], r) = HoldsIn(dirs[home[r]], r)
    BY <2>1
  <2> QED BY <1>1, <2>2, <2>3, ServedAside
<1>4. \A c \in Coll : life[c] # "deleted" =>
           IF m.op = "save" /\ m.coll = c THEN dirs'[c].headers = m.headers
                                          ELSE dirs'[c].headers = dirs[c].headers
  BY <1>1
<1> QED BY <1>3, <1>4, ServeReach DEF m

LEMMA ServeLoadReach ==
  ASSUME Sane, ReachInv, SavesIInv', Clean', ServeLoad
  PROVE  ReachInv'
<1> DEFINE m == Head(queue)
<1>1. /\ ServedWell /\ m.op = "load" /\ life' = life /\ dirs' = dirs
      /\ reply'.then # Ends => reply'.data = Content(m.coll)
  BY ServesEffect
<1>2. m \in Messages /\ reply'.then = m.then
  BY <1>1 DEF ServedWell
<1>3. m.then.coll = m.coll
  BY <1>1, <1>2, MessageTypes
<1>4. dirs' \in [Coll -> Directories]
  BY DEF SavesIInv, Shapes, StoresFit
<1>5. AnswerTells'
  <2>1. ASSUME m.then.step \in {"switchLoaded", "deleteLoaded", "rewrite"}
        PROVE  reply'.data = Content(m.then.coll)
    <3>1. m.then # Ends
      BY <2>1, StepsOf
    <3> QED BY <1>1, <1>2, <1>3, <3>1
  <2>2. \A c : Content(c)' = Content(c)
    BY <1>1 DEF Content
  <2> QED BY <1>1, <1>2, <2>1, <2>2 DEF AnswerTells, Content
<1>6. \A c \in Coll : life'[c] = life[c] /\ dirs'[c] = dirs[c]
  BY <1>1
<1> QED BY <1>1, <1>4, <1>5, <1>6, PlainServed

\* Nobody waits for a tree but of a load.
LEMMA NotALoadTells ==
  ASSUME ServedWell, Head(queue).op # "load"
  PROVE  AnswerTells'
<1> DEFINE m == Head(queue)
<1>1. m \in Messages /\ reply'.then = m.then
  BY DEF ServedWell
<1>2. m.then.step \notin {"switchLoaded", "deleteLoaded", "rewrite"}
  BY <1>1, NotALoad
<1> QED BY <1>1, <1>2 DEF AnswerTells

LEMMA ServeManifestReach ==
  ASSUME Sane, ListingInv, ReachInv, SavesIInv', Clean', ServeManifest
  PROVE  ReachInv'
<1>1. /\ ServedWell /\ Head(queue).op = "manifest" /\ dirs' = dirs
      /\ \A c \in Coll : life'[c] = "deleted" <=> life[c] = "deleted"
  BY ServesEffect
<1>2. life' = [c \in Coll |-> IF c \in manifest'.colls /\ life[c] = "made" THEN "listed" ELSE life[c]]
  BY ManifestServed
<1>3. \A c \in Coll : life[c] # "unused" => life'[c] # "unused"
  BY <1>2
<1>4. dirs' \in [Coll -> Directories]
  BY DEF SavesIInv, Shapes, StoresFit
<1> QED BY <1>1, <1>3, <1>4, NotALoadTells, PlainServed

LEMMA ServeEnvironmentsReach ==
  ASSUME Sane, ReachInv, SavesIInv', Clean', ServeEnvironments
  PROVE  ReachInv'
<1>1. ServedWell /\ Head(queue).op = "environments" /\ UNCHANGED <<manifest, life, dirs>>
  BY ServesEffect
<1>2. dirs' \in [Coll -> Directories]
  BY DEF SavesIInv, Shapes, StoresFit
<1>3. \A c \in Coll : life'[c] = life[c] /\ dirs'[c] = dirs[c]
  BY <1>1
<1> QED BY <1>1, <1>2, <1>3, NotALoadTells, PlainServed

LEMMA ServeRemoveReach ==
  ASSUME Sane, ListingInv, ReachInv, SavesIInv', Clean', ServeRemove
  PROVE  ReachInv'
<1>1. /\ ServedWell /\ Head(queue).op = "remove" /\ UNCHANGED <<manifest, life>>
      /\ dirs' = [dirs EXCEPT ![Head(queue).coll] = NoDir]
  BY ServesEffect
<1>2. up /\ Head(queue) = queue[1] /\ 1 \in DOMAIN queue
  BY <1>1 DEF ServedWell
<1>3. life[Head(queue).coll] = "deleted"
  BY <1>1, <1>2 DEF ListingInv, DeletedInv, Spares, Sane
<1>4. dirs' \in [Coll -> Directories] /\ dirs \in [Coll -> Directories]
  BY <1>2, ReachedFacts DEF SavesIInv, Shapes, StoresFit
<1>5. \A c \in Coll : life'[c] = life[c] /\ (life[c] # "deleted" => dirs'[c] = dirs[c])
  BY <1>1, <1>3, <1>4
<1> QED BY <1>1, <1>4, <1>5, NotALoadTells, PlainServed

\* A file of a collection is written; one goes, and its place in the tree.
Written(c, r, v) == dirs' = [dirs EXCEPT ![c].files[r] = v]
Taken(c, r) == dirs' = [dirs EXCEPT ![c].files[r] = 0, ![c].tree = @ \ {r}]
LEMMA FileWritten ==
  ASSUME dirs \in [Coll -> Directories], NEW c \in Coll, NEW r \in Req, NEW v,
         Written(c, r, v)
  PROVE  /\ \A x \in Coll : x # c => dirs'[x] = dirs[x]
         /\ dirs'[c].headers = dirs[c].headers /\ dirs'[c].tree = dirs[c].tree /\ dirs'[c].files[r] = v
         /\ \A q \in Req : q # r => dirs'[c].files[q] = dirs[c].files[q]
<1> DEFINE d == dirs[c]
           f == [d.files EXCEPT ![r] = v]
<1>1. d \in Directories /\ d.files \in [Req -> Versions]
  BY DEF Directories
<1>2. dirs'[c] = [d EXCEPT !.files = f] /\ \A x \in Coll : x # c => dirs'[x] = dirs[x]
  BY DEF Written
<1>3. f[r] = v /\ \A q \in Req : q # r => f[q] = d.files[q]
  BY <1>1
<1> HIDE DEF f, d
<1>4. dirs'[c].files = f /\ dirs'[c].tree = d.tree /\ dirs'[c].headers = d.headers
  BY <1>1, <1>2 DEF Directories
<1> QED BY <1>2, <1>3, <1>4 DEF d
LEMMA FileDropped ==
  ASSUME dirs \in [Coll -> Directories], NEW c \in Coll, NEW r \in Req,
         Taken(c, r)
  PROVE  /\ \A x \in Coll : x # c => dirs'[x] = dirs[x]
         /\ dirs'[c].headers = dirs[c].headers /\ dirs'[c].tree = dirs[c].tree \ {r}
         /\ \A q \in Req : q # r => dirs'[c].files[q] = dirs[c].files[q]
<1> DEFINE d == dirs[c]
           f == [d.files EXCEPT ![r] = 0]
           t == d.tree \ {r}
<1>1. d \in Directories /\ d.files \in [Req -> Versions]
  BY DEF Directories
<1>2. dirs'[c] = [d EXCEPT !.files = f, !.tree = t] /\ \A x \in Coll : x # c => dirs'[x] = dirs[x]
  BY DEF Taken
<1>3. \A q \in Req : q # r => f[q] = d.files[q]
  BY <1>1
<1> HIDE DEF f, d, t
<1>4. dirs'[c].files = f /\ dirs'[c].tree = t /\ dirs'[c].headers = d.headers
  BY <1>1, <1>2 DEF Directories
<1> QED BY <1>2, <1>3, <1>4 DEF d, t

\* Where a request was made, and what the resolver knows of it.
LEMMA ResolvesHome ==
  ASSUME Sane, HomesListed, up, NEW r \in Req
  PROVE  /\ Resolved[r] \in Coll \cup {0}
         /\ \A c \in Coll : dirs[c].files[r] > 0 => home[r] = c
         /\ There(life, home, r) /\ dirs[home[r]].files[r] > 0 => Resolved[r] = home[r]
<1>1. StoresFit /\ Homely /\ Resolves /\ home \in [Req -> Coll \cup {0}]
  BY CleanFacts DEF Sane, Shapes, HistoryFits
<1>2. Resolved[r] \in Coll \cup {0}
  BY <1>1, ResolvedFits
<1>3. \A c \in Coll : dirs[c].files[r] > 0 => home[r] = c
  BY <1>1 DEF Homely, HomelyDir
<1>4. ASSUME There(life, home, r), dirs[home[r]].files[r] > 0 PROVE Resolved[r] = home[r]
  <2>1. home[r] \in Coll /\ life[home[r]] = "listed"
    BY <1>1, <1>4 DEF There, HomesListed, Sane
  <2>2. home[r] \in manifest.colls
    BY <2>1 DEF Sane, Clean, DeletionsInv, ListsInv, ListsHold, Listed
  <2> QED BY <1>1, <1>4, <2>2, ResolvedKnows
<1> QED BY <1>2, <1>3, <1>4

LEMMA ServeUpdateReach ==
  ASSUME Sane, HomesListed, ReachInv, SavesIInv', Clean', ServeUpdate
  PROVE  ReachInv'
<1> DEFINE m == Head(queue)
           R == m.req
           h == home[R]
           c == Resolved[R]
<1>1. /\ ServedWell /\ m.op = "update" /\ UNCHANGED <<manifest, life>>
      /\ dirs' = IF c # 0 /\ dirs[c].files[R] > 0 THEN [dirs EXCEPT ![c].files[R] = m.version] ELSE dirs
  BY ServesEffect
<1>2. m \in Messages /\ up /\ reply'.then = m.then /\ m = queue[1] /\ 1 \in DOMAIN queue /\ reply = NoReply
      /\ queue # <<>>
  BY <1>1 DEF ServedWell
<1>3. R \in Req
  BY <1>1, <1>2, MessageTypes
<1>4. /\ dirs \in [Coll -> Directories] /\ dirs' \in [Coll -> Directories]
      /\ wanted \in [Coll -> Contents] /\ home \in [Req -> Coll \cup {0}]
      /\ Reached /\ queue \in Seq(Messages) /\ reply.then = Ends
  BY <1>2, ReachedFacts, BoundFacts DEF SavesIInv, Shapes, StoresFit
<1>5. m.version > 0 /\ h # 0 /\ h \in Coll
  <2>1. MessageFits(m, wanted, home, life)
    BY <1>2, <1>4 DEF Reached, QueueFits
  <2> QED BY <1>1, <1>3, <1>4, <2>1 DEF MessageFits
<1>6. /\ c \in Coll \cup {0} /\ \A x \in Coll : dirs[x].files[R] > 0 => h = x
      /\ There(life, home, R) /\ dirs[h].files[R] > 0 => c = h
  BY <1>2, <1>3, ResolvesHome
<1>7. /\ dirs' = dirs \/ (dirs[h].files[R] > 0 /\ Written(h, R, m.version))
      /\ There(life, home, R) /\ dirs[h].files[R] > 0 => Written(h, R, m.version)
  BY <1>1, <1>5, <1>6 DEF Written
<1> HIDE DEF m, R, h, c
<1>8. dirs' # dirs =>
        /\ \A x \in Coll : x # h => dirs'[x] = dirs[x]
        /\ dirs'[h].headers = dirs[h].headers /\ dirs'[h].tree = dirs[h].tree /\ dirs'[h].files[R] = m.version
        /\ \A q \in Req : q # R => dirs'[h].files[q] = dirs[h].files[q]
  BY <1>3, <1>4, <1>5, <1>7, FileWritten
<1>9. /\ \A x \in Coll : dirs'[x].headers = dirs[x].headers /\ dirs'[x].tree = dirs[x].tree
      /\ \A x \in Coll, q \in Req : q # R => dirs'[x].files[q] = dirs[x].files[q]
  <2>1. CASE dirs' = dirs
    BY <2>1
  <2>2. CASE dirs' # dirs
    BY <1>8, <2>2
  <2> QED BY <2>1, <2>2
<1>10. ASSUME There(life, home, R)
       PROVE  HoldsIn(dirs'[h], R) = IF HoldsIn(dirs[h], R) > 0 THEN m.version ELSE 0
  <2>1. dirs[h] \in Directories
    BY <1>4, <1>5
  <2>2. HoldsIn(dirs[h], R) \in Nat
    BY <1>3, <2>1, HoldsNat
  <2>3. CASE HoldsIn(dirs[h], R) > 0
    <3>1. R \in dirs[h].tree /\ dirs[h].files[R] > 0
      BY <2>3 DEF HoldsIn
    <3>2. Written(h, R, m.version)
      BY <1>7, <1>10, <3>1
    <3>3. dirs'[h].files[R] = m.version
      BY <1>3, <1>4, <1>5, <3>2, FileWritten
    <3>4. R \in dirs'[h].tree
      BY <1>5, <1>9, <3>1
    <3> QED BY <2>3, <3>3, <3>4 DEF HoldsIn
  <2>4. CASE ~(HoldsIn(dirs[h], R) > 0)
    <3>1. HoldsIn(dirs[h], R) = 0
      BY <2>2, <2>4
    <3>2. CASE R \notin dirs[h].tree
      BY <1>5, <1>9, <2>4, <3>2 DEF HoldsIn
    <3>3. CASE R \in dirs[h].tree
      <4>1. ~(dirs[h].files[R] > 0)
        BY <2>4, <3>3 DEF HoldsIn
      <4>2. dirs' = dirs
        BY <1>7, <4>1
      <4> QED BY <2>4, <3>1, <4>2
    <3> QED BY <3>2, <3>3
  <2> QED BY <2>3, <2>4
<1>11. ASSUME NEW r \in Req, There(life, home, r)
       PROVE  ServedFor(m, dirs[home[r]], dirs'[home[r]], r, home[r], Due(wanted, home, r))
  <2>1. home[r] # 0 /\ home[r] \in Coll
    BY <1>4, <1>11 DEF There
  <2>2. Due(wanted, home, r) \in Nat
    BY <1>4, <2>1, DueTypes
  <2>3. CASE r # R
    <3>1. HoldsIn(dirs'[home[r]], r) = HoldsIn(dirs[home[r]], r)
      BY <1>9, <2>1, <2>3 DEF HoldsIn
    <3> QED BY <1>1, <1>2, <2>2, <2>3, <3>1, ServedAside DEF m, R
  <2>4. CASE r = R
    <3> DEFINE w == Due(wanted, home, r)
               d == dirs[h]
               d2 == dirs'[h]
    <3>1. RequestComes(queue, Ends, pending, d, r, h, w)
      BY <1>4, <1>11, <2>4 DEF Reached, RequestsCome, h
    <3>2. HoldsIn(d2, r) = IF HoldsIn(d, r) > 0 THEN m.version ELSE 0
      BY <1>10, <1>11, <2>4
    <3>3. m \notin Puts(h, r, w) /\ m.op = "update" /\ m.req = r
      BY <1>1, <2>4 DEF Puts, R
    <3>4. w \in Nat
      BY <2>2
    <3> HIDE DEF w, d, d2
    <3>5. ASSUME w > 0 PROVE HoldsIn(d, r) > 0
      <4>1. (HoldsIn(d, r) > 0 <=> w > 0) \in BOOLEAN
        OBVIOUS
      <4>2. m \in Patches(r, w) \ Puts(h, r, w)
        BY <1>2, <3>3, <3>5 DEF Patches
      <4>3. Comes(queue, HoldsIn(d, r) > 0 <=> w > 0, Puts(h, r, w), PutsOnly(h, r, w), Patches(r, w))
        BY <3>1 DEF RequestComes, PresenceComes
      <4>4. HoldsIn(d, r) > 0 <=> w > 0
        BY <1>2, <1>4, <4>1, <4>2, <4>3, ComesEarly DEF m
      <4> QED BY <3>5, <4>4
    <3>6. (HoldsIn(d, r) > 0 <=> w > 0) => (HoldsIn(d2, r) > 0 <=> w > 0)
      BY <1>5, <3>2
    <3>7. w > 0 /\ m \in Writes(h, r, w) => HoldsIn(d2, r) = w
      BY <3>2, <3>3, <3>5 DEF Writes
    <3>8. w > 0 /\ HoldsIn(d, r) = w /\ m \in WritesOnly(h, r, w) => HoldsIn(d2, r) = w
      BY <3>2, <3>3 DEF WritesOnly
    <3>9. ServedFor(m, d, d2, r, h, w)
      BY <3>3, <3>6, <3>7, <3>8 DEF ServedFor
    <3> QED BY <2>4, <3>9 DEF w, d, d2, h
  <2> QED BY <2>3, <2>4
<1>12. AnswerTells'
  BY <1>1, NotALoadTells DEF m
<1>13. \A x \in Coll : IF m.op = "save" /\ m.coll = x THEN dirs'[x].headers = m.headers
                                                      ELSE dirs'[x].headers = dirs[x].headers
  BY <1>1, <1>9
<1>14. \A x \in Coll : life'[x] = life[x]
  BY <1>1
<1> QED BY <1>1, <1>4, <1>11, <1>12, <1>13, <1>14, ServeReach DEF m

LEMMA ServeDeleteReach ==
  ASSUME Sane, HomesListed, ReachInv, SavesIInv', Clean', ServeDelete
  PROVE  ReachInv'
<1> DEFINE m == Head(queue)
           R == m.req
           h == home[R]
           c == Resolved[R]
<1>1. /\ ServedWell /\ m.op = "delete" /\ UNCHANGED <<manifest, life>>
      /\ dirs' = IF c # 0 /\ dirs[c].files[R] > 0
                 THEN [dirs EXCEPT ![c].files[R] = 0, ![c].tree = @ \ {R}]
                 ELSE dirs
  BY ServesEffect
<1>2. m \in Messages /\ up /\ m = queue[1] /\ 1 \in DOMAIN queue
  BY <1>1 DEF ServedWell
<1>3. R \in Req
  BY <1>1, <1>2, MessageTypes
<1>4. /\ dirs \in [Coll -> Directories] /\ dirs' \in [Coll -> Directories]
      /\ wanted \in [Coll -> Contents] /\ home \in [Req -> Coll \cup {0}] /\ Reached
  BY <1>2, ReachedFacts DEF SavesIInv, Shapes, StoresFit
<1>5. h # 0 /\ h \in Coll /\ Due(wanted, home, R) = 0
  <2>1. MessageFits(m, wanted, home, life)
    BY <1>2, <1>4 DEF Reached, QueueFits
  <2> QED BY <1>1, <1>3, <1>4, <2>1 DEF MessageFits
<1>6. /\ c \in Coll \cup {0} /\ \A x \in Coll : dirs[x].files[R] > 0 => h = x
  BY <1>2, <1>3, ResolvesHome
<1>7. dirs' = dirs \/ Taken(h, R)
  BY <1>1, <1>5, <1>6 DEF Taken
<1> HIDE DEF m, R, h, c
<1>8. dirs' # dirs =>
        /\ \A x \in Coll : x # h => dirs'[x] = dirs[x]
        /\ dirs'[h].headers = dirs[h].headers /\ dirs'[h].tree = dirs[h].tree \ {R}
        /\ \A q \in Req : q # R => dirs'[h].files[q] = dirs[h].files[q]
  BY <1>3, <1>4, <1>5, <1>7, FileDropped
<1>9. /\ \A x \in Coll : dirs'[x].headers = dirs[x].headers
      /\ \A x \in Coll, q \in Req : q # R => HoldsIn(dirs'[x], q) = HoldsIn(dirs[x], q)
      /\ HoldsIn(dirs'[h], R) \in {HoldsIn(dirs[h], R), 0}
  <2>1. CASE dirs' = dirs
    BY <2>1
  <2>2. CASE dirs' # dirs
    BY <1>8, <2>2 DEF HoldsIn
  <2> QED BY <2>1, <2>2
<1>10. ASSUME NEW r \in Req, There(life, home, r)
       PROVE  ServedFor(m, dirs[home[r]], dirs'[home[r]], r, home[r], Due(wanted, home, r))
  <2>1. home[r] # 0 /\ home[r] \in Coll
    BY <1>4, <1>10 DEF There
  <2>2. Due(wanted, home, r) \in Nat
    BY <1>4, <2>1, DueTypes
  <2>3. \/ HoldsIn(dirs'[home[r]], r) = HoldsIn(dirs[home[r]], r)
        \/ Due(wanted, home, r) = 0 /\ HoldsIn(dirs'[home[r]], r) = 0
    BY <1>5, <1>9, <2>1 DEF h
  <2> QED BY <1>1, <1>2, <2>2, <2>3, ServedAside
<1>11. AnswerTells'
  BY <1>1, NotALoadTells DEF m
<1>12. \A x \in Coll : IF m.op = "save" /\ m.coll = x THEN dirs'[x].headers = m.headers
                                                      ELSE dirs'[x].headers = dirs[x].headers
  BY <1>1, <1>9
<1>13. \A x \in Coll : life'[x] = life[x]
  BY <1>1
<1> QED BY <1>1, <1>4, <1>10, <1>11, <1>12, <1>13, ServeReach DEF m

\* What a directory holds of a request is what is read of it.
LEMMA HoldsContent ==
  ASSUME NEW c \in Coll, NEW r \in Req
  PROVE  HoldsIn(dirs[c], r) = Content(c).items[r] /\ dirs[c].headers = Content(c).headers
BY DEF HoldsIn, Content

LEMMA BootReach ==
  ASSUME DeletionsInv, CleanInv, Clean, ReachInv, Clean', Boot
  PROVE  ReachInv'
<1>1. /\ ~up /\ up' /\ UNCHANGED <<dirs, pending, home>> /\ queue' = <<>> /\ reply' = NoReply
      /\ wanted' = [x \in Coll |-> Content(x)]
      /\ \E c \in Coll : /\ view'.shown = c
                         /\ mirror' = [active |-> c, items |-> view'.items, headers |-> dirs[c].headers]
                         /\ view'.items = Content(c).items \/ (view'.items = Nothing /\ life[c] = "unused")
  BY BootEffect
<1>2. PICK c \in Coll : /\ view'.shown = c
                        /\ mirror' = [active |-> c, items |-> view'.items, headers |-> dirs[c].headers]
                        /\ view'.items = Content(c).items \/ (view'.items = Nothing /\ life[c] = "unused")
  BY <1>1
<1>3. /\ StoresFit /\ Homely /\ Made /\ home \in [Req -> Coll \cup {0}]
      /\ pending = Nothing
  BY <1>1 DEF DeletionsInv, SavesIInv, Shapes, HistoryFits, HomesKept, Clean, FaultlessInv, CleanInv, ReachInv
<1>4. \A x \in Coll : wanted'[x] = Content(x) /\ HomelyItems(Content(x).items, x, home)
                      /\ Content(x).items \in Items
  BY <1>1, <1>3, ContentFits DEF Homely, Contents
<1>5. view'.items = wanted'[c].items
  <2>1. CASE view'.items = Content(c).items
    BY <1>4, <2>1
  <2>2. CASE view'.items = Nothing /\ life[c] = "unused"
    <3>1. \A r \in Req : home[r] # c
      BY <1>3, <2>2, BoundFacts DEF Made
    <3>2. \A r \in Req : r \notin dirs[c].tree
      BY <1>3, <3>1 DEF Homely, HomelyDir
    <3>3. Content(c).items = Nothing
      BY <3>2 DEF Content, Nothing
    <3> QED BY <1>4, <2>2, <3>3
  <2> QED BY <1>2, <2>1, <2>2
<1>6. \A r \in Req : pending'[r] = 0 /\ ~(pending'[r] > 0)
  BY <1>1, <1>3 DEF Nothing
<1>7. WindowTells(view', mirror', pending', wanted', home', life')
  <2>1. \A r \in Req : home'[r] = mirror'.active => mirror'.items[r] = Due(wanted', home', r)
    BY <1>2, <1>5 DEF Due
  <2> QED BY <1>1, <1>2, <1>4, <1>5, <1>6, <2>1 DEF WindowTells
<1>8. DOMAIN queue' = {} /\ reply'.then = Ends /\ Ends.step = "ends"
  BY <1>1, BoundFacts, StepsOf
<1>9. QueueFits(queue', reply'.then, pending', wanted', home', view'.shown, life')
  BY <1>8, EndsFits DEF QueueFits
<1>10. Arrivals(queue', reply'.then, home') /\ RewritesAlone(queue', reply'.then)
  BY <1>8 DEF Arrivals, Arriving, RewritesAlone, Unsaved
<1>11. AnswerTells'
  BY <1>8 DEF AnswerTells
<1>12. RequestsCome(queue', reply'.then, pending', dirs', wanted', home', life')
  <2> SUFFICES ASSUME NEW r \in Req, home[r] # 0
               PROVE  RequestComes(<<>>, Ends, pending', dirs[home[r]], r, home[r], Due(wanted', home, r))
    BY <1>1, <1>8 DEF RequestsCome, There
  <2>1. home[r] \in Coll
    BY <1>3
  <2> DEFINE d == dirs[home[r]]
             w == Due(wanted', home, r)
  <2>2. HoldsIn(d, r) = w
    BY <1>4, <2>1, HoldsContent DEF Due
  <2> HIDE DEF d, w
  <2>3. (HoldsIn(d, r) > 0 <=> w > 0) \in BOOLEAN /\ (HoldsIn(d, r) = w) \in BOOLEAN
    OBVIOUS
  <2>4. PresenceComes(<<>>, d, r, home[r], w)
    BY <2>2, <2>3, ComesUnsent DEF PresenceComes
  <2>5. VersionComes(<<>>, d, r, home[r], w)
    BY <2>2, <2>3, ComesUnsent DEF VersionComes
  <2>6. RequestComes(<<>>, Ends, pending', d, r, home[r], w)
    BY <2>4, <2>5 DEF RequestComes
  <2> QED BY <2>6 DEF d, w
<1>13. AllHeadersCome(queue', dirs', wanted', life')
  <2> SUFFICES ASSUME NEW x \in Coll PROVE HeadersCome(<<>>, dirs[x], x, wanted'[x].headers)
    BY <1>1 DEF AllHeadersCome
  <2> DEFINE now == dirs[x].headers = wanted'[x].headers
  <2>1. now \in BOOLEAN
    OBVIOUS
  <2>2. now
    <3>1. Content(x).headers = dirs[x].headers
      BY DEF Content
    <3>2. wanted'[x] = Content(x)
      BY <1>4
    <3> QED BY <3>1, <3>2
  <2>3. HeadersCome(<<>>, dirs[x], x, wanted'[x].headers)
          <=> Comes(<<>>, now, Heads(x, wanted'[x].headers), HeadsOnly(x, wanted'[x].headers), {})
    BY DEF HeadersCome
  <2> HIDE DEF now
  <2> QED BY <2>1, <2>2, <2>3, ComesUnsent
<1> QED BY <1>1, <1>7, <1>9, <1>10, <1>11, <1>12, <1>13 DEF ReachInv, Reached

LEMMA ReachStays ==
  ASSUME ReachInv, Clean, UNCHANGED vars
  PROVE  ReachInv'
<1>1. UNCHANGED <<dirs, up, queue, reply, view, mirror, pending, wanted, home, life, overlapped, slips>>
  BY DEF vars, mainVars, rendererVars, historyVars
<1>2. AnswerTells' <=> AnswerTells
  BY <1>1 DEF AnswerTells, Content
<1> QED BY <1>1, <1>2 DEF ReachInv, Reached, Clean

LEMMA ReachStep ==
  ASSUME DeletionsInv, CleanInv, ListingInv, HomesListed, ReachInv, SavesIInv', [Next]_vars
  PROVE  ReachInv'
<1> SUFFICES ASSUME Clean' PROVE ReachInv'
  BY DEF ReachInv
<1>1. Clean
  BY CleanBefore DEF DeletionsInv
<1>2. Sane
  BY <1>1 DEF Sane
<1>3. CASE Boot
  BY <1>1, <1>3, BootReach
<1>4. CASE Crash
  <2>1. ~up' /\ pending' = Nothing
    BY <1>4 DEF Crash
  <2> QED BY <2>1 DEF ReachInv, Nothing
<1>5. CASE UNCHANGED vars
  BY <1>1, <1>5, ReachStays
<1>6. ASSUME NEW r \in Req, Edit(r) \/ AddRequest(r) \/ DeleteRequest(r) PROVE ReachInv'
  BY <1>2, <1>6, EditReach, AddRequestReach, DeleteRequestReach
<1>7. ASSUME NEW c \in Coll, SelectCollection(c) \/ AddCollection(c) \/ DeleteCollection(c) PROVE ReachInv'
  BY <1>2, <1>7, SelectReach, AddCollectionReach, DeleteCollectionReach
<1>8. CASE SetHeaders \/ TimerFires
  BY <1>2, <1>8, SetHeadersReach, TimerReach
<1>9. CASE NextPatch \/ Flushed \/ Rewrite
  BY <1>2, <1>9, NextPatchReach, FlushedReach, RewriteReach
<1>10. CASE RewriteHeaders
  BY <1>2, <1>10, NeverRewritesHeaders
<1>11. CASE SwitchSaved \/ SwitchListed \/ AddSaved \/ DeleteListed \/ DeleteShown
  BY <1>2, <1>11, SwitchesReach
<1>12. CASE AddStored
  BY <1>2, <1>12, AddStoredReach
<1>13. CASE SwitchLoaded \/ AddListed \/ DeleteLoaded
  BY <1>2, <1>13, LoadedReach
<1>14. CASE ServeSave \/ ServeLoad \/ ServeManifest \/ ServeUpdate \/ ServeDelete
            \/ ServeRemove \/ ServeEnvironments
  BY <1>2, <1>14, ServeSaveReach, ServeLoadReach, ServeManifestReach, ServeUpdateReach, ServeDeleteReach,
     ServeRemoveReach, ServeEnvironmentsReach
<1> QED BY <1>3, <1>4, <1>5, <1>6, <1>7, <1>8, <1>9, <1>10, <1>11, <1>12, <1>13, <1>14 DEF Next

LEMMA ReachInit == Init => ReachInv
<1>1. Init => ~up /\ pending = Nothing
  BY DEF Init
<1> QED BY <1>1 DEF ReachInv, Nothing

\* Once all has come, the disk has what the user did.
LEMMA SettledUpToDate ==
  ASSUME DeletionsInv, CleanInv, ListingInv, ReachInv
  PROVE  DiskCatchesUp
<1> SUFFICES ASSUME Clean, Settled PROVE UpToDate
  BY DEF DiskCatchesUp, Clean
<1>1. Sane /\ up /\ queue = <<>> /\ reply = NoReply /\ ~armed
  BY DEF Sane, Settled
<1>2. /\ Homely /\ view.active \in view.colls /\ OneHandler(queue, reply, view, mirror.active)
      /\ view.colls \subseteq Coll /\ wanted \in [Coll -> Contents] /\ home \in [Req -> Coll \cup {0}]
      /\ dirs \in [Coll -> Directories] /\ Shapes
  BY <1>1, CleanFacts DEF Sane
<1>3. pending = Nothing
  BY <1>1, <1>2 DEF Shapes, WindowFits
<1>4. Reached /\ reply.then = Ends
  BY <1>1, BoundFacts DEF ReachInv
<1>5. DOMAIN queue = {} /\ ~OfCollections(reply.then)
  BY <1>1, BoundFacts
<1>6. manifest = [colls |-> view.colls, active |-> view.active]
  <2>1. Lists(queue, manifest, view)
    BY <1>1 DEF ListingInv, ManifestInv
  <2> QED BY <1>5, <2>1 DEF Lists
<1>7. view.shown = view.active
  BY <1>2, <1>5 DEF OneHandler, Together
<1>8. ASSUME NEW c \in view.colls PROVE Content(c) = wanted[c]
  <2>1. c \in Coll /\ life[c] # "deleted"
    BY <1>1, <1>2, <1>5, AllAlive
  <2>2. /\ Content(c) \in Contents /\ wanted[c] \in Contents
    BY <1>2, <2>1, ContentFits DEF Shapes
  <2>3. ASSUME NEW r \in Req PROVE Content(c).items[r] = wanted[c].items[r]
    <3> DEFINE d == dirs[c]
               w == wanted[c].items[r]
    <3>1. d \in Directories /\ w \in Nat /\ HoldsIn(d, r) \in Nat /\ HoldsIn(d, r) = Content(c).items[r]
      <4>1. d \in Directories
        BY <1>2, <2>1
      <4>2. w \in Nat
        BY <2>2, BoundFacts DEF Contents, Items
      <4> HIDE DEF d
      <4>3. HoldsIn(d, r) \in Nat
        BY <4>1, HoldsNat
      <4>4. HoldsIn(d, r) = Content(c).items[r]
        BY <2>1, HoldsContent DEF d
      <4> QED BY <4>1, <4>2, <4>3, <4>4
    <3>2. CASE home[r] = c
      <4>1. There(life, home, r) /\ Due(wanted, home, r) = w
        BY <2>1, <3>2, BoundFacts DEF There, Due
      <4>2. RequestComes(<<>>, Ends, pending, d, r, c, w)
        BY <1>1, <1>4, <3>2, <4>1 DEF Reached, RequestsCome
      <4>3. ~(w > 0 /\ Waits(<<>>, Ends, pending, r, w))
        <5>1. ~Carried(Ends, r, w)
          BY StepsOf DEF Carried
        <5>2. pending[r] = 0
          BY <1>3 DEF Nothing
        <5> HIDE DEF w
        <5> QED BY <3>1, <5>1, <5>2 DEF Waits
      <4> HIDE DEF d, w
      <4>4. (HoldsIn(d, r) > 0 <=> w > 0) \in BOOLEAN /\ (HoldsIn(d, r) = w) \in BOOLEAN
        OBVIOUS
      <4>5. HoldsIn(d, r) > 0 <=> w > 0
        BY <4>2, <4>4, ComesUnsent DEF RequestComes, PresenceComes
      <4>6. w > 0 => HoldsIn(d, r) = w
        BY <4>2, <4>3, <4>4, ComesUnsent DEF RequestComes, VersionComes
      <4>7. HoldsIn(d, r) = w
        BY <3>1, <4>5, <4>6
      <4> QED BY <3>1, <4>7 DEF w
    <3>3. CASE home[r] # c
      <4>1. ~(r \in d.tree)
        BY <1>2, <2>1, <3>3 DEF Homely, HomelyDir
      <4>2. ~(w > 0)
        BY <1>4, <2>1, <3>3 DEF Reached, WindowTells, HomelyItems
      <4>3. HoldsIn(d, r) = 0
        BY <4>1 DEF HoldsIn
      <4> QED BY <3>1, <4>2, <4>3
    <3> QED BY <3>2, <3>3
  <2>4. Content(c).items = wanted[c].items
    <3>1. Content(c).items \in [Req -> Versions] /\ wanted[c].items \in [Req -> Versions]
      BY <2>2 DEF Contents, Items
    <3> QED BY <2>3, <3>1
  <2>5. Content(c).headers = wanted[c].headers
    <3>1. HeadersCome(<<>>, dirs[c], c, wanted[c].headers)
      BY <1>1, <1>4, <2>1 DEF Reached, AllHeadersCome
    <3>2. (dirs[c].headers = wanted[c].headers) \in BOOLEAN
      OBVIOUS
    <3>3. dirs[c].headers = wanted[c].headers
      BY <3>1, <3>2, ComesUnsent DEF HeadersCome
    <3> QED BY <3>3 DEF Content
  <2> QED BY <2>2, <2>4, <2>5 DEF Contents
<1>9. view.items = Content(view.active).items
  BY <1>2, <1>4, <1>7, <1>8 DEF Reached, WindowTells
<1> QED BY <1>6, <1>7, <1>8, <1>9 DEF UpToDate

\* What the user did reaches the disk: once nothing is under way, the manifest and the
\* collections it lists are what the window shows and what was done, whatever the order in which
\* timers, switches and messages came, and after a crash in the middle of any save
\* (_flushRequestEdits, activateCollection, saveCollectionData and the order of messages).
THEOREM TheDiskCatchesUp == Spec => []DiskCatchesUp
<1> DEFINE Inv == DeletionsInv /\ CleanInv /\ ListingInv /\ HomesListed /\ ReachInv
<1>1. Init => Inv
  BY DeletionsInit, ListingInit, HomesInit, ReachInit
<1>2. Inv /\ [Next]_vars => Inv'
  <2> SUFFICES ASSUME Inv, [Next]_vars PROVE Inv'
    OBVIOUS
  <2>1. SavesIInv /\ ListsInv /\ failures \in Nat
    BY DEF DeletionsInv, GoneInv
  <2>2. SavesIInv' /\ ListsInv'
    BY <2>1, SavesStep, ListsStep
  <2>3. DeletionsInv'
    BY <2>2, DeletionsStep
  <2>4. CleanInv' /\ ListingInv' /\ HomesListed'
    BY <2>1, CleanStep, ListingStep, HomesStep
  <2>5. ReachInv'
    BY <2>2, ReachStep
  <2> QED BY <2>3, <2>4, <2>5
<1>3. Inv => DiskCatchesUp
  BY SettledUpToDate
<1> QED BY <1>1, <1>2, <1>3, PTL DEF Spec
=============================================================================

----------------------- MODULE WorkspaceSaves_proofs -----------------------
(***************************************************************************)
(* Proofs about WorkspaceSaves, for any collections, requests and bounds.  *)
(*                                                                         *)
(* The invariant says what shape every message and every answer has, that  *)
(* at most one handler of collections is under way until a command meets   *)
(* an unfinished one, what the window and the mirror hold at each step of  *)
(* that handler, and that every tree, in the window, in the mirror, on its *)
(* way or on the disk, holds only requests made in its collection.  Two    *)
(* extensions of it follow: which collections are listed, and where what   *)
(* the user deleted still is until its removal is served.                  *)
(***************************************************************************)
EXTENDS WorkspaceSaves, WellFoundedInduction, SequenceTheorems, TLAPS

-----------------------------------------------------------------------------
(* The invariant *)


\* The shapes of trees, of what a collection holds, of directories, window and mirror.
Items == [Req -> Versions]
Contents == [items : Items, headers : Versions]
Directories == [tree : SUBSET Req, files : [Req -> Versions], headers : Versions]
Views == [colls : SUBSET Coll, active : Coll \cup {0}, shown : Coll \cup {0}, items : Items]
Mirrors == [active : Coll \cup {0}, items : Items, headers : Versions]
SlipNames == {"mirror", "failed", "swallowed", "unread", "overtaken", "late"}

\* What a handler does next, by the message it awaits.
AfterSave == [step : {"switchSaved"}, coll : Coll]
        \cup [step : {"addStored", "addSaved"}, coll : Coll, colls : SUBSET Coll]
AfterManifest == [step : {"switchListed", "addListed"}, coll : Coll]
            \cup [step : {"deleteListed"}, old : Coll]
AfterEnvironments == [step : {"deleteShown"}, coll : Coll, colls : SUBSET Coll, old : Coll]
AfterLoad == [step : {"switchLoaded"}, coll : Coll]
        \cup [step : {"deleteLoaded"}, coll : Coll, colls : SUBSET Coll, old : Coll]
        \cup [step : {"headers"}, coll : Coll, headers : Versions]
Rewrites == [step : {"rewrite"}, coll : Coll, items : Items, then : AfterSave]
Batches == {b \in [step : {"batch"}, patches : Items, then : {Ends} \cup AfterSave] :
              b.patches = Nothing => b.then # Ends}
Handlers == AfterSave \cup AfterManifest \cup AfterEnvironments \cup AfterLoad \cup Rewrites
Thens == {Ends} \cup Handlers \cup Batches

\* Every message, with what its handler may do next.
Messages ==
  [op : {"save"}, coll : Coll, items : Items, headers : Versions, then : {Ends} \cup AfterSave]
  \cup {m \in [op : {"load"}, coll : Coll, then : AfterLoad \cup Rewrites] :
          m.then.coll = m.coll}
  \cup [op : {"manifest"}, colls : SUBSET Coll, coll : Coll, then : AfterManifest]
  \cup [op : {"update"}, req : Req, version : Versions, then : {Ends} \cup Batches]
  \cup [op : {"delete"}, req : Req, then : {Ends}]
  \cup [op : {"remove"}, coll : Coll, then : {Ends}]
  \cup [op : {"environments"}, then : AfterEnvironments]

\* The disk and the resolver; the window; the messages; the history: each has its shape.
\* Without the program there is no message, and no edit waits without the timer.
StoresFit ==
  /\ manifest \in [colls : SUBSET Coll, active : Coll \cup {0}]
  /\ dirs \in [Coll -> Directories]
  /\ cache = NoCache \/ cache \in [Req -> Coll \cup {0}]
WindowFits ==
  /\ view \in Views /\ mirror \in Mirrors
  /\ up \in BOOLEAN /\ armed \in BOOLEAN
  /\ pending \in Items
  /\ pending # Nothing => armed
  /\ up => {view.active, view.shown, mirror.active} \subseteq Coll
MessagesFit ==
  /\ queue \in Seq(Messages)
  /\ reply \in [then : Thens, data : Contents]
  /\ ~up => queue = <<>> /\ reply = NoReply
HistoryFits ==
  /\ wanted \in [Coll -> Contents]
  /\ home \in [Req -> Coll \cup {0}]
  /\ life \in [Coll -> {"unused", "made", "listed", "deleted"}]
  /\ overlapped \in BOOLEAN
  /\ slips \subseteq SlipNames
Shapes == StoresFit /\ WindowFits /\ MessagesFit /\ HistoryFits

\* What the handler is about once its batch or its rewrite is done.
Core(then) == IF then.step \in {"batch", "rewrite"} THEN then.then ELSE then
\* One collection is active, shown, and in the mirror.
Together(v, a) == v.active = a /\ v.shown = a

\* What the window v and the mirror, active on a, are at while a handler awaits an answer.
Phase(then, v, a) ==
  LET t == Core(then) IN
  /\ t.step \in {"switchListed", "switchLoaded", "addListed"} =>
       v.active = t.coll /\ a = t.coll
  /\ t.step = "deleteShown" => a = t.coll /\ v.shown = t.coll
  /\ t.step \notin {"switchListed", "switchLoaded", "addListed", "deleteShown"} => Together(v, a)
  /\ t.step \in {"switchSaved"} => t.coll \in v.colls
  /\ t.step \in {"addStored", "addSaved", "deleteLoaded", "deleteShown"} => t.coll \in t.colls
  /\ t.step # "headers"

\* At most one message of the queue q, or else the answer p, is of a handler; without one,
\* the window is where the mirror is.
OneHandler(q, p, v, a) ==
  /\ \A i, j \in DOMAIN q : OfCollections(q[i].then) /\ OfCollections(q[j].then) => i = j
  /\ \A i \in DOMAIN q : OfCollections(q[i].then) => ~OfCollections(p.then) /\ Phase(q[i].then, v, a)
  /\ OfCollections(p.then) => Phase(p.then, v, a)
  /\ (OfCollections(p.then) \/ \E i \in DOMAIN q : OfCollections(q[i].then)) \/ Together(v, a)

\* A tree, a directory, a message, an answer that holds only requests made in its collection,
\* h being where each request was made.
HomelyItems(items, c, h) == \A r \in Req : items[r] > 0 => h[r] = c
HomelyDir(d, c, h) == \A r \in Req : r \in d.tree \/ d.files[r] > 0 => h[r] = c
HomelyThen(then, h) == then.step = "rewrite" => HomelyItems(then.items, then.coll, h)
HomelyMessage(m, h) == /\ m.op = "save" => HomelyItems(m.items, m.coll, h)
                       /\ HomelyThen(m.then, h)
HomelyReply(p, h) ==
  /\ HomelyThen(p.then, h)
  /\ p.then.step \in {"switchLoaded", "deleteLoaded", "rewrite", "headers"} =>
       HomelyItems(p.data.items, p.then.coll, h)

Homely ==
  /\ \A c \in Coll : HomelyDir(dirs[c], c, home)
  /\ \A i \in DOMAIN queue : HomelyMessage(queue[i], home)
  /\ HomelyReply(reply, home)
  /\ up => HomelyItems(view.items, view.shown, home) /\ HomelyItems(mirror.items, mirror.active, home)

\* The three parts of the invariant.
HomesKept == ~overlapped => Homely
OneAtATime == up /\ ~overlapped =>
  view.active \in view.colls /\ OneHandler(queue, reply, view, mirror.active)
SavesIInv == Shapes /\ HomesKept /\ OneAtATime

-----------------------------------------------------------------------------
(* Messages, and the handler under way *)


\* The least of some naturals is one of them.
LEMMA LeastIsMember == ASSUME NEW S, S \subseteq Nat, S # {} PROVE Min(S) \in S
<1> DEFINE R == {ss \in Nat \X Nat : ss[1] < ss[2]}
<1>1. IsWellFoundedOn(R, Nat)
  BY NatLessThanWellFounded, Zenon DEF OpToRel
<1>2. PICK x \in S : \A y \in S : ~ (<<y, x>> \in R)
  BY <1>1, WFMin
<1>3. \A y \in S : ~(y < x)
  BY <1>2
<1>4. \A y \in S : x <= y
  BY <1>3
<1> QED BY <1>4 DEF Min

LEMMA ThenTypes ==
  ASSUME NEW t \in Thens
  PROVE  /\ t.step = "switchSaved" => t.coll \in Coll /\ t \in AfterSave
         /\ t.step \in {"addStored", "addSaved"} =>
              t.coll \in Coll /\ t.colls \subseteq Coll /\ t \in AfterSave
         /\ t.step \in {"switchListed", "addListed"} => t.coll \in Coll /\ t \in AfterManifest
         /\ t.step = "deleteListed" => t.old \in Coll /\ t \in AfterManifest
         /\ t.step = "deleteShown" => /\ t.coll \in Coll /\ t.colls \subseteq Coll
                                      /\ t.old \in Coll /\ t \in AfterEnvironments
         /\ t.step = "switchLoaded" => t.coll \in Coll /\ t \in AfterLoad
         /\ t.step = "deleteLoaded" => /\ t.coll \in Coll /\ t.colls \subseteq Coll
                                       /\ t.old \in Coll /\ t \in AfterLoad
         /\ t.step = "headers" => t.coll \in Coll /\ t.headers \in Versions /\ t \in AfterLoad
         /\ t.step = "rewrite" => t.coll \in Coll /\ t.items \in Items /\ t.then \in AfterSave
         /\ t.step = "batch" => /\ t.patches \in Items /\ t.then \in {Ends} \cup AfterSave
                                /\ (t.patches = Nothing => t.then \in AfterSave)
         /\ t.step = "ends" => t = Ends
BY DEF Thens, Handlers, AfterSave, AfterManifest, AfterEnvironments, AfterLoad, Rewrites, Batches, Ends

LEMMA StepsOf ==
  /\ \A t \in AfterSave : t.step \in {"switchSaved", "addStored", "addSaved"} /\ t \in Thens
  /\ \A t \in AfterManifest : t.step \in {"switchListed", "addListed", "deleteListed"} /\ t \in Thens
  /\ \A t \in AfterEnvironments : t.step = "deleteShown" /\ t \in Thens
  /\ \A t \in AfterLoad : t.step \in {"switchLoaded", "deleteLoaded", "headers"} /\ t \in Thens
  /\ \A t \in Rewrites : t.step = "rewrite" /\ t \in Thens
  /\ \A t \in Batches : t.step = "batch" /\ t \in Thens
  /\ Ends \in Thens /\ Ends.step = "ends"
BY DEF Thens, Handlers, AfterSave, AfterManifest, AfterEnvironments, AfterLoad, Rewrites, Batches, Ends

LEMMA MessageTypes ==
  ASSUME NEW m \in Messages
  PROVE  /\ m.then \in Thens
         /\ m.op = "save" => /\ m.coll \in Coll /\ m.items \in Items /\ m.headers \in Versions
                             /\ m.then \in {Ends} \cup AfterSave
         /\ m.op = "load" => /\ m.coll \in Coll /\ m.then.coll = m.coll
                             /\ m.then \in AfterLoad \cup Rewrites
         /\ m.op = "manifest" => /\ m.colls \subseteq Coll /\ m.coll \in Coll
                                 /\ m.then \in AfterManifest
         /\ m.op = "update" => /\ m.req \in Req /\ m.version \in Versions
                               /\ m.then \in {Ends} \cup Batches
         /\ m.op = "delete" => m.req \in Req /\ m.then = Ends
         /\ m.op = "remove" => m.coll \in Coll /\ m.then = Ends
         /\ m.op = "environments" => m.then \in AfterEnvironments
BY DEF Messages, Thens, Handlers

LEMMA MessagesMade ==
  /\ \A c \in Coll, items \in Items, h \in Versions, t \in {Ends} \cup AfterSave :
       Save(c, items, h, t) \in Messages
  /\ \A c \in Coll, t \in AfterLoad \cup Rewrites : t.coll = c => Load(c, t) \in Messages
  /\ \A colls \in SUBSET Coll, c \in Coll, t \in AfterManifest :
       SaveManifest(colls, c, t) \in Messages
  /\ \A r \in Req, v \in Versions, t \in {Ends} \cup Batches : Update(r, v, t) \in Messages
  /\ \A r \in Req : DeleteFile(r) \in Messages
  /\ \A c \in Coll : RemoveDir(c) \in Messages
  /\ \A t \in AfterEnvironments : LoadEnvironments(t) \in Messages
BY DEF Messages, Save, Load, SaveManifest, Update, DeleteFile, RemoveDir, LoadEnvironments

LEMMA ThensMade ==
  /\ \A c \in Coll : /\ [step |-> "switchSaved", coll |-> c] \in AfterSave
                     /\ [step |-> "switchListed", coll |-> c] \in AfterManifest
                     /\ [step |-> "addListed", coll |-> c] \in AfterManifest
                     /\ [step |-> "deleteListed", old |-> c] \in AfterManifest
                     /\ [step |-> "switchLoaded", coll |-> c] \in AfterLoad
  /\ \A c \in Coll, colls \in SUBSET Coll :
       [step |-> "addStored", coll |-> c, colls |-> colls] \in AfterSave
  /\ \A c, old \in Coll, colls \in SUBSET Coll :
       [step |-> "deleteLoaded", coll |-> c, colls |-> colls, old |-> old] \in AfterLoad
  /\ \A c \in Coll, h \in Versions : [step |-> "headers", coll |-> c, headers |-> h] \in AfterLoad
  /\ \A c \in Coll, items \in Items, t \in AfterSave :
       [step |-> "rewrite", coll |-> c, items |-> items, then |-> t] \in Rewrites
  /\ \A patches \in Items, t \in {Ends} \cup AfterSave : ~(patches = Nothing /\ t = Ends) =>
       [step |-> "batch", patches |-> patches, then |-> t] \in Batches
BY DEF AfterSave, AfterManifest, AfterEnvironments, AfterLoad, Rewrites, Batches

LEMMA ThensChanged ==
  /\ \A t \in AfterSave : t.step = "addStored" =>
       LET u == [t EXCEPT !.step = "addSaved"] IN
       u \in AfterSave /\ u.step = "addSaved" /\ u.coll = t.coll /\ u.colls = t.colls
  /\ \A t \in AfterLoad : t.step = "deleteLoaded" =>
       LET u == [t EXCEPT !.step = "deleteShown"] IN
       /\ u \in AfterEnvironments /\ u.step = "deleteShown"
       /\ u.coll = t.coll /\ u.colls = t.colls /\ u.old = t.old
BY DEF AfterSave, AfterLoad, AfterEnvironments

LEMMA WhoHandles ==
  /\ \A t \in Handlers : OfCollections(t)
  /\ ~OfCollections(Ends)
  /\ \A t \in Batches : OfCollections(t) <=> t.then \in AfterSave
  /\ \A t \in Batches : ~OfCollections(t) <=> t.then = Ends
<1>1. \A t \in Handlers : t # Ends /\ t.step # "batch" /\ t.step # "ends"
  BY StepsOf DEF Handlers
<1>2. \A t \in Batches : t # Ends /\ t.step = "batch" /\ t.then \in {Ends} \cup AfterSave
  BY StepsOf DEF Batches
<1>3. Ends \notin AfterSave
  BY StepsOf
<1> QED BY <1>1, <1>2, <1>3 DEF OfCollections

\* The head and the tail of a queue.
LEMMA HeadAndTail ==
  ASSUME NEW S, NEW q \in Seq(S), q # <<>>
  PROVE  /\ Head(q) = q[1] /\ Head(q) \in S /\ Tail(q) \in Seq(S) /\ 1 \in DOMAIN q
         /\ \A i \in DOMAIN Tail(q) : i + 1 \in DOMAIN q /\ Tail(q)[i] = q[i + 1] /\ i + 1 # 1
BY HeadTailProperties

LEMMA Appended ==
  ASSUME NEW S, NEW q \in Seq(S), NEW m \in S
  PROVE  /\ Append(q, m) \in Seq(S)
         /\ Len(q) + 1 \notin DOMAIN q
         /\ DOMAIN Append(q, m) = DOMAIN q \cup {Len(q) + 1}
         /\ Append(q, m)[Len(q) + 1] = m
         /\ \A i \in DOMAIN q : Append(q, m)[i] = q[i]
OBVIOUS

\* What no handler awaits leaves the one under way where it is.
LEMMA QuietSend ==
  ASSUME NEW q \in Seq(Messages), NEW p, NEW p2, NEW v, NEW a, NEW m \in Messages,
         OneHandler(q, p, v, a), ~OfCollections(m.then),
         ~OfCollections(p.then), ~OfCollections(p2.then)
  PROVE  OneHandler(Append(q, m), p2, v, a)
<1> DEFINE n == Append(q, m)
<1>1. /\ DOMAIN n = DOMAIN q \cup {Len(q) + 1} /\ Len(q) + 1 \notin DOMAIN q
      /\ n[Len(q) + 1] = m
      /\ \A i \in DOMAIN q : n[i] = q[i]
  BY Appended
<1> HIDE DEF n
<1> QED BY <1>1 DEF OneHandler, n

\* A handler that goes on, or begins when there is none.
LEMMA HandlerSends ==
  ASSUME NEW q \in Seq(Messages), NEW p, NEW v, NEW a, NEW m \in Messages,
         \A i \in DOMAIN q : ~OfCollections(q[i].then), ~OfCollections(p.then),
         OfCollections(m.then), Phase(m.then, v, a)
  PROVE  OneHandler(Append(q, m), p, v, a)
<1> DEFINE n == Append(q, m)
<1>1. /\ DOMAIN n = DOMAIN q \cup {Len(q) + 1} /\ Len(q) + 1 \notin DOMAIN q
      /\ n[Len(q) + 1] = m
      /\ \A i \in DOMAIN q : n[i] = q[i]
  BY Appended
<1> HIDE DEF n
<1> QED BY <1>1 DEF OneHandler, n

LEMMA HandlerEnds ==
  ASSUME NEW q, NEW p, NEW v, NEW a,
         \A i \in DOMAIN q : ~OfCollections(q[i].then), ~OfCollections(p.then), Together(v, a)
  PROVE  OneHandler(q, p, v, a)
BY DEF OneHandler

\* An answer.
LEMMA AnswerArrives ==
  ASSUME NEW q \in Seq(Messages), q # <<>>, NEW p, NEW p2, NEW v, NEW a,
         OneHandler(q, p, v, a), ~OfCollections(p.then), p2.then = Head(q).then
  PROVE  OneHandler(Tail(q), p2, v, a)
<1>1. /\ Head(q) = q[1] /\ Head(q) \in Messages /\ 1 \in DOMAIN q
      /\ \A i \in DOMAIN Tail(q) : i + 1 \in DOMAIN q /\ Tail(q)[i] = q[i + 1] /\ i + 1 # 1
      /\ DOMAIN Tail(q) \subseteq Nat
  BY HeadAndTail
<1>a. DOMAIN q = 1..Len(q) /\ Len(q) \in Nat /\ DOMAIN Tail(q) = 1..(Len(q) - 1)
  BY HeadTailProperties
<1>2. \A i, j \in DOMAIN Tail(q) : i + 1 = j + 1 => i = j
  BY <1>1
<1>3. \A i \in DOMAIN q : i = 1 \/ (i - 1 \in DOMAIN Tail(q) /\ (i - 1) + 1 = i)
  BY <1>a
<1> DEFINE t == Tail(q)
           h == Head(q)
<1> HIDE DEF t, h
<1>4. \A i, j \in DOMAIN t : OfCollections(t[i].then) /\ OfCollections(t[j].then) => i = j
  BY <1>1, <1>2 DEF OneHandler, t
<1>5. \A i \in DOMAIN t : OfCollections(t[i].then) => ~OfCollections(p2.then) /\ Phase(t[i].then, v, a)
  BY <1>1 DEF OneHandler, t
<1>6. OfCollections(p2.then) => Phase(p2.then, v, a)
  BY <1>1 DEF OneHandler
<1>7. (OfCollections(p2.then) \/ \E i \in DOMAIN t : OfCollections(t[i].then)) \/ Together(v, a)
  <2>1. CASE \E i \in DOMAIN q : OfCollections(q[i].then)
    <3>1. PICK i \in DOMAIN q : OfCollections(q[i].then)
      BY <2>1
    <3>2. CASE i = 1
      BY <3>1, <3>2, <1>1
    <3>3. CASE i - 1 \in DOMAIN Tail(q) /\ (i - 1) + 1 = i
      BY <3>1, <3>3, <1>1 DEF t
    <3> QED BY <3>2, <3>3, <1>3
  <2>2. CASE ~\E i \in DOMAIN q : OfCollections(q[i].then)
    BY <2>2 DEF OneHandler
  <2> QED BY <2>1, <2>2
<1> QED BY <1>4, <1>5, <1>6, <1>7 DEF OneHandler, t

\* The phase depends on what is active, shown and listed.
LEMMA SamePhase ==
  ASSUME NEW q, NEW p, NEW v, NEW w, NEW a, OneHandler(q, p, v, a),
         w.active = v.active, w.shown = v.shown, w.colls = v.colls
  PROVE  OneHandler(q, p, w, a)
BY DEF OneHandler, Phase, Together

LEMMA NobodyElse ==
  ASSUME NEW q, NEW p, NEW v, NEW a, OneHandler(q, p, v, a), OfCollections(p.then)
  PROVE  (\A i \in DOMAIN q : ~OfCollections(q[i].then)) /\ Phase(p.then, v, a)
BY DEF OneHandler

LEMMA BoundFacts ==
  /\ 0 \in Versions /\ 1 \in Versions /\ Versions \subseteq Nat /\ 0 \notin Coll /\ Coll \subseteq Nat
  /\ Nothing \in Items /\ Empty \in Contents /\ NoDir \in Directories
  /\ NoReply \in [then : Thens, data : Contents] /\ NoReply.then = Ends
  /\ ~OfCollections(NoReply.then)
BY BoundsAssumption, WhoHandles, StepsOf DEF Versions, Nothing, Empty, NoDir, NoReply, Items,
   Contents, Directories

\* What is sent for a handler.
Carries(m, t) == OfCollections(m.then) /\ Core(m.then) = t

LEMMA CarriesPhase ==
  ASSUME NEW m \in Messages, NEW t \in AfterSave, Carries(m, t)
  PROVE  \A v, a : Phase(t, v, a) <=> Phase(m.then, v, a)
<1>1. Core(t) = t /\ t.step \in {"switchSaved", "addStored", "addSaved"}
  BY StepsOf DEF Core
<1> QED BY <1>1 DEF Carries, Phase

LEMMA SaveEffect ==
  ASSUME Shapes, NEW c \in Coll, NEW items \in Items, NEW t \in AfterSave,
         SaveCollectionData(c, items, t)
  PROVE  /\ mirror' \in Mirrors /\ mirror'.active = mirror.active
         /\ mirror' = mirror \/ (c = mirror.active /\ mirror'.items = items)
         /\ slips' \subseteq SlipNames
         /\ \E m \in Messages : /\ queue' = Append(queue, m) /\ Carries(m, t)
                                /\ HomelyItems(items, c, home) => HomelyMessage(m, home)
<1>1. CASE c = mirror.active
  <2> DEFINE m == Save(c, items, mirror.headers, t)
  <2>1. /\ mirror' = [mirror EXCEPT !.items = items] /\ queue' = Append(queue, m)
        /\ slips' = slips \/ slips' = slips \cup {"mirror"}
    BY <1>1 DEF SaveCollectionData, Send, Note
  <2>2. mirror.headers \in Versions /\ mirror' \in Mirrors /\ mirror'.active = mirror.active
        /\ mirror'.items = items
    BY <2>1 DEF Shapes, StoresFit, WindowFits, MessagesFit, HistoryFits, Mirrors
  <2>3. m \in Messages /\ m.then = t /\ m.op = "save" /\ m.items = items /\ m.coll = c
    BY <2>2, MessagesMade DEF Save
  <2>4. Carries(m, t) /\ HomelyThen(m.then, home)
    BY <2>3, WhoHandles, StepsOf DEF Carries, Core, Handlers, HomelyThen
  <2>5. slips' \subseteq SlipNames
    BY <2>1 DEF Shapes, StoresFit, WindowFits, MessagesFit, HistoryFits, SlipNames
  <2> HIDE DEF m
  <2> QED BY <1>1, <2>1, <2>2, <2>3, <2>4, <2>5 DEF HomelyMessage
<1>2. CASE c # mirror.active
  <2> DEFINE u == [step |-> "rewrite", coll |-> c, items |-> items, then |-> t]
             m == Load(c, u)
  <2>1. queue' = Append(queue, m) /\ mirror' = mirror /\ slips' = slips
    BY <1>2 DEF SaveCollectionData, Send
  <2>2. u \in Rewrites /\ u.coll = c /\ u.items = items /\ u.then = t /\ u.step = "rewrite"
    BY ThensMade
  <2>3. m \in Messages /\ m.then = u /\ m.op = "load"
    BY <2>2, MessagesMade DEF Load
  <2>4. Carries(m, t)
    BY <2>2, <2>3, WhoHandles DEF Carries, Core, Handlers
  <2> HIDE DEF u, m
  <2>5. HomelyItems(items, c, home) => HomelyMessage(m, home)
    BY <2>2, <2>3 DEF HomelyMessage, HomelyThen
  <2> QED BY <2>1, <2>3, <2>4, <2>5 DEF Shapes, StoresFit, WindowFits, MessagesFit, HistoryFits
<1> QED BY <1>1, <1>2

LEMMA BatchEffect ==
  ASSUME Shapes, NEW patches \in Items, NEW t \in {Ends} \cup AfterSave, Batch(patches, t)
  PROVE  \E m \in Messages : /\ queue' = Append(queue, m)
                             /\ m.op = "update" /\ m.then.step # "rewrite"
                             /\ IF t = Ends THEN ~OfCollections(m.then) ELSE Carries(m, t)
<1>1. PICK r \in In(patches) : LET rest == [patches EXCEPT ![r] = 0] IN
    Send(Update(r, patches[r],
                IF rest = Nothing /\ t = Ends THEN Ends
                ELSE [step |-> "batch", patches |-> rest, then |-> t]))
  BY DEF Batch
<1> DEFINE rest == [patches EXCEPT ![r] = 0]
           b == [step |-> "batch", patches |-> rest, then |-> t]
           u == IF rest = Nothing /\ t = Ends THEN Ends ELSE b
           m == Update(r, patches[r], u)
<1>2. r \in Req /\ patches[r] \in Versions /\ rest \in Items
  BY BoundFacts DEF In, Items
<1>3. ~(rest = Nothing /\ t = Ends) => b \in Batches
  BY <1>2, ThensMade
<1>4. b.then = t /\ b.step = "batch"
  OBVIOUS
<1>5. u \in {Ends} \cup Batches
  BY <1>3
<1>6. m \in Messages /\ m.then = u /\ m.op = "update"
  BY <1>2, <1>5, MessagesMade DEF Update
<1>7. queue' = Append(queue, m)
  BY <1>1 DEF Send
<1>8. t = Ends => ~OfCollections(u)
  BY <1>3, <1>4, WhoHandles
<1>9. t # Ends => u = b /\ u \in Batches /\ u.then = t /\ u.step = "batch" /\ t \in AfterSave
  BY <1>3
<1>10. t # Ends => Carries(m, t)
  BY <1>9, <1>6, WhoHandles DEF Carries, Core
<1>11. u.step # "rewrite"
  BY <1>5, StepsOf
<1> HIDE DEF m, u, b, rest
<1> QED BY <1>6, <1>7, <1>8, <1>10, <1>11

LEMMA FlushEffect ==
  ASSUME Shapes, view.active \in Coll, NEW t \in AfterSave, FlushAndSave(t)
  PROVE  /\ pending' = Nothing /\ armed' = FALSE
         /\ mirror' \in Mirrors /\ mirror'.active = mirror.active
         /\ mirror'.items \in {mirror.items, view.items}
         /\ slips' \subseteq SlipNames
         /\ \E m \in Messages : /\ queue' = Append(queue, m) /\ Carries(m, t)
                                /\ HomelyItems(view.items, view.active, home)
                                     => HomelyMessage(m, home)
<1>1. view.items \in Items /\ pending \in Items /\ pending' = Nothing /\ armed' = FALSE
  BY DEF Shapes, StoresFit, WindowFits, MessagesFit, HistoryFits, Views, FlushAndSave
<1>2. CASE pending = Nothing
  <2>1. SaveCollectionData(view.active, view.items, t)
    BY <1>2 DEF FlushAndSave
  <2> QED BY <1>1, <2>1, SaveEffect
<1>3. CASE pending # Nothing
  <2>1. /\ mirror' = [mirror EXCEPT !.items = view.items] /\ Batch(pending, t) /\ slips' = slips
    BY <1>3 DEF FlushAndSave
  <2>2. mirror' \in Mirrors /\ mirror'.active = mirror.active /\ mirror'.items = view.items
    BY <1>1, <2>1 DEF Shapes, StoresFit, WindowFits, MessagesFit, HistoryFits, Mirrors
  <2>3. t # Ends
    BY StepsOf
  <2>4. PICK m \in Messages : /\ queue' = Append(queue, m) /\ m.op = "update"
                              /\ m.then.step # "rewrite" /\ Carries(m, t)
    BY <1>1, <2>1, <2>3, BatchEffect
  <2>5. HomelyMessage(m, home)
    BY <2>4 DEF HomelyMessage, HomelyThen
  <2> QED BY <1>1, <2>1, <2>2, <2>4, <2>5 DEF Shapes, StoresFit, WindowFits, MessagesFit, HistoryFits
<1> QED BY <1>2, <1>3

LEMMA HomelyAppend ==
  ASSUME NEW q \in Seq(Messages), NEW m \in Messages, NEW h,
         \A i \in DOMAIN q : HomelyMessage(q[i], h), HomelyMessage(m, h)
  PROVE  \A i \in DOMAIN Append(q, m) : HomelyMessage(Append(q, m)[i], h)
BY Appended

-----------------------------------------------------------------------------
(* Edits and their timer *)


LEMMA EditKeeps == ASSUME SavesIInv, NEW r \in Req, Edit(r) PROVE SavesIInv'
<1> DEFINE v == view.items[r] + 1
           c == view.shown
<1>1. /\ up /\ ~overlapped /\ reply = NoReply /\ view.items[r] > 0 /\ v \in Versions
      /\ view' = [view EXCEPT !.items[r] = v]
      /\ wanted' = [wanted EXCEPT ![c].items[r] = v]
      /\ pending' = [pending EXCEPT ![r] = v]
      /\ armed' = TRUE
      /\ UNCHANGED <<manifest, dirs, cache, up, reply, mirror, queue, home, gone, life, overlapped, slips>>
  BY DEF Edit, Command, mainVars
<1>2. /\ view.items \in Items /\ view'.items = [view.items EXCEPT ![r] = v] /\ view' \in Views
      /\ view'.active = view.active /\ view'.shown = view.shown /\ view'.colls = view.colls
  BY <1>1 DEF SavesIInv, Shapes, StoresFit, WindowFits, MessagesFit, HistoryFits, Views, Items
<1>3. wanted' \in [Coll -> Contents]
  BY <1>1 DEF SavesIInv, Shapes, StoresFit, WindowFits, MessagesFit, HistoryFits, Contents, Items
<1>4. pending' \in Items
  BY <1>1 DEF SavesIInv, Shapes, StoresFit, WindowFits, MessagesFit, HistoryFits, Items
<1>5. Shapes'
  BY <1>1, <1>2, <1>3, <1>4 DEF SavesIInv, Shapes, StoresFit, WindowFits, MessagesFit, HistoryFits
<1>6. HomelyItems(view.items, c, home) => HomelyItems(view'.items, c, home)
  BY <1>1, <1>2 DEF HomelyItems, Items
<1>7. HomesKept'
  BY <1>1, <1>2, <1>6 DEF SavesIInv, HomesKept, Homely
<1>8. OneAtATime'
  BY <1>1, <1>2, SamePhase DEF SavesIInv, OneAtATime
<1> QED BY <1>5, <1>7, <1>8 DEF SavesIInv

LEMMA TimerFiresKeeps == ASSUME SavesIInv, TimerFires PROVE SavesIInv'
<1>1. /\ up /\ armed /\ reply = NoReply /\ armed' = FALSE /\ pending' = Nothing
      /\ mirror' = [mirror EXCEPT !.items = view.items]
      /\ UNCHANGED <<manifest, dirs, cache, up, view, reply, wanted, home, gone, life>>
  BY DEF TimerFires, mainVars
<1>d. IF pending = Nothing THEN UNCHANGED queue ELSE Batch(pending, Ends)
  BY DEF TimerFires
<1>b. overlapped' \in BOOLEAN /\ (~overlapped' => ~overlapped /\ ~OffScreen)
  BY Zenon DEF TimerFires
<1>c. slips' \subseteq SlipNames
  BY DEF SavesIInv, Shapes, StoresFit, WindowFits, MessagesFit, HistoryFits, SlipNames, TimerFires, Note
<1>2. view.items \in Items /\ pending \in Items /\ Nothing \in Items /\ queue \in Seq(Messages)
  BY BoundFacts DEF SavesIInv, Shapes, StoresFit, WindowFits, MessagesFit, HistoryFits, Views
<1>3. mirror' \in Mirrors /\ mirror'.items = view.items /\ mirror'.active = mirror.active
  BY <1>1, <1>2 DEF SavesIInv, Shapes, StoresFit, WindowFits, MessagesFit, HistoryFits, Mirrors
<1>4. queue' = queue \/ \E m \in Messages : /\ queue' = Append(queue, m) /\ ~OfCollections(m.then)
                                             /\ m.op = "update" /\ m.then.step # "rewrite"
  <2>1. CASE pending = Nothing
    BY <2>1, <1>d
  <2>2. CASE pending # Nothing
    BY <2>2, <1>d, <1>2, BatchEffect DEF SavesIInv
  <2> QED BY <2>1, <2>2
<1>5. queue' \in Seq(Messages) /\ (~overlapped /\ Homely => \A i \in DOMAIN queue' : HomelyMessage(queue'[i], home))
  <2>1. CASE queue' = queue
    BY <2>1, <1>2 DEF Homely
  <2>2. CASE \E m \in Messages : /\ queue' = Append(queue, m) /\ ~OfCollections(m.then)
                                 /\ m.op = "update" /\ m.then.step # "rewrite"
    <3>1. PICK m \in Messages : /\ queue' = Append(queue, m)
                                /\ m.op = "update" /\ m.then.step # "rewrite"
      BY <2>2
    <3>2. HomelyMessage(m, home)
      BY <3>1 DEF HomelyMessage, HomelyThen
    <3> QED BY <3>1, <3>2, <1>2, Appended DEF Homely
  <2> QED BY <2>1, <2>2, <1>4
<1>e. queue' \in Seq(Messages) /\ {view.active, view.shown, mirror'.active} \subseteq Coll
  BY <1>5, <1>1, <1>3 DEF SavesIInv, Shapes, StoresFit, WindowFits, MessagesFit, HistoryFits
<1>6. Shapes'
  BY <1>1, <1>2, <1>3, <1>e, <1>b, <1>c DEF SavesIInv, Shapes, StoresFit, WindowFits, MessagesFit, HistoryFits
<1>7. HomesKept'
  BY <1>1, <1>3, <1>5, <1>b DEF SavesIInv, HomesKept, Homely, OffScreen
<1>8. OneAtATime'
  <2> SUFFICES ASSUME ~overlapped, OneHandler(queue, reply, view, mirror.active)
               PROVE  OneHandler(queue', reply, view, mirror.active)
    BY <1>1, <1>3, <1>b DEF SavesIInv, OneAtATime
  <2>1. ~OfCollections(reply.then)
    BY <1>1, BoundFacts
  <2> QED BY <2>1, <1>2, <1>4, QuietSend
<1> QED BY <1>6, <1>7, <1>8 DEF SavesIInv

-----------------------------------------------------------------------------
(* The structure of a collection *)


LEMMA NewHome ==
  ASSUME Shapes, NEW r \in Req, NEW x, home[r] = 0, home' = [home EXCEPT ![r] = x]
  PROVE  /\ home'[r] = x
         /\ \A c \in Coll : \A items : HomelyItems(items, c, home) => HomelyItems(items, c, home')
         /\ \A c \in Coll : \A d : HomelyDir(d, c, home) => HomelyDir(d, c, home')
         /\ \A m \in Messages : HomelyMessage(m, home) => HomelyMessage(m, home')
<1>1. /\ home'[r] = x /\ \A q \in Req : home'[q] = home[q] \/ home[q] = 0
  BY DEF Shapes, HistoryFits
<1>2. \A c \in Coll : c # 0
  BY BoundFacts
<1>3. \A c \in Coll : \A items : HomelyItems(items, c, home) => HomelyItems(items, c, home')
  BY <1>1, <1>2 DEF HomelyItems
<1>4. \A c \in Coll : \A d : HomelyDir(d, c, home) => HomelyDir(d, c, home')
  BY <1>1, <1>2 DEF HomelyDir
<1>5. ASSUME NEW t \in Thens PROVE HomelyThen(t, home) => HomelyThen(t, home')
  BY <1>3, ThenTypes DEF HomelyThen
<1>6. ASSUME NEW m \in Messages PROVE HomelyMessage(m, home) => HomelyMessage(m, home')
  BY <1>3, <1>5, MessageTypes DEF HomelyMessage
<1> QED BY <1>1, <1>3, <1>4, <1>6

\* The slips and the overlap that a save of the structure notes.
LEMMA Structure ==
  ASSUME SavesIInv, NEW items \in Items, SaveStructure(items), up, ~overlapped
  PROVE  /\ view' \in Views /\ view'.items = items /\ view'.active = view.active
         /\ view'.shown = view.shown /\ view'.colls = view.colls
         /\ mirror' \in Mirrors /\ mirror'.items = items /\ mirror'.active = mirror.active
         /\ wanted' \in [Coll -> Contents]
         /\ overlapped' \in BOOLEAN /\ (~overlapped' => view.shown = mirror.active)
         /\ slips' \subseteq SlipNames
<1>1. overlapped' \in BOOLEAN /\ (~overlapped' => ~OffScreen)
  BY Zenon DEF SaveStructure
<1>2. slips' \subseteq SlipNames
  BY DEF SavesIInv, Shapes, HistoryFits, SlipNames, SaveStructure, Note
<1>3. /\ view' = [view EXCEPT !.items = items] /\ mirror' = [mirror EXCEPT !.items = items]
      /\ wanted' = [wanted EXCEPT ![view.shown].items = items]
  BY DEF SaveStructure
<1>4. wanted' \in [Coll -> Contents]
  BY <1>3 DEF SavesIInv, Shapes, HistoryFits, Contents
<1> QED BY <1>1, <1>2, <1>3, <1>4 DEF SavesIInv, Shapes, WindowFits, Views, Mirrors, OffScreen

LEMMA AddRequestKeeps == ASSUME SavesIInv, NEW r \in Req, AddRequest(r) PROVE SavesIInv'
<1> DEFINE items == [view.items EXCEPT ![r] = 1]
           m == Save(mirror.active, items, mirror.headers, Ends)
<1>1. /\ up /\ ~overlapped /\ reply = NoReply /\ home[r] = 0 /\ SaveStructure(items)
      /\ home' = [home EXCEPT ![r] = view.shown]
      /\ queue' = Append(queue, m)
      /\ UNCHANGED <<manifest, dirs, cache, up, reply, pending, armed, gone, life>>
  BY DEF AddRequest, Command, mainVars, Send
<1>2. view.items \in Items /\ items \in Items /\ queue \in Seq(Messages) /\ mirror.headers \in Versions
      /\ {view.active, view.shown, mirror.active} \subseteq Coll
  BY <1>1, BoundFacts DEF SavesIInv, Shapes, WindowFits, MessagesFit, Views, Mirrors, Items
<1>3. /\ view' \in Views /\ view'.items = items /\ view'.active = view.active
      /\ view'.shown = view.shown /\ view'.colls = view.colls
      /\ mirror' \in Mirrors /\ mirror'.items = items /\ mirror'.active = mirror.active
      /\ wanted' \in [Coll -> Contents]
      /\ overlapped' \in BOOLEAN /\ (~overlapped' => view.shown = mirror.active)
      /\ slips' \subseteq SlipNames
  BY <1>1, <1>2, Structure
<1>4. m \in Messages /\ m.then = Ends /\ m.op = "save" /\ m.items = items /\ m.coll = mirror.active
  BY <1>2, MessagesMade DEF Save
<1>5. home' \in [Req -> Coll \cup {0}] /\ home'[r] = view.shown
  BY <1>1, <1>2 DEF SavesIInv, Shapes, HistoryFits
<1> HIDE DEF m
<1>6. queue' \in Seq(Messages)
  BY <1>1, <1>2, <1>4
<1>7. Shapes'
  <2>1. StoresFit' /\ MessagesFit'
    BY <1>1, <1>6 DEF SavesIInv, Shapes, StoresFit, MessagesFit
  <2>2. WindowFits'
    BY <1>1, <1>2, <1>3 DEF SavesIInv, Shapes, WindowFits
  <2>3. HistoryFits'
    BY <1>1, <1>3, <1>5 DEF SavesIInv, Shapes, HistoryFits
  <2> QED BY <2>1, <2>2, <2>3 DEF Shapes
<1>8. HomesKept'
  <2> SUFFICES ASSUME ~overlapped' PROVE Homely'
    BY DEF HomesKept
  <2>1. Homely
    BY <1>1 DEF SavesIInv, HomesKept
  <2>2. HomelyItems(items, view.shown, home')
    <3>1. HomelyItems(view.items, view.shown, home')
      BY <2>1, <1>1, <1>2, NewHome DEF Homely, SavesIInv
    <3> QED BY <3>1, <1>2, <1>5 DEF HomelyItems, Items
  <2>3. HomelyMessage(m, home')
    BY <2>2, <1>3, <1>4, StepsOf DEF HomelyMessage, HomelyThen
  <2>4. \A c \in Coll : HomelyDir(dirs[c], c, home')
    BY <2>1, <1>1, NewHome DEF Homely, SavesIInv
  <2>5. \A i \in DOMAIN queue' : HomelyMessage(queue'[i], home')
    <3>1. \A n \in Messages : HomelyMessage(n, home) => HomelyMessage(n, home')
      BY <1>1, NewHome DEF SavesIInv
    <3>2. \A i \in DOMAIN queue : HomelyMessage(queue[i], home) /\ queue[i] \in Messages
      BY <2>1, <1>2 DEF Homely
    <3>3. \A i \in DOMAIN queue : HomelyMessage(queue[i], home')
      BY <3>1, <3>2
    <3> QED BY <3>3, <2>3, <1>1, <1>2, <1>4, HomelyAppend
  <2>6. HomelyReply(reply, home')
    BY <1>1, BoundFacts, StepsOf DEF HomelyReply, HomelyThen
  <2> QED BY <2>2, <2>4, <2>5, <2>6, <1>1, <1>3 DEF Homely
<1>9. OneAtATime'
  <2> SUFFICES ASSUME OneHandler(queue, reply, view, mirror.active)
               PROVE  OneHandler(queue', reply, view', mirror.active)
    BY <1>1, <1>3 DEF SavesIInv, OneAtATime
  <2>1. OneHandler(queue, reply, view', mirror.active)
    BY <1>3, SamePhase
  <2>2. ~OfCollections(reply.then) /\ ~OfCollections(m.then)
    BY <1>1, <1>4, BoundFacts, WhoHandles
  <2> QED BY <2>1, <2>2, <1>1, <1>2, <1>4, QuietSend
<1> QED BY <1>7, <1>8, <1>9 DEF SavesIInv

LEMMA DeleteRequestKeeps == ASSUME SavesIInv, NEW r \in Req, DeleteRequest(r) PROVE SavesIInv'
<1> DEFINE items == [view.items EXCEPT ![r] = 0]
           m == Save(mirror.active, items, mirror.headers, Ends)
           d == DeleteFile(r)
<1>1. /\ up /\ ~overlapped /\ reply = NoReply /\ SaveStructure(items)
      /\ pending' = [pending EXCEPT ![r] = 0]
      /\ queue' = queue \o <<m, d>>
      /\ UNCHANGED <<manifest, dirs, cache, up, reply, armed, home, life>>
  BY DEF DeleteRequest, Command, mainVars
<1>2. view.items \in Items /\ items \in Items /\ queue \in Seq(Messages) /\ mirror.headers \in Versions
      /\ {view.active, view.shown, mirror.active} \subseteq Coll /\ pending \in Items
  BY <1>1, BoundFacts DEF SavesIInv, Shapes, WindowFits, MessagesFit, Views, Mirrors, Items
<1>3. /\ view' \in Views /\ view'.items = items /\ view'.active = view.active
      /\ view'.shown = view.shown /\ view'.colls = view.colls
      /\ mirror' \in Mirrors /\ mirror'.items = items /\ mirror'.active = mirror.active
      /\ wanted' \in [Coll -> Contents]
      /\ overlapped' \in BOOLEAN /\ (~overlapped' => view.shown = mirror.active)
      /\ slips' \subseteq SlipNames
  BY <1>1, <1>2, Structure
<1>4. /\ m \in Messages /\ m.then = Ends /\ m.op = "save" /\ m.items = items /\ m.coll = mirror.active
      /\ d \in Messages /\ d.then = Ends /\ d.op = "delete"
  BY <1>2, MessagesMade DEF Save, DeleteFile
<1>5. pending' \in Items /\ (pending' # Nothing => pending # Nothing)
  BY <1>1, <1>2, BoundFacts DEF Items, Nothing
<1> HIDE DEF m, d
<1>6. /\ Append(queue, m) \in Seq(Messages) /\ queue' = Append(Append(queue, m), d)
      /\ queue' \in Seq(Messages)
  BY <1>1, <1>2, <1>4
<1>7. Shapes'
  <2>1. StoresFit' /\ MessagesFit'
    BY <1>1, <1>6 DEF SavesIInv, Shapes, StoresFit, MessagesFit
  <2>2. WindowFits'
    BY <1>1, <1>2, <1>3, <1>5 DEF SavesIInv, Shapes, WindowFits
  <2>3. HistoryFits'
    BY <1>1, <1>3 DEF SavesIInv, Shapes, HistoryFits
  <2> QED BY <2>1, <2>2, <2>3 DEF Shapes
<1>8. HomesKept'
  <2> SUFFICES ASSUME ~overlapped' PROVE Homely'
    BY DEF HomesKept
  <2>1. Homely
    BY <1>1 DEF SavesIInv, HomesKept
  <2>2. HomelyItems(items, view.shown, home)
    BY <2>1, <1>1, <1>2 DEF Homely, HomelyItems, Items
  <2>3. HomelyMessage(m, home) /\ HomelyMessage(d, home)
    BY <2>2, <1>3, <1>4, StepsOf DEF HomelyMessage, HomelyThen
  <2>4. \A i \in DOMAIN Append(queue, m) : HomelyMessage(Append(queue, m)[i], home)
    BY <2>1, <2>3, <1>2, <1>4, HomelyAppend DEF Homely
  <2>5. \A i \in DOMAIN queue' : HomelyMessage(queue'[i], home)
    BY <2>4, <2>3, <1>4, <1>6, HomelyAppend
  <2> QED BY <2>1, <2>2, <2>5, <1>1, <1>3 DEF Homely
<1>9. OneAtATime'
  <2> SUFFICES ASSUME OneHandler(queue, reply, view, mirror.active)
               PROVE  OneHandler(queue', reply, view', mirror.active)
    BY <1>1, <1>3 DEF SavesIInv, OneAtATime
  <2>1. OneHandler(queue, reply, view', mirror.active)
    BY <1>3, SamePhase
  <2>2. ~OfCollections(reply.then) /\ ~OfCollections(m.then) /\ ~OfCollections(d.then)
    BY <1>1, <1>4, BoundFacts, WhoHandles
  <2>3. OneHandler(Append(queue, m), reply, view', mirror.active)
    BY <2>1, <2>2, <1>2, <1>4, QuietSend
  <2> QED BY <2>2, <2>3, <1>4, <1>6, QuietSend
<1> QED BY <1>7, <1>8, <1>9 DEF SavesIInv

LEMMA SetHeadersKeeps == ASSUME SavesIInv, SetHeaders PROVE SavesIInv'
<1> DEFINE c == view.active
           h == wanted[c].headers + 1
           m == Save(c, mirror.items, h, Ends)
           u == [step |-> "headers", coll |-> c, headers |-> h]
           l == Load(c, u)
<1>1. /\ up /\ ~overlapped /\ reply = NoReply /\ h \in Versions
      /\ wanted' = [wanted EXCEPT ![c].headers = h]
      /\ IF c = mirror.active
         THEN /\ mirror' = [mirror EXCEPT !.headers = h] /\ queue' = Append(queue, m)
              /\ slips' \subseteq slips \cup {"mirror"}
         ELSE queue' = Append(queue, l) /\ UNCHANGED <<mirror, slips>>
      /\ UNCHANGED <<manifest, dirs, cache, up, reply, view, pending, armed, home, life>>
  BY DEF SetHeaders, Command, mainVars, Send, Note
<1>2. overlapped' \in BOOLEAN /\ (~overlapped' => ~OffScreen /\ view.active = mirror.active)
  BY Zenon DEF SetHeaders
<1>3. mirror.items \in Items /\ queue \in Seq(Messages) /\ c \in Coll
  BY <1>1 DEF SavesIInv, Shapes, WindowFits, MessagesFit, Mirrors
<1>4. m \in Messages /\ m.then = Ends /\ m.op = "save" /\ m.items = mirror.items /\ m.coll = c
  BY <1>1, <1>3, MessagesMade DEF Save
<1>5. u \in AfterLoad /\ u.coll = c
  BY <1>1, <1>3, ThensMade
<1>6. l \in Messages
  BY <1>3, <1>5, MessagesMade
<1>7. wanted' \in [Coll -> Contents]
  BY <1>1, <1>3 DEF SavesIInv, Shapes, HistoryFits, Contents
<1>8. mirror' \in Mirrors /\ mirror'.active = mirror.active /\ mirror'.items = mirror.items
  BY <1>1, <1>3 DEF SavesIInv, Shapes, WindowFits, Mirrors
<1> HIDE DEF m, u, l
<1>9. Shapes'
  <2>1. StoresFit'
    BY <1>1 DEF SavesIInv, Shapes, StoresFit
  <2>2. MessagesFit'
    <3>1. queue' = Append(queue, m) \/ queue' = Append(queue, l)
      BY <1>1
    <3>2. queue' \in Seq(Messages)
      BY <3>1, <1>3, <1>4, <1>6
    <3> QED BY <3>2, <1>1 DEF SavesIInv, Shapes, MessagesFit
  <2>3. WindowFits'
    <3>1. {view.active, view.shown, mirror'.active} \subseteq Coll
      BY <1>1, <1>8 DEF SavesIInv, Shapes, WindowFits
    <3>2. UNCHANGED <<up, view, pending, armed>>
      BY <1>1
    <3> QED BY <3>1, <3>2, <1>8 DEF SavesIInv, Shapes, WindowFits
  <2>4. slips' \subseteq SlipNames
    BY <1>1 DEF SavesIInv, Shapes, HistoryFits, SlipNames
  <2>5. HistoryFits'
    BY <1>1, <1>2, <1>7, <2>4 DEF SavesIInv, Shapes, HistoryFits
  <2> QED BY <2>1, <2>2, <2>3, <2>5 DEF Shapes
<1>10. ASSUME ~overlapped' PROVE queue' = Append(queue, m)
  BY <1>1, <1>2, <1>10
<1>11. HomesKept'
  <2> SUFFICES ASSUME ~overlapped' PROVE Homely'
    BY DEF HomesKept
  <2>1. Homely
    BY <1>1 DEF SavesIInv, HomesKept
  <2>2. HomelyMessage(m, home)
    BY <2>1, <1>1, <1>2, <1>4, StepsOf DEF HomelyMessage, HomelyThen, Homely
  <2>3. \A i \in DOMAIN queue' : HomelyMessage(queue'[i], home)
    BY <2>1, <2>2, <1>3, <1>4, <1>10, HomelyAppend DEF Homely
  <2> QED BY <2>1, <2>3, <1>1, <1>8 DEF Homely
<1>12. OneAtATime'
  <2> SUFFICES ASSUME ~overlapped', OneHandler(queue, reply, view, mirror.active)
               PROVE  OneHandler(queue', reply, view, mirror.active)
    BY <1>1, <1>8 DEF SavesIInv, OneAtATime
  <2>1. ~OfCollections(reply.then) /\ ~OfCollections(m.then)
    BY <1>1, <1>4, BoundFacts, WhoHandles
  <2> QED BY <2>1, <1>3, <1>4, <1>10, QuietSend
<1> QED BY <1>9, <1>11, <1>12 DEF SavesIInv

-----------------------------------------------------------------------------
(* Commands that begin a handler *)


\* A command that begins a handler: nobody else is under way, or every claim ends.
LEMMA HandlerBegins ==
  ASSUME SavesIInv, up, ~overlapped, reply = NoReply, reply' = reply, up' = up,
         overlapped' = (overlapped \/ Switching),
         NEW m \in Messages, queue' = Append(queue, m), OfCollections(m.then),
         view'.active \in view'.colls,
         Together(view, mirror.active) => Phase(m.then, view', mirror'.active)
  PROVE  /\ overlapped' \in BOOLEAN
         /\ (~overlapped' => Together(view, mirror.active))
         /\ queue' \in Seq(Messages)
         /\ OneAtATime'
<1>1. overlapped' \in BOOLEAN /\ (~overlapped' => ~Switching)
  BY Zenon
<1>2. queue \in Seq(Messages) /\ ~OfCollections(reply.then)
  BY BoundFacts DEF SavesIInv, Shapes, MessagesFit
<1>3. ~overlapped' => /\ \A i \in DOMAIN queue : ~OfCollections(queue[i].then)
                      /\ Together(view, mirror.active)
  BY <1>1 DEF Switching, SavesIInv, OneAtATime, OneHandler
<1>4. OneAtATime'
  <2> SUFFICES ASSUME ~overlapped' PROVE OneHandler(queue', reply, view', mirror'.active)
    BY DEF OneAtATime
  <2> QED BY <1>2, <1>3, HandlerSends
<1> QED BY <1>1, <1>2, <1>3, <1>4

LEMMA SelectCollectionKeeps ==
  ASSUME SavesIInv, NEW c \in Coll, SelectCollection(c) PROVE SavesIInv'
<1> DEFINE t == [step |-> "switchSaved", coll |-> c]
<1>1. /\ up /\ ~overlapped /\ reply = NoReply /\ c \in view.colls
      /\ FlushAndSave(t)
      /\ UNCHANGED <<manifest, dirs, cache, up, reply, view, wanted, home, gone, life>>
  BY DEF SelectCollection, CollectionCommand, Command, mainVars
<1>2. t \in AfterSave /\ t.coll = c /\ t.step = "switchSaved"
  BY ThensMade
<1> HIDE DEF t
<1>3. queue \in Seq(Messages) /\ {view.active, view.shown, mirror.active} \subseteq Coll
      /\ view.active \in view.colls
  BY <1>1 DEF SavesIInv, Shapes, WindowFits, MessagesFit, OneAtATime
<1>4. /\ pending' = Nothing /\ armed' = FALSE
      /\ mirror' \in Mirrors /\ mirror'.active = mirror.active
      /\ mirror'.items \in {mirror.items, view.items}
      /\ slips' \subseteq SlipNames
      /\ \E m \in Messages : /\ queue' = Append(queue, m) /\ Carries(m, t)
                             /\ HomelyItems(view.items, view.active, home)
                                  => HomelyMessage(m, home)
  BY <1>1, <1>2, <1>3, FlushEffect DEF SavesIInv
<1>5. PICK m \in Messages : /\ queue' = Append(queue, m) /\ Carries(m, t)
                            /\ HomelyItems(view.items, view.active, home)
                                 => HomelyMessage(m, home)
  BY <1>4
<1>6. Together(view, mirror.active) => Phase(m.then, view', mirror'.active)
  <2>1. Together(view, mirror.active) => Phase(t, view, mirror.active)
    BY <1>1, <1>2 DEF Phase, Core
  <2> QED BY <2>1, <1>1, <1>2, <1>4, <1>5, CarriesPhase
<1>7. /\ overlapped' \in BOOLEAN /\ (~overlapped' => Together(view, mirror.active))
      /\ queue' \in Seq(Messages) /\ OneAtATime'
  <2>1. overlapped' = (overlapped \/ Switching)
    BY DEF SelectCollection, CollectionCommand
  <2>2. OfCollections(m.then)
    BY <1>5 DEF Carries
  <2> QED BY <2>1, <2>2, <1>1, <1>3, <1>5, <1>6, HandlerBegins
<1>8. Shapes'
  <2>1. StoresFit' /\ MessagesFit'
    BY <1>1, <1>7 DEF SavesIInv, Shapes, StoresFit, MessagesFit
  <2>2. WindowFits'
    BY <1>1, <1>3, <1>4, BoundFacts DEF SavesIInv, Shapes, WindowFits
  <2>3. HistoryFits'
    BY <1>1, <1>4, <1>7 DEF SavesIInv, Shapes, HistoryFits
  <2> QED BY <2>1, <2>2, <2>3 DEF Shapes
<1>9. HomesKept'
  <2> SUFFICES ASSUME ~overlapped' PROVE Homely'
    BY DEF HomesKept
  <2>1. Homely /\ view.shown = mirror.active /\ view.active = mirror.active
    BY <1>1, <1>7 DEF SavesIInv, HomesKept, Together
  <2>2. HomelyMessage(m, home)
    BY <2>1, <1>1, <1>5 DEF Homely
  <2>3. \A i \in DOMAIN queue' : HomelyMessage(queue'[i], home)
    BY <2>1, <2>2, <1>3, <1>5, HomelyAppend DEF Homely
  <2> QED BY <2>1, <2>3, <1>1, <1>4 DEF Homely
<1> QED BY <1>7, <1>8, <1>9 DEF SavesIInv

LEMMA AddCollectionKeeps ==
  ASSUME SavesIInv, NEW c \in Coll, AddCollection(c) PROVE SavesIInv'
<1> DEFINE t == [step |-> "addStored", coll |-> c, colls |-> view.colls \cup {c}]
<1>1. /\ up /\ ~overlapped /\ reply = NoReply
      /\ SaveCollectionData(c, Nothing, t)
      /\ life' = [life EXCEPT ![c] = "made"]
      /\ UNCHANGED <<manifest, dirs, cache, up, reply, view, pending, armed, wanted, home, gone>>
  BY DEF AddCollection, CollectionCommand, Command, mainVars
<1>3. queue \in Seq(Messages) /\ {view.active, view.shown, mirror.active} \subseteq Coll
      /\ view.active \in view.colls /\ view.colls \subseteq Coll /\ Nothing \in Items
  BY <1>1, BoundFacts DEF SavesIInv, Shapes, WindowFits, MessagesFit, OneAtATime, Views
<1>2. t \in AfterSave /\ t.step = "addStored" /\ t.coll \in t.colls
  <2>1. view.colls \cup {c} \in SUBSET Coll
    BY <1>3
  <2> QED BY <2>1, ThensMade
<1> HIDE DEF t
<1>4. /\ mirror' \in Mirrors /\ mirror'.active = mirror.active
      /\ mirror' = mirror \/ (c = mirror.active /\ mirror'.items = Nothing)
      /\ slips' \subseteq SlipNames
      /\ \E m \in Messages : /\ queue' = Append(queue, m) /\ Carries(m, t)
                             /\ HomelyItems(Nothing, c, home) => HomelyMessage(m, home)
  BY <1>1, <1>2, <1>3, SaveEffect DEF SavesIInv
<1>a. \A h, x : HomelyItems(Nothing, x, h)
  BY DEF HomelyItems, Nothing
<1>5. PICK m \in Messages : /\ queue' = Append(queue, m) /\ Carries(m, t)
                            /\ HomelyMessage(m, home)
  BY <1>4, <1>a
<1>6. Together(view, mirror.active) => Phase(m.then, view', mirror'.active)
  <2>1. Together(view, mirror.active) => Phase(t, view, mirror.active)
    BY <1>2 DEF Phase, Core
  <2> QED BY <2>1, <1>1, <1>2, <1>4, <1>5, CarriesPhase
<1>7. /\ overlapped' \in BOOLEAN /\ (~overlapped' => Together(view, mirror.active))
      /\ queue' \in Seq(Messages) /\ OneAtATime'
  <2>1. overlapped' = (overlapped \/ Switching)
    BY DEF AddCollection, CollectionCommand
  <2>2. OfCollections(m.then)
    BY <1>5 DEF Carries
  <2> QED BY <2>1, <2>2, <1>1, <1>3, <1>5, <1>6, HandlerBegins
<1>8. Shapes'
  <2>1. StoresFit' /\ MessagesFit'
    BY <1>1, <1>7 DEF SavesIInv, Shapes, StoresFit, MessagesFit
  <2>2. WindowFits'
    BY <1>1, <1>3, <1>4 DEF SavesIInv, Shapes, WindowFits
  <2>3. HistoryFits'
    BY <1>1, <1>4, <1>7 DEF SavesIInv, Shapes, HistoryFits
  <2> QED BY <2>1, <2>2, <2>3 DEF Shapes
<1>9. HomesKept'
  <2> SUFFICES ASSUME ~overlapped' PROVE Homely'
    BY DEF HomesKept
  <2>1. Homely
    BY <1>1 DEF SavesIInv, HomesKept
  <2>3. \A i \in DOMAIN queue' : HomelyMessage(queue'[i], home)
    BY <2>1, <1>3, <1>5, HomelyAppend DEF Homely
  <2>4. HomelyItems(mirror'.items, mirror'.active, home)
    BY <2>1, <1>1, <1>4, <1>a DEF Homely
  <2> QED BY <2>1, <2>3, <2>4, <1>1 DEF Homely
<1> QED BY <1>7, <1>8, <1>9 DEF SavesIInv

LEMMA DeleteCollectionKeeps ==
  ASSUME SavesIInv, NEW c \in Coll, DeleteCollection(c) PROVE SavesIInv'
<1> DEFINE rest == view.colls \ {c}
           u == [step |-> "deleteListed", old |-> c]
           m == SaveManifest(rest, view.active, u)
<1>1. /\ up /\ ~overlapped /\ reply = NoReply
      /\ life' = [life EXCEPT ![c] = "deleted"]
      /\ UNCHANGED <<manifest, dirs, cache, up, reply, wanted, home, gone>>
  BY DEF DeleteCollection, CollectionCommand, Command, mainVars
<1>b. overlapped' = (overlapped \/ Switching)
  BY DEF DeleteCollection, CollectionCommand
<1>c. slips' \subseteq SlipNames
  BY DEF DeleteCollection, Note, SavesIInv, Shapes, HistoryFits, SlipNames
<1>2. queue \in Seq(Messages) /\ {view.active, view.shown, mirror.active} \subseteq Coll
      /\ view.active \in view.colls /\ view.colls \subseteq Coll
      /\ mirror \in Mirrors
  BY <1>1 DEF SavesIInv, Shapes, WindowFits, MessagesFit, OneAtATime, Views
<1>3. HistoryFits' <=> overlapped' \in BOOLEAN
  BY <1>1, <1>c DEF SavesIInv, Shapes, HistoryFits
<1>4. CASE c = view.active
  <2>1. /\ pending' = Nothing /\ armed' = FALSE /\ UNCHANGED <<view, mirror>>
        /\ \E next \in rest :
             Send(Load(next, [step |-> "deleteLoaded", coll |-> next, colls |-> rest, old |-> c]))
    BY <1>4 DEF DeleteCollection
  <2>2. PICK next \in rest :
           Send(Load(next, [step |-> "deleteLoaded", coll |-> next, colls |-> rest, old |-> c]))
    BY <2>1
  <2> DEFINE t == [step |-> "deleteLoaded", coll |-> next, colls |-> rest, old |-> c]
             l == Load(next, t)
  <2>3. queue' = Append(queue, l)
    BY <2>2 DEF Send
  <2>4. t \in AfterLoad /\ t.coll = next /\ t.step = "deleteLoaded" /\ t.coll \in t.colls
    <3>1. rest \in SUBSET Coll /\ next \in Coll
      BY <1>2
    <3> QED BY <3>1, ThensMade
  <2>5. l \in Messages /\ l.then = t /\ l.op = "load"
    <3>1. next \in Coll
      BY <1>2
    <3> QED BY <3>1, <2>4, MessagesMade DEF Load
  <2> HIDE DEF t, l, rest
  <2>6. OfCollections(l.then)
    BY <2>4, <2>5, WhoHandles DEF Handlers
  <2>7. Together(view, mirror.active) => Phase(l.then, view', mirror'.active)
    BY <2>1, <2>4, <2>5 DEF Phase, Core
  <2>8. /\ overlapped' \in BOOLEAN /\ queue' \in Seq(Messages) /\ OneAtATime'
    BY <2>1, <2>3, <2>5, <2>6, <2>7, <1>1, <1>2, <1>b, HandlerBegins
  <2>9. Shapes'
    <3>1. StoresFit' /\ MessagesFit'
      BY <1>1, <2>8 DEF SavesIInv, Shapes, StoresFit, MessagesFit
    <3>2. WindowFits'
      BY <1>1, <2>1, BoundFacts DEF SavesIInv, Shapes, WindowFits
    <3> QED BY <3>1, <3>2, <1>3, <2>8 DEF Shapes
  <2>10. HomesKept'
    <3>1. Homely
      BY <1>1 DEF SavesIInv, HomesKept
    <3>2. HomelyMessage(l, home)
      BY <2>4, <2>5 DEF HomelyMessage, HomelyThen
    <3>3. \A i \in DOMAIN queue' : HomelyMessage(queue'[i], home)
      BY <3>1, <3>2, <2>3, <2>5, <1>2, HomelyAppend DEF Homely
    <3> QED BY <3>1, <3>3, <1>1, <2>1 DEF Homely, HomesKept
  <2> QED BY <2>8, <2>9, <2>10 DEF SavesIInv
<1>5. CASE c # view.active
  <2>1. /\ view' = [view EXCEPT !.colls = rest]
        /\ mirror' = [active |-> view.active, items |-> Nothing, headers |-> 0]
        /\ queue' = Append(queue, m) /\ UNCHANGED <<pending, armed>>
    BY <1>5 DEF DeleteCollection, Send
  <2>2. u \in AfterManifest /\ u.step = "deleteListed"
    BY ThensMade
  <2>3. m \in Messages /\ m.then = u /\ m.op = "manifest"
    <3>1. rest \in SUBSET Coll /\ view.active \in Coll
      BY <1>2
    <3> QED BY <3>1, <2>2, MessagesMade DEF SaveManifest
  <2>4. /\ view' \in Views /\ view'.active = view.active /\ view'.shown = view.shown
        /\ view'.items = view.items /\ view'.active \in view'.colls
    BY <2>1, <1>2, <1>5 DEF SavesIInv, Shapes, WindowFits, Views
  <2>5. mirror' \in Mirrors /\ mirror'.active = view.active /\ mirror'.items = Nothing
    BY <2>1, <1>2, BoundFacts DEF Mirrors
  <2> HIDE DEF u, m, rest
  <2>6. OfCollections(m.then)
    BY <2>2, <2>3, WhoHandles DEF Handlers
  <2>7. Together(view, mirror.active) => Phase(m.then, view', mirror'.active)
    BY <2>2, <2>3, <2>4, <2>5 DEF Phase, Core, Together
  <2>8. /\ overlapped' \in BOOLEAN /\ queue' \in Seq(Messages) /\ OneAtATime'
    BY <2>1, <2>3, <2>4, <2>6, <2>7, <1>1, <1>2, <1>b, HandlerBegins
  <2>9. Shapes'
    <3>1. StoresFit' /\ MessagesFit'
      BY <1>1, <2>8 DEF SavesIInv, Shapes, StoresFit, MessagesFit
    <3>2. {view'.active, view'.shown, mirror'.active} \subseteq Coll
      BY <1>2, <2>4, <2>5
    <3>3. WindowFits'
      BY <1>1, <2>1, <2>4, <2>5, <3>2 DEF SavesIInv, Shapes, WindowFits
    <3> QED BY <3>1, <3>3, <1>3, <2>8 DEF Shapes
  <2>10. HomesKept'
    <3>1. Homely
      BY <1>1 DEF SavesIInv, HomesKept
    <3>2. HomelyMessage(m, home) /\ HomelyItems(Nothing, view.active, home)
      BY <2>2, <2>3 DEF HomelyMessage, HomelyThen, HomelyItems, Nothing
    <3>3. \A i \in DOMAIN queue' : HomelyMessage(queue'[i], home)
      BY <3>1, <3>2, <2>1, <2>3, <1>2, HomelyAppend DEF Homely
    <3> QED BY <3>1, <3>2, <3>3, <1>1, <2>4, <2>5 DEF Homely, HomesKept
  <2> QED BY <2>8, <2>9, <2>10 DEF SavesIInv
<1> QED BY <1>4, <1>5

-----------------------------------------------------------------------------
(* Handlers go on *)


\* A handler that goes on with another message, or is done.
LEMMA HandlerGoesOn ==
  ASSUME SavesIInv, up, up' = up, overlapped' = overlapped,
         OfCollections(reply.then), reply' = NoReply,
         NEW m \in Messages, queue' = Append(queue, m), OfCollections(m.then),
         Phase(reply.then, view, mirror.active) /\ view.active \in view.colls
           => Phase(m.then, view', mirror'.active) /\ view'.active \in view'.colls
  PROVE  OneAtATime'
<1> SUFFICES ASSUME ~overlapped
             PROVE  view'.active \in view'.colls /\ OneHandler(queue', reply', view', mirror'.active)
  BY DEF OneAtATime
<1>1. /\ \A i \in DOMAIN queue : ~OfCollections(queue[i].then)
      /\ Phase(reply.then, view, mirror.active) /\ view.active \in view.colls
  BY NobodyElse DEF SavesIInv, OneAtATime
<1>2. queue \in Seq(Messages) /\ ~OfCollections(reply'.then)
  BY BoundFacts DEF SavesIInv, Shapes, MessagesFit
<1> QED BY <1>1, <1>2, HandlerSends

LEMMA HandlerIsDone ==
  ASSUME SavesIInv, up, up' = up, overlapped' = overlapped,
         OfCollections(reply.then), reply' = NoReply, queue' = queue,
         Phase(reply.then, view, mirror.active) /\ view.active \in view.colls
           => Together(view', mirror'.active) /\ view'.active \in view'.colls
  PROVE  OneAtATime'
<1> SUFFICES ASSUME ~overlapped
             PROVE  view'.active \in view'.colls /\ OneHandler(queue', reply', view', mirror'.active)
  BY DEF OneAtATime
<1>1. /\ \A i \in DOMAIN queue : ~OfCollections(queue[i].then)
      /\ Phase(reply.then, view, mirror.active) /\ view.active \in view.colls
  BY NobodyElse DEF SavesIInv, OneAtATime
<1>2. ~OfCollections(reply'.then)
  BY BoundFacts
<1> QED BY <1>1, <1>2, HandlerEnds

\* What every resumption leaves alone.
LEMMA Resumption ==
  ASSUME SavesIInv, NEW s \in {"batch", "rewrite", "headers", "switchSaved", "switchListed",
                               "switchLoaded", "addStored", "addSaved", "addListed",
                               "deleteLoaded", "deleteShown", "deleteListed"},
         Resume(s)
  PROVE  /\ up /\ up' = up /\ overlapped' = overlapped /\ home' = home /\ reply' = NoReply
         /\ UNCHANGED <<manifest, dirs, cache, wanted, gone, life>>
         /\ reply.then \in Thens /\ reply.data \in Contents /\ reply.then.step = s
         /\ queue \in Seq(Messages)
         /\ view \in Views /\ mirror \in Mirrors /\ pending \in Items
         /\ {view.active, view.shown, mirror.active} \subseteq Coll
         /\ view.colls \subseteq Coll /\ view.items \in Items
         /\ StoresFit'
         /\ (slips' \subseteq SlipNames => HistoryFits')
         /\ (queue' \in Seq(Messages) => MessagesFit')
<1>1. /\ reply.then.step = s /\ reply' = NoReply
      /\ UNCHANGED <<manifest, dirs, cache, up, wanted, home, gone, life, overlapped>>
  BY DEF Resume, mainVars
<1>2. reply # NoReply
  BY <1>1, BoundFacts, StepsOf
<1>3. up
  BY <1>2 DEF SavesIInv, Shapes, MessagesFit
<1>4. StoresFit'
  BY <1>1 DEF SavesIInv, Shapes, StoresFit
<1>5. slips' \subseteq SlipNames => HistoryFits'
  BY <1>1 DEF SavesIInv, Shapes, HistoryFits
<1>6. queue' \in Seq(Messages) => MessagesFit'
  BY <1>1, <1>3, BoundFacts DEF MessagesFit
<1> QED BY <1>1, <1>3, <1>4, <1>5, <1>6 DEF SavesIInv, Shapes, MessagesFit, WindowFits, Views

\* Where everything is at home, and what is added is.
LEMMA HomesKeptOn ==
  ASSUME SavesIInv, up, up' = up, overlapped' = overlapped, home' = home, dirs' = dirs,
         reply' = NoReply, 
         ~overlapped /\ Homely =>
           /\ \A i \in DOMAIN queue' : HomelyMessage(queue'[i], home)
           /\ HomelyItems(view'.items, view'.shown, home)
           /\ HomelyItems(mirror'.items, mirror'.active, home)
  PROVE  HomesKept'
<1>1. HomelyReply(reply', home)
  BY BoundFacts, StepsOf DEF HomelyReply, HomelyThen
<1> QED BY <1>1 DEF SavesIInv, HomesKept, Homely

LEMMA NextPatchKeeps == ASSUME SavesIInv, NextPatch PROVE SavesIInv'
<1> DEFINE patches == reply.then.patches
           t == reply.then.then
<1>1. /\ up /\ up' = up /\ overlapped' = overlapped /\ home' = home /\ reply' = NoReply
      /\ UNCHANGED <<manifest, dirs, cache, wanted, gone, life>>
      /\ reply.then \in Thens /\ reply.then.step = "batch" /\ queue \in Seq(Messages)
      /\ StoresFit' /\ (slips' \subseteq SlipNames => HistoryFits')
      /\ (queue' \in Seq(Messages) => MessagesFit')
  BY Resumption DEF NextPatch
<1>2. /\ patches # Nothing /\ Batch(patches, t) /\ UNCHANGED <<view, mirror, pending, armed>>
  BY DEF NextPatch, rendererVars
<1>3. patches \in Items /\ t \in {Ends} \cup AfterSave
  BY <1>1, ThenTypes
<1>4. PICK m \in Messages : /\ queue' = Append(queue, m) /\ m.op = "update"
                            /\ m.then.step # "rewrite"
                            /\ IF t = Ends THEN ~OfCollections(m.then) ELSE Carries(m, t)
  BY <1>2, <1>3, BatchEffect DEF SavesIInv
<1>5. slips' \subseteq SlipNames
  BY DEF NextPatch, Note, SavesIInv, Shapes, HistoryFits, SlipNames
<1>6. queue' \in Seq(Messages)
  BY <1>1, <1>4
<1>7. Shapes'
  BY <1>1, <1>2, <1>5, <1>6 DEF SavesIInv, Shapes, WindowFits
<1>8. HomelyMessage(m, home)
  BY <1>4 DEF HomelyMessage, HomelyThen
<1>9. HomesKept'
  BY <1>1, <1>2, <1>4, <1>8, HomesKeptOn, HomelyAppend DEF Homely
<1>10. reply.then \in Batches
  BY <1>1, StepsOf DEF Thens, Handlers
<1>11. OneAtATime'
  <2>1. CASE t = Ends
    <3> SUFFICES ASSUME ~overlapped, OneHandler(queue, reply, view, mirror.active)
                 PROVE  OneHandler(queue', reply', view, mirror.active)
      BY <1>1, <1>2 DEF SavesIInv, OneAtATime
    <3>1. ~OfCollections(reply.then) /\ ~OfCollections(reply'.then) /\ ~OfCollections(m.then)
      BY <2>1, <1>1, <1>4, <1>10, WhoHandles, BoundFacts
    <3> QED BY <3>1, <1>1, <1>4, QuietSend
  <2>2. CASE t # Ends
    <3>1. t \in AfterSave /\ OfCollections(reply.then) /\ OfCollections(m.then)
      BY <2>2, <1>3, <1>4, <1>10, WhoHandles DEF Carries
    <3>2. Core(reply.then) = t /\ Core(m.then) = t
      BY <2>2, <1>1, <1>4 DEF Core, Carries
    <3>3. Phase(reply.then, view, mirror.active) => Phase(m.then, view, mirror.active)
      BY <3>2 DEF Phase
    <3> QED BY <3>1, <3>3, <1>1, <1>2, <1>4, HandlerGoesOn
  <2> QED BY <2>1, <2>2
<1> QED BY <1>7, <1>9, <1>11 DEF SavesIInv

LEMMA PhaseNow ==
  ASSUME SavesIInv, up, ~overlapped, OfCollections(reply.then)
  PROVE  /\ Phase(reply.then, view, mirror.active) /\ view.active \in view.colls
         /\ (Core(reply.then) \in AfterSave => Together(view, mirror.active))
<1>1. Phase(reply.then, view, mirror.active) /\ view.active \in view.colls
  BY NobodyElse DEF SavesIInv, OneAtATime
<1>2. Core(reply.then) \in AfterSave => Together(view, mirror.active)
  BY <1>1, StepsOf DEF Phase
<1> QED BY <1>1, <1>2

LEMMA FlushedKeeps == ASSUME SavesIInv, Flushed PROVE SavesIInv'
<1> DEFINE t == reply.then.then
<1>1. /\ up /\ up' = up /\ overlapped' = overlapped /\ home' = home /\ reply' = NoReply
      /\ dirs' = dirs
      /\ reply.then \in Thens /\ reply.then.step = "batch" /\ queue \in Seq(Messages)
      /\ StoresFit' /\ (slips' \subseteq SlipNames => HistoryFits')
      /\ (queue' \in Seq(Messages) => MessagesFit') /\ view.active \in Coll /\ view.items \in Items
  BY Resumption DEF Flushed
<1>2. /\ reply.then.patches = Nothing /\ SaveCollectionData(view.active, view.items, t)
      /\ UNCHANGED <<view, pending, armed>>
  BY DEF Flushed
<1>3. t \in AfterSave
  BY <1>1, <1>2, ThenTypes
<1>4. /\ mirror' \in Mirrors /\ mirror'.active = mirror.active
      /\ mirror' = mirror \/ (view.active = mirror.active /\ mirror'.items = view.items)
      /\ slips' \subseteq SlipNames
      /\ \E m \in Messages : /\ queue' = Append(queue, m) /\ Carries(m, t)
                             /\ HomelyItems(view.items, view.active, home) => HomelyMessage(m, home)
  BY <1>1, <1>2, <1>3, SaveEffect DEF SavesIInv
<1>5. PICK m \in Messages : /\ queue' = Append(queue, m) /\ Carries(m, t)
                            /\ HomelyItems(view.items, view.active, home) => HomelyMessage(m, home)
  BY <1>4
<1>6. reply.then \in Batches /\ OfCollections(reply.then) /\ Core(reply.then) = t
  BY <1>1, <1>3, StepsOf, WhoHandles DEF Thens, Handlers, Core
<1>7. queue' \in Seq(Messages)
  BY <1>1, <1>5
<1>8. Shapes'
  BY <1>1, <1>2, <1>4, <1>7 DEF SavesIInv, Shapes, WindowFits
<1>9. HomesKept'
  <2> SUFFICES ASSUME ~overlapped, Homely
               PROVE  /\ \A i \in DOMAIN queue' : HomelyMessage(queue'[i], home)
                      /\ HomelyItems(view'.items, view'.shown, home)
                      /\ HomelyItems(mirror'.items, mirror'.active, home)
    BY <1>1, HomesKeptOn
  <2>1. view.shown = mirror.active /\ view.active = mirror.active
    BY <1>1, <1>3, <1>6, PhaseNow DEF Together
  <2>2. HomelyItems(view.items, view.shown, home) /\ HomelyItems(mirror.items, mirror.active, home)
    BY <1>1 DEF Homely
  <2>3. HomelyMessage(m, home)
    BY <2>1, <2>2, <1>5
  <2>4. \A i \in DOMAIN queue' : HomelyMessage(queue'[i], home)
    BY <2>3, <1>1, <1>5, HomelyAppend DEF Homely
  <2> QED BY <2>1, <2>2, <2>4, <1>2, <1>4
<1>10. OneAtATime'
  <2>1. OfCollections(m.then)
    BY <1>5 DEF Carries
  <2>2. Phase(reply.then, view, mirror.active) => Phase(m.then, view', mirror'.active)
    BY <1>2, <1>4, <1>5, <1>6 DEF Phase, Carries
  <2> QED BY <2>1, <2>2, <1>1, <1>2, <1>5, <1>6, HandlerGoesOn
<1> QED BY <1>8, <1>9, <1>10 DEF SavesIInv

LEMMA RewriteKeeps == ASSUME SavesIInv, Rewrite PROVE SavesIInv'
<1> DEFINE t == reply.then.then
           c == reply.then.coll
           m == Save(c, reply.then.items, reply.data.headers, t)
<1>1. /\ up /\ up' = up /\ overlapped' = overlapped /\ home' = home /\ reply' = NoReply
      /\ dirs' = dirs
      /\ reply.then \in Thens /\ reply.then.step = "rewrite" /\ queue \in Seq(Messages)
      /\ StoresFit' /\ (slips' \subseteq SlipNames => HistoryFits')
      /\ (queue' \in Seq(Messages) => MessagesFit') /\ reply.data \in Contents
  BY Resumption DEF Rewrite
<1>2. queue' = Append(queue, m) /\ UNCHANGED <<view, mirror, pending, armed, slips>>
  BY DEF Rewrite, Send, rendererVars
<1>3. t \in AfterSave /\ c \in Coll /\ reply.then.items \in Items /\ reply.data.headers \in Versions
  BY <1>1, ThenTypes DEF Contents
<1>4. m \in Messages /\ m.op = "save" /\ m.then = t /\ m.items = reply.then.items /\ m.coll = c
  BY <1>3, MessagesMade DEF Save
<1> HIDE DEF m
<1>5. OfCollections(reply.then) /\ OfCollections(m.then) /\ Core(reply.then) = t /\ Core(m.then) = t
  <2>1. reply.then \in Handlers
    BY <1>1, StepsOf DEF Thens
  <2>2. t \in Handlers /\ t.step \notin {"batch", "rewrite"}
    BY <1>3, StepsOf DEF Handlers
  <2> QED BY <2>1, <2>2, <1>1, <1>4, WhoHandles DEF Core
<1>6. queue' \in Seq(Messages)
  BY <1>1, <1>2, <1>4
<1>7. Shapes'
  BY <1>1, <1>2, <1>6 DEF SavesIInv, Shapes, WindowFits, HistoryFits
<1>8. HomesKept'
  <2> SUFFICES ASSUME ~overlapped, Homely
               PROVE  /\ \A i \in DOMAIN queue' : HomelyMessage(queue'[i], home)
                      /\ HomelyItems(view'.items, view'.shown, home)
                      /\ HomelyItems(mirror'.items, mirror'.active, home)
    BY <1>1, HomesKeptOn
  <2>1. HomelyMessage(m, home)
    BY <1>1, <1>3, <1>4, StepsOf DEF Homely, HomelyReply, HomelyMessage, HomelyThen
  <2> QED BY <2>1, <1>1, <1>2, <1>4, HomelyAppend DEF Homely
<1>9. OneAtATime'
  <2>1. Phase(reply.then, view, mirror.active) => Phase(m.then, view', mirror'.active)
    BY <1>2, <1>5 DEF Phase
  <2> QED BY <2>1, <1>1, <1>2, <1>4, <1>5, HandlerGoesOn
<1> QED BY <1>7, <1>8, <1>9 DEF SavesIInv

LEMMA RewriteHeadersKeeps == ASSUME SavesIInv, RewriteHeaders PROVE SavesIInv'
<1> DEFINE c == reply.then.coll
           m == Save(c, reply.data.items, reply.then.headers, Ends)
<1>1. /\ up /\ up' = up /\ overlapped' = overlapped /\ home' = home /\ reply' = NoReply
      /\ dirs' = dirs
      /\ reply.then \in Thens /\ reply.then.step = "headers" /\ queue \in Seq(Messages)
      /\ StoresFit' /\ (slips' \subseteq SlipNames => HistoryFits')
      /\ (queue' \in Seq(Messages) => MessagesFit') /\ reply.data \in Contents
  BY Resumption DEF RewriteHeaders
<1>2. queue' = Append(queue, m) /\ UNCHANGED <<view, mirror, pending, armed, slips>>
  BY DEF RewriteHeaders, Send, rendererVars
<1>3. c \in Coll /\ reply.then.headers \in Versions /\ reply.data.items \in Items
  BY <1>1, ThenTypes DEF Contents
<1>4. m \in Messages
  BY <1>3, MessagesMade
<1> HIDE DEF m
<1>5. overlapped
  <2>1. reply.then \in Handlers
    BY <1>1, StepsOf DEF Thens
  <2>2. OfCollections(reply.then) /\ Core(reply.then) = reply.then
    BY <2>1, <1>1, WhoHandles DEF Core
  <2>3. ~Phase(reply.then, view, mirror.active)
    BY <2>2, <1>1 DEF Phase
  <2> QED BY <2>2, <2>3, <1>1, PhaseNow
<1>6. queue' \in Seq(Messages)
  BY <1>1, <1>2, <1>4
<1>7. Shapes'
  BY <1>1, <1>2, <1>6 DEF SavesIInv, Shapes, WindowFits, HistoryFits
<1> QED BY <1>1, <1>5, <1>7 DEF SavesIInv, HomesKept, OneAtATime


\* The handlers whose next message carries no tree: what the window shows stays at
\* home, and the message says where the handler is.
LEMMA HandlerStep ==
  ASSUME SavesIInv, up, up' = up, overlapped' = overlapped, home' = home, dirs' = dirs,
         reply' = NoReply, OfCollections(reply.then),
         queue \in Seq(Messages), StoresFit', slips' = slips,
         (slips' \subseteq SlipNames => HistoryFits'), (queue' \in Seq(Messages) => MessagesFit'),
         view' \in Views, mirror' \in Mirrors, pending' = pending, armed' = armed,
         {view'.active, view'.shown, mirror'.active} \subseteq Coll,
         Homely => HomelyItems(view'.items, view'.shown, home),
         Homely => HomelyItems(mirror'.items, mirror'.active, home),
         NEW m \in Messages, queue' = Append(queue, m), OfCollections(m.then),
         m.op # "save", m.then.step # "rewrite",
         Phase(reply.then, view, mirror.active) /\ view.active \in view.colls
           => Phase(m.then, view', mirror'.active) /\ view'.active \in view'.colls
  PROVE  SavesIInv'
<1>1. queue' \in Seq(Messages)
  OBVIOUS
<1>2. WindowFits'
  BY DEF SavesIInv, Shapes, WindowFits
<1>3. HistoryFits'
  BY DEF SavesIInv, Shapes, HistoryFits
<1>4. HomelyMessage(m, home)
  BY DEF HomelyMessage, HomelyThen
<1>5. Homely => \A i \in DOMAIN queue' : HomelyMessage(queue'[i], home)
  BY <1>4, HomelyAppend DEF Homely
<1>6. HomesKept'
  BY <1>5, HomesKeptOn
<1>7. OneAtATime'
  BY HandlerGoesOn
<1> QED BY <1>1, <1>2, <1>3, <1>6, <1>7 DEF SavesIInv, Shapes

LEMMA HandlerDone ==
  ASSUME SavesIInv, up, up' = up, overlapped' = overlapped, home' = home, dirs' = dirs,
         reply' = NoReply, OfCollections(reply.then),
         queue \in Seq(Messages), StoresFit', slips' = slips,
         (slips' \subseteq SlipNames => HistoryFits'), (queue' \in Seq(Messages) => MessagesFit'),
         view' \in Views, mirror' \in Mirrors, pending' = pending, armed' = armed,
         {view'.active, view'.shown, mirror'.active} \subseteq Coll,
         Homely => HomelyItems(view'.items, view'.shown, home),
         Homely => HomelyItems(mirror'.items, mirror'.active, home),
         queue' = queue,
         Phase(reply.then, view, mirror.active) /\ view.active \in view.colls
           => Together(view', mirror'.active) /\ view'.active \in view'.colls
  PROVE  SavesIInv'
<1>2. WindowFits'
  BY DEF SavesIInv, Shapes, WindowFits
<1>3. HistoryFits'
  BY DEF SavesIInv, Shapes, HistoryFits
<1>6. HomesKept'
  BY HomesKeptOn DEF Homely
<1>7. OneAtATime'
  BY HandlerIsDone
<1> QED BY <1>2, <1>3, <1>6, <1>7 DEF SavesIInv, Shapes

LEMMA PlainHandler ==
  ASSUME NEW t \in Handlers, t.step # "rewrite"
  PROVE  t \in Thens /\ OfCollections(t) /\ Core(t) = t
BY WhoHandles, StepsOf DEF Handlers, Thens, Core

LEMMA SwitchSavedKeeps == ASSUME SavesIInv, SwitchSaved PROVE SavesIInv'
<1> DEFINE c == reply.then.coll
           u == [step |-> "switchListed", coll |-> c]
           m == SaveManifest(view.colls, c, u)
<1>1. /\ up /\ up' = up /\ overlapped' = overlapped /\ home' = home /\ reply' = NoReply
      /\ dirs' = dirs
      /\ reply.then \in Thens /\ reply.then.step = "switchSaved" /\ queue \in Seq(Messages)
      /\ StoresFit' /\ (slips' \subseteq SlipNames => HistoryFits')
      /\ (queue' \in Seq(Messages) => MessagesFit')
      /\ view \in Views /\ mirror \in Mirrors /\ reply.data \in Contents
      /\ {view.active, view.shown, mirror.active} \subseteq Coll /\ view.colls \in SUBSET Coll
  BY Resumption DEF SwitchSaved
<1>2. /\ mirror' = [active |-> c, items |-> Nothing, headers |-> 0]
      /\ view' = [view EXCEPT !.active = c]
      /\ queue' = Append(queue, m)
      /\ UNCHANGED <<pending, armed, slips>>
  BY DEF SwitchSaved, Send
<1>3. c \in Coll /\ reply.then \in AfterSave
  BY <1>1, ThenTypes
<1>4. u \in AfterManifest /\ u.step = "switchListed" /\ u.coll = c
  BY <1>3, ThensMade
<1>5. m \in Messages /\ m.op = "manifest" /\ m.then = u
  BY <1>1, <1>3, <1>4, MessagesMade DEF SaveManifest
<1>6. OfCollections(reply.then) /\ Core(reply.then) = reply.then /\ OfCollections(u) /\ Core(u) = u
  BY <1>1, <1>3, <1>4, PlainHandler DEF Handlers
<1> HIDE DEF u, m
<1>7. /\ view' \in Views /\ view'.active = c /\ view'.shown = view.shown /\ view'.items = view.items
      /\ view'.colls = view.colls
      /\ mirror' \in Mirrors /\ mirror'.active = c /\ mirror'.items = Nothing
  BY <1>1, <1>2, <1>3, BoundFacts DEF Views, Mirrors
<1>8. HomelyItems(mirror'.items, mirror'.active, home)
  BY <1>7 DEF HomelyItems, Nothing
<1>9. Homely => HomelyItems(view'.items, view'.shown, home)
  BY <1>1, <1>7 DEF Homely
<1>10. Phase(reply.then, view, mirror.active) /\ view.active \in view.colls
         => Phase(m.then, view', mirror'.active) /\ view'.active \in view'.colls
  BY <1>1, <1>2, <1>4, <1>5, <1>6, <1>7 DEF Phase, Together
<1>11. {view'.active, view'.shown, mirror'.active} \subseteq Coll
  BY <1>1, <1>3, <1>7
<1>12. OfCollections(m.then) /\ m.op # "save" /\ m.then.step # "rewrite"
  BY <1>4, <1>5, <1>6
<1> QED BY <1>1, <1>2, <1>5, <1>6, <1>7, <1>8, <1>9, <1>10, <1>11, <1>12, HandlerStep

LEMMA SwitchListedKeeps == ASSUME SavesIInv, SwitchListed PROVE SavesIInv'
<1> DEFINE c == reply.then.coll
           u == [step |-> "switchLoaded", coll |-> c]
           m == Load(c, u)
<1>1. /\ up /\ up' = up /\ overlapped' = overlapped /\ home' = home /\ reply' = NoReply
      /\ dirs' = dirs
      /\ reply.then \in Thens /\ reply.then.step = "switchListed" /\ queue \in Seq(Messages)
      /\ StoresFit' /\ (slips' \subseteq SlipNames => HistoryFits')
      /\ (queue' \in Seq(Messages) => MessagesFit')
      /\ view \in Views /\ mirror \in Mirrors /\ reply.data \in Contents
      /\ {view.active, view.shown, mirror.active} \subseteq Coll /\ view.colls \in SUBSET Coll
  BY Resumption DEF SwitchListed
<1>2. queue' = Append(queue, m) /\ UNCHANGED <<view, mirror, pending, armed, slips>>
  BY DEF SwitchListed, Send, rendererVars
<1>3. c \in Coll /\ reply.then \in AfterManifest
  BY <1>1, ThenTypes
<1>4. u \in AfterLoad /\ u.step = "switchLoaded" /\ u.coll = c
  BY <1>3, ThensMade
<1>5. m \in Messages /\ m.op = "load" /\ m.then = u
  BY <1>3, <1>4, MessagesMade DEF Load
<1>6. OfCollections(reply.then) /\ Core(reply.then) = reply.then /\ OfCollections(u) /\ Core(u) = u
  BY <1>1, <1>3, <1>4, PlainHandler DEF Handlers
<1> HIDE DEF u, m
<1>7. view' = view /\ mirror' = mirror /\ view' \in Views /\ mirror' \in Mirrors
  BY <1>1, <1>2
<1>8. Homely => HomelyItems(mirror'.items, mirror'.active, home)
  BY <1>1, <1>7 DEF Homely
<1>9. Homely => HomelyItems(view'.items, view'.shown, home)
  BY <1>1, <1>7 DEF Homely
<1>10. Phase(reply.then, view, mirror.active) /\ view.active \in view.colls
         => Phase(m.then, view', mirror'.active) /\ view'.active \in view'.colls
  BY <1>1, <1>2, <1>4, <1>5, <1>6, <1>7 DEF Phase, Together
<1>11. {view'.active, view'.shown, mirror'.active} \subseteq Coll
  BY <1>1, <1>3, <1>7
<1>12. OfCollections(m.then) /\ m.op # "save" /\ m.then.step # "rewrite"
  BY <1>4, <1>5, <1>6
<1> QED BY <1>1, <1>2, <1>5, <1>6, <1>7, <1>8, <1>9, <1>10, <1>11, <1>12, HandlerStep

LEMMA SwitchLoadedKeeps == ASSUME SavesIInv, SwitchLoaded PROVE SavesIInv'
<1> DEFINE c == reply.then.coll
<1>1. /\ up /\ up' = up /\ overlapped' = overlapped /\ home' = home /\ reply' = NoReply
      /\ dirs' = dirs
      /\ reply.then \in Thens /\ reply.then.step = "switchLoaded" /\ queue \in Seq(Messages)
      /\ StoresFit' /\ (slips' \subseteq SlipNames => HistoryFits')
      /\ (queue' \in Seq(Messages) => MessagesFit')
      /\ view \in Views /\ mirror \in Mirrors /\ reply.data \in Contents
      /\ {view.active, view.shown, mirror.active} \subseteq Coll /\ view.colls \in SUBSET Coll
  BY Resumption DEF SwitchLoaded
<1>2. /\ mirror' = Mirrored(c, reply.data)
      /\ view' = [view EXCEPT !.items = reply.data.items, !.shown = c]
      /\ UNCHANGED <<pending, armed, queue, slips>>
  BY DEF SwitchLoaded
<1>3. c \in Coll /\ reply.then \in AfterLoad
  BY <1>1, ThenTypes
<1>6. OfCollections(reply.then) /\ Core(reply.then) = reply.then
  BY <1>1, <1>3, PlainHandler DEF Handlers
<1>7. /\ view' \in Views /\ view'.active = view.active /\ view'.shown = c
      /\ view'.items = reply.data.items /\ view'.colls = view.colls
      /\ mirror' \in Mirrors /\ mirror'.active = mirror.active
      /\ mirror' = mirror \/ (mirror'.items = reply.data.items /\ mirror'.active = c)
  BY <1>1, <1>2, <1>3 DEF Views, Mirrors, Mirrored, Contents
<1>8. Homely => HomelyItems(mirror'.items, mirror'.active, home)
  BY <1>1, <1>7 DEF Homely, HomelyReply
<1>9. Homely => HomelyItems(view'.items, view'.shown, home)
  BY <1>1, <1>7 DEF Homely, HomelyReply
<1>10. Phase(reply.then, view, mirror.active) /\ view.active \in view.colls
         => Together(view', mirror'.active) /\ view'.active \in view'.colls
  BY <1>1, <1>2, <1>6, <1>7 DEF Phase, Together
<1>11. {view'.active, view'.shown, mirror'.active} \subseteq Coll
  BY <1>1, <1>3, <1>7
<1> QED BY <1>1, <1>2, <1>6, <1>7, <1>8, <1>9, <1>10, <1>11, HandlerDone

LEMMA AddSavedKeeps == ASSUME SavesIInv, AddSaved PROVE SavesIInv'
<1> DEFINE c == reply.then.coll
           u == [step |-> "addListed", coll |-> c]
           m == SaveManifest(reply.then.colls, c, u)
<1>1. /\ up /\ up' = up /\ overlapped' = overlapped /\ home' = home /\ reply' = NoReply
      /\ dirs' = dirs
      /\ reply.then \in Thens /\ reply.then.step = "addSaved" /\ queue \in Seq(Messages)
      /\ StoresFit' /\ (slips' \subseteq SlipNames => HistoryFits')
      /\ (queue' \in Seq(Messages) => MessagesFit')
      /\ view \in Views /\ mirror \in Mirrors /\ reply.data \in Contents
      /\ {view.active, view.shown, mirror.active} \subseteq Coll /\ view.colls \in SUBSET Coll
  BY Resumption DEF AddSaved
<1>2. /\ mirror' = [active |-> c, items |-> Nothing, headers |-> 0]
      /\ view' = [view EXCEPT !.colls = reply.then.colls, !.active = c]
      /\ queue' = Append(queue, m)
      /\ UNCHANGED <<pending, armed, slips>>
  BY DEF AddSaved, Send
<1>3. c \in Coll /\ reply.then.colls \in SUBSET Coll /\ reply.then \in AfterSave
  BY <1>1, ThenTypes
<1>4. u \in AfterManifest /\ u.step = "addListed" /\ u.coll = c
  BY <1>3, ThensMade
<1>5. m \in Messages /\ m.op = "manifest" /\ m.then = u
  BY <1>1, <1>3, <1>4, MessagesMade DEF SaveManifest
<1>6. OfCollections(reply.then) /\ Core(reply.then) = reply.then /\ OfCollections(u) /\ Core(u) = u
  BY <1>1, <1>3, <1>4, PlainHandler DEF Handlers
<1> HIDE DEF u, m
<1>7. /\ view' \in Views /\ view'.active = c /\ view'.shown = view.shown /\ view'.items = view.items
      /\ view'.colls = reply.then.colls
      /\ mirror' \in Mirrors /\ mirror'.active = c /\ mirror'.items = Nothing
  BY <1>1, <1>2, <1>3, BoundFacts DEF Views, Mirrors
<1>8. HomelyItems(mirror'.items, mirror'.active, home)
  BY <1>7 DEF HomelyItems, Nothing
<1>9. Homely => HomelyItems(view'.items, view'.shown, home)
  BY <1>1, <1>7 DEF Homely
<1>10. Phase(reply.then, view, mirror.active) /\ view.active \in view.colls
         => Phase(m.then, view', mirror'.active) /\ view'.active \in view'.colls
  BY <1>1, <1>2, <1>4, <1>5, <1>6, <1>7 DEF Phase, Together
<1>11. {view'.active, view'.shown, mirror'.active} \subseteq Coll
  BY <1>1, <1>3, <1>7
<1>12. OfCollections(m.then) /\ m.op # "save" /\ m.then.step # "rewrite"
  BY <1>4, <1>5, <1>6
<1> QED BY <1>1, <1>2, <1>5, <1>6, <1>7, <1>8, <1>9, <1>10, <1>11, <1>12, HandlerStep

LEMMA AddListedKeeps == ASSUME SavesIInv, AddListed PROVE SavesIInv'
<1> DEFINE c == reply.then.coll
<1>1. /\ up /\ up' = up /\ overlapped' = overlapped /\ home' = home /\ reply' = NoReply
      /\ dirs' = dirs
      /\ reply.then \in Thens /\ reply.then.step = "addListed" /\ queue \in Seq(Messages)
      /\ StoresFit' /\ (slips' \subseteq SlipNames => HistoryFits')
      /\ (queue' \in Seq(Messages) => MessagesFit')
      /\ view \in Views /\ mirror \in Mirrors /\ reply.data \in Contents
      /\ {view.active, view.shown, mirror.active} \subseteq Coll /\ view.colls \in SUBSET Coll
  BY Resumption DEF AddListed
<1>2. /\ view' = [view EXCEPT !.items = Nothing, !.shown = c]
      /\ UNCHANGED <<mirror, pending, armed, queue, slips>>
  BY DEF AddListed
<1>3. c \in Coll /\ reply.then \in AfterManifest
  BY <1>1, ThenTypes
<1>6. OfCollections(reply.then) /\ Core(reply.then) = reply.then
  BY <1>1, <1>3, PlainHandler DEF Handlers
<1>7. /\ view' \in Views /\ view'.active = view.active /\ view'.shown = c
      /\ view'.items = Nothing /\ view'.colls = view.colls /\ mirror' = mirror /\ mirror' \in Mirrors
  BY <1>1, <1>2, <1>3, BoundFacts DEF Views
<1>8. Homely => HomelyItems(mirror'.items, mirror'.active, home)
  BY <1>1, <1>7 DEF Homely
<1>9. HomelyItems(view'.items, view'.shown, home)
  BY <1>1, <1>7 DEF HomelyItems, Nothing
<1>10. Phase(reply.then, view, mirror.active) /\ view.active \in view.colls
         => Together(view', mirror'.active) /\ view'.active \in view'.colls
  BY <1>1, <1>2, <1>6, <1>7 DEF Phase, Together
<1>11. {view'.active, view'.shown, mirror'.active} \subseteq Coll
  BY <1>1, <1>3, <1>7
<1> QED BY <1>1, <1>2, <1>6, <1>7, <1>8, <1>9, <1>10, <1>11, HandlerDone

LEMMA DeleteLoadedKeeps == ASSUME SavesIInv, DeleteLoaded PROVE SavesIInv'
<1> DEFINE c == reply.then.coll
           u == [reply.then EXCEPT !.step = "deleteShown"]
           m == LoadEnvironments(u)
<1>1. /\ up /\ up' = up /\ overlapped' = overlapped /\ home' = home /\ reply' = NoReply
      /\ dirs' = dirs
      /\ reply.then \in Thens /\ reply.then.step = "deleteLoaded" /\ queue \in Seq(Messages)
      /\ StoresFit' /\ (slips' \subseteq SlipNames => HistoryFits')
      /\ (queue' \in Seq(Messages) => MessagesFit')
      /\ view \in Views /\ mirror \in Mirrors /\ reply.data \in Contents
      /\ {view.active, view.shown, mirror.active} \subseteq Coll /\ view.colls \in SUBSET Coll
  BY Resumption DEF DeleteLoaded
<1>2. /\ mirror' = [active |-> c, items |-> Nothing, headers |-> 0]
      /\ view' = [view EXCEPT !.items = reply.data.items, !.shown = c]
      /\ queue' = Append(queue, m)
      /\ UNCHANGED <<pending, armed, slips>>
  BY DEF DeleteLoaded, Send
<1>3. c \in Coll /\ reply.then \in AfterLoad
  BY <1>1, ThenTypes
<1>4. u \in AfterEnvironments /\ u.step = "deleteShown" /\ u.coll = c /\ u.colls = reply.then.colls
  BY <1>1, <1>3, ThensChanged
<1>5. m \in Messages /\ m.op = "environments" /\ m.then = u
  BY <1>4, MessagesMade DEF LoadEnvironments
<1>6. OfCollections(reply.then) /\ Core(reply.then) = reply.then /\ OfCollections(u) /\ Core(u) = u
  BY <1>1, <1>3, <1>4, PlainHandler DEF Handlers
<1> HIDE DEF u, m
<1>7. /\ view' \in Views /\ view'.active = view.active /\ view'.shown = c
      /\ view'.items = reply.data.items /\ view'.colls = view.colls
      /\ mirror' \in Mirrors /\ mirror'.active = c /\ mirror'.items = Nothing
  BY <1>1, <1>2, <1>3, BoundFacts DEF Views, Mirrors, Contents
<1>8. HomelyItems(mirror'.items, mirror'.active, home)
  BY <1>7 DEF HomelyItems, Nothing
<1>9. Homely => HomelyItems(view'.items, view'.shown, home)
  BY <1>1, <1>7 DEF Homely, HomelyReply
<1>10. Phase(reply.then, view, mirror.active) /\ view.active \in view.colls
         => Phase(m.then, view', mirror'.active) /\ view'.active \in view'.colls
  BY <1>1, <1>2, <1>4, <1>5, <1>6, <1>7 DEF Phase, Together
<1>11. {view'.active, view'.shown, mirror'.active} \subseteq Coll
  BY <1>1, <1>3, <1>7
<1>12. OfCollections(m.then) /\ m.op # "save" /\ m.then.step # "rewrite"
  BY <1>4, <1>5, <1>6
<1> QED BY <1>1, <1>2, <1>5, <1>6, <1>7, <1>8, <1>9, <1>10, <1>11, <1>12, HandlerStep

LEMMA DeleteShownKeeps == ASSUME SavesIInv, DeleteShown PROVE SavesIInv'
<1> DEFINE c == reply.then.coll
           u == [step |-> "deleteListed", old |-> reply.then.old]
           m == SaveManifest(reply.then.colls, c, u)
<1>1. /\ up /\ up' = up /\ overlapped' = overlapped /\ home' = home /\ reply' = NoReply
      /\ dirs' = dirs
      /\ reply.then \in Thens /\ reply.then.step = "deleteShown" /\ queue \in Seq(Messages)
      /\ StoresFit' /\ (slips' \subseteq SlipNames => HistoryFits')
      /\ (queue' \in Seq(Messages) => MessagesFit')
      /\ view \in Views /\ mirror \in Mirrors /\ reply.data \in Contents
      /\ {view.active, view.shown, mirror.active} \subseteq Coll /\ view.colls \in SUBSET Coll
  BY Resumption DEF DeleteShown
<1>2. /\ view' = [view EXCEPT !.colls = reply.then.colls, !.active = c]
      /\ queue' = Append(queue, m)
      /\ UNCHANGED <<mirror, pending, armed, slips>>
  BY DEF DeleteShown, Send
<1>3. /\ c \in Coll /\ reply.then.colls \in SUBSET Coll /\ reply.then.old \in Coll
      /\ reply.then \in AfterEnvironments
  BY <1>1, ThenTypes
<1>4. u \in AfterManifest /\ u.step = "deleteListed"
  BY <1>3, ThensMade
<1>5. m \in Messages /\ m.op = "manifest" /\ m.then = u
  BY <1>1, <1>3, <1>4, MessagesMade DEF SaveManifest
<1>6. OfCollections(reply.then) /\ Core(reply.then) = reply.then /\ OfCollections(u) /\ Core(u) = u
  BY <1>1, <1>3, <1>4, PlainHandler DEF Handlers
<1> HIDE DEF u, m
<1>7. /\ view' \in Views /\ view'.active = c /\ view'.shown = view.shown /\ view'.items = view.items
      /\ view'.colls = reply.then.colls /\ mirror' = mirror /\ mirror' \in Mirrors
  BY <1>1, <1>2, <1>3 DEF Views
<1>8. Homely => HomelyItems(mirror'.items, mirror'.active, home)
  BY <1>1, <1>7 DEF Homely
<1>9. Homely => HomelyItems(view'.items, view'.shown, home)
  BY <1>1, <1>7 DEF Homely
<1>10. Phase(reply.then, view, mirror.active) /\ view.active \in view.colls
         => Phase(m.then, view', mirror'.active) /\ view'.active \in view'.colls
  BY <1>1, <1>2, <1>4, <1>5, <1>6, <1>7 DEF Phase, Together
<1>11. {view'.active, view'.shown, mirror'.active} \subseteq Coll
  BY <1>1, <1>3, <1>7
<1>12. OfCollections(m.then) /\ m.op # "save" /\ m.then.step # "rewrite"
  BY <1>4, <1>5, <1>6
<1> QED BY <1>1, <1>2, <1>5, <1>6, <1>7, <1>8, <1>9, <1>10, <1>11, <1>12, HandlerStep


LEMMA AddStoredKeeps == ASSUME SavesIInv, AddStored PROVE SavesIInv'
<1> DEFINE t == [reply.then EXCEPT !.step = "addSaved"]
<1>1. /\ up /\ up' = up /\ overlapped' = overlapped /\ home' = home /\ reply' = NoReply
      /\ dirs' = dirs
      /\ reply.then \in Thens /\ reply.then.step = "addStored" /\ queue \in Seq(Messages)
      /\ StoresFit' /\ (slips' \subseteq SlipNames => HistoryFits')
      /\ (queue' \in Seq(Messages) => MessagesFit')
      /\ {view.active, view.shown, mirror.active} \subseteq Coll /\ view.active \in Coll
  BY Resumption DEF AddStored
<1>2. FlushAndSave(t) /\ view' = view
  BY DEF AddStored
<1>3. reply.then \in AfterSave
  BY <1>1, ThenTypes
<1>a. /\ t \in AfterSave /\ t.step = "addSaved" /\ t.coll = reply.then.coll
      /\ t.colls = reply.then.colls
  BY <1>1, <1>3, ThensChanged
<1> HIDE DEF t
<1>4. /\ pending' = Nothing /\ armed' = FALSE
      /\ mirror' \in Mirrors /\ mirror'.active = mirror.active
      /\ mirror'.items \in {mirror.items, view.items}
      /\ slips' \subseteq SlipNames
      /\ \E m \in Messages : /\ queue' = Append(queue, m) /\ Carries(m, t)
                             /\ HomelyItems(view.items, view.active, home)
                                  => HomelyMessage(m, home)
  BY <1>1, <1>2, <1>a, FlushEffect DEF SavesIInv
<1>5. PICK m \in Messages : /\ queue' = Append(queue, m) /\ Carries(m, t)
                            /\ HomelyItems(view.items, view.active, home)
                                 => HomelyMessage(m, home)
  BY <1>4
<1>6. OfCollections(reply.then) /\ Core(reply.then) = reply.then
  BY <1>1, <1>3, PlainHandler DEF Handlers
<1>7. queue' \in Seq(Messages)
  BY <1>1, <1>5
<1>8. Shapes'
  <2>1. WindowFits'
    BY <1>1, <1>2, <1>4, BoundFacts DEF SavesIInv, Shapes, WindowFits
  <2> QED BY <2>1, <1>1, <1>4, <1>7 DEF Shapes
<1>9. HomesKept'
  <2> SUFFICES ASSUME ~overlapped, Homely
               PROVE  /\ \A i \in DOMAIN queue' : HomelyMessage(queue'[i], home)
                      /\ HomelyItems(view'.items, view'.shown, home)
                      /\ HomelyItems(mirror'.items, mirror'.active, home)
    BY <1>1, HomesKeptOn
  <2>1. view.shown = mirror.active /\ view.active = mirror.active
    BY <1>1, <1>3, <1>6, PhaseNow DEF Together
  <2>2. HomelyItems(view.items, view.shown, home) /\ HomelyItems(mirror.items, mirror.active, home)
    BY <1>1 DEF Homely
  <2>3. HomelyMessage(m, home)
    BY <2>1, <2>2, <1>5
  <2>4. \A i \in DOMAIN queue' : HomelyMessage(queue'[i], home)
    BY <2>3, <1>1, <1>5, HomelyAppend DEF Homely
  <2> QED BY <2>1, <2>2, <2>4, <1>2, <1>4
<1>10. OneAtATime'
  <2>1. OfCollections(m.then)
    BY <1>5 DEF Carries
  <2>2. Phase(reply.then, view, mirror.active) => Phase(t, view, mirror.active)
    BY <1>1, <1>6, <1>a DEF Phase, Core
  <2>3. Phase(reply.then, view, mirror.active) => Phase(m.then, view', mirror'.active)
    BY <2>2, <1>2, <1>4, <1>5, <1>a, CarriesPhase
  <2> QED BY <2>1, <2>3, <1>1, <1>2, <1>5, <1>6, HandlerGoesOn
<1> QED BY <1>8, <1>9, <1>10 DEF SavesIInv

LEMMA DeleteListedKeeps == ASSUME SavesIInv, DeleteListed PROVE SavesIInv'
<1> DEFINE m == RemoveDir(reply.then.old)
<1>1. /\ up /\ up' = up /\ overlapped' = overlapped /\ home' = home /\ reply' = NoReply
      /\ dirs' = dirs
      /\ reply.then \in Thens /\ reply.then.step = "deleteListed" /\ queue \in Seq(Messages)
      /\ StoresFit' /\ (slips' \subseteq SlipNames => HistoryFits')
      /\ (queue' \in Seq(Messages) => MessagesFit')
  BY Resumption DEF DeleteListed
<1>2. queue' = Append(queue, m) /\ UNCHANGED <<view, mirror, pending, armed, slips>>
  BY DEF DeleteListed, Send, rendererVars
<1>3. reply.then.old \in Coll /\ reply.then \in AfterManifest
  BY <1>1, ThenTypes
<1>4. m \in Messages /\ m.op = "remove" /\ m.then = Ends
  BY <1>3, MessagesMade DEF RemoveDir
<1> HIDE DEF m
<1>5. OfCollections(reply.then) /\ Core(reply.then) = reply.then
  BY <1>1, <1>3, PlainHandler DEF Handlers
<1>6. queue' \in Seq(Messages)
  BY <1>1, <1>2, <1>4
<1>7. Shapes'
  BY <1>1, <1>2, <1>6 DEF SavesIInv, Shapes, WindowFits, HistoryFits
<1>8. HomelyMessage(m, home)
  BY <1>4, StepsOf DEF HomelyMessage, HomelyThen
<1>9. HomesKept'
  BY <1>1, <1>2, <1>4, <1>8, HomesKeptOn, HomelyAppend DEF Homely
<1>10. OneAtATime'
  <2> SUFFICES ASSUME ~overlapped PROVE view.active \in view.colls
                                        /\ OneHandler(queue', reply', view, mirror.active)
    BY <1>1, <1>2 DEF OneAtATime
  <2>1. Phase(reply.then, view, mirror.active) /\ view.active \in view.colls
    BY <1>1, <1>5, PhaseNow
  <2>2. Together(view, mirror.active)
    BY <2>1, <1>1, <1>5 DEF Phase
  <2>3. \A i \in DOMAIN queue : ~OfCollections(queue[i].then)
    BY <1>1, <1>5, NobodyElse DEF SavesIInv, OneAtATime
  <2>4. ~OfCollections(reply'.then) /\ ~OfCollections(m.then)
    BY <1>1, <1>4, BoundFacts, WhoHandles
  <2>5. OneHandler(queue, reply', view, mirror.active)
    BY <2>2, <2>3, <2>4, HandlerEnds
  <2> QED BY <2>1, <2>4, <2>5, <1>1, <1>2, <1>4, QuietSend
<1> QED BY <1>7, <1>9, <1>10 DEF SavesIInv

-----------------------------------------------------------------------------
(* The main process. *)

\* What serving a message leaves alone, and what the answer is.
LEMMA Served ==
  ASSUME SavesIInv, NEW op \in {"save", "load", "manifest", "update", "delete", "remove",
                                "environments"},
         Serve(op), NEW data \in Contents, Answer(data)
  PROVE  LET m == Head(queue) IN
         /\ up /\ up' = up /\ overlapped' = overlapped /\ home' = home
         /\ UNCHANGED <<view, mirror, pending, armed, wanted>>
         /\ m \in Messages /\ m.op = op /\ m = queue[1] /\ 1 \in DOMAIN queue
         /\ OneAtATime' /\ WindowFits' /\ MessagesFit'
         /\ (life' = life /\ slips' \subseteq SlipNames => HistoryFits')
         /\ reply'.then = m.then
         /\ reply' = NoReply \/ reply'.data = data
         /\ Homely => \A i \in DOMAIN queue' : HomelyMessage(queue'[i], home)
<1> DEFINE m == Head(queue)
<1>1. /\ up /\ reply = NoReply /\ queue # <<>> /\ m.op = op /\ queue' = Tail(queue)
      /\ UNCHANGED <<up, view, mirror, pending, armed, wanted, home, overlapped>>
  BY DEF Serve, rendererVars
<1>2. queue \in Seq(Messages)
  BY DEF SavesIInv, Shapes, MessagesFit
<1>3. /\ m = queue[1] /\ m \in Messages /\ queue' \in Seq(Messages) /\ 1 \in DOMAIN queue
      /\ \A i \in DOMAIN queue' : i + 1 \in DOMAIN queue /\ queue'[i] = queue[i + 1]
  BY <1>1, <1>2, HeadAndTail
<1>4. m.then \in Thens
  BY <1>3, MessageTypes
<1>5. reply' = IF m.then = Ends THEN NoReply ELSE [then |-> m.then, data |-> data]
  BY DEF Answer
<1>6. /\ reply' \in [then : Thens, data : Contents] /\ reply'.then = m.then
      /\ reply' = NoReply \/ reply'.data = data
  BY <1>4, <1>5, BoundFacts
<1>7. OneAtATime'
  <2> SUFFICES ASSUME ~overlapped, OneHandler(queue, reply, view, mirror.active)
               PROVE  OneHandler(queue', reply', view, mirror.active)
    BY <1>1 DEF SavesIInv, OneAtATime
  <2>1. ~OfCollections(reply.then)
    BY <1>1, BoundFacts
  <2> QED BY <2>1, <1>1, <1>2, <1>6, AnswerArrives
<1>8. MessagesFit' /\ WindowFits'
  BY <1>1, <1>3, <1>6 DEF SavesIInv, Shapes, WindowFits, MessagesFit
<1>9. life' = life /\ slips' \subseteq SlipNames => HistoryFits'
  BY <1>1 DEF SavesIInv, Shapes, HistoryFits
<1>10. Homely => \A i \in DOMAIN queue' : HomelyMessage(queue'[i], home)
  BY <1>3 DEF Homely
<1> QED BY <1>1, <1>3, <1>6, <1>7, <1>8, <1>9, <1>10


LEMMA NotALoad ==
  ASSUME NEW m \in Messages, m.op # "load"
  PROVE  m.then.step \notin {"switchLoaded", "deleteLoaded", "rewrite", "headers"}
BY MessageTypes, StepsOf DEF Messages

\* The parts of the invariant that are left to show of a message that was served.
LEMMA ServedKeeps ==
  ASSUME SavesIInv, NEW op \in {"save", "load", "manifest", "update", "delete", "remove",
                                "environments"},
         Serve(op), NEW data \in Contents, Answer(data),
         StoresFit', HistoryFits',
         Homely => \A c \in Coll : HomelyDir(dirs'[c], c, home),
         op = "load" /\ Homely => HomelyItems(data.items, Head(queue).coll, home)
  PROVE  SavesIInv'
<1> DEFINE m == Head(queue)
<1>1. /\ up /\ up' = up /\ overlapped' = overlapped /\ home' = home
      /\ UNCHANGED <<view, mirror, pending, armed, wanted>>
      /\ m \in Messages /\ m.op = op /\ m = queue[1] /\ 1 \in DOMAIN queue
      /\ OneAtATime' /\ WindowFits' /\ MessagesFit'
      /\ reply'.then = m.then
      /\ reply' = NoReply \/ reply'.data = data
      /\ Homely => \A i \in DOMAIN queue' : HomelyMessage(queue'[i], home)
  BY Served
<1>2. HomesKept'
  <2> SUFFICES ASSUME ~overlapped, Homely PROVE Homely'
    BY <1>1 DEF SavesIInv, HomesKept
  <2>1. HomelyMessage(m, home)
    BY <1>1 DEF Homely
  <2>2. HomelyReply(reply', home)
    <3>1. HomelyThen(reply'.then, home)
      BY <2>1, <1>1 DEF HomelyMessage
    <3>2. CASE reply' = NoReply
      BY <3>1, <3>2, BoundFacts, StepsOf DEF HomelyReply
    <3>3. CASE reply'.data = data
      <4>1. CASE op # "load"
        BY <4>1, <3>1, <1>1, NotALoad DEF HomelyReply
      <4>2. CASE op = "load"
        <5>1. m.then.coll = m.coll /\ HomelyItems(data.items, m.coll, home)
          BY <4>2, <1>1, MessageTypes
        <5> QED BY <5>1, <3>1, <3>3, <1>1 DEF HomelyReply
      <4> QED BY <4>1, <4>2
    <3> QED BY <3>2, <3>3, <1>1
  <2> QED BY <2>2, <1>1 DEF Homely
<1> QED BY <1>1, <1>2 DEF SavesIInv, Shapes

\* A directory that is saved, or partly saved.
LEMMA SavedDirectory ==
  ASSUME NEW d \in Directories, NEW items \in Items, NEW h \in Versions, NEW files
  PROVE  /\ Saved(d, items, h, files) \in Directories
         /\ \A c, hm : HomelyDir(d, c, hm) /\ HomelyItems(items, c, hm)
              => HomelyDir(Saved(d, items, h, files), c, hm)
<1> DEFINE f == [r \in Req |-> IF r \in files THEN items[r] ELSE d.files[r]]
           s == [tree |-> In(items), files |-> f, headers |-> h]
<1>1. Saved(d, items, h, files) = s
  <2> DEFINE hd == Headed(d, h)
  <2>1. hd \in Directories /\ hd.files = d.files /\ hd.headers = h
    BY DEF Headed, Directories
  <2>2. Saved(d, items, h, files) = [hd EXCEPT !.tree = In(items), !.files = f]
    BY <2>1 DEF Saved
  <2> HIDE DEF hd, f
  <2> QED BY <2>1, <2>2 DEF Directories
<1>2. f \in [Req -> Versions]
  BY DEF Directories, Items
<1>3. s \in Directories
  <2>1. In(items) \in SUBSET Req
    BY DEF In
  <2> HIDE DEF f
  <2> QED BY <2>1, <1>2 DEF Directories
<1>4. ASSUME NEW c, NEW hm, HomelyDir(d, c, hm), HomelyItems(items, c, hm) PROVE HomelyDir(s, c, hm)
  <2>1. ASSUME NEW r \in Req, r \in s.tree \/ s.files[r] > 0 PROVE hm[r] = c
    <3>1. r \in In(items) \/ f[r] > 0
      BY <2>1
    <3>2. items[r] > 0 \/ d.files[r] > 0
      BY <3>1 DEF In
    <3> QED BY <3>2, <1>4 DEF HomelyDir, HomelyItems
  <2> QED BY <2>1 DEF HomelyDir
<1> QED BY <1>1, <1>3, <1>4

LEMMA CutShortDirectory ==
  ASSUME NEW d \in Directories, NEW items \in Items, NEW h \in Versions,
         NEW e \in CutShort(d, items, h)
  PROVE  /\ e \in Directories
         /\ \A c, hm : HomelyDir(d, c, hm) /\ HomelyItems(items, c, hm) => HomelyDir(e, c, hm)
<1>1. CASE e = d
  BY <1>1
<1>2. CASE e = Headed(d, h)
  BY <1>2 DEF Headed, Directories, HomelyDir
<1>3. CASE \E files \in SUBSET In(items) : e = Saved(d, items, h, files)
  BY <1>3, SavedDirectory
<1> QED BY <1>1, <1>2, <1>3 DEF CutShort

\* A collection's directory changes.
LEMMA DirectoryChanges ==
  ASSUME StoresFit, NEW c \in Coll, NEW d \in Directories, dirs' = [dirs EXCEPT ![c] = d]
  PROVE  /\ dirs' \in [Coll -> Directories]
         /\ (\A x \in Coll : HomelyDir(dirs[x], x, home)) /\ HomelyDir(d, c, home)
              => \A x \in Coll : HomelyDir(dirs'[x], x, home)
BY DEF StoresFit

LEMMA SlipsFit ==
  ASSUME SavesIInv, NEW s \in SlipNames, slips' = slips \/ slips' = slips \cup {s}
  PROVE  slips' \subseteq SlipNames
BY DEF SavesIInv, Shapes, HistoryFits

LEMMA ServeSaveKeeps == ASSUME SavesIInv, ServeSave PROVE SavesIInv'
<1> DEFINE m == Head(queue)
           d == dirs[m.coll]
<1>1. Serve("save") /\ Answer(Empty) /\ UNCHANGED <<manifest, life>> /\ Empty \in Contents
  BY BoundFacts DEF ServeSave
<1>2. /\ life' = life /\ m \in Messages /\ m.op = "save" /\ m = queue[1] /\ 1 \in DOMAIN queue
      /\ (life' = life /\ slips' \subseteq SlipNames => HistoryFits')
  BY <1>1, Served
<1>3. m.coll \in Coll /\ m.items \in Items /\ m.headers \in Versions
  BY <1>2, MessageTypes
<1> HIDE DEF m
<1>4. d \in Directories /\ StoresFit
  BY <1>3 DEF SavesIInv, Shapes, StoresFit
<1>5. slips' \subseteq SlipNames
  <2>1. slips' = slips \/ slips' = slips \cup {"failed"}
    BY DEF ServeSave, Works, Fails
  <2> QED BY <2>1, SlipsFit DEF SlipNames
<1>6. PICK e \in Directories :
        /\ dirs' = [dirs EXCEPT ![m.coll] = e]
        /\ \A c, hm : HomelyDir(d, c, hm) /\ HomelyItems(m.items, c, hm) => HomelyDir(e, c, hm)
  <2>1. CASE dirs' = [dirs EXCEPT ![m.coll] = Saved(@, m.items, m.headers, In(m.items))]
    <3> DEFINE e == Saved(d, m.items, m.headers, In(m.items))
    <3>1. dirs' = [dirs EXCEPT ![m.coll] = e]
      BY <2>1
    <3>2. e \in Directories /\ \A c, hm : HomelyDir(d, c, hm) /\ HomelyItems(m.items, c, hm) => HomelyDir(e, c, hm)
      BY <1>3, <1>4, SavedDirectory
    <3> HIDE DEF e
    <3> QED BY <3>1, <3>2
  <2>2. CASE \E e \in CutShort(dirs[m.coll], m.items, m.headers) : dirs' = [dirs EXCEPT ![m.coll] = e]
    <3>1. PICK e \in CutShort(d, m.items, m.headers) : dirs' = [dirs EXCEPT ![m.coll] = e]
      BY <2>2
    <3>2. e \in Directories /\ \A c, hm : HomelyDir(d, c, hm) /\ HomelyItems(m.items, c, hm) => HomelyDir(e, c, hm)
      BY <1>3, <1>4, CutShortDirectory
    <3> QED BY <3>1, <3>2
  <2> QED BY <2>1, <2>2 DEF ServeSave, m
<1>7. cache' = NoCache \/ cache' = cache
  BY DEF ServeSave
<1>8. StoresFit'
  BY <1>1, <1>3, <1>4, <1>6, <1>7, DirectoryChanges DEF StoresFit
<1>9. Homely => \A c \in Coll : HomelyDir(dirs'[c], c, home)
  <2> SUFFICES ASSUME Homely PROVE \A c \in Coll : HomelyDir(dirs'[c], c, home)
    OBVIOUS
  <2>1. HomelyDir(d, m.coll, home) /\ HomelyItems(m.items, m.coll, home)
    BY <1>2, <1>3 DEF Homely, HomelyMessage
  <2>2. HomelyDir(e, m.coll, home)
    BY <2>1, <1>6
  <2> QED BY <2>2, <1>3, <1>4, <1>6, DirectoryChanges DEF Homely
<1> QED BY <1>1, <1>2, <1>5, <1>8, <1>9, ServedKeeps

LEMMA ContentFits ==
  ASSUME StoresFit, NEW c \in Coll
  PROVE  /\ Content(c) \in Contents
         /\ HomelyDir(dirs[c], c, home) => HomelyItems(Content(c).items, c, home)
<1>1. dirs[c].files \in [Req -> Versions] /\ dirs[c].headers \in Versions
  BY DEF StoresFit, Directories
<1> QED BY <1>1, BoundFacts DEF Content, Contents, Items, HomelyDir, HomelyItems

LEMMA ServeLoadKeeps == ASSUME SavesIInv, ServeLoad PROVE SavesIInv'
<1> DEFINE m == Head(queue)
<1>1. Serve("load") /\ UNCHANGED <<manifest, dirs, cache, life>>
  BY DEF ServeLoad, mainVars
<1>2. PICK data \in {Content(m.coll), Empty} : Answer(data)
  BY DEF ServeLoad
<1>3. queue \in Seq(Messages) /\ queue # <<>> /\ m.op = "load"
  BY <1>1 DEF Serve, SavesIInv, Shapes, MessagesFit
<1>4. m \in Messages
  BY <1>3, HeadAndTail
<1>5. m.coll \in Coll
  BY <1>3, <1>4, MessageTypes
<1> HIDE DEF m
<1>6. StoresFit /\ StoresFit'
  BY <1>1 DEF SavesIInv, Shapes, StoresFit
<1>7. data \in Contents
  BY <1>2, <1>5, <1>6, ContentFits, BoundFacts
<1>8. Homely => HomelyItems(data.items, m.coll, home)
  <2>1. HomelyItems(Empty.items, m.coll, home)
    BY DEF HomelyItems, Empty, Nothing
  <2> QED BY <2>1, <1>2, <1>5, <1>6, ContentFits DEF Homely
<1>9. slips' \subseteq SlipNames
  <2>1. slips' = slips \/ slips' = slips \cup {"unread"}
    BY DEF ServeLoad, Works, Fails
  <2> QED BY <2>1, SlipsFit DEF SlipNames
<1>10. HistoryFits'
  BY <1>1, <1>2, <1>7, <1>9, Served
<1> QED BY <1>1, <1>2, <1>6, <1>7, <1>8, <1>10, ServedKeeps DEF Homely, m


LEMMA ResolvedFits ==
  ASSUME StoresFit
  PROVE  Resolved \in [Req -> Coll \cup {0}]
<1>1. Scanned \subseteq Coll
  BY DEF StoresFit, Scanned
<1>2. ASSUME NEW r \in Req
      PROVE  (LET owners == {c \in Scanned : dirs[c].files[r] > 0}
              IN IF owners = {} THEN 0 ELSE Min(owners)) \in Coll \cup {0}
  <2> DEFINE owners == {c \in Scanned : dirs[c].files[r] > 0}
  <2>1. owners \subseteq Nat /\ owners \subseteq Coll
    BY <1>1, BoundFacts
  <2> HIDE DEF owners
  <2>2. owners # {} => Min(owners) \in Coll
    BY <2>1, LeastIsMember
  <2> QED BY <2>2 DEF owners
<1>3. Scan \in [Req -> Coll \cup {0}]
  BY <1>2 DEF Scan
<1> QED BY <1>3 DEF Resolved, StoresFit

LEMMA ServeManifestKeeps == ASSUME SavesIInv, ServeManifest PROVE SavesIInv'
<1> DEFINE m == Head(queue)
<1>1. Serve("manifest") /\ Answer(Empty) /\ UNCHANGED <<dirs, cache>> /\ Empty \in Contents
  BY BoundFacts DEF ServeManifest
<1>2. /\ m \in Messages /\ m.op = "manifest" /\ UNCHANGED <<wanted, home, overlapped>>
  BY <1>1, Served DEF Serve
<1>3. m.coll \in Coll /\ m.colls \subseteq Coll
  BY <1>2, MessageTypes
<1>4. /\ manifest' = manifest \/ manifest' = [colls |-> m.colls, active |-> m.coll]
      /\ life' = life \/ life' = [c \in Coll |-> IF c \in m.colls /\ life[c] = "made" THEN "listed" ELSE life[c]]
      /\ slips' = slips \/ slips' = slips \cup {"failed"}
  BY DEF ServeManifest, Works, Fails
<1> HIDE DEF m
<1>5. StoresFit'
  BY <1>1, <1>3, <1>4 DEF SavesIInv, Shapes, StoresFit
<1>6. slips' \subseteq SlipNames
  BY <1>4, SlipsFit DEF SlipNames
<1>7. life' \in [Coll -> {"unused", "made", "listed", "deleted"}]
  BY <1>4 DEF SavesIInv, Shapes, HistoryFits
<1>8. HistoryFits'
  BY <1>2, <1>6, <1>7 DEF SavesIInv, Shapes, HistoryFits
<1> QED BY <1>1, <1>5, <1>8, ServedKeeps DEF Homely

\* A request's file is written, or goes.
LEMMA FileChanges ==
  ASSUME NEW d \in Directories, NEW r \in Req, NEW v \in Versions, d.files[r] > 0,
         NEW tree \in SUBSET d.tree
  PROVE  LET e == [d EXCEPT !.files[r] = v]
             g == [d EXCEPT !.files[r] = v, !.tree = tree] IN
         /\ e \in Directories /\ g \in Directories
         /\ \A c : HomelyDir(d, c, home) => HomelyDir(e, c, home) /\ HomelyDir(g, c, home)
<1> DEFINE e == [d EXCEPT !.files[r] = v]
           g == [d EXCEPT !.files[r] = v, !.tree = tree]
<1>1. d.files \in [Req -> Versions] /\ d.tree \subseteq Req
  BY DEF Directories
<1>2. /\ e.files = [d.files EXCEPT ![r] = v] /\ e.tree = d.tree /\ e \in Directories
  BY <1>1 DEF Directories
<1>3. /\ g.files = [d.files EXCEPT ![r] = v] /\ g.tree = tree /\ g \in Directories
  BY <1>1 DEF Directories
<1> HIDE DEF e, g
<1>4. ASSUME NEW c, HomelyDir(d, c, home) PROVE HomelyDir(e, c, home) /\ HomelyDir(g, c, home)
  BY <1>1, <1>2, <1>3, <1>4 DEF HomelyDir
<1> QED BY <1>2, <1>3, <1>4 DEF e, g

LEMMA ServeUpdateKeeps == ASSUME SavesIInv, ServeUpdate PROVE SavesIInv'
<1> DEFINE m == Head(queue)
           c == Resolved[m.req]
           known == c # 0 /\ dirs[c].files[m.req] > 0
           e == [dirs[c] EXCEPT !.files[m.req] = m.version]
<1>1. /\ Serve("update") /\ Answer(Empty) /\ UNCHANGED <<manifest, life>> /\ Empty \in Contents
      /\ cache' = Resolved
  BY BoundFacts DEF ServeUpdate
<1>2. /\ m \in Messages /\ m.op = "update"
      /\ (life' = life /\ slips' \subseteq SlipNames => HistoryFits')
  BY <1>1, Served
<1>3. m.req \in Req /\ m.version \in Versions
  BY <1>2, MessageTypes
<1>4. /\ dirs' = dirs \/ (known /\ dirs' = [dirs EXCEPT ![c].files[m.req] = m.version])
      /\ slips' = slips \/ slips' = slips \cup {"swallowed"}
  BY DEF ServeUpdate, Works, Fails
<1> HIDE DEF m
<1>5. StoresFit /\ Resolved \in [Req -> Coll \cup {0}]
  BY ResolvedFits DEF SavesIInv, Shapes
<1>6. known => c \in Coll /\ dirs[c] \in Directories
  BY <1>3, <1>5 DEF StoresFit
<1>7. known => e \in Directories /\ (HomelyDir(dirs[c], c, home) => HomelyDir(e, c, home))
  <2> SUFFICES ASSUME known PROVE e \in Directories /\ (HomelyDir(dirs[c], c, home) => HomelyDir(e, c, home))
    OBVIOUS
  <2>1. dirs[c].tree \in SUBSET dirs[c].tree
    OBVIOUS
  <2> QED BY <2>1, <1>3, <1>6, FileChanges
<1>8. dirs' = dirs \/ (known /\ dirs' = [dirs EXCEPT ![c] = e])
  BY <1>4, <1>6
<1> HIDE DEF e, c
<1>9. StoresFit' /\ (Homely => \A x \in Coll : HomelyDir(dirs'[x], x, home))
  <2>1. CASE dirs' = dirs
    BY <2>1, <1>1, <1>5 DEF StoresFit, Homely
  <2>2. CASE known /\ dirs' = [dirs EXCEPT ![c] = e]
    <3>1. dirs' \in [Coll -> Directories]
      BY <2>2, <1>5, <1>6, <1>7, DirectoryChanges
    <3>2. StoresFit'
      BY <3>1, <1>1, <1>5 DEF StoresFit
    <3>3. ASSUME Homely PROVE \A x \in Coll : HomelyDir(dirs'[x], x, home)
      <4>1. \A x \in Coll : HomelyDir(dirs[x], x, home)
        BY <3>3 DEF Homely
      <4>2. HomelyDir(e, c, home)
        BY <4>1, <2>2, <1>6, <1>7
      <4> QED BY <4>1, <4>2, <2>2, <1>5, <1>6, <1>7, DirectoryChanges
    <3> QED BY <3>2, <3>3
  <2> QED BY <2>1, <2>2, <1>8
<1>10. slips' \subseteq SlipNames
  BY <1>4, SlipsFit DEF SlipNames
<1>11. HistoryFits'
  BY <1>1, <1>2, <1>10
<1> QED BY <1>1, <1>9, <1>11, ServedKeeps

LEMMA ServeDeleteKeeps == ASSUME SavesIInv, ServeDelete PROVE SavesIInv'
<1> DEFINE m == Head(queue)
           c == Resolved[m.req]
           known == c # 0 /\ dirs[c].files[m.req] > 0
           e == [dirs[c] EXCEPT !.files[m.req] = 0]
           g == [dirs[c] EXCEPT !.files[m.req] = 0, !.tree = @ \ {m.req}]
<1>1. /\ Serve("delete") /\ Answer(Empty) /\ UNCHANGED <<manifest, life>> /\ Empty \in Contents
  BY BoundFacts DEF ServeDelete
<1>2. /\ m \in Messages /\ m.op = "delete"
      /\ (life' = life /\ slips' \subseteq SlipNames => HistoryFits')
  BY <1>1, Served
<1>3. m.req \in Req /\ 0 \in Versions
  BY <1>2, MessageTypes, BoundFacts
<1>4. /\ \/ dirs' = dirs
         \/ known /\ dirs' = [dirs EXCEPT ![c].files[m.req] = 0, ![c].tree = @ \ {m.req}]
         \/ known /\ dirs' = [dirs EXCEPT ![c].files[m.req] = 0]
      /\ slips' = slips \/ slips' = slips \cup {"failed"}
      /\ cache' = Resolved \/ cache' = [Resolved EXCEPT ![m.req] = 0]
  BY DEF ServeDelete, Works, Fails
<1> HIDE DEF m
<1>5. StoresFit /\ Resolved \in [Req -> Coll \cup {0}]
  BY ResolvedFits DEF SavesIInv, Shapes
<1>a. cache' \in [Req -> Coll \cup {0}]
  BY <1>3, <1>4, <1>5
<1>6. known => c \in Coll /\ dirs[c] \in Directories
  BY <1>3, <1>5 DEF StoresFit
<1>8. \/ dirs' = dirs
      \/ known /\ dirs' = [dirs EXCEPT ![c] = g]
      \/ known /\ dirs' = [dirs EXCEPT ![c] = e]
  BY <1>4, <1>6
<1>7. known => /\ e \in Directories /\ (HomelyDir(dirs[c], c, home) => HomelyDir(e, c, home))
               /\ g \in Directories /\ (HomelyDir(dirs[c], c, home) => HomelyDir(g, c, home))
  <2> SUFFICES ASSUME known
               PROVE /\ e \in Directories /\ (HomelyDir(dirs[c], c, home) => HomelyDir(e, c, home))
                     /\ g \in Directories /\ (HomelyDir(dirs[c], c, home) => HomelyDir(g, c, home))
    OBVIOUS
  <2> DEFINE tree == dirs[c].tree \ {m.req}
             k == [dirs[c] EXCEPT !.files[m.req] = 0, !.tree = tree]
  <2>1. tree \in SUBSET dirs[c].tree
    OBVIOUS
  <2>2. k = g
    BY <1>6
  <2> HIDE DEF tree
  <2>3. /\ e \in Directories /\ (HomelyDir(dirs[c], c, home) => HomelyDir(e, c, home))
        /\ k \in Directories /\ (HomelyDir(dirs[c], c, home) => HomelyDir(k, c, home))
    BY <2>1, <1>3, <1>6, FileChanges
  <2> QED BY <2>2, <2>3
<1> HIDE DEF e, c, g
<1>9. StoresFit' /\ (Homely => \A x \in Coll : HomelyDir(dirs'[x], x, home))
  <2>1. CASE dirs' = dirs
    BY <2>1, <1>1, <1>5, <1>a DEF StoresFit, Homely
  <2>2. CASE known /\ (dirs' = [dirs EXCEPT ![c] = e] \/ dirs' = [dirs EXCEPT ![c] = g])
    <3>0. PICK n \in {e, g} : dirs' = [dirs EXCEPT ![c] = n]
      BY <2>2
    <3>a. n \in Directories /\ (HomelyDir(dirs[c], c, home) => HomelyDir(n, c, home)) /\ c \in Coll
      BY <2>2, <1>6, <1>7
    <3>1. dirs' \in [Coll -> Directories]
      BY <3>0, <3>a, <1>5, DirectoryChanges
    <3>2. StoresFit'
      BY <3>1, <1>1, <1>5, <1>a DEF StoresFit
    <3>3. ASSUME Homely PROVE \A x \in Coll : HomelyDir(dirs'[x], x, home)
      <4>1. \A x \in Coll : HomelyDir(dirs[x], x, home)
        BY <3>3 DEF Homely
      <4>2. HomelyDir(n, c, home)
        BY <4>1, <3>a
      <4> QED BY <4>1, <4>2, <3>0, <3>a, <1>5, DirectoryChanges
    <3> QED BY <3>2, <3>3
  <2> QED BY <2>1, <2>2, <1>8
<1>10. slips' \subseteq SlipNames
  BY <1>4, SlipsFit DEF SlipNames
<1>11. HistoryFits'
  BY <1>1, <1>2, <1>10
<1> QED BY <1>1, <1>9, <1>11, ServedKeeps

LEMMA ServeRemoveKeeps == ASSUME SavesIInv, ServeRemove PROVE SavesIInv'
<1> DEFINE m == Head(queue)
<1>1. /\ Serve("remove") /\ Answer(Empty) /\ UNCHANGED <<manifest, life>> /\ Empty \in Contents
      /\ cache' = NoCache
  BY BoundFacts DEF ServeRemove
<1>2. /\ m \in Messages /\ m.op = "remove"
      /\ (life' = life /\ slips' \subseteq SlipNames => HistoryFits')
  BY <1>1, Served
<1>3. m.coll \in Coll
  BY <1>2, MessageTypes
<1>4. /\ dirs' = dirs \/ dirs' = [dirs EXCEPT ![m.coll] = NoDir]
      /\ slips' = slips \/ slips' = slips \cup {"failed"}
  BY DEF ServeRemove, Works, Fails
<1> HIDE DEF m
<1>5. StoresFit /\ NoDir \in Directories
  BY BoundFacts DEF SavesIInv, Shapes
<1>6. \A c : HomelyDir(NoDir, c, home)
  BY DEF HomelyDir, NoDir, Nothing
<1>7. dirs' \in [Coll -> Directories]
  BY <1>3, <1>4, <1>5, DirectoryChanges DEF StoresFit
<1>8. Homely => \A c \in Coll : HomelyDir(dirs'[c], c, home)
  BY <1>3, <1>4, <1>5, <1>6, DirectoryChanges DEF Homely
<1>9. StoresFit'
  BY <1>1, <1>5, <1>7 DEF StoresFit
<1>10. slips' \subseteq SlipNames
  BY <1>4, SlipsFit DEF SlipNames
<1>11. HistoryFits'
  BY <1>1, <1>2, <1>10
<1> QED BY <1>1, <1>8, <1>9, <1>11, ServedKeeps

LEMMA ServeEnvironmentsKeeps == ASSUME SavesIInv, ServeEnvironments PROVE SavesIInv'
<1>1. /\ Serve("environments") /\ Answer(Empty) /\ UNCHANGED <<manifest, dirs, cache, life, slips>>
      /\ Empty \in Contents
  BY BoundFacts DEF ServeEnvironments, Works, mainVars
<1>2. StoresFit' /\ slips' \subseteq SlipNames
  BY <1>1 DEF SavesIInv, Shapes, StoresFit, HistoryFits
<1>3. HistoryFits'
  BY <1>1, <1>2, Served
<1> QED BY <1>1, <1>2, <1>3, ServedKeeps DEF Homely

-----------------------------------------------------------------------------
(* Start, crash, and every step *)

\* At the start, what was deleted and is still listed is back.
Relisted == [c \in Coll |-> IF c \in manifest.colls /\ life[c] = "deleted" THEN "listed" ELSE life[c]]

LEMMA BootKeeps == ASSUME SavesIInv, Boot PROVE SavesIInv'
<1>1. /\ ~up /\ up' = TRUE
      /\ mirror' = [active |-> view'.active, items |-> view'.items,
                    headers |-> dirs[view'.active].headers]
      /\ wanted' = [c \in Coll |-> Content(c)]
      /\ cache' = NoCache
      /\ UNCHANGED <<dirs, pending, armed, queue, reply, home, overlapped>>
  BY DEF Boot
<1>2. queue = <<>> /\ reply = NoReply /\ StoresFit
  BY <1>1 DEF SavesIInv, Shapes, MessagesFit
<1> DEFINE items == view'.items
<1>3. PICK c \in Coll, colls \in SUBSET Coll :
        /\ view' = [colls |-> colls, active |-> c, shown |-> c, items |-> items] /\ c \in colls
        /\ items \in {Content(c).items, Nothing}
        /\ \/ manifest' = manifest /\ life' = Relisted
           \/ manifest' = [colls |-> {c}, active |-> c] /\ life' = [life EXCEPT ![c] = "listed"]
           \/ manifest' = manifest /\ life' = [life EXCEPT ![c] = "made"]
        /\ slips' = slips \/ slips' = slips \cup {"unread"} \/ slips' = slips \cup {"failed"}
  <2>1. CASE /\ manifest.colls # {}
             /\ Works
             /\ \E c \in IF manifest.active \in manifest.colls THEN {manifest.active}
                                                                ELSE manifest.colls :
                  view' = [colls |-> manifest.colls, active |-> c, shown |-> c, items |-> Content(c).items]
             /\ life' = Relisted
             /\ UNCHANGED manifest
    <3>1. PICK c \in manifest.colls :
            view' = [colls |-> manifest.colls, active |-> c, shown |-> c, items |-> Content(c).items]
      BY <2>1
    <3>2. manifest.colls \in SUBSET Coll /\ c \in Coll
      BY <3>1, <1>2 DEF StoresFit
    <3> QED BY <2>1, <3>1, <3>2 DEF Works
  <2>2. CASE \E c \in Coll :
          /\ life[c] = "unused"
          /\ view' = [colls |-> {c}, active |-> c, shown |-> c, items |-> Nothing]
          /\ \/ /\ IF manifest.colls = {} THEN Works ELSE Fails("unread")
                /\ life' = [life EXCEPT ![c] = "listed"]
                /\ manifest' = [colls |-> {c}, active |-> c]
             \/ /\ manifest.colls = {} /\ Fails("failed")
                /\ life' = [life EXCEPT ![c] = "made"]
                /\ UNCHANGED manifest
    <3>1. PICK c \in Coll :
          /\ view' = [colls |-> {c}, active |-> c, shown |-> c, items |-> Nothing]
          /\ \/ /\ IF manifest.colls = {} THEN Works ELSE Fails("unread")
                /\ life' = [life EXCEPT ![c] = "listed"]
                /\ manifest' = [colls |-> {c}, active |-> c]
             \/ /\ manifest.colls = {} /\ Fails("failed")
                /\ life' = [life EXCEPT ![c] = "made"]
                /\ UNCHANGED manifest
      BY <2>2
    <3>2. slips' = slips \/ slips' = slips \cup {"unread"} \/ slips' = slips \cup {"failed"}
      BY <3>1 DEF Works, Fails
    <3>3. {c} \in SUBSET Coll /\ c \in {c} /\ Nothing \in {Content(c).items, Nothing}
      OBVIOUS
    <3> QED BY <3>1, <3>2, <3>3
  <2> QED BY <2>1, <2>2 DEF Boot, Relisted
<1>4. \A x \in Coll : Content(x) \in Contents
                      /\ (HomelyDir(dirs[x], x, home) => HomelyItems(Content(x).items, x, home))
  BY <1>2, ContentFits
<1> HIDE DEF items
<1>5. items \in Items /\ (Homely => HomelyItems(items, c, home))
  <2>1. HomelyItems(Nothing, c, home)
    BY DEF HomelyItems, Nothing
  <2> QED BY <2>1, <1>3, <1>4, BoundFacts DEF Contents, Homely
<1>6. /\ view' \in Views /\ view'.active = c /\ view'.shown = c /\ view'.items = items
      /\ view'.colls = colls /\ c \in colls
  BY <1>3, <1>5 DEF Views, items
<1>7. dirs[c].headers \in Versions
  BY <1>2 DEF StoresFit, Directories
<1>8. mirror' \in Mirrors /\ mirror'.active = c /\ mirror'.items = items
  BY <1>1, <1>5, <1>6, <1>7 DEF Mirrors
<1>9. Shapes'
  <2>1. StoresFit'
    BY <1>1, <1>2, <1>3 DEF StoresFit
  <2>2. WindowFits'
    BY <1>1, <1>6, <1>8 DEF SavesIInv, Shapes, WindowFits
  <2>3. MessagesFit'
    BY <1>1 DEF SavesIInv, Shapes, MessagesFit
  <2>4. wanted' \in [Coll -> Contents]
    BY <1>1, <1>4
  <2>5. slips' \subseteq SlipNames /\ life' \in [Coll -> {"unused", "made", "listed", "deleted"}]
    BY <1>3 DEF SavesIInv, Shapes, HistoryFits, SlipNames, Relisted
  <2>6. HistoryFits'
    BY <1>1, <2>4, <2>5 DEF SavesIInv, Shapes, HistoryFits
  <2> QED BY <2>1, <2>2, <2>3, <2>6 DEF Shapes
<1>10. HomesKept'
  BY <1>1, <1>2, <1>5, <1>6, <1>8 DEF SavesIInv, HomesKept, Homely
<1>11. OneAtATime'
  <2>1. ~OfCollections(reply'.then) /\ \A i \in DOMAIN queue' : ~OfCollections(queue'[i].then)
    BY <1>1, <1>2, BoundFacts
  <2>2. Together(view', mirror'.active)
    BY <1>6, <1>8 DEF Together
  <2>3. OneHandler(queue', reply', view', mirror'.active)
    BY <2>1, <2>2, HandlerEnds
  <2> QED BY <2>3, <1>6 DEF OneAtATime
<1> QED BY <1>9, <1>10, <1>11 DEF SavesIInv

LEMMA CrashKeeps == ASSUME SavesIInv, Crash PROVE SavesIInv'
<1>1. /\ up /\ up' = FALSE /\ queue' = <<>> /\ reply' = NoReply /\ pending' = Nothing /\ armed' = FALSE
      /\ UNCHANGED <<manifest, cache, view, mirror, wanted, home, gone, life, overlapped, slips>>
  BY DEF Crash, historyVars
<1>2. StoresFit /\ queue \in Seq(Messages)
  BY DEF SavesIInv, Shapes, MessagesFit
<1>3. dirs' \in [Coll -> Directories] /\ (Homely => \A c \in Coll : HomelyDir(dirs'[c], c, home))
  <2>1. CASE UNCHANGED dirs
    BY <2>1, <1>2 DEF StoresFit, Homely
  <2>2. CASE LET m == Head(queue) IN
             /\ queue # <<>> /\ m.op = "save"
             /\ \E d \in CutShort(dirs[m.coll], m.items, m.headers) :
                  dirs' = [dirs EXCEPT ![m.coll] = d]
    <3> DEFINE m == Head(queue)
    <3>1. m \in Messages /\ m.op = "save" /\ m = queue[1] /\ 1 \in DOMAIN queue
      BY <2>2, <1>2, HeadAndTail
    <3>2. m.coll \in Coll /\ m.items \in Items /\ m.headers \in Versions
      BY <3>1, MessageTypes
    <3>3. PICK d \in CutShort(dirs[m.coll], m.items, m.headers) : dirs' = [dirs EXCEPT ![m.coll] = d]
      BY <2>2
    <3> HIDE DEF m
    <3>4. dirs[m.coll] \in Directories
      BY <3>2, <1>2 DEF StoresFit
    <3>5. /\ d \in Directories
          /\ \A c, hm : HomelyDir(dirs[m.coll], c, hm) /\ HomelyItems(m.items, c, hm) => HomelyDir(d, c, hm)
      BY <3>2, <3>3, <3>4, CutShortDirectory
    <3>6. Homely => HomelyDir(d, m.coll, home)
      BY <3>1, <3>2, <3>5 DEF Homely, HomelyMessage
    <3> QED BY <3>2, <3>3, <3>5, <3>6, <1>2, DirectoryChanges DEF Homely
  <2> QED BY <2>1, <2>2 DEF Crash
<1>4. Shapes'
  <2>1. StoresFit'
    BY <1>1, <1>2, <1>3 DEF StoresFit
  <2>2. WindowFits'
    BY <1>1, BoundFacts DEF SavesIInv, Shapes, WindowFits
  <2>3. <<>> \in Seq(Messages)
    OBVIOUS
  <2>4. MessagesFit'
    BY <1>1, <2>3, BoundFacts DEF MessagesFit
  <2>5. HistoryFits'
    BY <1>1 DEF SavesIInv, Shapes, HistoryFits
  <2> QED BY <2>1, <2>2, <2>4, <2>5 DEF Shapes
<1>5. HomesKept'
  <2>1. HomelyReply(reply', home)
    BY <1>1, BoundFacts, StepsOf DEF HomelyReply, HomelyThen
  <2> QED BY <2>1, <1>1, <1>3 DEF SavesIInv, HomesKept, Homely
<1> QED BY <1>1, <1>4, <1>5 DEF SavesIInv, OneAtATime

LEMMA SavesInit == Init => SavesIInv
<1> SUFFICES ASSUME Init PROVE SavesIInv
  OBVIOUS
<1>1. StoresFit
  BY BoundFacts DEF Init, StoresFit
<1>2. WindowFits
  BY BoundFacts DEF Init, WindowFits, Views, Mirrors
<1>3. MessagesFit
  <2>1. <<>> \in Seq(Messages)
    OBVIOUS
  <2> QED BY <2>1, BoundFacts DEF Init, MessagesFit
<1>4. HistoryFits
  BY BoundFacts DEF Init, HistoryFits
<1>5. HomesKept
  <2>1. \A c \in Coll : HomelyDir(dirs[c], c, home)
    BY DEF Init, HomelyDir, NoDir, Nothing
  <2>2. HomelyReply(reply, home)
    BY BoundFacts, StepsOf DEF Init, HomelyReply, HomelyThen
  <2> QED BY <2>1, <2>2 DEF Init, HomesKept, Homely
<1> QED BY <1>1, <1>2, <1>3, <1>4, <1>5 DEF SavesIInv, Shapes, OneAtATime, Init

LEMMA Unmoved == ASSUME SavesIInv, UNCHANGED vars PROVE SavesIInv'
<1>1. Shapes'
  BY DEF SavesIInv, Shapes, StoresFit, WindowFits, MessagesFit, HistoryFits, vars, mainVars,
         rendererVars, historyVars
<1>2. HomesKept' /\ OneAtATime'
  BY DEF SavesIInv, HomesKept, Homely, OneAtATime, vars, mainVars, rendererVars, historyVars
<1> QED BY <1>1, <1>2 DEF SavesIInv


LEMMA SavesStep == SavesIInv /\ [Next]_vars => SavesIInv'
<1> SUFFICES ASSUME SavesIInv, [Next]_vars PROVE SavesIInv'
  OBVIOUS
<1>1. CASE Boot
  BY <1>1, BootKeeps
<1>2. CASE Crash
  BY <1>2, CrashKeeps
<1>3. CASE \E r \in Req : Edit(r) \/ AddRequest(r) \/ DeleteRequest(r)
  BY <1>3, EditKeeps, AddRequestKeeps, DeleteRequestKeeps
<1>4. CASE \E c \in Coll : SelectCollection(c) \/ AddCollection(c) \/ DeleteCollection(c)
  BY <1>4, SelectCollectionKeeps, AddCollectionKeeps, DeleteCollectionKeeps
<1>5. CASE SetHeaders \/ TimerFires
  BY <1>5, SetHeadersKeeps, TimerFiresKeeps
<1>6. CASE NextPatch \/ Flushed \/ Rewrite \/ RewriteHeaders
  BY <1>6, NextPatchKeeps, FlushedKeeps, RewriteKeeps, RewriteHeadersKeeps
<1>7. CASE SwitchSaved \/ SwitchListed \/ SwitchLoaded
  BY <1>7, SwitchSavedKeeps, SwitchListedKeeps, SwitchLoadedKeeps
<1>8. CASE AddStored \/ AddSaved \/ AddListed
  BY <1>8, AddStoredKeeps, AddSavedKeeps, AddListedKeeps
<1>9. CASE DeleteLoaded \/ DeleteShown \/ DeleteListed
  BY <1>9, DeleteLoadedKeeps, DeleteShownKeeps, DeleteListedKeeps
<1>10. CASE \/ ServeSave \/ ServeLoad \/ ServeManifest \/ ServeUpdate \/ ServeDelete
            \/ ServeRemove \/ ServeEnvironments
  BY <1>10, ServeSaveKeeps, ServeLoadKeeps, ServeManifestKeeps, ServeUpdateKeeps,
     ServeDeleteKeeps, ServeRemoveKeeps, ServeEnvironmentsKeeps
<1>11. CASE UNCHANGED vars
  BY <1>11, Unmoved
<1> QED BY <1>1, <1>2, <1>3, <1>4, <1>5, <1>6, <1>7, <1>8, <1>9, <1>10, <1>11 DEF Next

LEMMA SavesAlways == Spec => []SavesIInv
BY SavesInit, SavesStep, PTL DEF Spec

\* The type invariant: every message, every answer and every tree has its shape, patches
\* wait only while the timer runs, and one listed collection is active (app.js, data-store.js).
THEOREM SavesTypeCorrect == Spec => []TypeOK
<1>1. SavesIInv => TypeOK
  BY DEF SavesIInv, Shapes, StoresFit, WindowFits, HistoryFits, OneAtATime, TypeOK, Directories, Views,
         Mirrors, Items, Contents, SlipNames
<1> QED BY <1>1, SavesAlways, PTL

\* Requests stay home.
THEOREM RequestsNeverStray == Spec => []RequestsStayHome
<1>1. SavesIInv => RequestsStayHome
  BY DEF SavesIInv, HomesKept, Homely, HomelyDir, RequestsStayHome
<1> QED BY <1>1, SavesAlways, PTL

-----------------------------------------------------------------------------
(* The list of collections *)


\* What the manifest is to list, by what was made and deleted.
Listed(l) == {c \in Coll : l[c] = "listed"}

\* A list of collections that a handler holds, or that is on its way.
ThenLists(then, l) ==
  LET t == Core(then) IN
  t.step \in {"addStored", "addSaved", "deleteLoaded", "deleteShown"} => Listed(l) \subseteq t.colls
MessageLists(m, colls, l) == /\ m.op = "manifest" => m.colls = colls
                             /\ ThenLists(m.then, l)

ListsHold ==
  /\ Listed(life) \subseteq manifest.colls
  /\ up => /\ Listed(life) \subseteq view.colls
           /\ \A i \in DOMAIN queue : MessageLists(queue[i], view.colls, life)
           /\ ThenLists(reply.then, life)
ListsInv == ~overlapped /\ "unread" \notin slips => ListsHold

LEMMA NothingListed ==
  ASSUME NEW t \in Thens, ~OfCollections(t)
  PROVE  \A l : ThenLists(t, l)
<1>1. t = Ends \/ (t \in Batches /\ t.then = Ends)
  BY WhoHandles DEF Thens
<1> QED BY <1>1, StepsOf DEF ThenLists, Core

LEMMA CarriesLists ==
  ASSUME NEW m \in Messages, NEW t \in AfterSave, Carries(m, t)
  PROVE  \A colls, l : MessageLists(m, colls, l) <=> ThenLists(t, l)
<1>1. Core(t) = t /\ t.step \in {"switchSaved", "addStored", "addSaved"}
  BY StepsOf DEF Core
<1>2. m.op # "manifest"
  <2>1. \A u \in AfterManifest : Core(u) = u /\ u.step \notin {"switchSaved", "addStored", "addSaved"}
    BY StepsOf DEF Core
  <2> QED BY <2>1, <1>1, MessageTypes DEF Carries
<1> QED BY <1>1, <1>2 DEF MessageLists, ThenLists, Carries

LEMMA ListsAppend ==
  ASSUME NEW q \in Seq(Messages), NEW m \in Messages, NEW colls, NEW l,
         \A i \in DOMAIN q : MessageLists(q[i], colls, l), MessageLists(m, colls, l)
  PROVE  \A i \in DOMAIN Append(q, m) : MessageLists(Append(q, m)[i], colls, l)
BY Appended

\* The window acts, and what is listed stays as it is.
LEMMA SameLists ==
  ASSUME SavesIInv, ListsInv, up, up' = up, overlapped' \in BOOLEAN, ~overlapped' => ~overlapped,
         slips \subseteq slips', manifest' = manifest, Listed(life') \subseteq Listed(life),
         view'.colls = view.colls, reply'.then = reply.then \/ reply' = NoReply,
         queue' = queue \/ \E m \in Messages : /\ queue' = Append(queue, m)
                                               /\ ~overlapped' /\ "unread" \notin slips' =>
                                                    MessageLists(m, view.colls, life')
  PROVE  ListsInv'
<1> SUFFICES ASSUME ~overlapped', "unread" \notin slips' PROVE ListsHold'
  BY DEF ListsInv
<1>1. ListsHold /\ queue \in Seq(Messages)
  BY DEF ListsInv, SavesIInv, Shapes, MessagesFit
<1>2. \A t : ThenLists(t, life) => ThenLists(t, life')
  BY DEF ThenLists
<1>3. \A m, colls : MessageLists(m, colls, life) => MessageLists(m, colls, life')
  BY <1>2 DEF MessageLists
<1>4. \A i \in DOMAIN queue : MessageLists(queue[i], view.colls, life')
  BY <1>1, <1>3 DEF ListsHold
<1>5. \A i \in DOMAIN queue' : MessageLists(queue'[i], view.colls, life')
  BY <1>1, <1>4, ListsAppend
<1>6. ThenLists(reply'.then, life')
  <2>1. ThenLists(NoReply.then, life')
    BY BoundFacts, StepsOf, NothingListed
  <2> QED BY <2>1, <1>1, <1>2 DEF ListsHold
<1> QED BY <1>1, <1>5, <1>6 DEF ListsHold

LEMMA ListsEdit == ASSUME SavesIInv, ListsInv, NEW r \in Req, Edit(r) PROVE ListsInv'
<1>1. /\ up /\ UNCHANGED <<up, overlapped, slips, manifest, life, queue, reply>> /\ overlapped \in BOOLEAN
      /\ view' = [view EXCEPT !.items[r] = view.items[r] + 1] /\ view \in Views
  BY DEF Edit, Command, mainVars, SavesIInv, Shapes, WindowFits, HistoryFits
<1> QED BY <1>1, SameLists DEF Views

LEMMA ListsTimer == ASSUME SavesIInv, ListsInv, SavesIInv', TimerFires PROVE ListsInv'
<1>1. /\ up /\ reply = NoReply /\ UNCHANGED <<up, manifest, life, view, reply>>
      /\ slips \subseteq slips' /\ pending \in Items
  BY DEF TimerFires, mainVars, Note, SavesIInv, Shapes, WindowFits
<1>2. overlapped' \in BOOLEAN /\ (~overlapped' => ~overlapped)
  BY Zenon DEF TimerFires
<1>3. queue' = queue \/ \E m \in Messages : queue' = Append(queue, m) /\ MessageLists(m, view.colls, life)
  <2>1. CASE pending = Nothing
    BY <2>1 DEF TimerFires
  <2>2. CASE pending # Nothing
    <3>1. PICK m \in Messages : queue' = Append(queue, m) /\ ~OfCollections(m.then) /\ m.op = "update"
      BY <2>2, <1>1, BatchEffect DEF SavesIInv, TimerFires
    <3>2. MessageLists(m, view.colls, life)
      BY <3>1, MessageTypes, NothingListed DEF MessageLists
    <3> QED BY <3>1, <3>2
  <2> QED BY <2>1, <2>2
<1> QED BY <1>1, <1>2, <1>3, SameLists

LEMMA ListsAdd == ASSUME SavesIInv, ListsInv, NEW r \in Req, AddRequest(r) PROVE ListsInv'
<1> DEFINE items == [view.items EXCEPT ![r] = 1]
           m == Save(mirror.active, items, mirror.headers, Ends)
<1>1. /\ up /\ ~overlapped /\ UNCHANGED <<up, manifest, life, reply>> /\ queue' = Append(queue, m)
      /\ SaveStructure(items)
  BY DEF AddRequest, Command, mainVars, Send
<1>2. items \in Items /\ mirror.headers \in Versions /\ mirror.active \in Coll
  BY <1>1, BoundFacts DEF SavesIInv, Shapes, WindowFits, Views, Mirrors, Items
<1>3. m \in Messages /\ m.then = Ends /\ m.op = "save"
  BY <1>2, MessagesMade DEF Save
<1>4. MessageLists(m, view.colls, life)
  BY <1>3, StepsOf, NothingListed, WhoHandles DEF MessageLists
<1>5. slips \subseteq slips'
  BY <1>1 DEF SaveStructure, Note
<1> HIDE DEF m
<1>6. view'.colls = view.colls /\ overlapped' \in BOOLEAN
  BY <1>1, <1>2, Structure
<1> QED BY <1>1, <1>3, <1>4, <1>5, <1>6, SameLists

LEMMA ListsDelete == ASSUME SavesIInv, ListsInv, NEW r \in Req, DeleteRequest(r) PROVE ListsInv'
<1> DEFINE items == [view.items EXCEPT ![r] = 0]
           m == Save(mirror.active, items, mirror.headers, Ends)
           d == DeleteFile(r)
<1>1. /\ up /\ ~overlapped /\ UNCHANGED <<up, manifest, life, reply>> /\ queue' = queue \o <<m, d>>
      /\ SaveStructure(items) /\ queue \in Seq(Messages)
  BY DEF DeleteRequest, Command, mainVars, SavesIInv, Shapes, MessagesFit
<1>2. items \in Items /\ mirror.headers \in Versions /\ mirror.active \in Coll
  BY <1>1, BoundFacts DEF SavesIInv, Shapes, WindowFits, Views, Mirrors, Items
<1>3. /\ m \in Messages /\ m.then = Ends /\ m.op = "save"
      /\ d \in Messages /\ d.then = Ends /\ d.op = "delete"
  BY <1>2, MessagesMade DEF Save, DeleteFile
<1>4. MessageLists(m, view.colls, life) /\ MessageLists(d, view.colls, life)
  BY <1>3, StepsOf, NothingListed, WhoHandles DEF MessageLists
<1>5. slips \subseteq slips'
  BY <1>1 DEF SaveStructure, Note
<1> HIDE DEF m, d
<1>6. view'.colls = view.colls /\ overlapped' \in BOOLEAN
  BY <1>1, <1>2, Structure
<1>7. Append(queue, m) \in Seq(Messages) /\ queue' = Append(Append(queue, m), d)
  BY <1>1, <1>3
<1> SUFFICES ASSUME ListsHold PROVE ListsHold'
  BY <1>1, <1>5 DEF ListsInv
<1>8. \A i \in DOMAIN Append(queue, m) : MessageLists(Append(queue, m)[i], view.colls, life)
  BY <1>1, <1>3, <1>4, ListsAppend DEF ListsHold
<1>9. \A i \in DOMAIN queue' : MessageLists(queue'[i], view.colls, life)
  BY <1>3, <1>4, <1>7, <1>8, ListsAppend
<1> QED BY <1>1, <1>6, <1>9 DEF ListsHold

LEMMA ListsHeaders == ASSUME SavesIInv, ListsInv, SavesIInv', SetHeaders PROVE ListsInv'
<1> DEFINE c == view.active
           h == wanted[c].headers + 1
           m == Save(c, mirror.items, h, Ends)
           u == [step |-> "headers", coll |-> c, headers |-> h]
           l == Load(c, u)
<1>1. /\ up /\ ~overlapped /\ UNCHANGED <<up, manifest, life, reply, view>> /\ h \in Versions
      /\ c \in Coll /\ mirror.items \in Items
      /\ queue' = Append(queue, m) \/ queue' = Append(queue, l)
  BY DEF SetHeaders, Command, mainVars, Send, SavesIInv, Shapes, WindowFits, Mirrors
<1>2. m \in Messages /\ m.then = Ends /\ m.op = "save"
  BY <1>1, MessagesMade DEF Save
<1>3. u \in AfterLoad /\ u.coll = c /\ u.step = "headers"
  BY <1>1, ThensMade
<1>4. l \in Messages /\ l.then = u /\ l.op = "load"
  BY <1>1, <1>3, MessagesMade DEF Load
<1>5. MessageLists(m, view.colls, life) /\ MessageLists(l, view.colls, life)
  BY <1>2, <1>3, <1>4, StepsOf, NothingListed, WhoHandles DEF MessageLists, ThenLists, Core
<1>6. slips \subseteq slips' /\ overlapped' \in BOOLEAN
  BY DEF SetHeaders, Note, SavesIInv, Shapes, HistoryFits
<1> HIDE DEF m, l, u
<1> QED BY <1>1, <1>2, <1>4, <1>5, <1>6, SameLists


LEMMA QuietMessage ==
  ASSUME NEW m \in Messages, ~OfCollections(m.then)
  PROVE  \A colls, l : MessageLists(m, colls, l)
<1>1. m.op # "manifest"
  <2>1. \A t \in AfterManifest : OfCollections(t)
    BY WhoHandles DEF Handlers
  <2> QED BY <2>1, MessageTypes
<1> QED BY <1>1, MessageTypes, NothingListed DEF MessageLists

\* One handler begins or goes on: nothing else that is under way holds a list.
LEMMA NewLists ==
  ASSUME SavesIInv, ListsInv, up, up' = up, overlapped' \in BOOLEAN,
         slips \subseteq slips', manifest' = manifest, Listed(life') \subseteq Listed(life),
         ~overlapped' => /\ ~overlapped
                         /\ \A i \in DOMAIN queue : ~OfCollections(queue[i].then),
         reply' = NoReply,
         NEW m \in Messages, queue' = Append(queue, m),
         ~overlapped' /\ ListsHold =>
           /\ Listed(life') \subseteq view'.colls
           /\ MessageLists(m, view'.colls, life')
  PROVE  ListsInv'
<1> SUFFICES ASSUME ~overlapped', "unread" \notin slips' PROVE ListsHold'
  BY DEF ListsInv
<1>1. ListsHold /\ queue \in Seq(Messages)
  BY DEF ListsInv, SavesIInv, Shapes, MessagesFit
<1>2. \A i \in DOMAIN queue : MessageLists(queue[i], view'.colls, life')
  BY <1>1, QuietMessage
<1>3. MessageLists(m, view'.colls, life')
  BY <1>1
<1>4. \A i \in DOMAIN queue' : MessageLists(queue'[i], view'.colls, life')
  BY <1>1, <1>2, <1>3, ListsAppend
<1>5. ThenLists(reply'.then, life')
  BY BoundFacts, StepsOf, NothingListed
<1> QED BY <1>1, <1>4, <1>5 DEF ListsHold

LEMMA SelectLists ==
  ASSUME SavesIInv, ListsInv, SavesIInv', NEW c \in Coll, SelectCollection(c) PROVE ListsInv'
<1> DEFINE t == [step |-> "switchSaved", coll |-> c]
<1>1. /\ up /\ ~overlapped /\ UNCHANGED <<up, manifest, life, reply, view>>
      /\ FlushAndSave(t) /\ view.active \in Coll
  BY DEF SelectCollection, CollectionCommand, Command, mainVars, SavesIInv, Shapes, WindowFits
<1>2. t \in AfterSave /\ t.step = "switchSaved"
  BY ThensMade
<1> HIDE DEF t
<1>3. PICK m \in Messages : queue' = Append(queue, m) /\ Carries(m, t)
  BY <1>1, <1>2, FlushEffect DEF SavesIInv
<1>4. \A l : ThenLists(t, l)
  BY <1>2 DEF ThenLists, Core
<1>5. MessageLists(m, view.colls, life)
  BY <1>2, <1>3, <1>4, CarriesLists
<1>6. slips \subseteq slips' /\ overlapped' \in BOOLEAN
  BY <1>1 DEF FlushAndSave, SaveCollectionData, Note, SavesIInv, Shapes, HistoryFits
<1> QED BY <1>1, <1>3, <1>5, <1>6, SameLists

LEMMA AddLists ==
  ASSUME SavesIInv, ListsInv, SavesIInv', NEW c \in Coll, AddCollection(c) PROVE ListsInv'
<1> DEFINE t == [step |-> "addStored", coll |-> c, colls |-> view.colls \cup {c}]
<1>1. /\ up /\ ~overlapped /\ UNCHANGED <<up, manifest, reply, view>>
      /\ SaveCollectionData(c, Nothing, t) /\ life' = [life EXCEPT ![c] = "made"]
      /\ view.colls \subseteq Coll /\ Nothing \in Items
  BY BoundFacts DEF AddCollection, CollectionCommand, Command, mainVars, SavesIInv, Shapes, WindowFits, Views
<1>2. t \in AfterSave /\ t.step = "addStored" /\ t.colls = view.colls \cup {c}
  <2>1. view.colls \cup {c} \in SUBSET Coll
    BY <1>1
  <2> QED BY <2>1, ThensMade
<1> HIDE DEF t
<1>3. PICK m \in Messages : queue' = Append(queue, m) /\ Carries(m, t)
  BY <1>1, <1>2, SaveEffect DEF SavesIInv
<1>4. Listed(life') \subseteq Listed(life)
  BY <1>1 DEF Listed, SavesIInv, Shapes, HistoryFits
<1>5. ListsHold => ThenLists(t, life')
  BY <1>1, <1>2, <1>4 DEF ListsHold, ThenLists, Core
<1>6. ListsHold => MessageLists(m, view.colls, life')
  BY <1>2, <1>3, <1>5, CarriesLists
<1>7. slips \subseteq slips' /\ overlapped' \in BOOLEAN
  BY <1>1 DEF SaveCollectionData, Note, SavesIInv, Shapes, HistoryFits
<1>8. ~overlapped' /\ "unread" \notin slips' => ListsHold
  BY <1>1, <1>7 DEF ListsInv
<1> QED BY <1>1, <1>3, <1>4, <1>6, <1>7, <1>8, SameLists

LEMMA DeleteLists ==
  ASSUME SavesIInv, ListsInv, SavesIInv', NEW c \in Coll, DeleteCollection(c) PROVE ListsInv'
<1> DEFINE rest == view.colls \ {c}
<1>1. /\ up /\ ~overlapped /\ UNCHANGED <<up, manifest, reply>> /\ reply = NoReply
      /\ life' = [life EXCEPT ![c] = "deleted"]
      /\ view.colls \subseteq Coll /\ view \in Views /\ view.active \in Coll
  BY DEF DeleteCollection, CollectionCommand, Command, mainVars, SavesIInv, Shapes, WindowFits, Views
<1>2. overlapped' \in BOOLEAN /\ (~overlapped' => ~Switching)
  BY Zenon DEF DeleteCollection, CollectionCommand
<1>3. slips \subseteq slips'
  BY DEF DeleteCollection, Note
<1>4. Listed(life') \subseteq Listed(life) /\ c \notin Listed(life')
  BY <1>1 DEF Listed, SavesIInv, Shapes, HistoryFits
<1>5. ListsHold => Listed(life') \subseteq rest /\ Listed(life') \subseteq view.colls
  BY <1>1, <1>4 DEF ListsHold
<1>6. ~overlapped' => ~overlapped /\ \A i \in DOMAIN queue : ~OfCollections(queue[i].then)
  BY <1>1, <1>2 DEF Switching
<1>7. CASE c = view.active
  <2>1. PICK next \in rest :
           queue' = Append(queue, Load(next, [step |-> "deleteLoaded", coll |-> next, colls |-> rest, old |-> c]))
    BY <1>7 DEF DeleteCollection, Send
  <2> DEFINE t == [step |-> "deleteLoaded", coll |-> next, colls |-> rest, old |-> c]
             m == Load(next, t)
  <2>2. t \in AfterLoad /\ t.coll = next /\ t.step = "deleteLoaded" /\ t.colls = rest /\ next \in Coll
    <3>1. rest \in SUBSET Coll /\ next \in Coll
      BY <1>1
    <3> QED BY <3>1, ThensMade
  <2>3. m \in Messages /\ m.then = t /\ m.op = "load"
    BY <2>2, MessagesMade DEF Load
  <2>4. view' = view
    BY <1>7 DEF DeleteCollection
  <2> HIDE DEF m, t, rest
  <2>5. ListsHold => MessageLists(m, view.colls, life')
    BY <2>2, <2>3, <1>5 DEF MessageLists, ThenLists, Core
  <2> QED BY <2>1, <2>3, <2>4, <2>5, <1>1, <1>2, <1>3, <1>4, <1>5, <1>6, NewLists DEF m, t
<1>8. CASE c # view.active
  <2> DEFINE u == [step |-> "deleteListed", old |-> c]
             m == SaveManifest(rest, view.active, u)
  <2>1. view' = [view EXCEPT !.colls = rest] /\ queue' = Append(queue, m)
    BY <1>8 DEF DeleteCollection, Send
  <2>2. u \in AfterManifest /\ u.step = "deleteListed"
    BY ThensMade
  <2>3. m \in Messages /\ m.then = u /\ m.op = "manifest" /\ m.colls = rest
    <3>1. rest \in SUBSET Coll
      BY <1>1
    <3> QED BY <3>1, <2>2, <1>1, MessagesMade DEF SaveManifest
  <2>4. view'.colls = rest
    BY <2>1, <1>1 DEF Views
  <2> HIDE DEF m, u, rest
  <2>5. MessageLists(m, view'.colls, life')
    BY <2>2, <2>3, <2>4 DEF MessageLists, ThenLists, Core
  <2> QED BY <2>1, <2>3, <2>4, <2>5, <1>1, <1>2, <1>3, <1>4, <1>5, <1>6, NewLists
<1> QED BY <1>7, <1>8

-----------------------------------------------------------------------------
(* The handlers go on. *)

LEMMA ResumedLists ==
  ASSUME SavesIInv, ListsInv, NEW s \in {"batch", "rewrite", "headers", "switchSaved", "switchListed",
                               "switchLoaded", "addStored", "addSaved", "addListed",
                               "deleteLoaded", "deleteShown", "deleteListed"},
         Resume(s)
  PROVE  /\ up /\ UNCHANGED <<up, overlapped, manifest, life>> /\ reply' = NoReply
         /\ overlapped' \in BOOLEAN /\ reply.then \in Thens /\ reply.then.step = s
         /\ Listed(life') \subseteq Listed(life) /\ queue \in Seq(Messages)
         /\ (OfCollections(reply.then) /\ ~overlapped =>
               \A i \in DOMAIN queue : ~OfCollections(queue[i].then))
<1>1. /\ up /\ up' = up /\ overlapped' = overlapped /\ reply' = NoReply
      /\ UNCHANGED <<manifest, life>>
      /\ reply.then \in Thens /\ reply.then.step = s /\ queue \in Seq(Messages)
  BY Resumption
<1>2. overlapped' \in BOOLEAN
  BY <1>1 DEF SavesIInv, Shapes, HistoryFits
<1>3. OfCollections(reply.then) /\ ~overlapped => \A i \in DOMAIN queue : ~OfCollections(queue[i].then)
  BY <1>1, NobodyElse DEF SavesIInv, OneAtATime
<1> QED BY <1>1, <1>2, <1>3

LEMMA NextPatchLists == ASSUME SavesIInv, ListsInv, NextPatch PROVE ListsInv'
<1> DEFINE patches == reply.then.patches
           t == reply.then.then
<1>1. /\ up /\ UNCHANGED <<up, overlapped, manifest, life>> /\ reply' = NoReply
      /\ overlapped' \in BOOLEAN /\ reply.then \in Thens /\ reply.then.step = "batch"
      /\ Listed(life') \subseteq Listed(life)
  BY ResumedLists DEF NextPatch
<1>2. patches # Nothing /\ Batch(patches, t) /\ view' = view /\ slips \subseteq slips'
  BY DEF NextPatch, rendererVars, Note
<1>3. patches \in Items /\ t \in {Ends} \cup AfterSave
  BY <1>1, ThenTypes
<1>4. PICK m \in Messages : /\ queue' = Append(queue, m)
                            /\ IF t = Ends THEN ~OfCollections(m.then) ELSE Carries(m, t)
  BY <1>2, <1>3, BatchEffect DEF SavesIInv
<1>5. ListsHold => MessageLists(m, view.colls, life)
  <2>1. CASE t = Ends
    BY <2>1, <1>4, QuietMessage
  <2>2. CASE t # Ends
    <3>1. ListsHold => ThenLists(t, life)
      BY <1>1, <1>3, <2>2, StepsOf DEF ListsHold, ThenLists, Core
    <3> QED BY <3>1, <2>2, <1>3, <1>4, CarriesLists
  <2> QED BY <2>1, <2>2
<1>6. ~overlapped' /\ "unread" \notin slips' => ListsHold
  BY <1>1, <1>2 DEF ListsInv
<1> QED BY <1>1, <1>2, <1>4, <1>5, <1>6, SameLists

LEMMA FlushedLists == ASSUME SavesIInv, ListsInv, Flushed PROVE ListsInv'
<1> DEFINE t == reply.then.then
<1>1. /\ up /\ UNCHANGED <<up, overlapped, manifest, life>> /\ reply' = NoReply
      /\ overlapped' \in BOOLEAN /\ reply.then \in Thens /\ reply.then.step = "batch"
      /\ Listed(life') \subseteq Listed(life)
  BY ResumedLists DEF Flushed
<1>2. /\ reply.then.patches = Nothing /\ SaveCollectionData(view.active, view.items, t)
      /\ view' = view /\ slips \subseteq slips'
  BY DEF Flushed, SaveCollectionData, Note
<1>3. t \in AfterSave /\ view.active \in Coll /\ view.items \in Items
  BY <1>1, <1>2, ThenTypes DEF SavesIInv, Shapes, WindowFits, Views
<1>4. PICK m \in Messages : queue' = Append(queue, m) /\ Carries(m, t)
  BY <1>2, <1>3, SaveEffect DEF SavesIInv
<1>5. ListsHold => MessageLists(m, view.colls, life)
  <2>1. ListsHold => ThenLists(t, life)
    BY <1>1, <1>3, StepsOf DEF ListsHold, ThenLists, Core
  <2> QED BY <2>1, <1>3, <1>4, CarriesLists
<1>6. ~overlapped' /\ "unread" \notin slips' => ListsHold
  BY <1>1, <1>2 DEF ListsInv
<1> QED BY <1>1, <1>2, <1>4, <1>5, <1>6, SameLists

LEMMA RewriteLists == ASSUME SavesIInv, ListsInv, Rewrite PROVE ListsInv'
<1> DEFINE t == reply.then.then
           m == Save(reply.then.coll, reply.then.items, reply.data.headers, t)
<1>1. /\ up /\ UNCHANGED <<up, overlapped, manifest, life>> /\ reply' = NoReply
      /\ overlapped' \in BOOLEAN /\ reply.then \in Thens /\ reply.then.step = "rewrite"
      /\ Listed(life') \subseteq Listed(life)
  BY ResumedLists DEF Rewrite
<1>2. queue' = Append(queue, m) /\ UNCHANGED <<view, slips>>
  BY DEF Rewrite, Send, rendererVars
<1>3. t \in AfterSave /\ reply.then.coll \in Coll /\ reply.then.items \in Items /\ reply.data.headers \in Versions
  BY <1>1, ThenTypes DEF Contents, SavesIInv, Shapes, MessagesFit
<1>4. m \in Messages /\ m.then = t /\ m.op = "save"
  BY <1>3, MessagesMade DEF Save
<1> HIDE DEF m
<1>5. ListsHold => MessageLists(m, view.colls, life)
  <2>1. ListsHold => ThenLists(t, life)
    BY <1>1, <1>3, StepsOf DEF ListsHold, ThenLists, Core
  <2> QED BY <2>1, <1>4 DEF MessageLists
<1>6. ~overlapped' /\ "unread" \notin slips' => ListsHold
  BY <1>1, <1>2 DEF ListsInv
<1> QED BY <1>1, <1>2, <1>4, <1>5, <1>6, SameLists

LEMMA RewriteHeadersLists == ASSUME SavesIInv, ListsInv, RewriteHeaders PROVE ListsInv'
<1> DEFINE m == Save(reply.then.coll, reply.data.items, reply.then.headers, Ends)
<1>1. /\ up /\ UNCHANGED <<up, overlapped, manifest, life>> /\ reply' = NoReply
      /\ overlapped' \in BOOLEAN /\ reply.then \in Thens /\ reply.then.step = "headers"
      /\ Listed(life') \subseteq Listed(life)
  BY ResumedLists DEF RewriteHeaders
<1>2. queue' = Append(queue, m) /\ UNCHANGED <<view, slips>>
  BY DEF RewriteHeaders, Send, rendererVars
<1>3. reply.then.coll \in Coll /\ reply.data.items \in Items /\ reply.then.headers \in Versions
  BY <1>1, ThenTypes DEF Contents, SavesIInv, Shapes, MessagesFit
<1>4. m \in Messages /\ m.then = Ends
  BY <1>3, MessagesMade DEF Save
<1> HIDE DEF m
<1>5. MessageLists(m, view.colls, life)
  BY <1>4, WhoHandles, QuietMessage
<1> QED BY <1>1, <1>2, <1>4, <1>5, SameLists


LEMMA SwitchSavedLists == ASSUME SavesIInv, ListsInv, SwitchSaved PROVE ListsInv'
<1> DEFINE c == reply.then.coll
           u == [step |-> "switchListed", coll |-> c]
           m == SaveManifest(view.colls, c, u)
<1>1. /\ up /\ UNCHANGED <<up, overlapped, manifest, life>> /\ reply' = NoReply
      /\ overlapped' \in BOOLEAN /\ reply.then \in Thens /\ reply.then.step = "switchSaved"
      /\ Listed(life') \subseteq Listed(life)
  BY ResumedLists DEF SwitchSaved
<1>2. /\ view' = [view EXCEPT !.active = c] /\ queue' = Append(queue, m) /\ slips' = slips
      /\ view \in Views
  BY DEF SwitchSaved, Send, SavesIInv, Shapes, WindowFits
<1>3. c \in Coll /\ view.colls \in SUBSET Coll
  BY <1>1, <1>2, ThenTypes DEF Views
<1>4. u \in AfterManifest /\ u.step = "switchListed"
  BY <1>3, ThensMade
<1>5. m \in Messages /\ m.then = u /\ m.op = "manifest" /\ m.colls = view.colls
  BY <1>3, <1>4, MessagesMade DEF SaveManifest
<1> HIDE DEF m, u
<1>6. MessageLists(m, view.colls, life)
  BY <1>4, <1>5 DEF MessageLists, ThenLists, Core
<1>7. view'.colls = view.colls
  BY <1>2 DEF Views
<1> QED BY <1>1, <1>2, <1>5, <1>6, <1>7, SameLists

LEMMA SwitchListedLists == ASSUME SavesIInv, ListsInv, SwitchListed PROVE ListsInv'
<1> DEFINE c == reply.then.coll
           u == [step |-> "switchLoaded", coll |-> c]
           m == Load(c, u)
<1>1. /\ up /\ UNCHANGED <<up, overlapped, manifest, life>> /\ reply' = NoReply
      /\ overlapped' \in BOOLEAN /\ reply.then \in Thens /\ reply.then.step = "switchListed"
      /\ Listed(life') \subseteq Listed(life)
  BY ResumedLists DEF SwitchListed
<1>2. view' = view /\ queue' = Append(queue, m) /\ slips' = slips
  BY DEF SwitchListed, Send, rendererVars
<1>3. c \in Coll
  BY <1>1, ThenTypes
<1>4. u \in AfterLoad /\ u.step = "switchLoaded" /\ u.coll = c
  BY <1>3, ThensMade
<1>5. m \in Messages /\ m.then = u /\ m.op = "load"
  BY <1>3, <1>4, MessagesMade DEF Load
<1> HIDE DEF m, u
<1>6. MessageLists(m, view.colls, life)
  BY <1>4, <1>5 DEF MessageLists, ThenLists, Core
<1> QED BY <1>1, <1>2, <1>5, <1>6, SameLists

\* What only shows a collection.
LEMMA ShownLists ==
  ASSUME SavesIInv, ListsInv, SwitchLoaded \/ AddListed PROVE ListsInv'
<1>1. /\ up /\ UNCHANGED <<up, overlapped, manifest, life>> /\ reply' = NoReply
      /\ overlapped' \in BOOLEAN /\ Listed(life') \subseteq Listed(life)
  BY ResumedLists DEF SwitchLoaded, AddListed
<1>2. view'.colls = view.colls /\ queue' = queue /\ slips' = slips
  BY DEF SwitchLoaded, AddListed, SavesIInv, Shapes, WindowFits, Views
<1> QED BY <1>1, <1>2, SameLists

LEMMA AddStoredLists == ASSUME SavesIInv, ListsInv, AddStored PROVE ListsInv'
<1> DEFINE t == [reply.then EXCEPT !.step = "addSaved"]
<1>1. /\ up /\ UNCHANGED <<up, overlapped, manifest, life>> /\ reply' = NoReply
      /\ overlapped' \in BOOLEAN /\ reply.then \in Thens /\ reply.then.step = "addStored"
      /\ Listed(life') \subseteq Listed(life)
  BY ResumedLists DEF AddStored
<1>2. view' = view /\ FlushAndSave(t) /\ view.active \in Coll
  BY <1>1 DEF AddStored, SavesIInv, Shapes, WindowFits
<1>3. slips \subseteq slips'
  BY <1>2 DEF FlushAndSave, SaveCollectionData, Note
<1>4. reply.then \in AfterSave
  BY <1>1, ThenTypes
<1>5. t \in AfterSave /\ t.step = "addSaved" /\ t.colls = reply.then.colls
  BY <1>1, <1>4, ThensChanged
<1> HIDE DEF t
<1>6. PICK m \in Messages : queue' = Append(queue, m) /\ Carries(m, t)
  BY <1>2, <1>5, FlushEffect DEF SavesIInv
<1>7. ListsHold => MessageLists(m, view.colls, life)
  <2>1. ListsHold => ThenLists(t, life)
    BY <1>1, <1>5 DEF ListsHold, ThenLists, Core
  <2> QED BY <2>1, <1>5, <1>6, CarriesLists
<1>8. ~overlapped' /\ "unread" \notin slips' => ListsHold
  BY <1>1, <1>3 DEF ListsInv
<1> QED BY <1>1, <1>2, <1>3, <1>6, <1>7, <1>8, SameLists

LEMMA DeleteLoadedLists == ASSUME SavesIInv, ListsInv, DeleteLoaded PROVE ListsInv'
<1> DEFINE u == [reply.then EXCEPT !.step = "deleteShown"]
           m == LoadEnvironments(u)
<1>1. /\ up /\ UNCHANGED <<up, overlapped, manifest, life>> /\ reply' = NoReply
      /\ overlapped' \in BOOLEAN /\ reply.then \in Thens /\ reply.then.step = "deleteLoaded"
      /\ Listed(life') \subseteq Listed(life)
  BY ResumedLists DEF DeleteLoaded
<1>2. view'.colls = view.colls /\ queue' = Append(queue, m) /\ slips' = slips
  BY DEF DeleteLoaded, Send, SavesIInv, Shapes, WindowFits, Views
<1>3. reply.then \in AfterLoad
  BY <1>1, ThenTypes
<1>4. u \in AfterEnvironments /\ u.step = "deleteShown" /\ u.colls = reply.then.colls
  BY <1>1, <1>3, ThensChanged
<1>5. m \in Messages /\ m.then = u /\ m.op = "environments"
  BY <1>4, MessagesMade DEF LoadEnvironments
<1> HIDE DEF m, u
<1>6. ListsHold => MessageLists(m, view.colls, life)
  BY <1>1, <1>4, <1>5 DEF ListsHold, MessageLists, ThenLists, Core
<1>7. ~overlapped' /\ "unread" \notin slips' => ListsHold
  BY <1>1, <1>2 DEF ListsInv
<1> QED BY <1>1, <1>2, <1>5, <1>6, <1>7, SameLists

LEMMA DeleteListedLists == ASSUME SavesIInv, ListsInv, DeleteListed PROVE ListsInv'
<1> DEFINE m == RemoveDir(reply.then.old)
<1>1. /\ up /\ UNCHANGED <<up, overlapped, manifest, life>> /\ reply' = NoReply
      /\ overlapped' \in BOOLEAN /\ reply.then \in Thens /\ reply.then.step = "deleteListed"
      /\ Listed(life') \subseteq Listed(life)
  BY ResumedLists DEF DeleteListed
<1>2. view' = view /\ queue' = Append(queue, m) /\ slips' = slips
  BY DEF DeleteListed, Send, rendererVars
<1>3. reply.then.old \in Coll
  BY <1>1, ThenTypes
<1>4. m \in Messages /\ m.then = Ends
  BY <1>3, MessagesMade DEF RemoveDir
<1> HIDE DEF m
<1>5. MessageLists(m, view.colls, life)
  BY <1>4, WhoHandles, QuietMessage
<1> QED BY <1>1, <1>2, <1>4, <1>5, SameLists

\* The steps that give the window the list their handler held.
LEMMA AddSavedLists == ASSUME SavesIInv, ListsInv, AddSaved PROVE ListsInv'
<1> DEFINE c == reply.then.coll
           u == [step |-> "addListed", coll |-> c]
           m == SaveManifest(reply.then.colls, c, u)
<1>1. /\ up /\ UNCHANGED <<up, overlapped, manifest, life>> /\ reply' = NoReply
      /\ overlapped' \in BOOLEAN /\ reply.then \in Thens /\ reply.then.step = "addSaved"
      /\ Listed(life') \subseteq Listed(life)
      /\ (OfCollections(reply.then) /\ ~overlapped =>
            \A i \in DOMAIN queue : ~OfCollections(queue[i].then))
  BY ResumedLists DEF AddSaved
<1>2. /\ view' = [view EXCEPT !.colls = reply.then.colls, !.active = c]
      /\ queue' = Append(queue, m) /\ slips' = slips /\ view \in Views
  BY DEF AddSaved, Send, SavesIInv, Shapes, WindowFits
<1>3. c \in Coll /\ reply.then.colls \in SUBSET Coll /\ reply.then \in AfterSave
  BY <1>1, ThenTypes
<1>4. u \in AfterManifest /\ u.step = "addListed"
  BY <1>3, ThensMade
<1>5. m \in Messages /\ m.then = u /\ m.op = "manifest" /\ m.colls = reply.then.colls
  BY <1>3, <1>4, MessagesMade DEF SaveManifest
<1>6. OfCollections(reply.then) /\ Core(reply.then) = reply.then
  BY <1>1, <1>3, PlainHandler DEF Handlers
<1> HIDE DEF m, u
<1>7. view'.colls = reply.then.colls
  BY <1>2 DEF Views
<1>8. ListsHold => Listed(life') \subseteq view'.colls /\ MessageLists(m, view'.colls, life')
  <2>1. ListsHold => Listed(life) \subseteq reply.then.colls
    BY <1>1, <1>6 DEF ListsHold, ThenLists
  <2>2. MessageLists(m, view'.colls, life')
    BY <1>4, <1>5, <1>7 DEF MessageLists, ThenLists, Core
  <2> QED BY <2>1, <2>2, <1>1, <1>7
<1> QED BY <1>1, <1>2, <1>5, <1>6, <1>8, NewLists

LEMMA DeleteShownLists == ASSUME SavesIInv, ListsInv, DeleteShown PROVE ListsInv'
<1> DEFINE c == reply.then.coll
           u == [step |-> "deleteListed", old |-> reply.then.old]
           m == SaveManifest(reply.then.colls, c, u)
<1>1. /\ up /\ UNCHANGED <<up, overlapped, manifest, life>> /\ reply' = NoReply
      /\ overlapped' \in BOOLEAN /\ reply.then \in Thens /\ reply.then.step = "deleteShown"
      /\ Listed(life') \subseteq Listed(life)
      /\ (OfCollections(reply.then) /\ ~overlapped =>
            \A i \in DOMAIN queue : ~OfCollections(queue[i].then))
  BY ResumedLists DEF DeleteShown
<1>2. /\ view' = [view EXCEPT !.colls = reply.then.colls, !.active = c]
      /\ queue' = Append(queue, m) /\ slips' = slips /\ view \in Views
  BY DEF DeleteShown, Send, SavesIInv, Shapes, WindowFits
<1>3. /\ c \in Coll /\ reply.then.colls \in SUBSET Coll /\ reply.then.old \in Coll
      /\ reply.then \in AfterEnvironments
  BY <1>1, ThenTypes
<1>4. u \in AfterManifest /\ u.step = "deleteListed"
  BY <1>3, ThensMade
<1>5. m \in Messages /\ m.then = u /\ m.op = "manifest" /\ m.colls = reply.then.colls
  BY <1>3, <1>4, MessagesMade DEF SaveManifest
<1>6. OfCollections(reply.then) /\ Core(reply.then) = reply.then
  BY <1>1, <1>3, PlainHandler DEF Handlers
<1> HIDE DEF m, u
<1>7. view'.colls = reply.then.colls
  BY <1>2 DEF Views
<1>8. ListsHold => Listed(life') \subseteq view'.colls /\ MessageLists(m, view'.colls, life')
  <2>1. ListsHold => Listed(life) \subseteq reply.then.colls
    BY <1>1, <1>6 DEF ListsHold, ThenLists
  <2>2. MessageLists(m, view'.colls, life')
    BY <1>4, <1>5, <1>7 DEF MessageLists, ThenLists, Core
  <2> QED BY <2>1, <2>2, <1>1, <1>7
<1> QED BY <1>1, <1>2, <1>5, <1>6, <1>8, NewLists

-----------------------------------------------------------------------------
(* The main process. *)

\* A message that is not the manifest leaves the lists as they are.
LEMMA ServedLists ==
  ASSUME SavesIInv, ListsInv, NEW op \in {"save", "load", "update", "delete", "remove", "environments"},
         Serve(op), NEW data \in Contents, Answer(data), UNCHANGED <<manifest, life>>, slips \subseteq slips'
  PROVE  ListsInv'
<1>1. /\ up' = up /\ up /\ overlapped' = overlapped /\ view' = view
      /\ reply'.then = queue[1].then /\ 1 \in DOMAIN queue
  BY Served
<1>2. /\ queue \in Seq(Messages) /\ queue # <<>> /\ queue' = Tail(queue)
  BY DEF Serve, SavesIInv, Shapes, MessagesFit
<1>3. \A i \in DOMAIN queue' : i + 1 \in DOMAIN queue /\ queue'[i] = queue[i + 1]
  BY <1>2, HeadAndTail
<1> SUFFICES ASSUME ListsHold PROVE ListsHold'
  BY <1>1 DEF ListsInv
<1>4. \A i \in DOMAIN queue' : MessageLists(queue'[i], view.colls, life)
  BY <1>1, <1>3 DEF ListsHold
<1>5. ThenLists(reply'.then, life)
  BY <1>1 DEF ListsHold, MessageLists
<1> QED BY <1>1, <1>4, <1>5 DEF ListsHold

LEMMA ServeListsKept ==
  ASSUME SavesIInv, ListsInv,
         ServeSave \/ ServeLoad \/ ServeUpdate \/ ServeDelete \/ ServeRemove \/ ServeEnvironments
  PROVE  ListsInv'
<1>1. Empty \in Contents /\ UNCHANGED <<manifest, life>> /\ slips \subseteq slips'
  BY BoundFacts DEF ServeSave, ServeLoad, ServeUpdate, ServeDelete, ServeRemove, ServeEnvironments,
                    Works, Fails, mainVars
<1>2. CASE ServeLoad
  <2>1. /\ Serve("load")
        /\ Answer(Content(Head(queue).coll)) \/ Answer(Empty)
    BY <1>2 DEF ServeLoad
  <2>2. Head(queue) \in Messages /\ Head(queue).op = "load"
    BY <2>1, HeadAndTail DEF Serve, SavesIInv, Shapes, MessagesFit
  <2>3. Content(Head(queue).coll) \in Contents
    BY <2>2, MessageTypes, ContentFits DEF SavesIInv, Shapes
  <2> QED BY <2>1, <2>3, <1>1, ServedLists
<1>3. CASE ServeSave
  BY <1>1, <1>3, ServedLists DEF ServeSave
<1>4. CASE ServeUpdate
  BY <1>1, <1>4, ServedLists DEF ServeUpdate
<1>5. CASE ServeDelete
  BY <1>1, <1>5, ServedLists DEF ServeDelete
<1>6. CASE ServeRemove
  BY <1>1, <1>6, ServedLists DEF ServeRemove
<1>7. CASE ServeEnvironments
  BY <1>1, <1>7, ServedLists DEF ServeEnvironments
<1> QED BY <1>2, <1>3, <1>4, <1>5, <1>6, <1>7

\* The manifest becomes what the window lists.
LEMMA ServeManifestLists == ASSUME SavesIInv, ListsInv, ServeManifest PROVE ListsInv'
<1> DEFINE m == Head(queue)
<1>1. Serve("manifest") /\ Answer(Empty) /\ Empty \in Contents
  BY BoundFacts DEF ServeManifest
<1>2. /\ up' = up /\ up /\ overlapped' = overlapped /\ view' = view
      /\ reply'.then = m.then /\ 1 \in DOMAIN queue /\ m \in Messages /\ m.op = "manifest" /\ m = queue[1]
  BY <1>1, Served
<1>3. /\ queue \in Seq(Messages) /\ queue # <<>> /\ queue' = Tail(queue) /\ overlapped \in BOOLEAN
      /\ life \in [Coll -> {"unused", "made", "listed", "deleted"}]
  BY <1>1 DEF Serve, SavesIInv, Shapes, MessagesFit, HistoryFits
<1>4. \A i \in DOMAIN queue' : i + 1 \in DOMAIN queue /\ queue'[i] = queue[i + 1] /\ i + 1 # 1
  BY <1>3, HeadAndTail
<1>5. m.then \in AfterManifest /\ OfCollections(m.then)
  BY <1>2, MessageTypes, WhoHandles DEF Handlers
<1>6. slips \subseteq slips'
  BY DEF ServeManifest, Works, Fails
<1> SUFFICES ASSUME ListsHold, ~overlapped PROVE ListsHold'
  BY <1>2, <1>6 DEF ListsInv
<1>7. m.colls = view.colls
  BY <1>2 DEF ListsHold, MessageLists
<1>8. \A i \in DOMAIN queue' : MessageLists(queue'[i], view.colls, life')
  <2>1. OneHandler(queue, reply, view, mirror.active)
    BY <1>2 DEF SavesIInv, OneAtATime
  <2>2. \A i \in DOMAIN queue : i # 1 => ~OfCollections(queue[i].then)
    BY <2>1, <1>2, <1>5 DEF OneHandler
  <2>3. \A i \in DOMAIN queue' : queue'[i] \in Messages /\ ~OfCollections(queue'[i].then)
    BY <2>2, <1>3, <1>4
  <2> QED BY <2>3, QuietMessage
<1>9. ThenLists(reply'.then, life')
  BY <1>2, <1>5, StepsOf DEF ThenLists, Core
<1>10. Listed(life') \subseteq view.colls /\ Listed(life') \subseteq manifest'.colls
  <2>1. CASE UNCHANGED <<manifest, life>>
    BY <2>1, <1>2 DEF ListsHold
  <2>2. CASE /\ manifest' = [colls |-> m.colls, active |-> m.coll]
             /\ life' = [c \in Coll |-> IF c \in m.colls /\ life[c] = "made" THEN "listed" ELSE life[c]]
    <3>1. Listed(life') \subseteq Listed(life) \cup m.colls
      BY <2>2 DEF Listed
    <3> QED BY <3>1, <2>2, <1>2, <1>7 DEF ListsHold
  <2> QED BY <2>1, <2>2 DEF ServeManifest
<1> QED BY <1>2, <1>8, <1>9, <1>10 DEF ListsHold

-----------------------------------------------------------------------------
(* Start and crash. *)

LEMMA BootLists == ASSUME SavesIInv, ListsInv, Boot PROVE ListsInv'
<1>1. up' = TRUE /\ ~up /\ UNCHANGED <<queue, reply, overlapped>> /\ slips \subseteq slips'
  BY DEF Boot, Works, Fails
<1>2. queue = <<>> /\ reply = NoReply /\ life \in [Coll -> {"unused", "made", "listed", "deleted"}]
  BY <1>1 DEF SavesIInv, Shapes, MessagesFit, HistoryFits
<1> SUFFICES ASSUME ListsHold, "unread" \notin slips' PROVE ListsHold'
  BY <1>1 DEF ListsInv
<1>3. Listed(life') \subseteq manifest'.colls /\ Listed(life') \subseteq view'.colls
  <2>1. CASE /\ manifest.colls # {}
             /\ \E c \in IF manifest.active \in manifest.colls THEN {manifest.active}
                                                                ELSE manifest.colls :
                  view' = [colls |-> manifest.colls, active |-> c, shown |-> c, items |-> Content(c).items]
             /\ life' = Relisted
             /\ UNCHANGED manifest
    BY <2>1, <1>2 DEF ListsHold, Listed, Relisted
  <2>2. CASE \E c \in Coll :
          /\ view' = [colls |-> {c}, active |-> c, shown |-> c, items |-> Nothing]
          /\ \/ /\ IF manifest.colls = {} THEN Works ELSE Fails("unread")
                /\ life' = [life EXCEPT ![c] = "listed"]
                /\ manifest' = [colls |-> {c}, active |-> c]
             \/ /\ manifest.colls = {} /\ Fails("failed")
                /\ life' = [life EXCEPT ![c] = "made"]
                /\ UNCHANGED manifest
    <3>1. PICK c \in Coll :
          /\ view' = [colls |-> {c}, active |-> c, shown |-> c, items |-> Nothing]
          /\ manifest.colls = {}
          /\ \/ /\ life' = [life EXCEPT ![c] = "listed"]
                /\ manifest' = [colls |-> {c}, active |-> c]
             \/ /\ life' = [life EXCEPT ![c] = "made"]
                /\ UNCHANGED manifest
      BY <2>2 DEF Fails
    <3>2. Listed(life) = {}
      BY <3>1 DEF ListsHold
    <3>3. life' \in [Coll -> {"unused", "made", "listed", "deleted"}] /\ \A x \in Coll : x # c => life'[x] = life[x]
      BY <3>1, <1>2
    <3>4. Listed(life') \subseteq {c} /\ (life' = [life EXCEPT ![c] = "made"] => Listed(life') = {})
      BY <3>1, <3>2, <3>3, <1>2 DEF Listed
    <3> QED BY <3>1, <3>4
  <2> QED BY <2>1, <2>2 DEF Boot, Relisted
<1>4. ThenLists(reply'.then, life')
  BY <1>1, <1>2, BoundFacts, StepsOf, NothingListed
<1> QED BY <1>1, <1>2, <1>3, <1>4 DEF ListsHold

LEMMA CrashLists == ASSUME ListsInv, Crash PROVE ListsInv'
BY DEF Crash, historyVars, ListsInv, ListsHold

LEMMA ListsInit == Init => ListsInv
BY DEF Init, ListsInv, ListsHold, Listed

LEMMA UnmovedLists == ASSUME ListsInv, UNCHANGED vars PROVE ListsInv'
BY DEF ListsInv, ListsHold, vars, mainVars, rendererVars, historyVars

LEMMA ListsStep == SavesIInv /\ SavesIInv' /\ ListsInv /\ [Next]_vars => ListsInv'
<1> SUFFICES ASSUME SavesIInv, SavesIInv', ListsInv, [Next]_vars PROVE ListsInv'
  OBVIOUS
<1>1. CASE Boot \/ Crash \/ UNCHANGED vars
  BY <1>1, BootLists, CrashLists, UnmovedLists
<1>2. CASE \E r \in Req : Edit(r) \/ AddRequest(r) \/ DeleteRequest(r)
  BY <1>2, ListsEdit, ListsAdd, ListsDelete
<1>3. CASE \E c \in Coll : SelectCollection(c) \/ AddCollection(c) \/ DeleteCollection(c)
  BY <1>3, SelectLists, AddLists, DeleteLists
<1>4. CASE SetHeaders \/ TimerFires
  BY <1>4, ListsHeaders, ListsTimer
<1>5. CASE NextPatch \/ Flushed \/ Rewrite \/ RewriteHeaders
  BY <1>5, NextPatchLists, FlushedLists, RewriteLists, RewriteHeadersLists
<1>6. CASE SwitchSaved \/ SwitchListed \/ SwitchLoaded
  BY <1>6, SwitchSavedLists, SwitchListedLists, ShownLists
<1>7. CASE AddStored \/ AddSaved \/ AddListed
  BY <1>7, AddStoredLists, AddSavedLists, ShownLists
<1>8. CASE DeleteLoaded \/ DeleteShown \/ DeleteListed
  BY <1>8, DeleteLoadedLists, DeleteShownLists, DeleteListedLists
<1>9. CASE ServeSave \/ ServeLoad \/ ServeUpdate \/ ServeDelete \/ ServeRemove \/ ServeEnvironments
  BY <1>9, ServeListsKept
<1>10. CASE ServeManifest
  BY <1>10, ServeManifestLists
<1> QED BY <1>1, <1>2, <1>3, <1>4, <1>5, <1>6, <1>7, <1>8, <1>9, <1>10 DEF Next

\* Collections stay listed: as long as no list of collections was read as empty, none the user
\* did not delete leaves the manifest.
THEOREM CollectionsAreNeverDropped == Spec => []CollectionsStayListed
<1>1. Init => SavesIInv /\ ListsInv
  BY SavesInit, ListsInit
<1>2. (SavesIInv /\ ListsInv) /\ [Next]_vars => (SavesIInv /\ ListsInv)'
  BY SavesStep, ListsStep
<1>3. SavesIInv /\ ListsInv => CollectionsStayListed
  BY DEF ListsInv, ListsHold, Listed, CollectionsStayListed
<1> QED BY <1>1, <1>2, <1>3, PTL DEF Spec

-----------------------------------------------------------------------------
(* Deletions *)


\* What a handler may do next touches neither what the window shows, which is s, nor any tree.
ThenAway(then, s) ==
  /\ then.step = "rewrite" => then.items = Nothing /\ then.coll # s
  /\ Core(then).step \in {"switchSaved", "deleteLoaded", "switchListed", "switchLoaded"} =>
       Core(then).coll # s
Apart == /\ \A i \in DOMAIN queue : ThenAway(queue[i].then, view.shown)
         /\ ThenAway(reply.then, view.shown)

\* Until something fails, the lists of collections that are held or on their way name
\* only collections that were made, and outside the manifest only those no request was made in.
Known(colls, m, l, h) == \A c \in colls : l[c] # "unused" /\ (c \in m \/ \A r \in Req : h[r] # c)
ThenKnown(then, v, m, l, h) ==
  LET t == Core(then) IN
  /\ t.step \in {"addStored", "addSaved"} => Known(t.colls, m, l, h) /\ v.shown \in t.colls
  /\ t.step \in {"deleteLoaded", "deleteShown"} =>
       (\A c \in t.colls : l[c] # "unused") /\ t.colls \subseteq m \cap v.colls
  /\ t.step = "switchLoaded" => t.coll \in m
Made == /\ \A c \in manifest.colls : life[c] # "unused"
        /\ \A r \in Req : home[r] # 0 => life[home[r]] # "unused"
Tracked ==
  /\ Known(view.colls, manifest.colls, life, home)
  /\ view.shown \in manifest.colls \cap view.colls
  /\ view.colls \subseteq manifest.colls \/ \E i \in DOMAIN queue : queue[i].then.step = "addListed"
  /\ \A i \in DOMAIN queue : ThenKnown(queue[i].then, view, manifest.colls, life, home)
  /\ ThenKnown(reply.then, view, manifest.colls, life, home)
  /\ reply.then.step \in {"switchListed", "addListed"} => reply.then.coll \in manifest.colls
\* The resolver knows the requests of the collections listed.
Resolves == cache # NoCache =>
  \A c \in manifest.colls, r \in Req : dirs[c].files[r] > 0 => cache[r] = c
\* A collection with a request to be removed is listed until then.
ListedUntil(q, h, m) ==
  \A i \in DOMAIN q : q[i].op = "delete" =>
    /\ h[q[i].req] \in m
    /\ \A j \in DOMAIN q : j < i /\ q[j].op = "manifest" => h[q[i].req] \in q[j].colls

\* A request is gone from the window; it is gone from its collection, or its removal is on
\* its way behind a save without it, and no save behind either has it.
Lacks(m, r) == m.op = "save" => m.items[r] = 0
Erased(r) == ~(r \in dirs[home[r]].tree /\ dirs[home[r]].files[r] > 0)
Removable(r) ==
  \/ r \notin dirs[home[r]].tree
  \/ failures > 0 /\ (dirs[home[r]].files[r] > 0 => Resolved[r] = home[r])
RemovedBehind(q, h) ==
  \A i \in DOMAIN q : q[i].op = "delete" =>
    LET r == q[i].req IN
    /\ \A j \in DOMAIN q : i < j => Lacks(q[j], r)
    /\ \A j \in DOMAIN q : j < i => ~(q[j].op = "load" /\ q[j].coll = h[r])
    /\ i # 1 => q[i - 1].op = "save" /\ q[i - 1].coll = h[r] /\ q[i - 1].items[r] = 0
LeavesWindow(r) == view.items[r] = 0 /\ mirror.items[r] = 0 /\ reply.data.items[r] = 0
LeavesDisk(r) == \/ Erased(r) /\ \A j \in DOMAIN queue : Lacks(queue[j], r)
                 \/ \E i \in DOMAIN queue : queue[i].op = "delete" /\ queue[i].req = r
RemovalIsNext == queue # <<>> /\ Head(queue).op = "delete" => Removable(Head(queue).req)
GoneFor ==
  /\ \A r \in gone : LeavesWindow(r) /\ LeavesDisk(r)
  /\ \A i \in DOMAIN queue : queue[i].op = "delete" => queue[i].req \in gone
  /\ RemovedBehind(queue, home)
  /\ RemovalIsNext

\* The parts of the invariant: a handler keeps apart from the window, nothing is lost sight of
\* until something fails, and what is gone stays gone until two things failed.
AwayInv == up /\ ~overlapped => Apart
FaultlessInv == failures = 0 =>
  /\ "unread" \notin slips
  /\ ~overlapped => Made
  /\ up /\ ~overlapped => Tracked /\ Resolves /\ ListedUntil(queue, home, manifest.colls)
GoneInv == /\ gone \subseteq Req /\ failures \in Nat
           /\ ~overlapped => \A r \in gone : home[r] # 0
           /\ up /\ ~overlapped /\ failures < 2 => GoneFor
DeletionsInv == SavesIInv /\ ListsInv /\ AwayInv /\ FaultlessInv /\ GoneInv

\* A message that the window may send.
Harmless(m, l) ==
  /\ m.op # "delete"
  /\ Apart => ThenAway(m.then, view.shown)
  /\ failures = 0 /\ Tracked => ThenKnown(m.then, view, manifest.colls, l, home)
  /\ GoneFor => \A r \in gone : Lacks(m, r)

LEMMA QuietCore ==
  ASSUME NEW t \in Thens, ~OfCollections(t)
  PROVE  Core(t) = Ends /\ t.step \in {"ends", "batch"}
<1>1. t = Ends \/ (t \in Batches /\ t.then = Ends)
  BY WhoHandles DEF Thens
<1> QED BY <1>1, StepsOf DEF Core

\* What no handler of collections awaits says nothing.
LEMMA QuietThen ==
  ASSUME NEW t \in Thens, ~OfCollections(t)
  PROVE  /\ \A s : ThenAway(t, s)
         /\ \A v, m, l, h : ThenKnown(t, v, m, l, h)
         /\ t.step \notin {"addListed", "switchListed"}
<1>1. Core(t) = Ends /\ t.step \in {"ends", "batch"} /\ Ends.step = "ends"
  BY QuietCore, StepsOf
<1> QED BY <1>1 DEF ThenAway, ThenKnown

LEMMA QuietHarmless ==
  ASSUME NEW m \in Messages, ~OfCollections(m.then), m.op # "delete",
         GoneFor => \A r \in gone : Lacks(m, r)
  PROVE  \A l : Harmless(m, l)
<1>1. m.then \in Thens
  BY MessageTypes
<1> QED BY <1>1, QuietThen DEF Harmless

\* Lists and what the window shows are all that is asked of it; a collection once made stays so.
Lives(l, k) == \A c \in Coll : l[c] # "unused" => k[c] # "unused"

LEMMA KnownStays ==
  ASSUME NEW l, NEW k, Lives(l, k), NEW v, NEW w, w.shown = v.shown, w.colls = v.colls,
         NEW m \in SUBSET Coll, NEW h
  PROVE  /\ \A colls \in SUBSET Coll : Known(colls, m, l, h) => Known(colls, m, k, h)
         /\ \A t \in Thens : ThenKnown(t, v, m, l, h) => ThenKnown(t, w, m, k, h)
<1>1. \A colls \in SUBSET Coll : Known(colls, m, l, h) => Known(colls, m, k, h)
  BY DEF Known, Lives
<1>2. ASSUME NEW t \in Thens PROVE ThenKnown(t, v, m, l, h) => ThenKnown(t, w, m, k, h)
  <2>1. Core(t) \in Thens
    BY ThenTypes, StepsOf DEF Core
  <2>2. /\ Core(t).step \in {"addStored", "addSaved"} => Core(t).colls \in SUBSET Coll
        /\ Core(t).step \in {"deleteLoaded", "deleteShown"} => Core(t).colls \in SUBSET Coll
    BY <2>1, ThenTypes
  <2> QED BY <1>1, <2>2 DEF ThenKnown, Lives
<1> QED BY <1>1, <1>2

\* A message joins the queue: the removals in it are as safe as before.
LEMMA BehindAppend ==
  ASSUME NEW q \in Seq(Messages), NEW m \in Messages, m.op # "delete", NEW h, RemovedBehind(q, h),
         \A i \in DOMAIN q : q[i].op = "delete" => Lacks(m, q[i].req)
  PROVE  RemovedBehind(Append(q, m), h)
<1> DEFINE n == Append(q, m)
           k == Len(q) + 1
<1>1. /\ DOMAIN n = DOMAIN q \cup {k} /\ k \notin DOMAIN q /\ n[k] = m
      /\ \A i \in DOMAIN q : n[i] = q[i] /\ i < k /\ (i # 1 => i - 1 \in DOMAIN q)
      /\ DOMAIN n \subseteq Nat
  OBVIOUS
<1> HIDE DEF n, k
<1> SUFFICES ASSUME NEW i \in DOMAIN n, n[i].op = "delete"
             PROVE  /\ \A j \in DOMAIN n : i < j => Lacks(n[j], n[i].req)
                    /\ \A j \in DOMAIN n : j < i => ~(n[j].op = "load" /\ n[j].coll = h[n[i].req])
                    /\ i # 1 => /\ n[i - 1].op = "save" /\ n[i - 1].coll = h[n[i].req]
                                /\ n[i - 1].items[n[i].req] = 0
  BY DEF RemovedBehind, n
<1>2. i \in DOMAIN q /\ n[i] = q[i] /\ q[i].op = "delete"
  BY <1>1
<1>3. \A j \in DOMAIN n : i < j => Lacks(n[j], n[i].req)
  BY <1>1, <1>2 DEF RemovedBehind
<1>4. \A j \in DOMAIN n : j < i => ~(n[j].op = "load" /\ n[j].coll = h[n[i].req])
  <2>1. ASSUME NEW j \in DOMAIN n, j < i PROVE j \in DOMAIN q
    BY <1>1, <1>2, <2>1
  <2> QED BY <2>1, <1>1, <1>2 DEF RemovedBehind
<1>5. i # 1 => /\ n[i - 1].op = "save" /\ n[i - 1].coll = h[n[i].req] /\ n[i - 1].items[n[i].req] = 0
  BY <1>1, <1>2 DEF RemovedBehind
<1> QED BY <1>3, <1>4, <1>5

LEMMA UntilAppend ==
  ASSUME NEW q \in Seq(Messages), NEW m \in Messages, m.op # "delete", NEW h, NEW l, ListedUntil(q, h, l)
  PROVE  ListedUntil(Append(q, m), h, l)
<1> DEFINE n == Append(q, m)
           k == Len(q) + 1
<1>1. /\ DOMAIN n = DOMAIN q \cup {k} /\ k \notin DOMAIN q /\ n[k] = m
      /\ \A i \in DOMAIN q : n[i] = q[i] /\ i < k
      /\ DOMAIN n \subseteq Nat
  OBVIOUS
<1> HIDE DEF n, k
<1>2. ASSUME NEW i \in DOMAIN n, n[i].op = "delete"
      PROVE  /\ i \in DOMAIN q /\ n[i] = q[i]
             /\ \A j \in DOMAIN n : j < i => j \in DOMAIN q /\ n[j] = q[j]
  BY <1>1, <1>2
<1> QED BY <1>2 DEF ListedUntil, n

-----------------------------------------------------------------------------
(* The window *)

\* The window drops what is gone and sends at most one message, with nothing in it of what is gone.
LEMMA QueueGrows ==
  ASSUME DeletionsInv, SavesIInv', up, up' = up,
         ~overlapped' => ~overlapped, "unread" \in slips' => "unread" \in slips,
         UNCHANGED <<manifest, dirs, cache, failures, gone, home>>, Lives(life, life'),
         reply' = reply \/ reply' = NoReply,
         \/ queue' = queue
         \/ \E m \in Messages :
              /\ queue' = Append(queue, m)
              /\ ~overlapped' => m.op # "delete" /\ (GoneFor => \A r \in gone : Lacks(m, r)),
         ~overlapped' /\ GoneFor => \A r \in gone : view'.items[r] = 0 /\ mirror'.items[r] = 0
  PROVE  /\ GoneInv'
         /\ failures = 0 => "unread" \notin slips'
         /\ failures = 0 /\ ~overlapped' =>
              /\ Made /\ Tracked /\ Resolves /\ ListedUntil(queue, home, manifest.colls)
              /\ Made' /\ Resolves' /\ ListedUntil(queue', home, manifest.colls)
<1>1. /\ queue \in Seq(Messages) /\ manifest.colls \in SUBSET Coll
  BY DEF DeletionsInv, SavesIInv, Shapes, MessagesFit, StoresFit
<1> DEFINE Fits(m) == m.op # "delete" /\ (GoneFor => \A r \in gone : Lacks(m, r))
<1>2. /\ DOMAIN queue \subseteq DOMAIN queue' /\ \A i \in DOMAIN queue : queue'[i] = queue[i]
      /\ ~overlapped' => \A i \in DOMAIN queue' : i \in DOMAIN queue \/ Fits(queue'[i])
  BY <1>1, Appended
<1>3. failures = 0 => "unread" \notin slips'
  BY DEF DeletionsInv, FaultlessInv
<1>4. ASSUME failures = 0, ~overlapped'
      PROVE  /\ Made /\ Tracked /\ Resolves /\ ListedUntil(queue, home, manifest.colls)
             /\ Made' /\ Resolves' /\ ListedUntil(queue', home, manifest.colls)
  <2>1. Made /\ Tracked /\ Resolves /\ ListedUntil(queue, home, manifest.colls)
    BY <1>4 DEF DeletionsInv, FaultlessInv
  <2>2. Made'
    BY <1>1, <2>1 DEF Made, Lives, DeletionsInv, SavesIInv, Shapes, HistoryFits
  <2>3. Resolves'
    BY <2>1 DEF Resolves
  <2>4. ListedUntil(queue', home, manifest.colls)
    BY <1>1, <1>4, <2>1, UntilAppend
  <2> QED BY <2>1, <2>2, <2>3, <2>4
<1>5. GoneInv'
  <2> SUFFICES ASSUME ~overlapped', failures < 2, GoneFor PROVE GoneFor'
    BY DEF GoneInv, DeletionsInv
  <2>1. \A i \in DOMAIN queue' : queue'[i].op = "delete" => i \in DOMAIN queue
    BY <1>2
  <2>2. \A r \in gone : LeavesWindow(r)'
    <3>1. NoReply.data.items = Nothing
      BY DEF NoReply, Empty
    <3>2. gone \subseteq Req
      BY DEF DeletionsInv, GoneInv
    <3> QED BY <3>1, <3>2 DEF LeavesWindow, GoneFor, Nothing
  <2>3. \A r \in gone : LeavesDisk(r)'
    <3> SUFFICES ASSUME NEW r \in gone PROVE LeavesDisk(r)'
      OBVIOUS
    <3>1. CASE Erased(r) /\ \A j \in DOMAIN queue : Lacks(queue[j], r)
      <4>1. \A j \in DOMAIN queue' : Lacks(queue'[j], r)
        BY <3>1, <1>2
      <4>2. Erased(r)'
        BY <3>1 DEF Erased
      <4> QED BY <4>1, <4>2 DEF LeavesDisk
    <3>2. CASE \E i \in DOMAIN queue : queue[i].op = "delete" /\ queue[i].req = r
      BY <3>2, <1>2 DEF LeavesDisk
    <3> QED BY <3>1, <3>2 DEF GoneFor, LeavesDisk
  <2>4. \A i \in DOMAIN queue' : queue'[i].op = "delete" => queue'[i].req \in gone
    BY <2>1, <1>2 DEF GoneFor
  <2>5. RemovedBehind(queue', home)
    <3>1. ASSUME NEW m \in Messages, queue' = Append(queue, m), Fits(m)
          PROVE  RemovedBehind(queue', home)
      <4>1. \A i \in DOMAIN queue : queue[i].op = "delete" => Lacks(m, queue[i].req)
        BY <3>1 DEF GoneFor
      <4>2. m.op # "delete" /\ RemovedBehind(queue, home)
        BY <3>1 DEF GoneFor
      <4> QED BY <4>1, <4>2, <3>1, <1>1, BehindAppend
    <3>2. RemovedBehind(queue, home)
      BY DEF GoneFor
    <3> QED BY <3>1, <3>2
  <2>6. RemovalIsNext'
    <3>1. queue' # <<>> => Head(queue') = queue'[1] /\ 1 \in DOMAIN queue'
      <4>1. queue' \in Seq(Messages)
        BY DEF SavesIInv, Shapes, MessagesFit
      <4> QED BY <4>1, HeadAndTail
    <3>2. queue' # <<>> /\ Head(queue').op = "delete" => 1 \in DOMAIN queue
      BY <3>1, <2>1
    <3>3. 1 \in DOMAIN queue => queue # <<>> /\ Head(queue) = queue[1]
      BY <1>1
    <3>4. queue' # <<>> /\ Head(queue').op = "delete" => Head(queue') = Head(queue) /\ queue # <<>>
      BY <3>1, <3>2, <3>3, <1>2
    <3> QED BY <3>4 DEF GoneFor, RemovalIsNext, Removable, Resolved, Scan, Scanned
  <2> QED BY <2>2, <2>3, <2>4, <2>5, <2>6 DEF GoneFor
<1> QED BY <1>3, <1>4, <1>5

\* Most steps of the window leave its lists and what it shows alone, and send at most one message.
LEMMA WindowSends ==
  ASSUME DeletionsInv, SavesIInv', ListsInv', up, up' = up,
         ~overlapped' => ~overlapped, "unread" \in slips' => "unread" \in slips,
         UNCHANGED <<manifest, dirs, cache, failures, gone, home>>, Lives(life, life'),
         view'.shown = view.shown, view'.colls = view.colls, reply' = reply \/ reply' = NoReply,
         \/ queue' = queue
         \/ \E m \in Messages : queue' = Append(queue, m) /\ (~overlapped' => Harmless(m, life')),
         ~overlapped' /\ GoneFor => \A r \in gone : view'.items[r] = 0 /\ mirror'.items[r] = 0
  PROVE  DeletionsInv'
<1>1. /\ queue \in Seq(Messages) /\ reply.then \in Thens /\ NoReply.then \in Thens
      /\ ~OfCollections(NoReply.then) /\ manifest.colls \in SUBSET Coll /\ view.colls \in SUBSET Coll
  BY BoundFacts DEF DeletionsInv, SavesIInv, Shapes, MessagesFit, StoresFit, WindowFits, Views
<1>2. \A i \in DOMAIN queue : queue[i] \in Messages /\ queue[i].then \in Thens
  BY <1>1, MessageTypes
<1>3. /\ \A s : ThenAway(NoReply.then, s)
      /\ \A v, m, l, h : ThenKnown(NoReply.then, v, m, l, h)
      /\ NoReply.then.step \notin {"addListed", "switchListed"}
  BY <1>1, QuietThen
<1> DEFINE k == Len(queue) + 1
<1>4. /\ DOMAIN queue \subseteq DOMAIN queue' /\ \A i \in DOMAIN queue : queue'[i] = queue[i]
      /\ ~overlapped' => \A i \in DOMAIN queue' : i \in DOMAIN queue \/ Harmless(queue'[i], life')
      /\ \A i \in DOMAIN queue' : i \notin DOMAIN queue => queue'[i].then \in Thens
  BY <1>1, Appended, MessageTypes
<1>5. AwayInv'
  <2> SUFFICES ASSUME ~overlapped', Apart PROVE Apart'
    BY DEF AwayInv, DeletionsInv
  <2>1. \A i \in DOMAIN queue' : ThenAway(queue'[i].then, view'.shown)
    BY <1>4 DEF Apart, Harmless
  <2>2. ThenAway(reply'.then, view'.shown)
    BY <1>3 DEF Apart
  <2> QED BY <2>1, <2>2 DEF Apart
<1>6. /\ GoneInv'
      /\ failures = 0 => "unread" \notin slips'
      /\ failures = 0 /\ ~overlapped' =>
           /\ Made /\ Tracked /\ Resolves /\ ListedUntil(queue, home, manifest.colls)
           /\ Made' /\ Resolves' /\ ListedUntil(queue', home, manifest.colls)
  BY QueueGrows DEF Harmless
<1>7. FaultlessInv'
  <2> SUFFICES ASSUME failures = 0, ~overlapped', Tracked PROVE Tracked'
    BY <1>6 DEF FaultlessInv
  <2>1. \A t \in Thens : ThenKnown(t, view, manifest.colls, life, home)
                           => ThenKnown(t, view', manifest.colls, life', home)
    BY <1>1, KnownStays
  <2>2. \A t \in Thens : ThenKnown(t, view, manifest.colls, life', home)
                           => ThenKnown(t, view', manifest.colls, life', home)
    BY <1>1, KnownStays DEF Lives
  <2>3. \A i \in DOMAIN queue' : ThenKnown(queue'[i].then, view', manifest.colls, life', home)
    BY <1>2, <1>4, <2>1, <2>2 DEF Tracked, Harmless
  <2>4. Known(view.colls, manifest.colls, life', home)
    BY <1>1, KnownStays DEF Tracked
  <2>5. view.colls \subseteq manifest.colls \/ \E i \in DOMAIN queue' : queue'[i].then.step = "addListed"
    BY <1>4 DEF Tracked
  <2>6. /\ ThenKnown(reply'.then, view', manifest.colls, life', home)
        /\ reply'.then.step \in {"switchListed", "addListed"} => reply'.then.coll \in manifest.colls
    BY <1>1, <1>3, <2>1 DEF Tracked
  <2>7. Tracked'
    BY <2>3, <2>4, <2>5, <2>6 DEF Tracked
  <2> QED BY <2>7
<1> QED BY <1>5, <1>6, <1>7 DEF DeletionsInv


\* A message for a window that will show v, from a handler nobody else stands next to.
Welcome(m, v, l) ==
  /\ m.op \notin {"delete", "save"}
  /\ ThenAway(m.then, v.shown)
  /\ failures = 0 => ThenKnown(m.then, v, manifest.colls, l, home)

\* With one handler under way its steps may change the lists and what is shown.
LEMMA WindowAlone ==
  ASSUME DeletionsInv, SavesIInv', ListsInv', up, up' = up,
         ~overlapped' => ~overlapped, "unread" \in slips' => "unread" \in slips,
         UNCHANGED <<manifest, dirs, cache, failures, gone, home>>, Lives(life, life'),
         reply' = NoReply,
         ~overlapped' => \A i \in DOMAIN queue : ~OfCollections(queue[i].then),
         \/ queue' = queue
         \/ \E m \in Messages : queue' = Append(queue, m) /\ (~overlapped' => Welcome(m, view', life')),
         ~overlapped' /\ failures = 0 =>
           /\ Known(view'.colls, manifest.colls, life', home)
           /\ view'.shown \in manifest.colls \cap view'.colls
           /\ \/ view'.colls \subseteq manifest.colls
              \/ \E i \in DOMAIN queue' : queue'[i].then.step = "addListed",
         ~overlapped' /\ GoneFor => \A r \in gone : view'.items[r] = 0 /\ mirror'.items[r] = 0
  PROVE  DeletionsInv'
<1>1. /\ queue \in Seq(Messages) /\ NoReply.then \in Thens /\ ~OfCollections(NoReply.then)
  BY BoundFacts DEF DeletionsInv, SavesIInv, Shapes, MessagesFit
<1>2. \A i \in DOMAIN queue : queue[i] \in Messages /\ queue[i].then \in Thens
  BY <1>1, MessageTypes
<1>3. /\ \A s : ThenAway(NoReply.then, s)
      /\ \A v, m, l, h : ThenKnown(NoReply.then, v, m, l, h)
      /\ NoReply.then.step \notin {"addListed", "switchListed"}
  BY <1>1, QuietThen
<1>4. ~overlapped' => \A i \in DOMAIN queue' :
        \/ i \in DOMAIN queue /\ queue'[i] = queue[i] /\ ~OfCollections(queue'[i].then)
                              /\ queue'[i].then \in Thens
        \/ Welcome(queue'[i], view', life')
  BY <1>1, <1>2, Appended
<1>5. ~overlapped' => \A i \in DOMAIN queue' :
        /\ ThenAway(queue'[i].then, view'.shown)
        /\ failures = 0 => ThenKnown(queue'[i].then, view', manifest.colls, life', home)
  BY <1>4, QuietThen DEF Welcome
<1>6. AwayInv'
  BY <1>3, <1>5 DEF AwayInv, Apart
<1>7. /\ GoneInv'
      /\ failures = 0 => "unread" \notin slips'
      /\ failures = 0 /\ ~overlapped' => Made' /\ Resolves' /\ ListedUntil(queue', home, manifest.colls)
  <2>1. \A m : Welcome(m, view', life') => m.op # "delete" /\ \A r \in gone : Lacks(m, r)
    BY DEF Welcome, Lacks
  <2> QED BY <2>1, QueueGrows
<1>8. FaultlessInv'
  <2> SUFFICES ASSUME failures = 0, ~overlapped' PROVE Tracked'
    BY <1>7 DEF FaultlessInv
  <2> QED BY <1>3, <1>5 DEF Tracked
<1> QED BY <1>6, <1>7, <1>8 DEF DeletionsInv

\* Without a handler under way the window is where the mirror is.
LEMMA Undisturbed ==
  ASSUME SavesIInv, up, ~overlapped, ~Switching
  PROVE  /\ Together(view, mirror.active) /\ view.active \in view.colls
         /\ \A i \in DOMAIN queue : ~OfCollections(queue[i].then)
  BY DEF Switching, SavesIInv, OneAtATime, OneHandler

\* A collection command of the user.
LEMMA CommandBegins ==
  ASSUME SavesIInv, CollectionCommand
  PROVE  /\ up /\ up' = up /\ reply = NoReply /\ reply' = NoReply /\ ~overlapped
         /\ UNCHANGED <<manifest, dirs, cache, failures, gone, home>>
         /\ overlapped' \in BOOLEAN
         /\ ~overlapped' => /\ Together(view, mirror.active) /\ view.active \in view.colls
                            /\ \A i \in DOMAIN queue : ~OfCollections(queue[i].then)
<1>1. /\ up /\ up' = up /\ reply = NoReply /\ reply' = NoReply /\ ~overlapped
      /\ UNCHANGED <<manifest, dirs, cache, failures, gone, home>>
  BY DEF CollectionCommand, Command, mainVars
<1>2. overlapped' \in BOOLEAN /\ (~overlapped' => ~Switching)
  <2>1. overlapped' = (overlapped \/ Switching)
    BY DEF CollectionCommand
  <2> QED BY <2>1, Zenon
<1> QED BY <1>1, <1>2, Undisturbed


\* What a save of a collection sends: its tree, or a load of a collection that is not active.
LEMMA SaveSends ==
  ASSUME Shapes, NEW c \in Coll, NEW items \in Items, NEW t \in AfterSave,
         SaveCollectionData(c, items, t)
  PROVE  /\ mirror'.items \in {mirror.items, items}
         /\ "unread" \in slips' => "unread" \in slips
         /\ \E m \in Messages :
              /\ queue' = Append(queue, m) /\ Carries(m, t) /\ m.op # "delete"
              /\ m.op = "save" => m.items = items
              /\ m.then.step = "rewrite" => /\ m.then.coll = c /\ m.then.items = items
                                            /\ c # mirror.active
<1>1. CASE c = mirror.active
  <2> DEFINE m == Save(c, items, mirror.headers, t)
  <2>1. /\ mirror' = [mirror EXCEPT !.items = items] /\ queue' = Append(queue, m)
        /\ slips' = slips \/ slips' = slips \cup {"mirror"}
    BY <1>1 DEF SaveCollectionData, Send, Note
  <2>2. mirror.headers \in Versions /\ mirror'.items = items
    BY <2>1 DEF Shapes, WindowFits, Mirrors
  <2>3. m \in Messages /\ m.then = t /\ m.op = "save" /\ m.items = items
    BY <2>2, MessagesMade DEF Save
  <2>4. Carries(m, t) /\ m.then.step # "rewrite"
    BY <2>3, WhoHandles, StepsOf DEF Carries, Core, Handlers
  <2> HIDE DEF m
  <2> QED BY <2>1, <2>2, <2>3, <2>4
<1>2. CASE c # mirror.active
  <2> DEFINE u == [step |-> "rewrite", coll |-> c, items |-> items, then |-> t]
             m == Load(c, u)
  <2>1. queue' = Append(queue, m) /\ mirror' = mirror /\ slips' = slips
    BY <1>2 DEF SaveCollectionData, Send
  <2>2. u \in Rewrites /\ u.coll = c /\ u.items = items /\ u.then = t /\ u.step = "rewrite"
    BY ThensMade
  <2>3. m \in Messages /\ m.then = u /\ m.op = "load"
    BY <2>2, MessagesMade DEF Load
  <2>4. Carries(m, t)
    BY <2>2, <2>3, WhoHandles DEF Carries, Core, Handlers
  <2> HIDE DEF u, m
  <2> QED BY <1>2, <2>1, <2>2, <2>3, <2>4
<1> QED BY <1>1, <1>2

\* What a flush sends: a patch, or the tree shown, which is the mirror's collection.
LEMMA FlushSends ==
  ASSUME Shapes, view.active \in Coll, view.active = mirror.active, NEW t \in AfterSave, FlushAndSave(t)
  PROVE  /\ mirror'.items \in {mirror.items, view.items}
         /\ "unread" \in slips' => "unread" \in slips
         /\ \E m \in Messages :
              /\ queue' = Append(queue, m) /\ Carries(m, t) /\ m.op # "delete"
              /\ m.op = "save" => m.items = view.items
              /\ m.then.step # "rewrite"
<1>1. view.items \in Items /\ pending \in Items
  BY DEF Shapes, WindowFits, Views
<1>2. CASE pending = Nothing
  <2>1. SaveCollectionData(view.active, view.items, t)
    BY <1>2 DEF FlushAndSave
  <2> QED BY <1>1, <2>1, SaveSends
<1>3. CASE pending # Nothing
  <2>1. mirror' = [mirror EXCEPT !.items = view.items] /\ Batch(pending, t) /\ slips' = slips
    BY <1>3 DEF FlushAndSave
  <2>2. mirror'.items = view.items
    BY <2>1 DEF Shapes, WindowFits, Mirrors
  <2>3. t # Ends
    BY StepsOf
  <2>4. PICK m \in Messages : /\ queue' = Append(queue, m) /\ m.op = "update"
                              /\ m.then.step # "rewrite" /\ Carries(m, t)
    BY <1>1, <2>1, <2>3, BatchEffect
  <2> QED BY <2>1, <2>2, <2>4
<1> QED BY <1>2, <1>3

\* What is sent for a handler that goes on as t is as harmless as t.
LEMMA CarriesHarmless ==
  ASSUME NEW m \in Messages, NEW t \in AfterSave, Carries(m, t), m.op # "delete", NEW l,
         m.op = "save" /\ GoneFor => \A r \in gone : m.items[r] = 0,
         m.then.step = "rewrite" => m.then.items = Nothing /\ m.then.coll # view.shown,
         t.step = "switchSaved" /\ Apart => t.coll # view.shown,
         failures = 0 /\ Tracked => ThenKnown(t, view, manifest.colls, l, home)
  PROVE  Harmless(m, l)
<1>1. /\ Core(m.then) = t /\ Core(t) = t
      /\ t.step \in {"switchSaved", "addStored", "addSaved"}
  BY StepsOf DEF Carries, Core
<1>2. Apart => ThenAway(m.then, view.shown)
  BY <1>1 DEF ThenAway
<1>3. failures = 0 /\ Tracked => ThenKnown(m.then, view, manifest.colls, l, home)
  BY <1>1 DEF ThenKnown
<1> QED BY <1>2, <1>3 DEF Harmless, Lacks

-----------------------------------------------------------------------------
(* Edits, headers and the timer *)

LEMMA EditDeletes ==
  ASSUME DeletionsInv, SavesIInv', ListsInv', NEW r \in Req, Edit(r) PROVE DeletionsInv'
<1> DEFINE v == view.items[r] + 1
<1>1. /\ up /\ ~overlapped /\ view.items[r] > 0 /\ view' = [view EXCEPT !.items[r] = v]
      /\ UNCHANGED <<manifest, dirs, cache, up, reply, mirror, queue, home, gone, life, overlapped,
                     slips, failures>>
  BY DEF Edit, Command, mainVars
<1>2. view \in Views /\ gone \subseteq Req
  BY DEF DeletionsInv, SavesIInv, Shapes, WindowFits, GoneInv
<1>3. /\ view'.shown = view.shown /\ view'.colls = view.colls
      /\ \A q \in Req : q # r => view'.items[q] = view.items[q]
  BY <1>1, <1>2 DEF Views, Items
<1>4. GoneFor => \A q \in gone : view'.items[q] = 0 /\ mirror'.items[q] = 0
  <2>1. GoneFor => r \notin gone
    BY <1>1 DEF GoneFor, LeavesWindow
  <2> QED BY <1>1, <1>2, <1>3, <2>1 DEF GoneFor, LeavesWindow
<1>5. Lives(life, life')
  BY <1>1 DEF Lives
<1> QED BY <1>1, <1>3, <1>4, <1>5, WindowSends

LEMMA TimerDeletes ==
  ASSUME DeletionsInv, SavesIInv', ListsInv', TimerFires PROVE DeletionsInv'
<1>1. /\ up /\ UNCHANGED <<manifest, dirs, cache, up, reply, view, home, gone, life, failures>>
      /\ "unread" \in slips' => "unread" \in slips
      /\ mirror' = [mirror EXCEPT !.items = view.items]
      /\ Shapes /\ pending \in Items /\ mirror \in Mirrors
  BY DEF TimerFires, mainVars, Note, DeletionsInv, SavesIInv, Shapes, WindowFits
<1>2. ~overlapped' => ~overlapped
  BY Zenon DEF TimerFires
<1>3. queue' = queue \/ \E m \in Messages : queue' = Append(queue, m) /\ Harmless(m, life')
  <2>1. CASE pending = Nothing
    BY <2>1 DEF TimerFires
  <2>2. CASE pending # Nothing
    <3>1. PICK m \in Messages : queue' = Append(queue, m) /\ ~OfCollections(m.then) /\ m.op = "update"
      BY <2>2, <1>1, BatchEffect DEF TimerFires
    <3>2. Harmless(m, life')
      BY <3>1, QuietHarmless DEF Lacks
    <3> QED BY <3>1, <3>2
  <2> QED BY <2>1, <2>2
<1>4. GoneFor => \A q \in gone : view'.items[q] = 0 /\ mirror'.items[q] = 0
  <2>1. mirror'.items = view.items
    BY <1>1 DEF Mirrors
  <2> QED BY <1>1, <2>1 DEF GoneFor, LeavesWindow
<1>5. Lives(life, life') /\ view'.shown = view.shown /\ view'.colls = view.colls
  BY <1>1 DEF Lives
<1> QED BY <1>1, <1>2, <1>3, <1>4, <1>5, WindowSends

LEMMA HeadersDeletes ==
  ASSUME DeletionsInv, SavesIInv', ListsInv', SetHeaders PROVE DeletionsInv'
<1> DEFINE c == view.active
           h == wanted[c].headers + 1
           m == Save(c, mirror.items, h, Ends)
           u == [step |-> "headers", coll |-> c, headers |-> h]
           l == Load(c, u)
<1>1. /\ up /\ ~overlapped /\ h \in Versions
      /\ UNCHANGED <<manifest, dirs, cache, up, reply, view, home, gone, life, failures>>
      /\ "unread" \in slips' => "unread" \in slips
      /\ c \in Coll /\ mirror.items \in Items /\ mirror \in Mirrors
      /\ \/ c = mirror.active /\ mirror' = [mirror EXCEPT !.headers = h] /\ queue' = Append(queue, m)
         \/ c # mirror.active /\ mirror' = mirror /\ queue' = Append(queue, l)
  BY DEF SetHeaders, Command, mainVars, Send, Note, DeletionsInv, SavesIInv, Shapes, WindowFits, Mirrors
<1>2. ~overlapped' => c = mirror.active
  BY Zenon DEF SetHeaders
<1>3. m \in Messages /\ m.then = Ends /\ m.op = "save" /\ m.items = mirror.items
  BY <1>1, MessagesMade DEF Save
<1>4. u \in AfterLoad /\ u.coll = c
  BY <1>1, ThensMade
<1>5. l \in Messages
  BY <1>1, <1>4, MessagesMade DEF Load
<1>6. mirror'.items = mirror.items
  BY <1>1 DEF Mirrors
<1> HIDE DEF m, l, u, h
<1>7. GoneFor => \A q \in gone : view.items[q] = 0 /\ mirror.items[q] = 0
  BY DEF GoneFor, LeavesWindow
<1>8. Harmless(m, life')
  <2>1. ~OfCollections(m.then)
    BY <1>3, WhoHandles
  <2>2. GoneFor => \A q \in gone : Lacks(m, q)
    BY <1>3, <1>7 DEF Lacks
  <2> QED BY <1>3, <2>1, <2>2, QuietHarmless
<1>9. \E n \in Messages : queue' = Append(queue, n) /\ (~overlapped' => Harmless(n, life'))
  BY <1>1, <1>2, <1>3, <1>5, <1>8
<1>10. GoneFor => \A q \in gone : view'.items[q] = 0 /\ mirror'.items[q] = 0
  BY <1>1, <1>6, <1>7
<1>11. Lives(life, life') /\ view'.shown = view.shown /\ view'.colls = view.colls
  BY <1>1 DEF Lives
<1> QED BY <1>1, <1>9, <1>10, <1>11, WindowSends


\* Nothing more is claimed once two handlers overlap.
LEMMA OverlapEnds ==
  ASSUME DeletionsInv, SavesIInv', ListsInv', overlapped', gone' = gone, failures' = failures,
         "unread" \in slips' => "unread" \in slips
  PROVE  DeletionsInv'
BY DEF DeletionsInv, AwayInv, FaultlessInv, GoneInv

\* What is known of the handler whose answer arrives.
LEMMA ResumedDeletes ==
  ASSUME DeletionsInv, NEW s \in {"batch", "rewrite", "headers", "switchSaved", "switchListed",
                                  "switchLoaded", "addStored", "addSaved", "addListed",
                                  "deleteLoaded", "deleteShown", "deleteListed"},
         Resume(s)
  PROVE  /\ up /\ up' = up /\ overlapped' = overlapped /\ reply' = NoReply
         /\ UNCHANGED <<manifest, dirs, cache, failures, gone, home>>
         /\ life' = life /\ Lives(life, life')
         /\ reply.then \in Thens /\ reply.then.step = s /\ reply.data \in Contents /\ Shapes
         /\ {view.active, view.shown, mirror.active} \subseteq Coll
         /\ ~overlapped => ThenAway(reply.then, view.shown)
         /\ ~overlapped /\ failures = 0 =>
              /\ Tracked /\ Made
              /\ ThenKnown(reply.then, view, manifest.colls, life, home)
         /\ ~overlapped /\ OfCollections(reply.then) =>
              /\ Phase(reply.then, view, mirror.active) /\ view.active \in view.colls
              /\ (Core(reply.then) \in AfterSave => Together(view, mirror.active))
              /\ \A i \in DOMAIN queue : ~OfCollections(queue[i].then)
         /\ GoneFor => \A r \in gone : view.items[r] = 0 /\ mirror.items[r] = 0 /\ reply.data.items[r] = 0
<1>1. /\ up /\ up' = up /\ overlapped' = overlapped /\ reply' = NoReply /\ home' = home
      /\ UNCHANGED <<manifest, dirs, cache, wanted, gone, life>>
      /\ reply.then \in Thens /\ reply.data \in Contents /\ reply.then.step = s
      /\ {view.active, view.shown, mirror.active} \subseteq Coll
  BY Resumption DEF DeletionsInv
<1>2. failures' = failures /\ Lives(life, life')
  BY <1>1 DEF Resume, Lives
<1>3. /\ ~overlapped => ThenAway(reply.then, view.shown)
      /\ ~overlapped /\ failures = 0 =>
           /\ Tracked /\ Made
           /\ ThenKnown(reply.then, view, manifest.colls, life, home)
  BY <1>1 DEF DeletionsInv, AwayInv, Apart, FaultlessInv, Tracked
<1>4. ~overlapped /\ OfCollections(reply.then) =>
        /\ Phase(reply.then, view, mirror.active) /\ view.active \in view.colls
        /\ (Core(reply.then) \in AfterSave => Together(view, mirror.active))
        /\ \A i \in DOMAIN queue : ~OfCollections(queue[i].then)
  <2>1. SavesIInv /\ (~overlapped => OneHandler(queue, reply, view, mirror.active))
    BY <1>1 DEF DeletionsInv, SavesIInv, OneAtATime
  <2> QED BY <1>1, <2>1, PhaseNow, NobodyElse
<1>5. GoneFor => \A r \in gone : view.items[r] = 0 /\ mirror.items[r] = 0 /\ reply.data.items[r] = 0
  BY DEF GoneFor, LeavesWindow
<1> QED BY <1>1, <1>2, <1>3, <1>4, <1>5 DEF DeletionsInv, SavesIInv

-----------------------------------------------------------------------------
(* Handlers that leave what is shown alone *)

LEMMA SelectDeletes ==
  ASSUME DeletionsInv, SavesIInv', ListsInv', NEW c \in Coll, SelectCollection(c) PROVE DeletionsInv'
<1> DEFINE t == [step |-> "switchSaved", coll |-> c]
<1>1. /\ up /\ up' = up /\ reply' = reply /\ ~overlapped
      /\ UNCHANGED <<manifest, dirs, cache, failures, gone, home>>
      /\ ~overlapped' => Together(view, mirror.active)
  BY CommandBegins DEF SelectCollection, DeletionsInv
<1>2. view' = view /\ life' = life /\ c # view.active /\ FlushAndSave(t) /\ view.active \in Coll /\ Shapes
  BY <1>1 DEF SelectCollection, DeletionsInv, SavesIInv, Shapes, WindowFits
<1>3. t \in AfterSave /\ t.coll = c /\ t.step = "switchSaved"
  BY ThensMade
<1> HIDE DEF t
<1>4. "unread" \in slips' => "unread" \in slips
  BY <1>2 DEF FlushAndSave, SaveCollectionData, Note
<1>5. CASE overlapped'
  BY <1>1, <1>4, <1>5, OverlapEnds
<1>6. CASE ~overlapped'
  <2>1. view.active = mirror.active /\ view.shown = view.active
    BY <1>1, <1>6 DEF Together
  <2>2. /\ mirror'.items \in {mirror.items, view.items}
        /\ \E m \in Messages :
             /\ queue' = Append(queue, m) /\ Carries(m, t) /\ m.op # "delete"
             /\ m.op = "save" => m.items = view.items
             /\ m.then.step # "rewrite"
    BY <1>2, <1>3, <2>1, FlushSends
  <2>3. PICK m \in Messages :
             /\ queue' = Append(queue, m) /\ Carries(m, t) /\ m.op # "delete"
             /\ m.op = "save" => m.items = view.items
             /\ m.then.step # "rewrite"
    BY <2>2
  <2>4. GoneFor => \A r \in gone : view.items[r] = 0 /\ mirror.items[r] = 0
    BY DEF GoneFor, LeavesWindow
  <2>5. ThenKnown(t, view, manifest.colls, life', home)
    BY <1>3 DEF ThenKnown, Core
  <2>6. Harmless(m, life')
    BY <1>2, <1>3, <2>1, <2>3, <2>4, <2>5, CarriesHarmless
  <2>7. GoneFor => \A r \in gone : view'.items[r] = 0 /\ mirror'.items[r] = 0
    BY <1>2, <2>2, <2>4
  <2>8. Lives(life, life')
    BY <1>2 DEF Lives
  <2> QED BY <1>1, <1>2, <1>4, <1>6, <2>3, <2>6, <2>7, <2>8, WindowSends
<1> QED BY <1>5, <1>6

LEMMA AddDeletes ==
  ASSUME DeletionsInv, SavesIInv', ListsInv', NEW c \in Coll, AddCollection(c) PROVE DeletionsInv'
<1> DEFINE t == [step |-> "addStored", coll |-> c, colls |-> view.colls \cup {c}]
<1>1. /\ up /\ up' = up /\ reply' = reply /\ ~overlapped
      /\ UNCHANGED <<manifest, dirs, cache, failures, gone, home>>
      /\ ~overlapped' => Together(view, mirror.active)
  BY CommandBegins DEF AddCollection, DeletionsInv
<1>2. /\ view' = view /\ life[c] = "unused" /\ life' = [life EXCEPT ![c] = "made"]
      /\ SaveCollectionData(c, Nothing, t) /\ Shapes
      /\ view.colls \cup {c} \in SUBSET Coll /\ Nothing \in Items
  BY <1>1, BoundFacts DEF AddCollection, DeletionsInv, SavesIInv, Shapes, WindowFits, Views
<1>3. t \in AfterSave /\ t.step = "addStored" /\ t.colls = view.colls \cup {c}
  BY <1>2, ThensMade
<1> HIDE DEF t
<1>4. /\ "unread" \in slips' => "unread" \in slips
      /\ mirror'.items \in {mirror.items, Nothing}
      /\ \E m \in Messages :
           /\ queue' = Append(queue, m) /\ Carries(m, t) /\ m.op # "delete"
           /\ m.op = "save" => m.items = Nothing
           /\ m.then.step = "rewrite" => /\ m.then.coll = c /\ m.then.items = Nothing
                                         /\ c # mirror.active
  BY <1>2, <1>3, SaveSends
<1>5. CASE overlapped'
  BY <1>1, <1>4, <1>5, OverlapEnds
<1>6. CASE ~overlapped'
  <2>1. view.shown = mirror.active
    BY <1>1, <1>6 DEF Together
  <2>2. PICK m \in Messages :
           /\ queue' = Append(queue, m) /\ Carries(m, t) /\ m.op # "delete"
           /\ m.op = "save" => m.items = Nothing
           /\ m.then.step = "rewrite" => /\ m.then.coll = c /\ m.then.items = Nothing
                                         /\ c # mirror.active
    BY <1>4
  <2>3. gone \subseteq Req /\ \A r \in Req : Nothing[r] = 0
    BY DEF DeletionsInv, GoneInv, Nothing
  <2>4. GoneFor => \A r \in gone : view.items[r] = 0 /\ mirror.items[r] = 0
    BY DEF GoneFor, LeavesWindow
  <2>5. Lives(life, life') /\ life'[c] = "made"
    BY <1>2 DEF Lives, Shapes, HistoryFits
  <2>6. failures = 0 /\ Tracked => ThenKnown(t, view, manifest.colls, life', home)
    <3> SUFFICES ASSUME failures = 0, Tracked PROVE ThenKnown(t, view, manifest.colls, life', home)
      OBVIOUS
    <3>1. \A r \in Req : home[r] # c
      <4>1. Made /\ home \in [Req -> Coll \cup {0}] /\ c # 0
        BY <1>1, <1>2, BoundFacts DEF DeletionsInv, FaultlessInv, Shapes, HistoryFits
      <4> QED BY <4>1, <1>2 DEF Made
    <3>2. \A d \in view.colls : life'[d] # "unused" /\ (d \in manifest.colls \/ \A r \in Req : home[r] # d)
      BY <1>2, <2>5 DEF Tracked, Known, Lives
    <3>3. Known(t.colls, manifest.colls, life', home) /\ view.shown \in t.colls
      BY <1>3, <2>5, <3>1, <3>2 DEF Known, Tracked
    <3> QED BY <1>3, <3>3 DEF ThenKnown, Core
  <2>7. Harmless(m, life')
    BY <1>3, <2>1, <2>2, <2>3, <2>6, CarriesHarmless
  <2>8. GoneFor => \A r \in gone : view'.items[r] = 0 /\ mirror'.items[r] = 0
    BY <1>2, <1>4, <2>3, <2>4
  <2> QED BY <1>1, <1>2, <1>4, <1>6, <2>2, <2>5, <2>7, <2>8, WindowSends
<1> QED BY <1>5, <1>6


LEMMA DeleteDeletes ==
  ASSUME DeletionsInv, SavesIInv', ListsInv', NEW c \in Coll, DeleteCollection(c) PROVE DeletionsInv'
<1> DEFINE rest == view.colls \ {c}
<1>1. /\ up /\ up' = up /\ reply' = reply /\ reply' = NoReply /\ ~overlapped
      /\ UNCHANGED <<manifest, dirs, cache, failures, gone, home>>
      /\ ~overlapped' => /\ Together(view, mirror.active)
                         /\ \A i \in DOMAIN queue : ~OfCollections(queue[i].then)
  BY CommandBegins DEF DeleteCollection, DeletionsInv
<1>2. /\ c \in view.colls /\ life' = [life EXCEPT ![c] = "deleted"] /\ Shapes
      /\ view \in Views /\ rest \in SUBSET Coll /\ view.active \in Coll
      /\ "unread" \in slips' => "unread" \in slips
  BY <1>1 DEF DeleteCollection, Note, DeletionsInv, SavesIInv, Shapes, WindowFits, Views
<1>3. Lives(life, life')
  BY <1>2 DEF Lives, Shapes, HistoryFits
<1>4. CASE overlapped'
  BY <1>1, <1>2, <1>4, OverlapEnds
<1>5. ASSUME ~overlapped'
      PROVE  /\ view.shown = view.active
             /\ failures = 0 => /\ Tracked /\ view.colls \subseteq manifest.colls
                                /\ Known(view.colls, manifest.colls, life', home)
  <2>1. ASSUME failures = 0
        PROVE  /\ Tracked /\ view.colls \subseteq manifest.colls
               /\ Known(view.colls, manifest.colls, life', home)
    <3>1. Tracked
      BY <1>1, <2>1 DEF DeletionsInv, FaultlessInv
    <3>2. \A i \in DOMAIN queue : queue[i].then.step # "addListed"
      BY <1>1, <1>5 DEF OfCollections, Ends
    <3> QED BY <1>3, <3>1, <3>2, <1>2 DEF Tracked, Known, Lives, Shapes, WindowFits, Views
  <2> QED BY <1>1, <1>5, <2>1 DEF Together
<1>6. CASE ~overlapped' /\ c = view.active
  <2>1. /\ view' = view /\ mirror' = mirror
        /\ \E next \in rest :
             queue' = Append(queue, Load(next, [step |-> "deleteLoaded", coll |-> next,
                                                colls |-> rest, old |-> c]))
    BY <1>6 DEF DeleteCollection, Send
  <2>2. PICK next \in rest :
             queue' = Append(queue, Load(next, [step |-> "deleteLoaded", coll |-> next,
                                                colls |-> rest, old |-> c]))
    BY <2>1
  <2> DEFINE t == [step |-> "deleteLoaded", coll |-> next, colls |-> rest, old |-> c]
             m == Load(next, t)
  <2>3. t \in AfterLoad /\ t.coll = next /\ t.step = "deleteLoaded" /\ t.colls = rest /\ next \in Coll
    BY <1>2, ThensMade
  <2>4. m \in Messages /\ m.then = t /\ m.op = "load"
    BY <2>3, MessagesMade DEF Load
  <2>5. next # view.shown
    BY <1>5, <1>6
  <2> HIDE DEF t, m
  <2>6. ThenAway(m.then, view.shown)
    BY <2>3, <2>4, <2>5 DEF ThenAway, Core
  <2>7. failures = 0 => ThenKnown(m.then, view, manifest.colls, life', home)
    BY <1>5, <1>6, <2>3, <2>4 DEF ThenKnown, Core, Known
  <2>8. Harmless(m, life')
    BY <2>4, <2>6, <2>7 DEF Harmless, Lacks
  <2>9. GoneFor => \A r \in gone : view'.items[r] = 0 /\ mirror'.items[r] = 0
    BY <2>1 DEF GoneFor, LeavesWindow
  <2>10. queue' = Append(queue, m)
    BY <2>2 DEF m, t
  <2> QED BY <1>1, <1>2, <1>3, <1>6, <2>1, <2>4, <2>8, <2>9, <2>10, WindowSends
<1>7. CASE ~overlapped' /\ c # view.active
  <2> DEFINE t == [step |-> "deleteListed", old |-> c]
             m == SaveManifest(rest, view.active, t)
  <2>1. /\ view' = [view EXCEPT !.colls = rest] /\ queue' = Append(queue, m)
        /\ mirror' = [active |-> view.active, items |-> Nothing, headers |-> 0]
    BY <1>7 DEF DeleteCollection, Send
  <2>2. t \in AfterManifest /\ t.step = "deleteListed"
    BY ThensMade
  <2>3. m \in Messages /\ m.then = t /\ m.op = "manifest"
    BY <1>2, <2>2, MessagesMade DEF SaveManifest
  <2>4. view'.colls = rest /\ view'.shown = view.shown /\ view'.items = view.items /\ mirror'.items = Nothing
    BY <1>2, <2>1 DEF Views
  <2> HIDE DEF m, t
  <2>5. Welcome(m, view', life')
    BY <2>2, <2>3 DEF Welcome, ThenAway, ThenKnown, Core
  <2>6. failures = 0 => /\ Known(view'.colls, manifest.colls, life', home)
                        /\ view'.shown \in manifest.colls \cap view'.colls
                        /\ view'.colls \subseteq manifest.colls
    BY <1>5, <1>7, <2>4 DEF Known, Tracked
  <2>7. GoneFor => \A r \in gone : view'.items[r] = 0 /\ mirror'.items[r] = 0
    BY <2>4 DEF GoneFor, LeavesWindow, DeletionsInv, GoneInv, Nothing
  <2> QED BY <1>1, <1>2, <1>3, <1>7, <2>1, <2>3, <2>5, <2>6, <2>7, WindowAlone
<1> QED BY <1>4, <1>6, <1>7

LEMMA NextPatchDeletes ==
  ASSUME DeletionsInv, SavesIInv', ListsInv', NextPatch PROVE DeletionsInv'
<1> DEFINE t == reply.then.then
<1>1. /\ up /\ up' = up /\ overlapped' = overlapped /\ reply' = NoReply
      /\ UNCHANGED <<manifest, dirs, cache, failures, gone, home>>
      /\ life' = life /\ Lives(life, life')
      /\ reply.then \in Thens /\ reply.then.step = "batch" /\ Shapes
      /\ ~overlapped => ThenAway(reply.then, view.shown)
      /\ ~overlapped /\ failures = 0 => ThenKnown(reply.then, view, manifest.colls, life, home)
      /\ GoneFor => \A r \in gone : view.items[r] = 0 /\ mirror.items[r] = 0
  BY ResumedDeletes DEF NextPatch
<1>2. /\ Batch(reply.then.patches, t) /\ view' = view /\ mirror' = mirror
      /\ "unread" \in slips' => "unread" \in slips
  BY DEF NextPatch, Note, rendererVars
<1>3. reply.then.patches \in Items /\ t \in {Ends} \cup AfterSave /\ Core(reply.then) = t
  BY <1>1, ThenTypes DEF Core
<1>4. PICK m \in Messages : /\ queue' = Append(queue, m)
                            /\ m.op = "update" /\ m.then.step # "rewrite"
                            /\ IF t = Ends THEN ~OfCollections(m.then) ELSE Carries(m, t)
  BY <1>1, <1>2, <1>3, BatchEffect
<1> HIDE DEF t
<1>5. ~overlapped => Harmless(m, life')
  <2>1. CASE t = Ends
    BY <2>1, <1>4, QuietHarmless DEF Lacks
  <2>2. ASSUME t # Ends, ~overlapped PROVE Harmless(m, life')
    <3>1. t \in AfterSave /\ Carries(m, t) /\ Core(t) = t
      BY <1>3, <1>4, <2>2, StepsOf DEF Core
    <3>2. t.step = "switchSaved" => t.coll # view.shown
      BY <1>1, <1>3, <2>2 DEF ThenAway
    <3>3. failures = 0 => ThenKnown(t, view, manifest.colls, life', home)
      BY <1>1, <1>3, <2>2, <3>1 DEF ThenKnown
    <3> QED BY <1>4, <3>1, <3>2, <3>3, CarriesHarmless
  <2> QED BY <2>1, <2>2
<1> QED BY <1>1, <1>2, <1>4, <1>5, WindowSends

LEMMA FlushedDeletes ==
  ASSUME DeletionsInv, SavesIInv', ListsInv', Flushed PROVE DeletionsInv'
<1> DEFINE t == reply.then.then
<1>1. /\ up /\ up' = up /\ overlapped' = overlapped /\ reply' = NoReply
      /\ UNCHANGED <<manifest, dirs, cache, failures, gone, home>>
      /\ life' = life /\ Lives(life, life')
      /\ reply.then \in Thens /\ reply.then.step = "batch" /\ Shapes
      /\ view.active \in Coll
      /\ ~overlapped => ThenAway(reply.then, view.shown)
      /\ ~overlapped /\ failures = 0 => ThenKnown(reply.then, view, manifest.colls, life, home)
      /\ ~overlapped /\ OfCollections(reply.then) =>
           (Core(reply.then) \in AfterSave => Together(view, mirror.active))
      /\ GoneFor => \A r \in gone : view.items[r] = 0 /\ mirror.items[r] = 0
  BY ResumedDeletes DEF Flushed
<1>2. SaveCollectionData(view.active, view.items, t) /\ view' = view /\ reply.then.patches = Nothing
      /\ view.items \in Items
  BY <1>1 DEF Flushed, Shapes, WindowFits, Views
<1>3. t \in AfterSave /\ Core(reply.then) = t /\ OfCollections(reply.then) /\ Core(t) = t
  BY <1>1, <1>2, ThenTypes, StepsOf DEF Core, OfCollections, Ends
<1>4. /\ "unread" \in slips' => "unread" \in slips
      /\ mirror'.items \in {mirror.items, view.items}
      /\ \E m \in Messages :
           /\ queue' = Append(queue, m) /\ Carries(m, t) /\ m.op # "delete"
           /\ m.op = "save" => m.items = view.items
           /\ m.then.step = "rewrite" => view.active # mirror.active
  BY <1>1, <1>2, <1>3, SaveSends
<1>5. PICK m \in Messages :
           /\ queue' = Append(queue, m) /\ Carries(m, t) /\ m.op # "delete"
           /\ m.op = "save" => m.items = view.items
           /\ m.then.step = "rewrite" => view.active # mirror.active
  BY <1>4
<1> HIDE DEF t
<1>6. ~overlapped => Harmless(m, life')
  <2> SUFFICES ASSUME ~overlapped PROVE Harmless(m, life')
    OBVIOUS
  <2>1. m.then.step # "rewrite"
    BY <1>1, <1>3, <1>5 DEF Together
  <2>2. t.step = "switchSaved" => t.coll # view.shown
    BY <1>1, <1>3 DEF ThenAway
  <2>3. failures = 0 => ThenKnown(t, view, manifest.colls, life', home)
    BY <1>1, <1>3 DEF ThenKnown
  <2>4. m.op = "save" /\ GoneFor => \A r \in gone : m.items[r] = 0
    BY <1>1, <1>5
  <2> QED BY <1>3, <1>5, <2>1, <2>2, <2>3, <2>4, CarriesHarmless
<1>7. GoneFor => \A r \in gone : view'.items[r] = 0 /\ mirror'.items[r] = 0
  BY <1>1, <1>2, <1>4
<1> QED BY <1>1, <1>2, <1>4, <1>5, <1>6, <1>7, WindowSends

LEMMA AddStoredDeletes ==
  ASSUME DeletionsInv, SavesIInv', ListsInv', AddStored PROVE DeletionsInv'
<1> DEFINE t == [reply.then EXCEPT !.step = "addSaved"]
<1>1. /\ up /\ up' = up /\ overlapped' = overlapped /\ reply' = NoReply
      /\ UNCHANGED <<manifest, dirs, cache, failures, gone, home>>
      /\ life' = life /\ Lives(life, life')
      /\ reply.then \in Thens /\ reply.then.step = "addStored" /\ Shapes
      /\ view.active \in Coll
      /\ ~overlapped /\ failures = 0 => ThenKnown(reply.then, view, manifest.colls, life, home)
      /\ ~overlapped /\ OfCollections(reply.then) =>
           (Core(reply.then) \in AfterSave => Together(view, mirror.active))
      /\ GoneFor => \A r \in gone : view.items[r] = 0 /\ mirror.items[r] = 0
  BY ResumedDeletes DEF AddStored
<1>2. /\ reply.then \in AfterSave /\ Core(reply.then) = reply.then /\ OfCollections(reply.then)
      /\ t \in AfterSave /\ t.step = "addSaved" /\ t.colls = reply.then.colls /\ Core(t) = t
  BY <1>1, ThenTypes, ThensChanged, WhoHandles DEF Core, Handlers
<1> HIDE DEF t
<1>3. FlushAndSave(t) /\ view' = view
  BY DEF AddStored, t
<1>4. "unread" \in slips' => "unread" \in slips
  BY <1>3 DEF FlushAndSave, SaveCollectionData, Note
<1>5. CASE overlapped
  BY <1>1, <1>4, <1>5, OverlapEnds
<1>6. CASE ~overlapped
  <2>1. view.active = mirror.active
    BY <1>1, <1>2, <1>6 DEF Together
  <2>2. /\ mirror'.items \in {mirror.items, view.items}
        /\ \E m \in Messages :
             /\ queue' = Append(queue, m) /\ Carries(m, t) /\ m.op # "delete"
             /\ m.op = "save" => m.items = view.items
             /\ m.then.step # "rewrite"
    BY <1>1, <1>2, <1>3, <2>1, FlushSends
  <2>3. PICK m \in Messages :
             /\ queue' = Append(queue, m) /\ Carries(m, t) /\ m.op # "delete"
             /\ m.op = "save" => m.items = view.items
             /\ m.then.step # "rewrite"
    BY <2>2
  <2>4. failures = 0 => ThenKnown(t, view, manifest.colls, life', home)
    BY <1>1, <1>2, <1>6 DEF ThenKnown
  <2>5. m.op = "save" /\ GoneFor => \A r \in gone : m.items[r] = 0
    BY <1>1, <2>3
  <2>6. Harmless(m, life')
    BY <1>2, <2>3, <2>4, <2>5, CarriesHarmless
  <2>7. GoneFor => \A r \in gone : view'.items[r] = 0 /\ mirror'.items[r] = 0
    BY <1>1, <1>3, <2>2
  <2> QED BY <1>1, <1>3, <1>4, <2>3, <2>6, <2>7, WindowSends
<1> QED BY <1>5, <1>6


LEMMA RewriteDeletes ==
  ASSUME DeletionsInv, SavesIInv', ListsInv', Rewrite PROVE DeletionsInv'
<1> DEFINE t == reply.then.then
           m == Save(reply.then.coll, reply.then.items, reply.data.headers, t)
<1>1. /\ up /\ up' = up /\ overlapped' = overlapped /\ reply' = NoReply
      /\ UNCHANGED <<manifest, dirs, cache, failures, gone, home>>
      /\ life' = life /\ Lives(life, life')
      /\ reply.then \in Thens /\ reply.then.step = "rewrite" /\ reply.data \in Contents
      /\ ~overlapped => ThenAway(reply.then, view.shown)
      /\ ~overlapped /\ failures = 0 => ThenKnown(reply.then, view, manifest.colls, life, home)
      /\ GoneFor => \A r \in gone : view.items[r] = 0 /\ mirror.items[r] = 0
  BY ResumedDeletes DEF Rewrite
<1>2. queue' = Append(queue, m) /\ view' = view /\ mirror' = mirror /\ slips' = slips
  BY DEF Rewrite, Send, rendererVars
<1>3. /\ reply.then.coll \in Coll /\ reply.then.items \in Items /\ t \in AfterSave
      /\ reply.data.headers \in Versions /\ Core(reply.then) = t
  BY <1>1, ThenTypes DEF Core, Contents
<1>4. m \in Messages /\ m.op = "save" /\ m.items = reply.then.items /\ m.then = t
  BY <1>3, MessagesMade DEF Save
<1>5. Core(t) = t /\ OfCollections(t) /\ t.step # "rewrite"
  BY <1>3, StepsOf, WhoHandles DEF Core, Handlers
<1> HIDE DEF m, t
<1>6. ~overlapped => Harmless(m, life')
  <2> SUFFICES ASSUME ~overlapped PROVE Harmless(m, life')
    OBVIOUS
  <2>1. \A r \in gone : m.items[r] = 0
    BY <1>1, <1>4 DEF ThenAway, Nothing, DeletionsInv, GoneInv
  <2>2. t.step = "switchSaved" => t.coll # view.shown
    BY <1>1, <1>3 DEF ThenAway
  <2>3. failures = 0 => ThenKnown(t, view, manifest.colls, life', home)
    BY <1>1, <1>3, <1>5 DEF ThenKnown
  <2>4. Carries(m, t)
    BY <1>4, <1>5 DEF Carries
  <2> QED BY <1>3, <1>4, <1>5, <2>1, <2>2, <2>3, <2>4, CarriesHarmless
<1> QED BY <1>1, <1>2, <1>4, <1>6, WindowSends

LEMMA RewriteHeadersDeletes ==
  ASSUME DeletionsInv, SavesIInv', ListsInv', RewriteHeaders PROVE DeletionsInv'
<1>1. /\ overlapped' = overlapped /\ reply.then \in Thens /\ reply.then.step = "headers"
      /\ gone' = gone /\ failures' = failures
      /\ ~overlapped /\ OfCollections(reply.then) => Phase(reply.then, view, mirror.active)
  BY ResumedDeletes DEF RewriteHeaders
<1>2. OfCollections(reply.then) /\ Core(reply.then) = reply.then
  BY <1>1, ThenTypes, WhoHandles DEF Core, Handlers
<1>3. overlapped'
  BY <1>1, <1>2 DEF Phase
<1> QED BY <1>1, <1>3, OverlapEnds DEF RewriteHeaders

LEMMA SwitchSavedDeletes ==
  ASSUME DeletionsInv, SavesIInv', ListsInv', SwitchSaved PROVE DeletionsInv'
<1> DEFINE c == reply.then.coll
           t == [step |-> "switchListed", coll |-> c]
           m == SaveManifest(view.colls, c, t)
<1>1. /\ up /\ up' = up /\ overlapped' = overlapped /\ reply' = NoReply
      /\ UNCHANGED <<manifest, dirs, cache, failures, gone, home>>
      /\ life' = life /\ Lives(life, life')
      /\ reply.then \in Thens /\ reply.then.step = "switchSaved" /\ Shapes
      /\ ~overlapped => ThenAway(reply.then, view.shown)
      /\ GoneFor => \A r \in gone : view.items[r] = 0 /\ mirror.items[r] = 0
  BY ResumedDeletes DEF SwitchSaved
<1>2. /\ mirror' = [active |-> c, items |-> Nothing, headers |-> 0]
      /\ view' = [view EXCEPT !.active = c] /\ queue' = Append(queue, m) /\ slips' = slips
      /\ view \in Views /\ view.colls \in SUBSET Coll
  BY <1>1 DEF SwitchSaved, Send, Shapes, WindowFits, Views
<1>3. c \in Coll /\ t \in AfterManifest /\ t.step = "switchListed" /\ t.coll = c
      /\ Core(reply.then) = reply.then
  BY <1>1, ThenTypes, ThensMade DEF Core
<1>4. m \in Messages /\ m.op = "manifest" /\ m.then = t
  BY <1>2, <1>3, MessagesMade DEF SaveManifest
<1> HIDE DEF m, t
<1>5. ~overlapped => Harmless(m, life')
  BY <1>1, <1>3, <1>4 DEF Harmless, ThenAway, ThenKnown, Core, Lacks
<1>6. view'.shown = view.shown /\ view'.colls = view.colls /\ view'.items = view.items
      /\ mirror'.items = Nothing
  BY <1>2 DEF Views
<1>7. GoneFor => \A r \in gone : view'.items[r] = 0 /\ mirror'.items[r] = 0
  BY <1>1, <1>6 DEF Nothing, DeletionsInv, GoneInv
<1> QED BY <1>1, <1>2, <1>4, <1>5, <1>6, <1>7, WindowSends

LEMMA SwitchListedDeletes ==
  ASSUME DeletionsInv, SavesIInv', ListsInv', SwitchListed PROVE DeletionsInv'
<1> DEFINE c == reply.then.coll
           t == [step |-> "switchLoaded", coll |-> c]
           m == Load(c, t)
<1>1. /\ up /\ up' = up /\ overlapped' = overlapped /\ reply' = NoReply
      /\ UNCHANGED <<manifest, dirs, cache, failures, gone, home>>
      /\ life' = life /\ Lives(life, life')
      /\ reply.then \in Thens /\ reply.then.step = "switchListed"
      /\ ~overlapped => ThenAway(reply.then, view.shown)
      /\ ~overlapped /\ failures = 0 => Tracked
      /\ GoneFor => \A r \in gone : view.items[r] = 0 /\ mirror.items[r] = 0
  BY ResumedDeletes DEF SwitchListed
<1>2. view' = view /\ mirror' = mirror /\ slips' = slips /\ queue' = Append(queue, m)
  BY DEF SwitchListed, Send, rendererVars
<1>3. c \in Coll /\ t \in AfterLoad /\ t.step = "switchLoaded" /\ t.coll = c
      /\ Core(reply.then) = reply.then
  BY <1>1, ThenTypes, ThensMade DEF Core
<1>4. m \in Messages /\ m.op = "load" /\ m.then = t
  BY <1>3, MessagesMade DEF Load
<1> HIDE DEF m, t
<1>5. ~overlapped /\ failures = 0 => c \in manifest.colls
  BY <1>1 DEF Tracked
<1>6. ~overlapped => Harmless(m, life')
  BY <1>1, <1>3, <1>4, <1>5 DEF Harmless, ThenAway, ThenKnown, Core, Lacks
<1> QED BY <1>1, <1>2, <1>4, <1>6, WindowSends

LEMMA DeleteListedDeletes ==
  ASSUME DeletionsInv, SavesIInv', ListsInv', DeleteListed PROVE DeletionsInv'
<1> DEFINE m == RemoveDir(reply.then.old)
<1>1. /\ up /\ up' = up /\ overlapped' = overlapped /\ reply' = NoReply
      /\ UNCHANGED <<manifest, dirs, cache, failures, gone, home>>
      /\ life' = life /\ Lives(life, life')
      /\ reply.then \in Thens /\ reply.then.step = "deleteListed"
      /\ GoneFor => \A r \in gone : view.items[r] = 0 /\ mirror.items[r] = 0
  BY ResumedDeletes DEF DeleteListed
<1>2. view' = view /\ mirror' = mirror /\ slips' = slips /\ queue' = Append(queue, m)
  BY DEF DeleteListed, Send, rendererVars
<1>3. m \in Messages /\ m.op = "remove" /\ m.then = Ends
  BY <1>1, ThenTypes, MessagesMade DEF RemoveDir
<1> HIDE DEF m
<1>4. Harmless(m, life')
  BY <1>3, WhoHandles, QuietHarmless DEF Lacks
<1> QED BY <1>1, <1>2, <1>3, <1>4, WindowSends

-----------------------------------------------------------------------------
(* Handlers that change the lists or what is shown *)

\* Without an addition under way every collection of the window is in the manifest.
LEMMA AllListed ==
  ASSUME Tracked, \A i \in DOMAIN queue : ~OfCollections(queue[i].then)
  PROVE  view.colls \subseteq manifest.colls
<1>1. \A i \in DOMAIN queue : queue[i].then.step # "addListed"
  BY DEF OfCollections, Ends
<1> QED BY <1>1 DEF Tracked

LEMMA SwitchLoadedDeletes ==
  ASSUME DeletionsInv, SavesIInv', ListsInv', SwitchLoaded PROVE DeletionsInv'
<1> DEFINE c == reply.then.coll
<1>1. /\ up /\ up' = up /\ overlapped' = overlapped /\ reply' = NoReply
      /\ UNCHANGED <<manifest, dirs, cache, failures, gone, home>>
      /\ life' = life /\ Lives(life, life')
      /\ reply.then \in Thens /\ reply.then.step = "switchLoaded" /\ Shapes
      /\ ~overlapped /\ failures = 0 =>
           Tracked /\ ThenKnown(reply.then, view, manifest.colls, life, home)
      /\ ~overlapped /\ OfCollections(reply.then) =>
           /\ Phase(reply.then, view, mirror.active) /\ view.active \in view.colls
           /\ \A i \in DOMAIN queue : ~OfCollections(queue[i].then)
      /\ GoneFor => \A r \in gone : view.items[r] = 0 /\ mirror.items[r] = 0 /\ reply.data.items[r] = 0
  BY ResumedDeletes DEF SwitchLoaded
<1>2. /\ mirror' = Mirrored(c, reply.data) /\ queue' = queue /\ slips' = slips
      /\ view' = [view EXCEPT !.items = reply.data.items, !.shown = c] /\ view \in Views
  BY <1>1 DEF SwitchLoaded, Shapes, WindowFits
<1>3. OfCollections(reply.then) /\ Core(reply.then) = reply.then
  BY <1>1, ThenTypes, WhoHandles DEF Core, Handlers
<1>4. view'.items = reply.data.items /\ view'.shown = c /\ view'.colls = view.colls
  BY <1>2 DEF Views
<1>5. ~overlapped /\ failures = 0 =>
        /\ Known(view'.colls, manifest.colls, life', home)
        /\ view'.shown \in manifest.colls \cap view'.colls
        /\ view'.colls \subseteq manifest.colls
  <2> SUFFICES ASSUME ~overlapped, failures = 0
               PROVE  /\ Known(view.colls, manifest.colls, life, home)
                      /\ c \in manifest.colls \cap view.colls
                      /\ view.colls \subseteq manifest.colls
    BY <1>1, <1>4
  <2>1. c \in manifest.colls
    BY <1>1, <1>3 DEF ThenKnown
  <2>2. c \in view.colls
    BY <1>1, <1>3 DEF Phase
  <2> QED BY <1>1, <1>3, <2>1, <2>2, AllListed DEF Tracked
<1>6. GoneFor => \A r \in gone : view'.items[r] = 0 /\ mirror'.items[r] = 0
  BY <1>1, <1>2, <1>4 DEF Mirrored
<1> QED BY <1>1, <1>2, <1>3, <1>5, <1>6, WindowAlone

LEMMA AddSavedDeletes ==
  ASSUME DeletionsInv, SavesIInv', ListsInv', AddSaved PROVE DeletionsInv'
<1> DEFINE c == reply.then.coll
           t == [step |-> "addListed", coll |-> c]
           m == SaveManifest(reply.then.colls, c, t)
<1>1. /\ up /\ up' = up /\ overlapped' = overlapped /\ reply' = NoReply
      /\ UNCHANGED <<manifest, dirs, cache, failures, gone, home>>
      /\ life' = life /\ Lives(life, life')
      /\ reply.then \in Thens /\ reply.then.step = "addSaved" /\ Shapes
      /\ ~overlapped /\ failures = 0 =>
           Tracked /\ ThenKnown(reply.then, view, manifest.colls, life, home)
      /\ ~overlapped /\ OfCollections(reply.then) =>
           \A i \in DOMAIN queue : ~OfCollections(queue[i].then)
      /\ GoneFor => \A r \in gone : view.items[r] = 0
  BY ResumedDeletes DEF AddSaved
<1>2. /\ mirror' = [active |-> c, items |-> Nothing, headers |-> 0]
      /\ view' = [view EXCEPT !.colls = reply.then.colls, !.active = c] /\ view \in Views
      /\ queue' = Append(queue, m) /\ slips' = slips /\ queue \in Seq(Messages)
  BY <1>1 DEF AddSaved, Send, Shapes, WindowFits, MessagesFit
<1>3. /\ reply.then \in AfterSave /\ c \in Coll /\ reply.then.colls \in SUBSET Coll
      /\ Core(reply.then) = reply.then /\ OfCollections(reply.then)
  BY <1>1, ThenTypes, WhoHandles DEF Core, Handlers
<1>4. t \in AfterManifest /\ t.step = "addListed"
  BY <1>3, ThensMade
<1>5. m \in Messages /\ m.op = "manifest" /\ m.then = t
  BY <1>3, <1>4, MessagesMade DEF SaveManifest
<1> HIDE DEF m, t
<1>6. view'.colls = reply.then.colls /\ view'.shown = view.shown /\ view'.items = view.items
      /\ mirror'.items = Nothing
  BY <1>2 DEF Views
<1>7. Welcome(m, view', life')
  BY <1>4, <1>5 DEF Welcome, ThenAway, ThenKnown, Core
<1>8. \E i \in DOMAIN queue' : queue'[i].then.step = "addListed"
  <2>1. Len(queue) + 1 \in DOMAIN queue' /\ queue'[Len(queue) + 1] = m
    BY <1>2, <1>5, Appended
  <2> QED BY <2>1, <1>4, <1>5
<1>9. ~overlapped /\ failures = 0 =>
        /\ Known(view'.colls, manifest.colls, life', home)
        /\ view'.shown \in manifest.colls \cap view'.colls
  BY <1>1, <1>3, <1>6 DEF Tracked, ThenKnown
<1>10. GoneFor => \A r \in gone : view'.items[r] = 0 /\ mirror'.items[r] = 0
  BY <1>1, <1>6 DEF Nothing, DeletionsInv, GoneInv
<1> QED BY <1>1, <1>2, <1>3, <1>5, <1>7, <1>8, <1>9, <1>10, WindowAlone

LEMMA AddListedDeletes ==
  ASSUME DeletionsInv, SavesIInv', ListsInv', AddListed PROVE DeletionsInv'
<1> DEFINE c == reply.then.coll
<1>1. /\ up /\ up' = up /\ overlapped' = overlapped /\ reply' = NoReply
      /\ UNCHANGED <<manifest, dirs, cache, failures, gone, home>>
      /\ life' = life /\ Lives(life, life')
      /\ reply.then \in Thens /\ reply.then.step = "addListed" /\ Shapes
      /\ ~overlapped /\ failures = 0 => Tracked
      /\ ~overlapped /\ OfCollections(reply.then) =>
           /\ Phase(reply.then, view, mirror.active) /\ view.active \in view.colls
           /\ \A i \in DOMAIN queue : ~OfCollections(queue[i].then)
      /\ GoneFor => \A r \in gone : mirror.items[r] = 0
  BY ResumedDeletes DEF AddListed
<1>2. /\ mirror' = mirror /\ queue' = queue /\ slips' = slips
      /\ view' = [view EXCEPT !.items = Nothing, !.shown = c] /\ view \in Views
  BY <1>1 DEF AddListed, Shapes, WindowFits
<1>3. OfCollections(reply.then) /\ Core(reply.then) = reply.then
  BY <1>1, ThenTypes, WhoHandles DEF Core, Handlers
<1>4. view'.items = Nothing /\ view'.shown = c /\ view'.colls = view.colls
  BY <1>2 DEF Views
<1>5. ~overlapped /\ failures = 0 =>
        /\ Known(view'.colls, manifest.colls, life', home)
        /\ view'.shown \in manifest.colls \cap view'.colls
        /\ view'.colls \subseteq manifest.colls
  <2> SUFFICES ASSUME ~overlapped, failures = 0
               PROVE  /\ Known(view.colls, manifest.colls, life, home)
                      /\ c \in manifest.colls \cap view.colls
                      /\ view.colls \subseteq manifest.colls
    BY <1>1, <1>4
  <2>1. c \in manifest.colls
    BY <1>1 DEF Tracked
  <2>2. c \in view.colls
    BY <1>1, <1>3 DEF Phase
  <2> QED BY <1>1, <1>3, <2>1, <2>2, AllListed DEF Tracked
<1>6. GoneFor => \A r \in gone : view'.items[r] = 0 /\ mirror'.items[r] = 0
  BY <1>1, <1>2, <1>4 DEF Nothing, DeletionsInv, GoneInv
<1> QED BY <1>1, <1>2, <1>3, <1>5, <1>6, WindowAlone

LEMMA DeleteLoadedDeletes ==
  ASSUME DeletionsInv, SavesIInv', ListsInv', DeleteLoaded PROVE DeletionsInv'
<1> DEFINE c == reply.then.coll
           t == [reply.then EXCEPT !.step = "deleteShown"]
           m == LoadEnvironments(t)
<1>1. /\ up /\ up' = up /\ overlapped' = overlapped /\ reply' = NoReply
      /\ UNCHANGED <<manifest, dirs, cache, failures, gone, home>>
      /\ life' = life /\ Lives(life, life')
      /\ reply.then \in Thens /\ reply.then.step = "deleteLoaded" /\ Shapes
      /\ ~overlapped /\ failures = 0 =>
           Tracked /\ ThenKnown(reply.then, view, manifest.colls, life, home)
      /\ ~overlapped /\ OfCollections(reply.then) =>
           /\ Phase(reply.then, view, mirror.active)
           /\ \A i \in DOMAIN queue : ~OfCollections(queue[i].then)
      /\ GoneFor => \A r \in gone : reply.data.items[r] = 0
  BY ResumedDeletes DEF DeleteLoaded
<1>2. /\ mirror' = [active |-> c, items |-> Nothing, headers |-> 0]
      /\ view' = [view EXCEPT !.items = reply.data.items, !.shown = c] /\ view \in Views
      /\ queue' = Append(queue, m) /\ slips' = slips
  BY <1>1 DEF DeleteLoaded, Send, Shapes, WindowFits
<1>3. /\ reply.then \in AfterLoad /\ c \in Coll /\ reply.then.colls \in SUBSET Coll
      /\ Core(reply.then) = reply.then /\ OfCollections(reply.then)
  BY <1>1, ThenTypes, WhoHandles DEF Core, Handlers
<1>4. t \in AfterEnvironments /\ t.step = "deleteShown" /\ t.colls = reply.then.colls /\ t.coll = c
  BY <1>1, <1>3, ThensChanged
<1>5. m \in Messages /\ m.op = "environments" /\ m.then = t
  BY <1>4, MessagesMade DEF LoadEnvironments
<1> HIDE DEF m, t
<1>6. view'.colls = view.colls /\ view'.shown = c /\ view'.items = reply.data.items
      /\ mirror'.items = Nothing
  BY <1>2 DEF Views
<1>7. ~overlapped /\ failures = 0 =>
        /\ \A d \in reply.then.colls : life[d] # "unused"
        /\ reply.then.colls \subseteq manifest.colls \cap view.colls
        /\ c \in reply.then.colls
  BY <1>1, <1>3 DEF ThenKnown, Phase
<1>8. ~overlapped => Welcome(m, view', life')
  BY <1>1, <1>4, <1>5, <1>6, <1>7 DEF Welcome, ThenAway, ThenKnown, Core
<1>9. ~overlapped /\ failures = 0 =>
        /\ Known(view'.colls, manifest.colls, life', home)
        /\ view'.shown \in manifest.colls \cap view'.colls
        /\ view'.colls \subseteq manifest.colls
  BY <1>1, <1>3, <1>6, <1>7, AllListed DEF Tracked
<1>10. GoneFor => \A r \in gone : view'.items[r] = 0 /\ mirror'.items[r] = 0
  BY <1>1, <1>6 DEF Nothing, DeletionsInv, GoneInv
<1> QED BY <1>1, <1>2, <1>3, <1>5, <1>8, <1>9, <1>10, WindowAlone

LEMMA DeleteShownDeletes ==
  ASSUME DeletionsInv, SavesIInv', ListsInv', DeleteShown PROVE DeletionsInv'
<1> DEFINE c == reply.then.coll
           t == [step |-> "deleteListed", old |-> reply.then.old]
           m == SaveManifest(reply.then.colls, c, t)
<1>1. /\ up /\ up' = up /\ overlapped' = overlapped /\ reply' = NoReply
      /\ UNCHANGED <<manifest, dirs, cache, failures, gone, home>>
      /\ life' = life /\ Lives(life, life')
      /\ reply.then \in Thens /\ reply.then.step = "deleteShown" /\ Shapes
      /\ ~overlapped /\ failures = 0 =>
           Tracked /\ ThenKnown(reply.then, view, manifest.colls, life, home)
      /\ ~overlapped /\ OfCollections(reply.then) =>
           /\ Phase(reply.then, view, mirror.active)
           /\ \A i \in DOMAIN queue : ~OfCollections(queue[i].then)
      /\ GoneFor => \A r \in gone : view.items[r] = 0 /\ mirror.items[r] = 0
  BY ResumedDeletes DEF DeleteShown
<1>2. /\ view' = [view EXCEPT !.colls = reply.then.colls, !.active = c] /\ view \in Views
      /\ mirror' = mirror /\ queue' = Append(queue, m) /\ slips' = slips
  BY <1>1 DEF DeleteShown, Send, Shapes, WindowFits
<1>3. /\ c \in Coll /\ reply.then.colls \in SUBSET Coll /\ reply.then.old \in Coll
      /\ Core(reply.then) = reply.then /\ OfCollections(reply.then)
  BY <1>1, ThenTypes, WhoHandles DEF Core, Handlers
<1>4. t \in AfterManifest /\ t.step = "deleteListed"
  BY <1>3, ThensMade
<1>5. m \in Messages /\ m.op = "manifest" /\ m.then = t
  BY <1>3, <1>4, MessagesMade DEF SaveManifest
<1> HIDE DEF m, t
<1>6. view'.colls = reply.then.colls /\ view'.shown = view.shown /\ view'.items = view.items
  BY <1>2 DEF Views
<1>7. Welcome(m, view', life')
  BY <1>4, <1>5 DEF Welcome, ThenAway, ThenKnown, Core
<1>8. ~overlapped /\ failures = 0 =>
        /\ Known(view'.colls, manifest.colls, life', home)
        /\ view'.shown \in manifest.colls \cap view'.colls
        /\ view'.colls \subseteq manifest.colls
  BY <1>1, <1>3, <1>6 DEF Tracked, Known, ThenKnown, Phase
<1>9. GoneFor => \A r \in gone : view'.items[r] = 0 /\ mirror'.items[r] = 0
  BY <1>1, <1>2, <1>6
<1> QED BY <1>1, <1>2, <1>3, <1>5, <1>7, <1>8, <1>9, WindowAlone


-----------------------------------------------------------------------------
(* New and deleted requests *)

\* A request is added to a listed collection: where the others were made stays.
LEMMA NewRequest ==
  ASSUME NEW r \in Req, NEW x \in manifest.colls, home[r] = 0, home \in [Req -> Coll \cup {0}],
         home' = [home EXCEPT ![r] = x]
  PROVE  /\ \A q \in Req : home[q] # 0 => home'[q] = home[q]
         /\ \A q \in Req : home'[q] = home[q] \/ home'[q] = x
         /\ \A colls, l : Known(colls, manifest.colls, l, home) => Known(colls, manifest.colls, l, home')
         /\ \A t, l : ThenKnown(t, view, manifest.colls, l, home)
                        => ThenKnown(t, view, manifest.colls, l, home')
<1>1. \A q \in Req : home'[q] = IF q = r THEN x ELSE home[q]
  OBVIOUS
<1>2. \A colls, l : Known(colls, manifest.colls, l, home) => Known(colls, manifest.colls, l, home')
  BY <1>1 DEF Known
<1>3. \A t, l : ThenKnown(t, view, manifest.colls, l, home)
                  => ThenKnown(t, view, manifest.colls, l, home')
  BY <1>2 DEF ThenKnown
<1> QED BY <1>1, <1>2, <1>3

LEMMA AddRequestDeletes ==
  ASSUME DeletionsInv, SavesIInv', ListsInv', NEW r \in Req, AddRequest(r) PROVE DeletionsInv'
<1> DEFINE items == [view.items EXCEPT ![r] = 1]
           m == Save(mirror.active, items, mirror.headers, Ends)
<1>1. /\ up /\ up' = up /\ ~overlapped /\ reply = NoReply /\ reply' = NoReply /\ home[r] = 0
      /\ UNCHANGED <<manifest, dirs, cache, life, failures, gone>>
      /\ home' = [home EXCEPT ![r] = view.shown] /\ queue' = Append(queue, m)
      /\ SaveStructure(items)
  BY DEF AddRequest, Command, mainVars, Send
<1>2. /\ view.items \in Items /\ items \in Items /\ queue \in Seq(Messages)
      /\ home \in [Req -> Coll \cup {0}] /\ mirror.active \in Coll /\ mirror.headers \in Versions
      /\ manifest.colls \in SUBSET Coll
  BY <1>1, BoundFacts DEF DeletionsInv, SavesIInv, Shapes, WindowFits, MessagesFit, HistoryFits, StoresFit,
                          Views, Mirrors, Items
<1>3. m \in Messages /\ m.then = Ends /\ m.op = "save" /\ m.items = items
  BY <1>2, MessagesMade DEF Save
<1>4. \A q \in Req : q # r => items[q] = view.items[q]
  BY <1>2 DEF Items
<1> HIDE DEF items, m
<1>5. /\ view'.items = items /\ view'.active = view.active
      /\ view'.shown = view.shown /\ view'.colls = view.colls /\ mirror'.items = items
  BY <1>1, <1>2, Structure DEF DeletionsInv
<1>6. "unread" \in slips' => "unread" \in slips
  BY <1>1 DEF SaveStructure, Note
<1>7. gone \subseteq Req /\ failures \in Nat /\ r \notin gone /\ \A q \in gone : home[q] # 0
  BY <1>1 DEF DeletionsInv, GoneInv
<1>8. \A q \in gone : home'[q] = home[q]
  BY <1>1, <1>2, <1>7
<1>9. /\ DOMAIN queue' = DOMAIN queue \cup {Len(queue) + 1} /\ queue'[Len(queue) + 1] = m
      /\ \A i \in DOMAIN queue : queue'[i] = queue[i]
      /\ DOMAIN queue \subseteq DOMAIN queue'
  BY <1>1, <1>2, <1>3, Appended
<1>10. ~OfCollections(m.then) /\ m.then \in Thens
  BY <1>3, WhoHandles, StepsOf
<1>11. AwayInv'
  BY <1>1, <1>3, <1>5, <1>9, <1>10, QuietThen DEF DeletionsInv, AwayInv, Apart
<1>12. FaultlessInv'
  <2> SUFFICES ASSUME failures = 0
               PROVE  /\ "unread" \notin slips'
                      /\ Made' /\ Tracked' /\ Resolves' /\ ListedUntil(queue', home', manifest.colls)
    BY <1>1 DEF FaultlessInv
  <2>1. "unread" \notin slips' /\ Made /\ Tracked /\ Resolves /\ ListedUntil(queue, home, manifest.colls)
    BY <1>1, <1>6 DEF DeletionsInv, FaultlessInv
  <2>2. view.shown \in manifest.colls
    BY <2>1 DEF Tracked
  <2>3. /\ \A q \in Req : home[q] # 0 => home'[q] = home[q]
        /\ \A q \in Req : home'[q] = home[q] \/ home'[q] = view.shown
        /\ \A colls, l : Known(colls, manifest.colls, l, home) => Known(colls, manifest.colls, l, home')
        /\ \A t, l : ThenKnown(t, view, manifest.colls, l, home)
                       => ThenKnown(t, view, manifest.colls, l, home')
    BY <1>1, <1>2, <2>2, NewRequest
  <2>4. Made'
    BY <1>1, <2>1, <2>2, <2>3 DEF Made
  <2>5. Tracked'
    <3>1. \A t \in Thens : ThenKnown(t, view, manifest.colls, life, home')
                             => ThenKnown(t, view', manifest.colls, life', home')
      <4>1. Lives(life, life')
        BY <1>1 DEF Lives
      <4> QED BY <1>2, <1>5, <4>1, KnownStays
    <3>2. \A i \in DOMAIN queue : queue[i].then \in Thens
      BY <1>2, MessageTypes
    <3>3. \A i \in DOMAIN queue' : ThenKnown(queue'[i].then, view', manifest.colls, life', home')
      <4>1. \A i \in DOMAIN queue : ThenKnown(queue[i].then, view, manifest.colls, life, home)
        BY <2>1 DEF Tracked
      <4>2. \A i \in DOMAIN queue : ThenKnown(queue[i].then, view', manifest.colls, life', home')
        BY <2>3, <3>1, <3>2, <4>1
      <4>3. ThenKnown(m.then, view', manifest.colls, life', home')
        BY <1>10, QuietThen
      <4> QED BY <1>9, <4>2, <4>3
    <3>4. /\ ThenKnown(reply'.then, view', manifest.colls, life', home')
          /\ reply'.then.step \in {"switchListed", "addListed"} => reply'.then.coll \in manifest.colls
      BY <1>1, BoundFacts, QuietThen
    <3>5. Known(view.colls, manifest.colls, life', home')
      BY <1>1, <2>1, <2>3 DEF Tracked
    <3>6. view.colls \subseteq manifest.colls \/ \E i \in DOMAIN queue' : queue'[i].then.step = "addListed"
      BY <1>9, <2>1 DEF Tracked
    <3>7. view.shown \in manifest.colls \cap view.colls
      BY <2>1 DEF Tracked
    <3> QED BY <1>1, <1>5, <3>3, <3>4, <3>5, <3>6, <3>7 DEF Tracked
  <2>6. Resolves'
    BY <1>1, <2>1 DEF Resolves
  <2>7. ListedUntil(queue', home', manifest.colls)
    <3>1. \A i \in DOMAIN queue : queue[i].op = "delete" => home[queue[i].req] # 0 /\ queue[i].req \in Req
      BY <1>2, <2>1, BoundFacts, MessageTypes DEF ListedUntil
    <3>2. ListedUntil(queue, home', manifest.colls)
      BY <2>1, <2>3, <3>1 DEF ListedUntil
    <3> QED BY <1>1, <1>2, <1>3, <3>2, UntilAppend
  <2> QED BY <2>1, <2>4, <2>5, <2>6, <2>7
<1>13. GoneInv'
  <2> SUFFICES ASSUME ~overlapped', failures < 2, GoneFor PROVE GoneFor'
    BY <1>1, <1>7, <1>8 DEF GoneInv, DeletionsInv
  <2>1. \A q \in gone : LeavesWindow(q)'
    BY <1>1, <1>4, <1>5, <1>7 DEF GoneFor, LeavesWindow
  <2>2. \A q \in gone : Lacks(m, q)
    BY <1>3, <1>4, <1>7 DEF GoneFor, LeavesWindow, Lacks
  <2>3. \A q \in gone : LeavesDisk(q)'
    <3>1. \A q \in gone : Erased(q) => Erased(q)'
      BY <1>1, <1>8 DEF Erased
    <3> QED BY <1>1, <1>9, <2>2, <3>1 DEF GoneFor, LeavesDisk
  <2>4. \A i \in DOMAIN queue' : queue'[i].op = "delete" => i \in DOMAIN queue /\ queue'[i].req \in gone'
    BY <1>1, <1>3, <1>9 DEF GoneFor
  <2>5. RemovedBehind(queue', home')
    <3>1. \A i \in DOMAIN queue : queue[i].op = "delete" => queue[i].req \in gone
      BY DEF GoneFor
    <3>2. RemovedBehind(queue, home')
      BY <1>8, <3>1 DEF GoneFor, RemovedBehind
    <3> QED BY <1>1, <1>2, <1>3, <2>2, <3>1, <3>2, BehindAppend
  <2>6. RemovalIsNext'
    <3>1. queue' # <<>> => Head(queue') = queue'[1] /\ 1 \in DOMAIN queue'
      <4>1. queue' \in Seq(Messages)
        BY DEF SavesIInv, Shapes, MessagesFit
      <4> QED BY <4>1, HeadAndTail
    <3>2. 1 \in DOMAIN queue => queue # <<>> /\ Head(queue) = queue[1]
      BY <1>2
    <3>3. queue' # <<>> /\ Head(queue').op = "delete" =>
            queue # <<>> /\ Head(queue') = Head(queue) /\ Head(queue).op = "delete" /\ Head(queue).req \in gone
      BY <1>1, <1>9, <2>4, <3>1, <3>2
    <3>4. \A q \in gone : Removable(q) => Removable(q)'
      BY <1>1, <1>8 DEF Removable, Resolved, Scan, Scanned
    <3> QED BY <3>3, <3>4 DEF GoneFor, RemovalIsNext
  <2> QED BY <2>1, <2>3, <2>4, <2>5, <2>6, <1>1 DEF GoneFor
<1> QED BY <1>11, <1>12, <1>13 DEF DeletionsInv


\* A save without a request and then its removal join the queue.
LEMMA RemovalJoins ==
  ASSUME NEW q \in Seq(Messages), NEW h, NEW r \in Req, NEW s \in Messages,
         s.op = "save", s.coll = h[r], s.items[r] = 0, RemovedBehind(q, h),
         \A i \in DOMAIN q : q[i].op = "delete" => Lacks(s, q[i].req),
         \A i \in DOMAIN q : ~(q[i].op = "load" /\ q[i].coll = h[r])
  PROVE  RemovedBehind(Append(Append(q, s), DeleteFile(r)), h)
<1> DEFINE p == Append(q, s)
           d == DeleteFile(r)
           n == Append(p, d)
           k == Len(q) + 1
           l == Len(p) + 1
<1>1. d \in Messages /\ d.op = "delete" /\ d.req = r
  BY MessagesMade DEF DeleteFile
<1>2. /\ p \in Seq(Messages) /\ DOMAIN p = DOMAIN q \cup {k} /\ p[k] = s
      /\ \A i \in DOMAIN q : p[i] = q[i]
  BY Appended
<1>3. /\ DOMAIN n = DOMAIN p \cup {l} /\ l \notin DOMAIN p /\ n[l] = d
      /\ \A i \in DOMAIN p : n[i] = p[i]
  BY <1>1, <1>2, Appended
<1>4. l = k + 1 /\ l # 1 /\ k \in Nat /\ l \in Nat
  OBVIOUS
<1>5. \A i \in DOMAIN p : i # 1 => i - 1 \in DOMAIN p
  OBVIOUS
<1>6. \A i \in DOMAIN p : i < l
  OBVIOUS
<1>7. DOMAIN p \subseteq Nat
  OBVIOUS
<1>8. RemovedBehind(p, h)
  BY BehindAppend
<1> HIDE DEF d, p, n, k, l
<1> SUFFICES ASSUME NEW i \in DOMAIN n, n[i].op = "delete"
             PROVE  /\ \A j \in DOMAIN n : i < j => Lacks(n[j], n[i].req)
                    /\ \A j \in DOMAIN n : j < i => ~(n[j].op = "load" /\ n[j].coll = h[n[i].req])
                    /\ i # 1 => /\ n[i - 1].op = "save" /\ n[i - 1].coll = h[n[i].req]
                                /\ n[i - 1].items[n[i].req] = 0
  BY DEF RemovedBehind, n, p, d
<1>9. CASE i \in DOMAIN p
  <2>1. n[i] = p[i] /\ p[i].op = "delete"
    BY <1>3, <1>9
  <2>2. \A j \in DOMAIN n : i < j => Lacks(n[j], n[i].req)
    BY <1>1, <1>3, <1>8, <1>9, <2>1 DEF RemovedBehind, Lacks
  <2>3. \A j \in DOMAIN n : j < i => ~(n[j].op = "load" /\ n[j].coll = h[n[i].req])
    <3>1. ASSUME NEW j \in DOMAIN n, j < i PROVE j \in DOMAIN p
      <4>1. CASE j = l
        <5>1. i \in Nat /\ l \in Nat /\ i < l /\ l < i
          BY <1>4, <1>9, <1>6, <1>7, <3>1, <4>1
        <5> QED BY <5>1
      <4> QED BY <4>1, <1>3
    <3> QED BY <3>1, <1>3, <1>8, <1>9, <2>1 DEF RemovedBehind
  <2>4. i # 1 => /\ n[i - 1].op = "save" /\ n[i - 1].coll = h[n[i].req]
                 /\ n[i - 1].items[n[i].req] = 0
    BY <1>3, <1>4, <1>5, <1>8, <1>9, <2>1 DEF RemovedBehind
  <2> QED BY <2>2, <2>3, <2>4
<1>10. CASE i = l
  <2>1. n[i].req = r
    BY <1>1, <1>3, <1>10
  <2>2. \A j \in DOMAIN n : ~(i < j)
    <3> SUFFICES ASSUME NEW j \in DOMAIN n, i < j PROVE FALSE
      OBVIOUS
    <3>1. CASE j = l
      <4>1. l < l /\ l \in Nat
        BY <1>4, <1>10, <3>1
      <4> QED BY <4>1
    <3>2. CASE j \in DOMAIN p
      <4>1. j \in Nat /\ l \in Nat /\ j < l /\ l < j
        BY <1>4, <1>10, <1>6, <1>7, <3>2
      <4> QED BY <4>1
    <3> QED BY <3>1, <3>2, <1>3
  <2>3. \A j \in DOMAIN n : j < i => ~(n[j].op = "load" /\ n[j].coll = h[r])
    <3>1. ASSUME NEW j \in DOMAIN n, j < i PROVE j \in DOMAIN q \/ j = k
      BY <1>2, <1>3, <1>4, <1>5, <1>10, <3>1
    <3> QED BY <3>1, <1>2, <1>3
  <2>4. n[i - 1] = s
    <3>1. i - 1 = k /\ k \in DOMAIN p
      BY <1>2, <1>4, <1>10 DEF k
    <3> QED BY <3>1, <1>2, <1>3
  <2> QED BY <2>1, <2>2, <2>3, <2>4
<1> QED BY <1>3, <1>9, <1>10

LEMMA UntilJoins ==
  ASSUME NEW q \in Seq(Messages), NEW h, NEW r \in Req, NEW s \in Messages, NEW l,
         s.op = "save", ListedUntil(q, h, l), h[r] \in l,
         \A i \in DOMAIN q : q[i].op = "manifest" => h[r] \in q[i].colls
  PROVE  ListedUntil(Append(Append(q, s), DeleteFile(r)), h, l)
<1> DEFINE p == Append(q, s)
           d == DeleteFile(r)
           n == Append(p, d)
           k == Len(p) + 1
<1>1. d \in Messages /\ d.op = "delete" /\ d.req = r
  BY MessagesMade DEF DeleteFile
<1>2. /\ p \in Seq(Messages) /\ DOMAIN p = DOMAIN q \cup {Len(q) + 1} /\ p[Len(q) + 1] = s
      /\ \A i \in DOMAIN q : p[i] = q[i]
  BY Appended
<1>3. /\ DOMAIN n = DOMAIN p \cup {k} /\ n[k] = d /\ \A i \in DOMAIN p : n[i] = p[i] /\ i < k
      /\ DOMAIN n \subseteq Nat /\ k \in Nat
  BY <1>1, <1>2, Appended
<1>4. ListedUntil(p, h, l)
  BY UntilAppend
<1>5. \A i \in DOMAIN p : p[i].op = "manifest" => h[r] \in p[i].colls
  BY <1>2
<1> HIDE DEF d, p, n, k
<1> SUFFICES ASSUME NEW i \in DOMAIN n, n[i].op = "delete"
             PROVE  /\ h[n[i].req] \in l
                    /\ \A j \in DOMAIN n : j < i /\ n[j].op = "manifest" => h[n[i].req] \in n[j].colls
  BY DEF ListedUntil, n, p, d
<1>6. CASE i \in DOMAIN p
  <2>1. n[i] = p[i] /\ p[i].op = "delete"
    BY <1>3, <1>6
  <2>2. ASSUME NEW j \in DOMAIN n, j < i PROVE j \in DOMAIN p /\ n[j] = p[j]
    BY <1>3, <1>6, <2>2
  <2> QED BY <1>4, <1>6, <2>1, <2>2 DEF ListedUntil
<1>7. CASE i = k
  <2>1. ASSUME NEW j \in DOMAIN n, j < i PROVE j \in DOMAIN p /\ n[j] = p[j]
    BY <1>3, <1>7, <2>1
  <2> QED BY <1>1, <1>3, <1>5, <1>7, <2>1
<1> QED BY <1>3, <1>6, <1>7


\* With nothing overlapping no message of the queue reads the collection on screen.
LEMMA NoLoadOfShown ==
  ASSUME SavesIInv, up, ~overlapped, Apart
  PROVE  \A i \in DOMAIN queue : ~(queue[i].op = "load" /\ queue[i].coll = view.shown)
<1> SUFFICES ASSUME NEW i \in DOMAIN queue, queue[i].op = "load", queue[i].coll = view.shown
             PROVE  FALSE
  OBVIOUS
<1>1. queue[i] \in Messages
  BY DEF SavesIInv, Shapes, MessagesFit
<1> DEFINE t == queue[i].then
<1>2. t \in AfterLoad \cup Rewrites /\ t.coll = view.shown
  BY <1>1, MessageTypes
<1>3. ThenAway(t, view.shown)
  BY DEF Apart
<1> HIDE DEF t
<1>4. CASE t \in Rewrites
  <2>1. t.step = "rewrite"
    BY <1>4, StepsOf
  <2> QED BY <2>1, <1>2, <1>3 DEF ThenAway
<1>5. CASE t \in AfterLoad
  <2>1. t.step \in {"switchLoaded", "deleteLoaded", "headers"} /\ Core(t) = t
    BY <1>5, StepsOf DEF Core
  <2>2. t.step # "headers"
    <3>1. OfCollections(t)
      BY <1>5, WhoHandles DEF Handlers
    <3>2. Phase(t, view, mirror.active)
      BY <3>1 DEF SavesIInv, OneAtATime, OneHandler, t
    <3> QED BY <3>2, <2>1 DEF Phase
  <2> QED BY <2>1, <2>2, <1>2, <1>3 DEF ThenAway
<1> QED BY <1>2, <1>4, <1>5

\* What a queue of the window and two messages more holds.
LEMMA TwoJoin ==
  ASSUME NEW S, NEW q \in Seq(S), NEW m \in S, NEW d \in S,
         NEW n, n = Append(Append(q, m), d)
  PROVE  /\ n \in Seq(S)
         /\ DOMAIN q \subseteq DOMAIN n
         /\ \A i \in DOMAIN q : n[i] = q[i]
         /\ \A i \in DOMAIN n : i \in DOMAIN q \/ n[i] = m \/ n[i] = d
         /\ \E i \in DOMAIN n : n[i] = d
         /\ n # <<>> /\ Head(n) = IF q = <<>> THEN m ELSE Head(q)
<1> DEFINE p == Append(q, m)
<1>1. /\ p \in Seq(S) /\ DOMAIN p = DOMAIN q \cup {Len(q) + 1} /\ p[Len(q) + 1] = m
      /\ \A i \in DOMAIN q : p[i] = q[i]
  BY Appended
<1>2. p # <<>> /\ Head(p) = IF q = <<>> THEN m ELSE Head(q)
  OBVIOUS
<1>3. n = Append(p, d)
  OBVIOUS
<1> HIDE DEF p
<1>4. /\ n \in Seq(S) /\ DOMAIN n = DOMAIN p \cup {Len(p) + 1} /\ n[Len(p) + 1] = d
      /\ \A i \in DOMAIN p : n[i] = p[i]
  BY <1>1, <1>3, Appended
<1>5. n # <<>> /\ Head(n) = Head(p)
  BY <1>1, <1>2, <1>3
<1>6. /\ DOMAIN q \subseteq DOMAIN n
      /\ \A i \in DOMAIN q : n[i] = q[i]
      /\ \A i \in DOMAIN n : i \in DOMAIN q \/ n[i] = m \/ n[i] = d
      /\ \E i \in DOMAIN n : n[i] = d
  BY <1>1, <1>4
<1> QED BY <1>2, <1>4, <1>5, <1>6

LEMMA DeleteRequestDeletes ==
  ASSUME DeletionsInv, SavesIInv', ListsInv', NEW r \in Req, DeleteRequest(r) PROVE DeletionsInv'
<1> DEFINE items == [view.items EXCEPT ![r] = 0]
           m == Save(mirror.active, items, mirror.headers, Ends)
           d == DeleteFile(r)
<1>1. /\ up /\ up' = up /\ ~overlapped /\ reply = NoReply /\ reply' = NoReply
      /\ UNCHANGED <<manifest, dirs, cache, life, failures, home>>
      /\ view.items[r] > 0 /\ gone' = gone \cup {r}
      /\ queue' = queue \o <<m, d>>
      /\ SaveStructure(items)
  BY DEF DeleteRequest, Command, mainVars
<1>2. /\ view.items \in Items /\ items \in Items /\ queue \in Seq(Messages)
      /\ home \in [Req -> Coll \cup {0}] /\ mirror.active \in Coll /\ mirror.headers \in Versions
      /\ view.shown \in Coll /\ 0 \notin Coll
      /\ manifest.colls \in SUBSET Coll
  BY <1>1, BoundFacts DEF DeletionsInv, SavesIInv, Shapes, WindowFits, MessagesFit, HistoryFits, StoresFit,
                          Views, Mirrors, Items
<1>3. /\ m \in Messages /\ m.then = Ends /\ m.op = "save" /\ m.items = items /\ m.coll = mirror.active
      /\ d \in Messages /\ d.then = Ends /\ d.op = "delete" /\ d.req = r
  BY <1>2, MessagesMade DEF Save, DeleteFile
<1>4. items[r] = 0 /\ \A q \in Req : q # r => items[q] = view.items[q]
  BY <1>2 DEF Items
<1>5. d = DeleteFile(r)
  OBVIOUS
<1> HIDE DEF items, m, d
<1>6. queue' = Append(Append(queue, m), d)
  BY <1>1, <1>2, <1>3
<1>7. /\ view'.items = items /\ view'.active = view.active
      /\ view'.shown = view.shown /\ view'.colls = view.colls /\ mirror'.items = items
      /\ overlapped' \in BOOLEAN /\ (~overlapped' => view.shown = mirror.active)
  BY <1>1, <1>2, Structure DEF DeletionsInv
<1>8. "unread" \in slips' => "unread" \in slips
  BY <1>1 DEF SaveStructure, Note
<1>9. gone \subseteq Req /\ gone' \subseteq Req /\ failures \in Nat /\ (failures = 0 => "unread" \notin slips')
  <2>1. gone \subseteq Req /\ failures \in Nat /\ (failures = 0 => "unread" \notin slips)
    BY DEF DeletionsInv, GoneInv, FaultlessInv
  <2> QED BY <1>1, <1>8, <2>1
<1>10. CASE overlapped'
  <2>1. AwayInv' /\ GoneInv'
    BY <1>9, <1>10, <1>1 DEF AwayInv, GoneInv
  <2>2. FaultlessInv'
    BY <1>1, <1>9, <1>10 DEF FaultlessInv
  <2> QED BY <2>1, <2>2 DEF DeletionsInv
<1>11. CASE ~overlapped'
  <2>1. /\ \A i \in DOMAIN queue : queue'[i] = queue[i]
        /\ DOMAIN queue \subseteq DOMAIN queue'
        /\ \A i \in DOMAIN queue' : i \in DOMAIN queue \/ queue'[i] = m \/ queue'[i] = d
        /\ \E i \in DOMAIN queue' : queue'[i] = d
        /\ queue' # <<>> /\ Head(queue') = IF queue = <<>> THEN m ELSE Head(queue)
    <3>1. queue \in Seq(Messages) /\ m \in Messages /\ d \in Messages
      BY <1>2, <1>3
    <3> QED BY <3>1, <1>6, TwoJoin
  <2>2. ~OfCollections(m.then) /\ m.then \in Thens /\ d.then = m.then
    <3>1. ~OfCollections(Ends) /\ Ends \in Thens
      BY WhoHandles, StepsOf
    <3> QED BY <1>3, <3>1
  <2>3. Apart /\ Homely /\ home[r] = view.shown /\ mirror.active = view.shown
    <3>1. Apart /\ Homely /\ mirror.active = view.shown
      BY <1>1, <1>7, <1>11 DEF DeletionsInv, AwayInv, SavesIInv, HomesKept
    <3>2. HomelyItems(view.items, view.shown, home)
      BY <1>1, <3>1 DEF Homely
    <3> QED BY <1>1, <3>1, <3>2 DEF HomelyItems
  <2>4. \A i \in DOMAIN queue : ~(queue[i].op = "load" /\ queue[i].coll = home[r])
    BY <1>1, <2>3, NoLoadOfShown DEF DeletionsInv
  <2>5. Apart'
    BY <1>1, <1>7, <2>1, <2>2, <2>3, BoundFacts, QuietThen DEF Apart
  <2>6. ASSUME failures = 0
        PROVE  Made' /\ Tracked' /\ Resolves' /\ ListedUntil(queue', home, manifest.colls)
    <3>1. Made /\ Tracked /\ Resolves /\ ListedUntil(queue, home, manifest.colls)
      BY <1>1, <2>6 DEF DeletionsInv, FaultlessInv
    <3>2. Made' /\ Resolves'
      BY <1>1, <3>1 DEF Made, Resolves
    <3>3. Tracked'
      <4>1. \A t \in Thens : ThenKnown(t, view, manifest.colls, life, home)
                               => ThenKnown(t, view', manifest.colls, life', home)
        <5>1. Lives(life, life')
          BY <1>1 DEF Lives
        <5> QED BY <1>2, <1>7, <5>1, KnownStays
      <4>2. \A i \in DOMAIN queue : queue[i].then \in Thens
        BY <1>2, MessageTypes
      <4>3. \A i \in DOMAIN queue' : ThenKnown(queue'[i].then, view', manifest.colls, life', home)
        BY <2>1, <2>2, <3>1, <4>1, <4>2, QuietThen DEF Tracked
      <4>4. /\ ThenKnown(reply'.then, view', manifest.colls, life', home)
            /\ reply'.then.step \notin {"switchListed", "addListed"}
        BY <1>1, BoundFacts, QuietThen
      <4>5. view.colls \subseteq manifest.colls \/ \E i \in DOMAIN queue' : queue'[i].then.step = "addListed"
        BY <2>1, <3>1 DEF Tracked
      <4> QED BY <1>1, <1>7, <3>1, <4>3, <4>4, <4>5 DEF Tracked
    <3>4. ListedUntil(queue', home, manifest.colls)
      <4>1. view.shown \in manifest.colls /\ view.shown \in view.colls
        BY <3>1 DEF Tracked
      <4>2. \A i \in DOMAIN queue : queue[i].op = "manifest" => queue[i].colls = view.colls
        <5>1. ListsHold
          BY <1>1, <1>9, <1>8, <2>6 DEF DeletionsInv, ListsInv, FaultlessInv
        <5> QED BY <1>1, <5>1 DEF ListsHold, MessageLists
      <4> QED BY <1>2, <1>3, <1>6, <1>5, <2>3, <3>1, <4>1, <4>2, UntilJoins
    <3> QED BY <3>2, <3>3, <3>4
  <2>7. ASSUME failures < 2, GoneFor PROVE GoneFor'
    <3>1. \A q \in gone : view.items[q] = 0 /\ mirror.items[q] = 0 /\ items[q] = 0
      BY <2>7, <1>4, <1>9 DEF GoneFor, LeavesWindow
    <3>2. \A q \in gone' : LeavesWindow(q)'
      <4>1. NoReply.data.items = Nothing
        BY DEF NoReply, Empty
      <4> QED BY <1>1, <1>4, <1>7, <1>9, <3>1, <4>1 DEF LeavesWindow, Nothing
    <3>3. \A q \in gone' : Lacks(m, q) /\ Lacks(d, q)
      BY <1>1, <1>3, <1>4, <3>1 DEF Lacks
    <3>4. \A q \in gone' : LeavesDisk(q)'
      <4>1. LeavesDisk(r)'
        BY <1>3, <2>1 DEF LeavesDisk
      <4>2. ASSUME NEW q \in gone PROVE LeavesDisk(q)'
        <5>1. CASE Erased(q) /\ \A j \in DOMAIN queue : Lacks(queue[j], q)
          <6>1. Erased(q)'
            BY <1>1, <5>1 DEF Erased
          <6>2. \A j \in DOMAIN queue' : Lacks(queue'[j], q)
            BY <1>1, <2>1, <3>3, <5>1, <4>2
          <6> QED BY <6>1, <6>2 DEF LeavesDisk
        <5>2. CASE \E i \in DOMAIN queue : queue[i].op = "delete" /\ queue[i].req = q
          BY <5>2, <2>1 DEF LeavesDisk
        <5> QED BY <5>1, <5>2, <4>2, <2>7 DEF GoneFor, LeavesDisk
      <4> QED BY <1>1, <4>1, <4>2
    <3>5. \A i \in DOMAIN queue : queue[i].op = "delete" => queue[i].req \in gone
      BY <2>7 DEF GoneFor
    <3>6. \A i \in DOMAIN queue' : queue'[i].op = "delete" => queue'[i].req \in gone'
      BY <1>1, <1>3, <2>1, <3>5
    <3>7. RemovedBehind(queue', home)
      <4>1. \A i \in DOMAIN queue : queue[i].op = "delete" => Lacks(m, queue[i].req)
        BY <1>1, <3>3, <3>5
      <4> QED BY <1>2, <1>3, <1>4, <1>6, <1>5, <2>3, <2>4, <2>7, <4>1, RemovalJoins DEF GoneFor
    <3>8. RemovalIsNext'
      <4>1. Head(queue').op = "delete" => queue # <<>> /\ Head(queue') = Head(queue)
        BY <1>3, <2>1
      <4>2. Resolved' = Resolved
        BY <1>1 DEF Resolved, Scan, Scanned
      <4>3. \A q : Removable(q) => Removable(q)'
        BY <1>1, <4>2 DEF Removable
      <4> QED BY <2>7, <4>1, <4>3 DEF GoneFor, RemovalIsNext
    <3> QED BY <1>1, <3>2, <3>4, <3>6, <3>7, <3>8 DEF GoneFor
  <2>8. AwayInv'
    BY <2>5 DEF AwayInv
  <2>9. FaultlessInv'
    BY <1>1, <1>9, <2>6 DEF FaultlessInv
  <2>10. GoneInv'
    <3>1. \A q \in gone' : home'[q] # 0
      BY <1>1, <1>2, <2>3 DEF DeletionsInv, GoneInv
    <3>2. failures < 2 => GoneFor
      BY <1>1 DEF DeletionsInv, GoneInv
    <3> QED BY <1>1, <1>9, <2>7, <3>1, <3>2 DEF GoneInv
  <2> QED BY <2>8, <2>9, <2>10 DEF DeletionsInv
<1> QED BY <1>7, <1>10, <1>11


-----------------------------------------------------------------------------
(* The main process *)

\* The first message leaves the queue: the removals in it are as safe as before.
LEMMA BehindTail ==
  ASSUME NEW q \in Seq(Messages), q # <<>>, NEW h, RemovedBehind(q, h)
  PROVE  RemovedBehind(Tail(q), h)
<1> DEFINE n == Tail(q)
<1>1. \A i \in DOMAIN n : i \in Nat /\ i + 1 \in DOMAIN q /\ n[i] = q[i + 1] /\ i + 1 # 1 /\ (i + 1) - 1 = i
  OBVIOUS
<1>2. \A i \in DOMAIN n : i # 1 => i - 1 \in DOMAIN n /\ n[i - 1] = q[i]
  OBVIOUS
<1> HIDE DEF n
<1> SUFFICES ASSUME NEW i \in DOMAIN n, n[i].op = "delete"
             PROVE  /\ \A j \in DOMAIN n : i < j => Lacks(n[j], n[i].req)
                    /\ \A j \in DOMAIN n : j < i => ~(n[j].op = "load" /\ n[j].coll = h[n[i].req])
                    /\ i # 1 => /\ n[i - 1].op = "save" /\ n[i - 1].coll = h[n[i].req]
                                /\ n[i - 1].items[n[i].req] = 0
  BY DEF RemovedBehind, n
<1> DEFINE k == i + 1
<1>3. k \in DOMAIN q /\ n[i] = q[k] /\ q[k].op = "delete" /\ k # 1 /\ k - 1 = i /\ i \in Nat
  BY <1>1
<1>4. \A j \in DOMAIN n : (i < j => k < j + 1) /\ (j < i => j + 1 < k)
  BY <1>1
<1> HIDE DEF k
<1>5. \A j \in DOMAIN n : i < j => Lacks(n[j], n[i].req)
  BY <1>1, <1>3, <1>4 DEF RemovedBehind
<1>6. \A j \in DOMAIN n : j < i => ~(n[j].op = "load" /\ n[j].coll = h[n[i].req])
  BY <1>1, <1>3, <1>4 DEF RemovedBehind
<1>7. q[i].op = "save" /\ q[i].coll = h[n[i].req] /\ q[i].items[n[i].req] = 0
  BY <1>3 DEF RemovedBehind
<1> QED BY <1>2, <1>5, <1>6, <1>7

LEMMA UntilTail ==
  ASSUME NEW q \in Seq(Messages), q # <<>>, NEW h, NEW l, ListedUntil(q, h, l)
  PROVE  /\ ListedUntil(Tail(q), h, l)
         /\ Head(q).op = "manifest" => ListedUntil(Tail(q), h, Head(q).colls)
<1> DEFINE n == Tail(q)
<1>1. \A i \in DOMAIN n : i \in Nat /\ i + 1 \in DOMAIN q /\ n[i] = q[i + 1] /\ 1 < i + 1
  OBVIOUS
<1>2. Head(q) = q[1] /\ 1 \in DOMAIN q
  OBVIOUS
<1> HIDE DEF n
<1>3. ASSUME NEW i \in DOMAIN n, n[i].op = "delete"
      PROVE  /\ h[n[i].req] \in l
             /\ \A j \in DOMAIN n : j < i /\ n[j].op = "manifest" => h[n[i].req] \in n[j].colls
             /\ Head(q).op = "manifest" => h[n[i].req] \in Head(q).colls
  <2> DEFINE k == i + 1
  <2>1. k \in DOMAIN q /\ n[i] = q[k] /\ q[k].op = "delete" /\ 1 < k
    BY <1>1, <1>3
  <2>2. \A j \in DOMAIN n : j < i => j + 1 < k
    BY <1>1
  <2> HIDE DEF k
  <2> QED BY <1>1, <1>2, <2>1, <2>2 DEF ListedUntil
<1> QED BY <1>3 DEF ListedUntil, n

\* What every service does to the messages and the answer.
LEMMA ServedFacts ==
  ASSUME DeletionsInv, NEW op \in {"save", "load", "manifest", "update", "delete", "remove",
                                   "environments"},
         Serve(op), NEW data \in Contents, Answer(data)
  PROVE  /\ up /\ up' = up /\ overlapped' = overlapped /\ home' = home /\ gone' = gone
         /\ UNCHANGED <<view, mirror>>
         /\ Head(queue) \in Messages /\ Head(queue).op = op /\ Head(queue) = queue[1] /\ 1 \in DOMAIN queue
         /\ queue \in Seq(Messages) /\ queue # <<>> /\ queue' = Tail(queue)
         /\ \A i \in DOMAIN queue' : i + 1 \in DOMAIN queue /\ queue'[i] = queue[i + 1] /\ i + 1 # 1
         /\ \A i \in DOMAIN queue : i # 1 => i - 1 \in DOMAIN queue' /\ queue'[i - 1] = queue[i]
         /\ reply'.then = Head(queue).then
         /\ reply' = NoReply \/ reply'.data = data
<1>1. /\ queue \in Seq(Messages) /\ queue # <<>> /\ queue' = Tail(queue) /\ gone' = gone
      /\ UNCHANGED <<view, mirror>>
  BY DEF Serve, rendererVars, DeletionsInv, SavesIInv, Shapes, MessagesFit
<1>2. /\ up /\ up' = up /\ overlapped' = overlapped /\ home' = home
      /\ Head(queue) \in Messages /\ Head(queue).op = op /\ Head(queue) = queue[1] /\ 1 \in DOMAIN queue
      /\ reply'.then = Head(queue).then
      /\ reply' = NoReply \/ reply'.data = data
  BY Served DEF DeletionsInv
<1>3. \A i \in DOMAIN queue' : i + 1 \in DOMAIN queue /\ queue'[i] = queue[i + 1] /\ i + 1 # 1
  BY <1>1, HeadAndTail
<1>4. \A i \in DOMAIN queue : i # 1 => i - 1 \in DOMAIN queue' /\ queue'[i - 1] = queue[i]
  BY <1>1
<1> QED BY <1>1, <1>2, <1>3, <1>4

LEMMA ServedAway ==
  ASSUME DeletionsInv, NEW op \in {"save", "load", "manifest", "update", "delete", "remove",
                                   "environments"},
         Serve(op), NEW data \in Contents, Answer(data)
  PROVE  AwayInv'
<1>1. /\ up /\ overlapped' = overlapped /\ view' = view
      /\ Head(queue) = queue[1] /\ 1 \in DOMAIN queue /\ reply'.then = Head(queue).then
      /\ \A i \in DOMAIN queue' : i + 1 \in DOMAIN queue /\ queue'[i] = queue[i + 1]
  BY ServedFacts
<1> QED BY <1>1 DEF AwayInv, Apart, DeletionsInv

\* A service other than that of the manifest loses sight of nothing.
LEMMA ServedFaultless ==
  ASSUME DeletionsInv, NEW op \in {"save", "load", "update", "delete", "remove", "environments"},
         Serve(op), NEW data \in Contents, Answer(data), UNCHANGED <<manifest, life>>,
         failures' = 0 => failures = 0 /\ slips' = slips,
         failures' = 0 /\ ~overlapped /\ Resolves => Resolves'
  PROVE  FaultlessInv'
<1> DEFINE m == Head(queue)
<1>1. /\ up /\ overlapped' = overlapped /\ view' = view /\ home' = home
      /\ m \in Messages /\ m.op = op /\ m = queue[1] /\ 1 \in DOMAIN queue /\ reply'.then = m.then
      /\ queue \in Seq(Messages) /\ queue # <<>> /\ queue' = Tail(queue)
      /\ \A i \in DOMAIN queue' : i + 1 \in DOMAIN queue /\ queue'[i] = queue[i + 1]
      /\ \A i \in DOMAIN queue : i # 1 => i - 1 \in DOMAIN queue' /\ queue'[i - 1] = queue[i]
  BY ServedFacts
<1> HIDE DEF m
<1> SUFFICES ASSUME failures' = 0
             PROVE  /\ "unread" \notin slips'
                    /\ ~overlapped => /\ Made' /\ Tracked' /\ Resolves'
                                      /\ ListedUntil(queue', home', manifest'.colls)
  BY <1>1 DEF FaultlessInv
<1>2. "unread" \notin slips'
  BY DEF DeletionsInv, FaultlessInv
<1> SUFFICES ASSUME ~overlapped
             PROVE  /\ Made' /\ Tracked' /\ Resolves'
                    /\ ListedUntil(queue', home', manifest'.colls)
  BY <1>2
<1>3. Made /\ Tracked /\ Resolves /\ ListedUntil(queue, home, manifest.colls)
  BY <1>1 DEF DeletionsInv, FaultlessInv
<1>4. Made' /\ Resolves'
  BY <1>1, <1>3 DEF Made
<1>5. ListedUntil(queue', home', manifest'.colls)
  BY <1>1, <1>3, UntilTail
<1>6. Tracked'
  <2>1. m.then.step \notin {"switchListed", "addListed"}
    <3>1. m.then \in Thens
      BY <1>1, MessageTypes
    <3>2. m.then.step \in {"switchListed", "addListed"} => m.then \in AfterManifest
      BY <3>1, ThenTypes
    <3>3. m.then \notin AfterManifest
      BY <1>1, MessageTypes, WhoHandles, StepsOf
    <3> QED BY <3>2, <3>3
  <2>2. \A i \in DOMAIN queue' : ThenKnown(queue'[i].then, view', manifest'.colls, life', home')
    BY <1>1, <1>3 DEF Tracked
  <2>3. ThenKnown(reply'.then, view', manifest'.colls, life', home')
    BY <1>1, <1>3 DEF Tracked
  <2>4. view.colls \subseteq manifest.colls \/ \E i \in DOMAIN queue' : queue'[i].then.step = "addListed"
    <3>1. ASSUME NEW i \in DOMAIN queue, queue[i].then.step = "addListed"
          PROVE  \E j \in DOMAIN queue' : queue'[j].then.step = "addListed"
      <4>1. i # 1
        BY <1>1, <2>1, <3>1
      <4> QED BY <1>1, <3>1, <4>1
    <3> QED BY <1>3, <3>1 DEF Tracked
  <2> QED BY <1>1, <1>3, <2>1, <2>2, <2>3, <2>4 DEF Tracked
<1> QED BY <1>4, <1>5, <1>6

\* What is gone stays gone when a service restores nothing of it, carries out its removal,
\* and answers without it.
Restores(r) == Erased(r) /\ ~(Erased(r)')
LEMMA ServedGone ==
  ASSUME DeletionsInv, NEW op \in {"save", "load", "manifest", "update", "delete", "remove",
                                   "environments"},
         Serve(op), NEW data \in Contents, Answer(data),
         failures' \in Nat, failures' < 2 => failures < 2,
         ~overlapped /\ failures' < 2 /\ GoneFor =>
           /\ \A r \in gone : data.items[r] = 0
           /\ \A r \in gone : Lacks(Head(queue), r) => ~Restores(r)
           /\ \A r \in gone : op = "delete" /\ Head(queue).req = r => Erased(r)'
           /\ \A r \in gone : op = "save" /\ Head(queue).coll = home[r] /\ Head(queue).items[r] = 0
                 /\ 2 \in DOMAIN queue /\ queue[2].op = "delete" /\ queue[2].req = r => Removable(r)'
  PROVE  GoneInv'
<1> DEFINE m == Head(queue)
<1>1. /\ up /\ overlapped' = overlapped /\ UNCHANGED <<view, mirror>> /\ home' = home /\ gone' = gone
      /\ m \in Messages /\ m.op = op /\ m = queue[1] /\ 1 \in DOMAIN queue /\ reply'.then = m.then
      /\ reply' = NoReply \/ reply'.data = data
      /\ queue \in Seq(Messages) /\ queue # <<>> /\ queue' = Tail(queue)
      /\ \A i \in DOMAIN queue' : i + 1 \in DOMAIN queue /\ queue'[i] = queue[i + 1]
      /\ \A i \in DOMAIN queue : i # 1 => i - 1 \in DOMAIN queue' /\ queue'[i - 1] = queue[i]
  BY ServedFacts
<1>2. gone \subseteq Req /\ (~overlapped => \A r \in gone : home[r] # 0)
  BY DEF DeletionsInv, GoneInv
<1> HIDE DEF m
<1> SUFFICES ASSUME ~overlapped, failures' < 2 PROVE GoneFor'
  BY <1>1, <1>2 DEF GoneInv
<1>3. GoneFor
  BY <1>1 DEF DeletionsInv, GoneInv
<1>4. \A r \in gone : LeavesWindow(r)'
  <2>1. NoReply.data.items = Nothing
    BY DEF NoReply, Empty
  <2>2. \A r \in gone : reply'.data.items[r] = 0
    BY <1>1, <1>2, <1>3, <2>1 DEF Nothing
  <2> QED BY <1>1, <1>3, <2>2 DEF GoneFor, LeavesWindow
<1>5. \A r \in gone : LeavesDisk(r)'
  <2> SUFFICES ASSUME NEW r \in gone PROVE LeavesDisk(r)'
    OBVIOUS
  <2>1. CASE Erased(r) /\ \A j \in DOMAIN queue : Lacks(queue[j], r)
    <3>1. Erased(r)'
      BY <1>1, <1>3, <2>1 DEF Restores, m
    <3>2. \A j \in DOMAIN queue' : Lacks(queue'[j], r)
      BY <1>1, <2>1
    <3> QED BY <3>1, <3>2 DEF LeavesDisk
  <2>2. ASSUME NEW i \in DOMAIN queue, queue[i].op = "delete", queue[i].req = r
        PROVE  LeavesDisk(r)'
    <3>1. CASE i = 1
      <4>1. Erased(r)'
        <5>1. op = "delete" /\ Head(queue).req = r
          BY <1>1, <2>2, <3>1 DEF m
        <5> QED BY <1>3, <5>1 DEF Erased
      <4>2. \A j \in DOMAIN queue : 1 < j => Lacks(queue[j], r)
        BY <1>3, <2>2, <3>1 DEF GoneFor, RemovedBehind
      <4>3. \A j \in DOMAIN queue' : 1 < j + 1
        BY <1>1
      <4>4. \A j \in DOMAIN queue' : Lacks(queue'[j], r)
        BY <1>1, <4>2, <4>3
      <4> QED BY <4>1, <4>4 DEF LeavesDisk
    <3>2. CASE i # 1
      <4>1. i - 1 \in DOMAIN queue' /\ queue'[i - 1] = queue[i]
        BY <1>1, <3>2
      <4>2. \E j \in DOMAIN queue' : queue'[j].op = "delete" /\ queue'[j].req = r
        BY <2>2, <4>1
      <4> QED BY <4>2 DEF LeavesDisk
    <3> QED BY <3>1, <3>2
  <2> QED BY <1>3, <2>1, <2>2 DEF GoneFor, LeavesDisk
<1>6. \A i \in DOMAIN queue' : queue'[i].op = "delete" => queue'[i].req \in gone'
  BY <1>1, <1>3 DEF GoneFor
<1>7. RemovedBehind(queue', home')
  BY <1>1, <1>3, BehindTail DEF GoneFor
<1>8. RemovalIsNext'
  <2>1. ASSUME NEW r \in gone, 2 \in DOMAIN queue, queue[2].op = "delete", queue[2].req = r
        PROVE  Removable(r)'
    <3>1. m.op = "save" /\ m.coll = home[r] /\ m.items[r] = 0
      <4>1. 2 - 1 = 1 /\ 2 # 1
        OBVIOUS
      <4> QED BY <1>1, <1>3, <2>1, <4>1 DEF GoneFor, RemovedBehind
    <3> QED BY <1>1, <1>3, <2>1, <3>1 DEF m
  <2>2. queue' # <<>> => 2 \in DOMAIN queue /\ Head(queue') = queue[2]
    BY <1>1
  <2>3. queue' # <<>> /\ Head(queue').op = "delete" =>
          /\ 2 \in DOMAIN queue /\ queue[2].op = "delete" /\ queue[2].req \in gone
          /\ Head(queue').req = queue[2].req
    BY <1>3, <2>2 DEF GoneFor
  <2>4. ASSUME NEW r \in gone, queue' # <<>>, Head(queue').op = "delete", Head(queue').req = r
        PROVE  Removable(r)'
    BY <2>1, <2>3, <2>4
  <2> SUFFICES ASSUME queue' # <<>>, Head(queue').op = "delete" PROVE Removable(Head(queue).req)'
    BY DEF RemovalIsNext
  <2>5. Head(queue').req \in gone
    BY <2>3
  <2>6. PICK r \in gone : Head(queue').req = r
    BY <2>5
  <2>7. Removable(r)'
    BY <2>4, <2>6
  <2> QED BY <2>6, <2>7 DEF Removable
<1> QED BY <1>1, <1>4, <1>5, <1>6, <1>7, <1>8 DEF GoneFor


\* A request with one owner is found there.
LEMMA OnlyOwner ==
  ASSUME NEW P, NEW c \in Nat, P = {c}
  PROVE  P # {} /\ Min(P) = c
<1>1. P \subseteq Nat /\ P # {}
  OBVIOUS
<1>2. Min(P) \in P
  BY <1>1, LeastIsMember
<1> QED BY <1>1, <1>2

\* The resolver knows where a request of a listed collection is.
LEMMA ResolvedKnows ==
  ASSUME StoresFit, Homely, Resolves, NEW c \in manifest.colls, NEW r \in Req, dirs[c].files[r] > 0
  PROVE  Resolved[r] = c
<1>1. CASE cache # NoCache
  BY <1>1 DEF Resolves, Resolved
<1>2. CASE cache = NoCache
  <2> DEFINE owners == {x \in Scanned : dirs[x].files[r] > 0}
  <2>1. /\ Scanned = manifest.colls /\ manifest.colls \subseteq Coll /\ Coll \subseteq Nat
    BY BoundFacts DEF Scanned, StoresFit
  <2>2. \A x \in Coll : dirs[x].files[r] > 0 => home[r] = x
    BY DEF Homely, HomelyDir
  <2>3. owners = {c} /\ c \in Nat
    BY <2>1, <2>2
  <2> HIDE DEF owners
  <2>4. owners # {} /\ Min(owners) = c
    BY <2>3, OnlyOwner
  <2>5. Scan[r] = IF owners = {} THEN 0 ELSE Min(owners)
    BY DEF Scan, owners
  <2> QED BY <1>2, <2>4, <2>5 DEF Resolved
<1> QED BY <1>1, <1>2

LEMMA ServeLoadDeletes == ASSUME DeletionsInv, SavesIInv', ListsInv', ServeLoad PROVE DeletionsInv'
<1> DEFINE m == Head(queue)
<1>1. /\ Serve("load") /\ UNCHANGED <<manifest, dirs, cache, life>>
      /\ \/ failures' = failures /\ slips' = slips
         \/ failures' = failures + 1
  BY DEF ServeLoad, mainVars, Works, Fails
<1>2. PICK data \in {Content(m.coll), Empty} : Answer(data)
  BY DEF ServeLoad
<1>3. queue \in Seq(Messages) /\ queue # <<>> /\ m.op = "load" /\ m \in Messages /\ m = queue[1]
      /\ 1 \in DOMAIN queue
  <2>1. queue \in Seq(Messages) /\ queue # <<>> /\ m.op = "load"
    BY <1>1 DEF Serve, DeletionsInv, SavesIInv, Shapes, MessagesFit
  <2> QED BY <2>1, HeadAndTail
<1>4. m.coll \in Coll
  BY <1>3, MessageTypes
<1> HIDE DEF m
<1>5. StoresFit /\ failures \in Nat /\ gone \subseteq Req
  BY DEF DeletionsInv, SavesIInv, Shapes, GoneInv
<1>6. data \in Contents
  BY <1>2, <1>4, <1>5, ContentFits, BoundFacts
<1>7. AwayInv'
  BY <1>1, <1>2, <1>6, ServedAway DEF m
<1>8. FaultlessInv'
  <2>1. failures' = 0 => failures = 0 /\ slips' = slips
    BY <1>1, <1>5
  <2>2. Resolves => Resolves'
    BY <1>1 DEF Resolves
  <2> QED BY <1>1, <1>2, <1>6, <2>1, <2>2, ServedFaultless
<1>9. GoneInv'
  <2>1. failures' \in Nat /\ (failures' < 2 => failures < 2)
    BY <1>1, <1>5
  <2>2. home' = home
    BY <1>1 DEF Serve
  <2>3. ASSUME ~overlapped, GoneFor, NEW r \in gone PROVE data.items[r] = 0
    <3>1. CASE data = Empty
      BY <1>5, <3>1 DEF Empty, Nothing
    <3>2. CASE data = Content(m.coll)
      <4>1. Homely
        BY <2>3 DEF DeletionsInv, SavesIInv, HomesKept
      <4>2. r \in dirs[m.coll].tree /\ dirs[m.coll].files[r] > 0 => home[r] = m.coll
        BY <1>4, <1>5, <4>1 DEF Homely, HomelyDir
      <4>3. ~(home[r] = m.coll /\ ~Erased(r))
        <5>1. \A i \in DOMAIN queue : queue[i].op = "delete" /\ queue[i].req = r => home[r] # m.coll
          <6> SUFFICES ASSUME NEW i \in DOMAIN queue, queue[i].op = "delete", queue[i].req = r
                       PROVE  home[r] # m.coll
            OBVIOUS
          <6>1. i # 1 /\ i \in Nat
            BY <1>3
          <6>2. 1 < i
            BY <1>3, <6>1
          <6> QED BY <1>3, <2>3, <6>2 DEF GoneFor, RemovedBehind
        <5> QED BY <2>3, <5>1 DEF GoneFor, LeavesDisk
      <4>4. dirs[m.coll].files[r] \in Nat
        <5>1. dirs[m.coll] \in Directories /\ r \in Req
          BY <1>4, <1>5, <2>3 DEF StoresFit
        <5>2. dirs[m.coll].files[r] \in Versions
          BY <5>1 DEF Directories
        <5> QED BY <5>2, BoundFacts
      <4>5. ~(r \in dirs[m.coll].tree /\ dirs[m.coll].files[r] > 0)
        BY <4>2, <4>3 DEF Erased
      <4>6. data.items[r] = IF r \in dirs[m.coll].tree THEN dirs[m.coll].files[r] ELSE 0
        BY <1>5, <2>3, <3>2 DEF Content
      <4>7. dirs[m.coll].files[r] = 0 \/ dirs[m.coll].files[r] > 0
        BY <4>4
      <4> QED BY <4>5, <4>6, <4>7
    <3> QED BY <3>1, <3>2
  <2>4. \A r : ~Restores(r)
    BY <1>1, <2>2 DEF Restores, Erased
  <2> QED BY <1>1, <1>2, <1>6, <2>1, <2>3, <2>4, ServedGone
<1> QED BY <1>7, <1>8, <1>9 DEF DeletionsInv

\* What a save without a request does to it: its place in the tree may only go.
LEMMA SavedWithout ==
  ASSUME NEW d \in Directories, NEW items \in Items, NEW h \in Versions, NEW r \in Req, items[r] = 0
  PROVE  /\ r \notin Saved(d, items, h, In(items)).tree
         /\ \A e \in CutShort(d, items, h) : /\ e.files[r] = d.files[r]
                                             /\ r \in e.tree => r \in d.tree
<1>1. ASSUME NEW files PROVE LET s == Saved(d, items, h, files) IN
                             s.tree = In(items) /\ s.files[r] = IF r \in files THEN items[r] ELSE d.files[r]
  <2> DEFINE hd == Headed(d, h)
             f == [q \in Req |-> IF q \in files THEN items[q] ELSE hd.files[q]]
  <2>1. hd \in Directories /\ hd.files = d.files
    BY DEF Headed, Directories
  <2>2. Saved(d, items, h, files) = [hd EXCEPT !.tree = In(items), !.files = f]
    BY DEF Saved
  <2>3. f[r] = IF r \in files THEN items[r] ELSE d.files[r]
    BY <2>1
  <2> HIDE DEF hd, f
  <2> QED BY <2>1, <2>2, <2>3 DEF Directories
<1>2. r \notin In(items)
  BY DEF In
<1>3. ASSUME NEW e \in CutShort(d, items, h)
      PROVE  e.files[r] = d.files[r] /\ (r \in e.tree => r \in d.tree)
  <2>1. CASE e = d
    BY <2>1
  <2>2. CASE e = Headed(d, h)
    BY <2>2 DEF Headed, Directories
  <2>3. CASE \E files \in SUBSET In(items) : e = Saved(d, items, h, files)
    BY <1>1, <1>2, <2>3
  <2> QED BY <1>3, <2>1, <2>2, <2>3 DEF CutShort
<1> QED BY <1>1, <1>2, <1>3


LEMMA ServeSaveDeletes == ASSUME DeletionsInv, SavesIInv', ListsInv', ServeSave PROVE DeletionsInv'
<1> DEFINE m == Head(queue)
           d == dirs[m.coll]
<1>1. /\ Serve("save") /\ Answer(Empty) /\ UNCHANGED <<manifest, life>> /\ Empty \in Contents
      /\ home' = home
  BY BoundFacts DEF ServeSave, Serve
<1>2. queue \in Seq(Messages) /\ m.op = "save" /\ m \in Messages /\ m = queue[1] /\ 1 \in DOMAIN queue
  <2>1. queue \in Seq(Messages) /\ queue # <<>> /\ m.op = "save"
    BY <1>1 DEF Serve, DeletionsInv, SavesIInv, Shapes, MessagesFit
  <2> QED BY <2>1, HeadAndTail
<1>3. m.coll \in Coll /\ m.items \in Items /\ m.headers \in Versions
  BY <1>2, MessageTypes
<1> HIDE DEF m
<1>4. /\ d \in Directories /\ StoresFit /\ StoresFit' /\ dirs \in [Coll -> Directories]
      /\ failures \in Nat /\ gone \subseteq Req /\ home \in [Req -> Coll \cup {0}]
  BY <1>3 DEF DeletionsInv, SavesIInv, Shapes, StoresFit, GoneInv, HistoryFits
<1> DEFINE Without(e, r) == /\ e.files[r] = d.files[r] \/ r \notin e.tree
                            /\ r \in e.tree => r \in d.tree
<1>5. PICK e : /\ dirs' = [dirs EXCEPT ![m.coll] = e]
               /\ \/ /\ failures' = failures /\ slips' = slips /\ cache' = NoCache
                     /\ \A r \in Req : m.items[r] = 0 => r \notin e.tree
                  \/ /\ failures' = failures + 1 /\ cache' = cache
                     /\ \A r \in Req : m.items[r] = 0 =>
                          e.files[r] = d.files[r] /\ (r \in e.tree => r \in d.tree)
  <2>1. CASE /\ Works /\ cache' = NoCache
             /\ dirs' = [dirs EXCEPT ![m.coll] = Saved(@, m.items, m.headers, In(m.items))]
    <3> DEFINE e == Saved(d, m.items, m.headers, In(m.items))
    <3>1. dirs' = [dirs EXCEPT ![m.coll] = e]
      BY <2>1
    <3>2. \A r \in Req : m.items[r] = 0 => r \notin e.tree
      BY <1>3, <1>4, SavedWithout
    <3>3. failures' = failures /\ slips' = slips /\ cache' = NoCache
      BY <2>1 DEF Works
    <3> HIDE DEF e
    <3> QED BY <3>1, <3>2, <3>3
  <2>2. CASE /\ Fails("failed") /\ cache' = cache
             /\ \E e \in CutShort(dirs[m.coll], m.items, m.headers) : dirs' = [dirs EXCEPT ![m.coll] = e]
    <3>1. PICK e \in CutShort(d, m.items, m.headers) : dirs' = [dirs EXCEPT ![m.coll] = e]
      BY <2>2
    <3>2. \A r \in Req : m.items[r] = 0 => e.files[r] = d.files[r] /\ (r \in e.tree => r \in d.tree)
      BY <1>3, <1>4, SavedWithout
    <3>3. failures' = failures + 1 /\ cache' = cache
      BY <2>2 DEF Fails
    <3> QED BY <3>1, <3>2, <3>3
  <2> QED BY <2>1, <2>2 DEF ServeSave, m
<1> HIDE DEF d
<1>6. dirs'[m.coll] = e /\ \A c \in Coll : c # m.coll => dirs'[c] = dirs[c]
  BY <1>3, <1>4, <1>5
<1>7. AwayInv'
  BY <1>1, ServedAway
<1>8. FaultlessInv'
  <2>1. failures' = 0 => failures = 0 /\ slips' = slips /\ cache' = NoCache
    BY <1>4, <1>5
  <2>2. failures' = 0 => Resolves'
    BY <2>1 DEF Resolves
  <2> QED BY <1>1, <2>1, <2>2, ServedFaultless
<1>9. GoneInv'
  <2>1. failures' \in Nat /\ (failures' < 2 => failures < 2)
    BY <1>4, <1>5
  <2>2. \A r \in gone : Empty.items[r] = 0
    BY <1>4 DEF Empty, Nothing
  <2>3. ASSUME ~overlapped, NEW r \in gone, Lacks(m, r) PROVE ~Restores(r)
    <3>1. m.items[r] = 0 /\ r \in Req
      BY <1>2, <1>4, <2>3 DEF Lacks
    <3>2. home[r] \in Coll
      BY <1>4, <2>3, <3>1 DEF DeletionsInv, GoneInv
    <3>3. CASE home[r] = m.coll
      <4>1. r \notin e.tree \/ (e.files[r] = d.files[r] /\ (r \in e.tree => r \in d.tree))
        BY <1>5, <3>1
      <4> QED BY <1>1, <1>6, <3>3, <4>1 DEF Restores, Erased, d
    <3>4. CASE home[r] # m.coll
      BY <1>1, <1>6, <3>2, <3>4 DEF Restores, Erased
    <3> QED BY <3>3, <3>4
  <2>4. ASSUME ~overlapped, failures' < 2, GoneFor, NEW r \in gone, m.coll = home[r], m.items[r] = 0,
               2 \in DOMAIN queue, queue[2].op = "delete", queue[2].req = r
        PROVE  Removable(r)'
    <3>1. r \in Req
      BY <1>4, <2>4
    <3>2. CASE failures' = failures
      <4>1. r \notin e.tree
        BY <1>4, <1>5, <2>4, <3>1, <3>2
      <4> QED BY <1>1, <1>6, <2>4, <4>1 DEF Removable
    <3>3. CASE failures' = failures + 1 /\ cache' = cache
      <4>1. failures = 0 /\ failures' > 0
        BY <1>4, <2>4, <3>3
      <4>2. up /\ Tracked /\ Resolves /\ ListedUntil(queue, home, manifest.colls) /\ Homely
        BY <1>1, <2>4, <4>1 DEF DeletionsInv, FaultlessInv, Serve, SavesIInv, HomesKept
      <4>3. m.coll \in manifest.colls
        BY <2>4, <4>2 DEF ListedUntil
      <4>4. ASSUME dirs'[m.coll].files[r] > 0 PROVE Resolved'[r] = m.coll
        <5>1. cache # NoCache => Resolved'[r] = m.coll
          <6>1. e.files[r] = d.files[r]
            BY <1>4, <1>5, <2>4, <3>1, <3>3
          <6>2. dirs[m.coll].files[r] > 0
            BY <1>6, <4>4, <6>1 DEF d
          <6> QED BY <3>1, <3>3, <4>2, <4>3, <6>2 DEF Resolves, Resolved
        <5>2. ASSUME cache = NoCache PROVE Resolved'[r] = m.coll
          <6> DEFINE owners == {x \in manifest.colls : dirs'[x].files[r] > 0}
          <6>1. manifest.colls \subseteq Coll /\ Coll \subseteq Nat
            BY <1>4, BoundFacts DEF StoresFit
          <6>2. \A x \in Coll : dirs'[x].files[r] > 0 => home[r] = x
            <7>1. Homely' /\ home' = home
              BY <1>1, <2>4 DEF SavesIInv, HomesKept, Serve
            <7> QED BY <3>1, <7>1 DEF Homely, HomelyDir
          <6>3. owners = {m.coll} /\ m.coll \in Nat
            BY <2>4, <4>3, <4>4, <6>1, <6>2
          <6> HIDE DEF owners
          <6>4. owners # {} /\ Min(owners) = m.coll
            BY <6>3, OnlyOwner
          <6>5. Scan'[r] = IF owners = {} THEN 0 ELSE Min(owners)
            <7>1. Scanned' = manifest.colls
              BY <1>1, <4>3 DEF Scanned
            <7> QED BY <3>1, <7>1 DEF Scan, owners
          <6> QED BY <3>3, <5>2, <6>4, <6>5 DEF Resolved
        <5> QED BY <5>1, <5>2
      <4> QED BY <1>1, <2>4, <4>1, <4>4 DEF Removable
    <3> QED BY <1>5, <3>2, <3>3
  <2> QED BY <1>1, <2>1, <2>2, <2>3, <2>4, ServedGone DEF m
<1> QED BY <1>7, <1>8, <1>9 DEF DeletionsInv

LEMMA ServeRemoveDeletes == ASSUME DeletionsInv, SavesIInv', ListsInv', ServeRemove PROVE DeletionsInv'
<1> DEFINE m == Head(queue)
<1>1. /\ Serve("remove") /\ Answer(Empty) /\ UNCHANGED <<manifest, life>> /\ Empty \in Contents
      /\ home' = home /\ cache' = NoCache
      /\ \/ failures' = failures /\ slips' = slips /\ dirs' = [dirs EXCEPT ![m.coll] = NoDir]
         \/ failures' = failures + 1 /\ dirs' = dirs
  BY BoundFacts DEF ServeRemove, Serve, Works, Fails
<1> HIDE DEF m
<1>2. dirs \in [Coll -> Directories] /\ failures \in Nat /\ gone \subseteq Req /\ home \in [Req -> Coll \cup {0}]
  BY DEF DeletionsInv, SavesIInv, Shapes, StoresFit, GoneInv, HistoryFits
<1>3. AwayInv'
  BY <1>1, ServedAway
<1>4. FaultlessInv'
  <2>1. failures' = 0 => failures = 0 /\ slips' = slips
    BY <1>1, <1>2
  <2>2. Resolves'
    BY <1>1 DEF Resolves
  <2> QED BY <1>1, <2>1, <2>2, ServedFaultless
<1>5. GoneInv'
  <2>1. failures' \in Nat /\ (failures' < 2 => failures < 2)
    BY <1>1, <1>2
  <2>2. \A r \in gone : Empty.items[r] = 0
    BY <1>2 DEF Empty, Nothing
  <2>3. ASSUME ~overlapped, NEW r \in gone PROVE ~Restores(r)
    <3>1. home[r] \in Coll
      BY <1>2, <2>3 DEF DeletionsInv, GoneInv
    <3>2. dirs'[home[r]] = dirs[home[r]] \/ dirs'[home[r]] = NoDir
      BY <1>1, <1>2, <3>1
    <3> QED BY <1>1, <3>2 DEF Restores, Erased, NoDir
  <2> QED BY <1>1, <2>1, <2>2, <2>3, ServedGone
<1> QED BY <1>3, <1>4, <1>5 DEF DeletionsInv

LEMMA ServeEnvironmentsDeletes ==
  ASSUME DeletionsInv, SavesIInv', ListsInv', ServeEnvironments PROVE DeletionsInv'
<1>1. /\ Serve("environments") /\ Answer(Empty) /\ UNCHANGED <<manifest, dirs, cache, life>>
      /\ Empty \in Contents /\ home' = home /\ failures' = failures /\ slips' = slips
  BY BoundFacts DEF ServeEnvironments, Serve, Works, mainVars
<1>2. failures \in Nat /\ gone \subseteq Req
  BY DEF DeletionsInv, GoneInv
<1>3. AwayInv'
  BY <1>1, ServedAway
<1>4. FaultlessInv'
  <2>1. Resolves => Resolves'
    BY <1>1 DEF Resolves
  <2> QED BY <1>1, <2>1, ServedFaultless
<1>5. GoneInv'
  <2>1. \A r \in gone : Empty.items[r] = 0
    BY <1>2 DEF Empty, Nothing
  <2>2. \A r : ~Restores(r)
    BY <1>1 DEF Restores, Erased
  <2> QED BY <1>1, <1>2, <2>1, <2>2, ServedGone
<1> QED BY <1>3, <1>4, <1>5 DEF DeletionsInv


\* A file of a request is written or goes, and its place in the tree may go with it.
LEMMA FileOnly ==
  ASSUME StoresFit, NEW c \in Coll, NEW r \in Req, NEW v,
         \/ dirs' = [dirs EXCEPT ![c].files[r] = v]
         \/ dirs' = [dirs EXCEPT ![c].files[r] = v, ![c].tree = @ \ {r}]
  PROVE  /\ \A x \in Coll, q \in Req :
              dirs'[x].files[q] = IF x = c /\ q = r THEN v ELSE dirs[x].files[q]
         /\ \A x \in Coll, q \in Req : q \in dirs'[x].tree => q \in dirs[x].tree
<1>1. dirs \in [Coll -> Directories]
  BY DEF StoresFit
<1>2. \A x \in Coll : dirs[x].files \in [Req -> Versions]
  BY <1>1 DEF Directories
<1>3. \A x \in Coll : x # c => dirs'[x] = dirs[x]
  BY <1>1
<1> DEFINE d == dirs[c]
           f == [d.files EXCEPT ![r] = v]
<1>4. d \in Directories /\ d.files \in [Req -> Versions]
  BY <1>1, <1>2
<1>5. dirs'[c] = [d EXCEPT !.files = f] \/ dirs'[c] = [d EXCEPT !.files = f, !.tree = @ \ {r}]
  BY <1>1
<1>6. \A q \in Req : f[q] = IF q = r THEN v ELSE d.files[q]
  BY <1>4
<1> HIDE DEF f
<1>7. dirs'[c].files = f /\ \A q : q \in dirs'[c].tree => q \in d.tree
  BY <1>4, <1>5 DEF Directories
<1> QED BY <1>3, <1>6, <1>7

LEMMA ServeUpdateDeletes == ASSUME DeletionsInv, SavesIInv', ListsInv', ServeUpdate PROVE DeletionsInv'
<1> DEFINE m == Head(queue)
           c == Resolved[m.req]
           known == c # 0 /\ dirs[c].files[m.req] > 0
<1>1. /\ Serve("update") /\ Answer(Empty) /\ UNCHANGED <<manifest, life>> /\ Empty \in Contents
      /\ home' = home /\ overlapped' = overlapped /\ cache' = Resolved
      /\ \/ failures' = failures /\ slips' = slips
         \/ failures' = failures + 1
      /\ dirs' = dirs \/ (known /\ dirs' = [dirs EXCEPT ![c].files[m.req] = m.version])
  BY BoundFacts DEF ServeUpdate, Serve, Works, Fails
<1>2. queue \in Seq(Messages) /\ m.op = "update" /\ m \in Messages
  <2>1. queue \in Seq(Messages) /\ queue # <<>> /\ m.op = "update"
    BY <1>1 DEF Serve, DeletionsInv, SavesIInv, Shapes, MessagesFit
  <2> QED BY <2>1, HeadAndTail
<1>3. m.req \in Req
  BY <1>2, MessageTypes
<1> HIDE DEF m
<1>4. StoresFit /\ failures \in Nat /\ gone \subseteq Req /\ home \in [Req -> Coll \cup {0}]
  BY DEF DeletionsInv, SavesIInv, Shapes, GoneInv, HistoryFits
<1>5. known => c \in Coll
  BY <1>3, <1>4, ResolvedFits
<1>6. /\ \A x \in Coll, q \in Req : dirs'[x].files[q] > 0 => dirs[x].files[q] > 0
      /\ \A x \in Coll, q \in Req : q \in dirs'[x].tree => q \in dirs[x].tree
  <2>1. CASE dirs' = dirs
    BY <2>1
  <2>2. CASE known /\ dirs' = [dirs EXCEPT ![c].files[m.req] = m.version]
    <3> HIDE DEF c
    <3> QED BY <2>2, <1>3, <1>4, <1>5, FileOnly
  <2> QED BY <1>1, <2>1, <2>2
<1> HIDE DEF known, c
<1>7. AwayInv'
  BY <1>1, ServedAway
<1>8. FaultlessInv'
  <2>1. failures' = 0 => failures = 0 /\ slips' = slips
    BY <1>1, <1>4
  <2>2. ~overlapped /\ Resolves => Resolves'
    <3> SUFFICES ASSUME ~overlapped, Resolves, NEW x \in manifest'.colls, NEW q \in Req,
                        dirs'[x].files[q] > 0
                 PROVE  cache'[q] = x
      BY DEF Resolves
    <3>1. x \in manifest.colls /\ x \in Coll
      BY <1>1, <1>4 DEF StoresFit
    <3>2. dirs[x].files[q] > 0
      BY <1>6, <3>1
    <3>3. Homely
      BY DEF DeletionsInv, SavesIInv, HomesKept
    <3> QED BY <1>1, <1>4, <3>1, <3>2, <3>3, ResolvedKnows
  <2> QED BY <1>1, <2>1, <2>2, ServedFaultless
<1>9. GoneInv'
  <2>1. failures' \in Nat /\ (failures' < 2 => failures < 2)
    BY <1>1, <1>4
  <2>2. \A r \in gone : Empty.items[r] = 0
    BY <1>4 DEF Empty, Nothing
  <2>3. ASSUME ~overlapped, NEW r \in gone PROVE ~Restores(r)
    <3>1. home[r] \in Coll /\ r \in Req
      BY <1>4, <2>3 DEF DeletionsInv, GoneInv
    <3> QED BY <1>1, <1>6, <3>1 DEF Restores, Erased
  <2> QED BY <1>1, <2>1, <2>2, <2>3, ServedGone
<1> QED BY <1>7, <1>8, <1>9 DEF DeletionsInv

LEMMA ServeDeleteDeletes == ASSUME DeletionsInv, SavesIInv', ListsInv', ServeDelete PROVE DeletionsInv'
<1> DEFINE m == Head(queue)
<1>1. /\ Serve("delete") /\ Answer(Empty) /\ UNCHANGED <<manifest, life>> /\ Empty \in Contents
      /\ home' = home /\ overlapped' = overlapped
  BY BoundFacts DEF ServeDelete, Serve
<1>2. queue \in Seq(Messages) /\ queue # <<>> /\ m.op = "delete" /\ m \in Messages
      /\ m = queue[1] /\ 1 \in DOMAIN queue
  <2>1. queue \in Seq(Messages) /\ queue # <<>> /\ m.op = "delete"
    BY <1>1 DEF Serve, DeletionsInv, SavesIInv, Shapes, MessagesFit
  <2> QED BY <2>1, HeadAndTail
<1>3. PICK r \in Req : r = m.req
  BY <1>2, MessageTypes
<1> DEFINE c == Resolved[r]
           known == c # 0 /\ dirs[c].files[r] > 0
<1>4. StoresFit /\ failures \in Nat /\ gone \subseteq Req /\ home \in [Req -> Coll \cup {0}]
  BY DEF DeletionsInv, SavesIInv, Shapes, GoneInv, HistoryFits
<1>5. known => c \in Coll
  BY <1>4, ResolvedFits
<1>6. \/ /\ known /\ failures' = failures /\ slips' = slips
         /\ dirs' = [dirs EXCEPT ![c].files[r] = 0, ![c].tree = @ \ {r}]
         /\ cache' = [Resolved EXCEPT ![r] = 0]
      \/ /\ known /\ failures' = failures + 1
         /\ dirs' = [dirs EXCEPT ![c].files[r] = 0]
      \/ /\ ~known /\ failures' = failures /\ slips' = slips
         /\ cache' = Resolved /\ dirs' = dirs
      \/ known /\ failures' = failures + 1 /\ dirs' = dirs
  BY <1>3 DEF ServeDelete, Works, Fails
<1>7. ~overlapped /\ failures < 2 => GoneFor /\ r \in gone /\ Removable(r)
  BY <1>1, <1>2, <1>3 DEF DeletionsInv, GoneInv, GoneFor, RemovalIsNext, Serve
<1> HIDE DEF m, c
<1>8. /\ known /\ dirs' # dirs =>
           \A x \in Coll, q \in Req : dirs'[x].files[q] = IF x = c /\ q = r THEN 0 ELSE dirs[x].files[q]
      /\ \A x \in Coll, q \in Req : dirs'[x].files[q] > 0 => dirs[x].files[q] > 0
      /\ \A x \in Coll, q \in Req : q \in dirs'[x].tree => q \in dirs[x].tree
  <2>1. CASE dirs' = dirs
    BY <2>1
  <2>2. CASE known /\ dirs' = [dirs EXCEPT ![c].files[r] = 0]
    <3>1. /\ \A x \in Coll, q \in Req : dirs'[x].files[q] = IF x = c /\ q = r THEN 0 ELSE dirs[x].files[q]
          /\ \A x \in Coll, q \in Req : q \in dirs'[x].tree => q \in dirs[x].tree
      BY <2>2, <1>4, <1>5, FileOnly
    <3> QED BY <3>1
  <2>3. CASE known /\ dirs' = [dirs EXCEPT ![c].files[r] = 0, ![c].tree = @ \ {r}]
    <3>1. /\ \A x \in Coll, q \in Req : dirs'[x].files[q] = IF x = c /\ q = r THEN 0 ELSE dirs[x].files[q]
          /\ \A x \in Coll, q \in Req : q \in dirs'[x].tree => q \in dirs[x].tree
      BY <2>3, <1>4, <1>5, FileOnly
    <3> QED BY <3>1
  <2> QED BY <1>6, <2>1, <2>2, <2>3
<1>9. /\ failures' = failures /\ known => dirs'[c].files[r] = 0
      /\ failures' = failures => slips' = slips /\ cache' \in {Resolved, [Resolved EXCEPT ![r] = 0]}
      /\ failures' = failures /\ ~known => dirs' = dirs /\ cache' = Resolved
      /\ failures' = failures \/ failures' = failures + 1
  <2>1. failures + 1 # failures
    BY <1>4
  <2>2. failures' = failures /\ known => dirs'[c].files[r] = 0
    <3> HAVE failures' = failures /\ known
    <3>1. known /\ dirs' = [dirs EXCEPT ![c].files[r] = 0, ![c].tree = @ \ {r}]
      BY <1>6, <2>1
    <3>2. /\ \A x \in Coll, q \in Req : dirs'[x].files[q] = IF x = c /\ q = r THEN 0 ELSE dirs[x].files[q]
          /\ \A x \in Coll, q \in Req : q \in dirs'[x].tree => q \in dirs[x].tree
      BY <3>1, <1>4, <1>5, FileOnly
    <3>3. c \in Coll /\ r \in Req
      BY <1>3, <1>5
    <3> QED BY <3>2, <3>3
  <2> QED BY <1>6, <2>1, <2>2
<1> HIDE DEF known
<1>10. AwayInv'
  BY <1>1, ServedAway
<1>11. FaultlessInv'
  <2>1. failures' = 0 => failures = 0 /\ slips' = slips
    BY <1>4, <1>9
  <2>2. failures' = 0 /\ ~overlapped /\ Resolves => Resolves'
    <3> SUFFICES ASSUME failures' = 0, ~overlapped, Resolves, NEW x \in manifest'.colls, NEW q \in Req,
                        dirs'[x].files[q] > 0
                 PROVE  cache'[q] = x
      BY DEF Resolves
    <3>1. x \in manifest.colls /\ x \in Coll
      BY <1>1, <1>4 DEF StoresFit
    <3>2. Homely
      BY DEF DeletionsInv, SavesIInv, HomesKept
    <3>3. Resolved[q] = x
      <4>1. dirs[x].files[q] > 0
        BY <1>8, <3>1
      <4> QED BY <1>4, <3>1, <3>2, <4>1, ResolvedKnows
    <3>4. failures' = failures /\ cache' \in {Resolved, [Resolved EXCEPT ![r] = 0]}
      BY <1>4, <1>9
    <3>5. Resolved \in [Req -> Coll \cup {0}]
      BY <1>4, ResolvedFits
    <3>6. CASE q # r
      BY <3>3, <3>4, <3>5, <3>6
    <3>7. CASE q = r
      <4>1. c = x
        BY <3>3, <3>7 DEF c
      <4>2. ~known
        BY <1>9, <3>4, <3>7, <4>1
      <4> QED BY <1>9, <3>3, <3>4, <4>2
    <3> QED BY <3>6, <3>7
  <2> QED BY <1>1, <2>1, <2>2, ServedFaultless
<1>12. GoneInv'
  <2>1. failures' \in Nat /\ (failures' < 2 => failures < 2)
    BY <1>4, <1>9
  <2>2. \A q \in gone : Empty.items[q] = 0
    BY <1>4 DEF Empty, Nothing
  <2>3. ASSUME ~overlapped, NEW q \in gone PROVE ~Restores(q)
    <3>1. home[q] \in Coll /\ q \in Req
      BY <1>4, <2>3 DEF DeletionsInv, GoneInv
    <3> QED BY <1>1, <1>8, <3>1 DEF Restores, Erased
  <2>4. ASSUME ~overlapped, failures' < 2 PROVE Erased(r)'
    <3>1. r \in gone /\ Removable(r) /\ r \in Req
      BY <1>3, <1>7, <2>1, <2>4
    <3>2. home[r] \in Coll
      BY <1>4, <2>4, <3>1 DEF DeletionsInv, GoneInv
    <3>3. CASE r \notin dirs[home[r]].tree
      BY <1>1, <1>8, <3>1, <3>2, <3>3 DEF Erased
    <3>4. CASE failures > 0 /\ (dirs[home[r]].files[r] > 0 => c = home[r])
      <4>1. failures' = failures
        BY <1>4, <1>9, <2>4, <3>4
      <4>2. ~(dirs'[home[r]].files[r] > 0)
        <5>1. dirs'[home[r]].files[r] > 0 => dirs[home[r]].files[r] > 0
          BY <1>8, <3>1, <3>2
        <5>2. dirs[home[r]].files[r] > 0 => known
          BY <3>2, <3>4, BoundFacts DEF known
        <5>3. known => dirs'[c].files[r] = 0
          BY <1>9, <4>1
        <5> QED BY <5>1, <5>2, <5>3, <3>4
      <4> QED BY <1>1, <4>2 DEF Erased
    <3> QED BY <3>1, <3>3, <3>4 DEF Removable, c
  <2>5. \A q : Head(queue).req = q => q = r
    BY <1>3 DEF m
  <2> QED BY <1>1, <2>1, <2>2, <2>3, <2>4, <2>5, ServedGone
<1> QED BY <1>10, <1>11, <1>12 DEF DeletionsInv


LEMMA ServeManifestFaultless ==
  ASSUME DeletionsInv, SavesIInv', ListsInv', ServeManifest, failures' = 0
  PROVE  FaultlessInv'
<1> DEFINE m == Head(queue)
<1>1. /\ Serve("manifest") /\ Answer(Empty) /\ UNCHANGED <<dirs, cache>> /\ Empty \in Contents
      /\ failures \in Nat
  BY BoundFacts DEF ServeManifest, DeletionsInv, GoneInv
<1>2. /\ failures = 0 /\ slips' = slips
      /\ manifest' = [colls |-> m.colls, active |-> m.coll]
      /\ life' = [c \in Coll |-> IF c \in m.colls /\ life[c] = "made" THEN "listed" ELSE life[c]]
  BY <1>1 DEF ServeManifest, Works, Fails
<1>3. /\ up /\ overlapped' = overlapped /\ view' = view /\ home' = home
      /\ m \in Messages /\ m.op = "manifest" /\ m = queue[1] /\ 1 \in DOMAIN queue /\ reply'.then = m.then
      /\ queue \in Seq(Messages) /\ queue # <<>> /\ queue' = Tail(queue)
      /\ \A i \in DOMAIN queue' : i + 1 \in DOMAIN queue /\ queue'[i] = queue[i + 1] /\ i + 1 # 1
  BY <1>1, ServedFacts
<1> HIDE DEF m
<1>4. "unread" \notin slips'
  BY <1>2 DEF DeletionsInv, FaultlessInv
<1> SUFFICES ASSUME ~overlapped
             PROVE  Made' /\ Tracked' /\ Resolves' /\ ListedUntil(queue', home', manifest'.colls)
  BY <1>3, <1>4 DEF FaultlessInv
<1>5. /\ Made /\ Tracked /\ Resolves /\ ListedUntil(queue, home, manifest.colls)
      /\ ListsHold /\ Homely
  BY <1>2, <1>3, <1>4 DEF DeletionsInv, FaultlessInv, ListsInv, SavesIInv, HomesKept
<1>6. m.colls = view.colls /\ manifest'.colls = view.colls /\ view.colls \subseteq Coll
      /\ manifest.colls \subseteq Coll
  <2>1. m.colls = view.colls
    BY <1>3, <1>5 DEF ListsHold, MessageLists
  <2> QED BY <1>2, <2>1 DEF DeletionsInv, SavesIInv, Shapes, WindowFits, Views, StoresFit
<1>7. \A c \in Coll : life[c] # "unused" => life'[c] # "unused"
  BY <1>2
<1>8. /\ view.shown \in view.colls
      /\ \A c \in view.colls : life[c] # "unused" /\ (c \in manifest.colls \/ \A r \in Req : home[r] # c)
  BY <1>5 DEF Tracked, Known
<1>9. Made'
  <2>1. \A r \in Req : home[r] # 0 => home[r] \in Coll
    BY DEF DeletionsInv, SavesIInv, Shapes, HistoryFits
  <2> QED BY <1>3, <1>5, <1>6, <1>7, <1>8, <2>1 DEF Made
<1>10. Resolves'
  <2> SUFFICES ASSUME cache # NoCache, NEW c \in view.colls, NEW r \in Req, dirs[c].files[r] > 0
               PROVE  cache[r] = c
    BY <1>1, <1>6 DEF Resolves
  <2>1. home[r] = c
    BY <1>5, <1>6 DEF Homely, HomelyDir
  <2>2. c \in manifest.colls
    BY <1>8, <2>1
  <2> QED BY <1>5, <2>2 DEF Resolves
<1>11. ListedUntil(queue', home', manifest'.colls)
  BY <1>3, <1>5, <1>6, UntilTail DEF m
<1>12. Tracked'
  <2>1. m.then \in AfterManifest /\ OfCollections(m.then) /\ Core(m.then) = m.then
        /\ m.then.step \in {"switchListed", "addListed", "deleteListed"}
    <3>1. m.then \in AfterManifest
      BY <1>3, MessageTypes
    <3> QED BY <3>1, WhoHandles, StepsOf DEF Handlers, Core
  <2>2. /\ OneHandler(queue, reply, view, mirror.active) /\ view.active \in view.colls
    BY <1>3 DEF DeletionsInv, SavesIInv, OneAtATime
  <2>3. /\ \A i \in DOMAIN queue : i # 1 => ~OfCollections(queue[i].then)
        /\ Phase(m.then, view, mirror.active)
    BY <1>3, <2>1, <2>2 DEF OneHandler
  <2>4. \A i \in DOMAIN queue' : ThenKnown(queue'[i].then, view', manifest'.colls, life', home')
    <3>1. \A i \in DOMAIN queue' : queue'[i].then \in Thens /\ ~OfCollections(queue'[i].then)
      BY <1>3, <2>3, MessageTypes
    <3> QED BY <3>1, QuietThen
  <2>5. ThenKnown(reply'.then, view', manifest'.colls, life', home')
    BY <1>3, <2>1 DEF ThenKnown
  <2>6. reply'.then.step \in {"switchListed", "addListed"} => reply'.then.coll \in view.colls
    BY <1>3, <2>1, <2>2, <2>3 DEF Phase
  <2>7. Known(view.colls, view.colls, life', home')
    BY <1>3, <1>6, <1>7, <1>8 DEF Known
  <2> QED BY <1>3, <1>6, <1>8, <2>4, <2>5, <2>6, <2>7 DEF Tracked
<1> QED BY <1>9, <1>10, <1>11, <1>12

LEMMA ServeManifestDeletes == ASSUME DeletionsInv, SavesIInv', ListsInv', ServeManifest PROVE DeletionsInv'
<1>1. /\ Serve("manifest") /\ Answer(Empty) /\ UNCHANGED <<dirs, cache>> /\ Empty \in Contents
      /\ home' = home /\ (failures' = failures \/ failures' = failures + 1)
  BY BoundFacts DEF ServeManifest, Serve, Works, Fails
<1>2. failures \in Nat /\ gone \subseteq Req
  BY DEF DeletionsInv, GoneInv
<1>3. AwayInv'
  BY <1>1, ServedAway
<1>4. FaultlessInv'
  <2>1. failures' = 0 => FaultlessInv'
    BY ServeManifestFaultless
  <2> QED BY <2>1 DEF FaultlessInv
<1>5. GoneInv'
  <2>1. failures' \in Nat /\ (failures' < 2 => failures < 2)
    BY <1>1, <1>2
  <2>2. \A r \in gone : Empty.items[r] = 0
    BY <1>2 DEF Empty, Nothing
  <2>3. \A r : ~Restores(r)
    BY <1>1 DEF Restores, Erased
  <2> QED BY <1>1, <2>1, <2>2, <2>3, ServedGone
<1> QED BY <1>3, <1>4, <1>5 DEF DeletionsInv


-----------------------------------------------------------------------------
(* Start, crash, and every step *)

LEMMA BootDeletes == ASSUME DeletionsInv, SavesIInv', ListsInv', Boot PROVE DeletionsInv'
<1>1. /\ ~up /\ mirror' = [active |-> view'.active, items |-> view'.items,
                           headers |-> dirs[view'.active].headers]
      /\ cache' = NoCache /\ gone' = {r \in gone : \A c \in Coll : Content(c).items[r] = 0}
      /\ UNCHANGED <<dirs, queue, reply, home, overlapped>>
  BY DEF Boot
<1>2. /\ queue' = <<>> /\ reply' = NoReply /\ failures \in Nat /\ gone \subseteq Req
      /\ home \in [Req -> Coll \cup {0}] /\ manifest.colls \subseteq Coll
      /\ life \in [Coll -> {"unused", "made", "listed", "deleted"}]
      /\ (~overlapped => \A r \in gone : home[r] # 0)
  BY <1>1 DEF DeletionsInv, SavesIInv, Shapes, MessagesFit, HistoryFits, StoresFit, GoneInv
<1>3. PICK c \in Coll :
        /\ view'.shown = c /\ c \in view'.colls
        /\ view'.items \in {Content(c).items, Nothing}
        /\ \/ /\ view'.colls = manifest.colls /\ failures' = failures /\ slips' = slips
              /\ manifest' = manifest /\ life' = Relisted
           \/ /\ view'.colls = {c} /\ failures' = failures /\ slips' = slips
              /\ life' = [life EXCEPT ![c] = "listed"]
              /\ manifest' = [colls |-> {c}, active |-> c]
           \/ failures' = failures + 1
  <2>1. CASE /\ manifest.colls # {}
             /\ Works
             /\ \E c \in IF manifest.active \in manifest.colls THEN {manifest.active}
                                                                ELSE manifest.colls :
                  view' = [colls |-> manifest.colls, active |-> c, shown |-> c, items |-> Content(c).items]
             /\ life' = Relisted
             /\ UNCHANGED manifest
    <3>1. PICK c \in manifest.colls :
            view' = [colls |-> manifest.colls, active |-> c, shown |-> c, items |-> Content(c).items]
      BY <2>1
    <3> QED BY <2>1, <3>1, <1>2 DEF Works
  <2>2. CASE \E c \in Coll :
          /\ life[c] = "unused"
          /\ view' = [colls |-> {c}, active |-> c, shown |-> c, items |-> Nothing]
          /\ \/ /\ IF manifest.colls = {} THEN Works ELSE Fails("unread")
                /\ life' = [life EXCEPT ![c] = "listed"]
                /\ manifest' = [colls |-> {c}, active |-> c]
             \/ /\ manifest.colls = {} /\ Fails("failed")
                /\ life' = [life EXCEPT ![c] = "made"]
                /\ UNCHANGED manifest
    <3>1. PICK c \in Coll :
          /\ view' = [colls |-> {c}, active |-> c, shown |-> c, items |-> Nothing]
          /\ \/ /\ IF manifest.colls = {} THEN Works ELSE Fails("unread")
                /\ life' = [life EXCEPT ![c] = "listed"]
                /\ manifest' = [colls |-> {c}, active |-> c]
             \/ Fails("failed")
      BY <2>2
    <3>2. \/ failures' = failures + 1
          \/ /\ failures' = failures /\ slips' = slips
             /\ life' = [life EXCEPT ![c] = "listed"]
             /\ manifest' = [colls |-> {c}, active |-> c]
      BY <3>1 DEF Works, Fails
    <3> QED BY <3>1, <3>2
  <2> QED BY <2>1, <2>2 DEF Boot, Relisted
<1>4. /\ \A s : ThenAway(reply'.then, s)
      /\ \A v, m, l, h : ThenKnown(reply'.then, v, m, l, h)
      /\ reply'.then.step \notin {"addListed", "switchListed"}
  <2>1. ~OfCollections(reply'.then) /\ reply'.then \in Thens
    BY <1>2, BoundFacts
  <2> QED BY <2>1, QuietThen
<1>5. AwayInv'
  BY <1>2, <1>4 DEF AwayInv, Apart
<1>6. FaultlessInv'
  <2> SUFFICES ASSUME failures' = 0
               PROVE  /\ "unread" \notin slips'
                      /\ ~overlapped => /\ Made' /\ Tracked' /\ Resolves'
                                        /\ ListedUntil(queue', home', manifest'.colls)
    BY <1>1 DEF FaultlessInv
  <2>1. /\ failures = 0 /\ slips' = slips
        /\ \/ view'.colls = manifest.colls /\ manifest' = manifest /\ life' = Relisted
           \/ /\ view'.colls = {c} /\ life' = [life EXCEPT ![c] = "listed"]
              /\ manifest' = [colls |-> {c}, active |-> c]
    BY <1>2, <1>3
  <2>2. "unread" \notin slips'
    BY <2>1 DEF DeletionsInv, FaultlessInv
  <2> SUFFICES ASSUME ~overlapped PROVE /\ Made' /\ Tracked' /\ Resolves'
                                        /\ ListedUntil(queue', home', manifest'.colls)
    BY <2>2
  <2>3. Made
    BY <2>1 DEF DeletionsInv, FaultlessInv
  <2>4. Made' /\ view'.colls = manifest'.colls
    <3>1. CASE view'.colls = manifest.colls /\ manifest' = manifest /\ life' = Relisted
      BY <1>1, <1>2, <2>3, <3>1 DEF Made, Relisted, StoresFit
    <3>2. CASE /\ view'.colls = {c} /\ life' = [life EXCEPT ![c] = "listed"]
               /\ manifest' = [colls |-> {c}, active |-> c]
      <4>1. /\ life'[c] = "listed" /\ manifest'.colls = {c}
            /\ \A x \in Coll : life[x] # "unused" => life'[x] # "unused"
        BY <1>2, <3>2
      <4>2. \A r \in Req : home[r] # 0 => home[r] \in Coll
        BY <1>2
      <4> QED BY <1>1, <2>3, <3>2, <4>1, <4>2 DEF Made
    <3> QED BY <2>1, <3>1, <3>2
  <2>5. Resolves' /\ ListedUntil(queue', home', manifest'.colls)
    BY <1>1, <1>2 DEF Resolves, ListedUntil
  <2>6. Tracked'
    BY <1>2, <1>3, <1>4, <2>4 DEF Tracked, Known, Made
  <2> QED BY <2>4, <2>5, <2>6
<1>7. GoneInv'
  <2>1. gone' \subseteq gone /\ failures' \in Nat
    BY <1>1, <1>2, <1>3
  <2>2. ASSUME ~overlapped PROVE GoneFor'
    <3>1. ASSUME NEW r \in gone' PROVE LeavesWindow(r)' /\ LeavesDisk(r)'
      <4>1. r \in Req /\ home[r] \in Coll
        BY <1>2, <2>1, <2>2, <3>1
      <4>2. \A x \in Coll : Content(x).items[r] = 0
        BY <1>1, <3>1
      <4>3. LeavesWindow(r)'
        <5>1. view'.items[r] = 0 /\ mirror'.items[r] = 0
          BY <1>1, <1>3, <4>1, <4>2 DEF Nothing
        <5>2. reply'.data.items[r] = 0
          BY <1>2, <4>1 DEF NoReply, Empty, Nothing
        <5> QED BY <5>1, <5>2 DEF LeavesWindow
      <4>4. Erased(r)'
        <5>1. Content(home[r]).items[r] = 0
          BY <4>1, <4>2
        <5> QED BY <1>1, <4>1, <5>1 DEF Content, Erased
      <4> QED BY <1>2, <4>3, <4>4 DEF LeavesDisk
    <3> QED BY <1>2, <3>1 DEF GoneFor, RemovedBehind, RemovalIsNext
  <2> QED BY <1>1, <1>2, <2>1, <2>2 DEF GoneInv
<1> QED BY <1>5, <1>6, <1>7 DEF DeletionsInv

LEMMA CrashDeletes == ASSUME DeletionsInv, SavesIInv', ListsInv', Crash PROVE DeletionsInv'
<1>1. ~up' /\ UNCHANGED <<manifest, home, gone, life, overlapped, slips, failures>>
  BY DEF Crash, historyVars
<1> QED BY <1>1 DEF DeletionsInv, AwayInv, FaultlessInv, GoneInv, Made

LEMMA DeletionsInit == Init => DeletionsInv
<1> SUFFICES ASSUME Init PROVE DeletionsInv
  OBVIOUS
<1>1. SavesIInv /\ ListsInv
  BY SavesInit, ListsInit
<1>2. AwayInv /\ FaultlessInv /\ GoneInv
  BY DEF Init, AwayInv, FaultlessInv, GoneInv, Made
<1> QED BY <1>1, <1>2 DEF DeletionsInv

LEMMA UnmovedDeletes == ASSUME DeletionsInv, SavesIInv', ListsInv', UNCHANGED vars PROVE DeletionsInv'
<1>1. UNCHANGED <<manifest, dirs, cache, up, view, mirror, queue, reply, home, gone, life, overlapped,
                  slips, failures>>
  BY DEF vars, mainVars, rendererVars, historyVars
<1>2. AwayInv'
  BY <1>1 DEF DeletionsInv, AwayInv, Apart
<1>3. FaultlessInv'
  BY <1>1 DEF DeletionsInv, FaultlessInv, Made, Tracked, Resolves
<1>4. GoneFor => GoneFor'
  <2>1. \A r : LeavesWindow(r) => LeavesWindow(r)'
    BY <1>1 DEF LeavesWindow
  <2>2. \A r : LeavesDisk(r) => LeavesDisk(r)'
    BY <1>1 DEF LeavesDisk, Erased
  <2>3. RemovalIsNext => RemovalIsNext'
    BY <1>1 DEF RemovalIsNext, Removable, Resolved, Scan, Scanned
  <2> QED BY <1>1, <2>1, <2>2, <2>3 DEF GoneFor
<1>5. GoneInv'
  BY <1>1, <1>4 DEF DeletionsInv, GoneInv
<1> QED BY <1>2, <1>3, <1>5 DEF DeletionsInv

LEMMA DeletionsStep ==
  DeletionsInv /\ SavesIInv' /\ ListsInv' /\ [Next]_vars => DeletionsInv'
<1> SUFFICES ASSUME DeletionsInv, SavesIInv', ListsInv', [Next]_vars PROVE DeletionsInv'
  OBVIOUS
<1>1. CASE Boot \/ Crash \/ UNCHANGED vars
  BY <1>1, BootDeletes, CrashDeletes, UnmovedDeletes
<1>2. CASE \E r \in Req : Edit(r) \/ AddRequest(r) \/ DeleteRequest(r)
  BY <1>2, EditDeletes, AddRequestDeletes, DeleteRequestDeletes
<1>3. CASE \E c \in Coll : SelectCollection(c) \/ AddCollection(c) \/ DeleteCollection(c)
  BY <1>3, SelectDeletes, AddDeletes, DeleteDeletes
<1>4. CASE SetHeaders \/ TimerFires
  BY <1>4, HeadersDeletes, TimerDeletes
<1>5. CASE NextPatch \/ Flushed \/ Rewrite \/ RewriteHeaders
  BY <1>5, NextPatchDeletes, FlushedDeletes, RewriteDeletes, RewriteHeadersDeletes
<1>6. CASE SwitchSaved \/ SwitchListed \/ SwitchLoaded
  BY <1>6, SwitchSavedDeletes, SwitchListedDeletes, SwitchLoadedDeletes
<1>7. CASE AddStored \/ AddSaved \/ AddListed
  BY <1>7, AddStoredDeletes, AddSavedDeletes, AddListedDeletes
<1>8. CASE DeleteLoaded \/ DeleteShown \/ DeleteListed
  BY <1>8, DeleteLoadedDeletes, DeleteShownDeletes, DeleteListedDeletes
<1>9. CASE \/ ServeSave \/ ServeLoad \/ ServeManifest \/ ServeUpdate \/ ServeDelete
           \/ ServeRemove \/ ServeEnvironments
  BY <1>9, ServeSaveDeletes, ServeLoadDeletes, ServeManifestDeletes, ServeUpdateDeletes,
     ServeDeleteDeletes, ServeRemoveDeletes, ServeEnvironmentsDeletes
<1> QED BY <1>1, <1>2, <1>3, <1>4, <1>5, <1>6, <1>7, <1>8, <1>9 DEF Next

\* Deletions are the user's: as long as no two things failed, a request the user deleted is not in
\* its collection any more once the messages of the deletion were served, whatever saves, patches
\* and loads were under way; and no collection leaves the manifest of itself.
THEOREM OnlyTheUserDeletes == Spec => []DeletionsAreTheUsers
<1>1. Init => DeletionsInv
  BY DeletionsInit
<1>2. DeletionsInv /\ [Next]_vars => DeletionsInv'
  <2>1. DeletionsInv => SavesIInv /\ ListsInv
    BY DEF DeletionsInv
  <2> QED BY <2>1, SavesStep, ListsStep, DeletionsStep
<1>3. DeletionsInv => DeletionsAreTheUsers
  <2> SUFFICES ASSUME DeletionsInv PROVE CollectionsStayListed /\ DeletedStaysDeleted
    BY DEF DeletionsAreTheUsers
  <2>1. CollectionsStayListed
    BY DEF DeletionsInv, ListsInv, ListsHold, Listed, CollectionsStayListed
  <2>2. DeletedStaysDeleted
    <3> SUFFICES ASSUME ~overlapped, failures < 2, Settled, NEW r \in gone, NEW c \in manifest.colls
                 PROVE  Content(c).items[r] = 0
      BY DEF DeletedStaysDeleted
    <3>1. GoneFor /\ Homely /\ StoresFit /\ r \in Req /\ c \in Coll
      BY DEF Settled, DeletionsInv, GoneInv, SavesIInv, HomesKept, Shapes, StoresFit
    <3>2. Erased(r)
      BY <3>1 DEF Settled, GoneFor, LeavesDisk
    <3>3. r \in dirs[c].tree => ~(dirs[c].files[r] > 0)
      BY <3>1, <3>2 DEF Homely, HomelyDir, Erased
    <3>4. dirs[c].files[r] \in Versions
      BY <3>1 DEF StoresFit, Directories
    <3>5. dirs[c].files[r] = 0 \/ dirs[c].files[r] > 0
      <4>1. dirs[c].files[r] \in Nat
        BY <3>4, BoundFacts
      <4> QED BY <4>1
    <3> QED BY <3>1, <3>3, <3>5 DEF Content
  <2> QED BY <2>1, <2>2
<1> QED BY <1>1, <1>2, <1>3, PTL DEF Spec
=============================================================================

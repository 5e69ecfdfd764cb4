------------------------------- MODULE WorkspaceSaves -------------------------------
(***************************************************************************)
(* How what the user does to collections and requests reaches the disk.    *)
(*                                                                         *)
(* The renderer (app.js) keeps the tree it shows and sends every change to *)
(* the main process over IPC, through data-store.js, which has a mirror of *)
(* the active collection of its own.  The main process serves the messages *)
(* one at a time, in the order they were sent, with the synchronous stores *)
(* (collections-store, request-store, collection-store) and the resolver's *)
(* cache.  The handlers of the renderer are asynchronous: each await is a  *)
(* message whose reply resumes the handler, and anything else the user     *)
(* does may come in between.  A reply is taken before the main process     *)
(* serves again and before the user acts: as both queues are in order, and *)
(* serving touches only the disk and the head of the queue, any other      *)
(* order has the same effect as one of these.                              *)
(*                                                                         *)
(* A request's content is a version, 0 when there is none; folders, names  *)
(* and variables are left out, and the default headers of a collection     *)
(* stand for all the metadata saved with it.  The id of a collection is a  *)
(* number, as the resolver compares ids.                                   *)
(***************************************************************************)
EXTENDS Naturals, Sequences, FiniteSetsExt

CONSTANTS Coll,          \* the ids of collections there may ever be
          Req,           \* the ids of requests there may ever be
          MaxVersion,    \* bound: versions of one request, or of one collection's headers
          MaxCommands,   \* bound: commands of the user
          MaxFailures,   \* bound: reads and writes that fail
          MaxCrashes     \* bound: crashes

ASSUME BoundsAssumption ==
  /\ Coll \subseteq Nat \ {0}
  /\ MaxVersion \in Nat \ {0}          \* a request made has version 1
  /\ {MaxCommands, MaxFailures, MaxCrashes} \subseteq Nat

VARIABLES
  manifest,   \* collections/index.json: the ids listed, and the active one
  dirs,       \* the directory of each collection: tree.json, requests/, metadata.json
  cache,      \* the resolver: the collection of each request, or NoCache
  up,         \* whether the program runs
  view,       \* app.js: collections listed, the active one, the items shown and whose they are
  mirror,     \* data-store.js: _activeCollectionId, _activeItems, _activeHeaders
  pending,    \* _pendingRequestPatches: the version each edited request waits with
  armed,      \* whether _requestSaveTimer runs
  queue,      \* messages to the main process
  reply,      \* the answer a handler of the renderer resumes with, or NoReply
  wanted,     \* history: what each collection should hold, by what the user did
  home,       \* history: the collection each request was made in
  gone,       \* history: the requests the user deleted
  life,       \* history: each collection is unused, made, listed in the manifest, or deleted
  overlapped, \* history: a command met an unfinished switch, see OffScreen and Switching
  slips,      \* history: what else happened that the code does not cope with:
              \*   mirror     a save took the rest of a collection from a mirror that lost it
              \*   late       an edit waited for a collection off screen: it was made during a
              \*              switch, or its batch outlasted one
              \*   overtaken  a batch sent an older patch after another batch's newer one
              \*   failed     a save failed, and the user was told, or a removal did
              \*   swallowed  the granular write of an edit failed, and nobody was told
              \*   unread     a read failed, and was answered as if nothing was there
  commands, failures, crashes

mainVars == <<manifest, dirs, cache>>
rendererVars == <<view, mirror, pending, armed>>
historyVars == <<wanted, home, gone, life, overlapped, slips>>
vars == <<mainVars, up, rendererVars, queue, reply, historyVars, commands, failures, crashes>>

Versions == 0..MaxVersion
Nothing == [r \in Req |-> 0]
Empty == [items |-> Nothing, headers |-> 0]
NoDir == [tree |-> {}, files |-> Nothing, headers |-> 0]
NoCache == <<>>
Ends == [step |-> "ends"]                 \* nothing awaits the answer
NoReply == [then |-> Ends, data |-> Empty]

In(items) == {r \in Req : items[r] > 0}

-----------------------------------------------------------------------------
(* The stores of the main process. *)

\* getCollections: a reference whose file is missing is skipped.
Content(c) == [items |-> [r \in Req |-> IF r \in dirs[c].tree THEN dirs[c].files[r] ELSE 0],
               headers |-> dirs[c].headers]

\* _rebuild: only listed collections are scanned, all if there is no manifest, and the
\* smallest id owns a duplicate.
Scanned == IF manifest.colls = {} THEN Coll ELSE manifest.colls
Scan == [r \in Req |-> LET owners == {c \in Scanned : dirs[c].files[r] > 0}
                       IN IF owners = {} THEN 0 ELSE Min(owners)]
Resolved == IF cache = NoCache THEN Scan ELSE cache

\* saveCollections writes the metadata, then the tree, then each request; files
\* is the set of requests written by then.
Headed(d, headers) == [d EXCEPT !.headers = headers]
Saved(d, items, headers, files) ==
  [Headed(d, headers) EXCEPT !.tree = In(items),
                             !.files = [r \in Req |-> IF r \in files THEN items[r] ELSE @[r]]]
\* Where a save that is cut short may leave the directory.
CutShort(d, items, headers) ==
  {d, Headed(d, headers)} \cup {Saved(d, items, headers, files) : files \in SUBSET In(items)}

-----------------------------------------------------------------------------
(* Messages.  "then" is what the handler does with the answer. *)

Save(c, items, headers, then) ==
  [op |-> "save", coll |-> c, items |-> items, headers |-> headers, then |-> then]
Load(c, then) == [op |-> "load", coll |-> c, then |-> then]
SaveManifest(colls, c, then) == [op |-> "manifest", colls |-> colls, coll |-> c, then |-> then]
Update(r, v, then) == [op |-> "update", req |-> r, version |-> v, then |-> then]
DeleteFile(r) == [op |-> "delete", req |-> r, then |-> Ends]
RemoveDir(c) == [op |-> "remove", coll |-> c, then |-> Ends]
LoadEnvironments(then) == [op |-> "environments", then |-> then]

Send(message) == queue' = Append(queue, message)

\* A handler that works on collections awaits an answer; a batch of edits alone
\* is no such handler.
OfCollections(then) == then # Ends /\ ~(then.step = "batch" /\ then.then = Ends)
Switching == \/ \E i \in DOMAIN queue : OfCollections(queue[i].then)
             \/ OfCollections(reply.then)

Note(slip, happened) == slips' = slips \cup {x \in {slip} : happened}

\* The mirror has lost the headers of the collection it is about to save.
HeadersStale(c) == mirror.headers # wanted[c].headers

\* saveCollectionData: the rest of the collection comes from the mirror, or is
\* read first when the collection is not the active one.
SaveCollectionData(c, items, then) ==
  IF c = mirror.active
  THEN /\ mirror' = [mirror EXCEPT !.items = items]
       /\ Send(Save(c, items, mirror.headers, then))
       /\ Note("mirror", HeadersStale(c))
  ELSE /\ Send(Load(c, [step |-> "rewrite", coll |-> c, items |-> items, then |-> then]))
       /\ UNCHANGED <<mirror, slips>>

\* The patches of a batch are sent one by one, each after the answer to the last.
Batch(patches, then) ==
  \E r \in In(patches) :
    LET rest == [patches EXCEPT ![r] = 0] IN
    Send(Update(r, patches[r],
                IF rest = Nothing /\ then = Ends THEN Ends
                ELSE [step |-> "batch", patches |-> rest, then |-> then]))

\* Variant: the timer is stopped but its patches stay.
Variant_FlushKeepsPatches(then) ==
  /\ armed' = FALSE
  /\ UNCHANGED pending
  /\ SaveCollectionData(view.active, view.items, then)

\* Variant: the collection is changed before the old tree is saved.
Variant_SaveUnderTheNewId(then) ==
  /\ pending' = Nothing
  /\ armed' = FALSE
  /\ SaveCollectionData(then.coll, view.items, then)

\* _flushRequestEdits and then the save of the shown tree, as a switch begins.
FlushAndSave(then) ==
  /\ pending' = Nothing
  /\ armed' = FALSE
  /\ IF pending = Nothing
     THEN SaveCollectionData(view.active, view.items, then)
     ELSE /\ mirror' = [mirror EXCEPT !.items = view.items]
          /\ Batch(pending, then)
          /\ UNCHANGED slips

-----------------------------------------------------------------------------
(* What the user does to requests. *)

\* A command of the user.  The bounds: MaxCommands, and none after two overlapped,
\* where every claim ends.
Command == /\ up /\ reply = NoReply
           /\ commands < MaxCommands /\ ~overlapped
           /\ commands' = commands + 1
           /\ UNCHANGED <<mainVars, up, reply, failures, crashes>>

\* The tree on screen is not, or not yet, that of the collection the mirror holds.
OffScreen == view.shown # mirror.active

\* An edit made while a switch was under way waits, its collection being off screen.
Late == \E r \in In(pending) : home[r] # view.shown

\* hippo:request-updated: the tree in memory, and a debounced save.
Edit(r) ==
  LET v == view.items[r] + 1 IN
  /\ Command
  /\ view.items[r] > 0 /\ v \in Versions
  /\ view' = [view EXCEPT !.items[r] = v]
  /\ wanted' = [wanted EXCEPT ![view.shown].items[r] = v]
  /\ pending' = [pending EXCEPT ![r] = v]
  /\ armed' = TRUE
  /\ UNCHANGED <<mirror, queue, home, gone, life, overlapped, slips>>

\* Variant: the mirror does not follow the edits.
Variant_TimerLeavesTheMirror ==
  /\ up /\ armed /\ reply = NoReply
  /\ armed' = FALSE
  /\ pending' = Nothing
  /\ overlapped' = (overlapped \/ OffScreen)
  /\ Note("late", Late)
  /\ IF pending = Nothing THEN UNCHANGED queue ELSE Batch(pending, Ends)
  /\ UNCHANGED <<mainVars, up, view, mirror, reply, wanted, home, gone, life,
                 commands, failures, crashes>>

\* The timer of _scheduleRequestSave: the mirror follows the tree, and the patches go.
TimerFires ==
  /\ up /\ armed /\ reply = NoReply
  /\ armed' = FALSE
  /\ pending' = Nothing
  /\ mirror' = [mirror EXCEPT !.items = view.items]
  /\ overlapped' = (overlapped \/ OffScreen)
  /\ Note("late", Late)
  /\ IF pending = Nothing THEN UNCHANGED queue ELSE Batch(pending, Ends)
  /\ UNCHANGED <<mainVars, up, view, reply, wanted, home, gone, life,
                 commands, failures, crashes>>

\* hippo:collections-changed: the whole active collection is saved, under the id and
\* with the headers of the mirror.
SaveStructure(items) ==
  /\ view' = [view EXCEPT !.items = items]
  /\ wanted' = [wanted EXCEPT ![view.shown].items = items]
  /\ mirror' = [mirror EXCEPT !.items = items]
  /\ overlapped' = (overlapped \/ OffScreen)
  /\ Note("mirror", HeadersStale(view.shown))

AddRequest(r) ==
  LET items == [view.items EXCEPT ![r] = 1] IN
  /\ Command
  /\ home[r] = 0
  /\ SaveStructure(items)
  /\ home' = [home EXCEPT ![r] = view.shown]
  /\ Send(Save(mirror.active, items, mirror.headers, Ends))
  /\ UNCHANGED <<pending, armed, gone, life>>

\* Variant: only the file of a deleted request goes.
Variant_DeleteFileOnly(r) ==
  /\ Command
  /\ view.items[r] > 0
  /\ view' = [view EXCEPT !.items[r] = 0]
  /\ wanted' = [wanted EXCEPT ![view.shown].items[r] = 0]
  /\ gone' = gone \cup {r}
  /\ pending' = [pending EXCEPT ![r] = 0]
  /\ Send(DeleteFile(r))
  /\ UNCHANGED <<mirror, armed, home, life, overlapped, slips>>

\* The tree is saved first, then hippo:requests-deleted removes the file.
DeleteRequest(r) ==
  LET items == [view.items EXCEPT ![r] = 0] IN
  /\ Command
  /\ view.items[r] > 0
  /\ SaveStructure(items)
  /\ gone' = gone \cup {r}
  /\ pending' = [pending EXCEPT ![r] = 0]
  /\ queue' = queue \o <<Save(mirror.active, items, mirror.headers, Ends), DeleteFile(r)>>
  /\ UNCHANGED <<armed, home, life>>

\* handleCollHeadersSave of the active collection.
SetHeaders ==
  LET c == view.active
      headers == wanted[c].headers + 1 IN
  /\ Command
  /\ headers \in Versions
  /\ wanted' = [wanted EXCEPT ![c].headers = headers]
  /\ overlapped' = (overlapped \/ OffScreen \/ c # mirror.active)
  /\ IF c = mirror.active
     THEN /\ mirror' = [mirror EXCEPT !.headers = headers]
          /\ Send(Save(c, mirror.items, headers, Ends))
          /\ Note("mirror", In(mirror.items) # In(wanted[c].items))
     ELSE /\ Send(Load(c, [step |-> "headers", coll |-> c, headers |-> headers]))
          /\ UNCHANGED <<mirror, slips>>
  /\ UNCHANGED <<view, pending, armed, home, gone, life>>

-----------------------------------------------------------------------------
(* What the user does to collections: each command starts a handler. *)

CollectionCommand == /\ Command
                     /\ overlapped' = (overlapped \/ Switching)
                     /\ UNCHANGED <<wanted, home, gone>>

\* handleCollSelect and activateCollection.
SelectCollection(c) ==
  /\ CollectionCommand
  /\ c \in view.colls \ {view.active}
  /\ FlushAndSave([step |-> "switchSaved", coll |-> c])
  /\ UNCHANGED <<view, life>>

\* Variant: the new collection takes the place of the active one in the list.
Variant_AddReplacesTheActive(c) ==
  /\ CollectionCommand
  /\ life[c] = "unused"
  /\ life' = [life EXCEPT ![c] = "made"]
  /\ SaveCollectionData(c, Nothing,
       [step |-> "addStored", coll |-> c, colls |-> (view.colls \ {view.active}) \cup {c}])
  /\ UNCHANGED <<view, pending, armed>>

\* handleCollAdd; the list of collections is the one of this moment.
AddCollection(c) ==
  /\ CollectionCommand
  /\ life[c] = "unused"
  /\ life' = [life EXCEPT ![c] = "made"]
  /\ SaveCollectionData(c, Nothing,
       [step |-> "addStored", coll |-> c, colls |-> view.colls \cup {c}])
  /\ UNCHANGED <<view, pending, armed>>

\* handleCollDelete, never of the last collection.  Edits of the active one are
\* dropped and another is loaded; that of another one only empties the mirror.
DeleteCollection(c) ==
  LET rest == view.colls \ {c} IN
  /\ CollectionCommand
  /\ c \in view.colls /\ rest # {}
  /\ life' = [life EXCEPT ![c] = "deleted"]
  /\ IF c = view.active
     THEN /\ pending' = Nothing
          /\ armed' = FALSE
          /\ \E next \in rest :
               Send(Load(next, [step |-> "deleteLoaded", coll |-> next, colls |-> rest, old |-> c]))
          /\ UNCHANGED <<view, mirror>>
     ELSE /\ view' = [view EXCEPT !.colls = rest]
          /\ mirror' = [active |-> view.active, items |-> Nothing, headers |-> 0]
          /\ Send(SaveManifest(rest, view.active, [step |-> "deleteListed", old |-> c]))
          /\ UNCHANGED <<pending, armed>>
  /\ Note("late", c = view.active /\ Late)

-----------------------------------------------------------------------------
(* The handlers of the renderer, as the answers arrive. *)

\* The handler that awaited a message with this step goes on.
Resume(step) == /\ reply.then.step = step
                /\ reply' = NoReply
                /\ UNCHANGED <<mainVars, up, wanted, home, gone, life, overlapped,
                               commands, failures, crashes>>

\* _persistRequestEdits: the next patch of the batch.  An older one may follow a
\* newer one that another batch has sent, and the timer's may outlast a switch.
NextPatch ==
  LET patches == reply.then.patches
      newest == wanted[view.shown].items IN
  /\ Resume("batch")
  /\ patches # Nothing
  /\ Batch(patches, reply.then.then)
  /\ slips' = slips
       \cup {x \in {"overtaken"} : \E r \in In(patches) :
                                     patches[r] < newest[r] /\ pending[r] < newest[r]}
       \cup {x \in {"late"} : reply.then.then = Ends /\ \E r \in In(patches) : home[r] # view.shown}
  /\ UNCHANGED rendererVars

\* The flush is done: saveCollectionData of the collection left.
Flushed ==
  /\ Resume("batch")
  /\ reply.then.patches = Nothing
  /\ SaveCollectionData(view.active, view.items, reply.then.then)
  /\ UNCHANGED <<view, pending, armed>>

\* saveCollectionData of a collection that is not active: its headers were read.
Rewrite ==
  /\ Resume("rewrite")
  /\ Send(Save(reply.then.coll, reply.then.items, reply.data.headers, reply.then.then))
  /\ UNCHANGED <<rendererVars, slips>>

\* saveCollectionHeaders likewise.
RewriteHeaders ==
  /\ Resume("headers")
  /\ Send(Save(reply.then.coll, reply.data.items, reply.then.headers, Ends))
  /\ UNCHANGED <<rendererVars, slips>>

\* activateCollection, once the old collection is saved: setActiveCollection.
SwitchSaved ==
  LET c == reply.then.coll IN
  /\ Resume("switchSaved")
  /\ mirror' = [active |-> c, items |-> Nothing, headers |-> 0]
  /\ view' = [view EXCEPT !.active = c]
  /\ Send(SaveManifest(view.colls, c, [step |-> "switchListed", coll |-> c]))
  /\ UNCHANGED <<pending, armed, slips>>

SwitchListed ==
  /\ Resume("switchListed")
  /\ Send(Load(reply.then.coll, [step |-> "switchLoaded", coll |-> reply.then.coll]))
  /\ UNCHANGED <<rendererVars, slips>>

\* loadCollectionData: the mirror only takes what is still the active collection's.
Mirrored(c, data) ==
  IF c = mirror.active THEN [active |-> c, items |-> data.items, headers |-> data.headers]
                       ELSE mirror

SwitchLoaded ==
  LET c == reply.then.coll IN
  /\ Resume("switchLoaded")
  /\ mirror' = Mirrored(c, reply.data)
  /\ view' = [view EXCEPT !.items = reply.data.items, !.shown = c]
  /\ UNCHANGED <<pending, armed, queue, slips>>

\* handleCollAdd, once the new collection and its environments are stored: the rest
\* is a switch to it, with nothing to load.
AddStored ==
  /\ Resume("addStored")
  /\ FlushAndSave([reply.then EXCEPT !.step = "addSaved"])
  /\ UNCHANGED view

AddSaved ==
  LET c == reply.then.coll IN
  /\ Resume("addSaved")
  /\ mirror' = [active |-> c, items |-> Nothing, headers |-> 0]
  /\ view' = [view EXCEPT !.colls = reply.then.colls, !.active = c]
  /\ Send(SaveManifest(reply.then.colls, c, [step |-> "addListed", coll |-> c]))
  /\ UNCHANGED <<pending, armed, slips>>

AddListed ==
  /\ Resume("addListed")
  /\ view' = [view EXCEPT !.items = Nothing, !.shown = reply.then.coll]
  /\ UNCHANGED <<mirror, pending, armed, queue, slips>>

\* handleCollDelete, once the next collection is loaded: setActiveCollection comes
\* after loadCollectionData, and leaves the mirror empty.
DeleteLoaded ==
  LET c == reply.then.coll IN
  /\ Resume("deleteLoaded")
  /\ mirror' = [active |-> c, items |-> Nothing, headers |-> 0]
  /\ view' = [view EXCEPT !.items = reply.data.items, !.shown = c]
  /\ Send(LoadEnvironments([reply.then EXCEPT !.step = "deleteShown"]))
  /\ UNCHANGED <<pending, armed, slips>>

DeleteShown ==
  LET c == reply.then.coll IN
  /\ Resume("deleteShown")
  /\ view' = [view EXCEPT !.colls = reply.then.colls, !.active = c]
  /\ Send(SaveManifest(reply.then.colls, c, [step |-> "deleteListed", old |-> reply.then.old]))
  /\ UNCHANGED <<mirror, pending, armed, slips>>

DeleteListed ==
  /\ Resume("deleteListed")
  /\ Send(RemoveDir(reply.then.old))
  /\ UNCHANGED <<rendererVars, slips>>

-----------------------------------------------------------------------------
(* The main process serves the first message. An answer nothing awaits is dropped. *)

Serve(op) ==
  /\ up /\ reply = NoReply
  /\ queue # <<>> /\ Head(queue).op = op
  /\ queue' = Tail(queue)
  /\ UNCHANGED <<up, rendererVars, wanted, home, gone, overlapped, commands, crashes>>

Answer(data) ==
  reply' = IF Head(queue).then = Ends THEN NoReply
           ELSE [then |-> Head(queue).then, data |-> data]

Works == UNCHANGED <<slips, failures>>
Fails(slip) == /\ failures < MaxFailures
               /\ failures' = failures + 1
               /\ slips' = slips \cup {slip}

\* store:collections:save; a failure is answered too, and the handlers go on.
ServeSave ==
  LET m == Head(queue) IN
  /\ Serve("save")
  /\ \/ /\ Works
        /\ dirs' = [dirs EXCEPT ![m.coll] = Saved(@, m.items, m.headers, In(m.items))]
        /\ cache' = NoCache
     \/ /\ Fails("failed")
        /\ \E d \in CutShort(dirs[m.coll], m.items, m.headers) :
             dirs' = [dirs EXCEPT ![m.coll] = d]
        /\ UNCHANGED cache
  /\ Answer(Empty)
  /\ UNCHANGED <<manifest, life>>

\* store:collections:get; what cannot be read is answered as an empty collection.
ServeLoad ==
  /\ Serve("load")
  /\ \/ Works /\ Answer(Content(Head(queue).coll))
     \/ Fails("unread") /\ Answer(Empty)
  /\ UNCHANGED <<mainVars, life>>

\* store:manifest:save; the resolver is not told.
ServeManifest ==
  LET m == Head(queue) IN
  /\ Serve("manifest")
  /\ \/ /\ Works
        /\ manifest' = [colls |-> m.colls, active |-> m.coll]
        /\ life' = [c \in Coll |-> IF c \in m.colls /\ life[c] = "made" THEN "listed" ELSE life[c]]
     \/ Fails("failed") /\ UNCHANGED <<manifest, life>>
  /\ Answer(Empty)
  /\ UNCHANGED <<dirs, cache>>

\* store:requests:update.  An unknown request, or a failed write, is answered with
\* an error that data-store's updateRequest takes for success.
ServeUpdate ==
  LET m == Head(queue)
      c == Resolved[m.req]
      known == c # 0 /\ dirs[c].files[m.req] > 0 IN
  /\ Serve("update")
  /\ cache' = Resolved
  /\ \/ /\ Works
        /\ dirs' = IF known THEN [dirs EXCEPT ![c].files[m.req] = m.version] ELSE dirs
     \/ known /\ Fails("swallowed") /\ UNCHANGED dirs
  /\ Answer(Empty)
  /\ UNCHANGED <<manifest, life>>

\* store:requests:delete: the file, then its place in the tree, then the cache.
ServeDelete ==
  LET m == Head(queue)
      c == Resolved[m.req]
      known == c # 0 /\ dirs[c].files[m.req] > 0 IN
  /\ Serve("delete")
  /\ \/ /\ known /\ Works
        /\ dirs' = [dirs EXCEPT ![c].files[m.req] = 0, ![c].tree = @ \ {m.req}]
        /\ cache' = [Resolved EXCEPT ![m.req] = 0]
     \/ /\ known /\ Fails("failed")          \* the tree could not be written
        /\ dirs' = [dirs EXCEPT ![c].files[m.req] = 0]
        /\ cache' = [Resolved EXCEPT ![m.req] = 0]
     \/ /\ \/ ~known /\ Works
           \/ known /\ Fails("failed")       \* nor the file removed
        /\ cache' = Resolved
        /\ UNCHANGED dirs
  /\ Answer(Empty)
  /\ UNCHANGED <<manifest, life>>

\* store:collections:delete, which swallows what it cannot remove.
ServeRemove ==
  /\ Serve("remove")
  /\ \/ Works /\ dirs' = [dirs EXCEPT ![Head(queue).coll] = NoDir]
     \/ Fails("failed") /\ UNCHANGED dirs
  /\ cache' = NoCache
  /\ Answer(Empty)
  /\ UNCHANGED <<manifest, life>>

\* store:environments:get, whose content is not modelled.
ServeEnvironments ==
  /\ Serve("environments")
  /\ Works
  /\ Answer(Empty)
  /\ UNCHANGED <<mainVars, life>>

-----------------------------------------------------------------------------
(* Start and crash. *)

\* loadAll.  A manifest without collections, or one that cannot be read, is taken
\* for a first run: a default collection is made and the manifest written.  What was
\* deleted and is still listed is back.
Boot ==
  /\ ~up
  /\ up' = TRUE
  /\ \/ /\ manifest.colls # {}
        /\ Works
        /\ \E c \in IF manifest.active \in manifest.colls THEN {manifest.active}
                                                           ELSE manifest.colls :
             view' = [colls |-> manifest.colls, active |-> c, shown |-> c, items |-> Content(c).items]
        /\ life' = [c \in Coll |-> IF c \in manifest.colls /\ life[c] = "deleted"
                                  THEN "listed" ELSE life[c]]
        /\ UNCHANGED manifest
     \/ \E c \in Coll :
          /\ life[c] = "unused"
          /\ view' = [colls |-> {c}, active |-> c, shown |-> c, items |-> Nothing]
          /\ \/ /\ IF manifest.colls = {} THEN Works ELSE Fails("unread")
                /\ life' = [life EXCEPT ![c] = "listed"]
                /\ manifest' = [colls |-> {c}, active |-> c]
             \/ /\ manifest.colls = {} /\ Fails("failed")
                /\ life' = [life EXCEPT ![c] = "made"]
                /\ UNCHANGED manifest
  /\ mirror' = [active |-> view'.active, items |-> view'.items,
                headers |-> dirs[view'.active].headers]
  /\ wanted' = [c \in Coll |-> Content(c)]
  /\ gone' = {r \in gone : \A c \in Coll : Content(c).items[r] = 0}
  /\ cache' = NoCache
  /\ UNCHANGED <<dirs, pending, armed, queue, reply, home, overlapped, commands, crashes>>

\* The program ends: what it had not saved is gone, and a save may be cut short.
Crash ==
  /\ up
  /\ crashes < MaxCrashes
  /\ crashes' = crashes + 1
  /\ up' = FALSE
  /\ queue' = <<>>
  /\ reply' = NoReply
  /\ pending' = Nothing
  /\ armed' = FALSE
  /\ \/ UNCHANGED dirs
     \/ LET m == Head(queue) IN
        /\ queue # <<>> /\ m.op = "save"
        /\ \E d \in CutShort(dirs[m.coll], m.items, m.headers) :
             dirs' = [dirs EXCEPT ![m.coll] = d]
  /\ UNCHANGED <<manifest, cache, view, mirror, historyVars, commands, failures>>

-----------------------------------------------------------------------------

Init ==
  /\ manifest = [colls |-> {}, active |-> 0]
  /\ dirs = [c \in Coll |-> NoDir]
  /\ cache = NoCache
  /\ up = FALSE
  /\ view = [colls |-> {}, active |-> 0, shown |-> 0, items |-> Nothing]
  /\ mirror = [active |-> 0, items |-> Nothing, headers |-> 0]
  /\ pending = Nothing /\ armed = FALSE
  /\ queue = <<>> /\ reply = NoReply
  /\ wanted = [c \in Coll |-> Empty]
  /\ home = [r \in Req |-> 0]
  /\ gone = {}
  /\ life = [c \in Coll |-> "unused"]
  /\ overlapped = FALSE /\ slips = {}
  /\ commands = 0 /\ failures = 0 /\ crashes = 0

Next ==
  \/ Boot \/ Crash
  \/ \E r \in Req : Edit(r) \/ AddRequest(r) \/ DeleteRequest(r)
  \/ \E c \in Coll : SelectCollection(c) \/ AddCollection(c) \/ DeleteCollection(c)
  \/ SetHeaders \/ TimerFires
  \/ NextPatch \/ Flushed \/ Rewrite \/ RewriteHeaders
  \/ SwitchSaved \/ SwitchListed \/ SwitchLoaded
  \/ AddStored \/ AddSaved \/ AddListed
  \/ DeleteLoaded \/ DeleteShown \/ DeleteListed
  \/ ServeSave \/ ServeLoad \/ ServeManifest \/ ServeUpdate \/ ServeDelete
  \/ ServeRemove \/ ServeEnvironments

Spec == Init /\ [][Next]_vars

-----------------------------------------------------------------------------
(* Properties. *)

Settled == up /\ queue = <<>> /\ reply = NoReply /\ ~armed

\* The disk holds what the user did, and the program shows it.
UpToDate ==
  /\ manifest = [colls |-> view.colls, active |-> view.active]
  /\ view.shown = view.active
  /\ view.items = Content(view.active).items
  /\ \A c \in view.colls : Content(c) = wanted[c]

\* When nothing is under way any more, every edit, new or deleted request and header
\* the user made is on the disk, in the collection it was made in, and no other
\* collection has changed: for timers, switches and messages in any order that is none
\* of the slips, and after a crash in the middle of any save (_flushRequestEdits,
\* setActiveItems and the order of messages are there for this).  Left out, among the
\* orders, are a patch that a newer one has overtaken, a batch that outlasts a switch
\* away and back, and a save of headers from a mirror that was emptied.
DiskCatchesUp == ~overlapped /\ slips = {} /\ Settled => UpToDate

\* A request is only ever in the collection it was made in, even when writes and
\* reads fail, are cut short or come with a stale mirror (activateCollection flushes
\* before it changes the active collection).
RequestsStayHome ==
  ~overlapped => \A c \in Coll, r \in Req :
    r \in dirs[c].tree \/ dirs[c].files[r] > 0 => home[r] = c

\* A request the user deleted does not come back once its deletion was served, even
\* if one of the two writes of a deletion failed.
DeletedStaysDeleted ==
  ~overlapped /\ failures < 2 /\ Settled =>
    \A r \in gone, c \in manifest.colls : Content(c).items[r] = 0

\* A collection the manifest has listed stays listed until the user deletes it, as
\* long as the manifest can be read: an unreadable one is answered with an empty one,
\* which loadAll saves a default over, against its own words ("the catch branch below
\* must NOT", data-store.js 455).
CollectionsStayListed ==
  ~overlapped /\ "unread" \notin slips => {c \in Coll : life[c] = "listed"} \subseteq manifest.colls

\* What the user deleted is gone, and what the user did not delete is not.
DeletionsAreTheUsers == DeletedStaysDeleted /\ CollectionsStayListed

\* Saving the headers of a collection never takes a request out of its tree (said of
\* the mirror in _persistRequestEdits and by setActiveItems).
HeadersNeverTakeRequests ==
  ~overlapped /\ slips \subseteq {"mirror"} /\ Settled =>
    \A c \in view.colls : In(Content(c).items) = In(wanted[c].items)

\* An edit whose own write failed is saved with the whole collection instead (said of
\* updateRequest and of the writes of data-store, none of which may fail silently).
FailedEditIsSavedInFull ==
  ~overlapped /\ slips \subseteq {"swallowed"} /\ Settled => UpToDate

\* The variables range over what they should, patches wait only while the timer runs
\* (_flushRequestEdits, _discardRequestEdits), and one listed collection is active.
TypeOK ==
  /\ manifest \in [colls : SUBSET Coll, active : Coll \cup {0}]
  /\ dirs \in [Coll -> [tree : SUBSET Req, files : [Req -> Versions], headers : Versions]]
  /\ cache = NoCache \/ cache \in [Req -> Coll \cup {0}]
  /\ view \in [colls : SUBSET Coll, active : Coll \cup {0}, shown : Coll \cup {0},
               items : [Req -> Versions]]
  /\ mirror \in [active : Coll \cup {0}, items : [Req -> Versions], headers : Versions]
  /\ pending \in [Req -> Versions] /\ pending # Nothing => armed
  /\ wanted \in [Coll -> [items : [Req -> Versions], headers : Versions]]
  /\ slips \subseteq {"mirror", "failed", "swallowed", "unread", "overtaken", "late"}
  /\ up /\ ~overlapped => view.active \in view.colls /\ view.shown \in Coll
=============================================================================

---------------------------- MODULE BackupRestore ----------------------------
(***************************************************************************)
(* Backup and restore of the workspace (src/src/app/store/backup.js).      *)
(*                                                                         *)
(* A restore in "replace" mode moves the workspace's directories aside,    *)
(* writes the backup and then drops the copies, or rolls back to them; a   *)
(* restore in "merge" mode writes over the workspace in place.  `restore`   *)
(* is the one in progress; between any two of its file-system effects a    *)
(* write or a move can throw, a removal can be swallowed, and the process  *)
(* can die.  A directory is the function from the paths of its files to    *)
(* what they hold.                                                         *)
(***************************************************************************)
EXTENDS Naturals, FiniteSets

CONSTANTS
  Colls,        \* collection ids
  Reqs,         \* request ids
  Envs,         \* ids of named environments
  Names,        \* names of collections
  Versions,     \* what a file can hold, as far as it is told apart
  Workspaces,   \* workspaces a restore can find: directory -> files
  Backups,      \* backup documents it can be given
  Faults,       \* the kinds of fault that happen
  MaxRestoreFaults,    \* bound on their number
  MaxRestores   \* bound on the number of restores

Areas == {"collections", "environments"}   \* `environments` only in old profiles
Nothing == [p \in {} |-> 0]                \* a directory that is not there

Paths == {<<"manifest">>, <<"legacy">>}
         \cup ({"metadata", "tree", "environments"} \X Colls)
         \cup ({"request"} \X Colls \X Reqs)

Partial(S, T) == UNION {[D -> T] : D \in SUBSET S}

Manifest == [names : Partial(Colls, Names), settings : Versions]
NoManifest == [names |-> Nothing, settings |-> 0]

HasType(p, v) ==
  CASE p[1] = "manifest" -> v \in Manifest
    [] p[1] = "tree" -> v \subseteq Reqs
    [] p[1] = "environments" -> DOMAIN v \subseteq Envs /\ \A e \in DOMAIN v : v[e] \in Versions
    [] OTHER -> v \in Versions

Directory(d) == DOMAIN d \subseteq Paths /\ \A p \in DOMAIN d : HasType(p, d[p])

ASSUME WorkspaceAssumption ==
  \A w \in Workspaces : /\ w = [a \in Areas |-> w[a]]
                          /\ \A a \in Areas : Directory(w[a])
ASSUME FaultAssumption ==
  /\ Faults \subseteq {"write", "move", "removal", "crash"}
  /\ MaxRestoreFaults \in Nat /\ MaxRestores \in Nat

VARIABLES
  live,         \* the workspace: directory -> files
  aside,        \* the `.restore-bak` copies: directory -> files
  restore,      \* the restore in progress
  before,       \* history: the workspace the last restore found
  last,         \* history: the last restore, its backup and how it ended
  restores,     \* how many restores were started
  mishaps       \* how many faults happened, and whether a move or removal failed

restoreVars == <<live, aside, restore, before, last, restores, mishaps>>

-----------------------------------------------------------------------------
(* Export *)

\* _ensureTreeHasRequests: an empty tree next to requests becomes a folder of them.
EnsureTreeHasRequests(tree, reqs) == IF tree = {} THEN reqs ELSE tree

ReadOr(d, p, default) == IF p \in DOMAIN d THEN d[p] ELSE default

RequestsIn(d, c) == {q \in Reqs : <<"request", c, q>> \in DOMAIN d}

ExportCollection(d, c) ==
  [id |-> c, metadata |-> d[<<"metadata", c>>],
   requests |-> [q \in RequestsIn(d, c) |-> d[<<"request", c, q>>]],
   tree |-> EnsureTreeHasRequests(ReadOr(d, <<"tree", c>>, {}), RequestsIn(d, c)),
   environments |-> ReadOr(d, <<"environments", c>>, Nothing)]

NoBackup == [manifest |-> NoManifest, environments |-> Nothing, collections |-> {}]

\* exportAll: every collection directory that has a metadata file, listed in the
\* manifest or not.
ExportAll(d) ==
  [manifest |-> ReadOr(d, <<"manifest">>, NoManifest),
   environments |-> Nothing,                     \* only in old backups
   collections |-> {ExportCollection(d, c) :
                      c \in {k \in Colls : <<"metadata", k>> \in DOMAIN d}}]

\* A backup is what exportAll writes, now or when one set of environments served all
\* collections: one entry for each collection, its tree not empty next to requests.
BackupEntry(e) ==
  /\ e = [id |-> e.id, metadata |-> e.metadata, requests |-> e.requests, tree |-> e.tree,
          environments |-> e.environments]
  /\ e.id \in Colls /\ e.metadata \in Versions /\ e.requests \in Partial(Reqs, Versions)
  /\ e.tree \subseteq Reqs /\ e.tree = EnsureTreeHasRequests(e.tree, DOMAIN e.requests)
  /\ e.environments \in Partial(Envs, Versions)

ASSUME BackupAssumption ==
  \A b \in Backups :
    /\ b = [manifest |-> b.manifest, environments |-> b.environments,
            collections |-> b.collections]
    /\ b.manifest \in Manifest \cup {NoManifest} /\ b.environments \in Partial(Envs, Versions)
    /\ \A e \in b.collections : BackupEntry(e)
    /\ \A e, f \in b.collections : e.id = f.id => e = f

-----------------------------------------------------------------------------
(* The restore in progress *)

NoRestore == [job |-> "none", step |-> "none", left |-> {}, moved |-> {},
         manifest |-> NoManifest, pending |-> {}, at |-> {}, reqs |-> {}]

\* One directory after the other, collections first.
Turn == IF "collections" \in restore.left THEN "collections" ELSE "environments"

\* Variant: the next step finds no directory to work on.
Variant_ProceedWithNone(o, next) ==
  IF o.left = {Turn} THEN [o EXCEPT !.left = {}, !.step = next]
  ELSE [o EXCEPT !.left = @ \ {Turn}]

\* The next directory, or the next step with all of them.
NextArea(o, next) ==
  IF o.left = {Turn} THEN [o EXCEPT !.left = Areas, !.step = next]
  ELSE [o EXCEPT !.left = @ \ {Turn}]

Finish(result) == restore' = NoRestore /\ last' = [last EXCEPT !.result = result]

RestoreInit ==
  /\ live \in Workspaces
  /\ aside = [a \in Areas |-> Nothing]
  /\ restore = NoRestore /\ before = live
  /\ last = [job |-> "none", result |-> "none", backup |-> NoBackup]
  /\ restores = 0 /\ mishaps = [n |-> 0, moves |-> FALSE]

BeginRestore(job, step, b, manifest, pending) ==
  /\ restore.job = "none" /\ restores < MaxRestores
  /\ restores' = restores + 1
  /\ restore' = [NoRestore EXCEPT !.job = job, !.step = step, !.left = Areas,
                        !.manifest = manifest, !.pending = pending]
  /\ before' = live
  /\ last' = [job |-> job, result |-> "running", backup |-> b]
  /\ UNCHANGED <<live, aside, mishaps>>

\* Variant: a replace, too, takes only what the manifest lists.
Variant_ReplaceListedOnly(b) ==
  /\ b # NoBackup
  /\ BeginRestore("replace", "clear", b, b.manifest,
           {e \in b.collections : e.id \in DOMAIN b.manifest.names})

\* importAll, replace mode: refused when there is nothing to restore.
BeginReplace(b) ==
  /\ b # NoBackup
  /\ BeginRestore("replace", "clear", b, b.manifest, b.collections)

-----------------------------------------------------------------------------
(* Merging *)

Current == ReadOr(live["collections"], <<"manifest">>, NoManifest)

Override(f, g) == [x \in DOMAIN f \cup DOMAIN g |-> IF x \in DOMAIN g THEN g[x] ELSE f[x]]

\* _buildNameIdMap: a collection the workspace does not know by id goes to one it
\* knows by name.
Slots(b) ==
  LET mine == Current.names
      theirs == b.manifest.names
      byName(c) == {k \in DOMAIN mine : mine[k] = theirs[c]}
      mapped == {c \in DOMAIN theirs \ DOMAIN mine : byName(c) # {}}
  IN {s \in [mapped -> DOMAIN mine] : \A c \in mapped : s[c] \in byName(c)}

\* _mergeManifest: the lists united by id, less what was mapped by name; the
\* settings there are win.
MergeManifest(b, slot) ==
  LET theirs == b.manifest.names
      new == [c \in DOMAIN theirs \ DOMAIN slot |-> theirs[c]]
  IN IF b.manifest = NoManifest THEN NoManifest
     ELSE IF Current = NoManifest THEN b.manifest
     ELSE [names |-> Override(Current.names, new), settings |-> Current.settings]

\* Variant: every collection of the backup is written.
Variant_AllowAll(b) == b.collections

\* A merge takes the collections the backup's own manifest lists.
Allowed(b) ==
  {e \in b.collections : b.manifest = NoManifest \/ e.id \in DOMAIN b.manifest.names}

BeginMerge(b, slot) ==
  /\ slot \in Slots(b)
  /\ BeginRestore("merge", "write", b, MergeManifest(b, slot),
           {[e EXCEPT !.id = ReadOr(slot, e.id, e.id)] : e \in Allowed(b)})

-----------------------------------------------------------------------------
(* _stageReplace: clear old copies, move the workspace aside *)

ClearAside ==
  /\ restore.step = "clear"
  /\ aside' = [aside EXCEPT ![Turn] = Nothing]
  /\ restore' = NextArea(restore, "stage")
  /\ UNCHANGED <<live, before, last, restores, mishaps>>

\* A directory that is not there is not moved; one cannot be moved onto another.
Stage ==
  /\ restore.step = "stage"
  /\ live[Turn] # Nothing => aside[Turn] = Nothing
  /\ IF live[Turn] = Nothing
     THEN restore' = NextArea(restore, "write") /\ UNCHANGED <<live, aside>>
     ELSE /\ aside' = [aside EXCEPT ![Turn] = live[Turn]]
          /\ live' = [live EXCEPT ![Turn] = Nothing]
          /\ restore' = NextArea([restore EXCEPT !.moved = @ \cup {Turn}], "write")
  /\ UNCHANGED <<before, last, restores, mishaps>>

-----------------------------------------------------------------------------
(* _writeImport: one atomic write per action *)

Put(p, v) ==
  live' = [live EXCEPT !["collections"] =
             [q \in DOMAIN @ \cup {p} |-> IF q = p THEN v ELSE @[q]]]

WriteManifest ==
  /\ restore.step = "write" /\ restore.manifest # NoManifest
  /\ Put(<<"manifest">>, restore.manifest)
  /\ restore' = [restore EXCEPT !.manifest = NoManifest]
  /\ UNCHANGED <<aside, before, last, restores, mishaps>>

WriteMetadata ==
  /\ restore.step = "write" /\ restore.manifest = NoManifest
  /\ \E e \in restore.pending :
       /\ Put(<<"metadata", e.id>>, e.metadata)
       /\ restore' = [restore EXCEPT !.step = "requests", !.pending = @ \ {e}, !.at = {e},
                           !.reqs = DOMAIN e.requests]
  /\ UNCHANGED <<aside, before, last, restores, mishaps>>

WriteRequest ==
  /\ restore.step = "requests"
  /\ \E e \in restore.at, q \in restore.reqs :
       /\ Put(<<"request", e.id, q>>, e.requests[q])
       /\ restore' = [restore EXCEPT !.reqs = @ \ {q}]
  /\ UNCHANGED <<aside, before, last, restores, mishaps>>

\* Variant: the tree does not wait for the requests.
Variant_WriteTreeFirst ==
  /\ restore.step = "requests"
  /\ \E e \in restore.at :
       /\ Put(<<"tree", e.id>>, EnsureTreeHasRequests(e.tree, DOMAIN e.requests))
       /\ restore' = [restore EXCEPT !.step = "environments", !.reqs = {}]
  /\ UNCHANGED <<aside, before, last, restores, mishaps>>

WriteTree ==
  /\ restore.step = "requests" /\ restore.reqs = {}
  /\ \E e \in restore.at :
       /\ Put(<<"tree", e.id>>, EnsureTreeHasRequests(e.tree, DOMAIN e.requests))
       /\ restore' = [restore EXCEPT !.step = "environments"]
  /\ UNCHANGED <<aside, before, last, restores, mishaps>>

\* Variant: the backup's environments win outright in both modes.
Variant_TakeEnvironments(e) ==
  IF e.environments # Nothing THEN e.environments ELSE last.backup.environments

\* _mergeEnvironments: a merge unites the collection's environments with the
\* backup's by id; an old backup has one set for all collections.
MergedEnvironments(e) ==
  LET incoming == IF e.environments # Nothing THEN e.environments
                  ELSE last.backup.environments
  IN IF restore.job = "replace" THEN incoming
     ELSE Override(ReadOr(live["collections"], <<"environments", e.id>>, Nothing), incoming)

WriteEnvironments ==
  /\ restore.step = "environments"
  /\ \E e \in restore.at :
       IF e.environments = Nothing /\ last.backup.environments = Nothing
       THEN UNCHANGED live
       ELSE Put(<<"environments", e.id>>, MergedEnvironments(e))
  /\ restore' = [restore EXCEPT !.step = "write", !.at = {}]
  /\ UNCHANGED <<aside, before, last, restores, mishaps>>

\* Everything is written: a replace drops the copies, a merge is done.
AllWritten ==
  /\ restore.step = "write" /\ restore.manifest = NoManifest /\ restore.pending = {}
  /\ IF restore.job = "merge" THEN Finish("ok")
     ELSE restore' = [restore EXCEPT !.step = "commit", !.left = Areas] /\ UNCHANGED last
  /\ UNCHANGED <<live, aside, before, restores, mishaps>>

-----------------------------------------------------------------------------
(* commit and restore of the staged copies *)

Commit ==
  /\ restore.step = "commit"
  /\ aside' = [aside EXCEPT ![Turn] = Nothing]
  /\ IF restore.left = {Turn} THEN Finish("ok")
     ELSE restore' = NextArea(restore, "commit") /\ UNCHANGED last
  /\ UNCHANGED <<live, before, restores, mishaps>>

DropPartial ==
  /\ restore.step = "undo"
  /\ live' = [live EXCEPT ![Turn] = Nothing]
  /\ restore' = NextArea(restore, "putback")
  /\ UNCHANGED <<aside, before, last, restores, mishaps>>

EndPutBack ==
  IF restore.left = {Turn} THEN Finish("failed")
  ELSE restore' = NextArea(restore, "putback") /\ UNCHANGED last

\* A move back onto a directory that could not be removed fails and is left.
PutBack ==
  /\ restore.step = "putback"
  /\ IF Turn \in restore.moved /\ live[Turn] = Nothing
     THEN /\ live' = [live EXCEPT ![Turn] = aside[Turn]]
          /\ aside' = [aside EXCEPT ![Turn] = Nothing]
     ELSE UNCHANGED <<live, aside>>
  /\ EndPutBack
  /\ UNCHANGED <<before, restores, mishaps>>

-----------------------------------------------------------------------------
(* Faults *)

RestoreFault(kind) == /\ kind \in Faults /\ mishaps.n < MaxRestoreFaults
               /\ mishaps' = [n |-> mishaps.n + 1,
                             moves |-> mishaps.moves \/ kind \in {"move", "removal"}]

\* Variant: a failed write leaves without the rollback.
Variant_RestoreWriteFailsForGood ==
  /\ restore.step \in {"write", "requests", "environments"}
  /\ RestoreFault("write")
  /\ Finish("failed")
  /\ UNCHANGED <<live, aside, before, restores>>

\* A write throws, or an id is refused: importAll's catch.
RestoreWriteFails ==
  /\ restore.step \in {"write", "requests", "environments"}
  /\ RestoreFault("write")
  /\ IF restore.job = "merge" THEN Finish("failed")
     ELSE /\ restore' = [restore EXCEPT !.step = "undo", !.left = Areas, !.at = {}]
          /\ UNCHANGED last
  /\ UNCHANGED <<live, aside, before, restores>>

\* A directory cannot be moved aside, for a reason of its own or because an old
\* copy could not be cleared: _stageReplace throws before importAll's try.
StageFails ==
  /\ restore.step = "stage" /\ live[Turn] # Nothing
  /\ \/ RestoreFault("move")
     \/ aside[Turn] # Nothing /\ UNCHANGED mishaps
  /\ Finish("failed")
  /\ UNCHANGED <<live, aside, before, restores>>

\* Variant: the copy is cleaned up even when it could not be moved back.
Variant_PutBackFailsAndCleans ==
  /\ restore.step = "putback" /\ Turn \in restore.moved
  /\ RestoreFault("move")
  /\ aside' = [aside EXCEPT ![Turn] = Nothing]
  /\ EndPutBack
  /\ UNCHANGED <<live, before, restores>>

\* A move back throws and is swallowed.
PutBackFails ==
  /\ restore.step = "putback" /\ Turn \in restore.moved
  /\ RestoreFault("move")
  /\ EndPutBack
  /\ UNCHANGED <<live, aside, before, restores>>

\* io.remove swallows a failure: nothing was removed, or all but one file.
Leftovers(d) ==
  {d} \cup {[q \in {p} |-> d[q]] : p \in DOMAIN d}

LeavesFiles ==
  /\ RestoreFault("removal")
  /\ \/ /\ restore.step \in {"clear", "commit"}
        /\ \E d \in Leftovers(aside[Turn]) : aside' = [aside EXCEPT ![Turn] = d]
        /\ IF restore.step = "commit" /\ restore.left = {Turn} THEN Finish("ok")
           ELSE /\ restore' = NextArea(restore, IF restore.step = "clear" THEN "stage" ELSE "commit")
                /\ UNCHANGED last
        /\ UNCHANGED live
     \/ /\ restore.step = "undo"
        /\ \E d \in Leftovers(live[Turn]) : live' = [live EXCEPT ![Turn] = d]
        /\ restore' = NextArea(restore, "putback")
        /\ UNCHANGED <<aside, last>>
  /\ UNCHANGED <<before, restores>>

\* The process dies.  Nothing at startup looks for `.restore-bak`.
RestoreDies ==
  /\ restore.job # "none"
  /\ RestoreFault("crash")
  /\ Finish(IF restore.step = "commit" THEN "ok" ELSE "crashed")
  /\ UNCHANGED <<live, aside, before, restores>>

-----------------------------------------------------------------------------
RestoreNext ==
  \/ \E b \in Backups : BeginReplace(b)
  \/ \E b \in Backups : \E slot \in Slots(b) : BeginMerge(b, slot)
  \/ ClearAside \/ Stage
  \/ WriteManifest \/ WriteMetadata \/ WriteRequest \/ WriteTree
  \/ WriteEnvironments \/ AllWritten
  \/ Commit \/ DropPartial \/ PutBack
  \/ RestoreWriteFails \/ StageFails \/ PutBackFails \/ LeavesFiles \/ RestoreDies

RestoreSpec == RestoreInit /\ [][RestoreNext]_restoreVars

-----------------------------------------------------------------------------
(* Properties *)

\* Every variable has its type.
RestoreTypeOK ==
  /\ DOMAIN live = Areas /\ DOMAIN aside = Areas /\ DOMAIN before = Areas
  /\ \A a \in Areas : Directory(live[a]) /\ Directory(aside[a]) /\ Directory(before[a])
  /\ restore.job \in {"none", "replace", "merge"}
  /\ restore.step \in {"none", "clear", "stage", "write", "requests", "environments",
                  "commit", "undo", "putback"}
  /\ (restore.job # "none") => restore.left # {}
  /\ restore.left \subseteq Areas /\ restore.moved \subseteq Areas
  /\ last.job \in {"none", "replace", "merge"}
  /\ last.result \in {"none", "running", "ok", "failed", "crashed"}
  /\ restores \in 0..MaxRestores /\ mishaps \in [n : 0..MaxRestoreFaults, moves : BOOLEAN]

\* Until a replace has written the whole backup, each directory it found is where
\* it was or in the copy, whatever fails, is swallowed or dies in between
\* (backup.js 313-316: never silently lost).
OriginalsSurvive ==
  (last.job = "replace" /\ last.result # "ok" /\ restore.step # "commit") =>
    \A a \in Areas : before[a] # Nothing => before[a] \in {live[a], aside[a]}

\* A replace that reports failure left the workspace it found: the trees are moved
\* aside "so a failure partway through rolls back to the original workspace"
\* (backup.js 262-264).
FailureRollsBack ==
  (last.job = "replace" /\ last.result = "failed") => live = before

\* The same, as long as no move or removal ever failed: failed writes and crashes,
\* in any order and over several attempts, do not break the rollback.
FailedRestoreRollsBack == mishaps.moves \/ FailureRollsBack

\* What a replace restores: the backup, an old one's shared environments given
\* to every collection.
Restored(b) ==
  [b EXCEPT !.environments = Nothing,
            !.collections = {[e EXCEPT !.environments =
                                IF @ # Nothing THEN @ ELSE b.environments] : e \in @}]

\* After a replace succeeded the workspace exports to the very backup it was
\* restored from, and nothing of the previous one shows through.
ReplaceIsExact ==
  (last.job = "replace" /\ (last.result = "ok" \/ restore.step = "commit")) =>
    /\ ExportAll(live["collections"]) = Restored(last.backup)
    /\ live["environments"] = Nothing

\* At every moment a crash can freeze, a tree refers to request files that exist:
\* the requests are written before their tree (backup.js 382).  Only what a
\* swallowed removal left behind may dangle.
TreeNeverDangles ==
  ~mishaps.moves => \A c \in Colls :
    ReadOr(live["collections"], <<"tree", c>>, {}) \subseteq RequestsIn(live["collections"], c)

\* A merge, finished or not, brings in no collection its backup's manifest does
\* not list (an orphaned directory of the source machine is not promoted,
\* backup.js 355-360), and loses no environment of any collection.
MergeOnlyAdds ==
  last.job = "merge" =>
    \A c \in Colls :
      /\ (/\ last.backup.manifest # NoManifest
          /\ <<"metadata", c>> \in DOMAIN live["collections"]
          /\ <<"metadata", c>> \notin DOMAIN before["collections"])
            => c \in DOMAIN Current.names
      /\ DOMAIN ReadOr(before["collections"], <<"environments", c>>, Nothing)
           \subseteq DOMAIN ReadOr(live["collections"], <<"environments", c>>, Nothing)

\* Replace or merge, a restore brings what its backup holds and no more, and
\* never shows a tree without its requests on the way.
RestoresAreExact == ReplaceIsExact /\ MergeOnlyAdds /\ TreeNeverDangles
=============================================================================

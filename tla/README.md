# A TLA+ model of Rest Hippo

Rest Hippo is an Electron REST client. Its main process (`src/src/app`) owns the
files of the workspace, the secrets in them, the network and the scripts; its
renderer (`src/src/web/scripts`) holds the editor, the in-memory copies of what it
edits and the list of recent runs, and talks to the main process over IPC. Paths
below are relative to `src/src/`.

## 1. The system

| part | state it keeps | operations | what is hard about it | what makes it correct |
|---|---|---|---|---|
| History store (`app/store/history-store.js`) | two files per run: entry and response | add, list by page, get response, delete, clear, trim, orphan sweep | every operation is several file effects; removals are best-effort; pages are read while the list changes | a run keeps its response; nothing unreachable stays; a trim takes the oldest; pages miss nothing that stays, repeat nothing but ties of one timestamp, and end |
| Secret storage (`app/store/secret-storage.js`, `crypto.js`, `secret-storage:*` in `app/main.js`) | `secret-storage.json`, the app-key file, keys in memory, the prefix of each sealed value | bootstrap, infer, set-mode, unlock, lock, re-encrypt, resume | a switch of backend is dozens of durable writes; crash, retry, missing keystore, forgotten files | no value is sealed under a key that is gone; the next launch can read everything; the mode flips last; a switch is finished |
| File primitives (`app/store/io.js`) | temp files, quarantined files | atomicWrite, writeJSON, readJSON, remove, move, temp GC | power loss between write, fsync and rename; temp names that are used again | a reader sees the old or the new document, and a write that returned is there for good |
| Workspace stores (`collections-store`, `collection-store`, `tree-store`, `request-store`, `environment-store`, `cookie-store`, `resolver`) | manifest, tree, request files, environments, cookies; the request-to-collection map | save/load of each, move between collections, delete | several files per save; the resolver's cache; a save that clobbers what could not be decrypted | a request is in one collection; a stale cache is rebuilt; secrets survive a round trip |
| Backup (`app/store/backup.js`) | the workspace and its `.restore-bak` copies | export, import merge, import replace with rollback | failure or crash between moving aside, writing and committing | a failed restore leaves the original workspace |
| Startup migrations (`app/store/stores.js`) | the legacy environments file, variables in `metadata.json` | seed the collections' environments, retire the legacy file, fold variables | errors are swallowed one migration at a time; the next launch tells by the files what is done | nothing of the user's is lost or undone, wherever a launch is cut off |
| HTTP engine (`app/net/*.js`) | executions, abort handles, retries, spill files and their registry | send, stop, redirect, retry, Digest/NTLM handshakes, live streams | a stop at any point of the chain; redirects that must drop credentials; a spill file that fails while its source is paused | one reply per execution; credentials stay with their origin; nothing is sent after a stop; no file leaks |
| Request editor (`web/scripts/components/request-editor.js`, `editors/scheduled-send.js`) | `#inFlightIds`, `#streamingReqs`, the schedule | send, stop, schedule, load another request | a send awaits scripts, tokens and the network while the user goes elsewhere, stops it, or sends again | the button tells what is under way; a stopped send stays stopped; a run is recorded once |
| OAuth (`web/scripts/auth/**`, `app/ipc/oauth.js`) | token cache, acquisition in flight, stored refresh tokens, popup | acquire, refresh, device-code polling | refresh tokens that may be used once; forced refreshes; a prompt other popups may take away | exchanges take turns; whoever waits is answered; polling ends |
| WebSocket (`app/net/websocket.js`, `app/ipc/websocket.js`, `app.js`, `ws-handlers.js`) | sockets in the main process, `_wsConns` in the window | connect, disconnect, keep open, reload | a socket that dies before the answer of `ws:open`; a request that is left, or an editor that is cleared, while it connects | the window knows of every open socket; no live dot without a socket |
| Recent runs in the renderer (`app.js`, `event-bus/timeline-handlers.js`, `settings-handlers.js`) | `_requestHistory`, `_historyLoaded` | load, record, delete, clear, trim | an async load racing recordings and deletions; a list in the order of recording over a store in the order of time | the list in memory converges to the one on disk; the newest run is kept |
| Renderer data store (`web/scripts/data-store.js`, `app.js`) | collections, the mirror, dirty timers | debounced saves, reload, switch collection | a save in flight while the data changes | the last edit reaches the disk |
| Environments in the renderer (`app.js`, `popup/collections-popup.js`) | `currentEnvironments`, the variables editor | capture, edit, switch collection | a capture in the middle of a switch; an editor that saves all it shows | a collection's file holds its own environments |
| Folder runs (`app.js` `_runFolder`, `components/tree-view.js`) | `_runningFolders`, `#folderRunResults` | run a folder, clear its counts, move nodes meanwhile | two runs of nested folders; a node moved under a run | runs do not share a folder; every badge adds up |
| Cookies (`app/store/cookie-jar.js`, `cookie-store.js`, `popup/collections-popup.js`) | jar per collection, the manager's rows | capture, select, prune, edit, delete, clear | expiry and replacement in any order; an edit that awaits while the collection is switched | a request carries what was set last for it, and nothing else |
| Scripts, tests, captures (`app/scripting/sandbox.js`, `web/scripts/components/captures.js`) | sandbox per run, captured variables | run, time out, capture | time-out racing completion | one result per script |
| Logger, updater, i18n, window state, CLI launcher, menus, import/export formats, code generation, themes, editors | configuration and presentation | - | parsing and layout rather than state | - |
| Mock server (`src/mock`), website, e2e, packaging scripts | - | - | outside the program | - |

The main process is single-threaded and its storage handlers are synchronous:
two of them never interleave, but each is a sequence of effects between which the
process can die, a write can throw or a best-effort removal can be swallowed. The
renderer is single-threaded as well, but its handlers `await` IPC, so they
interleave with each other at every `await`. These two facts decide the grain of
the modules: one action per file effect in the main process, one action per
`await`-free stretch in the renderer.

## 2. Modules

| layer | modules | suite that checks them |
|---|---|---|
| files of the main process | HistoryStore, HistoryPaging (on HistoryStore), SecretMigration, BackupRestore, StartupMigrations, ResponseBodies, AtomicWrite (implements DurableFile), CookieJars | MCStorage; SecretMigration in MCSecretFaults and MCSecretMigration |
| executions and tokens | HttpChain (implements HttpExecute), OAuthTokens, DeviceCode | MCServices |
| the window | HistoryTimeline, WorkspaceSaves, EnvironmentWrites, WsConnections, FolderRun | MCRenderer |
| window and main process | RequestSend | MCRenderer |

A suite EXTENDS modules that share no state. Its variable `part` is chosen in the
initial state and never changes; only the module it names takes steps, the variables
of the others keep one fixed value. A behaviour of a suite is thus a behaviour of one
module, the states of a suite are the sum, not the product, of those of its modules,
and an invariant of one module is checked in all its states. Definitions named
`Variant_...` are faulty forms of the definition after them, for checking that a
property notices.

### DurableFile and AtomicWrite

DurableFile is what every store expects of one JSON document: it appears as a
whole, a write that failed changed nothing, and after a crash there is a document
that was there before. AtomicWrite is `atomicWrite` of `io.js` call by call: open,
write, fsync of the temp file, rename, fsync of the directory (`OpenTemp`,
`WriteTemp`, `FlushTemp`, `RenameTemp`, `Close`), with calls that throw
(`WriteThrows`), a process that dies, and power that fails. `recall` is what a
reader may find after a power loss: what was renamed but not made durable is either
there or not, what was not flushed may be torn. `Launch` is the sweep for old temp
files; names start over with the process, so `OpenTemp` may overwrite one that was
left. `FileIsDurable` is the refinement. The other modules take a write as one step.

### HistoryStore

`entries` and `responses` are the two kinds of file on disk; `op` is the operation
in progress as the set of effects it still has to make, and its `job` fixes their
order (`MayDropResponse`, `MayDropEntry`). `AddHistory`, `DeleteHistory`,
`ClearHistory` and `TrimAllHistory` are the handlers' entry points, `Boot` and
`StartupTrim` the two sweeps of a launch (`stores.js`, `main.js`), and
`WriteResponse`, `WriteEntry`, `RemoveResponse`, `RemoveEntry` one file effect each.
Faults: `RemovalSwallowed` (io.remove never throws), `OperationThrows` (a write or
a read throws), `Crash`. A run is `[req, id, ts]`; its payload is left out.
`used`, `promised`, `doomed`, `faulty` are history variables for the properties.

### HistoryPaging

HistoryStore with one reader that follows `nextCursor`: `FetchPage` is one call of
`listHistory`. `Stamps` selects how timestamps are stored. The renderer records numbers
(`nowMs`), and that is what every run uses. The cursor is cut out of a string, so
`byNewestFirst` compares a string with a number, its `!==` never sees a tie, the id is not
consulted, and the page begins with the entries that carry the cursor's timestamp, the
cursor's own among them (`ResumeAt`). What still holds is stated: nothing that stays is
missed, only ties are shown again, and every page ends the reading or moves its cursor to
an older entry (`PagingAdvances`, so there is no rewinding) unless the ties of one
timestamp fill a page. The comments of the store promise more: that no entry comes twice
(`NoEntryTwice`), and that paging cannot loop. With numbers the former does not hold, and
where ties fill a page, as one entry does a page of one, the same page may come back for
ever; the exception is part of the property. The renderer asks for the first page only
today. With strings (`Stamps = "iso"`), as in the tests of the store, nothing is repeated;
the theorems cover both.

### SecretMigration

`files` gives each secret-bearing file the backend and key that sealed its secrets,
`config` is `secret-storage.json` (mode, the key its kdf and verifier stand for,
migration marker), `keyfile` the app key on disk, `mem` the state of `crypto.js`.
Keys are numbers: each key that is made gets a fresh one, so "the same key" is
equality. `op` is the handler in progress with its program counter; set-mode and
resumeMigration share the steps `LoadKeys`, `MarkMigration`, `Validate`,
`ClearMigration`, `ConvertFile`, `FlipMode`, `DeleteAppKey` and differ in `origin`.
`Swept` are the files `_secretFiles()` enumerates, `Unswept` those it does not.

### BackupRestore

`live` maps each of the two directories a replace handles to its files, `aside` maps
them to the `.restore-bak` copies; a directory is the function from paths to
contents, so writing a file is one update of it (`Put`). `ExportAll` is the export;
it changes nothing and doubles as the measure of what a restore restored. `restore`
is `importAll` in progress: `BeginRestore` starts it, `NextArea` moves it from one
`step` to the next (clear, stage, write, commit or, after a failure, undo and
putback), `left` says which directories the step still has to handle, `pending`,
`at` and `reqs` what is still to be written. `mishaps` counts faults. `Slots` and
`MergeManifest` are the identity matching of a merge. Versions stand for the
contents of files; the secret transforms of the backup modes do not appear.

### StartupMigrations

`_migrateLegacyEnvironments` and `_foldCollectionVarsIntoGlobal` of `stores.js`,
which the constructor of the stores runs on every launch. `environments` keeps of
each `environments.json` whether it has the old named environments and the value of
one Global variable, `own` the collections whose `metadata.json` has that variable
too. `Seed`, `Retire`, `Fold`, `ClearOwn` are one write or move each;
`SeedingFails` and `FoldingFails` the `catch` of each migration, after which the
launch goes on; `GoDown` the end of the process at any point. The user's later edit
is `EditVariable`, so that a second folding would show.

### HttpExecute and HttpChain

HttpExecute is one call of `http:execute` as its window sees it: it comes to one
reply, a stream is announced at most once, and never after a stop. HttpChain is the
engine: `leg` is one request on the wire with what it carries, `Launch` opens it
(or, after a stop, tears it down before anything is written; a header or a URL that Node
refuses, or a body file that cannot be read, is `BuildFails`), `Redirect`,
`DigestChallenge`, `NtlmChallenge` answer a head with the next leg, `BodyBegins`,
`StreamBegins` end the heads, `EndAttempt` is `executeWithRetries` between two
attempts, `Abort` the stop, which may come during a head, a body or the wait before
a retry. `shown` records which server was sent what. The user's header is one of the four
names of `CREDENTIAL_HEADERS` (`user`) or of another name (`custom`), as an API key often
is: a redirect to another origin drops the former and sends the latter along. `KeepsThePromise` is the
refinement, liveness included: `running` is every state between the call and its
reply.

### ResponseBodies

A body in memory, its move to a spill file when it crosses the threshold, live
streams mirrored to disk, the bounded registry `spilledBodies` and the two handlers
that redeem a reference. `registered` remembers the order in which references were given
out, by which the registry evicts. A chunk is a number; `spill` is the state of the file's
stream, `paused` that the source waits for a drain. A file whose write failed is
never drained: its source stays paused until the connection idles out or is
stopped. The file is taken to be complete when its stream finished without an error.

### OAuthTokens and DeviceCode

OAuthTokens is the executor's cache entry of one configuration with its slot for the
acquisition in flight, and several requests that share the configuration. A token is
the number of the exchange that minted it, and the provider accepts the newest
refresh token only, so a used one is told from a fresh one. `End` is the settling of
a job together with everything that runs before the next event: the panel on screen
stores the token, a forced refresh that was queued starts. DeviceCode is the polling
loop against a clock, with the prompt and the popup manager, in which any other
popup, or a resized window, takes the prompt's place without the flow hearing of it.

### RequestSend

From the Send button to the record of the run. `sends` are the runs of
`#sendRequest`, each at the await it has reached; `engine` is the main process as
HttpExecute promises it, one execution per send; `toWindow` and `toMain` the messages
between them. `Begin`, `Prepared`, `TokenArrives`, `AnswerArrives`, `MarkerArrives`,
`EndArrives` are the stretches between awaits, `ClickSend`, `ClickStop`, `TreeStop`,
`LoadRequest`, `ViewOldRun`, `ReloadWindow` what the user may do at any of them, and
`schedule` the delayed and repeated sends. `tangled` marks requests whose sends got in each
other's way (two at a time by Enter in the URL bar, an old run shown during one, one
that returned without an event): for these the editor keeps one flag per request
where it would need one per send, and the properties about the button and the
schedule leave them out. `NoButtonIsStuck` does not: as long as a request shows Stop,
something is pending that will take it down (an await, an execution, a live stream, a
message), whatever crossed what.

### HistoryTimeline

One request's runs: `mem` is its list in `_requestHistory`, `loaded` its membership
of `_historyLoaded`, `loads` the calls of `_loadRequestHistory` that are waiting and
the run each will record, `invokes` the IPC calls under way and `replies` the answers.
The main process appears only as `ServeTimeline`, one call in one step, because its
handlers are synchronous; `disk` is the set HistoryStore keeps as files. `StartLoad`,
`ReplyArrives`, `FinishLoad` are the stretches of a load between its awaits, and
`Record` what `_recordHistoryEntry` does after it. A run is the number of its timestamp,
and runs are recorded in any order: a streamed one carries the time it was sent and is
recorded when its stream ends, and streams of one request may overlap. So `mem` is in the
order of recording while `Listing` and the trim of the disk go by time, and `latest`, the
run recorded last, need not be the newest. `raced` remembers that a handler
ran while a load waited: the properties that need the list to be complete hold up to
that point. A recording that runs while a first load waits for the disk is shown
until the load's answer replaces the list, so `UndisturbedMemoryMatchesDisk` is what
holds. Failing calls, which every handler answers with a quiet fallback, are left out.

### WorkspaceSaves

The chain from the editor to the files. `view` is what `app.js` shows (`currentColls`
and the tree view; `shown` is the collection whose items are on screen, `active` the
one `currentColls` names), `mirror` the copy of the active collection in
`data-store.js`, `pending` and `armed` the debounced patches and their timer, `queue`
the IPC calls under way, `manifest`, `dirs` and `cache` the files and the resolver's
map. A message carries in `then` the continuation of the handler that awaits it, so
a handler such as `activateCollection` is a chain of actions: `SelectCollection`,
`NextPatch`/`Flushed`, `Rewrite`, `SwitchSaved`, `SwitchListed`, `SwitchLoaded`. The
`Serve` actions are the handlers of the main process, each whole, as they are
synchronous; a failing one may leave a save cut short (`CutShort`), and so may a
`Crash`. `Boot` is `loadAll`.

The answer to a message is taken before anything else happens. Nothing is lost by
that: the main process touches only the files and the head of the queue, the renderer
only its own state and the tail, so a step of one commutes with a step of the other.

`wanted` is what each collection should hold by what the user did. It is compared
with the disk when nothing is under way. Where the code makes no attempt to keep two
handlers apart the properties stop: `overlapped` is set by a command that meets an
unfinished switch, addition or deletion of a collection, and no command follows it.
`slips` names what else can make disk and intention differ, and each property says
which slips it tolerates: a save from a mirror that was emptied (`mirror`), an edit
that waited for a collection off screen (`late`: it was made while a switch was under
way, or the timer's batch outlasted a switch, which takes six edited requests), an old
patch of one batch after a newer patch of the next (`overtaken`), a write that fails with a toast (`failed`) or
without (`swallowed`), a read answered as if nothing was there (`unread`: a manifest
or a collection that cannot be read is shown, and later saved, empty). The slips
are not rare by construction: the runs saves_stale_mirror and saves_swallowed reach
two of those that contradict the code's own comments. A third is `unread`: `loadAll`
means not to save a default over a manifest it could not read (data-store.js 455-457),
but an unreadable one reaches it as an empty answer and not as an error.

### EnvironmentWrites

`held` is `currentEnvironments`, `shelf` the files, `draft` what an open variables
editor shows. A document carries the collection whose file it first was (`of`), so
one that ends in another's file is seen. `BeginVisit`, `SetActive`,
`AskEnvironments` and the served load are the awaited steps of `activateCollection`;
`Capture` and `SaveDraft` write at any of them. `crossed` marks behaviours in which
something was written halfway through a switch, where the code goes wrong
(env_misfiled), or two switches overlapped.

### WsConnections

A socket's id is the number of the attempt to connect. `hub` is the main process,
`registry` the window's `_wsConns` in its order, `early` its `_wsPendingTerminal`,
`pushes` what is on its way, per socket in order. `Connect`, `OldOneClosed` and
`Reply` are the stretches of `ws-connect`; `SelectSession`, `KeepOpen`,
`CloseOnLeaving`, `ResumeSession` those of leaving a request, with its modal
question; `ClearEditor` leaves no request on screen, `Navigate` is a reload, on which the
main process drops the sockets. `Nobody` stands for the request of an empty editor: a
socket may be registered under it (`Reply` after `ClearEditor`), and no lookup finds it
again (`Connected`), as the code then compares null with undefined. `RegistryMatchesHub`
counts such a socket as known; that the window can close it is not claimed, and the run
ws_clearing shows that clearing the editor leaves a connection open.

### CookieJars

`jar` is `cookies.json` of each collection, `tab` the manager's selection and its
rows, `asked` the lists it waits for, `saving` a save between its two calls.
`CaptureCookies` is one response (one read, one write), `Captured` the loop over its
lines, the operators it uses are those of `cookie-jar.js` under their own names (`Upsert`, `SelectCookies`,
`PathMatch`...). `told` is a history variable: what every jar was told, as lines and
URLs rather than as entries, and `Due` reads off it what a request is to carry, by
RFC 6265 instead of by the jar's own normalisation. All cookies have one name.

### FolderRun

`tree` gives each node its parent, `runs` are the calls of `_runFolder` with what
each took from the tree when it started, `badges` the tallies the tree shows.
`StartRun` is the guard and the plan, `Execute`, `Answered`, `Recorded`,
`RequestFails`, `EndRun` the loop, `Move` and `ClearCounts` what may happen to the
tree meanwhile.

## 3. Runs

| run | module, cfg | shows | bounds |
|---|---|---|---|
| storage | MCStorage | of HistoryStore: `EntryKeepsItsResponse`, `NothingIsLeftBehind` (orphans only after a fault; a trim reaches its limit), `TrimSparesTheNewest`; of HistoryPaging: `PagingGetsThrough` (`PagingMissesNothing` and `PagingAdvances`), `RepeatsAreTies`; of BackupRestore: `OriginalsSurvive`, `FailedRestoreRollsBack`, `RestoresAreExact` (a tree never shows without its requests); `BodiesAreAccounted`, `FileIsDurable`, `LaunchesLoseNothing`, `RequestsCarryWhatIsDue`; the type invariants | history: two requests, three runs, two timestamps (ties and a clock that steps back), limits 0 and 1, two faults, so a crash inside an operation may be followed by a swallowed removal, and a trim drops two entries. paging: one request, three runs in the order of their ids, up to three numeric timestamps (ties of two, which fill a page, and of three, and a clock that steps back), pages of two, no faults (a crash ends the reader). restore: four workspaces (fresh; upgraded with an old environments directory; one with an unlisted directory; two collections), their exports and an old-format backup, two restores in a row, three faults: a crash, a failing retry and a failing rollback. bodies: three of up to three chunks, one in memory, a registry of two: the third body evicts the first of the others, and only that one. write: two documents. migrations: two collections, any number of launches, crashes and errors. cookies: two jars, a domain and a host under it, two URLs, two responses of two lines, two ticks, three writes: set, replaced under another scope or path, edited or deleted, expired in between |
| secret_crash | MCSecretFaults, SecretCrash.cfg | `NoSecretLost`, `SecretsStayReadable`, `SealedUnderTheMode`, `SwitchesAreFinished`, `TypeOK`; `FaultsLoseNoSecret` | two files. When only crashes happen (any number): all three backends, four set-mode calls (out, back, and out again with an interruption). When writes fail, removals are swallowed and the keystore is missing in some sessions as well: the app key and the keystore, three calls |
| services | MCServices | of HttpChain: `CredentialsStayHome`, `LostPostIsNotRepeated`, `StopMeansStop`, `KeepsThePromise`; of OAuthTokens: `ExchangesTakeTurns`; `WhatBeginsEnds` (an acquisition of a token, the device code flow, with its code on screen meanwhile); the type invariants | chain: two servers, every method and authentication, two redirects (away and back), two attempts. tokens: two requests, four tokens, four acquisitions: two forced ones behind one in flight. device: a code of three ticks, six ticks in all |
| renderer | MCRenderer | of HistoryTimeline: `NewestRunKept`, `DeletedRunStaysDeleted`, `UndisturbedMemoryMatchesDisk`; of WorkspaceSaves: `DiskCatchesUp`, `RequestsStayHome`, `DeletionsAreTheUsers`; `UncrossedEnvironmentsAgree`; `RegistryMatchesHub`; `FolderRunsAreSound`; of RequestSend: `StopIsFinal`, `ButtonTellsTheTruth`, `IntervalWaitsForItsSend`, `NoButtonIsStuck`; the type invariants | timeline: three runs that end in any order of their times, limits 0 to 2, two loads at a time, three edits: two overlapping loads with a purge and a deletion between them, and an older run that purges a newer one from the list. workspace: two collections, two symmetric requests, three versions, five commands, one failure, one crash: a second collection is added, a request edited, the collection left with patches waiting, and a save cut off. environments: two collections, two writes, two switches, three calls under way. sockets: two requests, two attempts, one reload. folders: two folders, nested or side by side, a request in each, two runs, one move. sending: two requests, one of them with a script and OAuth; two sends; sent at once, which is where every loaded request starts, or repeatedly; one reload |
| secret_retry | MCSecretMigration, SecretRetry.cfg | violation: `NoSecretLost` (finding 1) | failing writes, all backends |
| secret_environments | MCSecretMigration, SecretEnvironments.cfg | violation: `NoSecretLost` (finding 2) | one file outside `_secretFiles` |
| backup_stage_failure | MCBackupRestore, BackupStageFailure.cfg | violation: `FailureRollsBack` with a failing move (finding 3) | one fault, one restore |
| saves_stale_mirror | WorkspaceSaves, SavesStaleMirror.cfg | violation: `HeadersNeverTakeRequests` (finding 4) | four commands, no faults |
| saves_swallowed | WorkspaceSaves, SavesSwallowed.cfg | violation: `FailedEditIsSavedInFull` (finding 5) | three commands, one failure |
| migrations | StartupMigrations, MigrationsUnread.cfg | violation: `LegacyReachesEveryCollection` when a migration fails (finding 6) | two collections |
| env_misfiled | EnvironmentWrites, EnvironmentsMisfiled.cfg | violation: `EnvironmentsStayHome` (finding 7) | two collections, two writes, two switches |
| ws_clearing | WsConnections, WsClearing.cfg | violation: `ClearingTearsDown` (finding 8) | one request, one socket |

Findings are numbered as in PROJECT.json, which quotes the comments they
contradict. Deadlock is checked in the runs of SecretMigration, where the app can always
be started again. Every other model may come to rest, because its bounds are used up or
because the user does nothing; that what is under way comes to an end is stated by the
liveness properties of services, by `NoButtonIsStuck` and `PagingGetsThrough` instead.

Fairness, each time of steps that end something already begun, never of the user:

- SecretMigration (`FairSpec`): the app is started again after it died (weak fairness
  of `Boot`), no single step of a handler is cut off by a crash every time it is
  tried (strong fairness of the steps), and the user answers the password prompt in
  the end. Nothing is assumed of set-mode, lock or the saving of secrets.
- HttpChain: the idle time-out bounds the wait for a response head, a timer the wait
  between attempts, a destroyed socket reports its error, and a body ends. The last
  is an assumption about servers: one that trickles a body for ever is never idle,
  and the engine has no other limit.
- OAuthTokens: every exchange comes to one of its ends (requests have a time-out; a
  popup is closed some day). Nothing is assumed of which.
- DeviceCode: time passes, the two requests are answered or time out, timers fire.
  The server may answer "pending" for ever: the deadline ends the flow.

In MCServices conjuncts of different parts share a `WF`: only one part ever steps, so
only one disjunct is ever enabled.

## 4. Proofs

Eight modules hold theorems, each about one or more components. All hold for every
value of the constants that satisfies the assumptions of the modules (`ASSUME ...
Assumption`: bounds are naturals, a "none" value is not one of the things it stands
next to). The form is the same throughout: an invariant that a run checks is seldom
inductive, so a stronger one is stated (`...Inv`), checked with TLC on a small
instance, and proved from `Init` and for each action; the properties follow from it.

`Storage_proofs` (HistoryStore, HistoryPaging; its other half is below):

- `TypeCorrect`: `Spec => []TypeOK`.
- `ResponseKept`: `Spec => []EntryKeepsItsResponse`. `PairInv` adds that an entry about
  to be written has its response on disk once none is left to write, that what an
  operation may remove belongs to doomed entries or is an orphan, that no operation
  both writes and removes, and that ids are not reused (one entry per id).
- `SessionsLeaveNothingBehind` (`NothingIsLeftBehind`) and `TrimsSpareTheNewest`
  (`TrimSparesTheNewest`). `TidyInv` says what an operation in progress still has to
  do: without a fault every entry to be dropped has its response dropped with it,
  every response without an entry is about to go or about to get one, and what a trim
  lets stay are the newest, as many as it keeps. `Newer` is shown to be a strict order
  whose ranks have no gaps, which is what a trim counts on.
- `ReadersGetThrough` (`PagingGetsThrough`), which puts together `PagesMissNothing` and
  `PagingMovesOn`, and `OnlyTiesRepeat` (`RepeatsAreTies`), for
  numeric and for string timestamps. The pages so far end at an entry with the id and
  timestamp of the cursor, or with numbers at one of its ties, and what was there all along
  and is not shown comes after it (`StandsAt`). Whichever way timestamps are compared, an
  entry after the cursor's is one that the cursor resumes at, and what it resumes at is
  not newer than the cursor's timestamp.
  For `PagingMovesOn`: a page that leaves something over is full (`PageIsFull`), so unless
  ties of the cursor fill it, its last entry is older than the cursor. Each page thus ends the reading or moves the cursor down; that a reader of
  finitely many entries comes to an end follows and is not proved in itself.

`SecretsAndBackups_proofs` (SecretMigration, BackupRestore):

- `SecretTypeCorrect` and, under `OnlyCrashes` (no failing write, the keystore always
  there, every secret-bearing file enumerated by `_secretFiles`), `NoCrashLosesASecret`,
  `CrashesLeaveSecretsReadable` and `SwitchesConvertEverything`, for any number of
  files, switches and crashes. `IInv` says which backends a file may be under at each
  point (`Backends`: the configured one, or the two of the marker), that the keys of
  sealed values are the ones on disk, and what each step of a handler may rely on
  (`OpInv`: `Settled` at rest, `Starting` before the marker, `Switching` after it,
  `WaitingForPassword` in a session that must be unlocked). The runs secret_retry and
  secret_environments show that writes that fail and files that are not enumerated
  each break the conclusion.
- `FaultsAloneLoseNoSecret`, under `NoPasswords` (the user switches between the app key and the
  keystore, every secret-bearing file is enumerated), whatever writes fail and removals
  are swallowed and whether or not the keystore is there: `FaultInv` says that no part
  of the state speaks of a master password, that the app key in memory and the one of
  any sealed value is the key on disk, that a switch to the app key has it in memory
  from the marker on, and that no value is under it when it is dropped. This is what
  `FaultsLoseNoSecret` states of the second world of the run secret_crash, for every
  number of files and switches.
- `OriginalsAreNeverLost` and `FailuresRollBack`, for any workspaces, backups and
  bounds. `Surviving` says, step by step, whether the original of a directory is live,
  in the copy or in either; `Rolling` adds that exactly the directories that existed
  were noted as moved and that what an undo has not reached is not the original.
  `RInv` asks for `Rolling` only until a move or removal fails (`mishaps.moves`); the
  run backup_stage_failure shows that this hypothesis is needed.
- `RestoresBringTheBackup` (`ReplaceIsExact` and `MergeOnlyAdds`), `RestoresNeverDangle`
  (all of `RestoresAreExact`) and `RestoreTypeCorrect`, for any workspaces and for any
  backups as exportAll makes them (`BackupAssumption`: one entry for a collection, its
  tree not empty next to requests). `ExactInv` says, entry by entry, which files a
  replace has written and that there are no others (`Stands`), so that the last one
  makes the directory export to the backup; it needs to know that the originals were
  moved away before the first write (`Waiting`). `MergeInv`: what is still to be written
  is listed in the manifest to be written, or in the one there is, under the id the
  collection was mapped to (`SlotsAreListed`). `WholeInv`: each entry's requests are in
  the directory before its tree. That no tree dangles is claimed only if none did in
  the workspaces and backups themselves (`NothingDangles`, a hypothesis of that theorem:
  exportAll does not check it), and until a removal or a move fails. TLC checked these
  invariants on 447,763 states (the bounds of storage).

`Storage_proofs`, the other half (AtomicWrite, StartupMigrations, CookieJars,
ResponseBodies):

- `WriteTypeCorrect`, `FilesAreNeverTorn` and the refinement `AtomicWriteIsDurable`
  (`WriteSpec => FileIsDurable`), for any set of documents. `WriteInv` adds
  `Progress`, what each step of a write has achieved: once the temp file is renamed
  the target is the draft, and nothing unflushed was renamed. `StepDurable` maps every
  step to a step of DurableFile or to none.
- `MigrationTypeCorrect` and `NoLaunchLosesAnything` for any collections and profiles.
  `MigrationInv` adds that until a read, write or move fails a file is a sign that its
  collection was seeded (`SeedingIsTold`, which is what the resumed migration goes
  by), that the user edits only when all is folded (`EditsAreLast`), and that a
  collection is cleared only after its folding (`FoldedFirst`).
- `CookiesTypeCorrect` and `RequestsCarry` (`RequestsCarryWhatIsDue`), for any URLs,
  responses of any length and number of edits. `Sound` says of a jar and of what it was
  told that what has not expired of the one is what is still good of the other, and
  that no order is of the future, without which a `Max-Age` of zero or less would not
  delete. `LoopRuns` shows that the loop over a response has a result: that the
  recursive function it is modelled by exists is no axiom of the prover, and follows
  from the least length for which it would not. `PathMatches` and `DomainMatches` bring
  together the jar's tests of a prefix and what RFC 6265 says.
- `BodiesTypeCorrect` and `BodiesAreKept` (`BodiesAreAccounted`), for any number of
  bodies, window size and capacity. `Held` says which chunks memory, file and window
  hold between them at each step; `RegistrySound` counts: the registry holds distinct
  references, no more than its capacity, and they are the ones given out last
  (`Recent`): one it gave up was followed by that many.

`Services_proofs` (HttpChain, OAuthTokens):

- `ChainTypeCorrect`, `NamedCredentialsStayHome`, `PostsAreNotRepeated`, `StopsAreFinal`
  and `ChainKeepsThePromise`, the safety half of the refinement of HttpExecute: the
  chain of legs is one call that is answered once. That nobody has been shown a
  credential says nothing of the next leg; `ChainInv` adds that a leg away from home
  carries no header of the four names, no signature, no Digest answer and no body
  (`AwayIsBare`; what it may carry is a header of another name and the type-3 answer to
  an NTLM challenge), that a lost POST has ended the execution unless the user
  opted in (`LossesEnd`), and that an execution sleeps only before an attempt it has
  left (`Standing`).
- `TokensTypeCorrect` and `TurnsAreTaken` (`ExchangesTakeTurns`), for any number of
  acquisitions. `Queued` says that the acquisitions of a configuration form a queue by
  age, at most the eldest on the wire and every other waiting for the one before it;
  `SlotIsLast` that `_inFlight` names its tail, so that a latecomer joins there; and
  `CacheIsFresh` that between exchanges what is cached is what the provider accepts.

`RequestSend_proofs`: `SendTypeCorrect`, `StopsStay` (`StopIsFinal`),
`ButtonsTellTheTruth`, `IntervalsWaitForASend` and `NoButtonStaysStuck`, for any number
of sends. The window
keeps no register of sends before the execution: it knows a request by its name in
several sets (`inFlight`, `spinning`, `streaming`). `SendsInv` says, request by request
and until it is tangled, how these sets follow its one open send: `OpenOnce`, `LiveStreams`,
`RegretsWait`, `ButtonOf`, `FiringWaits`. `StuckInv` holds for tangled requests too: what
each state of an execution may still have on its way to the window (`Lanes`), and that a
request in flight has a send that waits for it (`AllWait`).

`Timeline_proofs` (HistoryTimeline): `TimelineTypeCorrect`, `DeletedRunsStayDeleted`,
`NewestRunsAreKept` and `ListsShowTheDisk`, for any number of runs, loads and limits.
The properties speak of a settled window, so the invariant has to say where every call
under way is heading: there is a chain of disk contents, from the present one through
the effect of each queued call (`Settling`, `Chain`), and its end is what was recorded
without what was dropped, and with the run that is both the last recorded and the newest
(`Lead`) unless that was dropped (`Fate`). A step appends to the chain, or takes its head.
While no handler ran during a load (`Calm`) the list is the end of the chain. Lists are
in no order of time; what keeps `Lead` is that every list shows it first if at all
(`Listed`), so that a purge, which takes from the end, does not reach it, nor does a
trim, which takes the oldest.

`Window_proofs` (WsConnections, EnvironmentWrites, FolderRun):

- `SocketTypeCorrect` and `ConnectionsAreKnown` (`RegistryMatchesHub`), for any number of
  sockets and reloads. `Accounted` says, socket by socket, what the messages on their
  way still have to tell: one that is alive is registered or its reply is coming, one
  that is registered is alive or its end is coming.
- `EnvironmentTypeCorrect` and `EnvironmentsAgree` (`UncrossedEnvironmentsAgree`). Until a
  write falls into a switch (`~crossed`): one switch at a time, every call is for its
  own collection, and the last of them carries what the window holds.
- `FolderRunsKeepApart` (`FolderRunsAreSound`), for any tree and number of runs.
  `TallySound` says what a run still owes each of its folders, as the number of its
  requests below it; `ParentIsLocked` that the parent of a request still to be sent is
  a folder of the run.

`WorkspaceSaves_proofs`: `SavesTypeCorrect`, `RequestsNeverStray` (`RequestsStayHome`),
`CollectionsAreNeverDropped` (`CollectionsStayListed`) and `OnlyTheUserDeletes`
(`DeletionsAreTheUsers`, which is that and `DeletedStaysDeleted`). The handlers of a
switch, an addition or a deletion await several answers, and nothing in the code keeps
a second one from beginning; `SavesIInv` says what holds until one does (`~overlapped`).
`OneHandler`: one message at most, or the answer to it, belongs to a handler, and `Phase` says for each thing the handler may
do next which collection is active, which is on screen and what the mirror holds.
`Homely`: every tree in the window, the mirror, a message, an answer or a file holds
only requests made in its collection. The window's tree and the mirror differ between
the two halves of a switch, so neither holds without `Phase`. `ListsInv` follows the
lists of collections: one held by a handler or on its way covers what the user made
and did not delete. TLC checked these on 3,364,414 states.

`DeletionsInv` adds what a deletion needs. `AwayInv`: a handler on its way to another
collection stays apart from what is on screen. `FaultlessInv`: until something fails,
nothing is read as empty, lists name only collections that were made (`Tracked`), the
resolver in the mirror knows every request of a listed collection (`Resolves`), and a
collection with a removal in the queue stays listed (`ListedUntil`). `GoneInv`: while
fewer than two things failed, a deleted request (`GoneFor`) is out of the window, the
mirror and every answer, and either its files are erased and nothing in the queue
carries it, or its removal is in the queue right behind a save without it. The last
case is why the order of the queue matters: the removal may fail, but then the save
before it took the request out of the tree. TLC checked it on 1,373,547 states (two
collections, two requests, four commands, two failures, two crashes).

`WorkspaceDisk_proofs`, on top of it: `TheDiskCatchesUp` (`DiskCatchesUp`). The property
speaks of a window at rest, so its invariant says of every moment before what the
messages under way will do. It holds while neither two handlers overlap nor
anything fails that the code does not cope with (`Clean`, which a step never restores).

- `Comes` is the form of all of it: once a queue is served something is so, because it is
  so now and nothing in the queue undoes it, or because a message sets it and nothing
  behind that one undoes it. Whether a request is in its tree comes that way, and so do
  the headers of a collection (`PresenceComes`, `HeadersCome`).
- `RequestComes` adds the version: it comes, or it waits for the timer, or it is among the
  patches a batch still carries (`Waits`). A patch does nothing to a request that is not
  on the disk (`store:requests:update` answers an error nobody reads), so the save that
  puts the request into the tree has to be before its first patch (`Patches`, the
  messages that may not come early).
- What each step needs to keep that: the window shows what is wanted, and the mirror has no
  older version of anything but what waits (`WindowTells`); every message and every
  handler to go on is of what is still due (`QueueFits`), a patch of a batch being old
  only while a newer one follows (`BatchFits`); behind the save with which a collection
  is left, nothing touches the collection to be loaded (`Arrivals`, `LeavesAlone`),
  so what a load answers is what is wanted (`AnswerTells`).
- `ListingInv`: a manifest on its way is of what the window lists, and what the window
  lists was not deleted, or a handler is about to drop it (`Spares`). `HomesListed`: a
  collection with a request is in the manifest, so the resolver finds the request.

TLC checked `ReachInv`, all of this but the last item, on 3,293,191 states (three
collections, three requests, five commands, one crash), and `HomesListed` on 1,659,461.

Looking for this invariant showed that a timer's batch of six patches can outlast a switch
and the switch back, which loads what the batch has not yet written; the run, with two
requests, could not see it, and the slip `late` now names it.

The attempt to prove `OneHandler` found the model wrong: `FlushAndSave` sent the patches that were waiting
and forgot the handler it belonged to, so a switch with an edit waiting never ended.

What the provers needed beside the models: the least member of a set of naturals, which
stands in for induction, and counting below it, come from WellFoundedInduction and FiniteSetTheorems; recursion in
the models is written without RECURSIVE where a proof reaches it (`Above` of FolderRun is
the intersection of all sets closed under "parent of").

Model-checked only:

- liveness under fairness, everywhere: the prover has no rule for it;
- `StorageTypeOK`, `ServicesTypeOK`, `RendererTypeOK` and `FaultsLoseNoSecret`, which put
  together the modules a run composes: what is proved is the part of each module named
  above;
- what the violation runs refute, which no theorem can state.

## 5. Plan

Order, most important first; what is marked done is in place.

1. HistoryStore, HistoryPaging and proofs: done.
2. SecretMigration and proofs: done.
3. BackupRestore, replace-mode import with rollback, and proofs: done.
4. HistoryTimeline and WorkspaceSaves, the window against the files: done.
5. HttpExecute, HttpChain, ResponseBodies and RequestSend: one send from the button
   to its record: done.
6. DurableFile, AtomicWrite and the refinement proof; StartupMigrations: done.
7. OAuthTokens, DeviceCode, EnvironmentWrites, WsConnections, FolderRun, CookieJars:
   done.
8. Proofs: done for the modules of section 4.
9. Modules still worth writing: the quarantine of unreadable documents in `readJSON`,
   the archive of a collection.

## 6. Not modelled

- Ciphers, key derivation and the portable `encp:` family: ideal.
- JSON, file names and directory layout as text; ids are model values or numbers.
- Import and export formats, code generation, editors, themes, menus, i18n,
  updater, logger, window state, CLI launcher: data transformation, presentation or
  thin wrappers of an external service.
- Variable resolution, template functions, tests and captures as computations: pure
  functions of data; when a capture writes is in EnvironmentWrites.
- In CookieJars: the parsing of lines, the age of a cookie and the order of the
  header, a header of the user's own, flags the jar never looks at, writes that fail
  under a capture.
- Proxies, TLS material, encodings, signatures and NTLM messages.
- The authorization popup of OAuth with PKCE, state and nonce: one exchange.
- Vendored code (`web/scripts/vendor`), the mock server, the website, packaging.
- In WorkspaceSaves: folders and their variables, the merge of a partial patch with
  the stored request and its clobber guard, names, environments (except as messages
  that lengthen a handler), the adoption of old profiles after a switch, renaming.
- In RequestSend: what a request carries, durations, the spinner of the response
  pane. In FolderRun: the order of requests, scripts and captures within a run, and a
  `_recordRunError` that itself throws, which would be counted as two failures (app.js
  4630-4634); hardly anything in it can throw.

Known, in the code, and outside the properties:

- Storage. A deletion removes a run's response before its entry (history-store.js
  246-247), so an entry given up for deletion may outlive its response. A merge
  replaces the tree of a collection it matches by id or name (backup.js 397-403), so
  requests only the workspace had are no longer shown. With the keystore out, a failed
  validation clears the marker of an older switch (main.js 1702). When clearing a
  collection's variables after their folding fails, the next launch folds the old
  values again, over what the user edited since (stores.js 252); the property stops at
  `troubled`. An environments file that cannot be read is answered with an empty set,
  which the next write saves.
- Bodies. When opening the spill file of a buffered body throws, memory is let go and
  the rest of the body with it (http-engine.js 1489); `CompleteMeansComplete` excepts
  it.
- Executions. An NTLM challenge is answered on a redirected leg as well, so another
  origin can ask for the handshake: `CredentialsStayHome` excepts `type3`. A header of the
  user's whose name is none of the four of `CREDENTIAL_HEADERS` (http-engine.js 101-106), an
  API key for one, is sent along to another origin: it excepts `custom`. A stop while
  the marker of a stream is on its way finds no running execution and leaves the
  stream live until it ends (http-engine.js 2028-2034).
- Sends. Enter in the URL bar sends again while a send is in flight (request-editor.js
  1001); the guard after the token asks for the request, not for the send (3046); an
  interval whose send is refused stays "firing" without one; a stop from the tree
  restarts an interval. `SendIsOfOneRequest` and `RunsAreFiledUnderTheirRequest` are
  stated in RequestSend and do not hold: fields read after an await, and the node of a
  failed token, are those of the request on screen by then.
- OAuth. Switching the request during Get Token drops the rotated refresh token (the
  panel on screen stores it); Clear Token uses the unresolved configuration
  (request-auth-editor.js 1050) and cancels no acquisition in flight; a forced refresh
  that was queued presents a token that has been rotated meanwhile and falls back to
  the full grant; a resized window takes the device prompt away while polling goes on
  (`PolledCodeIsShown` excepts it).
- Recent runs. Streams of one request may end in another order than they were sent in. One
  that was overtaken heads the list although it is older, so a purge may take a run newer
  than those it keeps, and a reload lists them in another order: `ListIsNewestFirst` is
  stated in HistoryTimeline and does not hold. `NewestRunKept` is about a run both newest and last.
- Environments and folder runs. Captures made while a variables editor is open are
  overwritten when it saves all it shows (collections-popup.js 344-357, app.js 2817). A
  folder run goes on after a switch of collection and its captures land there
  (app.js 4447); a request moved into an unlocked folder during a run can be sent by
  two runs.
- Cookies. The manager shows the old collection's rows until the new list is there, and
  a save reads the selected collection again after its first call, so a row can be
  deleted from one jar and stored in another, or only the former when the second call
  fails (collections-popup.js 1494-1496). `EditsStayInTheirJar` does not hold;
  `RequestsCarryWhatIsDue` stops at `strayed`.
- WebSocket. After "close" in the question on leaving, the request selected then is
  resumed, whichever is on screen by now (app.js 1623-1640); an editor that is cleared
  closes no connection (3872-3876, the run ws_clearing); a connection made while nothing is on screen is
  registered under null and never found again (ws-handlers.js 100, app.js 714-718), which
  only a reload or the end of the process closes; entries of `_wsPendingTerminal` whose answer never
  comes are kept until a reload.

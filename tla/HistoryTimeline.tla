--------------------------- MODULE HistoryTimeline ---------------------------
(***************************************************************************)
(* The runs of one request as the renderer lists them (web/scripts/app.js  *)
(* _loadRequestHistory, _recordHistoryEntry; event-bus/timeline-handlers   *)
(* and settings-handlers) against the runs on disk.                        *)
(*                                                                         *)
(* The renderer sends calls to the main process, which serves them in the  *)
(* order they were sent, each in one go (HistoryStore looks inside), and   *)
(* answers in that order.  The renderer waits for none but the reads of a  *)
(* load, and while a load waits every other handler may run.               *)
(*                                                                         *)
(* A run goes to the head of the list when it is recorded, but carries the *)
(* time it ended at, or, if its answer was streamed, the time it was sent. *)
(* Streams of one request may overlap (replaying an old run gives the Send *)
(* button back while one is open), so runs are recorded in any order of    *)
(* their times, while the store lists and trims by time.                   *)
(***************************************************************************)
EXTENDS Naturals, FiniteSets, SequencesExt

CONSTANTS
  Ids,          \* runs, numbered by their timestamp
  Limits,       \* values of settings.historyCount
  Slots,        \* bound: loads under way at a time
  MaxEdits      \* bound: deletions, clearings, changes of limit and reloads

ASSUME TimelineAssumption ==
  /\ Ids \subseteq Nat \ {0} /\ Limits \subseteq Nat
  /\ MaxEdits \in Nat

VARIABLES
  mem,          \* _requestHistory of the request: the run recorded last first
  loaded,       \* the request is in _historyLoaded
  loads,        \* slot -> a load of the history and what it is for
  invokes,      \* calls on their way to the main process
  replies,      \* answers on their way to the renderer
  disk,         \* the runs on disk
  limit,        \* _maxHistory
  ended,        \* runs that have ended
  recorded,     \* history: runs whose entry was sent to the disk
  latest,       \* history: the run recorded last
  dropped,      \* history: runs the user deleted or cleared
  raced,        \* history: a handler ran while a load waited
  edits         \* how many edits were made

timelineVars == <<mem, loaded, loads, invokes, replies, disk, limit, ended, recorded, latest,
          dropped, raced, edits>>

NoRun == 0
NoLoad == [phase |-> "none", run |-> NoRun, limit |-> 0, items |-> <<>>]
Call(name, arg) == [name |-> name, arg |-> arg]

\* A load begins, for a run that ended or for none.
LoadOf(run) == [phase |-> "listing", run |-> run, limit |-> limit, items |-> <<>>]

\* A list is cut to `max`: what stays, and the calls that purge the rest from the
\* disk, the oldest first.
Kept(entries, max) == SubSeq(entries, 1, IF Len(entries) > max THEN max ELSE Len(entries))
Purged(entries, max) ==
  [i \in 1..(Len(entries) - max) |-> Call("delete", entries[Len(entries) + 1 - i])]

\* A handler that does not belong to a load runs now.
Handler == raced' = (raced \/ \E s \in Slots : loads[s] # NoLoad)

Idle(s) == loads[s] = NoLoad /\ \A i \in DOMAIN invokes :
                                  invokes[i].name \in {"list", "get"} => invokes[i].arg # s

TimelineInit ==
  /\ mem = <<>> /\ loaded = FALSE
  /\ loads = [s \in Slots |-> NoLoad]
  /\ invokes = <<>> /\ replies = <<>> /\ disk = {}
  /\ limit \in Limits
  /\ ended = {} /\ recorded = {} /\ latest = NoRun /\ dropped = {}
  /\ raced = FALSE /\ edits = 0

-----------------------------------------------------------------------------
(* Loading and recording *)

\* Variant: the run is sent to the disk before the history is listed.
Variant_StartLoadAfterAdd(s, run) ==
  /\ Idle(s)
  /\ loads' = [loads EXCEPT ![s] = LoadOf(run)]
  /\ recorded' = recorded \cup ({run} \ {NoRun})
  /\ latest' = IF run = NoRun THEN latest ELSE run
  /\ invokes' = invokes \o (IF run = NoRun THEN <<>> ELSE <<Call("add", run)>>)
                    \o <<Call("list", s)>>
  /\ UNCHANGED <<mem, loaded, disk, dropped>>

\* _loadRequestHistory up to its first await.
StartLoad(s, run) ==
  /\ Idle(s)
  /\ loads' = [loads EXCEPT ![s] = LoadOf(run)]
  /\ invokes' = Append(invokes, Call("list", s))
  /\ UNCHANGED <<mem, loaded, disk, recorded, latest, dropped>>

\* Variant: a run goes to the end of the list.
Variant_RecordLast(entries, run) ==
  LET all == Append(entries, run)
  IN /\ mem' = Kept(all, limit)
     /\ recorded' = recorded \cup {run} /\ latest' = run
     /\ dropped' = IF limit = 0 THEN dropped \cup {run} ELSE dropped
     /\ invokes' = Append(invokes, Call("add", run)) \o Purged(all, limit)

\* Variant: runs beyond the limit leave the list but not the disk.
Variant_PurgeMemoryOnly(entries, run) ==
  LET all == <<run>> \o entries
  IN /\ mem' = Kept(all, limit)
     /\ recorded' = recorded \cup {run} /\ latest' = run
     /\ dropped' = IF limit = 0 THEN dropped \cup {run} ELSE dropped
     /\ invokes' = Append(invokes, Call("add", run))

\* _recordHistoryEntry from the list on: the run goes first whatever its time, and
\* what is beyond the limit leaves the list and the disk, the end of the list first.
Record(entries, run) ==
  LET all == <<run>> \o entries
  IN /\ mem' = Kept(all, limit)
     /\ recorded' = recorded \cup {run} /\ latest' = run
     /\ dropped' = IF limit = 0 THEN dropped \cup {run} ELSE dropped
     /\ invokes' = Append(invokes, Call("add", run)) \o Purged(all, limit)

\* Selecting the request, or reading its latest run for a reference or an export.
Select ==
  /\ Handler /\ ~loaded
  /\ \E s \in Slots : StartLoad(s, NoRun)
  /\ UNCHANGED <<replies, limit, ended, edits>>

\* A run of the request ends, in any order of the times; with a limit of 0 it is not
\* recorded.
RunEnds ==
  /\ Handler /\ limit > 0
  /\ \E run \in Ids \ ended :
       /\ ended' = ended \cup {run}
       /\ IF loaded
          THEN Record(mem, run) /\ UNCHANGED <<loaded, loads, disk>>
          ELSE \E s \in Slots : StartLoad(s, run)
  /\ UNCHANGED <<replies, limit, edits>>

\* Variant: every load records, also the one nothing waited for.
Variant_FinishLoadRecords(s, items) ==
  /\ loaded' = TRUE
  /\ loads' = [loads EXCEPT ![s] = NoLoad]
  /\ Record(items, loads[s].run)

\* What was read takes the place of what is in memory, and a run that waited for
\* it is recorded.
FinishLoad(s, items) ==
  /\ loaded' = TRUE
  /\ loads' = [loads EXCEPT ![s] = NoLoad]
  /\ IF loads[s].run = NoRun
     THEN mem' = items /\ UNCHANGED <<invokes, recorded, latest, dropped>>
     ELSE Record(items, loads[s].run)

\* An answer arrives.  After the list the payload of every entry is asked for;
\* after the payloads, or an empty list, the load is done.
ReplyArrives ==
  /\ replies # <<>>
  /\ replies' = Tail(replies)
  /\ LET s == Head(replies).slot
         items == Head(replies).items
     IN IF loads[s].phase = "listing" /\ items # <<>>
        THEN /\ loads' = [loads EXCEPT ![s].phase = "reading", ![s].items = items]
             /\ invokes' = Append(invokes, Call("get", s))
             /\ UNCHANGED <<mem, loaded, recorded, latest, dropped>>
        ELSE FinishLoad(s, loads[s].items)
  /\ UNCHANGED <<disk, limit, ended, raced, edits>>

-----------------------------------------------------------------------------
(* Edits *)

EditTimeline == Handler /\ edits < MaxEdits /\ edits' = edits + 1

\* hippo:timeline-delete-entry
DeleteEntry ==
  /\ EditTimeline
  /\ \E i \in DOMAIN mem :
       /\ mem' = RemoveAt(mem, i)
       /\ invokes' = Append(invokes, Call("delete", mem[i]))
       /\ dropped' = dropped \cup {mem[i]}
  /\ UNCHANGED <<loaded, loads, replies, disk, limit, ended, recorded, latest>>

\* Variant: clearing does not wait its turn.
Variant_ClearAtOnce ==
  /\ EditTimeline
  /\ mem' = <<>> /\ loaded' = TRUE
  /\ disk' = {}
  /\ dropped' = dropped \cup recorded
  /\ UNCHANGED <<loads, invokes, replies, limit, ended, recorded, latest>>

\* hippo:timeline-clear
Clear ==
  /\ EditTimeline
  /\ mem' = <<>> /\ loaded' = TRUE
  /\ invokes' = Append(invokes, Call("clear", NoRun))
  /\ dropped' = dropped \cup recorded
  /\ UNCHANGED <<loads, replies, disk, limit, ended, recorded, latest>>

\* Variant: only what is in memory is trimmed.
Variant_SetLimitInMemory(max) ==
  /\ EditTimeline /\ max # limit
  /\ limit' = max
  /\ dropped' = IF max = 0 THEN dropped \cup recorded ELSE dropped
  /\ mem' = Kept(mem, max)
  /\ invokes' = invokes \o Purged(mem, max)
  /\ UNCHANGED <<loaded, loads, replies, disk, ended, recorded, latest>>

\* hippo:history-trim, fired when the settings close with a new limit.
SetLimit(max) ==
  /\ EditTimeline /\ max # limit
  /\ limit' = max
  /\ dropped' = IF max = 0 THEN dropped \cup recorded ELSE dropped
  /\ mem' = Kept(mem, max)
  /\ invokes' = Append(invokes \o Purged(mem, max), Call("trim", max))
  /\ UNCHANGED <<loaded, loads, replies, disk, ended, recorded, latest>>

\* The window reloads: its memory is dropped, its calls are not.
Reload ==
  /\ edits < MaxEdits /\ edits' = edits + 1
  /\ mem' = <<>> /\ loaded' = FALSE
  /\ loads' = [s \in Slots |-> NoLoad] /\ replies' = <<>>
  /\ UNCHANGED <<invokes, disk, limit, ended, recorded, latest, dropped, raced>>

-----------------------------------------------------------------------------
(* The main process *)

\* How many runs of S are newer than i.
Newer(S, i) == Cardinality({j \in S : j > i})
Newest(S, n) == {i \in S : Newer(S, i) < n}
NewestFirst(S) == [k \in 1..Cardinality(S) |-> CHOOSE i \in S : Newer(S, i) = k - 1]

\* A listing is capped by the limit it was asked with, taken for at least 1.
Listing(n) == NewestFirst(Newest(disk, IF n = 0 THEN 1 ELSE n))

\* An answer for a window that has reloaded since is lost.
TimelineAnswer(s, items) ==
  replies' = IF loads[s] = NoLoad THEN replies
             ELSE Append(replies, [slot |-> s, items |-> items])

ServeTimeline ==
  /\ invokes # <<>>
  /\ invokes' = Tail(invokes)
  /\ LET call == Head(invokes)
     IN \/ /\ call.name = "list"
           /\ TimelineAnswer(call.arg, Listing(loads[call.arg].limit)) /\ UNCHANGED disk
        \/ call.name = "get" /\ TimelineAnswer(call.arg, <<>>) /\ UNCHANGED disk
        \/ /\ call.name \notin {"list", "get"} /\ UNCHANGED replies
           /\ disk' = CASE call.name = "add" -> disk \cup {call.arg}
                        [] call.name = "delete" -> disk \ {call.arg}
                        [] call.name = "clear" -> {}
                        [] call.name = "trim" -> Newest(disk, call.arg)
  /\ UNCHANGED <<mem, loaded, loads, limit, ended, recorded, latest, dropped, raced, edits>>

-----------------------------------------------------------------------------
TimelineNext ==
  \/ Select \/ RunEnds
  \/ ReplyArrives
  \/ DeleteEntry \/ Clear \/ Reload
  \/ \E max \in Limits : SetLimit(max)
  \/ ServeTimeline

TimelineSpec == TimelineInit /\ [][TimelineNext]_timelineVars

-----------------------------------------------------------------------------
(* Properties *)

\* Nothing is under way.
Quiet == invokes = <<>> /\ \A s \in Slots : loads[s] = NoLoad

\* Every variable has its type.
TimelineTypeOK ==
  /\ mem \in Seq(Ids) /\ disk \subseteq recorded /\ loaded \in BOOLEAN
  /\ \A s \in Slots :
       /\ loads[s].phase \in {"none", "listing", "reading"}
       /\ loads[s].run \in ended \cup {NoRun} /\ loads[s].items \in Seq(Ids)
  /\ \A i \in DOMAIN invokes :
       invokes[i].name \in {"list", "get", "add", "delete", "clear", "trim"}
  /\ limit \in Limits /\ recorded \subseteq ended /\ dropped \subseteq recorded
  /\ latest \in recorded \cup {NoRun}
  /\ raced \in BOOLEAN /\ edits \in 0..MaxEdits

\* Once everything has settled, a loaded list shows exactly the runs on disk
\* ("so the in-memory list is complete and purging works correctly", app.js
\* 418-419).
MemoryMatchesDisk == (Quiet /\ loaded) => ToSet(mem) = disk

\* Once everything has settled, the disk holds no more runs than the limit (app.js
\* 404-405: purged from both memory and storage).
DiskWithinLimit == Quiet => Cardinality(disk) <= limit

\* Both, as long as no handler ever ran while a load waited; and whatever ran, the
\* list never shows a run twice.
UndisturbedMemoryMatchesDisk ==
  /\ raced \/ (MemoryMatchesDisk /\ DiskWithinLimit)
  /\ IsInjective(mem)

\* Once everything has settled, a run recorded last that no run recorded is newer
\* than is on disk unless the user deleted it: a purge works from a list that may lag
\* behind the disk (app.js 418-419), a trim from the timestamps, and neither may take
\* it.  Of a run that is only one of the two nothing is promised: a purge takes the
\* newest run when an older one was recorded after it, and a trim the run recorded
\* last when it carries an older time.
NewestRunKept ==
  \A i \in recorded : (Quiet /\ i \notin dropped /\ i = latest /\ \A j \in recorded : j <= i)
                         => i \in disk

\* A run the user deleted or cleared does not come back to the disk.
DeletedRunStaysDeleted == invokes = <<>> => disk \cap dropped = {}

\* The list is newest first ("Returns the in-memory entries list (newest first) so
\* callers can read the new latest entry", app.js 405-406).  This does not hold: a
\* streamed run that others overtook goes first all the same.
ListIsNewestFirst == \A i, j \in DOMAIN mem : i < j => mem[j] < mem[i]
=============================================================================

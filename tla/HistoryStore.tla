---------------------------- MODULE HistoryStore ----------------------------
(***************************************************************************)
(* The execution history of requests on disk                               *)
(* (src/src/app/store/history-store.js), with the two sweeps the main      *)
(* process runs at startup (stores.js, main.js).                           *)
(*                                                                         *)
(* A run of a request is two files: an entry (metadata) and a response     *)
(* payload, both named after the run's id.  Every operation is synchronous *)
(* in the main process, so two operations never interleave; but an         *)
(* operation is several file-system effects, and the process can die, a    *)
(* write can throw and a best-effort removal can be swallowed between any  *)
(* two of them.  `op` is the operation in progress: the effects it still   *)
(* has to make, in the order its `job` prescribes.                         *)
(***************************************************************************)
EXTENDS Naturals, FiniteSets

CONSTANTS
  Requests,     \* request ids
  Ids,          \* history ids (UUIDs): each is given to one run only
  Times,        \* timestamps of runs; the clock may stand still or step back
  Limits,       \* retention limits (settings.historyCount)
  MaxFaults     \* bound on crashes, failed writes and swallowed removals

ASSUME IdsAssumption   == Ids \subseteq Nat       \* ordered like the id strings
ASSUME TimesAssumption == Times \subseteq Nat     \* ordered like the timestamps
ASSUME LimitsAssumption == Limits \subseteq Nat
ASSUME FaultsAssumption == MaxFaults \in Nat

VARIABLES
  entries,      \* the entry files on disk
  responses,    \* the response files on disk, as <<request, id>>
  phase,        \* the main process: "down", "booting" or "up"
  op,           \* the operation in progress
  used,         \* history: ids already given to a run
  promised,     \* history: ids of runs recorded together with a response
  doomed,       \* history: entries some operation set out to delete
  faulty,       \* history: a fault happened since the last boot began
  faults        \* how many faults happened, capped by MaxFaults

vars == <<entries, responses, phase, op, used, promised, doomed, faulty, faults>>

-----------------------------------------------------------------------------
(* Entries and their order *)

Entry == [req : Requests, id : Ids, ts : Times]
Key(e) == <<e.req, e.id>>
RowsOf(r) == {e \in entries : e.req = r}

\* byNewestFirst: by timestamp, then by id.
Newer(a, b) == a.ts > b.ts \/ (a.ts = b.ts /\ a.id > b.id)

\* Variant: the slice starts one entry late.
Variant_BeyondOffByOne(r, max) ==
  {e \in RowsOf(r) : Cardinality({f \in RowsOf(r) : Newer(f, e)}) > max}

\* The entries a trim to `max` drops: those after the first `max` of the
\* newest-first listing of their request.
Beyond(r, max) ==
  {e \in RowsOf(r) : Cardinality({f \in RowsOf(r) : Newer(f, e)}) >= max}

\* Response files no entry refers to.
Orphans == {x \in responses : \A e \in entries : Key(e) # x}

-----------------------------------------------------------------------------
(* The operation in progress *)

Jobs == {"none", "add", "delete", "clear", "trim", "prune"}

Operation == [job : Jobs,
              putResponse : SUBSET (Requests \X Ids), putEntry : SUBSET Entry,
              dropResponse : SUBSET (Requests \X Ids), dropEntry : SUBSET Entry,
              keep : Nat]                            \* the limit of a trim

Idle == [job |-> "none", putResponse |-> {}, putEntry |-> {},
         dropResponse |-> {}, dropEntry |-> {}, keep |-> 0]

\* Nothing left to do: the operation has returned.
Done == /\ op.putResponse = {} /\ op.putEntry = {}
        /\ op.dropResponse = {} /\ op.dropEntry = {}

Ready == phase = "up" /\ Done

Removal(job, R, E) == [Idle EXCEPT !.job = job, !.dropResponse = R, !.dropEntry = E]

Init ==
  /\ entries = {} /\ responses = {}
  /\ phase = "down" /\ op = Idle
  /\ used = {} /\ promised = {} /\ doomed = {}
  /\ faulty = FALSE /\ faults = 0

-----------------------------------------------------------------------------
(* Operations: what each sets out to do *)

\* Variant: the run is recorded without an id of its own.
Variant_AddHistoryReusesIds(r, i, t, withResponse) ==
  /\ Ready /\ i \notin used
  /\ promised' = IF withResponse THEN promised \cup {i} ELSE promised
  /\ op' = [Idle EXCEPT !.job = "add",
                        !.putResponse = IF withResponse THEN {<<r, i>>} ELSE {},
                        !.putEntry = {[req |-> r, id |-> i, ts |-> t]}]
  /\ UNCHANGED <<entries, responses, phase, used, doomed, faulty, faults>>

\* addHistory: a response, when there is one, and then the entry.
AddHistory(r, i, t, withResponse) ==
  /\ Ready /\ i \notin used
  /\ used' = used \cup {i}
  /\ promised' = IF withResponse THEN promised \cup {i} ELSE promised
  /\ op' = [Idle EXCEPT !.job = "add",
                        !.putResponse = IF withResponse THEN {<<r, i>>} ELSE {},
                        !.putEntry = {[req |-> r, id |-> i, ts |-> t]}]
  /\ UNCHANGED <<entries, responses, phase, doomed, faulty, faults>>

\* deleteHistory: the response file and then the entry file.
DeleteHistory(r, i) ==
  LET E == {e \in entries : Key(e) = <<r, i>>}
  IN /\ Ready
     /\ op' = Removal("delete", {<<r, i>>}, E)
     /\ doomed' = doomed \cup E
     /\ UNCHANGED <<entries, responses, phase, used, promised, faulty, faults>>

\* clearHistory: the history directory and then the responses directory.
ClearHistory(r) ==
  /\ Ready
  /\ op' = Removal("clear", {x \in responses : x[1] = r}, RowsOf(r))
  /\ doomed' = doomed \cup RowsOf(r)
  /\ UNCHANGED <<entries, responses, phase, used, promised, faulty, faults>>

\* Variant: the trim sorts oldest first and drops the newest.
Variant_TrimOldestFirst(max) ==
  LET E == {e \in entries :
              Cardinality({f \in RowsOf(e.req) : Newer(e, f)}) >= max}
  IN /\ op' = [Removal("trim", {Key(e) : e \in E}, E) EXCEPT !.keep = max]
     /\ doomed' = doomed \cup E

\* trimAllHistory, over every request.
TrimTo(max) ==
  LET E == UNION {Beyond(r, max) : r \in Requests}
  IN /\ op' = [Removal("trim", {Key(e) : e \in E}, E) EXCEPT !.keep = max]
     /\ doomed' = doomed \cup E

TrimAllHistory(max) ==
  /\ Ready
  /\ TrimTo(max)
  /\ UNCHANGED <<entries, responses, phase, used, promised, faulty, faults>>

-----------------------------------------------------------------------------
(* Startup: the Stores constructor prunes orphans, whenReady then trims. *)

\* Variant: the constructor forgets the orphan sweep.
Variant_BootWithoutPrune ==
  /\ phase = "down"
  /\ phase' = "booting"
  /\ op' = [Idle EXCEPT !.job = "prune"]
  /\ faulty' = FALSE
  /\ UNCHANGED <<entries, responses, used, promised, doomed, faults>>

Boot ==
  /\ phase = "down"
  /\ phase' = "booting"
  /\ op' = Removal("prune", Orphans, {})
  /\ faulty' = FALSE
  /\ UNCHANGED <<entries, responses, used, promised, doomed, faults>>

StartupTrim(max) ==
  /\ phase = "booting" /\ Done
  /\ phase' = "up"
  /\ TrimTo(max)
  /\ UNCHANGED <<entries, responses, used, promised, faulty, faults>>

-----------------------------------------------------------------------------
(* The effects of the operation in progress, one file at a time *)

\* Variant: the entry does not wait for its response.
Variant_WriteEntryFirst ==
  /\ \E e \in op.putEntry :
       /\ entries' = entries \cup {e}
       /\ op' = [op EXCEPT !.putEntry = @ \ {e}]
  /\ UNCHANGED <<responses, phase, used, promised, doomed, faulty, faults>>

\* The response goes before its entry.
WriteResponse ==
  \E x \in op.putResponse :
    /\ responses' = responses \cup {x}
    /\ op' = [op EXCEPT !.putResponse = @ \ {x}]
    /\ UNCHANGED <<entries, phase, used, promised, doomed, faulty, faults>>

WriteEntry ==
  /\ op.putResponse = {}
  /\ \E e \in op.putEntry :
       /\ entries' = entries \cup {e}
       /\ op' = [op EXCEPT !.putEntry = @ \ {e}]
  /\ UNCHANGED <<responses, phase, used, promised, doomed, faulty, faults>>

\* An entry of the plan whose response file has been dealt with already.
Half(e) == e \in op.dropEntry /\ Key(e) \notin op.dropResponse

\* deleteHistory and trim take the files pairwise, response first, a trim the
\* newest entry of a request first; clearHistory empties the history directory
\* before it turns to the responses.
MayDropResponse(x) ==
  CASE op.job = "clear" -> op.dropEntry = {}
    [] op.job = "trim"  -> /\ \A e \in op.dropEntry : ~Half(e)
                           /\ \E e \in op.dropEntry :
                                /\ Key(e) = x
                                /\ \A f \in op.dropEntry :
                                     f.req = e.req => ~Newer(f, e)
    [] OTHER -> TRUE

MayDropEntry(e) == op.job = "clear" \/ Half(e)

RemoveResponse ==
  \E x \in op.dropResponse :
    /\ MayDropResponse(x)
    /\ responses' = responses \ {x}
    /\ op' = [op EXCEPT !.dropResponse = @ \ {x}]
    /\ UNCHANGED <<entries, phase, used, promised, doomed, faulty, faults>>

RemoveEntry ==
  \E e \in op.dropEntry :
    /\ MayDropEntry(e)
    /\ entries' = entries \ {e}
    /\ op' = [op EXCEPT !.dropEntry = @ \ {e}]
    /\ UNCHANGED <<responses, phase, used, promised, doomed, faulty, faults>>

-----------------------------------------------------------------------------
(* Faults *)

Fault == /\ faults < MaxFaults
         /\ faults' = faults + 1
         /\ faulty' = TRUE

\* io.remove swallows the failure of one removal and the operation goes on.
RemovalSwallowed ==
  /\ Fault
  /\ \/ \E x \in op.dropResponse :
          /\ MayDropResponse(x)
          /\ op' = [op EXCEPT !.dropResponse = @ \ {x}]
     \/ \E e \in op.dropEntry :
          /\ MayDropEntry(e)
          /\ op' = [op EXCEPT !.dropEntry = @ \ {e}]
  /\ UNCHANGED <<entries, responses, phase, used, promised, doomed>>

\* A write throws out of addHistory, a read out of a sweep (whose startup
\* callers catch it): the rest of the operation does not happen.
OperationThrows ==
  /\ ~Done /\ op.job \in {"add", "trim", "prune"}
  /\ Fault
  /\ op' = Idle
  /\ UNCHANGED <<entries, responses, phase, used, promised, doomed>>

\* The process dies or the user quits, between any two effects.
Crash ==
  /\ phase # "down"
  /\ Fault
  /\ phase' = "down" /\ op' = Idle
  /\ UNCHANGED <<entries, responses, used, promised, doomed>>

-----------------------------------------------------------------------------
Next ==
  \/ \E r \in Requests, i \in Ids, t \in Times, w \in BOOLEAN :
       AddHistory(r, i, t, w)
  \/ \E r \in Requests, i \in used : DeleteHistory(r, i)
  \/ \E r \in Requests : ClearHistory(r)
  \/ \E max \in Limits : TrimAllHistory(max)
  \/ Boot
  \/ \E max \in Limits : StartupTrim(max)
  \/ WriteResponse \/ WriteEntry \/ RemoveResponse \/ RemoveEntry
  \/ RemovalSwallowed \/ OperationThrows \/ Crash

Spec == Init /\ [][Next]_vars

-----------------------------------------------------------------------------
(* Properties *)

\* Every variable has its type.
TypeOK ==
  /\ entries \subseteq Entry
  /\ responses \subseteq Requests \X Ids
  /\ phase \in {"down", "booting", "up"}
  /\ op \in Operation
  /\ used \subseteq Ids /\ promised \subseteq used
  /\ doomed \subseteq Entry
  /\ faulty \in BOOLEAN /\ faults \in 0..MaxFaults

\* A run recorded with a response keeps it as long as nobody set out to delete
\* the run: no crash inside addHistory, no orphan sweep and no removal of other
\* runs separates the two files (history-store.js 167-170, 186, 343-372).
EntryKeepsItsResponse ==
  \A e \in entries :
    (e.id \in promised /\ e \notin doomed) => Key(e) \in responses

\* While the app is up and no operation is under way, an unreachable response
\* file exists only if something went wrong since the last boot: the startup
\* sweep reclaims whatever earlier sessions left (history-store.js 330-342).
OrphansOnlyAfterAFault == (Ready /\ ~faulty) => Orphans = {}

\* A trim, interrupted or not, never takes an entry while fewer than the
\* retained number of newer ones of the same request stay on disk; it works on
\* the order listHistory shows (history-store.js 293-300).
TrimSparesTheNewest ==
  [][\A e \in entries \ entries' :
       op.job = "trim" =>
         Cardinality({f \in RowsOf(e.req) : Newer(f, e)}) >= op.keep]_vars

\* A trim that ran to its end without a fault leaves no request with more than
\* the limit, however many entries earlier sessions left behind (main.js
\* 2505-2508: the store is bounded independently of the renderer).
TrimReachesTheLimit ==
  (op.job = "trim" /\ Ready /\ ~faulty) =>
    \A r \in Requests : Cardinality(RowsOf(r)) <= op.keep

\* Whatever went before, a session without a fault leaves nothing behind: neither
\* unreachable responses nor runs beyond the limit.
NothingIsLeftBehind == OrphansOnlyAfterAFault /\ TrimReachesTheLimit
=============================================================================

---------------------------- MODULE HistoryPaging ----------------------------
(***************************************************************************)
(* Reading the history page by page (listHistory, history-store.js 97-161) *)
(* while runs are added, deleted, cleared and trimmed between the pages.   *)
(*                                                                         *)
(* The store of HistoryStore with one reader that asks for the first page  *)
(* of a request and then follows nextCursor until it is empty.             *)
(***************************************************************************)
EXTENDS HistoryStore

CONSTANTS
  PageLimits,   \* page sizes, after the clamp to 1..100
  Stamps        \* how timestamps are stored: "ms" numbers, as the renderer
                \* writes them, or the "iso" strings the store's comments expect

ASSUME PagingAssumption ==
  PageLimits \subseteq Nat \ {0} /\ Stamps \in {"iso", "ms"}

VARIABLE reader
pagingVars == <<vars, reader>>

NoCursor == [ts |-> 0, id |-> 0, empty |-> TRUE]

\* The reader: what it asks, what it has been shown, what it was shown more
\* than once, and the entries that were there all along.
NoReader == [state |-> "idle", req |-> CHOOSE r \in Requests : TRUE, limit |-> 1,
             cursor |-> NoCursor, seen |-> {}, again |-> {}, steady |-> {}]

-----------------------------------------------------------------------------
(* listHistory *)

\* byNewestFirst(cursor, e) < 0.  The cursor is cut out of a string: its
\* timestamp is a string even when the entries carry numbers, so `!==` holds
\* whatever the two are, the id is not consulted, and `>` decides.
ResumeAt(c, e) ==
  IF Stamps = "iso" THEN Newer(c, e) ELSE e.ts <= c.ts

\* The sorted listing from the first entry the cursor resumes at: everything
\* from there on, since the entries are newest first.
Rest(r, cursor) ==
  IF cursor.empty THEN RowsOf(r)
  ELSE {e \in RowsOf(r) :
          \E first \in RowsOf(r) :
            /\ ResumeAt(cursor, first)
            /\ \A f \in RowsOf(r) : ResumeAt(cursor, f) => ~Newer(f, first)
            /\ ~Newer(e, first)}

\* The `limit` newest entries of a set.
Newest(S, limit) == {e \in S : Cardinality({f \in S : Newer(f, e)}) < limit}

Oldest(S) == CHOOSE e \in S : \A f \in S : ~Newer(e, f)

\* Variant: the cursor names the first entry of the page instead of the last.
Variant_CursorAtPageStart(rest, page) ==
  LET first == CHOOSE e \in page : \A f \in page : ~Newer(f, e)
  IN IF page = rest THEN NoCursor ELSE [ts |-> first.ts, id |-> first.id, empty |-> FALSE]

\* Variant: the end is taken to be reached one entry early.
Variant_StopOneShort(rest, page) ==
  IF Cardinality(rest) <= Cardinality(page) + 1 THEN NoCursor
  ELSE [ts |-> Oldest(page).ts, id |-> Oldest(page).id, empty |-> FALSE]

\* nextCursor is empty exactly when nothing follows the page.
NextCursor(rest, page) ==
  IF page = rest THEN NoCursor
  ELSE [ts |-> Oldest(page).ts, id |-> Oldest(page).id, empty |-> FALSE]

-----------------------------------------------------------------------------
PagingInit == Init /\ reader = NoReader

StartPaging(r, limit) ==
  /\ Ready /\ reader.state = "idle"
  /\ reader' = [NoReader EXCEPT !.state = "paging", !.req = r, !.limit = limit,
                                !.steady = RowsOf(r)]
  /\ UNCHANGED vars

\* One call of listHistory, served between two operations.
FetchPage ==
  LET rest == Rest(reader.req, reader.cursor)
      page == Newest(rest, reader.limit)
      next == NextCursor(rest, page)
  IN /\ Ready /\ reader.state = "paging"
     /\ reader' = [reader EXCEPT !.state = IF next.empty THEN "done" ELSE @,
                                 !.cursor = next,
                                 !.seen = @ \cup page,
                                 !.again = @ \cup (reader.seen \cap page)]
     /\ UNCHANGED vars

\* A step of the store.  The reader lives in the renderer and dies with the
\* app; what is removed while it reads is no longer there all along.
StoreStep ==
  /\ Next
  /\ reader' = IF phase' = "down" THEN NoReader
               ELSE IF reader.state = "paging"
               THEN [reader EXCEPT !.steady = @ \cap entries']
               ELSE reader

PagingNext ==
  \/ \E r \in Requests, limit \in PageLimits : StartPaging(r, limit)
  \/ FetchPage
  \/ StoreStep

PagingSpec == PagingInit /\ [][PagingNext]_pagingVars

-----------------------------------------------------------------------------
(* Properties *)

\* The reader's record is well-formed: a page only ever shows entries that
\* were recorded for the request.
ReaderTypeOK ==
  /\ reader.state \in {"idle", "paging", "done"}
  /\ reader.req \in Requests /\ reader.limit \in PageLimits \cup {1}
  /\ reader.cursor \in [ts : Times \cup {0}, id : Ids \cup {0}, empty : BOOLEAN]
  /\ reader.seen \subseteq {e \in Entry : e.req = reader.req /\ e.id \in used}
  /\ reader.steady \subseteq entries \cup doomed

\* A reader that reached the last page has seen every entry that was on disk
\* from its first page to its last, whatever was added, deleted or trimmed between
\* the pages ("paging still continues from the right place", history-store.js
\* 127-129).
PagingMissesNothing == reader.state = "done" => reader.steady \subseteq reader.seen

\* A page shows again at most the entries that carry the very timestamp of its
\* cursor, and of those none where timestamps are strings (history-store.js 57-63:
\* paging must not repeat entries at a page boundary).
RepeatsAreTies ==
  [][\A e \in reader'.again \ reader.again : Stamps = "ms" /\ e.ts = reader.cursor.ts]_pagingVars

\* Timestamps are numbers, and the entries that carry the cursor's fill a page, as any
\* entry does a page of one.
TiesFillThePage ==
  /\ Stamps = "ms"
  /\ Cardinality({e \in RowsOf(reader.req) : e.ts = reader.cursor.ts}) >= reader.limit

\* Whatever the store looks like when the next page is asked for, the reading ends with
\* it or its cursor moves on to an older entry, so that paging comes to an end and does
\* not rewind ("an infinite loop", history-store.js 129-130); unless ties fill the page:
\* then it may be the one before over again, for ever.
PagingAdvances ==
  reader.state = "paging" /\ ~reader.cursor.empty /\ ~TiesFillThePage =>
    LET rest == Rest(reader.req, reader.cursor)
        next == NextCursor(rest, Newest(rest, reader.limit))
    IN next.empty \/ Newer(reader.cursor, next)

\* Paging gets through the list: it comes to an end where ties let it, and by then
\* nothing that was there all along is missing (history-store.js 123-158).
PagingGetsThrough == PagingMissesNothing /\ PagingAdvances

\* No page shows an entry an earlier page showed: paging resumes "just AFTER the
\* last item already consumed" (history-store.js 125).  Where timestamps are numbers
\* this does not hold: the cursor's own entry comes back.
NoEntryTwice == reader.again = {}
=============================================================================

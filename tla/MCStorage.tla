----------------------------- MODULE MCStorage -----------------------------
(* What the main process keeps on disk, on small instances. The parts do not *)
(* touch each other's files, so a behaviour is one of one part: the initial  *)
(* state names it, and the others keep one fixed state.                      *)
(*                                                                           *)
(* history: two requests, three runs with one timestamp or two, limits 0     *)
(*   and 1.                                                                  *)
(* paging: one request, three runs with up to three numeric timestamps,      *)
(*   pages of two.                                                           *)
(* restore: two collections that may share a name, two requests, two named   *)
(*   environments, two versions of every file.                               *)
(* bodies: three responses of up to three chunks, the first stays in memory; *)
(*   a registry of two.                                                      *)
(* write: two documents.  migrations: two collections.                       *)
(* cookies: two jars, two URLs, two responses of two lines, two ticks.       *)
EXTENDS HistoryPaging, MCBackupRestore, ResponseBodies, AtomicWrite, StartupMigrations,
  CookieJars

CONSTANTS request1, request2

VARIABLE part
storageVars == <<pagingVars, restoreVars, bodyVars, writeVars, migrationVars, cookieVars, part>>
Parts == {"history", "paging", "restore", "bodies", "write", "migrations", "cookies"}

-----------------------------------------------------------------------------
MCRequests == {request1, request2}

\* A domain, and a host under it asked in the clear.
Url(host, path, tls) == [host |-> host, path |-> path, tls |-> tls]
MCUrls == {Url(<<"ex">>, <<"">>, TRUE), Url(<<"ex", "a">>, <<"p", "q">>, FALSE)}

\* One for the domain and one of the host's own; one deleted for the domain and
\* a secure one of a tick for the host under it.
Line(domain, path, secure, maxAge, expires, value) ==
  [domain |-> domain, path |-> path, secure |-> secure, maxAge |-> maxAge,
   expires |-> expires, value |-> value]
MCResponses == {
  <<Line(<<"ex">>, RootPath, FALSE, Unset, 2, "all"),
    Line(Unset, Unset, FALSE, Unset, Unset, "own")>>,
  <<Line(<<"ex">>, RootPath, FALSE, 0, 3, "none"),
    Line(<<"ex", "a">>, <<"p">>, TRUE, 1, 1, "safe")>>}

-----------------------------------------------------------------------------
StorageInit ==
  /\ PagingInit /\ RestoreInit /\ BodiesInit /\ WriteInit /\ MigrationInit
  /\ CookieInit
  /\ part \in Parts
  /\ part # "restore" => live = Workspace(Nothing, Nothing)
  /\ part # "migrations" =>
       ~legacy /\ own = {} /\ environments = [c \in Collections |-> Absent]
  /\ tab.selected = "j1"

\* Two of the timestamps, while nobody reads.
OfHistory(step) ==
  part = "history" /\ step /\ UNCHANGED reader /\ \A e \in op'.putEntry : e.ts \in {1, 2}

\* While somebody reads: one request, no responses, no faults, and the runs are recorded
\* in the order of their ids, which only matters between runs of one timestamp.
OfPaging(step) ==
  /\ part = "paging" /\ step
  /\ promised' = {} /\ faults' = 0 /\ used' = 1..Cardinality(used')
  /\ \A e \in op'.putEntry : e.req = request1
  /\ \A x \in op'.dropResponse : x[1] = request1

StorageNext ==
  /\ UNCHANGED part
  /\ \/ (OfHistory(Next) \/ OfPaging(PagingNext))
          /\ UNCHANGED <<restoreVars, bodyVars, writeVars, migrationVars, cookieVars>>
     \/ part = "restore" /\ RestoreNext
          /\ UNCHANGED <<pagingVars, bodyVars, writeVars, migrationVars, cookieVars>>
     \/ part = "bodies" /\ BodiesNext
          /\ UNCHANGED <<pagingVars, restoreVars, writeVars, migrationVars, cookieVars>>
     \/ part = "write" /\ WriteNext
          /\ UNCHANGED <<pagingVars, restoreVars, bodyVars, migrationVars, cookieVars>>
     \/ part = "migrations" /\ MigrationNext
          /\ UNCHANGED <<pagingVars, restoreVars, bodyVars, writeVars, cookieVars>>
     \/ part = "cookies" /\ CookieNext
          /\ UNCHANGED <<pagingVars, restoreVars, bodyVars, writeVars, migrationVars>>

StorageSpec == StorageInit /\ [][StorageNext]_storageVars

-----------------------------------------------------------------------------
\* The type invariant of the part a behaviour is of.
StorageTypeOK ==
  /\ part \in {"history", "paging"} => TypeOK
  /\ part = "paging" => ReaderTypeOK
  /\ part = "restore" => RestoreTypeOK
  /\ part = "bodies" => BodiesTypeOK
  /\ part = "write" => WriteTypeOK
  /\ part = "migrations" => MigrationTypeOK
  /\ part = "cookies" => CookieTypeOK
=============================================================================

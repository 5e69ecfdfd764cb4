----------------------------- MODULE FolderRun -----------------------------
(***************************************************************************)
(* "Run all requests" of a folder (app.js, _runFolder): the requests under *)
(* it are sent one after another, and every folder between a request and   *)
(* the one that was clicked shows a tally.  Runs of folders that share a   *)
(* folder exclude each other.  Meanwhile the tree may be rearranged.       *)
(*                                                                         *)
(* The order of the requests in the tree is left out: a run sends its      *)
(* requests in any order.  Every request has one test.                     *)
(***************************************************************************)
EXTENDS Naturals, FiniteSets

CONSTANTS
  Folders, Runnables,  \* the nodes of the tree: folders, and requests over HTTP
  Trees,               \* the trees to begin with
  MaxRuns,             \* bound on the runs
  MaxMoves,            \* bound on the nodes moved or deleted
  Top, Gone,           \* the root of the tree, and where deleted nodes are
  Blank              \* no request, no badge, no folder

ASSUME FolderRunAssumption ==
  /\ MaxRuns \in Nat /\ MaxMoves \in Nat /\ IsFiniteSet(Runnables)
  /\ Trees \subseteq [Folders \cup Runnables -> Folders \cup {Top}]
  /\ {Top, Gone, Blank} \cap (Folders \cup Runnables) = {}

Runs == 1..MaxRuns
Nodes == Folders \cup Runnables

VARIABLES
  tree,        \* the parent of each node
  runs,        \* each _runFolder that was started, with what it took from the tree
  badges,      \* #folderRunResults
  moves,
  moved        \* history: a node was moved or deleted while a run was going on

folderVars == <<tree, runs, badges, moves, moved>>

NoTally == [count |-> 0, passed |-> 0, failed |-> 0, completed |-> 0]
NotStarted == [root |-> Blank, left |-> {}, at |-> Blank, stage |-> "idle", passed |-> 0,
          chain |-> [r \in Runnables |-> {}], tally |-> [f \in Folders |-> NoTally], live |-> FALSE]

\* buildFolderChain: the folders a node is in, in the tree as it is: its parent
\* and, with a folder, the folder's parent, and no more.
Above(x) ==
  LET Holds(S, y) == tree[y] \in Folders => tree[y] \in S
  IN {f \in Folders : \A S \in SUBSET Folders :
        Holds(S, x) /\ (\A g \in S : Holds(S, g)) => f \in S}

Deleted(x) == Gone \in {tree[y] : y \in {x} \cup Above(x)}

\* lockIds, the folders of a run: those on the way from its requests to its root.
Locked(n) == {f \in Folders : runs[n].tally[f].count > 0}
_runningFolders == UNION {Locked(n) : n \in {m \in Runs : runs[m].live}}

Badge(tally, running) == [tally |-> tally, running |-> running]

FolderRunInit ==
  /\ tree \in Trees
  /\ runs = [n \in Runs |-> NotStarted]
  /\ badges = [f \in Folders |-> Blank]
  /\ moves = 0 /\ moved = FALSE

-----------------------------------------------------------------------------

\* _collectRunnableRequests
Collected(folder) == {r \in Runnables : folder \in Above(r)}

\* The folders a request is credited to: from its parent up to the root.
Credited(r, folder) == {f \in Above(r) : f = folder \/ folder \in Above(f)}

\* Takes a run of a folder if none of the folders `locks` is in use.
StartRunGuarding(n, folder, locks) ==
  /\ runs[n] = NotStarted /\ \A k \in 1..(n - 1) : runs[k] # NotStarted
  /\ ~Deleted(folder) /\ Collected(folder) # {}
  /\ locks \cap _runningFolders = {}
  /\ LET chain == [r \in Runnables |-> IF r \in Collected(folder) THEN Credited(r, folder) ELSE {}]
         tally == [f \in Folders |-> [NoTally EXCEPT !.count =
                    Cardinality({r \in Runnables : f \in chain[r]})]]
     IN /\ runs' = [runs EXCEPT ![n] =
                      [root |-> folder, left |-> Collected(folder), at |-> Blank, stage |-> "idle",
                       passed |-> 0, chain |-> chain, tally |-> tally, live |-> TRUE]]
        /\ badges' = [f \in Folders |-> IF tally[f].count > 0 THEN Badge(tally[f], TRUE) ELSE badges[f]]
  /\ UNCHANGED <<tree, moves, moved>>

\* Variant: only the folder that was clicked is locked.
Variant_StartRunLocksRoot(n, folder) == StartRunGuarding(n, folder, {folder})

\* The guard covers every folder the run would tally.
StartRun(n, folder) ==
  StartRunGuarding(n, folder, UNION {Credited(r, folder) : r \in Collected(folder)})

\* The next request is resolved and sent.
Execute(n, r) ==
  /\ runs[n].live /\ runs[n].at = Blank /\ r \in runs[n].left
  /\ runs' = [runs EXCEPT ![n].at = r, ![n].left = @ \ {r}, ![n].stage = "sent"]
  /\ UNCHANGED <<tree, badges, moves, moved>>

\* The request is done: every folder it is credited to learns of it.
Credit(n, failed) ==
  LET run == runs[n]
      add(t) == [t EXCEPT !.passed = @ + run.passed, !.failed = @ + failed, !.completed = @ + 1]
      chain == run.chain[run.at]
      tally == [f \in Folders |-> IF f \in chain THEN add(run.tally[f]) ELSE run.tally[f]]
  IN /\ runs' = [runs EXCEPT ![n].tally = tally, ![n].at = Blank, ![n].stage = "idle", ![n].passed = 0]
     /\ badges' = [f \in Folders |-> IF f \in chain THEN Badge(tally[f], TRUE) ELSE badges[f]]
     /\ UNCHANGED <<tree, moves, moved>>

\* A response: the script and the tests run; ...
Answered(n, passed) ==
  /\ runs[n].stage = "sent"
  /\ runs' = [runs EXCEPT ![n].stage = "scored", ![n].passed = passed]
  /\ UNCHANGED <<tree, badges, moves, moved>>

\* ... the run is recorded and the captures are written.
Recorded(n) == runs[n].stage = "scored" /\ Credit(n, 0)

\* No response, or a throw anywhere on the way, the tests already scored or not.
RequestFails(n) == runs[n].stage \in {"sent", "scored"} /\ Credit(n, 1)

\* The run stops: it settles its badges and unlocks its folders.
Settle_(n) ==
  /\ runs' = [runs EXCEPT ![n].live = FALSE, ![n].at = Blank, ![n].stage = "idle"]
  /\ badges' = [f \in Folders |-> IF f \in Locked(n) THEN Badge(runs[n].tally[f], FALSE) ELSE badges[f]]
  /\ UNCHANGED <<tree, moves, moved>>

\* Variant: what a request throws ends the run.
Variant_FailsEndsRun(n) == runs[n].stage \in {"sent", "scored"} /\ Settle_(n)

EndRun(n) ==
  /\ runs[n].live /\ runs[n].left = {} /\ runs[n].at = Blank
  /\ Settle_(n)

-----------------------------------------------------------------------------
(* Meanwhile, in the tree *)

\* #clearFolderRunCounts: a folder and all below it.
ClearCounts(folder) ==
  /\ ~Deleted(folder)
  /\ badges' = [f \in Folders |-> IF f = folder \/ folder \in Above(f) THEN Blank ELSE badges[f]]
  /\ UNCHANGED <<tree, runs, moves, moved>>

\* Drag and drop, or delete.
Move(x, to) ==
  /\ moves < MaxMoves /\ moves' = moves + 1
  /\ ~Deleted(x) /\ to # tree[x]
  /\ to \in Folders => ~Deleted(to) /\ to # x /\ x \notin Above(to)
  /\ tree' = [tree EXCEPT ![x] = to]
  /\ moved' = (moved \/ \E n \in Runs : runs[n].live)
  /\ UNCHANGED <<runs, badges>>

FolderRunNext ==
  \/ \E n \in Runs :
       \/ \E f \in Folders : StartRun(n, f)
       \/ \E r \in Runnables : Execute(n, r)
       \/ \E passed \in 0..1 : Answered(n, passed)
       \/ Recorded(n) \/ RequestFails(n) \/ EndRun(n)
  \/ \E f \in Folders : ClearCounts(f)
  \/ \E x \in Nodes, to \in Folders \cup {Top, Gone} : Move(x, to)

FolderRunSpec == FolderRunInit /\ [][FolderRunNext]_folderVars

-----------------------------------------------------------------------------
(* Properties *)

Tallies == [count : 0..Cardinality(Runnables), passed : Nat, failed : Nat, completed : Nat]

\* The type invariant.
FolderRunTypeOK ==
  /\ tree \in [Nodes -> Folders \cup {Top, Gone}]
  /\ runs \in [Runs -> [root : Folders \cup {Blank}, left : SUBSET Runnables,
                        at : Runnables \cup {Blank}, stage : {"idle", "sent", "scored"},
                        passed : 0..1, live : BOOLEAN,
                        chain : [Runnables -> SUBSET Folders], tally : [Folders -> Tallies]]]
  /\ \A f \in Folders : badges[f] # Blank => badges[f] \in [tally : Tallies, running : BOOLEAN]
  /\ moves \in 0..MaxMoves /\ moved \in BOOLEAN

\* "Block a run that overlaps one already in flight" (app.js 4580-4582): no
\* folder is tallied by two runs, however the tree was rearranged since; and
\* while it was not, no request is sent by two.
RunsDoNotOverlap ==
  \A m, n \in {k \in Runs : runs[k].live} : m # n =>
    /\ Locked(m) \cap Locked(n) = {}
    /\ moved \/ (runs[m].left \cup {runs[m].at}) \cap (runs[n].left \cup {runs[n].at}) \subseteq {Blank}

\* "One bad request never aborts the whole run" (app.js 4601): a badge that has
\* settled counts every request of its folder, and one that still runs belongs
\* to a run that will settle it.
BadgesAddUp ==
  \A f \in Folders : badges[f] # Blank =>
    IF badges[f].running THEN f \in _runningFolders
    ELSE LET t == badges[f].tally IN t.completed = t.count /\ t.passed <= t.count /\ t.failed <= t.count

\* Runs keep out of each other's folders, and bring every badge to its end.
FolderRunsAreSound == RunsDoNotOverlap /\ BadgesAddUp
=============================================================================

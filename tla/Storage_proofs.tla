--------------------------- MODULE Storage_proofs ---------------------------
(***************************************************************************)
(* Proofs about what the main process keeps in files.                      *)
(*                                                                         *)
(* HistoryStore: type correctness, that a run recorded with a response     *)
(* keeps it, that a trim spares the newest runs, and that a session        *)
(* without a fault leaves nothing behind, for any sets of requests, ids,   *)
(* timestamps and limits and any number of faults; and that the pages a    *)
(* reader asks for meanwhile show everything once (HistoryPaging).         *)
(* AtomicWrite: no document io.js writes is ever torn, and a write is one  *)
(* durable step of the file, for any set of documents.                     *)
(* StartupMigrations: no launch loses a variable, for any set of           *)
(* collections, any profile they are upgraded from and any number of       *)
(* launches, wherever each is cut off.                                     *)
(* ResponseBodies: spill files, references and what is shown of a body     *)
(* agree, for any responses, threshold and limit of the registry.          *)
(* CookieJars: a request carries the cookies that are due to it, for any   *)
(* URLs and responses of any length.                                       *)
(***************************************************************************)
EXTENDS HistoryPaging, AtomicWrite, StartupMigrations, ResponseBodies, CookieJars,
        FiniteSetTheorems, SequenceTheorems, WellFoundedInduction, TLAPS

-----------------------------------------------------------------------------
(* The history store *)

\* The key of an entry is a response key.
LEMMA KeyType == ASSUME NEW e \in Entry PROVE Key(e) \in Requests \X Ids
  BY DEF Key, Entry

\* A plan of removals is an operation.
LEMMA RemovalType ==
  ASSUME NEW job \in Jobs,
         NEW R \in SUBSET (Requests \X Ids), NEW E \in SUBSET Entry
  PROVE  /\ Removal(job, R, E) \in Operation
         /\ Removal(job, R, E).putEntry = {}
         /\ Removal(job, R, E).putResponse = {}
         /\ Removal(job, R, E).dropResponse = R
         /\ Removal(job, R, E).dropEntry = E
  BY DEF Removal, Idle, Operation, Jobs

\* So is a trim, whatever its limit; the files it drops come in pairs.
LEMMA TrimType ==
  ASSUME TypeOK, NEW max \in Limits, TrimTo(max)
  PROVE  \E E \in SUBSET entries :
           /\ op' \in Operation
           /\ op'.putEntry = {} /\ op'.putResponse = {}
           /\ op'.dropResponse = {Key(e) : e \in E}
           /\ op'.dropEntry = E
           /\ doomed' = doomed \cup E
<1> DEFINE E == UNION {Beyond(r, max) : r \in Requests}
<1>1. E \subseteq entries
  BY DEF Beyond, RowsOf
<1>2. E \in SUBSET Entry /\ {Key(e) : e \in E} \in SUBSET (Requests \X Ids)
  BY <1>1, KeyType DEF TypeOK
<1>3. op' = [Removal("trim", {Key(e) : e \in E}, E) EXCEPT !.keep = max]
      /\ doomed' = doomed \cup E
  BY DEF TrimTo
<1>4. max \in Nat
  BY LimitsAssumption
<1> HIDE DEF E
<1>5. QED
  BY <1>1, <1>2, <1>3, <1>4 DEF Removal, Idle, Operation, Jobs

-----------------------------------------------------------------------------
(* Type correctness *)

\* TypeOK holds in every reachable state.
THEOREM TypeCorrect == Spec => []TypeOK
<1>1. Init => TypeOK
  <2>1. Idle \in Operation
    BY DEF Idle, Operation, Jobs
  <2>2. 0 \in 0..MaxFaults
    BY FaultsAssumption
  <2>3. QED
    BY <2>1, <2>2 DEF Init, TypeOK
<1>2. TypeOK /\ [Next]_vars => TypeOK'
  <2> SUFFICES ASSUME TypeOK, [Next]_vars PROVE TypeOK'
    OBVIOUS
  <2>1. ASSUME NEW r \in Requests, NEW i \in Ids, NEW t \in Times,
               NEW w \in BOOLEAN, AddHistory(r, i, t, w)
        PROVE  TypeOK'
    <3>1. [req |-> r, id |-> i, ts |-> t] \in Entry /\ <<r, i>> \in Requests \X Ids
      BY DEF Entry
    <3>2. op' \in Operation
      BY <2>1, <3>1 DEF AddHistory, Idle, Operation, Jobs
    <3>3. QED
      BY <2>1, <3>2 DEF AddHistory, TypeOK
  <2>2. ASSUME NEW r \in Requests, NEW i \in used, DeleteHistory(r, i)
        PROVE  TypeOK'
    <3>1. {<<r, i>>} \in SUBSET (Requests \X Ids) /\ "delete" \in Jobs
      BY DEF TypeOK, Jobs
    <3>2. {e \in entries : Key(e) = <<r, i>>} \in SUBSET Entry
      BY DEF TypeOK
    <3>3. QED
      BY <2>2, <3>1, <3>2, RemovalType DEF DeleteHistory, TypeOK
  <2>3. ASSUME NEW r \in Requests, ClearHistory(r) PROVE TypeOK'
    <3>1. /\ {x \in responses : x[1] = r} \in SUBSET (Requests \X Ids)
          /\ RowsOf(r) \in SUBSET Entry /\ "clear" \in Jobs
      BY DEF TypeOK, RowsOf, Jobs
    <3>2. QED
      BY <2>3, <3>1, RemovalType DEF ClearHistory, TypeOK
  <2>4. ASSUME NEW max \in Limits, TrimAllHistory(max) PROVE TypeOK'
    BY <2>4, TrimType DEF TrimAllHistory, TypeOK
  <2>5. CASE Boot
    <3>1. Orphans \in SUBSET (Requests \X Ids) /\ {} \in SUBSET Entry
          /\ "prune" \in Jobs
      BY DEF TypeOK, Orphans, Jobs
    <3>2. QED
      BY <2>5, <3>1, RemovalType DEF Boot, TypeOK
  <2>6. ASSUME NEW max \in Limits, StartupTrim(max) PROVE TypeOK'
    BY <2>6, TrimType DEF StartupTrim, TypeOK
  <2>7. CASE WriteResponse
    BY <2>7 DEF WriteResponse, TypeOK, Operation
  <2>8. CASE WriteEntry
    BY <2>8 DEF WriteEntry, TypeOK, Operation
  <2>9. CASE RemoveResponse
    BY <2>9 DEF RemoveResponse, TypeOK, Operation
  <2>10. CASE RemoveEntry
    BY <2>10 DEF RemoveEntry, TypeOK, Operation
  <2>11. CASE RemovalSwallowed
    BY <2>11, FaultsAssumption DEF RemovalSwallowed, Fault, TypeOK, Operation
  <2>12. CASE OperationThrows
    BY <2>12, FaultsAssumption
    DEF OperationThrows, Fault, TypeOK, Idle, Operation, Jobs
  <2>13. CASE Crash
    BY <2>13, FaultsAssumption DEF Crash, Fault, TypeOK, Idle, Operation, Jobs
  <2>14. CASE UNCHANGED vars
    BY <2>14 DEF vars, TypeOK
  <2>15. QED
    BY <2>1, <2>2, <2>3, <2>4, <2>5, <2>6, <2>7, <2>8, <2>9, <2>10, <2>11,
       <2>12, <2>13, <2>14 DEF Next
<1>3. QED
  BY <1>1, <1>2, PTL DEF Spec

-----------------------------------------------------------------------------
(* The two files of a run stay together *)

\* EntryKeepsItsResponse is not inductive: what the operation in progress may
\* still do has to respect it.  An entry about to be written has its response
\* written or about to be; a response about to be removed belongs to doomed
\* entries only; and no operation writes an entry and removes responses.
IdsUsed == \A e \in entries \cup op.putEntry : e.id \in used
OneEntryPerId ==
  \A e, f \in entries \cup op.putEntry : e.id = f.id => e = f
PlannedWrites ==
  \A e \in op.putEntry :
    e.id \in promised => Key(e) \in op.putResponse \cup responses
PlannedRemovals ==
  \A x \in op.dropResponse : \A e \in entries : Key(e) = x => e \in doomed
OneKindOfJob == op.putEntry = {} \/ op.dropResponse = {}

PairInv == /\ IdsUsed /\ OneEntryPerId
           /\ PlannedWrites /\ PlannedRemovals /\ OneKindOfJob
           /\ EntryKeepsItsResponse

\* A step of the specification preserves PairInv.
LEMMA PairInvStep == TypeOK /\ PairInv /\ [Next]_vars => PairInv'
<1> SUFFICES ASSUME TypeOK, PairInv, [Next]_vars PROVE PairInv'
  OBVIOUS
<1> USE DEF PairInv
\* Operations that only plan removals: the entries at stake become doomed.
<1>0. ASSUME op'.putEntry = {}, entries' = entries, responses' = responses,
             used' = used, promised' = promised, doomed \subseteq doomed',
             \A x \in op'.dropResponse : \A e \in entries :
                Key(e) = x => e \in doomed'
      PROVE  PairInv'
  BY <1>0 DEF IdsUsed, OneEntryPerId, PlannedWrites, PlannedRemovals,
              OneKindOfJob, EntryKeepsItsResponse
<1>1. ASSUME NEW r \in Requests, NEW i \in Ids, NEW t \in Times,
             NEW w \in BOOLEAN, AddHistory(r, i, t, w)
      PROVE  PairInv'
  <2> DEFINE e0 == [req |-> r, id |-> i, ts |-> t]
  <2>1. /\ op'.putEntry = {e0} /\ op'.dropResponse = {}
        /\ w => op'.putResponse = {<<r, i>>}
    BY <1>1 DEF AddHistory, Idle
  <2>2. /\ entries' = entries /\ responses' = responses /\ doomed' = doomed
        /\ used' = used \cup {i} /\ i \notin used
        /\ promised' = IF w THEN promised \cup {i} ELSE promised
    BY <1>1 DEF AddHistory
  <2>3. e0.id = i /\ Key(e0) = <<r, i>> /\ promised \subseteq used
    BY DEF Key, TypeOK
  <2> HIDE DEF e0
  <2>4. IdsUsed'
    BY <2>1, <2>2, <2>3 DEF IdsUsed
  <2>5. OneEntryPerId'
    BY <2>1, <2>2, <2>3 DEF IdsUsed, OneEntryPerId
  <2>6. PlannedWrites'
    BY <2>1, <2>2, <2>3 DEF PlannedWrites
  <2>7. EntryKeepsItsResponse'
    BY <2>2 DEF EntryKeepsItsResponse, IdsUsed
  <2>8. QED
    BY <2>1, <2>4, <2>5, <2>6, <2>7 DEF PlannedRemovals, OneKindOfJob
<1>2. ASSUME NEW r \in Requests, NEW i \in used, DeleteHistory(r, i)
      PROVE  PairInv'
  <2> DEFINE E == {e \in entries : Key(e) = <<r, i>>}
  <2>1. op'.putEntry = {} /\ op'.dropResponse = {<<r, i>>}
    BY <1>2 DEF DeleteHistory, Removal, Idle
  <2>2. QED
    BY <1>0, <1>2, <2>1 DEF DeleteHistory
<1>3. ASSUME NEW r \in Requests, ClearHistory(r) PROVE PairInv'
  <2>1. op'.putEntry = {} /\ op'.dropResponse = {x \in responses : x[1] = r}
    BY <1>3 DEF ClearHistory, Removal, Idle
  <2>2. \A e \in entries : Key(e)[1] = r => e \in RowsOf(r)
    BY DEF Key, RowsOf
  <2>3. QED
    BY <1>0, <1>3, <2>1, <2>2 DEF ClearHistory
<1>4. ASSUME NEW max \in Limits, TrimTo(max), entries' = entries,
             responses' = responses, used' = used, promised' = promised
      PROVE  PairInv'
  <2>1. PICK E \in SUBSET entries :
           /\ op'.putEntry = {}
           /\ op'.dropResponse = {Key(e) : e \in E}
           /\ doomed' = doomed \cup E
    BY <1>4, TrimType
  <2>2. \A e, f \in entries : Key(e) = Key(f) => e = f
    BY DEF OneEntryPerId, Key
  <2>3. QED
    BY <1>0, <1>4, <2>1, <2>2
<1>5. ASSUME NEW max \in Limits, TrimAllHistory(max) PROVE PairInv'
  BY <1>4, <1>5 DEF TrimAllHistory
<1>6. CASE Boot
  <2>1. op'.putEntry = {} /\ op'.dropResponse = Orphans
    BY <1>6 DEF Boot, Removal, Idle
  <2>2. QED
    BY <1>0, <1>6, <2>1 DEF Boot, Orphans
<1>7. ASSUME NEW max \in Limits, StartupTrim(max) PROVE PairInv'
  BY <1>4, <1>7 DEF StartupTrim
<1>8. CASE WriteResponse
  <2>1. PICK x \in op.putResponse :
          /\ responses' = responses \cup {x}
          /\ op' = [op EXCEPT !.putResponse = @ \ {x}]
          /\ UNCHANGED <<entries, used, promised, doomed>>
    BY <1>8 DEF WriteResponse
  <2>2. /\ op'.putResponse = op.putResponse \ {x} /\ op'.putEntry = op.putEntry
        /\ op'.dropResponse = op.dropResponse
    BY <2>1 DEF TypeOK, Operation
  <2>3. QED
    BY <2>1, <2>2 DEF IdsUsed, OneEntryPerId, PlannedWrites, PlannedRemovals,
                      OneKindOfJob, EntryKeepsItsResponse
<1>9. CASE WriteEntry
  <2>1. PICK e \in op.putEntry :
          /\ entries' = entries \cup {e}
          /\ op' = [op EXCEPT !.putEntry = @ \ {e}]
    BY <1>9 DEF WriteEntry
  <2>2. op.putResponse = {} /\ UNCHANGED <<responses, used, promised, doomed>>
    BY <1>9 DEF WriteEntry
  <2>3. /\ op'.putResponse = {} /\ op'.putEntry = op.putEntry \ {e}
        /\ op'.dropResponse = {}
    BY <2>1, <2>2 DEF TypeOK, Operation, OneKindOfJob
  <2>4. e.id \in promised => Key(e) \in responses
    BY <2>1, <2>2 DEF PlannedWrites
  <2>5. QED
    BY <2>1, <2>2, <2>3, <2>4
    DEF IdsUsed, OneEntryPerId, PlannedWrites, PlannedRemovals, OneKindOfJob,
        EntryKeepsItsResponse
<1>10. CASE RemoveResponse
  <2>1. PICK x \in op.dropResponse :
          /\ responses' = responses \ {x}
          /\ op' = [op EXCEPT !.dropResponse = @ \ {x}]
          /\ UNCHANGED <<entries, used, promised, doomed>>
    BY <1>10 DEF RemoveResponse
  <2>2. /\ op'.putEntry = {} /\ op.putEntry = {}
        /\ op'.dropResponse = op.dropResponse \ {x}
    BY <2>1 DEF TypeOK, Operation, OneKindOfJob
  <2>3. QED
    BY <2>1, <2>2 DEF IdsUsed, OneEntryPerId, PlannedWrites, PlannedRemovals,
                      OneKindOfJob, EntryKeepsItsResponse
<1>11. CASE RemoveEntry
  <2>1. PICK e \in op.dropEntry :
          /\ entries' = entries \ {e}
          /\ op' = [op EXCEPT !.dropEntry = @ \ {e}]
    BY <1>11 DEF RemoveEntry
  <2>2. /\ op'.putEntry = op.putEntry /\ op'.putResponse = op.putResponse
        /\ op'.dropResponse = op.dropResponse
    BY <2>1 DEF TypeOK, Operation
  <2>3. QED
    BY <1>11, <2>1, <2>2
    DEF RemoveEntry, IdsUsed, OneEntryPerId, PlannedWrites, PlannedRemovals,
        OneKindOfJob, EntryKeepsItsResponse
<1>12. CASE RemovalSwallowed
  <2>1. /\ op'.putEntry = op.putEntry /\ op'.putResponse = op.putResponse
        /\ op'.dropResponse \subseteq op.dropResponse
    BY <1>12 DEF RemovalSwallowed, TypeOK, Operation
  <2>2. QED
    BY <1>12, <2>1
    DEF RemovalSwallowed, IdsUsed, OneEntryPerId, PlannedWrites,
        PlannedRemovals, OneKindOfJob, EntryKeepsItsResponse
<1>13. CASE OperationThrows
  <2>1. op'.putEntry = {} /\ op'.dropResponse = {}
    BY <1>13 DEF OperationThrows, Idle
  <2>2. QED
    BY <1>0, <1>13, <2>1 DEF OperationThrows
<1>14. CASE Crash
  <2>1. op'.putEntry = {} /\ op'.dropResponse = {}
    BY <1>14 DEF Crash, Idle
  <2>2. QED
    BY <1>0, <1>14, <2>1 DEF Crash
<1>15. CASE UNCHANGED vars
  BY <1>15 DEF vars, IdsUsed, OneEntryPerId, PlannedWrites, PlannedRemovals,
               OneKindOfJob, EntryKeepsItsResponse
<1>16. QED
  BY <1>1, <1>2, <1>3, <1>5, <1>6, <1>7, <1>8, <1>9, <1>10, <1>11, <1>12,
     <1>13, <1>14, <1>15 DEF Next

\* A run recorded with a response keeps it until somebody sets out to delete
\* the run, across crashes, failed writes, trims and the orphan sweep.
THEOREM ResponseKept == Spec => []EntryKeepsItsResponse
<1>1. Init => PairInv
  BY DEF Init, Idle, PairInv, IdsUsed, OneEntryPerId, PlannedWrites,
         PlannedRemovals, OneKindOfJob, EntryKeepsItsResponse
<1>2. PairInv => EntryKeepsItsResponse
  BY DEF PairInv
<1>3. QED
  BY <1>1, <1>2, PairInvStep, TypeCorrect, PTL DEF Spec
-----------------------------------------------------------------------------
(* The order of the runs of a request *)

\* Those of S that are newer than e: how many there are is the rank of e.
NewerIn(S, e) == {f \in S : Newer(f, e)}
Rank(S, e) == Cardinality(NewerIn(S, e))
DistinctIds(S) == \A e, f \in S : e.id = f.id => e = f

LEMMA NewerOrder ==
  /\ \A e \in Entry : ~Newer(e, e)
  /\ \A e, f, g \in Entry : Newer(e, f) /\ Newer(f, g) => Newer(e, g)
  /\ \A e, f \in Entry : e.id # f.id => Newer(e, f) \/ Newer(f, e)
<1>1. \A e \in Entry : e.ts \in Nat /\ e.id \in Nat
  BY IdsAssumption, TimesAssumption DEF Entry
<1> QED
  BY <1>1 DEF Newer

\* Every set of entries that is not empty has one of least rank.
LEMMA LeastRank ==
  ASSUME NEW S \in SUBSET Entry, IsFiniteSet(S), NEW T \in SUBSET S, T # {}
  PROVE  \E e \in T : \A f \in T : ~(Rank(S, f) < Rank(S, e))
<1> DEFINE N == {Rank(S, e) : e \in T}
<1>1. \A e \in T : Rank(S, e) \in Nat
  <2> TAKE e \in T
  <2>1. NewerIn(S, e) \in SUBSET S
    BY DEF NewerIn
  <2> QED
    BY <2>1, FS_Subset, FS_CardinalityType DEF Rank
<1>2. N \subseteq Nat /\ N # {}
  BY <1>1
<1>3. PICK n \in N : \A m \in N : <<m, n>> \notin OpToRel(<, Nat)
  BY <1>2, NatLessThanWellFounded, WFMin
<1>4. \A m \in N : ~(m < n)
  BY <1>2, <1>3 DEF OpToRel
<1>5. PICK e \in T : n = Rank(S, e)
  BY <1>3
<1> QED
  BY <1>4, <1>5

\* A newer entry has a smaller rank.
LEMMA RankOrder ==
  ASSUME NEW S \in SUBSET Entry, IsFiniteSet(S), NEW f \in S, NEW g \in S, Newer(f, g)
  PROVE  Rank(S, f) < Rank(S, g) /\ Rank(S, f) \in Nat /\ Rank(S, g) \in Nat
<1>1. NewerIn(S, f) \in SUBSET S /\ NewerIn(S, g) \in SUBSET S
  BY DEF NewerIn
<1>2. IsFiniteSet(NewerIn(S, f)) /\ IsFiniteSet(NewerIn(S, g))
  BY <1>1, FS_Subset
<1>3. f \notin NewerIn(S, f)
  BY NewerOrder DEF NewerIn
<1>4. NewerIn(S, f) \cup {f} \in SUBSET NewerIn(S, g)
  BY NewerOrder DEF NewerIn
<1>5. Cardinality(NewerIn(S, f) \cup {f}) = Cardinality(NewerIn(S, f)) + 1
  BY <1>2, <1>3, FS_AddElement
<1>6. Cardinality(NewerIn(S, f) \cup {f}) <= Cardinality(NewerIn(S, g))
  BY <1>2, <1>4, FS_Subset
<1> QED
  BY <1>2, <1>5, <1>6, FS_CardinalityType DEF Rank

\* At most n entries have a rank below n: the one of highest rank among them
\* comes after all others.
LEMMA FewAreFirst ==
  ASSUME NEW S \in SUBSET Entry, IsFiniteSet(S), DistinctIds(S), NEW n \in Nat
  PROVE  Cardinality({e \in S : ~(Rank(S, e) >= n)}) <= n
<1> DEFINE T == {e \in S : ~(Rank(S, e) >= n)}
<1>1. T \in SUBSET S /\ IsFiniteSet(T) /\ Cardinality(T) \in Nat
  <2>1. T \in SUBSET S
    OBVIOUS
  <2> QED
    BY <2>1, FS_Subset, FS_CardinalityType
<1>2. CASE T = {}
  BY <1>2, FS_EmptySet
<1>3. CASE T # {}
  <2>1. \A e \in S : Rank(S, e) \in Nat
    <3> TAKE e \in S
    <3>1. NewerIn(S, e) \in SUBSET S
      BY DEF NewerIn
    <3> QED
      BY <3>1, FS_Subset, FS_CardinalityType DEF Rank
  <2> DEFINE D == {n - Rank(S, e) : e \in T}
  <2>2. D \subseteq Nat /\ D # {}
    BY <1>3, <2>1
  <2>3. PICK d \in D : \A c \in D : <<c, d>> \notin OpToRel(<, Nat)
    BY <2>2, NatLessThanWellFounded, WFMin
  <2>4. \A c \in D : ~(c < d)
    BY <2>2, <2>3 DEF OpToRel
  <2>5. PICK m \in T : d = n - Rank(S, m)
    BY <2>3
  <2>6. \A e \in T : Rank(S, e) <= Rank(S, m)
    <3> SUFFICES ASSUME NEW e \in T PROVE Rank(S, e) <= Rank(S, m)
      OBVIOUS
    <3>1. Rank(S, e) \in Nat /\ Rank(S, m) \in Nat
      BY <2>1
    <3>2. n - Rank(S, e) \in D
      OBVIOUS
    <3>3. ~(n - Rank(S, e) < n - Rank(S, m))
      BY <2>4, <2>5, <3>2
    <3> HIDE DEF T, D
    <3> QED BY <3>1, <3>3
  <2>7. \A e \in T \ {m} : Newer(e, m)
    <3> SUFFICES ASSUME NEW e \in T \ {m}, Newer(m, e) PROVE FALSE
      BY NewerOrder DEF DistinctIds
    <3>1. Rank(S, m) < Rank(S, e)
      BY RankOrder
    <3> QED
      BY <2>1, <2>6, <3>1
  <2>8. T \ {m} \in SUBSET NewerIn(S, m) /\ IsFiniteSet(NewerIn(S, m))
    <3>1. NewerIn(S, m) \in SUBSET S
      BY DEF NewerIn
    <3> QED
      BY <2>7, <3>1, FS_Subset DEF NewerIn
  <2>9. Cardinality(T \ {m}) <= Rank(S, m)
    BY <2>8, FS_Subset DEF Rank
  <2>10. Cardinality(T \ {m}) = Cardinality(T) - 1
    BY <1>1, FS_RemoveElement
  <2> QED
    BY <1>1, <2>1, <2>9, <2>10
<1> QED
  BY <1>2, <1>3

\* An entry of rank n or more comes after n entries of a rank below n: those
\* before the first that has no such rank.
LEMMA FirstAreNewer ==
  ASSUME NEW S \in SUBSET Entry, IsFiniteSet(S), NEW n \in Nat,
         NEW e \in S, Rank(S, e) >= n
  PROVE  Cardinality({f \in S : Newer(f, e) /\ ~(Rank(S, f) >= n)}) >= n
<1> DEFINE N == NewerIn(S, e)
           U == {f \in S : Newer(f, e) /\ ~(Rank(S, f) >= n)}
<1>1. /\ N \in SUBSET S /\ U \in SUBSET S /\ IsFiniteSet(N) /\ IsFiniteSet(U)
      /\ Cardinality(N) \in Nat /\ Cardinality(U) \in Nat
  <2>1. N \in SUBSET S /\ U \in SUBSET S
    BY DEF NewerIn
  <2> QED
    BY <2>1, FS_Subset, FS_CardinalityType
<1>2. CASE N \subseteq U
  <2>1. N = U
    BY <1>2 DEF NewerIn
  <2> QED
    BY <2>1 DEF Rank
<1>3. CASE ~(N \subseteq U)
  <2>1. N \ U \in SUBSET S /\ N \ U # {}
    BY <1>1, <1>3
  <2>2. PICK g \in N \ U : \A f \in N \ U : ~(Rank(S, f) < Rank(S, g))
    BY <2>1, LeastRank
  <2>3. g \in S /\ Newer(g, e) /\ Rank(S, g) >= n
    BY <2>2 DEF NewerIn
  <2>4. NewerIn(S, g) \in SUBSET U
    <3> SUFFICES ASSUME NEW f \in NewerIn(S, g) PROVE f \in U
      OBVIOUS
    <3>1. f \in S /\ Newer(f, g) /\ Newer(f, e)
      BY <2>3, NewerOrder DEF NewerIn
    <3>2. Rank(S, f) < Rank(S, g)
      BY <2>3, <3>1, RankOrder
    <3> QED
      BY <2>2, <3>1, <3>2 DEF NewerIn
  <2>5. Cardinality(NewerIn(S, g)) <= Cardinality(U) /\ Cardinality(NewerIn(S, g)) \in Nat
    BY <1>1, <2>4, FS_Subset, FS_CardinalityType
  <2> QED
    BY <1>1, <2>3, <2>5 DEF Rank
<1> QED
  BY <1>2, <1>3
-----------------------------------------------------------------------------
(* What an operation leaves behind *)

\* The entries of a request that the operation in progress lets stay.
Staying(r) == {e \in entries : e \notin op.dropEntry /\ e.req = r}

\* An operation writes or removes, and writes responses of entries it writes.
OneKindOfEffect ==
  /\ op.job # "add" => op.putEntry = {} /\ op.putResponse = {}
  /\ op.job = "add" => op.dropEntry = {} /\ op.dropResponse = {}
  /\ \A x \in op.putResponse : \E e \in op.putEntry : Key(e) = x

\* What a trim lets stay are the newest, as many as it is to keep; without a
\* fault no more.
TrimSpares ==
  op.job = "trim" => \A e \in op.dropEntry :
    Cardinality({f \in Staying(e.req) : Newer(f, e)}) >= op.keep
TrimSuffices ==
  op.job = "trim" /\ ~faulty => \A r \in Requests : Cardinality(Staying(r)) <= op.keep

\* Without a fault an entry goes after its response, and a response without an
\* entry is about to be removed, or its entry about to be written.
PairsGo == ~faulty => \A e \in op.dropEntry : Key(e) \in responses => Key(e) \in op.dropResponse
NoStrays ==
  ~faulty /\ phase # "down" =>
    \A x \in Orphans : x \in op.dropResponse \/ \E e \in op.putEntry : Key(e) = x

TidyInv ==
  /\ IsFiniteSet(entries) /\ OneKindOfEffect
  /\ TrimSpares /\ TrimSuffices /\ PairsGo /\ NoStrays

\* What an operation that only removes sets out to do is tidy when nothing is
\* stray, and it takes the response of every entry it takes.
LEMMA PlanTidy ==
  ASSUME TypeOK, TidyInv, Done, UNCHANGED <<entries, responses, faulty>>,
         op' \in Operation, op'.job # "add", op'.putEntry = {}, op'.putResponse = {},
         \A e \in op'.dropEntry : Key(e) \in responses => Key(e) \in op'.dropResponse,
         phase' # "down" => phase # "down", TrimSpares', TrimSuffices'
  PROVE  TidyInv'
<1>1. OneKindOfEffect' /\ PairsGo'
  BY DEF OneKindOfEffect, PairsGo
<1>2. NoStrays'
  <2>1. ~faulty /\ phase # "down" => Orphans = {}
    BY DEF TidyInv, NoStrays, Done
  <2>2. Orphans' = Orphans
    BY DEF Orphans
  <2> QED
    BY <2>1, <2>2 DEF NoStrays
<1> QED
  BY <1>1, <1>2 DEF TidyInv

\* The plan of a trim: by the order of the runs it spares the newest, and no more.
LEMMA TrimPlan ==
  ASSUME TypeOK, OneEntryPerId, IsFiniteSet(entries), NEW max \in Limits, TrimTo(max),
         UNCHANGED <<entries, responses, faulty>>
  PROVE  /\ op' \in Operation /\ op'.job = "trim" /\ op'.putEntry = {} /\ op'.putResponse = {}
         /\ \A e \in op'.dropEntry : Key(e) \in op'.dropResponse
         /\ TrimSpares' /\ TrimSuffices'
<1> DEFINE E == UNION {Beyond(r, max) : r \in Requests}
<1>1. max \in Nat /\ entries \subseteq Entry
  BY LimitsAssumption DEF TypeOK
<1>2. \A e : e \in E <=> e \in entries /\ Rank(RowsOf(e.req), e) >= max
  <2>1. \A e \in entries : e.req \in Requests
    BY <1>1 DEF Entry
  <2>2. \A r \in Requests : \A e : e \in Beyond(r, max) <=>
          e \in entries /\ e.req = r /\ Rank(RowsOf(r), e) >= max
    BY DEF Beyond, RowsOf, Rank, NewerIn
  <2> QED
    BY <2>1, <2>2
<1>3. E \in SUBSET Entry /\ {Key(e) : e \in E} \in SUBSET (Requests \X Ids)
  BY <1>1, <1>2, KeyType
<1>4. op' = [Removal("trim", {Key(e) : e \in E}, E) EXCEPT !.keep = max]
  BY DEF TrimTo
<1> HIDE DEF E
<1>5. /\ op' \in Operation /\ op'.job = "trim" /\ op'.putEntry = {} /\ op'.putResponse = {}
      /\ op'.dropResponse = {Key(e) : e \in E} /\ op'.dropEntry = E /\ op'.keep = max
  BY <1>1, <1>3, <1>4 DEF Removal, Idle, Operation, Jobs
<1>6. ASSUME NEW r
      PROVE  /\ RowsOf(r) \in SUBSET Entry /\ IsFiniteSet(RowsOf(r)) /\ DistinctIds(RowsOf(r))
             /\ Staying(r)' = {e \in RowsOf(r) : ~(Rank(RowsOf(r), e) >= max)}
  <2>1. RowsOf(r) \in SUBSET entries
    BY DEF RowsOf
  <2>2. Staying(r)' = {e \in RowsOf(r) : ~(Rank(RowsOf(r), e) >= max)}
    BY <1>2, <1>5 DEF Staying, RowsOf
  <2>3. DistinctIds(RowsOf(r))
    BY <2>1 DEF OneEntryPerId, DistinctIds
  <2> QED
    BY <1>1, <2>1, <2>2, <2>3, FS_Subset
<1>7. TrimSpares'
  <2> SUFFICES ASSUME NEW e \in E
               PROVE  Cardinality({f \in Staying(e.req)' : Newer(f, e)}) >= max
    BY <1>5 DEF TrimSpares
  <2>1. e \in RowsOf(e.req) /\ Rank(RowsOf(e.req), e) >= max
    BY <1>2 DEF RowsOf
  <2>2. {f \in Staying(e.req)' : Newer(f, e)}
          = {f \in RowsOf(e.req) : Newer(f, e) /\ ~(Rank(RowsOf(e.req), f) >= max)}
    BY <1>6
  <2> QED
    BY <1>1, <1>6, <2>1, <2>2, FirstAreNewer
<1>8. TrimSuffices'
  <2> SUFFICES ASSUME NEW r \in Requests PROVE Cardinality(Staying(r)') <= max
    BY <1>5 DEF TrimSuffices
  <2> QED
    BY <1>1, <1>6, FewAreFirst
<1> QED
  BY <1>5, <1>7, <1>8

\* Entries that stay may become more, by a fault, and never fewer.
LEMMA TrimGoesOn ==
  ASSUME TidyInv, op'.job = op.job, op'.keep = op.keep, op.keep \in Nat,
         op'.dropEntry \subseteq op.dropEntry, IsFiniteSet(entries'),
         \A r : Staying(r) \subseteq Staying(r)',
         ~faulty' => ~faulty /\ \A r : Staying(r)' = Staying(r)
  PROVE  TrimSpares' /\ TrimSuffices'
<1>1. TrimSuffices'
  BY DEF TidyInv, TrimSuffices
<1>2. TrimSpares'
  <2> SUFFICES ASSUME op.job = "trim", NEW e \in op'.dropEntry
               PROVE  Cardinality({f \in Staying(e.req)' : Newer(f, e)}) >= op.keep
    BY DEF TrimSpares
  <2> DEFINE A == {f \in Staying(e.req) : Newer(f, e)}
             B == {f \in Staying(e.req)' : Newer(f, e)}
  <2>1. Cardinality(A) >= op.keep
    BY DEF TidyInv, TrimSpares
  <2>2. IsFiniteSet(B)
    <3>1. B \in SUBSET entries'
      BY DEF Staying
    <3> QED
      BY <3>1, FS_Subset
  <2>3. A \in SUBSET B
    OBVIOUS
  <2> HIDE DEF A, B
  <2>4. Cardinality(A) <= Cardinality(B) /\ Cardinality(A) \in Nat /\ Cardinality(B) \in Nat
    BY <2>2, <2>3, FS_Subset, FS_CardinalityType
  <2>5. Cardinality(B) >= op.keep
    BY <2>1, <2>4
  <2> QED
    BY <2>5 DEF B
<1> QED
  BY <1>1, <1>2

\* A step of the specification preserves TidyInv.
LEMMA TidyInvStep == TypeOK /\ OneEntryPerId /\ TidyInv /\ [Next]_vars => TidyInv'
<1> SUFFICES ASSUME TypeOK, OneEntryPerId, TidyInv, [Next]_vars PROVE TidyInv'
  OBVIOUS
\* Where no trim goes on, there is nothing to say of one.
<1>0. ASSUME op'.job # "trim" PROVE TrimSpares' /\ TrimSuffices'
  BY <1>0 DEF TrimSpares, TrimSuffices
<1>1. ASSUME NEW r \in Requests, NEW i \in Ids, NEW t \in Times,
             NEW w \in BOOLEAN, AddHistory(r, i, t, w)
      PROVE  TidyInv'
  <2> DEFINE e0 == [req |-> r, id |-> i, ts |-> t]
  <2>1. /\ op'.job = "add" /\ op'.putEntry = {e0} /\ op'.dropResponse = {} /\ op'.dropEntry = {}
        /\ op'.putResponse \subseteq {<<r, i>>}
    BY <1>1 DEF AddHistory, Idle
  <2>2. /\ UNCHANGED <<entries, responses, faulty>> /\ phase = "up" /\ Done /\ Key(e0) = <<r, i>>
    BY <1>1 DEF AddHistory, Ready, Key
  <2> HIDE DEF e0
  <2>3. OneKindOfEffect' /\ PairsGo'
    BY <2>1, <2>2 DEF OneKindOfEffect, PairsGo
  <2>4. NoStrays'
    BY <2>2 DEF TidyInv, NoStrays, Done, Orphans
  <2> QED
    BY <1>0, <2>1, <2>2, <2>3, <2>4 DEF TidyInv
<1>2. ASSUME NEW r \in Requests, NEW i \in used, DeleteHistory(r, i)
      PROVE  TidyInv'
  <2> DEFINE E == {e \in entries : Key(e) = <<r, i>>}
  <2>1. op' = Removal("delete", {<<r, i>>}, E) /\ Ready /\ UNCHANGED <<entries, responses, phase, faulty>>
    BY <1>2 DEF DeleteHistory
  <2>2. {<<r, i>>} \in SUBSET (Requests \X Ids) /\ E \in SUBSET Entry /\ "delete" \in Jobs
    BY DEF TypeOK, Jobs
  <2>3. op' \in Operation /\ op'.putEntry = {} /\ op'.putResponse = {}
        /\ op'.dropResponse = {<<r, i>>} /\ op'.dropEntry = E /\ op'.job = "delete"
    BY <2>1, <2>2, RemovalType DEF Removal, Idle
  <2> QED
    BY <1>0, <2>1, <2>3, PlanTidy DEF Ready
<1>3. ASSUME NEW r \in Requests, ClearHistory(r) PROVE TidyInv'
  <2> DEFINE R == {x \in responses : x[1] = r}
  <2>1. op' = Removal("clear", R, RowsOf(r)) /\ Ready /\ UNCHANGED <<entries, responses, phase, faulty>>
    BY <1>3 DEF ClearHistory
  <2>2. R \in SUBSET (Requests \X Ids) /\ RowsOf(r) \in SUBSET Entry /\ "clear" \in Jobs
    BY DEF TypeOK, Jobs, RowsOf
  <2>3. op' \in Operation /\ op'.putEntry = {} /\ op'.putResponse = {}
        /\ op'.dropResponse = R /\ op'.dropEntry = RowsOf(r) /\ op'.job = "clear"
    BY <2>1, <2>2, RemovalType DEF Removal, Idle
  <2>4. \A e \in op'.dropEntry : Key(e) \in responses => Key(e) \in op'.dropResponse
    BY <2>3 DEF RowsOf, Key
  <2> QED
    BY <1>0, <2>1, <2>3, <2>4, PlanTidy DEF Ready
<1>4. ASSUME NEW max \in Limits, TrimTo(max), Done, phase # "down",
             UNCHANGED <<entries, responses, faulty>>
      PROVE  TidyInv'
  <2>1. IsFiniteSet(entries)
    BY DEF TidyInv
  <2>2. /\ op' \in Operation /\ op'.job = "trim" /\ op'.putEntry = {} /\ op'.putResponse = {}
        /\ \A e \in op'.dropEntry : Key(e) \in op'.dropResponse
        /\ TrimSpares' /\ TrimSuffices'
    BY <1>4, <2>1, TrimPlan
  <2> QED
    BY <1>4, <2>2, PlanTidy
<1>5. ASSUME NEW max \in Limits, TrimAllHistory(max) PROVE TidyInv'
  BY <1>4, <1>5 DEF TrimAllHistory, Ready
<1>6. CASE Boot
  <2>1. /\ op'.job = "prune" /\ op'.putEntry = {} /\ op'.putResponse = {}
        /\ op'.dropResponse = Orphans /\ op'.dropEntry = {}
        /\ UNCHANGED <<entries, responses>>
    BY <1>6 DEF Boot, Removal, Idle
  <2>2. OneKindOfEffect' /\ PairsGo' /\ NoStrays'
    BY <2>1 DEF OneKindOfEffect, PairsGo, NoStrays, Orphans
  <2> QED
    BY <1>0, <2>1, <2>2 DEF TidyInv
<1>7. ASSUME NEW max \in Limits, StartupTrim(max) PROVE TidyInv'
  BY <1>4, <1>7 DEF StartupTrim
<1>8. CASE WriteResponse
  <2>1. PICK x \in op.putResponse :
          /\ responses' = responses \cup {x}
          /\ op' = [op EXCEPT !.putResponse = @ \ {x}]
          /\ UNCHANGED <<entries, phase, faulty>>
    BY <1>8 DEF WriteResponse
  <2>2. /\ op'.putResponse = op.putResponse \ {x} /\ op'.putEntry = op.putEntry
        /\ op'.dropResponse = op.dropResponse /\ op'.dropEntry = op.dropEntry /\ op'.job = op.job
    BY <2>1 DEF TypeOK, Operation
  <2>3. op.job = "add" /\ \E e \in op.putEntry : Key(e) = x
    BY <2>1 DEF TidyInv, OneKindOfEffect
  <2>4. OneKindOfEffect' /\ PairsGo'
    BY <2>2, <2>3 DEF TidyInv, OneKindOfEffect, PairsGo
  <2>5. NoStrays'
    BY <2>1, <2>2, <2>3 DEF TidyInv, NoStrays, Orphans
  <2> QED
    BY <1>0, <2>1, <2>2, <2>3, <2>4, <2>5 DEF TidyInv
<1>9. CASE WriteEntry
  <2>1. PICK e \in op.putEntry :
          /\ entries' = entries \cup {e}
          /\ op' = [op EXCEPT !.putEntry = @ \ {e}]
    BY <1>9 DEF WriteEntry
  <2>2. op.putResponse = {} /\ UNCHANGED <<responses, phase, faulty>>
    BY <1>9 DEF WriteEntry
  <2>3. op.job = "add" /\ op.dropEntry = {}
    BY <2>1 DEF TidyInv, OneKindOfEffect
  <2>4. /\ op'.putResponse = {} /\ op'.putEntry = op.putEntry \ {e}
        /\ op'.dropResponse = op.dropResponse /\ op'.dropEntry = {} /\ op'.job = "add"
    BY <2>1, <2>2, <2>3 DEF TypeOK, Operation
  <2>5. OneKindOfEffect' /\ PairsGo'
    BY <2>3, <2>4 DEF TidyInv, OneKindOfEffect, PairsGo
  <2>6. NoStrays'
    BY <2>1, <2>2, <2>4 DEF TidyInv, NoStrays, Orphans
  <2>7. IsFiniteSet(entries')
    BY <2>1, FS_AddElement DEF TidyInv
  <2> QED
    BY <1>0, <2>4, <2>5, <2>6, <2>7 DEF TidyInv
<1>10. CASE RemoveResponse
  <2>1. PICK x \in op.dropResponse :
          /\ responses' = responses \ {x}
          /\ op' = [op EXCEPT !.dropResponse = @ \ {x}]
          /\ UNCHANGED <<entries, phase, faulty>>
    BY <1>10 DEF RemoveResponse
  <2>2. /\ op'.putResponse = op.putResponse /\ op'.putEntry = op.putEntry
        /\ op'.dropResponse = op.dropResponse \ {x} /\ op'.dropEntry = op.dropEntry
        /\ op'.job = op.job /\ op'.keep = op.keep /\ op.keep \in Nat
    BY <2>1 DEF TypeOK, Operation
  <2>3. OneKindOfEffect' /\ PairsGo'
    BY <2>1, <2>2 DEF TidyInv, OneKindOfEffect, PairsGo
  <2>4. NoStrays'
    BY <2>1, <2>2 DEF TidyInv, NoStrays, Orphans
  <2>5. \A r : Staying(r)' = Staying(r)
    BY <2>1, <2>2 DEF Staying
  <2>6. TrimSpares' /\ TrimSuffices'
    BY <2>1, <2>2, <2>5, TrimGoesOn DEF TidyInv
  <2> QED
    BY <2>1, <2>3, <2>4, <2>6 DEF TidyInv
<1>11. CASE RemoveEntry
  <2>1. PICK e \in op.dropEntry :
          /\ entries' = entries \ {e}
          /\ op' = [op EXCEPT !.dropEntry = @ \ {e}]
          /\ UNCHANGED <<responses, phase, faulty>>
    BY <1>11 DEF RemoveEntry
  <2>2. /\ op'.putResponse = op.putResponse /\ op'.putEntry = op.putEntry
        /\ op'.dropResponse = op.dropResponse /\ op'.dropEntry = op.dropEntry \ {e}
        /\ op'.job = op.job /\ op'.keep = op.keep /\ op.keep \in Nat
    BY <2>1 DEF TypeOK, Operation
  <2>3. OneKindOfEffect' /\ PairsGo'
    BY <2>1, <2>2 DEF TidyInv, OneKindOfEffect, PairsGo
  <2>4. NoStrays'
    BY <2>1, <2>2 DEF TidyInv, NoStrays, Orphans, PairsGo
  <2>5. \A r : Staying(r)' = Staying(r)
    BY <2>1, <2>2 DEF Staying
  <2>6. IsFiniteSet(entries')
    BY <2>1, FS_RemoveElement DEF TidyInv
  <2>7. TrimSpares' /\ TrimSuffices'
    BY <2>1, <2>2, <2>5, <2>6, TrimGoesOn
  <2> QED
    BY <2>3, <2>4, <2>6, <2>7 DEF TidyInv
<1>12. CASE RemovalSwallowed
  <2>1. /\ op'.putEntry = op.putEntry /\ op'.putResponse = op.putResponse
        /\ op'.dropResponse \subseteq op.dropResponse /\ op'.dropEntry \subseteq op.dropEntry
        /\ op'.job = op.job /\ op'.keep = op.keep /\ op.keep \in Nat
    BY <1>12 DEF RemovalSwallowed, TypeOK, Operation
  <2>2. faulty' /\ UNCHANGED entries
    BY <1>12 DEF RemovalSwallowed, Fault
  <2>3. OneKindOfEffect' /\ PairsGo' /\ NoStrays'
    BY <2>1, <2>2 DEF TidyInv, OneKindOfEffect, PairsGo, NoStrays
  <2>4. \A r : Staying(r) \subseteq Staying(r)'
    BY <2>1, <2>2 DEF Staying
  <2>5. TrimSpares' /\ TrimSuffices'
    BY <2>1, <2>2, <2>4, TrimGoesOn DEF TidyInv
  <2> QED
    BY <2>2, <2>3, <2>5 DEF TidyInv
\* A fault that ends the operation leaves nothing planned.
<1>13. ASSUME Fault, op' = Idle, entries' = entries PROVE TidyInv'
  <2>1. /\ op'.job = "none" /\ op'.putEntry = {} /\ op'.putResponse = {}
        /\ op'.dropResponse = {} /\ op'.dropEntry = {} /\ faulty'
    BY <1>13 DEF Idle, Fault
  <2>2. OneKindOfEffect' /\ PairsGo' /\ NoStrays'
    BY <2>1 DEF OneKindOfEffect, PairsGo, NoStrays
  <2> QED
    BY <1>0, <1>13, <2>1, <2>2 DEF TidyInv
<1>14. CASE UNCHANGED vars
  <2>1. \A r : Staying(r)' = Staying(r)
    BY <1>14 DEF vars, Staying
  <2> QED
    BY <1>14, <2>1
    DEF vars, TidyInv, OneKindOfEffect, TrimSpares, TrimSuffices, PairsGo, NoStrays, Orphans
<1>15. CASE OperationThrows
  BY <1>13, <1>15 DEF OperationThrows
<1>16. CASE Crash
  BY <1>13, <1>16 DEF Crash
<1> QED
  BY <1>1, <1>2, <1>3, <1>5, <1>6, <1>7, <1>8, <1>9, <1>10, <1>11, <1>12,
     <1>14, <1>15, <1>16 DEF Next

LEMMA TidyInvHolds == Spec => []TidyInv
<1>1. Init => TidyInv
  <2>1. IsFiniteSet({})
    BY FS_EmptySet
  <2> QED
    BY <2>1 DEF Init, Idle, TidyInv, OneKindOfEffect, TrimSpares, TrimSuffices,
                PairsGo, NoStrays, Orphans
<1>2. Init => PairInv
  BY DEF Init, Idle, PairInv, IdsUsed, OneEntryPerId, PlannedWrites,
         PlannedRemovals, OneKindOfJob, EntryKeepsItsResponse
<1>3. PairInv => OneEntryPerId
  BY DEF PairInv
<1> QED
  BY <1>1, <1>2, <1>3, PairInvStep, TidyInvStep, TypeCorrect, PTL DEF Spec

\* A session without a fault leaves nothing behind, whatever earlier sessions
\* left: no response that nothing refers to, no runs beyond the limit of a trim.
THEOREM SessionsLeaveNothingBehind == Spec => []NothingIsLeftBehind
<1>1. TidyInv => NothingIsLeftBehind
  <2> SUFFICES ASSUME TidyInv PROVE NothingIsLeftBehind
    OBVIOUS
  <2>1. OrphansOnlyAfterAFault
    BY DEF TidyInv, NoStrays, OrphansOnlyAfterAFault, Ready, Done
  <2>2. ASSUME Done, NEW r PROVE Staying(r) = RowsOf(r)
    BY <2>2 DEF Done, Staying, RowsOf
  <2>3. TrimReachesTheLimit
    BY <2>2 DEF TidyInv, TrimSuffices, TrimReachesTheLimit, Ready
  <2> QED
    BY <2>1, <2>3 DEF NothingIsLeftBehind
<1> QED
  BY <1>1, TidyInvHolds, PTL

\* No step of a trim, interrupted or not, takes an entry while fewer than the
\* retained number of newer ones of the same request are on disk.
THEOREM TrimsSpareTheNewest == Spec => TrimSparesTheNewest
<1> DEFINE Spares == \A e \in entries \ entries' : op.job = "trim" =>
                       Cardinality({f \in RowsOf(e.req) : Newer(f, e)}) >= op.keep
<1>1. TypeOK /\ TidyInv /\ [Next]_vars => Spares
  <2> SUFFICES ASSUME TypeOK, TidyInv, [Next]_vars, NEW e \in entries \ entries', op.job = "trim"
               PROVE  Cardinality({f \in RowsOf(e.req) : Newer(f, e)}) >= op.keep
    OBVIOUS
  <2>1. entries' = entries \/ WriteEntry \/ RemoveEntry
    BY DEF Next, vars, AddHistory, DeleteHistory, ClearHistory, TrimAllHistory, Boot, StartupTrim,
           WriteResponse, RemoveResponse, RemovalSwallowed, OperationThrows, Crash
  <2>2. e \in op.dropEntry
    BY <2>1 DEF WriteEntry, RemoveEntry
  <2> DEFINE A == {f \in Staying(e.req) : Newer(f, e)}
             B == {f \in RowsOf(e.req) : Newer(f, e)}
  <2>3. Cardinality(A) >= op.keep
    BY <2>2 DEF TidyInv, TrimSpares
  <2>4. A \in SUBSET B /\ B \in SUBSET entries
    BY DEF Staying, RowsOf
  <2>5. op.keep \in Nat
    BY DEF TypeOK, Operation
  <2> HIDE DEF A, B
  <2>6. Cardinality(A) <= Cardinality(B) /\ Cardinality(A) \in Nat /\ Cardinality(B) \in Nat
    BY <2>4, FS_Subset, FS_CardinalityType DEF TidyInv
  <2>7. Cardinality(B) >= op.keep
    BY <2>3, <2>5, <2>6
  <2> QED
    BY <2>7 DEF B
<1>2. TypeOK /\ TidyInv /\ [Next]_vars => [Spares]_vars
  BY <1>1
<1> QED
  BY <1>2, TypeCorrect, TidyInvHolds, PTL DEF Spec, TrimSparesTheNewest
-----------------------------------------------------------------------------
(* Paging *)

\* A set of entries that is not empty has a newest and an oldest one.
LEMMA NewestExists ==
  ASSUME NEW S \in SUBSET Entry, IsFiniteSet(S), NEW T \in SUBSET S, T # {}
  PROVE  \E e \in T : \A f \in T : ~Newer(f, e)
<1>1. PICK e \in T : \A f \in T : ~(Rank(S, f) < Rank(S, e))
  BY LeastRank
<1> QED
  BY <1>1, RankOrder

LEMMA OldestExists ==
  ASSUME NEW S \in SUBSET Entry, IsFiniteSet(S), S # {}
  PROVE  \E e \in S : \A f \in S : ~Newer(e, f)
<1> DEFINE n == Cardinality(S)
           D == {n - Rank(S, e) : e \in S}
<1>1. \A e \in S : Rank(S, e) \in Nat /\ n - Rank(S, e) \in Nat
  <2> TAKE e \in S
  <2>1. NewerIn(S, e) \in SUBSET S
    BY DEF NewerIn
  <2>2. Rank(S, e) \in Nat /\ Rank(S, e) <= n /\ n \in Nat
    BY <2>1, FS_Subset, FS_CardinalityType DEF Rank
  <2> QED
    BY <2>2
<1>2. D \subseteq Nat /\ D # {} /\ n \in Nat
  BY <1>1, FS_CardinalityType
<1>3. PICK d \in D : \A c \in D : <<c, d>> \notin OpToRel(<, Nat)
  BY <1>2, NatLessThanWellFounded, WFMin
<1>4. \A c \in D : ~(c < d)
  BY <1>2, <1>3 DEF OpToRel
<1>5. PICK e \in S : d = n - Rank(S, e)
  BY <1>3
<1>6. \A f \in S : ~(n - Rank(S, f) < n - Rank(S, e))
  BY <1>4, <1>5
<1> HIDE DEF n, D
<1>7. \A f \in S : ~(Rank(S, e) < Rank(S, f))
  BY <1>1, <1>2, <1>6
<1> QED
  BY <1>7, RankOrder

\* A page is not empty when anything is left, and comes before all it leaves.
LEMMA PageComesFirst ==
  ASSUME NEW S \in SUBSET Entry, IsFiniteSet(S), DistinctIds(S), NEW n \in Nat \ {0}
  PROVE  /\ Newest(S, n) \in SUBSET S
         /\ S # {} => Newest(S, n) # {}
         /\ \A f \in Newest(S, n), e \in S \ Newest(S, n) : Newer(f, e)
<1>1. Newest(S, n) = {e \in S : Rank(S, e) < n}
  BY DEF Newest, Rank, NewerIn
<1>2. ASSUME S # {} PROVE Newest(S, n) # {}
  <2>1. PICK e \in S : \A f \in S : ~Newer(f, e)
    BY <1>2, NewestExists
  <2>2. NewerIn(S, e) = {}
    BY <2>1 DEF NewerIn
  <2>3. Rank(S, e) = 0
    BY <2>2, FS_EmptySet DEF Rank
  <2> QED
    BY <1>1, <2>3
<1>3. ASSUME NEW f \in Newest(S, n), NEW e \in S \ Newest(S, n) PROVE Newer(f, e)
  <2>1. SUFFICES ASSUME Newer(e, f) PROVE FALSE
    BY <1>1, <1>3, NewerOrder DEF DistinctIds
  <2>2. Rank(S, e) < Rank(S, f) /\ Rank(S, e) \in Nat /\ Rank(S, f) \in Nat
    BY <1>1, <1>3, <2>1, RankOrder
  <2> QED
    BY <1>1, <1>3, <2>2
<1> QED
  BY <1>1, <1>2, <1>3

\* Where a cursor made from an entry resumes: at everything older than that entry,
\* and at nothing else but its ties where timestamps are numbers.
LEMMA ResumeOrder ==
  ASSUME NEW g \in Entry, NEW c, c.ts = g.ts, c.id = g.id, NEW e \in Entry
  PROVE  /\ Newer(g, e) => ResumeAt(c, e)
         /\ ResumeAt(c, e) => Newer(g, e) \/ (Stamps = "ms" /\ e.ts = g.ts)
         /\ \A f \in Entry : ResumeAt(c, e) /\ Newer(e, f) => ResumeAt(c, f)
<1>1. \A f \in Entry : f.ts \in Nat /\ f.id \in Nat
  BY IdsAssumption, TimesAssumption DEF Entry
<1> QED
  BY <1>1, PagingAssumption DEF ResumeAt, Newer

\* Whether that entry is still there or not, the cursor resumes at just these.
LEMMA ResumesFromTheCursor ==
  ASSUME NEW r, RowsOf(r) \in SUBSET Entry, IsFiniteSet(RowsOf(r)),
         DistinctIds(RowsOf(r)), NEW g \in Entry,
         NEW c, ~c.empty, c.ts = g.ts, c.id = g.id
  PROVE  Rest(r, c) = {e \in RowsOf(r) : ResumeAt(c, e)}
<1> DEFINE S == RowsOf(r)
           T == {e \in S : ResumeAt(c, e)}
<1>2. Rest(r, c) = {e \in S : \E first \in S :
                      /\ ResumeAt(c, first)
                      /\ \A f \in S : ResumeAt(c, f) => ~Newer(f, first)
                      /\ ~Newer(e, first)}
  BY DEF Rest
<1>3. ASSUME NEW e \in T PROVE e \in Rest(r, c)
  <2>1. T \in SUBSET S /\ T # {}
    BY <1>3
  <2>2. PICK first \in T : \A f \in T : ~Newer(f, first)
    BY <2>1, NewestExists
  <2> QED
    BY <1>2, <1>3, <2>2
<1>4. ASSUME NEW e \in Rest(r, c) PROVE e \in T
  <2>1. PICK first \in S : ResumeAt(c, first) /\ ~Newer(e, first) /\ e \in S
    BY <1>2, <1>4
  <2>2. e = first \/ Newer(first, e)
    BY <2>1, NewerOrder DEF DistinctIds
  <2>3. first \in Entry /\ e \in Entry
    BY <2>1
  <2>4. Newer(first, e) => ResumeAt(c, e)
    BY <2>1, <2>3, ResumeOrder
  <2> QED
    BY <2>1, <2>2, <2>4
<1> QED
  BY <1>2, <1>3, <1>4

\* What the pages shown so far have to do with the cursor: they end at the entry it
\* was made from or, with numbers, at one of its ties, and what was there all along
\* and is not shown comes after it.
Readers == [state : {"idle", "paging", "done"}, req : Requests \cup {NoReader.req},
            limit : Nat \ {0}, cursor : [ts : Nat, id : Nat, empty : BOOLEAN],
            seen : SUBSET Entry, again : SUBSET Entry, steady : SUBSET Entry]
StandsAt(g) ==
  /\ reader.cursor.ts = g.ts /\ reader.cursor.id = g.id
  /\ \A e \in reader.seen : e.ts >= g.ts /\ (Newer(g, e) => Stamps = "ms")
  /\ \A e \in reader.steady \ reader.seen : Newer(g, e)
PagingInv ==
  /\ reader \in Readers
  /\ reader.state = "paging" =>
       /\ reader.steady \subseteq RowsOf(reader.req)
       /\ IF reader.cursor.empty THEN reader.seen = {} ELSE \E g \in Entry : StandsAt(g)
  /\ reader.state = "done" => reader.steady \subseteq reader.seen

\* What a step shows again: ties of the cursor, and only where stamps are numbers.
Repeats == \A e \in reader'.again \ reader.again : Stamps = "ms" /\ e.ts = reader.cursor.ts

LEMMA PagingInvStep ==
  ASSUME TypeOK, OneEntryPerId, IsFiniteSet(entries), PagingInv, [PagingNext]_pagingVars
  PROVE  PagingInv' /\ Repeats
<1> USE DEF PagingInv
<1>0. /\ \A r : RowsOf(r) \in SUBSET entries /\ RowsOf(r) \in SUBSET Entry
      /\ \A r : IsFiniteSet(RowsOf(r)) /\ DistinctIds(RowsOf(r))
  <2>1. \A r : RowsOf(r) \in SUBSET entries /\ RowsOf(r) \in SUBSET Entry
    BY DEF RowsOf, TypeOK
  <2> QED
    BY <2>1, FS_Subset DEF OneEntryPerId, DistinctIds
<1>1. NoReader \in Readers /\ NoReader.again = {} /\ NoReader.state = "idle"
  BY DEF NoReader, NoCursor, Readers
<1>9. \A e \in Entry : e.ts \in Nat /\ e.id \in Nat
  BY IdsAssumption, TimesAssumption DEF Entry
<1>2. ASSUME NEW r \in Requests, NEW n \in PageLimits, StartPaging(r, n)
      PROVE  PagingInv' /\ Repeats
  <2>1. /\ reader' = [NoReader EXCEPT !.state = "paging", !.req = r, !.limit = n,
                                      !.steady = RowsOf(r)]
        /\ UNCHANGED vars /\ n \in Nat \ {0} /\ RowsOf(r) \in SUBSET Entry
    BY <1>0, <1>2, PagingAssumption DEF StartPaging
  <2>2. /\ reader'.state = "paging" /\ reader'.req = r /\ reader'.limit = n
        /\ reader'.steady = RowsOf(r) /\ reader'.cursor = NoCursor
        /\ reader'.seen = {} /\ reader'.again = {} /\ reader' \in Readers
    BY <2>1 DEF NoReader, NoCursor, Readers
  <2>3. RowsOf(r)' = RowsOf(r) /\ NoCursor.empty
    BY <2>1 DEF vars, RowsOf, NoCursor
  <2> QED
    BY <2>2, <2>3 DEF Repeats
<1>3. CASE FetchPage
  <2> DEFINE rest == Rest(reader.req, reader.cursor)
             page == Newest(rest, reader.limit)
             next == NextCursor(rest, page)
  <2>1. /\ reader.state = "paging" /\ UNCHANGED vars
        /\ reader' = [reader EXCEPT !.state = IF next.empty THEN "done" ELSE @,
                                    !.cursor = next,
                                    !.seen = @ \cup page,
                                    !.again = @ \cup (reader.seen \cap page)]
    BY <1>3 DEF FetchPage
  <2>2. /\ rest \in SUBSET RowsOf(reader.req)
        /\ \A e \in reader.steady \ reader.seen : e \in rest
        /\ \A e \in rest, f \in reader.seen : f.ts >= e.ts /\ (Newer(e, f) => Stamps = "ms")
        /\ \A e \in rest \cap reader.seen : Stamps = "ms" /\ e.ts = reader.cursor.ts
    <3>1. CASE reader.cursor.empty
      BY <2>1, <3>1 DEF Rest
    <3>2. CASE ~reader.cursor.empty
      <4>1. PICK g \in Entry : StandsAt(g)
        BY <2>1, <3>2
      <4>2. rest = {e \in RowsOf(reader.req) : ResumeAt(reader.cursor, e)}
        BY <1>0, <3>2, <4>1, ResumesFromTheCursor DEF StandsAt
      <4>3. \A e \in rest : Newer(g, e) \/ (Stamps = "ms" /\ e.ts = g.ts)
        BY <1>0, <4>1, <4>2, ResumeOrder DEF StandsAt
      <4>4. reader.seen \subseteq Entry /\ rest \subseteq Entry
        BY <1>0, <4>2 DEF Readers
      <4>5. ASSUME NEW e \in reader.steady \ reader.seen PROVE e \in rest
        <5>1. e \in RowsOf(reader.req) /\ e \in Entry /\ Newer(g, e)
          BY <1>0, <2>1, <4>1 DEF StandsAt
        <5> QED
          BY <4>1, <4>2, <5>1, ResumeOrder DEF StandsAt
      <4>6. ASSUME NEW e \in rest, NEW f \in reader.seen
            PROVE  f.ts >= e.ts /\ (Newer(e, f) => Stamps = "ms")
        <5>1. e \in Entry /\ f \in Entry /\ f.ts >= g.ts /\ (Newer(g, f) => Stamps = "ms")
          BY <4>1, <4>4 DEF StandsAt
        <5>2. g.ts >= e.ts
          BY <1>9, <4>3, <5>1 DEF Newer
        <5>3. Newer(g, e) /\ Newer(e, f) => Newer(g, f)
          BY <5>1, NewerOrder
        <5> QED
          BY <1>9, <4>3, <5>1, <5>2, <5>3
      <4>7. ASSUME NEW e \in rest \cap reader.seen
            PROVE  Stamps = "ms" /\ e.ts = reader.cursor.ts
        <5>1. e \in Entry /\ e.ts >= g.ts /\ (Newer(g, e) => Stamps = "ms")
          BY <4>1, <4>4 DEF StandsAt
        <5>2. g.ts >= e.ts
          BY <1>9, <4>3, <5>1 DEF Newer
        <5> QED
          BY <1>9, <4>1, <4>3, <5>1, <5>2 DEF StandsAt
      <4>8. rest \in SUBSET RowsOf(reader.req)
        BY <4>2
      <4> QED
        BY <4>5, <4>6, <4>7, <4>8
    <3> QED
      BY <3>1, <3>2
  <2>3. rest \in SUBSET Entry /\ IsFiniteSet(rest) /\ DistinctIds(rest)
    BY <1>0, <2>2, FS_Subset DEF DistinctIds
  <2>4. reader.limit \in Nat \ {0}
    BY DEF Readers
  <2> HIDE DEF rest
  <2>5. /\ page \in SUBSET rest /\ (rest # {} => page # {})
        /\ \A f \in page, e \in rest \ page : Newer(f, e)
    BY <2>3, <2>4, PageComesFirst
  <2> HIDE DEF page
  <2>6. \A e \in reader.seen \cap page : Stamps = "ms" /\ e.ts = reader.cursor.ts
    BY <2>2, <2>5
  <2>7. next \in [ts : Nat, id : Nat, empty : BOOLEAN] /\ (next.empty <=> page = rest)
        /\ (page # rest => \E g \in page : /\ \A f \in page : ~Newer(g, f)
                                           /\ next.ts = g.ts /\ next.id = g.id)
    <3>1. CASE page = rest
      BY <3>1 DEF NextCursor, NoCursor
    <3>2. CASE page # rest
      <4>1. page \in SUBSET Entry /\ IsFiniteSet(page) /\ page # {}
        BY <2>3, <2>5, <3>2, FS_Subset
      <4>2. \E e \in page : \A f \in page : ~Newer(e, f)
        BY <4>1, OldestExists
      <4>3. Oldest(page) \in page /\ \A f \in page : ~Newer(Oldest(page), f)
        BY <4>2 DEF Oldest
      <4>4. next = [ts |-> Oldest(page).ts, id |-> Oldest(page).id, empty |-> FALSE]
        BY <3>2 DEF NextCursor
      <4>5. Oldest(page).ts \in Nat /\ Oldest(page).id \in Nat
        BY <4>1, <4>3, IdsAssumption, TimesAssumption DEF Entry
      <4> QED
        BY <3>2, <4>3, <4>4, <4>5
    <3> QED
      BY <3>1, <3>2
  <2> HIDE DEF next
  <2>8. /\ reader'.state = IF next.empty THEN "done" ELSE "paging"
        /\ reader'.cursor = next /\ reader'.seen = reader.seen \cup page
        /\ reader'.again = reader.again \cup (reader.seen \cap page)
        /\ reader'.steady = reader.steady
        /\ reader'.req = reader.req /\ reader'.limit = reader.limit
    BY <2>1 DEF Readers
  <2>10. Repeats
    BY <2>6, <2>8 DEF Repeats
  <2>9. reader' \in Readers
    <3>1. page \in SUBSET Entry
      BY <2>3, <2>5
    <3>2. DOMAIN reader' = DOMAIN reader /\ reader' = [reader EXCEPT
            !.state = IF next.empty THEN "done" ELSE @, !.cursor = next,
            !.seen = @ \cup page, !.again = @ \cup (reader.seen \cap page)]
      BY <2>1
    <3> QED
      BY <2>7, <3>1, <3>2 DEF Readers
  <2>11. CASE page = rest
    BY <2>2, <2>7, <2>8, <2>9, <2>10, <2>11
  <2>12. CASE page # rest
    <3>1. PICK g \in page : /\ \A f \in page : ~Newer(g, f)
                            /\ next.ts = g.ts /\ next.id = g.id
      BY <2>7, <2>12
    <3>2. g \in Entry /\ g \in rest
      BY <2>3, <2>5, <3>1
    <3>3. \A e \in reader.seen \cup page : e.ts >= g.ts /\ (Newer(g, e) => Stamps = "ms")
      <4>1. ASSUME NEW e \in page PROVE e.ts >= g.ts /\ ~Newer(g, e)
        <5>1. e \in Entry /\ ~Newer(g, e)
          BY <2>3, <2>5, <3>1, <4>1
        <5> QED
          BY <1>9, <3>2, <5>1 DEF Newer
      <4> QED
        BY <2>2, <3>2, <4>1
    <3>4. \A e \in reader.steady \ (reader.seen \cup page) : Newer(g, e)
      BY <2>2, <2>5, <3>1
    <3>5. StandsAt(g)'
      BY <2>8, <3>1, <3>3, <3>4 DEF StandsAt
    <3>6. (reader.steady \subseteq RowsOf(reader.req))'
      BY <2>1, <2>8 DEF vars, RowsOf
    <3> QED
      BY <2>7, <2>8, <2>9, <2>10, <2>12, <3>2, <3>5, <3>6
  <2> QED
    BY <2>11, <2>12
<1>4. CASE StoreStep
  <2>1. CASE phase' = "down"
    BY <1>1, <1>4, <2>1 DEF StoreStep, Repeats
  <2>2. CASE phase' # "down" /\ reader.state = "paging"
    <3>1. reader' = [reader EXCEPT !.steady = @ \cap entries']
      BY <1>4, <2>2 DEF StoreStep
    <3>2. /\ reader' \in Readers /\ reader'.state = "paging" /\ reader'.again = reader.again
          /\ reader'.steady = reader.steady \cap entries' /\ reader'.seen = reader.seen
          /\ reader'.cursor = reader.cursor /\ reader'.req = reader.req
      BY <2>2, <3>1 DEF Readers
    <3>3. (reader.steady \subseteq RowsOf(reader.req))'
      BY <2>2, <3>2 DEF RowsOf
    <3>4. ASSUME NEW g \in Entry, StandsAt(g) PROVE StandsAt(g)'
      BY <3>2, <3>4 DEF StandsAt
    <3> QED
      BY <2>2, <3>2, <3>3, <3>4 DEF Repeats
  <2>3. CASE phase' # "down" /\ reader.state # "paging"
    BY <1>4, <2>3 DEF StoreStep, Repeats
  <2> QED
    BY <2>1, <2>2, <2>3
<1>5. CASE UNCHANGED pagingVars
  <2>1. reader' = reader /\ entries' = entries
    BY <1>5 DEF pagingVars, vars
  <2>2. ASSUME NEW g \in Entry, StandsAt(g) PROVE StandsAt(g)'
    BY <2>1, <2>2 DEF StandsAt
  <2> QED
    BY <2>1, <2>2 DEF RowsOf, Repeats
<1> QED
  BY <1>2, <1>3, <1>4, <1>5 DEF PagingNext

LEMMA PagingInvHolds ==
  PagingSpec => /\ []PagingInv
                /\ [](TypeOK /\ OneEntryPerId /\ IsFiniteSet(entries))
                /\ [][PagingInv /\ Repeats]_pagingVars
<1>1. PagingInit => PagingInv
  BY DEF PagingInit, PagingInv, NoReader, NoCursor, Readers
<1>2. PagingInit => Init
  BY DEF PagingInit
<1>3. [PagingNext]_pagingVars => [Next]_vars
  BY DEF PagingNext, pagingVars, StartPaging, FetchPage, StoreStep
<1>4. Init => PairInv
  BY DEF Init, Idle, PairInv, IdsUsed, OneEntryPerId, PlannedWrites,
         PlannedRemovals, OneKindOfJob, EntryKeepsItsResponse
<1>5. PairInv => OneEntryPerId
  BY DEF PairInv
<1>6. TidyInv => IsFiniteSet(entries)
  BY DEF TidyInv
<1>7. TypeOK /\ OneEntryPerId /\ IsFiniteSet(entries) /\ PagingInv /\ [PagingNext]_pagingVars
        => PagingInv' /\ Repeats
  BY PagingInvStep
<1> QED
  BY <1>1, <1>2, <1>3, <1>4, <1>5, <1>6, <1>7, PairInvStep, TypeCorrect, TidyInvHolds, PTL
  DEF PagingSpec, Spec

\* Whether timestamps are numbers or strings, the pages of a reader show whatever
\* was on disk from its first page to its last, whatever is added, deleted, cleared
\* or trimmed between them (history-store.js 123-148).
THEOREM PagesMissNothing == PagingSpec => []PagingMissesNothing
<1>1. PagingInv => PagingMissesNothing
  BY DEF PagingInv, PagingMissesNothing
<1> QED
  BY <1>1, PagingInvHolds, PTL

\* What a page shows again are ties of its cursor where timestamps are numbers, and
\* nothing where they are strings (history-store.js 66-73, 131-141).
THEOREM OnlyTiesRepeat == PagingSpec => RepeatsAreTies
<1>1. [PagingInv /\ Repeats]_pagingVars =>
        [\A e \in reader'.again \ reader.again :
           Stamps = "ms" /\ e.ts = reader.cursor.ts]_pagingVars
  BY DEF Repeats
<1> QED
  BY <1>1, PagingInvHolds, PTL DEF RepeatsAreTies

\* A page that leaves something over is full.
LEMMA PageIsFull ==
  ASSUME NEW S \in SUBSET Entry, IsFiniteSet(S), NEW n \in Nat \ {0}, Newest(S, n) # S
  PROVE  /\ IsFiniteSet(Newest(S, n)) /\ Newest(S, n) # {}
         /\ Cardinality(Newest(S, n)) \in Nat /\ Cardinality(Newest(S, n)) >= n
<1>1. Newest(S, n) = {e \in S : Rank(S, e) < n} /\ Newest(S, n) \in SUBSET S
  BY DEF Newest, Rank, NewerIn
<1>2. IsFiniteSet(Newest(S, n)) /\ Cardinality(Newest(S, n)) \in Nat
  BY <1>1, FS_Subset, FS_CardinalityType
<1>3. \A e \in S : Rank(S, e) \in Nat
  <2> TAKE e \in S
  <2>1. NewerIn(S, e) \in SUBSET S
    BY DEF NewerIn
  <2> QED
    BY <2>1, FS_Subset, FS_CardinalityType DEF Rank
<1>4. PICK e \in S : Rank(S, e) >= n
  BY <1>1, <1>3
<1> DEFINE P == {f \in S : Newer(f, e) /\ ~(Rank(S, f) >= n)}
<1>5. Cardinality(P) >= n
  BY <1>4, FirstAreNewer
<1>6. P \in SUBSET Newest(S, n)
  BY <1>1, <1>3
<1> HIDE DEF P
<1>7. Cardinality(P) <= Cardinality(Newest(S, n)) /\ Cardinality(P) \in Nat
  BY <1>2, <1>6, FS_Subset, FS_CardinalityType
<1>8. Cardinality(Newest(S, n)) >= n
  BY <1>2, <1>5, <1>7
<1>9. Newest(S, n) # {}
  BY <1>8, FS_EmptySet
<1> QED
  BY <1>2, <1>8, <1>9

\* Unless ties of its cursor fill a page, a reading ends with its next page or moves
\* on to an older entry, whatever was recorded, deleted or trimmed since the last one
\* (history-store.js 123-158).
THEOREM PagingMovesOn == PagingSpec => []PagingAdvances
<1> DEFINE r == reader.req
           c == reader.cursor
           S == Rest(r, c)
           page == Newest(S, reader.limit)
           next == NextCursor(S, page)
<1>1. ASSUME TypeOK, OneEntryPerId, IsFiniteSet(entries), PagingInv,
             reader.state = "paging", ~c.empty, ~TiesFillThePage, ~next.empty
      PROVE  Newer(c, next)
  <2>1. /\ RowsOf(r) \in SUBSET Entry /\ IsFiniteSet(RowsOf(r)) /\ DistinctIds(RowsOf(r))
    <3>1. RowsOf(r) \in SUBSET entries /\ entries \in SUBSET Entry
      BY <1>1 DEF RowsOf, TypeOK
    <3> QED
      BY <1>1, <3>1, FS_Subset DEF OneEntryPerId, DistinctIds
  <2>2. PICK g \in Entry : c.ts = g.ts /\ c.id = g.id
    BY <1>1 DEF PagingInv, StandsAt
  <2>3. S = {e \in RowsOf(r) : ResumeAt(c, e)}
    BY <1>1, <2>1, <2>2, ResumesFromTheCursor
  <2>4. reader.limit \in Nat \ {0}
    BY <1>1 DEF PagingInv, Readers
  <2>5. S \in SUBSET Entry /\ S \in SUBSET RowsOf(r) /\ IsFiniteSet(S)
    BY <2>1, <2>3, FS_Subset
  <2>6. page # S /\ next.ts = Oldest(page).ts /\ next.id = Oldest(page).id
    BY <1>1 DEF NextCursor, NoCursor
  <2>7. /\ page \in SUBSET S /\ page # {} /\ IsFiniteSet(page)
        /\ Cardinality(page) \in Nat /\ Cardinality(page) >= reader.limit
    <3>1. page \in SUBSET S
      BY DEF Newest
    <3> HIDE DEF S
    <3> QED
      BY <2>4, <2>5, <2>6, <3>1, PageIsFull
  <2> HIDE DEF S, page, next
  <2> DEFINE o == Oldest(page)
  <2>8. o \in page /\ \A f \in page : ~Newer(o, f)
    <3>1. page \in SUBSET Entry
      BY <2>5, <2>7
    <3>2. \E e \in page : \A f \in page : ~Newer(e, f)
      BY <2>7, <3>1, OldestExists
    <3> QED
      BY <3>2 DEF Oldest
  <2> HIDE DEF o
  <2>9. o \in Entry /\ ResumeAt(c, o) /\ \A f \in page : f \in Entry /\ ResumeAt(c, f)
    BY <2>3, <2>5, <2>7, <2>8
  <2>10. Newer(g, o) \/ (Stamps = "ms" /\ o.ts = g.ts)
    BY <2>2, <2>9, ResumeOrder
  <2>11. CASE Newer(g, o)
    BY <2>2, <2>6, <2>11 DEF Newer, o
  <2>12. CASE Stamps = "ms" /\ o.ts = g.ts
    <3> DEFINE T == {e \in RowsOf(r) : e.ts = c.ts}
    <3>1. \A f \in page : f.ts = c.ts
      <4> TAKE f \in page
      <4>1. f.ts \in Nat /\ o.ts \in Nat /\ g.ts \in Nat
        BY <2>9, TimesAssumption DEF Entry
      <4>2. f.ts <= c.ts
        BY <2>9, <2>12 DEF ResumeAt
      <4>3. ~(o.ts > f.ts)
        BY <2>8 DEF Newer
      <4> QED
        BY <2>2, <2>12, <4>1, <4>2, <4>3
    <3>2. page \in SUBSET T
      BY <2>5, <2>7, <3>1
    <3>3. T \in SUBSET RowsOf(r)
      OBVIOUS
    <3>4. Cardinality(page) <= Cardinality(T) /\ Cardinality(T) \in Nat
      BY <2>1, <3>2, <3>3, FS_Subset, FS_CardinalityType
    <3>5. Cardinality(T) >= reader.limit
      BY <2>4, <2>7, <3>4
    <3> QED
      BY <1>1, <2>12, <3>5 DEF TiesFillThePage
  <2> QED
    BY <2>10, <2>11, <2>12
<1>2. TypeOK /\ OneEntryPerId /\ IsFiniteSet(entries) /\ PagingInv => PagingAdvances
  BY <1>1 DEF PagingAdvances
<1> QED
  BY <1>2, PagingInvHolds, PTL

\* Whether timestamps are numbers or strings and whatever changes between its pages, a
\* reading that is over has missed nothing that was there all along, and one that is not
\* moves on (history-store.js 123-158).
THEOREM ReadersGetThrough == PagingSpec => []PagingGetsThrough
<1>1. PagingMissesNothing /\ PagingAdvances => PagingGetsThrough
  BY DEF PagingGetsThrough
<1> QED
  BY <1>1, PagesMissNothing, PagingMovesOn, PTL

-----------------------------------------------------------------------------
(* Atomic writes *)

\* What each step of a write has achieved.
Progress ==
  /\ call \in {"idle", "down"} => draft = Missing
  /\ call \in {"open", "written", "flushed", "renamed"} => draft \in Documents
  /\ call \in {"written", "flushed"} => temp = draft
  /\ call \in {"flushed", "renamed"} => flushed
  /\ call = "renamed" => target = draft

WriteInv == WriteTypeOK /\ NeverTorn /\ Progress

LEMMA InitWriteInv == WriteInit => WriteInv
  BY WriteAssumption DEF WriteInit, WriteInv, WriteTypeOK, NeverTorn, Progress, Contents

\* After a power loss the file is one of the documents that could be recalled.
LEMMA PowerFailsInv == WriteInv /\ PowerFails => WriteInv'
<1> SUFFICES ASSUME WriteInv, PowerFails PROVE WriteInv'
  OBVIOUS
<1> USE DEF WriteInv, WriteTypeOK, NeverTorn, Progress
<1>1. target' \in recall /\ recall' = {target'} /\ call' = "down"
      /\ draft' = Missing /\ temp' = Missing /\ flushed' = FALSE
  BY DEF PowerFails, Stopped
<1>2. litter' \subseteq Contents
  BY DEF PowerFails, Stopped, Remains, Contents
<1> QED
  BY <1>1, <1>2, WriteAssumption DEF Contents

LEMMA NextWriteInv == WriteInv /\ [WriteNext]_writeVars => WriteInv'
<1> SUFFICES ASSUME WriteInv, [WriteNext]_writeVars PROVE WriteInv'
  OBVIOUS
<1> USE WriteAssumption DEF WriteInv, WriteTypeOK, NeverTorn, Progress, Contents
<1>1. ASSUME NEW d \in Documents, NEW over \in SUBSET litter, OpenTemp(d, over)
      PROVE  WriteInv'
  BY <1>1 DEF OpenTemp
<1>2. CASE WriteTemp
  BY <1>2 DEF WriteTemp
<1>3. CASE FlushTemp
  BY <1>3 DEF FlushTemp
<1>4. CASE RenameTemp
  BY <1>4 DEF RenameTemp, Remains
<1>5. ASSUME NEW synced \in BOOLEAN, Close(synced) PROVE WriteInv'
  BY <1>5 DEF Close, Remains
<1>6. ASSUME NEW removed \in BOOLEAN, WriteThrows(removed) PROVE WriteInv'
  BY <1>6 DEF WriteThrows
<1>7. CASE ProcessDies
  BY <1>7 DEF ProcessDies, Stopped
<1>8. CASE PowerFails
  BY <1>8, PowerFailsInv
<1>9. ASSUME NEW old \in SUBSET litter, Launch(old) PROVE WriteInv'
  BY <1>9 DEF Launch
<1>10. CASE UNCHANGED writeVars
  BY <1>10 DEF writeVars
<1> QED
  BY <1>1, <1>2, <1>3, <1>4, <1>5, <1>6, <1>7, <1>8, <1>9, <1>10 DEF WriteNext

\* Every state of a write is one the module describes (io.js 136-166).
THEOREM WriteTypeCorrect == WriteSpec => []WriteTypeOK
<1>1. WriteInv => WriteTypeOK
  BY DEF WriteInv
<1> QED
  BY InitWriteInv, NextWriteInv, <1>1, PTL DEF WriteSpec

\* Whatever throws, dies or loses power, the file is whole, and so is what the
\* next power loss would leave of it (io.js 127-131).
THEOREM FilesAreNeverTorn == WriteSpec => []NeverTorn
<1>1. WriteInv => NeverTorn
  BY DEF WriteInv
<1> QED
  BY InitWriteInv, NextWriteInv, <1>1, PTL DEF WriteSpec

LEMMA InitDurable == WriteInit => Durable!Init
  BY DEF WriteInit, Durable!Init

\* Every step of the write is a step of the durable file, or none.
LEMMA StepDurable == WriteInv /\ [WriteNext]_writeVars => [Durable!Next]_Durable!durableVars
<1> SUFFICES ASSUME WriteInv, [WriteNext]_writeVars
             PROVE  [Durable!Next]_Durable!durableVars
  OBVIOUS
<1> USE WriteAssumption DEF WriteInv, Progress
<1>1. ASSUME NEW d \in Documents, NEW over \in SUBSET litter, OpenTemp(d, over)
      PROVE  Durable!Begin(d)
  BY <1>1 DEF OpenTemp, Durable!Begin
<1>2. CASE WriteTemp
  BY <1>2 DEF WriteTemp, Durable!durableVars
<1>3. CASE FlushTemp
  BY <1>3 DEF FlushTemp, Durable!durableVars
<1>4. CASE RenameTemp
  <2>1. recall' = recall \cup {draft} /\ target' = draft
        /\ draft # Missing /\ UNCHANGED draft
    BY <1>4 DEF RenameTemp, Remains
  <2> QED
    BY <2>1 DEF Durable!Appear, Durable!Next
<1>5. ASSUME NEW synced \in BOOLEAN, Close(synced) PROVE Durable!Return(synced)
  BY <1>5 DEF Close, Remains, Durable!Return
<1>6. ASSUME NEW removed \in BOOLEAN, WriteThrows(removed) PROVE Durable!Fail
  BY <1>6 DEF WriteThrows, Durable!Fail
<1>7. CASE ProcessDies
  BY <1>7 DEF ProcessDies, Stopped, Durable!Interrupt, Durable!Next
<1>8. CASE PowerFails
  BY <1>8 DEF PowerFails, Stopped, Durable!Interrupt, Durable!Next
<1>9. ASSUME NEW old \in SUBSET litter, Launch(old) PROVE UNCHANGED Durable!durableVars
  BY <1>9 DEF Launch, Durable!durableVars
<1>10. CASE UNCHANGED writeVars
  BY <1>10 DEF writeVars, Durable!durableVars
<1> QED
  BY <1>1, <1>2, <1>3, <1>4, <1>5, <1>6, <1>7, <1>8, <1>9, <1>10
     DEF WriteNext, Durable!Next

\* atomicWrite implements a durable file: whole documents, writes that fail
\* without a trace, and no surprise after a crash (io.js 122-135).
THEOREM AtomicWriteIsDurable == WriteSpec => FileIsDurable
<1> QED
  BY InitWriteInv, NextWriteInv, InitDurable, StepDurable, PTL
     DEF WriteSpec, FileIsDurable, Durable!Spec
-----------------------------------------------------------------------------
(* Start-up migrations *)

Seeded(c) ==
  profile.environments[c] = Absent => environments[c] # Absent /\ environments[c].named

\* Until a read or write fails, no file is made before its collection is
\* seeded, so that a file is a sign of it.
SeedingIsTold ==
  ~troubled /\ profile.legacy =>
    /\ \A c \in Collections : environments[c] # Absent => Seeded(c)
    /\ stage = "seeding" => \A c \in Collections \ left : environments[c] # Absent
    /\ legacy => stage \in {"down", "seeding"}
    /\ ~legacy => \A c \in Collections : Seeded(c)

\* Until a write fails, a launch is over only when all is folded, so what the
\* user edits is never folded over.
EditsAreLast ==
  ~troubled =>
    /\ stage = "folding" => own \subseteq left \cup {at}
    /\ stage = "up" => own = {}
    /\ edited \cap own = {}
    /\ \A c \in edited : environments[c] # Absent /\ environments[c].value = "edited"

\* A collection is cleared only after its variables were folded.
FoldedFirst ==
  /\ at # Absent => /\ stage = "folding" /\ environments[at] # Absent
                    /\ environments[at].value = "collection"
                    /\ at \notin left
  /\ OwnVariablesAreKept

MigrationInv == MigrationTypeOK /\ SeedingIsTold /\ EditsAreLast /\ FoldedFirst

-----------------------------------------------------------------------------
\* A file is a record, and no file is none.
LEMMA FileType ==
  /\ Fresh \in Files /\ Copied \in Files /\ Fresh # Absent /\ Copied # Absent
  /\ \A f \in Files : f # Absent =>
       f \in [named : BOOLEAN, value : {"none", "legacy", "collection", "edited"}]
  /\ \A f \in [named : BOOLEAN, value : {"none", "legacy", "collection", "edited"}] :
       f \in Files /\ f # Absent
<1>1. Fresh \in [named : BOOLEAN, value : {"none", "legacy", "collection", "edited"}]
  BY DEF Fresh
<1>2. Copied \in [named : BOOLEAN, value : {"none", "legacy", "collection", "edited"}]
  BY DEF Copied
<1> QED
  BY <1>1, <1>2, MigrationAssumption DEF Files

\* Giving a file another value keeps its named environments, and makes the
\* file where there was none.
LEMMA Revalued ==
  ASSUME MigrationTypeOK, NEW c \in Collections, NEW v \in {"collection", "edited"},
         environments' = [environments EXCEPT ![c] = [FileOf(c) EXCEPT !.value = v]]
  PROVE  /\ environments' \in [Collections -> Files]
         /\ environments'[c] # Absent /\ environments'[c].value = v
         /\ environments[c] # Absent => environments'[c].named = environments[c].named
         /\ \A d \in Collections \ {c} : environments'[d] = environments[d]
<1> DEFINE Records == [named : BOOLEAN, value : {"none", "legacy", "collection", "edited"}]
           f == [FileOf(c) EXCEPT !.value = v]
<1>1. FileOf(c) \in Records /\ (environments[c] # Absent => FileOf(c) = environments[c])
  BY FileType DEF FileOf, MigrationTypeOK, Fresh
<1>2. f \in Records /\ f.value = v /\ f.named = FileOf(c).named
  BY <1>1
<1>3. f \in Files /\ f # Absent
  BY <1>2, FileType
<1>4. environments \in [Collections -> Files]
  BY DEF MigrationTypeOK
<1> HIDE DEF f
<1>5. environments' = [environments EXCEPT ![c] = f]
  BY DEF f
<1> QED
  BY <1>1, <1>2, <1>3, <1>4, <1>5

LEMMA InitMigrationInv == MigrationInit => MigrationInv
<1> SUFFICES ASSUME MigrationInit PROVE MigrationInv
  OBVIOUS
<1>1. environments \in [Collections -> Files]
  BY FileType DEF MigrationInit, Files
<1>2. /\ profile.legacy = legacy /\ profile.environments = environments /\ profile.own = own
      /\ profile \in [legacy : BOOLEAN, environments : [Collections -> Files],
                      own : SUBSET Collections]
  BY <1>1 DEF MigrationInit
<1>3. MigrationTypeOK
  BY <1>1, <1>2 DEF MigrationInit, MigrationTypeOK
<1>4. SeedingIsTold
  BY <1>2 DEF MigrationInit, SeedingIsTold, Seeded
<1>5. EditsAreLast /\ FoldedFirst
  BY <1>2 DEF MigrationInit, EditsAreLast, FoldedFirst, OwnVariablesAreKept
<1> QED
  BY <1>3, <1>4, <1>5 DEF MigrationInv

\* Launches, ends of launches and failures touch no file.
LEMMA FilesAlone ==
  ASSUME MigrationInv, UNCHANGED <<environments, own, profile, edited, legacy>>,
         left' \subseteq Collections, at' \in {at, Absent}, troubled' \in BOOLEAN,
         troubled => troubled',
         stage' \in {"down", "seeding", "folding", "up"},
         at' # Absent => stage' = "folding" /\ left' = left,
         ~troubled' => /\ stage' = "seeding" => legacy /\ left' = Collections
                       /\ stage' = "folding" => (profile.legacy => ~legacy) /\ (own \subseteq left' \cup {at'})
                       /\ stage' = "up" => (profile.legacy => ~legacy) /\ own = {}
  PROVE  MigrationInv'
<1> USE DEF MigrationInv
<1>1. MigrationTypeOK'
  BY DEF MigrationTypeOK
<1>2. SeedingIsTold'
  BY DEF SeedingIsTold, Seeded
<1>3. EditsAreLast'
  BY DEF EditsAreLast
<1>4. FoldedFirst'
  BY DEF FoldedFirst, OwnVariablesAreKept
<1> QED
  BY <1>1, <1>2, <1>3, <1>4

LEMMA SeedInv == ASSUME MigrationInv, NEW c \in Collections, Seed(c) PROVE MigrationInv'
<1> USE DEF MigrationInv
<1>1. /\ stage = "seeding" /\ c \in left /\ left' = left \ {c}
      /\ environments' = [environments EXCEPT ![c] = IF @ = Absent THEN Copied ELSE @]
      /\ UNCHANGED <<stage, at, legacy, own, profile, edited, troubled>>
  BY DEF Seed
<1>2. environments \in [Collections -> Files]
  BY DEF MigrationTypeOK
<1>3. /\ environments' \in [Collections -> Files] /\ environments'[c] # Absent
      /\ environments[c] = Absent => environments'[c] = Copied
      /\ \A d \in Collections : environments[d] # Absent => environments'[d] = environments[d]
      /\ \A d \in Collections \ {c} : environments'[d] = environments[d]
  BY <1>1, <1>2, FileType
<1>4. MigrationTypeOK'
  BY <1>1, <1>3 DEF MigrationTypeOK
<1>5. SeedingIsTold'
  <2> SUFFICES ASSUME ~troubled, profile.legacy PROVE SeedingIsTold'
    BY <1>1 DEF SeedingIsTold
  <2>1. legacy => stage \in {"down", "seeding"}
    BY DEF SeedingIsTold
  <2>2. ASSUME NEW d \in Collections, environments'[d] # Absent PROVE Seeded(d)'
    BY <1>1, <1>3, <2>2 DEF SeedingIsTold, Seeded, Copied
  <2>3. ASSUME NEW d \in Collections \ left' PROVE environments'[d] # Absent
    BY <1>1, <1>3, <2>3 DEF SeedingIsTold
  <2>4. ~legacy => \A d \in Collections : Seeded(d)'
    BY <1>1, <1>3 DEF SeedingIsTold, Seeded
  <2> QED
    BY <1>1, <2>1, <2>2, <2>3, <2>4 DEF SeedingIsTold
<1>6. EditsAreLast'
  BY <1>1, <1>3 DEF EditsAreLast, MigrationTypeOK
<1>7. FoldedFirst'
  BY <1>1, <1>3 DEF FoldedFirst, OwnVariablesAreKept, MigrationTypeOK
<1> QED
  BY <1>4, <1>5, <1>6, <1>7

LEMMA RetireInv == ASSUME MigrationInv, Retire PROVE MigrationInv'
<1> USE DEF MigrationInv
<1>1. /\ stage = "seeding" /\ left = {} /\ ~legacy' /\ legacy' = FALSE
      /\ stage' = "folding" /\ left' = Collections
      /\ UNCHANGED <<at, environments, own, profile, edited, troubled>>
  BY DEF Retire, Enter
<1>2. MigrationTypeOK'
  BY <1>1 DEF MigrationTypeOK
<1>3. SeedingIsTold'
  BY <1>1 DEF SeedingIsTold, Seeded
<1>4. EditsAreLast'
  BY <1>1 DEF EditsAreLast, MigrationTypeOK
<1>5. FoldedFirst'
  BY <1>1 DEF FoldedFirst, OwnVariablesAreKept
<1> QED
  BY <1>2, <1>3, <1>4, <1>5

LEMMA FoldInv == ASSUME MigrationInv, NEW c \in Collections, Fold(c) PROVE MigrationInv'
<1> USE DEF MigrationInv
<1>1. /\ stage = "folding" /\ at = Absent /\ c \in left /\ c \in own
      /\ environments' = [environments EXCEPT ![c] = [FileOf(c) EXCEPT !.value = "collection"]]
      /\ at' = c /\ left' = left \ {c}
      /\ UNCHANGED <<stage, legacy, own, profile, edited, troubled>>
  BY DEF Fold
<1>2. /\ environments' \in [Collections -> Files]
      /\ environments'[c] # Absent /\ environments'[c].value = "collection"
      /\ environments[c] # Absent => environments'[c].named = environments[c].named
      /\ \A d \in Collections \ {c} : environments'[d] = environments[d]
  BY <1>1, Revalued
<1>3. MigrationTypeOK'
  BY <1>1, <1>2 DEF MigrationTypeOK
<1>4. SeedingIsTold'
  BY <1>1, <1>2 DEF SeedingIsTold, Seeded
<1>5. EditsAreLast'
  <2> SUFFICES ASSUME ~troubled PROVE EditsAreLast'
    BY <1>1 DEF EditsAreLast
  <2>1. own \subseteq left \cup {Absent} /\ edited \cap own = {} /\ edited \subseteq Collections
    BY <1>1 DEF EditsAreLast, MigrationTypeOK
  <2>2. own \subseteq left' \cup {c}
    BY <1>1, <2>1, MigrationAssumption DEF MigrationTypeOK
  <2>3. \A d \in edited : d \in Collections \ {c}
    BY <1>1, <2>1
  <2>4. \A d \in edited : environments[d] # Absent /\ environments[d].value = "edited"
    BY DEF EditsAreLast
  <2>5. \A d \in edited : environments'[d] # Absent /\ environments'[d].value = "edited"
    BY <1>2, <2>3, <2>4
  <2>6. stage' = "folding" /\ at' = c /\ edited' \cap own' = {}
    BY <1>1, <2>1
  <2>7. \A d \in edited' : environments'[d] # Absent /\ environments'[d].value = "edited"
    BY <1>1, <2>5
  <2>8. own' \subseteq left' \cup {at'}
    BY <1>1, <2>2
  <2> QED
    BY <2>6, <2>7, <2>8 DEF EditsAreLast
<1>6. FoldedFirst'
  BY <1>1, <1>2 DEF FoldedFirst, OwnVariablesAreKept, MigrationTypeOK
<1> QED
  BY <1>3, <1>4, <1>5, <1>6

LEMMA ClearOwnInv == ASSUME MigrationInv, ClearOwn PROVE MigrationInv'
<1> USE DEF MigrationInv
<1>1. /\ stage = "folding" /\ at # Absent /\ own' = own \ {at} /\ at' = Absent
      /\ UNCHANGED <<stage, left, legacy, environments, profile, edited, troubled>>
  BY DEF ClearOwn
<1>2. MigrationTypeOK'
  BY <1>1 DEF MigrationTypeOK
<1>3. SeedingIsTold'
  BY <1>1 DEF SeedingIsTold, Seeded
<1>4. EditsAreLast'
  BY <1>1 DEF EditsAreLast
<1>5. FoldedFirst'
  BY <1>1 DEF FoldedFirst, OwnVariablesAreKept
<1> QED
  BY <1>2, <1>3, <1>4, <1>5

LEMMA EditVariableInv ==
  ASSUME MigrationInv, NEW c \in Collections, EditVariable(c) PROVE MigrationInv'
<1> USE DEF MigrationInv
<1>1. /\ stage = "up"
      /\ environments' = [environments EXCEPT ![c] = [FileOf(c) EXCEPT !.value = "edited"]]
      /\ edited' = edited \cup {c}
      /\ UNCHANGED <<stage, left, at, legacy, own, profile, troubled>>
  BY DEF EditVariable
<1>2. /\ environments' \in [Collections -> Files]
      /\ environments'[c] # Absent /\ environments'[c].value = "edited"
      /\ environments[c] # Absent => environments'[c].named = environments[c].named
      /\ \A d \in Collections \ {c} : environments'[d] = environments[d]
  BY <1>1, Revalued
<1>3. MigrationTypeOK'
  BY <1>1, <1>2 DEF MigrationTypeOK
<1>4. SeedingIsTold'
  BY <1>1, <1>2 DEF SeedingIsTold, Seeded
<1>5. EditsAreLast'
  BY <1>1, <1>2 DEF EditsAreLast, MigrationTypeOK
<1>6. FoldedFirst'
  BY <1>1, <1>2 DEF FoldedFirst, OwnVariablesAreKept, MigrationTypeOK
<1> QED
  BY <1>3, <1>4, <1>5, <1>6

LEMMA NextMigrationInv == MigrationInv /\ [MigrationNext]_migrationVars => MigrationInv'
<1> SUFFICES ASSUME MigrationInv, [MigrationNext]_migrationVars PROVE MigrationInv'
  OBVIOUS
<1>0. /\ left \subseteq Collections /\ at \in Collections \cup {Absent}
      /\ troubled \in BOOLEAN /\ own \subseteq Collections
      /\ at # Absent => stage = "folding"
      /\ ~troubled => /\ legacy => stage \in {"down", "seeding"} \/ ~profile.legacy
                      /\ stage = "folding" => own \subseteq left \cup {at}
                      /\ stage = "up" => own = {}
  BY DEF MigrationInv, MigrationTypeOK, FoldedFirst, SeedingIsTold, EditsAreLast
<1>1. ASSUME NEW readable \in BOOLEAN, StartUp(readable) PROVE MigrationInv'
  BY <1>0, <1>1, FilesAlone DEF StartUp, Enter
<1>2. CASE SeedingFails
  BY <1>0, <1>2, FilesAlone DEF SeedingFails, Enter
<1>3. CASE FoldingFails
  BY <1>0, <1>3, FilesAlone DEF FoldingFails
<1>4. CASE Started
  <2>1. /\ stage = "folding" /\ at = Absent /\ left \cap own = {} /\ stage' = "up"
        /\ UNCHANGED <<left, at, legacy, environments, own, profile, edited, troubled>>
    BY <1>4 DEF Started
  <2>2. ~troubled => own = {} /\ (profile.legacy => ~legacy)
    BY <1>0, <2>1, MigrationAssumption
  <2> QED
    BY <1>0, <2>1, <2>2, FilesAlone
<1>5. CASE GoDown
  BY <1>0, <1>5, FilesAlone DEF GoDown
<1>6. CASE UNCHANGED migrationVars
  BY <1>6 DEF migrationVars, MigrationInv, MigrationTypeOK, SeedingIsTold, EditsAreLast,
       FoldedFirst, Seeded, OwnVariablesAreKept
<1> QED
  BY <1>1, <1>2, <1>3, <1>4, <1>5, <1>6,
     SeedInv, RetireInv, FoldInv, ClearOwnInv, EditVariableInv DEF MigrationNext

-----------------------------------------------------------------------------
\* Every reachable state of a launch is one the module describes.
THEOREM MigrationTypeCorrect == MigrationSpec => []MigrationTypeOK
<1>1. MigrationInv => MigrationTypeOK
  BY DEF MigrationInv
<1> QED
  BY InitMigrationInv, NextMigrationInv, <1>1, PTL DEF MigrationSpec

\* As long as no read, write or move fails, the workspace's environments reach
\* every collection before they are retired, and what the user edits stays;
\* and whatever fails, no collection's own variable is dropped before it is in
\* its Global environment (stores.js 162-166, 241-252).
THEOREM NoLaunchLosesAnything == MigrationSpec => []LaunchesLoseNothing
<1>1. MigrationInv => LaunchesLoseNothing
  BY DEF MigrationInv, LaunchesLoseNothing, CrashesAreHarmless, EditsStay, FoldedFirst,
         LegacyReachesEveryCollection, SeedingIsTold, EditsAreLast, Seeded
<1> QED
  BY InitMigrationInv, NextMigrationInv, <1>1, PTL DEF MigrationSpec

-----------------------------------------------------------------------------
(* Response bodies: the invariant *)

BodyRecord ==
  [state : {"idle", "receiving", "done"}, live : BOOLEAN, total : 0..MaxChunks,
   mem : SUBSET Nat, file : SUBSET Nat, spill : {"none", "open", "broken"},
   threw : BOOLEAN, paused : BOOLEAN, answer : {"none", "whole", "ref", "error", "streamed"},
   shown : SUBSET Nat]

\* Until an error memory holds all chunks, or the file does; what is answered
\* as complete has them all.
Held(r) ==
  /\ r.mem \cup r.file \cup r.shown \subseteq 1..r.total
  /\ r.state # "done" => r.answer = "none"
  /\ r.state = "receiving" /\ ~r.threw /\ ~r.live /\ r.spill = "none" => r.mem = 1..r.total
  /\ r.state = "receiving" /\ ~r.threw /\ r.spill = "open" => r.file = 1..r.total
  /\ r.answer \in {"whole", "ref"} /\ ~r.threw => r.shown = 1..r.total

Referred == {b \in Bodies : body[b].answer = "ref"}
Spilling == {b \in Bodies : Receiving(b) /\ body[b].spill # "none"}

BodiesTyped ==
  /\ body \in [Bodies -> BodyRecord] /\ \A b \in Bodies : Held(body[b])
  /\ disk \subseteq Bodies /\ kept \in Seq(Bodies) /\ IsInjective(kept)
  /\ registered \in Seq(Bodies)
  /\ reading \in [Bodies -> {"no", "asked", "gone", "read", "failed"}]

\* The registry s holds the last bodies of all that were registered, r: as many of
\* them as it may.
Recent(s, r) ==
  /\ Len(s) <= MaxKept /\ Len(s) <= Len(r)
  /\ Len(s) < MaxKept => Len(s) = Len(r)
  /\ \A k \in 1..Len(s) : s[k] = r[Len(r) - Len(s) + k]

\* What is referred to was registered, and only the recent ones are kept.
RegistrySound ==
  /\ Recent(kept, registered) /\ ToSet(kept) \subseteq Referred
  /\ Referred = ToSet(registered)
  /\ \A b \in Bodies : reading[b] # "no" => b \in Referred
  /\ \A b \in Bodies : reading[b] \in {"gone", "failed"} => b \notin ToSet(kept)

BodiesInv == BodiesTyped /\ SpillFilesAccounted /\ RegistrySound

-----------------------------------------------------------------------------
(* Response bodies: the registry *)

\* What is registered goes to the end.
LEMMA Queueing ==
  ASSUME NEW s \in Seq(Bodies), IsInjective(s), NEW b \in Bodies, b \notin ToSet(s)
  PROVE  /\ Append(s, b) \in Seq(Bodies) /\ IsInjective(Append(s, b))
         /\ ToSet(Append(s, b)) = ToSet(s) \cup {b} /\ Len(Append(s, b)) = Len(s) + 1
<1> DEFINE t == Append(s, b)
           n == Len(s) + 1
<1>1. Len(s) \in Nat /\ DOMAIN s = 1..Len(s)
  BY LenProperties
<1>2. t \in Seq(Bodies) /\ Len(t) = n /\ (\A i \in 1..Len(s) : t[i] = s[i]) /\ t[n] = b
  BY AppendProperties
<1>3. DOMAIN t = 1..n
  BY <1>2, LenProperties
<1> HIDE DEF t
<1>4. \A i \in DOMAIN t : (i = n /\ t[i] = b) \/ (i \in DOMAIN s /\ t[i] = s[i])
  BY <1>1, <1>2, <1>3
<1>5. n \in DOMAIN t /\ \A i \in DOMAIN s : i \in DOMAIN t /\ t[i] = s[i]
  BY <1>1, <1>2, <1>3
<1>6. IsInjective(t)
  BY <1>4 DEF IsInjective, ToSet
<1>7. ToSet(t) = ToSet(s) \cup {b}
  <2>1. ToSet(t) \subseteq ToSet(s) \cup {b}
    BY <1>4 DEF ToSet
  <2>2. b \in ToSet(t)
    BY <1>2, <1>5 DEF ToSet
  <2>3. ToSet(s) \subseteq ToSet(t)
    BY <1>5 DEF ToSet
  <2> QED
    BY <2>1, <2>2, <2>3
<1> QED
  BY <1>2, <1>6, <1>7 DEF t

LEMMA AppendedMembers ==
  ASSUME NEW s \in Seq(Bodies), NEW b \in Bodies
  PROVE  ToSet(Append(s, b)) = ToSet(s) \cup {b}
<1> DEFINE t == Append(s, b)
           n == Len(s) + 1
<1>1. Len(s) \in Nat /\ DOMAIN s = 1..Len(s)
  BY LenProperties
<1>2. DOMAIN t = 1..n /\ (\A i \in 1..Len(s) : t[i] = s[i]) /\ t[n] = b
  BY AppendProperties, LenProperties
<1> HIDE DEF t
<1>3. \A i \in DOMAIN t : t[i] = b \/ (i \in DOMAIN s /\ t[i] = s[i])
  BY <1>1, <1>2
<1>4. n \in DOMAIN t /\ \A i \in DOMAIN s : i \in DOMAIN t /\ t[i] = s[i]
  BY <1>1, <1>2
<1>5. ToSet(t) \subseteq ToSet(s) \cup {b}
  BY <1>3 DEF ToSet
<1>6. b \in ToSet(t) /\ ToSet(s) \subseteq ToSet(t)
  BY <1>2, <1>4 DEF ToSet
<1> QED
  BY <1>5, <1>6 DEF t

\* What is evicted is the first, and only that.
LEMMA Evicting ==
  ASSUME NEW s \in Seq(Bodies), IsInjective(s), s # <<>>
  PROVE  /\ Tail(s) \in Seq(Bodies) /\ IsInjective(Tail(s))
         /\ s[1] \in ToSet(s) /\ ToSet(Tail(s)) = ToSet(s) \ {s[1]}
         /\ Len(Tail(s)) = Len(s) - 1
<1> DEFINE t == Tail(s)
<1>1. Len(s) \in Nat \ {0} /\ DOMAIN s = 1..Len(s)
  BY EmptySeq, LenProperties
<1>2. /\ t \in Seq(Bodies) /\ Len(t) = Len(s) - 1
      /\ \A i \in 1..Len(t) : t[i] = s[i + 1]
  BY HeadTailProperties
<1>3. DOMAIN t = 1..(Len(s) - 1)
  BY <1>2, LenProperties
<1> HIDE DEF t
<1>4. \A i \in DOMAIN t : i + 1 \in DOMAIN s /\ i + 1 # 1 /\ t[i] = s[i + 1]
  BY <1>1, <1>2, <1>3
<1>5. \A i \in DOMAIN s : i = 1 \/ (i - 1 \in DOMAIN t /\ t[i - 1] = s[i])
  BY <1>1, <1>2, <1>3
<1>6. 1 \in DOMAIN s
  BY <1>1
<1>7. IsInjective(t)
  <2> SUFFICES ASSUME NEW i \in DOMAIN t, NEW j \in DOMAIN t, t[i] = t[j] PROVE i = j
    BY DEF IsInjective
  <2>1. i + 1 = j + 1
    BY <1>4 DEF IsInjective
  <2> QED
    BY <1>1, <1>3, <2>1
<1>8. ToSet(t) = ToSet(s) \ {s[1]}
  <2>1. ToSet(t) \subseteq ToSet(s) \ {s[1]}
    BY <1>4, <1>6 DEF ToSet, IsInjective
  <2>2. ToSet(s) \ {s[1]} \subseteq ToSet(t)
    BY <1>5 DEF ToSet
  <2> QED
    BY <2>1, <2>2
<1> QED
  BY <1>2, <1>6, <1>7, <1>8 DEF t, ToSet

\* Registering keeps the registry the recent end of what was registered.
LEMMA RecentStep ==
  ASSUME NEW s \in Seq(Bodies), NEW r \in Seq(Bodies), Recent(s, r), NEW b \in Bodies
  PROVE  /\ Len(s) < MaxKept => Recent(Append(s, b), Append(r, b))
         /\ Len(s) = MaxKept => Recent(Append(Tail(s), b), Append(r, b))
<1> DEFINE n == Len(s)
           m == Len(r)
<1>1. n \in Nat /\ m \in Nat /\ n <= m /\ MaxKept \in Nat \ {0}
  BY LenProperties, BodiesAssumption DEF Recent
<1>2. \A k \in 1..n : s[k] = r[m - n + k]
  BY DEF Recent
<1> DEFINE q == Append(r, b)
<1>3. Len(q) = m + 1 /\ (\A k \in 1..m : q[k] = r[k]) /\ q[m + 1] = b
  BY AppendProperties
<1> HIDE DEF q
<1>4. ASSUME n < MaxKept PROVE Recent(Append(s, b), q)
  <2> DEFINE p == Append(s, b)
  <2>1. Len(p) = n + 1 /\ (\A k \in 1..n : p[k] = s[k]) /\ p[n + 1] = b
    BY AppendProperties
  <2>2. n = m
    BY <1>4 DEF Recent
  <2> HIDE DEF p
  <2>3. ASSUME NEW k \in 1..(n + 1) PROVE p[k] = q[(m + 1) - (n + 1) + k]
    <3>1. CASE k = n + 1
      BY <1>1, <1>3, <2>1, <2>2, <3>1
    <3>2. CASE k \in 1..n
      BY <1>1, <1>2, <1>3, <2>1, <2>2, <3>2
    <3> QED
      BY <1>1, <3>1, <3>2
  <2> QED
    BY <1>1, <1>3, <1>4, <2>1, <2>2, <2>3 DEF Recent, p
<1>5. ASSUME n = MaxKept PROVE Recent(Append(Tail(s), b), q)
  <2> DEFINE t == Tail(s)
             p == Append(t, b)
  <2>1. s # <<>>
    BY <1>1, <1>5, EmptySeq
  <2>2. t \in Seq(Bodies) /\ Len(t) = n - 1 /\ \A k \in 1..(n - 1) : t[k] = s[k + 1]
    BY <1>1, <2>1, HeadTailProperties
  <2> HIDE DEF t
  <2>3. Len(p) = n /\ (\A k \in 1..(n - 1) : p[k] = t[k]) /\ p[n] = b
    BY <1>1, <2>2, AppendProperties
  <2> HIDE DEF p
  <2>4. ASSUME NEW k \in 1..n PROVE p[k] = q[(m + 1) - n + k]
    <3>1. CASE k = n
      BY <1>1, <1>3, <2>3, <3>1
    <3>2. CASE k \in 1..(n - 1)
      <4>1. k + 1 \in 1..n /\ m - n + (k + 1) = (m + 1) - n + k
            /\ (m + 1) - n + k \in 1..m
        BY <1>1, <3>2
      <4> QED
        BY <1>2, <1>3, <2>2, <2>3, <3>2, <4>1
    <3> QED
      BY <1>1, <3>1, <3>2
  <2>5. Len(p) = n /\ Len(q) = m + 1 /\ n <= MaxKept /\ n <= m + 1 /\ ~(n < MaxKept)
    BY <1>1, <1>3, <1>5, <2>3
  <2> HIDE DEF n, m
  <2>6. Recent(p, q)
    BY <2>4, <2>5 DEF Recent
  <2> QED
    BY <2>6 DEF p, t
<1> QED
  BY <1>4, <1>5 DEF q

\* What fewer than MaxKept bodies were registered after is in the registry.
LEMMA RecentMembers ==
  ASSUME NEW s \in Seq(Bodies), NEW r \in Seq(Bodies), Recent(s, r),
         NEW i \in DOMAIN r, r[i] \notin ToSet(s)
  PROVE  Len(r) - i >= MaxKept
<1>1. Len(s) \in Nat /\ Len(r) \in Nat /\ i \in 1..Len(r) /\ DOMAIN s = 1..Len(s)
  BY LenProperties
<1>2. SUFFICES ASSUME Len(r) - i < MaxKept PROVE r[i] \in ToSet(s)
  BY <1>1, BodiesAssumption
<1> DEFINE k == i - (Len(r) - Len(s))
<1>3. k \in 1..Len(s) /\ Len(r) - Len(s) + k = i
  BY <1>1, <1>2, BodiesAssumption DEF Recent
<1>4. s[k] = r[i] /\ k \in DOMAIN s
  BY <1>1, <1>3 DEF Recent
<1> QED
  BY <1>4 DEF ToSet

\* A step of a body that is not over, and refers to nothing yet.
LEMMA BodyStep ==
  ASSUME BodiesInv, NEW b \in Bodies, NEW x \in BodyRecord, Held(x), Set(b, x),
         body[b].state # "done", x.answer # "ref", UNCHANGED <<kept, registered, reading>>,
         disk' \subseteq Bodies, disk' \ {b} = disk \ {b},
         b \in disk' <=> x.state = "receiving" /\ x.spill # "none"
  PROVE  BodiesInv'
<1> USE DEF BodiesInv
<1>1. /\ body' \in [Bodies -> BodyRecord] /\ body'[b] = x
      /\ \A c \in Bodies \ {b} : body'[c] = body[c]
  BY DEF Set, BodiesTyped
<1>2. body[b].answer # "ref"
  BY DEF BodiesTyped, Held
<1>3. Referred' = Referred
  BY <1>1, <1>2 DEF Referred
<1>4. BodiesTyped'
  BY <1>1 DEF BodiesTyped
<1>5. SpillFilesAccounted'
  <2>1. b \notin ToSet(kept)
    BY <1>2 DEF RegistrySound, Referred
  <2>2. \A c \in Bodies \ {b} : c \in Spilling' <=> c \in Spilling
    BY <1>1 DEF Spilling, Receiving
  <2>3. b \in Spilling' <=> b \in disk'
    BY <1>1 DEF Spilling, Receiving
  <2>4. disk = ToSet(kept) \cup Spilling
    BY DEF SpillFilesAccounted, Spilling
  <2>5. ToSet(kept) \subseteq Bodies /\ Spilling' \subseteq Bodies
    BY DEF RegistrySound, Referred, Spilling
  <2>6. disk' = ToSet(kept) \cup Spilling'
    BY <2>1, <2>2, <2>3, <2>4, <2>5
  <2> QED
    BY <2>6 DEF SpillFilesAccounted, Spilling
<1>6. RegistrySound'
  BY <1>3 DEF RegistrySound
<1> QED
  BY <1>4, <1>5, <1>6

\* The end of a body whose file is registered: beyond the limit the oldest goes.
LEMMA RegisterStep ==
  ASSUME BodiesInv, NEW b \in Bodies, NEW x \in BodyRecord, Held(x), Set(b, x),
         Receiving(b), body[b].spill # "none", x.state = "done", x.answer = "ref",
         Register(b), UNCHANGED reading
  PROVE  BodiesInv'
<1> USE DEF BodiesInv
<1>1. /\ body' \in [Bodies -> BodyRecord] /\ body'[b] = x
      /\ \A c \in Bodies \ {b} : body'[c] = body[c]
  BY DEF Set, BodiesTyped
<1>2. b \notin Referred
  BY DEF BodiesTyped, Held, Referred, Receiving
<1>3. Referred' = Referred \cup {b}
  BY <1>1, <1>2 DEF Referred
<1>4. Spilling' = Spilling \ {b} /\ b \in Spilling
  BY <1>1 DEF Spilling, Receiving
<1>5. /\ kept \in Seq(Bodies) /\ IsInjective(kept) /\ b \notin ToSet(kept) /\ Len(kept) \in Nat
      /\ ToSet(kept) \subseteq Referred /\ MaxKept \in Nat \ {0} /\ Len(kept) <= MaxKept
  BY <1>2, LenProperties, BodiesAssumption DEF BodiesTyped, RegistrySound, Recent
<1>6. disk = ToSet(kept) \cup Spilling
  BY DEF SpillFilesAccounted, Spilling
<1>7. Referred \cap Spilling = {}
  BY DEF BodiesTyped, Held, Referred, Spilling, Receiving
<1>8. registered' = Append(registered, b) /\ registered \in Seq(Bodies)
  BY DEF Register, BodiesTyped
<1>9. registered' \in Seq(Bodies) /\ Referred' = ToSet(registered')
  <2>1. registered' \in Seq(Bodies)
    BY <1>8, AppendProperties
  <2>2. ToSet(registered') = ToSet(registered) \cup {b}
    BY <1>8, AppendedMembers
  <2> QED
    BY <1>3, <2>1, <2>2 DEF RegistrySound
<1>10. CASE Len(kept) < MaxKept
  <2>1. kept' = Append(kept, b) /\ UNCHANGED disk
    BY <1>10 DEF Register
  <2>2. /\ kept' \in Seq(Bodies) /\ IsInjective(kept') /\ ToSet(kept') = ToSet(kept) \cup {b}
        /\ Recent(kept', registered')
    BY <1>5, <1>8, <1>10, <2>1, Queueing, RecentStep DEF RegistrySound
  <2>3. BodiesTyped'
    BY <1>1, <1>9, <2>1, <2>2 DEF BodiesTyped
  <2>4. SpillFilesAccounted'
    <3>1. disk' = ToSet(kept') \cup Spilling'
      BY <1>4, <1>6, <2>1, <2>2
    <3> QED
      BY <3>1 DEF SpillFilesAccounted, Spilling
  <2>5. RegistrySound'
    <3>2. \A c \in Bodies : reading[c] # "no" => c # b
      BY <1>2 DEF RegistrySound
    <3>3. \A c \in Bodies : reading[c] \in {"gone", "failed"} => c \notin ToSet(kept')
      BY <2>2, <3>2 DEF RegistrySound
    <3>4. ToSet(kept') \subseteq Referred'
      BY <1>3, <1>5, <2>2
    <3>5. \A c \in Bodies : reading[c] # "no" => c \in Referred'
      BY <1>3 DEF RegistrySound
    <3> QED
      BY <1>9, <2>2, <3>3, <3>4, <3>5 DEF RegistrySound
  <2> QED
    BY <2>3, <2>4, <2>5
<1>11. CASE ~(Len(kept) < MaxKept)
  <2> DEFINE e == kept[1]
  <2>1. kept' = Append(Tail(kept), b) /\ disk' = disk \ {e}
    BY <1>11 DEF Register
  <2>2. Len(kept) = MaxKept /\ kept # <<>>
    BY <1>5, <1>11, EmptySeq
  <2>3. /\ Tail(kept) \in Seq(Bodies) /\ IsInjective(Tail(kept)) /\ e \in ToSet(kept)
        /\ ToSet(Tail(kept)) = ToSet(kept) \ {e} /\ Len(Tail(kept)) = MaxKept - 1
    BY <1>5, <2>2, Evicting
  <2> HIDE DEF e
  <2>4. /\ kept' \in Seq(Bodies) /\ IsInjective(kept')
        /\ ToSet(kept') = (ToSet(kept) \ {e}) \cup {b} /\ Recent(kept', registered')
    <3>1. b \notin ToSet(Tail(kept))
      BY <1>5, <2>3
    <3>2. Recent(kept', registered')
      BY <1>5, <1>8, <2>1, <2>2, RecentStep DEF RegistrySound
    <3> QED
      BY <2>1, <2>3, <3>1, <3>2, Queueing
  <2>5. BodiesTyped'
    BY <1>1, <1>9, <2>1, <2>4 DEF BodiesTyped
  <2>6. SpillFilesAccounted'
    <3>1. e \notin Spilling /\ e # b
      BY <1>5, <1>7, <2>3
    <3>2. disk' = ToSet(kept') \cup Spilling'
      BY <1>4, <1>6, <2>1, <2>4, <3>1
    <3> QED
      BY <3>2 DEF SpillFilesAccounted, Spilling
  <2>8. RegistrySound'
    <3>2. \A c \in Bodies : reading[c] # "no" => c # b
      BY <1>2 DEF RegistrySound
    <3>3. \A c \in Bodies : reading[c] \in {"gone", "failed"} => c \notin ToSet(kept')
      BY <2>4, <3>2 DEF RegistrySound
    <3>4. ToSet(kept') \subseteq Referred'
      BY <1>3, <1>5, <2>4
    <3>5. \A c \in Bodies : reading[c] # "no" => c \in Referred'
      BY <1>3 DEF RegistrySound
    <3> QED
      BY <1>9, <2>4, <3>3, <3>4, <3>5 DEF RegistrySound
  <2> QED
    BY <2>5, <2>6, <2>8
<1> QED
  BY <1>10, <1>11

-----------------------------------------------------------------------------
(* Response bodies: the steps *)

\* What is known of a body that is being received.
LEMMA BodyKnown ==
  ASSUME BodiesInv, NEW b \in Bodies
  PROVE  /\ body[b] \in BodyRecord /\ Held(body[b])
         /\ body[b].state # "done" => (b \in disk <=> Receiving(b) /\ body[b].spill # "none")
<1>1. body[b] \in BodyRecord /\ Held(body[b])
  BY DEF BodiesInv, BodiesTyped
<1>2. body[b].state # "done" => b \notin ToSet(kept)
  BY <1>1 DEF BodiesInv, RegistrySound, Referred, Held
<1> QED
  BY <1>1, <1>2 DEF BodiesInv, SpillFilesAccounted

LEMMA NoBodyType == NoBody \in BodyRecord
  BY BodiesAssumption DEF NoBody, BodyRecord

\* A chunk more.
LEMMA ChunkType ==
  ASSUME BodiesInv, NEW b \in Bodies, More(b)
  PROVE  /\ Chunk(b) \in 0..MaxChunks /\ Chunk(b) \in Nat \ {0} /\ body[b].total \in Nat
         /\ 1..Chunk(b) = (1..body[b].total) \cup {Chunk(b)} /\ 1..Chunk(b) \subseteq Nat
<1>1. body[b].total \in 0..MaxChunks /\ body[b].total < MaxChunks
  BY BodyKnown DEF More, BodyRecord
<1> QED
  BY <1>1, BodiesAssumption DEF Chunk

LEMMA HeadsInv ==
  ASSUME BodiesInv, NEW b \in Bodies, NEW flag \in BOOLEAN, BufferedHead(b) \/ StreamHead(b, flag)
  PROVE  BodiesInv'
<1>1. body[b].state = "idle" /\ UNCHANGED <<kept, registered, reading>> /\ b \notin disk /\ disk \subseteq Bodies
  BY BodyKnown DEF BufferedHead, StreamHead, Receiving, BodiesInv, BodiesTyped
<1>2. CASE BufferedHead(b)
  <2> DEFINE x == [NoBody EXCEPT !.state = "receiving"]
  <2>1. /\ x.state = "receiving" /\ x.answer = "none" /\ x.spill = "none"
        /\ x.total = 0 /\ x.mem = {} /\ x.file = {} /\ x.shown = {}
    BY DEF NoBody
  <2>2. Set(b, x) /\ UNCHANGED disk
    BY <1>2 DEF BufferedHead
  <2>3. x \in BodyRecord
    BY NoBodyType DEF BodyRecord
  <2> HIDE DEF x
  <2>4. Held(x)
    BY <2>1 DEF Held
  <2> QED
    BY <1>1, <2>1, <2>2, <2>3, <2>4, BodyStep
<1>3. CASE StreamHead(b, flag)
  <2> DEFINE x == [NoBody EXCEPT !.state = "receiving", !.live = TRUE,
                                 !.spill = IF flag THEN "open" ELSE "none", !.threw = ~flag]
  <2>1. /\ x.answer = "none" /\ x.state = "receiving" /\ x.live
        /\ x.spill = IF flag THEN "open" ELSE "none"
        /\ x.total = 0 /\ x.mem = {} /\ x.file = {} /\ x.shown = {}
    BY DEF NoBody
  <2>2. Set(b, x) /\ disk' = IF flag THEN disk \cup {b} ELSE disk
    BY <1>3 DEF StreamHead
  <2>3. x \in BodyRecord
    BY NoBodyType DEF BodyRecord
  <2> HIDE DEF x
  <2>4. Held(x)
    BY <2>1 DEF Held
  <2> QED
    BY <1>1, <2>1, <2>2, <2>3, <2>4, BodyStep
<1> QED
  BY <1>2, <1>3

LEMMA MemoryChunkInv == ASSUME BodiesInv, NEW b \in Bodies, MemoryChunk(b) PROVE BodiesInv'
<1> DEFINE r == body[b]
           x == [r EXCEPT !.total = Chunk(b), !.mem = IF r.live THEN @ ELSE @ \cup {Chunk(b)}]
<1>1. /\ More(b) /\ r.state = "receiving" /\ Set(b, x) /\ UNCHANGED <<disk, kept, registered, reading>>
      /\ (r.live \/ r.spill = "none") /\ (r.live => r.spill # "open")
  BY DEF MemoryChunk, More, Receiving
<1>2. r \in BodyRecord /\ Held(r) /\ (b \in disk <=> r.spill # "none")
  BY <1>1, BodyKnown DEF Receiving
<1>3. /\ x \in BodyRecord /\ x.state = "receiving" /\ x.answer = r.answer /\ x.spill = r.spill
      /\ x.threw = r.threw /\ x.live = r.live /\ x.file = r.file /\ x.shown = r.shown
      /\ x.total = Chunk(b) /\ x.mem = IF r.live THEN r.mem ELSE r.mem \cup {Chunk(b)}
  BY <1>1, <1>2, ChunkType DEF BodyRecord
<1>4. x.spill # "open"
  BY <1>1, <1>3 DEF MemoryChunk
<1> HIDE DEF x, r
<1>5. Held(x)
  <2>1. 1..Chunk(b) = (1..r.total) \cup {Chunk(b)}
    BY <1>1, ChunkType DEF r
  <2> QED
    BY <1>1, <1>2, <1>3, <1>4, <2>1 DEF Held
<1> QED
  <2>1. disk \subseteq Bodies /\ body[b].state # "done" /\ x.answer # "ref"
    BY <1>1, <1>2, <1>3 DEF BodiesInv, BodiesTyped, Held, r
  <2> QED
    BY <1>1, <1>2, <1>3, <1>5, <2>1, BodyStep

LEMMA SpillInv ==
  ASSUME BodiesInv, NEW b \in Bodies, NEW opens \in BOOLEAN, Spill(b, opens) PROVE BodiesInv'
<1> DEFINE r == body[b]
           x == [r EXCEPT !.total = Chunk(b), !.mem = {},
                          !.spill = IF opens THEN "open" ELSE @,
                          !.threw = @ \/ ~opens,
                          !.file = IF opens THEN r.mem \cup {Chunk(b)} ELSE @]
<1>1. /\ More(b) /\ r.state = "receiving" /\ Set(b, x) /\ UNCHANGED <<kept, registered, reading>>
      /\ ~r.live /\ r.spill = "none" /\ disk' = IF opens THEN disk \cup {b} ELSE disk
  BY DEF Spill, More, Receiving
<1>2. r \in BodyRecord /\ Held(r) /\ b \notin disk /\ disk \subseteq Bodies
  BY <1>1, BodyKnown DEF BodiesInv, BodiesTyped
<1>3. Chunk(b) \in 0..MaxChunks /\ Chunk(b) \in Nat /\ 1..Chunk(b) = (1..r.total) \cup {Chunk(b)}
  BY <1>1, ChunkType
<1>4. /\ x.state = "receiving" /\ x.answer = r.answer
      /\ x.spill = IF opens THEN "open" ELSE "none"
      /\ x.live = r.live /\ x.shown = r.shown /\ x.mem = {} /\ x.total = Chunk(b)
      /\ x.file = IF opens THEN r.mem \cup {Chunk(b)} ELSE r.file
  BY <1>1, <1>2 DEF BodyRecord
<1>5. x.threw <=> r.threw \/ ~opens
  BY <1>2 DEF BodyRecord
<1>6. x \in BodyRecord
  BY <1>2, <1>3 DEF BodyRecord
<1> HIDE DEF x, r
<1>7. r.answer = "none"
  BY <1>1, <1>2 DEF Held
<1>8. Held(x)
  BY <1>1, <1>2, <1>3, <1>4, <1>5, <1>7 DEF Held
<1> QED
  <2>1. body[b].state # "done" /\ x.answer # "ref"
    BY <1>1, <1>4, <1>7 DEF r
  <2> QED
    BY <1>1, <1>2, <1>4, <1>6, <1>8, <2>1, BodyStep

LEMMA FileChunkInv == ASSUME BodiesInv, NEW b \in Bodies, FileChunk(b) PROVE BodiesInv'
<1> DEFINE r == body[b]
           x == [r EXCEPT !.total = Chunk(b),
                          !.file = IF r.spill = "open" THEN @ \cup {Chunk(b)} ELSE @,
                          !.paused = r.spill = "broken"]
<1>1. /\ More(b) /\ r.state = "receiving" /\ Set(b, x) /\ UNCHANGED <<disk, kept, registered, reading>>
      /\ r.spill \in {"open", "broken"}
  BY DEF FileChunk, More, Receiving
<1>2. r \in BodyRecord /\ Held(r) /\ b \in disk /\ disk \subseteq Bodies
  BY <1>1, BodyKnown DEF BodiesInv, BodiesTyped, Receiving
<1>3. Chunk(b) \in 0..MaxChunks /\ Chunk(b) \in Nat /\ 1..Chunk(b) = (1..r.total) \cup {Chunk(b)}
  BY <1>1, ChunkType
<1>4. /\ x.state = "receiving" /\ x.answer = r.answer /\ x.spill = r.spill
      /\ x.live = r.live /\ x.shown = r.shown /\ x.mem = r.mem /\ x.total = Chunk(b)
      /\ x.threw = r.threw /\ x.file = IF r.spill = "open" THEN r.file \cup {Chunk(b)} ELSE r.file
  BY <1>1, <1>2 DEF BodyRecord
<1>5. x \in BodyRecord
  BY <1>2, <1>3 DEF BodyRecord
<1> HIDE DEF x, r
<1>6. r.answer = "none"
  BY <1>1, <1>2 DEF Held
<1>7. Held(x)
  BY <1>1, <1>2, <1>3, <1>4, <1>6 DEF Held
<1> QED
  <2>1. body[b].state # "done" /\ x.answer # "ref" /\ x.spill # "none"
    BY <1>1, <1>4, <1>6 DEF r
  <2> QED
    BY <1>1, <1>2, <1>4, <1>5, <1>7, <2>1, BodyStep

LEMMA SpillFailsInv ==
  ASSUME BodiesInv, NEW b \in Bodies, NEW waiting \in BOOLEAN, SpillFails(b, waiting)
  PROVE  BodiesInv'
<1> DEFINE r == body[b]
           x == [r EXCEPT !.spill = "broken", !.paused = waiting, !.file = @ \ {r.total}]
<1>1. /\ r.state = "receiving" /\ Set(b, x) /\ UNCHANGED <<disk, kept, registered, reading>>
      /\ r.spill = "open"
  BY DEF SpillFails, Receiving
<1>2. r \in BodyRecord /\ Held(r) /\ b \in disk /\ disk \subseteq Bodies
  BY <1>1, BodyKnown DEF BodiesInv, BodiesTyped, Receiving
<1>3. /\ x.state = "receiving" /\ x.answer = r.answer /\ x.spill = "broken"
      /\ x.shown = r.shown /\ x.mem = r.mem /\ x.total = r.total
      /\ x.threw = r.threw /\ x.file = r.file \ {r.total}
  BY <1>1, <1>2 DEF BodyRecord
<1>4. x \in BodyRecord
  BY <1>2 DEF BodyRecord
<1> HIDE DEF x, r
<1>5. r.answer = "none"
  BY <1>1, <1>2 DEF Held
<1>6. Held(x)
  BY <1>1, <1>2, <1>3, <1>5 DEF Held
<1> QED
  <2>1. body[b].state # "done" /\ x.answer # "ref"
    BY <1>1, <1>3, <1>5 DEF r
  <2> QED
    BY <1>1, <1>2, <1>3, <1>4, <1>6, <2>1, BodyStep

\* The record of a body that is over.
LEMMA FinishedType ==
  ASSUME BodiesInv, NEW b \in Bodies, NEW answer \in {"whole", "ref", "error", "streamed"},
         NEW shown \in SUBSET (1..body[b].total), Finished(b, answer, shown),
         answer \in {"whole", "ref"} /\ ~body[b].threw => shown = 1..body[b].total
  PROVE  \E x \in BodyRecord : Held(x) /\ Set(b, x) /\ x.state = "done" /\ x.answer = answer
<1> DEFINE r == body[b]
           x == [NoBody EXCEPT !.state = "done", !.live = r.live, !.total = r.total,
                               !.threw = r.threw, !.answer = answer, !.shown = shown]
<1>1. r \in BodyRecord
  BY BodyKnown
<1>2. /\ x.state = "done" /\ x.answer = answer /\ x.mem = {} /\ x.file = {} /\ x.shown = shown
      /\ x.total = r.total /\ x.threw = r.threw
  BY DEF NoBody
<1>3. x \in BodyRecord
  <2>1. shown \in SUBSET Nat
    BY <1>1 DEF BodyRecord
  <2> QED
    BY <1>1, <2>1, NoBodyType DEF BodyRecord
<1>4. Set(b, x)
  BY DEF Finished
<1> HIDE DEF x
<1>5. Held(x)
  BY <1>2 DEF Held
<1> QED
  BY <1>2, <1>3, <1>4, <1>5

LEMMA MemoryEndInv == ASSUME BodiesInv, NEW b \in Bodies, MemoryEnd(b) PROVE BodiesInv'
<1>1. /\ body[b].state = "receiving" /\ ~body[b].live /\ body[b].spill = "none"
      /\ Finished(b, "whole", body[b].mem) /\ UNCHANGED <<disk, kept, registered, reading>>
  BY DEF MemoryEnd, Receiving
<1>2. Held(body[b]) /\ b \notin disk /\ disk \subseteq Bodies
  BY <1>1, BodyKnown DEF BodiesInv, BodiesTyped
<1>3. body[b].mem \in SUBSET (1..body[b].total) /\ (~body[b].threw => body[b].mem = 1..body[b].total)
  BY <1>1, <1>2 DEF Held
<1>4. PICK x \in BodyRecord : Held(x) /\ Set(b, x) /\ x.state = "done" /\ x.answer = "whole"
  BY <1>1, <1>3, FinishedType
<1> QED
  BY <1>1, <1>2, <1>4, BodyStep

\* A body is given up together with its file.
LEMMA GivenUpInv ==
  ASSUME BodiesInv, NEW b \in Bodies, Receiving(b), NEW answer \in {"error", "streamed"},
         Finished(b, answer, {}), disk' = disk \ {b}, UNCHANGED <<kept, registered, reading>>
  PROVE  BodiesInv'
<1>1. PICK x \in BodyRecord : Held(x) /\ Set(b, x) /\ x.state = "done" /\ x.answer = answer
  BY FinishedType
<1>2. disk \subseteq Bodies /\ body[b].state # "done"
  BY DEF BodiesInv, BodiesTyped, Receiving
<1> QED
  BY <1>1, <1>2, BodyStep

\* The file of a body is registered as it ends.
LEMMA ReferredInv ==
  ASSUME BodiesInv, NEW b \in Bodies, Receiving(b), body[b].spill = "open",
         Register(b), Finished(b, "ref", body[b].file), UNCHANGED reading
  PROVE  BodiesInv'
<1>1. Held(body[b])
  BY BodyKnown
<1>2. /\ body[b].file \in SUBSET (1..body[b].total)
      /\ ~body[b].threw => body[b].file = 1..body[b].total
  BY <1>1 DEF Held, Receiving
<1>3. PICK x \in BodyRecord : Held(x) /\ Set(b, x) /\ x.state = "done" /\ x.answer = "ref"
  BY <1>2, FinishedType
<1> QED
  BY <1>3, RegisterStep

LEMMA FileEndInv == ASSUME BodiesInv, NEW b \in Bodies, FileEnd(b) PROVE BodiesInv'
<1>1. Receiving(b) /\ body[b].spill \in {"open", "broken"} /\ UNCHANGED reading
  BY BodyKnown DEF FileEnd, BodyRecord
<1>2. CASE body[b].spill = "broken" \/ body[b].threw
  BY <1>1, <1>2, GivenUpInv DEF FileEnd
<1>3. CASE ~(body[b].spill = "broken" \/ body[b].threw)
  BY <1>1, <1>3, ReferredInv DEF FileEnd
<1> QED
  BY <1>2, <1>3

LEMMA BodyBreaksInv == ASSUME BodiesInv, NEW b \in Bodies, BodyBreaks(b) PROVE BodiesInv'
<1>1. /\ Receiving(b) /\ Finished(b, "error", {}) /\ UNCHANGED <<kept, registered, reading>>
      /\ disk' = IF body[b].spill = "none" THEN disk ELSE disk \ {b}
  BY DEF BodyBreaks
<1>2. body[b].spill = "none" => b \notin disk
  BY <1>1, BodyKnown DEF Receiving
<1>3. disk' = disk \ {b}
  BY <1>1, <1>2
<1> QED
  BY <1>1, <1>3, GivenUpInv

LEMMA StreamOverInv ==
  ASSUME BodiesInv, NEW b \in Bodies, NEW stopped \in BOOLEAN, StreamOver(b, stopped)
  PROVE  BodiesInv'
<1>1. Receiving(b) /\ UNCHANGED reading
  BY DEF StreamOver
<1>2. CASE body[b].spill = "open" /\ body[b].total > 0
  BY <1>1, <1>2, ReferredInv DEF StreamOver
<1>3. CASE ~(body[b].spill = "open" /\ body[b].total > 0)
  BY <1>1, <1>3, GivenUpInv DEF StreamOver
<1> QED
  BY <1>2, <1>3

LEMMA AskInv == ASSUME BodiesInv, NEW b \in Bodies, Ask(b) PROVE BodiesInv'
<1> USE DEF BodiesInv
<1>1. /\ body[b].answer = "ref" /\ UNCHANGED <<body, disk, kept, registered>>
      /\ reading' = [reading EXCEPT ![b] = IF Contains(kept, b) THEN "asked" ELSE "gone"]
  BY DEF Ask
<1>2. Contains(kept, b) <=> b \in ToSet(kept)
  BY DEF Contains, ToSet
<1>3. /\ reading' \in [Bodies -> {"no", "asked", "gone", "read", "failed"}]
      /\ reading'[b] = IF b \in ToSet(kept) THEN "asked" ELSE "gone"
      /\ \A c \in Bodies \ {b} : reading'[c] = reading[c]
  BY <1>1, <1>2 DEF BodiesTyped
<1>4. BodiesTyped' /\ SpillFilesAccounted'
  BY <1>1, <1>3 DEF BodiesTyped, SpillFilesAccounted, Receiving
<1>5. Referred' = Referred /\ b \in Referred
  BY <1>1 DEF Referred
<1>6. RegistrySound'
  BY <1>1, <1>3, <1>5 DEF RegistrySound
<1> QED
  BY <1>4, <1>6

LEMMA RedeemInv == ASSUME BodiesInv, NEW b \in Bodies, Redeem(b) PROVE BodiesInv'
<1> USE DEF BodiesInv
<1>1. /\ reading[b] = "asked" /\ UNCHANGED <<body, disk, kept, registered>>
      /\ reading' = [reading EXCEPT ![b] = IF b \in disk THEN "read" ELSE "failed"]
  BY DEF Redeem
<1>2. /\ reading' \in [Bodies -> {"no", "asked", "gone", "read", "failed"}]
      /\ reading'[b] = IF b \in disk THEN "read" ELSE "failed"
      /\ \A c \in Bodies \ {b} : reading'[c] = reading[c]
  BY <1>1 DEF BodiesTyped
<1>3. BodiesTyped' /\ SpillFilesAccounted'
  BY <1>1, <1>2 DEF BodiesTyped, SpillFilesAccounted, Receiving
<1>4. Referred' = Referred /\ b \in Referred /\ (b \in ToSet(kept) => b \in disk)
  BY <1>1 DEF Referred, RegistrySound, SpillFilesAccounted
<1>5. RegistrySound'
  BY <1>1, <1>2, <1>4 DEF RegistrySound
<1> QED
  BY <1>3, <1>5

LEMMA InitBodiesInv == BodiesInit => BodiesInv
<1> SUFFICES ASSUME BodiesInit PROVE BodiesInv
  OBVIOUS
<1>1. /\ kept = <<>> /\ disk = {} /\ DOMAIN kept = {} /\ Len(kept) = 0 /\ kept \in Seq(Bodies)
      /\ registered = kept
      /\ \A b \in Bodies : body[b] = NoBody /\ reading[b] = "no"
  BY EmptySeq DEF BodiesInit
<1>2. NoBody.state = "idle" /\ NoBody.answer = "none" /\ NoBody.mem = {} /\ NoBody.file = {}
      /\ NoBody.shown = {}
  BY DEF NoBody
<1>3. Held(NoBody)
  BY <1>2 DEF Held
<1>4. ToSet(kept) = {} /\ Referred = {} /\ Spilling = {} /\ IsInjective(kept)
  BY <1>1, <1>2 DEF ToSet, Referred, Spilling, Receiving, IsInjective
<1>5. BodiesTyped
  <2>1. body \in [Bodies -> BodyRecord]
    BY NoBodyType DEF BodiesInit
  <2>2. reading \in [Bodies -> {"no", "asked", "gone", "read", "failed"}]
    BY DEF BodiesInit
  <2> QED
    BY <1>1, <1>3, <1>4, <2>1, <2>2 DEF BodiesTyped
<1>6. SpillFilesAccounted
  BY <1>1, <1>4 DEF SpillFilesAccounted, Spilling
<1>7. RegistrySound
  BY <1>1, <1>4, BodiesAssumption DEF RegistrySound, Recent
<1> QED
  BY <1>5, <1>6, <1>7 DEF BodiesInv

LEMMA NextBodiesInv == BodiesInv /\ [BodiesNext]_bodyVars => BodiesInv'
<1> SUFFICES ASSUME BodiesInv, [BodiesNext]_bodyVars PROVE BodiesInv'
  OBVIOUS
<1>1. CASE UNCHANGED bodyVars
  BY <1>1 DEF bodyVars, BodiesInv, BodiesTyped, SpillFilesAccounted, Receiving, RegistrySound, Referred
<1>2. ASSUME NEW b \in Bodies,
             \/ BufferedHead(b) \/ MemoryChunk(b) \/ FileChunk(b) \/ MemoryEnd(b) \/ FileEnd(b)
             \/ BodyBreaks(b) \/ Ask(b) \/ Redeem(b)
      PROVE  BodiesInv'
  BY <1>2, HeadsInv, MemoryChunkInv, FileChunkInv, MemoryEndInv, FileEndInv, BodyBreaksInv,
     AskInv, RedeemInv
<1>3. ASSUME NEW b \in Bodies, NEW flag \in BOOLEAN,
             StreamHead(b, flag) \/ Spill(b, flag) \/ SpillFails(b, flag) \/ StreamOver(b, flag)
      PROVE  BodiesInv'
  BY <1>3, HeadsInv, SpillInv, SpillFailsInv, StreamOverInv
<1> QED
  BY <1>1, <1>2, <1>3 DEF BodiesNext

LEMMA BodiesInvariant == BodiesSpec => []BodiesInv
<1> QED
  BY InitBodiesInv, NextBodiesInv, PTL DEF BodiesSpec

\* What is held, written and shown of a body are chunks of it, and the registry
\* names bodies.
THEOREM BodiesTypeCorrect == BodiesSpec => []BodiesTypeOK
<1>1. BodiesInv => BodiesTypeOK
  <2> SUFFICES ASSUME BodiesInv PROVE BodiesTypeOK
    OBVIOUS
  <2>1. ASSUME NEW b \in Bodies
        PROVE  /\ body[b].state \in {"idle", "receiving", "done"}
               /\ body[b].spill \in {"none", "open", "broken"}
               /\ body[b].answer \in {"none", "whole", "ref", "error", "streamed"}
               /\ body[b].total \in 0..MaxChunks
               /\ body[b].mem \cup body[b].file \cup body[b].shown \subseteq 1..body[b].total
               /\ {body[b].live, body[b].threw, body[b].paused} \subseteq BOOLEAN
    <3>1. body[b] \in BodyRecord /\ Held(body[b])
      BY BodyKnown
    <3>2. {body[b].live, body[b].threw, body[b].paused} \subseteq BOOLEAN
      BY <3>1 DEF BodyRecord
    <3> QED
      BY <3>1, <3>2 DEF BodyRecord, Held
  <2>2. /\ disk \subseteq Bodies /\ ToSet(kept) \subseteq ToSet(registered)
        /\ registered \in Seq(Bodies)
    BY DEF BodiesInv, BodiesTyped, RegistrySound
  <2>3. reading \in [Bodies -> {"no", "asked", "gone", "read", "failed"}]
    BY DEF BodiesInv, BodiesTyped
  <2> QED
    BY <2>1, <2>2, <2>3 DEF BodiesTypeOK
<1> QED
  BY <1>1, BodiesInvariant, PTL

\* Through errors of the file, stops and evictions every spill file is being
\* written or can be redeemed, what is answered as complete has all its chunks
\* (http-engine.js 1549), and a reference is good until as many others
\* were registered after it as the registry holds (http-engine.js 243-253).
THEOREM BodiesAreKept == BodiesSpec => []BodiesAreAccounted
<1>1. BodiesInv => BodiesAreAccounted
  <2> SUFFICES ASSUME BodiesInv PROVE BodiesAreAccounted
    OBVIOUS
  <2>1. CompleteMeansComplete
    BY BodyKnown DEF CompleteMeansComplete, Held
  <2>2. RecentBodiesCanBeRead
    <3>1. Recent(kept, registered) /\ kept \in Seq(Bodies) /\ registered \in Seq(Bodies)
      BY DEF BodiesInv, BodiesTyped, RegistrySound
    <3>2. ASSUME NEW b \in Bodies, reading[b] \in {"gone", "failed"}
          PROVE  \E i \in DOMAIN registered :
                   registered[i] = b /\ Len(registered) - i >= MaxKept
      <4>1. b \in ToSet(registered) /\ b \notin ToSet(kept)
        BY <3>2 DEF BodiesInv, RegistrySound
      <4>2. PICK i \in DOMAIN registered : registered[i] = b
        BY <4>1 DEF ToSet
      <4> QED
        BY <3>1, <4>1, <4>2, RecentMembers
    <3> QED
      BY <3>1, <3>2 DEF RecentBodiesCanBeRead, Recent
  <2> QED
    BY <2>1, <2>2 DEF BodiesInv, BodiesAreAccounted
<1> QED
  BY <1>1, BodiesInvariant, PTL

-----------------------------------------------------------------------------
(* Cookie jars *)

Expiries == Int \cup {Unset}
Cookies == [domain : Hosts, path : UrlPaths, hostOnly : BOOLEAN, secure : BOOLEAN,
            expires : Expiries, value : Values]
Orders == [line : Lines, url : Places, at : Int]

\* The cookie an order asks for.
CookieOf(o) ==
  [domain |-> EntryOf(o)[1], path |-> EntryOf(o)[2],
   hostOnly |-> o.line.domain = Unset, secure |-> o.line.secure,
   expires |-> IF o.line.maxAge = Unset THEN o.line.expires
               ELSE IF o.line.maxAge <= 0 THEN o.at - 1 ELSE o.at + o.line.maxAge,
   value |-> o.line.value]

\* A jar, what it was told, and that they agree: what has not expired of the one is what is
\* still good of the other.
Agree(s) == PruneExpired(s.jar) = {CookieOf(o) : o \in {o \in s.told : StillGood(o)}}
OneEach(cookies) == \A d, e \in cookies : Identity(d) = Identity(e) => d = e
States == [jar : SUBSET Cookies, told : SUBSET Orders]
Sound(s, astray) ==
  /\ s \in States /\ OneEach(s.jar)
  /\ \A o \in s.told : o.at <= now
  /\ ~astray => Agree(s)

LEMMA DefaultPathType == ASSUME NEW path \in UrlPaths PROVE DefaultPath(path) \in UrlPaths
<1>1. CASE Len(path) = 1
  <2>1. <<Blank>> \in Seq(Labels) /\ <<Blank>> # <<>>
    BY CookieAssumption
  <2> QED BY <1>1, <2>1 DEF DefaultPath, RootPath, UrlPaths
<1>2. CASE Len(path) # 1
  <2>1. path \in Seq(Labels) /\ Len(path) \in Nat /\ Len(path) > 1
    <3>1. path \in Seq(Labels) /\ path # <<>>
      BY DEF UrlPaths
    <3>2. Len(path) \in Nat \ {0}
      BY <3>1, EmptySeq
    <3>3. Len(path) # 1
      BY <1>2
    <3>4. \A n \in Nat \ {0} : n # 1 => n > 1
      OBVIOUS
    <3> QED BY <3>1, <3>2, <3>3, <3>4
  <2>2. Front(path) \in Seq(Labels) /\ Len(Front(path)) = Len(path) - 1
    <3>1. Len(path) - 1 \in Int /\ \A i \in 1..(Len(path) - 1) : path[i] \in Labels
      BY <2>1
    <3>2. /\ SubSeq(path, 1, Len(path) - 1) \in Seq(Labels)
          /\ Len(SubSeq(path, 1, Len(path) - 1)) = Len(path) - 1
      BY <2>1, <3>1, SubSeqProperties
    <3> QED BY <3>2 DEF Front
  <2>3. Front(path) # <<>>
    BY <2>1, <2>2
  <2> QED BY <1>2, <2>2, <2>3 DEF DefaultPath, UrlPaths
<1> QED BY <1>1, <1>2

LEMMA CookieTypes ==
  ASSUME NEW o \in Orders
  PROVE  CookieOf(o) \in Cookies /\ Identity(CookieOf(o)) = EntryOf(o)
<1>1. o.line \in Lines /\ o.url \in Places /\ o.at \in Int
  BY DEF Orders
<1>2. EntryOf(o)[1] \in Hosts
  BY <1>1 DEF EntryOf, Lines, Places
<1>3. EntryOf(o)[2] \in UrlPaths
  BY <1>1, DefaultPathType DEF EntryOf, Lines, Places
<1>4. (IF o.line.maxAge = Unset THEN o.line.expires
       ELSE IF o.line.maxAge <= 0 THEN o.at - 1 ELSE o.at + o.line.maxAge) \in Expiries
  BY <1>1 DEF Lines, Expiries
<1>5. CookieOf(o) \in Cookies
  BY <1>1, <1>2, <1>3, <1>4 DEF CookieOf, Cookies, Lines
<1>6. Identity(CookieOf(o)) = <<EntryOf(o)[1], EntryOf(o)[2]>>
  BY DEF Identity, CookieOf
<1>7. <<EntryOf(o)[1], EntryOf(o)[2]>> = EntryOf(o)
  BY DEF EntryOf
<1> QED BY <1>5, <1>6, <1>7

\* An order is good as long as the cookie it asks for has not expired.
LEMMA GoodIsFresh ==
  ASSUME NEW o \in Orders, NEW t \in Int, o.at <= t
  PROVE  (IF o.line.maxAge # Unset THEN o.line.maxAge > t - o.at
          ELSE o.line.expires # Unset => t < o.line.expires)
         <=> ~(CookieOf(o).expires # Unset /\ CookieOf(o).expires <= t)
<1>1. o.line \in Lines /\ o.at \in Int /\ Unset \notin Int
  BY CookieAssumption DEF Orders
<1>2. o.line.maxAge \in Int \cup {Unset} /\ o.line.expires \in Int \cup {Unset}
  BY <1>1 DEF Lines
<1>3. CookieOf(o).expires = IF o.line.maxAge = Unset THEN o.line.expires
                            ELSE IF o.line.maxAge <= 0 THEN o.at - 1 ELSE o.at + o.line.maxAge
  BY DEF CookieOf
<1>4. CASE o.line.maxAge = Unset
  BY <1>1, <1>2, <1>3, <1>4
<1>5. CASE o.line.maxAge \in Int /\ o.line.maxAge <= 0
  BY <1>1, <1>2, <1>3, <1>5
<1>6. CASE o.line.maxAge \in Int /\ o.line.maxAge > 0
  BY <1>1, <1>2, <1>3, <1>6
<1> QED BY <1>2, <1>4, <1>5, <1>6

\* A new entry replaces the one of its identity in both.
LEMMA UpsertSound ==
  ASSUME NEW s, NEW astray, NEW o \in Orders, now \in Int, o.at <= now, Sound(s, astray)
  PROVE  Sound([jar |-> Upsert(s.jar, CookieOf(o)), told |-> Ordered(s.told, o)], astray)
<1> DEFINE e == CookieOf(o)
           u == Upsert(s.jar, e)
           t == Ordered(s.told, o)
           z == [jar |-> u, told |-> t]
<1>1. e \in Cookies /\ Identity(e) = EntryOf(o)
  BY CookieTypes
<1>2. s.jar \subseteq Cookies /\ s.told \subseteq Orders /\ OneEach(s.jar)
  BY DEF Sound, States
<1>3. u = {c \in s.jar : ~Expired(c) /\ Identity(c) # Identity(e)} \cup {c \in {e} : ~Expired(c)}
  BY DEF Upsert, PruneExpired
<1>4. t = {p \in s.told : EntryOf(p) # EntryOf(o)} \cup {o}
  BY DEF Ordered
<1> HIDE DEF e, u, t
<1>5. z \in States
  BY <1>1, <1>2, <1>3, <1>4 DEF States
<1>6. OneEach(u)
  BY <1>2, <1>3 DEF OneEach
<1>7. \A p \in t : p.at <= now
  BY <1>4 DEF Sound
<1>8. ASSUME ~astray PROVE Agree(z)
  <2>1. Agree(s) /\ \A p \in s.told : p.at <= now
    BY <1>8 DEF Sound
  <2>2. \A p \in s.told : Identity(CookieOf(p)) = EntryOf(p)
    BY <1>2, CookieTypes
  <2>3. StillGood(o) <=> ~Expired(e)
    BY GoodIsFresh DEF e, StillGood, Expired
  <2>4. PruneExpired(u) = u
    BY <1>3 DEF PruneExpired
  <2>5. {c \in s.jar : ~Expired(c)} = {CookieOf(p) : p \in {p \in s.told : StillGood(p)}}
    BY <2>1 DEF Agree, PruneExpired
  <2>6. ASSUME NEW c \in u PROVE c \in {CookieOf(p) : p \in {p \in t : StillGood(p)}}
    <3>1. CASE c = e
      BY <1>3, <1>4, <2>3, <2>6, <3>1 DEF e
    <3>2. CASE c # e
      <4>1. c \in s.jar /\ ~Expired(c) /\ Identity(c) # Identity(e)
        BY <1>3, <2>6, <3>2
      <4>2. PICK p \in s.told : StillGood(p) /\ c = CookieOf(p)
        BY <2>5, <4>1
      <4>3. p \in t
        BY <1>1, <1>4, <2>2, <4>1, <4>2
      <4> QED BY <4>2, <4>3
    <3> QED BY <3>1, <3>2
  <2>7. ASSUME NEW p \in t, StillGood(p) PROVE CookieOf(p) \in u
    <3>1. CASE p = o
      BY <1>3, <2>3, <2>7, <3>1 DEF e
    <3>2. CASE p # o
      <4>1. p \in s.told /\ EntryOf(p) # EntryOf(o)
        BY <1>4, <2>7, <3>2
      <4>2. CookieOf(p) \in s.jar /\ ~Expired(CookieOf(p))
        BY <2>5, <2>7, <4>1
      <4> QED BY <1>1, <1>3, <2>2, <4>1, <4>2
    <3> QED BY <3>1, <3>2
  <2>8. z.jar = u /\ z.told = t
    OBVIOUS
  <2> QED BY <2>4, <2>6, <2>7, <2>8 DEF Agree
<1> QED BY <1>5, <1>6, <1>7, <1>8 DEF Sound, e, u, t

\* An entry is taken out of both.
LEMMA ForgetSound ==
  ASSUME NEW s, NEW astray, NEW id, Sound(s, astray)
  PROVE  Sound([jar  |-> {c \in s.jar : Identity(c) # id},
                told |-> {o \in s.told : EntryOf(o) # id}], astray)
<1> DEFINE u == {c \in s.jar : Identity(c) # id}
           t == {o \in s.told : EntryOf(o) # id}
           z == [jar |-> u, told |-> t]
<1>1. s.jar \subseteq Cookies /\ s.told \subseteq Orders /\ OneEach(s.jar)
  BY DEF Sound, States
<1>2. z \in States /\ OneEach(u) /\ \A o \in t : o.at <= now
  BY <1>1 DEF States, OneEach, Sound
<1>3. \A p \in s.told : Identity(CookieOf(p)) = EntryOf(p)
  BY <1>1, CookieTypes
<1>4. ASSUME ~astray PROVE Agree(z)
  <2>1. {c \in s.jar : ~Expired(c)} = {CookieOf(p) : p \in {p \in s.told : StillGood(p)}}
    BY <1>4 DEF Agree, PruneExpired, Sound
  <2>2. {c \in u : ~Expired(c)} = {CookieOf(p) : p \in {p \in t : StillGood(p)}}
    BY <1>3, <2>1
  <2>3. z.jar = u /\ z.told = t
    OBVIOUS
  <2> QED BY <2>2, <2>3 DEF Agree, PruneExpired
<1> QED BY <1>2, <1>4 DEF Sound

\* Pruning takes out what has expired.
LEMMA PruneSound ==
  ASSUME NEW s, NEW astray, Sound(s, astray)
  PROVE  Sound([jar |-> PruneExpired(s.jar), told |-> s.told], astray)
<1>1. PruneExpired(s.jar) \subseteq s.jar /\ PruneExpired(PruneExpired(s.jar)) = PruneExpired(s.jar)
  BY DEF PruneExpired
<1> QED BY <1>1 DEF Sound, States, OneEach, Agree

\* A line is skipped, or its cookie stored.
LEMMA LineSound ==
  ASSUME NEW s, NEW astray, NEW line \in Lines, NEW url \in Places, now \in Int, Sound(s, astray)
  PROVE  Sound(WithLine(s, line, url), astray)
<1> DEFINE o == Order(line, url)
           new == [domain |-> IF line.domain = Unset THEN url.host ELSE line.domain,
                   path |-> IF line.path = Unset THEN DefaultPath(url.path) ELSE line.path,
                   hostOnly |-> line.domain = Unset, secure |-> line.secure,
                   expires |-> ResolveExpiry(line), value |-> line.value]
<1>1. o \in Orders /\ o.at <= now
  BY DEF Order, Orders
<1>2. o.line = line /\ o.url = url /\ o.at = now
  BY DEF Order
<1>3. EntryOf(o)[1] = new.domain /\ EntryOf(o)[2] = new.path
  BY <1>2 DEF EntryOf
<1>4. CookieOf(o) = new
  BY <1>2, <1>3 DEF CookieOf, ResolveExpiry
<1>5. CASE FromSetCookie(line, url) = {}
  BY <1>5 DEF WithLine
<1>6. CASE FromSetCookie(line, url) = {new}
  <2>1. (CHOOSE n \in FromSetCookie(line, url) : TRUE) = new
    BY <1>6
  <2>2. WithLine(s, line, url) = [jar |-> Upsert(s.jar, new), told |-> Ordered(s.told, o)]
    BY <1>6, <2>1 DEF WithLine
  <2> QED BY <1>1, <1>4, <2>2, UpsertSound
<1> QED BY <1>5, <1>6 DEF FromSetCookie

\* The loop over a response has a result, for a response of any length, and the line it comes
\* to last leaves everything sound if all before did.
LEMMA LoopRuns ==
  ASSUME NEW s, NEW url, NEW response, NEW N \in Nat
  PROVE  \E f : f = [n \in 0..N |-> IF n = 0 THEN s ELSE WithLine(f[n - 1], response[n], url)]
<1> DEFINE Runs(k, f) == f = [n \in 0..k |-> IF n = 0 THEN s
                                             ELSE WithLine(f[n - 1], response[n], url)]
           Bad == {k \in Nat : ~\E f : Runs(k, f)}
<1>1. SUFFICES Bad = {}
  BY <1>1
<1>2. SUFFICES ASSUME Bad # {} PROVE FALSE
  BY <1>2
<1>3. PICK k \in Bad : \A m \in Bad : <<m, k>> \notin OpToRel(<, Nat)
  <2> HIDE DEF Bad
  <2>1. Bad \subseteq Nat
    BY DEF Bad
  <2> QED BY <1>2, <2>1, NatLessThanWellFounded, WFMin
<1>4. k \in Nat /\ ~\E f : Runs(k, f)
  OBVIOUS
<1>5. k # 0
  <2> SUFFICES ASSUME k = 0 PROVE FALSE
    OBVIOUS
  <2> DEFINE g == [n \in 0..0 |-> s]
  <2>1. Runs(0, g)
    OBVIOUS
  <2> HIDE DEF g, Runs
  <2> QED BY <1>4, <2>1
<1>6. k - 1 \in Nat /\ k - 1 < k
  BY <1>4, <1>5
<1>7. k - 1 \notin Bad
  BY <1>3, <1>4, <1>6 DEF OpToRel
<1>8. PICK f : Runs(k - 1, f)
  BY <1>6, <1>7
<1> DEFINE g == [n \in 0..k |-> IF n = k THEN WithLine(f[k - 1], response[k], url) ELSE f[n]]
<1>9. Runs(k, g)
  <2>1. ASSUME NEW n \in 0..k
        PROVE  g[n] = IF n = 0 THEN s ELSE WithLine(g[n - 1], response[n], url)
    <3>1. CASE n = k
      BY <1>4, <1>5, <1>6, <3>1
    <3>2. CASE n # k
      <4>1. n \in 0..(k - 1) /\ (n # 0 => n - 1 \in 0..(k - 1) /\ n - 1 # k /\ n - 1 \in 0..k)
        BY <1>4, <3>2
      <4>2. f[n] = IF n = 0 THEN s ELSE WithLine(f[n - 1], response[n], url)
        BY <1>8, <4>1
      <4> QED BY <3>2, <4>1, <4>2
    <3> QED BY <3>1, <3>2
  <2> QED BY <2>1
<1> QED
  <2> HIDE DEF g, Runs
  <2> QED BY <1>4, <1>9

LEMMA CapturedSound ==
  ASSUME NEW s, NEW astray, NEW url \in Places, NEW response \in Seq(Lines), now \in Int,
         Sound(s, astray)
  PROVE  Sound(Captured(s, url, response), astray)
<1> DEFINE after == CHOOSE f : f = [n \in 0..Len(response) |->
                      IF n = 0 THEN s ELSE WithLine(f[n - 1], response[n], url)]
           Bad == {n \in 0..Len(response) : ~Sound(after[n], astray)}
<1>1. Captured(s, url, response) = after[Len(response)]
  BY DEF Captured
<1>2. Len(response) \in Nat /\ \A n \in 1..Len(response) : response[n] \in Lines
  OBVIOUS
<1>3. after = [n \in 0..Len(response) |->
                 IF n = 0 THEN s ELSE WithLine(after[n - 1], response[n], url)]
  BY <1>2, LoopRuns
<1> HIDE DEF after
<1>4. SUFFICES Bad = {}
  BY <1>1, <1>2, <1>4
<1>5. SUFFICES ASSUME Bad # {} PROVE FALSE
  BY <1>5
<1>6. PICK k \in Bad : \A m \in Bad : <<m, k>> \notin OpToRel(<, Nat)
  <2> HIDE DEF Bad
  <2>1. Bad \subseteq Nat
    BY <1>2 DEF Bad
  <2> QED BY <1>5, <2>1, NatLessThanWellFounded, WFMin
<1>7. k \in 0..Len(response) /\ ~Sound(after[k], astray)
  OBVIOUS
<1>8. k # 0
  BY <1>2, <1>3, <1>7
<1>9. k - 1 \in 0..Len(response) /\ k \in 1..Len(response)
  BY <1>2, <1>7, <1>8
<1>10. Sound(after[k - 1], astray)
  <2>1. k - 1 \in Nat /\ k \in Nat /\ k - 1 < k
    BY <1>2, <1>7, <1>9
  <2>2. <<k - 1, k>> \in OpToRel(<, Nat)
    BY <2>1 DEF OpToRel
  <2>3. k - 1 \notin Bad
    BY <1>6, <2>2
  <2> QED BY <1>9, <2>3
<1>11. after[k] = WithLine(after[k - 1], response[k], url)
  BY <1>3, <1>7, <1>8
<1>12. Sound(WithLine(after[k - 1], response[k], url), astray)
  BY <1>2, <1>9, <1>10, LineSound
<1> QED BY <1>7, <1>11, <1>12

\* A path matches another if it is it, or ends, with or without a slash, where a segment ends.
LEMMA PathMatches ==
  ASSUME NEW path \in UrlPaths, NEW of \in UrlPaths
  PROVE  PathMatch(path, of) <=>
           of \in {path, RootPath} \cup
             UNION {{SubSeq(path, 1, n), Append(SubSeq(path, 1, n), Blank)} : n \in 1..(Len(path) - 1)}
<1> DEFINE ends == UNION {{SubSeq(path, 1, n), Append(SubSeq(path, 1, n), Blank)} : n \in 1..(Len(path) - 1)}
           stem == IF Last(of) = Blank THEN Front(of) ELSE of
<1>1. /\ path \in Seq(Labels) /\ of \in Seq(Labels)
      /\ Len(path) \in Nat \ {0} /\ Len(of) \in Nat \ {0}
  BY EmptySeq DEF UrlPaths
<1>2. ASSUME NEW n \in 0..Len(path)
      PROVE  /\ SubSeq(path, 1, n) \in Seq(Labels) /\ Len(SubSeq(path, 1, n)) = n
             /\ \A i \in 1..n : SubSeq(path, 1, n)[i] = path[i]
  BY <1>1, SubSeqProperties
<1>3. ASSUME NEW n \in 0..Len(of)
      PROVE  /\ SubSeq(of, 1, n) \in Seq(Labels) /\ Len(SubSeq(of, 1, n)) = n
             /\ \A i \in 1..n : SubSeq(of, 1, n)[i] = of[i]
  BY <1>1, SubSeqProperties
<1>4. Front(of) = SubSeq(of, 1, Len(of) - 1) /\ Len(of) - 1 \in 0..Len(of)
  BY <1>1 DEF Front
<1>5. stem \in Seq(Labels) /\ Len(stem) \in Nat /\ SubSeq(stem, 1, Len(stem)) = stem
  <2>1. Front(of) \in Seq(Labels)
    BY <1>3, <1>4
  <2>2. stem \in Seq(Labels)
    BY <1>1, <2>1
  <2> HIDE DEF stem
  <2>3. Len(stem) \in Nat
    BY <2>2
  <2>4. SubSeq(stem, 1, Len(stem)) \in Seq(Labels) /\ Len(SubSeq(stem, 1, Len(stem))) = Len(stem)
        /\ \A i \in 1..Len(stem) : SubSeq(stem, 1, Len(stem))[i] = stem[i]
    BY <2>2, <2>3, SubSeqProperties
  <2> QED BY <2>2, <2>3, <2>4, SeqEqual
<1>6. IsStrictPrefix(stem, path) <=>
        \E n \in 0..(Len(path) - 1) : stem = SubSeq(path, 1, n)
  <2> HIDE DEF stem
  <2>1. ASSUME IsStrictPrefix(stem, path) PROVE \E n \in 0..(Len(path) - 1) : stem = SubSeq(path, 1, n)
    <3>1. Len(stem) <= Len(path) /\ stem = SubSeq(path, 1, Len(stem)) /\ stem # path
      BY <1>5, <2>1 DEF IsStrictPrefix, IsPrefix
    <3>2. Len(stem) # Len(path)
      <4> SUFFICES ASSUME Len(stem) = Len(path) PROVE FALSE
        OBVIOUS
      <4>1. \A i \in 1..Len(path) : stem[i] = path[i]
        BY <1>1, <1>2, <3>1
      <4> QED BY <1>1, <1>5, <3>1, <4>1, SeqEqual
    <3>3. Len(stem) \in 0..(Len(path) - 1)
      BY <1>1, <1>5, <3>1, <3>2
    <3> QED BY <3>1, <3>3
  <2>2. ASSUME NEW n \in 0..(Len(path) - 1), stem = SubSeq(path, 1, n) PROVE IsStrictPrefix(stem, path)
    <3>1. Len(stem) = n /\ n <= Len(path) /\ n # Len(path)
      BY <1>1, <1>2, <2>2
    <3>2. stem # path
      BY <1>1, <3>1
    <3>3. SubSeq(stem, 1, Len(stem)) = SubSeq(path, 1, Len(stem))
      BY <1>5, <2>2, <3>1
    <3> QED BY <3>1, <3>2, <3>3 DEF IsStrictPrefix, IsPrefix
  <2> QED BY <2>1, <2>2
<1>7. ASSUME NEW n \in 0..(Len(path) - 1), stem = SubSeq(path, 1, n)
      PROVE  of = RootPath \/ of \in ends
  <2>1. CASE Last(of) = Blank
    <3>1. Len(of) = n + 1 /\ \A i \in 1..n : of[i] = path[i]
      BY <1>1, <1>2, <1>3, <1>4, <1>7, <2>1
    <3>2. of = Append(SubSeq(path, 1, n), Blank)
      <4> DEFINE a == Append(SubSeq(path, 1, n), Blank)
      <4>1. SubSeq(path, 1, n) \in Seq(Labels) /\ Len(SubSeq(path, 1, n)) = n
        BY <1>2
      <4>2. a \in Seq(Labels) /\ Len(a) = n + 1 /\ a[n + 1] = Blank
            /\ \A i \in 1..n : a[i] = SubSeq(path, 1, n)[i]
        BY <4>1, CookieAssumption, AppendProperties
      <4>3. \A i \in 1..(n + 1) : of[i] = a[i]
        BY <1>1, <1>2, <2>1, <3>1, <4>2 DEF Last
      <4> HIDE DEF a
      <4>4. of = a
        BY <1>1, <3>1, <4>2, <4>3, SeqEqual
      <4> QED BY <4>4 DEF a
    <3>3. CASE n = 0
      <4>1. Len(of) = 1 /\ of[1] = Blank
        BY <2>1, <3>1, <3>3 DEF Last
      <4>2. <<Blank>> \in Seq(Labels) /\ Len(<<Blank>>) = 1 /\ <<Blank>>[1] = Blank
        BY CookieAssumption
      <4>3. of = <<Blank>>
        BY <1>1, <4>1, <4>2, SeqEqual
      <4> QED BY <4>3 DEF RootPath
    <3>4. CASE n # 0
      <4>1. n \in 1..(Len(path) - 1)
        BY <1>1, <3>4
      <4>2. Append(SubSeq(path, 1, n), Blank) \in ends
        BY <4>1
      <4> QED BY <3>2, <4>2
    <3> QED BY <3>3, <3>4
  <2>2. CASE Last(of) # Blank
    <3>1. of = SubSeq(path, 1, n)
      BY <1>7, <2>2
    <3>2. n # 0
      BY <1>1, <1>2, <3>1
    <3>3. n \in 1..(Len(path) - 1)
      BY <1>1, <3>2
    <3>4. SubSeq(path, 1, n) \in ends
      BY <3>3
    <3> QED BY <3>1, <3>4
  <2> QED BY <2>1, <2>2
<1>8. ASSUME of = RootPath PROVE \E n \in 0..(Len(path) - 1) : stem = SubSeq(path, 1, n)
  <2>1. Len(of) = 1 /\ Last(of) = Blank
    BY <1>8 DEF RootPath, Last
  <2>2. stem = SubSeq(of, 1, 0)
    BY <1>4, <2>1
  <2>3. Len(SubSeq(of, 1, 0)) = 0 /\ Len(SubSeq(path, 1, 0)) = 0
    BY <1>1, <1>2, <1>3
  <2>4. SubSeq(of, 1, 0) = SubSeq(path, 1, 0)
    BY <1>1, <1>2, <1>3, <2>3, SeqEqual
  <2>5. 0 \in 0..(Len(path) - 1)
    BY <1>1
  <2> HIDE DEF stem
  <2> QED BY <2>2, <2>4, <2>5
<1>9. ASSUME NEW n \in 1..(Len(path) - 1), of = Append(SubSeq(path, 1, n), Blank)
      PROVE  \E k \in 0..(Len(path) - 1) : stem = SubSeq(path, 1, k)
  <2>1. SubSeq(path, 1, n) \in Seq(Labels) /\ Len(SubSeq(path, 1, n)) = n
    BY <1>2
  <2>2. /\ Len(of) = n + 1 /\ of[n + 1] = Blank
        /\ \A i \in 1..n : of[i] = SubSeq(path, 1, n)[i]
    BY <1>9, <2>1, CookieAssumption, AppendProperties
  <2>3. stem = SubSeq(of, 1, n)
    BY <1>4, <2>2 DEF Last
  <2>4. SubSeq(of, 1, n) = SubSeq(path, 1, n)
    <3>1. \A i \in 1..n : SubSeq(of, 1, n)[i] = SubSeq(path, 1, n)[i]
      BY <1>3, <2>2
    <3>2. SubSeq(of, 1, n) \in Seq(Labels) /\ Len(SubSeq(of, 1, n)) = n
      BY <1>3, <2>2
    <3> QED BY <2>1, <3>1, <3>2, SeqEqual
  <2> QED BY <2>3, <2>4
<1>10. ASSUME NEW n \in 1..(Len(path) - 1), of = SubSeq(path, 1, n)
       PROVE  \E k \in 0..(Len(path) - 1) : stem = SubSeq(path, 1, k)
  <2>1. CASE Last(of) # Blank
    BY <1>10, <2>1
  <2>2. CASE Last(of) = Blank
    <3>1. Len(of) = n /\ \A i \in 1..n : of[i] = path[i]
      BY <1>2, <1>10
    <3>2. stem = SubSeq(of, 1, n - 1) /\ n - 1 \in 0..(Len(path) - 1) /\ n - 1 \in 0..Len(of)
      BY <1>1, <1>4, <2>2, <3>1
    <3>3. SubSeq(of, 1, n - 1) = SubSeq(path, 1, n - 1)
      <4>1. \A i \in 1..(n - 1) : SubSeq(of, 1, n - 1)[i] = SubSeq(path, 1, n - 1)[i]
        BY <1>2, <1>3, <3>1, <3>2
      <4>2. /\ SubSeq(of, 1, n - 1) \in Seq(Labels) /\ Len(SubSeq(of, 1, n - 1)) = n - 1
            /\ SubSeq(path, 1, n - 1) \in Seq(Labels) /\ Len(SubSeq(path, 1, n - 1)) = n - 1
        BY <1>2, <1>3, <3>2
      <4> QED BY <4>1, <4>2, SeqEqual
    <3> QED BY <3>2, <3>3
  <2> QED BY <2>1, <2>2
<1>11. PathMatch(path, of) <=> path = of \/ \E n \in 0..(Len(path) - 1) : stem = SubSeq(path, 1, n)
  <2>1. PathMatch(path, of) <=> path = of \/ IsStrictPrefix(stem, path)
    BY DEF PathMatch
  <2> HIDE DEF stem
  <2> QED BY <1>6, <2>1
<1>12. of \in ends => \E n \in 0..(Len(path) - 1) : stem = SubSeq(path, 1, n)
  <2> SUFFICES ASSUME of \in ends PROVE \E n \in 0..(Len(path) - 1) : stem = SubSeq(path, 1, n)
    OBVIOUS
  <2>1. PICK n \in 1..(Len(path) - 1) : of \in {SubSeq(path, 1, n), Append(SubSeq(path, 1, n), Blank)}
    OBVIOUS
  <2> HIDE DEF stem, ends
  <2> QED BY <1>9, <1>10, <2>1
<1> HIDE DEF stem
<1> QED BY <1>7, <1>8, <1>11, <1>12

\* A host is under a domain if what is left of it without some of its labels is the domain.
LEMMA DomainMatches ==
  ASSUME NEW host \in Hosts, NEW domain \in Hosts
  PROVE  DomainMatch(host, domain) <=>
           \E rest \in 0..Len(host) : SubSeq(host, 1, Len(host) - rest) = domain
<1>1. host \in Seq(Labels) /\ domain \in Seq(Labels) /\ Len(host) \in Nat /\ Len(domain) \in Nat
  BY DEF Hosts
<1>2. ASSUME NEW n \in 0..Len(host) PROVE Len(SubSeq(host, 1, n)) = n
  BY <1>1, SubSeqProperties
<1>3. SubSeq(domain, 1, Len(domain)) = domain
  <2>1. /\ SubSeq(domain, 1, Len(domain)) \in Seq(Labels)
        /\ Len(SubSeq(domain, 1, Len(domain))) = Len(domain)
        /\ \A i \in 1..Len(domain) : SubSeq(domain, 1, Len(domain))[i] = domain[i]
    BY <1>1, SubSeqProperties
  <2> QED BY <1>1, <2>1, SeqEqual
<1>4. ASSUME DomainMatch(host, domain)
      PROVE  \E rest \in 0..Len(host) : SubSeq(host, 1, Len(host) - rest) = domain
  <2>1. Len(domain) <= Len(host) /\ domain = SubSeq(host, 1, Len(domain))
    BY <1>3, <1>4 DEF DomainMatch, IsPrefix
  <2>2. Len(host) - Len(domain) \in 0..Len(host) /\ Len(host) - (Len(host) - Len(domain)) = Len(domain)
    BY <1>1, <2>1
  <2> QED BY <2>1, <2>2
<1>5. ASSUME NEW rest \in 0..Len(host), SubSeq(host, 1, Len(host) - rest) = domain
      PROVE  DomainMatch(host, domain)
  <2>1. Len(host) - rest \in 0..Len(host)
    BY <1>1
  <2>2. Len(domain) = Len(host) - rest
    BY <1>2, <1>5, <2>1
  <2> QED BY <1>1, <1>3, <1>5, <2>1, <2>2 DEF DomainMatch, IsPrefix
<1> QED BY <1>4, <1>5

\* What the jar finds for a request is what is due to it.
LEMMA SelectsWhatIsDue ==
  ASSUME NEW s, NEW url \in Urls, Sound(s, FALSE)
  PROVE  {d.value : d \in SelectCookies(s.jar, url)} = Due(s.told, url)
<1> DEFINE Carried(c) == /\ c.secure => url.tls
                         /\ IF c.hostOnly THEN url.host = c.domain ELSE DomainMatch(url.host, c.domain)
                         /\ PathMatch(url.path, c.path)
           Owed(o) == /\ o.line.secure => url.tls
                      /\ o.line.domain = Unset => url.host = o.url.host
                      /\ o.line.domain # Unset => \E rest \in 0..Len(url.host) :
                           SubSeq(url.host, 1, Len(url.host) - rest) = o.line.domain
                      /\ EntryOf(o)[2] \in {url.path, RootPath} \cup
                           UNION {{SubSeq(url.path, 1, n), Append(SubSeq(url.path, 1, n), Blank)}
                                    : n \in 1..(Len(url.path) - 1)}
<1>1. url.host \in Hosts /\ url.path \in UrlPaths /\ url.tls \in BOOLEAN
  BY CookieAssumption DEF Places
<1>2. s.told \subseteq Orders /\ Agree(s)
  BY DEF Sound, States
<1>3. ASSUME NEW o \in Orders PROVE Carried(CookieOf(o)) <=> Owed(o)
  <2> DEFINE c == CookieOf(o)
  <2>1. /\ c.secure = o.line.secure /\ c.hostOnly = (o.line.domain = Unset)
        /\ c.domain = EntryOf(o)[1] /\ c.path = EntryOf(o)[2]
    BY DEF CookieOf
  <2>2. EntryOf(o)[1] = IF o.line.domain = Unset THEN o.url.host ELSE o.line.domain
    BY DEF EntryOf
  <2>3. c.path \in UrlPaths /\ c.domain \in Hosts
    BY CookieTypes DEF Cookies
  <2> HIDE DEF c
  <2>4. PathMatch(url.path, c.path) <=>
          EntryOf(o)[2] \in {url.path, RootPath} \cup
            UNION {{SubSeq(url.path, 1, n), Append(SubSeq(url.path, 1, n), Blank)}
                     : n \in 1..(Len(url.path) - 1)}
    BY <1>1, <2>1, <2>3, PathMatches
  <2>5. CASE o.line.domain = Unset
    <3>1. c.hostOnly /\ c.domain = o.url.host
      BY <2>1, <2>2, <2>5
    <3>2. Carried(c) <=> (c.secure => url.tls) /\ url.host = c.domain /\ PathMatch(url.path, c.path)
      BY <3>1
    <3> QED BY <2>1, <2>4, <2>5, <3>1, <3>2 DEF c
  <2>6. CASE o.line.domain # Unset
    <3>1. ~c.hostOnly /\ c.domain = o.line.domain
      BY <2>1, <2>2, <2>6
    <3>2. DomainMatch(url.host, c.domain) <=>
            \E rest \in 0..Len(url.host) : SubSeq(url.host, 1, Len(url.host) - rest) = o.line.domain
      BY <1>1, <2>3, <3>1, DomainMatches
    <3>3. Carried(c) <=> /\ c.secure => url.tls
                         /\ DomainMatch(url.host, c.domain) /\ PathMatch(url.path, c.path)
      BY <3>1
    <3> QED BY <2>1, <2>4, <2>6, <3>2, <3>3 DEF c
  <2> QED BY <2>5, <2>6
<1>4. \A o : CookieOf(o).value = o.line.value
  BY DEF CookieOf
<1>5. SelectCookies(s.jar, url) = {c \in PruneExpired(s.jar) : Carried(c)}
  BY DEF SelectCookies
<1>6. Due(s.told, url) = {o.line.value : o \in {o \in s.told : StillGood(o) /\ Owed(o)}}
  BY DEF Due
<1> HIDE DEF Carried, Owed
<1>7. PruneExpired(s.jar) = {CookieOf(o) : o \in {o \in s.told : StillGood(o)}}
  BY <1>2 DEF Agree
<1>8. ASSUME NEW c \in SelectCookies(s.jar, url) PROVE c.value \in Due(s.told, url)
  <2>1. PICK o \in s.told : StillGood(o) /\ c = CookieOf(o) /\ Carried(c)
    BY <1>5, <1>7, <1>8
  <2> QED BY <1>2, <1>3, <1>4, <1>6, <2>1
<1>9. ASSUME NEW o \in s.told, StillGood(o), Owed(o)
      PROVE  o.line.value \in {d.value : d \in SelectCookies(s.jar, url)}
  <2>1. CookieOf(o) \in SelectCookies(s.jar, url)
    BY <1>2, <1>3, <1>5, <1>7, <1>9
  <2> QED BY <1>4, <2>1
<1> QED BY <1>6, <1>8, <1>9

\* Every jar is sound, with what it was told, until a row goes astray.
Saves == [cookie : Cookies, of : Jars]
CookieInv ==
  /\ now \in 1..MaxTime /\ jarWrites \in 0..MaxJarWrites /\ strayed \in BOOLEAN
  /\ jar \in [Jars -> SUBSET Cookies] /\ told \in [Jars -> SUBSET Orders]
  /\ tab \in [selected : Jars, rows : SUBSET Cookies, of : Jars] /\ asked \subseteq Jars
  /\ saving = Unset \/ saving \in Saves
  /\ \A c \in Jars : Sound([jar |-> jar[c], told |-> told[c]], strayed)

LEMMA CookieInitInv == CookieInit => CookieInv
<1> SUFFICES ASSUME CookieInit PROVE CookieInv
  OBVIOUS
<1>1. now \in 1..MaxTime /\ jarWrites \in 0..MaxJarWrites
  BY CookieAssumption DEF CookieInit
<1>2. ASSUME NEW c \in Jars PROVE Sound([jar |-> jar[c], told |-> told[c]], strayed)
  <2> DEFINE z == [jar |-> {}, told |-> {}]
  <2>1. jar[c] = {} /\ told[c] = {}
    BY DEF CookieInit
  <2>2. z \in States /\ OneEach(z.jar) /\ Agree(z) /\ z.told = {}
    BY DEF States, OneEach, Agree, PruneExpired
  <2> QED BY <2>1, <2>2 DEF Sound
<1>3. tab \in [selected : Jars, rows : SUBSET Cookies, of : Jars] /\ asked \subseteq Jars
  BY DEF CookieInit
<1> QED BY <1>1, <1>2, <1>3 DEF CookieInv, CookieInit

\* When the clock goes on, a cookie expires as its order does.
LEMMA TimePassesInv == CookieInv /\ TimePasses => CookieInv'
<1> SUFFICES ASSUME CookieInv, TimePasses PROVE CookieInv'
  OBVIOUS
<1>1. now \in Int /\ now' = now + 1 /\ now' \in 1..MaxTime
  BY CookieAssumption DEF CookieInv, TimePasses
<1>2. UNCHANGED <<jar, told, tab, asked, saving, strayed, jarWrites>>
  BY DEF TimePasses
<1>3. ASSUME NEW c \in Jars PROVE Sound([jar |-> jar[c], told |-> told[c]], strayed)'
  <2> DEFINE s == [jar |-> jar[c], told |-> told[c]]
  <2>1. Sound(s, strayed) /\ s' = s
    BY <1>2 DEF CookieInv
  <2>2. \A o \in s.told : o.at \in Int /\ o.at <= now'
    BY <1>1, <2>1 DEF Sound, States, Orders
  <2>3. ASSUME ~strayed PROVE Agree(s)'
    <3>1. {e \in s.jar : ~Expired(e)} = {CookieOf(o) : o \in {o \in s.told : StillGood(o)}}
      BY <2>1, <2>3 DEF Sound, Agree, PruneExpired
    <3>2. \A e \in Cookies : Expired(e) => Expired(e)'
      <4>1. ASSUME NEW e \in Cookies, Expired(e) PROVE Expired(e)'
        <5>1. e.expires # Unset /\ e.expires <= now /\ e.expires \in Int
          BY <4>1 DEF Expired, Cookies, Expiries
        <5> QED BY <1>1, <5>1 DEF Expired
      <4> QED BY <4>1
    <3>3. ASSUME NEW o \in s.told
          PROVE  /\ StillGood(o) <=> ~Expired(CookieOf(o))
                 /\ StillGood(o)' <=> ~(Expired(CookieOf(o))')
                 /\ CookieOf(o) \in Cookies
      <4>1. o \in Orders /\ o.at <= now /\ o.at <= now' /\ now' \in Int
        BY <1>1, <2>1, <2>2 DEF Sound, States
      <4>2. StillGood(o) <=> ~Expired(CookieOf(o))
        BY <1>1, <4>1, GoodIsFresh DEF StillGood, Expired
      <4>3. StillGood(o)' <=> ~(Expired(CookieOf(o))')
        BY <4>1, GoodIsFresh DEF StillGood, Expired
      <4> QED BY <4>1, <4>2, <4>3, CookieTypes
    <3>4. s.jar \subseteq Cookies
      BY <2>1 DEF Sound, States
    <3>5. {e \in s.jar : ~(Expired(e)')} = {CookieOf(o) : o \in {o \in s.told : StillGood(o)'}}
      BY <3>1, <3>2, <3>3, <3>4
    <3> QED BY <2>1, <3>5 DEF Agree, PruneExpired
  <2> QED BY <1>2, <2>1, <2>2, <2>3 DEF Sound
<1> QED BY <1>1, <1>2, <1>3 DEF CookieInv

\* A step that gives one jar other cookies and one jar other orders, while no time passes.
LEMMA JarsStaySound ==
  ASSUME CookieInv, NEW c \in Jars, NEW d \in Jars, NEW u, NEW t,
         jar' = [jar EXCEPT ![c] = u], told' = [told EXCEPT ![d] = t],
         now' = now, strayed' = (strayed \/ c # d),
         c = d => Sound([jar |-> u, told |-> t], strayed),
         c # d => /\ Sound([jar |-> u, told |-> told[c]], TRUE)
                  /\ Sound([jar |-> jar[d], told |-> t], TRUE)
  PROVE  /\ jar' \in [Jars -> SUBSET Cookies] /\ told' \in [Jars -> SUBSET Orders]
         /\ \A e \in Jars : Sound([jar |-> jar[e], told |-> told[e]], strayed)'
<1>1. jar \in [Jars -> SUBSET Cookies] /\ told \in [Jars -> SUBSET Orders]
  BY DEF CookieInv
<1>2. u \subseteq Cookies /\ t \subseteq Orders /\ OneEach(u) /\ \A o \in t : o.at <= now
  BY DEF Sound, States
<1>3. jar' \in [Jars -> SUBSET Cookies] /\ told' \in [Jars -> SUBSET Orders]
  BY <1>1, <1>2
<1>4. ASSUME NEW e \in Jars PROVE Sound([jar |-> jar[e], told |-> told[e]], strayed)'
  <2> DEFINE z == [jar |-> jar'[e], told |-> told'[e]]
  <2>1. Sound([jar |-> jar[e], told |-> told[e]], strayed)
    BY DEF CookieInv
  <2>2. Sound(z, strayed')
    <3>1. CASE c = d
      <4>1. strayed' = strayed
        BY <3>1 DEF CookieInv
      <4>2. z = IF e = c THEN [jar |-> u, told |-> t] ELSE [jar |-> jar[e], told |-> told[e]]
        BY <1>1, <3>1
      <4> QED BY <2>1, <3>1, <4>1, <4>2
    <3>2. CASE c # d
      <4>1. strayed' = TRUE
        BY <3>2
      <4>2. z.jar = (IF e = c THEN u ELSE jar[e]) /\ z.told = IF e = d THEN t ELSE told[e]
        BY <1>1
      <4>3. jar[e] \subseteq Cookies /\ told[e] \subseteq Orders /\ OneEach(jar[e])
            /\ \A o \in told[e] : o.at <= now
        BY <2>1 DEF Sound, States
      <4>4. z \in States
        BY <1>3 DEF States
      <4> HIDE DEF z
      <4>5. OneEach(z.jar) /\ \A o \in z.told : o.at <= now
        BY <1>2, <4>2, <4>3
      <4> QED BY <4>1, <4>4, <4>5 DEF Sound
    <3> QED BY <3>1, <3>2
  <2>3. (\A q : Expired(q)' <=> Expired(q)) /\ (\A o : StillGood(o)' <=> StillGood(o))
    BY DEF Expired, StillGood
  <2>4. z.jar = jar'[e] /\ z.told = told'[e]
    OBVIOUS
  <2>5. {q \in jar'[e] : ~Expired(q)'} = {q \in z.jar : ~Expired(q)}
    BY <2>3, <2>4
  <2>6. {o \in told'[e] : StillGood(o)'} = {o \in z.told : StillGood(o)}
    BY <2>3, <2>4
  <2>7. ~strayed' => {q \in jar'[e] : ~Expired(q)'} =
                       {CookieOf(o) : o \in {o \in told'[e] : StillGood(o)'}}
    BY <2>2, <2>5, <2>6 DEF Sound, Agree, PruneExpired
  <2>8. /\ z \in States /\ OneEach(jar'[e]) /\ \A o \in told'[e] : o.at <= now'
    BY <2>2, <2>4 DEF Sound
  <2> QED BY <2>7, <2>8 DEF Sound, Agree, PruneExpired
<1> QED BY <1>3, <1>4

\* A response is captured.
LEMMA CaptureInv ==
  ASSUME CookieInv, NEW c \in Jars, NEW url \in Urls, NEW response \in Responses,
         CaptureCookies(c, url, response)
  PROVE  CookieInv'
<1> DEFINE s == [jar |-> PruneExpired(jar[c]), told |-> told[c]]
           z == Captured(s, url, response)
<1>1. url \in Places /\ response \in Seq(Lines) /\ now \in Int
  BY CookieAssumption DEF CookieInv
<1>2. Sound([jar |-> jar[c], told |-> told[c]], strayed)
  BY DEF CookieInv
<1>3. Sound(s, strayed)
  BY <1>2, PruneSound
<1>4. Sound(z, strayed)
  BY <1>1, <1>3, CapturedSound
<1>5. /\ jar' = [jar EXCEPT ![c] = z.jar] /\ told' = [told EXCEPT ![c] = z.told]
      /\ UNCHANGED <<now, tab, asked, saving, strayed>>
      /\ jarWrites < MaxJarWrites /\ jarWrites' = jarWrites + 1
  BY DEF CaptureCookies, JarWrite
<1> HIDE DEF z
<1>6. z = [jar |-> z.jar, told |-> z.told]
  BY <1>4 DEF Sound, States
<1>7. /\ jar' \in [Jars -> SUBSET Cookies] /\ told' \in [Jars -> SUBSET Orders]
      /\ \A e \in Jars : Sound([jar |-> jar[e], told |-> told[e]], strayed)'
  <2>1. Sound([jar |-> z.jar, told |-> z.told], strayed)
    BY <1>4, <1>6
  <2>2. strayed' = (strayed \/ c # c)
    BY <1>5 DEF CookieInv
  <2> QED BY <1>5, <2>1, <2>2, JarsStaySound
<1>8. jarWrites' \in 0..MaxJarWrites
  BY <1>5, CookieAssumption DEF CookieInv
<1> QED BY <1>5, <1>7, <1>8 DEF CookieInv

\* What the user asks for is an order for the cookie that is stored.
LEMMA AskedForTypes ==
  ASSUME NEW c \in Cookies, now \in Int
  PROVE  /\ AskedFor(c) \in Orders /\ AskedFor(c).at = now
         /\ CookieOf(AskedFor(c)) = c
<1> DEFINE line == [domain |-> IF c.hostOnly THEN Unset ELSE c.domain, path |-> c.path,
                    secure |-> c.secure, maxAge |-> Unset, expires |-> c.expires, value |-> c.value]
           url == [host |-> c.domain, path |-> c.path, tls |-> TRUE]
<1>1. /\ c.domain \in Hosts /\ c.path \in UrlPaths /\ c.hostOnly \in BOOLEAN /\ c.secure \in BOOLEAN
      /\ c.expires \in Int \cup {Unset} /\ c.value \in Values
      /\ c = [domain |-> c.domain, path |-> c.path, hostOnly |-> c.hostOnly,
              secure |-> c.secure, expires |-> c.expires, value |-> c.value]
  BY DEF Cookies, Expiries
<1>2. Unset \notin Hosts /\ Unset \notin UrlPaths
  BY CookieAssumption
<1>3. line \in Lines /\ url \in Places
  BY <1>1 DEF Lines, Places
<1>4. AskedFor(c) = [line |-> line, url |-> url, at |-> now]
  BY DEF AskedFor, Order
<1>5. AskedFor(c).line = line /\ AskedFor(c).url = url /\ AskedFor(c).at = now
  BY <1>4
<1>6. line.domain = Unset <=> c.hostOnly
  BY <1>1, <1>2
<1>7. EntryOf(AskedFor(c))[1] = c.domain /\ EntryOf(AskedFor(c))[2] = c.path
  <2>1. line.path = c.path /\ c.path # Unset /\ url.host = c.domain
    BY <1>1, <1>2
  <2>2. ~c.hostOnly => line.domain = c.domain
    OBVIOUS
  <2> HIDE DEF line, url
  <2> QED BY <1>5, <1>6, <2>1, <2>2 DEF EntryOf
<1>8. CookieOf(AskedFor(c)) = [domain |-> c.domain, path |-> c.path, hostOnly |-> c.hostOnly,
                               secure |-> c.secure, expires |-> c.expires, value |-> c.value]
  <2>1. /\ line.secure = c.secure /\ line.maxAge = Unset /\ line.expires = c.expires
        /\ line.value = c.value /\ (line.domain = Unset) = c.hostOnly
    BY <1>1, <1>6
  <2> HIDE DEF line, url
  <2> QED BY <1>5, <1>7, <2>1 DEF CookieOf
<1>9. AskedFor(c) \in Orders
  BY <1>3, <1>4 DEF Orders
<1> QED BY <1>1, <1>5, <1>8, <1>9

LEMMA StoreSound ==
  ASSUME CookieInv, NEW c \in Cookies, NEW of \in Jars, StoreCookie(c, of), now' = now
  PROVE  /\ jar' \in [Jars -> SUBSET Cookies] /\ told' \in [Jars -> SUBSET Orders]
         /\ strayed' \in BOOLEAN /\ asked' \subseteq Jars
         /\ \A e \in Jars : Sound([jar |-> jar[e], told |-> told[e]], strayed)'
<1> DEFINE sel == tab.selected
           o == AskedFor(c)
           J == Upsert(jar[sel], c)
           T == Ordered(told[of], o)
<1>1. sel \in Jars /\ now \in Int /\ strayed \in BOOLEAN /\ asked \subseteq Jars
  BY DEF CookieInv
<1>2. o \in Orders /\ o.at <= now /\ CookieOf(o) = c
  BY <1>1, AskedForTypes
<1> HIDE DEF sel, o
<1>3. ASSUME NEW e \in Jars, NEW astray, Sound([jar |-> jar[e], told |-> told[e]], astray)
      PROVE  Sound([jar |-> Upsert(jar[e], c), told |-> Ordered(told[e], o)], astray)
  <2> DEFINE s == [jar |-> jar[e], told |-> told[e]]
  <2>1. Sound([jar |-> Upsert(s.jar, CookieOf(o)), told |-> Ordered(s.told, o)], astray)
    BY <1>1, <1>2, <1>3, UpsertSound
  <2> QED BY <1>2, <2>1
<1>4. \A e \in Jars : /\ Sound([jar |-> jar[e], told |-> told[e]], strayed)
                      /\ Sound([jar |-> jar[e], told |-> told[e]], TRUE)
  BY DEF CookieInv, Sound
<1>5. sel = of => Sound([jar |-> J, told |-> T], strayed)
  BY <1>1, <1>3, <1>4
<1>6. /\ Sound([jar |-> J, told |-> told[sel]], TRUE)
      /\ Sound([jar |-> jar[of], told |-> T], TRUE)
  <2>1. /\ Sound([jar |-> Upsert(jar[sel], c), told |-> Ordered(told[sel], o)], TRUE)
        /\ Sound([jar |-> Upsert(jar[of], c), told |-> Ordered(told[of], o)], TRUE)
    BY <1>1, <1>3, <1>4
  <2> QED BY <1>1, <1>4, <2>1 DEF Sound, States
<1>7. /\ jar' = [jar EXCEPT ![sel] = J] /\ told' = [told EXCEPT ![of] = T]
      /\ strayed' = (strayed \/ sel # of) /\ asked' = asked \cup {sel}
  BY DEF StoreCookie, sel, o
<1> HIDE DEF J, T
<1>8. /\ jar' \in [Jars -> SUBSET Cookies] /\ told' \in [Jars -> SUBSET Orders]
      /\ \A e \in Jars : Sound([jar |-> jar[e], told |-> told[e]], strayed)'
  BY <1>1, <1>5, <1>6, <1>7, JarsStaySound
<1> QED BY <1>1, <1>7, <1>8

LEMMA ForgotSound ==
  ASSUME CookieInv, NEW c \in Cookies, NEW of \in Jars, ForgetCookie(c, of), now' = now
  PROVE  /\ jar' \in [Jars -> SUBSET Cookies] /\ told' \in [Jars -> SUBSET Orders]
         /\ strayed' \in BOOLEAN
         /\ \A e \in Jars : Sound([jar |-> jar[e], told |-> told[e]], strayed)'
<1> DEFINE sel == tab.selected
           J(e) == {d \in jar[e] : Identity(d) # Identity(c)}
           T(e) == {o \in told[e] : EntryOf(o) # Identity(c)}
<1>1. sel \in Jars /\ strayed \in BOOLEAN
  BY DEF CookieInv
<1> HIDE DEF sel
<1>2. ASSUME NEW e \in Jars, NEW astray, Sound([jar |-> jar[e], told |-> told[e]], astray)
      PROVE  Sound([jar |-> J(e), told |-> T(e)], astray)
  <2> DEFINE s == [jar |-> jar[e], told |-> told[e]]
  <2>1. Sound([jar  |-> {d \in s.jar : Identity(d) # Identity(c)},
               told |-> {o \in s.told : EntryOf(o) # Identity(c)}], astray)
    BY <1>2, ForgetSound
  <2> QED BY <2>1
<1>3. \A e \in Jars : /\ Sound([jar |-> jar[e], told |-> told[e]], strayed)
                      /\ Sound([jar |-> jar[e], told |-> told[e]], TRUE)
  BY DEF CookieInv, Sound
<1>4. sel = of => Sound([jar |-> J(sel), told |-> T(of)], strayed)
  BY <1>1, <1>2, <1>3
<1>5. /\ Sound([jar |-> J(sel), told |-> told[sel]], TRUE)
      /\ Sound([jar |-> jar[of], told |-> T(of)], TRUE)
  <2>1. /\ Sound([jar |-> J(sel), told |-> T(sel)], TRUE)
        /\ Sound([jar |-> J(of), told |-> T(of)], TRUE)
    BY <1>1, <1>2, <1>3
  <2> HIDE DEF J, T
  <2> QED BY <1>1, <1>3, <2>1 DEF Sound, States
<1>6. /\ jar' = [jar EXCEPT ![sel] = J(sel)] /\ told' = [told EXCEPT ![of] = T(of)]
      /\ strayed' = (strayed \/ sel # of)
  BY DEF ForgetCookie, sel
<1> HIDE DEF J, T
<1>7. /\ jar' \in [Jars -> SUBSET Cookies] /\ told' \in [Jars -> SUBSET Orders]
      /\ \A e \in Jars : Sound([jar |-> jar[e], told |-> told[e]], strayed)'
  BY <1>1, <1>4, <1>5, <1>6, JarsStaySound
<1> QED BY <1>1, <1>6, <1>7

LEMMA EditTypes ==
  ASSUME NEW c \in Cookies, NEW new \in Edits(c)
  PROVE  new \in Cookies
<1>1. RootPath \in UrlPaths
  <2>1. <<Blank>> \in Seq(Labels) /\ <<Blank>> # <<>>
    BY CookieAssumption
  <2> QED BY <2>1 DEF RootPath, UrlPaths
<1> QED BY <1>1, CookieAssumption DEF Edits, Cookies, Expiries

LEMMA NewCookieTypes ==
  ASSUME NEW url \in Urls PROVE NewCookie(url) \in Cookies
<1>1. RootPath \in UrlPaths
  <2>1. <<Blank>> \in Seq(Labels) /\ <<Blank>> # <<>>
    BY CookieAssumption
  <2> QED BY <2>1 DEF RootPath, UrlPaths
<1>2. url.host \in Hosts
  BY CookieAssumption DEF Places
<1> QED BY <1>1, <1>2, CookieAssumption DEF NewCookie, Cookies, Expiries

\* The list is asked for, comes or fails.
LEMMA ListsInvariant ==
  ASSUME CookieInv, NEW c \in Jars, SelectJar(c) \/ ListArrives(c) \/ ListFails(c) \/ Reload
  PROVE  CookieInv'
<1>1. CASE SelectJar(c) \/ ListFails(c) \/ Reload
  <2>1. /\ tab' \in [selected : Jars, rows : SUBSET Cookies, of : Jars] /\ asked' \subseteq Jars
        /\ UNCHANGED <<now, jar, told, saving, strayed, jarWrites>>
    BY <1>1 DEF CookieInv, SelectJar, ListFails, Reload
  <2>2. \A e \in Jars : Sound([jar |-> jar[e], told |-> told[e]], strayed)'
    BY <2>1 DEF CookieInv, Sound, Agree, PruneExpired, Expired, StillGood
  <2> QED BY <2>1, <2>2 DEF CookieInv
<1>2. CASE ListArrives(c)
  <2> DEFINE s == [jar |-> jar[c], told |-> told[c]]
             u == PruneExpired(jar[c])
  <2>1. /\ asked' = asked \ {c} /\ jar' = [jar EXCEPT ![c] = u]
        /\ tab' = IF tab.selected = c THEN [tab EXCEPT !.rows = jar'[c], !.of = c] ELSE tab
        /\ UNCHANGED <<now, told, saving, strayed, jarWrites>>
    BY <1>2 DEF ListArrives
  <2>2. Sound([jar |-> PruneExpired(s.jar), told |-> s.told], strayed)
    BY PruneSound DEF CookieInv
  <2>3. Sound([jar |-> u, told |-> told[c]], strayed)
    BY <2>2
  <2> HIDE DEF u
  <2>4. told' = [told EXCEPT ![c] = told[c]] /\ strayed' = (strayed \/ c # c)
    BY <2>1 DEF CookieInv
  <2>5. /\ jar' \in [Jars -> SUBSET Cookies] /\ told' \in [Jars -> SUBSET Orders]
        /\ \A e \in Jars : Sound([jar |-> jar[e], told |-> told[e]], strayed)'
    BY <2>1, <2>3, <2>4, JarsStaySound
  <2>6. tab' \in [selected : Jars, rows : SUBSET Cookies, of : Jars] /\ asked' \subseteq Jars
    BY <2>1, <2>5 DEF CookieInv
  <2> QED BY <2>1, <2>5, <2>6 DEF CookieInv
<1> QED BY <1>1, <1>2

\* The user edits.
LEMMA EditsInvariant ==
  ASSUME CookieInv,
         \/ \E c \in tab.rows : \E new \in Edits(c) : SaveMoved(c, new) \/ SaveInPlace(c, new)
         \/ \E c \in tab.rows : DeleteRow(c)
         \/ \E url \in Urls : AddCookie(NewCookie(url))
         \/ DeleteAnswered \/ StoreFails \/ ClearAll
  PROVE  CookieInv'
<1>1. /\ tab.rows \subseteq Cookies /\ tab.of \in Jars /\ tab.selected \in Jars
      /\ jarWrites \in 0..MaxJarWrites /\ asked \subseteq Jars
  BY DEF CookieInv
<1>2. JarWrite => jarWrites' \in 0..MaxJarWrites
  BY <1>1, CookieAssumption DEF JarWrite
<1>3. ASSUME NEW c \in tab.rows, NEW new \in Edits(c), SaveMoved(c, new) PROVE CookieInv'
  <2>1. c \in Cookies /\ new \in Cookies
    BY <1>1, EditTypes
  <2>2. ForgetCookie(c, tab.of) /\ saving' = [cookie |-> new, of |-> tab.of]
        /\ UNCHANGED <<now, tab, asked>> /\ JarWrite
    BY <1>3 DEF SaveMoved
  <2>3. /\ jar' \in [Jars -> SUBSET Cookies] /\ told' \in [Jars -> SUBSET Orders]
        /\ strayed' \in BOOLEAN
        /\ \A e \in Jars : Sound([jar |-> jar[e], told |-> told[e]], strayed)'
    BY <1>1, <2>1, <2>2, ForgotSound
  <2>4. saving' \in Saves
    BY <1>1, <2>1, <2>2 DEF Saves
  <2> QED BY <1>2, <2>2, <2>3, <2>4 DEF CookieInv
<1>4. ASSUME NEW c \in tab.rows, NEW new \in Edits(c), SaveInPlace(c, new) PROVE CookieInv'
  <2>1. new \in Cookies
    BY <1>1, EditTypes
  <2>2. StoreCookie(new, tab.of) /\ UNCHANGED <<now, tab, saving>> /\ JarWrite
    BY <1>4 DEF SaveInPlace
  <2>3. /\ jar' \in [Jars -> SUBSET Cookies] /\ told' \in [Jars -> SUBSET Orders]
        /\ strayed' \in BOOLEAN /\ asked' \subseteq Jars
        /\ \A e \in Jars : Sound([jar |-> jar[e], told |-> told[e]], strayed)'
    BY <1>1, <2>1, <2>2, StoreSound
  <2> QED BY <1>2, <2>2, <2>3 DEF CookieInv
<1>5. ASSUME NEW url \in Urls, AddCookie(NewCookie(url)) PROVE CookieInv'
  <2>1. StoreCookie(NewCookie(url), tab.selected) /\ UNCHANGED <<now, tab, saving>> /\ JarWrite
    BY <1>5 DEF AddCookie
  <2>2. NewCookie(url) \in Cookies
    BY NewCookieTypes
  <2>3. /\ jar' \in [Jars -> SUBSET Cookies] /\ told' \in [Jars -> SUBSET Orders]
        /\ strayed' \in BOOLEAN /\ asked' \subseteq Jars
        /\ \A e \in Jars : Sound([jar |-> jar[e], told |-> told[e]], strayed)'
    BY <1>1, <2>1, <2>2, StoreSound
  <2> QED BY <1>2, <2>1, <2>3 DEF CookieInv
<1>6. ASSUME NEW c \in tab.rows, DeleteRow(c) PROVE CookieInv'
  <2>1. ForgetCookie(c, tab.of) /\ asked' = asked \cup {tab.selected}
        /\ UNCHANGED <<now, tab, saving>> /\ JarWrite
    BY <1>6 DEF DeleteRow
  <2>2. /\ jar' \in [Jars -> SUBSET Cookies] /\ told' \in [Jars -> SUBSET Orders]
        /\ strayed' \in BOOLEAN
        /\ \A e \in Jars : Sound([jar |-> jar[e], told |-> told[e]], strayed)'
    BY <1>1, <2>1, ForgotSound
  <2> QED BY <1>1, <1>2, <2>1, <2>2 DEF CookieInv
<1>7. ASSUME DeleteAnswered PROVE CookieInv'
  <2>1. saving \in Saves
    BY <1>7 DEF DeleteAnswered, CookieInv
  <2>2. saving.cookie \in Cookies /\ saving.of \in Jars
    BY <2>1 DEF Saves
  <2>3. StoreCookie(saving.cookie, saving.of) /\ saving' = Unset /\ UNCHANGED <<now, tab, jarWrites>>
    BY <1>7 DEF DeleteAnswered
  <2>4. /\ jar' \in [Jars -> SUBSET Cookies] /\ told' \in [Jars -> SUBSET Orders]
        /\ strayed' \in BOOLEAN /\ asked' \subseteq Jars
        /\ \A e \in Jars : Sound([jar |-> jar[e], told |-> told[e]], strayed)'
    BY <2>2, <2>3, StoreSound
  <2> QED BY <2>3, <2>4 DEF CookieInv
<1>8. ASSUME StoreFails PROVE CookieInv'
  <2>1. saving' = Unset /\ UNCHANGED <<now, jar, told, tab, asked, strayed, jarWrites>>
    BY <1>8 DEF StoreFails
  <2>2. \A e \in Jars : Sound([jar |-> jar[e], told |-> told[e]], strayed)'
    BY <2>1 DEF CookieInv, Sound, Agree, PruneExpired, Expired, StillGood
  <2> QED BY <2>1, <2>2 DEF CookieInv
<1>9. ASSUME ClearAll PROVE CookieInv'
  <2> DEFINE c == tab.selected
             z == [jar |-> {}, told |-> {}]
  <2>1. /\ jar' = [jar EXCEPT ![c] = {}] /\ told' = [told EXCEPT ![c] = {}]
        /\ asked' = asked \cup {c} /\ UNCHANGED <<now, tab, saving, strayed>> /\ JarWrite
    BY <1>9 DEF ClearAll
  <2>2. z \in States /\ OneEach(z.jar) /\ Agree(z) /\ z.told = {}
    BY DEF States, OneEach, Agree, PruneExpired
  <2>3. Sound([jar |-> {}, told |-> {}], strayed)
    BY <2>2 DEF Sound
  <2>4. strayed' = (strayed \/ c # c)
    BY <2>1 DEF CookieInv
  <2>5. /\ jar' \in [Jars -> SUBSET Cookies] /\ told' \in [Jars -> SUBSET Orders]
        /\ \A e \in Jars : Sound([jar |-> jar[e], told |-> told[e]], strayed)'
    BY <1>1, <2>1, <2>3, <2>4, JarsStaySound
  <2> QED BY <1>1, <1>2, <2>1, <2>5 DEF CookieInv
<1> QED BY <1>3, <1>4, <1>5, <1>6, <1>7, <1>8, <1>9

LEMMA CookieInvStep == CookieInv /\ [CookieNext]_cookieVars => CookieInv'
<1> SUFFICES ASSUME CookieInv, [CookieNext]_cookieVars PROVE CookieInv'
  OBVIOUS
<1>1. CASE TimePasses
  BY <1>1, TimePassesInv
<1>2. CASE \E c \in Jars : SelectJar(c) \/ ListArrives(c) \/ ListFails(c)
  BY <1>2, ListsInvariant
<1>3. CASE \E c \in Jars, url \in Urls, response \in Responses : CaptureCookies(c, url, response)
  BY <1>3, CaptureInv
<1>4. CASE Reload
  <2>1. tab.selected \in Jars
    BY DEF CookieInv
  <2> QED BY <1>4, <2>1, ListsInvariant
<1>5. CASE \/ \E c \in tab.rows : \E new \in Edits(c) : SaveMoved(c, new) \/ SaveInPlace(c, new)
           \/ \E c \in tab.rows : DeleteRow(c)
           \/ \E url \in Urls : AddCookie(NewCookie(url))
           \/ DeleteAnswered \/ StoreFails \/ ClearAll
  BY <1>5, EditsInvariant
<1>6. CASE UNCHANGED cookieVars
  <2>1. UNCHANGED <<now, jar, told, tab, asked, saving, strayed, jarWrites>>
    BY <1>6 DEF cookieVars
  <2>2. \A e \in Jars : Sound([jar |-> jar[e], told |-> told[e]], strayed)'
    BY <2>1 DEF CookieInv, Sound, Agree, PruneExpired, Expired, StillGood
  <2> QED BY <2>1, <2>2 DEF CookieInv
<1> QED BY <1>1, <1>2, <1>3, <1>4, <1>5, <1>6 DEF CookieNext

\* Every reachable state of the jars and of their manager is well-typed, and a jar has one
\* entry for a name, domain and path (upsertCookie), for any URLs and responses.
THEOREM CookiesTypeCorrect == CookieSpec => []CookieTypeOK
<1>1. CookieInv => CookieTypeOK
  BY DEF CookieInv, CookieTypeOK, Sound, OneEach
<1> QED BY <1>1, CookieInitInv, CookieInvStep, PTL DEF CookieSpec

\* A request carries the cookies that were set last for it and no other, whatever responses,
\* of any number of lines, expiry, pruning and edits came before (selectCookies, upsertCookie,
\* pruneExpired, captureSetCookies), as long as no row was saved or deleted under another
\* collection than it is of.
THEOREM RequestsCarry == CookieSpec => []RequestsCarryWhatIsDue
<1>1. CookieInv => RequestsCarryWhatIsDue
  <2> SUFFICES ASSUME CookieInv, ~strayed, NEW c \in Jars, NEW url \in Urls
               PROVE  {d.value : d \in SelectCookies(jar[c], url)} = Due(told[c], url)
    BY DEF RequestsCarryWhatIsDue
  <2> DEFINE s == [jar |-> jar[c], told |-> told[c]]
  <2>1. Sound(s, FALSE)
    BY DEF CookieInv
  <2>2. {d.value : d \in SelectCookies(s.jar, url)} = Due(s.told, url)
    BY <2>1, SelectsWhatIsDue
  <2> QED BY <2>2
<1> QED BY <1>1, CookieInitInv, CookieInvStep, PTL DEF CookieSpec
=============================================================================

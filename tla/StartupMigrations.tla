------------------------- MODULE StartupMigrations -------------------------
(***************************************************************************)
(* The two migrations of stores.js that every launch runs: the environments*)
(* of the whole workspace are copied to each collection, then the          *)
(* collections' own variables are folded into their Global environments.   *)
(* Each migration is cut short by its first error, which is logged, and by *)
(* the death of the process, after which the next launch resumes.          *)
(*                                                                         *)
(* A write is one step (AtomicWrite).  Of an environments file the model   *)
(* keeps whether it has the old named environments, and the value of one   *)
(* Global variable that the collection may also have of its own.           *)
(***************************************************************************)
CONSTANTS
  Collections,     \* the collections the manifest lists
  Absent           \* no environments file, no collection

ASSUME MigrationAssumption ==
  /\ Absent \notin Collections
  /\ Absent \notin [named : BOOLEAN, value : {"none", "legacy", "collection", "edited"}]

VARIABLES
  stage,           \* down, seeding, folding, up
  left,            \* collections the migration has yet to visit
  at,              \* the collection folded but not cleared
  legacy,          \* environments/index.json is there
  environments,    \* environments.json of each collection
  own,             \* collections with variables of their own in metadata.json
  profile,         \* history: what the first launch found
  edited,          \* history: collections whose Global variable the user edited
  troubled         \* history: a read, write or move failed during a migration

migrationVars == <<stage, left, at, legacy, environments, own, profile, edited, troubled>>

Fresh == [named |-> FALSE, value |-> "none"]
Copied == [named |-> TRUE, value |-> "legacy"]
Files == [named : BOOLEAN, value : {"none", "legacy", "collection", "edited"}] \cup {Absent}

\* The file that is made where there was none.
FileOf(c) == IF environments[c] = Absent THEN Fresh ELSE environments[c]

\* An upgraded profile.  A collection made by a version that already scoped
\* environments has a file of its own.
MigrationInit ==
  /\ stage = "down" /\ left = {} /\ at = Absent /\ legacy \in BOOLEAN
  /\ environments \in [Collections -> {Absent, Fresh}]
  /\ own \in SUBSET Collections
  /\ profile = [legacy |-> legacy, environments |-> environments, own |-> own]
  /\ edited = {} /\ troubled = FALSE

Enter(next) == stage' = next /\ left' = Collections

\* The legacy file is read; without one there is nothing to seed.
StartUp(readable) ==
  /\ stage = "down"
  /\ Enter(IF legacy /\ readable THEN "seeding" ELSE "folding")
  /\ troubled' = (troubled \/ ~readable)
  /\ UNCHANGED <<at, legacy, environments, own, profile, edited>>

\* Variant: every collection is given a copy, whatever it has.
Variant_SeedOverwrites(c) ==
  /\ stage = "seeding" /\ c \in left
  /\ left' = left \ {c}
  /\ environments' = [environments EXCEPT ![c] = Copied]
  /\ UNCHANGED <<stage, at, legacy, own, profile, edited, troubled>>

\* A collection that has an environments.json is taken for seeded.
Seed(c) ==
  /\ stage = "seeding" /\ c \in left
  /\ left' = left \ {c}
  /\ environments' = [environments EXCEPT ![c] = IF @ = Absent THEN Copied ELSE @]
  /\ UNCHANGED <<stage, at, legacy, own, profile, edited, troubled>>

\* Variant: the trigger is retired before the copies are made.
Variant_RetireFirst ==
  /\ stage = "seeding" /\ legacy
  /\ legacy' = FALSE
  /\ UNCHANGED <<stage, left, at, environments, own, profile, edited, troubled>>

\* Every collection is seeded: the legacy file is moved out of the way.
Retire ==
  /\ stage = "seeding" /\ left = {}
  /\ legacy' = FALSE /\ Enter("folding")
  /\ UNCHANGED <<at, environments, own, profile, edited, troubled>>

\* A write or the move throws; the second migration runs all the same.
SeedingFails ==
  /\ stage = "seeding"
  /\ Enter("folding") /\ troubled' = TRUE
  /\ UNCHANGED <<at, legacy, environments, own, profile, edited>>

\* A collection with variables of its own: they win over the Global ones...
Fold(c) ==
  /\ stage = "folding" /\ at = Absent /\ c \in left \cap own
  /\ environments' = [environments EXCEPT ![c] = [FileOf(c) EXCEPT !.value = "collection"]]
  /\ at' = c /\ left' = left \ {c}
  /\ UNCHANGED <<stage, legacy, own, profile, edited, troubled>>

\* Variant: the collection is cleared before its variables are folded.
Variant_ClearFirst ==
  /\ stage = "folding" /\ at = Absent /\ left \cap own # {}
  /\ own' = own \ {CHOOSE c \in left \cap own : TRUE}
  /\ UNCHANGED <<stage, left, at, legacy, environments, profile, edited, troubled>>

\* ... and leave its metadata.
ClearOwn ==
  /\ stage = "folding" /\ at # Absent
  /\ own' = own \ {at} /\ at' = Absent
  /\ UNCHANGED <<stage, left, legacy, environments, profile, edited, troubled>>

FoldingFails ==
  /\ stage = "folding" /\ (left \cap own # {} \/ at # Absent)
  /\ stage' = "up" /\ at' = Absent /\ troubled' = TRUE
  /\ UNCHANGED <<left, legacy, environments, own, profile, edited>>

Started ==
  /\ stage = "folding" /\ at = Absent /\ left \cap own = {}
  /\ stage' = "up"
  /\ UNCHANGED <<left, at, legacy, environments, own, profile, edited, troubled>>

\* The user edits the variable in the environment editor.
EditVariable(c) ==
  /\ stage = "up"
  /\ environments' = [environments EXCEPT ![c] = [FileOf(c) EXCEPT !.value = "edited"]]
  /\ edited' = edited \cup {c}
  /\ UNCHANGED <<stage, left, at, legacy, own, profile, troubled>>

\* The program is quit, or dies at any point of its start.
GoDown ==
  /\ stage # "down"
  /\ stage' = "down" /\ left' = {} /\ at' = Absent
  /\ UNCHANGED <<legacy, environments, own, profile, edited, troubled>>

MigrationNext ==
  \/ \E readable \in BOOLEAN : StartUp(readable)
  \/ \E c \in Collections : Seed(c) \/ Fold(c) \/ EditVariable(c)
  \/ Retire \/ SeedingFails \/ ClearOwn \/ FoldingFails \/ Started \/ GoDown

MigrationSpec == MigrationInit /\ [][MigrationNext]_migrationVars

-----------------------------------------------------------------------------
(* Properties *)

\* The type invariant of the start-up.
MigrationTypeOK ==
  /\ stage \in {"down", "seeding", "folding", "up"} /\ left \subseteq Collections
  /\ at \in Collections \cup {Absent} /\ legacy \in BOOLEAN
  /\ environments \in [Collections -> Files] /\ own \subseteq Collections
  /\ profile \in [legacy : BOOLEAN, environments : [Collections -> Files],
                  own : SUBSET Collections]
  /\ edited \subseteq Collections /\ troubled \in BOOLEAN

\* Once the workspace's environments are retired, every collection that had
\* none of its own has a copy: "a partial run resumes safely" (stores.js 163-164).
LegacyReachesEveryCollection ==
  profile.legacy /\ ~legacy => \A c \in Collections :
    profile.environments[c] = Absent => environments[c] # Absent /\ environments[c].named

\* A launch undoes nothing the user edited.
EditsStay == \A c \in edited : environments[c].value = "edited"

\* Both, wherever the process dies, as long as no read, write or move fails.
CrashesAreHarmless == troubled \/ (LegacyReachesEveryCollection /\ EditsStay)

\* Whatever fails or dies, a collection's own variable is in its metadata
\* until it is in its Global environment, where it wins over the legacy one.
OwnVariablesAreKept ==
  \A c \in profile.own \ own : environments[c] # Absent
                               /\ environments[c].value \in {"collection", "edited"}

\* A launch loses no variables: neither the workspace's nor a collection's own.
LaunchesLoseNothing == CrashesAreHarmless /\ OwnVariablesAreKept
=============================================================================

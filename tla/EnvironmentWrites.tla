------------------------- MODULE EnvironmentWrites -------------------------
(***************************************************************************)
(* The environments of the active collection in the window (app.js,        *)
(* currentEnvironments): captures and scripts write variables while        *)
(* answers come in, the variables editor saves what it shows, and the      *)
(* window switches between collections in several awaited steps.           *)
(*                                                                         *)
(* Calls to the main process are served in the order they were made.  A    *)
(* document is the collection whose file it was first, and its variables.  *)
(***************************************************************************)
EXTENDS Naturals, Sequences

CONSTANTS
  Places,        \* collections
  MaxWrites,     \* bound on the variables written, numbered
  MaxVisits,     \* bound on the switches of collection
  MaxCalls,      \* bound on the calls under way
  Elsewhere      \* no collection

ASSUME EnvironmentAssumption ==
  /\ MaxWrites \in Nat /\ MaxVisits \in Nat /\ MaxCalls \in Nat
  /\ Elsewhere \notin Places

Visits == 1..MaxVisits

VARIABLES
  place,         \* currentColls.activeCollectionId
  held,          \* currentEnvironments
  shelf,         \* environments.json of each collection
  calls,         \* calls on their way to the main process
  visits,        \* every activateCollection: where to, what it awaits
  draft,         \* the variables the editor shows; closed or open
  written,       \* variables written so far
  crossed        \* history: a document was written between the two steps of a
                 \* switch, or two switches overlapped

envVars == <<place, held, shelf, calls, visits, draft, written, crossed>>

Document == [of : Places, variables : SUBSET (1..MaxWrites)]
Closed == [open |-> FALSE, variables |-> {}]

EnvInit ==
  /\ place \in Places
  /\ shelf = [c \in Places |-> [of |-> c, variables |-> {}]]
  /\ held = shelf[place] /\ calls = <<>>
  /\ visits = [v \in Visits |-> [to |-> Elsewhere, step |-> "unused"]]
  /\ draft = Closed /\ written = 0 /\ crossed = FALSE

\* Between setActiveCollection and the answer of loadEnvironments.
Halfway == \E v \in Visits : visits[v].step \in {"active", "loading"}

-----------------------------------------------------------------------------
(* Writing *)

\* Variant: the document is saved before it is merged.
Variant_WriteTooEarly(variables) ==
  /\ Len(calls) < MaxCalls
  /\ held' = [held EXCEPT !.variables = variables]
  /\ calls' = Append(calls, [kind |-> "save", at |-> place, document |-> held])

\* handleEnvVarsSave, handleEnvironmentsChanged: memory first, then the file of
\* the active collection.
Write(variables) ==
  /\ Len(calls) < MaxCalls
  /\ held' = [held EXCEPT !.variables = variables]
  /\ calls' = Append(calls, [kind |-> "save", at |-> place, document |-> held'])

SaveEnvironments(variables) == Write(variables) /\ crossed' = (crossed \/ Halfway)

\* persistVariableWrites: an answer or a script writes a variable.  An open
\* editor keeps what it shows.
Capture ==
  /\ written < MaxWrites /\ written' = written + 1
  /\ SaveEnvironments(held.variables \cup {written'})
  /\ UNCHANGED <<place, shelf, visits, draft>>

OpenEditor ==
  /\ ~draft.open
  /\ draft' = [open |-> TRUE, variables |-> held.variables]
  /\ UNCHANGED <<place, held, shelf, calls, visits, written, crossed>>

EditDraft ==
  /\ draft.open /\ written < MaxWrites /\ written' = written + 1
  /\ draft' = [draft EXCEPT !.variables = @ \cup {written'}]
  /\ UNCHANGED <<place, held, shelf, calls, visits, crossed>>

\* The debounce after an edit, or the flush as the editor closes: all it shows
\* is saved, edited or not.
SaveDraft(closing) ==
  /\ draft.open
  /\ SaveEnvironments(draft.variables)
  /\ draft' = IF closing THEN Closed ELSE draft
  /\ UNCHANGED <<place, shelf, visits, written>>

-----------------------------------------------------------------------------
(* Switching: flush and save the old collection, then ... *)

\* The next unused visit.
Departs(c, step) ==
  \E v \in Visits :
    /\ visits[v].step = "unused" /\ \A u \in 1..(v - 1) : visits[u].step # "unused"
    /\ visits' = [visits EXCEPT ![v] = [to |-> c, step |-> step]]

Travelling == \E v \in Visits : visits[v].step \in {"flushing", "active", "loading"}

\* Variant: the new collection is active before the old one is flushed.
Variant_BeginVisitActive(c) ==
  /\ c # place /\ Departs(c, "active") /\ place' = c
  /\ IF draft.open
     THEN /\ held' = [held EXCEPT !.variables = draft.variables]
          /\ calls' = Append(calls, [kind |-> "save", at |-> c, document |-> held'])
     ELSE UNCHANGED <<held, calls>>
  /\ crossed' = (crossed \/ Travelling)
  /\ UNCHANGED <<shelf, draft, written>>

\* From the list of the editor (which saves what it shows) or from elsewhere.
BeginVisit(c) ==
  /\ c # place /\ Departs(c, "flushing")
  /\ IF draft.open THEN Write(draft.variables) ELSE UNCHANGED <<held, calls>>
  /\ crossed' = (crossed \/ Travelling)
  /\ UNCHANGED <<place, shelf, draft, written>>

\* ... make the new one active, save the manifest and load its tree; ...
SetActive(v) ==
  /\ visits[v].step = "flushing"
  /\ visits' = [visits EXCEPT ![v].step = "active"] /\ place' = visits[v].to
  /\ UNCHANGED <<held, shelf, calls, draft, written, crossed>>

\* ... ask for its environments; ...
AskEnvironments(v) ==
  /\ visits[v].step = "active"
  /\ visits' = [visits EXCEPT ![v].step = "loading"]
  /\ calls' = Append(calls, [kind |-> "load", visit |-> v])
  /\ UNCHANGED <<place, held, shelf, draft, written, crossed>>

\* The main process serves a call; ... an answered load ends the switch, and an
\* editor that is open follows the new collection.
ServeCall ==
  /\ calls # <<>> /\ calls' = Tail(calls)
  /\ LET call == Head(calls) IN
     IF call.kind = "save"
     THEN /\ shelf' = [shelf EXCEPT ![call.at] = call.document]
          /\ UNCHANGED <<held, visits, draft>>
     ELSE /\ visits' = [visits EXCEPT ![call.visit].step = "over"]
          /\ held' = shelf[visits[call.visit].to]
          /\ draft' = IF draft.open THEN [draft EXCEPT !.variables = held'.variables] ELSE draft
          /\ UNCHANGED shelf
  /\ UNCHANGED <<place, written, crossed>>

EnvNext ==
  \/ Capture \/ OpenEditor \/ EditDraft \/ SaveDraft(TRUE) \/ SaveDraft(FALSE)
  \/ \E c \in Places : BeginVisit(c)
  \/ \E v \in Visits : SetActive(v) \/ AskEnvironments(v)
  \/ ServeCall

EnvSpec == EnvInit /\ [][EnvNext]_envVars

-----------------------------------------------------------------------------
(* Properties *)

\* The type invariant.
EnvTypeOK ==
  /\ place \in Places /\ held \in Document /\ shelf \in [Places -> Document]
  /\ visits \in [Visits -> [to : Places \cup {Elsewhere},
                            step : {"unused", "flushing", "active", "loading", "over"}]]
  /\ draft \in [open : BOOLEAN, variables : SUBSET (1..MaxWrites)]
  /\ written \in 0..MaxWrites /\ crossed \in BOOLEAN

\* "Environments are per collection" (app.js 2335): no collection's file is
\* given the environments of another.
EnvironmentsStayHome == \A c \in Places : shelf[c].of = c

\* Whatever was written when, once every call is served the window holds what
\* is on disk: no save is lost, and none is undone by an earlier one.
EnvironmentsReachTheDisk == calls = <<>> /\ ~Halfway => held = shelf[place]

\* Both, as long as nothing is written halfway through a switch and no two
\* switches overlap.
UncrossedEnvironmentsAgree ==
  crossed \/ (EnvironmentsStayHome /\ EnvironmentsReachTheDisk)
=============================================================================

---------------------------- MODULE AtomicWrite ----------------------------
(***************************************************************************)
(* io.js atomicWrite on one file: write a temp file, flush it, rename it   *)
(* over the target, flush the directory; and the sweep for temp files at   *)
(* startup.  Any call may throw, the process may die between two calls,    *)
(* and the power may go: then what was not flushed may or may not be there *)
(* and an unflushed file may hold anything.                                *)
(***************************************************************************)
CONSTANTS
  Documents,     \* what the file can hold
  Missing,       \* no file, and no write
  Torn           \* a file that is empty or cut short

ASSUME WriteAssumption ==
  Missing \notin Documents /\ Torn \notin Documents /\ Torn # Missing

VARIABLES
  call,          \* idle, or what atomicWrite did last; down: no process
  draft,         \* the document being written
  temp,          \* the temp file of the write
  flushed,       \* its bytes were flushed
  target,        \* the file
  recall,        \* what a power loss may leave in its place
  litter         \* temp files of earlier processes

writeVars == <<call, draft, temp, flushed, target, recall, litter>>

Contents == Documents \cup {Missing, Torn}

WriteInit ==
  /\ call = "idle" /\ draft = Missing /\ temp = Missing /\ flushed = FALSE
  /\ target = Missing /\ recall = {Missing} /\ litter = {}

\* The counter in a temp file's name starts over with the process, so the new
\* one may take the place of one that was left.
OpenTemp(d, over) ==
  /\ call = "idle" /\ call' = "open"
  /\ draft' = d /\ temp' = Torn /\ flushed' = FALSE
  /\ litter' = litter \ over
  /\ UNCHANGED <<target, recall>>

WriteTemp ==
  /\ call = "open" /\ call' = "written" /\ temp' = draft
  /\ UNCHANGED <<draft, flushed, target, recall, litter>>

\* Variant: the bytes are left in the page cache.
Variant_FlushNothing ==
  /\ call = "written" /\ call' = "flushed"
  /\ UNCHANGED <<draft, temp, flushed, target, recall, litter>>

FlushTemp ==
  /\ call = "written" /\ call' = "flushed" /\ flushed' = TRUE
  /\ UNCHANGED <<draft, temp, target, recall, litter>>

\* What can be left of a file after a power loss.
Remains(bytes, wereFlushed) == IF wereFlushed THEN {bytes} ELSE {bytes, Torn}

RenameTemp ==
  /\ call = "flushed" /\ call' = "renamed"
  /\ target' = temp /\ temp' = Missing
  /\ recall' = recall \cup Remains(temp, flushed)
  /\ UNCHANGED <<draft, flushed, litter>>

\* fsyncDir makes the rename last, where the platform has it.
Close(synced) ==
  /\ call = "renamed" /\ call' = "idle" /\ draft' = Missing
  /\ recall' = IF synced THEN Remains(target, flushed) ELSE recall
  /\ flushed' = FALSE
  /\ UNCHANGED <<temp, target, litter>>

\* A call throws: the temp file goes, if it can be removed, and the error is
\* passed on.
WriteThrows(removed) ==
  /\ call \in {"open", "written", "flushed"} /\ call' = "idle"
  /\ draft' = Missing /\ temp' = Missing /\ flushed' = FALSE
  /\ litter' = IF removed THEN litter ELSE litter \cup {temp}
  /\ UNCHANGED <<target, recall>>

\* Nothing cleans up.
Stopped(remnants) ==
  /\ call' = "down" /\ draft' = Missing /\ temp' = Missing /\ flushed' = FALSE
  /\ litter' = litter \cup (remnants \ {Missing})

ProcessDies ==
  /\ call # "down"
  /\ Stopped({temp})
  /\ UNCHANGED <<target, recall>>

PowerFails ==
  /\ call # "down"
  /\ \E remnants \in SUBSET Remains(temp, flushed) : Stopped(remnants)
  /\ target' \in recall /\ recall' = {target'}

\* Variant: whatever is next to the file is taken for litter.
Variant_LaunchSweepsAll(old) ==
  /\ call = "down" /\ call' = "idle"
  /\ litter' = {} /\ target' = Missing /\ recall' = {Missing}
  /\ UNCHANGED <<draft, temp, flushed>>

\* gcOrphanTempFiles: what is old enough and looks like a temp file goes.
Launch(old) ==
  /\ call = "down" /\ call' = "idle"
  /\ litter' = litter \ old
  /\ UNCHANGED <<draft, temp, flushed, target, recall>>

WriteNext ==
  \/ \E d \in Documents, over \in SUBSET litter : OpenTemp(d, over)
  \/ WriteTemp \/ FlushTemp \/ RenameTemp
  \/ \E outcome \in BOOLEAN : Close(outcome) \/ WriteThrows(outcome)
  \/ ProcessDies \/ PowerFails
  \/ \E old \in SUBSET litter : Launch(old)

WriteSpec == WriteInit /\ [][WriteNext]_writeVars

-----------------------------------------------------------------------------
(* Properties *)

\* The type invariant, and what is known of a write at each of its steps.
WriteTypeOK ==
  /\ call \in {"idle", "open", "written", "flushed", "renamed", "down"}
  /\ draft \in Documents \cup {Missing} /\ temp \in Contents
  /\ flushed \in BOOLEAN /\ target \in Contents
  /\ recall \subseteq Contents /\ litter \subseteq Contents

\* "without these a crash or power-loss shortly after the rename can leave a
\* zero-length or truncated file" (io.js 127-131): with them none can, now or
\* after the next power loss, so readJSON never quarantines one of the program's
\* own documents.
NeverTorn == target # Torn /\ Torn \notin recall

\* The file as the stores see it.
Durable == INSTANCE DurableFile WITH content <- target

\* Temp file, flushes and rename together implement one durable document.
FileIsDurable == Durable!Spec
=============================================================================

---------------------------- MODULE DurableFile ----------------------------
(***************************************************************************)
(* What a store may expect of one document it writes with io.js: a reader  *)
(* gets a whole document or none, a write that failed changed nothing, and *)
(* what a crash brings back is a document that was there.  AtomicWrite is  *)
(* shown to implement this; the modules of the stores take a write as one  *)
(* such step.                                                              *)
(***************************************************************************)
CONSTANTS
  Documents,   \* what the file can hold
  Missing      \* no file, and no write

VARIABLES
  content,     \* what a reader gets
  recall,      \* what a reader may get after a crash or a power loss
  draft        \* the document being written

durableVars == <<content, recall, draft>>

Init == content = Missing /\ recall = {Missing} /\ draft = Missing

Begin(d) ==
  /\ draft = Missing /\ draft' = d
  /\ UNCHANGED <<content, recall>>

\* The document appears as a whole; until the write returns, a power loss may
\* take it back.
Appear ==
  /\ draft # Missing /\ content' = draft
  /\ recall' = recall \cup {draft} /\ UNCHANGED draft

\* A write that returns is there for good if the platform lets a directory be
\* flushed.
Return(flushed) ==
  /\ draft # Missing /\ content = draft
  /\ draft' = Missing
  /\ recall' = IF flushed THEN {content} ELSE recall
  /\ UNCHANGED content

Fail ==
  /\ draft # Missing /\ draft' = Missing
  /\ UNCHANGED <<content, recall>>

\* The process dies, or the power goes.
Interrupt ==
  /\ draft' = Missing
  /\ \/ UNCHANGED <<content, recall>>
     \/ content' \in recall /\ recall' = {content'}

Next ==
  \/ \E d \in Documents : Begin(d)
  \/ \E flushed \in BOOLEAN : Return(flushed)
  \/ Appear \/ Fail \/ Interrupt

Spec == Init /\ [][Next]_durableVars
=============================================================================

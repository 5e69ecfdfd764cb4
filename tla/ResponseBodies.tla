--------------------------- MODULE ResponseBodies ---------------------------
(***************************************************************************)
(* Response bodies in the main process (http-engine.js): a body is kept in *)
(* memory until it crosses a threshold, then on disk; a live stream is     *)
(* mirrored to disk from its first byte.  A finished file is registered    *)
(* under a reference the window can redeem; the registry is bounded and    *)
(* evicts the oldest.                                                      *)
(*                                                                         *)
(* Bytes are chunks numbered from 1.  The disk may fill up: a mirror whose *)
(* write failed is never drained, so a source that was paused for it stays *)
(* paused.                                                                 *)
(***************************************************************************)
EXTENDS Naturals, Sequences, FiniteSets, SequencesExt

CONSTANTS
  Bodies,       \* responses
  MaxChunks,    \* bound on the chunks of a response
  Threshold,    \* RESPONSE_SPILL_THRESHOLD, in chunks
  MaxKept       \* SPILL_REGISTRY_MAX

ASSUME BodiesAssumption ==
  /\ MaxChunks \in Nat /\ Threshold \in Nat /\ MaxKept \in Nat \ {0}

VARIABLES
  body,         \* each response being received
  disk,         \* the spill files that exist
  kept,         \* spilledBodies, oldest first
  registered,   \* history: bodies that were registered, in this order
  reading       \* http:body:get and http:body:save between their awaits

bodyVars == <<body, disk, kept, registered, reading>>

\* `mem` are the chunks held in memory, `file` those written to the spill
\* file; `spill` is open, broken (its stream reported an error) or none, and
\* `threw` says that opening it threw.
NoBody == [state |-> "idle", live |-> FALSE, total |-> 0, mem |-> {}, file |-> {},
           spill |-> "none", threw |-> FALSE, paused |-> FALSE, answer |-> "none",
           shown |-> {}]

Receiving(b) == body[b].state = "receiving"
Set(b, r) == body' = [body EXCEPT ![b] = r]

BodiesInit ==
  /\ body = [b \in Bodies |-> NoBody]
  /\ disk = {} /\ kept = <<>> /\ registered = <<>> /\ reading = [b \in Bodies |-> "no"]

\* The response head of a body that will be buffered.
BufferedHead(b) ==
  /\ body[b].state = "idle"
  /\ Set(b, [NoBody EXCEPT !.state = "receiving"])
  /\ UNCHANGED <<disk, kept, registered, reading>>

\* The response head of a live stream opens its mirror; when that throws the
\* stream goes on without one.
StreamHead(b, opens) ==
  /\ body[b].state = "idle"
  /\ Set(b, [NoBody EXCEPT !.state = "receiving", !.live = TRUE,
                           !.spill = IF opens THEN "open" ELSE "none",
                           !.threw = ~opens])
  /\ disk' = IF opens THEN disk \cup {b} ELSE disk
  /\ UNCHANGED <<kept, registered, reading>>

-----------------------------------------------------------------------------
(* Chunks *)

Chunk(b) == body[b].total + 1
More(b) == Receiving(b) /\ ~body[b].paused /\ body[b].total < MaxChunks

\* A chunk that stays in memory, or passes by a stream without a mirror.
MemoryChunk(b) ==
  /\ More(b)
  /\ \/ ~body[b].live /\ body[b].spill = "none" /\ Chunk(b) <= Threshold
     \/ body[b].live /\ body[b].spill # "open"
  /\ Set(b, [body[b] EXCEPT !.total = Chunk(b),
                            !.mem = IF body[b].live THEN @ ELSE @ \cup {Chunk(b)}])
  /\ UNCHANGED <<disk, kept, registered, reading>>

\* The chunk that crosses the threshold opens the file and moves what memory
\* holds there; when that throws, memory is let go all the same.
Spill(b, opens) ==
  LET r == body[b] IN
  /\ More(b) /\ ~r.live /\ r.spill = "none" /\ Chunk(b) > Threshold
  /\ Set(b, [r EXCEPT !.total = Chunk(b), !.mem = {},
                      !.spill = IF opens THEN "open" ELSE @,
                      !.threw = @ \/ ~opens,
                      !.file = IF opens THEN r.mem \cup {Chunk(b)} ELSE @])
  /\ disk' = IF opens THEN disk \cup {b} ELSE disk
  /\ UNCHANGED <<kept, registered, reading>>

\* A chunk for the file.  A buffered body writes to a broken file too, and is
\* paused for a drain that never comes.
FileChunk(b) ==
  LET r == body[b] IN
  /\ More(b)
  /\ r.spill = "open" \/ (r.spill = "broken" /\ ~r.live)
  /\ Set(b, [r EXCEPT !.total = Chunk(b),
                      !.file = IF r.spill = "open" THEN @ \cup {Chunk(b)} ELSE @,
                      !.paused = r.spill = "broken"])
  /\ UNCHANGED <<disk, kept, registered, reading>>

\* A write to the file fails, possibly while the source waits for its drain.
SpillFails(b, waiting) ==
  /\ Receiving(b) /\ body[b].spill = "open"
  /\ Set(b, [body[b] EXCEPT !.spill = "broken", !.paused = waiting,
                            !.file = @ \ {body[b].total}])
  /\ UNCHANGED <<disk, kept, registered, reading>>

-----------------------------------------------------------------------------
(* The end of a body *)

\* Variant: the newest goes instead of the oldest.
Variant_RegisterEvictsNewest(b) ==
  /\ registered' = Append(registered, b)
  /\ IF Len(kept) < MaxKept
     THEN kept' = Append(kept, b) /\ UNCHANGED disk
     ELSE kept' = Append(Front(kept), b) /\ disk' = disk \ {Last(kept)}

\* registerSpilledBody: beyond the limit the oldest goes, with its file.
Register(b) ==
  /\ registered' = Append(registered, b)
  /\ IF Len(kept) < MaxKept
     THEN kept' = Append(kept, b) /\ UNCHANGED disk
     ELSE kept' = Append(Tail(kept), b) /\ disk' = disk \ {kept[1]}

Finished(b, answer, shown) ==
  Set(b, [NoBody EXCEPT !.state = "done", !.live = body[b].live, !.total = body[b].total,
                        !.threw = body[b].threw, !.answer = answer, !.shown = shown])

\* A body that stayed in memory is answered whole.
MemoryEnd(b) ==
  /\ Receiving(b) /\ ~body[b].paused /\ ~body[b].live /\ body[b].spill = "none"
  /\ Finished(b, "whole", body[b].mem)
  /\ UNCHANGED <<disk, kept, registered, reading>>

\* Variant: an error of the file is not looked at when it ends.
Variant_FileEndIgnoresErrors(b) ==
  /\ Receiving(b) /\ ~body[b].paused /\ ~body[b].live /\ body[b].spill # "none"
  /\ Register(b) /\ Finished(b, "ref", body[b].file)
  /\ UNCHANGED reading

\* A spilled body is answered with a preview and a reference to the rest, or,
\* when the file failed, with the preview and an error.  An error of opening
\* it sticks even when a later attempt succeeded.
FileEnd(b) ==
  /\ Receiving(b) /\ ~body[b].paused /\ ~body[b].live /\ body[b].spill # "none"
  /\ IF body[b].spill = "broken" \/ body[b].threw
     THEN /\ disk' = disk \ {b} /\ UNCHANGED <<kept, registered>>
          /\ Finished(b, "error", {})
     ELSE Register(b) /\ Finished(b, "ref", body[b].file)
  /\ UNCHANGED reading

\* Variant: the file of an aborted body is left behind.
Variant_BreakLeavesFile(b) ==
  /\ Receiving(b) /\ ~body[b].live
  /\ Finished(b, "error", {})
  /\ UNCHANGED <<disk, kept, registered, reading>>

\* The connection breaks, idles out (a paused source does) or is stopped: a
\* buffered body is given up together with its file.
BodyBreaks(b) ==
  /\ Receiving(b) /\ ~body[b].live
  /\ disk' = IF body[b].spill = "none" THEN disk ELSE disk \ {b}
  /\ Finished(b, "error", {})
  /\ UNCHANGED <<kept, registered, reading>>

\* finalize: a stream ends by itself, with an error, or because it is
\* stopped; what was mirrored without an error can be redeemed.
StreamOver(b, stopped) ==
  LET r == body[b] IN
  /\ Receiving(b) /\ r.live /\ (stopped \/ ~r.paused)
  /\ IF r.spill = "open" /\ r.total > 0
     THEN Register(b) /\ Finished(b, "ref", r.file)
     ELSE /\ disk' = disk \ {b} /\ UNCHANGED <<kept, registered>>
          /\ Finished(b, "streamed", {})
  /\ UNCHANGED reading

-----------------------------------------------------------------------------
(* Redeeming a reference *)

\* The handler looks the reference up, then awaits the disk or a dialog.
Ask(b) ==
  /\ body[b].state = "done" /\ body[b].answer = "ref" /\ reading[b] = "no"
  /\ reading' = [reading EXCEPT ![b] = IF Contains(kept, b) THEN "asked" ELSE "gone"]
  /\ UNCHANGED <<body, disk, kept, registered>>

\* By then the file may have been evicted: a read error, not another body.
Redeem(b) ==
  /\ reading[b] = "asked"
  /\ reading' = [reading EXCEPT ![b] = IF b \in disk THEN "read" ELSE "failed"]
  /\ UNCHANGED <<body, disk, kept, registered>>

BodiesNext ==
  \E b \in Bodies :
    \/ BufferedHead(b) \/ MemoryChunk(b) \/ FileChunk(b) \/ MemoryEnd(b) \/ FileEnd(b)
    \/ BodyBreaks(b) \/ Ask(b) \/ Redeem(b)
    \/ \E flag \in BOOLEAN :
         StreamHead(b, flag) \/ Spill(b, flag) \/ SpillFails(b, flag) \/ StreamOver(b, flag)

BodiesSpec == BodiesInit /\ [][BodiesNext]_bodyVars

-----------------------------------------------------------------------------
(* Properties *)

\* The type invariant: what is held, written and shown of a body are chunks of it.
BodiesTypeOK ==
  /\ \A b \in Bodies :
       /\ body[b].state \in {"idle", "receiving", "done"}
       /\ body[b].spill \in {"none", "open", "broken"}
       /\ body[b].answer \in {"none", "whole", "ref", "error", "streamed"}
       /\ body[b].total \in 0..MaxChunks
       /\ body[b].mem \cup body[b].file \cup body[b].shown \subseteq 1..body[b].total
       /\ {body[b].live, body[b].threw, body[b].paused} \subseteq BOOLEAN
  /\ disk \subseteq Bodies /\ ToSet(kept) \subseteq ToSet(registered)
  /\ registered \in Seq(Bodies)
  /\ reading \in [Bodies -> {"no", "asked", "gone", "read", "failed"}]

\* Every spill file on disk is being written or can be redeemed, and every
\* reference has its file: no path through errors, stops and evictions leaks
\* a file or registers one that is gone.
SpillFilesAccounted ==
  disk = ToSet(kept) \cup {b \in Bodies : Receiving(b) /\ body[b].spill # "none"}

\* What is presented as complete is complete: a body in memory or behind a
\* reference has all its chunks (http-engine.js 1549), as long as opening the
\* file did not throw (then memory is let go and the rest of the body with it).
CompleteMeansComplete ==
  \A b \in Bodies :
    body[b].answer \in {"whole", "ref"} /\ ~body[b].threw => body[b].shown = 1..body[b].total

\* The registry never exceeds its limit, and evicts only the oldest (http-engine.js
\* 243-253): of a body that was asked for and is not there MaxKept others were
\* registered after it.
RecentBodiesCanBeRead ==
  /\ Len(kept) <= MaxKept
  /\ \A b \in Bodies : reading[b] \in {"gone", "failed"} =>
       \E i \in DOMAIN registered :
         registered[i] = b /\ Len(registered) - i >= MaxKept

\* Every spill file has an owner, every body that claims to be whole is, and
\* what the registry still owes can be read.
BodiesAreAccounted ==
  SpillFilesAccounted /\ CompleteMeansComplete /\ RecentBodiesCanBeRead
=============================================================================

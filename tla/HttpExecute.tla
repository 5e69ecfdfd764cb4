---------------------------- MODULE HttpExecute ----------------------------
(***************************************************************************)
(* What one call of http:execute promises the window that made it: one     *)
(* reply, and after a stop no further work.  HttpChain is shown to keep    *)
(* this promise; RequestSend takes it as the main process.                 *)
(***************************************************************************)
CONSTANT NoReply

VARIABLES
  phase,   \* idle, running, live (a stream is pushed to the window), over
  stopped, \* a stop reached the execution while it ran
  reply    \* what the call was answered with

executeVars == <<phase, stopped, reply>>

Replies == {"response", "failure", "marker"}

Init == phase = "idle" /\ stopped = FALSE /\ reply = NoReply

Begin ==
  /\ phase = "idle"
  /\ phase' = "running" /\ UNCHANGED <<stopped, reply>>

Stop ==
  /\ phase = "running" /\ ~stopped
  /\ stopped' = TRUE /\ UNCHANGED <<phase, reply>>

\* A response of any status, or a failure in place of one.  A stopped
\* execution may still have been about to answer.
Answer ==
  /\ phase = "running"
  /\ phase' = "over"
  /\ reply' \in {"response", "failure"}
  /\ UNCHANGED stopped

\* A stream is announced once and never after a stop.
GoLive ==
  /\ phase = "running" /\ ~stopped
  /\ phase' = "live" /\ reply' = "marker" /\ UNCHANGED stopped

StreamOver ==
  /\ phase = "live"
  /\ phase' = "over" /\ UNCHANGED <<stopped, reply>>

Next == Begin \/ Stop \/ Answer \/ GoLive \/ StreamOver

\* A running execution comes to a reply; a stream may go on for ever.
Spec == Init /\ [][Next]_executeVars /\ WF_executeVars(Answer \/ GoLive)
=============================================================================

----------------------------- MODULE DeviceCode -----------------------------
(***************************************************************************)
(* The device authorization grant (flows/device-code.js): a code is shown  *)
(* in a popup (popup/device-code-prompt.js) while the token endpoint is    *)
(* polled until the user approved, refused, cancelled, or the code expired.*)
(* The popup shares its place, and whoever closes it, with every other     *)
(* popup of the window (popup-manager.js).                                 *)
(*                                                                         *)
(* Time is counted in units of the poll interval the server asked for.     *)
(***************************************************************************)
EXTENDS Naturals

CONSTANTS
  Lifetime,      \* expires_in
  Horizon        \* bound on the clock, beyond the last deadline

ASSUME DeviceAssumption == Lifetime \in Nat /\ Horizon \in Nat /\ Horizon > Lifetime

VARIABLES
  flow,          \* idle, asking, opening, sleeping, polling, over
  clock,
  due,           \* when the sleep ends
  interval,      \* intervalMs
  deadline,
  cancelled,
  handle,        \* the prompt's closed flag: none, open, closed
  popup,         \* PopupManager's active popup: none, prompt, another
  ousted,        \* history: resized away, or replaced by another popup
  verdict        \* how the flow ended

deviceVars == <<flow, clock, due, interval, deadline, cancelled, handle, popup, ousted, verdict>>
timeVars == <<clock, due, interval, deadline>>
promptVars == <<handle, popup, ousted>>

DeviceInit ==
  /\ flow = "idle" /\ clock = 0 /\ due = 0 /\ interval = 1 /\ deadline = 0
  /\ cancelled = FALSE /\ handle = "none" /\ popup = "none" /\ ousted = FALSE
  /\ verdict = "none"

\* Timers never fire early; beyond the horizon time stands still.
Until(n) == IF clock + n > Horizon THEN Horizon ELSE clock + n

Tick ==
  /\ clock < Horizon /\ clock' = clock + 1
  /\ UNCHANGED <<flow, due, interval, deadline, cancelled, promptVars, verdict>>

\* The finally block: the handle closes whatever popup is open, once.
Conclude(result) ==
  /\ flow' = "over" /\ verdict' = result
  /\ IF handle = "open" THEN handle' = "closed" /\ popup' = "none"
     ELSE UNCHANGED <<handle, popup>>
  /\ UNCHANGED ousted

-----------------------------------------------------------------------------
(* The flow *)

AskForCode ==
  /\ flow = "idle" /\ flow' = "asking"
  /\ UNCHANGED <<timeVars, cancelled, promptVars, verdict>>

\* No answer, an error, or no codes in it.
NoCode ==
  /\ flow = "asking" /\ flow' = "over" /\ verdict' = "failed"
  /\ UNCHANGED <<timeVars, cancelled, promptVars>>

\* The deadline counts from here; the popup's module is loaded first.
CodeArrives ==
  /\ flow = "asking" /\ flow' = "opening"
  /\ deadline' = Until(Lifetime)
  /\ UNCHANGED <<clock, due, interval, cancelled, promptVars, verdict>>

\* The prompt takes the place of any popup that is open.
PromptOpens ==
  /\ flow = "opening" /\ flow' = "sleeping"
  /\ handle' = "open" /\ popup' = "prompt" /\ due' = Until(interval)
  /\ UNCHANGED <<clock, interval, deadline, cancelled, ousted, verdict>>

\* Variant: only the server's word ends a code.
Variant_WakeIgnoresDeadline ==
  /\ flow = "sleeping" /\ clock >= due
  /\ IF cancelled THEN Conclude("cancelled")
     ELSE flow' = "polling" /\ UNCHANGED <<promptVars, verdict>>
  /\ UNCHANGED <<timeVars, cancelled>>

WakeToPoll ==
  /\ flow = "sleeping" /\ clock >= due
  /\ IF cancelled THEN Conclude("cancelled")
     ELSE IF clock >= deadline THEN Conclude("expired")
     ELSE flow' = "polling" /\ UNCHANGED <<promptVars, verdict>>
  /\ UNCHANGED <<timeVars, cancelled>>

\* authorization_pending, or slow_down, which adds to the interval.
KeepWaiting(slower) ==
  /\ flow = "polling" /\ flow' = "sleeping"
  /\ interval' = IF slower /\ interval < Horizon THEN interval + 1 ELSE interval
  /\ due' = Until(interval')
  /\ UNCHANGED <<clock, deadline, cancelled, promptVars, verdict>>

\* A token, a refusal, or no answer.  A token that was on its way when the user
\* cancelled is used.
PollEnds(result) ==
  /\ flow = "polling"
  /\ Conclude(result)
  /\ UNCHANGED <<timeVars, cancelled>>

-----------------------------------------------------------------------------
(* The window *)

\* Variant: the mask closes the popup behind the flow's back.
Variant_DismissSilently ==
  /\ popup = "prompt" /\ handle = "open"
  /\ handle' = "closed" /\ popup' = "none"
  /\ UNCHANGED <<flow, timeVars, cancelled, ousted, verdict>>

\* Cancel, the close button, or a click beside the prompt.
Dismiss ==
  /\ popup = "prompt" /\ handle = "open"
  /\ handle' = "closed" /\ popup' = "none" /\ cancelled' = TRUE
  /\ UNCHANGED <<flow, timeVars, ousted, verdict>>

\* A resized window closes its popup; the prompt does not hear of it.
Resize ==
  /\ popup # "none" /\ popup' = "none"
  /\ ousted' = (ousted \/ popup = "prompt")
  /\ UNCHANGED <<flow, timeVars, cancelled, handle, verdict>>

\* Another popup is opened in the prompt's place.
OpenAnother ==
  /\ popup # "another" /\ popup' = "another"
  /\ ousted' = (ousted \/ popup = "prompt")
  /\ UNCHANGED <<flow, timeVars, cancelled, handle, verdict>>

CloseAnother ==
  /\ popup = "another" /\ popup' = "none"
  /\ UNCHANGED <<flow, timeVars, cancelled, handle, ousted, verdict>>

PollIsAnswered ==
  \/ \E slower \in BOOLEAN : KeepWaiting(slower)
  \/ \E result \in {"token", "failed"} : PollEnds(result)

DeviceNext ==
  \/ Tick
  \/ AskForCode \/ NoCode \/ CodeArrives \/ PromptOpens \/ WakeToPoll \/ PollIsAnswered
  \/ Dismiss \/ Resize \/ OpenAnother \/ CloseAnother

\* Time passes, requests have a time-out; the server may say "pending" for ever.
DeviceFairness ==
  /\ WF_deviceVars(flow # "idle" /\ Tick)
  /\ WF_deviceVars(NoCode \/ CodeArrives) /\ WF_deviceVars(PromptOpens) /\ WF_deviceVars(WakeToPoll)
  /\ WF_deviceVars(PollIsAnswered)

DeviceSpec == DeviceInit /\ [][DeviceNext]_deviceVars /\ DeviceFairness

-----------------------------------------------------------------------------
(* Properties *)

\* The type invariant.
DeviceTypeOK ==
  /\ flow \in {"idle", "asking", "opening", "sleeping", "polling", "over"}
  /\ {clock, due, deadline} \subseteq 0..Horizon /\ interval \in Nat
  /\ {cancelled, ousted} \subseteq BOOLEAN
  /\ handle \in {"none", "open", "closed"} /\ popup \in {"none", "prompt", "another"}
  /\ verdict \in {"none", "token", "cancelled", "expired", "failed"}

\* However long the user and the server take, and whatever becomes of the
\* prompt, the flow ends: nobody polls for ever (device-code.js 29-32).
DeviceFlowEnds == flow # "idle" ~> flow = "over"

\* While the code is polled for, its prompt is on screen, unless the user
\* dismissed it, which stops the polling, or the window took it away.
PolledCodeIsShown ==
  flow \in {"sleeping", "polling"} => popup = "prompt" \/ cancelled \/ ousted
=============================================================================

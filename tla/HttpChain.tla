----------------------------- MODULE HttpChain -----------------------------
(***************************************************************************)
(* One execution in the HTTP engine (http-engine.js): the chain of legs a  *)
(* request takes through redirects and authentication challenges, repeated *)
(* from its first leg by the retry policy, until there is a response, a    *)
(* failure, or a stream that is pushed live.                               *)
(*                                                                         *)
(* A leg is one request on the wire.  What it carries matters (whose       *)
(* credentials, whether a body), what is in it does not.                   *)
(***************************************************************************)
EXTENDS Naturals

CONSTANTS
  Origins, Home,     \* servers, and the one the user's URL names
  Methods,           \* methods tried, of {"GET", "PUT", "POST"}
  Auths,             \* none; user: one of the four CREDENTIAL_HEADERS; custom: a
                     \* header of any other name; signed; digest; ntlm
  MaxRedirects,      \* desc.maxRedirects
  MaxAttempts,       \* policy.maxAttempts, 1 without a policy
  RetryUnsafe        \* policy.retryNonIdempotent

ASSUME ChainAssumption ==
  /\ Home \in Origins
  /\ Methods \subseteq {"GET", "PUT", "POST"}
  /\ Auths \subseteq {"none", "user", "custom", "signed", "digest", "ntlm"}
  /\ MaxRedirects \in Nat /\ MaxAttempts \in Nat \ {0}
  /\ RetryUnsafe \in BOOLEAN

VARIABLES
  pc,           \* idle, head (a leg awaits its response), body, sleep, live, over
  desc,         \* the descriptor: method, authentication, is there a body
  leg,          \* the leg under way
  attempt,      \* attempts begun
  aborted,      \* _handle.aborted
  reply,        \* the result of http:execute
  shown,        \* history: what each origin was sent
  lost          \* history: methods sent to a server whose answer never came

chainVars == <<pc, desc, leg, attempt, aborted, reply, shown, lost>>

Descriptors == [method : Methods \cup {"GET"}, auth : Auths \cup {"none"}, body : BOOLEAN]
Legs == [origin : Origins, method : Methods \cup {"GET"}, body : BOOLEAN,
         header : {"none", "user", "custom", "digest", "type1", "type3"},
         signed : BOOLEAN, digest : BOOLEAN, answered : BOOLEAN,
         ntlm : {"off", "negotiate", "authorized"}, hops : 0..MaxRedirects]

\* The first leg: NTLM opens with a negotiate message instead of the user's
\* header, and sends no body until the challenge is answered.
FirstLeg(d) ==
  [origin |-> Home, method |-> d.method, body |-> d.body,
   header |-> CASE d.auth \in {"user", "custom"} -> d.auth
                [] d.auth = "ntlm" -> "type1"
                [] OTHER -> "none",
   signed |-> d.auth = "signed", digest |-> d.auth = "digest",
   answered |-> FALSE,
   ntlm |-> IF d.auth = "ntlm" THEN "negotiate" ELSE "off", hops |-> 0]

\* What the server of a leg gets to see.
Carried(l) ==
  (IF l.header = "none" THEN {} ELSE {l.header})
    \cup (IF l.signed THEN {"signed"} ELSE {})
    \cup (IF l.body /\ l.ntlm # "negotiate" THEN {"body"} ELSE {})

Idempotent(m) == m # "POST"

\* Variant: any failure is worth another attempt.
Variant_RetryAnything(kind) == kind # "refused"

\* retryReason: what a policy with every condition switched on retries.  A
\* header Node refuses fails the same way every time; any other failure without
\* a response counts as one of the network.
RetryReason(kind) ==
  CASE kind = "refused"    -> FALSE
    [] kind = "network"    -> RetryUnsafe \/ Idempotent(desc.method)
    [] kind = "serverBusy" -> TRUE
    [] OTHER               -> FALSE

-----------------------------------------------------------------------------
(* The result of an attempt, and the next leg *)

\* Variant: a stop is forgotten between two attempts.
Variant_EndAttemptForgetsStop(kind, result) ==
  IF attempt < MaxAttempts /\ RetryReason(kind)
  THEN pc' = "sleep" /\ aborted' = FALSE /\ UNCHANGED reply
  ELSE pc' = "over" /\ reply' = result /\ UNCHANGED aborted

\* executeWithRetries after doRequest resolved.
EndAttempt(kind, result) ==
  /\ IF ~aborted /\ attempt < MaxAttempts /\ RetryReason(kind)
     THEN pc' = "sleep" /\ UNCHANGED reply
     ELSE pc' = "over" /\ reply' = result
  /\ UNCHANGED aborted

\* Variant: the leg after a stop is opened like any other.
Variant_LaunchAnyway(l) ==
  /\ leg' = l /\ UNCHANGED aborted
  /\ pc' = "head" /\ UNCHANGED <<reply, lost>>
  /\ shown' = shown \cup {[origin |-> l.origin, what |-> c] : c \in Carried(l)}

\* A leg is opened and its socket exposed to Stop; after a stop it is torn
\* down before anything is written.
Launch(l) ==
  /\ leg' = l /\ UNCHANGED aborted
  /\ IF aborted
     THEN pc' = "over" /\ reply' = "failure" /\ UNCHANGED <<shown, lost>>
     ELSE /\ pc' = "head" /\ UNCHANGED <<reply, lost>>
          /\ shown' = shown \cup {[origin |-> l.origin, what |-> c] : c \in Carried(l)}

\* Before the call the descriptor is any fixed one.
ChainInit ==
  /\ pc = "idle"
  /\ desc = [method |-> "GET", auth |-> "none", body |-> FALSE]
  /\ leg = FirstLeg(desc) /\ attempt = 0
  /\ aborted = FALSE /\ reply = "none" /\ shown = {} /\ lost = {}

Execute(d) ==
  /\ pc = "idle"
  /\ desc' = d /\ attempt' = 1 /\ Launch(FirstLeg(d))

\* The delay before the next attempt is over; a stop that came meanwhile is
\* met by the leg this opens.
WakeUp ==
  /\ pc = "sleep"
  /\ attempt' = attempt + 1 /\ Launch(FirstLeg(desc)) /\ UNCHANGED desc

\* The leg cannot be built: a header Node refuses ("refused"); a file of the
\* body that cannot be read, a redirect to something that is no URL ("network").
BuildFails(kind) ==
  /\ pc = "head" /\ ~aborted
  /\ EndAttempt(kind, "failure")
  /\ UNCHANGED <<desc, leg, attempt, shown, lost>>

-----------------------------------------------------------------------------
(* The response head *)

AtHead == pc = "head" /\ ~aborted

\* Variant: the signing descriptors survive a change of origin.
Variant_RedirectedKeepsSigner(code, origin) ==
  LET crossing == origin # leg.origin
      m == IF code = 303 \/ (code = 301 /\ leg.method = "POST") THEN "GET" ELSE leg.method
  IN [leg EXCEPT !.origin = origin, !.method = m, !.hops = @ + 1,
                 !.header = IF crossing /\ @ # "custom" THEN "none" ELSE @,
                 !.body = @ /\ m # "GET" /\ ~crossing]

\* The leg a redirect asks for: 303, and a POST's 301 or 302, turn into a
\* GET; another origin gets none of the four credential headers, no signature
\* and no body, but any header of another name.  301 stands for 302, 307 for 308.
Redirected(code, origin) ==
  LET crossing == origin # leg.origin
      m == IF code = 303 \/ (code = 301 /\ leg.method = "POST") THEN "GET" ELSE leg.method
  IN [leg EXCEPT !.origin = origin, !.method = m, !.hops = @ + 1,
                 !.header = IF crossing /\ @ # "custom" THEN "none" ELSE @,
                 !.signed = @ /\ ~crossing, !.digest = @ /\ ~crossing,
                 !.body = @ /\ m # "GET" /\ ~crossing]

\* Variant: nobody counts the hops.
Variant_RedirectForEver(code, origin) ==
  /\ AtHead /\ Launch(Redirected(code, origin))
  /\ UNCHANGED <<desc, attempt>>

Redirect(code, origin) ==
  /\ AtHead /\ leg.hops < MaxRedirects
  /\ Launch(Redirected(code, origin))
  /\ UNCHANGED <<desc, attempt>>

\* No Location, or one redirect too many: the 3xx itself is the response.
RedirectStops ==
  /\ AtHead
  /\ EndAttempt("status", "response")
  /\ UNCHANGED <<desc, leg, attempt, shown, lost>>

\* A satisfiable Digest challenge is answered once.
DigestChallenge ==
  /\ AtHead /\ leg.digest /\ ~leg.answered
  /\ Launch([leg EXCEPT !.answered = TRUE, !.header = "digest"])
  /\ UNCHANGED <<desc, attempt>>

\* The challenge of an NTLM server is answered on the socket it came on.
NtlmChallenge ==
  /\ AtHead /\ leg.ntlm = "negotiate"
  /\ Launch([leg EXCEPT !.ntlm = "authorized", !.header = "type3"])
  /\ UNCHANGED <<desc, attempt>>

\* Any other response is read to its end.
BodyBegins ==
  /\ AtHead
  /\ pc' = "body"
  /\ UNCHANGED <<desc, leg, attempt, aborted, reply, shown, lost>>

\* Variant: a stopped request may still go live.
Variant_StreamBeginsAnyway ==
  /\ pc = "head"
  /\ pc' = "live" /\ reply' = "marker"
  /\ UNCHANGED <<desc, leg, attempt, aborted, shown, lost>>

\* A 2xx event stream: the call is answered with a marker, the events follow.
\* The retry policy names no 2xx status.
StreamBegins ==
  /\ AtHead
  /\ pc' = "live" /\ reply' = "marker"
  /\ UNCHANGED <<desc, leg, attempt, aborted, shown, lost>>

-----------------------------------------------------------------------------
(* Bodies, failures, stops *)

\* The end of a body may already be on its way when the stop comes.
BodyEnds(kind) ==
  /\ pc = "body"
  /\ EndAttempt(kind, "response")
  /\ UNCHANGED <<desc, leg, attempt, shown, lost>>

\* A body that cannot be decoded: the status is known, the rest is an error.
BodyBreaks ==
  /\ pc = "body"
  /\ EndAttempt("status", "response")
  /\ UNCHANGED <<desc, leg, attempt, shown, lost>>

\* The connection fails, or nothing arrives for `timeout`.
ConnectionFails ==
  /\ pc \in {"head", "body"} /\ ~aborted
  /\ lost' = lost \cup {leg.method}
  /\ EndAttempt("network", "failure")
  /\ UNCHANGED <<desc, leg, attempt, shown>>

\* http:abort reaches the handle: the open socket, if any, is destroyed.
Abort ==
  /\ pc \in {"head", "body", "sleep"} /\ ~aborted
  /\ aborted' = TRUE
  /\ UNCHANGED <<pc, desc, leg, attempt, reply, shown, lost>>

\* The destroyed socket reports its error.
AbortedLegFails ==
  /\ pc \in {"head", "body"} /\ aborted
  /\ EndAttempt("network", "failure")
  /\ UNCHANGED <<desc, leg, attempt, shown, lost>>

\* The stream ends, breaks, is stopped, or loses its window.
LiveStreamEnds ==
  /\ pc = "live"
  /\ pc' = "over"
  /\ UNCHANGED <<desc, leg, attempt, aborted, reply, shown, lost>>

ChainNext ==
  \/ \E d \in Descriptors : Execute(d)
  \/ WakeUp
  \/ \E kind \in {"refused", "network"} : BuildFails(kind)
  \/ \E code \in {301, 303, 307}, origin \in Origins : Redirect(code, origin)
  \/ RedirectStops \/ DigestChallenge \/ NtlmChallenge
  \/ BodyBegins \/ StreamBegins
  \/ \E kind \in {"status", "serverBusy"} : BodyEnds(kind)
  \/ BodyBreaks \/ ConnectionFails \/ Abort \/ AbortedLegFails \/ LiveStreamEnds

\* The idle time-out bounds the wait for a response head, a timer the wait
\* between attempts; a body is taken to end, as a server that trickles one
\* for ever is never idle.
ChainFairness ==
  /\ WF_chainVars(pc = "head" /\ ConnectionFails)
  /\ WF_chainVars(BodyEnds("status"))
  /\ WF_chainVars(AbortedLegFails)
  /\ WF_chainVars(WakeUp)

ChainSpec == ChainInit /\ [][ChainNext]_chainVars /\ ChainFairness

-----------------------------------------------------------------------------
(* Properties *)

\* The type invariant of doRequest's and executeWithRetries' locals.
ChainTypeOK ==
  /\ pc \in {"idle", "head", "body", "sleep", "live", "over"}
  /\ desc \in Descriptors /\ leg \in Legs /\ attempt \in 0..MaxAttempts
  /\ aborted \in BOOLEAN /\ reply \in {"none", "response", "failure", "marker"}
  /\ shown \subseteq [origin : Origins,
       what : {"user", "custom", "digest", "type1", "type3", "signed", "body"}]
  /\ lost \subseteq Methods \cup {"GET"}

\* However redirects, challenges and retries are strung together, no server
\* but the one the user named is sent one of the four credential headers
\* (Authorization, Proxy-Authorization, Cookie, Set-Cookie) as the user set it, a
\* signature, a Digest answer or the body (http-engine.js 101-106, 965-1000).  Two
\* things are not covered, as the code lets them go: a header of any other name
\* ("custom") is sent along, and an NTLM challenge is answered on a redirected leg.
CredentialsStayHome ==
  \A s \in shown : s.origin # Home => s.what \in {"custom", "type3"}

\* Without the opt-in a POST whose answer was lost is never sent again
\* (retry.js 37-44): the leg under way is not a POST once one was lost.
LostPostIsNotRepeated ==
  ~RetryUnsafe /\ "POST" \in lost /\ pc \in {"head", "body", "live"} => leg.method # "POST"

\* Stop means stop (http-engine.js 1793): once it reached the engine it is not
\* forgotten between attempts, no server is shown anything new, and no leg is
\* written to a socket, in this attempt or a later one.
StopMeansStop ==
  [][aborted => /\ aborted' /\ shown' = shown
                /\ pc' = "head" => pc = "head" /\ leg' = leg]_chainVars

\* The execution as its caller sees it.
Promise == INSTANCE HttpExecute WITH
  NoReply <- "none",
  phase <- CASE pc \in {"idle", "live", "over"} -> pc [] OTHER -> "running",
  stopped <- aborted

\* The chain keeps the promise of HttpExecute: one reply, no stream after a
\* stop, and every execution comes to a reply.
KeepsThePromise == Promise!Spec
=============================================================================

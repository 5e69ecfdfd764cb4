--------------------------- MODULE Services_proofs ---------------------------
(***************************************************************************)
(* What the services of the main process promise, for any number of        *)
(* everything: the HTTP engine of an execution (HttpChain), and the OAuth  *)
(* exchanges of a configuration and the cache they share (OAuthTokens).    *)
(***************************************************************************)
EXTENDS HttpChain, OAuthTokens, TLAPS

-----------------------------------------------------------------------------
(* The chain of legs: credentials stay at home, a lost POST is not         *)
(* repeated, a stop is final, and to its caller the chain is one call with *)
(* one reply.                                                              *)

\* A leg away from home has no credential of the user's left in it, unless the
\* user put it in a header of another name, and so has every leg that follows it.
AwayIsBare ==
  leg.origin # Home => /\ leg.header \in {"none", "custom", "type3"}
                       /\ ~leg.signed /\ ~leg.digest /\ ~leg.body

\* Without the opt-in the loss of a POST ends the execution: a leg is a POST
\* only if the request is one.
LossesEnd ==
  /\ leg.method = "POST" => desc.method = "POST"
  /\ ~RetryUnsafe /\ "POST" \in lost => pc = "over"

\* Where an execution stands: it begins unstopped and unanswered, and sleeps
\* only before an attempt it has left.
Standing ==
  /\ pc = "idle" => ~aborted /\ reply = "none"
  /\ pc = "sleep" => attempt < MaxAttempts

ChainInv == ChainTypeOK /\ CredentialsStayHome /\ AwayIsBare /\ LossesEnd /\ Standing

-----------------------------------------------------------------------------
(* Legs *)

\* What a leg can carry.
LEMMA CarriedType ==
  ASSUME NEW l \in Legs
  PROVE  Carried(l) \subseteq {"user", "custom", "digest", "type1", "type3", "signed", "body"}
  BY DEF Carried, Legs

LEMMA FirstLegType ==
  ASSUME NEW d \in Descriptors
  PROVE  /\ FirstLeg(d) \in Legs
         /\ FirstLeg(d).origin = Home
         /\ FirstLeg(d).method = d.method
<1>1. Methods \subseteq {"GET", "PUT", "POST"} /\ Home \in Origins /\ MaxRedirects \in Nat
  BY ChainAssumption
<1>2. d.method \in Methods \cup {"GET"} /\ d.body \in BOOLEAN
  BY DEF Descriptors
<1>3. 0 \in 0..MaxRedirects
  BY <1>1
<1> QED
  BY <1>1, <1>2, <1>3 DEF FirstLeg, Legs

\* A redirect to another server leaves a leg bare.
LEMMA RedirectedType ==
  ASSUME leg \in Legs, leg.hops < MaxRedirects, NEW code, NEW origin \in Origins
  PROVE  /\ Redirected(code, origin) \in Legs
         /\ Redirected(code, origin).origin = origin
         /\ Redirected(code, origin).method \in {leg.method, "GET"}
         /\ AwayIsBare /\ origin # Home =>
              LET l == Redirected(code, origin)
              IN l.header \in {"none", "custom", "type3"} /\ ~l.signed /\ ~l.digest /\ ~l.body
<1> DEFINE l == Redirected(code, origin)
           m == IF code = 303 \/ (code = 301 /\ leg.method = "POST") THEN "GET" ELSE leg.method
<1>1. leg.hops \in 0..MaxRedirects /\ leg.hops + 1 \in 0..MaxRedirects
  BY ChainAssumption DEF Legs
<1> DEFINE crossing == origin # leg.origin
<1>2. l = [leg EXCEPT !.origin = origin, !.method = m, !.hops = leg.hops + 1,
             !.header = IF crossing /\ leg.header # "custom" THEN "none" ELSE leg.header,
             !.signed = leg.signed /\ ~crossing, !.digest = leg.digest /\ ~crossing,
             !.body = leg.body /\ m # "GET" /\ ~crossing]
  BY DEF Redirected
<1> HIDE DEF l
<1>a. m \in {leg.method, "GET"} /\ m \in Methods \cup {"GET"}
  BY DEF Legs
<1> HIDE DEF m, crossing
<1>b. l.origin = origin /\ l.method = m
  BY <1>2 DEF Legs
<1>c. l.header = (IF crossing /\ leg.header # "custom" THEN "none" ELSE leg.header)
  BY <1>2 DEF Legs
<1>d. /\ l.signed = (leg.signed /\ ~crossing) /\ l.digest = (leg.digest /\ ~crossing)
      /\ l.body = (leg.body /\ m # "GET" /\ ~crossing)
  BY <1>2 DEF Legs
<1>3. l \in Legs
  BY <1>1, <1>2, <1>a DEF Legs
<1>4. AwayIsBare /\ origin # Home =>
        l.header \in {"none", "custom", "type3"} /\ ~l.signed /\ ~l.digest /\ ~l.body
  BY <1>c, <1>d DEF AwayIsBare, crossing
<1> QED
  BY <1>a, <1>b, <1>3, <1>4 DEF l

-----------------------------------------------------------------------------
(* The two ways a step can go on *)

\* Opening a leg keeps the invariant if the leg is bare away from home.
LEMMA LaunchInv ==
  ASSUME ChainInv, pc # "over", NEW l \in Legs, Launch(l),
         desc' \in Descriptors, attempt' \in 0..MaxAttempts,
         l.method = "POST" => desc'.method = "POST",
         l.origin # Home => /\ l.header \in {"none", "custom", "type3"}
                            /\ ~l.signed /\ ~l.digest /\ ~l.body
  PROVE  ChainInv'
<1> USE DEF ChainInv
<1>1. leg' = l /\ aborted' = aborted /\ pc' \in {"head", "over"} /\ lost' = lost
      /\ reply' \in {reply, "failure"}
  BY DEF Launch
<1>2. shown' \subseteq shown \cup {[origin |-> l.origin, what |-> c] : c \in Carried(l)}
  BY DEF Launch
<1>3. l.origin \in Origins
  BY DEF Legs
<1>4. ChainTypeOK'
  BY <1>1, <1>2, <1>3, CarriedType DEF ChainTypeOK
<1>5. CredentialsStayHome'
  <2>1. l.origin # Home => Carried(l) \subseteq {"custom", "type3"}
    BY DEF Carried
  <2>2. ASSUME NEW s \in shown', s.origin # Home PROVE s.what \in {"custom", "type3"}
    BY <1>2, <2>1, <2>2 DEF CredentialsStayHome
  <2> QED
    BY <2>2 DEF CredentialsStayHome
<1>6. AwayIsBare'
  BY <1>1 DEF AwayIsBare
<1>7. LossesEnd'
  BY <1>1 DEF LossesEnd
<1>8. Standing'
  BY <1>1 DEF Standing
<1> QED
  BY <1>4, <1>5, <1>6, <1>7, <1>8

\* The end of an attempt leaves everything but the outcome alone.
LEMMA EndAttemptInv ==
  ASSUME ChainInv, pc # "over", NEW kind, NEW result \in {"response", "failure"},
         EndAttempt(kind, result), UNCHANGED <<desc, leg, attempt, shown, lost>>
  PROVE  ChainInv'
<1> USE DEF ChainInv
<1>1. pc' \in {"sleep", "over"} /\ aborted' = aborted /\ reply' \in {reply, result}
  BY DEF EndAttempt
<1>2. ChainTypeOK'
  BY <1>1 DEF ChainTypeOK
<1>3. CredentialsStayHome' /\ AwayIsBare'
  BY DEF CredentialsStayHome, AwayIsBare
<1>4. LossesEnd'
  BY DEF LossesEnd
<1>5. Standing'
  BY DEF Standing, EndAttempt
<1> QED
  BY <1>2, <1>3, <1>4, <1>5

-----------------------------------------------------------------------------
(* The invariant *)

LEMMA InitChainInv == ChainInit => ChainInv
<1> SUFFICES ASSUME ChainInit PROVE ChainInv
  OBVIOUS
<1>1. desc \in Descriptors
  BY DEF ChainInit, Descriptors
<1>2. leg \in Legs /\ leg.origin = Home /\ leg.method = desc.method
  BY <1>1, FirstLegType DEF ChainInit
<1>3. 0 \in 0..MaxAttempts
  BY ChainAssumption
<1> QED
  BY <1>1, <1>2, <1>3
     DEF ChainInit, ChainInv, ChainTypeOK, CredentialsStayHome, AwayIsBare, LossesEnd, Standing

LEMMA NextChainInv == ChainInv /\ [ChainNext]_chainVars => ChainInv'
<1> SUFFICES ASSUME ChainInv, [ChainNext]_chainVars PROVE ChainInv'
  OBVIOUS
<1>0. /\ desc \in Descriptors /\ leg \in Legs /\ attempt \in 0..MaxAttempts
      /\ AwayIsBare /\ (leg.method = "POST" => desc.method = "POST")
  BY DEF ChainInv, ChainTypeOK, LossesEnd
<1>1. ASSUME NEW d \in Descriptors, Execute(d) PROVE ChainInv'
  <2>1. 1 \in 0..MaxAttempts
    BY ChainAssumption
  <2>2. /\ FirstLeg(d) \in Legs /\ FirstLeg(d).origin = Home
        /\ FirstLeg(d).method = d.method
    BY FirstLegType
  <2> QED
    BY <1>1, <2>1, <2>2, LaunchInv DEF Execute
<1>2. CASE WakeUp
  <2>1. attempt + 1 \in 0..MaxAttempts
    BY <1>0, <1>2, ChainAssumption DEF WakeUp, ChainInv, Standing
  <2> QED
    BY <1>0, <1>2, <2>1, FirstLegType, LaunchInv DEF WakeUp
<1>3. ASSUME NEW kind \in {"refused", "network"}, BuildFails(kind) PROVE ChainInv'
  BY <1>3, EndAttemptInv DEF BuildFails
<1>4. ASSUME NEW code \in {301, 303, 307}, NEW origin \in Origins, Redirect(code, origin)
      PROVE  ChainInv'
  <2> DEFINE l == Redirected(code, origin)
  <2>1. /\ l \in Legs /\ l.origin = origin /\ l.method \in {leg.method, "GET"}
        /\ origin # Home => /\ l.header \in {"none", "custom", "type3"}
                            /\ ~l.signed /\ ~l.digest /\ ~l.body
    BY <1>0, <1>4, RedirectedType DEF Redirect
  <2>2. Launch(l) /\ pc # "over" /\ UNCHANGED <<desc, attempt>>
    BY <1>4 DEF Redirect, AtHead
  <2> HIDE DEF l
  <2> QED
    BY <1>0, <2>1, <2>2, LaunchInv
<1>5. CASE RedirectStops
  BY <1>5, EndAttemptInv DEF RedirectStops, AtHead
<1>6. CASE DigestChallenge
  <2> DEFINE l == [leg EXCEPT !.answered = TRUE, !.header = "digest"]
  <2>1. /\ l \in Legs /\ l.origin = leg.origin /\ l.method = leg.method
        /\ l.origin = Home
    BY <1>0, <1>6 DEF DigestChallenge, Legs, AwayIsBare
  <2>2. Launch(l) /\ pc # "over" /\ UNCHANGED <<desc, attempt>>
    BY <1>6 DEF DigestChallenge, AtHead
  <2> HIDE DEF l
  <2> QED
    BY <1>0, <2>1, <2>2, LaunchInv
<1>7. CASE NtlmChallenge
  <2> DEFINE l == [leg EXCEPT !.ntlm = "authorized", !.header = "type3"]
  <2>1. /\ l \in Legs /\ l.origin = leg.origin /\ l.method = leg.method
        /\ l.header = "type3" /\ l.signed = leg.signed
        /\ l.digest = leg.digest /\ l.body = leg.body
    BY <1>0 DEF Legs
  <2>2. Launch(l) /\ pc # "over" /\ UNCHANGED <<desc, attempt>>
    BY <1>7 DEF NtlmChallenge, AtHead
  <2> HIDE DEF l
  <2> QED
    BY <1>0, <2>1, <2>2, LaunchInv DEF AwayIsBare
<1>8. CASE BodyBegins \/ StreamBegins \/ Abort \/ LiveStreamEnds
  <2>1. /\ UNCHANGED <<desc, leg, attempt, shown, lost>>
        /\ pc \in {"head", "body", "sleep", "live"} /\ pc' \in {pc, "body", "live", "over"}
        /\ aborted' \in BOOLEAN /\ reply' \in {reply, "marker"}
    BY <1>8 DEF BodyBegins, StreamBegins, Abort, LiveStreamEnds, AtHead, ChainInv, ChainTypeOK
  <2>2. ChainTypeOK'
    BY <2>1 DEF ChainInv, ChainTypeOK
  <2>3. CredentialsStayHome' /\ AwayIsBare' /\ LossesEnd' /\ Standing'
    BY <2>1 DEF ChainInv, CredentialsStayHome, AwayIsBare, LossesEnd, Standing
  <2> QED
    BY <2>2, <2>3 DEF ChainInv
<1>13. CASE UNCHANGED chainVars
  BY <1>13 DEF chainVars,
       ChainInv, ChainTypeOK, CredentialsStayHome, AwayIsBare, LossesEnd, Standing
<1>9. ASSUME NEW kind \in {"status", "serverBusy"}, BodyEnds(kind) PROVE ChainInv'
  BY <1>9, EndAttemptInv DEF BodyEnds
<1>10. CASE BodyBreaks
  BY <1>10, EndAttemptInv DEF BodyBreaks
<1>11. CASE ConnectionFails
  \* The one step that loses a request: if that was a POST, no retry follows.
  <2>1. /\ pc \in {"head", "body"} /\ lost' = lost \cup {leg.method}
        /\ UNCHANGED <<desc, leg, attempt, shown, aborted>>
        /\ pc' \in {"sleep", "over"} /\ reply' \in {reply, "failure"}
    BY <1>11 DEF ConnectionFails, EndAttempt
  <2>2. pc' = "sleep" => RetryUnsafe \/ desc.method # "POST"
    BY <1>11 DEF ConnectionFails, EndAttempt, RetryReason, Idempotent
  <2>3. leg.method \in Methods \cup {"GET"}
    BY <1>0 DEF Legs
  <2>4. ChainTypeOK'
    BY <2>1, <2>3 DEF ChainInv, ChainTypeOK
  <2>5. CredentialsStayHome' /\ AwayIsBare'
    BY <2>1 DEF ChainInv, CredentialsStayHome, AwayIsBare
  <2>6. LossesEnd'
    BY <2>1, <2>2 DEF ChainInv, LossesEnd
  <2>7. Standing'
    BY <1>11 DEF ConnectionFails, EndAttempt, Standing
  <2> QED
    BY <2>4, <2>5, <2>6, <2>7 DEF ChainInv
<1>12. CASE AbortedLegFails
  BY <1>12, EndAttemptInv DEF AbortedLegFails
<1> QED
  BY <1>1, <1>2, <1>3, <1>4, <1>5, <1>6, <1>7, <1>8, <1>9, <1>10, <1>11, <1>12,
     <1>13 DEF ChainNext

-----------------------------------------------------------------------------
(* Stops, and the promise to the caller *)

\* After a stop no step opens a leg, shows a server anything, or forgets it.
LEMMA StopStep ==
  ChainInv /\ [ChainNext]_chainVars =>
    (aborted => /\ aborted' /\ shown' = shown
                /\ pc' = "head" => pc = "head" /\ leg' = leg)
<1> SUFFICES ASSUME ChainInv, [ChainNext]_chainVars, aborted
             PROVE  /\ aborted' /\ shown' = shown
                    /\ pc' = "head" => pc = "head" /\ leg' = leg
  OBVIOUS
<1>1. pc # "idle"
  BY DEF ChainInv, Standing
<1>2. ASSUME NEW d \in Descriptors, Execute(d) PROVE FALSE
  BY <1>1, <1>2 DEF Execute
<1>3. CASE WakeUp
  BY <1>3 DEF WakeUp, Launch
<1>4. ASSUME NEW kind \in {"status", "serverBusy"}, BodyEnds(kind)
      PROVE  UNCHANGED <<aborted, shown, leg>> /\ pc' # "head"
  BY <1>4 DEF BodyEnds, EndAttempt
<1>5. ASSUME NEW code \in {301, 303, 307}, NEW origin \in Origins, Redirect(code, origin)
      PROVE  FALSE
  BY <1>5 DEF Redirect, AtHead
<1>6. CASE BodyBreaks \/ AbortedLegFails
  BY <1>6 DEF BodyBreaks, AbortedLegFails, EndAttempt
<1>7. CASE LiveStreamEnds \/ UNCHANGED chainVars
  BY <1>7 DEF LiveStreamEnds, chainVars
<1>8. CASE RedirectStops \/ DigestChallenge \/ NtlmChallenge
           \/ BodyBegins \/ StreamBegins \/ ConnectionFails \/ Abort
  BY <1>8 DEF RedirectStops, DigestChallenge, NtlmChallenge, BodyBegins, StreamBegins,
       ConnectionFails, Abort, AtHead
<1>9. ASSUME NEW kind \in {"refused", "network"}, BuildFails(kind) PROVE FALSE
  BY <1>9 DEF BuildFails
<1> QED
  BY <1>2, <1>3, <1>4, <1>5, <1>6, <1>7, <1>8, <1>9 DEF ChainNext

\* Where the caller sees an execution.
Seen == CASE pc \in {"idle", "live", "over"} -> pc [] OTHER -> "running"

LEMMA SeenValues ==
  ASSUME ChainTypeOK, ChainTypeOK'
  PROVE  /\ Seen = (IF pc \in {"head", "body", "sleep"} THEN "running" ELSE pc)
         /\ Seen' = (IF pc' \in {"head", "body", "sleep"} THEN "running" ELSE pc')
  BY DEF Seen, ChainTypeOK

LEMMA PromiseStates ==
  /\ Promise!Init <=> (Seen = "idle" /\ aborted = FALSE /\ reply = "none")
  /\ UNCHANGED Promise!executeVars <=> UNCHANGED <<Seen, aborted, reply>>
  /\ Promise!Begin <=> (Seen = "idle" /\ Seen' = "running" /\ UNCHANGED <<aborted, reply>>)
  /\ Promise!Stop <=>
       (Seen = "running" /\ ~aborted /\ aborted' = TRUE /\ UNCHANGED <<Seen, reply>>)
  /\ Promise!Answer <=>
       (Seen = "running" /\ Seen' = "over" /\ reply' \in {"response", "failure"}
          /\ UNCHANGED aborted)
  /\ Promise!GoLive <=>
       (Seen = "running" /\ ~aborted /\ Seen' = "live" /\ reply' = "marker"
          /\ UNCHANGED aborted)
  /\ Promise!StreamOver <=>
       (Seen = "live" /\ Seen' = "over" /\ UNCHANGED <<aborted, reply>>)
  BY DEF Seen, Promise!Init, Promise!executeVars, Promise!Begin, Promise!Stop,
         Promise!Answer, Promise!GoLive, Promise!StreamOver

\* The end of an attempt is the end of the execution, or no event at all.
LEMMA EndAttemptStep ==
  ASSUME ChainInv, ChainInv', pc \in {"head", "body"},
         NEW kind, NEW result \in {"response", "failure"}, EndAttempt(kind, result)
  PROVE  [Promise!Next]_(Promise!executeVars)
<1> USE DEF ChainInv
<1>1. CASE pc' = "sleep" /\ UNCHANGED <<reply, aborted>>
  BY <1>1, SeenValues, PromiseStates
<1>2. CASE pc' = "over" /\ reply' = result /\ UNCHANGED aborted
  BY <1>2, SeenValues, PromiseStates DEF Promise!Next
<1> QED
  BY <1>1, <1>2 DEF EndAttempt

\* Every step is one the caller is promised, or none it can see.
LEMMA PromiseStep ==
  ASSUME ChainInv, ChainInv', [ChainNext]_chainVars
  PROVE  [Promise!Next]_(Promise!executeVars)
<1>1. /\ ChainTypeOK /\ ChainTypeOK'
      /\ pc = "idle" => ~aborted /\ reply = "none"
  BY DEF ChainInv, Standing
<1> DEFINE Quiet == pc \in {"head", "body", "sleep"} /\ pc' \in {"head", "body", "sleep"}
                    /\ UNCHANGED <<aborted, reply>>
           Ended == pc \in {"head", "body", "sleep"} /\ pc' = "over" /\ UNCHANGED aborted
                    /\ reply' \in {"response", "failure"}
<1>2. Quiet => [Promise!Next]_(Promise!executeVars)
  BY <1>1, SeenValues, PromiseStates
<1>3. Ended => [Promise!Next]_(Promise!executeVars)
  BY <1>1, SeenValues, PromiseStates DEF Promise!Next
<1> HIDE DEF Quiet, Ended
<1>4. ASSUME NEW d \in Descriptors, Execute(d) PROVE Promise!Begin
  <2>1. pc = "idle" /\ pc' = "head" /\ UNCHANGED <<aborted, reply>>
    BY <1>1, <1>4 DEF Execute, Launch
  <2> QED
    BY <1>1, <2>1, SeenValues, PromiseStates
<1>5. ASSUME NEW l, Launch(l), pc \in {"head", "sleep"} PROVE Quiet \/ Ended
  BY <1>5 DEF Launch, Quiet, Ended
<1>6. CASE WakeUp \/ DigestChallenge \/ NtlmChallenge
  BY <1>2, <1>3, <1>5, <1>6 DEF WakeUp, DigestChallenge, NtlmChallenge, AtHead
<1>7. ASSUME NEW code \in {301, 303, 307}, NEW origin \in Origins, Redirect(code, origin)
      PROVE  Quiet \/ Ended
  BY <1>5, <1>7 DEF Redirect, AtHead
<1>8. CASE RedirectStops \/ BodyBreaks \/ ConnectionFails \/ AbortedLegFails
  BY <1>8, EndAttemptStep
     DEF RedirectStops, BodyBreaks, ConnectionFails, AbortedLegFails, AtHead
<1>9. ASSUME NEW kind \in {"status", "serverBusy"}, BodyEnds(kind)
      PROVE  [Promise!Next]_(Promise!executeVars)
  BY <1>9, EndAttemptStep DEF BodyEnds
<1>15. ASSUME NEW kind \in {"refused", "network"}, BuildFails(kind)
       PROVE  [Promise!Next]_(Promise!executeVars)
  BY <1>15, EndAttemptStep DEF BuildFails
<1>10. CASE BodyBegins
  BY <1>2, <1>10 DEF BodyBegins, AtHead, Quiet
<1>11. CASE StreamBegins
  <2>1. Promise!GoLive
    BY <1>1, <1>11, SeenValues, PromiseStates DEF StreamBegins, AtHead
  <2> QED
    BY <2>1 DEF Promise!Next
<1>12. CASE Abort
  <2>1. Promise!Stop
    BY <1>1, <1>12, SeenValues, PromiseStates DEF Abort
  <2> QED
    BY <2>1 DEF Promise!Next
<1>13. CASE LiveStreamEnds
  <2>1. Promise!StreamOver
    BY <1>1, <1>13, SeenValues, PromiseStates DEF LiveStreamEnds
  <2> QED
    BY <2>1 DEF Promise!Next
<1>14. CASE UNCHANGED chainVars
  BY <1>1, <1>14, SeenValues, PromiseStates DEF chainVars
<1> QED
  BY <1>2, <1>3, <1>4, <1>6, <1>7, <1>8, <1>9, <1>10, <1>11, <1>12, <1>13, <1>14,
     <1>15 DEF ChainNext, Promise!Next

LEMMA PromiseInit == ChainInit => Promise!Init
  BY PromiseStates DEF ChainInit, Seen

-----------------------------------------------------------------------------
(* Theorems *)

\* Every reachable state of an execution is one the module describes.
THEOREM ChainTypeCorrect == ChainSpec => []ChainTypeOK
<1>1. ChainInv => ChainTypeOK
  BY DEF ChainInv
<1> QED
  BY InitChainInv, NextChainInv, <1>1, PTL DEF ChainSpec

\* No chain of redirects, challenges and retries shows a server but the one
\* the user named one of the four credential headers as the user set it, a
\* signature, a Digest answer or the body (http-engine.js 101-106, 965-1000).  A
\* header of another name goes along, and so does the answer to an NTLM challenge.
THEOREM NamedCredentialsStayHome == ChainSpec => []CredentialsStayHome
<1>1. ChainInv => CredentialsStayHome
  BY DEF ChainInv
<1> QED
  BY InitChainInv, NextChainInv, <1>1, PTL DEF ChainSpec

\* However many attempts a policy allows, a POST whose answer was lost is not
\* sent again without the opt-in (retry.js 37-44).
THEOREM PostsAreNotRepeated == ChainSpec => []LostPostIsNotRepeated
<1>1. ChainInv => LostPostIsNotRepeated
  BY DEF ChainInv, LossesEnd, LostPostIsNotRepeated
<1> QED
  BY InitChainInv, NextChainInv, <1>1, PTL DEF ChainSpec

\* A stop is final: it is not forgotten, and nothing is sent after it
\* (http-engine.js 1793).
THEOREM StopsAreFinal == ChainSpec => StopMeansStop
<1> QED
  BY InitChainInv, NextChainInv, StopStep, PTL DEF ChainSpec, StopMeansStop

\* To its caller the chain of legs is one call: it is answered once, and no
\* stream is announced after a stop (the safety of KeepsThePromise).
THEOREM ChainKeepsThePromise ==
  ChainSpec => Promise!Init /\ [][Promise!Next]_(Promise!executeVars)
<1>1. ChainInv /\ ChainInv' /\ [ChainNext]_chainVars =>
        [Promise!Next]_(Promise!executeVars)
  BY PromiseStep
<1> QED
  BY InitChainInv, NextChainInv, PromiseInit, <1>1, PTL DEF ChainSpec

-----------------------------------------------------------------------------
(* The exchanges take turns, and between them the cache and the provider   *)
(* agree.  The slot names only the last acquisition, so what keeps the     *)
(* others apart is their order: they start, queue and end in the order of  *)
(* their numbers, and each one that waits does so for its predecessor.     *)

Active(j) == jobs[j].step \in {"refreshing", "granting", "waiting"}

\* The acquisitions that are over come first, then the one on the wire, then
\* those that wait, each for the one before it, then those to come.
Queued ==
  /\ \A j, k \in Exchanges : j < k =>
       /\ jobs[j].step = "unused" => jobs[k].step = "unused"
       /\ jobs[k].step = "done" => jobs[j].step = "done"
       /\ OnTheWire(k) => jobs[j].step = "done"
  /\ \A k \in Exchanges : jobs[k].step = "waiting" =>
       /\ jobs[k].after \in Exchanges /\ k = jobs[k].after + 1
       /\ Active(jobs[k].after)

\* The slot is the last one that is not over, if there is any.
SlotIsLast ==
  /\ slot = NoJob => \A j \in Exchanges : ~Active(j)
  /\ slot # NoJob => /\ slot \in Exchanges /\ Active(slot)
                     /\ \A k \in Exchanges : slot < k => jobs[k].step = "unused"

\* Nothing is cached during an exchange; what is cached is what is accepted.
CacheIsFresh ==
  /\ cache.valid => cache.refresh = provider.accepts
  /\ \A j \in Exchanges : OnTheWire(j) => ~cache.valid

TokensInv == TokensTypeOK /\ Queued /\ SlotIsLast /\ CacheIsFresh

-----------------------------------------------------------------------------
(* How acquisitions begin and end *)

Token == NoToken..MaxTokens
JobRecord == [step : {"unused", "refreshing", "granting", "waiting", "done"},
              hint : Token, after : NoJob..MaxJobs]

\* An acquisition starts on the wire.
LEMMA StartedType ==
  ASSUME NEW hint \in Token, NEW entry, entry.refresh \in Token
  PROVE  /\ Started(hint, entry) \in JobRecord
         /\ Started(hint, entry).step \in {"refreshing", "granting"}
<1>1. NoJob \in NoJob..MaxJobs /\ NoToken \in Token
  BY TokenAssumption DEF NoJob, NoToken, Token
<1> QED
  BY <1>1 DEF Started, JobRecord

\* What the acquisition on the wire knows of the others.
LEMMA WireAlone ==
  ASSUME TokensInv, NEW j \in Exchanges, OnTheWire(j)
  PROVE  /\ \A k \in Exchanges : k < j => jobs[k].step = "done"
         /\ \A k \in Exchanges : j < k => jobs[k].step \in {"waiting", "unused"}
         /\ slot \in Exchanges /\ j <= slot
  <1>1. \A k \in Exchanges : k < j => jobs[k].step = "done"
    BY DEF TokensInv, Queued
  <1>2. ASSUME NEW k \in Exchanges, j < k PROVE jobs[k].step \in {"waiting", "unused"}
    <2>1. jobs[k].step # "done" /\ ~OnTheWire(k)
      BY <1>2 DEF TokensInv, Queued, OnTheWire
    <2> QED
      BY <2>1 DEF TokensInv, TokensTypeOK, OnTheWire
  <1>3. slot \in Exchanges /\ j <= slot
    <2>1. slot # NoJob /\ slot \in Exchanges
      BY DEF TokensInv, SlotIsLast, Active, OnTheWire
    <2>2. jobs[slot].step # "done"
      BY <2>1 DEF TokensInv, SlotIsLast, Active
    <2> QED
      BY <1>1, <2>1, <2>2, TokenAssumption DEF Exchanges
  <1> QED
    BY <1>1, <1>2, <1>3

\* An acquisition that finds the slot empty begins after all the others.
LEMMA StartInv ==
  ASSUME TokensInv, slot = NoJob, NEW j \in Exchanges, NewJob(j),
         NEW job \in JobRecord, job.step \in {"refreshing", "granting"},
         jobs' = [jobs EXCEPT ![j] = job], slot' = j, ~cache'.valid
  PROVE  Queued' /\ SlotIsLast' /\ CacheIsFresh'
<1>1. jobs \in [Exchanges -> JobRecord]
  BY DEF TokensInv, TokensTypeOK, JobRecord, Token
<1>2. \A k \in Exchanges : jobs'[k] = IF k = j THEN job ELSE jobs[k]
  BY <1>1
<1>3. \A k \in Exchanges : k < j => jobs[k].step = "done"
  <2> SUFFICES ASSUME NEW k \in Exchanges, k < j PROVE jobs[k].step = "done"
    OBVIOUS
  <2>1. jobs[k].step # "unused"
    BY TokenAssumption DEF NewJob, Exchanges
  <2>2. ~Active(k)
    BY DEF TokensInv, SlotIsLast
  <2> QED
    BY <1>1, <2>1, <2>2 DEF Active, JobRecord
<1>4. \A k \in Exchanges : j < k => jobs[k].step = "unused"
  BY DEF TokensInv, Queued, NewJob
<1>5. \A k \in Exchanges : jobs'[k].step = "waiting" => FALSE
  BY <1>1, <1>2, <1>3, <1>4, TokenAssumption DEF Exchanges
<1>6. Queued'
  BY <1>2, <1>3, <1>4, <1>5, TokenAssumption DEF Queued, OnTheWire, Exchanges
<1>7. SlotIsLast'
  BY <1>2, <1>4, TokenAssumption DEF SlotIsLast, Active, Exchanges, NoJob
<1> QED
  BY <1>6, <1>7 DEF CacheIsFresh

\* One that does not waits for the last of them.
LEMMA QueueInv ==
  ASSUME TokensInv, slot # NoJob, NEW j \in Exchanges, NewJob(j),
         NEW hint \in Token, slot' = j,
         jobs' = [jobs EXCEPT ![j] = [step |-> "waiting", hint |-> hint, after |-> slot]],
         UNCHANGED <<cache, provider>>
  PROVE  jobs' \in [Exchanges -> JobRecord] /\ Queued' /\ SlotIsLast' /\ CacheIsFresh'
<1> DEFINE job == [step |-> "waiting", hint |-> hint, after |-> slot]
<1>1. jobs \in [Exchanges -> JobRecord] /\ slot \in NoJob..MaxJobs
  BY DEF TokensInv, TokensTypeOK, JobRecord, Token
<1>2. \A k \in Exchanges : jobs'[k] = IF k = j THEN job ELSE jobs[k]
  BY <1>1
<1>3. slot \in Exchanges /\ Active(slot)
  BY DEF TokensInv, SlotIsLast
<1>4. j = slot + 1
  <2>1. j > slot
    <3>1. jobs[j].step = "unused" /\ jobs[slot].step # "unused"
      BY <1>3 DEF NewJob, Active
    <3>2. ~(j < slot)
      BY <1>3, <3>1 DEF TokensInv, Queued
    <3> QED
      BY <1>3, <3>1, <3>2, TokenAssumption DEF Exchanges
  <2>2. ~(slot + 1 < j)
    <3> SUFFICES ASSUME slot + 1 < j PROVE FALSE
      OBVIOUS
    <3>1. slot + 1 \in Exchanges /\ slot + 1 \in 1..(j - 1) /\ slot < slot + 1
      BY <1>3, TokenAssumption DEF Exchanges
    <3> QED
      BY <1>3, <3>1 DEF TokensInv, SlotIsLast, NewJob
  <2> QED
    BY <1>3, <2>1, <2>2, TokenAssumption DEF Exchanges
<1>5. \A k \in Exchanges : slot < k => jobs[k].step = "unused"
  BY <1>3 DEF TokensInv, SlotIsLast
<1>6. jobs' \in [Exchanges -> JobRecord]
  BY <1>1 DEF JobRecord
<1>7. Queued'
  <2>1. ASSUME NEW i \in Exchanges, NEW k \in Exchanges, i < k
        PROVE  /\ jobs'[i].step = "unused" => jobs'[k].step = "unused"
               /\ jobs'[k].step = "done" => jobs'[i].step = "done"
               /\ OnTheWire(k)' => jobs'[i].step = "done"
    <3>1. CASE k = j
      BY <1>2, <2>1, <3>1, <1>3, <1>4, TokenAssumption
         DEF TokensInv, Queued, Exchanges, OnTheWire, Active
    <3>2. CASE k # j
      BY <1>2, <1>4, <1>5, <2>1, <3>2, <1>3, TokenAssumption
         DEF TokensInv, Queued, OnTheWire, Exchanges
    <3> QED
      BY <3>1, <3>2
  <2>2. ASSUME NEW k \in Exchanges, jobs'[k].step = "waiting"
        PROVE  /\ jobs'[k].after \in Exchanges /\ k = jobs'[k].after + 1
               /\ jobs'[jobs'[k].after].step \in {"refreshing", "granting", "waiting"}
    <3>1. CASE k = j
      <4>1. jobs'[k].after = slot /\ slot # j
        BY <1>2, <1>4, <3>1, <1>3 DEF Exchanges
      <4> QED
        BY <1>2, <1>3, <1>4, <3>1, <4>1 DEF Active
    <3>2. CASE k # j
      <4>1. jobs'[k] = jobs[k] /\ jobs[k].after \in Exchanges /\ k = jobs[k].after + 1
            /\ Active(jobs[k].after)
        BY <1>2, <2>2, <3>2 DEF TokensInv, Queued
      <4>2. jobs[k].after # j
        BY <4>1 DEF NewJob, Active
      <4> QED
        BY <1>2, <4>1, <4>2 DEF Active
    <3> QED
      BY <3>1, <3>2
  <2> QED
    BY <2>1, <2>2 DEF Queued, Active
<1>8. SlotIsLast'
  BY <1>2, <1>4, <1>5, <1>3, TokenAssumption DEF SlotIsLast, Active, Exchanges, NoJob
<1>9. CacheIsFresh'
  BY <1>2 DEF TokensInv, CacheIsFresh, OnTheWire
<1> QED
  BY <1>6, <1>7, <1>8, <1>9

\* When the one on the wire is over, only its successor starts.
LEMMA EndInv ==
  ASSUME TokensInv, NEW j \in Exchanges, OnTheWire(j),
         NEW entry \in [refresh : Token, valid : BOOLEAN], NEW token \in Token,
         End(j, entry, token), screen' = screen,
         provider' \in [minted : Token, accepts : Token],
         entry.valid => entry.refresh = provider'.accepts
  PROVE  TokensInv'
<1> DEFINE next == {k \in Exchanges : jobs[k].step = "waiting" /\ jobs[k].after = j}
<1>1. jobs \in [Exchanges -> JobRecord]
  BY DEF TokensInv, TokensTypeOK, JobRecord, Token
<1>2. \A k \in Exchanges : jobs'[k] =
        IF k = j THEN [NotBegun EXCEPT !.step = "done"]
        ELSE IF k \in next THEN Started(jobs[k].hint, NoEntry) ELSE jobs[k]
  BY DEF End
<1>a. DOMAIN jobs' = Exchanges /\ jobs' = [k \in Exchanges |-> jobs'[k]]
  BY DEF End
<1>3. jobs'[j] \in JobRecord /\ jobs'[j].step = "done"
  <2>1. NoJob \in NoJob..MaxJobs /\ NoToken \in Token
    BY TokenAssumption DEF NoJob, NoToken, Token
  <2> QED
    BY <1>2, <2>1 DEF JobRecord, NotBegun
<1>4. \A k \in next : /\ jobs'[k] \in JobRecord /\ jobs'[k].step \in {"refreshing", "granting"}
                      /\ k = j + 1
  <2> SUFFICES ASSUME NEW k \in next
               PROVE  /\ jobs'[k] \in JobRecord /\ k = j + 1
                      /\ jobs'[k].step \in {"refreshing", "granting"}
    OBVIOUS
  <2>1. k = j + 1
    BY DEF TokensInv, Queued
  <2>2. jobs[k].hint \in Token /\ NoEntry.refresh \in Token
    BY <1>1, TokenAssumption DEF JobRecord, NoEntry, NoToken, Token
  <2>3. jobs'[k] = Started(jobs[k].hint, NoEntry)
    BY <1>2, <2>1, TokenAssumption DEF Exchanges
  <2> QED
    BY <2>1, <2>2, <2>3, StartedType
<1>5. /\ \A k \in Exchanges : k < j => jobs[k].step = "done"
      /\ \A k \in Exchanges : j < k => jobs[k].step \in {"waiting", "unused"}
      /\ slot \in Exchanges /\ j <= slot
  BY WireAlone
<1>6. \A k \in Exchanges : k # j /\ k \notin next => jobs'[k] = jobs[k]
  BY <1>2
<1> HIDE DEF next
<1>7. Queued'
  <2>1. ASSUME NEW i \in Exchanges, NEW k \in Exchanges, i < k
        PROVE  /\ jobs'[i].step = "unused" => jobs'[k].step = "unused"
               /\ jobs'[k].step = "done" => jobs'[i].step = "done"
               /\ jobs'[k].step \in {"refreshing", "granting"} => jobs'[i].step = "done"
    <3>1. jobs'[i].step = "unused" => jobs'[k].step = "unused"
      <4> SUFFICES ASSUME jobs'[i].step = "unused" PROVE jobs'[k].step = "unused"
        OBVIOUS
      <4>1. i # j /\ i \notin next
        BY <1>3, <1>4
      <4>2. jobs[i].step = "unused" /\ jobs[k].step = "unused"
        BY <1>6, <2>1, <4>1 DEF TokensInv, Queued
      <4>3. k # j /\ k \notin next
        BY <4>2 DEF OnTheWire, next
      <4> QED
        BY <1>6, <4>2, <4>3
    <3>2. jobs'[k].step = "done" => jobs'[i].step = "done"
      BY <1>3, <1>4, <1>5, <1>6, <2>1 DEF TokensInv, Queued, Exchanges
    <3>3. jobs'[k].step \in {"refreshing", "granting"} => jobs'[i].step = "done"
      <4> SUFFICES ASSUME jobs'[k].step \in {"refreshing", "granting"}
                   PROVE  jobs'[i].step = "done"
        OBVIOUS
      <4>1. k # j
        BY <1>3
      <4>2. k \in next
        <5> SUFFICES ASSUME k \notin next PROVE FALSE
          OBVIOUS
        <5>1. jobs[k].step \in {"refreshing", "granting"}
          BY <1>6, <4>1
        <5> QED
          BY <1>5, <4>1, <5>1, TokenAssumption DEF Exchanges
      <4>3. i <= j
        BY <1>4, <2>1, <4>2, TokenAssumption DEF Exchanges
      <4> QED
        BY <1>3, <1>4, <1>5, <1>6, <4>3, TokenAssumption DEF Exchanges
    <3> QED
      BY <3>1, <3>2, <3>3
  <2>2. ASSUME NEW k \in Exchanges, jobs'[k].step = "waiting"
        PROVE  /\ jobs'[k].after \in Exchanges /\ k = jobs'[k].after + 1
               /\ jobs'[jobs'[k].after].step \in {"refreshing", "granting", "waiting"}
    <3>1. k # j /\ k \notin next /\ jobs'[k] = jobs[k]
      BY <1>3, <1>4, <1>6, <2>2
    <3>2. jobs[k].after \in Exchanges /\ k = jobs[k].after + 1 /\ Active(jobs[k].after)
      BY <2>2, <3>1 DEF TokensInv, Queued
    <3>3. jobs[k].after # j
      BY <2>2, <3>1 DEF next
    <3> QED
      BY <1>4, <1>6, <3>1, <3>2, <3>3 DEF Active
  <2> QED
    BY <2>1, <2>2 DEF Queued, Active, OnTheWire
<1>8. SlotIsLast'
  <2>1. CASE slot = j
    <3>1. slot' = NoJob
      BY <2>1 DEF End
    <3>2. \A k \in Exchanges : j < k => jobs[k].step = "unused"
      BY <1>5, <2>1 DEF TokensInv, SlotIsLast, NoJob, Exchanges
    <3>3. \A k \in Exchanges : ~Active(k)'
      BY <1>3, <1>4, <1>5, <1>6, <3>2, TokenAssumption DEF Active, next, Exchanges
    <3> QED
      BY <3>1, <3>3 DEF SlotIsLast
  <2>2. CASE slot # j
    <3>1. slot' = slot
      BY <2>2 DEF End
    <3>2. slot # NoJob /\ Active(slot) /\ \A k \in Exchanges : slot < k => jobs[k].step = "unused"
      BY <1>5 DEF TokensInv, SlotIsLast, NoJob, Exchanges
    <3>3. Active(slot)'
      BY <1>4, <1>5, <1>6, <2>2, <3>1, <3>2 DEF Active
    <3>4. \A k \in Exchanges : slot < k => jobs'[k].step = "unused"
      BY <1>5, <1>6, <3>2, TokenAssumption DEF next, Exchanges, OnTheWire
    <3> QED
      BY <1>5, <3>1, <3>2, <3>3, <3>4 DEF SlotIsLast
  <2> QED
    BY <2>1, <2>2
<1>9. CacheIsFresh'
  <2>1. CASE next = {}
    <3>1. \A k \in Exchanges : ~OnTheWire(k)'
      BY <1>3, <1>5, <1>6, <2>1, TokenAssumption DEF OnTheWire, Exchanges
    <3>2. cache' = entry
      BY <2>1 DEF End, next
    <3> QED
      BY <3>1, <3>2 DEF CacheIsFresh
  <2>2. CASE next # {}
    <3>1. ~cache'.valid
      BY <2>2 DEF End, next, NoEntry
    <3> QED
      BY <3>1 DEF CacheIsFresh
  <2> QED
    BY <2>1, <2>2
<1>10. TokensTypeOK'
  <2>1. jobs' \in [Exchanges -> JobRecord]
    BY <1>1, <1>3, <1>4, <1>6, <1>a
  <2>2. cache' \in [refresh : Token, valid : BOOLEAN]
    BY TokenAssumption DEF End, NoEntry, NoToken, Token
  <2>3. slot' \in NoJob..MaxJobs
    BY TokenAssumption DEF TokensInv, TokensTypeOK, End, NoJob
  <2>4. stored' \in [Panels -> Token]
    BY DEF TokensInv, TokensTypeOK, End, Token
  <2>5. awaiting' \in [Panels -> [job : NoJob..MaxJobs, forced : BOOLEAN]]
    BY TokenAssumption DEF TokensInv, TokensTypeOK, End, NoWait, NoJob
  <2>6. screen' \in Panels
    BY DEF TokensInv, TokensTypeOK
  <2> QED
    BY <2>1, <2>2, <2>3, <2>4, <2>5, <2>6 DEF TokensTypeOK, JobRecord, Token
<1> QED
  BY <1>7, <1>8, <1>9, <1>10 DEF TokensInv

-----------------------------------------------------------------------------
(* The invariant *)

LEMMA TokensInitInv == TokensInit => TokensInv
<1> SUFFICES ASSUME TokensInit PROVE TokensInv
  OBVIOUS
<1>1. NoToken \in Token /\ NoJob \in NoJob..MaxJobs
  BY TokenAssumption DEF NoToken, NoJob, Token
<1>2. \A j \in Exchanges : jobs[j] = NotBegun /\ jobs[j].step = "unused"
  BY DEF TokensInit, NotBegun
<1>3. TokensTypeOK
  BY <1>1 DEF TokensInit, TokensTypeOK, NoEntry, NotBegun, NoWait, Token, NoToken, NoJob
<1>4. Queued /\ SlotIsLast
  BY <1>2 DEF TokensInit, Queued, SlotIsLast, Active, OnTheWire
<1>5. CacheIsFresh
  BY DEF TokensInit, CacheIsFresh, NoEntry
<1> QED
  BY <1>3, <1>4, <1>5 DEF TokensInv

\* A refresh that fails goes on as a full grant.
LEMMA RefreshFailsInv ==
  ASSUME TokensInv, NEW j \in Exchanges, jobs[j].step = "refreshing", RefreshFails(j),
         screen' = screen, provider' \in [minted : Token, accepts : Token]
  PROVE  TokensInv'
<1>1. jobs \in [Exchanges -> JobRecord]
  BY DEF TokensInv, TokensTypeOK, JobRecord, Token
<1>2. /\ jobs' \in [Exchanges -> JobRecord]
      /\ \A k \in Exchanges : k # j => jobs'[k] = jobs[k]
      /\ jobs'[j].step = "granting" /\ jobs'[j].after = jobs[j].after
  BY <1>1 DEF RefreshFails, JobRecord
<1>3. TokensTypeOK'
  BY <1>2, TokenAssumption
     DEF TokensInv, TokensTypeOK, RefreshFails, JobRecord, Token, NoEntry, NoToken
<1>4. Queued'
  BY <1>2 DEF TokensInv, Queued, OnTheWire, Active
<1>5. SlotIsLast'
  <2>1. slot # NoJob /\ slot \in Exchanges
    BY DEF TokensInv, SlotIsLast, Active
  <2>2. jobs[j].step # "unused"
    OBVIOUS
  <2> QED
    BY <1>2, <2>1, <2>2 DEF TokensInv, SlotIsLast, Active, RefreshFails
<1>6. CacheIsFresh'
  BY DEF RefreshFails, CacheIsFresh, NoEntry
<1> QED
  BY <1>3, <1>4, <1>5, <1>6 DEF TokensInv

LEMMA TokensNextInv == TokensInv /\ [TokensNext]_tokenVars => TokensInv'
<1> SUFFICES ASSUME TokensInv, [TokensNext]_tokenVars PROVE TokensInv'
  OBVIOUS
<1>0. /\ jobs \in [Exchanges -> JobRecord] /\ cache \in [refresh : Token, valid : BOOLEAN]
      /\ stored \in [Panels -> Token] /\ provider \in [minted : Token, accepts : Token]
      /\ NoToken \in Token /\ NoJob \in NoJob..MaxJobs
  BY TokenAssumption DEF TokensInv, TokensTypeOK, JobRecord, Token, NoToken, NoJob
<1>b. \A j \in Exchanges : j \in NoJob..MaxJobs
  BY TokenAssumption DEF Exchanges, NoJob
\* What the acquisitions are left alone by.
<1>c. ASSUME UNCHANGED <<slot, jobs>> PROVE Queued' /\ SlotIsLast'
  BY <1>c DEF TokensInv, Queued, SlotIsLast, Active, OnTheWire
<1>1. ASSUME NEW p \in Panels, AcquireCached(p) PROVE TokensInv'
  <2>1. TokensTypeOK' /\ CacheIsFresh'
    BY <1>0, <1>1 DEF AcquireCached, TokensInv, TokensTypeOK, CacheIsFresh, OnTheWire, Token
  <2> QED
    BY <1>1, <1>c, <2>1 DEF AcquireCached, TokensInv
<1>2. ASSUME NEW p \in Panels, AcquireJoins(p) PROVE TokensInv'
  <2>1. TokensTypeOK' /\ CacheIsFresh'
    BY <1>0, <1>2 DEF AcquireJoins, TokensInv, TokensTypeOK, CacheIsFresh, OnTheWire, Token
  <2> QED
    BY <1>2, <1>c, <2>1 DEF AcquireJoins, TokensInv
<1>3. ASSUME NEW p \in Panels, AcquireStarts(p) PROVE TokensInv'
  <2>1. PICK j \in Exchanges :
          /\ NewJob(j) /\ jobs' = [jobs EXCEPT ![j] = Started(NoToken, cache)]
          /\ slot' = j /\ awaiting' = [awaiting EXCEPT ![p] = [job |-> j, forced |-> FALSE]]
    BY <1>3 DEF AcquireStarts
  <2>2. /\ Started(NoToken, cache) \in JobRecord
        /\ Started(NoToken, cache).step \in {"refreshing", "granting"}
    BY <1>0, StartedType
  <2>3. Queued' /\ SlotIsLast' /\ CacheIsFresh'
    BY <1>3, <2>1, <2>2, StartInv DEF AcquireStarts
  <2>4. jobs' \in [Exchanges -> JobRecord]
    BY <1>0, <2>1, <2>2
  <2>5. TokensTypeOK'
    BY <1>3, <1>b, <2>1, <2>4
       DEF AcquireStarts, TokensInv, TokensTypeOK, JobRecord, Token
  <2> QED
    BY <2>3, <2>5 DEF TokensInv
<1>4. ASSUME NEW p \in Panels, ForceRefresh(p) PROVE TokensInv'
  <2>1. PICK j \in Exchanges :
          /\ NewJob(j)
          /\ IF slot = NoJob
             THEN /\ jobs' = [jobs EXCEPT ![j] = Started(stored[p], NoEntry)]
                  /\ cache' = NoEntry
             ELSE /\ jobs' = [jobs EXCEPT ![j] = [step |-> "waiting", hint |-> stored[p],
                                                  after |-> slot]]
                  /\ UNCHANGED cache
          /\ slot' = j /\ awaiting' = [awaiting EXCEPT ![p] = [job |-> j, forced |-> TRUE]]
    BY <1>4 DEF ForceRefresh
  <2>2. stored[p] \in Token /\ NoEntry \in [refresh : Token, valid : BOOLEAN]
    BY <1>0 DEF NoEntry
  <2>3. Queued' /\ SlotIsLast' /\ CacheIsFresh' /\ jobs' \in [Exchanges -> JobRecord]
    <3>1. CASE slot = NoJob
      <4>1. /\ Started(stored[p], NoEntry) \in JobRecord
            /\ Started(stored[p], NoEntry).step \in {"refreshing", "granting"}
        BY <2>2, StartedType
      <4>2. jobs' = [jobs EXCEPT ![j] = Started(stored[p], NoEntry)] /\ ~cache'.valid
        BY <2>1, <3>1 DEF NoEntry
      <4> QED
        BY <1>0, <2>1, <3>1, <4>1, <4>2, StartInv
    <3>2. CASE slot # NoJob
      <4>1. UNCHANGED <<cache, provider>>
        BY <1>4, <2>1, <3>2 DEF ForceRefresh
      <4>2. jobs' = [jobs EXCEPT ![j] = [step |-> "waiting", hint |-> stored[p], after |-> slot]]
        BY <2>1, <3>2
      <4> QED
        BY <2>1, <2>2, <3>2, <4>1, <4>2, QueueInv
    <3> QED
      BY <3>1, <3>2
  <2>4. TokensTypeOK'
    BY <1>4, <1>0, <1>b, <2>1, <2>2, <2>3 DEF ForceRefresh, TokensInv, TokensTypeOK, JobRecord, Token
  <2> QED
    BY <2>3, <2>4 DEF TokensInv
<1>5. ASSUME NEW p \in Panels, ClearToken(p) PROVE TokensInv'
  <2>1. TokensTypeOK' /\ CacheIsFresh'
    BY <1>0, <1>5 DEF ClearToken, TokensInv, TokensTypeOK, CacheIsFresh, NoEntry, Token
  <2> QED
    BY <1>5, <1>c, <2>1 DEF ClearToken, TokensInv
<1>6. ASSUME NEW p \in Panels, Show(p) PROVE TokensInv'
  <2>1. TokensTypeOK' /\ CacheIsFresh'
    BY <1>6 DEF Show, TokensInv, TokensTypeOK, CacheIsFresh, OnTheWire
  <2> QED
    BY <1>6, <1>c, <2>1 DEF Show, TokensInv
<1>7. ASSUME NEW j \in Exchanges, ExchangeEnds(j) PROVE TokensInv'
  <2>0. Mint => provider' \in [minted : Token, accepts : Token] /\ provider'.accepts \in Token
    BY <1>0, TokenAssumption DEF Mint, Token, NoToken
  <2>1. CASE RefreshRotates(j)
    <3>1. [refresh |-> provider'.accepts, valid |-> TRUE] \in [refresh : Token, valid : BOOLEAN]
      BY <2>0, <2>1 DEF RefreshRotates
    <3> QED
      BY <2>0, <2>1, <3>1, EndInv DEF RefreshRotates, OnTheWire
  <2>2. CASE RefreshKeeps(j)
    <3>1. jobs[j].hint \in Token
      BY <1>0 DEF JobRecord
    <3> QED
      BY <1>0, <2>2, <3>1, EndInv DEF RefreshKeeps, OnTheWire
  <2>3. CASE RefreshRefused(j)
    BY <1>0, <2>3, RefreshFailsInv DEF RefreshRefused
  <2>4. CASE RefreshLost(j)
    BY <2>0, <2>4, RefreshFailsInv DEF RefreshLost
  <2>5. CASE GrantSucceeds(j)
    <3>1. [refresh |-> provider'.accepts, valid |-> TRUE] \in [refresh : Token, valid : BOOLEAN]
      BY <2>0, <2>5 DEF GrantSucceeds
    <3> QED
      BY <2>0, <2>5, <3>1, EndInv DEF GrantSucceeds, OnTheWire
  <2>6. CASE GrantFails(j)
    <3>1. ~cache.valid /\ OnTheWire(j)
      BY <2>6 DEF GrantFails, TokensInv, CacheIsFresh, OnTheWire
    <3> QED
      BY <1>0, <2>6, <3>1, EndInv DEF GrantFails
  <2> QED
    BY <1>7, <2>1, <2>2, <2>3, <2>4, <2>5, <2>6 DEF ExchangeEnds
<1>8. ASSUME Expire PROVE TokensInv'
  <2>1. TokensTypeOK' /\ CacheIsFresh'
    BY <1>0, <1>8 DEF Expire, TokensInv, TokensTypeOK, CacheIsFresh, OnTheWire, Token
  <2> QED
    BY <1>8, <1>c, <2>1 DEF Expire, TokensInv
<1>9. CASE UNCHANGED tokenVars
  BY <1>9 DEF tokenVars, TokensInv, TokensTypeOK, Queued, SlotIsLast, CacheIsFresh, Active, OnTheWire
<1> QED
  BY <1>1, <1>2, <1>3, <1>4, <1>5, <1>6, <1>7, <1>8, <1>9 DEF TokensNext

LEMMA TokensInvariant == TokensSpec => []TokensInv
  BY TokensInitInv, TokensNextInv, PTL DEF TokensSpec

\* Type correctness.
THEOREM TokensTypeCorrect == TokensSpec => []TokensTypeOK
<1>1. TokensInv => TokensTypeOK
  BY DEF TokensInv
<1> QED
  BY <1>1, TokensInvariant, PTL

\* Whoever asks for a token, forces a refresh, clears or switches meanwhile:
\* there is one exchange with the provider at a time, and between exchanges
\* the cached refresh token is the one the provider accepts.
THEOREM TurnsAreTaken == TokensSpec => []ExchangesTakeTurns
<1>1. ASSUME TokensInv PROVE ExchangesTakeTurns
  <2>1. ASSUME NEW j \in Exchanges, NEW k \in Exchanges, OnTheWire(j), OnTheWire(k)
        PROVE  j = k
    <3>1. ~(j < k) /\ ~(k < j)
      BY <1>1, <2>1 DEF TokensInv, Queued, OnTheWire
    <3> QED
      BY <3>1, TokenAssumption DEF Exchanges
  <2> QED
    BY <1>1, <2>1 DEF TokensInv, CacheIsFresh, ExchangesTakeTurns
<1> QED
  BY <1>1, TokensInvariant, PTL

=============================================================================

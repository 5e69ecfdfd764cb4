---------------------------- MODULE OAuthTokens ----------------------------
(***************************************************************************)
(* OAuth tokens of one configuration that several requests share: the      *)
(* executor's cache and its slot of the acquisition in flight              *)
(* (oauth-executor.js), the panels that store a refresh token with their   *)
(* request (request-auth-editor.js), and an identity provider that may     *)
(* rotate refresh tokens, so that each can be used once.                   *)
(*                                                                         *)
(* A token is the number of the exchange that minted it.                   *)
(***************************************************************************)
EXTENDS Naturals

CONSTANTS
  Panels,       \* the requests with this configuration
  MaxTokens,    \* bound on the tokens minted
  MaxJobs       \* bound on the acquisitions

ASSUME TokenAssumption == MaxTokens \in Nat /\ MaxJobs \in Nat

Exchanges == 1..MaxJobs
NoToken == 0
NoJob == 0

VARIABLES
  cache,        \* tokenStore's entry: its refresh token, is it valid
  slot,         \* #inFlight: the job new callers join
  jobs,         \* acquisitions
  stored,       \* the refresh token each panel keeps
  awaiting,     \* what each panel or send waits for
  screen,       \* the request on screen
  provider      \* the newest token minted, the refresh token it accepts

tokenVars == <<cache, slot, jobs, stored, awaiting, screen, provider>>

NoEntry == [refresh |-> NoToken, valid |-> FALSE]
NoWait == [job |-> NoJob, forced |-> FALSE]
NotBegun == [step |-> "unused", hint |-> NoToken, after |-> NoJob]

TokensInit ==
  /\ cache = NoEntry /\ slot = NoJob /\ jobs = [j \in Exchanges |-> NotBegun]
  /\ stored = [p \in Panels |-> NoToken] /\ awaiting = [p \in Panels |-> NoWait]
  /\ screen \in Panels /\ provider = [minted |-> 0, accepts |-> NoToken]

OnTheWire(j) == jobs[j].step \in {"refreshing", "granting"}

\* #refreshOrGrant: a refresh token, the caller's or the cache's, is tried first.
Started(hint, entry) ==
  LET token == IF hint # NoToken THEN hint ELSE entry.refresh
  IN [step |-> IF token = NoToken THEN "granting" ELSE "refreshing",
      hint |-> token, after |-> NoJob]

NewJob(j) == jobs[j].step = "unused" /\ \A k \in 1..(j - 1) : jobs[k].step # "unused"

-----------------------------------------------------------------------------
(* Callers *)

\* acquireToken of a send: a valid token is there.
AcquireCached(p) ==
  /\ awaiting[p] = NoWait /\ screen = p /\ cache.valid
  /\ stored' = [stored EXCEPT ![p] = cache.refresh]
  /\ UNCHANGED <<cache, slot, jobs, awaiting, screen, provider>>

\* acquireToken: concurrent callers share one acquisition.
AcquireJoins(p) ==
  /\ awaiting[p] = NoWait /\ screen = p /\ ~cache.valid /\ slot # NoJob
  /\ awaiting' = [awaiting EXCEPT ![p] = [job |-> slot, forced |-> FALSE]]
  /\ UNCHANGED <<cache, slot, jobs, stored, screen, provider>>

AcquireStarts(p) ==
  /\ awaiting[p] = NoWait /\ screen = p /\ ~cache.valid /\ slot = NoJob
  /\ \E j \in Exchanges :
       /\ NewJob(j)
       /\ jobs' = [jobs EXCEPT ![j] = Started(NoToken, cache)]
       /\ slot' = j
       /\ awaiting' = [awaiting EXCEPT ![p] = [job |-> j, forced |-> FALSE]]
  /\ UNCHANGED <<cache, stored, screen, provider>>

\* Variant: a forced refresh does not queue.
Variant_ForceAtOnce(p) ==
  /\ awaiting[p] = NoWait /\ screen = p
  /\ \E j \in Exchanges :
       /\ NewJob(j)
       /\ jobs' = [jobs EXCEPT ![j] = Started(stored[p], NoEntry)]
       /\ cache' = NoEntry /\ slot' = j
       /\ awaiting' = [awaiting EXCEPT ![p] = [job |-> j, forced |-> TRUE]]
  /\ UNCHANGED <<stored, screen, provider>>

\* forceRefresh, of the Get Token button: it queues behind an acquisition in
\* flight, with the refresh token the panel has now, and drops the cache when
\* its turn comes.
ForceRefresh(p) ==
  /\ awaiting[p] = NoWait /\ screen = p
  /\ \E j \in Exchanges :
       /\ NewJob(j)
       /\ IF slot = NoJob
          THEN /\ jobs' = [jobs EXCEPT ![j] = Started(stored[p], NoEntry)]
               /\ cache' = NoEntry
          ELSE /\ jobs' = [jobs EXCEPT ![j] = [step |-> "waiting", hint |-> stored[p],
                                               after |-> slot]]
               /\ UNCHANGED cache
       /\ slot' = j
       /\ awaiting' = [awaiting EXCEPT ![p] = [job |-> j, forced |-> TRUE]]
  /\ UNCHANGED <<stored, screen, provider>>

-----------------------------------------------------------------------------
(* Exchanges *)

\* The refresh fails: the cache goes and the full grant follows.
RefreshFails(j) ==
  /\ cache' = NoEntry
  /\ jobs' = [jobs EXCEPT ![j].step = "granting"]
  /\ UNCHANGED <<slot, stored, awaiting>>

\* Variant: the slot is left to a job that is over.
Variant_EndKeepsSlot(j, entry, token) ==
  LET next == {k \in Exchanges : jobs[k].step = "waiting" /\ jobs[k].after = j}
      heard == {p \in Panels : awaiting[p].job = j}
  IN /\ cache' = IF next = {} THEN entry ELSE NoEntry
     /\ jobs' = [k \in Exchanges |->
          IF k = j THEN [NotBegun EXCEPT !.step = "done"]
          ELSE IF k \in next THEN Started(jobs[k].hint, NoEntry) ELSE jobs[k]]
     /\ stored' = [p \in Panels |->
          IF p \in heard /\ p = screen /\ token # NoToken THEN token ELSE stored[p]]
     /\ awaiting' = [p \in Panels |-> IF p \in heard THEN NoWait ELSE awaiting[p]]
     /\ UNCHANGED slot

\* A job is over.  Its continuations run before anything else: whoever waits
\* for it and is on screen stores the token it brought, and the forced refresh
\* behind it drops what it cached and starts.
End(j, entry, token) ==
  LET next == {k \in Exchanges : jobs[k].step = "waiting" /\ jobs[k].after = j}
      heard == {p \in Panels : awaiting[p].job = j}
  IN /\ cache' = IF next = {} THEN entry ELSE NoEntry
     /\ jobs' = [k \in Exchanges |->
          IF k = j THEN [NotBegun EXCEPT !.step = "done"]
          ELSE IF k \in next THEN Started(jobs[k].hint, NoEntry) ELSE jobs[k]]
     /\ stored' = [p \in Panels |->
          IF p \in heard /\ p = screen /\ token # NoToken THEN token ELSE stored[p]]
     /\ awaiting' = [p \in Panels |-> IF p \in heard THEN NoWait ELSE awaiting[p]]
     /\ slot' = IF slot = j THEN NoJob ELSE slot

Mint ==
  /\ provider.minted < MaxTokens
  /\ provider' = [minted |-> provider.minted + 1, accepts |-> provider.minted + 1]

\* Variant: the old refresh token is carried forward although a new one came.
Variant_RefreshKeepsTheOld(j) ==
  /\ jobs[j].step = "refreshing" /\ jobs[j].hint = provider.accepts
  /\ Mint /\ End(j, [refresh |-> jobs[j].hint, valid |-> TRUE], jobs[j].hint)
  /\ UNCHANGED screen

\* The provider accepts the refresh token and rotates it.
RefreshRotates(j) ==
  /\ jobs[j].step = "refreshing" /\ jobs[j].hint = provider.accepts
  /\ Mint /\ End(j, [refresh |-> provider'.accepts, valid |-> TRUE], provider'.accepts)
  /\ UNCHANGED screen

\* The provider sends none along: the one used is carried forward.
RefreshKeeps(j) ==
  /\ jobs[j].step = "refreshing" /\ jobs[j].hint = provider.accepts
  /\ End(j, [refresh |-> jobs[j].hint, valid |-> TRUE], jobs[j].hint)
  /\ UNCHANGED <<screen, provider>>

\* The provider refuses, or cannot be reached.
RefreshRefused(j) ==
  /\ jobs[j].step = "refreshing"
  /\ RefreshFails(j)
  /\ UNCHANGED <<screen, provider>>

\* The provider rotates, but its answer is lost.
RefreshLost(j) ==
  /\ jobs[j].step = "refreshing" /\ jobs[j].hint = provider.accepts
  /\ Mint /\ RefreshFails(j)
  /\ UNCHANGED screen

GrantSucceeds(j) ==
  /\ jobs[j].step = "granting"
  /\ Mint /\ End(j, [refresh |-> provider'.accepts, valid |-> TRUE], provider'.accepts)
  /\ UNCHANGED screen

\* The popup is closed, the credentials are wrong, or the time is out.
GrantFails(j) ==
  /\ jobs[j].step = "granting"
  /\ End(j, cache, NoToken)
  /\ UNCHANGED <<screen, provider>>

-----------------------------------------------------------------------------
(* The rest *)

Expire ==
  /\ cache.valid /\ cache' = [cache EXCEPT !.valid = FALSE]
  /\ UNCHANGED <<slot, jobs, stored, awaiting, screen, provider>>

\* Clear Token: the panel and the cache forget; a job in flight does not.
ClearToken(p) ==
  /\ screen = p /\ stored[p] # NoToken
  /\ stored' = [stored EXCEPT ![p] = NoToken] /\ cache' = NoEntry
  /\ UNCHANGED <<slot, jobs, awaiting, screen, provider>>

Show(p) ==
  /\ screen # p /\ screen' = p
  /\ UNCHANGED <<cache, slot, jobs, stored, awaiting, provider>>

ExchangeEnds(j) ==
  \/ RefreshRotates(j) \/ RefreshKeeps(j) \/ RefreshRefused(j) \/ RefreshLost(j)
  \/ GrantSucceeds(j) \/ GrantFails(j)

TokensNext ==
  \/ \E p \in Panels :
       AcquireCached(p) \/ AcquireJoins(p) \/ AcquireStarts(p) \/ ForceRefresh(p)
         \/ ClearToken(p) \/ Show(p)
  \/ \E j \in Exchanges : ExchangeEnds(j)
  \/ Expire

\* Every exchange has a time-out, so it comes to one of its ends; a popup is
\* taken to be closed some day.
TokensFairness == \A j \in Exchanges : WF_tokenVars(ExchangeEnds(j))

TokensSpec == TokensInit /\ [][TokensNext]_tokenVars /\ TokensFairness

-----------------------------------------------------------------------------
(* Properties *)

\* The type invariant.
TokensTypeOK ==
  LET Token == NoToken..MaxTokens
      Job == NoJob..MaxJobs
  IN /\ cache \in [refresh : Token, valid : BOOLEAN] /\ slot \in Job
     /\ jobs \in [Exchanges -> [step : {"unused", "refreshing", "granting", "waiting", "done"},
                                hint : Token, after : Job]]
     /\ stored \in [Panels -> Token]
     /\ awaiting \in [Panels -> [job : Job, forced : BOOLEAN]]
     /\ screen \in Panels /\ provider \in [minted : Token, accepts : Token]

\* Concurrent exchanges "would invalidate each other and fail with
\* invalid_grant" (oauth-executor.js 71-74): there is never more than one, and
\* between exchanges the refresh token in the cache is the one the provider
\* accepts.
ExchangesTakeTurns ==
  /\ \A j, k \in Exchanges : OnTheWire(j) /\ OnTheWire(k) => j = k
  /\ (\A j \in Exchanges : ~OnTheWire(j)) /\ cache.valid => cache.refresh = provider.accepts

\* Whoever waits for a token is answered: no acquisition waits for one that is
\* over, and none is forgotten.
AcquisitionsEnd == \A p \in Panels : awaiting[p] # NoWait ~> awaiting[p] = NoWait
=============================================================================

----------------------------- MODULE CookieJars -----------------------------
(***************************************************************************)
(* The cookie jar of each collection (cookie-jar.js, cookie-store.js), what*)
(* the HTTP engine captures into it and attaches from it, and the cookie   *)
(* manager that edits it from the window (collections-popup.js).           *)
(*                                                                         *)
(* All cookies have the same name.  A host is its labels from the root, a  *)
(* path its segments: / is <<Blank>>, /p is <<p>>, /p/ is <<p, Blank>>. The*)
(* age of a cookie, which orders the header, is left out, and so are the   *)
(* flags the jar never looks at (httpOnly, sameSite).                      *)
(***************************************************************************)
EXTENDS Integers, SequencesExt

CONSTANTS
  Jars,            \* collections
  Labels,          \* of hosts, segments of paths
  Blank,           \* the segment of no characters
  Values,          \* of cookies
  Urls,            \* [host, path, tls] of requests
  Responses,       \* sequences of Set-Cookie lines a response may carry
  Unset,         \* an attribute that is not there; no call, no save
  MaxTime,         \* the clock
  MaxJarWrites     \* bound on responses with cookies and on the user's edits

Hosts == Seq(Labels) \ {<<>>}
UrlPaths == Seq(Labels) \ {<<>>}
Places == [host : Hosts, path : UrlPaths, tls : BOOLEAN]
Lines == [domain : Hosts \cup {Unset}, path : UrlPaths \cup {Unset}, secure : BOOLEAN,
          maxAge : Int \cup {Unset}, expires : Int \cup {Unset}, value : Values]

ASSUME CookieAssumption ==
  /\ Blank \in Labels /\ "edited" \in Values
  /\ Urls \subseteq Places /\ Responses \subseteq Seq(Lines)
  /\ Unset \notin Hosts \cup UrlPaths \cup Int
  /\ MaxTime \in Nat \ {0} /\ MaxJarWrites \in Nat

VARIABLES
  now,             \* CookieStore._now
  jar,             \* cookies.json of each collection
  told,            \* history: what was set last, as it was asked for
  tab,             \* #selectedId and #cookies of the manager, and whose they are
  asked,           \* store:cookies:list calls under way
  saving,          \* a save that has deleted the old entry and awaits the answer
  strayed,         \* history: a row of one jar was saved to or deleted from another
  jarWrites        \* responses and edits so far

cookieVars == <<now, jar, told, tab, asked, saving, strayed, jarWrites>>

RootPath == <<Blank>>

\* Everything up to the rightmost slash.
DefaultPath(path) == IF Len(path) = 1 THEN RootPath ELSE Front(path)

DomainMatch(host, domain) == IsPrefix(domain, host)

\* A prefix counts only at the boundary of a segment.
PathMatch(path, of) ==
  \/ path = of
  \/ IsStrictPrefix(IF Last(of) = Blank THEN Front(of) ELSE of, path)

\* Max-Age goes before Expires; zero expires at once.
ResolveExpiry(line) ==
  IF line.maxAge = Unset THEN line.expires
  ELSE IF line.maxAge <= 0 THEN now - 1 ELSE now + line.maxAge

Expired(c) == c.expires # Unset /\ c.expires <= now
Identity(c) == <<c.domain, c.path>>

\* cookieFromSetCookie: the entry of an accepted line, {} for a foreign Domain.
FromSetCookie(line, url) ==
  IF line.domain # Unset /\ ~DomainMatch(url.host, line.domain) THEN {}
  ELSE {[domain |-> IF line.domain = Unset THEN url.host ELSE line.domain,
         path |-> IF line.path = Unset THEN DefaultPath(url.path) ELSE line.path,
         hostOnly |-> line.domain = Unset, secure |-> line.secure,
         expires |-> ResolveExpiry(line), value |-> line.value]}

PruneExpired(cookies) == {c \in cookies : ~Expired(c)}

\* Variant: an expired cookie leaves the one it should delete.
Variant_UpsertIgnoresExpired(cookies, new) ==
  IF Expired(new) THEN PruneExpired(cookies)
  ELSE {c \in PruneExpired(cookies) : Identity(c) # Identity(new)} \cup {new}

\* The new entry replaces the one of its identity; an expired one deletes it.
Upsert(cookies, new) ==
  {c \in PruneExpired(cookies) : Identity(c) # Identity(new)} \cup PruneExpired({new})

\* selectCookies
SelectCookies(cookies, url) ==
  {c \in PruneExpired(cookies) :
     /\ c.secure => url.tls
     /\ IF c.hostOnly THEN url.host = c.domain ELSE DomainMatch(url.host, c.domain)
     /\ PathMatch(url.path, c.path)}

-----------------------------------------------------------------------------
\* The manager is open on the collection it was opened for.
CookieInit ==
  /\ now = 1 /\ jar = [c \in Jars |-> {}] /\ told = [c \in Jars |-> {}]
  /\ \E c \in Jars : tab = [selected |-> c, rows |-> {}, of |-> c]
  /\ asked = {tab.selected} /\ saving = Unset /\ strayed = FALSE /\ jarWrites = 0

TimePasses ==
  /\ now < MaxTime /\ now' = now + 1
  /\ UNCHANGED <<jar, told, tab, asked, saving, strayed, jarWrites>>

JarWrite == jarWrites < MaxJarWrites /\ jarWrites' = jarWrites + 1

\* What a jar was told, in the words it was told in: a line and its URL.  A
\* later order for the same entry takes the place of the earlier one.
Order(line, url) == [line |-> line, url |-> url, at |-> now]
EntryOf(o) == <<IF o.line.domain = Unset THEN o.url.host ELSE o.line.domain,
                IF o.line.path = Unset THEN DefaultPath(o.url.path) ELSE o.line.path>>
Ordered(os, o) == {p \in os : EntryOf(p) # EntryOf(o)} \cup {o}

\* One line more of a response, in the jar and in what it was told; a foreign
\* one is skipped.
WithLine(s, line, url) ==
  IF FromSetCookie(line, url) = {} THEN s
  ELSE [jar  |-> Upsert(s.jar, CHOOSE new \in FromSetCookie(line, url) : TRUE),
        told |-> Ordered(s.told, Order(line, url))]

\* The loop over the lines of a response.
Captured(s, url, response) ==
  LET after[n \in 0..Len(response)] ==
        IF n = 0 THEN s ELSE WithLine(after[n - 1], response[n], url)
  IN after[Len(response)]

\* captureCookies, for any response of an execution: one read, one write.
CaptureCookies(c, url, response) ==
  LET end == Captured([jar |-> PruneExpired(jar[c]), told |-> told[c]], url, response) IN
  /\ JarWrite
  /\ jar' = [jar EXCEPT ![c] = end.jar] /\ told' = [told EXCEPT ![c] = end.told]
  /\ UNCHANGED <<now, tab, asked, saving, strayed>>

-----------------------------------------------------------------------------
(* The manager *)

\* The list is asked for; the rows on screen stay until it is there.
SelectJar(c) ==
  /\ c # tab.selected
  /\ tab' = [tab EXCEPT !.selected = c] /\ asked' = asked \cup {c}
  /\ UNCHANGED <<now, jar, told, saving, strayed, jarWrites>>

\* The tab is chosen again, or the switch of collection has been carried out.
Reload ==
  /\ tab.selected \notin asked /\ asked' = asked \cup {tab.selected}
  /\ UNCHANGED <<now, jar, told, tab, saving, strayed, jarWrites>>

\* listCookies prunes; a list of another collection than the one selected by
\* now is dropped.
ListArrives(c) ==
  /\ c \in asked /\ asked' = asked \ {c}
  /\ jar' = [jar EXCEPT ![c] = PruneExpired(@)]
  /\ tab' = IF tab.selected = c THEN [tab EXCEPT !.rows = jar'[c], !.of = c] ELSE tab
  /\ UNCHANGED <<now, told, saving, strayed, jarWrites>>

\* A list that fails is shown as an empty one.
ListFails(c) ==
  /\ c \in asked /\ asked' = asked \ {c}
  /\ tab' = IF tab.selected = c THEN [tab EXCEPT !.rows = {}, !.of = c] ELSE tab
  /\ UNCHANGED <<now, jar, told, saving, strayed, jarWrites>>

\* What the user asks for, as a line: a new cookie is for the whole domain, an
\* edited one keeps its scope.
AskedFor(c) ==
  Order([domain |-> IF c.hostOnly THEN Unset ELSE c.domain, path |-> c.path,
         secure |-> c.secure, maxAge |-> Unset, expires |-> c.expires, value |-> c.value],
        [host |-> c.domain, path |-> c.path, tls |-> TRUE])

\* store:cookies:upsert, followed by a reload; it goes to the selected jar.
StoreCookie(c, of) ==
  /\ jar' = [jar EXCEPT ![tab.selected] = Upsert(@, c)]
  /\ told' = [told EXCEPT ![of] = Ordered(@, AskedFor(c))]
  /\ strayed' = (strayed \/ tab.selected # of)
  /\ asked' = asked \cup {tab.selected}

ForgetCookie(c, of) ==
  /\ jar' = [jar EXCEPT ![tab.selected] = {d \in @ : Identity(d) # Identity(c)}]
  /\ told' = [told EXCEPT ![of] = {o \in @ : EntryOf(o) # Identity(c)}]
  /\ strayed' = (strayed \/ tab.selected # of)

\* Save of an edited row: another identity is another entry, so the old one is
\* deleted first, and the new one stored when that is answered.  One such save
\* is under way at a time.
SaveMoved(c, new) ==
  /\ c \in tab.rows /\ saving = Unset /\ JarWrite
  /\ Identity(new) # Identity(c)
  /\ ForgetCookie(c, tab.of) /\ saving' = [cookie |-> new, of |-> tab.of]
  /\ UNCHANGED <<now, tab, asked>>

DeleteAnswered ==
  /\ saving # Unset /\ StoreCookie(saving.cookie, saving.of)
  /\ saving' = Unset
  /\ UNCHANGED <<now, tab, jarWrites>>

\* The write throws: the editor stays open, the old entry is gone.
StoreFails ==
  /\ saving # Unset /\ saving' = Unset
  /\ UNCHANGED <<now, jar, told, tab, asked, strayed, jarWrites>>

\* Save of a row that keeps its identity.
SaveInPlace(c, new) ==
  /\ c \in tab.rows /\ JarWrite
  /\ Identity(new) = Identity(c)
  /\ StoreCookie(new, tab.of)
  /\ UNCHANGED <<now, tab, saving>>

\* Save of the blank row; it is of no jar but the one selected.
AddCookie(new) ==
  /\ JarWrite
  /\ StoreCookie(new, tab.selected)
  /\ UNCHANGED <<now, tab, saving>>

DeleteRow(c) ==
  /\ c \in tab.rows /\ JarWrite
  /\ ForgetCookie(c, tab.of) /\ asked' = asked \cup {tab.selected}
  /\ UNCHANGED <<now, tab, saving>>

\* clearJar
ClearAll ==
  /\ tab.rows # {} /\ JarWrite
  /\ jar' = [jar EXCEPT ![tab.selected] = {}]
  /\ told' = [told EXCEPT ![tab.selected] = {}]
  /\ asked' = asked \cup {tab.selected}
  /\ UNCHANGED <<now, tab, saving, strayed>>

\* An edit changes the path, or the value and the expiry.
Edits(c) == {[c EXCEPT !.path = RootPath], [c EXCEPT !.value = "edited", !.expires = Unset]}
NewCookie(url) == [domain |-> url.host, path |-> RootPath, hostOnly |-> FALSE, secure |-> FALSE,
                   expires |-> Unset, value |-> "edited"]

CookieNext ==
  \/ TimePasses
  \/ \E c \in Jars : SelectJar(c) \/ ListArrives(c) \/ ListFails(c)
  \/ \E c \in Jars, url \in Urls, response \in Responses : CaptureCookies(c, url, response)
  \/ \E c \in tab.rows : \E new \in Edits(c) : SaveMoved(c, new) \/ SaveInPlace(c, new)
  \/ \E c \in tab.rows : DeleteRow(c)
  \/ \E url \in Urls : AddCookie(NewCookie(url))
  \/ Reload \/ DeleteAnswered \/ StoreFails \/ ClearAll

CookieSpec == CookieInit /\ [][CookieNext]_cookieVars

-----------------------------------------------------------------------------
(* Properties *)

\* The type invariant: a jar has one entry for each identity.
CookieTypeOK ==
  /\ now \in 1..MaxTime /\ jarWrites \in 0..MaxJarWrites /\ strayed \in BOOLEAN
  /\ tab.selected \in Jars /\ tab.of \in Jars /\ asked \subseteq Jars
  /\ \A c \in Jars : \A d, e \in jar[c] : Identity(d) = Identity(e) => d = e

\* When an order is still good, read off the order itself.
StillGood(o) ==
  IF o.line.maxAge # Unset THEN o.line.maxAge > now - o.at
  ELSE o.line.expires # Unset => now < o.line.expires

\* What RFC 6265 has a request carry, read off the orders: a cookie goes back
\* to the host that set it, or, with a Domain, to every host under it, at and
\* below its path, in the clear only if it may, until it expires.
Due(os, url) ==
  {o.line.value : o \in {o \in os :
     /\ StillGood(o)
     /\ o.line.secure => url.tls
     /\ o.line.domain = Unset => url.host = o.url.host
     /\ o.line.domain # Unset => \E rest \in 0..Len(url.host) :
          SubSeq(url.host, 1, Len(url.host) - rest) = o.line.domain
     /\ EntryOf(o)[2] \in {url.path, RootPath} \cup
          UNION {{SubSeq(url.path, 1, n), Append(SubSeq(url.path, 1, n), Blank)}
                   : n \in 1..(Len(url.path) - 1)}}}

\* Whatever responses, edits, expiry and pruning came before, a request carries
\* the cookies that were set last for it and no other ("expired cookies are not
\* sent", "clearing takes effect immediately"; cookie-jar.js 240-305).  Not
\* covered: a row saved or deleted when another collection is selected by then.
RequestsCarryWhatIsDue ==
  ~strayed => \A c \in Jars, url \in Urls :
    {d.value : d \in SelectCookies(jar[c], url)} = Due(told[c], url)

\* Does not hold: what the user does to a row is done to the jar it is of.
EditsStayInTheirJar == ~strayed
=============================================================================

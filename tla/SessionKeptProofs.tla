------------------------- MODULE SessionKeptProofs -------------------------
(***************************************************************************)
(* Which answers end a session in the tab.  A refusal is always about a    *)
(* dead token (Truthful), whatever is lost.  While no request is lost, the *)
(* refresh cookie of a session is in one place at a time: its first pair   *)
(* comes when it has none yet (Pairs, Grants), one refresh at a time       *)
(* exchanges it (Owners), and the tab holds the pair in force or its       *)
(* successor is on its way (TabCurrent).  So the cookie of the stored      *)
(* session is refused only when that session is revoked.                   *)
(***************************************************************************)
EXTENDS SessionClientProofs

USE DEF NoToken, NoUser

Refused(r) ==
    \/ r.kind \in SessionKinds /\ r.stage # "refresh" /\ r.status = "401"
    \/ r.kind \in AppKinds /\ r.status = "410"

Faithful(r) ==
    /\ r.sent <= issued /\ r.token <= issued
    /\ r.stage = "refresh" => r.kind \in Refreshes
    /\ r.kind = "jwt" => r.token = NoToken
    /\ Refused(r) => Status(r.sent) # "live"

Truthful ==
    /\ tab.session <= issued
    /\ \A c \in InFlight :
          /\ Faithful(calls[c])
          /\ calls[c].stage = "refresh" /\ calls[c].status # "wait" => calls[c].awaits = c

\* A cookie of a session that has a pair, and one that is the pair in force.
Known(k) == k.session # NoToken => k.session <= issued /\ sessions[k.session].gen # 0
Current(k) == k.session # NoToken => sessions[k.session].gen = k.gen

Granted(r) == r.kind \in {"login", "mfa"} /\ r.status = "ok"

Pairing(r) == r.kind = "jwt" /\ r.status = "ok"

Owners ==
    /\ \A o, p \in RefreshOwners : o = p
    /\ \A o \in RefreshOwners :
          /\ calls[o].status \in {"wait", "ok"} => Current(calls[o].cookie)
          /\ /\ calls[o].status \notin {"wait", "ok"}
             /\ calls[o].sent # NoToken /\ calls[o].cookie.session = calls[o].sent
             => Status(calls[o].sent) = "revoked"

Cookies == Known(tab.cookie) /\ \A c \in InFlight : Known(calls[c].cookie)

TabCurrent ==
    \/ Current(tab.cookie)
    \/ \E o \in RefreshOwners : /\ calls[o].status = "ok"
                                /\ calls[o].cookie.session = tab.cookie.session

Pairs ==
    /\ \A c, d \in InFlight :
          calls[c].kind = "jwt" /\ calls[d].kind = "jwt" /\ calls[c].sent = calls[d].sent
          => c = d
    /\ \A c \in InFlight : calls[c].kind = "jwt" =>
          /\ calls[c].sent # NoToken
          /\ calls[c].status = "wait" => sessions[calls[c].sent].gen = 0
    /\ \A c \in InFlight : Pairing(calls[c]) =>
          /\ calls[c].cookie.session = calls[c].sent /\ Current(calls[c].cookie)
          /\ tab.cookie.session # calls[c].sent
          /\ \A d \in InFlight : d # c => calls[d].cookie.session # calls[c].sent

Grants ==
    /\ \A c, d \in InFlight :
          Granted(calls[c]) /\ Granted(calls[d]) /\ calls[c].token = calls[d].token => c = d
    /\ \A c \in InFlight : Granted(calls[c]) =>
          /\ calls[c].token # NoToken /\ sessions[calls[c].token].gen = 0
          /\ \A d \in InFlight : calls[d].kind = "jwt" => calls[d].sent # calls[c].token

Tickets == Owners /\ Cookies /\ TabCurrent /\ Pairs /\ Grants

\* What a step of the browser leaves of a call, or makes of one.
Stays(d) ==
    /\ d \in InFlight
    /\ calls'[d].kind = calls[d].kind /\ calls'[d].stage = calls[d].stage
    /\ calls'[d].sent = calls[d].sent /\ calls'[d].status = calls[d].status
    /\ calls'[d].token = calls[d].token /\ calls'[d].awaits = calls[d].awaits
    /\ calls'[d].cookie = calls[d].cookie

Asked(d) ==
    /\ calls'[d].status = "wait" /\ calls'[d].token = NoToken
    /\ calls'[d].sent = tab'.session

\* A request sent anew, the first pair asked for, a refresh.
Restarted(d) ==
    Asked(d) /\ calls'[d].kind # "jwt" /\ calls'[d].stage # "refresh"
             /\ calls'[d].cookie = NoCookie

Exchanged(d) ==
    /\ Asked(d) /\ d \in InFlight /\ Granted(calls[d])
    /\ calls'[d].kind = "jwt" /\ calls'[d].stage # "refresh" /\ calls'[d].cookie = NoCookie
    /\ calls[d].token # NoToken => calls'[d].sent = calls[d].token

Refreshing(d) ==
    /\ Asked(d) /\ calls'[d].kind \in Refreshes /\ calls'[d].stage = "refresh"
    /\ calls'[d].cookie = tab.cookie
    /\ calls'[d].awaits = d =>
          RefreshOwners = {} /\ \A e \in Calls : e # d /\ calls'[e] # NoCall => Stays(e)

Browser ==
    /\ UNCHANGED <<sessions, issued>>
    /\ tab'.session <= issued
    /\ \A d \in Calls : calls'[d] # NoCall =>
          Stays(d) \/ Restarted(d) \/ Exchanged(d) \/ Refreshing(d)

\* What a step of the browser does with the cookie.
CookieStays ==
    /\ tab'.cookie = tab.cookie
    /\ \A o \in RefreshOwners : calls[o].status = "ok" => calls'[o] # NoCall /\ Stays(o)

CookieDropped == tab'.cookie = NoCookie

CookieTaken ==
    \E c \in InFlight : /\ tab'.cookie = calls[c].cookie /\ calls[c].status = "ok"
                        /\ c \in RefreshOwners \/ calls[c].kind = "jwt"
                        /\ calls'[c] # NoCall => calls'[c].kind # "jwt"

\* No step of the browser makes an answer untrue.
LEMMA BrowserTruthful ==
    ASSUME Inv, Truthful, Browser
    PROVE  Truthful'
<1>1. /\ sessions' = sessions /\ issued' = issued /\ tab'.session <= issued
      /\ \A t : Status(t)' = Status(t)
  BY DEF Browser, Status
<1>2. ASSUME NEW d \in Calls, calls'[d] # NoCall PROVE Faithful(calls[d])'
  <2>1. \A t : t = calls'[d].sent => Status(calls[d].sent)' = Status(t)'
    BY DEF Status
  <2>2. CASE Stays(d)
    <3>1. Faithful(calls[d])
      BY <2>2 DEF Stays, Truthful
    <3>2. Status(calls[d].sent)' = Status(calls[d].sent)
      BY <1>1, <2>1, <2>2 DEF Stays
    <3> QED BY <1>1, <2>2, <3>1, <3>2 DEF Stays, Faithful, Refused
  <2>3. CASE Asked(d) /\ (calls'[d].stage = "refresh" => calls'[d].kind \in Refreshes)
    <3>1. calls'[d].token <= issued
      BY <2>3 DEF Asked, Inv, TypeOK
    <3> QED BY <1>1, <2>3, <3>1 DEF Asked, Faithful, Refused
  <2> QED BY <1>2, <2>2, <2>3 DEF Browser, Restarted, Exchanged, Refreshing
<1>3. ASSUME NEW d \in Calls, calls'[d] # NoCall
      PROVE  calls'[d].stage = "refresh" /\ calls'[d].status # "wait" => calls'[d].awaits = d
  BY <1>3 DEF Browser, Stays, Restarted, Exchanged, Refreshing, Asked, Truthful
<1> QED BY <1>1, <1>2, <1>3 DEF Truthful, InFlight

\* A step of the browser keeps every cookie in one place.
LEMMA BrowserTickets ==
    ASSUME Inv, Truthful, Tickets, Browser, CookieStays \/ CookieDropped \/ CookieTaken
    PROVE  Tickets'
<1>1. /\ sessions' = sessions /\ issued' = issued
      /\ \A t : Status(t)' = Status(t)
      /\ \A k : (Known(k)' <=> Known(k)) /\ (Current(k)' <=> Current(k))
  BY DEF Browser, Status, Known, Current
<1>2. ASSUME NEW d \in InFlight'
      PROVE  d \in Calls /\ (Stays(d) \/ Restarted(d) \/ Exchanged(d) \/ Refreshing(d))
  BY <1>2 DEF Browser, InFlight
<1>3. Known(NoCookie) /\ Current(NoCookie)
  BY DEF Known, Current, NoCookie
<1>4. Owners'
  <2>1. ASSUME NEW o \in RefreshOwners' PROVE Stays(o) \/ (Refreshing(o) /\ calls'[o].awaits = o)
    BY <1>2, <2>1 DEF RefreshOwners, Restarted, Exchanged
  <2>2. \A o \in RefreshOwners' : Stays(o) => o \in RefreshOwners
    BY DEF RefreshOwners, Stays
  <2>3. ASSUME NEW o \in RefreshOwners', NEW p \in RefreshOwners' PROVE o = p
    <3>1. o \in Calls /\ calls'[o] # NoCall /\ p \in Calls /\ calls'[p] # NoCall
      BY DEF RefreshOwners, InFlight
    <3>2. Owners
      BY DEF Tickets
    <3> QED BY <2>1, <2>2, <3>1, <3>2 DEF Owners, Refreshing
  <2>4. ASSUME NEW o \in RefreshOwners'
        PROVE  /\ calls'[o].status \in {"wait", "ok"} => Current(calls'[o].cookie)
               /\ /\ calls'[o].status \notin {"wait", "ok"}
                  /\ calls'[o].sent # NoToken /\ calls'[o].cookie.session = calls'[o].sent
                  => Status(calls'[o].sent) = "revoked"
    <3>1. CASE Stays(o)
      <4>1. o \in RefreshOwners /\ Owners
        BY <2>2, <3>1 DEF Tickets
      <4> QED BY <3>1, <4>1 DEF Stays, Owners
    <3>2. CASE Refreshing(o) /\ calls'[o].awaits = o
      <4>1. Current(tab.cookie)
        BY <3>2 DEF Refreshing, Tickets, TabCurrent
      <4> QED BY <3>2, <4>1 DEF Refreshing, Asked
    <3> QED BY <2>1, <3>1, <3>2
  <2>5. \A o : \A k : k = calls'[o].cookie => (Current(calls[o].cookie)' <=> Current(k)')
    BY DEF Current
  <2>6. \A o : \A t : t = calls'[o].sent => Status(calls[o].sent)' = Status(t)'
    BY DEF Status
  <2> QED BY <1>1, <2>3, <2>4, <2>5, <2>6 DEF Owners
<1>5. Known(tab'.cookie)
  BY <1>3 DEF CookieStays, CookieDropped, CookieTaken, Tickets, Cookies
<1>6. ASSUME NEW d \in InFlight' PROVE Known(calls'[d].cookie)
  <2>1. CASE Stays(d)
    BY <2>1 DEF Stays, Tickets, Cookies
  <2>2. CASE Restarted(d) \/ Exchanged(d) \/ Refreshing(d)
    BY <1>3, <2>2 DEF Restarted, Exchanged, Refreshing, Tickets, Cookies
  <2> QED BY <1>2, <2>1, <2>2
<1>7. Cookies'
  <2>1. \A k : k = tab'.cookie => (Known(tab.cookie)' <=> Known(k)')
    BY DEF Known
  <2>2. \A d : \A k : k = calls'[d].cookie => (Known(calls[d].cookie)' <=> Known(k)')
    BY DEF Known
  <2> QED BY <1>1, <1>5, <1>6, <2>1, <2>2 DEF Cookies
<1>8. TabCurrent'
  <2>1. \A k : k = tab'.cookie => (Current(tab.cookie)' <=> Current(k)')
    BY DEF Current
  <2>2. CASE Current(tab'.cookie)
    BY <1>1, <2>1, <2>2 DEF TabCurrent
  <2>3. CASE CookieStays /\ ~Current(tab'.cookie)
    <3>1. PICK o \in RefreshOwners : calls[o].status = "ok"
                                     /\ calls[o].cookie.session = tab.cookie.session
      BY <2>3 DEF Tickets, TabCurrent, CookieStays
    <3>2. calls'[o] # NoCall /\ Stays(o) /\ o \in Calls
      BY <2>3, <3>1 DEF CookieStays, RefreshOwners, InFlight
    <3>3. o \in RefreshOwners'
      BY <3>1, <3>2 DEF RefreshOwners, InFlight, Stays
    <3> QED BY <2>3, <3>1, <3>2, <3>3 DEF TabCurrent, CookieStays, Stays
  <2>4. CookieDropped => Current(tab'.cookie)
    BY <1>3 DEF CookieDropped
  <2>5. CookieTaken => Current(tab'.cookie)
    BY DEF CookieTaken, Tickets, Owners, Pairs, Pairing
  <2> QED BY <2>2, <2>3, <2>4, <2>5
<1>9. Pairs'
  <2>1. ASSUME NEW d \in InFlight', calls'[d].kind = "jwt"
        PROVE  Stays(d) \/ Exchanged(d)
    BY <1>2, <2>1 DEF Restarted, Refreshing, Refreshes
  <2>2. \A d : Exchanged(d) => /\ d \in InFlight /\ Granted(calls[d]) /\ calls[d].token # NoToken
                               /\ calls'[d].sent = calls[d].token /\ calls'[d].status = "wait"
                               /\ sessions[calls[d].token].gen = 0
                               /\ calls'[d].cookie = NoCookie
    BY DEF Exchanged, Asked, Tickets, Grants
  <2>3. ASSUME NEW c \in InFlight', NEW d \in InFlight',
               calls'[c].kind = "jwt", calls'[d].kind = "jwt", calls'[c].sent = calls'[d].sent
        PROVE  c = d
    BY <2>1, <2>2, <2>3 DEF Stays, Tickets, Pairs, Grants
  <2>4. ASSUME NEW c \in InFlight', calls'[c].kind = "jwt"
        PROVE  /\ calls'[c].sent # NoToken
               /\ calls'[c].status = "wait" => sessions[calls'[c].sent].gen = 0
    BY <2>1, <2>2, <2>4 DEF Stays, Tickets, Pairs
  <2>5. ASSUME NEW c \in InFlight', Pairing(calls'[c])
        PROVE  /\ Stays(c) /\ Pairing(calls[c])
               /\ calls'[c].cookie.session = calls'[c].sent /\ Current(calls'[c].cookie)
               /\ calls'[c].sent = calls[c].sent
    <3>1. Stays(c)
      BY <2>1, <2>2, <2>5 DEF Pairing
    <3> QED BY <2>5, <3>1 DEF Pairing, Stays, Tickets, Pairs
  <2>6. ASSUME NEW c \in InFlight', Pairing(calls'[c])
        PROVE  tab'.cookie.session # calls[c].sent
    <3>1. /\ c \in InFlight /\ Pairing(calls[c]) /\ calls[c].sent # NoToken
          /\ calls'[c].kind = "jwt" /\ calls'[c] # NoCall
      BY <2>5, <2>6 DEF Stays, Pairing, Tickets, Pairs, InFlight
    <3>2. CASE CookieStays
      BY <3>1, <3>2 DEF CookieStays, Tickets, Pairs
    <3>3. CASE CookieDropped
      BY <3>1, <3>3 DEF CookieDropped, NoCookie
    <3>4. CASE CookieTaken
      <4>1. PICK e \in InFlight : /\ tab'.cookie = calls[e].cookie
                                  /\ calls'[e] # NoCall => calls'[e].kind # "jwt"
        BY <3>4 DEF CookieTaken
      <4> QED BY <3>1, <4>1 DEF Tickets, Pairs
    <3> QED BY <3>2, <3>3, <3>4
  <2>7. ASSUME NEW c \in InFlight', Pairing(calls'[c]), NEW d \in InFlight', d # c
        PROVE  calls'[d].cookie.session # calls[c].sent
    <3>1. /\ c \in InFlight /\ Pairing(calls[c]) /\ calls[c].sent # NoToken
      BY <2>5, <2>7 DEF Stays, Pairing, Tickets, Pairs
    <3>2. CASE Stays(d)
      BY <2>7, <3>1, <3>2 DEF Stays, Tickets, Pairs
    <3>3. CASE Restarted(d) \/ Exchanged(d)
      BY <3>1, <3>3 DEF Restarted, Exchanged, NoCookie
    <3>4. CASE Refreshing(d)
      BY <3>1, <3>4 DEF Refreshing, Tickets, Pairs
    <3> QED BY <1>2, <3>2, <3>3, <3>4
  <2>8. \A d : \A k : k = calls'[d].cookie => (Current(calls[d].cookie)' <=> Current(k)')
    BY DEF Current
  <2>9. \A c : Pairing(calls[c])' <=> Pairing(calls'[c])
    BY DEF Pairing
  <2> QED BY <1>1, <2>3, <2>4, <2>5, <2>6, <2>7, <2>8, <2>9 DEF Pairs
<1>10. Grants'
  <2>1. ASSUME NEW c \in InFlight', Granted(calls'[c])
        PROVE  Stays(c) /\ Granted(calls[c])
    BY <1>2, <2>1 DEF Restarted, Exchanged, Refreshing, Asked, Granted, Stays
  <2>2. ASSUME NEW c \in InFlight', Granted(calls'[c]), NEW d \in InFlight',
               calls'[d].kind = "jwt"
        PROVE  calls'[d].sent # calls'[c].token
    <3>1. Stays(c) /\ Granted(calls[c]) /\ c \in InFlight /\ calls[c].token # NoToken
      BY <2>1, <2>2 DEF Stays, Tickets, Grants
    <3>2. CASE Stays(d)
      BY <2>2, <3>1, <3>2 DEF Stays, Tickets, Grants
    <3>3. CASE Exchanged(d)
      <4>1. d # c
        BY <2>2, <3>1 DEF Granted, Stays
      <4> QED BY <3>1, <3>3, <4>1 DEF Exchanged, Stays, Tickets, Grants
    <3> QED BY <1>2, <2>2, <3>2, <3>3 DEF Restarted, Refreshing, Refreshes
  <2>3. \A c : Granted(calls[c])' <=> Granted(calls'[c])
    BY DEF Granted
  <2> QED BY <1>1, <2>1, <2>2, <2>3 DEF Grants, Stays, Tickets
<1> QED BY <1>4, <1>7, <1>8, <1>9, <1>10 DEF Tickets

\* An outdated call keeps its answer and its cookie.
LEMMA OutdatedStays ==
    ASSUME Inv, NEW kinds, NEW d \in Calls, calls'[d] = Outdated(calls, kinds)[d]
    PROVE  /\ calls'[d] # NoCall => Stays(d)
           /\ d \in InFlight => calls'[d] # NoCall
<1>1. /\ calls'[d] # NoCall <=> d \in InFlight
      /\ calls'[d].kind = calls[d].kind /\ calls'[d].stage = calls[d].stage
      /\ calls'[d].sent = calls[d].sent /\ calls'[d].status = calls[d].status
      /\ calls'[d].token = calls[d].token
  BY OutdatedKeeps
<1>2. d \in InFlight => calls'[d].awaits = calls[d].awaits /\ calls'[d].cookie = calls[d].cookie
  <2> SUFFICES ASSUME d \in InFlight
               PROVE  calls'[d].awaits = calls[d].awaits /\ calls'[d].cookie = calls[d].cookie
    OBVIOUS
  <2>1. calls[d] \in Call
    BY CallFields
  <2>2. calls'[d] \in {calls[d], [calls[d] EXCEPT !.current = FALSE]}
    BY DEF Outdated
  <2> QED BY <2>1, <2>2 DEF Call
<1> QED BY <1>1, <1>2 DEF Stays

\* So does every call when the auth event is sent, or is not.
LEMMA AfterEventStays ==
    ASSUME Inv, NEW event \in BOOLEAN, NEW d \in Calls, calls'[d] = AfterEvent(calls, event)[d]
    PROVE  /\ calls'[d] # NoCall => Stays(d)
           /\ d \in InFlight => calls'[d] # NoCall
<1>1. CASE event
  BY <1>1, OutdatedStays DEF AfterEvent
<1>2. CASE ~event
  BY <1>2 DEF AfterEvent, Stays, InFlight
<1> QED BY <1>1, <1>2

\* A clearing touches neither the cookie nor the shape of the tab.
LEMMA ClearedCookie ==
    ASSUME NEW t \in Tab
    PROVE  Cleared(t).cookie = t.cookie /\ Cleared(t) \in Tab
<1> DEFINE empty == [t EXCEPT !.session = NoToken, !.access = FALSE, !.pending = FALSE]
<1>1. empty \in Tab /\ empty.cookie = t.cookie
  BY Constants DEF Tab
<1> HIDE DEF empty
<1>2. Announced(empty).cookie = empty.cookie /\ Announced(empty) \in Tab
  BY <1>1, AnnouncedGood DEF Announced, Tab, Good
<1>3. Cleared(t) \in {empty, Announced(empty)}
  BY DEF Cleared, empty
<1> QED BY <1>1, <1>2, <1>3

\* Who throws is gone, the others stay; the session goes with a hard logout or logout().
LEMMA ThrowFields ==
    ASSUME Inv, NEW who, NEW t \in Tab, NEW hard \in BOOLEAN, Throw(who, t, hard)
    PROVE  /\ tab'.cookie = t.cookie /\ tab'.session \in {NoToken, t.session}
           /\ ~hard /\ (\A c \in who : calls[c].kind # "logout") => tab'.session = t.session
           /\ \A d \in Calls : d \in who => calls'[d] = NoCall
           /\ \A d \in Calls : calls'[d] # NoCall => Stays(d)
           /\ \A d \in InFlight : d \notin who => calls'[d] # NoCall
<1> DEFINE clears == hard \/ \E c \in who : calls[c].kind = "logout"
           event == clears /\ HasAuth(t)
           after == AfterEvent(calls, event)
           mine(kinds) == \E c \in who : after[c].kind \in kinds /\ after[c].current
           left == IF clears THEN Cleared(t) ELSE t
<1>1. /\ tab' = [left EXCEPT !.profile = IF mine({"profile"}) THEN NoUser ELSE @,
                            !.loading = IF mine({"profile"}) THEN FALSE ELSE @,
                            !.busy = IF mine(Flow) THEN FALSE ELSE @]
      /\ calls' = [c \in Calls |-> IF c \in who THEN NoCall ELSE after[c]]
  BY DEF Throw
<1>2. event \in BOOLEAN
  BY DEF HasAuth
<1>3. /\ left \in Tab /\ left.cookie = t.cookie /\ left.session \in {NoToken, t.session}
      /\ ~hard /\ (\A c \in who : calls[c].kind # "logout") => left = t
  BY ClearedCookie, ClearedSession
<1>4. /\ \A d \in Calls : d \in who => calls'[d] = NoCall
      /\ \A d \in Calls : d \notin who => calls'[d] = AfterEvent(calls, event)[d]
  BY <1>1
<1> HIDE DEF mine, left, after
<1>5. tab'.session = left.session /\ tab'.cookie = left.cookie
  BY <1>1, <1>3 DEF Tab
<1>6. \A d \in Calls : calls'[d] # NoCall => Stays(d)
  BY <1>2, <1>4, AfterEventStays
<1>7. \A d \in InFlight : d \notin who => calls'[d] # NoCall
  BY <1>2, <1>4, AfterEventStays DEF InFlight
<1> QED BY <1>3, <1>4, <1>5, <1>6, <1>7

\* One call moves on or ends, the others stay.
LEMMA GoStays ==
    ASSUME Inv, NEW c \in Calls, NEW t, NEW call, Go(c, t, call)
    PROVE  /\ tab' = t /\ calls'[c] = call
           /\ \A d \in Calls : d # c /\ calls'[d] # NoCall => Stays(d)
           /\ \A d \in InFlight : d # c => calls'[d] # NoCall /\ Stays(d)
BY InvGood DEF Go, CallsOK, Stays, InFlight

\* A new request carries the token that is stored by then.
LEMMA RequestRestarts ==
    ASSUME NEW d, NEW kind, NEW stage, NEW token, NEW current,
           calls'[d] = Request(kind, stage, token, current),
           token = tab'.session, kind # "jwt", stage # "refresh"
    PROVE  Restarted(d)
BY DEF Request, Restarted, Asked

\* An owner of the refresh is in the stage of a refresh.
LEMMA OwnersRefresh ==
    \A o \in RefreshOwners : o \in InFlight /\ o \in Calls /\ calls[o].stage = "refresh"
BY DEF RefreshOwners, InFlight

\* A token put into the storage: the cookie is another matter.
LEMMA WithTokenFields ==
    ASSUME NEW t \in Tab, NEW token \in TokenOrNone
    PROVE  /\ WithToken(t, token) \in Tab /\ WithToken(t, token).cookie = t.cookie
           /\ WithToken(t, token).pending = t.pending
           /\ WithToken(t, token).session = IF token = NoToken THEN t.session ELSE token
BY DEF WithToken, Tab

\* The same of the token of an answer.
LEMMA StoredFields ==
    ASSUME NEW t \in Tab, NEW r, r.token \in TokenOrNone
    PROVE  /\ Stored(t, r) \in Tab /\ Stored(t, r).cookie = t.cookie
           /\ Stored(t, r).session \in {t.session, r.token}
           /\ t.session # NoToken => Stored(t, r).session # NoToken
BY WithTokenFields DEF Stored

\* What a step of one call does to the cookie.
LEMMA OthersStay ==
    ASSUME Inv, NEW c \in Calls, calls[c].stage # "refresh" \/ c \notin InFlight,
           tab'.cookie = tab.cookie,
           \A d \in InFlight : d # c => calls'[d] # NoCall /\ Stays(d)
    PROVE  CookieStays
<1>1. \A o \in RefreshOwners : o # c
  BY OwnersRefresh
<1> QED BY <1>1, OwnersRefresh DEF CookieStays

\* An answer of requestWithSession: only jwt brings a cookie, only logout drops it.
LEMMA SessionOkBrowser ==
    ASSUME Inv, Truthful, NEW c \in Calls, SessionOk(c)
    PROVE  Browser /\ (CookieStays \/ CookieDropped \/ CookieTaken)
<1> DEFINE r == calls[c]
           t == Stored(tab, r)
<1>1. /\ c \in InFlight /\ r.kind \in SessionKinds /\ r.stage # "refresh" /\ r.status = "ok"
      /\ UNCHANGED <<sessions, issued>>
  BY DEF SessionOk, Answered, ClientUnchanged
<1>2. tab \in Tab /\ r.token \in TokenOrNone /\ tab.session <= issued /\ r.token <= issued
  BY <1>1, CallFields DEF Inv, TypeOK, Truthful, Faithful
<1>3. t \in Tab /\ t.cookie = tab.cookie /\ t.session <= issued
  BY <1>2, StoredFields
<1> HIDE DEF t
<1>4. ASSUME tab'.session <= issued, tab'.cookie = tab.cookie \/ CookieDropped \/ CookieTaken,
             \A d \in InFlight : d # c => calls'[d] # NoCall /\ Stays(d),
             \A d \in Calls : d # c /\ calls'[d] # NoCall => Stays(d),
             calls'[c] # NoCall => Restarted(c)
      PROVE  Browser /\ (CookieStays \/ CookieDropped \/ CookieTaken)
  <2>1. Browser
    BY <1>1, <1>4 DEF Browser
  <2> QED BY <1>1, <1>4, <2>1, OthersStay
<1>5. CASE r.kind \in {"profile", "page"}
  <2>1. PICK next \in {t, [t EXCEPT !.profile = r.user, !.loading = FALSE]} : Go(c, next, NoCall)
    BY <1>5 DEF SessionOk, t
  <2>2. next.session = t.session /\ next.cookie = t.cookie
    BY <1>3, <2>1 DEF Tab
  <2> QED BY <1>3, <1>4, <2>1, <2>2, GoStays
<1>6. CASE r.kind = "logout"
  <2>1. /\ tab' = [Cleared(t) EXCEPT !.cookie = NoCookie]
        /\ calls' = [AfterEvent(calls, HasAuth(t)) EXCEPT ![c] = NoCall]
    BY <1>6 DEF SessionOk, t
  <2>2. CookieDropped /\ tab'.session = NoToken
    BY <1>3, <2>1, ClearedCookie, ClearedSession DEF CookieDropped, Tab
  <2>3. HasAuth(t) \in BOOLEAN
    BY <1>3 DEF HasAuth, Tab
  <2>4. AfterEvent(calls, HasAuth(t)) \in [Calls -> Call \cup {NoCall}]
    BY InvGood, AfterEventCalls DEF CallsOK
  <2>5. /\ calls'[c] = NoCall
        /\ \A d \in Calls : d # c => calls'[d] = AfterEvent(calls, HasAuth(t))[d]
    BY <2>1, <2>4
  <2>6. \A d \in Calls : d # c => /\ calls'[d] # NoCall => Stays(d)
                                  /\ d \in InFlight => calls'[d] # NoCall
    BY <2>3, <2>5, AfterEventStays
  <2>7. tab'.session <= issued
    BY <2>2 DEF Inv, TypeOK
  <2> QED BY <1>4, <2>2, <2>5, <2>6, <2>7 DEF InFlight
<1>7. CASE r.kind = "jwt"
  <2> DEFINE next == [t EXCEPT !.access = TRUE, !.cookie = r.cookie]
             call == Request("me", "first", t.session, r.current)
  <2>1. Go(c, next, call)
    BY <1>7 DEF SessionOk, t
  <2>2. next.session = t.session /\ next.cookie = r.cookie
    BY <1>3 DEF Tab
  <2> HIDE DEF next
  <2>3. tab' = next /\ calls'[c] = call
    BY <2>1, GoStays
  <2>4. Restarted(c)
    BY <2>2, <2>3, RequestRestarts
  <2>5. CookieTaken
    BY <1>1, <1>7, <2>2, <2>3, <2>4 DEF CookieTaken, Restarted
  <2> QED BY <1>3, <1>4, <2>1, <2>2, <2>3, <2>4, <2>5, GoStays
<1>8. CASE r.kind = "me"
  <2> DEFINE over == [t EXCEPT !.pending = FALSE]
             done == Announced(over)
             call == Request("profile", "first", t.session, TRUE)
  <2>1. /\ tab' = [done EXCEPT !.modal = IF @ = "closed" THEN @ ELSE "done"]
        /\ calls' = [AfterEvent(calls, TRUE) EXCEPT ![c] =
                         IF CanLoadProfile(done) THEN call ELSE NoCall]
    BY <1>8 DEF SessionOk, t
  <2>2. over \in Tab /\ over.session = t.session /\ over.cookie = t.cookie
    BY <1>3 DEF Tab
  <2> HIDE DEF over
  <2>3. done \in Tab
    BY <2>2, AnnouncedGood DEF Good
  <2>4. done.session = over.session /\ done.cookie = over.cookie
    BY <2>2 DEF Announced, Tab
  <2> HIDE DEF done, call
  <2>5. tab'.session = t.session /\ tab'.cookie = tab.cookie
    BY <1>3, <2>1, <2>2, <2>3, <2>4 DEF Tab
  <2>6. AfterEvent(calls, TRUE) \in [Calls -> Call \cup {NoCall}]
    BY InvGood, AfterEventCalls DEF CallsOK
  <2>7. /\ calls'[c] = IF CanLoadProfile(done) THEN call ELSE NoCall
        /\ \A d \in Calls : d # c => calls'[d] = AfterEvent(calls, TRUE)[d]
    BY <2>1, <2>6
  <2>8. \A d \in Calls : d # c => /\ calls'[d] # NoCall => Stays(d)
                                  /\ d \in InFlight => calls'[d] # NoCall
    BY <2>7, AfterEventStays
  <2>9. calls'[c] # NoCall => Restarted(c)
    BY <2>5, <2>7, RequestRestarts DEF call
  <2> QED BY <1>3, <1>4, <2>5, <2>8, <2>9 DEF InFlight
<1> QED BY <1>1, <1>5, <1>6, <1>7, <1>8 DEF SessionKinds

\* A call that throws leaves the other calls and the cookie alone.
LEMMA ThrowBrowser ==
    ASSUME Inv, NEW c \in InFlight, calls[c].stage # "refresh",
           NEW t \in Tab, t.cookie = tab.cookie, t.session <= issued,
           NEW hard \in BOOLEAN, Throw({c}, t, hard), UNCHANGED <<sessions, issued>>
    PROVE  Browser /\ CookieStays
<1> DEFINE who == {c}
<1>1. c \in Calls /\ 0 <= issued /\ Throw(who, t, hard)
  BY DEF InFlight, Inv, TypeOK
<1> HIDE DEF who
<1>2. /\ tab'.cookie = tab.cookie /\ tab'.session \in {NoToken, t.session}
      /\ \A d \in Calls : calls'[d] # NoCall => Stays(d)
      /\ \A d \in InFlight : d \notin who => calls'[d] # NoCall
  BY <1>1, ThrowFields
<1>3. Browser
  BY <1>1, <1>2 DEF Browser
<1>4. \A d \in InFlight : d # c => calls'[d] # NoCall /\ Stays(d)
  BY <1>2 DEF InFlight, who
<1> QED BY <1>1, <1>2, <1>3, <1>4, OthersStay

\* A refusal: the retry carries the token it brought, a refresh the stored cookie.
LEMMA SessionRefusedBrowser ==
    ASSUME Inv, Truthful, NEW c \in Calls,
           SessionThrows(c) \/ SessionRotated(c) \/ SessionUnauthorized(c)
    PROVE  Browser /\ CookieStays
<1> DEFINE r == calls[c]
           t == WithToken(tab, r.token)
<1>1. /\ c \in InFlight /\ r.kind \in SessionKinds /\ r.stage # "refresh"
      /\ UNCHANGED <<sessions, issued>>
  BY DEF SessionThrows, SessionRotated, SessionUnauthorized, Answered, ClientUnchanged
<1>2. /\ tab \in Tab /\ r.token \in TokenOrNone /\ tab.session <= issued /\ r.token <= issued
      /\ 0 <= issued
      /\ r.kind = "jwt" => r.token = NoToken
  BY <1>1, CallFields DEF Inv, TypeOK, Truthful, Faithful
<1>3. t \in Tab /\ t.cookie = tab.cookie /\ t.session <= issued
      /\ (r.token # NoToken => t.session = r.token)
  BY <1>2, WithTokenFields
<1> HIDE DEF t
<1>4. CASE SessionThrows(c)
  <2>1. PICK v \in {tab, t} : Throw({c}, v, FALSE)
    BY <1>4 DEF SessionThrows, t
  <2> QED BY <1>1, <1>2, <1>3, <2>1, ThrowBrowser
<1>5. CASE SessionRotated(c)
  <2> DEFINE call == Request(r.kind, "rotated", r.token, r.current)
  <2>1. Go(c, t, call) /\ r.token # NoToken
    BY <1>5 DEF SessionRotated, Rotates, t
  <2>2. tab' = t /\ calls'[c] = call
    BY <2>1, GoStays
  <2>3. Restarted(c)
    BY <1>2, <1>3, <2>1, <2>2, RequestRestarts
  <2>4. Browser
    BY <1>1, <1>3, <2>1, <2>2, <2>3, GoStays DEF Browser
  <2>5. \A d \in InFlight : d # c => calls'[d] # NoCall /\ Stays(d)
    BY <2>1, GoStays
  <2> QED BY <1>1, <1>3, <2>2, <2>4, <2>5, OthersStay
<1>6. CASE SessionUnauthorized(c)
  <2>1. CASE r.kind \in Refreshes /\ r.stage # "retry"
    <3>1. Go(c, tab, Refresh(c, tab))
      BY <1>6, <2>1 DEF SessionUnauthorized
    <3>2. /\ tab' = tab /\ calls'[c] = Refresh(c, tab)
          /\ \A d \in Calls : d # c /\ calls'[d] # NoCall => Stays(d)
          /\ \A d \in InFlight : d # c => calls'[d] # NoCall /\ Stays(d)
      BY <3>1, GoStays
    <3>3. r \in Call
      BY <1>1, CallFields
    <3>4. /\ calls'[c].kind = r.kind /\ calls'[c].stage = "refresh" /\ calls'[c].status = "wait"
          /\ calls'[c].token = NoToken /\ calls'[c].sent = tab.session
          /\ calls'[c].cookie = tab.cookie /\ calls'[c].awaits = AwaitedRefresh(c)
      BY <3>2, <3>3 DEF Refresh, Call
    <3>5. AwaitedRefresh(c) = c => RefreshOwners = {}
      <4>1. c \notin RefreshOwners
        BY <1>1, OwnersRefresh
      <4>2. ASSUME RefreshOwners # {} PROVE AwaitedRefresh(c) \in RefreshOwners
        BY <4>2 DEF AwaitedRefresh
      <4> QED BY <4>1, <4>2
    <3>6. Refreshing(c)
      BY <2>1, <3>2, <3>4, <3>5 DEF Refreshing, Asked
    <3>7. Browser
      BY <1>1, <1>2, <3>2, <3>6 DEF Browser
    <3> QED BY <1>1, <3>2, <3>7, OthersStay
  <2>2. CASE ~(r.kind \in Refreshes /\ r.stage # "retry")
    <3> DEFINE hard == r.kind \in HardLogouts
    <3>1. Throw({c}, tab, hard) /\ hard \in BOOLEAN
      BY <1>6, <2>2 DEF SessionUnauthorized
    <3> HIDE DEF hard
    <3> QED BY <1>1, <1>2, <3>1, ThrowBrowser
  <2> QED BY <2>1, <2>2
<1> QED BY <1>4, <1>5, <1>6

\* The refresh settles: its cookie becomes the tab's, or everyone who awaits it throws.
LEMMA RefreshSettlesBrowser ==
    ASSUME Inv, Truthful, NEW c \in Calls, RefreshSettles(c)
    PROVE  Browser /\ (Owners => CookieStays \/ CookieTaken)
<1> DEFINE who == {w \in InFlight : calls[w].stage = "refresh" /\ calls[w].awaits = c}
<1>1. /\ UNCHANGED <<sessions, issued>> /\ c \in InFlight /\ who \in SUBSET InFlight
      /\ calls[c].stage = "refresh" /\ calls[c].status # "wait"
      /\ tab \in Tab /\ tab.session <= issued /\ 0 <= issued
  BY DEF RefreshSettles, Answered, ClientUnchanged, Truthful, Inv, TypeOK
<1>2. c \in who /\ c \in RefreshOwners
  BY <1>1 DEF Truthful, RefreshOwners
<1>3. \A w \in who : w \in Calls /\ calls[w].kind # "jwt"
  BY DEF Truthful, Faithful, Refreshes, InFlight
<1>4. CASE calls[c].status = "ok"
  <2>1. /\ tab' = [tab EXCEPT !.access = TRUE, !.cookie = calls[c].cookie]
        /\ calls' = [w \in Calls |-> IF w \in who
               THEN Request(calls[w].kind, "retry", tab.session, calls[w].current)
               ELSE calls[w]]
    BY <1>4 DEF RefreshSettles
  <2>2. tab'.session = tab.session /\ tab'.cookie = calls[c].cookie
    BY <1>1, <2>1 DEF Tab
  <2> HIDE DEF who
  <2>3. ASSUME NEW w \in who PROVE Restarted(w)
    <3>1. calls'[w] = Request(calls[w].kind, "retry", tab.session, calls[w].current)
      BY <1>3, <2>1
    <3> QED BY <1>3, <2>2, <3>1, RequestRestarts
  <2>4. \A d \in Calls : d \notin who /\ calls'[d] # NoCall => Stays(d)
    BY <2>1 DEF Stays, InFlight
  <2>5. Browser
    BY <1>1, <2>2, <2>3, <2>4 DEF Browser
  <2>6. CookieTaken
    BY <1>1, <1>2, <1>4, <2>2, <2>3 DEF CookieTaken, Restarted
  <2> QED BY <2>5, <2>6
<1>5. CASE calls[c].status # "ok"
  <2> DEFINE hard == \E w \in who : calls[w].kind \in HardLogouts
  <2>1. Throw(who, tab, hard) /\ hard \in BOOLEAN
    BY <1>5 DEF RefreshSettles
  <2> HIDE DEF hard, who
  <2>2. /\ tab'.cookie = tab.cookie /\ tab'.session \in {NoToken, tab.session}
        /\ \A d \in Calls : calls'[d] # NoCall => Stays(d)
    BY <1>1, <2>1, ThrowFields
  <2>3. Browser
    BY <1>1, <2>2 DEF Browser
  <2>4. ASSUME Owners, NEW o \in RefreshOwners PROVE calls[o].status # "ok"
    BY <1>2, <1>5, <2>4 DEF Owners
  <2> QED BY <2>2, <2>3, <2>4 DEF CookieStays
<1> QED BY <1>4, <1>5

\* The answers of allauthAppRequest leave the cookie alone.
LEMMA AppBrowser ==
    ASSUME Inv, Truthful, NEW c \in Calls, AppOk(c) \/ AppPending(c) \/ AppThrows(c)
    PROVE  Browser /\ CookieStays
<1> DEFINE r == calls[c]
           t == WithToken(tab, r.token)
<1>1. /\ c \in InFlight /\ r.kind \in AppKinds /\ UNCHANGED <<sessions, issued>>
  BY DEF AppOk, AppPending, AppThrows, Answered, ClientUnchanged, AppKinds
<1>2. /\ tab \in Tab /\ r.token \in TokenOrNone /\ tab.session <= issued /\ r.token <= issued
      /\ 0 <= issued /\ r.stage # "refresh"
  BY <1>1, CallFields DEF Inv, TypeOK, Truthful, Faithful, AppKinds, Refreshes
<1>3. t \in Tab /\ t.cookie = tab.cookie /\ t.session <= issued
      /\ (r.token # NoToken => t.session = r.token)
  BY <1>2, WithTokenFields
<1> HIDE DEF t
<1>4. CASE AppOk(c)
  <2> DEFINE call == IF r.kind = "email" THEN NoCall
                     ELSE Request("jwt", "first", t.session, r.current)
  <2>1. Go(c, t, call)
    BY <1>4 DEF AppOk, t
  <2>2. /\ tab' = t /\ calls'[c] = call
        /\ \A d \in Calls : d # c /\ calls'[d] # NoCall => Stays(d)
        /\ \A d \in InFlight : d # c => calls'[d] # NoCall /\ Stays(d)
    BY <2>1, GoStays
  <2>3. calls'[c] # NoCall => Exchanged(c)
    <3>1. calls'[c] # NoCall =>
            r.kind # "email" /\ calls'[c] = Request("jwt", "first", t.session, r.current)
      BY <2>2
    <3>2. r.status = "ok"
      BY <1>4 DEF AppOk
    <3> QED BY <1>1, <1>3, <2>2, <3>1, <3>2 DEF Exchanged, Asked, Granted, Request, AppKinds
  <2>4. Browser
    BY <1>1, <1>3, <2>2, <2>3 DEF Browser
  <2> QED BY <1>2, <1>3, <2>2, <2>4, OthersStay
<1>5. CASE AppPending(c)
  <2> DEFINE stored == [tab EXCEPT !.session = r.token]
             marked == [stored EXCEPT !.pending = TRUE]
             shown == MarkedPending(stored)
  <2>1. /\ tab' = IF r.current THEN [shown EXCEPT !.modal = "mfa", !.busy = FALSE] ELSE shown
        /\ calls' = [AfterEvent(calls, ~tab.pending) EXCEPT ![c] = NoCall]
    BY <1>5 DEF AppPending
  <2>2. stored \in Tab /\ stored.cookie = tab.cookie /\ stored.session = r.token
    BY <1>2 DEF Tab
  <2> HIDE DEF stored
  <2>3. marked \in Tab /\ marked.cookie = tab.cookie /\ marked.session = r.token
    BY <2>2 DEF Tab
  <2>4. shown \in {stored, Announced(marked)}
    BY DEF MarkedPending
  <2> HIDE DEF marked, shown
  <2>5. /\ Announced(marked) \in Tab /\ Announced(marked).cookie = tab.cookie
        /\ Announced(marked).session = r.token
    BY <2>3, AnnouncedGood DEF Announced, Tab, Good
  <2>6. shown \in Tab /\ shown.cookie = tab.cookie /\ shown.session = r.token
    BY <2>2, <2>4, <2>5
  <2>7. tab'.cookie = tab.cookie /\ tab'.session = r.token
    BY <2>1, <2>6 DEF Tab
  <2>8. (~tab.pending) \in BOOLEAN
    OBVIOUS
  <2>9. AfterEvent(calls, ~tab.pending) \in [Calls -> Call \cup {NoCall}]
    BY InvGood, AfterEventCalls DEF CallsOK
  <2>10. /\ calls'[c] = NoCall
         /\ \A d \in Calls : d # c => calls'[d] = AfterEvent(calls, ~tab.pending)[d]
    BY <2>1, <2>9
  <2>11. \A d \in Calls : d # c => /\ calls'[d] # NoCall => Stays(d)
                                   /\ d \in InFlight => calls'[d] # NoCall
    BY <2>8, <2>10, AfterEventStays
  <2>12. Browser
    BY <1>1, <1>2, <2>7, <2>10, <2>11 DEF Browser
  <2> QED BY <1>2, <2>7, <2>11, <2>12, OthersStay DEF InFlight
<1>6. CASE AppThrows(c)
  <2>1. PICK hard \in BOOLEAN : Throw({c}, tab, hard)
    BY <1>6 DEF AppThrows
  <2> QED BY <1>1, <1>2, <2>1, ThrowBrowser
<1> QED BY <1>4, <1>5, <1>6

\* What the user does: a reload ends every call, and counts as a loss if there was one.
LEMMA UserBrowser ==
    ASSUME Inv, Truthful,
           \/ \E kind \in {"page", "email", "logout"} : Start(kind)
           \/ OpenDialog \/ CloseDialog \/ Submit \/ Reload
    PROVE  Browser /\ (losses' = 0 => CookieStays)
<1>1. tab \in Tab /\ tab.session <= issued /\ losses \in Nat
  BY ClientAssumption DEF Inv, TypeOK, Truthful
<1>2. ASSUME NEW c \in Free, NEW t \in Tab,
             NEW kind \in {"page", "email", "logout", "login", "mfa"},
             UNCHANGED <<sessions, issued>>, t.session = tab.session, t.cookie = tab.cookie,
             Go(c, t, Request(kind, "first", tab.session, TRUE))
      PROVE  Browser /\ CookieStays
  <2>1. c \in Calls /\ c \notin InFlight
    BY DEF Free
  <2>2. /\ tab' = t /\ calls'[c] = Request(kind, "first", tab.session, TRUE)
        /\ \A d \in Calls : d # c /\ calls'[d] # NoCall => Stays(d)
        /\ \A d \in InFlight : d # c => calls'[d] # NoCall /\ Stays(d)
    BY <1>2, <2>1, GoStays
  <2>3. Restarted(c)
    BY <1>2, <2>2, RequestRestarts
  <2>4. Browser
    BY <1>1, <1>2, <2>2, <2>3 DEF Browser
  <2> QED BY <1>2, <2>1, <2>2, <2>4, OthersStay
<1>3. ASSUME NEW kind \in {"page", "email", "logout"}, Start(kind) PROVE Browser /\ CookieStays
  BY <1>1, <1>2, <1>3 DEF Start
<1>4. CASE Submit
  <2> DEFINE t == [tab EXCEPT !.busy = TRUE]
  <2>1. PICK c \in Free : Go(c, t, Request(tab.modal, "first", tab.session, TRUE))
    BY <1>4 DEF Submit
  <2>2. t \in Tab /\ t.session = tab.session /\ t.cookie = tab.cookie
    BY <1>1 DEF Tab
  <2>3. tab.modal \in {"login", "mfa"} /\ UNCHANGED <<sessions, issued>>
    BY <1>4 DEF Submit
  <2> HIDE DEF t
  <2> QED BY <1>2, <2>1, <2>2, <2>3
<1>5. ASSUME NEW kinds, UNCHANGED <<sessions, issued>>,
             tab'.session = tab.session, tab'.cookie = tab.cookie,
             \A d \in Calls : \/ calls'[d] = Outdated(calls, kinds)[d]
                              \/ d \in Free /\ Restarted(d)
      PROVE  Browser /\ CookieStays
  <2>1. \A d \in Calls : calls'[d] # NoCall => Stays(d) \/ Restarted(d)
    BY <1>5, OutdatedStays
  <2>2. \A d \in InFlight : calls'[d] # NoCall /\ Stays(d)
    BY <1>5, OutdatedStays DEF InFlight, Free
  <2>3. Browser
    BY <1>1, <1>5, <2>1 DEF Browser
  <2> QED BY <1>5, <2>2, <2>3, OwnersRefresh DEF CookieStays
<1>6. CASE OpenDialog
  <2>1. tab'.session = tab.session /\ tab'.cookie = tab.cookie
    BY <1>1, <1>6 DEF OpenDialog, Tab
  <2>2. UNCHANGED <<sessions, issued>> /\ calls' = Outdated(calls, {"profile"})
    BY <1>6 DEF OpenDialog
  <2> QED BY <1>5, <2>1, <2>2
<1>7. CASE CloseDialog
  <2> DEFINE left == Outdated(calls, Flow \cup {"profile"})
             call == Request("profile", "first", tab.session, TRUE)
  <2>1. tab'.session = tab.session /\ tab'.cookie = tab.cookie
    BY <1>1, <1>7 DEF CloseDialog, Tab
  <2>2. UNCHANGED <<sessions, issued>>
    BY <1>7 DEF CloseDialog, ClientUnchanged
  <2>3. \/ calls' = left
        \/ \E c \in Free : calls' = [left EXCEPT ![c] = call]
    BY <1>7 DEF CloseDialog
  <2>4. left \in [Calls -> Call \cup {NoCall}]
    BY InvGood, OutdatedCalls DEF CallsOK
  <2> HIDE DEF left, call
  <2>5. CASE calls' = left
    BY <1>5, <2>1, <2>2, <2>5 DEF left
  <2>6. CASE \E c \in Free : calls' = [left EXCEPT ![c] = call]
    <3>1. PICK c \in Free : calls' = [left EXCEPT ![c] = call]
      BY <2>6
    <3>2. c \in Calls /\ calls'[c] = call /\ \A d \in Calls : d # c => calls'[d] = left[d]
      BY <2>4, <3>1 DEF Free
    <3>3. Restarted(c)
      BY <2>1, <3>2, RequestRestarts DEF call
    <3>4. \A d \in Calls : calls'[d] = left[d] \/ (d \in Free /\ Restarted(d))
      BY <3>2, <3>3
    <3> QED BY <1>5, <2>1, <2>2, <3>4 DEF left
  <2> QED BY <2>3, <2>5, <2>6
<1>8. CASE Reload
  <2>1. PICK c \in Calls : calls' = OnlyLoad(tab, c)
    BY <1>8 DEF Reload
  <2>2. /\ tab'.session = tab.session /\ tab'.cookie = tab.cookie
        /\ UNCHANGED <<sessions, issued>>
    BY <1>1, <1>8 DEF Reload, Fresh, Tab
  <2>3. ASSUME NEW d \in Calls, calls'[d] # NoCall PROVE Restarted(d)
    <3>1. calls'[d] = Request("profile", "first", tab.session, TRUE)
      BY <2>1, <2>3 DEF OnlyLoad
    <3> QED BY <2>2, <3>1, RequestRestarts
  <2>4. Browser
    BY <1>1, <2>2, <2>3 DEF Browser
  <2>5. losses' = 0 => InFlight = {}
    BY <1>1, <1>8 DEF Reload
  <2> QED BY <2>2, <2>4, <2>5, OwnersRefresh DEF CookieStays
<1> QED BY <1>3, <1>4, <1>6, <1>7, <1>8

\* Every step of the browser, with its cookie.
LEMMA DeliverBrowser ==
    ASSUME Inv, Truthful, NEW c \in Calls, Deliver(c)
    PROVE  Browser /\ (Owners => CookieStays \/ CookieDropped \/ CookieTaken)
BY SessionOkBrowser, SessionRefusedBrowser, RefreshSettlesBrowser, AppBrowser DEF Deliver

\* An answer given to a call, true of the backend's new state.
Replied(d) ==
    /\ d \in InFlight /\ calls'[d] # NoCall
    /\ calls'[d].kind = calls[d].kind /\ calls'[d].stage = calls[d].stage
    /\ calls'[d].sent = calls[d].sent /\ calls'[d].awaits = calls[d].awaits
    /\ Faithful(calls[d])'
    /\ calls[d].stage = "refresh" => calls[d].awaits = d

\* A step of the backend makes no answer untrue.
LEMMA ServerTruthful ==
    ASSUME Inv, Truthful, tab' = tab, Grown,
           \A d \in Calls : calls'[d] = calls[d] \/ Replied(d)
    PROVE  Truthful'
<1>1. /\ tab.session \in TokenOrNone /\ issued \in Nat /\ tab.session <= issued
      /\ tab.session <= issued'
  BY DEF Inv, TypeOK, Tab, Truthful, Grown, TokenOrNone, Tokens
<1>2. \A t \in TokenOrNone : t <= issued /\ Status(t)' = "live" => Status(t) = "live"
  BY DEF Status, Grown, TokenOrNone
<1>3. \A t \in TokenOrNone : t <= issued => t <= issued'
  BY <1>1 DEF Grown, TokenOrNone, Tokens
<1>4. ASSUME NEW d \in Calls, calls'[d] # NoCall
      PROVE  /\ Faithful(calls[d])'
             /\ calls'[d].stage = "refresh" /\ calls'[d].status # "wait" => calls'[d].awaits = d
  <2>1. CASE Replied(d)
    BY <2>1 DEF Replied
  <2>2. CASE calls'[d] = calls[d]
    <3>1. d \in InFlight
      BY <1>4, <2>2 DEF InFlight
    <3>2. /\ calls[d].sent \in TokenOrNone /\ calls[d].token \in TokenOrNone
          /\ Faithful(calls[d])
          /\ calls[d].stage = "refresh" /\ calls[d].status # "wait" => calls[d].awaits = d
      BY <3>1, CallFields DEF Truthful
    <3>3. calls[d].sent <= issued' /\ calls[d].token <= issued'
      BY <1>3, <3>2 DEF Faithful
    <3>4. \A t : t = calls[d].sent => (Status(t)' = "live" => Status(t) = "live")
      BY <1>2, <3>2 DEF Faithful
    <3>5. \A t : t = calls[d].sent => (Status(calls[d].sent)' = Status(t)')
      BY <2>2 DEF Status
    <3>6. Status(calls[d].sent)' = "live" => Status(calls[d].sent) = "live"
      BY <3>4, <3>5
    <3> QED BY <2>2, <3>2, <3>3, <3>6 DEF Faithful, Refused
  <2> QED BY <1>4, <2>1, <2>2
<1> QED BY <1>1, <1>4 DEF Truthful, InFlight

\* The cookie of an answer, and whose refresh it belongs to.
LEMMA ReplyCookie ==
    ASSUME Inv, NEW c \in InFlight, NEW status, NEW token, NEW user, NEW cookie,
           Reply(c, status, token, user, cookie)
    PROVE  calls'[c].cookie = cookie /\ calls'[c].awaits = calls[c].awaits
<1>1. c \in Calls /\ calls[c] \in Call
  BY CallFields
<1>2. calls'[c] = [calls[c] EXCEPT !.status = status, !.token = token, !.user = user,
                                   !.cookie = cookie]
  BY <1>1, InvGood DEF Reply, CallsOK
<1> QED BY <1>1, <1>2 DEF Call

\* Whatever the backend answers, or however a request is lost: a refusal is of a dead token.
LEMMA HandleTruthful ==
    ASSUME Inv, Truthful, NEW c \in Calls, Handle(c) \/ Lose(c)
    PROVE  Truthful'
<1> DEFINE r == calls[c]
           s == r.sent
<1>1. /\ c \in InFlight /\ tab' = tab
      /\ r.stage = "refresh" => r.awaits = c
  BY DEF Handle, Lose, Serve, ServeRefresh, ServeApp, ServeLogin, ServeMfa, Rotate, Waiting
<1>2. /\ Faithful(r) /\ s \in TokenOrNone /\ s <= issued /\ issued \in Nat
      /\ r.token \in TokenOrNone /\ r.kind \in SessionKinds \cup AppKinds
      /\ sessions \in [Tokens -> Session]
  BY <1>1, CallFields DEF Truthful, Faithful, Inv, TypeOK
<1>3. ASSUME NEW status, NEW token, NEW user, NEW cookie,
             Reply(c, status, token, user, cookie), Grown, token <= issued',
             r.kind = "jwt" => token = NoToken,
             r.kind \in SessionKinds /\ r.stage # "refresh" /\ status = "401"
                => \A t : t = s => Status(t)' # "live",
             r.kind \in AppKinds /\ status = "410" => \A t : t = s => Status(t)' # "live"
      PROVE  Truthful'
  <2>1. /\ calls'[c] # NoCall /\ calls'[c].kind = r.kind /\ calls'[c].stage = r.stage
        /\ calls'[c].sent = s /\ calls'[c].status = status /\ calls'[c].token = token
        /\ calls'[c].awaits = r.awaits
        /\ \A d \in Calls : d # c => calls'[d] = calls[d]
    BY <1>1, <1>3, ReplyFields, ReplyCookie
  <2>2. s <= issued'
    BY <1>2, <1>3 DEF Grown, TokenOrNone, Tokens
  <2>3. \A t : t = s => Status(calls[c].sent)' = Status(t)'
    BY <2>1 DEF Status
  <2>4. Faithful(calls[c])'
    BY <1>2, <1>3, <2>1, <2>2, <2>3 DEF Faithful, Refused
  <2>5. Replied(c)
    BY <1>1, <2>1, <2>4 DEF Replied
  <2> QED BY <1>1, <1>3, <2>1, <2>5, ServerTruthful
<1>4. ASSUME UNCHANGED <<sessions, issued>>
      PROVE  Grown /\ \A t : Status(t)' = Status(t)
  BY <1>2, <1>4 DEF Grown, Status
<1>5. CASE Serve(c)
  <2>1. r.kind \in SessionKinds /\ r.stage # "refresh" /\ issued' = issued
    BY <1>5 DEF Serve
  <2>2. CASE Status(s) # "live"
    <3>1. UNCHANGED <<sessions, issued>>
      BY <1>5, <2>1, <2>2 DEF Serve
    <3>2. CASE Reply(c, "401", NoToken, NoUser, NoCookie)
      BY <1>2, <1>3, <1>4, <2>2, <3>1, <3>2
    <3>3. CASE r.kind = "page" /\ Reply(c, "ok", NoToken, NoUser, NoCookie)
      BY <1>2, <1>3, <1>4, <2>1, <3>1, <3>3
    <3> QED BY <1>5, <2>2, <3>2, <3>3 DEF Serve
  <2>3. CASE Status(s) = "live"
    <3> DEFINE gen == NextGen(sessions[s].gen)
    <3>1. /\ \E user, cookie : Reply(c, "ok", NoToken, user, cookie)
          /\ \/ sessions' = sessions
             \/ sessions' = [sessions EXCEPT ![s].status = "revoked"]
             \/ sessions' = [sessions EXCEPT ![s].gen = gen]
      BY <1>5, <2>3 DEF Serve
    <3> HIDE DEF gen
    <3>2. Grown
      BY <1>2, <2>1, <3>1 DEF Grown, Session
    <3> QED BY <1>2, <1>3, <2>1, <3>1, <3>2
  <2> QED BY <2>2, <2>3
<1>6. CASE ServeRefresh(c)
  <2>1. r.stage = "refresh" /\ r.kind \notin AppKinds /\ issued' = issued
    BY <1>2, <1>6 DEF ServeRefresh, Waiting, Faithful, Refreshes, AppKinds
  <2>2. PICK status, cookie : Reply(c, status, NoToken, NoUser, cookie)
    BY <1>6 DEF ServeRefresh
  <2>3. \/ sessions' = sessions
        \/ sessions' = [sessions EXCEPT ![r.cookie.session].gen = NextGen(r.cookie.gen)]
    BY <1>6 DEF ServeRefresh
  <2>4. Grown
    BY <1>2, <2>1, <2>3 DEF Grown, Session
  <2> QED BY <1>2, <1>3, <2>1, <2>2, <2>4
<1>7. CASE ServeApp(c)
  <2>1. r.kind \in AppKinds /\ UNCHANGED <<sessions, issued>>
    BY <1>7 DEF ServeApp
  <2>2. PICK status : /\ Reply(c, status, NoToken, NoUser, NoCookie)
                      /\ status = "410" => Status(s) # "live"
    BY <1>7 DEF ServeApp
  <2> QED BY <1>2, <1>3, <1>4, <2>1, <2>2 DEF AppKinds, SessionKinds
<1>8. CASE ServeLogin(c) \/ ServeMfa(c)
  <2>1. /\ r.kind \in {"login", "mfa"} /\ issued' = issued + 1 /\ issued' \in Tokens
    BY <1>2, <1>8, Constants DEF ServeLogin, ServeMfa, Tokens, Inv, TypeOK
  <2>2. PICK status : status # "410" /\ Reply(c, status, issued', NoUser, NoCookie)
    BY <1>8 DEF ServeLogin, ServeMfa
  <2>3. \/ \E new : sessions' = [sessions EXCEPT ![issued'] = new]
        \/ \E new : sessions' = [sessions EXCEPT ![s].status = "expired", ![issued'] = new]
    BY <1>8 DEF ServeLogin, ServeMfa, Issue
  <2>4. Grown
    BY <1>2, <2>1, <2>3, IssueGrown
  <2> QED BY <1>2, <1>3, <2>1, <2>2, <2>4 DEF SessionKinds
<1>9. CASE Rotate(c)
  <2>1. /\ r.kind \in {"profile", "page"} /\ issued' = issued + 1 /\ issued' \in Tokens
        /\ s \in Tokens
    BY <1>2, <1>9, Constants DEF Rotate, Tokens, TokenOrNone, Status, Inv, TypeOK
  <2>2. PICK status, user : Reply(c, status, issued', user, NoCookie)
    BY <1>9 DEF Rotate
  <2>3. PICK new : sessions' = [sessions EXCEPT ![s].status = "expired", ![issued'] = new]
    BY <1>9 DEF Rotate
  <2>4. Grown
    BY <1>2, <2>1, <2>3, IssueGrown
  <2>5. \A t : t = s => Status(t)' # "live"
    <3>1. sessions'[s] = [sessions[s] EXCEPT !.status = "expired"]
      BY <1>2, <2>1, <2>3
    <3>2. sessions'[s].status = "expired"
      BY <1>2, <2>1, <3>1 DEF Session
    <3> QED BY <2>1, <3>2 DEF Status, Tokens
  <2> QED BY <1>2, <1>3, <2>1, <2>2, <2>4, <2>5
<1>10. CASE Lose(c)
  <2>1. Reply(c, "other", NoToken, NoUser, r.cookie) /\ UNCHANGED <<sessions, issued>>
    BY <1>10 DEF Lose
  <2> QED BY <1>2, <1>3, <1>4, <2>1
<1> QED BY <1>5, <1>6, <1>7, <1>8, <1>9, <1>10 DEF Handle

\* Time passes for the sessions issued: their pairs are the same, and none comes back.
SamePairs ==
    /\ issued' \in Nat /\ issued <= issued'
    /\ \A s \in Tokens : s <= issued =>
          /\ sessions'[s].gen = sessions[s].gen
          /\ sessions[s].status = "revoked" => sessions'[s].status = "revoked"

\* An answer without a cookie, to anything but a refresh: no first pair, and a login's
\* token is a new one.
Plain(d) ==
    /\ d \in InFlight /\ calls'[d] # NoCall /\ calls[d].stage # "refresh"
    /\ calls'[d].kind = calls[d].kind /\ calls'[d].stage = calls[d].stage
    /\ calls'[d].sent = calls[d].sent /\ calls'[d].cookie = NoCookie
    /\ calls'[d].status # "wait" /\ ~Pairing(calls'[d])
    /\ Granted(calls'[d]) => /\ calls'[d].token = issued' /\ issued' = issued + 1
                             /\ sessions'[issued'].gen = 0

\* Such an answer moves no cookie.
LEMMA PlainTickets ==
    ASSUME Inv, Truthful, Tickets, tab' = tab, SamePairs, NEW c,
           \A d \in Calls : d # c => calls'[d] = calls[d],
           calls'[c] = calls[c] \/ Plain(c)
    PROVE  Tickets'
<1>1. issued \in Nat /\ tab.cookie.session \in TokenOrNone
  BY DEF Inv, TypeOK, Tab, Cookie
<1>2. ASSUME NEW k, k.session \in TokenOrNone, Known(k)
      PROVE  Known(k)' /\ (Current(k)' <=> Current(k))
  <2>1. k.session # NoToken => k.session \in Tokens /\ k.session <= issued
    BY <1>2 DEF Known, TokenOrNone
  <2>2. k.session # NoToken => k.session <= issued'
    BY <1>1, <2>1 DEF SamePairs, Tokens
  <2> QED BY <1>2, <2>1, <2>2 DEF Known, Current, SamePairs
<1>3. ASSUME NEW d \in InFlight
      PROVE  /\ d \in Calls /\ calls[d].sent \in TokenOrNone /\ calls[d].token \in TokenOrNone
             /\ calls[d].sent <= issued /\ calls[d].token <= issued
             /\ calls[d].cookie.session \in TokenOrNone /\ Known(calls[d].cookie)
             /\ calls[d].kind = "jwt" => calls[d].stage # "refresh"
  BY CallFields DEF Truthful, Faithful, Tickets, Cookies, Refreshes
<1>4. /\ InFlight' = InFlight
      /\ \A d \in InFlight : calls'[d] = calls[d] \/ (d = c /\ Plain(c))
  BY DEF Plain, InFlight
<1>5. RefreshOwners' = RefreshOwners /\ \A o \in RefreshOwners : calls'[o] = calls[o]
  BY <1>4 DEF RefreshOwners, Plain
<1>6. \A t \in TokenOrNone : t <= issued /\ Status(t) = "revoked" => Status(t)' = "revoked"
  BY DEF Status, SamePairs, TokenOrNone
<1>7. \A t \in Tokens : t <= issued => sessions'[t].gen = sessions[t].gen
  BY DEF SamePairs
<1>8. Known(NoCookie)' /\ Current(NoCookie)'
  BY DEF Known, Current, NoCookie
<1>9. Owners'
  <2>1. ASSUME NEW o \in RefreshOwners
        PROVE  /\ calls[o].status \in {"wait", "ok"} => Current(calls[o].cookie)'
               /\ /\ calls[o].status \notin {"wait", "ok"}
                  /\ calls[o].sent # NoToken /\ calls[o].cookie.session = calls[o].sent
                  => Status(calls[o].sent)' = "revoked"
    <3>1. o \in InFlight /\ Owners
      BY DEF RefreshOwners, Tickets
    <3>2. \A k : k = calls[o].cookie => (Current(k)' <=> Current(k))
      BY <1>2, <1>3, <3>1
    <3>3. \A k : k = calls[o].cookie => (Current(calls[o].cookie)' <=> Current(k)')
      BY <1>5 DEF Current
    <3>4. \A t : t = calls[o].sent => (Status(t) = "revoked" => Status(t)' = "revoked")
      BY <1>3, <1>6, <3>1
    <3>5. \A t : t = calls[o].sent => Status(calls[o].sent)' = Status(t)'
      BY <1>5 DEF Status
    <3>6. /\ calls[o].status \in {"wait", "ok"} => Current(calls[o].cookie)
          /\ /\ calls[o].status \notin {"wait", "ok"}
             /\ calls[o].sent # NoToken /\ calls[o].cookie.session = calls[o].sent
             => Status(calls[o].sent) = "revoked"
      BY <3>1 DEF Owners
    <3> QED BY <3>2, <3>3, <3>4, <3>5, <3>6
  <2> QED BY <1>5, <2>1 DEF Owners, Tickets
<1>10. Known(tab.cookie)' /\ (Current(tab.cookie)' <=> Current(tab.cookie))
  <2>1. Known(tab.cookie)
    BY DEF Tickets, Cookies
  <2>2. \A k : k = tab.cookie => Known(k)' /\ (Current(k)' <=> Current(k))
    BY <1>1, <1>2, <2>1
  <2> QED BY <2>2 DEF Known, Current
<1>11. ASSUME NEW d \in InFlight, calls'[d] = calls[d]
       PROVE  Known(calls[d].cookie)' /\ (Current(calls[d].cookie)' <=> Current(calls[d].cookie))
  <2>1. \A k : k = calls[d].cookie => Known(k)' /\ (Current(k)' <=> Current(k))
    BY <1>2, <1>3
  <2> QED BY <1>11, <2>1 DEF Known, Current
<1>12. ASSUME NEW d \in InFlight, Plain(d)
       PROVE  Known(calls[d].cookie)' /\ calls'[d].cookie.session = NoToken
  BY <1>8, <1>12 DEF Plain, NoCookie, Known
<1>13. Cookies'
  BY <1>4, <1>10, <1>11, <1>12 DEF Cookies
<1>14. TabCurrent'
  BY <1>5, <1>10 DEF TabCurrent, Tickets
<1>15. Pairs'
  <2>1. \A d \in InFlight : calls'[d].kind = calls[d].kind /\ calls'[d].sent = calls[d].sent
    BY <1>4 DEF Plain
  <2>2. \A d \in InFlight : Pairing(calls'[d]) => calls'[d] = calls[d] /\ Pairing(calls[d])
    BY <1>4 DEF Plain
  <2>3. ASSUME NEW d \in InFlight, calls'[d].kind = "jwt"
        PROVE  /\ calls'[d].sent # NoToken
               /\ calls'[d].status = "wait" => sessions'[calls'[d].sent].gen = 0
    <3>1. calls[d].sent \in Tokens
      BY <1>3, <2>1, <2>3 DEF Tickets, Pairs, TokenOrNone
    <3> QED BY <1>3, <1>4, <1>7, <2>1, <2>3, <3>1 DEF Plain, Tickets, Pairs
  <2>4. ASSUME NEW d \in InFlight, Pairing(calls'[d])
        PROVE  /\ calls'[d].cookie.session = calls'[d].sent /\ Current(calls[d].cookie)'
               /\ tab.cookie.session # calls[d].sent
               /\ \A e \in InFlight : e # d => calls'[e].cookie.session # calls[d].sent
    <3>1. calls'[d] = calls[d] /\ Pairing(calls[d]) /\ calls[d].sent # NoToken
      BY <2>2, <2>4 DEF Tickets, Pairs, Pairing
    <3>2. \A e \in InFlight : e # d => calls'[e].cookie.session # calls[d].sent
      BY <1>4, <1>12, <3>1 DEF Tickets, Pairs
    <3> QED BY <1>11, <3>1, <3>2 DEF Tickets, Pairs
  <2>5. \A d \in InFlight : Pairing(calls[d])' <=> Pairing(calls'[d])
    BY DEF Pairing
  <2> QED BY <1>4, <2>1, <2>3, <2>4, <2>5 DEF Pairs, Tickets
<1>16. Grants'
  <2>1. \A d \in InFlight : calls'[d].kind = calls[d].kind /\ calls'[d].sent = calls[d].sent
    BY <1>4 DEF Plain
  <2>2. ASSUME NEW d \in InFlight, Granted(calls'[d])
        PROVE  \/ calls'[d] = calls[d] /\ Granted(calls[d]) /\ calls'[d].token <= issued
               \/ /\ d = c /\ calls'[d].token = issued + 1 /\ issued' = issued + 1
                  /\ sessions'[issued'].gen = 0
    BY <1>3, <1>4, <2>2 DEF Plain
  <2>3. \A d, e \in InFlight : Granted(calls'[d]) /\ Granted(calls'[e])
                               /\ calls'[d].token = calls'[e].token => d = e
    BY <1>1, <2>2 DEF Tickets, Grants
  <2>4. ASSUME NEW d \in InFlight, Granted(calls'[d])
        PROVE  /\ calls'[d].token # NoToken /\ sessions'[calls'[d].token].gen = 0
               /\ \A e \in InFlight : calls'[e].kind = "jwt" => calls'[e].sent # calls'[d].token
    <3>1. CASE calls'[d] = calls[d] /\ Granted(calls[d])
      <4>1. calls[d].token \in Tokens
        BY <1>3, <3>1 DEF Tickets, Grants, TokenOrNone
      <4> QED BY <1>3, <1>7, <2>1, <3>1, <4>1 DEF Tickets, Grants
    <3>2. CASE calls'[d].token = issued + 1 /\ issued' = issued + 1 /\ sessions'[issued'].gen = 0
      <4>1. \A e \in InFlight : calls'[e].sent <= issued /\ calls'[e].sent \in Nat
        BY <1>3, <2>1 DEF TokenOrNone, Tokens
      <4> QED BY <1>1, <3>2, <4>1
    <3> QED BY <2>2, <2>4, <3>1, <3>2
  <2>5. \A d \in InFlight : Granted(calls[d])' <=> Granted(calls'[d])
    BY DEF Granted
  <2> QED BY <1>4, <2>3, <2>4, <2>5 DEF Grants
<1> QED BY <1>9, <1>13, <1>14, <1>15, <1>16 DEF Tickets

\* The first pair of a session: nobody holds a cookie of it yet.
LEMMA PairTickets ==
    ASSUME Inv, Truthful, Tickets, tab' = tab, NEW c \in InFlight,
           calls[c].kind = "jwt", calls[c].status = "wait", NEW gen \in 1..2,
           sessions' = [sessions EXCEPT ![calls[c].sent].gen = gen], issued' = issued,
           Reply(c, "ok", NoToken, NoUser, [session |-> calls[c].sent, gen |-> gen])
    PROVE  Tickets'
<1> DEFINE s == calls[c].sent
           k == [session |-> s, gen |-> gen]
<1>1. /\ c \in Calls /\ s \in Tokens /\ s <= issued /\ sessions[s].gen = 0
      /\ calls[c].stage # "refresh" /\ sessions \in [Tokens -> Session]
  BY CallFields DEF Tickets, Pairs, TokenOrNone, Truthful, Faithful, Refreshes, Inv, TypeOK
<1>2. /\ calls'[c] # NoCall /\ calls'[c].kind = "jwt" /\ calls'[c].stage = calls[c].stage
      /\ calls'[c].sent = s /\ calls'[c].status = "ok" /\ calls'[c].token = NoToken
      /\ calls'[c].cookie = k
      /\ \A d \in Calls : d # c => calls'[d] = calls[d]
  BY ReplyFields, ReplyCookie
<1>3. /\ sessions'[s].gen = gen /\ sessions'[s].status = sessions[s].status
      /\ \A t \in Tokens : t # s => sessions'[t] = sessions[t]
  BY <1>1 DEF Session
<1>4. InFlight' = InFlight /\ \A d \in InFlight : d \in Calls /\ (d # c => calls'[d] = calls[d])
  BY <1>1, <1>2 DEF InFlight
<1>5. RefreshOwners' = RefreshOwners /\ \A o \in RefreshOwners : calls'[o] = calls[o] /\ o # c
  BY <1>1, <1>2, <1>4 DEF RefreshOwners
<1>6. ASSUME NEW j, j.session \in TokenOrNone, Known(j)
      PROVE  j.session # s /\ Known(j)' /\ (Current(j)' <=> Current(j))
  <2>1. j.session # s
    BY <1>1, <1>6 DEF Known, Tokens
  <2> QED BY <1>3, <1>6, <2>1 DEF Known, Current, TokenOrNone
<1>7. ASSUME NEW d \in InFlight
      PROVE  /\ calls[d].cookie.session # s /\ Known(calls[d].cookie)
             /\ calls[d].cookie.session \in TokenOrNone
             /\ calls[d].sent \in TokenOrNone /\ calls[d].token \in TokenOrNone
  <2>1. Known(calls[d].cookie) /\ calls[d].cookie.session \in TokenOrNone
    BY CallFields DEF Tickets, Cookies
  <2>2. \A j : j = calls[d].cookie => j.session # s
    BY <1>6, <2>1
  <2> QED BY <2>1, <2>2, CallFields
<1>8. ASSUME NEW d \in InFlight, d # c
      PROVE  Known(calls[d].cookie)' /\ (Current(calls[d].cookie)' <=> Current(calls[d].cookie))
  <2>1. \A j : j = calls[d].cookie => Known(j)' /\ (Current(j)' <=> Current(j))
    BY <1>6, <1>7
  <2> QED BY <1>4, <1>8, <2>1 DEF Known, Current
<1>9. /\ tab.cookie.session # s /\ Known(tab.cookie)'
      /\ Current(tab.cookie)' <=> Current(tab.cookie)
  <2>1. Known(tab.cookie) /\ tab.cookie.session \in TokenOrNone
    BY DEF Tickets, Cookies, Inv, TypeOK, Tab, Cookie
  <2>2. \A j : j = tab.cookie => j.session # s /\ Known(j)' /\ (Current(j)' <=> Current(j))
    BY <1>6, <2>1
  <2> QED BY <2>2 DEF Known, Current
<1>10. Known(calls[c].cookie)' /\ Current(calls[c].cookie)' /\ calls'[c].cookie.session = s
  BY <1>1, <1>2, <1>3 DEF Known, Current
<1>11. Owners'
  <2>1. \A o \in RefreshOwners : \A t : t = calls[o].sent => Status(t)' = Status(t)
    <3>1. \A t \in TokenOrNone : Status(t)' = Status(t)
      BY <1>3 DEF Status, TokenOrNone
    <3> QED BY <1>7, <3>1 DEF RefreshOwners
  <2>2. \A o \in RefreshOwners : \A t : t = calls[o].sent => Status(calls[o].sent)' = Status(t)'
    BY <1>5 DEF Status
  <2>3. \A o \in RefreshOwners : Current(calls[o].cookie)' <=> Current(calls[o].cookie)
    BY <1>5, <1>8 DEF RefreshOwners
  <2> QED BY <1>5, <2>1, <2>2, <2>3 DEF Owners, Tickets
<1>12. Cookies'
  BY <1>4, <1>8, <1>9, <1>10 DEF Cookies
<1>13. TabCurrent'
  BY <1>5, <1>9 DEF TabCurrent, Tickets
<1>14. Pairs'
  <2>1. \A d \in InFlight : calls'[d].kind = calls[d].kind /\ calls'[d].sent = calls[d].sent
    BY <1>2, <1>4
  <2>2. ASSUME NEW d \in InFlight, calls[d].kind = "jwt"
        PROVE  /\ calls[d].sent # NoToken
               /\ calls[d].sent = s => d = c
               /\ calls'[d].status = "wait" => sessions'[calls[d].sent].gen = 0
    <3>1. calls[d].sent # NoToken
      BY <2>2 DEF Tickets, Pairs
    <3>2. d # c => calls[d].sent # s
      BY <2>2 DEF Tickets, Pairs
    <3>3. d # c => sessions'[calls[d].sent] = sessions[calls[d].sent] /\ calls'[d] = calls[d]
      BY <1>3, <1>4, <1>7, <3>1, <3>2 DEF TokenOrNone
    <3> QED BY <1>2, <2>2, <3>1, <3>2, <3>3 DEF Tickets, Pairs
  <2>3. ASSUME NEW d \in InFlight, Pairing(calls'[d])
        PROVE  /\ calls'[d].cookie.session = calls[d].sent /\ Current(calls[d].cookie)'
               /\ tab.cookie.session # calls[d].sent
               /\ \A e \in InFlight : e # d => calls'[e].cookie.session # calls[d].sent
    <3>1. CASE d = c
      BY <1>4, <1>7, <1>9, <1>10, <3>1
    <3>2. CASE d # c
      <4>1. Pairing(calls[d]) /\ calls'[d] = calls[d]
        BY <1>4, <2>3, <3>2
      <4>2. calls[d].sent # s
        BY <2>2, <3>2, <4>1 DEF Pairing
      <4> QED BY <1>4, <1>8, <1>10, <3>2, <4>1, <4>2 DEF Tickets, Pairs
    <3> QED BY <3>1, <3>2
  <2>4. \A d \in InFlight : Pairing(calls[d])' <=> Pairing(calls'[d])
    BY DEF Pairing
  <2> QED BY <1>4, <2>1, <2>2, <2>3, <2>4 DEF Pairs, Tickets
<1>15. Grants'
  <2>1. ASSUME NEW d \in InFlight, Granted(calls'[d])
        PROVE  /\ Granted(calls[d]) /\ calls'[d] = calls[d] /\ calls[d].token # NoToken
               /\ sessions'[calls[d].token].gen = 0
    <3>1. d # c /\ calls'[d] = calls[d] /\ Granted(calls[d])
      BY <1>2, <1>4, <2>1 DEF Granted
    <3>2. calls[d].token # NoToken /\ calls[d].token # s /\ sessions[calls[d].token].gen = 0
      BY <3>1 DEF Tickets, Grants
    <3> QED BY <1>3, <1>7, <3>1, <3>2 DEF TokenOrNone
  <2>2. \A d \in InFlight : calls'[d].kind = calls[d].kind /\ calls'[d].sent = calls[d].sent
    BY <1>2, <1>4
  <2>3. \A d \in InFlight : Granted(calls[d])' <=> Granted(calls'[d])
    BY DEF Granted
  <2> QED BY <1>4, <2>1, <2>2, <2>3 DEF Grants, Tickets
<1> QED BY <1>11, <1>12, <1>13, <1>14, <1>15 DEF Tickets

\* A refresh that is answered: the pair in force moves into the answer; or the session
\* whose own cookie was refused is revoked.
LEMMA RefreshTickets ==
    ASSUME Inv, Truthful, Tickets, NEW c \in Calls, ServeRefresh(c)
    PROVE  Tickets'
<1> DEFINE r == calls[c]
           s == r.cookie.session
           gen == NextGen(r.cookie.gen)
           good == /\ s # NoToken /\ s = r.sent
                   /\ sessions[s].gen = r.cookie.gen /\ Status(s) # "revoked"
           next == [session |-> s, gen |-> gen]
<1>1. /\ c \in InFlight /\ r.stage = "refresh" /\ r.status = "wait" /\ r.awaits = c
      /\ tab' = tab /\ issued' = issued
  BY DEF ServeRefresh, Waiting
<1>2. /\ c \in RefreshOwners /\ r.kind \in Refreshes /\ s \in TokenOrNone
      /\ sessions \in [Tokens -> Session] /\ gen \in 1..2
  BY <1>1, CallFields DEF RefreshOwners, Truthful, Faithful, Inv, TypeOK, NextGen
<1>3. /\ \A o \in RefreshOwners : o = c
      /\ Current(r.cookie) /\ Known(r.cookie) /\ Current(tab.cookie)
  BY <1>1, <1>2 DEF Tickets, Owners, Cookies, TabCurrent
<1>4. PICK status, cookie :
         /\ Reply(c, status, NoToken, NoUser, cookie)
         /\ \/ /\ good /\ status = "ok" /\ cookie = next
               /\ sessions' = [sessions EXCEPT ![s].gen = gen]
            \/ ~good /\ status = "401" /\ cookie = r.cookie /\ sessions' = sessions
  BY DEF ServeRefresh
<1>5. /\ calls'[c] # NoCall /\ calls'[c].kind = r.kind /\ calls'[c].stage = r.stage
      /\ calls'[c].sent = r.sent /\ calls'[c].awaits = r.awaits
      /\ calls'[c].status = status /\ calls'[c].cookie = cookie
      /\ cookie.session = s
      /\ \A d \in Calls : d # c => calls'[d] = calls[d]
  BY <1>1, <1>4, ReplyFields, ReplyCookie
<1>6. /\ InFlight' = InFlight
      /\ \A d \in InFlight : d \in Calls /\ (d # c => calls'[d] = calls[d])
      /\ RefreshOwners' = RefreshOwners
  BY <1>1, <1>5 DEF InFlight, RefreshOwners
<1>7. /\ good => /\ s \in Tokens /\ sessions'[s].gen = gen /\ sessions[s].gen # 0
                 /\ sessions'[s].status = sessions[s].status
      /\ \A t \in Tokens : ~good \/ t # s => sessions'[t] = sessions[t]
  BY <1>2, <1>3, <1>4 DEF Session, TokenOrNone, Known
<1>8. ASSUME NEW j, j.session \in TokenOrNone, Known(j)
      PROVE  Known(j)' /\ (~good \/ j.session # s => (Current(j)' <=> Current(j)))
  BY <1>1, <1>2, <1>7, <1>8 DEF Known, Current, TokenOrNone
<1>9. ASSUME NEW d \in InFlight
      PROVE  /\ Known(calls[d].cookie) /\ calls[d].cookie.session \in TokenOrNone
             /\ calls'[d].cookie.session = calls[d].cookie.session
             /\ calls[d].sent \in TokenOrNone /\ calls[d].token \in TokenOrNone
             /\ calls'[d].sent = calls[d].sent /\ calls'[d].kind = calls[d].kind
             /\ Pairing(calls'[d]) => d # c /\ calls'[d] = calls[d]
             /\ Granted(calls'[d]) => d # c /\ calls'[d] = calls[d]
             /\ calls[d].kind = "jwt" => d # c
  BY <1>2, <1>5, <1>6, CallFields DEF Tickets, Cookies, Pairing, Granted, Refreshes
<1> HIDE DEF next, gen
<1>10. Current(calls[c].cookie)' \/ (~good /\ status = "401")
  BY <1>4, <1>5, <1>7 DEF Current, next
<1>11. Owners'
  <2>1. ~good /\ r.sent # NoToken /\ s = r.sent => Status(r.sent) = "revoked"
    BY <1>3 DEF Current
  <2>2. ~good => \A t \in TokenOrNone : Status(t)' = Status(t)
    BY <1>7 DEF Status, TokenOrNone
  <2>3. \A t : t = r.sent => Status(calls[c].sent)' = Status(t)'
    BY <1>5 DEF Status
  <2>4. r.sent \in TokenOrNone
    BY <1>1, <1>9
  <2>5. ~good => Status(calls[c].sent)' = Status(r.sent)
    BY <2>2, <2>3, <2>4
  <2> HIDE DEF good
  <2>6. /\ calls'[c].status \in {"wait", "ok"} => Current(calls[c].cookie)'
        /\ /\ calls'[c].status \notin {"wait", "ok"}
           /\ calls'[c].sent # NoToken /\ calls'[c].cookie.session = calls'[c].sent
           => Status(calls[c].sent)' = "revoked"
    BY <1>4, <1>5, <1>10, <2>1, <2>5
  <2> QED BY <1>3, <1>6, <2>6 DEF Owners
<1>12. /\ Known(tab.cookie)'
       /\ ~good \/ tab.cookie.session # s => Current(tab.cookie)'
  <2>1. Known(tab.cookie) /\ tab.cookie.session \in TokenOrNone
    BY DEF Tickets, Cookies, Inv, TypeOK, Tab, Cookie
  <2>2. \A j : j = tab.cookie =>
           Known(j)' /\ (~good \/ j.session # s => (Current(j)' <=> Current(j)))
    BY <1>8, <2>1
  <2> HIDE DEF good
  <2> QED BY <1>1, <1>3, <2>2 DEF Known, Current
<1>13. ASSUME NEW d \in InFlight PROVE Known(calls[d].cookie)'
  <2>1. \A j : j = calls[d].cookie => Known(j)'
    BY <1>8, <1>9
  <2> QED BY <1>9, <2>1 DEF Known
<1>14. Cookies'
  BY <1>6, <1>12, <1>13 DEF Cookies
<1>15. TabCurrent'
  <2>1. CASE ~good \/ tab.cookie.session # s
    BY <1>12, <2>1 DEF TabCurrent
  <2>2. CASE good /\ tab.cookie.session = s
    BY <1>1, <1>2, <1>4, <1>5, <1>6, <2>2 DEF TabCurrent
  <2> HIDE DEF good
  <2> QED BY <2>1, <2>2
<1>16. Pairs'
  <2>1. ASSUME NEW d \in InFlight, calls[d].kind = "jwt"
        PROVE  /\ calls[d].sent # NoToken
               /\ calls'[d].status = "wait" => sessions'[calls[d].sent].gen = 0
    <3>1. calls'[d] = calls[d] /\ calls[d].sent \in Tokens
      BY <1>6, <1>9, <2>1 DEF Tickets, Pairs, TokenOrNone
    <3>2. calls[d].status = "wait" => sessions[calls[d].sent].gen = 0
      BY <2>1 DEF Tickets, Pairs
    <3> HIDE DEF good
    <3> QED BY <1>7, <3>1, <3>2 DEF Tokens
  <2>2. ASSUME NEW d \in InFlight, Pairing(calls'[d])
        PROVE  /\ calls'[d].cookie.session = calls[d].sent /\ Current(calls[d].cookie)'
               /\ tab.cookie.session # calls[d].sent
               /\ \A e \in InFlight : e # d => calls'[e].cookie.session # calls[d].sent
    <3>1. d # c /\ calls'[d] = calls[d] /\ Pairing(calls[d])
      BY <1>9, <2>2
    <3>2. /\ calls[d].cookie.session = calls[d].sent /\ Current(calls[d].cookie)
          /\ tab.cookie.session # calls[d].sent
          /\ \A e \in InFlight : e # d => calls[e].cookie.session # calls[d].sent
      BY <3>1 DEF Tickets, Pairs
    <3>3. calls[d].cookie.session # s
      BY <1>1, <3>1, <3>2
    <3>4. \A j : j = calls[d].cookie => (Current(j)' <=> Current(j))
      BY <1>8, <1>9, <3>3
    <3>5. Current(calls[d].cookie)'
      BY <3>1, <3>2, <3>4 DEF Current
    <3> QED BY <1>9, <3>1, <3>2, <3>5
  <2>3. \A d \in InFlight : Pairing(calls[d])' <=> Pairing(calls'[d])
    BY DEF Pairing
  <2> QED BY <1>1, <1>6, <1>9, <2>1, <2>2, <2>3 DEF Pairs, Tickets
<1>17. Grants'
  <2>1. ASSUME NEW d \in InFlight, Granted(calls'[d])
        PROVE  /\ Granted(calls[d]) /\ calls'[d] = calls[d] /\ calls[d].token # NoToken
               /\ sessions'[calls[d].token].gen = 0
    <3>1. Granted(calls[d]) /\ calls'[d] = calls[d] /\ calls[d].token \in TokenOrNone
      BY <1>9, <2>1
    <3>2. calls[d].token # NoToken /\ sessions[calls[d].token].gen = 0
      BY <3>1 DEF Tickets, Grants
    <3>3. calls[d].token \in Tokens
      BY <3>1, <3>2 DEF TokenOrNone
    <3> HIDE DEF good
    <3> QED BY <1>7, <3>1, <3>2, <3>3
  <2>2. \A d \in InFlight : Granted(calls[d])' <=> Granted(calls'[d])
    BY DEF Granted
  <2> QED BY <1>6, <1>9, <2>1, <2>2 DEF Grants, Tickets
<1> QED BY <1>11, <1>14, <1>15, <1>16, <1>17 DEF Tickets

\* A new token has no pair yet, and the one it replaces keeps its own.
LEMMA IssuedPairs ==
    ASSUME sessions \in [Tokens -> Session], issued \in Nat, issued' = issued + 1,
           issued' \in Tokens, NEW s \in TokenOrNone,
           \/ \E new : new.gen = 0 /\ sessions' = [sessions EXCEPT ![issued'] = new]
           \/ /\ s \in Tokens /\ Status(s) # "revoked"
              /\ \E new : /\ new.gen = 0
                          /\ sessions' = [sessions EXCEPT ![s].status = "expired",
                                                          ![issued'] = new]
    PROVE  SamePairs /\ sessions'[issued'].gen = 0
<1>1. \A i \in Tokens : i <= issued => i # issued'
  BY DEF Tokens
<1>2. CASE \E new : new.gen = 0 /\ sessions' = [sessions EXCEPT ![issued'] = new]
  BY <1>1, <1>2 DEF SamePairs
<1>3. CASE /\ s \in Tokens /\ Status(s) # "revoked"
           /\ \E new : /\ new.gen = 0
                       /\ sessions' = [sessions EXCEPT ![s].status = "expired",
                                                       ![issued'] = new]
  <2>1. ASSUME NEW i \in Tokens, i <= issued
        PROVE  \/ sessions'[i] = sessions[i]
               \/ i = s /\ sessions'[i] = [sessions[i] EXCEPT !.status = "expired"]
    BY <1>1, <1>3, <2>1
  <2>2. sessions'[issued'].gen = 0
    BY <1>3
  <2>3. sessions[s].status # "revoked"
    BY <1>3 DEF Status, Tokens
  <2> QED BY <2>1, <2>2, <2>3 DEF SamePairs, Session
<1> QED BY <1>2, <1>3

\* Every answer of the backend keeps the cookies in one place.
LEMMA HandleTickets ==
    ASSUME Inv, Truthful, Tickets, NEW c \in Calls, Handle(c)
    PROVE  Tickets'
<1> DEFINE r == calls[c]
           s == r.sent
<1>1. c \in InFlight /\ tab' = tab /\ r.status = "wait"
  BY DEF Handle, Serve, ServeRefresh, ServeApp, ServeLogin, ServeMfa, Rotate, Waiting
<1>2. /\ s \in TokenOrNone /\ issued \in Nat /\ r.kind \in SessionKinds \cup AppKinds
      /\ r.stage = "refresh" => r.kind \in Refreshes
      /\ sessions \in [Tokens -> Session]
  BY <1>1, CallFields DEF Truthful, Faithful, Inv, TypeOK
<1>3. ASSUME NEW status, status # "wait", NEW token, NEW user,
             Reply(c, status, token, user, NoCookie), r.stage # "refresh", SamePairs,
             r.kind = "jwt" => status # "ok",
             r.kind \in {"login", "mfa"} /\ status = "ok" =>
                token = issued' /\ issued' = issued + 1 /\ sessions'[issued'].gen = 0
      PROVE  Tickets'
  <2>1. /\ calls'[c] # NoCall /\ calls'[c].kind = r.kind /\ calls'[c].stage = r.stage
        /\ calls'[c].sent = s /\ calls'[c].status = status /\ calls'[c].token = token
        /\ calls'[c].cookie = NoCookie
        /\ \A d \in Calls : d # c => calls'[d] = calls[d]
    BY <1>1, <1>3, ReplyFields, ReplyCookie
  <2>2. Plain(c)
    BY <1>1, <1>3, <2>1 DEF Plain, Pairing, Granted
  <2> QED BY <1>1, <1>3, <2>1, <2>2, PlainTickets
<1>4. UNCHANGED <<sessions, issued>> => SamePairs
  BY <1>2 DEF SamePairs
<1>5. CASE Serve(c)
  <2>1. r.kind \in SessionKinds /\ r.stage # "refresh" /\ issued' = issued
    BY <1>5 DEF Serve
  <2>2. r.kind \notin {"login", "mfa"}
    BY <2>1 DEF SessionKinds
  <2>3. CASE r.kind = "jwt" /\ Status(s) = "live"
    <3> DEFINE gen == NextGen(sessions[s].gen)
    <3>1. /\ Reply(c, "ok", NoToken, NoUser, [session |-> s, gen |-> gen])
          /\ sessions' = [sessions EXCEPT ![s].gen = gen]
      BY <1>5, <2>3 DEF Serve
    <3>2. gen \in 1..2
      BY DEF NextGen
    <3> HIDE DEF gen
    <3> QED BY <1>1, <2>1, <2>3, <3>1, <3>2, PairTickets
  <2>4. CASE ~(r.kind = "jwt" /\ Status(s) = "live")
    <3>1. /\ \/ \E user : Reply(c, "ok", NoToken, user, NoCookie)
             \/ Reply(c, "401", NoToken, NoUser, NoCookie)
          /\ r.kind = "jwt" => Reply(c, "401", NoToken, NoUser, NoCookie)
          /\ sessions' = sessions \/ sessions' = [sessions EXCEPT ![s].status = "revoked"]
      BY <1>5, <2>4 DEF Serve
    <3>2. SamePairs
      BY <1>2, <2>1, <3>1 DEF SamePairs, Session
    <3> QED BY <1>3, <2>1, <2>2, <3>1, <3>2
  <2> QED BY <2>3, <2>4
<1>6. CASE ServeRefresh(c)
  BY <1>6, RefreshTickets
<1>7. CASE ServeApp(c)
  <2>1. r.kind \in AppKinds /\ UNCHANGED <<sessions, issued>>
    BY <1>7 DEF ServeApp
  <2>2. PICK status \in {"410", "ok", "401", "other"} :
          /\ Reply(c, status, NoToken, NoUser, NoCookie)
          /\ status = "ok" => r.kind = "email"
    BY <1>7 DEF ServeApp
  <2>3. r.stage # "refresh" /\ r.kind # "jwt"
    BY <1>2, <2>1 DEF AppKinds, Refreshes
  <2> QED BY <1>3, <1>4, <2>1, <2>2, <2>3
<1>8. CASE ServeLogin(c) \/ ServeMfa(c) \/ Rotate(c)
  <2>1. issued' = issued + 1 /\ issued' \in Tokens
    BY <1>2, <1>8, Constants DEF ServeLogin, ServeMfa, Rotate, Tokens, Inv, TypeOK
  <2>2. /\ r.kind \in {"login", "mfa", "profile", "page"} /\ r.stage # "refresh"
        /\ r.kind # "jwt"
    BY <1>2, <1>8 DEF ServeLogin, ServeMfa, Rotate, Refreshes
  <2>3. \E status, user : /\ status \in {"ok", "401"}
                           /\ Reply(c, status, issued', user, NoCookie)
    BY <1>8 DEF ServeLogin, ServeMfa, Rotate
  <2>4. \/ \E new : new.gen = 0 /\ sessions' = [sessions EXCEPT ![issued'] = new]
        \/ \E new : /\ new.gen = 0
                    /\ sessions' = [sessions EXCEPT ![s].status = "expired", ![issued'] = new]
    BY <1>8 DEF ServeLogin, ServeMfa, Rotate, Issue
  <2>5. CASE ServeMfa(c) \/ Rotate(c)
    <3>1. s \in Tokens /\ Status(s) # "revoked"
      BY <1>2, <2>5 DEF ServeMfa, Rotate, Status, TokenOrNone
    <3> QED BY <1>2, <1>3, <2>1, <2>2, <2>3, <2>4, <3>1, IssuedPairs
  <2>6. CASE ServeLogin(c)
    <3>1. \E new : new.gen = 0 /\ sessions' = [sessions EXCEPT ![issued'] = new]
      BY <2>6 DEF ServeLogin, Issue
    <3> QED BY <1>2, <1>3, <2>1, <2>2, <2>3, <3>1, IssuedPairs
  <2> QED BY <1>8, <2>5, <2>6
<1> QED BY <1>5, <1>6, <1>7, <1>8 DEF Handle

\* A freshly loaded tab holds the one cookie of its session.
LEMMA TicketsInit == Init => Truthful /\ Tickets
<1> SUFFICES ASSUME Init PROVE Truthful /\ Tickets
  OBVIOUS
<1> DEFINE cookie == [session |-> issued, gen |-> issued]
           start == [session |-> issued, access |-> issued = 1, pending |-> FALSE,
                     profile |-> NoUser, loading |-> FALSE, modal |-> "closed", busy |-> FALSE,
                     cookie |-> cookie]
<1>1. tab = Fresh(start) /\ issued \in {0, 1}
  BY DEF Init
<1>2. /\ start.session = issued /\ start.cookie = cookie
      /\ DOMAIN start = {"session", "access", "pending", "profile", "loading", "modal", "busy",
                         "cookie"}
  OBVIOUS
<1>3. cookie.session = issued /\ cookie.gen = issued
  OBVIOUS
<1> HIDE DEF start, cookie
<1>4. tab.session = issued /\ tab.cookie = cookie
  BY <1>1, <1>2 DEF Fresh
<1>5. PICK c \in Calls : calls = OnlyLoad(tab, c)
  BY DEF Init
<1>6. \A d \in InFlight : d \in Calls /\ d = c
                          /\ calls[d] = Request("profile", "first", tab.session, TRUE)
  BY <1>5 DEF InFlight, OnlyLoad
<1>7. \A d \in InFlight : /\ calls[d].kind = "profile" /\ calls[d].stage = "first"
                          /\ calls[d].sent = issued /\ calls[d].token = NoToken
                          /\ calls[d].status = "wait" /\ calls[d].cookie = NoCookie
  BY <1>4, <1>6 DEF Request
<1>8. issued = 1 => sessions[1].gen = 1
  BY Constants DEF Init, Tokens
<1>9. Truthful
  BY <1>1, <1>4, <1>7 DEF Truthful, Faithful, Refused, AppKinds
<1>10. Known(tab.cookie) /\ Current(tab.cookie)
  BY <1>1, <1>3, <1>4, <1>8 DEF Known, Current
<1>11. RefreshOwners = {} /\ Owners
  BY <1>7 DEF RefreshOwners, Owners
<1>12. Cookies
  BY <1>7, <1>10 DEF Cookies, Known, NoCookie
<1>13. Pairs /\ Grants
  BY <1>7 DEF Pairs, Grants, Pairing, Granted
<1> QED BY <1>9, <1>10, <1>11, <1>12, <1>13 DEF Tickets, TabCurrent

\* The story of the cookies, while no request is lost.
Story == Truthful /\ (losses = 0 => Tickets)

\* What ends a session elsewhere, or nothing, keeps it.
LEMMA QuietStory ==
    ASSUME Inv, Story, tab' = tab, calls' = calls, losses' = losses, Grown, SamePairs
    PROVE  Story'
<1>1. Truthful'
  BY ServerTruthful DEF Story
<1>2. losses = 0 => Tickets'
  BY PlainTickets DEF Story
<1> QED BY <1>1, <1>2 DEF Story

\* Every step of the client or the backend keeps it.
LEMMA StoryNext == Inv /\ Story /\ [Next]_vars => Story'
<1> SUFFICES ASSUME Inv, Story, [Next]_vars PROVE Story'
  OBVIOUS
<1>1. /\ Truthful /\ losses \in Nat /\ (losses = 0 => Tickets)
      /\ issued \in Nat /\ sessions \in [Tokens -> Session]
  BY ClientAssumption DEF Story, Inv, TypeOK
<1>2. ASSUME Browser, losses' = 0 => losses = 0,
             losses' = 0 /\ Tickets => CookieStays \/ CookieDropped \/ CookieTaken
      PROVE  Story'
  BY <1>1, <1>2, BrowserTruthful, BrowserTickets DEF Story
<1>3. ASSUME NEW c \in Calls, Deliver(c) PROVE Story'
  <2>1. losses' = losses
    BY <1>3 DEF Deliver, SessionOk, SessionThrows, SessionRotated, SessionUnauthorized,
                RefreshSettles, AppOk, AppPending, AppThrows, ClientUnchanged
  <2> QED BY <1>1, <1>2, <1>3, <2>1, DeliverBrowser DEF Tickets
<1>4. ASSUME NEW c \in Calls, Handle(c) PROVE Story'
  <2>1. losses' = losses
    BY <1>4 DEF Handle, Serve, ServeRefresh, ServeApp, ServeLogin, ServeMfa, Rotate
  <2> QED BY <1>1, <1>4, <2>1, HandleTruthful, HandleTickets DEF Story
<1>5. ASSUME NEW c \in Calls, Lose(c) PROVE Story'
  <2>1. losses' # 0
    BY <1>1, <1>5 DEF Lose
  <2> QED BY <1>1, <1>5, <2>1, HandleTruthful DEF Story
<1>6. CASE EndElsewhere
  <2>1. PICK s \in 1..issued, status \in {"expired", "revoked"} :
           /\ Status(s) = "live"
           /\ sessions' = [sessions EXCEPT ![s].status = status]
    BY <1>6 DEF EndElsewhere
  <2>2. tab' = tab /\ calls' = calls /\ issued' = issued /\ losses' = losses
    BY <1>6 DEF EndElsewhere
  <2>3. Grown
    BY <1>1, <2>1, <2>2 DEF Grown, Session
  <2>4. SamePairs
    BY <1>1, <2>1, <2>2 DEF SamePairs, Session, Status
  <2> QED BY <1>1, <2>2, <2>3, <2>4, QuietStory
<1>7. CASE Visit \/ (\E kind \in {"email", "logout"} : UseAccount(kind))
           \/ OpenDialog \/ CloseDialog \/ Submit \/ Reload
  <2>1. \/ \E kind \in {"page", "email", "logout"} : Start(kind)
        \/ OpenDialog \/ CloseDialog \/ Submit \/ Reload
    BY <1>7 DEF Visit, UseAccount
  <2>2. losses' \in {losses, losses + 1}
    BY <2>1 DEF Start, OpenDialog, CloseDialog, Submit, Reload, ClientUnchanged
  <2>3. losses' = 0 => losses = 0
    BY <1>1, <2>2
  <2> QED BY <1>1, <1>2, <2>1, <2>3, UserBrowser
<1>8. CASE UNCHANGED vars
  <2>1. tab' = tab /\ calls' = calls /\ sessions' = sessions /\ issued' = issued /\ losses' = losses
    BY <1>8 DEF vars
  <2>2. Grown /\ SamePairs
    BY <1>1, <2>1 DEF Grown, SamePairs
  <2> QED BY <1>1, <2>1, <2>2, QuietStory
<1> QED BY <1>3, <1>4, <1>5, <1>6, <1>7, <1>8 DEF Next

\* Under what answers a step of the browser takes the stored token of a live session away.
LEMMA LogoutCauses ==
    ASSUME Inv, Story, NEW d \in Calls, Deliver(d), NEW c \in Calls, LogsOut(c),
           Status(tab.session) = "live", calls[c].sent = tab.session, losses = 0
    PROVE  calls[c].stage = "refresh" /\ calls[c].cookie.session # tab.session
<1> DEFINE r == calls[d]
<1>1. /\ Truthful /\ Tickets /\ tab \in Tab /\ c \in InFlight /\ calls[c].status # "wait"
      /\ calls'[c] = NoCall /\ calls[c].kind # "logout"
      /\ calls[c].stage = "refresh" => calls[c].awaits = c
      /\ tab.session # NoToken /\ tab'.session = NoToken
  BY DEF Story, Inv, TypeOK, LogsOut, Answered
<1>2. Faithful(calls[c]) /\ ~Refused(calls[c])
  BY <1>1 DEF Truthful, Faithful
<1>3. d \in InFlight /\ r.token \in TokenOrNone
  BY CallFields DEF Deliver, SessionOk, SessionThrows, SessionRotated, SessionUnauthorized,
                    RefreshSettles, AppOk, AppPending, AppThrows, Answered
<1>4. WithToken(tab, r.token).session # NoToken /\ Stored(tab, r).session # NoToken
  BY <1>1, <1>3, WithTokenFields, StoredFields
<1>5. ASSUME NEW t \in Tab, t.session # NoToken, NEW hard \in BOOLEAN, Throw({d}, t, hard)
      PROVE  c = d /\ hard
  <2> DEFINE who == {d}
  <2>1. Throw(who, t, hard)
    BY <1>5
  <2> HIDE DEF who
  <2>2. /\ ~hard /\ (\A w \in who : calls[w].kind # "logout") => tab'.session = t.session
        /\ c \notin who => calls'[c] # NoCall
    BY <1>1, <2>1, ThrowFields
  <2> QED BY <1>1, <1>5, <2>2 DEF who
<1>6. CASE SessionOk(d)
  <2>1. CASE r.kind = "logout"
    <3> DEFINE event == HasAuth(Stored(tab, r))
    <3>1. calls' = [AfterEvent(calls, event) EXCEPT ![d] = NoCall] /\ event \in BOOLEAN
      BY <1>1, <1>6, <2>1 DEF SessionOk, HasAuth
    <3> HIDE DEF event
    <3>2. AfterEvent(calls, event) \in [Calls -> Call \cup {NoCall}]
      BY InvGood, AfterEventCalls DEF CallsOK
    <3>3. c # d /\ calls'[c] = AfterEvent(calls, event)[c]
      BY <1>1, <2>1, <3>1, <3>2
    <3> QED BY <1>1, <3>1, <3>3, AfterEventStays
  <2>2. CASE r.kind # "logout"
    <3> DEFINE t == Stored(tab, r)
               over == [t EXCEPT !.pending = FALSE]
               done == Announced(over)
    <3>1. t \in Tab /\ t.session # NoToken
      BY <1>1, <1>3, <1>4, StoredFields
    <3> HIDE DEF t
    <3>2. over \in Tab /\ over.session = t.session
      BY <3>1 DEF Tab
    <3> HIDE DEF over
    <3>3. done \in Tab /\ done.session = over.session
      BY <3>2, AnnouncedGood DEF Announced, Tab, Good
    <3> HIDE DEF done
    <3>4. \/ tab' = t
          \/ tab' = [t EXCEPT !.profile = r.user, !.loading = FALSE]
          \/ tab' = [t EXCEPT !.access = TRUE, !.cookie = r.cookie]
          \/ tab' = [done EXCEPT !.modal = IF @ = "closed" THEN @ ELSE "done"]
      BY <1>6, <2>2 DEF SessionOk, Go, t, over, done
    <3> QED BY <1>1, <3>1, <3>2, <3>3, <3>4 DEF Tab
  <2> QED BY <2>1, <2>2
<1>7. CASE SessionThrows(d) \/ SessionRotated(d)
  <2>1. CASE SessionThrows(d)
    <3>1. PICK t \in {tab, WithToken(tab, r.token)} : Throw({d}, t, FALSE)
      BY <2>1 DEF SessionThrows
    <3>2. t \in Tab /\ t.session # NoToken
      BY <1>1, <1>3, <1>4, WithTokenFields
    <3> QED BY <1>5, <3>1, <3>2
  <2>2. CASE SessionRotated(d)
    BY <1>1, <1>4, <2>2 DEF SessionRotated, Go
  <2> QED BY <1>7, <2>1, <2>2
<1>8. CASE SessionUnauthorized(d)
  <2> DEFINE hard == r.kind \in HardLogouts
  <2>1. Throw({d}, tab, hard) /\ hard \in BOOLEAN
    BY <1>1, <1>8 DEF SessionUnauthorized, Go
  <2> HIDE DEF hard
  <2>2. c = d
    BY <1>1, <1>5, <2>1
  <2>3. calls[c].kind \in SessionKinds /\ calls[c].stage # "refresh" /\ calls[c].status = "401"
    BY <1>8, <2>2 DEF SessionUnauthorized
  <2> QED BY <1>2, <2>3 DEF Refused
<1>9. CASE RefreshSettles(d)
  <2> DEFINE who == {w \in InFlight : calls[w].stage = "refresh" /\ calls[w].awaits = d}
             hard == \E w \in who : calls[w].kind \in HardLogouts
  <2>1. Throw(who, tab, hard) /\ hard \in BOOLEAN /\ r.status # "ok"
    BY <1>1, <1>9 DEF RefreshSettles, Tab
  <2> HIDE DEF hard, who
  <2>2. c \in who
    BY <1>1, <2>1, ThrowFields
  <2>3. c = d /\ calls[c].stage = "refresh" /\ c \in RefreshOwners
    BY <1>1, <2>2 DEF who, RefreshOwners
  <2> QED BY <1>1, <2>1, <2>3 DEF Tickets, Owners
<1>10. CASE AppOk(d)
  BY <1>1, <1>4, <1>10 DEF AppOk, Go
<1>11. CASE AppPending(d)
  <2> DEFINE stored == [tab EXCEPT !.session = r.token]
             marked == [stored EXCEPT !.pending = TRUE]
             shown == MarkedPending(stored)
  <2>1. /\ tab' = IF r.current THEN [shown EXCEPT !.modal = "mfa", !.busy = FALSE] ELSE shown
        /\ r.token # NoToken
    BY <1>11 DEF AppPending
  <2>2. stored \in Tab /\ stored.session = r.token
    BY <1>1, <1>3 DEF Tab
  <2> HIDE DEF stored
  <2>3. marked \in Tab /\ marked.session = r.token /\ shown \in {stored, Announced(marked)}
    BY <2>2 DEF MarkedPending, Tab
  <2> HIDE DEF marked, shown
  <2>4. Announced(marked) \in Tab /\ Announced(marked).session = r.token
    BY <2>3, AnnouncedGood DEF Announced, Tab, Good
  <2>5. shown \in Tab /\ shown.session = r.token
    BY <2>2, <2>3, <2>4
  <2> QED BY <1>1, <2>1, <2>5 DEF Tab
<1>12. CASE AppThrows(d)
  <2> DEFINE hard == r.status = "410"
  <2>1. Throw({d}, tab, hard) /\ hard \in BOOLEAN /\ r.kind \in AppKinds
    BY <1>12 DEF AppThrows
  <2> HIDE DEF hard
  <2>2. c = d /\ hard
    BY <1>1, <1>5, <2>1
  <2> QED BY <1>2, <2>1, <2>2 DEF Refused, hard
<1> QED BY <1>6, <1>7, <1>8, <1>9, <1>10, <1>11, <1>12 DEF Deliver

\* Nothing but an answer takes the stored token away.
LEMMA TokenTakers ==
    ASSUME Inv, [Next]_vars, NEW c \in Calls, LogsOut(c)
    PROVE  \E d \in Calls : Deliver(d)
<1>1. tab \in Tab /\ tab.session # tab'.session
  BY DEF Inv, TypeOK, LogsOut
<1>2. ~(\E d \in Calls : Handle(d) \/ Lose(d)) /\ ~EndElsewhere /\ ~UNCHANGED vars
  BY <1>1 DEF Handle, Serve, ServeRefresh, ServeApp, ServeLogin, ServeMfa, Rotate, Lose,
              EndElsewhere, vars
<1>3. ~Visit /\ ~(\E kind \in {"email", "logout"} : UseAccount(kind)) /\ ~Submit
  BY <1>1 DEF Visit, UseAccount, Start, Submit, Go, Tab
<1>4. ~OpenDialog /\ ~CloseDialog /\ ~Reload
  BY <1>1 DEF OpenDialog, CloseDialog, Reload, Fresh, Tab
<1> QED BY <1>2, <1>3, <1>4 DEF Next

\* A live session is thrown away only on an answer about an older token, on a lost
\* request, or with a cookie of another session: requests that fail together share one
\* exchange of the cookie (refreshInFlight), and a 401 never speaks of a live token.
THEOREM SessionKept == Spec => LiveSessionKept
<1>1. Init => Story
  BY TicketsInit DEF Story
<1>2. Inv /\ Story /\ [Next]_vars =>
        [\A c \in Calls : LogsOut(c) /\ Status(tab.session) = "live" =>
          \/ calls[c].sent # tab.session
          \/ losses > 0
          \/ calls[c].stage = "refresh" /\ calls[c].cookie.session # tab.session]_vars
  <2>1. Inv => losses \in Nat
    BY ClientAssumption DEF Inv, TypeOK
  <2> QED BY <2>1, TokenTakers, LogoutCauses
<1> QED BY <1>1, <1>2, StoryNext, Invariance, PTL DEF Spec, LiveSessionKept
=============================================================================

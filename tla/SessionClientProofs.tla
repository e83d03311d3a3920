------------------------ MODULE SessionClientProofs ------------------------
(* Nobody is shown in the header who is not logged in: for any number of   *)
(* calls, sessions, lost answers and replaced tokens.  And whoever is shown*)
(* is the user of the stored session.                                      *)
EXTENDS SessionClient, TLAPS

USE DEF NoToken, NoUser

\* The bound is positive; no token and nobody are values like the others.
LEMMA Constants == MaxSessions \in Nat \ {0} /\ 0 \in User /\ 0 \in TokenOrNone
BY ClientAssumption DEF User, TokenOrNone

\* A tab that shows somebody only while it is logged in.
Good(t) == t \in Tab /\ (t.profile # NoUser => CanLoadProfile(t))

CallsOK(cs) == cs \in [Calls -> Call \cup {NoCall}]

Inv == TypeOK /\ ShownIsLoggedIn

\* What the invariant says of the tab.
LEMMA InvGood == Inv => Good(tab) /\ CallsOK(calls)
BY DEF Inv, TypeOK, ShownIsLoggedIn, Good, CallsOK

\* The auth event keeps the tokens and shows nobody.
LEMMA AnnouncedGood ==
    ASSUME NEW t \in Tab
    PROVE  Good(Announced(t))
<1>1. CanLoadProfile(t) \in BOOLEAN
  BY DEF CanLoadProfile
<1> QED BY <1>1, Constants DEF Good, Announced, Tab

\* clearAuthStorage leaves nobody shown.
LEMMA ClearedGood ==
    ASSUME NEW t, Good(t)
    PROVE  Good(Cleared(t))
<1> DEFINE empty == [t EXCEPT !.session = NoToken, !.access = FALSE, !.pending = FALSE]
<1>1. t \in Tab
  BY DEF Good
<1>2. empty \in Tab /\ empty.profile = t.profile
  BY <1>1 DEF Tab, TokenOrNone
<1>3. CASE HasAuth(t)
  BY <1>2, <1>3, AnnouncedGood DEF Cleared
<1>4. CASE ~HasAuth(t)
  BY <1>2, <1>4 DEF Cleared, Good, CanLoadProfile
<1> QED BY <1>3, <1>4

\* A token put into the storage logs nobody out.
LEMMA WithTokenGood ==
    ASSUME NEW t, Good(t), NEW token \in TokenOrNone
    PROVE  Good(WithToken(t, token))
<1>1. CASE token = NoToken
  BY <1>1 DEF WithToken
<1>2. CASE token # NoToken
  BY <1>2 DEF WithToken, Good, Tab, CanLoadProfile, HasAuth
<1> QED BY <1>1, <1>2

\* Nor does the token of an answer.
LEMMA StoredGood ==
    ASSUME NEW t, Good(t), NEW r, r.token \in TokenOrNone
    PROVE  Good(Stored(t, r))
BY WithTokenGood DEF Stored

\* A session that waits for its second factor shows nobody.
LEMMA MarkedPendingGood ==
    ASSUME NEW t \in Tab, t.pending => t.profile = NoUser
    PROVE  Good(MarkedPending(t))
<1> DEFINE marked == [t EXCEPT !.pending = TRUE]
<1>1. CASE t.pending
  BY <1>1 DEF MarkedPending, Good
<1>2. CASE ~t.pending
  <2>1. marked \in Tab
    BY DEF Tab
  <2> QED BY <1>2, <2>1, AnnouncedGood DEF MarkedPending
<1> QED BY <1>1, <1>2

\* What a request is made of.
LEMMA RequestCall ==
    ASSUME NEW kind \in SessionKinds \cup AppKinds,
           NEW stage \in {"first", "rotated", "refresh", "retry"},
           NEW token \in TokenOrNone, NEW current \in BOOLEAN
    PROVE  Request(kind, stage, token, current) \in Call
BY Constants DEF Request, Call, NoCookie, Cookie

\* An outdated call is still a call.
LEMMA OutdatedCalls ==
    ASSUME NEW cs, CallsOK(cs), NEW kinds
    PROVE  CallsOK(Outdated(cs, kinds))
BY DEF CallsOK, Outdated, Call

\* The auth event only outdates loads.
LEMMA AfterEventCalls ==
    ASSUME NEW cs, CallsOK(cs), NEW event
    PROVE  CallsOK(AfterEvent(cs, event))
BY OutdatedCalls DEF AfterEvent

\* Whoever throws, the tab stays good: a load that fails shows nobody.
LEMMA ThrowGood ==
    ASSUME Inv, NEW who \in SUBSET InFlight, NEW t, Good(t), NEW hard \in BOOLEAN,
           Throw(who, t, hard)
    PROVE  Good(tab') /\ CallsOK(calls')
<1> DEFINE clears == hard \/ \E c \in who : calls[c].kind = "logout"
           after == AfterEvent(calls, clears /\ HasAuth(t))
           mine(kinds) == \E c \in who : after[c].kind \in kinds /\ after[c].current
           left == IF clears THEN Cleared(t) ELSE t
<1>1. CallsOK(after)
  BY InvGood, AfterEventCalls
<1>2. Good(left)
  BY ClearedGood
<1>3. /\ tab' = [left EXCEPT !.profile = IF mine({"profile"}) THEN NoUser ELSE @,
                            !.loading = IF mine({"profile"}) THEN FALSE ELSE @,
                            !.busy = IF mine(Flow) THEN FALSE ELSE @]
      /\ calls' = [c \in Calls |-> IF c \in who THEN NoCall ELSE after[c]]
  BY DEF Throw
<1>4. CallsOK(calls')
  BY <1>1, <1>3 DEF CallsOK
<1> HIDE DEF left, mine
<1>5. Good(tab')
  <2>1. tab' \in Tab
    BY <1>2, <1>3, Constants DEF Good, Tab
  <2>2. /\ tab'.profile \in {NoUser, left.profile} /\ tab'.session = left.session
        /\ tab'.access = left.access /\ tab'.pending = left.pending
    BY <1>2, <1>3 DEF Good, Tab
  <2> QED BY <2>1, <2>2, <1>2 DEF Good, CanLoadProfile, HasAuth
<1> QED BY <1>4, <1>5

\* A step of one call.
LEMMA GoGood ==
    ASSUME Inv, NEW c \in Calls, NEW t, Good(t), NEW call \in Call \cup {NoCall}, Go(c, t, call)
    PROVE  Good(tab') /\ CallsOK(calls')
BY InvGood DEF Go, CallsOK

\* An answered call is a call, and what it holds is of the right kind.
LEMMA CallFields ==
    ASSUME Inv, NEW c \in InFlight
    PROVE  /\ c \in Calls /\ calls[c] \in Call
           /\ calls[c].kind \in SessionKinds \cup AppKinds
           /\ calls[c].token \in TokenOrNone /\ calls[c].sent \in TokenOrNone
           /\ calls[c].user \in User /\ calls[c].current \in BOOLEAN
           /\ calls[c].cookie \in Cookie
           /\ calls[c].cookie.session \in TokenOrNone /\ calls[c].cookie.gen \in 0..2
<1>1. c \in Calls /\ calls[c] # NoCall
  BY DEF InFlight
<1>2. calls[c] \in Call
  BY <1>1, InvGood DEF CallsOK
<1> QED BY <1>1, <1>2 DEF Call, Cookie

\* What the answers of requestWithSession do.
LEMMA SessionOkGood ==
    ASSUME Inv, NEW c \in Calls, SessionOk(c)
    PROVE  Good(tab') /\ CallsOK(calls')
<1> DEFINE r == calls[c]
           t == Stored(tab, r)
           done == Announced([t EXCEPT !.pending = FALSE])
<1>1. c \in InFlight
  BY DEF SessionOk, Answered
<1>2. Good(t)
  BY <1>1, CallFields, InvGood, StoredGood
<1>3. t \in Tab /\ t.session \in TokenOrNone
  BY <1>2 DEF Good, Tab
<1>4. NoCall \in Call \cup {NoCall}
  OBVIOUS
<1> HIDE DEF t
<1>5. CASE r.kind = "profile"
  <2> DEFINE next == IF r.current /\ CanLoadProfile(t)
                     THEN [t EXCEPT !.profile = r.user, !.loading = FALSE] ELSE t
  <2>1. Good(next)
    BY <1>1, <1>2, CallFields DEF Good, Tab, CanLoadProfile, HasAuth
  <2>2. Go(c, next, NoCall)
    BY <1>5 DEF SessionOk, t
  <2> QED BY <2>1, <2>2, <1>4, GoGood
<1>6. CASE r.kind = "page"
  <2>1. Go(c, t, NoCall)
    BY <1>6 DEF SessionOk, t
  <2> QED BY <2>1, <1>2, <1>4, GoGood
<1>7. CASE r.kind = "logout"
  <2>1. /\ tab' = [Cleared(t) EXCEPT !.cookie = NoCookie]
        /\ calls' = [AfterEvent(calls, HasAuth(t)) EXCEPT ![c] = NoCall]
    BY <1>7 DEF SessionOk, t
  <2>2. Good(Cleared(t)) /\ NoCookie \in Cookie
    BY <1>2, ClearedGood, Constants DEF NoCookie, Cookie
  <2>3. Good(tab')
    BY <2>1, <2>2 DEF Good, Tab, CanLoadProfile, HasAuth
  <2>4. CallsOK(AfterEvent(calls, HasAuth(t)))
    BY InvGood, AfterEventCalls
  <2> QED BY <2>1, <2>3, <2>4 DEF CallsOK
<1>8. CASE r.kind = "jwt"
  <2> DEFINE next == [t EXCEPT !.access = TRUE, !.cookie = r.cookie]
  <2>1. Good(next)
    BY <1>1, <1>2, CallFields DEF Good, Tab, CanLoadProfile, HasAuth
  <2>2. Go(c, next, Request("me", "first", t.session, r.current))
    BY <1>8 DEF SessionOk, t
  <2>3. Request("me", "first", t.session, r.current) \in Call
    BY <1>1, <1>3, CallFields, RequestCall DEF SessionKinds
  <2> QED BY <2>1, <2>2, <2>3, GoGood
<1>9. CASE r.kind = "me"
  <2>1. /\ tab' = [done EXCEPT !.modal = IF @ = "closed" THEN @ ELSE "done"]
        /\ calls' = [AfterEvent(calls, TRUE) EXCEPT ![c] =
              IF CanLoadProfile(done)
              THEN Request("profile", "first", t.session, TRUE) ELSE NoCall]
    BY <1>9 DEF SessionOk, t
  <2>2. [t EXCEPT !.pending = FALSE] \in Tab
    BY <1>3 DEF Tab
  <2>3. Good(done)
    BY <2>2, AnnouncedGood
  <2>4. Request("profile", "first", t.session, TRUE) \in Call
    BY <1>3, RequestCall DEF SessionKinds
  <2>5. CallsOK(AfterEvent(calls, TRUE))
    BY InvGood, AfterEventCalls
  <2> HIDE DEF done
  <2>6. Good(tab')
    BY <2>1, <2>3 DEF Good, Tab, CanLoadProfile, HasAuth
  <2> QED BY <2>1, <2>4, <2>5, <2>6 DEF CallsOK
<1> QED BY <1>5, <1>6, <1>7, <1>8, <1>9 DEF SessionOk, SessionKinds

\* A refused request throws, goes on with a new token or refreshes.
LEMMA SessionRefusedGood ==
    ASSUME Inv, NEW c \in Calls,
           SessionThrows(c) \/ SessionRotated(c) \/ SessionUnauthorized(c)
    PROVE  Good(tab') /\ CallsOK(calls')
<1> DEFINE r == calls[c]
<1>1. c \in InFlight /\ {c} \in SUBSET InFlight
  BY DEF SessionThrows, SessionRotated, SessionUnauthorized, Answered
<1>2. Good(tab) /\ Good(WithToken(tab, r.token))
  BY <1>1, CallFields, InvGood, WithTokenGood
<1>3. CASE SessionThrows(c)
  BY <1>1, <1>2, <1>3, ThrowGood DEF SessionThrows
<1>4. CASE SessionRotated(c)
  <2>1. Request(r.kind, "rotated", r.token, r.current) \in Call
    BY <1>1, CallFields, RequestCall
  <2> QED BY <1>2, <1>4, <2>1, GoGood DEF SessionRotated
<1>5. CASE SessionUnauthorized(c)
  <2>1. CASE r.kind \in Refreshes /\ r.stage # "retry"
    <3>1. tab.session \in TokenOrNone /\ tab.cookie \in Cookie
      BY <1>2 DEF Good, Tab
    <3>2. AwaitedRefresh(c) \in Calls
      BY DEF AwaitedRefresh, RefreshOwners, InFlight
    <3>3. Refresh(c, tab) \in Call
      BY <1>1, <3>1, <3>2, CallFields, Constants DEF Refresh, Call
    <3> QED BY <1>2, <1>5, <2>1, <3>3, GoGood DEF SessionUnauthorized
  <2>2. CASE ~(r.kind \in Refreshes /\ r.stage # "retry")
    <3>1. Throw({c}, tab, r.kind \in HardLogouts)
      BY <1>5, <2>2 DEF SessionUnauthorized
    <3>2. (r.kind \in HardLogouts) \in BOOLEAN
      OBVIOUS
    <3> QED BY <1>1, <1>2, <3>1, <3>2, ThrowGood
  <2> QED BY <2>1, <2>2
<1> QED BY <1>3, <1>4, <1>5

\* The end of a shared refresh resumes or throws all who await it.
LEMMA RefreshSettlesGood ==
    ASSUME Inv, NEW c \in Calls, RefreshSettles(c)
    PROVE  Good(tab') /\ CallsOK(calls')
<1> DEFINE who == {w \in InFlight : calls[w].stage = "refresh" /\ calls[w].awaits = c}
<1>1. c \in InFlight /\ Good(tab) /\ CallsOK(calls)
  BY InvGood DEF RefreshSettles, Answered
<1>2. CASE calls[c].status = "ok"
  <2>1. /\ tab' = [tab EXCEPT !.access = TRUE, !.cookie = calls[c].cookie]
        /\ calls' = [w \in Calls |-> IF w \in who
               THEN Request(calls[w].kind, "retry", tab.session, calls[w].current)
               ELSE calls[w]]
    BY <1>2 DEF RefreshSettles
  <2>2. Good(tab')
    BY <1>1, <2>1, CallFields DEF Good, Tab, CanLoadProfile, HasAuth
  <2>3. tab.session \in TokenOrNone
    BY <1>1 DEF Good, Tab
  <2>4. \A w \in who : Request(calls[w].kind, "retry", tab.session, calls[w].current) \in Call
    BY <2>3, CallFields, RequestCall
  <2> QED BY <1>1, <2>1, <2>2, <2>4 DEF CallsOK
<1>3. CASE calls[c].status # "ok"
  <2>1. Throw(who, tab, \E w \in who : calls[w].kind \in HardLogouts)
    BY <1>3 DEF RefreshSettles
  <2> QED BY <1>1, <2>1, ThrowGood
<1> QED BY <1>2, <1>3

\* What the answers of allauthAppRequest do.
LEMMA AppGood ==
    ASSUME Inv, NEW c \in Calls, AppOk(c) \/ AppPending(c) \/ AppThrows(c)
    PROVE  Good(tab') /\ CallsOK(calls')
<1> DEFINE r == calls[c]
           t == WithToken(tab, r.token)
<1>1. c \in InFlight /\ {c} \in SUBSET InFlight
  BY DEF AppOk, AppPending, AppThrows, Answered
<1>2. Good(tab) /\ Good(t)
  BY <1>1, CallFields, InvGood, WithTokenGood
<1>3. CASE AppOk(c)
  <2>1. t.session \in TokenOrNone
    BY <1>2 DEF Good, Tab
  <2>2. Request("jwt", "first", t.session, r.current) \in Call
    BY <1>1, <2>1, CallFields, RequestCall DEF SessionKinds
  <2> QED BY <1>2, <1>3, <2>2, GoGood DEF AppOk
<1>4. CASE AppPending(c)
  <2> DEFINE stored == [tab EXCEPT !.session = r.token]
             shown == MarkedPending(stored)
  <2>1. /\ tab' = IF r.current THEN [shown EXCEPT !.modal = "mfa", !.busy = FALSE] ELSE shown
        /\ calls' = [AfterEvent(calls, ~tab.pending) EXCEPT ![c] = NoCall]
    BY <1>4 DEF AppPending
  <2>2. stored \in Tab /\ stored.profile = tab.profile /\ stored.pending = tab.pending
    BY <1>1, <1>2, CallFields DEF Good, Tab
  <2>3. Good(shown)
    BY <1>2, <2>2, MarkedPendingGood DEF Good, CanLoadProfile
  <2> HIDE DEF shown
  <2>4. Good(tab')
    BY <2>1, <2>3 DEF Good, Tab, CanLoadProfile, HasAuth
  <2>5. CallsOK(AfterEvent(calls, ~tab.pending))
    BY InvGood, AfterEventCalls
  <2> QED BY <2>1, <2>4, <2>5 DEF CallsOK
<1>5. CASE AppThrows(c)
  BY <1>1, <1>2, <1>5, ThrowGood DEF AppThrows
<1> QED BY <1>3, <1>4, <1>5

\* What the backend knows of a session stays of its kind.
SessionsOK(ss) == ss \in [Tokens -> Session]

\* An answer fills the fields of its request.
LEMMA ReplyCalls ==
    ASSUME Inv, NEW c \in InFlight, NEW status \in {"wait", "ok", "401", "410", "other"},
           NEW token \in TokenOrNone, NEW user \in User, NEW cookie \in Cookie,
           Reply(c, status, token, user, cookie)
    PROVE  CallsOK(calls')
<1>1. [calls[c] EXCEPT !.status = status, !.token = token, !.user = user, !.cookie = cookie]
         \in Call
  BY CallFields DEF Call
<1> QED BY <1>1, InvGood DEF Reply, CallsOK

\* A token with a status is one the backend issued.
LEMMA KnownSession ==
    ASSUME Inv, NEW s \in TokenOrNone, Status(s) # "none"
    PROVE  /\ s \in Tokens /\ sessions[s] \in Session
           /\ sessions[s].user \in User /\ sessions[s].gen \in 0..2
<1>1. s \in Tokens
  BY DEF TokenOrNone, Status
<1> QED BY <1>1 DEF Inv, TypeOK, Session

\* There are two generations of a refresh token, and none yet.
LEMMA NextGenRange == \A gen : NextGen(gen) \in 0..2
BY DEF NextGen

\* No cookie is a value like the others.
LEMMA NoCookieCookie == NoCookie \in Cookie
BY Constants DEF NoCookie, Cookie

\* What the backend answers to requestWithSession.
LEMMA ServeOK ==
    ASSUME Inv, NEW c \in Calls, Serve(c)
    PROVE  CallsOK(calls') /\ SessionsOK(sessions')
<1> DEFINE r == calls[c]
           s == r.sent
           live == Status(s) = "live"
           cookie == [session |-> s, gen |-> NextGen(sessions[s].gen)]
<1>1. c \in InFlight /\ s \in TokenOrNone /\ SessionsOK(sessions)
  BY CallFields DEF Serve, Waiting, Inv, TypeOK, SessionsOK
<1>2. cookie \in Cookie
  BY <1>1, NextGenRange DEF Cookie
<1>3. CASE ~live
  BY <1>1, <1>3, ReplyCalls, Constants, NoCookieCookie DEF Serve
<1>4. CASE live /\ r.kind \in {"profile", "page", "me"}
  <2>1. Named(r.kind, s) \in User
    BY <1>1, <1>4, KnownSession, Constants DEF Named
  <2>2. Reply(c, "ok", NoToken, Named(r.kind, s), NoCookie) /\ UNCHANGED sessions
    BY <1>4 DEF Serve
  <2> QED BY <1>1, <2>1, <2>2, ReplyCalls, Constants, NoCookieCookie
<1>5. CASE live /\ r.kind = "logout"
  <2>1. /\ Reply(c, "ok", NoToken, NoUser, NoCookie)
        /\ sessions' = [sessions EXCEPT ![s].status = "revoked"]
    BY <1>5 DEF Serve
  <2>2. SessionsOK(sessions')
    BY <1>1, <1>5, <2>1, KnownSession DEF SessionsOK, Session
  <2> QED BY <1>1, <2>1, <2>2, ReplyCalls, Constants, NoCookieCookie
<1>6. CASE live /\ r.kind = "jwt"
  <2>1. /\ Reply(c, "ok", NoToken, NoUser, cookie)
        /\ sessions' = [sessions EXCEPT ![s].gen = cookie.gen]
    BY <1>6 DEF Serve
  <2>2. cookie.gen \in 0..2
    BY NextGenRange
  <2> HIDE DEF cookie
  <2>3. SessionsOK(sessions')
    BY <1>1, <1>6, <2>1, <2>2, KnownSession DEF SessionsOK, Session
  <2> QED BY <1>1, <1>2, <2>1, <2>3, ReplyCalls, Constants
<1> QED BY <1>3, <1>4, <1>5, <1>6 DEF Serve

\* What it answers to a refresh.
LEMMA ServeRefreshOK ==
    ASSUME Inv, NEW c \in Calls, ServeRefresh(c)
    PROVE  CallsOK(calls') /\ SessionsOK(sessions')
<1> DEFINE r == calls[c]
           s == r.cookie.session
           good == /\ s # NoToken /\ s = r.sent
                   /\ sessions[s].gen = r.cookie.gen /\ Status(s) # "revoked"
           next == [session |-> s, gen |-> NextGen(r.cookie.gen)]
<1>1. c \in InFlight /\ s \in TokenOrNone /\ r.cookie \in Cookie /\ SessionsOK(sessions)
  BY CallFields DEF ServeRefresh, Waiting, Inv, TypeOK, SessionsOK
<1>2. next \in Cookie /\ next.gen \in 0..2
  BY <1>1, NextGenRange DEF Cookie
<1>3. CASE good
  <2>1. /\ Reply(c, "ok", NoToken, NoUser, next)
        /\ sessions' = [sessions EXCEPT ![s].gen = next.gen]
    BY <1>3 DEF ServeRefresh
  <2>2. s \in Tokens
    BY <1>1, <1>3 DEF TokenOrNone
  <2> HIDE DEF next
  <2>3. SessionsOK(sessions')
    BY <1>1, <1>2, <2>1, <2>2 DEF SessionsOK, Session
  <2> QED BY <1>1, <1>2, <2>1, <2>3, ReplyCalls, Constants
<1>4. CASE ~good
  <2>1. Reply(c, "401", NoToken, NoUser, r.cookie) /\ UNCHANGED sessions
    BY <1>4 DEF ServeRefresh
  <2> QED BY <1>1, <2>1, ReplyCalls, Constants
<1> QED BY <1>3, <1>4

\* What it answers to allauthAppRequest, tokens issued aside.
LEMMA ServeAppOK ==
    ASSUME Inv, NEW c \in Calls, ServeApp(c)
    PROVE  CallsOK(calls')
<1>1. c \in InFlight
  BY DEF ServeApp, Waiting
<1>2. PICK status \in {"410", "ok", "401", "other"} :
         Reply(c, status, NoToken, NoUser, NoCookie)
  BY DEF ServeApp
<1> QED BY <1>1, <1>2, ReplyCalls, Constants, NoCookieCookie

\* The three ways a token is issued.
LEMMA IssueOK ==
    ASSUME Inv, NEW c \in Calls, ServeLogin(c) \/ ServeMfa(c) \/ Rotate(c)
    PROVE  CallsOK(calls') /\ SessionsOK(sessions') /\ issued' \in 0..MaxSessions
<1> DEFINE s == calls[c].sent
<1>1. c \in InFlight /\ s \in TokenOrNone
  BY CallFields DEF ServeLogin, ServeMfa, Rotate, Waiting
<1>2. issued \in 0..MaxSessions /\ issued < MaxSessions /\ issued' = issued + 1
  BY DEF ServeLogin, ServeMfa, Rotate, Inv, TypeOK
<1>3. /\ issued' \in Tokens /\ issued' \in User /\ issued' \in TokenOrNone
      /\ issued' \in 0..MaxSessions
  BY <1>2, Constants DEF Tokens, User, TokenOrNone
<1>4. SessionsOK(sessions)
  BY DEF Inv, TypeOK, SessionsOK
<1>5. CASE ServeLogin(c)
  <2>1. PICK second \in BOOLEAN :
          /\ Issue(issued', IF second THEN "pending" ELSE "live", issued')
          /\ Reply(c, IF second THEN "401" ELSE "ok", issued', NoUser, NoCookie)
    BY <1>5 DEF ServeLogin
  <2> DEFINE new == [status |-> IF second THEN "pending" ELSE "live",
                     user |-> issued', gen |-> 0]
  <2>2. SessionsOK(sessions')
    <3>1. new \in Session
      BY <1>3 DEF Session
    <3>2. sessions' = [sessions EXCEPT ![issued'] = new]
      BY <2>1 DEF Issue
    <3> HIDE DEF new
    <3>3. \A i : sessions' = [sessions EXCEPT ![i] = new] => SessionsOK(sessions')
      BY <1>4, <3>1 DEF SessionsOK
    <3> QED BY <3>2, <3>3
  <2> DEFINE status == IF second THEN "401" ELSE "ok"
  <2>3. status \in {"wait", "ok", "401", "410", "other"}
    OBVIOUS
  <2>4. Reply(c, status, issued', NoUser, NoCookie)
    BY <2>1
  <2> HIDE DEF status
  <2>5. CallsOK(calls')
    BY <1>1, <1>3, <2>3, <2>4, ReplyCalls, Constants, NoCookieCookie
  <2> QED BY <1>3, <2>2, <2>5
<1>6. ASSUME Status(s) # "none",
             sessions' = [sessions EXCEPT ![s].status = "expired",
                ![issued'] = [status |-> "live", user |-> sessions[s].user, gen |-> 0]]
      PROVE  SessionsOK(sessions')
  <2>1. s \in Tokens /\ sessions[s] \in Session /\ sessions[s].user \in User
    BY <1>1, <1>6, KnownSession
  <2>2. [sessions[s] EXCEPT !.status = "expired"] \in Session
    BY <2>1 DEF Session
  <2>3. [status |-> "live", user |-> sessions[s].user, gen |-> 0] \in Session
    BY <2>1 DEF Session
  <2> QED BY <1>3, <1>4, <1>6, <2>1, <2>2, <2>3 DEF SessionsOK
<1>7. CASE ServeMfa(c)
  <2>1. SessionsOK(sessions')
    BY <1>6, <1>7 DEF ServeMfa
  <2>2. Reply(c, "ok", issued', NoUser, NoCookie)
    BY <1>7 DEF ServeMfa
  <2> QED BY <1>1, <1>2, <1>3, <2>1, <2>2, ReplyCalls, Constants, NoCookieCookie
<1>8. CASE Rotate(c)
  <2>1. SessionsOK(sessions') /\ Status(s) = "live"
    BY <1>6, <1>8 DEF Rotate
  <2>2. PICK status \in {"ok", "401"} :
           Reply(c, status, issued',
                 IF status = "ok" THEN Named(calls[c].kind, s) ELSE NoUser, NoCookie)
    BY <1>8 DEF Rotate
  <2>3. Named(calls[c].kind, s) \in User
    BY <1>1, <2>1, KnownSession, Constants DEF Named
  <2> DEFINE user == IF status = "ok" THEN Named(calls[c].kind, s) ELSE NoUser
  <2>4. user \in User /\ Reply(c, status, issued', user, NoCookie)
    BY <2>2, <2>3, Constants
  <2> HIDE DEF user
  <2>5. status \in {"wait", "ok", "401", "410", "other"}
    OBVIOUS
  <2>6. CallsOK(calls')
    BY <1>1, <1>3, <2>4, <2>5, ReplyCalls, NoCookieCookie
  <2> QED BY <1>3, <2>1, <2>6
<1> QED BY <1>5, <1>7, <1>8

\* What the user does, and a page loaded anew.
LEMMA UserGood ==
    ASSUME Inv,
           \/ \E kind \in {"page", "email", "logout"} : Start(kind)
           \/ OpenDialog \/ CloseDialog \/ Submit \/ Reload
    PROVE  Good(tab') /\ CallsOK(calls')
<1>1. Good(tab) /\ CallsOK(calls) /\ tab.session \in TokenOrNone
  BY InvGood DEF Good, Tab
<1>2. Request("profile", "first", tab.session, TRUE) \in Call
  BY <1>1, RequestCall DEF SessionKinds
<1>3. ASSUME NEW kind \in {"page", "email", "logout"}, Start(kind)
      PROVE  Good(tab') /\ CallsOK(calls')
  <2>1. PICK c \in Calls : Go(c, tab, Request(kind, "first", tab.session, TRUE))
    BY <1>3 DEF Start, Free
  <2>2. Request(kind, "first", tab.session, TRUE) \in Call
    BY <1>1, RequestCall DEF SessionKinds, AppKinds
  <2> QED BY <1>1, <2>1, <2>2, GoGood
<1>4. CASE OpenDialog
  <2>1. Good(tab')
    BY <1>1, <1>4 DEF OpenDialog, Good, Tab, CanLoadProfile, HasAuth
  <2> QED BY <1>1, <1>4, <2>1, OutdatedCalls DEF OpenDialog
<1>5. CASE CloseDialog
  <2>1. Good(tab')
    BY <1>1, <1>5 DEF CloseDialog, Good, Tab, CanLoadProfile, HasAuth
  <2> DEFINE left == Outdated(calls, Flow \cup {"profile"})
  <2>2. CallsOK(left)
    BY <1>1, OutdatedCalls
  <2>3. \/ calls' = left
        \/ \E c \in Free : calls' = [left EXCEPT ![c] =
                                     Request("profile", "first", tab.session, TRUE)]
    BY <1>5 DEF CloseDialog
  <2> HIDE DEF left
  <2> QED BY <1>2, <2>1, <2>2, <2>3 DEF CallsOK
<1>6. CASE Submit
  <2>1. PICK c \in Calls :
          Go(c, [tab EXCEPT !.busy = TRUE], Request(tab.modal, "first", tab.session, TRUE))
    BY <1>6 DEF Submit, Free
  <2>2. Request(tab.modal, "first", tab.session, TRUE) \in Call
    BY <1>1, <1>6, RequestCall DEF Submit, AppKinds
  <2>3. Good([tab EXCEPT !.busy = TRUE])
    BY <1>1 DEF Good, Tab, CanLoadProfile, HasAuth
  <2> QED BY <2>1, <2>2, <2>3, GoGood
<1>7. CASE Reload
  <2>1. (CanLoadProfile(tab)) \in BOOLEAN
    BY DEF CanLoadProfile
  <2>2. Good(tab')
    BY <1>1, <1>7, <2>1, Constants DEF Reload, Fresh, Good, Tab
  <2>3. PICK c \in Calls : calls' = OnlyLoad(tab, c)
    BY <1>7 DEF Reload
  <2> QED BY <1>2, <2>2, <2>3 DEF OnlyLoad, CallsOK
<1> QED BY <1>3, <1>4, <1>5, <1>6, <1>7

\* The tab as first loaded is good.
LEMMA InvInit == Init => Inv
<1> SUFFICES ASSUME Init PROVE Inv
  OBVIOUS
<1> DEFINE start == [session |-> issued, access |-> issued = 1, pending |-> FALSE,
                     profile |-> NoUser, loading |-> FALSE, modal |-> "closed", busy |-> FALSE,
                     cookie |-> [session |-> issued, gen |-> issued]]
<1>1. issued \in {0, 1} /\ issued \in TokenOrNone /\ issued \in 0..MaxSessions
  BY Constants DEF Init, Tokens, TokenOrNone
<1>2. start \in Tab
  BY <1>1, Constants DEF Tab, Cookie
<1>3. tab = Fresh(start)
  BY DEF Init
<1>4. (CanLoadProfile(start)) \in BOOLEAN
  BY DEF CanLoadProfile
<1> HIDE DEF start
<1>5. Good(tab) /\ tab.session \in TokenOrNone
  BY <1>2, <1>3, <1>4, Constants DEF Fresh, Good, Tab
<1>6. CallsOK(calls)
  <2>1. PICK c \in Calls : calls = OnlyLoad(tab, c)
    BY DEF Init
  <2>2. Request("profile", "first", tab.session, TRUE) \in Call
    BY <1>5, RequestCall DEF SessionKinds
  <2> QED BY <2>1, <2>2 DEF OnlyLoad, CallsOK
<1>7. sessions \in [Tokens -> Session]
  BY Constants DEF Init, Session, Tokens, User
<1>8. losses = 0 /\ rotations = 0 /\ actions = 0 /\ endings = 0
  BY DEF Init
<1> QED
  BY <1>1, <1>5, <1>6, <1>7, <1>8, ClientAssumption
  DEF Inv, TypeOK, ShownIsLoggedIn, Good, CallsOK

\* Every step keeps the tab good.
LEMMA InvNext == Inv /\ [Next]_vars => Inv'
<1> SUFFICES ASSUME Inv, [Next]_vars PROVE Inv'
  OBVIOUS
<1> DEFINE Counters == /\ losses \in 0..MaxLosses /\ rotations \in 0..MaxRotations
                       /\ actions \in 0..MaxActions /\ endings \in 0..MaxEndings
<1>1. /\ Good(tab) /\ CallsOK(calls) /\ SessionsOK(sessions)
      /\ issued \in 0..MaxSessions /\ Counters
  BY InvGood DEF Inv, TypeOK, SessionsOK
<1>2. ASSUME Good(tab'), CallsOK(calls'), SessionsOK(sessions'), issued' \in 0..MaxSessions,
             Counters'
      PROVE  Inv'
  BY <1>2 DEF Inv, TypeOK, ShownIsLoggedIn, Good, CallsOK, SessionsOK
<1>3. ASSUME NEW c \in Calls, Deliver(c) PROVE Inv'
  <2>1. Good(tab') /\ CallsOK(calls')
    BY <1>3, SessionOkGood, SessionRefusedGood, RefreshSettlesGood, AppGood DEF Deliver
  <2>2. UNCHANGED <<sessions, issued, losses, rotations, actions, endings>>
    BY <1>3 DEF Deliver, SessionOk, SessionThrows, SessionRotated, SessionUnauthorized,
                RefreshSettles, AppOk, AppPending, AppThrows, ClientUnchanged
  <2> QED BY <1>1, <1>2, <2>1, <2>2
<1>4. ASSUME NEW c \in Calls, Serve(c) \/ ServeRefresh(c) \/ ServeApp(c) PROVE Inv'
  <2>1. CallsOK(calls')
    BY <1>4, ServeOK, ServeRefreshOK, ServeAppOK
  <2>2. UNCHANGED <<tab, issued, losses, rotations, actions, endings>>
    BY <1>4 DEF Serve, ServeRefresh, ServeApp
  <2>3. SessionsOK(sessions')
    <3>1. CASE ServeApp(c)
      BY <1>1, <3>1 DEF ServeApp
    <3>2. CASE Serve(c) \/ ServeRefresh(c)
      BY <3>2, ServeOK, ServeRefreshOK
    <3> QED BY <1>4, <3>1, <3>2
  <2> QED BY <1>1, <1>2, <2>1, <2>2, <2>3
<1>5. ASSUME NEW c \in Calls, ServeLogin(c) \/ ServeMfa(c) \/ Rotate(c) PROVE Inv'
  <2>1. tab' = tab /\ losses' = losses /\ actions' = actions /\ endings' = endings
    BY <1>5 DEF ServeLogin, ServeMfa, Rotate
  <2>2. rotations' \in 0..MaxRotations
    BY <1>1, <1>5, ClientAssumption DEF ServeLogin, ServeMfa, Rotate
  <2> QED BY <1>1, <1>2, <1>5, <2>1, <2>2, IssueOK
<1>6. ASSUME NEW c \in Calls, Lose(c) PROVE Inv'
  <2>1. c \in InFlight /\ Reply(c, "other", NoToken, NoUser, calls[c].cookie)
    BY <1>6 DEF Lose
  <2>2. CallsOK(calls')
    BY <2>1, CallFields, ReplyCalls, Constants
  <2>3. losses' \in 0..MaxLosses
    BY <1>1, <1>6, ClientAssumption DEF Lose
  <2>4. UNCHANGED <<tab, sessions, issued, rotations, actions, endings>>
    BY <1>6 DEF Lose
  <2> QED BY <1>1, <1>2, <2>2, <2>3, <2>4
<1>7. CASE EndElsewhere
  <2>1. PICK s \in 1..issued, status \in {"expired", "revoked"} :
           sessions' = [sessions EXCEPT ![s].status = status]
    BY <1>7 DEF EndElsewhere
  <2>2. s \in Tokens
    BY <1>1, Constants DEF Tokens
  <2>3. SessionsOK(sessions')
    BY <1>1, <2>1, <2>2 DEF SessionsOK, Session
  <2>4. UNCHANGED <<tab, calls, issued, losses, rotations, actions>>
    BY <1>7 DEF EndElsewhere
  <2>5. endings' \in 0..MaxEndings
    BY <1>1, <1>7, ClientAssumption DEF EndElsewhere
  <2> QED BY <1>1, <1>2, <2>3, <2>4, <2>5
<1>8. CASE Visit \/ (\E kind \in {"email", "logout"} : UseAccount(kind))
           \/ OpenDialog \/ CloseDialog \/ Submit \/ Reload
  <2>1. \/ \E kind \in {"page", "email", "logout"} : Start(kind)
        \/ OpenDialog \/ CloseDialog \/ Submit \/ Reload
    BY <1>8 DEF Visit, UseAccount
  <2>2. Good(tab') /\ CallsOK(calls')
    BY <2>1, UserGood
  <2>3. UNCHANGED <<sessions, issued, rotations, endings>>
    BY <2>1 DEF Start, OpenDialog, CloseDialog, Submit, Reload, ClientUnchanged
  <2>4. losses' \in 0..MaxLosses /\ actions' \in 0..MaxActions
    <3>1. \/ losses' = losses
          \/ losses < MaxLosses /\ losses' = losses + 1
      BY <2>1 DEF Start, OpenDialog, CloseDialog, Submit, Reload, ClientUnchanged
    <3>2. \/ actions' = actions
          \/ actions < MaxActions /\ actions' = actions + 1
      BY <2>1 DEF Start, OpenDialog, CloseDialog, Submit, Reload, ClientUnchanged
    <3> QED BY <1>1, <3>1, <3>2, ClientAssumption
  <2> QED BY <1>1, <1>2, <2>2, <2>3, <2>4
<1>9. CASE UNCHANGED vars
  BY <1>9 DEF vars, Inv, TypeOK, ShownIsLoggedIn, CanLoadProfile, HasAuth
<1> QED BY <1>3, <1>4, <1>5, <1>6, <1>7, <1>8, <1>9 DEF Next, Handle

\* The invariant of the specification.
LEMMA Invariance == Spec => []Inv
BY InvInit, InvNext, PTL DEF Spec

\* The stored tokens, the calls and the backend's rows keep their shapes.
THEOREM TypeCorrect == Spec => []TypeOK
<1>1. Inv => TypeOK
  BY DEF Inv
<1> QED BY <1>1, Invariance, PTL

\* Whoever is shown in the header is logged in, whatever answers arrive, in whatever order,
\* after a logout, a revocation or while the second factor is awaited (useAuthProfile).
THEOREM ShownLoggedIn == Spec => []ShownIsLoggedIn
<1>1. Inv => ShownIsLoggedIn
  BY DEF Inv
<1> QED BY <1>1, Invariance, PTL

(***************************************************************************)
(* Whose profile is shown.  While no request is lost and no token replaced,*)
(* an answer tells the truth about the token its request carried (Past); a *)
(* profile under way, or shown, belongs to the stored session, unless that *)
(* session is dead or a login is about to drop what is shown (Stray).      *)
(***************************************************************************)
Clean == losses = 0 /\ rotations = 0

\* The one call that will announce the stored session: me, or jwt with its token.
Announcing == \E c \in InFlight : \/ calls[c].kind = "me"
                                  \/ calls[c].kind = "jwt" /\ calls[c].sent = tab.session

\* A live stored session nobody is going to announce.
Strays == Status(tab.session) = "live" /\ ~Announcing

Past(r) ==
    /\ r.sent <= issued /\ r.token <= issued
    /\ r.kind \notin {"login", "mfa"} => r.token = NoToken
    /\ r.kind \in SessionKinds => r.status \in {"wait", "ok", "401"}
    /\ r.stage = "refresh" => r.kind \in Refreshes
    /\ r.kind \in SessionKinds /\ r.stage # "refresh" /\ r.status = "401"
       => Status(r.sent) # "live"
    /\ r.kind = "profile" /\ r.stage # "refresh" /\ r.status = "ok"
       => r.sent # NoToken /\ r.user = sessions[r.sent].user

OwnLoad(r) == r.kind = "profile" /\ r.current

Loads == \A c \in InFlight : OwnLoad(calls[c]) =>
            /\ ~tab.pending
            /\ Strays /\ calls[c].stage # "refresh" => calls[c].sent = tab.session

Shown == tab.profile # NoUser /\ Strays => sessions[tab.session].user = tab.profile

Told == /\ tab.session <= issued
        /\ \A c \in InFlight : Past(calls[c])
        /\ Loads /\ Shown

\* What a step of the browser leaves of a call under way.
Kept(d) ==
    /\ d \in InFlight
    /\ calls'[d].kind = calls[d].kind /\ calls'[d].stage = calls[d].stage
    /\ calls'[d].sent = calls[d].sent /\ calls'[d].status = calls[d].status
    /\ calls'[d].token = calls[d].token /\ calls'[d].user = calls[d].user
    /\ calls'[d].current => calls[d].current

\* A request sent in a step carries the token stored by then.
Begun(d) ==
    /\ calls'[d].status = "wait" /\ calls'[d].token = NoToken
    /\ calls'[d].sent = tab'.session
    /\ calls'[d].stage = "refresh" => calls'[d].kind \in Refreshes
    /\ OwnLoad(calls'[d]) => ~tab'.pending

\* A step of the browser: the backend's rows stay, calls are kept or begun.
Local ==
    /\ UNCHANGED <<sessions, issued>>
    /\ tab'.session <= issued
    /\ \A d \in Calls : calls'[d] # NoCall => Kept(d) \/ Begun(d)

\* The stored session stays, and so does what is shown, or it is that session's user.
SameSession ==
    /\ tab'.session = tab.session /\ tab'.pending = tab.pending
    /\ tab'.profile # NoUser /\ Strays /\ tab'.profile # tab.profile
       => sessions[tab.session].user = tab'.profile
    /\ Announcing /\ ~Announcing' => Status(tab.session) # "live"

\* Nothing is shown, and no load kept from before will show anything.
NothingShown ==
    /\ tab'.profile = NoUser
    /\ \A d \in Calls : calls'[d] # NoCall /\ Kept(d) /\ OwnLoad(calls'[d]) => Begun(d)

\* The stored session is dead, or about to be announced by a login.
NothingDue ==
    /\ tab'.pending => tab.pending
    /\ ~Strays'

\* A step of the browser keeps the story true.
LEMMA LocalTold ==
    ASSUME Inv, Told, Local, SameSession \/ NothingShown \/ NothingDue
    PROVE  Told'
<1>1. ASSUME NEW d \in Calls, calls'[d] # NoCall PROVE Past(calls'[d])
  <2>1. CASE Kept(d)
    <3>1. Past(calls[d])
      BY <2>1 DEF Kept, Told
    <3> QED BY <2>1, <3>1 DEF Kept, Past
  <2>2. CASE Begun(d)
    <3>1. calls'[d].sent <= issued /\ calls'[d].token <= issued
      BY <2>2 DEF Begun, Local, Inv, TypeOK
    <3> QED BY <2>2, <3>1 DEF Begun, Past
  <2> QED BY <1>1, <2>1, <2>2 DEF Local
<1>2. /\ sessions' = sessions /\ issued' = issued
      /\ Status(tab'.session) = Status(tab.session)' /\ tab'.session <= issued
  BY DEF Local, Status
<1>3. \A c \in InFlight' : Past(calls[c])'
  BY <1>1, <1>2 DEF InFlight, Past, Status
<1>4. Loads'
  <2> SUFFICES ASSUME NEW d \in Calls, calls'[d] # NoCall, OwnLoad(calls'[d])
               PROVE  /\ ~tab'.pending
                      /\ Strays' /\ calls'[d].stage # "refresh" => calls'[d].sent = tab'.session
    BY DEF Loads, InFlight, OwnLoad
  <2>1. CASE Begun(d)
    BY <2>1 DEF Begun
  <2>2. CASE Kept(d) /\ ~Begun(d)
    <3>1. d \in InFlight /\ OwnLoad(calls[d])
      BY <2>2 DEF Kept, OwnLoad
    <3>2. /\ ~tab.pending
          /\ Strays /\ calls[d].stage # "refresh" => calls[d].sent = tab.session
      BY <3>1 DEF Told, Loads
    <3>3. ~NothingShown
      BY <2>2 DEF NothingShown
    <3>4. CASE SameSession
      <4>1. Strays' => Strays
        BY <1>2, <3>4 DEF SameSession, Strays
      <4> QED BY <2>2, <3>2, <3>4, <4>1 DEF Kept, SameSession
    <3>5. CASE NothingDue
      BY <3>2, <3>5 DEF NothingDue
    <3> QED BY <3>3, <3>4, <3>5
  <2> QED BY <2>1, <2>2 DEF Local
<1>5. Shown'
  <2>1. CASE SameSession
    <3>1. Strays' => Strays
      BY <1>2, <2>1 DEF SameSession, Strays
    <3> QED BY <1>2, <2>1, <3>1 DEF SameSession, Shown, Told
  <2>2. CASE NothingShown
    BY <2>2 DEF NothingShown, Shown
  <2>3. CASE NothingDue
    BY <2>3 DEF NothingDue, Shown
  <2> QED BY <2>1, <2>2, <2>3
<1> QED BY <1>2, <1>3, <1>4, <1>5 DEF Told

\* An outdated load is a kept call that is no longer the hook's own.
LEMMA OutdatedKeeps ==
    ASSUME Inv, NEW kinds, NEW d \in Calls
    PROVE  /\ Outdated(calls, kinds)[d] # NoCall <=> d \in InFlight
           /\ Outdated(calls, kinds)[d].kind = calls[d].kind
           /\ Outdated(calls, kinds)[d].stage = calls[d].stage
           /\ Outdated(calls, kinds)[d].sent = calls[d].sent
           /\ Outdated(calls, kinds)[d].status = calls[d].status
           /\ Outdated(calls, kinds)[d].token = calls[d].token
           /\ Outdated(calls, kinds)[d].user = calls[d].user
           /\ d \in InFlight => (Outdated(calls, kinds)[d].current => calls[d].current)
           /\ d \in InFlight /\ "profile" \in kinds => ~OwnLoad(Outdated(calls, kinds)[d])
<1> DEFINE o == Outdated(calls, kinds)[d]
<1>1. o = IF calls[d] # NoCall /\ calls[d].kind \in kinds
          THEN [calls[d] EXCEPT !.current = FALSE] ELSE calls[d]
  BY DEF Outdated
<1>2. CASE d \in InFlight
  <2>1. calls[d] \in Call /\ calls[d].kind # "none" /\ calls[d] # NoCall
    BY <1>2, CallFields DEF InFlight, SessionKinds, AppKinds
  <2>2. CASE calls[d].kind \in kinds
    <3>1. o = [calls[d] EXCEPT !.current = FALSE]
      BY <1>1, <2>1, <2>2
    <3> HIDE DEF o
    <3>2. /\ o.kind = calls[d].kind /\ o.stage = calls[d].stage /\ o.sent = calls[d].sent
          /\ o.status = calls[d].status /\ o.token = calls[d].token
          /\ o.user = calls[d].user /\ ~o.current
      BY <2>1, <3>1 DEF Call
    <3>3. o # NoCall
      BY <2>1, <3>2 DEF NoCall
    <3> QED BY <1>2, <3>2, <3>3 DEF OwnLoad, o
  <2>3. CASE calls[d].kind \notin kinds
    <3>1. o = calls[d]
      BY <1>1, <2>3
    <3> QED BY <1>2, <2>1, <2>3, <3>1 DEF OwnLoad
  <2> QED BY <2>2, <2>3
<1>3. CASE d \notin InFlight
  <2>1. o = calls[d] /\ calls[d] = NoCall
    BY <1>1, <1>3 DEF InFlight
  <2> QED BY <1>3, <2>1
<1> QED BY <1>2, <1>3

\* What the auth event does to the calls, or its absence.
LEMMA AfterEventKeeps ==
    ASSUME Inv, NEW event \in BOOLEAN, NEW d \in Calls, calls'[d] = AfterEvent(calls, event)[d]
    PROVE  /\ calls'[d] # NoCall => Kept(d)
           /\ d \in InFlight => calls'[d] # NoCall
           /\ event /\ Kept(d) => ~OwnLoad(calls'[d])
<1>1. CASE event
  <2>1. calls'[d] = Outdated(calls, {"profile"})[d]
    BY <1>1 DEF AfterEvent
  <2> QED BY <2>1, OutdatedKeeps DEF Kept
<1>2. CASE ~event
  <2>1. calls'[d] = calls[d]
    BY <1>2 DEF AfterEvent
  <2> QED BY <1>2, <2>1 DEF Kept, InFlight
<1> QED BY <1>1, <1>2

\* Calls that stay under way keep announcing.
LEMMA StillAnnouncing ==
    ASSUME NEW gone, tab'.session = tab.session, Announcing, ~Announcing',
           \A d \in InFlight : d \notin gone =>
              calls'[d] # NoCall /\ calls'[d].kind = calls[d].kind
                                 /\ calls'[d].sent = calls[d].sent
    PROVE  \E c \in InFlight \cap gone :
              \/ calls[c].kind = "me"
              \/ calls[c].kind = "jwt" /\ calls[c].sent = tab.session
BY DEF Announcing, InFlight

\* While the second factor is awaited nobody is shown, and no load will show anybody.
LEMMA PendingShowsNobody ==
    ASSUME Inv, Told, tab.pending
    PROVE  tab.profile = NoUser /\ \A d \in InFlight : ~OwnLoad(calls[d])
BY DEF Inv, ShownIsLoggedIn, CanLoadProfile, Told, Loads

\* A clearing leaves no stored session.
LEMMA ClearedSession ==
    ASSUME NEW t \in Tab
    PROVE  Cleared(t).session = NoToken /\ Cleared(t).pending = FALSE
BY DEF Cleared, Announced, Tab

\* Whoever throws: the storage is cleared, or those who threw announced no live session.
LEMMA ThrowTold ==
    ASSUME Inv, Told, NEW who \in SUBSET InFlight, NEW hard \in BOOLEAN,
           Throw(who, tab, hard), UNCHANGED <<sessions, issued>>,
           \/ hard \/ tab.pending
           \/ \A c \in who : \/ calls[c].kind \notin {"jwt", "me"}
                             \/ calls[c].kind = "jwt" /\ Status(calls[c].sent) # "live"
    PROVE  Told'
<1> DEFINE clears == hard \/ \E c \in who : calls[c].kind = "logout"
           event == clears /\ HasAuth(tab)
           after == AfterEvent(calls, event)
           mine(kinds) == \E c \in who : after[c].kind \in kinds /\ after[c].current
           left == IF clears THEN Cleared(tab) ELSE tab
<1>1. /\ tab' = [left EXCEPT !.profile = IF mine({"profile"}) THEN NoUser ELSE @,
                            !.loading = IF mine({"profile"}) THEN FALSE ELSE @,
                            !.busy = IF mine(Flow) THEN FALSE ELSE @]
      /\ calls' = [c \in Calls |-> IF c \in who THEN NoCall ELSE after[c]]
  BY DEF Throw
<1>2. event \in BOOLEAN /\ tab \in Tab /\ issued \in Nat
  BY DEF HasAuth, Inv, TypeOK
<1>3. \A d \in Calls : d \notin who => calls'[d] = AfterEvent(calls, event)[d]
  BY <1>1
<1>4. \A d \in Calls : d \in who => calls'[d] = NoCall
  BY <1>1
<1>5. \A d \in Calls : calls'[d] # NoCall => Kept(d)
  BY <1>2, <1>3, <1>4, AfterEventKeeps
<1>6. left \in Tab
  BY <1>2, ClearedGood, InvGood DEF Good
<1> HIDE DEF mine, left, after
<1>7. /\ tab'.session = left.session /\ tab'.pending = left.pending
      /\ tab'.profile \in {NoUser, left.profile}
  BY <1>1, <1>6 DEF Tab
<1>8. CASE clears
  <2>1. tab'.session = NoToken /\ tab'.pending = FALSE
    BY <1>2, <1>7, <1>8, ClearedSession DEF left
  <2>2. ~Strays'
    BY <2>1 DEF Strays, Status
  <2>3. NothingDue /\ Local
    BY <1>2, <1>5, <2>1, <2>2 DEF NothingDue, Local
  <2> QED BY <2>3, LocalTold
<1>9. CASE ~clears
  <2>1. left = tab
    BY <1>9 DEF left
  <2>2. Local
    BY <1>5, <1>7, <2>1 DEF Local, Told
  <2>3. CASE tab.pending
    <3>1. NothingShown
      BY <1>7, <2>1, <2>3, PendingShowsNobody DEF NothingShown, Kept, OwnLoad
    <3> QED BY <2>2, <3>1, LocalTold
  <2>4. CASE ~tab.pending
    <3>1. ASSUME Announcing, ~Announcing' PROVE Status(tab.session) # "live"
      <4>1. \A d \in InFlight : d \notin who =>
              calls'[d] # NoCall /\ calls'[d].kind = calls[d].kind
                                 /\ calls'[d].sent = calls[d].sent
        <5>1. \A d \in InFlight : d \in Calls
          BY DEF InFlight
        <5> QED BY <1>2, <1>3, <5>1, AfterEventKeeps DEF Kept
      <4>2. PICK c \in InFlight \cap who :
              \/ calls[c].kind = "me"
              \/ calls[c].kind = "jwt" /\ calls[c].sent = tab.session
        BY <1>7, <2>1, <3>1, <4>1, StillAnnouncing
      <4> QED BY <1>9, <2>4, <4>2
    <3>2. SameSession
      BY <1>7, <2>1, <3>1 DEF SameSession
    <3> QED BY <2>2, <3>2, LocalTold
  <2> QED BY <2>3, <2>4
<1> QED BY <1>8, <1>9

\* What the story says of an answered request.
LEMMA AnswerTold ==
    ASSUME Inv, Told, NEW c \in InFlight
    PROVE  /\ Past(calls[c])
           /\ calls[c].kind \notin {"login", "mfa"} => WithToken(tab, calls[c].token) = tab
           /\ calls[c].kind \in SessionKinds => Stored(tab, calls[c]) = tab
<1>1. Past(calls[c])
  BY DEF Told
<1>2. calls[c].kind \notin {"login", "mfa"} => WithToken(tab, calls[c].token) = tab
  BY <1>1 DEF Past, WithToken
<1>3. calls[c].kind \in SessionKinds => Stored(tab, calls[c]) = tab
  BY <1>2 DEF Stored, SessionKinds
<1> QED BY <1>1, <1>2, <1>3

\* One call moves on or ends, the others are left alone.
LEMMA GoTold ==
    ASSUME Inv, Told, NEW c \in Calls, NEW t \in Tab, NEW call, Go(c, t, call),
           UNCHANGED <<sessions, issued>>, t.session <= issued,
           call # NoCall =>
             /\ call.status = "wait" /\ call.token = NoToken /\ call.sent = t.session
             /\ call.stage = "refresh" => call.kind \in Refreshes
             /\ OwnLoad(call) => ~t.pending
    PROVE  /\ Local
           /\ calls' = [calls EXCEPT ![c] = call]
           /\ calls'[c] = call
           /\ \A d \in Calls : d # c => calls'[d] = calls[d]
<1>1. tab' = t /\ calls' = [calls EXCEPT ![c] = call]
  BY DEF Go
<1>2. calls'[c] = call /\ \A d \in Calls : d # c => calls'[d] = calls[d]
  BY <1>1, InvGood DEF CallsOK
<1>3. \A d \in Calls : calls'[d] # NoCall => Kept(d) \/ Begun(d)
  BY <1>1, <1>2 DEF Kept, Begun, InFlight
<1> QED BY <1>1, <1>2, <1>3 DEF Local

\* The same, in a step that leaves the stored session and what is shown alone.
LEMMA GoSame ==
    ASSUME Inv, Told, NEW c \in Calls, NEW t \in Tab, NEW call, Go(c, t, call),
           UNCHANGED <<sessions, issued>>,
           t.session = tab.session, t.pending = tab.pending,
           t.profile # NoUser /\ Strays /\ t.profile # tab.profile
             => sessions[tab.session].user = t.profile,
           call # NoCall =>
             /\ call.status = "wait" /\ call.token = NoToken /\ call.sent = t.session
             /\ call.stage = "refresh" => call.kind \in Refreshes
             /\ OwnLoad(call) => ~t.pending,
           \/ c \notin InFlight
           \/ calls[c].kind \notin {"jwt", "me"}
           \/ calls[c].kind = "me" /\ call # NoCall /\ call.kind = "me"
    PROVE  Told'
<1>1. tab' = t /\ t.session <= issued
  BY DEF Go, Told
<1>2. Local /\ calls'[c] = call /\ \A d \in Calls : d # c => calls'[d] = calls[d]
  BY <1>1, GoTold
<1>3. Announcing => Announcing'
  <2> SUFFICES ASSUME Announcing PROVE Announcing'
    OBVIOUS
  <2>1. PICK d \in InFlight : \/ calls[d].kind = "me"
                              \/ calls[d].kind = "jwt" /\ calls[d].sent = tab.session
    BY DEF Announcing
  <2>2. d \in Calls /\ calls[d] # NoCall
    BY DEF InFlight
  <2>3. CASE d # c
    <3>1. calls'[d] = calls[d]
      BY <1>2, <2>2, <2>3
    <3> QED BY <1>1, <2>1, <2>2, <3>1 DEF Announcing, InFlight
  <2>4. CASE d = c
    <3>1. calls'[c] = call /\ call # NoCall /\ call.kind = "me"
      BY <1>2, <2>1, <2>4
    <3> QED BY <3>1 DEF Announcing, InFlight
  <2> QED BY <2>3, <2>4
<1>4. SameSession
  BY <1>1, <1>3 DEF SameSession
<1> QED BY <1>2, <1>4, LocalTold

\* An answer of requestWithSession keeps the story true: a profile that is shown is that
\* of the session its request was sent with.
LEMMA SessionOkTold ==
    ASSUME Inv, Told, NEW c \in Calls, SessionOk(c)
    PROVE  Told'
<1> DEFINE r == calls[c]
           done == Announced([tab EXCEPT !.pending = FALSE])
<1>1. /\ c \in InFlight /\ r.kind \in SessionKinds /\ r.stage # "refresh" /\ r.status = "ok"
      /\ UNCHANGED <<sessions, issued>>
  BY DEF SessionOk, Answered, ClientUnchanged
<1>2. /\ Stored(tab, r) = tab /\ Past(r) /\ tab \in Tab /\ tab.session <= issued
      /\ issued \in Nat /\ tab.session \in TokenOrNone
  BY <1>1, AnswerTold DEF Told, Inv, TypeOK, Tab
<1>3. CASE r.kind = "profile"
  <2> DEFINE next == IF r.current /\ CanLoadProfile(tab)
                     THEN [tab EXCEPT !.profile = r.user, !.loading = FALSE] ELSE tab
  <2>1. Go(c, next, NoCall)
    BY <1>2, <1>3 DEF SessionOk
  <2>2. /\ next \in Tab /\ next.session = tab.session /\ next.pending = tab.pending
        /\ next.profile # tab.profile => r.current /\ next.profile = r.user
    BY <1>1, <1>2, CallFields DEF Tab
  <2>3. ASSUME r.current, Strays PROVE sessions[tab.session].user = r.user
    <3>1. r.sent = tab.session
      BY <1>1, <1>3, <2>3 DEF Told, Loads, OwnLoad
    <3> QED BY <1>1, <1>2, <1>3, <3>1 DEF Past
  <2> HIDE DEF next
  <2> QED BY <1>1, <1>3, <2>1, <2>2, <2>3, GoSame
<1>4. CASE r.kind = "page"
  <2>1. Go(c, tab, NoCall)
    BY <1>2, <1>4 DEF SessionOk
  <2> QED BY <1>1, <1>2, <1>4, <2>1, GoSame
<1>5. CASE r.kind = "logout"
  <2>1. /\ tab' = [Cleared(tab) EXCEPT !.cookie = NoCookie]
        /\ calls' = [AfterEvent(calls, HasAuth(tab)) EXCEPT ![c] = NoCall]
    BY <1>2, <1>5 DEF SessionOk
  <2>2. Cleared(tab) \in Tab /\ Cleared(tab).session = NoToken /\ ~Cleared(tab).pending
    BY <1>2, InvGood, ClearedGood, ClearedSession DEF Good
  <2>3. tab'.session = NoToken /\ ~tab'.pending
    BY <2>1, <2>2 DEF Tab
  <2>4. HasAuth(tab) \in BOOLEAN
    BY <1>2 DEF HasAuth, Tab
  <2>5. AfterEvent(calls, HasAuth(tab)) \in [Calls -> Call \cup {NoCall}]
    BY InvGood, AfterEventCalls DEF CallsOK
  <2>6. /\ calls'[c] = NoCall
        /\ \A d \in Calls : d # c => calls'[d] = AfterEvent(calls, HasAuth(tab))[d]
    BY <2>1, <2>5
  <2>7. \A d \in Calls : calls'[d] # NoCall => Kept(d)
    BY <2>4, <2>6, AfterEventKeeps
  <2>8. NothingDue /\ Local
    BY <1>1, <1>2, <2>3, <2>7 DEF NothingDue, Local, Strays, Status
  <2> QED BY <2>8, LocalTold
<1>6. CASE r.kind = "jwt"
  <2> DEFINE next == [tab EXCEPT !.access = TRUE, !.cookie = r.cookie]
             call == Request("me", "first", tab.session, r.current)
  <2>1. Go(c, next, call)
    BY <1>2, <1>6 DEF SessionOk
  <2>2. next \in Tab /\ next.session = tab.session /\ next.pending = tab.pending
    BY <1>1, <1>2, CallFields DEF Tab
  <2>3. /\ call.kind = "me" /\ call # NoCall /\ call.status = "wait" /\ call.token = NoToken
        /\ call.sent = tab.session /\ call.stage = "first" /\ ~OwnLoad(call)
    BY DEF Request, NoCall, OwnLoad
  <2>4. tab' = next
    BY <2>1 DEF Go
  <2> HIDE DEF next, call
  <2>5. Local /\ calls'[c] = call
    BY <1>1, <1>2, <2>1, <2>2, <2>3, GoTold
  <2>6. Announcing'
    BY <2>3, <2>5 DEF Announcing, InFlight
  <2>7. NothingDue
    BY <2>2, <2>4, <2>6 DEF NothingDue, Strays
  <2> QED BY <2>5, <2>7, LocalTold
<1>7. CASE r.kind = "me"
  <2> DEFINE call == IF CanLoadProfile(done)
                     THEN Request("profile", "first", tab.session, TRUE) ELSE NoCall
  <2>1. /\ tab' = [done EXCEPT !.modal = IF @ = "closed" THEN @ ELSE "done"]
        /\ calls' = [AfterEvent(calls, TRUE) EXCEPT ![c] = call]
    BY <1>2, <1>7 DEF SessionOk
  <2>2. done \in Tab /\ done.profile = NoUser /\ done.session = tab.session /\ ~done.pending
    <3>1. /\ [tab EXCEPT !.pending = FALSE] \in Tab
          /\ [tab EXCEPT !.pending = FALSE].session = tab.session
          /\ ~[tab EXCEPT !.pending = FALSE].pending
      BY <1>2 DEF Tab
    <3> QED BY <3>1, AnnouncedGood DEF Good, Announced, Tab
  <2>3. call # NoCall => /\ call.status = "wait" /\ call.token = NoToken
                         /\ call.sent = tab.session /\ call.stage = "first"
    BY DEF Request
  <2> HIDE DEF done, call
  <2>4. tab'.session = tab.session /\ tab'.profile = NoUser /\ ~tab'.pending
    BY <2>1, <2>2 DEF Tab
  <2>5. AfterEvent(calls, TRUE) \in [Calls -> Call \cup {NoCall}]
    BY InvGood, AfterEventCalls DEF CallsOK
  <2>6. calls'[c] = call /\ \A d \in Calls : d # c => calls'[d] = AfterEvent(calls, TRUE)[d]
    BY <2>1, <2>5
  <2>7. \A d \in Calls : d # c => /\ calls'[d] # NoCall => Kept(d)
                                  /\ Kept(d) => ~OwnLoad(calls'[d])
    BY <2>6, AfterEventKeeps
  <2>8. call # NoCall => Begun(c)
    BY <2>3, <2>4, <2>6 DEF Begun
  <2>9. NothingShown /\ Local
    BY <1>1, <1>2, <2>4, <2>6, <2>7, <2>8 DEF NothingShown, Local
  <2> QED BY <2>9, LocalTold
<1> QED BY <1>1, <1>3, <1>4, <1>5, <1>6, <1>7 DEF SessionKinds

\* So do its refusals.
LEMMA SessionRefusedTold ==
    ASSUME Inv, Told, NEW c \in Calls,
           SessionThrows(c) \/ SessionRotated(c) \/ SessionUnauthorized(c)
    PROVE  Told'
<1> DEFINE r == calls[c]
<1>1. /\ c \in InFlight /\ r.kind \in SessionKinds /\ UNCHANGED <<sessions, issued>>
      /\ {c} \in SUBSET InFlight
  BY DEF SessionThrows, SessionRotated, SessionUnauthorized, Answered, ClientUnchanged
<1>2. /\ Past(r) /\ tab \in Tab /\ tab.session <= issued /\ WithToken(tab, r.token) = tab
      /\ r.token = NoToken /\ r.status \in {"wait", "ok", "401"}
  BY <1>1, AnswerTold DEF Told, Inv, TypeOK, Past, SessionKinds
<1>3. CASE SessionThrows(c)
  <2>1. Throw({c}, tab, FALSE) /\ tab.pending
    BY <1>2, <1>3 DEF SessionThrows
  <2> QED BY <1>1, <2>1, ThrowTold
<1>4. CASE SessionRotated(c)
  BY <1>2, <1>4 DEF SessionRotated, Rotates
<1>5. CASE SessionUnauthorized(c)
  <2>1. r.stage # "refresh" /\ r.status = "401" /\ Status(r.sent) # "live"
    BY <1>1, <1>2, <1>5 DEF SessionUnauthorized, Past
  <2>2. CASE r.kind \in Refreshes /\ r.stage # "retry"
    <3> DEFINE call == Refresh(c, tab)
    <3>1. Go(c, tab, call)
      BY <1>5, <2>2 DEF SessionUnauthorized
    <3>2. r \in Call /\ r.kind # "none"
      BY <1>1, CallFields DEF SessionKinds
    <3>3. /\ call.status = "wait" /\ call.token = NoToken /\ call.sent = tab.session
          /\ call.kind = r.kind /\ call.current = r.current
      BY <3>2 DEF Refresh, Call
    <3>4. OwnLoad(call) => ~tab.pending
      BY <1>1, <3>3 DEF OwnLoad, Told, Loads
    <3>5. call # NoCall
      BY <3>2, <3>3 DEF NoCall
    <3> HIDE DEF call
    <3>6. r.kind \notin {"jwt", "me"} \/ (r.kind = "me" /\ call.kind = "me")
      BY <2>2, <3>3 DEF Refreshes
    <3> QED BY <1>1, <1>2, <2>2, <3>1, <3>3, <3>4, <3>5, <3>6, GoSame
  <2>3. CASE ~(r.kind \in Refreshes /\ r.stage # "retry")
    <3>1. Throw({c}, tab, r.kind \in HardLogouts)
      BY <1>5, <2>3 DEF SessionUnauthorized
    <3>2. (r.kind \in HardLogouts) \in BOOLEAN
      OBVIOUS
    <3>3. r.kind \in HardLogouts \/ r.kind \notin {"jwt", "me"} \/ r.kind = "jwt"
      BY <1>1 DEF HardLogouts
    <3> QED BY <1>1, <2>1, <3>1, <3>2, <3>3, ThrowTold
  <2> QED BY <2>2, <2>3
<1> QED BY <1>3, <1>4, <1>5

\* The end of a shared refresh: everyone asks again with the stored token, or all throw.
LEMMA RefreshSettlesTold ==
    ASSUME Inv, Told, NEW c \in Calls, RefreshSettles(c)
    PROVE  Told'
<1> DEFINE who == {w \in InFlight : calls[w].stage = "refresh" /\ calls[w].awaits = c}
<1>1. UNCHANGED <<sessions, issued>> /\ c \in InFlight /\ who \in SUBSET InFlight
  BY DEF RefreshSettles, Answered, ClientUnchanged
<1>2. \A w \in who : calls[w].kind \in Refreshes /\ calls[w].stage = "refresh"
  BY DEF Told, Past
<1>3. CASE calls[c].status = "ok"
  <2>1. /\ tab' = [tab EXCEPT !.access = TRUE, !.cookie = calls[c].cookie]
        /\ calls' = [w \in Calls |-> IF w \in who
               THEN Request(calls[w].kind, "retry", tab.session, calls[w].current)
               ELSE calls[w]]
    BY <1>3 DEF RefreshSettles
  <2>2. /\ tab'.session = tab.session /\ tab'.pending = tab.pending
        /\ tab'.profile = tab.profile
    BY <2>1, InvGood DEF Good, Tab
  <2> HIDE DEF who
  <2>3. ASSUME NEW w \in who
        PROVE  /\ calls'[w].status = "wait" /\ calls'[w].token = NoToken
               /\ calls'[w].sent = tab.session /\ calls'[w].stage = "retry"
               /\ calls'[w].kind = calls[w].kind /\ calls'[w].current = calls[w].current
               /\ w \in InFlight
    BY <1>1, <2>1 DEF InFlight, Request
  <2>4. \A w \in who : Begun(w)
    BY <2>2, <2>3 DEF Begun, OwnLoad, Told, Loads
  <2>5. \A d \in Calls : d \notin who => calls'[d] = calls[d]
    BY <2>1
  <2>6. \A d \in Calls : calls'[d] # NoCall => Kept(d) \/ Begun(d)
    BY <2>4, <2>5 DEF Kept, InFlight
  <2>7. Announcing => Announcing'
    <3> SUFFICES ASSUME Announcing PROVE Announcing'
      OBVIOUS
    <3>1. PICK d \in InFlight : \/ calls[d].kind = "me"
                                \/ calls[d].kind = "jwt" /\ calls[d].sent = tab.session
      BY DEF Announcing
    <3>2. d \in Calls /\ calls[d] # NoCall
      BY DEF InFlight
    <3>3. CASE d \in who
      <4>1. calls'[d].kind = calls[d].kind /\ calls'[d].sent = tab'.session
        BY <2>2, <2>3, <3>3
      <4>2. calls'[d] # NoCall
        BY <3>1, <4>1 DEF NoCall
      <4> QED BY <3>1, <3>2, <4>1, <4>2 DEF Announcing, InFlight
    <3>4. CASE d \notin who
      BY <2>2, <2>5, <3>1, <3>2, <3>4 DEF Announcing, InFlight
    <3> QED BY <3>3, <3>4
  <2>8. SameSession /\ Local
    BY <1>1, <2>2, <2>6, <2>7 DEF SameSession, Local, Told
  <2> QED BY <2>8, LocalTold
<1>4. CASE calls[c].status # "ok"
  <2> DEFINE hard == \E w \in who : calls[w].kind \in HardLogouts
  <2>1. Throw(who, tab, hard) /\ hard \in BOOLEAN
    BY <1>4 DEF RefreshSettles
  <2>2. hard \/ \A w \in who : calls[w].kind \notin {"jwt", "me"}
    BY <1>2 DEF HardLogouts, Refreshes
  <2> HIDE DEF hard, who
  <2> QED BY <1>1, <2>1, <2>2, ThrowTold
<1> QED BY <1>3, <1>4

\* The answers of allauthAppRequest: a token that is stored is announced next, or waits
\* for the second factor with nobody shown.
LEMMA AppTold ==
    ASSUME Inv, Told, NEW c \in Calls, AppOk(c) \/ AppPending(c) \/ AppThrows(c)
    PROVE  Told'
<1> DEFINE r == calls[c]
           t == WithToken(tab, r.token)
<1>1. /\ c \in InFlight /\ r.kind \in AppKinds /\ UNCHANGED <<sessions, issued>>
      /\ {c} \in SUBSET InFlight
  BY DEF AppOk, AppPending, AppThrows, Answered, ClientUnchanged, AppKinds
<1>2. /\ Past(r) /\ tab \in Tab /\ tab.session <= issued /\ r.token <= issued
      /\ r.token \in TokenOrNone
      /\ r.kind = "email" => t = tab
  BY <1>1, AnswerTold, CallFields DEF Told, Inv, TypeOK, Past
<1>3. CASE AppOk(c)
  <2>1. CASE r.kind = "email"
    <3>1. Go(c, tab, NoCall)
      BY <1>2, <1>3, <2>1 DEF AppOk
    <3> QED BY <1>1, <1>2, <2>1, <3>1, GoSame
  <2>2. CASE r.kind # "email"
    <3> DEFINE call == Request("jwt", "first", t.session, r.current)
    <3>1. Go(c, t, call)
      BY <1>3, <2>2 DEF AppOk
    <3>2. t \in Tab /\ t.pending = tab.pending /\ t.session <= issued
      BY <1>2 DEF WithToken, Tab
    <3>3. /\ call.kind = "jwt" /\ call # NoCall /\ call.status = "wait" /\ call.token = NoToken
          /\ call.sent = t.session /\ call.stage = "first" /\ ~OwnLoad(call)
      BY DEF Request, NoCall, OwnLoad
    <3>4. tab' = t
      BY <3>1 DEF Go
    <3> HIDE DEF t, call
    <3>5. Local /\ calls'[c] = call
      BY <1>1, <3>1, <3>2, <3>3, GoTold
    <3>6. Announcing'
      BY <3>3, <3>4, <3>5 DEF Announcing, InFlight
    <3>7. NothingDue
      BY <3>2, <3>4, <3>6 DEF NothingDue, Strays
    <3> QED BY <3>5, <3>7, LocalTold
  <2> QED BY <2>1, <2>2
<1>4. CASE AppPending(c)
  <2> DEFINE stored == [tab EXCEPT !.session = r.token]
             shown == MarkedPending(stored)
  <2>1. /\ tab' = IF r.current THEN [shown EXCEPT !.modal = "mfa", !.busy = FALSE] ELSE shown
        /\ calls' = [AfterEvent(calls, ~tab.pending) EXCEPT ![c] = NoCall]
    BY <1>4 DEF AppPending
  <2>2. /\ stored \in Tab /\ stored.profile = tab.profile /\ stored.pending = tab.pending
        /\ stored.session = r.token
    BY <1>2 DEF Tab
  <2>3. tab.pending => tab.profile = NoUser
    BY PendingShowsNobody
  <2> HIDE DEF stored
  <2>4. shown \in Tab /\ shown.profile = NoUser /\ shown.session = r.token
    <3>1. CASE stored.pending
      BY <2>2, <2>3, <3>1 DEF MarkedPending
    <3>2. CASE ~stored.pending
      <4> DEFINE marked == [stored EXCEPT !.pending = TRUE]
      <4>1. marked \in Tab /\ marked.session = r.token
        BY <2>2 DEF Tab
      <4>2. shown = Announced(marked)
        BY <3>2 DEF MarkedPending
      <4> HIDE DEF marked, shown
      <4>3. Announced(marked).profile = NoUser /\ Announced(marked).session = marked.session
        BY <4>1 DEF Announced, Tab
      <4> QED BY <4>1, <4>2, <4>3, AnnouncedGood DEF Good
    <3> QED BY <3>1, <3>2
  <2> HIDE DEF shown
  <2>5. tab'.profile = NoUser /\ tab'.session = r.token
    BY <2>1, <2>4 DEF Tab
  <2>6. (~tab.pending) \in BOOLEAN
    OBVIOUS
  <2>7. AfterEvent(calls, ~tab.pending) \in [Calls -> Call \cup {NoCall}]
    BY InvGood, AfterEventCalls DEF CallsOK
  <2>8. /\ calls'[c] = NoCall
        /\ \A d \in Calls : d # c => calls'[d] = AfterEvent(calls, ~tab.pending)[d]
    BY <2>1, <2>7
  <2>9. \A d \in Calls : calls'[d] # NoCall => Kept(d)
    BY <2>6, <2>8, AfterEventKeeps
  <2>10. \A d \in Calls : calls'[d] # NoCall => ~OwnLoad(calls'[d])
    <3>1. CASE tab.pending
      BY <2>9, <3>1, PendingShowsNobody DEF Kept, OwnLoad
    <3>2. CASE ~tab.pending
      BY <2>6, <2>8, <2>9, <3>2, AfterEventKeeps
    <3> QED BY <3>1, <3>2
  <2>11. NothingShown /\ Local
    BY <1>1, <1>2, <2>5, <2>9, <2>10 DEF NothingShown, Local
  <2> QED BY <2>11, LocalTold
<1>5. CASE AppThrows(c)
  <2>1. Throw({c}, tab, r.status = "410")
    BY <1>5 DEF AppThrows
  <2>2. (r.status = "410") \in BOOLEAN /\ r.kind \notin {"jwt", "me"}
    BY <1>1 DEF AppKinds
  <2> QED BY <1>1, <2>1, <2>2, ThrowTold
<1> QED BY <1>3, <1>4, <1>5

\* What the user does.
LEMMA UserTold ==
    ASSUME Inv, Told,
           \/ \E kind \in {"page", "email", "logout"} : Start(kind)
           \/ OpenDialog \/ CloseDialog \/ Submit \/ Reload
    PROVE  Told'
<1>1. tab \in Tab /\ tab.session <= issued
  BY DEF Inv, TypeOK, Told
<1>2. ASSUME NEW c \in Free, NEW t \in Tab,
             NEW kind \in {"page", "email", "logout", "login", "mfa"},
             UNCHANGED <<sessions, issued>>, t.session = tab.session, t.pending = tab.pending,
             t.profile = tab.profile, Go(c, t, Request(kind, "first", tab.session, TRUE))
      PROVE  Told'
  <2> DEFINE call == Request(kind, "first", tab.session, TRUE)
  <2>1. /\ call.status = "wait" /\ call.token = NoToken /\ call.sent = t.session
        /\ call.stage = "first" /\ ~OwnLoad(call)
    BY <1>2 DEF Request, OwnLoad
  <2>2. c \in Calls /\ c \notin InFlight
    BY DEF Free
  <2> HIDE DEF call
  <2>3. Go(c, t, call)
    BY <1>2 DEF call
  <2> QED BY <1>2, <2>1, <2>2, <2>3, GoSame
<1>3. ASSUME NEW kind \in {"page", "email", "logout"}, Start(kind) PROVE Told'
  BY <1>1, <1>2, <1>3 DEF Start
<1>4. CASE Submit
  <2>1. PICK c \in Free :
          Go(c, [tab EXCEPT !.busy = TRUE], Request(tab.modal, "first", tab.session, TRUE))
    BY <1>4 DEF Submit
  <2> DEFINE t == [tab EXCEPT !.busy = TRUE]
  <2>2. /\ t \in Tab /\ t.session = tab.session /\ t.pending = tab.pending
        /\ t.profile = tab.profile
    BY <1>1 DEF Tab
  <2>3. tab.modal \in {"login", "mfa"} /\ UNCHANGED <<sessions, issued>>
    BY <1>4 DEF Submit
  <2> HIDE DEF t
  <2>4. Go(c, t, Request(tab.modal, "first", tab.session, TRUE))
    BY <2>1 DEF t
  <2> QED BY <1>2, <2>2, <2>3, <2>4
<1>5. ASSUME NEW kinds, UNCHANGED <<sessions, issued>>,
             tab'.session = tab.session, tab'.pending = tab.pending,
             tab'.profile = tab.profile,
             \A d \in Calls : \/ calls'[d] = Outdated(calls, kinds)[d]
                              \/ d \in Free /\ Begun(d)
      PROVE  Told'
  <2>1. \A d \in Calls : calls'[d] # NoCall => Kept(d) \/ Begun(d)
    BY <1>5, OutdatedKeeps DEF Kept
  <2>2. \A d \in InFlight : /\ calls'[d] # NoCall /\ calls'[d].kind = calls[d].kind
                            /\ calls'[d].sent = calls[d].sent
    BY <1>5, OutdatedKeeps DEF InFlight, Free
  <2>3. Announcing => Announcing'
    BY <1>5, <2>2 DEF Announcing, InFlight
  <2>4. SameSession /\ Local
    BY <1>1, <1>5, <2>1, <2>3 DEF SameSession, Local
  <2> QED BY <2>4, LocalTold
<1>6. CASE OpenDialog
  <2>1. /\ tab'.session = tab.session /\ tab'.pending = tab.pending
        /\ tab'.profile = tab.profile
    BY <1>1, <1>6 DEF OpenDialog, Tab
  <2> QED BY <1>5, <1>6, <2>1 DEF OpenDialog
<1>7. CASE CloseDialog
  <2> DEFINE left == Outdated(calls, Flow \cup {"profile"})
             call == Request("profile", "first", tab.session, TRUE)
  <2>1. /\ tab'.session = tab.session /\ tab'.pending = tab.pending
        /\ tab'.profile = tab.profile
    BY <1>1, <1>7 DEF CloseDialog, Tab
  <2>2. UNCHANGED <<sessions, issued>>
    BY <1>7 DEF CloseDialog, ClientUnchanged
  <2>3. \/ calls' = left
        \/ CanLoadProfile(tab) /\ \E c \in Free : calls' = [left EXCEPT ![c] = call]
    BY <1>7 DEF CloseDialog
  <2>4. call.status = "wait" /\ call.token = NoToken /\ call.sent = tab.session
        /\ call.stage = "first"
    BY DEF Request
  <2>5. left \in [Calls -> Call \cup {NoCall}]
    BY InvGood, OutdatedCalls DEF CallsOK
  <2> HIDE DEF left, call
  <2>6. CASE calls' = left
    BY <1>5, <2>1, <2>2, <2>6 DEF left
  <2>7. CASE CanLoadProfile(tab) /\ \E c \in Free : calls' = [left EXCEPT ![c] = call]
    <3>1. PICK c \in Free : calls' = [left EXCEPT ![c] = call]
      BY <2>7
    <3>2. c \in Calls /\ calls'[c] = call /\ \A d \in Calls : d # c => calls'[d] = left[d]
      BY <2>5, <3>1 DEF Free
    <3>3. Begun(c)
      BY <2>1, <2>4, <2>7, <3>2 DEF Begun, CanLoadProfile
    <3>4. \A d \in Calls : calls'[d] = left[d] \/ (d \in Free /\ Begun(d))
      BY <3>2, <3>3
    <3> QED BY <1>5, <2>1, <2>2, <3>4 DEF left
  <2> QED BY <2>3, <2>6, <2>7
<1>8. CASE Reload
  <2>1. PICK c \in Calls : calls' = OnlyLoad(tab, c)
    BY <1>8 DEF Reload
  <2>2. /\ tab'.profile = NoUser /\ tab'.session = tab.session /\ tab'.pending = tab.pending
        /\ UNCHANGED <<sessions, issued>>
    BY <1>1, <1>8 DEF Reload, Fresh, Tab
  <2>3. \A d \in Calls : calls'[d] # NoCall => Begun(d)
    BY <2>1, <2>2 DEF OnlyLoad, Begun, Request, CanLoadProfile
  <2>4. NothingShown /\ Local
    BY <1>1, <2>2, <2>3 DEF NothingShown, Local
  <2> QED BY <2>4, LocalTold
<1> QED BY <1>3, <1>4, <1>6, <1>7, <1>8

\* A session already issued keeps its user, and no session comes back to life.
Grown ==
    /\ issued' \in Nat /\ issued <= issued'
    /\ \A s \in Tokens : s <= issued =>
          /\ sessions'[s].user = sessions[s].user
          /\ sessions'[s].status = "live" => sessions[s].status = "live"

\* An answer given to a call, true of the backend's new state.
Served(d) ==
    /\ d \in InFlight /\ calls'[d] # NoCall
    /\ calls'[d].kind = calls[d].kind /\ calls'[d].stage = calls[d].stage
    /\ calls'[d].sent = calls[d].sent /\ calls'[d].current = calls[d].current
    /\ Past(calls[d])'

\* A step of the backend keeps the story true.
LEMMA ServerTold ==
    ASSUME Inv, Told, tab' = tab, Grown,
           \A d \in Calls : calls'[d] = calls[d] \/ Served(d)
    PROVE  Told'
<1>1. /\ tab.session \in TokenOrNone /\ issued \in Nat /\ tab.session <= issued
      /\ tab.session <= issued'
  BY DEF Inv, TypeOK, Tab, Told, Grown, TokenOrNone, Tokens
<1>2. \A d \in InFlight : /\ calls[d].sent \in TokenOrNone /\ calls[d].token \in TokenOrNone
                          /\ calls[d].sent <= issued /\ calls[d].token <= issued
                          /\ d \in Calls /\ Past(calls[d])
  BY CallFields DEF Told, Past
<1>3. \A t \in TokenOrNone : t <= issued /\ Status(t)' = "live" => Status(t) = "live"
  BY DEF Status, Grown, TokenOrNone
<1>4. /\ \A d \in Calls : calls'[d] # NoCall => d \in InFlight
      /\ \A d \in InFlight : /\ calls'[d] # NoCall /\ calls'[d].kind = calls[d].kind
                             /\ calls'[d].stage = calls[d].stage
                             /\ calls'[d].sent = calls[d].sent
                             /\ calls'[d].current = calls[d].current
  BY <1>2 DEF Served, InFlight
<1>5. ASSUME NEW d \in InFlight PROVE Past(calls[d])'
  <2>1. CASE Served(d)
    BY <2>1 DEF Served
  <2>2. CASE calls'[d] = calls[d]
    <3> DEFINE r == calls[d]
    <3>1. \A t \in TokenOrNone : t <= issued => t <= issued'
      BY <1>1 DEF Grown, TokenOrNone, Tokens
    <3>2. r.kind \in SessionKinds /\ r.stage # "refresh" /\ r.status = "401"
             => Status(r.sent)' # "live"
      <4>1. r.sent \in TokenOrNone /\ r.sent <= issued /\ Past(r)
        BY <1>2
      <4>2. \A t : t = r.sent => (Status(t)' = "live" => Status(t) = "live")
        BY <1>3, <4>1
      <4>3. \A t : t = r.sent => (Status(calls[d].sent)' = Status(t)')
        BY <2>2 DEF Status
      <4> QED BY <2>2, <4>1, <4>2, <4>3 DEF Past
    <3>3. r.kind = "profile" /\ r.stage # "refresh" /\ r.status = "ok"
             => r.sent # NoToken /\ r.user = sessions'[r.sent].user
      BY <1>2 DEF Past, Grown, TokenOrNone
    <3>4. r.sent <= issued' /\ r.token <= issued'
      BY <1>2, <3>1
    <3> QED BY <1>2, <2>2, <3>2, <3>3, <3>4 DEF Past
  <2> QED BY <1>2, <2>1, <2>2
<1>6. Strays' => Strays
  <2>1. Announcing => Announcing'
    BY <1>2, <1>4 DEF Announcing, InFlight
  <2>2. Status(tab.session)' = "live" => Status(tab.session) = "live"
    <3>1. \A t : t = tab.session => (Status(t)' = "live" => Status(t) = "live")
      BY <1>1, <1>3
    <3>2. \A t : t = tab.session => Status(tab.session)' = Status(t)'
      BY DEF Status
    <3> QED BY <3>1, <3>2
  <2> QED BY <2>1, <2>2 DEF Strays
<1>7. Loads'
  BY <1>4, <1>6 DEF Told, Loads, OwnLoad, InFlight
<1>8. Shown'
  <2>1. Strays => tab.session \in Tokens
    BY <1>1 DEF Strays, Status, TokenOrNone
  <2> QED BY <1>1, <1>6, <2>1 DEF Told, Shown, Grown
<1> QED BY <1>1, <1>4, <1>5, <1>7, <1>8 DEF Told, InFlight

\* What an answer is once given.
LEMMA ReplyFields ==
    ASSUME Inv, NEW c \in InFlight, NEW status, NEW token, NEW user, NEW cookie,
           Reply(c, status, token, user, cookie)
    PROVE  /\ calls'[c] # NoCall
           /\ calls'[c].kind = calls[c].kind /\ calls'[c].stage = calls[c].stage
           /\ calls'[c].sent = calls[c].sent /\ calls'[c].current = calls[c].current
           /\ calls'[c].status = status /\ calls'[c].token = token /\ calls'[c].user = user
           /\ \A d \in Calls : d # c => calls'[d] = calls[d]
<1> DEFINE new == [calls[c] EXCEPT !.status = status, !.token = token, !.user = user,
                                   !.cookie = cookie]
<1>1. c \in Calls /\ calls[c] \in Call /\ calls[c].kind # "none"
  BY CallFields DEF SessionKinds, AppKinds
<1>2. /\ new.kind = calls[c].kind /\ new.stage = calls[c].stage
      /\ new.sent = calls[c].sent /\ new.current = calls[c].current
      /\ new.status = status /\ new.token = token /\ new.user = user
  BY <1>1 DEF Call
<1>3. calls'[c] = new /\ \A d \in Calls : d # c => calls'[d] = calls[d]
  BY <1>1, InvGood DEF Reply, CallsOK
<1> HIDE DEF new
<1>4. new # NoCall
  BY <1>1, <1>2 DEF NoCall
<1> QED BY <1>2, <1>3, <1>4

\* A new token, and the death of the one it replaces: the sessions grow.
LEMMA IssueGrown ==
    ASSUME sessions \in [Tokens -> Session], issued \in Nat, issued' = issued + 1,
           NEW s \in TokenOrNone,
           \/ \E new : sessions' = [sessions EXCEPT ![issued'] = new]
           \/ \E new : sessions' = [sessions EXCEPT ![s].status = "expired", ![issued'] = new]
    PROVE  Grown
<1>1. ASSUME NEW i \in Tokens, i <= issued
      PROVE  sessions'[i] \in {sessions[i], [sessions[i] EXCEPT !.status = "expired"]}
  <2>1. i # issued'
    BY <1>1 DEF Tokens
  <2>2. CASE \E new : sessions' = [sessions EXCEPT ![issued'] = new]
    BY <2>1, <2>2
  <2>3. CASE \E new : sessions' =
               [sessions EXCEPT ![s].status = "expired", ![issued'] = new]
    BY <2>1, <2>3
  <2> QED BY <2>2, <2>3
<1>2. \A i \in Tokens : i <= issued =>
         /\ sessions'[i].user = sessions[i].user
         /\ sessions'[i].status = "live" => sessions[i].status = "live"
  BY <1>1 DEF Session
<1> QED BY <1>2 DEF Grown

\* The answers of the backend, none of them lost and none with a replaced token.
LEMMA HandleTold ==
    ASSUME Inv, Told, NEW c \in Calls,
           Serve(c) \/ ServeRefresh(c) \/ ServeApp(c) \/ ServeLogin(c) \/ ServeMfa(c)
    PROVE  Told'
<1> DEFINE r == calls[c]
           s == r.sent
<1>1. c \in InFlight /\ tab' = tab
  BY DEF Serve, ServeRefresh, ServeApp, ServeLogin, ServeMfa, Waiting
<1>2. /\ Past(r) /\ s \in TokenOrNone /\ s <= issued /\ issued \in Nat
      /\ sessions \in [Tokens -> Session]
  BY <1>1, CallFields DEF Told, Past, Inv, TypeOK
<1>3. ASSUME NEW status, NEW token, NEW user, NEW cookie,
             Reply(c, status, token, user, cookie), Grown, token <= issued',
             r.kind \notin {"login", "mfa"} => token = NoToken,
             r.kind \in SessionKinds => status \in {"wait", "ok", "401"},
             r.kind \in SessionKinds /\ r.stage # "refresh" /\ status = "401"
                => \A t : t = s => Status(t)' # "live",
             r.kind = "profile" /\ r.stage # "refresh" /\ status = "ok"
                => s # NoToken /\ user = sessions'[s].user
      PROVE  Told'
  <2>1. /\ calls'[c] # NoCall
        /\ calls'[c].kind = r.kind /\ calls'[c].stage = r.stage
        /\ calls'[c].sent = s /\ calls'[c].current = r.current
        /\ calls'[c].status = status /\ calls'[c].token = token /\ calls'[c].user = user
        /\ \A d \in Calls : d # c => calls'[d] = calls[d]
    BY <1>1, <1>3, ReplyFields
  <2>2. s <= issued'
    BY <1>2, <1>3 DEF Grown, TokenOrNone, Tokens
  <2>3. \A t : t = s => Status(calls[c].sent)' = Status(t)'
    BY <2>1 DEF Status
  <2>4. r.stage = "refresh" => r.kind \in Refreshes
    BY <1>2 DEF Past
  <2>5. Past(calls[c])'
    BY <1>3, <2>1, <2>2, <2>3, <2>4 DEF Past
  <2>6. Served(c)
    BY <1>1, <2>1, <2>5 DEF Served
  <2> QED BY <1>1, <1>3, <2>1, <2>6, ServerTold
<1>4. ASSUME UNCHANGED <<sessions, issued>>
      PROVE  Grown /\ \A t : Status(t)' = Status(t)
  BY <1>2, <1>4 DEF Grown, Status
<1>5. CASE Serve(c)
  <2> DEFINE live == Status(s) = "live"
             cookie == [session |-> s, gen |-> NextGen(sessions[s].gen)]
  <2>1. r.kind \in SessionKinds /\ r.stage # "refresh" /\ issued' = issued
    BY <1>5 DEF Serve
  <2>2. CASE ~live
    BY <1>2, <1>3, <1>4, <1>5, <2>1, <2>2 DEF Serve
  <2>3. CASE live /\ r.kind \in {"profile", "page", "me"}
    <3>1. Reply(c, "ok", NoToken, Named(r.kind, s), NoCookie) /\ UNCHANGED <<sessions, issued>>
      BY <1>5, <2>1, <2>3 DEF Serve
    <3>2. s # NoToken /\ (r.kind = "profile" => Named(r.kind, s) = sessions'[s].user)
      BY <2>3, <3>1 DEF Status, Named
    <3> QED BY <1>2, <1>3, <1>4, <3>1, <3>2
  <2>4. CASE live /\ r.kind \in {"logout", "jwt"}
    <3>1. PICK user, k :
            /\ Reply(c, "ok", NoToken, user, k)
            /\ \/ sessions' = [sessions EXCEPT ![s].status = "revoked"]
               \/ sessions' = [sessions EXCEPT ![s].gen = cookie.gen]
      BY <1>5, <2>4 DEF Serve
    <3> HIDE DEF cookie
    <3>2. Grown
      BY <1>2, <2>1, <3>1 DEF Grown, Session
    <3> QED BY <1>2, <1>3, <2>1, <2>4, <3>1, <3>2
  <2> QED BY <1>5, <2>1, <2>2, <2>3, <2>4 DEF SessionKinds
<1>6. CASE ServeRefresh(c)
  <2>1. r.stage = "refresh" /\ issued' = issued
    BY <1>6 DEF ServeRefresh, Waiting
  <2>2. PICK status, k : status \in {"ok", "401"} /\ Reply(c, status, NoToken, NoUser, k)
    BY <1>6 DEF ServeRefresh
  <2>3. \/ sessions' = sessions
        \/ sessions' = [sessions EXCEPT ![r.cookie.session].gen = NextGen(r.cookie.gen)]
    BY <1>6 DEF ServeRefresh
  <2>4. Grown
    BY <1>2, <2>1, <2>3 DEF Grown, Session
  <2> QED BY <1>2, <1>3, <2>1, <2>2, <2>4
<1>7. CASE ServeApp(c)
  <2>1. r.kind \in AppKinds /\ UNCHANGED <<sessions, issued>>
    BY <1>7 DEF ServeApp
  <2>2. PICK status : Reply(c, status, NoToken, NoUser, NoCookie)
    BY <1>7 DEF ServeApp
  <2> QED BY <1>2, <1>3, <1>4, <2>1, <2>2 DEF AppKinds, SessionKinds
<1>8. CASE ServeLogin(c) \/ ServeMfa(c)
  <2>1. /\ r.kind \in {"login", "mfa"} /\ issued' = issued + 1
        /\ issued' \in Tokens
    BY <1>2, <1>8, Constants DEF ServeLogin, ServeMfa, Tokens, Inv, TypeOK
  <2>2. PICK status : Reply(c, status, issued', NoUser, NoCookie)
    BY <1>8 DEF ServeLogin, ServeMfa
  <2>3. \/ \E new : sessions' = [sessions EXCEPT ![issued'] = new]
        \/ \E new : sessions' = [sessions EXCEPT ![s].status = "expired", ![issued'] = new]
    BY <1>8 DEF ServeLogin, ServeMfa, Issue
  <2>4. Grown
    BY <1>2, <2>1, <2>3, IssueGrown
  <2> QED BY <1>2, <1>3, <2>1, <2>2, <2>4 DEF SessionKinds
<1> QED BY <1>5, <1>6, <1>7, <1>8

\* A freshly loaded tab shows nobody, and its load carries the stored token.
LEMMA ToldInit == Init => Told
<1> SUFFICES ASSUME Init PROVE Told
  OBVIOUS
<1> DEFINE start == [session |-> issued, access |-> issued = 1, pending |-> FALSE,
                     profile |-> NoUser, loading |-> FALSE, modal |-> "closed", busy |-> FALSE,
                     cookie |-> [session |-> issued, gen |-> issued]]
<1>1. tab = Fresh(start) /\ issued \in {0, 1}
  BY DEF Init
<1>2. /\ start.session = issued /\ ~start.pending
      /\ DOMAIN start = {"session", "access", "pending", "profile", "loading", "modal", "busy",
                         "cookie"}
  OBVIOUS
<1> HIDE DEF start
<1>3. tab.session = issued /\ ~tab.pending /\ tab.profile = NoUser
  BY <1>1, <1>2 DEF Fresh
<1>4. PICK c \in Calls : calls = OnlyLoad(tab, c)
  BY DEF Init
<1>5. \A d \in InFlight : calls[d] = Request("profile", "first", tab.session, TRUE)
  BY <1>4 DEF InFlight, OnlyLoad
<1>6. \A d \in InFlight : Past(calls[d]) /\ calls[d].sent = tab.session
  BY <1>1, <1>3, <1>5 DEF Past, Request
<1> QED BY <1>1, <1>3, <1>6 DEF Told, Loads, Shown

\* Once a request is lost or a token replaced, that stays counted.
LEMMA CleanStays == Inv /\ [Next]_vars /\ Clean' => Clean
<1> SUFFICES ASSUME Inv, [Next]_vars PROVE Clean' => Clean
  OBVIOUS
<1>1. losses \in Nat /\ rotations \in Nat
  BY ClientAssumption DEF Inv, TypeOK
<1>2. losses' \in {losses, losses + 1} /\ rotations' \in {rotations, rotations + 1}
  BY DEF Next, Handle, Deliver, Serve, ServeRefresh, ServeApp, ServeLogin, ServeMfa, Rotate,
         Lose, SessionOk, SessionThrows, SessionRotated, SessionUnauthorized, RefreshSettles,
         AppOk, AppPending, AppThrows, ClientUnchanged, Visit, UseAccount, Start, OpenDialog,
         CloseDialog, Submit, Reload, EndElsewhere, vars
<1> QED BY <1>1, <1>2 DEF Clean

\* Every step of a clean run keeps the story true.
LEMMA ToldNext == Inv /\ (Clean => Told) /\ [Next]_vars => (Clean => Told)'
<1> SUFFICES ASSUME Inv, Clean => Told, [Next]_vars, Clean' PROVE Told'
  OBVIOUS
<1>1. Told /\ losses \in Nat /\ rotations \in Nat /\ losses' = 0 /\ rotations' = 0
  BY CleanStays, ClientAssumption DEF Clean, Inv, TypeOK
<1>2. ASSUME NEW c \in Calls, Deliver(c) PROVE Told'
  BY <1>1, <1>2, SessionOkTold, SessionRefusedTold, RefreshSettlesTold, AppTold DEF Deliver
<1>3. ASSUME NEW c \in Calls, Handle(c) PROVE Told'
  <2>1. ~Rotate(c)
    BY <1>1 DEF Rotate
  <2> QED BY <1>1, <1>3, <2>1, HandleTold DEF Handle
<1>4. ASSUME NEW c \in Calls, Lose(c) PROVE Told'
  BY <1>1, <1>4 DEF Lose
<1>5. CASE EndElsewhere
  <2>1. PICK s \in 1..issued, status \in {"expired", "revoked"} :
           sessions' = [sessions EXCEPT ![s].status = status]
    BY <1>5 DEF EndElsewhere
  <2>2. tab' = tab /\ calls' = calls /\ issued' = issued
    BY <1>5 DEF EndElsewhere
  <2>3. Grown
    BY <2>1, <2>2 DEF Grown, Inv, TypeOK, Session
  <2> QED BY <1>1, <2>2, <2>3, ServerTold
<1>6. CASE Visit \/ (\E kind \in {"email", "logout"} : UseAccount(kind))
           \/ OpenDialog \/ CloseDialog \/ Submit \/ Reload
  <2>1. \/ \E kind \in {"page", "email", "logout"} : Start(kind)
        \/ OpenDialog \/ CloseDialog \/ Submit \/ Reload
    BY <1>6 DEF Visit, UseAccount
  <2> QED BY <1>1, <2>1, UserTold
<1>7. CASE UNCHANGED vars
  <2>1. tab' = tab /\ calls' = calls /\ sessions' = sessions /\ issued' = issued
    BY <1>7 DEF vars
  <2>2. Grown
    BY <2>1 DEF Grown, Inv, TypeOK
  <2> QED BY <1>1, <2>1, <2>2, ServerTold
<1> QED BY <1>2, <1>3, <1>4, <1>5, <1>6, <1>7 DEF Next

\* Whoever is shown is the user of the stored session while that lives and no login is
\* past its credentials, whatever older answers still arrive (useAuthProfile's sequence
\* and mounted checks, and AUTH_STATE_EVENT).
THEOREM StoredIsShown == Spec => []ShownIsStored
<1>1. Init => (Clean => Told)
  BY ToldInit
<1>2. (Clean => Told) => ShownIsStored
  BY DEF Clean, Told, Shown, Strays, Announcing, ShownIsStored, Repairing
<1> QED BY <1>1, <1>2, ToldNext, Invariance, PTL DEF Spec

=============================================================================

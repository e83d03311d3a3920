--------------------------- MODULE SessionClient ---------------------------
(***************************************************************************)
(* The session layer of the browser client: the tokens a tab keeps in its  *)
(* sessionStorage (services/auth/tokenStore.js), the request functions     *)
(* that repair a 401 or end the session (services/auth/sessionClient.js),  *)
(* the login of AuthModal.jsx and the profile of the page header           *)
(* (hooks/useAuthProfile.js).                                              *)
(*                                                                         *)
(* JavaScript runs to completion between two awaits, so a step is what one *)
(* event runs: a click, the answer of a request with every continuation    *)
(* it resumes, a closing dialog.  Any number of requests may be under way; *)
(* the backend serves them, and their answers arrive, in any order.        *)
(*                                                                         *)
(* The backend is external here: a session is live or not, an answer of    *)
(* /auth/refresh exchanges the refresh cookie once.                        *)
(***************************************************************************)
EXTENDS Naturals, FiniteSets

CONSTANTS
    MaxSessions,    \* bound: session tokens the backend issues
    Calls,          \* bound: async calls the tab has under way
    MaxLosses,      \* bound: requests that fail otherwise than by 401 or 410
    MaxRotations,   \* bound: session tokens replaced in an answer
    MaxActions,     \* bound: calls the user starts
    MaxEndings      \* bound: sessions that run out or are revoked from elsewhere

ASSUME ClientAssumption ==
    /\ MaxSessions \in Nat \ {0}
    /\ MaxLosses \in Nat /\ MaxRotations \in Nat
    /\ MaxActions \in Nat /\ MaxEndings \in Nat
    /\ IsFiniteSet(Calls) /\ "none" \notin Calls

VARIABLES
    tab,        \* the tab: stored tokens, cookie, header profile, login dialog
    calls,      \* calls[c]: the async function in slot c, with its request
    sessions,   \* sessions[s]: what the backend knows of token s
    issued,     \* the tokens issued so far are 1 .. issued
    losses,
    rotations,
    actions,
    endings

vars == <<tab, calls, sessions, issued, losses, rotations, actions, endings>>

Tokens == 1..MaxSessions
NoUser == 0         \* a user is named by the token of the login
NoToken == 0
NoCookie == [session |-> NoToken, gen |-> 0]

(* Calls made by requestWithSession, the two kinds of authentication steps *)
(* allauthAppRequest sends, and the options each caller passes.            *)
SessionKinds == {"profile", "page", "logout", "jwt", "me"}
AppKinds == {"email", "login", "mfa"}
Refreshes == {"profile", "page", "me"}     \* refreshAccessOn401
HardLogouts == {"profile", "me"}           \* hardLogoutOn401
Flow == {"login", "mfa", "jwt", "me"}               \* steps of AuthModal's login

NoCall == [kind |-> "none"]
InFlight == {c \in Calls : calls[c] # NoCall}
Free == Calls \ InFlight

(***************************************************************************)
(* The tab's storage and what is shown from it.                            *)
(***************************************************************************)
HasAuth(t) == t.session # NoToken \/ t.access

CanLoadProfile(t) == HasAuth(t) /\ ~t.pending

\* AUTH_STATE_EVENT: the header drops its profile and starts over.
Announced(t) == [t EXCEPT !.profile = NoUser, !.loading = CanLoadProfile(t)]

\* Mutant: a logout that leaves the header alone (emit: false).
ClearedSilently(t) == [t EXCEPT !.session = NoToken, !.access = FALSE, !.pending = FALSE]

\* clearAuthStorage: the event is emitted only when there was something to clear.
Cleared(t) ==
    LET empty == [t EXCEPT !.session = NoToken, !.access = FALSE, !.pending = FALSE]
    IN IF HasAuth(t) THEN Announced(empty) ELSE empty

\* setSessionToken without an event.
WithToken(t, token) == IF token = NoToken THEN t ELSE [t EXCEPT !.session = token]

\* executeSessionRequest: an answer may bring another token than the request carried.
Stored(t, r) == IF r.token = r.sent THEN t ELSE WithToken(t, r.token)

\* markPendingMfaSession: the event tells the header once.
MarkedPending(t) == IF t.pending THEN t ELSE Announced([t EXCEPT !.pending = TRUE])

\* Mutant: the hook takes the answer of any load (no request === sequence).
EveryLoadCounts(cs, kinds) == cs

\* A load begun before an event or under an earlier effect is no longer the
\* hook's own: its result is ignored.
Outdated(cs, kinds) ==
    [c \in Calls |-> IF cs[c] # NoCall /\ cs[c].kind \in kinds
                     THEN [cs[c] EXCEPT !.current = FALSE] ELSE cs[c]]

AfterEvent(cs, event) == IF event THEN Outdated(cs, {"profile"}) ELSE cs

(***************************************************************************)
(* Requests.                                                               *)
(***************************************************************************)
Request(kind, stage, token, current) ==
    [kind |-> kind, stage |-> stage, sent |-> token, status |-> "wait",
     token |-> NoToken, user |-> NoUser, current |-> current,
     awaits |-> "none", cookie |-> NoCookie]

Waiting(c) == /\ c \in InFlight
              /\ calls[c].status = "wait"
              /\ calls[c].stage = "refresh" => calls[c].awaits = c

Answered(c) == c \in InFlight /\ calls[c].status # "wait"

\* refreshAccessToken: the calls that wait for the one refresh under way.
RefreshOwners == {c \in InFlight : calls[c].stage = "refresh" /\ calls[c].awaits = c}

\* Mutant: every caller refreshes for itself.
OwnRefresh(c) == c

AwaitedRefresh(c) == IF RefreshOwners = {} THEN c ELSE CHOOSE o \in RefreshOwners : TRUE

Refresh(c, t) ==
    [calls[c] EXCEPT !.stage = "refresh", !.status = "wait", !.token = NoToken,
                     !.awaits = AwaitedRefresh(c), !.sent = t.session, !.cookie = t.cookie]

\* The functions in who throw: a hard logout clears the storage, logout() does
\* in its finally, the hook drops its profile, the dialog is no longer busy.
Throw(who, t, hard) ==
    LET clears == hard \/ \E c \in who : calls[c].kind = "logout"
        after == AfterEvent(calls, clears /\ HasAuth(t))
        mine(kinds) == \E c \in who : after[c].kind \in kinds /\ after[c].current
        left == IF clears THEN Cleared(t) ELSE t
    IN /\ tab' = [left EXCEPT !.profile = IF mine({"profile"}) THEN NoUser ELSE @,
                              !.loading = IF mine({"profile"}) THEN FALSE ELSE @,
                              !.busy = IF mine(Flow) THEN FALSE ELSE @]
       /\ calls' = [c \in Calls |-> IF c \in who THEN NoCall ELSE after[c]]

Go(c, t, call) == tab' = t /\ calls' = [calls EXCEPT ![c] = call]

ClientUnchanged == UNCHANGED <<sessions, issued, losses, rotations, actions, endings>>

(***************************************************************************)
(* Answers of requestWithSession.                                          *)
(***************************************************************************)
\* The token of the answer is stored; then each caller.
SessionOk(c) ==
    LET r == calls[c]
        t == Stored(tab, r)
    IN /\ Answered(c) /\ r.kind \in SessionKinds
       /\ r.stage # "refresh" /\ r.status = "ok"
       /\ \/ /\ r.kind = "profile"
             /\ Go(c, IF r.current /\ CanLoadProfile(t)
                      THEN [t EXCEPT !.profile = r.user, !.loading = FALSE] ELSE t, NoCall)
          \/ r.kind = "page" /\ Go(c, t, NoCall)
          \/ /\ r.kind = "logout"
             /\ tab' = [Cleared(t) EXCEPT !.cookie = NoCookie]
             /\ calls' = [AfterEvent(calls, HasAuth(t)) EXCEPT ![c] = NoCall]
          \/ /\ r.kind = "jwt"
             /\ Go(c, [t EXCEPT !.access = TRUE, !.cookie = r.cookie],
                   Request("me", "first", t.session, r.current))
          \/ /\ r.kind = "me"        \* announceAuthenticatedSession, then close()
             /\ LET done == Announced([t EXCEPT !.pending = FALSE])
                IN /\ tab' = [done EXCEPT !.modal = IF @ = "closed" THEN @ ELSE "done"]
                   /\ calls' = [AfterEvent(calls, TRUE) EXCEPT ![c] =
                         IF CanLoadProfile(done)
                         THEN Request("profile", "first", t.session, TRUE) ELSE NoCall]
       /\ ClientUnchanged

\* A 401 while the second factor is awaited, or any other failure: thrown as it is.
SessionThrows(c) ==
    LET r == calls[c]
    IN /\ Answered(c) /\ r.kind \in SessionKinds /\ r.stage # "refresh"
       /\ \/ r.status = "other" /\ Throw({c}, tab, FALSE)
          \/ /\ r.status = "401" /\ r.stage = "first" /\ tab.pending
             /\ Throw({c}, WithToken(tab, r.token), FALSE)
       /\ ClientUnchanged

\* A 401 that brings a new session token: once more with it.
Rotates(r) == r.stage = "first" /\ r.token \notin {NoToken, r.sent}

SessionRotated(c) ==
    LET r == calls[c]
    IN /\ Answered(c) /\ r.kind \in SessionKinds /\ r.stage = "first"
       /\ r.status = "401" /\ ~tab.pending /\ Rotates(r)
       /\ Go(c, WithToken(tab, r.token), Request(r.kind, "rotated", r.token, r.current))
       /\ ClientUnchanged

\* Mutant: a retry that is refused refreshes again.
UnauthorizedRefreshesAgain(c) ==
    LET r == calls[c]
    IN /\ Answered(c) /\ r.kind \in SessionKinds
       /\ r.status = "401"
       /\ \/ r.stage = "first" /\ ~tab.pending /\ ~Rotates(r)
          \/ r.stage \in {"rotated", "retry"}
       /\ IF r.kind \in Refreshes
          THEN Go(c, tab, Refresh(c, tab))
          ELSE Throw({c}, tab, r.kind \in HardLogouts)
       /\ ClientUnchanged

\* Any other 401: the shared refresh, for the callers that want one and once.
SessionUnauthorized(c) ==
    LET r == calls[c]
    IN /\ Answered(c) /\ r.kind \in SessionKinds
       /\ r.status = "401"
       /\ \/ r.stage = "first" /\ ~tab.pending /\ ~Rotates(r)
          \/ r.stage \in {"rotated", "retry"}
       /\ IF r.kind \in Refreshes /\ r.stage # "retry"
          THEN Go(c, tab, Refresh(c, tab))
          ELSE Throw({c}, tab, r.kind \in HardLogouts)
       /\ ClientUnchanged

\* The refresh settles and resumes everyone who awaits it: each retries with the
\* stored session token, or throws.
RefreshSettles(c) ==
    LET who == {w \in InFlight : calls[w].stage = "refresh" /\ calls[w].awaits = c}
    IN /\ Answered(c) /\ calls[c].stage = "refresh"
       /\ IF calls[c].status = "ok"
          THEN /\ tab' = [tab EXCEPT !.access = TRUE, !.cookie = calls[c].cookie]
               /\ calls' = [w \in Calls |-> IF w \in who
                    THEN Request(calls[w].kind, "retry", tab.session, calls[w].current)
                    ELSE calls[w]]
          ELSE Throw(who, tab, \E w \in who : calls[w].kind \in HardLogouts)
       /\ ClientUnchanged

(***************************************************************************)
(* Answers of allauthAppRequest.                                           *)
(***************************************************************************)
AppOk(c) ==
    LET r == calls[c]
        t == WithToken(tab, r.token)
    IN /\ Answered(c) /\ r.kind \in AppKinds /\ r.status = "ok"
       /\ IF r.kind = "email" THEN Go(c, t, NoCall)
          ELSE Go(c, t, Request("jwt", "first", t.session, r.current))
       /\ ClientUnchanged

\* A password accepted before the second factor: the session token is kept as
\* pending.
AppPending(c) ==
    LET r == calls[c]
        shown == MarkedPending([tab EXCEPT !.session = r.token])
    IN /\ Answered(c) /\ r.kind = "login" /\ r.status = "401" /\ r.token # NoToken
       /\ tab' = IF r.current THEN [shown EXCEPT !.modal = "mfa", !.busy = FALSE] ELSE shown
       /\ calls' = [AfterEvent(calls, ~tab.pending) EXCEPT ![c] = NoCall]
       /\ ClientUnchanged

\* A revoked session ends with any allauth call.
AppThrows(c) ==
    LET r == calls[c]
    IN /\ Answered(c) /\ r.kind \in AppKinds /\ r.status # "ok"
       /\ ~(r.status = "401" /\ r.token # NoToken)
       /\ Throw({c}, tab, r.status = "410")
       /\ ClientUnchanged

(***************************************************************************)
(* The backend.                                                            *)
(***************************************************************************)
Status(s) == IF s = NoToken THEN "none" ELSE sessions[s].status

Reply(c, status, token, user, cookie) ==
    calls' = [calls EXCEPT ![c] = [@ EXCEPT !.status = status, !.token = token,
                                            !.user = user, !.cookie = cookie]]

\* The next generation of a session's refresh token, of two told apart; 0 is none yet.
NextGen(gen) == IF gen = 1 THEN 2 ELSE 1

\* /auth/me names the session's user; what else an answer holds is left out.
Named(kind, s) == IF kind = "profile" THEN sessions[s].user ELSE NoUser

\* The account's endpoints refuse a token that is not live; a page's answers anyone.
Serve(c) ==
    LET r == calls[c]
        s == r.sent
        live == Status(s) = "live"
        cookie == [session |-> s, gen |-> NextGen(sessions[s].gen)]
    IN /\ Waiting(c) /\ r.kind \in SessionKinds /\ r.stage # "refresh"
       /\ \/ /\ ~live
             /\ \/ Reply(c, "401", NoToken, NoUser, NoCookie)
                \/ r.kind = "page" /\ Reply(c, "ok", NoToken, NoUser, NoCookie)
             /\ UNCHANGED sessions
          \/ /\ live /\ r.kind \in {"profile", "page", "me"}
             /\ Reply(c, "ok", NoToken, Named(r.kind, s), NoCookie)
             /\ UNCHANGED sessions
          \/ /\ live /\ r.kind = "logout"
             /\ Reply(c, "ok", NoToken, NoUser, NoCookie)
             /\ sessions' = [sessions EXCEPT ![s].status = "revoked"]
          \/ /\ live /\ r.kind = "jwt"
             /\ Reply(c, "ok", NoToken, NoUser, cookie)
             /\ sessions' = [sessions EXCEPT ![s].gen = cookie.gen]
       /\ UNCHANGED <<tab, issued, losses, rotations, actions, endings>>

\* refresh_pair: the cookie must be the pair in force of the session whose token
\* the header carries, and that session not revoked.
ServeRefresh(c) ==
    LET r == calls[c]
        s == r.cookie.session
        good == /\ s # NoToken /\ s = r.sent
                /\ sessions[s].gen = r.cookie.gen /\ Status(s) # "revoked"
        next == [session |-> s, gen |-> NextGen(r.cookie.gen)]
    IN /\ Waiting(c) /\ r.stage = "refresh"
       /\ IF good THEN /\ Reply(c, "ok", NoToken, NoUser, next)
                       /\ sessions' = [sessions EXCEPT ![s].gen = next.gen]
          ELSE Reply(c, "401", NoToken, NoUser, r.cookie) /\ UNCHANGED sessions
       /\ UNCHANGED <<tab, issued, losses, rotations, actions, endings>>

\* allauth's app endpoints: a dead token is answered 410, a conflict or a wrong
\* secret otherwise.
ServeApp(c) ==
    LET r == calls[c]
    IN /\ Waiting(c) /\ r.kind \in AppKinds
       /\ CASE Status(r.sent) \in {"expired", "revoked"} ->
                  Reply(c, "410", NoToken, NoUser, NoCookie)
            [] Status(r.sent) = "live" /\ r.kind = "email" ->
                  Reply(c, "ok", NoToken, NoUser, NoCookie)
            [] r.kind = "email" /\ Status(r.sent) # "live" ->
                  Reply(c, "401", NoToken, NoUser, NoCookie)
            [] OTHER -> Reply(c, "other", NoToken, NoUser, NoCookie)
       /\ UNCHANGED <<tab, sessions, issued, losses, rotations, actions, endings>>

Issue(s, status, user) ==
    sessions' = [sessions EXCEPT ![s] = [status |-> status, user |-> user, gen |-> 0]]

\* A right password, with or without a second factor enrolled.
ServeLogin(c) ==
    /\ Waiting(c) /\ calls[c].kind = "login"
    /\ Status(calls[c].sent) \in {"none", "pending"}
    /\ issued < MaxSessions /\ issued' = issued + 1
    /\ \E second \in BOOLEAN :
          /\ Issue(issued', IF second THEN "pending" ELSE "live", issued')
          /\ Reply(c, IF second THEN "401" ELSE "ok", issued', NoUser, NoCookie)
    /\ UNCHANGED <<tab, losses, rotations, actions, endings>>

\* A right code: the pending session becomes an authenticated one under a new token.
ServeMfa(c) ==
    LET s == calls[c].sent
    IN /\ Waiting(c) /\ calls[c].kind = "mfa" /\ Status(s) = "pending"
       /\ issued < MaxSessions /\ issued' = issued + 1
       /\ sessions' = [sessions EXCEPT ![s].status = "expired",
              ![issued'] = [status |-> "live", user |-> sessions[s].user, gen |-> 0]]
       /\ Reply(c, "ok", issued', NoUser, NoCookie)
       /\ UNCHANGED <<tab, losses, rotations, actions, endings>>

\* A backend that replaces the token of a live session says so in an answer.
Rotate(c) ==
    LET s == calls[c].sent
    IN /\ Waiting(c) /\ calls[c].kind \in {"profile", "page"} /\ calls[c].stage # "refresh"
       /\ Status(s) = "live"
       /\ rotations < MaxRotations /\ rotations' = rotations + 1
       /\ issued < MaxSessions /\ issued' = issued + 1
       /\ sessions' = [sessions EXCEPT ![s].status = "expired",
              ![issued'] = [status |-> "live", user |-> sessions[s].user, gen |-> 0]]
       /\ \E status \in {"ok", "401"} :
            Reply(c, status, issued',
                  IF status = "ok" THEN Named(calls[c].kind, s) ELSE NoUser, NoCookie)
       /\ UNCHANGED <<tab, losses, actions, endings>>

\* The request or its answer is lost, or the server fails or refuses it (5xx, 429).
Lose(c) ==
    /\ c \in InFlight /\ calls[c].status # "other"
    /\ calls[c].stage = "refresh" => calls[c].awaits = c
    /\ losses < MaxLosses /\ losses' = losses + 1
    /\ Reply(c, "other", NoToken, NoUser, calls[c].cookie)
    /\ UNCHANGED <<tab, sessions, issued, rotations, actions, endings>>

\* A session ends elsewhere: it runs out, or another device revokes it.
EndElsewhere ==
    /\ endings < MaxEndings /\ endings' = endings + 1
    /\ \E s \in 1..issued, status \in {"expired", "revoked"} :
          /\ Status(s) = "live"
          /\ sessions' = [sessions EXCEPT ![s].status = status]
    /\ UNCHANGED <<tab, calls, issued, losses, rotations, actions>>

(***************************************************************************)
(* The user.                                                               *)
(***************************************************************************)
Start(kind) ==
    /\ actions < MaxActions /\ actions' = actions + 1
    /\ \E c \in Free : Go(c, tab, Request(kind, "first", tab.session, TRUE))
    /\ UNCHANGED <<sessions, issued, losses, rotations, endings>>

Visit == Start("page")

UseAccount(kind) == HasAuth(tab) /\ tab.modal = "closed" /\ Start(kind)

\* useAuthProfile's effect runs again when the dialog opens or closes.
OpenDialog ==
    /\ tab.modal = "closed"
    /\ actions < MaxActions /\ actions' = actions + 1
    /\ tab' = [tab EXCEPT !.modal = "login", !.busy = FALSE]
    /\ calls' = Outdated(calls, {"profile"})
    /\ UNCHANGED <<sessions, issued, losses, rotations, endings>>

\* Mutant: closing the dialog loads nothing.
CloseDialogOnly ==
    /\ tab.modal # "closed"
    /\ tab' = [tab EXCEPT !.modal = "closed", !.busy = FALSE]
    /\ calls' = Outdated(calls, Flow \cup {"profile"})
    /\ ClientUnchanged

CloseDialog ==
    /\ tab.modal # "closed"
    /\ tab' = [tab EXCEPT !.modal = "closed", !.busy = FALSE]
    /\ LET left == Outdated(calls, Flow \cup {"profile"})
       IN IF CanLoadProfile(tab)
          THEN \E c \in Free :
                  calls' = [left EXCEPT ![c] = Request("profile", "first", tab.session, TRUE)]
          ELSE calls' = left
    /\ ClientUnchanged

Submit ==
    /\ tab.modal \in {"login", "mfa"} /\ ~tab.busy
    /\ \E c \in Free : Go(c, [tab EXCEPT !.busy = TRUE],
                          Request(tab.modal, "first", tab.session, TRUE))
    /\ actions < MaxActions /\ actions' = actions + 1
    /\ UNCHANGED <<sessions, issued, losses, rotations, endings>>

\* The page is loaded anew: the storage and the cookie stay, every call is gone.
Fresh(t) == [t EXCEPT !.profile = NoUser, !.loading = CanLoadProfile(t),
                      !.modal = "closed", !.busy = FALSE]

OnlyLoad(t, c) == [d \in Calls |-> IF CanLoadProfile(t) /\ d = c
                                  THEN Request("profile", "first", t.session, TRUE) ELSE NoCall]

Reload ==
    /\ InFlight # {} => losses < MaxLosses
    /\ losses' = IF InFlight # {} THEN losses + 1 ELSE losses
    /\ tab' = Fresh(tab)
    /\ \E c \in Calls : calls' = OnlyLoad(tab, c)
    /\ UNCHANGED <<sessions, issued, rotations, actions, endings>>

(***************************************************************************)
Init ==
    /\ losses = 0 /\ rotations = 0 /\ actions = 0 /\ endings = 0
    /\ issued \in {0, 1}
    /\ sessions = [s \in Tokens |-> IF s <= issued
                     THEN [status |-> "live", user |-> s, gen |-> 1]
                     ELSE [status |-> "none", user |-> NoUser, gen |-> 0]]
    /\ tab = Fresh([session |-> issued, access |-> issued = 1, pending |-> FALSE,
                    profile |-> NoUser, loading |-> FALSE, modal |-> "closed", busy |-> FALSE,
                    cookie |-> [session |-> issued, gen |-> issued]])
    /\ \E c \in Calls : calls = OnlyLoad(tab, c)

Handle(c) ==
    \/ Serve(c) \/ ServeRefresh(c) \/ ServeApp(c)
    \/ ServeLogin(c) \/ ServeMfa(c) \/ Rotate(c)

Deliver(c) ==
    \/ SessionOk(c) \/ SessionThrows(c) \/ SessionRotated(c)
    \/ SessionUnauthorized(c) \/ RefreshSettles(c)
    \/ AppOk(c) \/ AppPending(c) \/ AppThrows(c)

Next ==
    \/ \E c \in Calls : Handle(c) \/ Lose(c) \/ Deliver(c)
    \/ Visit \/ \E kind \in {"email", "logout"} : UseAccount(kind)
    \/ OpenDialog \/ CloseDialog \/ Submit \/ Reload
    \/ EndElsewhere

Spec == Init /\ [][Next]_vars

FairSpec ==
    /\ Spec
    /\ \A c \in Calls : WF_vars(Handle(c)) /\ WF_vars(Deliver(c))

TokenOrNone == Tokens \cup {NoToken}
User == 0..MaxSessions
Cookie == [session : TokenOrNone, gen : 0..2]

Call ==
    [kind : SessionKinds \cup AppKinds, stage : {"first", "rotated", "refresh", "retry"},
     sent : TokenOrNone, status : {"wait", "ok", "401", "410", "other"},
     token : TokenOrNone, user : User, current : BOOLEAN,
     awaits : Calls \cup {"none"}, cookie : Cookie]

Tab ==
    [session : TokenOrNone, access : BOOLEAN, pending : BOOLEAN, profile : User,
     loading : BOOLEAN, modal : {"closed", "login", "mfa", "done"}, busy : BOOLEAN,
     cookie : Cookie]

Session ==
    [status : {"none", "pending", "live", "expired", "revoked"}, user : User, gen : 0..2]

TypeOK ==
    /\ tab \in Tab
    /\ calls \in [Calls -> Call \cup {NoCall}]
    /\ sessions \in [Tokens -> Session]
    /\ issued \in 0..MaxSessions
    /\ losses \in 0..MaxLosses /\ rotations \in 0..MaxRotations
    /\ actions \in 0..MaxActions /\ endings \in 0..MaxEndings

\* Whoever is shown in the header is logged in: no answer that arrives after a
\* logout, a revocation or during a second factor brings a profile back.
ShownIsLoggedIn == tab.profile # NoUser => CanLoadProfile(tab)

\* A login past its credentials: the last two requests of AuthModal's chain.
Repairing == \E c \in InFlight : calls[c].kind \in {"jwt", "me"}

\* Whoever is shown in the header is the user of the stored session while it lives,
\* unless a login is replacing them: whatever older answers arrive, whoever logged in
\* in between, whatever dialog is open (requests failing and tokens replaced aside).
ShownIsStored ==
    /\ losses = 0 /\ rotations = 0 /\ ~Repairing
    /\ tab.profile # NoUser /\ Status(tab.session) = "live"
    => sessions[tab.session].user = tab.profile

LogsOut(c) ==
    /\ Answered(c) /\ calls'[c] = NoCall
    /\ calls[c].kind # "logout"
    /\ calls[c].stage = "refresh" => calls[c].awaits = c
    /\ tab.session # NoToken /\ tab'.session = NoToken

\* A live session is thrown away only on an answer about an older token, on a
\* lost request, or with a cookie that is not the session's own: requests that
\* fail together share one exchange of the cookie.
LiveSessionKept ==
    [][\A c \in Calls : LogsOut(c) /\ Status(tab.session) = "live" =>
          \/ calls[c].sent # tab.session
          \/ losses > 0
          \/ calls[c].stage = "refresh" /\ calls[c].cookie.session # tab.session]_vars

\* Every call of the tab settles.
CallsEnd == \A c \in Calls : calls[c] # NoCall ~> calls[c] = NoCall

\* The header stops waiting for a profile, unless a dialog is open.
LoadingEnds == tab.loading ~> (~tab.loading \/ tab.modal # "closed")
=============================================================================

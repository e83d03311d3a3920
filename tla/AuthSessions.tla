---------------------------- MODULE AuthSessions ----------------------------
(***************************************************************************)
(* Sessions and refresh tokens of one account of the JouTak backend.       *)
(*                                                                         *)
(* A browser holds an allauth session token (the key of a row of           *)
(* django_session, sent as X-Session-Token), maybe a session cookie (the   *)
(* key of another row, which an OAuth redirect or a password change left   *)
(* behind) and a refresh token.  The backend keeps, per session key, the   *)
(* django row, allauth's UserSession row and its own UserSessionMeta row,  *)
(* and, per refresh token pair, a UserSessionToken mapping beside the      *)
(* outstanding/blacklisted bookkeeping of ninja_jwt.                       *)
(*                                                                         *)
(* A request is one database transaction (ATOMIC_REQUESTS, READ            *)
(* COMMITTED) and takes two steps here.  Arrive reads: it authenticates    *)
(* the token, and asserts that the session is allowed, against what is     *)
(* committed then.  The handler's own action reads again and writes, under *)
(* the row locks it takes on the meta rows and mappings, and commits.      *)
(* Everything the other requests commit in between is the interesting part.*)
(* A request that fails, is refused or is killed leaves by Abort.          *)
(***************************************************************************)
EXTENDS SessionRows, Sequences

CONSTANTS
    Tokens,            \* session keys that logins may hand out
    Cookies,           \* session keys that cookies may carry
    Carries,           \* the <<token, cookie or Null>> pairs one browser may send
    Workers,           \* requests in progress at the same time
    Handlers,          \* the endpoints that requests call, and who acts on the account
    MaxJti,            \* bound on the refresh tokens issued
    MaxTime,           \* bound on the clock
    SessionTTL,        \* SESSION_COOKIE_AGE
    RefreshTTL,        \* NINJA_JWT REFRESH_TOKEN_LIFETIME
    SessionRetention,  \* AUTH_SESSION_RETENTION_DAYS
    TokenRetention,    \* AUTH_TOKEN_RETENTION_DAYS
    CleanupInterval,   \* the shortest time between two maintenance cycles
    RequestTimeout     \* the longest request, by assumption

AllHandlers == {"touch", "list", "jwt", "logout", "revoke", "listed", "others", "password",
                "delete", "save", "refresh"}
Operators == {"admin", "legacy"}

ASSUME KeysAssumption ==
    /\ Tokens \subseteq Keys /\ Cookies \subseteq Keys /\ Tokens \cap Cookies = {}
    /\ Carries \subseteq Tokens \X (Cookies \cup {Null})
    /\ Handlers \subseteq AllHandlers \cup Operators

ASSUME TimesAssumption ==
    /\ {MaxJti, MaxTime, SessionTTL, RefreshTTL, TokenRetention, RequestTimeout} \subseteq Nat
    /\ SessionRetention \in Nat /\ CleanupInterval \in Nat

\* Production keeps tombstones for 30 days and sessions for 14: a request may take 16 days.
ASSUME RetentionAssumption == SessionRetention >= SessionTTL + RequestTimeout

VARIABLES
    now,           \* the clock, from 1
    user,          \* "active", "disabled" (is_active is False) or "deleted"
    minted,        \* session keys ever generated: random keys are never reused
    sessions,      \* django_session: keys that have a row
    expire,        \*   its expire_date
    userSessions,  \* allauth's UserSession: keys that have a row
    metas,         \* UserSessionMeta
    lastPk,        \*   the base of its next primary keys
    mappings,      \* UserSessionToken
    outstanding,   \* OutstandingToken: ids that have a row
    blacklisted,   \* BlacklistedToken
    exp,           \* the exp claim of every refresh token signed so far, by id
    spent,         \* history: ids that were exchanged or revoked
    barred,        \* history: session keys whose own meta row was revoked
    req,           \* the request in progress of each worker
    cleanup        \* the maintenance cycle: its next statement, and when it began

metaVars == <<metas, lastPk, barred>>
rowVars == <<minted, sessions, expire, userSessions, metaVars>>
pairVars == <<mappings, outstanding, blacklisted, exp, spent>>
vars == <<now, user, rowVars, pairVars, req, cleanup>>

JtiIds == 1 .. MaxJti
issued == 1 .. Len(exp)
Idle == [op |-> "idle", token |-> Null, cookie |-> Null, jti |-> Null, at |-> Null]
Resting == [step |-> "idle", at |-> Null]

CleanupSteps == {"idle", "usersessions", "expired_metas", "revoked_metas", "blacklisted",
                 "outstanding", "mappings"}

TypeOK ==
    /\ now \in Nat \ {0}
    /\ user \in {"active", "disabled", "deleted"}
    /\ minted \subseteq Keys /\ sessions \subseteq minted /\ userSessions \subseteq Keys
    /\ expire \in [Keys -> Nat]
    /\ metas \subseteq MetaRows /\ lastPk \in Nat /\ barred \subseteq Keys
    /\ exp \in Seq(Nat) /\ Len(exp) <= MaxJti
    /\ mappings \subseteq MappingRows(issued)
    /\ outstanding \subseteq issued /\ blacklisted \subseteq outstanding /\ spent \subseteq issued
    /\ req \in [Workers -> [op : AllHandlers \cup {"idle"}, token : Tokens \cup {Null},
                            cookie : Cookies \cup {Null}, jti : JtiIds \cup {Null}, at : Nat]]
    /\ cleanup \in [step : CleanupSteps, at : Nat]

Init ==
    /\ now = 1 /\ user = "active"
    /\ minted = {} /\ sessions = {} /\ expire = [k \in Keys |-> Null]
    /\ userSessions = {} /\ metas = {} /\ lastPk = 0 /\ barred = {}
    /\ mappings = {} /\ outstanding = {} /\ blacklisted = {}
    /\ exp = <<>> /\ spent = {}
    /\ req = [w \in Workers |-> Idle] /\ cleanup = Resting

----------------------------------------------------------------------------
(* Shared parts of the handlers. *)

\* Mutant: the token strategy that allauth ships, which knows no tombstones.
LookupSessionOfAllauth(t) == t \in sessions /\ now < expire[t]

\* RevocableSessionTokenStrategy.lookup_session: no tombstone names the token, and
\* its session is still there.
LookupSession(t) == ~Blocked(metas, t) /\ t \in sessions /\ now < expire[t]

\* allauth's x_session_token_auth on top of it: the session's user is active.
Authenticated(t) == LookupSession(t) /\ user = "active"

\* Once the account is gone, every write of its requests fails on a foreign key.
Running(w, op) == req[w].op = op /\ user # "deleted"
Finish(w) == req' = [req EXCEPT ![w] = Idle]

NewSession(key) ==
    /\ minted' = minted \cup {key}
    /\ sessions' = sessions \cup {key}
    /\ expire' = [expire EXCEPT ![key] = now + SessionTTL]

\* Three statements of one transaction may insert meta rows: they use the bases
\* lastPk, lastPk + NumKeys and lastPk + 2 * NumKeys.
SetMetas(ms) ==
    /\ metas' = ms
    /\ barred' = barred \cup {m.session_key : m \in {m \in ms : Revoked(m)}}
    /\ lastPk' = IF \E m \in ms : m.pk > lastPk THEN lastPk + 3 * NumKeys ELSE lastPk

\* The three writes of touch: the meta row and, under a cookie, allauth's row.
Touched(w) == Touch(metas, lastPk, req[w].token, req[w].cookie, now)
TouchedSessions(w) == userSessions \cup ({req[w].cookie} \ {Null})

\* Ends every pair of these session keys: each one's token is blacklisted if it is
\* still outstanding, and its mapping revoked.
RevokePairs(keys) ==
    LET ended == Jtis(LiveMappings(mappings, keys)) IN
    /\ blacklisted' = blacklisted \cup (ended \cap outstanding)
    /\ mappings' = RevokeMappings(mappings, keys, now)
    /\ spent' = spent \cup ended
    /\ UNCHANGED <<outstanding, exp>>

\* _revoke_session_key for each key: allauth's UserSession.end(), or else the logout
\* of the request's own session or _kill_django_session, deletes the django row.
RevokeSessionKeys(ms, base, rows, us, keys) ==
    /\ SetMetas(RevokeKeys(ms, base, keys, now))
    /\ userSessions' = us \ keys
    /\ sessions' = rows \ keys
    /\ RevokePairs(keys)

\* Signs the next refresh token.  OutstandingToken records it.
NextJti == Len(exp) + 1
SignRefresh ==
    /\ NextJti \in JtiIds
    /\ exp' = Append(exp, now + RefreshTTL)
    /\ outstanding' = outstanding \cup {NextJti}

----------------------------------------------------------------------------
(* Requests. *)

\* A request with a session token reaches its handler, or the service behind it: the router
\* has authenticated it, and the session was asserted to be allowed, before the first lock.
\* The cookie is what the browser sent, whether or not its session still has a row:
\* session_key is read without loading the session.
Arrive(w) ==
    \E op \in (Handlers \cap AllHandlers) \ {"refresh"}, tc \in Carries :
        /\ req[w] = Idle
        /\ tc[2] # Null => tc[2] \in minted
        /\ Authenticated(tc[1])
        /\ Allowed(metas, tc[1], tc[2])
        /\ op = "save" => tc[2] = Null
        /\ req' = [req EXCEPT ![w] = [op |-> op, token |-> tc[1], cookie |-> tc[2],
                                      jti |-> Null, at |-> now]]
        /\ UNCHANGED <<now, user, rowVars, pairVars, cleanup>>

\* /auth/refresh has no session authentication.  Before it takes a lock it checks the
\* token's signature, lifetime and blacklist entry, and that the user is active.
ArriveRefresh(w) ==
    \E t \in Tokens \cap minted, j \in issued :
        /\ "refresh" \in Handlers /\ req[w] = Idle
        /\ now < exp[j] /\ j \notin blacklisted /\ user = "active"
        /\ req' = [req EXCEPT ![w] = [op |-> "refresh", token |-> t, cookie |-> Null,
                                      jti |-> j, at |-> now]]
        /\ UNCHANGED <<now, user, rowVars, pairVars, cleanup>>

\* The request ends without an effect: an error response before any write, a rolled
\* back transaction (an integrity error, a deadlock victim) or a killed worker.
Abort(w) ==
    /\ req[w] # Idle /\ Finish(w)
    /\ UNCHANGED <<now, user, rowVars, pairVars, cleanup>>

\* /auth/me, /account/status, /account/profile and the others that only touch the
\* session; also a revocation or password change refused after its touch (an unknown
\* id, a bad scope, a wrong password): the error response keeps the touch committed.
TouchOnly(w) ==
    /\ \E op \in {"touch", "revoke", "listed", "others", "password"} : Running(w, op)
    /\ SetMetas(Touched(w)) /\ userSessions' = TouchedSessions(w)
    /\ Finish(w)
    /\ UNCHANGED <<now, user, minted, sessions, expire, pairVars, cleanup>>

\* GET /account/sessions: purge_and_list drops the UserSession rows without a session.
ListSessions(w) ==
    /\ Running(w, "list")
    /\ SetMetas(Touched(w)) /\ userSessions' = TouchedSessions(w) \cap sessions
    /\ Finish(w)
    /\ UNCHANGED <<now, user, minted, sessions, expire, pairVars, cleanup>>

\* The meta row that issue_pair_for_session binds the new pair to.  The touch before
\* it has made sure that there is one.
BoundMeta(ms, t, c) ==
    IF ByDigest(ms, t) # {} THEN First(ByDigest(ms, t)) ELSE First(ByKey(ms, c))

\* POST /auth/jwt/from_session.  Moving the bound row to the cookie's key would collide
\* with the row that touch keeps under that key (unique user and session_key): the
\* request then fails and is rolled back (Abort).
JwtFromSession(w) ==
    LET t == req[w].token
        c == req[w].cookie
        m == BoundMeta(Touched(w), t, c)
    IN /\ Running(w, "jwt")
       /\ c # Null => m.session_key = c
       /\ SetMetas(Touched(w)) /\ userSessions' = TouchedSessions(w)
       /\ SignRefresh
       /\ mappings' = mappings \cup {[session_key |-> m.session_key, refresh_jti |-> NextJti,
                                      expires_at |-> now + RefreshTTL, revoked_at |-> Null]}
       /\ Finish(w)
       /\ UNCHANGED <<now, user, minted, sessions, expire, blacklisted, spent, cleanup>>

\* POST /auth/refresh under its locks: the mapping still holds the presented id, and
\* the session token names the row of the mapping's session, which is not revoked.
RefreshPair(w) ==
    LET t == req[w].token
        j == req[w].jti
    IN \E p \in mappings :
        /\ Running(w, "refresh")
        /\ p.refresh_jti = j /\ ~Revoked(p)
        /\ ByDigest(metas, t) # {} /\ First(ByDigest(metas, t)).session_key = p.session_key
        /\ \A m \in ByKey(metas, p.session_key) : ~Revoked(m)
        /\ SignRefresh
        /\ blacklisted' = blacklisted \cup ({j} \cap outstanding)
        /\ mappings' = (mappings \ {p}) \cup
              {[p EXCEPT !.refresh_jti = NextJti, !.expires_at = now + RefreshTTL]}
        /\ spent' = spent \cup {j}
        /\ Finish(w)
        /\ UNCHANGED <<now, user, rowVars, cleanup>>

\* POST /auth/logout.  The session it names is the cookie's, or that of the token's
\* first meta row; with neither it revokes nothing.  dj_logout then flushes the
\* cookie's session.
Logout(w) ==
    LET t == req[w].token
        c == req[w].cookie
        key == CurrentKey(metas, t, c)
    IN /\ Running(w, "logout")
       /\ IF key = Null THEN UNCHANGED <<metaVars, pairVars>>
          ELSE SetMetas(LogoutKey(metas, lastPk, key, t, now)) /\ RevokePairs({key})
       /\ sessions' = sessions \ {c}
       /\ Finish(w)
       /\ UNCHANGED <<now, user, minted, expire, userSessions, cleanup>>

\* DELETE /account/sessions/{sid}.  What Arrive asserted may be out of date by now.
RevokeSingle(w, sid) ==
    /\ Running(w, "revoke")
    /\ sid \in TouchedSessions(w) \/ ByKey(Touched(w), sid) # {}
    /\ RevokeSessionKeys(Touched(w), lastPk + NumKeys, sessions, TouchedSessions(w), {sid})
    /\ Finish(w)
    /\ UNCHANGED <<now, user, minted, expire, cleanup>>

\* Mutant: only the rows that some request has touched.
RevocableTouched(ms, us) == {m.session_key : m \in {m \in ms : ~Revoked(m)}}

\* The session keys of the account that revoke_bulk has not already ended.
Revocable(ms, us) == us \cup {m.session_key : m \in {m \in ms : ~Revoked(m)}}

\* POST /account/sessions/bulk with explicit ids.
RevokeListed(w, ids) ==
    /\ Running(w, "listed")
    /\ RevokeSessionKeys(Touched(w), lastPk + NumKeys, sessions, TouchedSessions(w),
                         ids \cap Revocable(Touched(w), TouchedSessions(w)))
    /\ Finish(w)
    /\ UNCHANGED <<now, user, minted, expire, cleanup>>

\* POST /account/sessions/bulk with all_except_current; 409 without a current key.
RevokeOthers(w) ==
    LET ms == Touched(w)
        us == TouchedSessions(w)
        current == CurrentKey(ms, req[w].token, req[w].cookie)
    IN /\ Running(w, "others")
       /\ current # Null
       /\ RevokeSessionKeys(ms, lastPk + NumKeys, sessions, us, Revocable(ms, us) \ {current})
       /\ Finish(w)
       /\ UNCHANGED <<now, user, minted, expire, cleanup>>

\* revoke_bulk asserts again in a password change, after the touch: of what it reads, only
\* the row that the touch has locked is sure to be as it is at the commit.
Reasserted(w) ==
    \A m \in ByKey(Touched(w), TouchKey(req[w].token, req[w].cookie)) :
        m.digest = Digest(req[w].token) /\ m = First(ByDigest(Touched(w), req[w].token))
        => ~Revoked(m)

\* POST /auth/change_password.  Django's update_session_auth_hash gives the request's
\* cookie session a new key, or makes one where there was none; all sessions but that
\* current one are then revoked and, if the caller asks for it, that one too.
ChangePassword(w, fresh, logoutToo) ==
    LET t == req[w].token
        c == req[w].cookie
        ms == Touch(Touched(w), lastPk + NumKeys, t, fresh, now)
        us == TouchedSessions(w) \cup {fresh}
        others == Revocable(ms, us) \ {fresh}
        after == RevokeKeys(ms, lastPk + 2 * NumKeys, others, now)
    IN /\ Running(w, "password") /\ Reasserted(w)
       /\ minted' = minted \cup {fresh}
       /\ expire' = [expire EXCEPT ![fresh] = now + SessionTTL]
       /\ sessions' = (sessions \ ({c} \cup others)) \cup
                      (IF logoutToo THEN {} ELSE {fresh})
       /\ userSessions' = us \ others
       /\ SetMetas(IF logoutToo THEN LogoutKey(after, lastPk, fresh, t, now) ELSE after)
       /\ RevokePairs(others \cup IF logoutToo THEN {fresh} ELSE {})
       /\ Finish(w)
       /\ UNCHANGED <<now, user, cleanup>>

\* POST /account/delete: the user's rows go with the user (foreign keys cascade), and
\* the cookie's session is flushed; the token's own django row stays behind.
DeleteAccount(w) ==
    /\ Running(w, "delete") /\ user # "deleted"
    /\ user' = "deleted"
    /\ metas' = {} /\ userSessions' = {} /\ mappings' = {}
    /\ sessions' = sessions \ {req[w].cookie}
    /\ Finish(w)
    /\ UNCHANGED <<now, minted, expire, lastPk, barred, outstanding, blacklisted, exp, spent,
                   cleanup>>

----------------------------------------------------------------------------
(* allauth and Django around the services: external code. *)

\* A headless login or signup: a new session and its UserSession row.
Login(k) ==
    /\ user = "active" /\ k \in Tokens \ minted
    /\ NewSession(k) /\ userSessions' = userSessions \cup {k}
    /\ UNCHANGED <<now, user, metaVars, pairVars, req, cleanup>>

\* A page outside the headless API, such as an OAuth redirect, leaves a session behind a
\* cookie.
StartCookie(c) ==
    /\ c \in Cookies \ minted
    /\ NewSession(c)
    /\ UNCHANGED <<now, user, userSessions, metaVars, pairVars, req, cleanup>>

\* A headless request that changed its session saves it at the end: the row gets a
\* new expire_date.  Saving a session whose row is gone fails (Abort).
SaveSession(w) ==
    /\ Running(w, "save") /\ req[w].token \in sessions
    /\ expire' = [expire EXCEPT ![req[w].token] = now + SessionTTL]
    /\ Finish(w)
    /\ UNCHANGED <<now, user, minted, sessions, userSessions, metaVars, pairVars, cleanup>>

\* An administrator switches is_active.
Disable ==
    /\ "admin" \in Handlers
    /\ user = "active" /\ user' = "disabled"
    /\ UNCHANGED <<now, rowVars, pairVars, req, cleanup>>

Enable ==
    /\ user = "disabled" /\ user' = "active"
    /\ UNCHANGED <<now, rowVars, pairVars, req, cleanup>>

\* Time passes.  That no request outlives RequestTimeout is an assumption: gunicorn's --timeout
\* is one on the worker process, and its threads do not enforce it on each request.
Tick ==
    /\ now < MaxTime /\ now' = now + 1
    /\ \A w \in Workers : req[w] # Idle => now < req[w].at + RequestTimeout
    /\ UNCHANGED <<user, rowVars, pairVars, req, cleanup>>

----------------------------------------------------------------------------
(* Maintenance: clearsessions and cleanup_auth_data, statement by statement,  *)
(* each in a transaction of its own.                                          *)

Past(retention) == cleanup.at - retention

ClearSessions ==
    /\ cleanup.step = "idle" /\ now >= cleanup.at + CleanupInterval
    /\ sessions' = {k \in sessions : now <= expire[k]}
    /\ cleanup' = [step |-> "usersessions", at |-> now]
    /\ UNCHANGED <<now, user, minted, expire, userSessions, metaVars, pairVars, req>>

Advance(from, to) ==
    /\ cleanup.step = from
    /\ cleanup' = [cleanup EXCEPT !.step = to]

PurgeUserSessions ==
    /\ Advance("usersessions", "expired_metas")
    /\ userSessions' = userSessions \cap sessions
    /\ UNCHANGED <<now, user, minted, sessions, expire, metaVars, pairVars, req>>

PurgeExpiredMetas ==
    /\ Advance("expired_metas", "revoked_metas")
    /\ metas' = {m \in metas : m.session_key \in sessions
                               \/ m.last_seen >= Past(SessionRetention)}
    /\ UNCHANGED <<now, user, minted, sessions, expire, userSessions, lastPk, barred, pairVars,
                   req>>

\* Mutant: revoked rows are dropped without regard to their age.
PurgeRevokedAtOnce ==
    /\ Advance("revoked_metas", "blacklisted")
    /\ metas' = {m \in metas : ~Revoked(m)}
    /\ UNCHANGED <<now, user, minted, sessions, expire, userSessions, lastPk, barred, pairVars,
                   req>>

PurgeRevokedMetas ==
    /\ Advance("revoked_metas", "blacklisted")
    /\ metas' = {m \in metas : Revoked(m) => m.revoked_at >= Past(SessionRetention)}
    /\ UNCHANGED <<now, user, minted, sessions, expire, userSessions, lastPk, barred, pairVars,
                   req>>

\* Mutant: the age of the token counts, not its expiry.
PurgeBlacklistedByAge ==
    /\ Advance("blacklisted", "outstanding")
    /\ blacklisted' = {j \in blacklisted : exp[j] - RefreshTTL >= Past(TokenRetention)}
    /\ UNCHANGED <<now, user, rowVars, mappings, outstanding, exp, spent, req>>

PurgeBlacklisted ==
    /\ Advance("blacklisted", "outstanding")
    /\ blacklisted' = {j \in blacklisted : exp[j] >= Past(TokenRetention)}
    /\ UNCHANGED <<now, user, rowVars, mappings, outstanding, exp, spent, req>>

\* Mutant: the age of the token counts, not its expiry.
PurgeOutstandingByAge ==
    /\ Advance("outstanding", "mappings")
    /\ outstanding' = {j \in outstanding : exp[j] - RefreshTTL >= Past(TokenRetention)}
    /\ blacklisted' = blacklisted \cap outstanding'
    /\ UNCHANGED <<now, user, rowVars, mappings, exp, spent, req>>

\* Deleting an OutstandingToken takes its BlacklistedToken with it (foreign key).
PurgeOutstanding ==
    /\ Advance("outstanding", "mappings")
    /\ outstanding' = {j \in outstanding : exp[j] >= Past(TokenRetention)}
    /\ blacklisted' = blacklisted \cap outstanding'
    /\ UNCHANGED <<now, user, rowVars, mappings, exp, spent, req>>

\* Mutant: a mapping needs both bookkeeping rows to be kept.
StaleWithoutBoth(p) ==
    \/ Revoked(p) /\ p.revoked_at < Past(TokenRetention)
    \/ p.expires_at < cleanup.at
    \/ p.refresh_jti \notin outstanding \/ p.refresh_jti \notin blacklisted

StaleMapping(p) ==
    \/ Revoked(p) /\ p.revoked_at < Past(TokenRetention)
    \/ p.expires_at < cleanup.at
    \/ p.refresh_jti \notin outstanding /\ p.refresh_jti \notin blacklisted

PurgeMappings ==
    /\ Advance("mappings", "idle")
    /\ mappings' = {p \in mappings : ~StaleMapping(p)}
    /\ UNCHANGED <<now, user, rowVars, outstanding, blacklisted, exp, spent, req>>

\* A statement fails: the loop logs it, and the next cycle starts over.
CleanupFails ==
    /\ cleanup.step # "idle" /\ cleanup' = [cleanup EXCEPT !.step = "idle"]
    /\ UNCHANGED <<now, user, rowVars, pairVars, req>>

\* Mutant: the cut-over blacklists the tokens and forgets their mappings.
InvalidateTokensOnly ==
    /\ "legacy" \in Handlers /\ \A w \in Workers : req[w] = Idle
    /\ sessions' = {} /\ userSessions' = {}
    /\ metas' = {IF Revoked(m) THEN m ELSE [m EXCEPT !.revoked_at = now] : m \in metas}
    /\ barred' = barred \cup {m.session_key : m \in metas}
    /\ blacklisted' = outstanding
    /\ spent' = spent \cup outstanding
    /\ UNCHANGED <<now, user, minted, expire, lastPk, mappings, outstanding, exp, req, cleanup>>

\* invalidate_legacy_auth_sessions --apply, one transaction.  The operator has drained
\* the authentication writes first, as the command demands.
InvalidateLegacy ==
    /\ "legacy" \in Handlers /\ \A w \in Workers : req[w] = Idle
    /\ sessions' = {} /\ userSessions' = {}
    /\ metas' = {IF Revoked(m) THEN m ELSE [m EXCEPT !.revoked_at = now] : m \in metas}
    /\ barred' = barred \cup {m.session_key : m \in metas}
    /\ mappings' = RevokeMappings(mappings, Keys, now)
    /\ blacklisted' = outstanding
    /\ spent' = spent \cup Jtis(LiveMappings(mappings, Keys)) \cup outstanding
    /\ UNCHANGED <<now, user, minted, expire, lastPk, outstanding, exp, req, cleanup>>

----------------------------------------------------------------------------
Handle(w) ==
    \/ Arrive(w) \/ ArriveRefresh(w) \/ Abort(w)
    \/ TouchOnly(w) \/ ListSessions(w) \/ JwtFromSession(w) \/ RefreshPair(w) \/ Logout(w)
    \/ \E sid \in Keys : RevokeSingle(w, sid)
    \/ \E ids \in SUBSET Keys \ {{}} : RevokeListed(w, ids)
    \/ RevokeOthers(w)
    \/ \E fresh \in Cookies \ minted, logoutToo \in BOOLEAN : ChangePassword(w, fresh, logoutToo)
    \/ DeleteAccount(w) \/ SaveSession(w)

Maintain ==
    \/ ClearSessions \/ PurgeUserSessions \/ PurgeExpiredMetas \/ PurgeRevokedMetas
    \/ PurgeBlacklisted \/ PurgeOutstanding \/ PurgeMappings \/ CleanupFails
    \/ InvalidateLegacy

Next ==
    \/ \E w \in Workers : Handle(w)
    \/ \E k \in Keys : Login(k) \/ StartCookie(k)
    \/ Disable \/ Enable \/ Tick
    \/ Maintain

Spec == Init /\ [][Next]_vars

----------------------------------------------------------------------------
(* Properties. *)

\* A session whose own meta row was revoked never authenticates again: not while the
\* tombstone stands, not after cleanup_auth_data has deleted it, and not through a
\* request that was already running when it was revoked.
BarredStaysOut == \A k \in barred : ~Authenticated(k)

\* No mapping that could still be exchanged holds a refresh token that was exchanged or
\* revoked before, so a race of two refreshes, or of a refresh and a revocation, over
\* one token has one winner.
SpentTokensUnmapped == \A p \in mappings : ~Revoked(p) => p.refresh_jti \notin spent

\* The blacklist is a barrier of its own: a spent token that has not expired is either
\* blacklisted or has lost its OutstandingToken.
SpentTokensBlacklisted ==
    \A j \in spent : now < exp[j] /\ j \in outstanding => j \in blacklisted

\* A pair that nothing ended stays usable: while the token of a mapping that is not
\* revoked has not expired, no cycle of cleanup_auth_data, no other request's rotation
\* or revocation and no cut-over leaves it blacklisted or without its bookkeeping row.
LivePairUsable ==
    \A p \in mappings :
        ~Revoked(p) /\ now < exp[p.refresh_jti] => p.refresh_jti \in outstanding \ blacklisted

MappingOf(j) == {p \in mappings : p.refresh_jti = j}

\* A pair bound to a revoked session token is never exchanged, not even one that was issued
\* by a request that raced the revocation, as long as cleanup_auth_data keeps the tombstone.
\* (A cookie's key is left out: a stale cookie re-creates its row after the cleanup.)
BarredPairsFrozen ==
    [][\A w \in Workers : RefreshPair(w) =>
          \A p \in MappingOf(req[w].jti) : p.session_key \notin barred \cap Tokens]_vars

\* Revoking all sessions but the current one, and a password change, leave no other
\* session token that authenticates.
OthersEnded ==
    [][\A w \in Workers :
          RevokeOthers(w) \/ (\E c \in Cookies, b \in BOOLEAN : ChangePassword(w, c, b)) =>
             \A k \in Tokens \ {req[w].token} : ~Authenticated(k)']_vars

\* A caller whose session token was never sent beside a cookie survives its own `all
\* except current', although every other session the account has goes.
UnmixedCallerKept ==
    [][\A w \in Workers, t \in Tokens :
          /\ RevokeOthers(w) /\ t = req[w].token /\ req[w].cookie = Null
          /\ \A m \in ByDigest(metas, t) : m.session_key = t
          /\ Authenticated(t)
          => Authenticated(t)']_vars

\* A logout without a cookie ends the token, once any endpoint has touched its session.
TouchedLogoutEnds ==
    [][\A w \in Workers, t \in Tokens :
          Logout(w) /\ t = req[w].token /\ req[w].cookie = Null /\ ByDigest(metas, t) # {}
          => ~Authenticated(t)']_vars

\* cleanup_auth_data never deletes the mapping of a pair that its client can exchange.
CleanupKeepsLivePairs ==
    [][PurgeMappings => \A p \in mappings : ~Revoked(p) /\ now < exp[p.refresh_jti]
                                              => p \in mappings']_vars
=============================================================================

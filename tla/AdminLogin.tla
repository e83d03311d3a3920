----------------------------- MODULE AdminLogin -----------------------------
(***************************************************************************)
(* The two stages of an operator's login (backend/admin_site.py,           *)
(* accounts/services/admin_mfa.py): the password starts a pending flow in  *)
(* the session, a code or a passkey ends it, and only a session with that  *)
(* assurance sees the admin pages.  One operator, several browsers.        *)
(*                                                                         *)
(* The view of a request is one transaction (ATOMIC_REQUESTS): what it     *)
(* writes is seen when it commits, and a row it has written stays locked   *)
(* until then.  The rate counters are rows of the same database, so the    *)
(* touch of the epoch's row by _get_rate_epoch makes the attempts of one   *)
(* user and address follow each other.  The session is loaded when the     *)
(* request arrives and saved as a whole, after the transaction, if it was  *)
(* changed and its row is still there.                                     *)
(*                                                                         *)
(* A code proves a factor once; Wrong is any other text.  A passkey is     *)
(* right or wrong: its challenge is the subject of WebAuthnChallenge.      *)
(* allauth's own limiter may refuse an attempt at any time.  Windows of    *)
(* all counters begin at the same times.  wrong, logins, barred and        *)
(* reopened are auxiliary.                                                 *)
(***************************************************************************)
EXTENDS Integers, FiniteSets, Functions

CONSTANTS
    Requests,         \* requests in progress at the same time
    Browsers,
    Addresses, AddressOf,
    TotpCodes, RecoveryCodes, Wrong, Passkey, Garbled,
    NoOne,
    Limit,            \* ADMIN_MFA_COMPLETION_RATE, per window
    OptionsLimit,     \* ADMIN_MFA_OPTIONS_RATE, per window
    Window,           \* length of a window of the counters
    EpochTimeout,     \* _rate_epoch_timeout
    PendingTTL, AssuranceTTL,
    MaxTime, NumFlows, NumLogins,   \* bounds on the clock, the flows and the logins
    Budgets           \* bounds on the requests of each kind, the changes of role and factors
                      \* and the ticks of the clock

VARIABLES
    now,
    rows,       \* django sessions
    jar,        \* the session key of each browser
    role,       \* is_active and is_staff
    factors,    \* the kinds of authenticators the operator has
    codes,      \* codes that are not used up
    epoch,      \* per address, the cached epoch and when its row was refreshed
    count,      \* per address, epoch and group
    turn,       \* per address, who holds the epoch's row
    lock,       \* who holds the rows of the TOTP and recovery authenticators
    req,
    flows, admitted,   \* how many flows and logins there were
    left,              \* what the bounds leave
    wrong, logins, barred, reopened

vars == <<now, rows, jar, role, factors, codes, epoch, count, turn, lock, req, flows, admitted,
          left, wrong, logins, barred, reopened>>

sessions == <<rows, jar>>
operator == <<role, factors, codes>>
rates == <<epoch, count, turn>>
bounds == <<flows, admitted, left>>
aux == <<wrong, logins, barred, reopened>>

Codes == TotpCodes \union RecoveryCodes
Factors == {"totp", "recovery", "webauthn"}
Primary == {"totp", "webauthn"}
Groups == {"code", "webauthn", "options"}
Flows == 1 .. NumFlows
NoFlow == 0

\* A session key is made by a password stage or by the n-th login.
Keys == ({"flow"} \X Flows) \union ({"login"} \X (1 .. NumLogins))
NoKey == <<"none", 0>>

\* What a session holds: a pending flow and its start, an authenticated user, an assurance and
\* its time.
Data == [flow : Flows \union {NoFlow}, since : 0 .. MaxTime, user : BOOLEAN,
         assured : BOOLEAN, at : 0 .. MaxTime]
Blank == [flow |-> NoFlow, since |-> 0, user |-> FALSE, assured |-> FALSE, at |-> 0]
\* Mutant: the flow keeps its end, not its start.
Pending_Until(f) == [Blank EXCEPT !.flow = f, !.since = now + PendingTTL]
Pending(f) == [Blank EXCEPT !.flow = f, !.since = now]
Assured == [Blank EXCEPT !.user = TRUE, !.assured = TRUE, !.at = now]

Bounded == {"passwords", "attempts", "options", "pages", "changes", "ticks"}

ASSUME LoginAssumption ==
    /\ {Limit, OptionsLimit, Window, EpochTimeout, PendingTTL, AssuranceTTL, MaxTime, NumFlows,
        NumLogins} \subseteq Nat
    /\ Window > 0 /\ EpochTimeout >= Window
    /\ AddressOf \in [Browsers -> Addresses]
    /\ Codes \intersect {Wrong, Passkey, Garbled} = {} /\ NoOne \notin Requests
    /\ IsFiniteSet(Requests) /\ Requests # {}
    /\ Budgets \subseteq [Bounded -> Nat]

Stages == {"idle", "password", "page", "turn", "rate", "verify", "failed",
           "refused", "passed", "lost", "admit", "blocked", "done", "save"}
Idle == [stage |-> "idle"]

TypeOK ==
    /\ now \in 0 .. MaxTime
    /\ DOMAIN rows \subseteq Keys /\ Range(rows) \subseteq Data
    /\ jar \in [Browsers -> Keys \union {NoKey}]
    /\ role \in BOOLEAN /\ factors \subseteq Factors /\ codes \subseteq Codes
    /\ epoch \in [Addresses -> [id : Nat, since : 0 .. MaxTime]]
    /\ \A x \in DOMAIN count : x \in Addresses \X Nat \X Groups /\ count[x] \in Nat
    /\ turn \in [Addresses -> Requests \union {NoOne}]
    /\ lock \in Requests \union {NoOne}
    /\ \A r \in Requests : /\ req[r].stage \in Stages
                           /\ req[r].stage # "idle" => req[r].copy \in Data
    /\ flows \in 0 .. NumFlows /\ admitted \in 0 .. NumLogins
    /\ left \in [Bounded -> Nat]

Init ==
    /\ now = 0 /\ rows = <<>> /\ jar = [b \in Browsers |-> NoKey]
    /\ role = TRUE /\ factors = Factors /\ codes = Codes
    /\ epoch = [a \in Addresses |-> [id |-> 0, since |-> 0]] /\ count = <<>>
    /\ turn = [a \in Addresses |-> NoOne] /\ lock = NoOne
    /\ req = [r \in Requests |-> Idle] /\ flows = 0 /\ admitted = 0 /\ left \in Budgets
    /\ wrong = [x \in Addresses \X Groups |-> 0] /\ logins = [c \in Codes |-> 0]
    /\ barred = {} /\ reopened = {}

HasPrimary == factors \intersect Primary # {}
HasWebauthn == "webauthn" \in factors
Operator == role /\ HasPrimary
Spend(x) == left[x] > 0 /\ left' = [left EXCEPT ![x] = @ - 1]
Put(f, k, v) == [x \in DOMAIN f \union {k} |-> IF x = k THEN v ELSE f[x]]
Without(f, k) == [x \in DOMAIN f \ {k} |-> f[x]]

-----------------------------------------------------------------------------
(* Sessions of requests *)

SessionOf(b) == IF jar[b] \in DOMAIN rows THEN rows[jar[b]] ELSE Blank
Cleared(d) == [d EXCEPT !.flow = NoFlow, !.since = 0]                 \* clear_pending_admin_login
ClearedAll(d) == [Cleared(d) EXCEPT !.assured = FALSE, !.at = 0]      \* clear_admin_mfa_state


\* abort_pending_admin_login; allauth's own counter, which it clears too, may always refuse.
Aborted(d) == ClearedAll(d)

\* _valid_timestamp
Recent(since, ttl) == now - since \in 0 .. ttl

\* get_pending_admin_login
PendingValid(d) == d.flow # NoFlow /\ Recent(d.since, PendingTTL) /\ Operator

\* is_admin_mfa_verified
Verified(d) == d.assured /\ Recent(d.at, AssuranceTTL)

\* admin_request_has_mfa_assurance
MayEnter(d) == d.user /\ Operator /\ Verified(d)

Address(r) == AddressOf[req[r].browser]
Move(r, stage) == req' = [req EXCEPT ![r].stage = stage]

\* A request ends: a changed session is still to be saved, if the cookie named one.
Leave(r, d) ==
    req' = [req EXCEPT ![r] = IF d = @.copy \/ @.key = NoKey THEN Idle
                              ELSE [@ EXCEPT !.stage = "save", !.copy = d]]

\* SessionMiddleware: the whole copy replaces the row; a row that is gone is not made again.
Save(r) ==
    /\ req[r].stage = "save"
    /\ rows' = [k \in DOMAIN rows |-> IF k = req[r].key THEN req[r].copy ELSE rows[k]]
    /\ req' = [req EXCEPT ![r] = Idle]
    /\ UNCHANGED <<now, operator, rates, bounds, aux, jar, lock>>

\* The session is loaded when the request arrives.
Arrival(b, stage) == [stage |-> stage, browser |-> b, key |-> jar[b], copy |-> SessionOf(b)]

-----------------------------------------------------------------------------
(* Password stage, pages, logout *)

ArrivePassword(r, b) ==
    /\ req[r].stage = "idle"
    /\ req' = [req EXCEPT ![r] = Arrival(b, "password")]
    /\ Spend("passwords")
    /\ UNCHANGED <<now, sessions, operator, rates, flows, admitted, aux, lock>>

\* Mutant: the new flow is added to the session the browser had.
Password_Kept(r) ==
    LET d == req[r].copy IN
    /\ req[r].stage = "password"
    /\ \/ /\ Operator /\ flows < NumFlows
          /\ flows' = flows + 1
          /\ rows' = Put(Without(rows, req[r].key), <<"flow", flows + 1>>,
                         [d EXCEPT !.flow = flows + 1, !.since = now])
          /\ jar' = [jar EXCEPT ![req[r].browser] = <<"flow", flows + 1>>]
          /\ req' = [req EXCEPT ![r] = Idle]
       \/ /\ Leave(r, ClearedAll(d)) /\ UNCHANGED <<rows, jar, flows>>
    /\ UNCHANGED <<now, operator, rates, aux, lock, admitted, left>>
\* JouTakAdminSite.login: an authenticated session is flushed, any other loses its MFA state;
\* the password of an operator starts a flow under a new session key.
Password(r) ==
    LET d == req[r].copy IN
    /\ req[r].stage = "password"
    /\ \/ /\ Operator /\ flows < NumFlows
          /\ flows' = flows + 1
          /\ rows' = Put(Without(rows, req[r].key), <<"flow", flows + 1>>,
                         Pending(flows + 1))
          /\ jar' = [jar EXCEPT ![req[r].browser] = <<"flow", flows + 1>>]
          /\ req' = [req EXCEPT ![r] = Idle]
       \/ /\ rows' = IF d.user THEN Without(rows, req[r].key) ELSE rows
          /\ IF d.user THEN req' = [req EXCEPT ![r] = Idle] ELSE Leave(r, ClearedAll(d))
          /\ UNCHANGED <<jar, flows>>
    /\ UNCHANGED <<now, operator, rates, aux, lock, admitted, left>>

\* Sessions a page was refused to, for want of the role or of a primary factor, to the end.
Refused(key) == key \in barred /\ \A r \in Requests :
                    req[r].stage = "save" => req[r].key # key

ArrivePage(r, b) ==
    /\ req[r].stage = "idle"
    /\ req' = [req EXCEPT ![r] = [stage |-> "page", browser |-> b, key |-> jar[b],
                                   copy |-> SessionOf(b), late |-> Refused(jar[b])]]
    /\ Spend("pages")
    /\ UNCHANGED <<now, sessions, operator, rates, flows, admitted, aux, lock>>

\* Mutant: the request is refused, the assurance is left in the session.
Unassured_Kept(d) == d
\* AdminMFAEnforcementMiddleware and has_permission: without the role the assurance is
\* forgotten, without a primary factor or an assurance the session ends.
Unassured(d) == [d EXCEPT !.assured = FALSE, !.at = 0]

Page(r) ==
    LET d == req[r].copy IN
    /\ req[r].stage = "page"
    /\ \/ /\ ~(d.user /\ role)
          /\ Leave(r, Unassured(d))
          /\ barred' = IF d.user THEN barred \union {req[r].key} ELSE barred
          /\ UNCHANGED <<rows, reopened>>
       \/ /\ d.user /\ role /\ ~(HasPrimary /\ Verified(d))
          /\ rows' = Without(rows, req[r].key)
          /\ req' = [req EXCEPT ![r] = Idle]
          /\ barred' = barred \union {req[r].key} /\ UNCHANGED reopened
       \/ /\ MayEnter(d)
          /\ reopened' = IF req[r].late THEN reopened \union {req[r].key} ELSE reopened
          /\ req' = [req EXCEPT ![r] = Idle]
          /\ UNCHANGED <<rows, barred>>
    /\ UNCHANGED <<now, operator, rates, bounds, jar, lock, wrong, logins>>

Logout(b) ==
    /\ jar[b] \in DOMAIN rows
    /\ rows' = Without(rows, jar[b]) /\ Spend("pages")
    /\ UNCHANGED <<now, operator, rates, flows, admitted, aux, jar, lock, req>>

-----------------------------------------------------------------------------
(* Second stage *)

Counter(r) == <<Address(r), req[r].epoch, req[r].group>>
CountOf(x) == IF x \in DOMAIN count THEN count[x] ELSE 0

\* _get_rate_epoch reads the epoch, or finds that a new one is to be put in the place of an
\* expired one, before it writes the row.
Attempt(b, group, proof) ==
    LET e == epoch[AddressOf[b]] IN
    [stage |-> "turn", browser |-> b, key |-> jar[b], copy |-> SessionOf(b),
     group |-> group, proof |-> proof,
     epoch |-> e.id, added |-> now - e.since > EpochTimeout, touched |-> 0, window |-> 0, n |-> 0]

\* mfa_verify_view, webauthn_options_view and webauthn_complete_view: no pending flow, no attempt.
ArriveAttempt(r, b, group, proof) ==
    LET d == SessionOf(b) IN
    /\ req[r].stage = "idle"
    /\ Spend(IF group = "options" THEN "options" ELSE "attempts")
    /\ group = "options" => HasWebauthn
    /\ req' = [req EXCEPT ![r] =
                  IF PendingValid(d) THEN Attempt(b, group, proof)
                  ELSE IF d = Cleared(d) THEN Idle
                  ELSE [Arrival(b, "save") EXCEPT !.copy = Cleared(d)]]
    /\ UNCHANGED <<now, sessions, operator, rates, flows, admitted, aux, lock>>

\* Mutant: the epoch is read without being refreshed.
HoldEpoch_ReadOnly(r) == UNCHANGED turn
\* The row of the epoch is held until the end of the transaction.
HoldEpoch(r) == turn[Address(r)] = NoOne /\ turn' = [turn EXCEPT ![Address(r)] = r]

TakeTurn(r) ==
    /\ req[r].stage = "turn"
    /\ HoldEpoch(r)
    /\ req' = [req EXCEPT ![r] = [@ EXCEPT !.stage = "rate", !.touched = now,
                  !.epoch = IF req[r].added THEN epoch[Address(r)].id + 1 ELSE req[r].epoch]]
    /\ UNCHANGED <<now, sessions, operator, bounds, aux, epoch, count, lock>>

\* What is no credential, or has been refused by the challenge middleware, is a failure that
\* only has to be counted: neither the counter nor allauth is asked first.
FailsAtOnce(proof) == proof = Garbled

\* _precheck_verification_rate does not count; begin_admin_webauthn counts every request.
Precheck(r) ==
    LET n == CountOf(Counter(r)) IN
    /\ req[r].stage = "rate"
    /\ req' = [req EXCEPT ![r] =
          IF @.group = "options"
          THEN [@ EXCEPT !.stage = IF n + 1 > OptionsLimit THEN "blocked" ELSE "done",
                         !.window = now \div Window, !.n = n + 1]
          ELSE [@ EXCEPT !.stage = IF FailsAtOnce(req[r].proof) THEN "failed"
                                   ELSE IF n > Limit THEN "blocked" ELSE "verify"]]
    /\ UNCHANGED <<now, sessions, operator, rates, bounds, aux, lock>>

FactorOf(proof) == CASE proof \in TotpCodes -> "totp"
                     [] proof \in RecoveryCodes -> "recovery"
                     [] OTHER -> "webauthn"
Right(proof) == proof \in codes \union {Passkey} /\ FactorOf(proof) \in factors

\* Mutant: the rows are read, not locked.
LockRows_Read(r) == UNCHANGED lock
\* verify_admin_code locks the rows of both kinds of code authenticators.
LockRows(r) ==
    IF req[r].group = "code" THEN lock = NoOne /\ lock' = r ELSE UNCHANGED lock

\* allauth's form accepts the proof, refuses it, or refuses to look at it.  A code it does not
\* look at is counted before the flow is blocked, a passkey is not.
Verify(r) ==
    /\ req[r].stage = "verify" /\ LockRows(r)
    /\ \/ Right(req[r].proof) /\ Move(r, "passed") /\ UNCHANGED wrong
       \/ /\ ~Right(req[r].proof) /\ Move(r, "failed")
          /\ wrong' = [wrong EXCEPT ![<<Address(r), req[r].group>>] = @ + 1]
       \/ /\ Move(r, IF req[r].group = "code" THEN "refused" ELSE "blocked")
          /\ UNCHANGED wrong
    /\ UNCHANGED <<now, sessions, operator, rates, bounds, logins, barred, reopened>>

\* _register_failed_verification
Register(r) ==
    LET n == CountOf(Counter(r)) + 1 IN
    /\ req[r].stage \in {"failed", "refused"}
    /\ req' = [req EXCEPT ![r] =
                  [@ EXCEPT !.stage = IF req[r].stage = "refused" \/ n > Limit THEN "blocked"
                                      ELSE "done",
                            !.window = now \div Window, !.n = n]]
    /\ UNCHANGED <<now, sessions, operator, rates, bounds, aux, lock>>

\* complete_admin_login, up to the new session.
MayComplete(r) == Operator /\ FactorOf(req[r].proof) \in factors
Complete(r) ==
    /\ req[r].stage = "passed"
    /\ Move(r, IF MayComplete(r) THEN "admit" ELSE "lost")
    /\ UNCHANGED <<now, sessions, operator, rates, bounds, aux, lock>>

\* What the transaction of an attempt wrote, seen from its end on: the code, the counter if its
\* window has not passed, the epoch.
Written(r, id, since) ==
    LET q == req[r] IN
    /\ codes' = IF q.stage \in {"admit", "lost"} THEN codes \ {q.proof} ELSE codes
    /\ count' = IF q.n > 0 /\ q.window = now \div Window THEN Put(count, Counter(r), q.n)
                ELSE count
    /\ epoch' = [epoch EXCEPT ![Address(r)] = [id |-> id, since |-> since]]
    /\ turn' = [turn EXCEPT ![Address(r)] = IF @ = r THEN NoOne ELSE @]
    /\ lock' = IF lock = r THEN NoOne ELSE lock

Forgiven(r) == [x \in DOMAIN wrong |-> IF x[1] = Address(r) THEN 0 ELSE wrong[x]]

EpochWritten(r) == IF req[r].added THEN req[r].epoch ELSE epoch[Address(r)].id

\* abort_pending_admin_login if the flow is blocked; options put their state in the session;
\* a factor or a role that is gone ends the flow.
EndAttempt(r) ==
    LET q == req[r] IN
    /\ q.stage \in {"done", "blocked", "lost"}
    /\ Written(r, EpochWritten(r), q.touched)
    /\ CASE q.stage \in {"blocked", "lost"} -> Leave(r, Aborted(q.copy))
         [] q.group = "options" -> Move(r, "save")
         [] OTHER -> Leave(r, q.copy)
    /\ wrong' = IF q.added THEN Forgiven(r) ELSE wrong
    /\ UNCHANGED <<now, sessions, bounds, role, factors, logins, barred, reopened>>

\* complete_admin_login: the counters of the address begin a new epoch, the session a new key.
Admit(r) ==
    LET q == req[r]
        key == <<"login", admitted + 1>>
    IN
    /\ q.stage = "admit" /\ admitted < NumLogins /\ admitted' = admitted + 1
    /\ Written(r, epoch[Address(r)].id + 1, now)
    /\ rows' = Put(Without(rows, q.key), key, Assured)
    /\ jar' = [jar EXCEPT ![q.browser] = key]
    /\ logins' = IF q.proof \in Codes THEN [logins EXCEPT ![q.proof] = @ + 1] ELSE logins
    /\ wrong' = Forgiven(r)
    /\ req' = [req EXCEPT ![r] = Idle]
    /\ UNCHANGED <<now, flows, left, role, factors, barred, reopened>>

-----------------------------------------------------------------------------
(* Factors, roles, time *)

\* The removal of a code authenticator waits for the lock of its row.
RemoveFactor(f) ==
    /\ f \in factors
    /\ f # "webauthn" => lock = NoOne
    /\ factors' = factors \ {f} /\ Spend("changes")
    /\ UNCHANGED <<now, sessions, role, codes, rates, lock, req, flows, admitted, aux>>

ChangeRole ==
    /\ role' = ~role /\ Spend("changes")
    /\ UNCHANGED <<now, sessions, factors, codes, rates, lock, req, flows, admitted, aux>>

\* Counters end with their window.
Tick ==
    /\ now < MaxTime /\ now' = now + 1 /\ Spend("ticks")
    /\ IF now' \div Window = now \div Window THEN UNCHANGED <<count, wrong>>
       ELSE count' = <<>> /\ wrong' = [x \in DOMAIN wrong |-> 0]
    /\ UNCHANGED <<sessions, operator, epoch, turn, lock, req, flows, admitted, logins,
                   barred, reopened>>

\* Nothing is in progress: only then may the system stand still.
Rest == /\ \A r \in Requests : req[r].stage = "idle"
        /\ UNCHANGED vars

Proofs(group) == CASE group = "code" -> Codes \union {Wrong}
                   [] group = "webauthn" -> {Passkey, Wrong, Garbled}
                   [] OTHER -> {NoOne}

Arrive(r, b) ==
    \/ ArrivePassword(r, b) \/ ArrivePage(r, b)
    \/ \E g \in Groups : \E p \in Proofs(g) : ArriveAttempt(r, b, g, p)

Step(r) ==
    \/ Password(r) \/ Page(r) \/ Save(r)
    \/ TakeTurn(r) \/ Precheck(r) \/ Verify(r) \/ Register(r) \/ Complete(r)
    \/ EndAttempt(r) \/ Admit(r)

Next ==
    \/ \E r \in Requests : Step(r) \/ \E b \in Browsers : Arrive(r, b)
    \/ \E b \in Browsers : Logout(b)
    \/ \E f \in Factors : RemoveFactor(f)
    \/ ChangeRole \/ Tick \/ Rest

Spec == Init /\ [][Next]_vars

-----------------------------------------------------------------------------
(* Properties *)

\* The request that holds the row of the epoch found it expired: it begins a new one.
Renewing(a) == turn[a] # NoOne /\ req[turn[a]].added

\* Requests that overlap, flows that are begun again and abandoned flows give no more wrong
\* attempts in a window than the limit and one per request in progress, until a login succeeds
\* or the epoch of the address, unused for its timeout, is replaced; the request that replaces
\* it may add one.  (It may be replaced by a request that found it expired while others, that
\* came in time, have gone on counting in it.)
GuessesBounded ==
    \A x \in DOMAIN wrong :
        wrong[x] <= Limit + Cardinality(Requests) + IF Renewing(x[1]) THEN 1 ELSE 0

\* A code logs in once, however many requests submit it at a time from however many places.
OneLoginPerCode == \A c \in Codes : logins[c] <= 1

\* No session, and no copy that is going to be saved, is in a flow and has a user or an
\* assurance; an assurance belongs to a user.
StagesApart ==
    \A d \in Range(rows) \union {req[r].copy : r \in {x \in Requests : req[x].stage = "save"}} :
        /\ d.flow # NoFlow => ~d.user /\ ~d.assured
        /\ d.assured => d.user

\* A session that was refused for want of the role or of a factor never shows a page again,
\* though the role comes back.
RefusedStaysOut == reopened = {}

\* A login by a code commits while its authenticator is still there.
CodeFactorHeld ==
    [][\A c \in Codes : logins'[c] > logins[c] => FactorOf(c) \in factors']_vars
=============================================================================

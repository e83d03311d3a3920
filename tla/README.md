# A TLA+ development of JouTakWeb

JouTakWeb is a Django backend (`src/backend`), a React frontend (`src/frontend`)
and operator scripts (`src/scripts`). This directory holds TLA+ models of its
core logic, TLC configurations that check them on small instances, and proofs
that TLAPS checks for every value of the constants.

Modelled are **who is logged in** - sessions, their revocation, the refresh
token pairs bound to them, and the maintenance that deletes their rows -, the
**one-use challenges** of the passkey ceremonies with the cache that keeps their
claims, the **two stages of an administrator's login**, the **feature flags** -
the console that rolls them out, their evaluation for a request, the migrations
that deploy them - and the **session layer of the browser client**.

## 1. The system

| Component | State | Operations | What is hard | What makes it correct |
|---|---|---|---|---|
| Session service (`accounts/services/sessions.py`, `token_strategy.py`, `core/models.py`) | `django_session`, allauth `UserSession`, `UserSessionMeta` | touch, list, revoke one / listed / all but current, assert allowed, look up | three tables and two credentials (header token, cookie) name "the session"; requests overlap | a revoked session never authenticates again; "all but current" ends the others and only the others |
| Auth service (`accounts/services/auth.py`, `api/router_auth.py`) | `UserSessionToken`, ninja_jwt `OutstandingToken` and `BlacklistedToken` | issue pair, refresh, logout, change password | rotation racing rotation, logout and revocation | a token is spent once; a pair of a revoked session is frozen; a pair nobody ended works |
| Account endpoints (`accounts/api/router.py`) | the user's rows | delete account, profile, avatar | deletion under running requests | nothing of the account survives |
| Auth maintenance (`core/management/commands`) | all the rows above | `clearsessions`, `cleanup_auth_data`, loop, `invalidate_legacy_auth_sessions` | five deletes in separate transactions between live requests; crash between them | deletes nothing that is still needed |
| Admin MFA (`accounts/services/admin_mfa.py`, `backend/admin_site.py`, `backend/middleware.py`) | pending login, assurance, rate epochs | login, verify, complete, abort, enforce | checks before locks, role changes in between | no admin page without a verified factor of the current user |
| WebAuthn challenges (`accounts/middleware.py`, `webauthn.py`) | challenge in the session, replay claims in a cache | options, completion | two completions of one ceremony; sessions saved as a whole from stale copies | completions as issued and in time, the first claim bars the others |
| Security cache (`backend/cache_backends.py`, `ratelimiting.py`) | bounded cache table | add, set, cull | capacity races, swallowed errors | never evicts live rows, fails closed |
| Feature flags: console (`featureflags/admin.py`, `admin_services.py`, `forms.py`) | definitions, rules, groups, history rows | create / start / stop rollout, raw rule form, deletions | locks of different rows, confirmations sent twice, checks before locks | no two overlapping rollouts, a stopped one stays stopped, one draft per confirmation |
| Feature flags: evaluation (`featureflags/services.py`, `registry.py`, `bff/services.py`) | overrides, sticky assignments, preview cookie | evaluate, preview | several queries without a common snapshot | a guarded variant is never given to who had not earned it; the documented order decides |
| Feature flags: deployments (migrations 0005 and 0006, `sync_feature_registry`) | keys, archived rows, history rows | migrate, roll back, sync | rounds of both directions with edits between them | keys stay unique; a rollback gives back what was there |
| Browser session client (`frontend/src/services/auth`, `hooks/useAuthProfile.js`, `AuthModal.jsx`) | tokens in `sessionStorage`, one refresh promise, the header's profile | request, rotate, refresh, login, logout | answers that arrive late | nobody is shown who is not logged in; a live session is not thrown away; every call settles |
| Account status, profile, personalization | profile fields | update, evaluate | field rules | - |
| BFF, observability, settings, pages, theme | - | - | - | - |
| Scripts (`scripts/migrate_postgres18.py`, ...) | volumes, dumps | migrate, check | failure between steps | - |

How they interact: a browser sends its allauth **session token** in
`X-Session-Token`, perhaps a **session cookie**, and a **refresh token** in a
cookie of its own. allauth's `x_session_token_auth` looks the token up through
`RevocableSessionTokenStrategy`; the router asserts that the session is allowed
and touches it; the service reads and writes the tables. Every request is one
transaction (`ATOMIC_REQUESTS`, READ COMMITTED). The maintenance process shares
nothing with the requests but the tables.

`PROJECT.json` lists every component with its status, and 40 hazards with the
lines where they bite.

## 2. Modules

| Module | Models |
|---|---|
| `SessionRows` | rows of `UserSessionMeta` and `UserSessionToken`, and the queries and updates the services run on them, as pure operators on sets of rows |
| `AuthSessions` | the state machine: requests, maintenance, operators, external code; its properties |
| `MCAuthSessions` | instances for TLC |
| `AuthSessionsProofs` | what the row operators do to every set of rows; the inductive invariant of sessions, tombstones, mappings and refresh tokens, one lemma per action; the theorems |
| `SecurityCache` | the rows of `FailClosedDatabaseCache`, as pure operators on a function from keys to expiry times |
| `OneUseChallenge` | abstract: what the challenge middleware promises |
| `WebAuthnChallenge` | the middleware, the views and the other requests of one session, over `SecurityCache` |
| `MCWebAuthnChallenge` | instances for TLC |
| `WebAuthnChallengeProofs` | `WebAuthnChallenge` implements `OneUseChallenge`; the overshoot of the cache, and what a browser completes |
| `AdminLogin` | password stage, second stage, rate epochs, assurance of one operator |
| `MCAdminLogin` | instances for TLC |
| `AdminLoginProofs` | what the locks of the codes and the keys of the sessions protect, and where wrong attempts are counted |
| `RolloutLifecycle` | abstract: what the rollout console promises |
| `FeatureRollout` | the requests of the console with their row locks |
| `MCFeatureRollout` | instances for TLC |
| `FeatureRolloutProofs` | `FeatureRollout` implements `RolloutLifecycle`, and its safety properties |
| `FlagEvaluation` | a request that evaluates its flags query by query, while operators edit them |
| `MCFlagEvaluation` | instances for TLC |
| `FlagEvaluationProofs` | what a request answers, whatever is edited meanwhile, and what it answers when nothing is |
| `FlagDeployments` | migrations 0005 and 0006 in both directions, the registry sync, edits between them |
| `MCFlagDeployments` | instances for TLC |
| `FlagDeploymentsProofs` | keys stay unique, and a rollback gives back what was there |
| `SessionClient` | tokens, calls, retries and header of one browser tab |
| `MCSessionClient` | instances for TLC |
| `SessionClientProofs` | who is shown in the header |
| `SessionKeptProofs` | which answers end a session |

Composition: `AuthSessions` is built on the operators of `SessionRows`,
`WebAuthnChallenge` on those of `SecurityCache`; two detailed modules are shown to
implement an abstract one. Where one component only needs another's outcome, it is a
choice of the model: a passkey is right or wrong in `AdminLogin` (its challenge is
`WebAuthnChallenge`), an operator's edit is one step in `FlagEvaluation` (its locks are
`FeatureRollout`), and the backend of `SessionClient` is a table of live, expired and
revoked tokens (`AuthSessions`).

### Sessions and pairs: `AuthSessions`

`AuthSessions` is about one account: every query of the services filters by the
user but the two revocation look-ups, which go by key and digest, and those are
never shared by two users.

**State.** `sessions`/`expire` are `django_session`; `userSessions` are
allauth's rows; `metas` are `UserSessionMeta` rows (a row whose `revoked_at` is
set is called a *tombstone*); `mappings` are `UserSessionToken` rows;
`outstanding`, `blacklisted` and `exp` are ninja_jwt's bookkeeping. `req[w]` is
the request a worker is running and what it was authenticated with; `cleanup` is
the maintenance process's position and start time. `spent` (tokens exchanged or
revoked) and `barred` (session keys whose own meta row was revoked) are history,
read by no action.

**Requests** take two steps. `Arrive`/`ArriveRefresh` is all that is checked
against what was committed before the handler takes its first lock;
the handler's action (`Logout`, `RevokeOthers`, `RefreshPair`, ...) is the
rest of the service call: it reads again what the code reads again, writes and
commits. In between, any other request may commit and any maintenance statement
may run. One atomic step for the part under locks is justified
by those locks: every handler that issues, rotates or ends the pairs of a
session first takes the row lock of its meta row, or of the mapping and then the
meta row (`select_for_update`, `update_or_create`), and holds it to its commit.
A request that fails, is refused, loses a deadlock or is killed leaves by
`Abort`; a refusal after a touch is `TouchOnly`, since ninja turns an `HttpError`
into a response inside the transaction and the touch is committed.

**Time.** The clock is discrete and longer than the 15 s throttle of `last_seen`,
so a touch always moves it. **Assumed:** no request lives longer than `RequestTimeout`, which
`Tick` does not pass. Nothing enforces it: gunicorn's `--timeout=60` (`Dockerfile`) is one on
the worker process, and with `--threads=2` a long request does not meet it. What the properties
need of it is `RetentionAssumption`, which in production leaves a request 16 days.

**External code** (allauth, Django, ninja_jwt) is modelled from how `src/` uses
it: `Login`, `StartCookie`, `SaveSession`, `Disable`, `Enable`, `SignRefresh`,
`NewSession`, and the authentication on top of `LookupSession`.

**Abstractions.** A digest is an injective function of the token, never equal to a key.
Random keys and token ids are never reused. User agents, addresses, reasons and
messages are left out. Access tokens are not modelled: they are
valid for their 15 minutes whatever happens. Rate limits appear as `Abort`. Of what
a password change asserts a second time, under the lock of its touch, only the locked row is
sure to be the same at the commit (`Reasserted`).

### Challenges and claims: `WebAuthnChallenge`

**State.** `session` is the row of one session, its key and what of its data
matters here: the challenge metadata, allauth's signed state (which challenge it
is for and whether it requires user verification), the middleware's random
binding, and who is pending or signed in. `issued` holds the metadata of each
challenge; the session refers to it by number, since challenge, nonce and
metadata are fresh together. `cache` is the replay cache: the rows of this session's
challenges and of all others. `req[w]` is a request in progress with the copy of
the session it has loaded. `passes` and `completed` are history.

**Steps.** One action is one statement or transaction of the code. An options request
is `OptionsArrive`, `ClearChallenge` (`process_view`), `Begin` (the view),
`StoreChallenge` (the response). A completion is `CompletionArrive`, `Consume`
(pop, save, age, binding), `ReserveClaim` and one of `PassClaim`, `RefuseClaim`,
`LoseClaim` with `VerifyClaim` (the transactions of `add`, then purpose, subject and
challenge), and `CompleteView`. `OtherArrive`/`OtherSave` are requests to any other
endpoint. A save is an UPDATE by key of the whole row from a copy
(`_persist_session`, `SessionMiddleware`), so it may undo what happened since the
load, and fails if the key is gone. A *browser* route works on one copy, loaded on
arrival and saved again after the response; an *app* route looks its session up anew
for each part (`_boundary_session`): `LookUp`. `OtherClaim` are the
completions of all other sessions.

**Time.** A clock with `Second` ticks a second, because the table keeps whole
seconds while ages are fractions. It may pass between any two steps of a request: a
completion may come as soon as its challenge is stored, and take any time from the check of
the age to the claim.

**The promise**, `OneUseChallenge`: a challenge is issued once; completions pass for its purpose
and subject, with an age in its lifetime; and its first claim bars all others for a lifetime
less a second. `claimed`, the date of the first claim, is history.

**Abstractions.** Client data is one choice: the credential signs a challenge of
this session that was given out, or none (`own = Null`: wrong
origin, wrong type, malformed). The clock does not go back, so `age < 0` has no
branch. `DatabaseCache.get` reads and deletes in one step. Failed
administrator completions also count towards a rate limit: those are the *Garbled*
attempts of `AdminLogin`. A key of the session is never reused.

### The administrator's login: `AdminLogin`

**State.** The `django_session` rows with what of them matters (pending flow and its
start, user, assurance and its time), the key each browser holds, the role, factors and
unused codes of the one operator, and the rate counters: the cached epoch of each address,
the counts per address, epoch and group, and who holds the row of the epoch.

**Steps.** Loading the session is one step (`ArrivePassword`, `ArrivePage`,
`ArriveAttempt`), each wait for a lock is one (`TakeTurn` for the epoch's row, which
`_get_rate_epoch` writes; `Verify` for the authenticator rows), so are the reading of the
counter (`Precheck`) and its writing (`Register`), the check of role and factors
(`Complete`) and the commit (`EndAttempt`, `Admit`). What the transaction wrote is seen from
its commit on. `Save` is `SessionMiddleware`'s, after the transaction, of the whole copy.
`Rest` is the stutter of a system with nothing in progress, so that a request that waits
for ever would be found as a deadlock.

**Abstractions.** allauth's own limiter may refuse any attempt. The windows of all counters
begin at the same times. Where a login returns to, the origin check and the host routing are
functions of the request alone and left out. `wrong`, `logins`, `barred` and `reopened` are
history.

### The rollout console: `FeatureRollout`

**State.** The rules, what `is_never_started_draft` reads of their histories (`past`), which
flags are in use, the groups, the row locks, and the request of each operator.

**Steps.** `PostCreate`, `PostStart`, `PostStop`, `PostEdit` are all that is read before the
first lock (the validated form, the candidate). `LockFlag` and `LockRule` are the
`SELECT ... FOR UPDATE`, in the order of each request: flag then rule for a start, rule then
flag for a stop. `CreateCheck`, `StartCheck`, `StopCheck` repeat the checks under the locks,
`SaveNew`, `SaveEnabled`, `SaveEdit` write and commit. `AbortDeadlocked` is PostgreSQL
ending a cycle of waiting requests. Rules and groups are deleted and flags archived in between.

**Abstractions.** Values, percentages and actors of a rule are not told apart. An operator
has every permission. Ids are never reused; a request that may insert begins only while an id
is left for it (`IdLeft`). `byHand` is auxiliary: the rules that a migration seeded or the
raw form saved, to which the console's promise does not extend.

`RolloutLifecycle` is the promise: draft, running, stopped, each once, no two running rollouts
of the console on one page of a flag. The refinement maps `row` and `past` to `life` and `scope`.

### Evaluation: `FlagEvaluation`

**State.** `db` is what is committed: flags, rules, overrides, groups and members, staff,
sticky assignments. `ev[b]` is the request of a browser with what it has loaded so far;
`cookie[b]` its preview cookie.

**Steps.** One query is one step: `Begin` (user, staff, preview), `LoadFlags`, `LoadRules`,
`LoadOverrides`, then for each flag `Decide`, `ReadSticky`, `TryRule` (membership),
`CheckPolicy` (the required group), `Persist`, and `Finish`, which commits. Operators edit
between any two (`Operate`), one edit a step. `seen` is auxiliary: the states committed during a
request. `Reference` is the order of evaluation that
`docs/feature-flags/admin.md` describes, as a minimum over ranks and not as a loop.

**Abstractions.** `BucketOf` is any function; values are compared by their canonical token; the
texts of the answers are left out. `ValidRegistry` is what the deployment refuses to start without.

### Deployments: `FlagDeployments`

Definitions and rules by primary key, with the key of an archived row taken apart into what
it is made of. `ResetForward`/`ResetReverse` are migration 0005, `ContactForward`/`ContactReverse`
0006 with the history rows it reads back, `Sync` is `sync_feature_registry` with and without
force; `EarlierRelease`, `AddRule`, `EditRule` and `DeleteRule` are what the release that is up
does in between. Each is one transaction. **Assumed:** one bootstrap at a time, as the manifests
run one backend, stopped before its successor starts; and no old image runs on a database that
was not rolled back with it. The testers' group that is got or created, other columns, history
rows nothing reads back and the dry run are left out. The edits leave alone what a
deployment owns (archived rows).

### The browser client: `SessionClient`

**State.** `tab` (stored tokens, refresh cookie, header profile, dialog), `calls[c]` (an async
function under way with its request), and the backend's view of each token.

**Steps.** JavaScript runs to completion between two awaits: a step is what one event runs.
`Serve...` are the backend's, `Lose` a failing request, `Deliver(c)` an answer with every
continuation it resumes: `SessionOk`, `SessionThrows`, `SessionRotated`, `SessionUnauthorized`
for `requestWithSession`, `RefreshSettles` for all who await the shared refresh, `AppOk`,
`AppPending`, `AppThrows` for `allauthAppRequest`. The user visits, logs in and out, opens and
closes the dialog, reloads.

**Abstractions.** One tab. The backend is external; a token replaced in an answer is what the
client is written for although this backend never does it, so it has a budget of its own
(`MaxRotations`). Signup, passkey login, password change, account deletion and the one-shot
migration from `localStorage` are left out.

Definitions marked *Mutant* are not part of the model: each is one plausible bug
in the definition below it, and TLC finds the property named in `PROJECT.json`
violated with it.

## 3. What is checked

| Run | Bounds | Shows |
|---|---|---|
| `race` (`AuthRace.cfg`) | 2 workers (symmetric), 2 tokens, 1 cookie, 2 refresh tokens, frozen clock | every overlap of two requests: `BarredStaysOut`, `SpentTokensUnmapped`, `BarredPairsFrozen`, `OthersEnded`, `UnmixedCallerKept`, `TouchedLogoutEnds`, `TypeOK` |
| `time` (`AuthTime.cfg`) | 1 worker, 1 token, 1 cookie, clock to 4, session lifetime 1, token lifetime 2, retention 2 and 0 | expiry and maintenance between any two requests, account deletion, deactivation, the cut-over: `BarredStaysOut`, `SpentTokensBlacklisted`, `SpentTokensUnmapped`, `LivePairUsable`, `CleanupKeepsLivePairs` |
| `ceremony_race` (`CeremonyRace.cfg`) | browser, 2 workers (symmetric), 1 ceremony of either of 2 purposes (login, second factor), 2 subjects, 2 session keys, cache of 1 row with 2 other sessions, frozen clock | two requests over stale copies, and races for the last row: `PassesAsIssued`, `CompletedAsIssued`, `BoundedOvershoot` |
| `ceremony_time` (`CeremonyTime.cfg`) | app, 2 workers (symmetric), 1 login without a password, cache of 1 row with 1 other session, clock to 4 with 2 ticks a second, TTL 2 | expiry, rounding, stalled completions, the sweep of a full cache, and states saved from stale copies: `PassesAsIssued`, `LiveClaimsKept`, `NeverHalfRequired`, `TypeOK` |
| `admin_login` (`AdminLogin.cfg`) | 2 requests (symmetric), 2 browsers at 2 addresses, limits of 1, windows of 1, clock to 2, 4 budgets (below) | `GuessesBounded`, `OneLoginPerCode`, `StagesApart`, `RefusedStaysOut`, `CodeFactorHeld`, `TypeOK`, no deadlock |
| `rollouts` (`Rollouts.cfg`) | 2 operators, 2 rules, 1 flag, forms for one page and for all | every overlap of two requests with deletions and archiving: `NoTwinDrafts`, `ImplementsLifecycle`, `LaunchesAreCurrent`, `RequestsEnd` |
| `evaluation` (`Evaluation.cfg`) | 2 browsers, 3 flags (guarded, public, sticky), every pair of rule shapes with nothing changing, 2 edits under 1 request, 1 edit under 2 requests | `GuardedEarned`, `QuietAnswers`, `StickyKept` |
| `flag_deployments` (`FlagDeployments.cfg`) | 1 canonical flag, 6 definitions and 4 rules ever, 2 edits | several rounds of the migrations: `UniqueKeys`, `FlagsRestored`, `ContactRestored` |
| `client_session` (`ClientSession.cfg`) | 3 calls (symmetric), 2 sessions, 4 user actions, 1 session ended elsewhere, nothing lost | answers in any order: `ShownIsLoggedIn`, `ShownIsStored`, `LiveSessionKept`, no deadlock |
| `client_retries` (`ClientRetries.cfg`) | 2 calls, 2 sessions, 2 user actions, both sessions ended elsewhere, 1 loss, 1 replaced token, fair | `CallsEnd`, `LoadingEnds`, no deadlock |
| `seeded_restart`, `torn_answers` | | findings, below |

Why the bounds are enough.

- *Sessions.* The races are between two
  transactions over one session, and a third session and a cookie are there to be
  confused with it; two refresh tokens are a pair and its rotation; four ticks
  are a session's lifetime, its retention and one tick past both, with the
  maintenance cycle stopped at any statement.
- *Challenges.* A challenge is at risk from another
  request that holds a copy from before it was stored or popped, so two workers
  have every overlap of two, options requests that clear it included (one past the
  last ceremony stops before its view begins another); two subjects are a pending
  login and the one that replaces it, and more than one ceremony is left to the proofs. The
  clock of `ceremony_time` reaches a second pass: two completions find the challenge at 1, one
  claims and passes, the other stalls until that claim has expired; one that comes at 4 is
  too old. A second of two ticks
  makes rounding take half a second away. Three keys for a cache of one row, in
  `ceremony_race`, make every race for the last row. Administrators' ceremonies are those of
  pending logins with another key in the session, and are not run on their own.
- *Administrators.* The limit of 1 makes the second wrong attempt the refused one, and two
  requests from two addresses pass every check of the other. The budgets split what would be
  one large state space by question: 4 attempts with two ticks (guesses across a window and an
  expired epoch), 2 attempts in two flows with a change of role or factor (codes), pages with
  changes and time (refusals), options requests.
- *Rollouts.* Two rules on one flag are what can overlap, two operators what can
  deadlock, and one of them may be a retry of the other.
- *Evaluation.* One request sees at most what two edits leave between its queries, which tear a
  rule from its override or a group from its members; the race of two assignments takes two
  requests and one edit. With nothing changing, two rules of any two shapes meet in every order.
  One user's browser carries the anonymous id that a list names, the other's does not.
- *Deployments.* Six definitions allow an archived row to be named back while another one has
  taken its key, which is where keys could collide; two edits make and switch a flag of an
  earlier release.
- *Client.* Three calls are two that fail together and a login or logout between them; the
  second session is whoever logs in next.

**Deadlock** is not checked where keys, tokens, ceremonies, ids or time are budgets that a
behaviour uses up (`race`, `time`, the ceremonies, `rollouts`, `evaluation`,
`flag_deployments`). It is in `admin_login`, where `Rest` is only for a system with nothing in
progress, and in the runs of the client. Requests of the console that wait for each other are the
subject of `RequestsEnd`.

**Fairness.** `FeatureRollout`'s `FairSpec` has strong fairness of `Handle(p)`, since
PostgreSQL grants a row lock to those who wait for it in turn, and weak fairness of
`AbortDeadlocked`, since it looks for cycles after `deadlock_timeout`; nothing makes
operators send requests or delete rules. `SessionClient`'s `FairSpec` has weak fairness of
`Handle(c)` and `Deliver(c)`: a browser reports every request as answered or failed and then
runs what awaits it; nothing makes users act. Sessions, challenges and logins have no liveness
properties: nothing in these parts of the code promises that a request is answered, and
what maintenance eventually deletes is not observable through the services.

Two properties are refinements: `PassesAsIssued` (`WebAuthnChallenge` implements
`OneUseChallenge`, whose four variables it has under the same names) and
`ImplementsLifecycle` (`FeatureRollout` implements `RolloutLifecycle`).

Every property has a mutant in `PROJECT.json`: a plausible bug in a definition of the model
with which TLC finds the property violated.

### Where the code and its words differ

Each of these runs checks one property that a comment states, and TLC finds it violated:

| Run | The repository says | The code does |
|---|---|---|
| `seeded_restart` | `admin_services.py:44`: "Return true only for rules created disabled and never activated." | a rule that a migration has seeded has no history row, so the one that stopping it writes is its first and has it disabled: the stopped rule is taken for a draft and can be started again |
| `torn_answers` | `bff/services.py:76`: "Evaluate payload and viewer flags in one consistent DB snapshot." | definitions, rules, overrides, members and assignments are separate queries under READ COMMITTED. A flag is off by default, a rule turns it on and an override above the rule holds it off: with the rules loaded, the rule stopped, the override disabled and then the overrides loaded, the answer is "on", and in each of the three states of the database the flag is off |

### What else the models show

These are limits of the properties, each met while checking them:

- With a cookie of another session beside the token, "current session" is the cookie's: a
  logout revokes that one, a bulk revocation ends the caller's own token, and a pair is
  bound to a row with another token's digest. `TouchedLogoutEnds` and `UnmixedCallerKept` state the part
  that holds when cookie and token are never mixed.
- An expired or flushed session still refreshes, as long as its row is not revoked.
- `cleanup_auth_data` deletes a tombstone early if the row was last seen before the cutoff
  and its django session is gone. `BarredStaysOut` holds all the same; `BarredPairsFrozen`
  is about standing tombstones.
- A challenge may pass twice. Its claim lives one TTL from itself, rounded down to a second, and no
  line limits the time from the check of the age to the claim: a completion that stalls there longer
  than the first claim came after the issue, less a second, finds the claim gone and
  passes (a state that `ceremony_time` reaches). The comment at `middleware.py:438` ("closes
  the concurrent stale-session race") and the docstring ("one-use challenge bindings") hold while the first claim
  lives; that, and no more, is `PassesAsIssued`. In production the stall takes
  milliseconds and the gesture of a person seconds, but that is not in the code.
- `CompletedAsIssued` is about browsers, and so is the verification of what the view
  completes (`LoginVerified`, a theorem). In an app's session another request's save may
  put the state from before back between the middleware and the view. `NeverHalfRequired`
  is what the row promises to apps as well: the challenge is never in it beside a state
  that does not require user verification.
- `LiveClaimsKept` leaves out the claim that has replaced an expired row which a `get` has read and is
  about to delete: that delete takes the new row.
- No entry of the registry is sticky today, though most policies would allow it (`registry.py`), and
  definitions are read-only in the console: `StickyKept` is about the first one that is.
- `GuessesBounded` has one attempt per request beyond the limit, lets the count begin anew when an
  epoch that expired unused is replaced, and has one attempt more while it is being replaced: a
  request that finds the epoch expired may be waiting while the others, current and stale ones,
  go on counting (an earlier form without that one held with two requests and not with three).
- In the client, a late 401 about a replaced session, or a refresh that fails or was sent with
  another session's cookie, ends a session that was logged in meanwhile: the exceptions of
  `LiveSessionKept`. A late refresh writes an access token into a storage that a logout has cleared.
- A sticky assignment may be replaced by a request that overlaps the first one, or that has
  read its flag before it became sticky (`StickyKept`). One of a variant that the registry no longer
  has is replaced by the next request, with nothing changed under it; the property is about
  assignments of valid variants. (An earlier form of it without that condition passed in TLC,
  with no such assignment in its initial states; the proof failed there.)

## 4. What is proved

All theorems are for every value of the constants that satisfies the named assumptions.

### Sessions and pairs

In `AuthSessionsProofs`, for every number of keys, tokens, cookies, workers and refresh tokens and
every lifetime, from
`NumKeysAssumption`, `KeysAssumption`, `TimesAssumption` and
`RetentionAssumption` (`SessionRetention >= SessionTTL + RequestTimeout`; production
has 30 days against 14 days, and so allows a request 16 days):

- `RevocationIsFinal`: `Spec => []BarredStaysOut`. The property alone is not
  inductive: after `cleanup_auth_data` has deleted a tombstone nothing it
  mentions keeps the session out. The strengthening (`SessionInv`, in particular
  `BarredEnd`) says that each barred session is gone, or has a
  tombstone that outlives both its `expire_date` and every request in progress
  that could still extend it. Each action is shown to keep it: most through one
  lemma about the shape of a handler's step (`SessionStepInv`), the clock, the save
  of a session and the deletions one by one. `PurgeRevokedInv` is where the
  retention is needed.
- `TokensAreSpentOnce`: `Spec => []SpentTokensUnmapped`, and `TokensStayBlacklisted`:
  `Spec => []SpentTokensBlacklisted`.
  They need that an id is on one mapping only (`OneMapping`) and that a mapping's
  `expires_at` is its token's `exp` (`ExpiryMirrored`).
- `LivePairsStayUsable` and `CleanupSparesLivePairs`: maintenance and the
  cut-over never leave a live pair without its rows.
- `TypeCorrect` and `Invariance` (the invariant itself).
- `OthersAreEnded`, `TouchedTokenEnds` and `UnmixedCallersStay`: `Spec => OthersEnded`,
  `Spec => TouchedLogoutEnds`, `Spec => UnmixedCallerKept`. They rest on what the tables say
  of each other: every session that has been authenticated has its row (`TokensListed`), a
  row that a token finds by its digest is the one its revocation goes to.
- `RevokedPairsFreeze`: `Spec /\ [][~PurgesMetas]_vars => BarredPairsFrozen`. Without the second
  conjunct it is false: once `cleanup_auth_data` has deleted a tombstone early, a request
  that was authenticated before the revocation re-creates the row unrevoked, and the pair it
  issues can be exchanged. The theorem is about behaviours in which no tombstone is
  deleted, which is every behaviour between two maintenance cycles; in the `race` run, too, they
  stand.

### Challenges and claims

In `WebAuthnChallengeProofs`, for every number of requests, ceremonies, subjects and rows, every
lifetime and any time between two steps, from `CacheAssumption` and `BoundsAssumption`:

- `Refinement`: `Spec => PassesAsIssued`. `StoreChallenge` is `Issue`, `PassClaim` is `Pass`,
  `RefuseClaim` is `Refuse`, `Tick` is `Tick`, all else stutters. That a later claim comes after the
  end of the first one needs three parts of the invariant: as long as the first claim of
  a challenge has not lapsed its row is in the table with the expiry of its date
  (`ClaimKept`), no row is there without a claim (`RowsClaimed`), and a row that a get has
  found overdue, and may delete late, is one whose first claim has lapsed (`RequestOK`).
- `OnceUnlessStalled`: `Spec => []RepeatsStalled`, how a challenge may pass a second time: only
  by a completion that took longer, from the check of its age to its claim, than the first
  claim came after the issue, less a second (`PassesLate`).
- `ClaimsLive`: `Spec => LiveClaimsKept`, for every capacity.
- `OvershootBounded`: `Spec => []BoundedOvershoot`. The strengthening (`Room`) counts what is stored
  together with the requests that have passed the check and not yet inserted: each
  such request was let in while there was room, so the sum exceeds the budget by at most a
  row per request, and by at most a row per challenge.
- `CompletedAsBound` and `LoginsVerified`: `CompletedAsIssued` and `LoginVerified`, for browsers
  (`Client = "browser"`). The strengthening (`Safe`) says that wherever a copy of the session has the state of a
  login challenge, that state requires user verification (`VerifiedState`), and that a request
  about to complete matches the metadata of its challenge (`Matching`). It rests on two facts: data in a session only flows from
  older copies of it (`From`), and the state of a challenge that is about to be stored is
  shared with no other copy (`Unshared`).
- `Invariance` and `TypeCorrect`. The invariant also says that two options
  requests never hold one ceremony (`OwnCeremony`) and that a challenge in any copy of
  the session has its metadata (`Held`), without which the single writer of
  `issued` would not be one.

### The administrator's login

In `AdminLoginProofs`, for any number of requests, browsers, addresses, codes, flows and logins,
from `LoginAssumption`: `TypeCorrect`, `OneLogin` (`OneLoginPerCode`), `CodeFactor`
(`CodeFactorHeld`), `StagesNeverMix` (`StagesApart`) and `RefusedStays` (`RefusedStaysOut`).
The invariant has three parts, each preserved by itself once the shapes are known:

- `Typed`: the shape of every request at every stage, and that a code is only ever the proof of
  the group `code`, whose attempts take the locks;
- `CodesHeld`: from the acceptance of a code to the commit the request holds the rows, the code is
  not used up and its factor is there; a code that is left has not logged in. Two accepted codes
  would need the rows twice (`OneHolder`);
- `SessionsKept`: a key is made once (`FreshKeys`), so a row without an assurance never gets one:
  what a request saves has no assurance, and a login writes under a new key. A session that
  was refused either has lost its assurance or has a save in progress that takes it away.

`GuessesStayBounded`: `Spec => []GuessesBounded`. `GuessesCounted` says where each wrong attempt of
a window is: in the counter of the address's epoch, owed by the request that holds the row of
the epoch and has yet to write it, or with one of the requests that are behind, which still
count under an epoch that has been replaced. Those behind are fewer than all requests, since
the one that replaced the epoch has ended; hence the finite set of requests in
`LoginAssumption`. A counter passes its limit only by those who read it before it was full.

### Rollouts

In `FeatureRolloutProofs`, for every number of operators, rules, flags, pages and groups, from
`RolloutAssumption`:

- `Refinement`: `Spec => ImplementsLifecycle`. The saves map to `Draft`, `Launch`, `Start`, `Stop`,
  the raw form and deletions to changes by hand, all else stutters.
- `NoTwins`: `Spec => []NoTwinDrafts`; `Launches`: `Spec => LaunchesAreCurrent`.
- `InvHolds`: the invariant. What a request has checked under its locks must still hold when it
  saves (`ChecksHold`), which is inductive only with who holds which lock at which stage
  and with the truth of the histories.

### Evaluation of flags

In `FlagEvaluationProofs`, for any number of browsers, subjects, flags, rules, groups and pages, any
buckets and any edits, from `EvaluationAssumption`: the registry is one that `validate_registry`
accepts, rule ids are `1..n`, and the tables, the previews and the keys of an endpoint have their
types. (That the keys of an endpoint are a sequence of flags is assumed because the library's
`SelectSeq` is recursive; TLC evaluates it, and the other assumptions, for the run's constants.)

- `GuardedIsEarned`: `GuardedPolicies => (Spec => []GuardedEarned)`. `GuardedPolicies`: a flag with a
  guarded variant names a required group and allows no sticky assignments. Both entries of the registry
  that have one do (`registry.py`, lines 52 to 77); `validate_registry` does not ask for it, and
  without it the property is false, since an assignment may outlive what earned it. The
  strengthening (`Truthful`) says of each request that every rule it has loaded, every group it
  remembers and the staff status of its user was committed at some time since it began, and that the
  rule whose policy is being checked is enabled and for its page.
- `QuietIsReference`: `Spec => []QuietAnswers`, and `StickyStays`: `Spec => StickyKept`. Both need
  `Steady`: as long as one state only was seen, what the request has read is that state; its flag
  is decided by neither preview nor override nor assignment once it is at the rules; each rule
  it has passed over does not apply (`PassedOver`); and what it is about to assign has no valid
  assignment yet. That the loop then computes the reference is the content of the lemmas
  `PreviewDecides` to `DefaultDecides`, one for each way a flag is decided: ranks keep the order of
  priority and id (`RankOrder`, `RankBounds`), and the least rank decides (`LowestRank`).
- Each action has a lemma that says what it leaves of a request (`DecideShape`, `TryShape`, ...), on
  which the type invariant (`Typed`), `Truthful` and `Steady` all rest.

### Deployments

In `FlagDeploymentsProofs`, for any number of definitions, rules and edits, from `BoundsAssumption`:
`KeysStayUnique` (`UniqueKeys`), `FlagsComeBack` (`FlagsRestored`), `ContactComesBack`
(`ContactRestored`) and `Invariance`. The invariant says that two rows in use never have one
key, nor two archived rows one key they were archived under, and that the key of an archived row
names its primary key (`Keyed`); that while 0005 is applied every row it put away is still there
as it left it (`KeptAway`); and that the history rows 0006 reads back are those it wrote
(`ContactFound`, `Noted`).

### Client

In `SessionClientProofs`, for any number of calls, sessions, losses and rotations:

- `ShownLoggedIn`: `Spec => []ShownIsLoggedIn`, and `TypeCorrect`. The invariant is the
  two together; one lemma says what each kind of answer does to the tab.
- `StoredIsShown`: `Spec => []ShownIsStored`. As long as nothing is lost or replaced (`Clean`), an
  answer tells the truth about the token its request carried (`Past`), and a load that the hook
  still waits for carries the stored token, unless the stored session is dead or a login is
  about to announce it (`Told`).
- `SessionKept` (in `SessionKeptProofs`): `Spec => LiveSessionKept`. Whatever is lost, a refusal is
  about a dead token (`Truthful`). As long as nothing is lost, the refresh cookie of a session is in one place
  (`Tickets`): its first pair is asked for by one call and comes while it has none (`Grants`,
  `Pairs`), one call at a time exchanges it (`Owners`), and the tab holds the pair in force unless the
  successor is on its way (`TabCurrent`). So the backend refuses the cookie of the stored session
  only if that session was revoked.

### Only model-checked

The liveness properties (`RequestsEnd`, `CallsEnd`, `LoadingEnds`), the absence of deadlock and everything
else about fairness and `ENABLED`, which are out of the prover's reach, as are theorems by induction
over data. Every other property of a passing run is a theorem; those of `seeded_restart` and
`torn_answers` are refuted.

## 5. Not modelled

- *Rows for display* (`_compose_row` to `_merge_rows`), user agents, addresses: reads.
- *Refresh, statement by statement.* `refresh_pair` locks the mapping, then the meta row; logout
  and revocation the other way round. PostgreSQL aborts one of the two, which rolls back: the
  `Abort` of `AuthSessions`. The handlers are atomic under their locks there.
- *Account status, profile, personalization*: validation of fields and a pure function of the
  profile, with nothing to interleave.
- *OAuth and MFA adapters, e-mail addresses*: thin adapters over allauth; re-encryption of
  secrets is idempotent and runs under row locks in one transaction.
- *Cache rows of the rate limits* (`set`, table rows): `AdminLogin` counts instead.
- *Two bootstraps at the same time*, and an old image on a database that was not rolled back:
  assumed away, as said under `FlagDeployments`. Migrations 0001 to 0004 are schema only or
  superseded by 0005.
- *OpenFeature provider*: no endpoint calls it. *Permissions and lists of the admin*: an operator is
  assumed to have the permissions.
- *BFF documents*: texts; which flags they ask for is in `FlagEvaluation`.
- *Client*: signup, passkey login, the dialog that the `/login` route opens, password change, account
  deletion, migration from `localStorage`, other tabs.
- *Observability, settings, URL routing*: configuration; the settings that bound the models are their
  constants.
- *Database upgrade and smoke scripts*: a linear sequence of docker and `pg_dump` commands that never
  writes to the source volume and keeps the target on failure.
- *Pages, theme and components*: user interface.

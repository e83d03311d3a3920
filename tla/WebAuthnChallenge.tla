------------------------- MODULE WebAuthnChallenge -------------------------
(***************************************************************************)
(* WebAuthnOriginValidationMiddleware: one-use challenges for the passkey  *)
(* ceremonies of one session.                                              *)
(*                                                                         *)
(* An options request has allauth begin a ceremony, and stores the         *)
(* metadata of its challenge in the session.  A completion pops the        *)
(* metadata, saves the session, claims the nonce in the replay cache and   *)
(* compares; only then its view verifies the credential.                   *)
(*                                                                         *)
(* A session is one row that is always written as a whole, from the copy   *)
(* that a request loaded.  Requests overlap: each step below is one        *)
(* statement or transaction, and a save may undo what another request has  *)
(* done since the load.  A save fails if the row is gone (it is an UPDATE  *)
(* by key).  A browser route works on request.session, loaded once, which  *)
(* SessionMiddleware saves again after the response; an app route looks    *)
(* its session up anew in the middleware, in the view and after it.        *)
(*                                                                         *)
(* A ceremony is a number: its challenge, its nonce and its metadata are   *)
(* fresh random values.  The metadata is kept in issued; what the session  *)
(* holds is the number.                                                    *)
(***************************************************************************)
EXTENDS SecurityCache, Sequences

CONSTANTS
    Workers,         \* requests in progress at the same time
    Client,          \* "browser" or "app"
    Purposes,        \* the ceremonies that the client asks for
    NumSubjects,     \* bound on users and pending logins
    NumCeremonies,   \* bound on ceremonies
    MaxKey,          \* bound on session keys
    MaxTime,         \* bound on the clock
    TTL              \* WEBAUTHN_CHALLENGE_TTL_SECONDS, in ticks

AllPurposes == {"account.login", "account.authenticate", "account.reauthenticate",
                "account.register", "account.signup", "admin.authenticate"}

Null == 0
Ceremonies == 1 .. NumCeremonies
Subjects == 1 .. NumSubjects
Others == CacheKeys \ Ceremonies    \* the claims of all other sessions

ASSUME BoundsAssumption ==
    /\ {NumSubjects, NumCeremonies, MaxKey, MaxTime} \subseteq Nat
    /\ TTL \in Nat /\ TTL >= Second
    /\ Client \in {"browser", "app"} /\ Purposes \subseteq AllPurposes
    /\ Ceremonies \subseteq CacheKeys /\ IsFiniteSet(Workers)

VARIABLES
    now,         \* the clock, from 1
    session,     \* the row of the session: its key and its data
    begun,       \* how many ceremonies allauth has begun
    issued,      \* the metadata of each challenge, at = Null before it is stored
    cache,       \* the table of the replay cache
    req,         \* the request in progress of each worker
    claimed,     \* history: the date of the first claim of each challenge
    passes,      \* history: the completions that the middleware let pass
    completed    \* history: the ceremonies that a view completed

vars == <<now, session, begun, issued, cache, req, claimed, passes, completed>>

\* Where the subject of a ceremony is kept in the session.
Kinds == {"admin", "pending", "authenticated"}
SubjectKind(purpose) ==
    CASE purpose = "admin.authenticate" -> "admin"
      [] purpose \in {"account.authenticate", "account.signup"} -> "pending"
      [] OTHER -> "authenticated"

\* challenge: the metadata stored; state and verified: the challenge and the
\* user_verification requirement of allauth's signed state; binding: the random value that
\* the middleware gave the session, named after the ceremony it was drawn for.
Data == [challenge : Ceremonies \cup {Null}, state : Ceremonies \cup {Null},
         verified : BOOLEAN, binding : Ceremonies \cup {Null},
         who : [Kinds -> Subjects \cup {Null}]]
Empty == [challenge |-> Null, state |-> Null, verified |-> FALSE, binding |-> Null,
          who |-> [k \in Kinds |-> Null]]

Metadata == [purpose : AllPurposes \cup {"none"}, subject : Subjects \cup {Null},
             binding : Ceremonies \cup {Null}, at : Nat]
NotIssued == [purpose |-> "none", subject |-> Null, binding |-> Null, at |-> Null]

Claiming == {"claim", "add"}
Losing == {"verify", "delete"}
Steps == {"idle", "clear", "view", "store", "consume", "finish", "respond", "save"}
             \cup Claiming \cup Losing

\* own: the ceremony that an options request began, or whose challenge a completion's
\* credential signs; key and copy: the session as loaded; meta: the metadata popped;
\* checked: when its age was checked; since: when the second transaction of add began.
Requests == [at : Steps, purpose : AllPurposes \cup {"none"}, own : Ceremonies \cup {Null},
             key : Nat, copy : Data, loaded : BOOLEAN, meta : Ceremonies \cup {Null},
             checked : Nat, since : Nat]
Idle == [at |-> "idle", purpose |-> "none", own |-> Null, key |-> Null, copy |-> Empty,
         loaded |-> FALSE, meta |-> Null, checked |-> Null, since |-> Null]

\* checked: when the age was checked; at: when the completion passed.
Passes == [purpose : AllPurposes \cup {"none"}, subject : Subjects \cup {Null},
           checked : Nat, at : Nat]
Completions == [ceremony : Ceremonies, purpose : AllPurposes \cup {"none"},
                subject : Subjects \cup {Null}, verified : BOOLEAN]

TypeOK ==
    /\ now \in Nat \ {0}
    /\ session \in [key : Nat, data : Data]
    /\ begun \in 0 .. NumCeremonies
    /\ issued \in [Ceremonies -> Metadata]
    /\ cache \in Tables
    /\ req \in [Workers -> Requests]
    /\ \A w \in Workers :
          /\ req[w].at \in Claiming \cup Losing => req[w].meta # Null
          /\ req[w].at \in Claiming => req[w].checked - issued[req[w].meta].at <= TTL
    /\ claimed \in [Ceremonies -> Nat]
    /\ passes \in [Ceremonies -> Seq(Passes)]
    /\ completed \subseteq Completions

Init ==
    /\ now = 1
    /\ session = [key |-> 1, data |-> Empty]
    /\ begun = 0
    /\ issued = [c \in Ceremonies |-> NotIssued]
    /\ cache = [k \in CacheKeys |-> NoRow]
    /\ req = [w \in Workers |-> Idle]
    /\ claimed = [c \in Ceremonies |-> Null]
    /\ passes = [c \in Ceremonies |-> <<>>]
    /\ completed = {}

----------------------------------------------------------------------------
(* Shared parts of the handlers. *)

\* _subject_binding: nothing for a discoverable login.
Subject(data, purpose) ==
    IF purpose = "account.login" THEN Null ELSE data.who[SubjectKind(purpose)]

Arrive(w, at, purpose, own) ==
    /\ req[w].at = "idle"
    /\ req' = [req EXCEPT ![w] = [at |-> at, purpose |-> purpose, own |-> own,
                                  key |-> session.key, copy |-> session.data, loaded |-> TRUE,
                                  meta |-> Null, checked |-> Null, since |-> Null]]

Goto(w, at) == req' = [req EXCEPT ![w].at = at]
Leave(w) == req' = [req EXCEPT ![w] = Idle]

\* An app request looks the session up again for its next part, a browser's keeps its copy.
Kept(data) == IF Client = "browser" THEN data ELSE Empty
ContinueWith(w, at, data, meta) ==
    req' = [req EXCEPT ![w] = [Idle EXCEPT !.at = at, !.purpose = req[w].purpose,
                                  !.own = req[w].own, !.key = req[w].key, !.copy = Kept(data),
                                  !.loaded = (Client = "browser"), !.meta = meta]]
Continue(w, at, data) == ContinueWith(w, at, data, Null)

\* A browser's session is saved once more after the response, if it was modified.
Respond(w, data) ==
    IF Client = "browser" THEN Continue(w, "respond", data) ELSE Leave(w)

\* SessionStore.save(): an UPDATE of the row by its key.
RowExists(w) == req[w].key = session.key
Save(data) == session' = [session EXCEPT !.data = data]

Ready(w, at) == req[w].at = at /\ req[w].loaded

\* The session of an app route is looked up again; it may be gone.
LookUp(w) ==
    /\ req[w].at \in {"view", "store", "finish"} /\ ~req[w].loaded
    /\ IF RowExists(w)
         THEN req' = [req EXCEPT ![w].copy = session.data, ![w].loaded = TRUE]
         ELSE Leave(w)
    /\ UNCHANGED <<now, session, begun, issued, cache, claimed, passes, completed>>

----------------------------------------------------------------------------
(* Options requests. *)

OptionsArrive(w) ==
    /\ \E purpose \in Purposes : Arrive(w, "clear", purpose, Null)
    /\ UNCHANGED <<now, session, begun, issued, cache, claimed, passes, completed>>

\* process_view: a challenge that is still there is dropped, and the session saved.
ClearChallenge(w) ==
    /\ Ready(w, "clear")
    /\ LET cleared == [req[w].copy EXCEPT !.challenge = Null]
       IN  \/ /\ req[w].copy.challenge = Null
              /\ Continue(w, "view", cleared)
              /\ UNCHANGED session
           \/ /\ req[w].copy.challenge # Null /\ RowExists(w)
              /\ Save(cleared)
              /\ Continue(w, "view", cleared)
           \/ /\ req[w].copy.challenge # Null /\ ~RowExists(w)
              /\ Leave(w)
              /\ UNCHANGED session
    /\ UNCHANGED <<now, begun, issued, cache, claimed, passes, completed>>

\* The view: allauth's begin_authentication or begin_registration puts a new state into
\* the session.  An app session is saved by the view, a browser's after it.
Begin(w) ==
    /\ Ready(w, "view") /\ begun < NumCeremonies
    /\ Client = "app" => RowExists(w)
    /\ LET data == [req[w].copy EXCEPT !.state = begun + 1, !.verified = FALSE]
       IN  /\ IF Client = "app" THEN Save(data) ELSE UNCHANGED session
           /\ req' = [req EXCEPT ![w].at = "store", ![w].own = begun + 1,
                                 ![w].copy = Kept(data), ![w].loaded = (Client = "browser")]
    /\ begun' = begun + 1
    /\ UNCHANGED <<now, issued, cache, claimed, passes, completed>>

\* Mutant: user verification is required of the browser, not of the signed state.
RequireVerificationOfBrowser(data, purpose) == data

\* require_webauthn_user_verification, for logins without a password.
RequireVerification(data, purpose) ==
    IF purpose = "account.login" THEN [data EXCEPT !.verified = TRUE] ELSE data

\* The response: _store_challenge.  A ceremony needs its subject, a login allauth's state.
\* The random value is drawn before the subject is looked for.
Storable(w) ==
    /\ RowExists(w)
    /\ IF req[w].purpose = "account.login" THEN req[w].copy.state # Null
                                           ELSE Subject(req[w].copy, req[w].purpose) # Null

StoreChallenge(w) ==
    /\ Ready(w, "store")
    /\ LET c == req[w].own
           copy == req[w].copy
           binding == IF copy.binding = Null THEN c ELSE copy.binding
           data == [RequireVerification(copy, req[w].purpose) EXCEPT
                       !.challenge = c, !.binding = binding]
       IN  \/ /\ Storable(w)
              /\ Save(data)
              /\ issued' = [issued EXCEPT ![c] =
                    [purpose |-> req[w].purpose, subject |-> Subject(copy, req[w].purpose),
                     binding |-> binding, at |-> now]]
              /\ Respond(w, data)
           \/ /\ ~Storable(w)
              /\ Respond(w, [copy EXCEPT !.binding = binding])
              /\ UNCHANGED <<session, issued>>
    /\ UNCHANGED <<now, begun, cache, claimed, passes, completed>>

----------------------------------------------------------------------------
(* Completions. *)

\* The client sends a credential that an authenticator made for one of the challenges it
\* was given, or none that fits.  The endpoint may be another purpose's.
CompletionArrive(w) ==
    /\ \E purpose \in Purposes :
       \E c \in {Null} \cup {d \in Ceremonies : issued[d].at # Null} :
          Arrive(w, "consume", purpose, c)
    /\ UNCHANGED <<now, session, begun, issued, cache, claimed, passes, completed>>

\* Mutant: the age is not checked.
FreshAlways(c) == TRUE

Fresh(c) == now - issued[c].at <= TTL
BindingMatches(w) == issued[req[w].copy.challenge].binding = req[w].copy.binding

\* _consume_challenge up to the claim: the popped session is saved, whether or not there
\* was a challenge in it; then age and session binding are checked.
Consume(w) ==
    /\ Ready(w, "consume")
    /\ LET c == req[w].copy.challenge
           popped == [req[w].copy EXCEPT !.challenge = Null]
       IN  \/ ~RowExists(w) /\ Leave(w) /\ UNCHANGED session
           \/ RowExists(w) /\ c = Null /\ Leave(w) /\ Save(popped)
           \/ /\ RowExists(w) /\ c # Null
              /\ Save(popped)
              /\ IF Fresh(c) /\ BindingMatches(w)
                   THEN req' = [req EXCEPT ![w].at = "claim", ![w].copy = popped,
                                           ![w].meta = c, ![w].checked = now]
                   ELSE Respond(w, popped)
    /\ UNCHANGED <<now, begun, issued, cache, claimed, passes, completed>>

\* FailClosedDatabaseCache.add, first transaction: a full table refuses the claim.  Here and
\* in the second one, the clock is read some time before the statements run.
ReserveClaim(w) ==
    /\ req[w].at = "claim"
    /\ \E t \in req[w].checked .. now :
          /\ cache' = Reserved(cache, req[w].meta, t)
          /\ IF CanStore(cache, req[w].meta, t)
               THEN req' = [req EXCEPT ![w].at = "add", ![w].since = now]
               ELSE Respond(w, req[w].copy)
    /\ UNCHANGED <<now, session, begun, issued, claimed, passes, completed>>

\* Mutant: the completion is not compared with the subject of the challenge.
MatchesPurpose(w) ==
    /\ issued[req[w].meta].purpose = req[w].purpose
    /\ req[w].own = req[w].meta

\* After the claim: purpose, subject, and the challenge that the credential signs.
Matches(w) ==
    /\ issued[req[w].meta].purpose = req[w].purpose
    /\ issued[req[w].meta].subject = Subject(req[w].copy, req[w].purpose)
    /\ req[w].own = req[w].meta

\* Second transaction of add: the claim is stored, dated t...
StoreClaim(c, t) ==
    /\ AddStores(cache, c, t)
    /\ cache' = Added(cache, c, t, TTL)
    /\ claimed' = [claimed EXCEPT ![c] = IF @ = Null THEN t ELSE @]

\* ...and the completion passes,...
PassClaim(w) ==
    LET c == req[w].meta
    IN  /\ req[w].at = "add"
        /\ \E t \in req[w].since .. now : StoreClaim(c, t)
        /\ Matches(w)
        /\ passes' = [passes EXCEPT ![c] = Append(@,
                [purpose |-> req[w].purpose, subject |-> Subject(req[w].copy, req[w].purpose),
                 checked |-> req[w].checked, at |-> now])]
        /\ Continue(w, "finish", req[w].copy)
        /\ UNCHANGED <<now, session, begun, issued, completed>>

\* ...or is refused; its challenge is used up all the same.
RefuseClaim(w) ==
    /\ req[w].at = "add"
    /\ \E t \in req[w].since .. now : StoreClaim(req[w].meta, t)
    /\ ~Matches(w)
    /\ Respond(w, req[w].copy)
    /\ UNCHANGED <<now, session, begun, issued, passes, completed>>

\* The row exists already, or the write fails and DatabaseCache swallows the error.
LoseClaim(w) ==
    /\ req[w].at = "add"
    /\ \E t \in req[w].since .. now : cache' = Culled(cache, t)
    /\ ContinueWith(w, "verify", req[w].copy, req[w].meta)
    /\ UNCHANGED <<now, session, begun, issued, claimed, passes, completed>>

\* add looks at the row it collided with.  Whatever it finds, the completion is refused:
\* replayed, or SecurityCacheWriteError.
VerifyClaim(w) ==
    /\ req[w].at = "verify"
    /\ IF Overdue(cache, req[w].meta, now) THEN Goto(w, "delete") ELSE Respond(w, req[w].copy)
    /\ UNCHANGED <<now, session, begun, issued, cache, claimed, passes, completed>>

\* The row that was overdue is deleted, or the one that has replaced it since.
DeleteOverdue(w) ==
    /\ req[w].at = "delete"
    /\ cache' = Deleted(cache, req[w].meta)
    /\ Respond(w, req[w].copy)
    /\ UNCHANGED <<now, session, begun, issued, claimed, passes, completed>>

\* What a completed ceremony makes of the session's data.
Logged(data, purpose) ==
    CASE purpose = "account.login" ->
            {[data EXCEPT !.who["authenticated"] = s] : s \in Subjects}
      [] purpose \in {"account.authenticate", "account.signup"} ->
            {[data EXCEPT !.who["authenticated"] = data.who["pending"],
                          !.who["pending"] = Null]}
      [] purpose = "admin.authenticate" -> {[data EXCEPT !.who["admin"] = Null]}
      [] OTHER -> {data}
NewKey(purpose) ==
    purpose \in {"account.login", "account.authenticate", "account.signup", "admin.authenticate"}

\* The view of allauth or of the admin site: FIDO2 verifies the credential against the
\* signed state of the session the view has.  A login moves the session to a new key.
CompleteView(w) ==
    LET p == req[w].purpose
        copy == req[w].copy
    IN  /\ Ready(w, "finish")
        /\ \/ /\ copy.state = req[w].own
              /\ completed' = completed \cup {[ceremony |-> req[w].own, purpose |-> p,
                                    subject |-> Subject(copy, p), verified |-> copy.verified]}
              /\ \E data \in Logged([copy EXCEPT !.state = Null], p) :
                    IF NewKey(p)
                      THEN /\ session.key < MaxKey
                           /\ session' = [key |-> session.key + 1, data |-> data]
                           /\ Leave(w)
                      ELSE /\ RowExists(w)
                           /\ Save(data)
                           /\ Leave(w)
           \/ Respond(w, req[w].copy) /\ UNCHANGED <<session, completed>>
        /\ UNCHANGED <<now, begun, issued, cache, claimed, passes>>

\* SessionMiddleware saves a modified session after the response.
SaveOnResponse(w) ==
    /\ req[w].at = "respond"
    /\ IF RowExists(w) THEN Save(req[w].copy) ELSE UNCHANGED session
    /\ Leave(w)
    /\ UNCHANGED <<now, begun, issued, cache, claimed, passes, completed>>

----------------------------------------------------------------------------
(* Everything else that happens to the session, the cache and the clock. *)

\* A request of the same session to any other endpoint.
OtherArrive(w) ==
    /\ Arrive(w, "save", "none", Null)
    /\ UNCHANGED <<now, session, begun, issued, cache, claimed, passes, completed>>

\* It saves what it loaded, with a new pending login or without; or it signs in, which
\* gives the copy a new key, whatever has become of the row; or it signs out.
OtherSave(w) ==
    /\ req[w].at = "save"
    /\ LET copy == req[w].copy
       IN  \/ RowExists(w) /\ Save(copy)
           \/ /\ RowExists(w)
              /\ \E kind \in {SubjectKind(p) : p \in Purposes} \ {"authenticated"} :
                 \E s \in Subjects :
                    Save([copy EXCEPT !.who[kind] = s])
           \/ /\ copy.who["authenticated"] = Null /\ session.key < MaxKey
              /\ \E s \in Subjects :
                    session' = [key |-> session.key + 1,
                                data |-> [copy EXCEPT !.who["authenticated"] = s]]
           \/ /\ RowExists(w) /\ session.key < MaxKey
              /\ session' = [key |-> session.key + 1, data |-> Empty]
    /\ Leave(w)
    /\ UNCHANGED <<now, begun, issued, cache, claimed, passes, completed>>

\* A completion in another session claims its nonce.
OtherClaim(k) ==
    /\ CanStore(cache, k, now) /\ AddStores(cache, k, now)
    /\ cache' = Added(Reserved(cache, k, now), k, now, TTL)
    /\ UNCHANGED <<now, session, begun, issued, req, claimed, passes, completed>>

\* A request fails, or is killed.
Abort(w) ==
    /\ req[w].at # "idle"
    /\ Leave(w)
    /\ UNCHANGED <<now, session, begun, issued, cache, claimed, passes, completed>>

Tick ==
    /\ now < MaxTime
    /\ now' = now + 1
    /\ UNCHANGED <<session, begun, issued, cache, req, claimed, passes, completed>>

RequestStep(w) ==
    \/ LookUp(w) \/ OptionsArrive(w) \/ ClearChallenge(w) \/ Begin(w) \/ StoreChallenge(w)
    \/ CompletionArrive(w) \/ Consume(w) \/ ReserveClaim(w) \/ PassClaim(w) \/ RefuseClaim(w)
    \/ LoseClaim(w) \/ VerifyClaim(w) \/ DeleteOverdue(w) \/ CompleteView(w)
    \/ SaveOnResponse(w) \/ OtherArrive(w) \/ OtherSave(w) \/ Abort(w)

Next ==
    \/ \E w \in Workers : RequestStep(w)
    \/ \E k \in Others : OtherClaim(k)
    \/ Tick

Spec == Init /\ [][Next]_vars

----------------------------------------------------------------------------
(* Properties. *)

OneUse == INSTANCE OneUseChallenge

\* Completions pass for the purpose and the subject of their challenge only, and the first
\* claim of a challenge bars all others until it expires - however many requests hold a copy
\* of the session from before the challenge was popped, and however long they take
\* (_consume_challenge, and the replay cache).
PassesAsIssued == OneUse!Spec

\* A challenge lets a second completion pass only if that took longer, from the check of the
\* age to the claim, than the first claim came after the issue, less the rounding of a second
\* (_consume_challenge has no limit on that time, the claim lives for one TTL from itself).
RepeatsStalled ==
    \A c \in Ceremonies : \A i \in DOMAIN passes[c] :
       i > 1 => passes[c][i].at - passes[c][i].checked > claimed[c] - issued[c].at - Second

\* Of a login without a password, the session row never holds the challenge beside a signed
\* state that does not require user verification, though the state is saved before it does
\* and saved again from stale copies (require_webauthn_user_verification).  On an app route
\* the view looks the row up again, and may find one without the challenge.
NeverHalfRequired ==
    LET c == session.data.challenge
    IN  c # Null /\ session.data.state = c /\ issued[c].purpose = "account.login"
          => session.data.verified

\* Of a browser: a login without a password that the view completed was verified against a
\* state that required user verification (require_webauthn_user_verification): the view
\* works on the copy of the session in which the middleware found the challenge.
LoginVerified ==
    \A d \in completed : d.purpose = "account.login" => d.verified

\* Of a browser: the view completes a ceremony for the subject that its challenge was bound
\* to, though pending logins come and go while the request runs (_subject_binding).
CompletedAsIssued ==
    \A d \in completed : /\ d.purpose = issued[d.ceremony].purpose
                         /\ d.subject = issued[d.ceremony].subject

\* A get that has read a row past its expiry is about to delete it.
BeingDeleted(k) == \E w \in Workers : req[w].at = "delete" /\ req[w].meta = k

\* A live claim is neither deleted nor changed, full table or not (_can_store, _cull), unless
\* it has replaced a row that a get found expired and is about to delete.
LiveClaimsKept ==
    [][\A k \in CacheKeys :
          cache[k] >= now /\ ~BeingDeleted(k) => cache'[k] = cache[k]]_vars

\* Racing inserts overshoot the budget by a row each at most, beside the insert that fills it:
\* one for a request, and one for a challenge, however many requests claim it ("may transiently
\* exceed the configured budget", FailClosedDatabaseCache).
BoundedOvershoot ==
    /\ Cardinality(Stored(cache)) <= MaxEntries + Cardinality(Workers)
    /\ Cardinality(Stored(cache)) <= MaxEntries + NumCeremonies
=============================================================================

---------------------------- MODULE SessionRows ----------------------------
(***************************************************************************)
(* The rows of the three session tables of backend/core/models.py and the  *)
(* queries and updates that the session services run on them, as operators *)
(* on sets of rows.  All rows belong to one user: every query of the       *)
(* services but the two revocation look-ups filters by the user.           *)
(*                                                                         *)
(* Session keys are numbers, so that `sorted(keys)' is their order.  NULL  *)
(* columns hold 0: no key, digest, primary key or time of the model is 0.  *)
(***************************************************************************)
EXTENDS Integers

CONSTANT NumKeys        \* how many session keys a behaviour may draw

ASSUME NumKeysAssumption == NumKeys \in Nat \ {0}

Null == 0
Keys == 1 .. NumKeys
Digests == NumKeys + 1 .. NumKeys + NumKeys

\* The salted HMAC of a session token.  The code only ever compares digests for
\* equality; a digest is never equal to a key, and two keys have two digests.
Digest(token) == NumKeys + token

\* UserSessionMeta.  last_seen stands for Coalesce(last_seen, first_seen).
MetaRows == [pk : Nat, session_key : Keys, digest : {Null} \cup Digests,
             revoked_at : Nat, last_seen : Nat]

\* UserSessionToken, over any set of refresh token ids.
MappingRows(ids) == [session_key : Keys, refresh_jti : ids, expires_at : Nat, revoked_at : Nat]

Revoked(row) == row.revoked_at # Null

----------------------------------------------------------------------------
(* Queries on UserSessionMeta. *)

ByKey(ms, key) == {m \in ms : m.session_key = key}
ByDigest(ms, token) == {m \in ms : m.digest = Digest(token)}

\* QuerySet.first() without an ordering: the lowest primary key.
First(rows) == CHOOSE m \in rows : \A n \in rows : m.pk <= n.pk

\* A revocation tombstone that names the token by key or by digest.
Blocks(m, token) == Revoked(m) /\ (m.session_key = token \/ m.digest = Digest(token))
Blocked(ms, token) == \E m \in ms : Blocks(m, token)

\* SessionService.assert_session_allowed for header token and session cookie.
Allowed(ms, token, cookie) ==
    /\ ByDigest(ms, token) # {} => ~Revoked(First(ByDigest(ms, token)))
    /\ cookie # Null => \A m \in ByKey(ms, cookie) : ~Revoked(m)

\* Mutant: the query for the token's row does not filter by its digest.
CurrentKeyOfAnyRow(ms, token, cookie) ==
    IF cookie # Null THEN cookie ELSE IF ms # {} THEN First(ms).session_key ELSE Null

\* The session key that a request names: its own cookie's, or else that of the
\* first row that carries the digest of its token; Null when there is neither.
CurrentKey(ms, token, cookie) ==
    IF cookie # Null THEN cookie
    ELSE IF ByDigest(ms, token) # {} THEN First(ByDigest(ms, token)).session_key
    ELSE Null

----------------------------------------------------------------------------
(* Updates of UserSessionMeta.  A new row takes primary key base + key, so *)
(* that rows made in one statement differ and `base' orders statements.    *)

NewMeta(base, key, digest, at) ==
    [pk |-> base + key, session_key |-> key, digest |-> digest,
     revoked_at |-> Null, last_seen |-> at]

GetOrCreate(ms, base, key, digest, at) ==
    IF ByKey(ms, key) = {} THEN ms \cup {NewMeta(base, key, digest, at)} ELSE ms

\* A row keeps the first digest it was given.
FillDigest(m, token) == [m EXCEPT !.digest = IF @ = Null THEN Digest(token) ELSE @]

\* Mutant: without a cookie the row is looked up under the empty key.
TouchKeyOfCookie(token, cookie) == cookie

TouchKey(token, cookie) == IF cookie # Null THEN cookie ELSE token

\* Mutant: touch saves the whole row that it read before it took the lock.
TouchStaleRow(ms, base, token, cookie, at) ==
    {IF m.session_key = TouchKey(token, cookie)
       THEN [FillDigest(m, token) EXCEPT !.last_seen = at, !.revoked_at = Null] ELSE m :
        m \in GetOrCreate(ms, base, TouchKey(token, cookie), Digest(token), at)}

\* SessionService.touch.  A tick of the clock is longer than the 15 s throttle of
\* last_seen, so a touch leaves last_seen equal to the clock.
Touch(ms, base, token, cookie, at) ==
    {IF m.session_key = TouchKey(token, cookie)
       THEN [FillDigest(m, token) EXCEPT !.last_seen = at] ELSE m :
        m \in GetOrCreate(ms, base, TouchKey(token, cookie), Digest(token), at)}

\* update_or_create(revoked_at) for every key of a set.
RevokeKeys(ms, base, keys, at) ==
    {IF m.session_key \in keys THEN [m EXCEPT !.revoked_at = at] ELSE m : m \in ms}
    \cup {[NewMeta(base, k, Null, at) EXCEPT !.revoked_at = at] :
            k \in {k \in keys : ByKey(ms, k) = {}}}

\* Mutant: revoked_at is one of the defaults of get_or_create only.
LogoutNewKey(ms, base, key, token, at) ==
    {FillDigest(m, token) : m \in ByKey(ms, key)} \cup (ms \ ByKey(ms, key)) \cup
    {[NewMeta(base, k, Digest(token), at) EXCEPT !.revoked_at = at] :
        k \in {k \in {key} : ByKey(ms, k) = {}}}

\* logout_current's row: made if missing, digest filled, revoked unless it already is.
LogoutKey(ms, base, key, token, at) ==
    {IF m.session_key = key
       THEN [FillDigest(m, token) EXCEPT !.revoked_at = IF @ = Null THEN at ELSE @] ELSE m :
        m \in GetOrCreate(ms, base, key, Digest(token), at)}

----------------------------------------------------------------------------
(* UserSessionToken. *)

\* The mappings that a revocation of these session keys ends.
LiveMappings(ps, keys) == {p \in ps : p.session_key \in keys /\ ~Revoked(p)}

\* Mutant: the loop leaves without saving a mapping.
RevokeNoMapping(ps, keys, at) == ps

RevokeMappings(ps, keys, at) ==
    {IF p \in LiveMappings(ps, keys) THEN [p EXCEPT !.revoked_at = at] ELSE p : p \in ps}

Jtis(ps) == {p.refresh_jti : p \in ps}
=============================================================================

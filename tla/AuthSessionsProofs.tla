------------------------- MODULE AuthSessionsProofs -------------------------
(***************************************************************************)
(* The sessions and refresh token pairs of AuthSessions, for every number  *)
(* of keys, workers and tokens and every choice of lifetimes that          *)
(* satisfies RetentionAssumption: the invariants, their preservation by    *)
(* every action, and the theorems about the whole specification.           *)
(*                                                                         *)
(* Sessions.  BarredStaysOut is not inductive: once cleanup_auth_data has  *)
(* deleted the tombstone of a session, nothing in the state that the       *)
(* property mentions keeps the session out.  The strengthening says why it *)
(* stays out: either its tombstone stands and is young enough to outlive   *)
(* the session and the requests in progress that may still extend it, or   *)
(* the session is gone.                                                    *)
(*                                                                         *)
(* Pairs.  SpentTokensUnmapped and LivePairUsable are about one mapping at *)
(* a time but a rotation or revocation of one pair could disturb another   *)
(* one that held the same token: what makes them inductive is that no two  *)
(* mappings do, and that the expires_at column mirrors the token's exp     *)
(* claim.                                                                  *)
(***************************************************************************)
EXTENDS AuthSessions, WellFoundedInduction, SequenceTheorems, TLAPS

(***************************************************************************)
(* What the queries and updates of SessionRows return and preserve, for    *)
(* every set of rows.                                                      *)
(***************************************************************************)
\* A non-empty set of naturals has a least element.
LEMMA LeastNat ==
    ASSUME NEW S \in SUBSET Nat, S # {}
    PROVE  \E x \in S : \A y \in S : x <= y
<1> DEFINE R == {p \in Nat \X Nat : p[1] < p[2]}
<1>1. IsWellFoundedOn(R, Nat)
  <2>1. R \cap (Nat \X Nat) \subseteq OpToRel(<, Nat)
    BY DEF OpToRel
  <2> QED  BY <2>1, NatLessThanWellFounded, IsWellFoundedOnSubrelation
<1>2. PICK x \in S : \A y \in S : ~ (<<y, x>> \in R)
  <2> HIDE DEF R
  <2> QED  BY <1>1, WFMin
<1>3. ASSUME NEW y \in S  PROVE x <= y
  <2>1. <<y, x>> \in Nat \X Nat  OBVIOUS
  <2>2. ~ (y < x)  BY <1>2, <2>1
  <2> QED  BY <2>2
<1> QED  BY <1>3

\* QuerySet.first() returns one of the rows it was asked for.
LEMMA FirstIn ==
    ASSUME NEW rows, rows # {}, \A m \in rows : m.pk \in Nat
    PROVE  First(rows) \in rows /\ \A n \in rows : First(rows).pk <= n.pk
<1>1. PICK x \in {m.pk : m \in rows} : \A y \in {m.pk : m \in rows} : x <= y
  BY LeastNat
<1>2. \E m \in rows : \A n \in rows : m.pk <= n.pk
  BY <1>1
<1> QED  BY <1>2 DEF First

----------------------------------------------------------------------------
(* Two invariants of the updates: what a table's rows are, with session    *)
(* keys from K, tokens from T and revocations no later than `at'; and how  *)
(* the tombstones of one table relate to those of the table it becomes.    *)

GoodRows(ms, K, T, at) ==
    /\ ms \subseteq MetaRows
    /\ \A m \in ms : /\ m.session_key \in K /\ m.revoked_at <= at
                     /\ m.session_key \in T => m.digest \in {Null, Digest(m.session_key)}

TombstonesKept(ms, ns) ==
    \A m \in ms : Revoked(m) =>
        \E n \in ns : /\ n.session_key = m.session_key /\ Revoked(n)
                      /\ m.revoked_at <= n.revoked_at

TombstonesNew(ms, ns, at) ==
    \A n \in ns : Revoked(n) =>
        \/ \E x \in ns : x.session_key = n.session_key /\ Revoked(x) /\ x.revoked_at = at
        \/ \E m \in ms : Revoked(m) /\ m.session_key = n.session_key

Follows(ms, ns, at) == TombstonesKept(ms, ns) /\ TombstonesNew(ms, ns, at)

\* Two tokens have two digests.
LEMMA DigestInjective ==
    ASSUME NEW s \in Keys, NEW t \in Keys, Digest(s) = Digest(t)  PROVE s = t
BY NumKeysAssumption DEF Digest, Keys

\* A digest is a digest and not NULL.
LEMMA DigestType == ASSUME NEW t \in Keys  PROVE Digest(t) \in Digests /\ Digest(t) # Null
BY NumKeysAssumption DEF Digest, Keys, Digests, Null

\* Rows that do not change follow themselves.
LEMMA FollowsReflexive ==
    ASSUME NEW ms \in SUBSET MetaRows, NEW at  PROVE Follows(ms, ms, at)
BY DEF Follows, TombstonesKept, TombstonesNew, MetaRows

\* Two statements of one transaction make one step of the rows.
LEMMA FollowsTransitive ==
    ASSUME NEW ms, NEW ns, NEW os, NEW K, NEW T, NEW at \in Nat,
           GoodRows(ms, K, T, at), GoodRows(ns, K, T, at), GoodRows(os, K, T, at),
           Follows(ms, ns, at), Follows(ns, os, at)
    PROVE  Follows(ms, os, at)
<1>1. TombstonesKept(ms, os)
  BY DEF Follows, TombstonesKept, GoodRows, MetaRows
<1>2. ASSUME NEW o \in os, Revoked(o), NEW n \in ns, Revoked(n), n.session_key = o.session_key
      PROVE  \/ \E x \in os : x.session_key = o.session_key /\ Revoked(x) /\ x.revoked_at = at
             \/ \E m \in ms : Revoked(m) /\ m.session_key = o.session_key
  <2>1. CASE \E x \in ns : x.session_key = n.session_key /\ Revoked(x) /\ x.revoked_at = at
    <3>1. PICK x \in ns : x.session_key = n.session_key /\ Revoked(x) /\ x.revoked_at = at
      BY <2>1
    <3>2. PICK y \in os : y.session_key = x.session_key /\ Revoked(y) /\ at <= y.revoked_at
      BY <3>1 DEF Follows, TombstonesKept
    <3>3. y.revoked_at \in Nat /\ y.revoked_at <= at
      BY DEF GoodRows, MetaRows
    <3> QED  BY <1>2, <3>1, <3>2, <3>3
  <2> QED  BY <1>2, <2>1 DEF Follows, TombstonesNew
<1>3. TombstonesNew(ms, os, at)
  BY <1>2 DEF Follows, TombstonesNew
<1> QED  BY <1>1, <1>3 DEF Follows

\* A new row has the type of a row.
LEMMA NewMetaGood ==
    ASSUME NEW base \in Nat, NEW key \in Keys, NEW digest \in {Null} \cup Digests, NEW at \in Nat
    PROVE  NewMeta(base, key, digest, at) \in MetaRows
BY NumKeysAssumption DEF NewMeta, MetaRows, Keys, Null

\* get_or_create keeps every tombstone and makes none.
LEMMA GetOrCreateGood ==
    ASSUME NEW K \in SUBSET Keys, NEW T \in SUBSET Keys, NEW at \in Nat, NEW ms,
           GoodRows(ms, K, T, at), NEW base \in Nat, NEW key \in K, NEW t \in Keys,
           key \in T => key = t
    PROVE  /\ GoodRows(GetOrCreate(ms, base, key, Digest(t), at), K, T, at)
           /\ Follows(ms, GetOrCreate(ms, base, key, Digest(t), at), at)
<1> DEFINE n == NewMeta(base, key, Digest(t), at)
<1>1. n \in MetaRows  BY DigestType, NewMetaGood
<1>2. n.session_key = key /\ n.digest = Digest(t) /\ n.revoked_at = Null /\ ~Revoked(n)
  BY DEF NewMeta, Revoked
<1>3. n.revoked_at <= at  BY <1>2 DEF Null
<1> HIDE DEF n
<1>4. GoodRows(ms \cup {n}, K, T, at)
  BY <1>1, <1>2, <1>3 DEF GoodRows
<1>5. Follows(ms, ms \cup {n}, at) /\ Follows(ms, ms, at)
  BY <1>2, FollowsReflexive DEF Follows, TombstonesKept, TombstonesNew, GoodRows, MetaRows
<1> QED  BY <1>4, <1>5 DEF GetOrCreate, n

\* touch keeps every tombstone and makes none.
LEMMA TouchGood ==
    ASSUME NEW K \in SUBSET Keys, NEW T \in SUBSET Keys, NEW at \in Nat, NEW ms,
           GoodRows(ms, K, T, at), NEW base \in Nat, NEW t \in Keys, NEW c \in {Null} \cup K,
           TouchKey(t, c) \in K, TouchKey(t, c) \in T => TouchKey(t, c) = t
    PROVE  /\ GoodRows(Touch(ms, base, t, c, at), K, T, at)
           /\ Follows(ms, Touch(ms, base, t, c, at), at)
<1> DEFINE key == TouchKey(t, c)
           ns == GetOrCreate(ms, base, key, Digest(t), at)
           Seen(m) == IF m.session_key = key
                      THEN [FillDigest(m, t) EXCEPT !.last_seen = at] ELSE m
           os == {Seen(m) : m \in ns}
<1>1. GoodRows(ns, K, T, at) /\ Follows(ms, ns, at)
  BY GetOrCreateGood
<1>2. ASSUME NEW m \in ns
      PROVE  /\ Seen(m) \in MetaRows /\ Seen(m).session_key = m.session_key
             /\ Seen(m).revoked_at = m.revoked_at
             /\ m.session_key \in K /\ m.revoked_at <= at
             /\ m.session_key \in T => Seen(m).digest \in {Null, Digest(m.session_key)}
  <2>1. /\ m \in MetaRows /\ m.session_key \in K /\ m.revoked_at <= at
        /\ m.session_key \in T => m.digest \in {Null, Digest(m.session_key)}
    BY <1>1 DEF GoodRows
  <2>2. Digest(t) \in Digests  BY DigestType
  <2> HIDE DEF key, ns
  <2>3. CASE m.session_key = key
    <3>1. FillDigest(m, t) = [m EXCEPT !.digest = IF m.digest = Null THEN Digest(t) ELSE m.digest]
      BY DEF FillDigest
    <3>2. m.session_key \in T => m.session_key = t
      BY <2>3 DEF key
    <3> QED  BY <2>1, <2>2, <2>3, <3>1, <3>2 DEF MetaRows
  <2>4. CASE m.session_key # key
    BY <2>1, <2>4
  <2> QED  BY <2>3, <2>4
<1> HIDE DEF ns, Seen
<1>3. GoodRows(os, K, T, at)
  BY <1>2 DEF GoodRows
<1>4. Follows(ns, os, at)
  BY <1>2 DEF Follows, TombstonesKept, TombstonesNew, Revoked, MetaRows
<1>5. Follows(ms, os, at)
  BY <1>1, <1>3, <1>4, FollowsTransitive
<1> QED  BY <1>3, <1>5 DEF Touch, os, ns, Seen

\* The revocation of some keys keeps every other tombstone and makes tombstones of the current time.
LEMMA RevokeKeysGood ==
    ASSUME NEW K \in SUBSET Keys, NEW T \in SUBSET Keys, NEW at \in Nat \ {0}, NEW ms,
           GoodRows(ms, K, T, at), NEW base \in Nat, NEW keys \in SUBSET K
    PROVE  /\ GoodRows(RevokeKeys(ms, base, keys, at), K, T, at)
           /\ Follows(ms, RevokeKeys(ms, base, keys, at), at)
<1> DEFINE Ended(m) == IF m.session_key \in keys THEN [m EXCEPT !.revoked_at = at] ELSE m
           Made(k) == [NewMeta(base, k, Null, at) EXCEPT !.revoked_at = at]
           old == {Ended(m) : m \in ms}
           new == {Made(k) : k \in {k \in keys : ByKey(ms, k) = {}}}
<1>1. ASSUME NEW m \in ms
      PROVE  /\ Ended(m) \in MetaRows /\ Ended(m).session_key = m.session_key
             /\ Ended(m).digest = m.digest
             /\ m.revoked_at <= Ended(m).revoked_at /\ Ended(m).revoked_at <= at
             /\ Ended(m).revoked_at \in {m.revoked_at, at}
             /\ m.session_key \in K /\ m \in MetaRows
             /\ m.session_key \in T => m.digest \in {Null, Digest(m.session_key)}
  BY DEF GoodRows, MetaRows
<1>2. ASSUME NEW k \in keys
      PROVE  /\ Made(k) \in MetaRows /\ Made(k).session_key = k /\ Made(k).digest = Null
             /\ Made(k).revoked_at = at
  BY NumKeysAssumption DEF NewMeta, MetaRows, Keys, Null
<1> HIDE DEF Ended, Made
<1>3. GoodRows(old \cup new, K, T, at)
  BY <1>1, <1>2 DEF GoodRows
<1>4. TombstonesKept(ms, old \cup new)
  BY <1>1 DEF TombstonesKept, Revoked, Null, MetaRows
<1>5. TombstonesNew(ms, old \cup new, at)
  BY <1>1, <1>2 DEF TombstonesNew, Revoked, Null, MetaRows
<1> QED  BY <1>3, <1>4, <1>5 DEF Follows, RevokeKeys, Ended, Made

\* The row of a logout: an older tombstone keeps its time.
LEMMA LogoutKeyGood ==
    ASSUME NEW K \in SUBSET Keys, NEW T \in SUBSET Keys, NEW at \in Nat \ {0}, NEW ms,
           GoodRows(ms, K, T, at), NEW base \in Nat, NEW t \in Keys, NEW key \in K,
           key \in T => key = t
    PROVE  /\ GoodRows(LogoutKey(ms, base, key, t, at), K, T, at)
           /\ Follows(ms, LogoutKey(ms, base, key, t, at), at)
<1> DEFINE ns == GetOrCreate(ms, base, key, Digest(t), at)
           Out(m) == IF m.session_key = key
                     THEN [FillDigest(m, t) EXCEPT !.revoked_at = IF @ = Null THEN at ELSE @]
                     ELSE m
           os == {Out(m) : m \in ns}
<1>1. GoodRows(ns, K, T, at) /\ Follows(ms, ns, at)
  BY GetOrCreateGood
<1>2. ASSUME NEW m \in ns
      PROVE  /\ Out(m) \in MetaRows /\ Out(m).session_key = m.session_key
             /\ m.revoked_at <= Out(m).revoked_at /\ Out(m).revoked_at <= at
             /\ Out(m).revoked_at \in {m.revoked_at, at}
             /\ m.session_key \in K /\ m \in MetaRows
             /\ m.session_key \in T => Out(m).digest \in {Null, Digest(m.session_key)}
  <2>1. /\ m \in MetaRows /\ m.session_key \in K /\ m.revoked_at <= at
        /\ m.session_key \in T => m.digest \in {Null, Digest(m.session_key)}
    BY <1>1 DEF GoodRows
  <2>2. Digest(t) \in Digests  BY DigestType
  <2> HIDE DEF ns
  <2>3. CASE m.session_key = key
    <3>1. FillDigest(m, t) = [m EXCEPT !.digest = IF m.digest = Null THEN Digest(t) ELSE m.digest]
      BY DEF FillDigest
    <3>2. /\ FillDigest(m, t) \in MetaRows /\ FillDigest(m, t).session_key = key
          /\ FillDigest(m, t).revoked_at = m.revoked_at
          /\ key \in T => FillDigest(m, t).digest \in {Null, Digest(key)}
      BY <2>1, <2>2, <2>3, <3>1 DEF MetaRows
    <3> HIDE DEF Out
    <3>3. Out(m) = [FillDigest(m, t) EXCEPT
                       !.revoked_at = IF m.revoked_at = Null THEN at ELSE m.revoked_at]
      BY <2>3, <3>2 DEF Out
    <3>4. CASE m.revoked_at = Null
      BY <2>1, <2>3, <3>2, <3>3, <3>4 DEF MetaRows, Null
    <3>5. CASE m.revoked_at # Null
      BY <2>1, <2>3, <3>2, <3>3, <3>5 DEF MetaRows, Null
    <3> QED  BY <3>4, <3>5
  <2>4. CASE m.session_key # key
    BY <2>1, <2>4 DEF MetaRows
  <2> QED  BY <2>3, <2>4
<1> HIDE DEF ns, Out
<1>3. GoodRows(os, K, T, at)
  BY <1>2 DEF GoodRows
<1>4. TombstonesKept(ns, os)
  BY <1>2 DEF TombstonesKept, Revoked, Null, MetaRows
<1>5. TombstonesNew(ns, os, at)
  BY <1>2 DEF TombstonesNew, Revoked, Null, MetaRows
<1>6. Follows(ms, os, at)
  BY <1>1, <1>3, <1>4, <1>5, FollowsTransitive DEF Follows
<1> QED  BY <1>3, <1>6 DEF LogoutKey, os, ns, Out

(***************************************************************************)
(* The state machine.                                                      *)
(***************************************************************************)

SessionTypes ==
    /\ now \in Nat \ {0}
    /\ user \in {"active", "disabled", "deleted"}
    /\ minted \subseteq Keys /\ sessions \subseteq minted
    /\ expire \in [Keys -> Nat]
    /\ lastPk \in Nat
    /\ req \in [Workers -> [op : AllHandlers \cup {"idle"}, token : Tokens \cup {Null},
                            cookie : Cookies \cup {Null}, jti : JtiIds \cup {Null}, at : Nat]]
    /\ cleanup \in [step : CleanupSteps, at : Nat]

\* What rows and requests name are session keys that were generated.
Minted ==
    /\ GoodRows(metas, minted, Tokens, now)
    /\ userSessions \subseteq minted /\ barred \subseteq minted
    /\ \A w \in Workers : req[w].op # "idle" =>
          req[w].token \in Tokens \cap minted /\ req[w].cookie \in (Cookies \cap minted) \cup {Null}

Clocks ==
    /\ cleanup.at <= now
    /\ \A k \in Keys : expire[k] <= now + SessionTTL
    /\ \A w \in Workers : req[w].op # "idle" =>
          req[w].at <= now /\ now <= req[w].at + RequestTimeout

RevokedBarred == \A m \in metas : Revoked(m) => m.session_key \in barred

Saving(w, k) == req[w].op = "save" /\ req[w].token = k

\* The session has ended for good, and no request in progress extends it.
Gone(k) == \/ k \notin sessions
           \/ now >= expire[k] /\ \A w \in Workers : ~Saving(w, k)

\* The tombstone outlives the session, whatever the requests in progress do.
Outlives(m, k) ==
    /\ expire[k] <= m.revoked_at + SessionTTL + RequestTimeout
    /\ \A w \in Workers : Saving(w, k) => req[w].at <= m.revoked_at

Tombstone(k) == \E m \in metas : m.session_key = k /\ Revoked(m) /\ Outlives(m, k)

BarredEnd == \A k \in barred : user = "deleted" \/ Gone(k) \/ Tombstone(k)

SessionInv == SessionTypes /\ Minted /\ Clocks /\ RevokedBarred /\ BarredEnd

----------------------------------------------------------------------------
\* What the assumptions on the constants say of keys and times.
LEMMA KeySets ==
    /\ Tokens \subseteq Keys /\ Cookies \subseteq Keys /\ Null \notin Keys
    /\ \A k \in Cookies : k \notin Tokens
    /\ SessionTTL \in Nat /\ RequestTimeout \in Nat /\ RefreshTTL \in Nat /\ MaxJti \in Nat
    /\ SessionRetention \in Nat /\ TokenRetention \in Nat
    /\ SessionTTL + RequestTimeout <= SessionRetention
BY KeysAssumption, TimesAssumption, RetentionAssumption DEF Keys, Null

\* A session that the invariant calls ended does not authenticate.
LEMMA EndedStaysOut == SessionInv => BarredStaysOut
<1> SUFFICES ASSUME SessionInv, NEW k \in barred, Authenticated(k)  PROVE FALSE
  BY DEF BarredStaysOut
<1>1. user = "active" /\ k \in sessions /\ now < expire[k] /\ ~Blocked(metas, k)
  BY DEF Authenticated, LookupSession
<1>2. k \in Keys /\ expire[k] \in Nat /\ now \in Nat
  BY DEF SessionInv, SessionTypes, Minted
<1>3. ~Tombstone(k)
  BY <1>1 DEF Tombstone, Blocked, Blocks
<1> QED  BY <1>1, <1>2, <1>3 DEF SessionInv, BarredEnd, Gone

\* The invariant of the sessions holds at first.
LEMMA SessionInit == Init => SessionInv
<1> SUFFICES ASSUME Init  PROVE SessionInv
  OBVIOUS
<1>1. SessionTypes
  BY KeySets DEF Init, SessionTypes, Idle, Resting, CleanupSteps, Null
<1>3. Minted
  BY DEF Init, Minted, GoodRows, Idle
<1>4. Clocks
  BY KeySets DEF Init, Clocks, Idle, Resting, Null
<1> QED  BY <1>1, <1>3, <1>4 DEF Init, SessionInv, RevokedBarred, BarredEnd

----------------------------------------------------------------------------
(* The steps that neither move the clock, nor extend a session, nor delete *)
(* a tombstone.                                                            *)

\* A request stays as it is, ends, or arrives now, with a token that is not barred if it
\* is going to save its session.
RequestStep(w) ==
    \/ req'[w] = req[w]
    \/ req'[w].op = "idle"
    \/ /\ req'[w].token \in Tokens \cap minted
       /\ req'[w].cookie \in (Cookies \cap minted) \cup {Null}
       /\ req'[w].at = now
       /\ req'[w].op = "save" => req'[w].token \notin barred

SessionStep ==
    /\ now' = now
    /\ user' \in {"active", "disabled", "deleted"} /\ (user = "deleted" => user' = "deleted")
    /\ minted \subseteq minted' /\ minted' \subseteq Keys
    /\ sessions' \subseteq minted' /\ sessions' \cap minted \subseteq sessions
    /\ expire' \in [Keys -> Nat] /\ \A k \in sessions : expire'[k] = expire[k]
    /\ \A k \in Keys : expire'[k] <= now + SessionTTL
    /\ userSessions' \subseteq minted' /\ lastPk' \in Nat
    /\ GoodRows(metas', minted', Tokens, now) /\ Follows(metas, metas', now)
    /\ barred' = barred \cup {m.session_key : m \in {m \in metas' : Revoked(m)}}
    /\ req' \in [Workers -> [op : AllHandlers \cup {"idle"}, token : Tokens \cup {Null},
                             cookie : Cookies \cup {Null}, jti : JtiIds \cup {Null}, at : Nat]]
    /\ \A w \in Workers : RequestStep(w)
    /\ cleanup' \in [step : CleanupSteps, at : Nat] /\ cleanup'.at <= now

\* A step of the common shape preserves the invariant of the sessions.
LEMMA SessionStepInv == SessionInv /\ SessionStep => SessionInv'
<1> SUFFICES ASSUME SessionInv, SessionStep  PROVE SessionInv'
  OBVIOUS
<1>1. SessionTypes'
  BY DEF SessionInv, SessionTypes, SessionStep
<1>2. Minted'
  BY DEF SessionInv, Minted, SessionTypes, SessionStep, RequestStep, GoodRows
<1>3. Clocks'
  BY KeySets DEF SessionInv, Clocks, SessionTypes, SessionStep, RequestStep
<1>4. RevokedBarred'
  BY DEF SessionStep, RevokedBarred
<1>5. ASSUME NEW k \in barred', user' # "deleted", k \in sessions'
      PROVE  Gone(k)' \/ Tombstone(k)'
  <2>1. k \in Keys /\ now \in Nat /\ expire'[k] \in Nat
    BY <1>1, <1>2 DEF SessionTypes, Minted, SessionInv
  <2>2. CASE k \in barred
    <3>1. k \in sessions /\ expire'[k] = expire[k]
      BY <1>5, <2>2 DEF SessionStep, SessionInv, Minted
    <3>2. ASSUME NEW w \in Workers, Saving(w, k)'
          PROVE  Saving(w, k) /\ req'[w].at = req[w].at
      BY <2>2, <3>2 DEF SessionStep, RequestStep, Saving
    <3>3. CASE Gone(k)
      BY <3>1, <3>2, <3>3 DEF Gone, SessionStep
    <3>4. CASE Tombstone(k)
      <4>1. PICK m \in metas : m.session_key = k /\ Revoked(m) /\ Outlives(m, k)
        BY <3>4 DEF Tombstone
      <4>2. PICK n \in metas' : /\ n.session_key = m.session_key /\ Revoked(n)
                                /\ m.revoked_at <= n.revoked_at
        BY <4>1 DEF SessionStep, Follows, TombstonesKept
      <4>3. m.revoked_at \in Nat /\ n.revoked_at \in Nat
        BY DEF SessionStep, SessionInv, Minted, GoodRows, MetaRows
      <4>4. expire'[k] <= n.revoked_at + SessionTTL + RequestTimeout
        BY <2>1, <3>1, <4>1, <4>2, <4>3, KeySets DEF Outlives
      <4>5. ASSUME NEW w \in Workers, Saving(w, k)'  PROVE req'[w].at <= n.revoked_at
        <5>1. req[w].at <= m.revoked_at /\ req'[w].at = req[w].at
          BY <3>2, <4>1, <4>5 DEF Outlives
        <5>2. req[w].at \in Nat
          BY DEF SessionInv, SessionTypes
        <5> QED  BY <4>2, <4>3, <5>1, <5>2
      <4> QED  BY <4>1, <4>2, <4>4, <4>5 DEF Tombstone, Outlives
    <3> QED  BY <1>5, <2>2, <3>3, <3>4 DEF SessionInv, BarredEnd, SessionStep
  <2>3. CASE k \notin barred
    <3>1. PICK n \in metas' : n.session_key = k /\ Revoked(n)
      BY <1>5, <2>3 DEF SessionStep
    <3>2. ~ \E m \in metas : Revoked(m) /\ m.session_key = n.session_key
      BY <2>3, <3>1 DEF SessionInv, RevokedBarred
    <3>3. PICK x \in metas' : x.session_key = k /\ Revoked(x) /\ x.revoked_at = now
      BY <3>1, <3>2 DEF SessionStep, Follows, TombstonesNew
    <3>4. expire'[k] <= x.revoked_at + SessionTTL + RequestTimeout
      BY <2>1, <3>3, KeySets DEF SessionStep
    <3>5. ASSUME NEW w \in Workers, Saving(w, k)'  PROVE req'[w].at <= x.revoked_at
      BY <1>3, <3>3, <3>5 DEF Clocks, Saving, SessionStep
    <3> QED  BY <3>3, <3>4, <3>5 DEF Tombstone, Outlives
  <2> QED  BY <2>2, <2>3
<1>6. BarredEnd'
  BY <1>5 DEF BarredEnd, Gone
<1> QED  BY <1>1, <1>2, <1>3, <1>4, <1>6 DEF SessionInv

----------------------------------------------------------------------------
(* The parts that the actions share.                                       *)

\* A worker whose request ends.
LEMMA FinishStep ==
    ASSUME SessionInv, NEW w \in Workers, Finish(w)
    PROVE  /\ req' \in [Workers -> [op : AllHandlers \cup {"idle"}, token : Tokens \cup {Null},
                               cookie : Cookies \cup {Null}, jti : JtiIds \cup {Null}, at : Nat]]
           /\ \A v \in Workers : RequestStep(v)
BY DEF SessionInv, SessionTypes, Finish, RequestStep, Idle, Null

\* Nobody's request changes.
LEMMA NoRequestStep ==
    ASSUME SessionInv, UNCHANGED req
    PROVE  /\ req' \in [Workers -> [op : AllHandlers \cup {"idle"}, token : Tokens \cup {Null},
                               cookie : Cookies \cup {Null}, jti : JtiIds \cup {Null}, at : Nat]]
           /\ \A v \in Workers : RequestStep(v)
BY DEF SessionInv, SessionTypes, RequestStep

\* The meta rows do not change.
LEMMA NoRowStep ==
    ASSUME SessionInv, UNCHANGED metaVars, minted \subseteq minted'
    PROVE  /\ lastPk' \in Nat
           /\ GoodRows(metas', minted', Tokens, now) /\ Follows(metas, metas', now)
           /\ barred' = barred \cup {m.session_key : m \in {m \in metas' : Revoked(m)}}
<1>1. metas' = metas /\ barred' = barred /\ lastPk' = lastPk
  BY DEF metaVars
<1>2. GoodRows(metas, minted', Tokens, now)
  BY DEF SessionInv, Minted, GoodRows
<1>3. Follows(metas, metas, now)
  BY <1>2, FollowsReflexive DEF GoodRows
<1>4. {m.session_key : m \in {m \in metas : Revoked(m)}} \subseteq barred
  BY DEF SessionInv, RevokedBarred
<1> QED  BY <1>1, <1>2, <1>3, <1>4 DEF SessionInv, SessionTypes

\* The meta rows become ms.
LEMMA RowStep ==
    ASSUME SessionInv, NEW ms, SetMetas(ms), GoodRows(ms, minted', Tokens, now),
           Follows(metas, ms, now)
    PROVE  /\ lastPk' \in Nat
           /\ GoodRows(metas', minted', Tokens, now) /\ Follows(metas, metas', now)
           /\ barred' = barred \cup {m.session_key : m \in {m \in metas' : Revoked(m)}}
<1>1. lastPk' \in Nat
  BY NumKeysAssumption DEF SessionInv, SessionTypes, SetMetas
<1> QED  BY <1>1 DEF SetMetas

\* No statement of a handler touches the sessions that are not its own.
LEMMA NoSessionStep ==
    ASSUME SessionInv, UNCHANGED <<now, user, minted, expire>>
    PROVE  /\ now' = now
           /\ user' \in {"active", "disabled", "deleted"} /\ (user = "deleted" => user' = "deleted")
           /\ minted \subseteq minted' /\ minted' \subseteq Keys
           /\ expire' \in [Keys -> Nat] /\ \A k \in sessions : expire'[k] = expire[k]
           /\ \A k \in Keys : expire'[k] <= now + SessionTTL
BY DEF SessionInv, SessionTypes, Clocks

\* The maintenance cycle does not move.
LEMMA NoCleanupStep ==
    ASSUME SessionInv, UNCHANGED cleanup
    PROVE  cleanup' \in [step : CleanupSteps, at : Nat] /\ cleanup'.at <= now
BY DEF SessionInv, SessionTypes, Clocks

\* What a running request carries.
LEMMA RequestKeys ==
    ASSUME SessionInv, NEW w \in Workers, req[w].op # "idle"
    PROVE  /\ req[w].token \in Keys /\ req[w].token \in Tokens \cap minted
           /\ req[w].cookie \in minted \cup {Null} /\ req[w].cookie \in Cookies \cup {Null}
           /\ req[w].cookie # Null => req[w].cookie \notin Tokens
           /\ now \in Nat \ {0} /\ lastPk \in Nat /\ minted \in SUBSET Keys
BY KeySets DEF SessionInv, Minted, SessionTypes

\* What a touch makes of the rows of the request: generated keys, and no tombstone lost.
LEMMA TouchedGood ==
    ASSUME SessionInv, NEW w \in Workers, req[w].op # "idle"
    PROVE  /\ GoodRows(Touched(w), minted, Tokens, now) /\ Follows(metas, Touched(w), now)
           /\ TouchedSessions(w) \subseteq minted
<1>1. /\ TouchKey(req[w].token, req[w].cookie) \in minted
      /\ TouchKey(req[w].token, req[w].cookie) \in Tokens =>
            TouchKey(req[w].token, req[w].cookie) = req[w].token
  BY RequestKeys, KeySets DEF TouchKey
<1>2. TouchedSessions(w) \subseteq minted
  BY RequestKeys DEF TouchedSessions, SessionInv, Minted
<1>3. GoodRows(metas, minted, Tokens, now)
  BY DEF SessionInv, Minted
<1>4. GoodRows(Touched(w), minted, Tokens, now) /\ Follows(metas, Touched(w), now)
  BY <1>1, <1>3, RequestKeys, KeySets, TouchGood DEF Touched
<1> QED  BY <1>2, <1>4

\* The session key that a request names was generated, and is its own token if it is one.
LEMMA CurrentKeyGood ==
    ASSUME SessionInv, NEW w \in Workers, req[w].op # "idle",
           NEW ms, GoodRows(ms, minted, Tokens, now),
           CurrentKey(ms, req[w].token, req[w].cookie) # Null
    PROVE  /\ CurrentKey(ms, req[w].token, req[w].cookie) \in minted
           /\ CurrentKey(ms, req[w].token, req[w].cookie) \in Tokens =>
                 CurrentKey(ms, req[w].token, req[w].cookie) = req[w].token
<1> DEFINE t == req[w].token
           rows == ByDigest(ms, t)
<1>1. CASE req[w].cookie # Null
  BY <1>1, RequestKeys DEF CurrentKey
<1>2. CASE req[w].cookie = Null
  <2>1. rows # {} /\ CurrentKey(ms, t, req[w].cookie) = First(rows).session_key
    BY <1>2 DEF CurrentKey
  <2>2. First(rows) \in rows
    BY <2>1, FirstIn DEF ByDigest, GoodRows, MetaRows
  <2>3. First(rows) \in ms /\ First(rows).digest = Digest(t)
    BY <2>2 DEF ByDigest
  <2>4. First(rows).session_key \in minted
    BY <2>3 DEF GoodRows
  <2>5. First(rows).session_key \in Tokens => First(rows).session_key = t
    BY <2>3, <2>4, RequestKeys, DigestType, DigestInjective DEF GoodRows
  <2> QED  BY <2>1, <2>4, <2>5
<1> QED  BY <1>1, <1>2

----------------------------------------------------------------------------
(* The handlers.                                                           *)

\* A request that arrives has read a session that no tombstone ends.
LEMMA ArriveStep == ASSUME SessionInv, NEW w \in Workers, Arrive(w)  PROVE SessionStep
<1>1. PICK op \in (Handlers \cap AllHandlers) \ {"refresh"}, tc \in Carries :
        /\ req[w] = Idle /\ (tc[2] # Null => tc[2] \in minted) /\ Authenticated(tc[1])
        /\ req' = [req EXCEPT ![w] = [op |-> op, token |-> tc[1], cookie |-> tc[2],
                                      jti |-> Null, at |-> now]]
        /\ UNCHANGED <<now, user, rowVars, pairVars, cleanup>>
  BY DEF Arrive
<1>2. tc[1] \in Tokens /\ tc[2] \in Cookies \cup {Null}
  BY KeysAssumption
<1>3. tc[1] \in sessions /\ tc[1] \in minted /\ tc[1] \notin barred
  BY <1>1, EndedStaysOut DEF Authenticated, LookupSession, BarredStaysOut, SessionInv, SessionTypes
<1>4. /\ req' \in [Workers -> [op : AllHandlers \cup {"idle"}, token : Tokens \cup {Null},
                               cookie : Cookies \cup {Null}, jti : JtiIds \cup {Null}, at : Nat]]
      /\ \A v \in Workers : RequestStep(v)
  BY <1>1, <1>2, <1>3 DEF SessionInv, SessionTypes, RequestStep
<1>5. UNCHANGED <<now, user, minted, expire>> /\ UNCHANGED metaVars /\ UNCHANGED cleanup
      /\ UNCHANGED <<sessions, userSessions>>
  BY <1>1 DEF rowVars
<1> QED
  BY <1>4, <1>5, NoSessionStep, NoRowStep, NoCleanupStep
  DEF SessionStep, SessionInv, SessionTypes, Minted

\* A refresh that arrives changes nothing but its worker.
LEMMA ArriveRefreshStep == 
    ASSUME SessionInv, issued \subseteq JtiIds, NEW w \in Workers, ArriveRefresh(w)
    PROVE  SessionStep
<1>1. PICK t \in Tokens \cap minted, j \in issued :
        /\ req' = [req EXCEPT ![w] = [op |-> "refresh", token |-> t, cookie |-> Null,
                                      jti |-> j, at |-> now]]
        /\ UNCHANGED <<now, user, rowVars, pairVars, cleanup>>
  BY DEF ArriveRefresh
<1>2. /\ req' \in [Workers -> [op : AllHandlers \cup {"idle"}, token : Tokens \cup {Null},
                               cookie : Cookies \cup {Null}, jti : JtiIds \cup {Null}, at : Nat]]
      /\ \A v \in Workers : RequestStep(v)
  BY <1>1 DEF SessionInv, SessionTypes, RequestStep, AllHandlers
<1>3. UNCHANGED <<now, user, minted, expire>> /\ UNCHANGED metaVars /\ UNCHANGED cleanup
      /\ UNCHANGED <<sessions, userSessions>>
  BY <1>1 DEF rowVars
<1> QED
  BY <1>2, <1>3, NoSessionStep, NoRowStep, NoCleanupStep
  DEF SessionStep, SessionInv, SessionTypes, Minted

\* A request that ends and leaves the sessions, or takes some of them away.
LEMMA PlainStep ==
    ASSUME SessionInv, NEW w \in Workers, Finish(w), UNCHANGED <<now, user, minted, expire>>,
           UNCHANGED metaVars, UNCHANGED cleanup,
           sessions' \subseteq sessions, userSessions' \subseteq userSessions
    PROVE  SessionStep
BY FinishStep, NoSessionStep, NoRowStep, NoCleanupStep
DEF SessionStep, SessionInv, SessionTypes, Minted

\* A request that ends with meta rows ms.
LEMMA WriteStep ==
    ASSUME SessionInv, NEW w \in Workers, Finish(w), UNCHANGED <<now, user, minted, expire>>,
           NEW ms, SetMetas(ms), GoodRows(ms, minted, Tokens, now), Follows(metas, ms, now),
           UNCHANGED cleanup, sessions' \subseteq sessions, userSessions' \subseteq minted
    PROVE  SessionStep
<1>1. minted' = minted  OBVIOUS
<1>2. GoodRows(ms, minted', Tokens, now)  BY <1>1
<1> QED
  BY <1>1, <1>2, FinishStep, NoSessionStep, RowStep, NoCleanupStep
  DEF SessionStep, SessionInv, SessionTypes

\* The handlers that only touch keep every tombstone.
LEMMA TouchOnlyStep == ASSUME SessionInv, NEW w \in Workers, TouchOnly(w)  PROVE SessionStep
<1>1. req[w].op # "idle"  BY DEF TouchOnly, Running
<1> QED  BY <1>1, TouchedGood, WriteStep DEF TouchOnly

\* The session list keeps every tombstone.
LEMMA ListSessionsStep == ASSUME SessionInv, NEW w \in Workers, ListSessions(w)  PROVE SessionStep
<1>1. req[w].op # "idle"  BY DEF ListSessions, Running
<1>2. userSessions' \subseteq minted  BY <1>1, TouchedGood DEF ListSessions
<1> QED  BY <1>1, <1>2, TouchedGood, WriteStep DEF ListSessions

\* The issue of a pair keeps every tombstone.
LEMMA JwtStep == ASSUME SessionInv, NEW w \in Workers, JwtFromSession(w)  PROVE SessionStep
<1>1. req[w].op # "idle"  BY DEF JwtFromSession, Running
<1> QED  BY <1>1, TouchedGood, WriteStep DEF JwtFromSession

\* A logout keeps every tombstone, and makes one of the current time at most.
LEMMA LogoutStep == ASSUME SessionInv, NEW w \in Workers, Logout(w)  PROVE SessionStep
<1> DEFINE key == CurrentKey(metas, req[w].token, req[w].cookie)
           ms == LogoutKey(metas, lastPk, key, req[w].token, now)
<1>1. req[w].op # "idle"  BY DEF Logout, Running
<1>2. /\ Finish(w) /\ UNCHANGED <<now, user, minted, expire>> /\ UNCHANGED cleanup
      /\ sessions' \subseteq sessions /\ userSessions' = userSessions
      /\ IF key = Null THEN UNCHANGED metaVars ELSE SetMetas(ms)
  BY DEF Logout
<1>3. CASE key = Null
  BY <1>2, <1>3, PlainStep
<1>4. CASE key # Null
  <2>1. GoodRows(metas, minted, Tokens, now)  BY DEF SessionInv, Minted
  <2>2. key \in minted /\ (key \in Tokens => key = req[w].token)
    BY <1>1, <1>4, <2>1, CurrentKeyGood
  <2>3. GoodRows(ms, minted, Tokens, now) /\ Follows(metas, ms, now)
    <3> HIDE DEF key
    <3> QED  BY <1>1, <2>1, <2>2, LogoutKeyGood, RequestKeys, KeySets
  <2>4. userSessions' \subseteq minted  BY <1>2 DEF SessionInv, Minted
  <2> QED
    <3> HIDE DEF ms, key
    <3> QED  BY <1>2, <1>4, <2>3, <2>4, WriteStep
<1> QED  BY <1>3, <1>4

\* A revocation of generated keys, on top of the touch of the request.
LEMMA RevocationStep ==
    ASSUME SessionInv, NEW w \in Workers, req[w].op # "idle", NEW keys \in SUBSET minted,
           RevokeSessionKeys(Touched(w), lastPk + NumKeys, sessions, TouchedSessions(w), keys),
           Finish(w), UNCHANGED <<now, user, minted, expire, cleanup>>
    PROVE  SessionStep
<1> DEFINE ms == RevokeKeys(Touched(w), lastPk + NumKeys, keys, now)
<1>1. SetMetas(ms) /\ sessions' \subseteq sessions /\ userSessions' \subseteq TouchedSessions(w)
  BY DEF RevokeSessionKeys
<1>2. lastPk + NumKeys \in Nat  BY RequestKeys, NumKeysAssumption
<1>3. GoodRows(ms, minted, Tokens, now) /\ Follows(Touched(w), ms, now)
  BY <1>2, TouchedGood, RequestKeys, KeySets, RevokeKeysGood
<1>4. Follows(metas, ms, now)
  <2>1. GoodRows(metas, minted, Tokens, now)  BY DEF SessionInv, Minted
  <2> QED  BY <1>3, <2>1, TouchedGood, RequestKeys, FollowsTransitive
<1> HIDE DEF ms
<1> QED  BY <1>1, <1>3, <1>4, TouchedGood, WriteStep

\* What a revocation may name was generated.
LEMMA RevocableGood ==
    ASSUME SessionInv, NEW ms, GoodRows(ms, minted, Tokens, now), NEW us \in SUBSET minted
    PROVE  Revocable(ms, us) \subseteq minted
BY DEF Revocable, GoodRows

\* The revocation of one session.
LEMMA RevokeSingleStep ==
    ASSUME SessionInv, NEW w \in Workers, NEW sid \in Keys, RevokeSingle(w, sid)
    PROVE  SessionStep
<1>1. req[w].op # "idle"  BY DEF RevokeSingle, Running
<1>2. {sid} \in SUBSET minted
  BY <1>1, TouchedGood DEF RevokeSingle, ByKey, GoodRows
<1> QED  BY <1>1, <1>2, RevocationStep DEF RevokeSingle

\* The revocation of listed sessions.
LEMMA RevokeListedStep ==
    ASSUME SessionInv, NEW w \in Workers, NEW ids, RevokeListed(w, ids)
    PROVE  SessionStep
<1>1. req[w].op # "idle"  BY DEF RevokeListed, Running
<1>2. ids \cap Revocable(Touched(w), TouchedSessions(w)) \in SUBSET minted
  BY <1>1, TouchedGood, RevocableGood
<1> QED  BY <1>1, <1>2, RevocationStep DEF RevokeListed

\* The revocation of all sessions but the current one.
LEMMA RevokeOthersStep ==
    ASSUME SessionInv, NEW w \in Workers, RevokeOthers(w)
    PROVE  SessionStep
<1> DEFINE current == CurrentKey(Touched(w), req[w].token, req[w].cookie)
           keys == Revocable(Touched(w), TouchedSessions(w)) \ {current}
<1>1. req[w].op # "idle"  BY DEF RevokeOthers, Running
<1>2. keys \in SUBSET minted
  BY <1>1, TouchedGood, RevocableGood
<1>3. /\ RevokeSessionKeys(Touched(w), lastPk + NumKeys, sessions, TouchedSessions(w), keys)
      /\ Finish(w) /\ UNCHANGED <<now, user, minted, expire, cleanup>>
  BY DEF RevokeOthers
<1> HIDE DEF keys
<1> QED  BY <1>1, <1>2, <1>3, RevocationStep

\* The three meta row updates of a password change, and the keys that it revokes.
LEMMA ChangePasswordStep ==
    ASSUME SessionInv, NEW w \in Workers, NEW fresh \in Cookies \ minted, NEW logoutToo \in BOOLEAN,
           ChangePassword(w, fresh, logoutToo)
    PROVE  SessionStep
<1> DEFINE t == req[w].token
           c == req[w].cookie
           ms == Touch(Touched(w), lastPk + NumKeys, t, fresh, now)
           us == TouchedSessions(w) \cup {fresh}
           others == Revocable(ms, us) \ {fresh}
           after == RevokeKeys(ms, lastPk + 2 * NumKeys, others, now)
           end == IF logoutToo THEN LogoutKey(after, lastPk, fresh, t, now) ELSE after
           K == minted \cup {fresh}
<1>1. req[w].op # "idle"  BY DEF ChangePassword, Running
<1>2. /\ SetMetas(end) /\ Finish(w) /\ UNCHANGED <<now, user, cleanup>>
      /\ minted' = K /\ expire' = [expire EXCEPT ![fresh] = now + SessionTTL]
      /\ sessions' \subseteq sessions \cup {fresh} /\ userSessions' \subseteq us
      /\ sessions' = (sessions \ ({c} \cup others)) \cup (IF logoutToo THEN {} ELSE {fresh})
  BY DEF ChangePassword
<1>3. /\ K \in SUBSET Keys /\ fresh \in K /\ fresh \notin Tokens /\ fresh \in Keys /\ fresh # Null
      /\ t \in Keys /\ now \in Nat /\ now \in Nat \ {0} /\ Tokens \in SUBSET Keys
      /\ lastPk \in Nat /\ lastPk + NumKeys \in Nat /\ lastPk + 2 * NumKeys \in Nat
  BY <1>1, RequestKeys, KeySets, NumKeysAssumption
<1>4. GoodRows(metas, K, Tokens, now) /\ GoodRows(Touched(w), K, Tokens, now)
      /\ Follows(metas, Touched(w), now) /\ TouchedSessions(w) \subseteq K
  BY <1>1, TouchedGood DEF GoodRows, SessionInv, Minted
<1>5. GoodRows(ms, K, Tokens, now) /\ Follows(Touched(w), ms, now)
  <2>1. TouchKey(t, fresh) = fresh  BY <1>3 DEF TouchKey
  <2>2. TouchKey(t, fresh) \in K /\ TouchKey(t, fresh) \notin Tokens  BY <1>3, <2>1
  <2> DEFINE base == lastPk + NumKeys
             from == Touched(w)
  <2>3. base \in Nat /\ GoodRows(from, K, Tokens, now)  BY <1>3, <1>4
  <2> HIDE DEF K, base, from
  <2>4. GoodRows(Touch(from, base, t, fresh, now), K, Tokens, now)
        /\ Follows(from, Touch(from, base, t, fresh, now), now)
    BY <1>3, <2>2, <2>3, TouchGood
  <2> QED  BY <2>4 DEF base, from
<1>6. others \in SUBSET K
  <2> HIDE DEF ms
  <2> QED  BY <1>3, <1>4, <1>5 DEF Revocable, GoodRows
<1>7. GoodRows(after, K, Tokens, now) /\ Follows(ms, after, now)
  <2> HIDE DEF ms, others, K
  <2> QED  BY <1>3, <1>5, <1>6, RevokeKeysGood
<1>8. GoodRows(end, K, Tokens, now) /\ Follows(after, end, now)
  <2> HIDE DEF after, K
  <2>1. CASE logoutToo
    BY <1>3, <1>7, <2>1, LogoutKeyGood
  <2>2. CASE ~logoutToo
    BY <1>7, <2>2, FollowsReflexive DEF GoodRows
  <2> QED  BY <2>1, <2>2
<1>9. Follows(metas, end, now)
  <2> HIDE DEF ms, after, end, K
  <2>1. Follows(metas, ms, now)  BY <1>3, <1>4, <1>5, FollowsTransitive
  <2>2. Follows(metas, after, now)  BY <1>3, <1>4, <1>5, <1>7, <2>1, FollowsTransitive
  <2> QED  BY <1>3, <1>4, <1>7, <1>8, <2>2, FollowsTransitive
<1> HIDE DEF ms, after, end, others
<1>10. /\ lastPk' \in Nat /\ GoodRows(metas', minted', Tokens, now) /\ Follows(metas, metas', now)
       /\ barred' = barred \cup {m.session_key : m \in {m \in metas' : Revoked(m)}}
  BY <1>2, <1>8, <1>9, RowStep
<1>11. sessions \subseteq minted /\ fresh \notin sessions /\ fresh \notin minted /\ fresh \in Keys
  BY <1>3 DEF SessionInv, SessionTypes
<1>12. /\ expire' \in [Keys -> Nat] /\ \A k \in sessions : expire'[k] = expire[k]
       /\ \A k \in Keys : expire'[k] <= now + SessionTTL
  BY <1>2, <1>3, <1>11, KeySets DEF SessionInv, SessionTypes, Clocks
<1>13. /\ sessions' \subseteq minted' /\ sessions' \cap minted \subseteq sessions
       /\ userSessions' \subseteq minted' /\ minted \subseteq minted' /\ minted' \subseteq Keys
  BY <1>2, <1>3, <1>4, <1>11
<1>14. /\ now' = now /\ user' \in {"active", "disabled", "deleted"}
       /\ user = "deleted" => user' = "deleted"
  BY <1>2 DEF SessionInv, SessionTypes
<1> QED
  BY <1>2, <1>10, <1>12, <1>13, <1>14, FinishStep, NoCleanupStep DEF SessionStep

----------------------------------------------------------------------------
(* Logins, operators and the maintenance steps that delete no tombstone.   *)

\* A new session has a key that nothing has barred.
LEMMA NewSessionStep ==
    ASSUME SessionInv, NEW key \in Keys \ minted, NewSession(key),
           userSessions' \subseteq userSessions \cup {key},
           UNCHANGED <<now, user, metaVars, req, cleanup>>
    PROVE  SessionStep
<1>1. /\ minted' = minted \cup {key} /\ sessions' = sessions \cup {key}
      /\ expire' = [expire EXCEPT ![key] = now + SessionTTL]
  BY DEF NewSession
<1>2. sessions \subseteq minted /\ userSessions \subseteq minted /\ minted \subseteq Keys
      /\ now \in Nat /\ expire \in [Keys -> Nat] /\ user \in {"active", "disabled", "deleted"}
  BY DEF SessionInv, SessionTypes, Minted
<1>3. expire' \in [Keys -> Nat] /\ (\A k \in sessions : expire'[k] = expire[k])
      /\ \A k \in Keys : expire'[k] <= now + SessionTTL
  BY <1>1, <1>2, KeySets DEF SessionInv, Clocks
<1>4. minted \subseteq minted' /\ minted' \subseteq Keys /\ sessions' \subseteq minted'
      /\ sessions' \cap minted \subseteq sessions /\ userSessions' \subseteq minted'
  BY <1>1, <1>2
<1> QED
  BY <1>2, <1>3, <1>4, NoRequestStep, NoRowStep, NoCleanupStep DEF SessionStep

\* A login.
LEMMA LoginStep == ASSUME SessionInv, NEW k \in Keys, Login(k)  PROVE SessionStep
BY NewSessionStep DEF Login

\* A session behind a cookie.
LEMMA StartCookieStep == ASSUME SessionInv, NEW k \in Keys, StartCookie(k)  PROVE SessionStep
BY NewSessionStep DEF StartCookie

\* A step of an operator or of maintenance that ends sessions at most.
LEMMA QuietStep ==
    ASSUME SessionInv, UNCHANGED <<now, minted, expire, metaVars, req>>,
           sessions' \subseteq sessions, userSessions' \subseteq userSessions,
           user' \in {"active", "disabled", "deleted"}, user = "deleted" => user' = "deleted",
           cleanup' \in [step : CleanupSteps, at : Nat], cleanup'.at <= now
    PROVE  SessionStep
BY NoRequestStep, NoRowStep DEF SessionStep, SessionInv, SessionTypes, Minted, Clocks

\* Where a statement of the maintenance cycle leads.
LEMMA AdvanceStep ==
    ASSUME SessionInv, NEW from, NEW to \in CleanupSteps, Advance(from, to)
    PROVE  cleanup' \in [step : CleanupSteps, at : Nat] /\ cleanup'.at <= now
           /\ cleanup'.at = cleanup.at
BY DEF SessionInv, SessionTypes, Clocks, Advance

\* The cut-over deletes every session and revokes every meta row.
LEMMA InvalidateStep == ASSUME SessionInv, InvalidateLegacy  PROVE SessionStep
<1>1. /\ sessions' = {} /\ userSessions' = {}
      /\ metas' = {IF Revoked(m) THEN m ELSE [m EXCEPT !.revoked_at = now] : m \in metas}
      /\ barred' = barred \cup {m.session_key : m \in metas}
      /\ UNCHANGED <<now, user, minted, expire, lastPk, req, cleanup>>
  BY DEF InvalidateLegacy
<1> DEFINE End(m) == IF Revoked(m) THEN m ELSE [m EXCEPT !.revoked_at = now]
<1>2. ASSUME NEW m \in metas
      PROVE  /\ End(m) \in MetaRows /\ End(m).session_key = m.session_key /\ Revoked(End(m))
             /\ m.revoked_at <= End(m).revoked_at /\ End(m).revoked_at <= now
             /\ End(m).digest = m.digest /\ (Revoked(m) \/ End(m).revoked_at = now)
             /\ m.session_key \in minted
             /\ m.session_key \in Tokens => m.digest \in {Null, Digest(m.session_key)}
  BY DEF SessionInv, SessionTypes, Minted, GoodRows, MetaRows, Revoked, Null
<1> HIDE DEF End
<1>3. metas' = {End(m) : m \in metas}
  BY <1>1 DEF End
<1>4. GoodRows(metas', minted', Tokens, now)
  BY <1>1, <1>2, <1>3 DEF GoodRows
<1>5. Follows(metas, metas', now)
  BY <1>2, <1>3 DEF Follows, TombstonesKept, TombstonesNew
<1>6. barred' = barred \cup {m.session_key : m \in {m \in metas' : Revoked(m)}}
  BY <1>1, <1>2, <1>3
<1> QED
  BY <1>1, <1>4, <1>5, <1>6, NoSessionStep, NoRequestStep, NoCleanupStep
  DEF SessionStep, SessionInv, SessionTypes

----------------------------------------------------------------------------
(* The steps that do move the clock, extend a session or delete tombstones.*)

\* A save may extend a session that was barred meanwhile, but not past its tombstone:
\* the request began before the revocation and ends within the request timeout.
LEMMA SaveSessionInv == ASSUME SessionInv, NEW w \in Workers, SaveSession(w)  PROVE SessionInv'
<1> DEFINE s == req[w].token
<1>1. /\ req[w].op = "save" /\ user # "deleted" /\ s \in sessions
      /\ expire' = [expire EXCEPT ![s] = now + SessionTTL]
      /\ Finish(w) /\ UNCHANGED <<now, user, minted, sessions, userSessions, cleanup>>
      /\ metas' = metas /\ lastPk' = lastPk /\ barred' = barred
  BY DEF SaveSession, Running, metaVars
<1>2. /\ s \in Keys /\ now \in Nat /\ req[w].at \in Nat /\ req[w].at <= now
      /\ now <= req[w].at + RequestTimeout
  BY <1>1, RequestKeys DEF SessionInv, SessionTypes, Clocks
<1>3. /\ req' \in [Workers -> [op : AllHandlers \cup {"idle"}, token : Tokens \cup {Null},
                               cookie : Cookies \cup {Null}, jti : JtiIds \cup {Null}, at : Nat]]
      /\ \A v \in Workers : v # w => req'[v] = req[v]
      /\ req'[w].op = "idle"
  BY <1>1, FinishStep DEF Finish, SessionInv, SessionTypes, Idle
<1>4. SessionTypes'
  BY <1>1, <1>2, <1>3, KeySets DEF SessionInv, SessionTypes
<1>5. Minted'
  BY <1>1, <1>3 DEF SessionInv, Minted
<1>6. Clocks'
  BY <1>1, <1>2, <1>3, KeySets DEF SessionInv, Clocks, SessionTypes
<1>7. RevokedBarred'
  BY <1>1 DEF SessionInv, RevokedBarred
<1>8. ASSUME NEW k \in barred, k \in sessions  PROVE Gone(k)' \/ Tombstone(k)'
  <2>1. \A v \in Workers : Saving(v, k)' => Saving(v, k) /\ req'[v] = req[v]
    BY <1>3 DEF Saving
  <2>2. CASE k = s
    <3>1. Saving(w, k)  BY <1>1, <2>2 DEF Saving
    <3>2. Tombstone(k)
      BY <1>1, <1>8, <3>1 DEF SessionInv, BarredEnd, Gone
    <3>3. PICK m \in metas : m.session_key = k /\ Revoked(m) /\ Outlives(m, k)
      BY <3>2 DEF Tombstone
    <3>4. m.revoked_at \in Nat /\ req[w].at <= m.revoked_at
      BY <3>1, <3>3 DEF Outlives, SessionInv, Minted, GoodRows, MetaRows
    <3>5. expire'[k] = now + SessionTTL
      BY <1>1, <1>2, <2>2 DEF SessionInv, SessionTypes
    <3>6. expire'[k] <= m.revoked_at + SessionTTL + RequestTimeout
      BY <1>2, <3>4, <3>5, KeySets
    <3> QED  BY <1>1, <2>1, <3>3, <3>6 DEF Tombstone, Outlives
  <2>3. CASE k # s
    <3>1. k \in Keys /\ expire'[k] = expire[k]
      BY <1>1, <1>2, <2>3 DEF SessionInv, SessionTypes, Minted
    <3>2. CASE Gone(k)
      BY <1>1, <1>8, <2>1, <3>1, <3>2 DEF Gone
    <3>3. CASE Tombstone(k)
      BY <1>1, <2>1, <3>1, <3>3 DEF Tombstone, Outlives
    <3> QED  BY <1>1, <1>8, <3>2, <3>3 DEF SessionInv, BarredEnd
  <2> QED  BY <2>2, <2>3
<1>9. BarredEnd'
  BY <1>1, <1>8 DEF BarredEnd, Gone
<1> QED  BY <1>4, <1>5, <1>6, <1>7, <1>9 DEF SessionInv

\* Time passes, and no request outlives the timeout.
LEMMA TickInv == ASSUME SessionInv, Tick  PROVE SessionInv'
<1>1. /\ now' = now + 1
      /\ \A w \in Workers : req[w] # Idle => now < req[w].at + RequestTimeout
      /\ UNCHANGED <<user, req, cleanup, minted, sessions, expire, userSessions>>
      /\ metas' = metas /\ lastPk' = lastPk /\ barred' = barred
  BY DEF Tick, rowVars, metaVars
<1>2. SessionTypes'
  BY <1>1 DEF SessionInv, SessionTypes
<1>3. Minted'
  BY <1>1 DEF SessionInv, SessionTypes, Minted, GoodRows, MetaRows
<1>4. Clocks'
  <2>1. \A w \in Workers : req[w].op # "idle" => req[w] # Idle
    BY DEF Idle
  <2> QED  BY <1>1, <2>1, KeySets DEF SessionInv, SessionTypes, Clocks
<1>5. RevokedBarred' /\ BarredEnd'
  BY <1>1 DEF SessionInv, SessionTypes, Minted, RevokedBarred, BarredEnd, Gone, Tombstone, Outlives,
              Saving
<1> QED  BY <1>2, <1>3, <1>4, <1>5 DEF SessionInv

\* The deletion of the account takes every tombstone with the user.
LEMMA DeleteAccountInv == ASSUME SessionInv, NEW w \in Workers, DeleteAccount(w)  PROVE SessionInv'
<1>1. /\ user' = "deleted" /\ metas' = {} /\ userSessions' = {} /\ sessions' \subseteq sessions
      /\ UNCHANGED <<now, minted, expire, lastPk, barred, cleanup>> /\ Finish(w)
  BY DEF DeleteAccount
<1>2. /\ req' \in [Workers -> [op : AllHandlers \cup {"idle"}, token : Tokens \cup {Null},
                               cookie : Cookies \cup {Null}, jti : JtiIds \cup {Null}, at : Nat]]
      /\ \A v \in Workers : req'[v] = req[v] \/ req'[v].op = "idle"
  BY <1>1, FinishStep DEF Finish, SessionInv, SessionTypes, Idle
<1>3. SessionTypes' /\ Clocks'
  BY <1>1, <1>2 DEF SessionInv, SessionTypes, Clocks
<1>4. Minted'
  BY <1>1, <1>2 DEF SessionInv, Minted, GoodRows
<1> QED  BY <1>1, <1>3, <1>4 DEF SessionInv, RevokedBarred, BarredEnd

\* A deletion of meta rows: the invariant only depends on what happens to the tombstones.
LEMMA PurgeMetasInv ==
    ASSUME SessionInv, metas' \subseteq metas, UNCHANGED <<now, user, minted, sessions, expire>>,
           UNCHANGED <<userSessions, lastPk, barred, req>>,
           cleanup' \in [step : CleanupSteps, at : Nat], cleanup'.at <= now,
           \A m \in metas \ metas' : Revoked(m) /\ Outlives(m, m.session_key) => Gone(m.session_key)
    PROVE  SessionInv'
<1>1. SessionTypes' /\ Clocks'
  BY DEF SessionInv, SessionTypes, Clocks
<1>2. Minted' /\ RevokedBarred'
  BY DEF SessionInv, Minted, GoodRows, RevokedBarred
<1>3. ASSUME NEW k \in barred, user # "deleted"  PROVE Gone(k)' \/ Tombstone(k)'
  <2>1. Gone(k) => Gone(k)'
    BY DEF Gone, Saving
  <2>2. CASE Tombstone(k)
    BY <2>1, <2>2 DEF Tombstone, Outlives, Saving
  <2> QED  BY <1>3, <2>1, <2>2 DEF SessionInv, BarredEnd
<1> QED  BY <1>1, <1>2, <1>3 DEF SessionInv, BarredEnd

\* A meta row whose session is gone may go: the session does not come back.
LEMMA PurgeExpiredInv == ASSUME SessionInv, PurgeExpiredMetas  PROVE SessionInv'
<1>1. cleanup' \in [step : CleanupSteps, at : Nat] /\ cleanup'.at <= now
  BY AdvanceStep DEF PurgeExpiredMetas, CleanupSteps
<1>2. /\ metas' = {m \in metas : m.session_key \in sessions
                                 \/ m.last_seen >= Past(SessionRetention)}
      /\ UNCHANGED <<now, user, minted, sessions, expire>>
      /\ UNCHANGED <<userSessions, lastPk, barred, req>>
  BY DEF PurgeExpiredMetas
<1>3. \A m \in metas \ metas' : Gone(m.session_key)
  BY <1>2 DEF Gone
<1> QED  BY <1>1, <1>2, <1>3, PurgeMetasInv

\* The retention is long enough: a tombstone past it has outlived the session and every
\* request that was in progress when it was made.
LEMMA PurgeRevokedInv == ASSUME SessionInv, PurgeRevokedMetas  PROVE SessionInv'
<1>1. cleanup' \in [step : CleanupSteps, at : Nat] /\ cleanup'.at <= now
  BY AdvanceStep DEF PurgeRevokedMetas, CleanupSteps
<1>2. /\ metas' = {m \in metas : Revoked(m) => m.revoked_at >= Past(SessionRetention)}
      /\ UNCHANGED <<now, user, minted, sessions, expire>>
      /\ UNCHANGED <<userSessions, lastPk, barred, req>>
  BY DEF PurgeRevokedMetas
<1>3. ASSUME NEW m \in metas \ metas', Revoked(m), Outlives(m, m.session_key)
      PROVE  Gone(m.session_key)
  <2> DEFINE k == m.session_key
  <2>1. /\ m.revoked_at \in Nat /\ now \in Nat /\ cleanup.at \in Nat /\ cleanup.at <= now
        /\ k \in Keys /\ expire[k] \in Nat
    BY DEF SessionInv, SessionTypes, Clocks, Minted, GoodRows, MetaRows
  <2>2. m.revoked_at + SessionRetention < cleanup.at
    BY <1>2, <1>3, <2>1, KeySets DEF Past
  <2>3. expire[k] <= now /\ m.revoked_at + RequestTimeout < now
    BY <1>3, <2>1, <2>2, KeySets DEF Outlives
  <2>4. ASSUME NEW w \in Workers, Saving(w, k)  PROVE FALSE
    <3>1. req[w].at <= m.revoked_at /\ req[w].at \in Nat /\ now <= req[w].at + RequestTimeout
      BY <1>3, <2>4 DEF Outlives, Saving, SessionInv, SessionTypes, Clocks
    <3> QED  BY <2>1, <2>3, <3>1, KeySets
  <2> QED  BY <2>1, <2>3, <2>4 DEF Gone
<1> QED  BY <1>1, <1>2, <1>3, PurgeMetasInv

----------------------------------------------------------------------------
\* Every step of the specification preserves the invariant of the sessions.
LEMMA HandleInv ==
    ASSUME SessionInv, issued \subseteq JtiIds, NEW w \in Workers, Handle(w)  PROVE SessionInv'
<1>1. CASE Arrive(w)           BY <1>1, ArriveStep, SessionStepInv
<1>2. CASE ArriveRefresh(w)    BY <1>2, ArriveRefreshStep, SessionStepInv
<1>3. CASE Abort(w)            BY <1>3, PlainStep, SessionStepInv DEF Abort, rowVars
<1>4. CASE TouchOnly(w)        BY <1>4, TouchOnlyStep, SessionStepInv
<1>5. CASE ListSessions(w)     BY <1>5, ListSessionsStep, SessionStepInv
<1>6. CASE JwtFromSession(w)   BY <1>6, JwtStep, SessionStepInv
<1>7. CASE RefreshPair(w)      BY <1>7, PlainStep, SessionStepInv DEF RefreshPair, rowVars
<1>8. CASE Logout(w)           BY <1>8, LogoutStep, SessionStepInv
<1>9. CASE \E sid \in Keys : RevokeSingle(w, sid)
  BY <1>9, RevokeSingleStep, SessionStepInv
<1>10. CASE \E ids \in SUBSET Keys \ {{}} : RevokeListed(w, ids)
  BY <1>10, RevokeListedStep, SessionStepInv
<1>11. CASE RevokeOthers(w)    BY <1>11, RevokeOthersStep, SessionStepInv
<1>12. CASE \E fresh \in Cookies \ minted, logoutToo \in BOOLEAN :
               ChangePassword(w, fresh, logoutToo)
  BY <1>12, ChangePasswordStep, SessionStepInv
<1>13. CASE DeleteAccount(w)   BY <1>13, DeleteAccountInv
<1>14. CASE SaveSession(w)     BY <1>14, SaveSessionInv
<1> QED
  BY <1>1, <1>2, <1>3, <1>4, <1>5, <1>6, <1>7, <1>8, <1>9, <1>10, <1>11, <1>12, <1>13, <1>14
  DEF Handle

\* Every maintenance step preserves the invariant of the sessions.
LEMMA MaintainInv == ASSUME SessionInv, Maintain  PROVE SessionInv'
<1>1. CASE ClearSessions
  BY <1>1, QuietStep, SessionStepInv
  DEF ClearSessions, CleanupSteps, SessionInv, SessionTypes
<1>2. CASE PurgeUserSessions
  BY <1>2, AdvanceStep, QuietStep, SessionStepInv
  DEF PurgeUserSessions, CleanupSteps, SessionInv, SessionTypes
<1>3. CASE PurgeExpiredMetas   BY <1>3, PurgeExpiredInv
<1>4. CASE PurgeRevokedMetas   BY <1>4, PurgeRevokedInv
<1>5. CASE PurgeBlacklisted
  BY <1>5, AdvanceStep, QuietStep, SessionStepInv
  DEF PurgeBlacklisted, rowVars, CleanupSteps, SessionInv, SessionTypes
<1>6. CASE PurgeOutstanding
  BY <1>6, AdvanceStep, QuietStep, SessionStepInv
  DEF PurgeOutstanding, rowVars, CleanupSteps, SessionInv, SessionTypes
<1>7. CASE PurgeMappings
  BY <1>7, AdvanceStep, QuietStep, SessionStepInv
  DEF PurgeMappings, rowVars, CleanupSteps, SessionInv, SessionTypes
<1>8. CASE CleanupFails
  BY <1>8, QuietStep, SessionStepInv
  DEF CleanupFails, rowVars, CleanupSteps, SessionInv, SessionTypes, Clocks
<1>9. CASE InvalidateLegacy    BY <1>9, InvalidateStep, SessionStepInv
<1> QED
  BY <1>1, <1>2, <1>3, <1>4, <1>5, <1>6, <1>7, <1>8, <1>9 DEF Maintain

\* Every step of the specification preserves the invariant of the sessions.
LEMMA SessionNext == SessionInv /\ issued \subseteq JtiIds /\ [Next]_vars => SessionInv'
<1> SUFFICES ASSUME SessionInv, issued \subseteq JtiIds, [Next]_vars  PROVE SessionInv'
  OBVIOUS
<1>1. CASE \E w \in Workers : Handle(w)   BY <1>1, HandleInv
<1>2. CASE \E k \in Keys : Login(k) \/ StartCookie(k)
  BY <1>2, LoginStep, StartCookieStep, SessionStepInv
<1>3. CASE Disable \/ Enable
  BY <1>3, QuietStep, SessionStepInv
  DEF Disable, Enable, rowVars, SessionInv, SessionTypes, Clocks
<1>4. CASE Tick                           BY <1>4, TickInv
<1>5. CASE Maintain                       BY <1>5, MaintainInv
<1>6. CASE UNCHANGED vars
  BY <1>6, QuietStep, SessionStepInv
  DEF vars, rowVars, SessionInv, SessionTypes, Clocks
<1> QED  BY <1>1, <1>2, <1>3, <1>4, <1>5, <1>6 DEF Next

----------------------------------------------------------------------------
(* The refresh token pairs.                                                *)

PairTypes ==
    /\ exp \in Seq(Nat) /\ Len(exp) <= MaxJti
    /\ mappings \subseteq MappingRows(issued)
    /\ outstanding \subseteq issued /\ blacklisted \subseteq outstanding /\ spent \subseteq issued

\* Two mappings never hold one refresh token (refresh_jti is unique).
OneMapping == \A p, q \in mappings : p.refresh_jti = q.refresh_jti => p = q

ExpiryMirrored == \A p \in mappings : p.expires_at = exp[p.refresh_jti]

PairInv == /\ PairTypes /\ OneMapping /\ ExpiryMirrored
           /\ SpentTokensUnmapped /\ SpentTokensBlacklisted /\ LivePairUsable

\* Every session token of the account that still has its django row has allauth's row:
\* whatever deletes the UserSession of a token has deleted its session first.
TokensListed == user # "deleted" => sessions \cap Tokens \subseteq userSessions

Inv == SessionInv /\ PairInv /\ TokensListed

----------------------------------------------------------------------------
\* Issued refresh token ids are ids.
LEMMA IssuedIds == PairTypes => issued \subseteq JtiIds /\ issued \subseteq Nat
BY KeySets DEF PairTypes, issued, JtiIds

\* The expiry of an issued token is a time.
LEMMA ExpType == ASSUME PairTypes, NEW j \in issued  PROVE exp[j] \in Nat
BY DEF PairTypes, issued

\* No pair is there at first.
LEMMA PairInit == Init => PairInv
BY KeySets DEF Init, PairInv, PairTypes, OneMapping, ExpiryMirrored, SpentTokensUnmapped,
               SpentTokensBlacklisted, LivePairUsable, issued

\* Nothing happens to the pairs but that time may pass.
LEMMA PairQuiet ==
    ASSUME PairInv, UNCHANGED pairVars, now \in Nat, now' \in Nat, now <= now'
    PROVE  PairInv'
<1>1. /\ mappings' = mappings /\ outstanding' = outstanding /\ blacklisted' = blacklisted
      /\ exp' = exp /\ spent' = spent /\ issued' = issued
  BY DEF pairVars, issued
<1>2. \A j \in issued : now' < exp[j] => now < exp[j]
  BY ExpType DEF PairInv
<1>3. \A p \in mappings : p.refresh_jti \in issued
  BY DEF PairInv, PairTypes, MappingRows
<1>4. spent \subseteq issued
  BY DEF PairInv, PairTypes
<1>5. SpentTokensBlacklisted'
  BY <1>1, <1>2, <1>4 DEF PairInv, SpentTokensBlacklisted
<1>6. LivePairUsable'
  BY <1>1, <1>2, <1>3 DEF PairInv, LivePairUsable
<1>7. SpentTokensUnmapped' /\ PairTypes' /\ OneMapping' /\ ExpiryMirrored'
  BY <1>1 DEF PairInv, SpentTokensUnmapped, PairTypes, OneMapping, ExpiryMirrored
<1> QED  BY <1>5, <1>6, <1>7 DEF PairInv

----------------------------------------------------------------------------
(* Revocation.                                                             *)

\* A revoked mapping is the mapping it was, with a time of revocation.
LEMMA RevokedMappings ==
    ASSUME PairTypes, NEW keys, now \in Nat \ {0},
           NEW q \in RevokeMappings(mappings, keys, now)
    PROVE  \E p \in mappings :
              /\ q = p \/ q = [p EXCEPT !.revoked_at = now]
              /\ q \in MappingRows(issued) /\ p \in MappingRows(issued)
              /\ q.refresh_jti = p.refresh_jti /\ q.expires_at = p.expires_at
              /\ ~Revoked(q) => q = p /\ p \notin LiveMappings(mappings, keys)
<1>1. PICK p \in mappings :
        q = IF p \in LiveMappings(mappings, keys) THEN [p EXCEPT !.revoked_at = now] ELSE p
  BY DEF RevokeMappings
<1>2. p \in MappingRows(issued)  BY DEF PairTypes
<1>3. CASE p \in LiveMappings(mappings, keys)
  <2>1. q = [p EXCEPT !.revoked_at = now]  BY <1>1, <1>3
  <2>2. /\ q \in MappingRows(issued) /\ q.revoked_at = now
        /\ q.refresh_jti = p.refresh_jti /\ q.expires_at = p.expires_at
    BY <1>2, <2>1 DEF MappingRows
  <2> QED  BY <1>2, <2>1, <2>2 DEF Revoked, Null
<1>4. CASE p \notin LiveMappings(mappings, keys)
  BY <1>1, <1>2, <1>4
<1> QED  BY <1>3, <1>4

\* Ending the pairs of some session keys, as every revocation and logout does, keeps the invariant.
LEMMA RevokePairsInv ==
    ASSUME PairInv, NEW keys, RevokePairs(keys), now \in Nat \ {0}, now' = now
    PROVE  PairInv'
<1> DEFINE ended == Jtis(LiveMappings(mappings, keys))
<1>1. /\ blacklisted' = blacklisted \cup (ended \cap outstanding)
      /\ mappings' = RevokeMappings(mappings, keys, now) /\ spent' = spent \cup ended
      /\ outstanding' = outstanding /\ exp' = exp /\ issued' = issued
  BY DEF RevokePairs, issued
<1>2. PairTypes /\ OneMapping /\ ExpiryMirrored
  BY DEF PairInv
<1>3. ended \subseteq issued
  BY <1>2 DEF PairTypes, MappingRows, Jtis, LiveMappings
<1>4. ASSUME NEW p \in mappings, p \notin LiveMappings(mappings, keys), ~Revoked(p)
      PROVE  p.refresh_jti \notin ended
  BY <1>2, <1>4 DEF Jtis, LiveMappings, OneMapping
<1> HIDE DEF ended
<1>5. PairTypes'
  BY <1>1, <1>2, <1>3, RevokedMappings DEF PairTypes
<1>6. OneMapping'
  <2>1. SUFFICES ASSUME NEW q1 \in mappings', NEW q2 \in mappings', q1.refresh_jti = q2.refresh_jti
                 PROVE  q1 = q2
    BY DEF OneMapping
  <2>2. PICK p1 \in mappings :
          q1 = IF p1 \in LiveMappings(mappings, keys) THEN [p1 EXCEPT !.revoked_at = now] ELSE p1
    BY <1>1 DEF RevokeMappings
  <2>3. PICK p2 \in mappings :
          q2 = IF p2 \in LiveMappings(mappings, keys) THEN [p2 EXCEPT !.revoked_at = now] ELSE p2
    BY <1>1 DEF RevokeMappings
  <2>4. q1.refresh_jti = p1.refresh_jti /\ q2.refresh_jti = p2.refresh_jti
    BY <1>2, <2>2, <2>3 DEF PairTypes, MappingRows
  <2> QED  BY <1>2, <2>1, <2>2, <2>3, <2>4 DEF OneMapping
<1>7. ExpiryMirrored'
  BY <1>1, <1>2, RevokedMappings DEF ExpiryMirrored
<1>8. SpentTokensUnmapped'
  BY <1>1, <1>2, <1>4, RevokedMappings DEF PairInv, SpentTokensUnmapped
<1>9. SpentTokensBlacklisted'
  BY <1>1 DEF PairInv, SpentTokensBlacklisted
<1>10. LivePairUsable'
  BY <1>1, <1>2, <1>4, RevokedMappings DEF PairInv, LivePairUsable
<1> QED  BY <1>5, <1>6, <1>7, <1>8, <1>9, <1>10 DEF PairInv

----------------------------------------------------------------------------
(* Signing and rotation.                                                   *)

\* A newly signed token has an id that no row has held before.
LEMMA Signed ==
    ASSUME PairTypes, SignRefresh, now \in Nat
    PROVE  /\ NextJti \notin issued /\ NextJti \in issued' /\ issued' = issued \cup {NextJti}
           /\ exp' \in Seq(Nat) /\ Len(exp') <= MaxJti
           /\ \A j \in issued : exp'[j] = exp[j]
           /\ exp'[NextJti] = now + RefreshTTL
           /\ outstanding' = outstanding \cup {NextJti}
<1>1. exp' = Append(exp, now + RefreshTTL) /\ NextJti \in JtiIds
      /\ outstanding' = outstanding \cup {NextJti}
  BY DEF SignRefresh
<1>2. now + RefreshTTL \in Nat /\ exp \in Seq(Nat) /\ Len(exp) \in Nat
  BY KeySets DEF PairTypes
<1>3. /\ exp' \in Seq(Nat) /\ Len(exp') = Len(exp) + 1
      /\ \A j \in 1 .. Len(exp) : exp'[j] = exp[j]
      /\ exp'[Len(exp) + 1] = now + RefreshTTL
  BY <1>1, <1>2, AppendProperties
<1> QED  BY <1>1, <1>2, <1>3, KeySets DEF NextJti, issued, JtiIds

\* The row that a new pair is bound to is there, because the request has touched its
\* session.
LEMMA BoundMetaKey ==
    ASSUME SessionInv, NEW w \in Workers, Running(w, "jwt")
    PROVE  BoundMeta(Touched(w), req[w].token, req[w].cookie).session_key \in Keys
<1> DEFINE ms == Touched(w)
           t == req[w].token
           c == req[w].cookie
           key == TouchKey(t, c)
<1>1. req[w].op # "idle"  BY DEF Running
<1>2. GoodRows(ms, minted, Tokens, now)  BY <1>1, TouchedGood
<1>3. \E m \in ms : m.session_key = key /\ m.digest # Null /\ (key = t => m.digest = Digest(t))
  <2> DEFINE ns == GetOrCreate(metas, lastPk, key, Digest(t), now)
             Seen(m) == IF m.session_key = key
                        THEN [FillDigest(m, t) EXCEPT !.last_seen = now] ELSE m
  <2>1. PICK n \in ns : n.session_key = key
    <3>1. CASE ByKey(metas, key) = {}
      <4>1. NewMeta(lastPk, key, Digest(t), now) \in ns  BY <3>1 DEF GetOrCreate
      <4> QED  BY <4>1 DEF NewMeta
    <3>2. CASE ByKey(metas, key) # {}
      BY <3>2 DEF GetOrCreate, ByKey
    <3> QED  BY <3>1, <3>2
  <2>2. /\ GoodRows(ns, minted, Tokens, now)
        /\ key \in minted /\ (key \in Tokens => key = t)
    <3>1. key \in minted /\ (key \in Tokens => key = t)
      BY <1>1, RequestKeys, KeySets DEF TouchKey
    <3>2. GoodRows(metas, minted, Tokens, now)  BY DEF SessionInv, Minted
    <3> HIDE DEF key
    <3> QED  BY <1>1, <3>1, <3>2, RequestKeys, KeySets, GetOrCreateGood
  <2>3. /\ n \in MetaRows
        /\ key = t => n.digest \in {Null, Digest(t)}
    BY <1>1, <2>1, <2>2, RequestKeys DEF GoodRows
  <2>4. Digest(t) # Null /\ Digest(t) \in Digests
    BY <1>1, RequestKeys, DigestType
  <2>5. /\ Seen(n).session_key = key /\ Seen(n).digest # Null
        /\ key = t => Seen(n).digest = Digest(t)
    <3>1. FillDigest(n, t) = [n EXCEPT !.digest = IF n.digest = Null THEN Digest(t) ELSE n.digest]
      BY DEF FillDigest
    <3> HIDE DEF key, ns
    <3> QED  BY <2>1, <2>3, <2>4, <3>1 DEF MetaRows
  <2>6. Seen(n) \in ms
    BY DEF Touched, Touch
  <2> QED  BY <2>5, <2>6
<1> HIDE DEF ms
<1>4. CASE ByDigest(ms, t) # {}
  <2>1. First(ByDigest(ms, t)) \in ByDigest(ms, t)
    BY <1>2, <1>4, FirstIn DEF ByDigest, GoodRows, MetaRows
  <2> QED  BY <1>2, <1>4, <2>1 DEF BoundMeta, ms, ByDigest, GoodRows, MetaRows
<1>5. CASE ByDigest(ms, t) = {}
  <2>1. key # t /\ key = c
    BY <1>3, <1>5 DEF ByDigest, TouchKey
  <2>2. ByKey(ms, c) # {}
    BY <1>3, <2>1 DEF ByKey
  <2>3. First(ByKey(ms, c)) \in ByKey(ms, c)
    BY <1>2, <2>2, FirstIn DEF ByKey, GoodRows, MetaRows
  <2> QED  BY <1>2, <1>5, <2>3 DEF BoundMeta, ms, ByKey, GoodRows, MetaRows
<1> QED  BY <1>4, <1>5

\* Issuing a pair adds one live mapping, of a token that nothing has spent.
LEMMA JwtPairs == ASSUME SessionInv, PairInv, NEW w \in Workers, JwtFromSession(w)  PROVE PairInv'
<1> DEFINE key == BoundMeta(Touched(w), req[w].token, req[w].cookie).session_key
           new == [session_key |-> key, refresh_jti |-> NextJti,
                   expires_at |-> now + RefreshTTL, revoked_at |-> Null]
<1>1. /\ SignRefresh /\ mappings' = mappings \cup {new} /\ blacklisted' = blacklisted
      /\ spent' = spent /\ now' = now
  BY DEF JwtFromSession
<1>2. key \in Keys /\ now \in Nat
  BY BoundMetaKey DEF JwtFromSession, SessionInv, SessionTypes
<1> HIDE DEF key
<1>3. PairTypes /\ \A p \in mappings : p.refresh_jti \in issued
  BY DEF PairInv, PairTypes, MappingRows
<1>4. /\ NextJti \notin issued /\ issued' = issued \cup {NextJti}
      /\ exp' \in Seq(Nat) /\ Len(exp') <= MaxJti
      /\ \A j \in issued : exp'[j] = exp[j]
      /\ exp'[NextJti] = now + RefreshTTL /\ outstanding' = outstanding \cup {NextJti}
  BY <1>1, <1>2, <1>3, Signed
<1>5. now + RefreshTTL \in Nat  BY <1>2, KeySets
<1>6. PairTypes'
  BY <1>1, <1>2, <1>3, <1>4, <1>5 DEF PairTypes, MappingRows, Null
<1>7. OneMapping' /\ ExpiryMirrored'
  BY <1>1, <1>3, <1>4 DEF PairInv, OneMapping, ExpiryMirrored
<1>8. SpentTokensUnmapped'
  BY <1>1, <1>3, <1>4 DEF PairInv, PairTypes, SpentTokensUnmapped
<1>9. SpentTokensBlacklisted'
  BY <1>1, <1>3, <1>4 DEF PairInv, PairTypes, SpentTokensBlacklisted
<1>10. LivePairUsable'
  BY <1>1, <1>3, <1>4 DEF PairInv, PairTypes, LivePairUsable
<1> QED  BY <1>6, <1>7, <1>8, <1>9, <1>10 DEF PairInv

\* A rotation spends the presented token and moves its mapping to the new one.
LEMMA RefreshPairs == ASSUME SessionInv, PairInv, NEW w \in Workers, RefreshPair(w)  PROVE PairInv'
<1> DEFINE j == req[w].jti
<1>1. PICK p \in mappings :
        /\ p.refresh_jti = j /\ ~Revoked(p) /\ SignRefresh
        /\ blacklisted' = blacklisted \cup ({j} \cap outstanding)
        /\ mappings' = (mappings \ {p}) \cup
              {[p EXCEPT !.refresh_jti = NextJti, !.expires_at = now + RefreshTTL]}
        /\ spent' = spent \cup {j} /\ now' = now
  BY DEF RefreshPair
<1> DEFINE new == [p EXCEPT !.refresh_jti = NextJti, !.expires_at = now + RefreshTTL]
<1>2. now \in Nat /\ now + RefreshTTL \in Nat
  BY KeySets DEF SessionInv, SessionTypes
<1>3. PairTypes /\ \A q \in mappings : q.refresh_jti \in issued
  BY DEF PairInv, PairTypes, MappingRows
<1>4. /\ NextJti \notin issued /\ issued' = issued \cup {NextJti}
      /\ exp' \in Seq(Nat) /\ Len(exp') <= MaxJti
      /\ \A i \in issued : exp'[i] = exp[i]
      /\ exp'[NextJti] = now + RefreshTTL /\ outstanding' = outstanding \cup {NextJti}
  BY <1>1, <1>2, <1>3, Signed
<1>5. /\ new \in MappingRows(issued') /\ new.refresh_jti = NextJti
      /\ new.expires_at = now + RefreshTTL
  BY <1>2, <1>3, <1>4 DEF PairTypes, MappingRows
<1>6. j \in issued /\ \A q \in mappings \ {p} : q.refresh_jti # j
  BY <1>1, <1>3 DEF PairInv, OneMapping
<1>7. mappings' = (mappings \ {p}) \cup {new}
  BY <1>1
<1> HIDE DEF new, j
<1>8. PairTypes'
  BY <1>1, <1>3, <1>4, <1>5, <1>6, <1>7 DEF PairTypes, MappingRows
<1>9. OneMapping' /\ ExpiryMirrored'
  BY <1>3, <1>4, <1>5, <1>7 DEF PairInv, OneMapping, ExpiryMirrored
<1>10. SpentTokensUnmapped'
  BY <1>1, <1>3, <1>4, <1>5, <1>6, <1>7 DEF PairInv, PairTypes, SpentTokensUnmapped
<1>11. SpentTokensBlacklisted'
  BY <1>1, <1>3, <1>4, <1>6 DEF PairInv, PairTypes, SpentTokensBlacklisted
<1>12. LivePairUsable'
  BY <1>1, <1>3, <1>4, <1>5, <1>6, <1>7 DEF PairInv, PairTypes, LivePairUsable
<1> QED  BY <1>8, <1>9, <1>10, <1>11, <1>12 DEF PairInv

----------------------------------------------------------------------------
(* Deletions and the cut-over.                                             *)

\* The deletion of the account leaves no mapping.
LEMMA DeletePairs == ASSUME PairInv, NEW w \in Workers, DeleteAccount(w)  PROVE PairInv'
<1>1. /\ mappings' = {} /\ outstanding' = outstanding /\ blacklisted' = blacklisted
      /\ exp' = exp /\ spent' = spent /\ now' = now /\ issued' = issued
  BY DEF DeleteAccount, issued
<1> QED
  BY <1>1 DEF PairInv, PairTypes, OneMapping, ExpiryMirrored, SpentTokensUnmapped,
              SpentTokensBlacklisted, LivePairUsable

\* Rows that maintenance deletes from the bookkeeping are those of expired tokens.
LEMMA PurgeBookkeeping ==
    ASSUME SessionInv, PairInv, UNCHANGED <<now, mappings, exp, spent>>,
           outstanding' \subseteq outstanding, blacklisted' \subseteq blacklisted,
           blacklisted' \subseteq outstanding',
           \A j \in outstanding \ outstanding' : exp[j] < Past(TokenRetention),
           \A j \in blacklisted \ blacklisted' : exp[j] < Past(TokenRetention)
    PROVE  PairInv'
<1>1. now \in Nat /\ cleanup.at \in Nat /\ cleanup.at <= now /\ TokenRetention \in Nat
  BY KeySets DEF SessionInv, SessionTypes, Clocks
<1>2. \A j \in issued : now < exp[j] => ~(exp[j] < Past(TokenRetention))
  BY <1>1, ExpType DEF Past, PairInv
<1>3. issued' = issued
  BY DEF issued
<1>4. \A p \in mappings : p.refresh_jti \in issued
  BY DEF PairInv, PairTypes, MappingRows
<1>5. PairTypes' /\ OneMapping' /\ ExpiryMirrored' /\ SpentTokensUnmapped'
  BY <1>3 DEF PairInv, PairTypes, OneMapping, ExpiryMirrored, SpentTokensUnmapped
<1>6. SpentTokensBlacklisted'
  BY <1>2 DEF PairInv, PairTypes, SpentTokensBlacklisted
<1>7. LivePairUsable'
  BY <1>2, <1>4 DEF PairInv, PairTypes, LivePairUsable
<1> QED  BY <1>5, <1>6, <1>7 DEF PairInv

\* cleanup_auth_data, step 3, first statement.
LEMMA BlacklistPurged == ASSUME SessionInv, PairInv, PurgeBlacklisted  PROVE PairInv'
<1>1. /\ blacklisted' = {j \in blacklisted : exp[j] >= Past(TokenRetention)}
      /\ UNCHANGED <<now, mappings, exp, spent>> /\ outstanding' = outstanding
  BY DEF PurgeBlacklisted
<1>2. blacklisted \subseteq outstanding /\ \A j \in blacklisted : exp[j] \in Nat
  BY ExpType DEF PairInv, PairTypes
<1>3. Past(TokenRetention) \in Int
  BY KeySets DEF Past, SessionInv, SessionTypes
<1>4. \A j \in blacklisted \ blacklisted' : exp[j] < Past(TokenRetention)
  BY <1>1, <1>2, <1>3
<1> QED  BY <1>1, <1>2, <1>4, PurgeBookkeeping

\* cleanup_auth_data, step 3, second statement.
LEMMA OutstandingPurged == ASSUME SessionInv, PairInv, PurgeOutstanding  PROVE PairInv'
<1>1. /\ outstanding' = {j \in outstanding : exp[j] >= Past(TokenRetention)}
      /\ blacklisted' = blacklisted \cap outstanding' /\ UNCHANGED <<now, mappings, exp, spent>>
  BY DEF PurgeOutstanding
<1>2. blacklisted \subseteq outstanding /\ \A j \in outstanding : exp[j] \in Nat
  BY ExpType DEF PairInv, PairTypes
<1>3. Past(TokenRetention) \in Int
  BY KeySets DEF Past, SessionInv, SessionTypes
<1>4. \A j \in outstanding \ outstanding' : exp[j] < Past(TokenRetention)
  BY <1>1, <1>2, <1>3
<1> QED  BY <1>1, <1>2, <1>4, PurgeBookkeeping

\* cleanup_auth_data, step 4.
LEMMA MappingsPurged == ASSUME PairInv, PurgeMappings  PROVE PairInv'
<1>1. /\ mappings' \subseteq mappings /\ issued' = issued
      /\ UNCHANGED <<now, outstanding, blacklisted, exp, spent>>
  BY DEF PurgeMappings, issued
<1> QED
  BY <1>1 DEF PairInv, PairTypes, OneMapping, ExpiryMirrored, SpentTokensUnmapped,
              SpentTokensBlacklisted, LivePairUsable

\* The cut-over ends every pair and blacklists every token.
LEMMA InvalidatePairs == ASSUME SessionInv, PairInv, InvalidateLegacy  PROVE PairInv'
<1>1. /\ mappings' = RevokeMappings(mappings, Keys, now) /\ blacklisted' = outstanding
      /\ spent' = spent \cup Jtis(LiveMappings(mappings, Keys)) \cup outstanding
      /\ UNCHANGED <<now, outstanding, exp>> /\ issued' = issued
  BY DEF InvalidateLegacy, issued
<1>2. now \in Nat \ {0} /\ PairTypes /\ OneMapping /\ ExpiryMirrored
  BY DEF SessionInv, SessionTypes, PairInv
<1>3. Jtis(LiveMappings(mappings, Keys)) \subseteq issued
  BY <1>2 DEF PairTypes, MappingRows, Jtis, LiveMappings
<1>4. \A q \in mappings' : Revoked(q)
  <2>1. \A p \in mappings : p \notin LiveMappings(mappings, Keys) => Revoked(p)
    BY <1>2 DEF PairTypes, MappingRows, LiveMappings
  <2> QED  BY <1>1, <1>2, <2>1, RevokedMappings
<1>5. PairTypes'
  BY <1>1, <1>2, <1>3, RevokedMappings DEF PairTypes
<1>6. ExpiryMirrored'
  BY <1>1, <1>2, RevokedMappings DEF ExpiryMirrored
<1>7. OneMapping'
  <2>1. SUFFICES ASSUME NEW q1 \in mappings', NEW q2 \in mappings', q1.refresh_jti = q2.refresh_jti
                 PROVE  q1 = q2
    BY DEF OneMapping
  <2>2. PICK p1 \in mappings :
          q1 = IF p1 \in LiveMappings(mappings, Keys) THEN [p1 EXCEPT !.revoked_at = now] ELSE p1
    BY <1>1 DEF RevokeMappings
  <2>3. PICK p2 \in mappings :
          q2 = IF p2 \in LiveMappings(mappings, Keys) THEN [p2 EXCEPT !.revoked_at = now] ELSE p2
    BY <1>1 DEF RevokeMappings
  <2>4. q1.refresh_jti = p1.refresh_jti /\ q2.refresh_jti = p2.refresh_jti
    BY <1>2, <2>2, <2>3 DEF PairTypes, MappingRows
  <2> QED  BY <1>2, <2>1, <2>2, <2>3, <2>4 DEF OneMapping
<1>8. SpentTokensUnmapped' /\ LivePairUsable' /\ SpentTokensBlacklisted'
  BY <1>1, <1>4 DEF SpentTokensUnmapped, LivePairUsable, SpentTokensBlacklisted
<1> QED  BY <1>5, <1>6, <1>7, <1>8 DEF PairInv

----------------------------------------------------------------------------
\* Every step of the specification preserves the invariant of the pairs.
LEMMA PairNext == SessionInv /\ PairInv /\ [Next]_vars => PairInv'
<1> SUFFICES ASSUME SessionInv, PairInv, [Next]_vars  PROVE PairInv'
  OBVIOUS
<1>0. now \in Nat /\ now \in Nat \ {0} /\ now <= now
  BY DEF SessionInv, SessionTypes
<1>1. CASE UNCHANGED pairVars /\ now' \in {now, now + 1}
  BY <1>0, <1>1, PairQuiet
<1>2. ASSUME NEW w \in Workers, Handle(w)  PROVE PairInv'
  <2>1. CASE Arrive(w) \/ ArriveRefresh(w) \/ Abort(w) \/ TouchOnly(w) \/ ListSessions(w)
             \/ SaveSession(w)
    BY <1>1, <2>1
    DEF Arrive, ArriveRefresh, Abort, TouchOnly, ListSessions, SaveSession
  <2>2. CASE JwtFromSession(w)  BY <2>2, JwtPairs
  <2>3. CASE RefreshPair(w)     BY <2>3, RefreshPairs
  <2>4. CASE Logout(w)
    BY <1>0, <1>1, <2>4, RevokePairsInv DEF Logout
  <2>5. CASE \/ \E sid \in Keys : RevokeSingle(w, sid)
             \/ \E ids \in SUBSET Keys \ {{}} : RevokeListed(w, ids)
             \/ RevokeOthers(w)
    BY <1>0, <2>5, RevokePairsInv
    DEF RevokeSingle, RevokeListed, RevokeOthers, RevokeSessionKeys
  <2>6. CASE \E fresh \in Cookies \ minted, logoutToo \in BOOLEAN :
                ChangePassword(w, fresh, logoutToo)
    BY <1>0, <2>6, RevokePairsInv DEF ChangePassword
  <2>7. CASE DeleteAccount(w)   BY <2>7, DeletePairs
  <2> QED  BY <1>2, <2>1, <2>2, <2>3, <2>4, <2>5, <2>6, <2>7 DEF Handle
<1>3. CASE \E k \in Keys : Login(k) \/ StartCookie(k)
  BY <1>1, <1>3 DEF Login, StartCookie
<1>4. CASE Disable \/ Enable \/ Tick
  BY <1>1, <1>4 DEF Disable, Enable, Tick
<1>5. CASE Maintain
  <2>1. CASE ClearSessions \/ PurgeUserSessions \/ PurgeExpiredMetas \/ PurgeRevokedMetas
             \/ CleanupFails
    BY <1>1, <2>1
    DEF ClearSessions, PurgeUserSessions, PurgeExpiredMetas, PurgeRevokedMetas, CleanupFails
  <2>2. CASE PurgeBlacklisted   BY <2>2, BlacklistPurged
  <2>3. CASE PurgeOutstanding   BY <2>3, OutstandingPurged
  <2>4. CASE PurgeMappings      BY <2>4, MappingsPurged
  <2>5. CASE InvalidateLegacy   BY <2>5, InvalidatePairs
  <2> QED  BY <1>5, <2>1, <2>2, <2>3, <2>4, <2>5 DEF Maintain
<1>6. CASE UNCHANGED vars
  BY <1>1, <1>6 DEF vars
<1> QED  BY <1>2, <1>3, <1>4, <1>5, <1>6 DEF Next

----------------------------------------------------------------------------
(* What lists the session tokens.                                          *)

\* No step leaves a session token behind that revoke_bulk could not find.
LEMMA ListedNext == SessionInv /\ TokensListed /\ [Next]_vars => TokensListed'
<1> SUFFICES ASSUME SessionInv, TokensListed, [Next]_vars, user' # "deleted"
             PROVE  sessions' \cap Tokens \subseteq userSessions'
  BY DEF TokensListed
<1>1. CASE /\ sessions' \subseteq sessions \cup Cookies /\ user # "deleted"
           /\ userSessions \cap sessions' \subseteq userSessions'
  BY <1>1, KeySets DEF TokensListed
<1>2. ASSUME NEW w \in Workers, Handle(w)  PROVE sessions' \cap Tokens \subseteq userSessions'
  <2>1. CASE Arrive(w) \/ ArriveRefresh(w) \/ Abort(w) \/ RefreshPair(w) \/ SaveSession(w)
    BY <1>1, <2>1 DEF Arrive, ArriveRefresh, Abort, RefreshPair, SaveSession, rowVars
  <2>2. CASE TouchOnly(w) \/ ListSessions(w) \/ JwtFromSession(w)
    BY <1>1, <2>2 DEF TouchOnly, ListSessions, JwtFromSession, TouchedSessions
  <2>3. CASE Logout(w)
    BY <1>1, <2>3 DEF Logout
  <2>4. CASE \/ \E sid \in Keys : RevokeSingle(w, sid)
             \/ \E ids \in SUBSET Keys \ {{}} : RevokeListed(w, ids)
             \/ RevokeOthers(w)
    <3>1. PICK keys : /\ sessions' = sessions \ keys /\ userSessions' = TouchedSessions(w) \ keys
                      /\ user' = user
      BY <2>4 DEF RevokeSingle, RevokeListed, RevokeOthers, RevokeSessionKeys
    <3> QED  BY <1>1, <3>1 DEF TouchedSessions
  <2>5. ASSUME NEW fresh \in Cookies, NEW b \in BOOLEAN, ChangePassword(w, fresh, b)
        PROVE  sessions' \cap Tokens \subseteq userSessions'
    <3>1. PICK others : /\ sessions' \subseteq (sessions \ others) \cup {fresh}
                        /\ userSessions' = (TouchedSessions(w) \cup {fresh}) \ others
                        /\ user' = user
      BY <2>5 DEF ChangePassword
    <3> QED  BY <3>1, KeySets DEF TouchedSessions, TokensListed
  <2>6. CASE DeleteAccount(w)
    BY <2>6 DEF DeleteAccount
  <2> QED  BY <1>2, <2>1, <2>2, <2>3, <2>4, <2>5, <2>6 DEF Handle
<1>3. CASE \E k \in Keys : Login(k) \/ StartCookie(k)
  <2>1. ASSUME NEW k \in Keys, Login(k)  PROVE sessions' \cap Tokens \subseteq userSessions'
    BY <2>1 DEF Login, NewSession, TokensListed
  <2>2. ASSUME NEW k \in Keys, StartCookie(k)  PROVE sessions' \cap Tokens \subseteq userSessions'
    BY <1>1, <2>2 DEF StartCookie, NewSession
  <2> QED  BY <1>3, <2>1, <2>2
<1>4. CASE Disable \/ Enable \/ Tick
  BY <1>1, <1>4 DEF Disable, Enable, Tick, rowVars
<1>5. CASE Maintain
  BY <1>1, <1>5
  DEF Maintain, ClearSessions, PurgeUserSessions, PurgeExpiredMetas, PurgeRevokedMetas,
      PurgeBlacklisted, PurgeOutstanding, PurgeMappings, CleanupFails, InvalidateLegacy, rowVars
<1>6. CASE UNCHANGED vars
  BY <1>1, <1>6 DEF vars, rowVars
<1> QED  BY <1>2, <1>3, <1>4, <1>5, <1>6 DEF Next

----------------------------------------------------------------------------
(* The theorems.                                                           *)

\* The inductive invariant holds in every behaviour.
THEOREM Invariance == Spec => []Inv
<1>1. Init => Inv
  BY SessionInit, PairInit DEF Inv, Init, TokensListed
<1>2. Inv /\ [Next]_vars => Inv'
  BY SessionNext, PairNext, ListedNext, IssuedIds DEF Inv, PairInv
<1> QED  BY <1>1, <1>2, PTL DEF Spec

\* Every row of every table, and every request in progress, has the type that the code
\* gives it, whatever the number of workers, keys and tokens.
THEOREM TypeCorrect == Spec => []TypeOK
<1>1. Inv => TypeOK
  BY KeySets
  DEF Inv, SessionInv, SessionTypes, PairInv, PairTypes, Minted, GoodRows, TypeOK
<1> QED  BY <1>1, Invariance, PTL

\* A revoked session never authenticates again, although cleanup_auth_data deletes its
\* tombstone in the end, because tombstones are kept at least as long as a session can
\* live after the last request that extends it (RetentionAssumption).
THEOREM RevocationIsFinal == Spec => []BarredStaysOut
<1>1. Inv => BarredStaysOut
  BY EndedStaysOut DEF Inv
<1> QED  BY <1>1, Invariance, PTL

\* A refresh token that was exchanged or revoked is never the token of a pair that can be
\* exchanged: of any number of racing refreshes and revocations over one token, one wins.
THEOREM TokensAreSpentOnce == Spec => []SpentTokensUnmapped
<1>1. Inv => SpentTokensUnmapped
  BY DEF Inv, PairInv
<1> QED  BY <1>1, Invariance, PTL

\* A refresh token that was exchanged or revoked, has not expired and still has its
\* OutstandingToken is on the blacklist: no maintenance loop takes it off early.
THEOREM TokensStayBlacklisted == Spec => []SpentTokensBlacklisted
<1>1. Inv => SpentTokensBlacklisted
  BY DEF Inv, PairInv
<1> QED  BY <1>1, Invariance, PTL

\* A pair that nothing ended keeps its bookkeeping row and stays off the blacklist until
\* its token expires.
THEOREM LivePairsStayUsable == Spec => []LivePairUsable
<1>1. Inv => LivePairUsable
  BY DEF Inv, PairInv
<1> QED  BY <1>1, Invariance, PTL

\* cleanup_auth_data never deletes the mapping of a pair that its client can exchange.
THEOREM CleanupSparesLivePairs == Spec => CleanupKeepsLivePairs
<1> DEFINE Spares == \A p \in mappings : ~Revoked(p) /\ now < exp[p.refresh_jti] => p \in mappings'
<1>1. Inv /\ PurgeMappings => Spares
  <2> SUFFICES ASSUME Inv, PurgeMappings, NEW p \in mappings, ~Revoked(p), now < exp[p.refresh_jti]
               PROVE  p \in mappings'
    OBVIOUS
  <2>1. /\ p.refresh_jti \in issued /\ p.expires_at = exp[p.refresh_jti]
        /\ p.refresh_jti \in outstanding
    BY DEF Inv, PairInv, PairTypes, MappingRows, ExpiryMirrored, LivePairUsable
  <2>2. exp[p.refresh_jti] \in Nat /\ now \in Nat /\ cleanup.at \in Nat /\ cleanup.at <= now
    BY <2>1, ExpType DEF Inv, PairInv, SessionInv, SessionTypes, Clocks
  <2>3. ~StaleMapping(p)
    BY <2>1, <2>2 DEF StaleMapping
  <2> QED  BY <2>3 DEF PurgeMappings
<1>2. Inv /\ [Next]_vars => [PurgeMappings => Spares]_vars
  BY <1>1
<1> QED  BY <1>2, Invariance, PTL DEF Spec, CleanupKeepsLivePairs

\* `Log out everywhere else' and a password change leave no other session token of the
\* account that authenticates, whichever of them have meta rows and whatever cookie the
\* caller sends.
THEOREM OthersAreEnded == Spec => OthersEnded
<1> DEFINE Ends(w) == RevokeOthers(w)
                      \/ (\E c \in Cookies, b \in BOOLEAN : ChangePassword(w, c, b))
           Ended == \A w \in Workers :
                       Ends(w) => \A k \in Tokens \ {req[w].token} : ~Authenticated(k)'
<1>1. Inv /\ [Next]_vars => Ended
  <2> SUFFICES ASSUME Inv, NEW w \in Workers, Ends(w), NEW k \in Tokens \ {req[w].token},
                      k \in sessions'
               PROVE  FALSE
    BY DEF Authenticated, LookupSession
  <2>1. req[w].op # "idle" /\ user # "deleted"
    BY DEF RevokeOthers, ChangePassword, Running
  <2>2. sessions \cap Tokens \subseteq TouchedSessions(w)
    BY <2>1 DEF Inv, TokensListed, TouchedSessions
  <2>3. CASE RevokeOthers(w)
    <3> DEFINE current == CurrentKey(Touched(w), req[w].token, req[w].cookie)
    <3>1. /\ current # Null
          /\ sessions' = sessions \ (Revocable(Touched(w), TouchedSessions(w)) \ {current})
      BY <2>3 DEF RevokeOthers, RevokeSessionKeys
    <3>2. current \in Tokens => current = req[w].token
      BY <2>1, <3>1, TouchedGood, CurrentKeyGood DEF Inv
    <3> QED  BY <2>2, <3>1, <3>2 DEF Revocable
  <2>4. CASE \E c \in Cookies, b \in BOOLEAN : ChangePassword(w, c, b)
    <3>1. PICK fresh, ms :
         /\ fresh \in Cookies
         /\ sessions' \subseteq (sessions \ (Revocable(ms, TouchedSessions(w) \cup {fresh})
                                             \ {fresh})) \cup {fresh}
      BY <2>4 DEF ChangePassword
    <3>2. k # fresh
      BY <3>1, KeySets
    <3> QED  BY <2>2, <3>1, <3>2 DEF Revocable
  <2> QED  BY <2>3, <2>4
<1>2. Inv /\ [Next]_vars => [Ended]_vars
  BY <1>1
<1> QED  BY <1>2, Invariance, PTL DEF Spec, OthersEnded

\* A logout without a cookie ends the token that it carries, once any endpoint has
\* touched its session: the row that it revokes carries the token's digest, whatever
\* session key that row has.
THEOREM TouchedTokenEnds == Spec => TouchedLogoutEnds
<1> DEFINE Ends == \A w \in Workers, t \in Tokens :
                      Logout(w) /\ t = req[w].token /\ req[w].cookie = Null
                      /\ ByDigest(metas, t) # {} => ~Authenticated(t)'
<1>1. Inv /\ [Next]_vars => Ends
  <2> SUFFICES ASSUME Inv, NEW w \in Workers, NEW t \in Tokens, Logout(w), t = req[w].token,
                      req[w].cookie = Null, ByDigest(metas, t) # {}
               PROVE  Blocked(metas', t)
    BY DEF Authenticated, LookupSession
  <2> DEFINE m == First(ByDigest(metas, t))
             key == m.session_key
             ns == GetOrCreate(metas, lastPk, key, Digest(t), now)
             out == [FillDigest(m, t) EXCEPT !.revoked_at = IF @ = Null THEN now ELSE @]
  <2>1. m \in metas /\ m.digest = Digest(t) /\ m \in MetaRows /\ key # Null
    <3>1. metas \subseteq MetaRows
      BY DEF Inv, SessionInv, Minted, GoodRows
    <3>2. m \in ByDigest(metas, t)
      BY <3>1, FirstIn DEF ByDigest, MetaRows
    <3> QED  BY <3>1, <3>2, KeySets DEF ByDigest, MetaRows
  <2>2. CurrentKey(metas, t, req[w].cookie) = key
    BY DEF CurrentKey
  <2>3. metas' = LogoutKey(metas, lastPk, key, t, now)
    BY <2>1, <2>2 DEF Logout, SetMetas
  <2>4. m \in ns
    BY <2>1 DEF GetOrCreate
  <2>5. out \in metas'
    BY <2>3, <2>4 DEF LogoutKey
  <2>6. Digest(t) # Null
    BY KeySets, DigestType
  <2>7. FillDigest(m, t) \in MetaRows /\ FillDigest(m, t).digest = Digest(t)
    BY <2>1, <2>6 DEF FillDigest, MetaRows
  <2>8. now # Null
    BY DEF Inv, SessionInv, SessionTypes, Null
  <2>9. out.digest = Digest(t) /\ out.revoked_at # Null
    BY <2>7, <2>8 DEF MetaRows
  <2> QED  BY <2>5, <2>9 DEF Blocked, Blocks, Revoked
<1>2. Inv /\ [Next]_vars => [Ends]_vars
  BY <1>1
<1> QED  BY <1>2, Invariance, PTL DEF Spec, TouchedLogoutEnds

\* A caller whose session token was never sent beside a cookie survives its own `log out
\* everywhere else': the session key that the request names is its token, and no row that
\* is revoked names the token by key or digest.
THEOREM UnmixedCallersStay == Spec => UnmixedCallerKept
<1> DEFINE Kept == \A w \in Workers, t \in Tokens :
                      /\ RevokeOthers(w) /\ t = req[w].token /\ req[w].cookie = Null
                      /\ \A m \in ByDigest(metas, t) : m.session_key = t
                      /\ Authenticated(t)
                      => Authenticated(t)'
<1>1. Inv /\ [Next]_vars => Kept
  <2> SUFFICES ASSUME Inv, NEW w \in Workers, NEW t \in Tokens, RevokeOthers(w),
                      t = req[w].token, req[w].cookie = Null,
                      \A m \in ByDigest(metas, t) : m.session_key = t, Authenticated(t)
               PROVE  Authenticated(t)'
    OBVIOUS
  <2> DEFINE ms == Touched(w)
             current == CurrentKey(ms, t, req[w].cookie)
             keys == Revocable(ms, TouchedSessions(w)) \ {current}
  <2>1. t \in Keys /\ t # Null /\ Digest(t) # Null /\ req[w].op # "idle"
    BY KeySets, DigestType DEF RevokeOthers, Running
  <2>2. /\ metas' = RevokeKeys(ms, lastPk + NumKeys, keys, now)
        /\ sessions' = sessions \ keys /\ current # Null
        /\ UNCHANGED <<now, user, expire>>
    BY DEF RevokeOthers, RevokeSessionKeys, SetMetas
  <2>3. metas \subseteq MetaRows /\ GoodRows(ms, minted, Tokens, now)
    BY <2>1, TouchedGood DEF Inv, SessionInv, Minted, GoodRows
  <2>4. ASSUME NEW n \in ms, n.session_key = t \/ n.digest = Digest(t)
        PROVE  n.session_key = t /\ ~Revoked(n)
    <3>1. PICK m \in GetOrCreate(metas, lastPk, t, Digest(t), now) :
            n = IF m.session_key = t
                  THEN [FillDigest(m, t) EXCEPT !.last_seen = now] ELSE m
      BY DEF Touched, Touch, TouchKey
    <3>2. m \in metas \/ (m.session_key = t /\ ~Revoked(m) /\ m \in MetaRows)
      BY <2>1, DigestType, NewMetaGood
      DEF GetOrCreate, NewMeta, Revoked, Inv, SessionInv, SessionTypes
    <3>3. m \in MetaRows
      BY <2>3, <3>2
    <3>4. n.session_key = m.session_key /\ n.revoked_at = m.revoked_at
          /\ (m.session_key # t => n.digest = m.digest)
      BY <3>1, <3>3 DEF FillDigest, MetaRows
    <3>5. m.session_key = t
      BY <2>4, <3>2, <3>4 DEF ByDigest
    <3>6. m \in metas => ~Revoked(m)
      BY <3>5 DEF Authenticated, LookupSession, Blocked, Blocks
    <3> QED  BY <3>2, <3>4, <3>5, <3>6 DEF Revoked
  <2>5. current = t
    <3>1. ByDigest(ms, t) # {} /\ current = First(ByDigest(ms, t)).session_key
      BY <2>2 DEF CurrentKey
    <3>2. First(ByDigest(ms, t)) \in ByDigest(ms, t)
      BY <2>3, <3>1, FirstIn DEF ByDigest, GoodRows, MetaRows
    <3> QED  BY <2>4, <3>1, <3>2 DEF ByDigest
  <2>6. t \notin keys
    BY <2>5
  <2> HIDE DEF ms, current, keys
  <2>7. ASSUME NEW x \in metas', Blocks(x, t)  PROVE FALSE
    <3>1. x.session_key = t \/ x.digest = Digest(t)
      BY <2>7 DEF Blocks
    <3>2. ASSUME NEW m \in ms,
                 x = IF m.session_key \in keys THEN [m EXCEPT !.revoked_at = now] ELSE m
          PROVE  FALSE
      <4>1. x.session_key = m.session_key /\ x.digest = m.digest
        BY <2>3, <3>2 DEF GoodRows, MetaRows
      <4>2. m.session_key = t /\ ~Revoked(m)
        BY <2>4, <3>1, <4>1 DEF ms
      <4> QED  BY <2>6, <2>7, <3>2, <4>2 DEF Blocks
    <3>3. ASSUME NEW k \in keys,
                 x = [NewMeta(lastPk + NumKeys, k, Null, now) EXCEPT !.revoked_at = now]
          PROVE  FALSE
      <4>1. x.session_key = k /\ x.digest = Null
        BY <3>3 DEF NewMeta
      <4> QED  BY <2>1, <2>6, <3>1, <4>1
    <3> QED  BY <2>2, <3>2, <3>3 DEF RevokeKeys
  <2>8. ~Blocked(metas', t)
    BY <2>7 DEF Blocked
  <2> QED  BY <2>2, <2>6, <2>8 DEF Authenticated, LookupSession
<1>2. Inv /\ [Next]_vars => [Kept]_vars
  BY <1>1
<1> QED  BY <1>2, Invariance, PTL DEF Spec, UnmixedCallerKept

----------------------------------------------------------------------------
(* The pairs of revoked sessions.                                          *)

\* The two statements of cleanup_auth_data that delete rows of the sessions.
PurgesMetas == PurgeExpiredMetas \/ PurgeRevokedMetas

Standing == user # "deleted" => \A k \in barred : \E m \in metas : m.session_key = k /\ Revoked(m)

\* A step of the common shape keeps a tombstone under every revoked session key.
LEMMA StandingStep == ASSUME SessionInv, Standing, SessionStep  PROVE Standing'
<1> SUFFICES ASSUME user' # "deleted", NEW k \in barred'
             PROVE  \E n \in metas' : n.session_key = k /\ Revoked(n)
  BY DEF Standing
<1>1. CASE k \in barred
  <2>1. user # "deleted"
    BY DEF SessionStep
  <2>2. PICK m \in metas : m.session_key = k /\ Revoked(m)
    BY <1>1, <2>1 DEF Standing
  <2> QED  BY <2>2 DEF SessionStep, Follows, TombstonesKept
<1>2. CASE k \notin barred
  BY <1>2 DEF SessionStep
<1> QED  BY <1>1, <1>2

\* So does every step but the two deletions: no request, login, password change or cut-over
\* removes a tombstone or makes a second row beside it that is not revoked.
LEMMA StandingNext ==
    SessionInv /\ PairInv /\ Standing /\ [Next]_vars /\ [~PurgesMetas]_vars => Standing'
<1> SUFFICES ASSUME SessionInv, PairInv, Standing, [Next]_vars, [~PurgesMetas]_vars
             PROVE  Standing'
  OBVIOUS
<1>0. issued \subseteq JtiIds
  BY IssuedIds DEF PairInv
<1>1. CASE metas' = metas /\ user' = user /\ barred' = barred
  BY <1>1 DEF Standing
<1>2. ASSUME NEW w \in Workers, Handle(w)  PROVE Standing'
  <2>1. CASE Arrive(w) \/ ArriveRefresh(w) \/ Abort(w) \/ RefreshPair(w) \/ SaveSession(w)
    BY <1>1, <2>1 DEF Arrive, ArriveRefresh, Abort, RefreshPair, SaveSession, rowVars, metaVars
  <2>2. CASE TouchOnly(w) \/ ListSessions(w) \/ JwtFromSession(w) \/ Logout(w)
    BY <2>2, TouchOnlyStep, ListSessionsStep, JwtStep, LogoutStep, StandingStep
  <2>3. CASE \/ \E sid \in Keys : RevokeSingle(w, sid)
             \/ \E ids \in SUBSET Keys \ {{}} : RevokeListed(w, ids)
             \/ RevokeOthers(w)
    BY <2>3, RevokeSingleStep, RevokeListedStep, RevokeOthersStep, StandingStep
  <2>4. CASE \E fresh \in Cookies \ minted, logoutToo \in BOOLEAN :
                ChangePassword(w, fresh, logoutToo)
    BY <2>4, ChangePasswordStep, StandingStep
  <2>5. CASE DeleteAccount(w)
    BY <2>5 DEF DeleteAccount, Standing
  <2> QED  BY <1>2, <2>1, <2>2, <2>3, <2>4, <2>5 DEF Handle
<1>3. CASE \E k \in Keys : Login(k) \/ StartCookie(k)
  BY <1>1, <1>3 DEF Login, StartCookie, metaVars
<1>4. CASE Disable \/ Enable
  BY <1>4 DEF Disable, Enable, rowVars, metaVars, Standing
<1>5. CASE Tick
  BY <1>1, <1>5 DEF Tick, rowVars, metaVars
<1>6. CASE InvalidateLegacy
  BY <1>6, InvalidateStep, StandingStep
<1>7. CASE ClearSessions \/ PurgeUserSessions \/ PurgeBlacklisted \/ PurgeOutstanding
           \/ PurgeMappings \/ CleanupFails
  BY <1>1, <1>7
  DEF ClearSessions, PurgeUserSessions, PurgeBlacklisted, PurgeOutstanding, PurgeMappings,
      CleanupFails, rowVars, metaVars
<1>8. CASE UNCHANGED vars
  BY <1>1, <1>8 DEF vars, rowVars, metaVars
<1> QED
  BY <1>2, <1>3, <1>4, <1>5, <1>6, <1>7, <1>8 DEF Next, Maintain, PurgesMetas

\* As long as cleanup_auth_data keeps the tombstones, no pair bound to a revoked session is
\* ever exchanged, not even one that a request which raced the revocation bound to it: the
\* exchange finds the tombstone under the session key of the mapping.
THEOREM RevokedPairsFreeze == Spec /\ [][~PurgesMetas]_vars => BarredPairsFrozen
<1> DEFINE Frozen == \A w \in Workers : RefreshPair(w) =>
                        \A p \in MappingOf(req[w].jti) : p.session_key \notin barred \cap Tokens
<1>1. Init => Standing
  BY DEF Init, Standing
<1>2. Inv /\ Standing /\ [Next]_vars /\ [~PurgesMetas]_vars => Standing'
  BY StandingNext DEF Inv
<1>3. Inv /\ Standing => Frozen
  <2> SUFFICES ASSUME Inv, Standing, NEW w \in Workers, RefreshPair(w),
                      NEW p \in MappingOf(req[w].jti), p.session_key \in barred
               PROVE  FALSE
    OBVIOUS
  <2>1. PICK q \in mappings : /\ q.refresh_jti = req[w].jti /\ user # "deleted"
                              /\ \A m \in ByKey(metas, q.session_key) : ~Revoked(m)
    BY DEF RefreshPair, Running
  <2>2. q = p
    BY <2>1 DEF MappingOf, Inv, PairInv, OneMapping
  <2> QED  BY <2>1, <2>2 DEF Standing, ByKey
<1>4. Inv /\ Standing /\ [Next]_vars => [Frozen]_vars
  BY <1>3
<1> QED  BY <1>1, <1>2, <1>4, Invariance, PTL DEF Spec, BarredPairsFrozen
=============================================================================

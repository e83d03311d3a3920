---------------------- MODULE WebAuthnChallengeProofs ----------------------
(***************************************************************************)
(* WebAuthnChallenge implements OneUseChallenge, whatever the numbers of   *)
(* requests, ceremonies and subjects, the lifetimes, and the time that a   *)
(* request takes between two of its steps.  Then when a challenge can let  *)
(* a second completion pass, what the replay cache bounds, and what a      *)
(* browser's completed ceremonies are worth.                               *)
(***************************************************************************)
EXTENDS WebAuthnChallenge, FiniteSetTheorems, TLAPS

----------------------------------------------------------------------------
(* The inductive invariant. *)

\* A challenge in a copy of the session has its metadata.
Held(data) == data.challenge # Null => issued[data.challenge].at # Null

\* The first claim of a challenge has had its time: a row to be deleted is of that claim, or
\* of a later one.
Lapsed(c) == claimed[c] # Null /\ now > claimed[c] + TTL - Second

\* A request claims a challenge that it found in its lifetime.
RequestOK(r) ==
    /\ Held(r.copy)
    /\ r.at \in Claiming \cup Losing => r.meta # Null /\ issued[r.meta].at # Null
    /\ r.at \in Claiming =>
          /\ issued[r.meta].at <= r.checked /\ r.checked <= issued[r.meta].at + TTL
          /\ r.checked <= now
    /\ r.at = "add" => r.checked <= r.since /\ r.since <= now
    /\ r.at = "delete" => Lapsed(r.meta)
    /\ r.at = "store" => r.own # Null /\ r.own <= begun /\ issued[r.own].at = Null
    /\ r.at = "finish" => r.own # Null

SessionHeld == Held(session.data)
RequestsOK == \A w \in Workers : RequestOK(req[w])

\* Two options requests have two ceremonies.
OwnCeremony == \A v, w \in Workers :
    v # w /\ req[v].at = "store" /\ req[w].at = "store" => req[v].own # req[w].own

\* What allauth has not begun has not been stored.
NotBegun == \A c \in Ceremonies : c > begun => issued[c].at = Null

\* No challenge is issued in the future.
IssuedBefore == \A c \in Ceremonies : issued[c].at <= now

\* The first claim of a challenge is in the table until it has had its time.
ClaimKept == \A c \in Ceremonies : claimed[c] # Null =>
    /\ issued[c].at # Null
    /\ \/ cache[c] > claimed[c] + TTL - Second
       \/ now > claimed[c] + TTL - Second

RowsClaimed == \A c \in Ceremonies : cache[c] # NoRow => claimed[c] # Null

\* What passes was found in its lifetime, and what passes again has waited for the first
\* claim to lapse.
PassesLate == \A c \in Ceremonies : \A i \in 1 .. Len(passes[c]) :
    /\ claimed[c] # Null
    /\ passes[c][i].checked <= issued[c].at + TTL
    /\ i > 1 => passes[c][i].at > claimed[c] + TTL - Second

Inv ==
    /\ TypeOK /\ SessionHeld /\ RequestsOK /\ OwnCeremony /\ NotBegun /\ IssuedBefore
    /\ ClaimKept /\ RowsClaimed /\ PassesLate

----------------------------------------------------------------------------
(* The cache. *)

\* Rounding to whole seconds loses less than a second (replace(microsecond=0)).
LEMMA WholeSecondBounds ==
    ASSUME NEW t \in Nat
    PROVE  /\ WholeSecond(t) \in Nat
           /\ WholeSecond(t) <= t
           /\ t - Second < WholeSecond(t)
BY CacheAssumption, SMT DEF WholeSecond

\* Neither _can_store nor _cull deletes a live row, or changes one.
LEMMA LiveRowsKept ==
    ASSUME NEW rows \in Tables, NEW key \in CacheKeys, NEW t \in Nat
    PROVE  /\ Reserved(rows, key, t) \in Tables
           /\ Culled(rows, t) \in Tables
           /\ \A k \in CacheKeys :
                 /\ Reserved(rows, key, t)[k] = rows[k]
                    \/ (Reserved(rows, key, t)[k] = NoRow /\ rows[k] < t)
                 /\ Culled(rows, t)[k] = rows[k]
                    \/ (Culled(rows, t)[k] = NoRow /\ rows[k] < t)
<1>1. WholeSecond(t) \in Nat /\ WholeSecond(t) <= t
  BY WholeSecondBounds
<1>2. Purge(rows, t) \in Tables
  BY DEF Purge, Without, Tables, NoRow
<1>3. \A k \in CacheKeys : Purge(rows, t)[k] = rows[k]
                           \/ (Purge(rows, t)[k] = NoRow /\ rows[k] < t)
  BY <1>1 DEF Purge, Without, Expired, Stored, Tables, NoRow
<1> QED BY <1>2, <1>3 DEF Reserved, Culled

\* An insert keeps the live rows, and the new row lives for its timeout, less the
\* rounding.
LEMMA InsertKeeps ==
    ASSUME NEW rows \in Tables, NEW key \in CacheKeys, NEW t \in Nat, NEW timeout \in Nat,
           AddStores(rows, key, t)
    PROVE  /\ Added(rows, key, t, timeout) \in Tables
           /\ t > 0 => rows[key] < t
           /\ \A k \in CacheKeys : k # key =>
                 Added(rows, key, t, timeout)[k] = rows[k]
                 \/ (Added(rows, key, t, timeout)[k] = NoRow /\ rows[k] < t)
           /\ Added(rows, key, t, timeout)[key] > t + timeout - Second
<1>1. WholeSecond(t) \in Nat /\ WholeSecond(t) <= t
  BY WholeSecondBounds
<1>2. WholeSecond(t + timeout) \in Nat /\ t + timeout - Second < WholeSecond(t + timeout)
  BY WholeSecondBounds, CacheAssumption
<1>3. /\ Culled(rows, t) \in Tables
      /\ \A k \in CacheKeys : Culled(rows, t)[k] = rows[k]
                              \/ (Culled(rows, t)[k] = NoRow /\ rows[k] < t)
  BY LiveRowsKept
<1>4. t > 0 => rows[key] < t
  BY <1>1 DEF AddStores, Expired, NoRow, Tables
<1> QED BY <1>2, <1>3, <1>4 DEF Added, Tables

----------------------------------------------------------------------------
(* The data of a session, and what a step of a request does with it. *)

\* The middleware, allauth and the other endpoints leave well-formed data behind, and
\* only the middleware touches the challenge.
LEMMA DataUpdates ==
    ASSUME NEW d \in Data
    PROVE  /\ \A c \in Ceremonies \cup {Null} :
                 /\ [d EXCEPT !.challenge = c] \in Data
                 /\ [d EXCEPT !.challenge = c].challenge = c
           /\ \A c \in Ceremonies \cup {Null} :
                 /\ [d EXCEPT !.state = c] \in Data
                 /\ [d EXCEPT !.state = c].challenge = d.challenge
           /\ \A k \in Kinds, s \in Subjects \cup {Null} :
                 /\ [d EXCEPT !.who[k] = s] \in Data
                 /\ [d EXCEPT !.who[k] = s].challenge = d.challenge
           /\ \A p \in AllPurposes \cup {"none"} : Subject(d, p) \in Subjects \cup {Null}
           /\ d.challenge \in Ceremonies \cup {Null}
<1>1. ASSUME NEW p \in AllPurposes \cup {"none"} PROVE Subject(d, p) \in Subjects \cup {Null}
  BY DEF Subject, SubjectKind, Data, Kinds
<1> QED BY <1>1 DEF Data

\* A completed view changes who the session is for, and nothing else.
LEMMA LoggedData ==
    ASSUME NEW d \in Data, NEW p, NEW e \in Logged(d, p)
    PROVE  e \in Data /\ e.challenge = d.challenge
<1>1. CASE p = "account.login"
  <2>1. PICK s \in Subjects : e = [d EXCEPT !.who["authenticated"] = s]
    BY <1>1 DEF Logged
  <2> QED BY <2>1, DataUpdates DEF Kinds
<1>2. CASE p \in {"account.authenticate", "account.signup"}
  <2>1. e = [d EXCEPT !.who["authenticated"] = d.who["pending"], !.who["pending"] = Null]
    BY <1>2 DEF Logged
  <2>2. PICK s \in Subjects \cup {Null} : s = d.who["pending"]
    BY DEF Data, Kinds
  <2> DEFINE signed == [d EXCEPT !.who["authenticated"] = s]
  <2>3. signed \in Data /\ signed.challenge = d.challenge
    BY DataUpdates DEF Kinds
  <2>4. e = [signed EXCEPT !.who["pending"] = Null]
    BY <2>1, <2>2
  <2> HIDE DEF signed
  <2>5. "pending" \in Kinds /\ Null \in Subjects \cup {Null}
    BY DEF Kinds
  <2>6. [signed EXCEPT !.who["pending"] = Null] \in Data
        /\ [signed EXCEPT !.who["pending"] = Null].challenge = signed.challenge
    BY <2>3, <2>5, DataUpdates
  <2> QED BY <2>3, <2>4, <2>6
<1>3. CASE p = "admin.authenticate"
  <2>1. e = [d EXCEPT !.who["admin"] = Null]
    BY <1>3 DEF Logged
  <2>2. "admin" \in Kinds /\ Null \in Subjects \cup {Null}
    BY DEF Kinds
  <2> QED BY <2>1, <2>2, DataUpdates
<1>4. CASE p \notin {"account.login", "account.authenticate", "account.signup",
                     "admin.authenticate"}
  BY <1>4 DEF Logged
<1> QED BY <1>1, <1>2, <1>3, <1>4

\* A step of w that keeps the invariant's parts about requests: the request it leaves
\* behind is in order, and a ceremony to store is one it had.
Proper(w) == \E r \in Requests :
    /\ req' = [req EXCEPT ![w] = r]
    /\ RequestOK(r)
    /\ r.at = "store" => req[w].at = "store" /\ r.own = req[w].own

\* A request that ends leaves nothing behind.
LEMMA LeaveProper ==
    ASSUME NEW w \in Workers, Leave(w)
    PROVE  Proper(w)
<1>1. Idle \in Requests /\ RequestOK(Idle) /\ Idle.at # "store"
  BY DEF Idle, Requests, Steps, Claiming, Losing, Empty, Data, RequestOK, Held, Null
<1> QED BY <1>1 DEF Leave, Proper

\* A request arrives with the session as it is.
LEMMA ArriveProper ==
    ASSUME Inv, NEW w \in Workers, NEW at \in {"clear", "consume", "save"},
           NEW p \in AllPurposes \cup {"none"}, NEW c \in Ceremonies \cup {Null},
           Arrive(w, at, p, c)
    PROVE  Proper(w)
<1> DEFINE r == [at |-> at, purpose |-> p, own |-> c, key |-> session.key,
                 copy |-> session.data, loaded |-> TRUE, meta |-> Null, checked |-> Null,
                 since |-> Null]
<1>1. r \in Requests
  BY DEF Inv, TypeOK, Requests, Steps, Null
<1>2. RequestOK(r)
  BY DEF Inv, SessionHeld, RequestOK, Held, Claiming, Losing
<1>3. req' = [req EXCEPT ![w] = r] /\ r.at # "store"
  BY DEF Arrive
<1> QED BY <1>1, <1>2, <1>3 DEF Proper

\* What a request becomes when it goes on.
LEMMA Goes ==
    ASSUME Inv, NEW w \in Workers, NEW at \in Steps, NEW data \in Data, Held(data),
           NEW meta \in Ceremonies \cup {Null}, ContinueWith(w, at, data, meta)
    PROVE  \E r \in Requests :
              /\ req' = [req EXCEPT ![w] = r]
              /\ r.at = at /\ r.purpose = req[w].purpose /\ r.own = req[w].own
              /\ r.copy = Kept(data) /\ r.loaded = (Client = "browser") /\ r.meta = meta
              /\ Held(r.copy)
<1> DEFINE r == [Idle EXCEPT !.at = at, !.purpose = req[w].purpose, !.own = req[w].own,
                             !.key = req[w].key, !.copy = Kept(data),
                             !.loaded = (Client = "browser"), !.meta = meta]
<1>1. req[w] \in Requests
  BY DEF Inv, TypeOK
<1>2. Empty \in Data /\ Held(Empty)
  BY DEF Empty, Data, Held, Null
<1>3. Kept(data) \in Data /\ Held(Kept(data))
  BY <1>2 DEF Kept
<1>4. r \in Requests
  BY <1>1, <1>3 DEF Idle, Requests, Null
<1>5. /\ r.at = at /\ r.purpose = req[w].purpose /\ r.own = req[w].own
      /\ r.copy = Kept(data) /\ r.loaded = (Client = "browser") /\ r.meta = meta
  BY DEF Idle
<1>6. req' = [req EXCEPT ![w] = r]
  BY DEF ContinueWith
<1> HIDE DEF r
<1> QED BY <1>3, <1>4, <1>5, <1>6

\* A request goes on with data whose challenge has metadata.
LEMMA ContinueProper ==
    ASSUME Inv, NEW w \in Workers, NEW at \in {"view", "respond"}, NEW data \in Data,
           Held(data), Continue(w, at, data)
    PROVE  Proper(w)
<1>1. at \in Steps
  BY DEF Steps
<1>2. PICK r \in Requests : /\ req' = [req EXCEPT ![w] = r]
                            /\ r.at = at /\ Held(r.copy)
  BY <1>1, Goes DEF Continue
<1>3. RequestOK(r) /\ r.at # "store"
  BY <1>2 DEF RequestOK, Claiming, Losing
<1> QED BY <1>2, <1>3 DEF Proper

\* An answered browser request goes on to save its session, an app request ends.
LEMMA RespondProper ==
    ASSUME Inv, NEW w \in Workers, NEW data \in Data, Held(data), Respond(w, data)
    PROVE  Proper(w)
BY LeaveProper, ContinueProper DEF Respond

----------------------------------------------------------------------------
(* The steps that issue no challenge. *)

ClaimsInOrder == ClaimKept /\ RowsClaimed /\ PassesLate

\* What these steps do to the other variables: the session stays well formed and its
\* challenge has metadata, and claims stay in order.
Quiet ==
    /\ UNCHANGED <<now, begun, issued>>
    /\ session' \in [key : Nat, data : Data] /\ Held(session'.data)
    /\ cache' \in Tables
    /\ claimed' \in [Ceremonies -> Nat]
    /\ passes' \in [Ceremonies -> Seq(Passes)]
    /\ completed' \subseteq Completions
    /\ \A c \in Ceremonies : claimed[c] # Null => claimed'[c] = claimed[c]
    /\ ClaimsInOrder'

\* A row that goes away while the clock stands still is expired, or its claim has lapsed.
LEMMA RowsMayGo ==
    ASSUME Inv, UNCHANGED <<now, issued, claimed, passes>>, cache' \in Tables,
           \A c \in Ceremonies :
              cache'[c] = cache[c] \/ (cache'[c] = NoRow /\ (cache[c] < now \/ Lapsed(c)))
    PROVE  ClaimsInOrder'
<1>1. ClaimKept'
  <2> SUFFICES ASSUME NEW c \in Ceremonies, claimed[c] # Null
               PROVE  /\ issued[c].at # Null
                      /\ \/ cache'[c] > claimed[c] + TTL - Second
                         \/ now > claimed[c] + TTL - Second
    BY DEF ClaimKept
  <2>1. /\ claimed[c] \in Nat /\ now \in Nat /\ TTL \in Nat /\ Second \in Nat
        /\ cache[c] \in Nat /\ cache'[c] \in Nat
    BY BoundsAssumption, CacheAssumption DEF Inv, TypeOK, Tables
  <2>2. /\ issued[c].at # Null
        /\ \/ cache[c] > claimed[c] + TTL - Second
           \/ now > claimed[c] + TTL - Second
    BY DEF Inv, ClaimKept
  <2>3. \/ cache'[c] = cache[c]
        \/ cache'[c] = NoRow /\ (cache[c] < now \/ now > claimed[c] + TTL - Second)
    BY DEF Lapsed
  <2> QED BY <2>1, <2>2, <2>3
<1>2. RowsClaimed'
  BY DEF Inv, RowsClaimed
<1>3. PassesLate'
  BY DEF Inv, PassesLate
<1> QED BY <1>1, <1>2, <1>3 DEF ClaimsInOrder

\* Whether a request is in order is up to the issued and the claimed challenges.
LEMMA StillOK ==
    ASSUME Inv, Quiet, NEW r \in Requests, RequestOK(r)
    PROVE  RequestOK(r)'
<1>1. UNCHANGED <<now, begun, issued>>
  BY DEF Quiet
<1>2. r.at = "delete" => r.meta \in Ceremonies /\ Lapsed(r.meta)
  BY DEF RequestOK, Requests, Losing
<1>3. \A c \in Ceremonies : claimed[c] # Null => claimed'[c] = claimed[c]
  BY DEF Quiet
<1>4. r.at = "delete" => Lapsed(r.meta)'
  BY <1>1, <1>2, <1>3 DEF Lapsed
<1> QED BY <1>1, <1>4 DEF RequestOK, Held

\* A step of a request that keeps the request, the session and the claims in order keeps the
\* invariant.
LEMMA StepInv ==
    ASSUME Inv, NEW w \in Workers, Proper(w), Quiet
    PROVE  Inv'
<1>1. PICK r \in Requests : /\ req' = [req EXCEPT ![w] = r]
                            /\ RequestOK(r)
                            /\ r.at = "store" => req[w].at = "store" /\ r.own = req[w].own
  BY DEF Proper
<1>2. /\ req' \in [Workers -> Requests]
      /\ \A v \in Workers : req'[v] = IF v = w THEN r ELSE req[v]
  BY <1>1 DEF Inv, TypeOK
<1>3. \A v \in Workers : RequestOK(req'[v])
  BY <1>1, <1>2 DEF Inv, RequestsOK
<1>4. TypeOK'
  <2>1. \A v \in Workers : req'[v].at \in Claiming =>
          req'[v].checked - issued[req'[v].meta].at <= TTL
    <3> SUFFICES ASSUME NEW v \in Workers, req'[v].at \in Claiming
                 PROVE  req'[v].checked - issued[req'[v].meta].at <= TTL
      OBVIOUS
    <3>1. /\ req'[v].meta # Null
          /\ req'[v].checked <= issued[req'[v].meta].at + TTL
      BY <1>3 DEF RequestOK
    <3>2. req'[v].meta \in Ceremonies /\ req'[v].checked \in Nat
      BY <1>2, <3>1 DEF Requests
    <3>3. issued[req'[v].meta].at \in Nat /\ TTL \in Nat
      BY <3>2, BoundsAssumption DEF Inv, TypeOK, Metadata
    <3> QED BY <3>1, <3>2, <3>3
  <2>2. \A v \in Workers : req'[v].at \in Claiming \cup Losing => req'[v].meta # Null
    BY <1>3 DEF RequestOK
  <2> QED BY <1>2, <2>1, <2>2 DEF Inv, TypeOK, Quiet
<1>5. SessionHeld'
  BY DEF Quiet, SessionHeld, Held
<1>6. RequestsOK'
  <2> SUFFICES ASSUME NEW v \in Workers PROVE RequestOK(req[v])'
    BY DEF RequestsOK
  <2>1. PICK q \in Requests : q = req'[v]
    BY <1>2
  <2>2. RequestOK(q)'
    BY <1>3, <2>1, StillOK
  <2> QED BY <2>1, <2>2 DEF RequestOK, Held, Lapsed
<1>7. OwnCeremony'
  BY <1>1, <1>2 DEF Inv, OwnCeremony
<1>8. NotBegun' /\ IssuedBefore'
  BY DEF Inv, Quiet, NotBegun, IssuedBefore
<1> QED BY <1>4, <1>5, <1>6, <1>7, <1>8 DEF Inv, Quiet, ClaimsInOrder

\* The session is left alone, or saved with data whose challenge has metadata.
SessionKept == session' \in [key : Nat, data : Data] /\ Held(session'.data)

\* What counts as keeping the session in order, for each way to write it.
LEMMA SavesKeep ==
    ASSUME Inv
    PROVE  /\ UNCHANGED session => SessionKept
           /\ \A d \in Data : Held(d) /\ Save(d) => SessionKept
           /\ \A d \in Data, k \in Nat :
                  Held(d) /\ session' = [key |-> k, data |-> d] => SessionKept
           /\ session.key \in Nat /\ session.data \in Data /\ Held(session.data)
BY DEF Inv, TypeOK, SessionHeld, SessionKept, Save, Held

\* A step that takes away no rows but expired or lapsed ones keeps the invariant.
LEMMA RowsStep ==
    ASSUME Inv, NEW w \in Workers, Proper(w), cache' \in Tables,
           \A c \in Ceremonies :
              cache'[c] = cache[c] \/ (cache'[c] = NoRow /\ (cache[c] < now \/ Lapsed(c))),
           UNCHANGED <<now, session, begun, issued, claimed, passes, completed>>
    PROVE  Inv'
<1>1. ClaimsInOrder'
  BY RowsMayGo
<1>2. Quiet
  BY <1>1, SavesKeep DEF Quiet, SessionKept, Inv, TypeOK
<1> QED BY <1>2, StepInv

\* A step that leaves the cache alone keeps the invariant.
LEMMA QuietStep ==
    ASSUME Inv, NEW w \in Workers, Proper(w), SessionKept,
           UNCHANGED <<now, begun, issued, cache, claimed, passes>>,
           completed' \subseteq Completions
    PROVE  Inv'
<1>1. cache' \in Tables
  BY DEF Inv, TypeOK
<1>2. ClaimsInOrder'
  BY <1>1, RowsMayGo
<1>3. Quiet
  BY <1>1, <1>2 DEF Quiet, SessionKept, Inv, TypeOK
<1> QED BY <1>3, StepInv

\* The copy of a request in order, and its copy without the challenge.
LEMMA CopyHeld ==
    ASSUME Inv, NEW w \in Workers
    PROVE  /\ req[w] \in Requests /\ RequestOK(req[w])
           /\ req[w].copy \in Data /\ Held(req[w].copy)
           /\ LET popped == [req[w].copy EXCEPT !.challenge = Null]
              IN  popped \in Data /\ Held(popped)
<1>1. req[w] \in Requests /\ RequestOK(req[w])
  BY DEF Inv, TypeOK, RequestsOK
<1>2. req[w].copy \in Data
  BY <1>1 DEF Requests
<1>3. [req[w].copy EXCEPT !.challenge = Null] \in Data
      /\ [req[w].copy EXCEPT !.challenge = Null].challenge = Null
  BY <1>2, DataUpdates
<1> QED BY <1>1, <1>2, <1>3 DEF RequestOK, Held

\* The types of what a request remembers of its ceremony.
LEMMA RequestInOrder ==
    ASSUME Inv, NEW w \in Workers
    PROVE  /\ RequestOK(req[w])
           /\ req[w].own \in Ceremonies \cup {Null} /\ req[w].own \in Nat
           /\ req[w].meta \in Ceremonies \cup {Null}
           /\ req[w].checked \in Nat /\ req[w].since \in Nat
<1>1. req[w] \in Requests /\ RequestOK(req[w])
  BY DEF Inv, TypeOK, RequestsOK
<1> QED BY <1>1 DEF Requests, Ceremonies, Null

\* An app request that finds its session again has a copy with metadata.
LEMMA LookUpInv ==
    ASSUME Inv, NEW w \in Workers, LookUp(w)
    PROVE  Inv'
<1>1. SessionKept /\ completed' \subseteq Completions
  BY SavesKeep DEF LookUp, Inv, TypeOK
<1>2. CASE RowExists(w)
  <2> DEFINE r == [req[w] EXCEPT !.copy = session.data, !.loaded = TRUE]
  <2>1. req' = [req EXCEPT ![w] = r]
    BY <1>2 DEF LookUp
  <2>2. r \in Requests /\ r.copy = session.data /\ r.at = req[w].at /\ r.own = req[w].own
    BY CopyHeld, SavesKeep DEF Requests
  <2>3. RequestOK(r)
    BY <2>2, CopyHeld, SavesKeep DEF RequestOK, LookUp, Claiming, Losing
  <2>4. Proper(w)
    BY <2>1, <2>2, <2>3 DEF Proper
  <2> QED BY <2>4, <1>1, QuietStep DEF LookUp
<1>3. CASE ~RowExists(w)
  BY <1>1, <1>3, LeaveProper, QuietStep DEF LookUp
<1> QED BY <1>2, <1>3

\* An options request arrives.
LEMMA OptionsArriveInv ==
    ASSUME Inv, NEW w \in Workers, OptionsArrive(w)
    PROVE  Inv'
<1>1. PICK p \in Purposes : Arrive(w, "clear", p, Null)
  BY DEF OptionsArrive
<1>2. Proper(w)
  BY <1>1, ArriveProper, BoundsAssumption
<1> QED BY <1>2, SavesKeep, QuietStep DEF OptionsArrive, Inv, TypeOK

\* A completion arrives.
LEMMA CompletionArriveInv ==
    ASSUME Inv, NEW w \in Workers, CompletionArrive(w)
    PROVE  Inv'
<1>1. PICK p \in Purposes, c \in Ceremonies \cup {Null} : Arrive(w, "consume", p, c)
  BY DEF CompletionArrive
<1>2. Proper(w)
  BY <1>1, ArriveProper, BoundsAssumption
<1> QED BY <1>2, SavesKeep, QuietStep DEF CompletionArrive, Inv, TypeOK

\* A request for another endpoint arrives.
LEMMA OtherArriveInv ==
    ASSUME Inv, NEW w \in Workers, OtherArrive(w)
    PROVE  Inv'
<1>1. Proper(w)
  BY ArriveProper DEF OtherArrive
<1> QED BY <1>1, SavesKeep, QuietStep DEF OtherArrive, Inv, TypeOK

\* process_view drops the challenge of the session.
LEMMA ClearChallengeInv ==
    ASSUME Inv, NEW w \in Workers, ClearChallenge(w)
    PROVE  Inv'
<1> DEFINE cleared == [req[w].copy EXCEPT !.challenge = Null]
<1>1. cleared \in Data /\ Held(cleared)
  BY CopyHeld
<1>2. CASE UNCHANGED session /\ Continue(w, "view", cleared)
  BY <1>1, <1>2, ContinueProper, SavesKeep, QuietStep DEF ClearChallenge, Inv, TypeOK
<1>3. CASE Save(cleared) /\ Continue(w, "view", cleared)
  BY <1>1, <1>3, ContinueProper, SavesKeep, QuietStep DEF ClearChallenge, Inv, TypeOK
<1>4. CASE UNCHANGED session /\ Leave(w)
  BY <1>4, LeaveProper, SavesKeep, QuietStep DEF ClearChallenge, Inv, TypeOK
<1> QED BY <1>2, <1>3, <1>4 DEF ClearChallenge

\* _consume_challenge pops the metadata; a claim starts in the lifetime of its challenge.
LEMMA ConsumeInv ==
    ASSUME Inv, NEW w \in Workers, Consume(w)
    PROVE  Inv'
<1> DEFINE c == req[w].copy.challenge
           popped == [req[w].copy EXCEPT !.challenge = Null]
<1>1. popped \in Data /\ Held(popped)
  BY CopyHeld
<1>2. completed' \subseteq Completions
  BY DEF Consume, Inv, TypeOK
<1>3. CASE Leave(w) /\ UNCHANGED session
  BY <1>2, <1>3, LeaveProper, SavesKeep, QuietStep DEF Consume
<1>4. CASE Leave(w) /\ Save(popped)
  BY <1>1, <1>2, <1>4, LeaveProper, SavesKeep, QuietStep DEF Consume
<1>5. CASE Respond(w, popped) /\ Save(popped)
  BY <1>1, <1>2, <1>5, RespondProper, SavesKeep, QuietStep DEF Consume
<1>6. CASE /\ c # Null /\ Fresh(c) /\ Save(popped)
           /\ req' = [req EXCEPT ![w].at = "claim", ![w].copy = popped,
                                 ![w].meta = c, ![w].checked = now]
  <2> DEFINE r == [req[w] EXCEPT !.at = "claim", !.copy = popped, !.meta = c, !.checked = now]
  <2>1. req' = [req EXCEPT ![w] = r]
    BY <1>6 DEF Inv, TypeOK
  <2>2. c \in Ceremonies /\ now \in Nat
    BY <1>6, CopyHeld, DataUpdates DEF Inv, TypeOK
  <2>3. /\ r \in Requests /\ r.at = "claim" /\ r.copy = popped /\ r.meta = c
        /\ r.checked = now
    BY <1>1, <2>2, CopyHeld DEF Requests, Steps, Claiming
  <2>4. issued[c].at # Null /\ issued[c].at \in Nat /\ issued[c].at <= now
    BY <1>6, <2>2, CopyHeld DEF Held, Inv, TypeOK, Metadata, IssuedBefore
  <2>5. now <= issued[c].at + TTL
    BY <1>6, <2>2, <2>4, BoundsAssumption DEF Fresh
  <2> HIDE DEF r, c
  <2>6. RequestOK(r)
    BY <1>1, <1>6, <2>2, <2>3, <2>4, <2>5 DEF RequestOK
  <2>7. Proper(w)
    BY <2>1, <2>3, <2>6 DEF Proper
  <2> QED BY <1>1, <1>2, <1>6, <2>7, SavesKeep, QuietStep DEF Consume
<1> QED BY <1>3, <1>4, <1>5, <1>6 DEF Consume

\* A request that claims a nonce, or has lost it, has that of a challenge.
LEMMA ClaimKey ==
    ASSUME Inv, NEW w \in Workers, req[w].at \in Claiming \cup Losing
    PROVE  req[w].meta \in Ceremonies /\ req[w].meta \in CacheKeys
BY CopyHeld, BoundsAssumption DEF RequestOK, Requests

\* _can_store deletes expired rows only.
LEMMA ReserveClaimInv ==
    ASSUME Inv, NEW w \in Workers, ReserveClaim(w)
    PROVE  Inv'
<1> DEFINE c == req[w].meta
<1>1. c \in Ceremonies /\ c \in CacheKeys /\ req[w].at = "claim"
  BY ClaimKey DEF ReserveClaim, Claiming
<1>2. PICK t \in req[w].checked .. now :
          /\ cache' = Reserved(cache, c, t)
          /\ \/ req' = [req EXCEPT ![w].at = "add", ![w].since = now]
             \/ Respond(w, req[w].copy)
  BY DEF ReserveClaim
<1>3. /\ t \in Nat /\ t <= now /\ now \in Nat /\ cache \in Tables
      /\ \A k \in Ceremonies : k \in CacheKeys /\ cache[k] \in Nat
  BY RequestInOrder, BoundsAssumption DEF Inv, TypeOK, Tables
<1>4. /\ cache' \in Tables
      /\ \A k \in Ceremonies : cache'[k] = cache[k] \/ (cache'[k] = NoRow /\ cache[k] < now)
  <2> DEFINE rows == Reserved(cache, c, t)
  <2>1. /\ rows \in Tables
        /\ \A k \in CacheKeys : rows[k] = cache[k] \/ (rows[k] = NoRow /\ cache[k] < t)
    BY <1>1, <1>3, LiveRowsKept
  <2>2. cache' = rows
    BY <1>2
  <2> HIDE DEF rows, c
  <2> QED BY <1>3, <2>1, <2>2
<1>5. CASE Respond(w, req[w].copy)
  BY <1>4, <1>5, CopyHeld, RespondProper, RowsStep DEF ReserveClaim
<1>6. CASE req' = [req EXCEPT ![w].at = "add", ![w].since = now]
  <2> DEFINE r == [req[w] EXCEPT !.at = "add", !.since = now]
  <2>1. /\ r \in Requests /\ r.at = "add" /\ r.copy = req[w].copy /\ r.meta = c
        /\ r.checked = req[w].checked /\ r.since = now
    BY <1>3, CopyHeld DEF Requests, Steps, Claiming
  <2>2. req' = [req EXCEPT ![w] = r]
    BY <1>6
  <2>3. RequestOK(req[w])
    BY RequestInOrder
  <2> HIDE DEF r
  <2>4. RequestOK(r)
    BY <1>1, <1>3, <2>1, <2>3 DEF RequestOK, Claiming
  <2>5. Proper(w)
    BY <2>1, <2>2, <2>4 DEF Proper
  <2> QED BY <1>4, <2>5, RowsStep DEF ReserveClaim
<1> QED BY <1>2, <1>5, <1>6

\* A row that a get finds expired is of a claim that has lapsed.
LEMMA VerifyClaimInv ==
    ASSUME Inv, NEW w \in Workers, VerifyClaim(w)
    PROVE  Inv'
<1> DEFINE c == req[w].meta
<1>1. c \in Ceremonies /\ c \in CacheKeys /\ req[w].at = "verify"
  BY ClaimKey DEF VerifyClaim, Losing
<1>2. UNCHANGED <<now, session, begun, issued, cache, claimed, passes, completed>>
  BY DEF VerifyClaim
<1>3. CASE Respond(w, req[w].copy)
  BY <1>2, <1>3, CopyHeld, RespondProper, SavesKeep, QuietStep DEF Inv, TypeOK
<1>4. CASE Overdue(cache, c, now) /\ Goto(w, "delete")
  <2> DEFINE r == [req[w] EXCEPT !.at = "delete"]
  <2>1. r \in Requests /\ r.at = "delete" /\ r.copy = req[w].copy /\ r.meta = c
    BY CopyHeld DEF Requests, Steps, Losing
  <2>2. req' = [req EXCEPT ![w] = r]
    BY <1>4 DEF Goto
  <2>3. Lapsed(c)
    <3>1. claimed[c] # Null
      BY <1>1, <1>4 DEF Overdue, Inv, RowsClaimed
    <3>2. \/ cache[c] > claimed[c] + TTL - Second
          \/ now > claimed[c] + TTL - Second
      BY <1>1, <3>1 DEF Inv, ClaimKept
    <3>3. /\ cache[c] \in Nat /\ now \in Nat /\ claimed[c] \in Nat /\ TTL \in Nat
          /\ Second \in Nat
      BY <1>1, BoundsAssumption, CacheAssumption DEF Inv, TypeOK, Tables
    <3> QED BY <1>4, <3>1, <3>2, <3>3 DEF Overdue, Lapsed
  <2>4. RequestOK(req[w])
    BY RequestInOrder
  <2> HIDE DEF r
  <2>5. RequestOK(r)
    BY <1>1, <2>1, <2>3, <2>4 DEF RequestOK, Claiming, Losing
  <2>6. Proper(w)
    BY <2>1, <2>2, <2>5 DEF Proper
  <2> QED BY <1>2, <2>6, SavesKeep, QuietStep DEF Inv, TypeOK
<1> QED BY <1>3, <1>4 DEF VerifyClaim

\* When it is deleted, its claim has lapsed still, though the row may be a new one.
LEMMA DeleteOverdueInv ==
    ASSUME Inv, NEW w \in Workers, DeleteOverdue(w)
    PROVE  Inv'
<1> DEFINE c == req[w].meta
<1>1. c \in Ceremonies /\ c \in CacheKeys /\ req[w].at = "delete"
  BY ClaimKey DEF DeleteOverdue, Losing
<1>2. Lapsed(c)
  BY <1>1, RequestInOrder DEF RequestOK
<1>3. cache \in Tables /\ cache' = Deleted(cache, c) /\ \A k \in Ceremonies : k \in CacheKeys
  BY BoundsAssumption DEF DeleteOverdue, Inv, TypeOK
<1>4. /\ cache' \in Tables
      /\ \A k \in Ceremonies : cache'[k] = cache[k] \/ (cache'[k] = NoRow /\ Lapsed(k))
  BY <1>1, <1>2, <1>3 DEF Deleted, Tables, NoRow
<1> QED BY <1>4, CopyHeld, RespondProper, RowsStep DEF DeleteOverdue

\* _cull deletes expired rows only.
LEMMA LoseClaimInv ==
    ASSUME Inv, NEW w \in Workers, LoseClaim(w)
    PROVE  Inv'
<1> DEFINE c == req[w].meta
<1>1. c \in Ceremonies /\ c \in CacheKeys /\ req[w].at = "add"
  BY ClaimKey DEF LoseClaim, Claiming
<1>2. PICK t \in req[w].since .. now : cache' = Culled(cache, t)
  BY DEF LoseClaim
<1>3. /\ t \in Nat /\ t <= now /\ now \in Nat /\ cache \in Tables
      /\ \A k \in Ceremonies : k \in CacheKeys /\ cache[k] \in Nat
  BY RequestInOrder, BoundsAssumption DEF Inv, TypeOK, Tables
<1>4. /\ cache' \in Tables
      /\ \A k \in Ceremonies : cache'[k] = cache[k] \/ (cache'[k] = NoRow /\ cache[k] < now)
  BY <1>1, <1>2, <1>3, LiveRowsKept
<1>5. "verify" \in Steps /\ c \in Ceremonies \cup {Null}
  BY <1>1 DEF Steps, Losing
<1>6. PICK r \in Requests : /\ req' = [req EXCEPT ![w] = r]
                            /\ r.at = "verify" /\ r.meta = c /\ Held(r.copy)
  <2>1. ContinueWith(w, "verify", req[w].copy, c)
    BY DEF LoseClaim
  <2>2. req[w].copy \in Data /\ Held(req[w].copy)
    BY CopyHeld
  <2> HIDE DEF c
  <2> QED BY <1>5, <2>1, <2>2, Goes
<1>7. RequestOK(req[w])
  BY RequestInOrder
<1>8. RequestOK(r)
  BY <1>1, <1>6, <1>7 DEF RequestOK, Claiming, Losing
<1>9. Proper(w)
  BY <1>6, <1>8 DEF Proper
<1> QED BY <1>4, <1>9, RowsStep DEF LoseClaim

\* The first claim of a challenge bars the next until it has had its time, and the row that
\* is written is at least of that claim.
LEMMA StoreClaimKeeps ==
    ASSUME Inv, NEW w \in Workers, req[w].at = "add", UNCHANGED <<now, issued>>,
           NEW t \in req[w].since .. now, StoreClaim(req[w].meta, t)
    PROVE  LET c == req[w].meta IN
           /\ c \in Ceremonies /\ issued[c].at # Null
           /\ issued[c].at <= req[w].checked /\ req[w].checked <= issued[c].at + TTL
           /\ t \in req[w].checked .. now /\ t # Null
           /\ claimed[c] = Null => claimed' = [claimed EXCEPT ![c] = t]
           /\ claimed[c] # Null => UNCHANGED claimed /\ now > claimed[c] + TTL - Second
           /\ cache' \in Tables
           /\ claimed' \in [Ceremonies -> Nat]
           /\ claimed'[c] # Null
           /\ \A d \in Ceremonies : claimed[d] # Null => claimed'[d] = claimed[d]
           /\ ClaimKept' /\ RowsClaimed'
<1> DEFINE c == req[w].meta
<1>1. c \in Ceremonies /\ c \in CacheKeys
  BY ClaimKey DEF Claiming
<1>2. /\ issued[c].at # Null /\ issued[c].at <= req[w].checked
      /\ req[w].checked <= issued[c].at + TTL
      /\ req[w].checked <= req[w].since /\ req[w].since <= now
  BY RequestInOrder DEF RequestOK, Claiming
<1>3. /\ issued[c].at \in Nat /\ req[w].checked \in Nat /\ req[w].since \in Nat /\ now \in Nat
      /\ TTL \in Nat /\ Second \in Nat /\ cache \in Tables
      /\ \A d \in Ceremonies : /\ d \in CacheKeys /\ cache[d] \in Nat /\ claimed[d] \in Nat
                              /\ issued[d].at \in Nat
      /\ claimed \in [Ceremonies -> Nat]
  BY <1>1, RequestInOrder, BoundsAssumption, CacheAssumption
  DEF Inv, TypeOK, Metadata, Tables
<1>4. t \in req[w].checked .. now /\ t \in Nat /\ t > 0 /\ t # Null
  BY <1>2, <1>3 DEF Null
<1>5. /\ AddStores(cache, c, t) /\ cache' = Added(cache, c, t, TTL)
      /\ claimed' = [claimed EXCEPT ![c] = IF claimed[c] = Null THEN t ELSE claimed[c]]
  BY DEF StoreClaim
<1> HIDE DEF c
<1>6. /\ cache' \in Tables /\ cache[c] < t /\ cache'[c] > t + TTL - Second
      /\ \A d \in CacheKeys : d # c =>
            cache'[d] = cache[d] \/ (cache'[d] = NoRow /\ cache[d] < t)
  BY <1>1, <1>3, <1>4, <1>5, InsertKeeps
<1>7. claimed[c] = Null => claimed' = [claimed EXCEPT ![c] = t]
  BY <1>5
<1>8. claimed[c] # Null => UNCHANGED claimed
  BY <1>3, <1>5
<1>9. claimed[c] # Null => now > claimed[c] + TTL - Second
  <2>1. claimed[c] # Null => cache[c] > claimed[c] + TTL - Second
                             \/ now > claimed[c] + TTL - Second
    BY <1>1 DEF Inv, ClaimKept
  <2> QED BY <1>1, <1>3, <1>4, <1>6, <2>1
<1>10. claimed' \in [Ceremonies -> Nat] /\ claimed'[c] # Null
  BY <1>1, <1>3, <1>4, <1>7, <1>8
<1>11. /\ claimed[c] = Null => claimed'[c] = t
       /\ \A d \in Ceremonies : d # c \/ claimed[d] # Null => claimed'[d] = claimed[d]
  BY <1>1, <1>3, <1>5
<1>12. ClaimKept'
  <2> SUFFICES ASSUME NEW d \in Ceremonies, claimed'[d] # Null
               PROVE  /\ issued[d].at # Null
                      /\ \/ cache'[d] > claimed'[d] + TTL - Second
                         \/ now > claimed'[d] + TTL - Second
    BY DEF ClaimKept
  <2>1. CASE d = c
    BY <1>2, <1>6, <1>8, <1>9, <1>11, <2>1
  <2>2. CASE d # c
    <3>1. /\ issued[d].at # Null /\ claimed'[d] = claimed[d]
          /\ \/ cache[d] > claimed[d] + TTL - Second
             \/ now > claimed[d] + TTL - Second
      BY <1>11, <2>2 DEF Inv, ClaimKept
    <3>2. cache'[d] = cache[d] \/ cache[d] < t
      BY <1>3, <1>6, <2>2
    <3> QED BY <1>3, <1>4, <3>1, <3>2
  <2> QED BY <2>1, <2>2
<1>13. RowsClaimed'
  <2> SUFFICES ASSUME NEW d \in Ceremonies, cache'[d] # NoRow PROVE claimed'[d] # Null
    BY DEF RowsClaimed
  <2>1. CASE d = c
    BY <1>10, <2>1
  <2>2. CASE d # c
    <3>1. cache[d] # NoRow
      BY <1>3, <1>6, <2>2
    <3> QED BY <1>11, <2>2, <3>1 DEF Inv, RowsClaimed
  <2> QED BY <2>1, <2>2
<1> QED BY <1>1, <1>2, <1>4, <1>6, <1>7, <1>8, <1>9, <1>10, <1>11, <1>12, <1>13 DEF c

\* A refused completion leaves a claim, and lets nothing pass.
LEMMA RefuseClaimInv ==
    ASSUME Inv, NEW w \in Workers, RefuseClaim(w)
    PROVE  Inv'
<1>1. /\ req[w].at = "add" /\ Respond(w, req[w].copy)
      /\ UNCHANGED <<now, session, begun, issued, passes, completed>>
  BY DEF RefuseClaim
<1>2. Proper(w)
  BY <1>1, CopyHeld, RespondProper
<1>3. PICK t \in req[w].since .. now : StoreClaim(req[w].meta, t)
  BY DEF RefuseClaim
<1>4. /\ cache' \in Tables /\ claimed' \in [Ceremonies -> Nat]
      /\ \A d \in Ceremonies : claimed[d] # Null => claimed'[d] = claimed[d]
      /\ ClaimKept' /\ RowsClaimed'
  BY <1>1, <1>3, StoreClaimKeeps
<1>5. PassesLate'
  BY <1>1, <1>4 DEF Inv, PassesLate
<1>6. Quiet
  BY <1>1, <1>4, <1>5, SavesKeep DEF Quiet, ClaimsInOrder, SessionKept, Inv, TypeOK
<1> QED BY <1>2, <1>6, StepInv

\* What a completion that passes has to show.
LEMMA PassClaimMatches ==
    ASSUME Inv, NEW w \in Workers, PassClaim(w)
    PROVE  LET c == req[w].meta
               pass == [purpose |-> issued[c].purpose, subject |-> issued[c].subject,
                        checked |-> req[w].checked, at |-> now]
           IN  /\ c \in Ceremonies /\ req[w].own = c /\ issued[c].at # Null
               /\ issued[c].purpose = req[w].purpose
               /\ issued[c].subject = Subject(req[w].copy, req[w].purpose)
               /\ pass \in Passes
               /\ passes' = [passes EXCEPT ![c] = Append(@, pass)]
<1> DEFINE c == req[w].meta
           pass == [purpose |-> issued[c].purpose, subject |-> issued[c].subject,
                    checked |-> req[w].checked, at |-> now]
<1>1. c \in Ceremonies /\ req[w].at = "add"
  BY ClaimKey DEF PassClaim, Claiming
<1>2. issued[c].at # Null
  BY <1>1, RequestInOrder DEF RequestOK, Claiming
<1>3. /\ req[w].own = c /\ issued[c].purpose = req[w].purpose
      /\ issued[c].subject = Subject(req[w].copy, req[w].purpose)
  BY DEF PassClaim, Matches
<1>4. issued[c] \in Metadata /\ req[w].checked \in Nat /\ now \in Nat
  BY <1>1, RequestInOrder DEF Inv, TypeOK
<1>5. pass \in Passes
  BY <1>4 DEF Metadata, Passes
<1>6. passes' = [passes EXCEPT ![c] = Append(@, pass)]
  BY <1>3 DEF PassClaim
<1> QED BY <1>1, <1>2, <1>3, <1>5, <1>6

\* A completion passes in its time, and again only after the first claim has lapsed.
LEMMA PassClaimInv ==
    ASSUME Inv, NEW w \in Workers, PassClaim(w)
    PROVE  Inv'
<1> DEFINE c == req[w].meta
           pass == [purpose |-> issued[c].purpose, subject |-> issued[c].subject,
                    checked |-> req[w].checked, at |-> now]
<1>1. /\ req[w].at = "add" /\ Continue(w, "finish", req[w].copy)
      /\ UNCHANGED <<now, session, begun, issued, completed>>
  BY DEF PassClaim
<1>2. /\ c \in Ceremonies /\ req[w].own = c /\ pass \in Passes
      /\ passes' = [passes EXCEPT ![c] = Append(@, pass)]
  BY PassClaimMatches
<1>3. PICK t \in req[w].since .. now : StoreClaim(c, t)
  BY DEF PassClaim
<1>4. /\ cache' \in Tables /\ claimed' \in [Ceremonies -> Nat] /\ claimed'[c] # Null
      /\ req[w].checked <= issued[c].at + TTL
      /\ claimed[c] # Null => now > claimed[c] + TTL - Second
      /\ \A d \in Ceremonies : claimed[d] # Null => claimed'[d] = claimed[d]
      /\ ClaimKept' /\ RowsClaimed'
  BY <1>1, <1>3, StoreClaimKeeps
<1>5. pass.checked = req[w].checked /\ pass.at = now
  OBVIOUS
<1> HIDE DEF pass
<1>6. passes \in [Ceremonies -> Seq(Passes)]
  BY DEF Inv, TypeOK
<1>7. passes' \in [Ceremonies -> Seq(Passes)]
      /\ passes'[c] = Append(passes[c], pass)
      /\ \A d \in Ceremonies : d # c => passes'[d] = passes[d]
  BY <1>2, <1>6
<1>8. PassesLate'
  <2> SUFFICES ASSUME NEW d \in Ceremonies, NEW i \in 1 .. Len(passes'[d])
               PROVE  /\ claimed'[d] # Null
                      /\ passes'[d][i].checked <= issued[d].at + TTL
                      /\ i > 1 => passes'[d][i].at > claimed'[d] + TTL - Second
    BY <1>1 DEF PassesLate
  <2>1. CASE i \in 1 .. Len(passes[d])
    <3>1. passes'[d][i] = passes[d][i]
      BY <1>6, <1>7, <2>1
    <3> QED BY <1>4, <2>1, <3>1 DEF Inv, PassesLate
  <2>2. CASE i \notin 1 .. Len(passes[d])
    <3>1. d = c /\ i = Len(passes[c]) + 1 /\ passes'[d][i] = pass
      BY <1>2, <1>6, <1>7, <2>2
    <3>2. i > 1 => claimed[c] # Null
      <4>1. i > 1 => 1 \in 1 .. Len(passes[c])
        BY <1>2, <1>6, <3>1
      <4> QED BY <1>2, <4>1 DEF Inv, PassesLate
    <3> HIDE DEF c
    <3> QED BY <1>2, <1>4, <1>5, <3>1, <3>2
  <2> QED BY <2>1, <2>2
<1>9. Quiet
  BY <1>1, <1>4, <1>7, <1>8, SavesKeep DEF Quiet, ClaimsInOrder, SessionKept, Inv, TypeOK
<1>10. "finish" \in Steps /\ Null \in Ceremonies \cup {Null}
  BY DEF Steps
<1>11. PICK r \in Requests : /\ req' = [req EXCEPT ![w] = r]
                             /\ r.at = "finish" /\ r.own = req[w].own /\ Held(r.copy)
  <2>1. ContinueWith(w, "finish", req[w].copy, Null)
    BY <1>1 DEF Continue
  <2>2. req[w].copy \in Data /\ Held(req[w].copy)
    BY CopyHeld
  <2> QED BY <1>10, <2>1, <2>2, Goes
<1>12. RequestOK(r)
  BY <1>2, <1>11 DEF RequestOK, Claiming, Losing, Ceremonies, Null
<1>13. Proper(w)
  BY <1>11, <1>12 DEF Proper
<1> QED BY <1>9, <1>13, StepInv

\* The view uses up the state of allauth and may sign in; the middleware is not affected.
LEMMA CompleteViewInv ==
    ASSUME Inv, NEW w \in Workers, CompleteView(w)
    PROVE  Inv'
<1> DEFINE p == req[w].purpose
           copy == req[w].copy
<1>1. CASE Respond(w, copy) /\ UNCHANGED <<session, completed>>
  BY <1>1, CopyHeld, RespondProper, SavesKeep, QuietStep DEF CompleteView, Inv, TypeOK
<1>2. CASE /\ completed' = completed \cup {[ceremony |-> req[w].own, purpose |-> p,
                                  subject |-> Subject(copy, p), verified |-> copy.verified]}
           /\ \E data \in Logged([copy EXCEPT !.state = Null], p) :
                 /\ \/ session' = [key |-> session.key + 1, data |-> data]
                    \/ Save(data)
                 /\ Leave(w)
  <2> DEFINE done == [copy EXCEPT !.state = Null]
  <2>1. PICK data \in Logged(done, p) :
                 /\ \/ session' = [key |-> session.key + 1, data |-> data]
                    \/ Save(data)
                 /\ Leave(w)
    BY <1>2
  <2>2. done \in Data /\ done.challenge = copy.challenge
    BY CopyHeld, DataUpdates
  <2> HIDE DEF done
  <2>3. data \in Data /\ data.challenge = copy.challenge
    BY <2>2, LoggedData
  <2>4. Held(data)
    BY <2>3, CopyHeld DEF Held
  <2>5. session.key + 1 \in Nat
    BY SavesKeep
  <2>6. SessionKept
    BY <2>1, <2>3, <2>4, <2>5, SavesKeep
  <2>7. req[w].own \in Ceremonies /\ p \in AllPurposes \cup {"none"} /\ copy.verified \in BOOLEAN
    BY CopyHeld DEF Requests, RequestOK, Data, CompleteView, Ready
  <2>8. Subject(copy, p) \in Subjects \cup {Null}
    BY <2>7, CopyHeld, DataUpdates
  <2>9. completed' \subseteq Completions
    BY <1>2, <2>7, <2>8 DEF Inv, TypeOK, Completions
  <2> QED BY <2>1, <2>6, <2>9, LeaveProper, QuietStep DEF CompleteView
<1> QED BY <1>1, <1>2 DEF CompleteView

\* SessionMiddleware saves the copy, stale or not: its challenge has metadata.
LEMMA SaveOnResponseInv ==
    ASSUME Inv, NEW w \in Workers, SaveOnResponse(w)
    PROVE  Inv'
<1>1. SessionKept
  BY CopyHeld, SavesKeep DEF SaveOnResponse
<1> QED BY <1>1, LeaveProper, QuietStep DEF SaveOnResponse, Inv, TypeOK

\* Another endpoint saves, signs in or signs out.
LEMMA OtherSaveInv ==
    ASSUME Inv, NEW w \in Workers, OtherSave(w)
    PROVE  Inv'
<1> DEFINE copy == req[w].copy
<1>1. copy \in Data /\ Held(copy)
  BY CopyHeld
<1>2. \A k \in Kinds, s \in Subjects :
          [copy EXCEPT !.who[k] = s] \in Data /\ Held([copy EXCEPT !.who[k] = s])
  BY <1>1, DataUpdates DEF Held
<1>3. Empty \in Data /\ Held(Empty)
  BY DEF Empty, Data, Held, Null
<1>5. PICK next \in Nat : next = session.key + 1
  BY SavesKeep
<1>6. SessionKept
  <2>1. CASE Save(copy)
    BY <2>1, <1>1, SavesKeep
  <2>2. CASE \E k \in Kinds, s \in Subjects : Save([copy EXCEPT !.who[k] = s])
    BY <2>2, <1>2, SavesKeep
  <2>3. CASE \E s \in Subjects :
               session' = [key |-> session.key + 1,
                           data |-> [copy EXCEPT !.who["authenticated"] = s]]
    <3>1. PICK s \in Subjects :
               session' = [key |-> session.key + 1,
                           data |-> [copy EXCEPT !.who["authenticated"] = s]]
      BY <2>3
    <3> DEFINE signed == [copy EXCEPT !.who["authenticated"] = s]
    <3>2. signed \in Data /\ Held(signed)
      BY <1>2 DEF Kinds
    <3> HIDE DEF signed
    <3>3. session' = [key |-> next, data |-> signed]
      BY <3>1, <1>5 DEF signed
    <3> QED BY <3>2, <3>3, SavesKeep
  <2>4. CASE session' = [key |-> session.key + 1, data |-> Empty]
    BY <2>4, <1>5, <1>3, SavesKeep
  <2>5. {SubjectKind(p) : p \in Purposes} \subseteq Kinds
    BY DEF SubjectKind, Kinds
  <2> QED BY <2>1, <2>2, <2>3, <2>4, <2>5 DEF OtherSave
<1> QED BY <1>6, LeaveProper, QuietStep DEF OtherSave, Inv, TypeOK

\* A request is killed.
LEMMA AbortInv ==
    ASSUME Inv, NEW w \in Workers, Abort(w)
    PROVE  Inv'
BY LeaveProper, SavesKeep, QuietStep DEF Abort, Inv, TypeOK

\* A claim in another session takes away no rows but expired ones.
LEMMA OtherClaimKeeps ==
    ASSUME Inv, NEW k \in Others, OtherClaim(k)
    PROVE  /\ cache' \in Tables
           /\ cache[k] < now
           /\ \A j \in CacheKeys : j # k =>
                 cache'[j] = cache[j] \/ (cache'[j] = NoRow /\ cache[j] < now)
<1>1. k \in CacheKeys /\ now \in Nat /\ now > 0 /\ TTL \in Nat /\ cache \in Tables
  BY BoundsAssumption DEF Others, Inv, TypeOK
<1> DEFINE reserved == Reserved(cache, k, now)
<1>2. /\ reserved \in Tables
      /\ \A j \in CacheKeys :
            reserved[j] = cache[j] \/ (reserved[j] = NoRow /\ cache[j] < now)
  BY <1>1, LiveRowsKept
<1>3. AddStores(reserved, k, now)
  BY <1>1 DEF OtherClaim, AddStores, Reserved, Purge, Without, Expired, Stored, Tables, NoRow
<1>4. cache' = Added(reserved, k, now, TTL)
  BY DEF OtherClaim
<1>5. AddStores(cache, k, now)
  BY DEF OtherClaim
<1>6. cache[k] < now
  BY <1>1, <1>5, InsertKeeps
<1> HIDE DEF reserved
<1>7. /\ cache' \in Tables
      /\ \A j \in CacheKeys : j # k =>
            cache'[j] = reserved[j] \/ (cache'[j] = NoRow /\ reserved[j] < now)
  BY <1>1, <1>2, <1>3, <1>4, InsertKeeps
<1> QED BY <1>2, <1>6, <1>7

\* A completion in another session claims its nonce.
LEMMA OtherClaimInv ==
    ASSUME Inv, NEW k \in Others, OtherClaim(k)
    PROVE  Inv'
<1>1. UNCHANGED <<now, session, begun, issued, req, claimed, passes, completed>>
  BY DEF OtherClaim
<1>2. \A c \in Ceremonies : c \in CacheKeys /\ c # k
  BY BoundsAssumption DEF Others
<1>3. ClaimsInOrder'
  BY <1>1, <1>2, OtherClaimKeeps, RowsMayGo
<1>4. TypeOK'
  BY <1>1, OtherClaimKeeps DEF Inv, TypeOK
<1> QED BY <1>1, <1>3, <1>4
        DEF Inv, ClaimsInOrder, SessionHeld, RequestsOK, RequestOK, Lapsed, Held, OwnCeremony,
            NotBegun, IssuedBefore

----------------------------------------------------------------------------
(* The clock, and the steps that begin and issue a ceremony. *)

\* The clock moves on at any time, and ages all claims alike.
LEMMA TickInv ==
    ASSUME Inv, Tick
    PROVE  Inv'
<1>1. /\ now \in Nat /\ now' = now + 1
      /\ UNCHANGED <<session, begun, issued, cache, req, claimed, passes, completed>>
  BY DEF Tick, Inv, TypeOK
<1>2. TypeOK' /\ SessionHeld' /\ OwnCeremony' /\ NotBegun'
  BY <1>1 DEF Inv, TypeOK, SessionHeld, Held, OwnCeremony, NotBegun
<1>3. \A c \in Ceremonies : issued[c].at \in Nat /\ claimed[c] \in Nat
  BY DEF Inv, TypeOK, Metadata
<1>4. TTL \in Nat /\ Second \in Nat
  BY BoundsAssumption, CacheAssumption
<1>5. ASSUME NEW w \in Workers PROVE RequestOK(req[w])'
  <2>1. req[w].checked \in Nat /\ req[w].since \in Nat /\ RequestOK(req[w])
    BY RequestInOrder
  <2>2. req[w].at = "delete" => req[w].meta \in Ceremonies
    BY ClaimKey DEF Losing
  <2>3. Lapsed(req[w].meta) /\ req[w].meta \in Ceremonies => Lapsed(req[w].meta)'
    BY <1>1, <1>3, <1>4 DEF Lapsed
  <2>4. /\ req[w].checked <= now => req[w].checked <= now'
        /\ req[w].since <= now => req[w].since <= now'
    BY <1>1, <2>1
  <2>5. req' = req /\ issued' = issued /\ begun' = begun
    BY <1>1
  <2>6. req[w].at = "delete" => Lapsed(req[w].meta)'
    BY <2>1, <2>2, <2>3 DEF RequestOK
  <2> QED BY <2>1, <2>4, <2>5, <2>6 DEF RequestOK, Held
<1>6. IssuedBefore'
  BY <1>1, <1>3 DEF Inv, IssuedBefore
<1>7. ClaimKept'
  <2> SUFFICES ASSUME NEW c \in Ceremonies, claimed[c] # Null
               PROVE  /\ issued[c].at # Null
                      /\ \/ cache[c] > claimed[c] + TTL - Second
                         \/ now + 1 > claimed[c] + TTL - Second
    BY <1>1 DEF ClaimKept
  <2>1. claimed[c] + TTL - Second \in Int
    BY <1>3, <1>4
  <2>2. /\ issued[c].at # Null
        /\ \/ cache[c] > claimed[c] + TTL - Second
           \/ now > claimed[c] + TTL - Second
    BY DEF Inv, ClaimKept
  <2>3. now > claimed[c] + TTL - Second => now + 1 > claimed[c] + TTL - Second
    BY <1>1, <2>1
  <2> QED BY <2>2, <2>3
<1>8. RowsClaimed' /\ PassesLate'
  BY <1>1 DEF Inv, RowsClaimed, PassesLate
<1> QED BY <1>2, <1>5, <1>6, <1>7, <1>8 DEF Inv, RequestsOK

\* A ceremony that allauth begins has a new number.
LEMMA BeginInv ==
    ASSUME Inv, NEW w \in Workers, Begin(w)
    PROVE  Inv'
<1> DEFINE c == begun + 1
           data == [req[w].copy EXCEPT !.state = c, !.verified = FALSE]
           r == [req[w] EXCEPT !.at = "store", !.own = c, !.copy = Kept(data),
                               !.loaded = (Client = "browser")]
<1>1. /\ begun \in Nat /\ c \in Ceremonies /\ begun' = c /\ c \in 0 .. NumCeremonies
      /\ UNCHANGED <<now, issued, cache, claimed, passes, completed>>
  BY BoundsAssumption DEF Begin, Inv, TypeOK, Ceremonies
<1>2. data \in Data /\ data.challenge = req[w].copy.challenge
  BY <1>1, CopyHeld DEF Data
<1>3. Held(data) /\ Kept(data) \in Data /\ Held(Kept(data))
  <2>1. Empty \in Data /\ Held(Empty)
    BY DEF Empty, Data, Held, Null
  <2>2. Held(data)
    BY <1>2, CopyHeld DEF Held
  <2> QED BY <1>2, <2>1, <2>2 DEF Kept
<1>4. SessionKept
  BY <1>2, <1>3, SavesKeep DEF Begin
<1>5. req' = [req EXCEPT ![w] = r]
  BY DEF Begin, Inv, TypeOK
<1>6. r \in Requests /\ r.at = "store" /\ r.copy = Kept(data) /\ r.own = c
  BY <1>1, <1>3, CopyHeld DEF Requests, Steps
<1>7. issued[c].at = Null /\ c # Null
  BY <1>1 DEF Inv, NotBegun, Null
<1> HIDE DEF data, r
<1>8. /\ req' \in [Workers -> Requests]
      /\ \A v \in Workers : req'[v] = IF v = w THEN r ELSE req[v]
  BY <1>5, <1>6 DEF Inv, TypeOK
<1>9. TypeOK'
  BY <1>1, <1>4, <1>6, <1>8 DEF Inv, TypeOK, SessionKept, Claiming, Losing
<1>10. SessionHeld'
  BY <1>1, <1>4 DEF SessionKept, SessionHeld, Held
<1>11. ASSUME NEW v \in Workers PROVE RequestOK(req[v])'
  <2>1. CASE v = w
    BY <1>1, <1>3, <1>6, <1>7, <1>8, <2>1 DEF RequestOK, Held, Claiming, Losing
  <2>2. CASE v # w
    <3>1. RequestOK(req[v]) /\ req[v].own \in Nat
      BY RequestInOrder
    <3>2. req[v].own <= begun => req[v].own <= c
      BY <1>1, <3>1
    <3> QED BY <1>1, <1>8, <2>2, <3>1, <3>2 DEF RequestOK, Held, Lapsed
  <2> QED BY <2>1, <2>2
<1>12. OwnCeremony'
  <2>1. \A v \in Workers : v # w /\ req[v].at = "store" => req[v].own # c
    <3> SUFFICES ASSUME NEW v \in Workers, req[v].at = "store" PROVE req[v].own # c
      OBVIOUS
    <3>1. req[v].own <= begun /\ req[v].own \in Nat
      BY RequestInOrder DEF RequestOK
    <3> QED BY <1>1, <3>1
  <2> QED BY <1>6, <1>8, <2>1 DEF Inv, OwnCeremony
<1>13. NotBegun'
  <2>1. \A d \in Ceremonies : d > c => d > begun
    BY <1>1 DEF Ceremonies
  <2> QED BY <1>1, <2>1 DEF Inv, NotBegun
<1>14. IssuedBefore' /\ ClaimKept' /\ RowsClaimed' /\ PassesLate'
  BY <1>1 DEF Inv, IssuedBefore, ClaimKept, RowsClaimed, PassesLate
<1> QED BY <1>9, <1>10, <1>11, <1>12, <1>13, <1>14 DEF Inv, RequestsOK

\* The metadata of a challenge is written once, by the request that began the ceremony.
LEMMA StoreIssues ==
    ASSUME Inv, NEW w \in Workers, StoreChallenge(w), Storable(w)
    PROVE  LET c == req[w].own IN
           /\ c \in Ceremonies /\ c <= begun /\ issued[c].at = Null
           /\ issued' \in [Ceremonies -> Metadata] /\ issued'[c].at = now
           /\ issued' = [issued EXCEPT ![c] = issued'[c]]
           /\ \E data \in Data :
                 data.challenge = c /\ Save(data) /\ Respond(w, data)
           /\ UNCHANGED <<now, begun, cache, claimed, passes, completed>>
<1> DEFINE c == req[w].own
           copy == req[w].copy
           binding == IF copy.binding = Null THEN c ELSE copy.binding
           required == RequireVerification(copy, req[w].purpose)
           data == [required EXCEPT !.challenge = c, !.binding = binding]
           m == [purpose |-> req[w].purpose, subject |-> Subject(copy, req[w].purpose),
                 binding |-> binding, at |-> now]
<1>1. c \in Ceremonies /\ c <= begun /\ issued[c].at = Null
  BY RequestInOrder DEF RequestOK, StoreChallenge, Ready
<1>2. copy \in Data /\ req[w].purpose \in AllPurposes \cup {"none"}
  BY CopyHeld DEF Requests
<1>3. required \in Data
  BY <1>2 DEF RequireVerification, Data
<1>4. binding \in Ceremonies \cup {Null}
  BY <1>1, <1>2 DEF Data
<1>5. m \in Metadata /\ m.at = now
  BY <1>2, <1>4, DataUpdates DEF Metadata, Inv, TypeOK
<1>6. issued' = [issued EXCEPT ![c] = m] /\ Save(data) /\ Respond(w, data)
  BY DEF StoreChallenge
<1> HIDE DEF m, required, binding
<1>7. data \in Data /\ data.challenge = c
  BY <1>1, <1>3, <1>4 DEF Data
<1>8. issued \in [Ceremonies -> Metadata]
  BY DEF Inv, TypeOK
<1>9. issued' \in [Ceremonies -> Metadata] /\ issued'[c] = m
  BY <1>1, <1>5, <1>6, <1>8
<1> HIDE DEF data
<1> QED BY <1>1, <1>5, <1>6, <1>7, <1>9 DEF StoreChallenge

\* A new challenge disturbs no request, and no claim.
LEMMA StoreChallengeInv ==
    ASSUME Inv, NEW w \in Workers, StoreChallenge(w)
    PROVE  Inv'
<1>1. CASE ~Storable(w)
  <2> DEFINE copy == req[w].copy
             binding == IF copy.binding = Null THEN req[w].own ELSE copy.binding
             bound == [copy EXCEPT !.binding = binding]
  <2>1. copy \in Data /\ Held(copy) /\ req[w].own \in Ceremonies \cup {Null}
    BY CopyHeld, RequestInOrder
  <2>2. bound \in Data /\ bound.challenge = copy.challenge
    BY <2>1 DEF Data
  <2>3. Respond(w, bound) /\ UNCHANGED session
    BY <1>1 DEF StoreChallenge
  <2> HIDE DEF bound
  <2>4. Held(bound)
    BY <2>1, <2>2 DEF Held
  <2>5. Proper(w)
    BY <2>2, <2>3, <2>4, RespondProper
  <2>6. UNCHANGED <<now, begun, issued, cache, claimed, passes, completed>>
    BY <1>1 DEF StoreChallenge
  <2> QED BY <2>3, <2>5, <2>6, SavesKeep, QuietStep DEF Inv, TypeOK
<1>2. CASE Storable(w)
  <2> DEFINE c == req[w].own
  <2>1. /\ c \in Ceremonies /\ c <= begun /\ issued[c].at = Null
        /\ issued' \in [Ceremonies -> Metadata] /\ issued'[c].at = now
        /\ issued' = [issued EXCEPT ![c] = issued'[c]]
        /\ UNCHANGED <<now, begun, cache, claimed, passes, completed>>
    BY <1>2, StoreIssues
  <2>2. PICK data \in Data : data.challenge = c /\ Save(data) /\ Respond(w, data)
    BY <1>2, StoreIssues
  <2>3. \A d \in Ceremonies : d # c => issued'[d] = issued[d]
    BY <2>1 DEF Inv, TypeOK
  <2>4. now # Null /\ now \in Nat
    BY DEF Inv, TypeOK, Null
  <2>5. \A d \in Ceremonies : issued[d].at # Null => issued'[d] = issued[d]
    BY <2>1, <2>3
  <2>6. PICK r \in Requests : /\ req' = [req EXCEPT ![w] = r]
                              /\ r.at \in {"idle", "respond"} /\ r.copy \in {Empty, data}
    <3>1. CASE Leave(w)
      <4>1. Idle \in Requests /\ Idle.at = "idle" /\ Idle.copy = Empty
        BY DEF Idle, Requests, Steps, Claiming, Losing, Empty, Data, Null
      <4> QED BY <3>1, <4>1 DEF Leave
    <3>2. CASE Client = "browser" /\ Continue(w, "respond", data)
      <4> DEFINE q == [Idle EXCEPT !.at = "respond", !.purpose = req[w].purpose,
                                   !.own = req[w].own, !.key = req[w].key, !.copy = data,
                                   !.loaded = TRUE, !.meta = Null]
      <4>1. q \in Requests /\ q.at = "respond" /\ q.copy = data
        BY CopyHeld DEF Idle, Requests, Steps, Null
      <4>2. req' = [req EXCEPT ![w] = q]
        BY <3>2 DEF Continue, ContinueWith, Kept
      <4> QED BY <4>1, <4>2
    <3> QED BY <2>2, <3>1, <3>2 DEF Respond
  <2>7. /\ req' \in [Workers -> Requests]
        /\ \A v \in Workers : req'[v] = IF v = w THEN r ELSE req[v]
    BY <2>6 DEF Inv, TypeOK
  <2>8. ASSUME NEW v \in Workers PROVE RequestOK(req[v])'
    <3>1. CASE v = w
      BY <2>1, <2>2, <2>4, <2>6, <2>7, <3>1
      DEF RequestOK, Held, Claiming, Losing, Empty
    <3>2. CASE v # w
      <4>1. RequestOK(req[v]) /\ req[v] \in Requests /\ req[v].copy \in Data
        BY CopyHeld
      <4>2. /\ req[v].own \in Ceremonies \cup {Null} /\ req[v].meta \in Ceremonies \cup {Null}
            /\ req[v].copy.challenge \in Ceremonies \cup {Null}
        BY <4>1, RequestInOrder, DataUpdates
      <4>3. req[v].at = "store" => req[v].own # c
        BY <3>2 DEF Inv, OwnCeremony, StoreChallenge, Ready
      <4>4. req'[v] = req[v] /\ now' = now /\ begun' = begun
        BY <2>1, <2>7, <3>2
      <4>5. Held(req[v].copy)'
        BY <2>5, <4>1, <4>2, <4>4 DEF Held, RequestOK
      <4>6. req[v].at = "store" => issued'[req[v].own].at = Null
        BY <2>3, <4>1, <4>2, <4>3 DEF RequestOK
      <4>7. req[v].meta # Null /\ issued[req[v].meta].at # Null
              => issued'[req[v].meta] = issued[req[v].meta]
        BY <2>5, <4>2
      <4>8. Lapsed(req[v].meta) => Lapsed(req[v].meta)'
        BY <2>1, <4>4 DEF Lapsed
      <4> QED BY <4>1, <4>4, <4>5, <4>6, <4>7, <4>8 DEF RequestOK, Claiming, Losing
    <3> QED BY <3>1, <3>2
  <2>9. TypeOK'
    <3>1. ASSUME NEW v \in Workers, req'[v].at \in Claiming \cup Losing
          PROVE  /\ req'[v].meta # Null
                 /\ req'[v].at \in Claiming
                       => req'[v].checked - issued'[req'[v].meta].at <= TTL
      <4>1. v # w /\ req'[v] = req[v]
        BY <2>6, <2>7, <3>1 DEF Claiming, Losing
      <4>2. /\ req[v].meta # Null
            /\ req[v].at \in Claiming => req[v].checked - issued[req[v].meta].at <= TTL
        BY <3>1, <4>1 DEF Inv, TypeOK
      <4>3. issued[req[v].meta].at # Null /\ req[v].meta \in Ceremonies
        BY <3>1, <4>1, <4>2, RequestInOrder DEF RequestOK
      <4> QED BY <2>5, <4>1, <4>2, <4>3
    <3>2. session' \in [key : Nat, data : Data]
      BY <2>2, SavesKeep DEF Save, Inv, TypeOK
    <3> QED BY <2>1, <2>7, <3>1, <3>2 DEF Inv, TypeOK
  <2>10. SessionHeld'
    BY <2>1, <2>2, <2>4 DEF Save, SessionHeld, Held, Inv, TypeOK
  <2>11. OwnCeremony'
    BY <2>6, <2>7 DEF Inv, OwnCeremony
  <2>12. NotBegun'
    <3>1. \A d \in Ceremonies : d > begun => d # c
      BY <2>1 DEF Ceremonies, Inv, TypeOK
    <3> QED BY <2>1, <2>3, <3>1 DEF Inv, NotBegun
  <2>13. IssuedBefore'
    <3>1. issued'[c].at <= now
      BY <2>1, <2>4
    <3> QED BY <2>1, <2>3, <3>1 DEF Inv, IssuedBefore
  <2>14. \A d \in Ceremonies : claimed[d] # Null => issued'[d] = issued[d]
    BY <2>5 DEF Inv, ClaimKept
  <2>15. ClaimKept' /\ RowsClaimed' /\ PassesLate'
    BY <2>1, <2>14 DEF Inv, ClaimKept, RowsClaimed, PassesLate
  <2> QED BY <2>8, <2>9, <2>10, <2>11, <2>12, <2>13, <2>15 DEF Inv, RequestsOK
<1> QED BY <1>1, <1>2 DEF StoreChallenge

----------------------------------------------------------------------------
(* The theorems. *)

\* Nothing is issued, claimed or in progress at first.
LEMMA InitInv == Init => Inv
<1> SUFFICES ASSUME Init PROVE Inv
  OBVIOUS
<1>1. Empty \in Data /\ Held(Empty)
  BY DEF Empty, Data, Held, Null
<1>2. Idle \in Requests /\ Idle.at = "idle" /\ Idle.copy = Empty
  BY <1>1 DEF Idle, Requests, Steps, Null
<1>3. NotIssued \in Metadata /\ NotIssued.at = Null
  BY DEF NotIssued, Metadata, Null
<1>4. TypeOK
  BY <1>1, <1>2, <1>3, BoundsAssumption
  DEF Init, TypeOK, Tables, NoRow, Claiming, Losing, Null
<1>5. SessionHeld /\ RequestsOK /\ OwnCeremony
  BY <1>1, <1>2 DEF Init, SessionHeld, RequestsOK, RequestOK, OwnCeremony, Claiming, Losing
<1>6. NotBegun /\ IssuedBefore /\ ClaimKept /\ RowsClaimed
  BY <1>3, BoundsAssumption
  DEF Init, NotBegun, IssuedBefore, ClaimKept, RowsClaimed, NoRow, Null
<1>7. PassesLate
  BY DEF Init, PassesLate
<1> QED BY <1>4, <1>5, <1>6, <1>7 DEF Inv

\* No step of the middleware, the views, the other requests or the clock breaks the
\* invariant.
LEMMA NextInv ==
    ASSUME Inv, [Next]_vars
    PROVE  Inv'
<1>1. ASSUME NEW w \in Workers, RequestStep(w) PROVE Inv'
  BY <1>1, LookUpInv, OptionsArriveInv, ClearChallengeInv, BeginInv, StoreChallengeInv,
     CompletionArriveInv, ConsumeInv, ReserveClaimInv, PassClaimInv, RefuseClaimInv,
     LoseClaimInv, VerifyClaimInv, DeleteOverdueInv, CompleteViewInv, SaveOnResponseInv,
     OtherArriveInv, OtherSaveInv, AbortInv DEF RequestStep
<1>2. CASE UNCHANGED vars
  BY <1>2 DEF vars, Inv, TypeOK, SessionHeld, RequestsOK, RequestOK, Lapsed, Held, OwnCeremony,
              NotBegun, IssuedBefore, ClaimKept, RowsClaimed, PassesLate
<1> QED BY <1>1, <1>2, OtherClaimInv, TickInv DEF Next

\* The invariant holds: among others, the variables have their types, a request claims a
\* challenge that it found in its lifetime, however long ago, and the first claim of a
\* challenge is in the table for a lifetime less a second.
THEOREM Invariance == Spec => []Inv
<1>1. Init => Inv
  BY InitInv
<1>2. Inv /\ [Next]_vars => Inv'
  BY NextInv
<1> QED BY <1>1, <1>2, PTL DEF Spec

\* Every variable has its type, in every reachable state.
THEOREM TypeCorrect == Spec => []TypeOK
<1>1. Inv => TypeOK
  BY DEF Inv
<1> QED BY <1>1, Invariance, PTL

\* A live claim is neither deleted nor changed by add, whoever else claims, waits or aborts
\* (_can_store and _cull delete expired rows only), unless a get is about to delete the
\* expired row that the claim has replaced.
THEOREM ClaimsLive == Spec => LiveClaimsKept
<1> DEFINE Stays == \A k \in CacheKeys :
                       cache[k] >= now /\ ~BeingDeleted(k) => cache'[k] = cache[k]
<1>1. Inv /\ [Next]_vars => [Stays]_vars
  <2> SUFFICES ASSUME Inv, Next PROVE Stays
    BY DEF vars
  <2>1. /\ cache \in Tables /\ now \in Nat /\ now > 0 /\ TTL \in Nat
        /\ \A k \in CacheKeys : cache[k] \in Nat
    BY BoundsAssumption DEF Inv, TypeOK, Tables
  <2>2. ASSUME NEW w \in Workers, PassClaim(w) \/ RefuseClaim(w) PROVE Stays
    <3> DEFINE c == req[w].meta
    <3>1. PICK t \in req[w].since .. now : StoreClaim(c, t)
      BY <2>2 DEF PassClaim, RefuseClaim
    <3>2. /\ req[w].at = "add" /\ c \in CacheKeys /\ UNCHANGED <<now, issued>>
          /\ AddStores(cache, c, t) /\ cache' = Added(cache, c, t, TTL)
      BY <2>2, <3>1, ClaimKey DEF PassClaim, RefuseClaim, StoreClaim, Claiming
    <3>3. t \in Nat /\ t <= now
      BY <2>1, <3>1, RequestInOrder
    <3>4. t > 0
      BY <3>1, <3>2, <3>3, StoreClaimKeeps DEF Null
    <3> HIDE DEF c
    <3>5. /\ \A k \in CacheKeys : k # c =>
                cache'[k] = cache[k] \/ (cache'[k] = NoRow /\ cache[k] < t)
          /\ t > 0 => cache[c] < t
      BY <2>1, <3>2, <3>3, InsertKeeps
    <3>6. \A k \in CacheKeys : cache[k] >= now => cache'[k] = cache[k]
      BY <2>1, <3>2, <3>3, <3>4, <3>5
    <3> QED BY <3>6
  <2>3. ASSUME NEW w \in Workers, ReserveClaim(w) PROVE Stays
    <3>1. PICK t \in req[w].checked .. now : cache' = Reserved(cache, req[w].meta, t)
      BY <2>3 DEF ReserveClaim
    <3>2. t \in Nat /\ t <= now /\ req[w].meta \in CacheKeys
      BY <2>1, <2>3, RequestInOrder, ClaimKey DEF ReserveClaim, Claiming
    <3> QED BY <2>1, <3>1, <3>2, LiveRowsKept
  <2>4. ASSUME NEW w \in Workers, LoseClaim(w) PROVE Stays
    <3>1. PICK t \in req[w].since .. now : cache' = Culled(cache, t)
      BY <2>4 DEF LoseClaim
    <3>2. t \in Nat /\ t <= now /\ req[w].meta \in CacheKeys
      BY <2>1, <2>4, RequestInOrder, ClaimKey DEF LoseClaim, Claiming
    <3> QED BY <2>1, <3>1, <3>2, LiveRowsKept
  <2>5. ASSUME NEW w \in Workers, DeleteOverdue(w) PROVE Stays
    <3>1. BeingDeleted(req[w].meta) /\ cache' = Deleted(cache, req[w].meta)
      BY <2>5 DEF DeleteOverdue, BeingDeleted
    <3> QED BY <2>1, <3>1 DEF Deleted, Tables
  <2>6. ASSUME NEW k \in Others, OtherClaim(k) PROVE Stays
    <3>1. /\ cache[k] < now
          /\ \A j \in CacheKeys : j # k =>
                cache'[j] = cache[j] \/ (cache'[j] = NoRow /\ cache[j] < now)
      BY <2>6, OtherClaimKeeps
    <3> QED BY <2>1, <3>1 DEF Others
  <2>7. CASE UNCHANGED cache
    BY <2>7
  <2>8. ASSUME NEW w \in Workers,
               \/ LookUp(w) \/ OptionsArrive(w) \/ ClearChallenge(w) \/ Begin(w)
               \/ StoreChallenge(w) \/ CompletionArrive(w) \/ Consume(w) \/ VerifyClaim(w)
               \/ CompleteView(w) \/ SaveOnResponse(w) \/ OtherArrive(w) \/ OtherSave(w)
               \/ Abort(w)
        PROVE  UNCHANGED cache
    BY <2>8 DEF LookUp, OptionsArrive, ClearChallenge, Begin, StoreChallenge, CompletionArrive,
                Consume, VerifyClaim, CompleteView, SaveOnResponse, OtherArrive, OtherSave,
                Abort
  <2> QED BY <2>2, <2>3, <2>4, <2>5, <2>6, <2>7, <2>8 DEF Next, RequestStep, Tick
<1> QED BY <1>1, Invariance, PTL DEF Spec, LiveClaimsKept

\* The middleware keeps its promise, however long a request takes between two of its steps: a
\* completion passes as its challenge was issued, if it found it in its lifetime, and the
\* first claim bars all others for a lifetime less a second.  It promises no more: what waits
\* longer before its claim passes again.
THEOREM Refinement == Spec => PassesAsIssued
<1>1. Init => OneUse!Init
  BY DEF Init, OneUse!Init, NotIssued, Null
<1>2. Inv /\ [Next]_vars => [OneUse!Next]_<<now, issued, claimed, passes>>
  <2> SUFFICES ASSUME Inv, Next
               PROVE  OneUse!Next \/ UNCHANGED <<now, issued, claimed, passes>>
    BY DEF vars
  <2>1. ASSUME NEW w \in Workers, StoreChallenge(w)
        PROVE  OneUse!Next \/ UNCHANGED <<now, issued, claimed, passes>>
    <3>1. CASE ~Storable(w)
      BY <2>1, <3>1 DEF StoreChallenge
    <3>2. CASE Storable(w)
      BY <2>1, <3>2, StoreIssues DEF OneUse!Next, OneUse!Issue, Null
    <3> QED BY <3>1, <3>2
  <2>2. ASSUME NEW w \in Workers, PassClaim(w) \/ RefuseClaim(w)
        PROVE  /\ req[w].meta \in Ceremonies /\ req[w].checked \in 1 .. now
               /\ OneUse!Claim(req[w].meta, req[w].checked)
    <3> DEFINE c == req[w].meta
    <3>1. /\ req[w].at = "add" /\ UNCHANGED <<now, issued>>
          /\ \E t \in req[w].since .. now : StoreClaim(c, t)
      BY <2>2 DEF PassClaim, RefuseClaim
    <3>2. PICK t \in req[w].since .. now : StoreClaim(c, t)
      BY <3>1
    <3>3. /\ c \in Ceremonies /\ issued[c].at # Null
          /\ issued[c].at <= req[w].checked /\ req[w].checked <= issued[c].at + TTL
          /\ t \in req[w].checked .. now
          /\ claimed[c] = Null => claimed' = [claimed EXCEPT ![c] = t]
          /\ claimed[c] # Null => UNCHANGED claimed /\ now > claimed[c] + TTL - Second
      BY <3>1, <3>2, StoreClaimKeeps
    <3>4. issued[c].at \in Nat /\ req[w].checked \in Nat /\ now \in Nat
      BY <3>3, RequestInOrder DEF Inv, TypeOK, Metadata
    <3> HIDE DEF c
    <3>5. req[w].checked \in 1 .. now
      BY <3>3, <3>4 DEF Null
    <3> QED BY <3>3, <3>5 DEF OneUse!Claim, Null, c
  <2>3. ASSUME NEW w \in Workers, PassClaim(w)
        PROVE  OneUse!Next
    <3>1. UNCHANGED <<now, issued>>
      BY <2>3 DEF PassClaim
    <3>2. OneUse!Pass(req[w].meta, req[w].checked)
      BY <2>2, <2>3, <3>1, PassClaimMatches DEF OneUse!Pass
    <3> QED BY <2>2, <2>3, <3>2 DEF OneUse!Next
  <2>4. ASSUME NEW w \in Workers, RefuseClaim(w)
        PROVE  OneUse!Next
    <3>1. OneUse!Refuse(req[w].meta, req[w].checked)
      BY <2>2, <2>4 DEF RefuseClaim, OneUse!Refuse
    <3> QED BY <2>2, <2>4, <3>1 DEF OneUse!Next
  <2>5. CASE Tick
    BY <2>5 DEF Tick, OneUse!Next, OneUse!Tick
  <2>6. ASSUME NEW k \in Others, OtherClaim(k)
        PROVE  UNCHANGED <<now, issued, claimed, passes>>
    BY <2>6 DEF OtherClaim
  <2>7. ASSUME NEW w \in Workers,
               \/ LookUp(w) \/ OptionsArrive(w) \/ ClearChallenge(w) \/ Begin(w)
               \/ CompletionArrive(w) \/ Consume(w) \/ ReserveClaim(w) \/ LoseClaim(w)
               \/ VerifyClaim(w) \/ DeleteOverdue(w) \/ CompleteView(w) \/ SaveOnResponse(w)
               \/ OtherArrive(w) \/ OtherSave(w) \/ Abort(w)
        PROVE  UNCHANGED <<now, issued, claimed, passes>>
    BY <2>7 DEF LookUp, OptionsArrive, ClearChallenge, Begin, CompletionArrive, Consume,
                ReserveClaim, LoseClaim, VerifyClaim, DeleteOverdue, CompleteView,
                SaveOnResponse, OtherArrive, OtherSave, Abort
  <2> QED BY <2>1, <2>3, <2>4, <2>5, <2>6, <2>7 DEF Next, RequestStep
<1> QED BY <1>1, <1>2, Invariance, PTL DEF Spec, PassesAsIssued, OneUse!Spec

\* A completion passes after another one of its challenge only if it has waited, from the
\* check of the age to its claim, longer than the first claim came after the issue, less a
\* second (_consume_challenge sets that wait no limit).
THEOREM OnceUnlessStalled == Spec => []RepeatsStalled
<1>1. Inv => RepeatsStalled
  <2> SUFFICES ASSUME Inv, NEW c \in Ceremonies, NEW i \in DOMAIN passes[c], i > 1
               PROVE  passes[c][i].at - passes[c][i].checked
                        > claimed[c] - issued[c].at - Second
    BY DEF RepeatsStalled
  <2>1. passes[c] \in Seq(Passes) /\ i \in 1 .. Len(passes[c])
    BY DEF Inv, TypeOK
  <2>2. passes[c][i].checked \in Nat /\ passes[c][i].at \in Nat
    <3>1. passes[c][i] \in Passes
      BY <2>1
    <3> QED BY <3>1 DEF Passes
  <2>3. /\ passes[c][i].checked <= issued[c].at + TTL
        /\ passes[c][i].at > claimed[c] + TTL - Second
    BY <2>1 DEF Inv, PassesLate
  <2>4. issued[c].at \in Nat /\ claimed[c] \in Nat /\ TTL \in Nat /\ Second \in Nat
    BY BoundsAssumption, CacheAssumption DEF Inv, TypeOK, Metadata
  <2> QED BY <2>2, <2>3, <2>4
<1> QED BY <1>1, Invariance, PTL

----------------------------------------------------------------------------
(* The capacity of the cache. *)

\* The challenges whose claims have room and are about to be inserted.
Claims(rs) == {rs[w].meta : w \in {v \in Workers : rs[v].at = "add"}}

\* The rows of the table and those to come, within n of the budget.
RoomFor(rows, rs, n) == Cardinality(Stored(rows) \cup Claims(rs)) <= MaxEntries + n

Room == RoomFor(cache, req, Cardinality(Workers)) /\ RoomFor(cache, req, NumCeremonies)

\* Rows and claims are finitely many; the claims are as many as requests and challenges.
LEMMA ClaimsFinite ==
    ASSUME NEW rs \in [Workers -> Requests],
           \A w \in Workers : rs[w].at = "add" => rs[w].meta \in Ceremonies
    PROVE  /\ IsFiniteSet(Claims(rs))
           /\ Cardinality(Claims(rs)) \in Nat
           /\ Cardinality(Claims(rs)) <= Cardinality(Workers)
           /\ Cardinality(Claims(rs)) <= NumCeremonies
<1> DEFINE adding == {v \in Workers : rs[v].at = "add"}
           f == [w \in adding |-> rs[w].meta]
<1>1. /\ IsFiniteSet(Workers) /\ Cardinality(Workers) \in Nat
      /\ IsFiniteSet(adding) /\ Cardinality(adding) \in Nat
      /\ Cardinality(adding) <= Cardinality(Workers)
  BY BoundsAssumption, FS_Subset, FS_CardinalityType
<1>2. f \in Surjection(adding, Claims(rs))
  BY DEF Surjection, Claims
<1>3. IsFiniteSet(Claims(rs)) /\ Cardinality(Claims(rs)) <= Cardinality(adding)
  BY <1>1, <1>2, FS_Surjection
<1>4. IsFiniteSet(Ceremonies) /\ Cardinality(Ceremonies) = NumCeremonies
  BY BoundsAssumption, FS_Interval DEF Ceremonies
<1>5. Claims(rs) \in SUBSET Ceremonies
  BY DEF Claims
<1>6. Cardinality(Claims(rs)) <= NumCeremonies /\ Cardinality(Claims(rs)) \in Nat
  BY <1>3, <1>4, <1>5, FS_Subset, FS_CardinalityType
<1> QED BY <1>1, <1>3, <1>6

\* A table within its budget has room for every claim.
LEMMA RoomAfterCheck ==
    ASSUME NEW rows \in Tables, NEW rs \in [Workers -> Requests],
           \A w \in Workers : rs[w].at = "add" => rs[w].meta \in Ceremonies,
           Cardinality(Stored(rows)) <= MaxEntries
    PROVE  RoomFor(rows, rs, Cardinality(Workers)) /\ RoomFor(rows, rs, NumCeremonies)
<1> DEFINE S == Stored(rows)
           T == Claims(rs)
<1>1. IsFiniteSet(S) /\ Cardinality(S) \in Nat
  BY CacheAssumption, FS_Subset, FS_CardinalityType DEF Stored
<1>2. /\ IsFiniteSet(T) /\ Cardinality(T) \in Nat
      /\ Cardinality(T) <= Cardinality(Workers) /\ Cardinality(T) <= NumCeremonies
  BY ClaimsFinite
<1>3. S \cap T \in SUBSET S
  OBVIOUS
<1>4. Cardinality(S \cap T) \in Nat
  BY <1>1, <1>3, FS_Subset, FS_CardinalityType
<1> HIDE DEF S, T
<1>5. Cardinality(S \cup T) = Cardinality(S) + Cardinality(T) - Cardinality(S \cap T)
  BY <1>1, <1>2, FS_Union
<1>6. Cardinality(Workers) \in Nat /\ NumCeremonies \in Nat /\ MaxEntries \in Nat
  BY BoundsAssumption, CacheAssumption, FS_CardinalityType
<1>7. Cardinality(S) <= MaxEntries
  BY DEF S
<1>8. /\ Cardinality(S \cup T) <= MaxEntries + Cardinality(Workers)
      /\ Cardinality(S \cup T) <= MaxEntries + NumCeremonies
  BY <1>1, <1>2, <1>4, <1>5, <1>6, <1>7
<1> QED BY <1>8 DEF RoomFor, S, T

\* What takes no more than there was leaves the room there was.
LEMMA RoomKept ==
    ASSUME Inv, Room, Inv',
           Stored(cache') \cup Claims(req') \subseteq Stored(cache) \cup Claims(req)
    PROVE  Room'
<1> DEFINE old == Stored(cache) \cup Claims(req)
           new == Stored(cache') \cup Claims(req')
<1>1. IsFiniteSet(Claims(req))
  BY ClaimKey, ClaimsFinite DEF Inv, TypeOK, Claiming
<1>2. IsFiniteSet(Stored(cache))
  BY CacheAssumption, FS_Subset DEF Stored
<1>3. IsFiniteSet(old)
  BY <1>1, <1>2, FS_Union
<1>4. Cardinality(new) <= Cardinality(old) /\ Cardinality(old) \in Nat /\ Cardinality(new) \in Nat
  BY <1>3, FS_Subset, FS_CardinalityType
<1>5. Cardinality(Workers) \in Nat /\ NumCeremonies \in Nat /\ MaxEntries \in Nat
  BY BoundsAssumption, CacheAssumption, FS_CardinalityType
<1> HIDE DEF old, new
<1>6. /\ Cardinality(old) <= MaxEntries + Cardinality(Workers)
      /\ Cardinality(old) <= MaxEntries + NumCeremonies
  BY DEF Room, RoomFor, old
<1>7. /\ Cardinality(new) <= MaxEntries + Cardinality(Workers)
      /\ Cardinality(new) <= MaxEntries + NumCeremonies
  BY <1>4, <1>5, <1>6
<1> QED BY <1>7 DEF Room, RoomFor, new

\* A request that does not go to the insert claims nothing new.
Unclaiming(w) == \E r : r.at # "add" /\ req' = [req EXCEPT ![w] = r]

\* The claims about to be inserted are then among those there were.
LEMMA NoNewClaims ==
    ASSUME Inv, NEW w \in Workers, Unclaiming(w)
    PROVE  Claims(req') \subseteq Claims(req)
BY DEF Unclaiming, Claims, Inv, TypeOK

\* Nor does one that is answered.
LEMMA RespondUnclaiming ==
    ASSUME NEW w \in Workers, NEW d, Respond(w, d)
    PROVE  Unclaiming(w)
<1>1. CASE Leave(w)
  BY <1>1 DEF Leave, Unclaiming, Idle
<1>2. CASE ContinueWith(w, "respond", d, Null)
  <2> DEFINE r == [Idle EXCEPT !.at = "respond", !.purpose = req[w].purpose,
                               !.own = req[w].own, !.key = req[w].key, !.copy = Kept(d),
                               !.loaded = (Client = "browser"), !.meta = Null]
  <2>1. r.at = "respond" /\ req' = [req EXCEPT ![w] = r]
    BY <1>2 DEF ContinueWith, Idle
  <2> QED BY <2>1 DEF Unclaiming
<1> QED BY <1>1, <1>2 DEF Respond, Continue

\* Most steps of a request do not.
LEMMA StepsUnclaiming ==
    ASSUME Inv, NEW w \in Workers,
           \/ LookUp(w) \/ OptionsArrive(w) \/ ClearChallenge(w) \/ Begin(w)
           \/ StoreChallenge(w) \/ CompletionArrive(w) \/ Consume(w) \/ PassClaim(w)
           \/ RefuseClaim(w) \/ LoseClaim(w) \/ VerifyClaim(w) \/ DeleteOverdue(w)
           \/ CompleteView(w) \/ SaveOnResponse(w) \/ OtherArrive(w) \/ OtherSave(w)
           \/ Abort(w)
    PROVE  Unclaiming(w)
<1>1. req[w] \in Requests /\ req \in [Workers -> Requests]
  BY DEF Inv, TypeOK
<1>2. ASSUME Leave(w) PROVE Unclaiming(w)
  BY <1>2 DEF Leave, Unclaiming, Idle
<1>3. ASSUME NEW at, NEW p, NEW c, Arrive(w, at, p, c), at # "add" PROVE Unclaiming(w)
  BY <1>3 DEF Arrive, Unclaiming
<1>4. ASSUME NEW at, NEW d, NEW m, ContinueWith(w, at, d, m), at # "add" PROVE Unclaiming(w)
  <2> DEFINE r == [Idle EXCEPT !.at = at, !.purpose = req[w].purpose, !.own = req[w].own,
                               !.key = req[w].key, !.copy = Kept(d),
                               !.loaded = (Client = "browser"), !.meta = m]
  <2>1. r.at = at /\ req' = [req EXCEPT ![w] = r]
    BY <1>4 DEF ContinueWith, Idle
  <2> QED BY <1>4, <2>1 DEF Unclaiming
<1>5. ASSUME NEW d, Respond(w, d) PROVE Unclaiming(w)
  BY <1>5, RespondUnclaiming
<1>6. ASSUME NEW at, Goto(w, at), at # "add" PROVE Unclaiming(w)
  <2> DEFINE r == [req[w] EXCEPT !.at = at]
  <2>1. r.at = at /\ req' = [req EXCEPT ![w] = r]
    BY <1>1, <1>6 DEF Goto, Requests
  <2> QED BY <1>6, <2>1 DEF Unclaiming
<1>7. CASE LookUp(w) /\ RowExists(w)
  <2> DEFINE r == [req[w] EXCEPT !.copy = session.data, !.loaded = TRUE]
  <2>1. r.at = req[w].at /\ req' = [req EXCEPT ![w] = r]
    BY <1>1, <1>7 DEF LookUp, Requests
  <2> QED BY <1>7, <2>1 DEF Unclaiming, LookUp
<1>8. CASE LookUp(w) /\ ~RowExists(w)
  BY <1>2, <1>8 DEF LookUp
<1>9. CASE Begin(w)
  <2> DEFINE d == [req[w].copy EXCEPT !.state = begun + 1, !.verified = FALSE]
             r == [req[w] EXCEPT !.at = "store", !.own = begun + 1, !.copy = Kept(d),
                                 !.loaded = (Client = "browser")]
  <2>1. r.at = "store" /\ req' = [req EXCEPT ![w] = r]
    BY <1>1, <1>9 DEF Begin, Requests
  <2> QED BY <2>1 DEF Unclaiming
<1>10. CASE Consume(w)
  <2> DEFINE c == req[w].copy.challenge
             popped == [req[w].copy EXCEPT !.challenge = Null]
             r == [req[w] EXCEPT !.at = "claim", !.copy = popped, !.meta = c, !.checked = now]
  <2>1. CASE req' = [req EXCEPT ![w].at = "claim", ![w].copy = popped,
                                ![w].meta = c, ![w].checked = now]
    <3>1. r.at = "claim" /\ req' = [req EXCEPT ![w] = r]
      BY <1>1, <2>1 DEF Requests
    <3> QED BY <3>1 DEF Unclaiming
  <2> QED BY <1>2, <1>5, <1>10, <2>1 DEF Consume
<1>11. CASE OptionsArrive(w) \/ CompletionArrive(w) \/ OtherArrive(w)
  BY <1>3, <1>11 DEF OptionsArrive, CompletionArrive, OtherArrive
<1>12. CASE ClearChallenge(w) \/ StoreChallenge(w)
  BY <1>2, <1>4, <1>5, <1>12 DEF ClearChallenge, StoreChallenge, Continue
<1>13. CASE \/ PassClaim(w) \/ RefuseClaim(w) \/ LoseClaim(w) \/ VerifyClaim(w)
            \/ DeleteOverdue(w)
  BY <1>4, <1>5, <1>6, <1>13
  DEF PassClaim, RefuseClaim, LoseClaim, VerifyClaim, DeleteOverdue, Continue
<1>14. CASE CompleteView(w)
  BY <1>2, <1>5, <1>14 DEF CompleteView
<1>15. CASE SaveOnResponse(w) \/ OtherSave(w) \/ Abort(w)
  BY <1>2, <1>15 DEF SaveOnResponse, OtherSave, Abort
<1> QED BY <1>7, <1>8, <1>9, <1>10, <1>11, <1>12, <1>13, <1>14, <1>15

\* Deleting and culling only take rows away.
LEMMA RowsShrink ==
    ASSUME NEW rows \in Tables, NEW key \in CacheKeys, NEW t \in Nat, NEW timeout \in Nat
    PROVE  /\ Stored(Purge(rows, t)) \subseteq Stored(rows)
           /\ Stored(Reserved(rows, key, t)) \subseteq Stored(rows)
           /\ Stored(Culled(rows, t)) \subseteq Stored(rows)
           /\ Stored(Deleted(rows, key)) \subseteq Stored(rows)
           /\ Stored(Added(rows, key, t, timeout)) \subseteq Stored(rows) \cup {key}
<1>1. Stored(Purge(rows, t)) \subseteq Stored(rows)
  BY DEF Stored, Purge, Without, NoRow
<1>2. Stored(Culled(rows, t)) \subseteq Stored(rows)
  BY <1>1 DEF Culled
<1>3. Stored(Deleted(rows, key)) \subseteq Stored(rows)
  BY DEF Stored, Deleted, NoRow, Tables
<1>4. Culled(rows, t) \in Tables
  BY LiveRowsKept
<1>5. Stored(Added(rows, key, t, timeout)) \subseteq Stored(Culled(rows, t)) \cup {key}
  BY <1>4 DEF Stored, Added, Tables
<1> QED BY <1>1, <1>2, <1>3, <1>5 DEF Reserved

\* A claim that finds no row of its key counts what is stored before it goes on.
LEMMA ReserveRoom ==
    ASSUME Inv, Room, Inv', NEW w \in Workers, ReserveClaim(w)
    PROVE  Room'
<1> DEFINE key == req[w].meta
<1>1. key \in CacheKeys /\ key \in Ceremonies
  BY ClaimKey DEF ReserveClaim, Claiming
<1>2. cache \in Tables /\ now \in Nat /\ TTL \in Nat /\ req \in [Workers -> Requests]
  BY BoundsAssumption DEF Inv, TypeOK
<1>3. PICK t \in req[w].checked .. now :
          /\ cache' = Reserved(cache, key, t)
          /\ IF CanStore(cache, key, t)
               THEN req' = [req EXCEPT ![w].at = "add", ![w].since = now]
               ELSE Respond(w, req[w].copy)
  BY DEF ReserveClaim
<1>4. t \in Nat
  BY <1>2, RequestInOrder
<1>5. Stored(cache') \subseteq Stored(cache)
  BY <1>1, <1>2, <1>3, <1>4, RowsShrink
<1>6. CASE Respond(w, req[w].copy)
  <2>1. Unclaiming(w)
    BY <1>6, RespondUnclaiming
  <2> QED BY <1>5, <2>1, NoNewClaims, RoomKept
<1>7. CASE CanStore(cache, key, t) /\ req' = [req EXCEPT ![w].at = "add", ![w].since = now]
  <2>1. /\ req' \in [Workers -> Requests] /\ cache' \in Tables
        /\ \A v \in Workers : req'[v].meta = req[v].meta /\ (v # w => req'[v] = req[v])
    <3> DEFINE r == [req[w] EXCEPT !.at = "add", !.since = now]
    <3>1. req' = [req EXCEPT ![w] = r] /\ r.meta = key
      BY <1>2, <1>7 DEF Requests
    <3> HIDE DEF r
    <3>2. \A v \in Workers : req'[v].meta = req[v].meta /\ (v # w => req'[v] = req[v])
      BY <1>2, <3>1
    <3>3. req' \in [Workers -> Requests] /\ cache' \in Tables
      BY DEF Inv, TypeOK
    <3> QED BY <3>2, <3>3
  <2>2. CASE cache[key] # NoRow
    <3>1. Claims(req') \subseteq Claims(req) \cup {key}
      BY <2>1 DEF Claims
    <3>2. key \in Stored(cache)
      BY <1>1, <2>2 DEF Stored
    <3>3. Stored(cache') = Stored(cache)
      BY <1>3, <2>2 DEF Reserved
    <3> QED BY <3>1, <3>2, <3>3, RoomKept
  <2>3. CASE cache[key] = NoRow
    <3>1. Cardinality(Stored(cache')) < MaxEntries
      BY <1>3, <1>7, <2>3 DEF CanStore, Reserved
    <3>2. Cardinality(Stored(cache')) \in Nat
      BY CacheAssumption, FS_Subset, FS_CardinalityType DEF Stored
    <3>3. Cardinality(Stored(cache')) <= MaxEntries
      BY <3>1, <3>2, CacheAssumption
    <3>4. \A v \in Workers : req'[v].at = "add" => req'[v].meta \in Ceremonies
      BY <1>1, <2>1, ClaimKey DEF Claiming
    <3> QED BY <2>1, <3>3, <3>4, RoomAfterCheck DEF Room
  <2> QED BY <2>2, <2>3
<1> QED BY <1>3, <1>6, <1>7

\* So does a claim in another session, which is inserted at once.
LEMMA OtherRoom ==
    ASSUME Inv, Room, Inv', NEW k \in Others, OtherClaim(k)
    PROVE  Room'
<1>1. k \in CacheKeys /\ cache \in Tables /\ now \in Nat /\ TTL \in Nat /\ req' = req
  BY BoundsAssumption DEF Others, OtherClaim, Inv, TypeOK
<1> DEFINE reserved == Reserved(cache, k, now)
<1>2. reserved \in Tables /\ Stored(reserved) \subseteq Stored(cache)
  BY <1>1, LiveRowsKept, RowsShrink
<1>3. cache' = Added(reserved, k, now, TTL)
  BY DEF OtherClaim
<1>4. Stored(cache') \subseteq Stored(reserved) \cup {k}
  BY <1>1, <1>2, <1>3, RowsShrink
<1>5. CASE cache[k] # NoRow
  <2>1. k \in Stored(cache)
    BY <1>1, <1>5 DEF Stored
  <2> QED BY <1>1, <1>2, <1>4, <2>1, RoomKept
<1>6. CASE cache[k] = NoRow
  <2>1. Cardinality(Stored(reserved)) < MaxEntries
    BY <1>6 DEF OtherClaim, CanStore, Reserved
  <2>2. IsFiniteSet(Stored(reserved)) /\ Cardinality(Stored(reserved)) \in Nat
    BY CacheAssumption, FS_Subset, FS_CardinalityType DEF Stored
  <2>3. /\ IsFiniteSet(Stored(reserved) \cup {k})
        /\ Cardinality(Stored(reserved) \cup {k}) <= Cardinality(Stored(reserved)) + 1
        /\ Cardinality(Stored(reserved) \cup {k}) \in Nat
    BY <2>2, FS_AddElement, FS_CardinalityType
  <2>4. /\ Cardinality(Stored(cache')) <= Cardinality(Stored(reserved) \cup {k})
        /\ Cardinality(Stored(cache')) \in Nat
    BY <1>4, <2>3, FS_Subset, FS_CardinalityType
  <2> HIDE DEF reserved
  <2>5. Cardinality(Stored(cache')) <= MaxEntries
    BY <2>1, <2>2, <2>3, <2>4, CacheAssumption
  <2>6. cache' \in Tables /\ req' \in [Workers -> Requests]
    BY DEF Inv, TypeOK
  <2>7. \A v \in Workers : req'[v].at = "add" => req'[v].meta \in Ceremonies
    BY <1>1, ClaimKey DEF Claiming
  <2> QED BY <2>5, <2>6, <2>7, RoomAfterCheck DEF Room
<1> QED BY <1>5, <1>6

\* No step leaves less room than there was, but those that have counted.
LEMMA RoomNext ==
    ASSUME Inv, Room, Inv', [Next]_vars
    PROVE  Room'
<1>1. cache \in Tables /\ now \in Nat /\ TTL \in Nat /\ req \in [Workers -> Requests]
  BY BoundsAssumption DEF Inv, TypeOK
<1>2. ASSUME NEW w \in Workers, RefuseClaim(w) \/ PassClaim(w) PROVE Room'
  <2> DEFINE key == req[w].meta
  <2>1. PICK t \in req[w].since .. now : cache' = Added(cache, key, t, TTL)
    BY <1>2 DEF RefuseClaim, PassClaim, StoreClaim
  <2>2. t \in Nat /\ key \in CacheKeys /\ req[w].at = "add"
    BY <1>1, <1>2, RequestInOrder, ClaimKey DEF RefuseClaim, PassClaim, Claiming
  <2>3. Stored(cache') \subseteq Stored(cache) \cup {key}
    BY <1>1, <2>1, <2>2, RowsShrink
  <2>4. key \in Claims(req)
    BY <2>2 DEF Claims
  <2> QED BY <1>2, <2>3, <2>4, StepsUnclaiming, NoNewClaims, RoomKept
<1>3. ASSUME NEW w \in Workers, LoseClaim(w) \/ DeleteOverdue(w) PROVE Room'
  <2>1. req[w].meta \in CacheKeys
    BY <1>3, ClaimKey DEF LoseClaim, DeleteOverdue, Claiming, Losing
  <2>2. CASE LoseClaim(w)
    <3>1. PICK t \in req[w].since .. now : cache' = Culled(cache, t)
      BY <2>2 DEF LoseClaim
    <3>2. t \in Nat
      BY <1>1, RequestInOrder
    <3>3. Stored(cache') \subseteq Stored(cache)
      BY <1>1, <2>1, <3>1, <3>2, RowsShrink
    <3> QED BY <2>2, <3>3, StepsUnclaiming, NoNewClaims, RoomKept
  <2>3. CASE DeleteOverdue(w)
    <3>1. Stored(cache') \subseteq Stored(cache)
      BY <1>1, <2>1, <2>3, RowsShrink DEF DeleteOverdue
    <3> QED BY <2>3, <3>1, StepsUnclaiming, NoNewClaims, RoomKept
  <2> QED BY <1>3, <2>2, <2>3
<1>4. ASSUME NEW w \in Workers,
             \/ LookUp(w) \/ OptionsArrive(w) \/ ClearChallenge(w) \/ Begin(w)
             \/ StoreChallenge(w) \/ CompletionArrive(w) \/ Consume(w) \/ VerifyClaim(w)
             \/ CompleteView(w) \/ SaveOnResponse(w) \/ OtherArrive(w) \/ OtherSave(w)
             \/ Abort(w)
      PROVE  Room'
  <2>1. UNCHANGED cache
    BY <1>4 DEF LookUp, OptionsArrive, ClearChallenge, Begin, StoreChallenge, CompletionArrive,
                Consume, VerifyClaim, CompleteView, SaveOnResponse, OtherArrive, OtherSave,
                Abort
  <2> QED BY <1>4, <2>1, StepsUnclaiming, NoNewClaims, RoomKept
<1>5. CASE UNCHANGED <<cache, req>>
  BY <1>5, RoomKept
<1> QED BY <1>2, <1>3, <1>4, <1>5, ReserveRoom, OtherRoom DEF Next, RequestStep, Tick, vars

\* Racing inserts overshoot the budget of the cache by at most a row for each request beside
\* the one that fills it, and for each challenge, whatever the budget (FailClosedDatabaseCache).
THEOREM OvershootBounded == Spec => []BoundedOvershoot
<1>1. Init => Room
  <2> SUFFICES ASSUME Init PROVE Room
    OBVIOUS
  <2>1. Inv /\ cache \in Tables /\ req \in [Workers -> Requests]
    BY InitInv DEF Inv, TypeOK
  <2>2. Stored(cache) = {} /\ \A w \in Workers : req[w].at # "add"
    BY DEF Init, Stored, Idle
  <2>3. Cardinality(Stored(cache)) <= MaxEntries
    BY <2>2, FS_EmptySet, CacheAssumption
  <2> QED BY <2>1, <2>2, <2>3, RoomAfterCheck DEF Room
<1>2. Inv /\ Room /\ Inv' /\ [Next]_vars => Room'
  BY RoomNext
<1>3. Inv /\ Room => BoundedOvershoot
  <2> SUFFICES ASSUME Inv, Room PROVE BoundedOvershoot
    OBVIOUS
  <2> DEFINE all == Stored(cache) \cup Claims(req)
  <2>1. IsFiniteSet(Stored(cache)) /\ IsFiniteSet(Claims(req))
    BY CacheAssumption, FS_Subset, ClaimKey, ClaimsFinite DEF Stored, Inv, TypeOK, Claiming
  <2>2. IsFiniteSet(all)
    BY <2>1, FS_Union
  <2>3. /\ Cardinality(Stored(cache)) <= Cardinality(all)
        /\ Cardinality(Stored(cache)) \in Nat /\ Cardinality(all) \in Nat
    BY <2>2, FS_Subset, FS_CardinalityType
  <2>4. Cardinality(Workers) \in Nat /\ NumCeremonies \in Nat /\ MaxEntries \in Nat
    BY BoundsAssumption, CacheAssumption, FS_CardinalityType
  <2> HIDE DEF all
  <2>5. /\ Cardinality(all) <= MaxEntries + Cardinality(Workers)
        /\ Cardinality(all) <= MaxEntries + NumCeremonies
    BY DEF Room, RoomFor, all
  <2> QED BY <2>3, <2>4, <2>5 DEF BoundedOvershoot
<1> QED BY <1>1, <1>2, <1>3, Invariance, PTL DEF Spec

----------------------------------------------------------------------------
(* The ceremonies that a browser completes. *)

\* A signed state whose challenge was given out for a login without a password requires
\* user verification.
VerifiedState(d) ==
    d.state # Null /\ issued[d.state].at # Null /\ issued[d.state].purpose = "account.login"
        => d.verified

\* The state of a copy is of a ceremony that has begun.
StateBegun(d) == d.state \in 0 .. begun

DataSafe(d) == VerifiedState(d) /\ StateBegun(d)

\* The same of given data in the next state.
SafeNow(d) ==
    /\ d.state \in 0 .. begun'
    /\ d.state # Null /\ issued'[d.state].at # Null
            /\ issued'[d.state].purpose = "account.login"
         => d.verified

\* A request that is to complete its view matches the metadata of its challenge.
Matching(r) ==
    /\ issued[r.own].at # Null /\ r.purpose = issued[r.own].purpose
    /\ Subject(r.copy, r.purpose) = issued[r.own].subject

RequestSafe(r) ==
    /\ DataSafe(r.copy)
    /\ r.at \in {"view", "store", "finish"} => r.loaded
    /\ r.at = "finish" => Matching(r)

\* Nobody else has the state of a challenge that is about to be stored.
Unshared == \A w \in Workers : req[w].at = "store" =>
    /\ session.data.state # req[w].own
    /\ \A v \in Workers \ {w} : req[v].copy.state # req[w].own

CompletedSafe == \A d \in completed :
    /\ issued[d.ceremony].at # Null
    /\ d.purpose = issued[d.ceremony].purpose /\ d.subject = issued[d.ceremony].subject
    /\ d.purpose = "account.login" => d.verified

Safe == /\ DataSafe(session.data) /\ (\A w \in Workers : RequestSafe(req[w]))
        /\ Unshared /\ CompletedSafe

\* Data made of other data: allauth's state as it was, or none.
From(d, e) == (e.state = d.state /\ e.verified = d.verified) \/ e.state = Null

\* Such data is as safe as what it was made of.
LEMMA FromSafe ==
    ASSUME NEW d \in Data, NEW e \in Data, From(d, e), DataSafe(d), begun \in Nat
    PROVE  DataSafe(e)
BY DEF From, DataSafe, VerifiedState, StateBegun, Null

\* What the requests write into the session is made of what they have loaded.
LEMMA UpdatesFrom ==
    ASSUME NEW d \in Data
    PROVE  /\ From(d, d) /\ From(d, Empty)
           /\ \A c : From(d, [d EXCEPT !.challenge = c])
           /\ \A c : From(d, [d EXCEPT !.binding = c])
           /\ \A k, s : From(d, [d EXCEPT !.who[k] = s])
           /\ \A p, e : e \in Logged([d EXCEPT !.state = Null], p) => From(d, e)
<1>1. ASSUME NEW p, NEW e, e \in Logged([d EXCEPT !.state = Null], p) PROVE From(d, e)
  <2> DEFINE f == [d EXCEPT !.state = Null]
  <2>1. f \in Data /\ f.state = Null
    BY DataUpdates DEF Data
  <2> HIDE DEF f
  <2>2. e.state = f.state
    <3>1. CASE p = "account.login"
      BY <1>1, <2>1, <3>1 DEF Logged, Data, f
    <3>2. CASE p \in {"account.authenticate", "account.signup"}
      BY <1>1, <2>1, <3>2 DEF Logged, Data, f
    <3>3. CASE p = "admin.authenticate"
      BY <1>1, <2>1, <3>3 DEF Logged, Data, f
    <3>4. CASE p \notin {"account.login", "account.authenticate", "account.signup",
                         "admin.authenticate"}
      BY <1>1, <3>4 DEF Logged, f
    <3> QED BY <3>1, <3>2, <3>3, <3>4
  <2> QED BY <2>1, <2>2 DEF From
<1> QED BY <1>1 DEF From, Data, Empty, Null

\* A step of a browser's request that begins and issues nothing.
Plain(w) == \E r \in Requests :
    /\ req' = [req EXCEPT ![w] = r]
    /\ r.at # "store"
    /\ From(session.data, r.copy) \/ From(req[w].copy, r.copy)
    /\ r.at \in {"view", "finish"} => r.loaded
    /\ r.at = "finish" => Matching(r)

Written(w) == From(session.data, session'.data) \/ From(req[w].copy, session'.data)

\* It leaves everything safe.
LEMMA PlainSafe ==
    ASSUME Inv, Safe, Inv', NEW w \in Workers, Plain(w), Written(w),
           UNCHANGED <<begun, issued>>, CompletedSafe'
    PROVE  Safe'
<1>1. PICK r \in Requests :
        /\ req' = [req EXCEPT ![w] = r]
        /\ r.at # "store"
        /\ From(session.data, r.copy) \/ From(req[w].copy, r.copy)
        /\ r.at \in {"view", "finish"} => r.loaded
        /\ r.at = "finish" => Matching(r)
  BY DEF Plain
<1>2. \A v \in Workers : req'[v] = IF v = w THEN r ELSE req[v]
  BY <1>1 DEF Inv, TypeOK
<1>3. /\ session.data \in Data /\ session'.data \in Data /\ r.copy \in Data
      /\ req[w].copy \in Data /\ begun \in Nat
  BY CopyHeld DEF Inv, TypeOK, Requests
<1>4. DataSafe(session.data) /\ DataSafe(req[w].copy)
  BY DEF Safe, RequestSafe
<1>5. DataSafe(session'.data) /\ DataSafe(r.copy)
  BY <1>1, <1>3, <1>4, FromSafe DEF Written
<1>6. DataSafe(session.data)'
  BY <1>5 DEF DataSafe, VerifiedState, StateBegun
<1>7. RequestSafe(r)
  BY <1>1, <1>5 DEF RequestSafe
<1>8. ASSUME NEW v \in Workers PROVE RequestSafe(req[v])'
  <2>1. RequestSafe(req'[v])
    BY <1>2, <1>7 DEF Safe
  <2> QED BY <2>1 DEF RequestSafe, DataSafe, VerifiedState, StateBegun, Matching
<1>9. Unshared'
  <2> SUFFICES ASSUME NEW u \in Workers, req'[u].at = "store"
               PROVE  /\ session'.data.state # req'[u].own
                      /\ \A v \in Workers \ {u} : req'[v].copy.state # req'[u].own
    BY DEF Unshared
  <2>1. u # w /\ req'[u] = req[u]
    BY <1>1, <1>2
  <2>2. req[u].own # Null
    BY <2>1, CopyHeld DEF RequestOK
  <2>3. session.data.state # req[u].own /\ req[w].copy.state # req[u].own
    BY <2>1 DEF Safe, Unshared
  <2>4. session'.data.state # req[u].own /\ r.copy.state # req[u].own
    BY <1>1, <2>2, <2>3 DEF Written, From
  <2>5. \A v \in Workers \ {u, w} : req'[v].copy.state # req[u].own
    BY <1>2, <2>1 DEF Safe, Unshared
  <2> QED BY <1>2, <2>1, <2>4, <2>5
<1> QED BY <1>6, <1>8, <1>9 DEF Safe

\* A browser's request keeps its copy when it goes on.
LEMMA BrowserGoes ==
    ASSUME Inv, Client = "browser", NEW w \in Workers, NEW at \in Steps, NEW d \in Data,
           NEW m \in Ceremonies \cup {Null}, ContinueWith(w, at, d, m)
    PROVE  \E r \in Requests :
              /\ req' = [req EXCEPT ![w] = r]
              /\ r.at = at /\ r.copy = d /\ (r.loaded <=> TRUE)
              /\ r.own = req[w].own /\ r.purpose = req[w].purpose
<1> DEFINE r == [Idle EXCEPT !.at = at, !.purpose = req[w].purpose, !.own = req[w].own,
                             !.key = req[w].key, !.copy = d, !.loaded = TRUE, !.meta = m]
<1>1. req[w] \in Requests
  BY DEF Inv, TypeOK
<1>2. r \in Requests
  BY <1>1 DEF Idle, Requests, Null
<1>3. /\ r.at = at /\ r.copy = d /\ r.loaded
      /\ r.own = req[w].own /\ r.purpose = req[w].purpose
  BY DEF Idle
<1>4. req' = [req EXCEPT ![w] = r]
  BY DEF ContinueWith, Kept
<1> HIDE DEF r
<1> QED BY <1>2, <1>3, <1>4

\* The ways in which a browser's request goes on.
LEMMA GoesOnPlainly ==
    ASSUME Inv, Safe, Client = "browser", NEW w \in Workers
    PROVE  /\ Leave(w) => Plain(w)
           /\ \A at \in {"clear", "consume", "save"}, p \in AllPurposes \cup {"none"},
                 c \in Ceremonies \cup {Null} : Arrive(w, at, p, c) => Plain(w)
           /\ \A at \in {"view", "respond"}, d \in Data :
                 From(req[w].copy, d) /\ Continue(w, at, d) => Plain(w)
           /\ \A d \in Data : From(req[w].copy, d) /\ Respond(w, d) => Plain(w)
           /\ \A m \in Ceremonies \cup {Null} :
                 ContinueWith(w, "verify", req[w].copy, m) => Plain(w)
           /\ Goto(w, "delete") => Plain(w)
<1>1. req[w] \in Requests /\ req[w].copy \in Data /\ session.data \in Data
  BY CopyHeld DEF Inv, TypeOK
<1>2. ASSUME Leave(w) PROVE Plain(w)
  <2>1. Idle \in Requests /\ Idle.at = "idle" /\ Idle.copy = Empty
    BY DEF Idle, Requests, Steps, Empty, Data, Null
  <2>2. From(session.data, Empty)
    BY <1>1, UpdatesFrom
  <2> QED BY <1>2, <2>1, <2>2 DEF Leave, Plain
<1>3. ASSUME NEW at \in {"clear", "consume", "save"}, NEW p \in AllPurposes \cup {"none"},
             NEW c \in Ceremonies \cup {Null}, Arrive(w, at, p, c)
      PROVE  Plain(w)
  <2> DEFINE r == [at |-> at, purpose |-> p, own |-> c, key |-> session.key,
                   copy |-> session.data, loaded |-> TRUE, meta |-> Null, checked |-> Null,
                   since |-> Null]
  <2>1. r \in Requests
    BY DEF Inv, TypeOK, Requests, Steps, Null
  <2>2. From(session.data, r.copy) /\ req' = [req EXCEPT ![w] = r]
    BY <1>1, <1>3, UpdatesFrom DEF Arrive
  <2> QED BY <2>1, <2>2 DEF Plain
<1>4. ASSUME NEW at \in {"view", "respond", "verify"}, NEW d \in Data, From(req[w].copy, d),
             NEW m \in Ceremonies \cup {Null}, ContinueWith(w, at, d, m)
      PROVE  Plain(w)
  <2>1. PICK r \in Requests : /\ req' = [req EXCEPT ![w] = r]
                              /\ r.at = at /\ r.copy = d /\ (r.loaded <=> TRUE)
    BY <1>4, BrowserGoes DEF Steps, Losing
  <2> QED BY <1>4, <2>1 DEF Plain
<1>5. ASSUME Goto(w, "delete") PROVE Plain(w)
  <2> DEFINE r == [req[w] EXCEPT !.at = "delete"]
  <2>1. r \in Requests /\ r.at = "delete" /\ r.copy = req[w].copy
    BY <1>1 DEF Requests, Steps, Losing
  <2>2. req' = [req EXCEPT ![w] = r]
    BY <1>5 DEF Goto
  <2>3. From(req[w].copy, r.copy)
    BY <1>1, <2>1, UpdatesFrom
  <2> HIDE DEF r
  <2> QED BY <2>1, <2>2, <2>3 DEF Plain
<1>6. From(req[w].copy, req[w].copy)
  BY <1>1, UpdatesFrom
<1>7. \A at \in {"view", "respond"}, d \in Data :
         From(req[w].copy, d) /\ Continue(w, at, d) => Plain(w)
  BY <1>4 DEF Continue
<1>8. \A m \in Ceremonies \cup {Null} :
         ContinueWith(w, "verify", req[w].copy, m) => Plain(w)
  BY <1>1, <1>4, <1>6
<1> QED BY <1>2, <1>3, <1>5, <1>7, <1>8 DEF Respond

\* The session is left as it is, or a copy is saved.
LEMMA WrittenFrom ==
    ASSUME Inv, NEW w \in Workers
    PROVE  /\ UNCHANGED session => Written(w)
           /\ \A d \in Data : From(req[w].copy, d) /\ Save(d) => Written(w)
           /\ \A d \in Data : \A k :
                 From(req[w].copy, d) /\ session' = [key |-> k, data |-> d] => Written(w)
<1>1. session.data \in Data /\ session \in [key : Nat, data : Data]
  BY DEF Inv, TypeOK
<1>2. From(session.data, session.data)
  BY <1>1, UpdatesFrom
<1> QED BY <1>1, <1>2 DEF Written, Save

\* Options requests up to the view, and the other endpoints.
LEMMA OptionsSafe ==
    ASSUME Inv, Safe, Inv', Client = "browser", NEW w \in Workers,
           OptionsArrive(w) \/ ClearChallenge(w) \/ OtherArrive(w) \/ OtherSave(w)
    PROVE  Safe'
<1> DEFINE copy == req[w].copy
<1>1. copy \in Data /\ [copy EXCEPT !.challenge = Null] \in Data /\ Empty \in Data
  BY CopyHeld DEF Empty, Data, Null
<1>2. /\ From(copy, copy) /\ From(copy, [copy EXCEPT !.challenge = Null])
      /\ From(copy, Empty) /\ \A k, s : From(copy, [copy EXCEPT !.who[k] = s])
  BY <1>1, UpdatesFrom
<1>3. CompletedSafe'
  BY DEF Safe, CompletedSafe, OptionsArrive, ClearChallenge, OtherArrive, OtherSave
<1>4. Plain(w)
  <2>1. CASE OptionsArrive(w) \/ OtherArrive(w)
    BY <2>1, GoesOnPlainly, BoundsAssumption DEF OptionsArrive, OtherArrive
  <2>2. CASE ClearChallenge(w)
    BY <1>1, <1>2, <2>2, GoesOnPlainly DEF ClearChallenge
  <2>3. CASE OtherSave(w)
    BY <2>3, GoesOnPlainly DEF OtherSave
  <2> QED BY <2>1, <2>2, <2>3
<1>5. Written(w)
  <2>1. CASE OptionsArrive(w) \/ OtherArrive(w)
    BY <2>1, WrittenFrom DEF OptionsArrive, OtherArrive
  <2>2. CASE ClearChallenge(w)
    BY <1>1, <1>2, <2>2, WrittenFrom DEF ClearChallenge
  <2>3. CASE OtherSave(w)
    <3>1. \A k \in Kinds, s \in Subjects : [copy EXCEPT !.who[k] = s] \in Data
      BY <1>1, DataUpdates
    <3>2. {SubjectKind(p) : p \in Purposes} \subseteq Kinds /\ "authenticated" \in Kinds
      BY DEF SubjectKind, Kinds
    <3>3. CASE Save(copy) \/ session' = [key |-> session.key + 1, data |-> Empty]
      BY <1>1, <1>2, <3>3, WrittenFrom
    <3>4. CASE \E k \in Kinds, s \in Subjects : Save([copy EXCEPT !.who[k] = s])
      BY <1>2, <3>1, <3>4, WrittenFrom
    <3>5. CASE \E s \in Subjects :
                  session' = [key |-> session.key + 1,
                              data |-> [copy EXCEPT !.who["authenticated"] = s]]
      <4>1. PICK s \in Subjects :
                  session' = [key |-> session.key + 1,
                              data |-> [copy EXCEPT !.who["authenticated"] = s]]
        BY <3>5
      <4> DEFINE signed == [copy EXCEPT !.who["authenticated"] = s]
      <4>2. signed \in Data /\ From(copy, signed)
        BY <1>2, <3>1, <3>2
      <4> HIDE DEF signed
      <4>3. session' = [key |-> session.key + 1, data |-> signed]
        BY <4>1 DEF signed
      <4> QED BY <4>2, <4>3, WrittenFrom
    <3> QED BY <2>3, <3>2, <3>3, <3>4, <3>5 DEF OtherSave
  <2> QED BY <2>1, <2>2, <2>3
<1>6. UNCHANGED <<begun, issued>>
  BY DEF OptionsArrive, ClearChallenge, OtherArrive, OtherSave
<1> QED BY <1>3, <1>4, <1>5, <1>6, PlainSafe

\* A state that allauth begins is in the copy of its request alone.
LEMMA BeginSafe ==
    ASSUME Inv, Safe, Inv', Client = "browser", NEW w \in Workers, Begin(w)
    PROVE  Safe'
<1> DEFINE c == begun + 1
           data == [req[w].copy EXCEPT !.state = c, !.verified = FALSE]
           r == [req[w] EXCEPT !.at = "store", !.own = c, !.copy = data, !.loaded = TRUE]
<1>1. /\ begun \in Nat /\ c \in Ceremonies /\ begun' = c /\ c # Null
      /\ UNCHANGED <<session, issued, completed>>
  BY BoundsAssumption DEF Begin, Inv, TypeOK, Ceremonies, Null
<1>2. issued[c].at = Null
  BY <1>1 DEF Inv, NotBegun
<1>3. data \in Data /\ data.state = c
  BY <1>1, CopyHeld DEF Data
<1>4. r.at = "store" /\ r.copy = data /\ r.own = c /\ r.loaded /\ req' = [req EXCEPT ![w] = r]
  <2>1. req[w] \in Requests
    BY DEF Inv, TypeOK
  <2>2. r.at = "store" /\ r.copy = data /\ r.own = c /\ r.loaded
    <3> HIDE DEF data, c
    <3> QED BY <2>1 DEF Requests
  <2>3. req' = [req EXCEPT ![w] = r]
    BY DEF Begin, Kept
  <2> QED BY <2>2, <2>3
<1> HIDE DEF data, r
<1>5. \A v \in Workers : req'[v] = IF v = w THEN r ELSE req[v]
  BY <1>4 DEF Inv, TypeOK
<1>6. ASSUME NEW d, DataSafe(d) PROVE SafeNow(d) /\ d.state # c
  BY <1>1, <1>6 DEF DataSafe, VerifiedState, StateBegun, SafeNow
<1>7. DataSafe(session.data)' /\ session.data.state # c
  <2>1. SafeNow(session.data) /\ session.data.state # c
    BY <1>6 DEF Safe
  <2> QED BY <1>1, <2>1 DEF DataSafe, VerifiedState, StateBegun, SafeNow
<1>8. ASSUME NEW v \in Workers PROVE RequestSafe(req[v])'
  <2>1. CASE v = w
    <3>1. SafeNow(data)
      BY <1>1, <1>2, <1>3 DEF SafeNow
    <3>2. req'[v] = r /\ req'[v].copy = data
      BY <1>4, <1>5, <2>1
    <3>3. DataSafe(req[v].copy)'
      BY <3>1, <3>2 DEF DataSafe, VerifiedState, StateBegun, SafeNow
    <3> QED BY <1>4, <3>2, <3>3 DEF RequestSafe
  <2>2. CASE v # w
    <3>1. RequestSafe(req[v]) /\ req'[v] = req[v]
      BY <1>5, <2>2 DEF Safe
    <3>2. SafeNow(req[v].copy)
      BY <1>6, <3>1 DEF RequestSafe
    <3>3. DataSafe(req[v].copy)'
      BY <3>1, <3>2 DEF DataSafe, VerifiedState, StateBegun, SafeNow
    <3> QED BY <1>1, <3>1, <3>3 DEF RequestSafe, Matching
  <2> QED BY <2>1, <2>2
<1>9. Unshared'
  <2> SUFFICES ASSUME NEW u \in Workers, req'[u].at = "store"
               PROVE  /\ session'.data.state # req'[u].own
                      /\ \A v \in Workers \ {u} : req'[v].copy.state # req'[u].own
    BY DEF Unshared
  <2>1. CASE u = w
    <3>1. \A v \in Workers \ {w} : req[v].copy.state # c
      BY <1>6 DEF Safe, RequestSafe
    <3> QED BY <1>1, <1>4, <1>5, <1>7, <2>1, <3>1
  <2>2. CASE u # w
    <3>1. req[u].own <= begun /\ req[u].own \in Nat /\ req[u].at = "store"
      BY <1>5, <2>2, RequestInOrder DEF RequestOK
    <3>2. c # req[u].own
      BY <1>1, <3>1
    <3> QED BY <1>1, <1>3, <1>4, <1>5, <2>2, <3>1, <3>2 DEF Safe, Unshared
  <2> QED BY <2>1, <2>2
<1>10. CompletedSafe'
  BY <1>1 DEF Safe, CompletedSafe
<1> QED BY <1>7, <1>8, <1>9, <1>10 DEF Safe

\* The response stores the metadata of a challenge whose state it has just made require user
\* verification.
LEMMA StoreSafe ==
    ASSUME Inv, Safe, Inv', Client = "browser", NEW w \in Workers, StoreChallenge(w)
    PROVE  Safe'
<1> DEFINE c == req[w].own
           copy == req[w].copy
           binding == IF copy.binding = Null THEN c ELSE copy.binding
           required == RequireVerification(copy, req[w].purpose)
           data == [required EXCEPT !.challenge = c, !.binding = binding]
<1>0. /\ req[w] \in Requests /\ copy \in Data /\ c \in Ceremonies /\ req[w].at = "store"
      /\ issued[c].at = Null /\ binding \in Ceremonies
  BY CopyHeld DEF StoreChallenge, Ready, RequestOK, Requests, Data
<1>1. CASE ~Storable(w)
  <2>1. [copy EXCEPT !.binding = binding] \in Data /\ From(copy, [copy EXCEPT !.binding = binding])
    BY <1>0, UpdatesFrom DEF Data
  <2>2. Plain(w) /\ Written(w)
    BY <1>1, <2>1, GoesOnPlainly, WrittenFrom DEF StoreChallenge
  <2>3. CompletedSafe' /\ UNCHANGED <<begun, issued>>
    BY <1>1 DEF StoreChallenge, Safe, CompletedSafe
  <2> QED BY <2>2, <2>3, PlainSafe
<1>2. CASE Storable(w)
  <2>1. /\ Save(data) /\ Continue(w, "respond", data)
        /\ issued' = [issued EXCEPT ![c] =
              [purpose |-> req[w].purpose, subject |-> Subject(copy, req[w].purpose),
               binding |-> binding, at |-> now]]
        /\ UNCHANGED <<begun, completed>>
    BY <1>2 DEF StoreChallenge, Respond
  <2>2. /\ issued'[c].purpose = req[w].purpose
        /\ \A d \in Ceremonies : d # c => issued'[d] = issued[d]
    BY <1>0, <2>1 DEF Inv, TypeOK
  <2>3. /\ required \in Data /\ required.state = copy.state
        /\ required.verified = (req[w].purpose = "account.login" \/ copy.verified)
    BY <1>0 DEF RequireVerification, Data
  <2>4. data \in Data /\ data.state = required.state /\ data.verified = required.verified
    <3> HIDE DEF required, binding
    <3> QED BY <1>0, <2>3 DEF Data
  <2>5. data.state = copy.state
        /\ (data.verified <=> req[w].purpose = "account.login" \/ copy.verified)
    BY <1>0, <2>3, <2>4 DEF Data
  <2>7. session'.data = data
    BY <2>1 DEF Save, Inv, TypeOK
  <2> HIDE DEF data
  <2>6. PICK r \in Requests :
            r.at = "respond" /\ r.copy = data /\ req' = [req EXCEPT ![w] = r]
    BY <2>1, <2>4, BrowserGoes DEF Continue, Steps
  <2>8. \A v \in Workers : req'[v] = IF v = w THEN r ELSE req[v]
    BY <2>6 DEF Inv, TypeOK
  <2>9. ASSUME NEW d \in Data, DataSafe(d), d.state # c PROVE SafeNow(d)
    <3>1. d.state # Null => issued'[d.state] = issued[d.state]
      BY <2>2, <2>9 DEF Data
    <3> QED BY <2>1, <2>9, <3>1 DEF DataSafe, VerifiedState, StateBegun, SafeNow
  <2>10. DataSafe(copy)
    BY DEF Safe, RequestSafe
  <2>11. SafeNow(data)
    <3>1. data.state \in 0 .. begun'
      BY <2>1, <2>5, <2>10 DEF DataSafe, StateBegun
    <3>2. CASE copy.state = c
      BY <2>2, <2>5, <3>1, <3>2 DEF SafeNow
    <3>3. CASE copy.state # c
      <4>1. copy.state # Null => issued'[copy.state] = issued[copy.state]
        BY <1>0, <2>2, <3>3 DEF Data
      <4> QED BY <2>5, <2>10, <3>1, <4>1 DEF DataSafe, VerifiedState, SafeNow
    <3> QED BY <3>2, <3>3
  <2>12. DataSafe(session.data)'
    BY <2>7, <2>11 DEF DataSafe, VerifiedState, StateBegun, SafeNow
  <2>13. ASSUME NEW v \in Workers PROVE RequestSafe(req[v])'
    <3>1. CASE v = w
      <4>1. req'[v] = r /\ req'[v].copy = data
        BY <2>6, <2>8, <3>1
      <4>2. DataSafe(req[v].copy)'
        BY <2>11, <4>1 DEF DataSafe, VerifiedState, StateBegun, SafeNow
      <4> QED BY <2>6, <4>1, <4>2 DEF RequestSafe
    <3>2. CASE v # w
      <4>1. RequestSafe(req[v]) /\ req'[v] = req[v] /\ req[v].copy \in Data
        BY <2>8, <3>2, CopyHeld DEF Safe
      <4>2. req[v].copy.state # c
        BY <1>0, <3>2 DEF Safe, Unshared
      <4>3. DataSafe(req[v].copy)'
        <5>1. SafeNow(req[v].copy)
          BY <2>9, <4>1, <4>2 DEF RequestSafe
        <5> QED BY <4>1, <5>1 DEF DataSafe, VerifiedState, StateBegun, SafeNow
      <4>4. req[v].at = "finish" => issued'[req[v].own] = issued[req[v].own]
        <5>1. req[v].at = "finish" => req[v].own # c /\ req[v].own \in Ceremonies
          BY <1>0, <4>1, RequestInOrder DEF RequestSafe, Matching, RequestOK
        <5> QED BY <2>2, <5>1
      <4> QED BY <4>1, <4>3, <4>4 DEF RequestSafe, Matching
    <3> QED BY <3>1, <3>2
  <2>14. Unshared'
    <3> SUFFICES ASSUME NEW u \in Workers, req'[u].at = "store"
                 PROVE  /\ session'.data.state # req'[u].own
                        /\ \A v \in Workers \ {u} : req'[v].copy.state # req'[u].own
      BY DEF Unshared
    <3>1. u # w /\ req'[u] = req[u]
      BY <2>6, <2>8
    <3>2. \A v \in Workers \ {u} : req[v].copy.state # req[u].own
      BY <3>1 DEF Safe, Unshared
    <3>3. data.state # req[u].own
      BY <2>5, <3>1, <3>2
    <3> QED BY <2>6, <2>7, <2>8, <3>1, <3>2, <3>3
  <2>15. CompletedSafe'
    <3> SUFFICES ASSUME NEW d \in completed
                 PROVE  /\ issued'[d.ceremony].at # Null
                        /\ d.purpose = issued'[d.ceremony].purpose
                        /\ d.subject = issued'[d.ceremony].subject
                        /\ d.purpose = "account.login" => d.verified
      BY <2>1 DEF CompletedSafe
    <3>1. /\ issued[d.ceremony].at # Null /\ d.purpose = issued[d.ceremony].purpose
          /\ d.subject = issued[d.ceremony].subject
          /\ d.purpose = "account.login" => d.verified
      BY DEF Safe, CompletedSafe
    <3>2. d.ceremony \in Ceremonies
      BY DEF Inv, TypeOK, Completions
    <3>3. issued'[d.ceremony] = issued[d.ceremony]
      BY <1>0, <2>2, <3>1, <3>2
    <3> QED BY <3>1, <3>3
  <2> QED BY <2>12, <2>13, <2>14, <2>15 DEF Safe
<1> QED BY <1>1, <1>2

\* A completion, up to the claim it makes, and refusals.
LEMMA CompletionSafe ==
    ASSUME Inv, Safe, Inv', Client = "browser", NEW w \in Workers,
           \/ CompletionArrive(w) \/ Consume(w) \/ ReserveClaim(w) \/ RefuseClaim(w)
           \/ LoseClaim(w) \/ VerifyClaim(w) \/ DeleteOverdue(w) \/ SaveOnResponse(w)
           \/ Abort(w)
    PROVE  Safe'
<1> DEFINE copy == req[w].copy
           popped == [copy EXCEPT !.challenge = Null]
<1>1. req[w] \in Requests /\ copy \in Data /\ popped \in Data
  BY CopyHeld
<1>2. From(copy, copy) /\ From(copy, popped)
  BY <1>1, UpdatesFrom
<1>3. UNCHANGED <<begun, issued>> /\ CompletedSafe'
  BY DEF Safe, CompletedSafe, CompletionArrive, Consume, ReserveClaim, RefuseClaim, LoseClaim,
         VerifyClaim, DeleteOverdue, SaveOnResponse, Abort
<1>4. CASE CompletionArrive(w)
  <2>1. Plain(w)
    BY <1>4, GoesOnPlainly, BoundsAssumption DEF CompletionArrive
  <2>2. Written(w)
    BY <1>4, WrittenFrom DEF CompletionArrive
  <2> QED BY <1>3, <2>1, <2>2, PlainSafe
<1>5. CASE Consume(w)
  <2>1. Written(w)
    BY <1>1, <1>2, <1>5, WrittenFrom DEF Consume
  <2>2. Plain(w)
    <3>1. CASE Leave(w) \/ Respond(w, popped)
      BY <1>1, <1>2, <3>1, GoesOnPlainly
    <3>2. CASE /\ copy.challenge # Null
               /\ req' = [req EXCEPT ![w].at = "claim", ![w].copy = popped,
                                     ![w].meta = copy.challenge, ![w].checked = now]
      <4> DEFINE r == [req[w] EXCEPT !.at = "claim", !.copy = popped,
                                     !.meta = copy.challenge, !.checked = now]
      <4>1. now \in Nat /\ copy.challenge \in Ceremonies \cup {Null}
        BY <1>1, DataUpdates DEF Inv, TypeOK
      <4>2. r \in Requests /\ r.at = "claim" /\ r.copy = popped
        BY <1>1, <4>1 DEF Requests, Steps, Claiming
      <4>3. req' = [req EXCEPT ![w] = r]
        BY <3>2
      <4> HIDE DEF r
      <4> QED BY <1>2, <4>2, <4>3 DEF Plain
    <3> QED BY <1>5, <3>1, <3>2 DEF Consume
  <2> QED BY <1>3, <2>1, <2>2, PlainSafe
<1>6. CASE \/ ReserveClaim(w) \/ RefuseClaim(w) \/ LoseClaim(w) \/ VerifyClaim(w)
           \/ DeleteOverdue(w)
  <2>1. Plain(w)
    <3>1. CASE Respond(w, copy) \/ Goto(w, "delete")
      BY <1>1, <1>2, <3>1, GoesOnPlainly
    <3>2. CASE ContinueWith(w, "verify", copy, req[w].meta)
      <4>1. req[w].meta \in Ceremonies \cup {Null}
        BY <1>1 DEF Requests
      <4> QED BY <3>2, <4>1, GoesOnPlainly
    <3>3. CASE req' = [req EXCEPT ![w].at = "add", ![w].since = now]
      <4> DEFINE r == [req[w] EXCEPT !.at = "add", !.since = now]
      <4>1. now \in Nat
        BY DEF Inv, TypeOK
      <4>2. r \in Requests /\ r.at = "add" /\ r.copy = copy
        BY <1>1, <4>1 DEF Requests, Steps, Claiming
      <4>3. req' = [req EXCEPT ![w] = r]
        BY <3>3
      <4> HIDE DEF r
      <4> QED BY <1>2, <4>2, <4>3 DEF Plain
    <3> QED BY <1>6, <3>1, <3>2, <3>3
            DEF ReserveClaim, RefuseClaim, LoseClaim, VerifyClaim, DeleteOverdue
  <2>2. Written(w)
    BY <1>6, WrittenFrom DEF ReserveClaim, RefuseClaim, LoseClaim, VerifyClaim, DeleteOverdue
  <2> QED BY <1>3, <2>1, <2>2, PlainSafe
<1>7. CASE SaveOnResponse(w) \/ Abort(w)
  <2>1. Plain(w)
    BY <1>7, GoesOnPlainly DEF SaveOnResponse, Abort
  <2>2. Written(w)
    BY <1>1, <1>2, <1>7, WrittenFrom DEF SaveOnResponse, Abort
  <2> QED BY <1>3, <2>1, <2>2, PlainSafe
<1> QED BY <1>4, <1>5, <1>6, <1>7

\* A completion that passes matches the metadata of its challenge, and its copy stays.
LEMMA PassSafe ==
    ASSUME Inv, Safe, Inv', Client = "browser", NEW w \in Workers, PassClaim(w)
    PROVE  Safe'
<1> DEFINE copy == req[w].copy
<1>1. req[w] \in Requests /\ copy \in Data
  BY CopyHeld
<1>2. ContinueWith(w, "finish", copy, Null) /\ "finish" \in Steps
  BY DEF PassClaim, Continue, Steps
<1>3. PICK r \in Requests : /\ req' = [req EXCEPT ![w] = r]
                            /\ r.at = "finish" /\ r.copy = copy /\ (r.loaded <=> TRUE)
                            /\ r.own = req[w].own /\ r.purpose = req[w].purpose
  BY <1>1, <1>2, BrowserGoes
<1>4. /\ issued[req[w].own].at # Null
      /\ issued[req[w].own].purpose = req[w].purpose
      /\ issued[req[w].own].subject = Subject(copy, req[w].purpose)
  BY PassClaimMatches
<1>5. Matching(r)
  BY <1>3, <1>4 DEF Matching
<1>6. From(copy, copy)
  BY <1>1, UpdatesFrom
<1>7. Plain(w)
  BY <1>3, <1>5, <1>6 DEF Plain
<1>8. Written(w) /\ CompletedSafe' /\ UNCHANGED <<begun, issued>>
  BY WrittenFrom DEF PassClaim, Safe, CompletedSafe
<1> QED BY <1>7, <1>8, PlainSafe

\* The view completes what its request has brought.
LEMMA ViewSafe ==
    ASSUME Inv, Safe, Inv', Client = "browser", NEW w \in Workers, CompleteView(w)
    PROVE  Safe'
<1> DEFINE p == req[w].purpose
           copy == req[w].copy
           done == [ceremony |-> req[w].own, purpose |-> p, subject |-> Subject(copy, p),
                    verified |-> copy.verified]
<1>1. copy \in Data /\ From(copy, copy) /\ Matching(req[w]) /\ req[w].own # Null
  BY CopyHeld, UpdatesFrom DEF Safe, RequestSafe, CompleteView, Ready, RequestOK
<1>2. UNCHANGED <<begun, issued>>
  BY DEF CompleteView
<1>3. CASE Respond(w, copy) /\ UNCHANGED <<session, completed>>
  <2>1. Plain(w) /\ Written(w)
    BY <1>1, <1>3, GoesOnPlainly, WrittenFrom
  <2>2. CompletedSafe'
    BY <1>2, <1>3 DEF Safe, CompletedSafe
  <2> QED BY <1>2, <2>1, <2>2, PlainSafe
<1>4. CASE /\ copy.state = req[w].own
           /\ completed' = completed \cup {done}
           /\ \E data \in Logged([copy EXCEPT !.state = Null], p) :
                 /\ \/ session' = [key |-> session.key + 1, data |-> data]
                    \/ Save(data)
                 /\ Leave(w)
  <2>1. PICK data \in Logged([copy EXCEPT !.state = Null], p) :
                 /\ \/ session' = [key |-> session.key + 1, data |-> data]
                    \/ Save(data)
                 /\ Leave(w)
    BY <1>4
  <2>2. [copy EXCEPT !.state = Null] \in Data
    BY <1>1, DataUpdates
  <2>3. data \in Data /\ From(copy, data)
    BY <1>1, <2>2, LoggedData, UpdatesFrom
  <2>4. Plain(w) /\ Written(w)
    BY <2>1, <2>3, GoesOnPlainly, WrittenFrom
  <2>5. p = "account.login" => copy.verified
    BY <1>1, <1>4 DEF Safe, RequestSafe, DataSafe, VerifiedState, Matching
  <2>6. CompletedSafe'
    BY <1>1, <1>2, <1>4, <2>5 DEF Safe, CompletedSafe, Matching
  <2> QED BY <1>2, <2>4, <2>6, PlainSafe
<1> QED BY <1>3, <1>4 DEF CompleteView

\* No step of a browser's requests, nor of anyone else, makes what they hold unsafe.
LEMMA SafeNext ==
    ASSUME Inv, Safe, Inv', Client = "browser", [Next]_vars
    PROVE  Safe'
<1>1. ASSUME NEW w \in Workers PROVE ~LookUp(w)
  BY DEF Safe, RequestSafe, LookUp
<1>2. CASE UNCHANGED <<session, begun, issued, req, completed>>
  BY <1>2 DEF Safe, DataSafe, VerifiedState, StateBegun, RequestSafe, Matching, Unshared,
              CompletedSafe
<1>3. (\E k \in Others : OtherClaim(k)) \/ Tick \/ UNCHANGED vars
         => UNCHANGED <<session, begun, issued, req, completed>>
  BY DEF OtherClaim, Tick, vars
<1>4. ASSUME NEW w \in Workers, RequestStep(w) PROVE Safe'
  BY <1>1, <1>4, OptionsSafe, BeginSafe, StoreSafe, CompletionSafe, PassSafe, ViewSafe
  DEF RequestStep
<1> QED BY <1>2, <1>3, <1>4 DEF Next

\* At first nothing is begun.
LEMMA SafeInit == Init => Safe
<1> SUFFICES ASSUME Init PROVE Safe
  OBVIOUS
<1>1. Empty.state = Null /\ Idle.at = "idle" /\ Idle.copy = Empty /\ NotIssued.at = Null
  BY DEF Empty, Idle, NotIssued
<1>2. DataSafe(Empty)
  BY <1>1 DEF Init, DataSafe, VerifiedState, StateBegun, Null
<1> QED BY <1>1, <1>2 DEF Init, Safe, RequestSafe, Unshared, CompletedSafe

\* What browsers hold and complete is safe in every reachable state.
LEMMA BrowserSafe == ASSUME Client = "browser" PROVE Spec => []Safe
<1>1. Init => Safe
  BY SafeInit
<1>2. Inv /\ Safe /\ Inv' /\ [Next]_vars => Safe'
  BY SafeNext
<1> QED BY <1>1, <1>2, Invariance, PTL DEF Spec

\* A browser's ceremony is completed for the purpose and the subject that its challenge was
\* bound to, however many stale copies of the session are saved (_subject_binding).
THEOREM CompletedAsBound ==
    ASSUME Client = "browser" PROVE Spec => []CompletedAsIssued
<1>1. Safe => CompletedAsIssued
  BY DEF Safe, CompletedSafe, CompletedAsIssued
<1> QED BY <1>1, BrowserSafe, PTL

\* A browser's login without a password was verified against a state that required user
\* verification (require_webauthn_user_verification).
THEOREM LoginsVerified ==
    ASSUME Client = "browser" PROVE Spec => []LoginVerified
<1>1. Safe => LoginVerified
  BY DEF Safe, CompletedSafe, LoginVerified
<1> QED BY <1>1, BrowserSafe, PTL
=============================================================================

-------------------------- MODULE AdminLoginProofs --------------------------
(***************************************************************************)
(* What holds of the administrator's login for any number of requests,     *)
(* browsers, addresses, codes and flows: a code logs in once, and while    *)
(* its authenticator is there; the two stages never mix in a session; a    *)
(* session that was refused stays out; wrong attempts are bounded.         *)
(*                                                                         *)
(* The invariant has three parts: Typed (the shape of every request),      *)
(* CodesHeld (what the locks protect) and SessionsKept (keys are made      *)
(* once, and an assurance that is lost does not come back).  A second one, *)
(* GuessesCounted, says where each wrong attempt is counted.               *)
(***************************************************************************)
EXTENDS AdminLogin, FiniteSetTheorems, TLAPS

RequestKeys == Keys \cup {NoKey}

PlainRequests ==
    [stage : {"password", "save"}, browser : Browsers, key : RequestKeys, copy : Data]
PageRequests ==
    [stage : {"page", "save"}, browser : Browsers, key : RequestKeys, copy : Data,
     late : BOOLEAN]

AttemptStages == {"turn", "rate", "verify", "failed", "refused", "passed", "lost", "admit",
                  "blocked", "done", "save"}
AllProofs == Codes \cup {Wrong, Passkey, Garbled, NoOne}
Windows == {t \div Window : t \in 0 .. MaxTime} \cup {0}

Attempts ==
    [stage : AttemptStages, browser : Browsers, key : RequestKeys, copy : Data,
     group : Groups, proof : AllProofs, epoch : Nat, added : BOOLEAN,
     touched : 0 .. MaxTime, window : Windows, n : Nat]

Shapes == {Idle} \cup PlainRequests \cup PageRequests \cup Attempts

\* Stages at which an attempt has shown a proof.
Proving == {"verify", "failed", "refused", "passed", "lost", "admit"}
\* Stages from the acceptance of the proof to the commit.
Accepted == {"passed", "lost", "admit"}

Tables ==
    /\ now \in 0 .. MaxTime
    /\ DOMAIN rows \subseteq Keys /\ \A k \in DOMAIN rows : rows[k] \in Data
    /\ jar \in [Browsers -> RequestKeys]
    /\ role \in BOOLEAN /\ factors \subseteq Factors /\ codes \subseteq Codes
    /\ epoch \in [Addresses -> [id : Nat, since : 0 .. MaxTime]]
    /\ \A x \in DOMAIN count : x \in Addresses \X Nat \X Groups /\ count[x] \in Nat
    /\ turn \in [Addresses -> Requests \cup {NoOne}]
    /\ lock \in Requests \cup {NoOne}
    /\ flows \in 0 .. NumFlows /\ admitted \in 0 .. NumLogins
    /\ left \in [Bounded -> Nat]
    /\ logins \in [Codes -> Nat]

\* A code is the proof of no other group than its own; options show no proof.
Proper(q) ==
    /\ q.stage \in AttemptStages \ {"save"} =>
          (q.group # "options" => (q.proof \in Codes => q.group = "code"))
    /\ q.stage \in Proving => q.group # "options"

Typed == Tables /\ req \in [Requests -> Shapes] /\ \A r \in Requests : Proper(req[r])

\* Who has shown a right code holds the rows, the code and the factor; a code that is left has
\* not logged in.
Holding(r) == req[r].stage \in Accepted /\ req[r].group = "code"
CodesHeld ==
    /\ \A r \in Requests : Holding(r) => lock = r
    /\ \A r \in Requests : req[r].stage \in {"passed", "admit"} /\ req[r].proof \in Codes
          => req[r].proof \in codes /\ FactorOf(req[r].proof) \in factors
    /\ \A c \in Codes : logins[c] <= 1 /\ (c \in codes => logins[c] = 0)

\* A flow has neither a user nor an assurance, an assurance has a user, a start has a flow.
Apart(d) == /\ d.flow # NoFlow => ~d.user /\ ~d.assured
            /\ d.assured => d.user
            /\ d.flow = NoFlow => d.since = 0

\* The session keys made so far.
Made == ({"flow"} \X (1 .. flows)) \cup ({"login"} \X (1 .. admitted))

\* No row with this key, or one without an assurance.
Unassuring(k) == k \in DOMAIN rows => ~rows[k].assured

Saving(k) == \E r \in Requests : req[r].stage = "save" /\ req[r].key = k

\* What a request may hold.
Fair(q) ==
    /\ q.key \in Made \cup {NoKey} /\ Apart(q.copy)
    /\ q.stage \in AttemptStages => ~q.copy.assured
    /\ q.stage = "page" =>
          /\ ~q.copy.assured => Unassuring(q.key)
          /\ q.late => ~q.copy.assured
          /\ q.key = NoKey => ~q.copy.user

SessionsKept ==
    /\ DOMAIN rows \subseteq Made /\ \A k \in DOMAIN rows : Apart(rows[k])
    /\ \A b \in Browsers : jar[b] \in Made \cup {NoKey}
    /\ \A r \in Requests : req[r] # Idle => Fair(req[r])
    /\ barred \subseteq Made
    /\ \A k \in barred : Saving(k) \/ Unassuring(k)
    /\ reopened = {}

Inv == Typed /\ CodesHeld /\ SessionsKept

-----------------------------------------------------------------------------
(* Requests and their shapes *)

\* What the constants are.
LEMMA Constants ==
    /\ {Limit, OptionsLimit, Window, EpochTimeout, PendingTTL, AssuranceTTL, MaxTime, NumFlows,
        NumLogins} \subseteq Nat
    /\ Window > 0
    /\ AddressOf \in [Browsers -> Addresses]
    /\ NoOne \notin Requests
    /\ Codes \cap {Wrong, Passkey, Garbled} = {}
    /\ Budgets \subseteq [Bounded -> Nat]
BY LoginAssumption

\* NoKey is the key of no row.
LEMMA NoKeyMade == NoKey \notin Keys
BY DEF NoKey, Keys

\* The stage tells which request it is.
LEMMA StageShapes ==
    ASSUME NEW q \in Shapes
    PROVE  /\ q.stage \in Stages
           /\ q.stage = "idle" <=> q = Idle
           /\ q.stage = "password" => q \in PlainRequests
           /\ q.stage = "page" => q \in PageRequests
           /\ q.stage \in AttemptStages \ {"save"} => q \in Attempts
           /\ q # Idle => /\ q.browser \in Browsers /\ q.key \in RequestKeys
                          /\ q.copy \in Data
BY DEF Shapes, PlainRequests, PageRequests, Attempts, AttemptStages, Idle, Stages

\* A request may be left with a session to be saved.
LEMMA SavedShape ==
    ASSUME NEW q \in Shapes, q # Idle, NEW d \in Data
    PROVE  LET s == [q EXCEPT !.stage = "save", !.copy = d]
           IN  s \in Shapes /\ s.stage = "save" /\ s.copy = d /\ s.key = q.key
<1> DEFINE s == [q EXCEPT !.stage = "save", !.copy = d]
<1>1. CASE q \in PlainRequests
  <2>1. s \in PlainRequests
    BY <1>1 DEF PlainRequests
  <2> QED BY <1>1, <2>1 DEF PlainRequests, Shapes
<1>2. CASE q \in PageRequests
  <2>1. s \in PageRequests
    BY <1>2 DEF PageRequests
  <2> QED BY <1>2, <2>1 DEF PageRequests, Shapes
<1>3. CASE q \in Attempts
  <2>1. s \in Attempts
    BY <1>3 DEF Attempts, AttemptStages
  <2> QED BY <1>3, <2>1 DEF Attempts, Shapes
<1> QED BY <1>1, <1>2, <1>3 DEF Shapes

\* Leave ends the request or leaves the session to be saved.
LEMMA LeaveShape ==
    ASSUME req \in [Requests -> Shapes], NEW r \in Requests, req[r] # Idle,
           NEW d \in Data, Leave(r, d)
    PROVE  \E q \in Shapes :
              /\ req' = [req EXCEPT ![r] = q]
              /\ \/ q = Idle /\ (d = req[r].copy \/ req[r].key = NoKey)
                 \/ q.stage = "save" /\ q.copy = d /\ q.key = req[r].key /\ q # Idle
<1> DEFINE s == [req[r] EXCEPT !.stage = "save", !.copy = d]
<1>1. s \in Shapes /\ s.stage = "save" /\ s.copy = d /\ s.key = req[r].key
  BY SavedShape
<1>2. s # Idle
  BY <1>1 DEF Idle
<1>3. Idle \in Shapes
  BY DEF Shapes
<1> HIDE DEF s
<1>4. req' = [req EXCEPT ![r] = IF d = req[r].copy \/ req[r].key = NoKey THEN Idle ELSE s]
  BY DEF Leave, s
<1> QED BY <1>1, <1>2, <1>3, <1>4

\* Session data stays session data.
LEMMA DataUpdates ==
    ASSUME NEW d \in Data
    PROVE  /\ Cleared(d) \in Data /\ ClearedAll(d) \in Data /\ Unassured(d) \in Data
           /\ ~ClearedAll(d).assured /\ ~Unassured(d).assured
           /\ Cleared(d).assured = d.assured
<1>1. 0 \in 0 .. MaxTime
  BY Constants
<1>2. /\ Cleared(d) \in Data /\ Cleared(d).assured = d.assured
  BY <1>1 DEF Data, Cleared, NoFlow
<1>3. [Cleared(d) EXCEPT !.assured = FALSE, !.at = 0] \in Data
  BY <1>1, <1>2 DEF Data
<1>4. [d EXCEPT !.assured = FALSE, !.at = 0] \in Data
  BY <1>1 DEF Data
<1>5. ~ClearedAll(d).assured /\ ~Unassured(d).assured
  BY <1>2 DEF ClearedAll, Unassured, Data
<1> QED BY <1>2, <1>3, <1>4, <1>5 DEF ClearedAll, Unassured

\* What is cleared keeps its stages apart; what is not changed by it has no flow.
LEMMA ApartUpdates ==
    ASSUME NEW d \in Data, Apart(d)
    PROVE  /\ Apart(Cleared(d)) /\ Apart(ClearedAll(d)) /\ Apart(Unassured(d))
           /\ d # Cleared(d) => ~d.assured
           /\ d.flow # NoFlow => ~d.assured
           /\ d.assured => d.user
<1>1. Cleared(d) = [d EXCEPT !.flow = NoFlow, !.since = 0]
  BY DEF Cleared
<1>2. d.flow = NoFlow => d = Cleared(d)
  BY <1>1 DEF Apart, Data, NoFlow
<1>3. /\ Cleared(d).flow = NoFlow /\ Cleared(d).since = 0
      /\ Cleared(d).user = d.user /\ Cleared(d).assured = d.assured
  BY <1>1 DEF Data
<1>4. /\ ClearedAll(d).flow = NoFlow /\ ClearedAll(d).since = 0 /\ ~ClearedAll(d).assured
  BY DEF Data, Cleared, ClearedAll
<1>5. /\ Unassured(d).flow = d.flow /\ Unassured(d).since = d.since
      /\ Unassured(d).user = d.user /\ ~Unassured(d).assured
  BY DEF Data, Unassured
<1> QED BY <1>2, <1>3, <1>4, <1>5 DEF Apart

\* A row is put in the place of another, a row is taken away.
LEMMA RowReplaced ==
    ASSUME NEW k, NEW old, NEW d, rows' = Put(Without(rows, old), k, d)
    PROVE  /\ DOMAIN rows' = (DOMAIN rows \ {old}) \cup {k}
           /\ \A x \in DOMAIN rows' : rows'[x] = IF x = k THEN d ELSE rows[x]
BY DEF Put, Without

\* What is left is as it was.
LEMMA RowRemoved ==
    ASSUME NEW old, rows' = Without(rows, old)
    PROVE  /\ DOMAIN rows' = DOMAIN rows \ {old}
           /\ \A x \in DOMAIN rows' : rows'[x] = rows[x]
BY DEF Without

\* What is spent leaves a number.
LEMMA SpendLeft ==
    ASSUME left \in [Bounded -> Nat], NEW x \in Bounded, Spend(x)
    PROVE  left' \in [Bounded -> Nat]
BY DEF Spend

\* A new session, a pending one and an assured one are session data.
LEMMA NewSessions ==
    ASSUME Typed
    PROVE  /\ Blank \in Data /\ Apart(Blank) /\ ~Blank.assured /\ ~Blank.user
           /\ Assured \in Data /\ Apart(Assured)
           /\ \A f \in Flows : Pending(f) \in Data /\ Apart(Pending(f)) /\ ~Pending(f).assured
<1>1. now \in 0 .. MaxTime /\ 0 \in 0 .. MaxTime
  BY Constants DEF Typed, Tables
<1>2. Blank \in Data /\ Apart(Blank) /\ ~Blank.assured /\ ~Blank.user
  BY <1>1 DEF Blank, Data, Apart, NoFlow
<1>3. Assured \in Data /\ Apart(Assured)
  BY <1>1 DEF Assured, Blank, Data, Apart, NoFlow
<1>4. \A f \in Flows : Pending(f) \in Data /\ Apart(Pending(f)) /\ ~Pending(f).assured
  <2> TAKE f \in Flows
  <2>1. /\ Pending(f) \in Data /\ Pending(f).flow = f
        /\ Pending(f).user = Blank.user /\ Pending(f).assured = Blank.assured
    BY <1>1, <1>2 DEF Pending, Data
  <2>2. f # NoFlow
    BY Constants DEF Flows, NoFlow
  <2> QED BY <1>2, <2>1, <2>2 DEF Apart, Blank
<1> QED BY <1>2, <1>3, <1>4

\* The session a request loads.
LEMMA Loaded ==
    ASSUME Typed, NEW b \in Browsers
    PROVE  /\ jar[b] \in RequestKeys /\ SessionOf(b) \in Data
           /\ SessionsKept =>
                 /\ jar[b] \in Made \cup {NoKey} /\ Apart(SessionOf(b))
                 /\ ~SessionOf(b).assured => Unassuring(jar[b])
                 /\ Unassuring(jar[b]) => ~SessionOf(b).assured
                 /\ jar[b] = NoKey => ~SessionOf(b).user
<1>1. jar[b] \in RequestKeys
  BY DEF Typed, Tables
<1>2. CASE jar[b] \in DOMAIN rows
  <2>1. SessionOf(b) = rows[jar[b]] /\ jar[b] # NoKey
    BY <1>2, NoKeyMade DEF SessionOf, Typed, Tables
  <2> QED BY <1>1, <1>2, <2>1 DEF Typed, Tables, SessionsKept, Unassuring
<1>3. CASE jar[b] \notin DOMAIN rows
  <2>1. SessionOf(b) = Blank
    BY <1>3 DEF SessionOf
  <2> QED BY <1>1, <1>3, <2>1, NewSessions DEF SessionsKept, Unassuring
<1> QED BY <1>2, <1>3

\* Request r is replaced by q.
Turns(r, q) == q \in Shapes /\ Proper(q) /\ req' = [req EXCEPT ![r] = q]

\* One request changes: its new form is all that the other parts have to know.
LEMMA TypedStep ==
    ASSUME Typed, Tables', NEW r \in Requests, NEW q, Turns(r, q)
    PROVE  Typed' /\ req'[r] = q /\ \A s \in Requests \ {r} : req'[s] = req[s]
<1>1. req' \in [Requests -> Shapes]
  BY DEF Typed, Turns
<1>2. req'[r] = q /\ \A s \in Requests \ {r} : req'[s] = req[s]
  BY DEF Typed, Turns
<1>3. \A s \in Requests : Proper(req'[s])
  BY <1>2 DEF Typed, Turns
<1> QED BY <1>1, <1>2, <1>3 DEF Typed, Proper

-----------------------------------------------------------------------------
(* Arrivals *)

\* A request that arrives for the password or for a page loads a fair copy.
LEMMA PlainArrivals ==
    ASSUME Typed, NEW r \in Requests, NEW b \in Browsers,
           ArrivePassword(r, b) \/ ArrivePage(r, b)
    PROVE  /\ Tables'
           /\ \E q : /\ Turns(r, q) /\ q.stage \notin Accepted
                     /\ SessionsKept => Fair(q)
<1>1. left' \in [Bounded -> Nat]
  <2>1. left \in [Bounded -> Nat] /\ {"passwords", "pages"} \subseteq Bounded
    BY DEF Typed, Tables, Bounded
  <2> QED BY <2>1, SpendLeft DEF ArrivePassword, ArrivePage
<1>2. Tables'
  BY <1>1 DEF Typed, Tables, ArrivePassword, ArrivePage, sessions, operator, rates, aux
<1> DEFINE p == Arrival(b, "password")
           g == [stage |-> "page", browser |-> b, key |-> jar[b], copy |-> SessionOf(b),
                 late |-> Refused(jar[b])]
<1>3. CASE ArrivePassword(r, b)
  <2>1. p \in PlainRequests /\ p.stage = "password" /\ p.key = jar[b] /\ p.copy = SessionOf(b)
    BY Loaded DEF Arrival, PlainRequests
  <2>2. Turns(r, p) /\ p.stage \notin Accepted
    BY <1>3, <2>1 DEF ArrivePassword, Turns, Shapes, Proper, Accepted, AttemptStages, Proving
  <2>3. SessionsKept => Fair(p)
    BY <2>1, Loaded DEF Fair, AttemptStages
  <2> QED BY <1>2, <2>2, <2>3
<1>4. CASE ArrivePage(r, b)
  <2>1. /\ g \in PageRequests /\ g.stage = "page" /\ g.key = jar[b] /\ g.copy = SessionOf(b)
        /\ g.late = Refused(jar[b])
    BY Loaded DEF PageRequests, Refused
  <2>2. Turns(r, g) /\ g.stage \notin Accepted
    BY <1>4, <2>1 DEF ArrivePage, Turns, Shapes, Proper, Accepted, AttemptStages, Proving
  <2>3. SessionsKept /\ g.late => Unassuring(jar[b])
    BY <2>1 DEF SessionsKept, Refused, Saving
  <2>4. SessionsKept => Fair(g)
    BY <2>1, <2>3, Loaded DEF Fair, AttemptStages
  <2> QED BY <1>2, <2>2, <2>4
<1> QED BY <1>3, <1>4

\* So does an attempt; without a pending flow the rest of one may have to be cleared.
LEMMA AttemptArrivals ==
    ASSUME Typed, NEW r \in Requests, NEW b \in Browsers, NEW g \in Groups, NEW p \in Proofs(g),
           ArriveAttempt(r, b, g, p)
    PROVE  /\ Tables'
           /\ \E q : /\ Turns(r, q) /\ q.stage \notin Accepted
                     /\ SessionsKept => q = Idle \/ Fair(q)
<1> DEFINE d == SessionOf(b)
<1>1. left' \in [Bounded -> Nat]
  <2>1. left \in [Bounded -> Nat] /\ {"options", "attempts"} \subseteq Bounded
    BY DEF Typed, Tables, Bounded
  <2> QED BY <2>1, SpendLeft DEF ArriveAttempt
<1>2. Tables'
  BY <1>1 DEF Typed, Tables, ArriveAttempt, sessions, operator, rates, aux
<1>3. d \in Data /\ jar[b] \in RequestKeys
  BY Loaded
<1>4. p \in AllProofs /\ (g # "options" => (p \in Codes => g = "code"))
  BY Constants DEF Proofs, AllProofs, Groups
<1>5. CASE PendingValid(d)
  <2> DEFINE q == Attempt(b, g, p)
  <2>1. epoch[AddressOf[b]].id \in Nat /\ epoch[AddressOf[b]].since \in 0 .. MaxTime
    BY Constants DEF Typed, Tables
  <2>2. 0 \in 0 .. MaxTime /\ 0 \in Windows /\ "turn" \in AttemptStages
    BY Constants DEF Windows, AttemptStages
  <2>3. q \in Attempts
    BY <1>3, <1>4, <2>1, <2>2 DEF Attempt, Attempts
  <2>4. /\ q.stage = "turn" /\ q.key = jar[b] /\ q.copy = d /\ q.group = g /\ q.proof = p
    BY DEF Attempt
  <2>5. req' = [req EXCEPT ![r] = q]
    BY <1>5 DEF ArriveAttempt
  <2>6. Proper(q) /\ q.stage \notin Accepted
    BY <1>4, <2>4 DEF Proper, Proving, Accepted
  <2>7. SessionsKept => Fair(q)
    BY <1>3, <1>5, <2>4, Loaded, ApartUpdates DEF Fair, PendingValid
  <2> HIDE DEF q
  <2> QED BY <1>2, <2>3, <2>5, <2>6, <2>7 DEF Turns, Shapes
<1>6. CASE ~PendingValid(d) /\ d = Cleared(d)
  <2>1. req' = [req EXCEPT ![r] = Idle]
    BY <1>6 DEF ArriveAttempt
  <2>2. Turns(r, Idle) /\ Idle.stage \notin Accepted
    BY <2>1 DEF Turns, Shapes, Proper, Idle, AttemptStages, Proving, Accepted
  <2> QED BY <1>2, <2>2
<1>7. CASE ~PendingValid(d) /\ d # Cleared(d)
  <2> DEFINE q == [Arrival(b, "save") EXCEPT !.copy = Cleared(d)]
  <2>1. Cleared(d) \in Data /\ Cleared(d).assured = d.assured
    BY <1>3, DataUpdates
  <2>2. /\ q \in PlainRequests /\ q.stage = "save" /\ q.key = jar[b] /\ q.copy = Cleared(d)
    BY <1>3, <2>1 DEF Arrival, PlainRequests
  <2>3. req' = [req EXCEPT ![r] = q]
    BY <1>7 DEF ArriveAttempt
  <2> HIDE DEF q
  <2>4. Turns(r, q) /\ q.stage \notin Accepted
    BY <2>2, <2>3 DEF Turns, Shapes, Proper, Proving, Accepted
  <2>5. SessionsKept => Apart(Cleared(d)) /\ ~d.assured
    BY <1>3, <1>7, Loaded, ApartUpdates
  <2>6. SessionsKept => Fair(q)
    BY <2>1, <2>2, <2>5, Loaded DEF Fair
  <2> QED BY <1>2, <2>4, <2>6
<1> QED BY <1>5, <1>6, <1>7

-----------------------------------------------------------------------------
(* The steps of an attempt *)

\* What an attempt keeps to its end.
Same(q, p) == /\ q.browser = p.browser /\ q.key = p.key /\ q.copy = p.copy
              /\ q.group = p.group /\ q.proof = p.proof

Attempting == AttemptStages \ {"save"}

\* A count is a number, a window is one of those of the clock.
LEMMA Counts ==
    ASSUME Typed
    PROVE  (\A x : CountOf(x) \in Nat) /\ now \div Window \in Windows
BY Constants DEF Typed, Tables, CountOf, Windows

\* An attempt moves on; it is still a proper one.
LEMMA AttemptMoved ==
    ASSUME Typed, NEW r \in Requests, NEW q \in Attempts, q.stage \in Attempting,
           req[r].stage \in Attempting, Same(q, req[r]),
           q.stage \in Proving => q.group # "options", req' = [req EXCEPT ![r] = q]
    PROVE  Turns(r, q) /\ (Fair(req[r]) => Fair(q))
<1>1. Proper(req[r])
  BY DEF Typed
<1>2. Proper(q)
  BY <1>1 DEF Proper, Same, Attempting
<1>3. Fair(req[r]) => Fair(q)
  BY DEF Fair, Same, Attempting, AttemptStages
<1> QED BY <1>2, <1>3 DEF Turns, Shapes

\* A new stage only.
LEMMA StageMoved ==
    ASSUME NEW q \in Attempts, NEW x \in AttemptStages
    PROVE  LET p == [q EXCEPT !.stage = x]
           IN  p \in Attempts /\ p.stage = x /\ Same(p, q)
BY DEF Attempts, Same

\* Request r, an attempt, becomes q, the same attempt.
Advances(r, q) == /\ q \in Attempts /\ {q.stage, req[r].stage} \subseteq Attempting
                  /\ Same(q, req[r]) /\ Turns(r, q) /\ (Fair(req[r]) => Fair(q))

\* The row of the epoch is taken.
LEMMA TakeTurnStep ==
    ASSUME Typed, NEW r \in Requests, TakeTurn(r)
    PROVE  Tables' /\ \E q : Advances(r, q) /\ q.stage \notin Accepted
<1>1. req[r] \in Attempts /\ req[r].stage = "turn"
  BY StageShapes DEF TakeTurn, Typed, AttemptStages
<1>2. Address(r) \in Addresses /\ epoch[Address(r)].id \in Nat /\ req[r].epoch \in Nat
  BY <1>1, Constants DEF Address, Attempts, Typed, Tables
<1>3. Tables'
  BY <1>2 DEF Typed, Tables, TakeTurn, HoldEpoch, sessions, operator, bounds, aux
<1> DEFINE e == IF req[r].added THEN epoch[Address(r)].id + 1 ELSE req[r].epoch
           q == [req[r] EXCEPT !.stage = "rate", !.touched = now, !.epoch = e]
<1>4. e \in Nat /\ now \in 0 .. MaxTime
  BY <1>2 DEF Typed, Tables
<1> HIDE DEF e
<1>5. q \in Attempts /\ q.stage = "rate" /\ Same(q, req[r])
  BY <1>1, <1>4 DEF Attempts, AttemptStages, Same
<1>6. req' = [req EXCEPT ![r] = q]
  BY <1>1 DEF TakeTurn, Attempts, e
<1> HIDE DEF q
<1>7. {q.stage, req[r].stage} \subseteq Attempting /\ q.stage \notin Proving \cup Accepted
  BY <1>1, <1>5 DEF Attempting, AttemptStages, Proving, Accepted
<1> QED BY <1>3, <1>5, <1>6, <1>7, AttemptMoved DEF Advances

\* The rate is looked at.
LEMMA PrecheckStep ==
    ASSUME Typed, NEW r \in Requests, Precheck(r)
    PROVE  Tables' /\ \E q : Advances(r, q) /\ q.stage \notin Accepted
<1>1. req[r] \in Attempts /\ req[r].stage = "rate"
  BY StageShapes DEF Precheck, Typed, AttemptStages
<1>2. Tables'
  BY DEF Typed, Tables, Precheck, sessions, operator, rates, bounds, aux
<1> DEFINE n == CountOf(Counter(r))
<1>3. n + 1 \in Nat /\ now \div Window \in Windows
  BY Counts
<1>4. CASE req[r].group = "options"
  <2> DEFINE x == IF n + 1 > OptionsLimit THEN "blocked" ELSE "done"
             q == [req[r] EXCEPT !.stage = x, !.window = now \div Window, !.n = n + 1]
  <2>1. x \in Attempting \ (Proving \cup Accepted)
    BY DEF Attempting, AttemptStages, Proving, Accepted
  <2>2. req' = [req EXCEPT ![r] = q]
    BY <1>4 DEF Precheck
  <2> HIDE DEF x, n
  <2>3. q \in Attempts /\ q.stage = x /\ Same(q, req[r])
    BY <1>1, <1>3, <2>1 DEF Attempts, Same, Attempting
  <2> HIDE DEF q
  <2> QED BY <1>1, <1>2, <2>1, <2>2, <2>3, AttemptMoved DEF Advances, Attempting, AttemptStages
<1>5. CASE req[r].group # "options"
  <2> DEFINE x == IF FailsAtOnce(req[r].proof) THEN "failed"
                  ELSE IF n > Limit THEN "blocked" ELSE "verify"
             q == [req[r] EXCEPT !.stage = x]
  <2>1. x \in Attempting \ Accepted
    BY DEF Attempting, AttemptStages, Accepted
  <2>2. req' = [req EXCEPT ![r] = q]
    BY <1>5 DEF Precheck
  <2> HIDE DEF x, n
  <2>3. q \in Attempts /\ q.stage = x /\ Same(q, req[r])
    BY <1>1, <2>1, StageMoved DEF Attempting
  <2> HIDE DEF q
  <2>4. q.group # "options"
    BY <1>5, <2>3 DEF Same
  <2> QED BY <1>1, <1>2, <2>1, <2>2, <2>3, <2>4, AttemptMoved
          DEF Advances, Attempting, AttemptStages
<1> QED BY <1>4, <1>5

\* A failure is counted.
LEMMA RegisterStep ==
    ASSUME Typed, NEW r \in Requests, Register(r)
    PROVE  Tables' /\ \E q : Advances(r, q) /\ q.stage \notin Accepted
<1>1. req[r] \in Attempts /\ req[r].stage \in {"failed", "refused"}
  BY StageShapes DEF Register, Typed, AttemptStages
<1>2. Tables'
  BY DEF Typed, Tables, Register, sessions, operator, rates, bounds, aux
<1> DEFINE n == CountOf(Counter(r)) + 1
           x == IF req[r].stage = "refused" \/ n > Limit THEN "blocked" ELSE "done"
           q == [req[r] EXCEPT !.stage = x, !.window = now \div Window, !.n = n]
<1>3. n \in Nat /\ now \div Window \in Windows
  BY Counts
<1>4. x \in Attempting \ (Proving \cup Accepted)
  BY DEF Attempting, AttemptStages, Proving, Accepted
<1>5. req' = [req EXCEPT ![r] = q]
  BY <1>1 DEF Register, Attempts
<1> HIDE DEF x, n
<1>6. q \in Attempts /\ q.stage = x /\ Same(q, req[r])
  BY <1>1, <1>3, <1>4 DEF Attempts, Same, Attempting
<1> HIDE DEF q
<1> QED BY <1>1, <1>2, <1>4, <1>5, <1>6, AttemptMoved DEF Advances, Attempting, AttemptStages

\* A stage that follows another in which a proof was shown.
LEMMA ProofMoved ==
    ASSUME Typed, NEW r \in Requests, req[r].stage \in {"verify", "passed"}, NEW x \in Attempting,
           Move(r, x)
    PROVE  \E q : Advances(r, q) /\ q.stage = x
<1>1. req[r] \in Attempts
  BY StageShapes DEF Typed, AttemptStages
<1>2. req[r].group # "options"
  BY DEF Typed, Proper, Proving
<1> DEFINE q == [req[r] EXCEPT !.stage = x]
<1>3. q \in Attempts /\ q.stage = x /\ Same(q, req[r])
  BY <1>1, StageMoved DEF Attempting
<1>4. req' = [req EXCEPT ![r] = q]
  BY <1>1 DEF Move
<1> HIDE DEF q
<1>5. q.group # "options"
  BY <1>2, <1>3 DEF Same
<1> QED BY <1>1, <1>3, <1>4, <1>5, AttemptMoved DEF Advances, Attempting, AttemptStages

\* A proof is verified.
LEMMA VerifyStep ==
    ASSUME Typed, NEW r \in Requests, Verify(r)
    PROVE  /\ Tables'
           /\ \E q : /\ Advances(r, q) /\ q.stage \in {"passed", "failed", "refused", "blocked"}
                     /\ q.stage = "passed" => Right(req[r].proof)
<1>1. Tables'
  BY DEF Typed, Tables, Verify, LockRows, sessions, operator, rates, bounds
<1>2. {"passed", "failed", "refused", "blocked"} \subseteq Attempting
  BY DEF Attempting, AttemptStages
<1>3. \/ Right(req[r].proof) /\ Move(r, "passed")
      \/ Move(r, "failed") \/ Move(r, "refused") \/ Move(r, "blocked")
  BY DEF Verify
<1> QED BY <1>1, <1>2, <1>3, ProofMoved DEF Verify

\* The login of a verified proof is admitted or lost.
LEMMA CompleteStep ==
    ASSUME Typed, NEW r \in Requests, Complete(r)
    PROVE  /\ Tables'
           /\ \E q : /\ Advances(r, q) /\ q.stage \in {"admit", "lost"}
                     /\ q.stage = "admit" => MayComplete(r)
<1>1. Tables'
  BY DEF Typed, Tables, Complete, sessions, operator, rates, bounds, aux
<1>2. {"admit", "lost"} \subseteq Attempting
  BY DEF Attempting, AttemptStages
<1>3. (Move(r, "admit") /\ MayComplete(r)) \/ Move(r, "lost")
  BY DEF Complete
<1> QED BY <1>1, <1>2, <1>3, ProofMoved DEF Complete

-----------------------------------------------------------------------------
(* The ends of attempts *)

\* What a commit writes has the right shape.
LEMMA WrittenTyped ==
    ASSUME Typed, NEW r \in Requests, req[r] \in Attempts, NEW id \in Nat,
           NEW since \in 0 .. MaxTime, Written(r, id, since)
    PROVE  /\ codes' \subseteq codes
           /\ epoch' \in [Addresses -> [id : Nat, since : 0 .. MaxTime]]
           /\ \A x \in DOMAIN count' : x \in Addresses \X Nat \X Groups /\ count'[x] \in Nat
           /\ turn' \in [Addresses -> Requests \cup {NoOne}]
           /\ lock' \in Requests \cup {NoOne}
<1>1. /\ Address(r) \in Addresses /\ req[r].epoch \in Nat /\ req[r].n \in Nat
      /\ req[r].group \in Groups
  BY Constants DEF Address, Attempts
<1>2. codes' \subseteq codes
  BY DEF Written
<1>3. epoch' \in [Addresses -> [id : Nat, since : 0 .. MaxTime]]
  BY DEF Written, Typed, Tables
<1>4. \A x \in DOMAIN count' : x \in Addresses \X Nat \X Groups /\ count'[x] \in Nat
  <2> DEFINE c == Counter(r)
  <2>1. c \in Addresses \X Nat \X Groups
    BY <1>1 DEF Counter
  <2>2. count' = count \/ count' = Put(count, c, req[r].n)
    BY DEF Written
  <2> HIDE DEF c
  <2>3. \A x \in DOMAIN count : x \in Addresses \X Nat \X Groups /\ count[x] \in Nat
    BY DEF Typed, Tables
  <2>4. CASE count' = Put(count, c, req[r].n)
    <3>1. /\ DOMAIN count' = DOMAIN count \cup {c}
          /\ \A x \in DOMAIN count \cup {c} : count'[x] = IF x = c THEN req[r].n ELSE count[x]
      BY <2>4 DEF Put
    <3> QED BY <1>1, <2>1, <2>3, <3>1
  <2> QED BY <2>2, <2>3, <2>4
<1>5. turn' \in [Addresses -> Requests \cup {NoOne}]
  BY DEF Written, Typed, Tables
<1>6. lock' \in Requests \cup {NoOne}
  BY DEF Written, Typed, Tables
<1> QED BY <1>2, <1>3, <1>4, <1>5, <1>6

\* An attempt ends; only its options are left to be saved, or a flow that was aborted.
LEMMA EndAttemptStep ==
    ASSUME Typed, NEW r \in Requests, EndAttempt(r)
    PROVE  /\ Tables' /\ req[r] \in Attempts /\ req[r].stage \in {"done", "blocked", "lost"}
           /\ \E q : /\ Turns(r, q) /\ q.stage \notin Accepted
                     /\ Fair(req[r]) => q = Idle \/ Fair(q)
<1>1. req[r] \in Attempts /\ req[r].stage \in {"done", "blocked", "lost"}
  BY StageShapes DEF EndAttempt, Typed, AttemptStages
<1>2. EpochWritten(r) \in Nat /\ req[r].touched \in 0 .. MaxTime
  BY <1>1, Constants DEF EpochWritten, Attempts, Address, Typed, Tables
<1>3. Tables'
  <2>1. Written(r, EpochWritten(r), req[r].touched)
    BY DEF EndAttempt
  <2>2. UNCHANGED <<now, rows, jar, flows, admitted, left, role, factors, logins>>
    BY DEF EndAttempt, sessions, bounds
  <2>3. /\ codes' \subseteq codes
        /\ epoch' \in [Addresses -> [id : Nat, since : 0 .. MaxTime]]
        /\ \A x \in DOMAIN count' : x \in Addresses \X Nat \X Groups /\ count'[x] \in Nat
        /\ turn' \in [Addresses -> Requests \cup {NoOne}]
        /\ lock' \in Requests \cup {NoOne}
    BY <1>1, <1>2, <2>1, WrittenTyped
  <2> QED BY <2>2, <2>3 DEF Typed, Tables
<1>4. req[r] # Idle /\ req[r] \in Shapes /\ req[r].copy \in Data
  BY <1>1 DEF Idle, Typed, Attempts
<1>5. CASE Leave(r, Aborted(req[r].copy)) \/ Leave(r, req[r].copy)
  <2>1. PICK d \in {Aborted(req[r].copy), req[r].copy} : Leave(r, d)
    BY <1>5
  <2>2. d \in Data
    BY <1>4, DataUpdates DEF Aborted
  <2>3. PICK q \in Shapes :
           /\ req' = [req EXCEPT ![r] = q]
           /\ \/ q = Idle /\ (d = req[r].copy \/ req[r].key = NoKey)
              \/ q.stage = "save" /\ q.copy = d /\ q.key = req[r].key /\ q # Idle
    BY <1>4, <2>1, <2>2, LeaveShape DEF Typed
  <2>4. Turns(r, q) /\ q.stage \notin Accepted
    BY <2>3 DEF Turns, Proper, Idle, AttemptStages, Proving, Accepted
  <2>5. ASSUME Fair(req[r]), q # Idle PROVE Fair(q)
    <3>1. Apart(d)
      BY <1>4, <2>5, ApartUpdates DEF Fair, Aborted
    <3>2. ~d.assured
      BY <1>1, <1>4, <2>5, DataUpdates DEF Fair, Aborted, AttemptStages
    <3> QED BY <2>3, <2>5, <3>1, <3>2 DEF Fair
  <2> QED BY <1>1, <1>3, <2>4, <2>5
<1>6. CASE Move(r, "save")
  <2> DEFINE q == [req[r] EXCEPT !.stage = "save"]
  <2>1. q \in Attempts /\ q.stage = "save" /\ Same(q, req[r])
    BY <1>1, StageMoved DEF AttemptStages
  <2>2. req' = [req EXCEPT ![r] = q]
    BY <1>6 DEF Move
  <2> HIDE DEF q
  <2>3. Turns(r, q) /\ q.stage \notin Accepted
    BY <2>1, <2>2 DEF Turns, Shapes, Proper, AttemptStages, Proving, Accepted
  <2>4. Fair(req[r]) => Fair(q)
    BY <1>1, <2>1 DEF Fair, Same, AttemptStages
  <2> QED BY <1>1, <1>3, <2>3, <2>4
<1>7. Leave(r, Aborted(req[r].copy)) \/ Leave(r, req[r].copy) \/ Move(r, "save")
  BY DEF EndAttempt
<1> QED BY <1>5, <1>6, <1>7

\* A login makes the next key of its kind.
LEMMA AdmitStep ==
    ASSUME Typed, NEW r \in Requests, Admit(r)
    PROVE  /\ Tables' /\ req[r] \in Attempts /\ Turns(r, Idle)
           /\ <<"login", admitted + 1>> \in Keys
<1> DEFINE key == <<"login", admitted + 1>>
<1>1. req[r] \in Attempts
  BY StageShapes DEF Admit, Typed, AttemptStages
<1>2. epoch[Address(r)].id + 1 \in Nat /\ now \in 0 .. MaxTime /\ req[r].browser \in Browsers
  BY <1>1, Constants DEF Attempts, Address, Typed, Tables
<1>3. key \in Keys /\ admitted' \in 0 .. NumLogins
  BY Constants DEF Admit, Keys, Typed, Tables
<1>4. DOMAIN rows' \subseteq Keys /\ \A k \in DOMAIN rows' : rows'[k] \in Data
  <2>1. rows' = Put(Without(rows, req[r].key), key, Assured) /\ Assured \in Data
    BY NewSessions DEF Admit
  <2> HIDE DEF key
  <2>2. /\ DOMAIN rows' = (DOMAIN rows \ {req[r].key}) \cup {key}
        /\ \A k \in DOMAIN rows' : rows'[k] = IF k = key THEN Assured ELSE rows[k]
    BY <2>1, RowReplaced
  <2> QED BY <1>3, <2>1, <2>2 DEF Typed, Tables
<1>5. jar' \in [Browsers -> RequestKeys]
  BY <1>2, <1>3 DEF Admit, Typed, Tables, RequestKeys
<1>6. logins' \in [Codes -> Nat]
  BY DEF Admit, Typed, Tables
<1>7. Tables'
  <2>1. Written(r, epoch[Address(r)].id + 1, now)
    BY DEF Admit
  <2>2. UNCHANGED <<now, flows, left, role, factors>>
    BY DEF Admit
  <2>3. /\ codes' \subseteq codes
        /\ epoch' \in [Addresses -> [id : Nat, since : 0 .. MaxTime]]
        /\ \A x \in DOMAIN count' : x \in Addresses \X Nat \X Groups /\ count'[x] \in Nat
        /\ turn' \in [Addresses -> Requests \cup {NoOne}]
        /\ lock' \in Requests \cup {NoOne}
    BY <1>1, <1>2, <2>1, WrittenTyped
  <2> QED BY <1>3, <1>4, <1>5, <1>6, <2>2, <2>3 DEF Typed, Tables
<1>8. Turns(r, Idle)
  BY DEF Admit, Turns, Shapes, Proper, Idle, AttemptStages, Proving
<1> QED BY <1>1, <1>3, <1>7, <1>8

-----------------------------------------------------------------------------
(* Password, page, save *)

\* A password begins a flow under the next key of its kind, or loses what the session had.
LEMMA PasswordStep ==
    ASSUME Typed, NEW r \in Requests, Password(r)
    PROVE  /\ Tables' /\ req[r].stage = "password" /\ req[r].browser \in Browsers
           /\ \E q : /\ Turns(r, q) /\ q.stage \notin Accepted
                     /\ \/ /\ q = Idle /\ flows' = flows + 1
                           /\ <<"flow", flows + 1>> \in Keys /\ flows + 1 \in Flows
                           /\ rows' = Put(Without(rows, req[r].key), <<"flow", flows + 1>>,
                                          Pending(flows + 1))
                           /\ jar' = [jar EXCEPT ![req[r].browser] = <<"flow", flows + 1>>]
                        \/ /\ UNCHANGED <<flows, jar>>
                           /\ rows' \in {rows, Without(rows, req[r].key)}
                           /\ Fair(req[r]) => q = Idle \/ Fair(q)
<1> DEFINE d == req[r].copy
           key == <<"flow", flows + 1>>
<1>1. req[r] \in PlainRequests /\ req[r].stage = "password"
  BY StageShapes DEF Password, Typed
<1>2. d \in Data /\ req[r] # Idle /\ req[r] \in Shapes /\ req[r].browser \in Browsers
  BY <1>1 DEF PlainRequests, Idle, Shapes
<1>3. Turns(r, Idle) <=> req' = [req EXCEPT ![r] = Idle]
  BY DEF Turns, Shapes, Proper, Idle, AttemptStages, Proving
<1>4. Idle.stage \notin Accepted
  BY DEF Idle, Accepted
<1>5. UNCHANGED <<now, role, factors, codes, epoch, count, turn, lock, admitted, left, logins>>
  BY DEF Password, operator, rates, aux
<1>6. CASE /\ flows < NumFlows /\ flows' = flows + 1
           /\ rows' = Put(Without(rows, req[r].key), key, Pending(flows + 1))
           /\ jar' = [jar EXCEPT ![req[r].browser] = key]
           /\ req' = [req EXCEPT ![r] = Idle]
  <2>1. key \in Keys /\ flows + 1 \in Flows /\ flows' \in 0 .. NumFlows
    BY <1>6, Constants DEF Keys, Flows, Typed, Tables
  <2>2. Pending(flows + 1) \in Data
    BY <2>1, NewSessions
  <2> HIDE DEF key
  <2>3. DOMAIN rows' \subseteq Keys /\ \A k \in DOMAIN rows' : rows'[k] \in Data
    <3>1. /\ DOMAIN rows' = (DOMAIN rows \ {req[r].key}) \cup {key}
          /\ \A k \in DOMAIN rows' : rows'[k] = IF k = key THEN Pending(flows + 1) ELSE rows[k]
      BY <1>6, RowReplaced
    <3> QED BY <2>1, <2>2, <3>1 DEF Typed, Tables
  <2>4. jar' \in [Browsers -> RequestKeys]
    BY <1>2, <1>6, <2>1 DEF Typed, Tables, RequestKeys
  <2>5. Tables'
    BY <1>5, <2>1, <2>3, <2>4 DEF Typed, Tables
  <2> QED BY <1>1, <1>2, <1>3, <1>4, <1>6, <2>1, <2>5 DEF key
<1>7. CASE /\ rows' \in {rows, Without(rows, req[r].key)} /\ UNCHANGED <<jar, flows>>
           /\ req' = [req EXCEPT ![r] = Idle] \/ Leave(r, ClearedAll(d))
  <2>1. DOMAIN rows' \subseteq Keys /\ \A k \in DOMAIN rows' : rows'[k] \in Data
    BY <1>7, RowRemoved DEF Typed, Tables
  <2>2. Tables'
    BY <1>5, <1>7, <2>1 DEF Typed, Tables
  <2>3. CASE req' = [req EXCEPT ![r] = Idle]
    BY <1>1, <1>2, <1>3, <1>4, <1>7, <2>2, <2>3
  <2>4. CASE Leave(r, ClearedAll(d))
    <3> DEFINE c == ClearedAll(d)
    <3>1. c \in Data /\ ~c.assured /\ (Apart(d) => Apart(c))
      BY <1>2, DataUpdates, ApartUpdates
    <3> HIDE DEF c
    <3>2. Leave(r, c)
      BY <2>4 DEF c
    <3>3. PICK q \in Shapes :
             /\ req' = [req EXCEPT ![r] = q]
             /\ \/ q = Idle /\ (c = req[r].copy \/ req[r].key = NoKey)
                \/ q.stage = "save" /\ q.copy = c /\ q.key = req[r].key /\ q # Idle
      BY <1>2, <3>1, <3>2, LeaveShape DEF Typed
    <3>4. Turns(r, q) /\ q.stage \notin Accepted
      BY <3>3 DEF Turns, Proper, Idle, AttemptStages, Proving, Accepted
    <3>5. Fair(req[r]) => q = Idle \/ Fair(q)
      BY <3>1, <3>3 DEF Fair
    <3> QED BY <1>1, <1>2, <1>7, <2>2, <3>4, <3>5
  <2> QED BY <1>7, <2>3, <2>4
<1>8. \/ /\ flows < NumFlows /\ flows' = flows + 1
         /\ rows' = Put(Without(rows, req[r].key), key, Pending(flows + 1))
         /\ jar' = [jar EXCEPT ![req[r].browser] = key]
         /\ req' = [req EXCEPT ![r] = Idle]
      \/ /\ rows' \in {rows, Without(rows, req[r].key)} /\ UNCHANGED <<jar, flows>>
         /\ req' = [req EXCEPT ![r] = Idle] \/ Leave(r, ClearedAll(d))
  BY DEF Password
<1> QED BY <1>6, <1>7, <1>8

\* A page is refused, with or without the end of the session, or shown.
LEMMA PageStep ==
    ASSUME Typed, NEW r \in Requests, Page(r)
    PROVE  /\ Tables' /\ req[r].stage = "page"
           /\ \E q : /\ Turns(r, q) /\ q.stage \notin Accepted
                     /\ rows' \in {rows, Without(rows, req[r].key)}
                     /\ Fair(req[r]) =>
                           /\ q = Idle \/ Fair(q)
                           /\ reopened' = reopened
                           /\ \/ barred' = barred
                              \/ /\ barred' = barred \cup {req[r].key} /\ req[r].key # NoKey
                                 /\ \/ q.stage = "save" /\ q.key = req[r].key
                                    \/ req[r].key \notin DOMAIN rows'
                                    \/ rows' = rows /\ Unassuring(req[r].key)
<1> DEFINE d == req[r].copy
           key == req[r].key
<1>1. req[r] \in PageRequests /\ req[r].stage = "page"
  BY StageShapes DEF Page, Typed
<1>2. d \in Data /\ req[r] # Idle /\ req[r] \in Shapes
  BY <1>1 DEF PageRequests, Idle, Shapes
<1>3. rows' \in {rows, Without(rows, key)}
  BY DEF Page
<1>4. Tables'
  <2>1. DOMAIN rows' \subseteq Keys /\ \A k \in DOMAIN rows' : rows'[k] \in Data
    BY <1>3, RowRemoved DEF Typed, Tables
  <2> QED BY <2>1 DEF Typed, Tables, Page, operator, rates, bounds
<1>5. Turns(r, Idle) <=> req' = [req EXCEPT ![r] = Idle]
  BY DEF Turns, Shapes, Proper, Idle, AttemptStages, Proving
<1>6. Idle.stage \notin Accepted
  BY DEF Idle, Accepted
<1>7. CASE /\ Leave(r, Unassured(d)) /\ UNCHANGED <<rows, reopened>>
           /\ barred' = IF d.user THEN barred \cup {key} ELSE barred
  <2>1. PICK q \in Shapes :
           /\ req' = [req EXCEPT ![r] = q]
           /\ \/ q = Idle /\ (Unassured(d) = d \/ key = NoKey)
              \/ q.stage = "save" /\ q.copy = Unassured(d) /\ q.key = key
    BY <1>2, <1>7, LeaveShape, DataUpdates DEF Typed
  <2>2. Turns(r, q) /\ q.stage \notin Accepted
    BY <2>1 DEF Turns, Proper, Idle, AttemptStages, Proving, Accepted
  <2>3. ~Unassured(d).assured
    BY <1>2, DataUpdates
  <2>4. ASSUME Fair(req[r]) PROVE q = Idle \/ Fair(q)
    BY <1>1, <1>2, <2>1, <2>3, <2>4, ApartUpdates DEF Fair
  <2>5. CASE d.user
    <3>1. barred' = barred \cup {key}
      BY <1>7, <2>5
    <3>2. ASSUME Fair(req[r])
          PROVE  /\ key # NoKey
                 /\ (q.stage = "save" /\ q.key = key) \/ Unassuring(key)
      BY <1>1, <1>2, <2>1, <2>3, <2>5, <3>2 DEF Fair
    <3> QED BY <1>1, <1>3, <1>4, <1>7, <2>2, <2>4, <3>1, <3>2
  <2>6. CASE ~d.user
    BY <1>1, <1>4, <1>7, <2>2, <2>4, <2>6
  <2> QED BY <2>5, <2>6
<1>8. CASE /\ d.user /\ rows' = Without(rows, key) /\ req' = [req EXCEPT ![r] = Idle]
           /\ barred' = barred \cup {key} /\ UNCHANGED reopened
  <2>1. key \notin DOMAIN rows'
    BY <1>8, RowRemoved
  <2>2. Fair(req[r]) => key # NoKey
    BY <1>1, <1>8 DEF Fair
  <2> QED BY <1>1, <1>4, <1>5, <1>6, <1>8, <2>1, <2>2
<1>9. CASE /\ Verified(d) /\ req' = [req EXCEPT ![r] = Idle] /\ UNCHANGED <<rows, barred>>
           /\ reopened' = IF req[r].late THEN reopened \cup {key} ELSE reopened
  <2>1. Fair(req[r]) => ~req[r].late
    BY <1>1, <1>9 DEF Fair, Verified
  <2> QED BY <1>1, <1>4, <1>5, <1>6, <1>9, <2>1
<1> QED BY <1>7, <1>8, <1>9 DEF Page, MayEnter

\* A session is saved over its row.
LEMMA SaveStep ==
    ASSUME Typed, NEW r \in Requests, Save(r)
    PROVE  /\ Tables' /\ Turns(r, Idle) /\ req[r].stage = "save"
           /\ DOMAIN rows' = DOMAIN rows
           /\ \A k \in DOMAIN rows : rows'[k] = IF k = req[r].key THEN req[r].copy ELSE rows[k]
<1>1. req[r].copy \in Data /\ req[r].stage = "save"
  BY StageShapes DEF Save, Typed, Idle
<1>2. /\ DOMAIN rows' = DOMAIN rows
      /\ \A k \in DOMAIN rows : rows'[k] = IF k = req[r].key THEN req[r].copy ELSE rows[k]
  BY DEF Save
<1>3. Tables'
  BY <1>1, <1>2 DEF Typed, Tables, Save, operator, rates, bounds, aux
<1>4. Turns(r, Idle)
  BY DEF Save, Turns, Shapes, Proper, Idle, AttemptStages, Proving
<1> QED BY <1>1, <1>2, <1>3, <1>4

-----------------------------------------------------------------------------
(* The shapes are kept *)

\* What no request does: logout, changes of the operator, time.
Around == \/ \E b \in Browsers : Logout(b)
          \/ \E f \in Factors : RemoveFactor(f)
          \/ ChangeRole \/ Tick \/ Rest

\* Logouts, changes and ticks keep the shapes and touch no request.
LEMMA AroundTyped ==
    ASSUME Typed, Around
    PROVE  Typed' /\ UNCHANGED req
<1>1. {"pages", "changes", "ticks"} \subseteq Bounded /\ left \in [Bounded -> Nat]
  BY DEF Bounded, Typed, Tables
<1>2. CASE \E b \in Browsers : Logout(b)
  <2>1. PICK b \in Browsers : Logout(b)
    BY <1>2
  <2>2. left' \in [Bounded -> Nat]
    BY <1>1, <2>1, SpendLeft DEF Logout
  <2>3. rows' = Without(rows, jar[b])
    BY <2>1 DEF Logout
  <2>4. DOMAIN rows' \subseteq Keys /\ \A k \in DOMAIN rows' : rows'[k] \in Data
    BY <2>3, RowRemoved DEF Typed, Tables
  <2> QED BY <2>1, <2>2, <2>4 DEF Logout, Typed, Tables, Proper, operator, rates, aux
<1>3. CASE \E f \in Factors : RemoveFactor(f)
  <2>1. left' \in [Bounded -> Nat]
    BY <1>1, <1>3, SpendLeft DEF RemoveFactor
  <2> QED BY <1>3, <2>1 DEF RemoveFactor, Typed, Tables, Proper, sessions, rates, aux
<1>4. CASE ChangeRole
  <2>1. left' \in [Bounded -> Nat]
    BY <1>1, <1>4, SpendLeft DEF ChangeRole
  <2> QED BY <1>4, <2>1 DEF ChangeRole, Typed, Tables, Proper, sessions, rates, aux
<1>5. CASE Tick
  <2>1. left' \in [Bounded -> Nat]
    BY <1>1, <1>5, SpendLeft DEF Tick
  <2>2. now' \in 0 .. MaxTime
    BY <1>5, Constants DEF Tick, Typed, Tables
  <2>3. \A x \in DOMAIN count' : x \in Addresses \X Nat \X Groups /\ count'[x] \in Nat
    BY <1>5 DEF Tick, Typed, Tables
  <2> QED BY <1>5, <2>1, <2>2, <2>3 DEF Tick, Typed, Tables, Proper, sessions, operator
<1>6. CASE Rest
  BY <1>6 DEF Rest, vars, Typed, Tables, Proper
<1> QED BY <1>2, <1>3, <1>4, <1>5, <1>6 DEF Around

\* The steps of requests, one at a time.
Doing(r) == \/ Step(r)
            \/ \E b \in Browsers : Arrive(r, b)

\* A step is one of a request or one around them.
LEMMA NextParts == Next <=> (\E r \in Requests : Doing(r)) \/ Around
BY DEF Next, Doing, Around

\* Every step of a request changes that request alone, and the tables keep their shapes.
LEMMA DoingTyped ==
    ASSUME Typed, NEW r \in Requests, Doing(r)
    PROVE  Typed' /\ \A s \in Requests \ {r} : req'[s] = req[s]
<1>1. Tables' /\ \E q : Turns(r, q)
  <2>1. CASE \E b \in Browsers : Arrive(r, b)
    <3>1. PICK b \in Browsers : Arrive(r, b)
      BY <2>1
    <3>2. CASE ArrivePassword(r, b) \/ ArrivePage(r, b)
      BY <3>2, PlainArrivals
    <3>3. CASE \E g \in Groups : \E p \in Proofs(g) : ArriveAttempt(r, b, g, p)
      BY <3>3, AttemptArrivals
    <3> QED BY <3>1, <3>2, <3>3 DEF Arrive
  <2>2. CASE Password(r)
    BY <2>2, PasswordStep
  <2>3. CASE Page(r)
    BY <2>3, PageStep
  <2>4. CASE Save(r)
    BY <2>4, SaveStep
  <2>5. CASE TakeTurn(r)
    BY <2>5, TakeTurnStep DEF Advances
  <2>6. CASE Precheck(r)
    BY <2>6, PrecheckStep DEF Advances
  <2>7. CASE Register(r)
    BY <2>7, RegisterStep DEF Advances
  <2>8. CASE Verify(r)
    BY <2>8, VerifyStep DEF Advances
  <2>9. CASE Complete(r)
    BY <2>9, CompleteStep DEF Advances
  <2>10. CASE EndAttempt(r)
    BY <2>10, EndAttemptStep
  <2>11. CASE Admit(r)
    BY <2>11, AdmitStep
  <2> QED BY <2>1, <2>2, <2>3, <2>4, <2>5, <2>6, <2>7, <2>8, <2>9, <2>10, <2>11 DEF Doing, Step
<1> QED BY <1>1, TypedStep

\* Every step keeps the shapes.
LEMMA TypedNext == Typed /\ [Next]_vars => Typed'
<1> SUFFICES ASSUME Typed, [Next]_vars PROVE Typed'
  OBVIOUS
<1>1. CASE Next
  BY <1>1, NextParts, DoingTyped, AroundTyped
<1>2. CASE UNCHANGED vars
  BY <1>2 DEF vars, Typed, Tables, Proper
<1> QED BY <1>1, <1>2

-----------------------------------------------------------------------------
(* What the locks protect *)

\* A step that touches neither the locks nor the codes and ends in no accepted stage.
LEMMA QuietCodes ==
    ASSUME Typed, CodesHeld, UNCHANGED <<lock, codes, factors, logins>>,
           NEW r \in Requests, NEW q, Turns(r, q), q.stage \notin Accepted
    PROVE  CodesHeld'
<1>1. req'[r] = q /\ \A s \in Requests \ {r} : req'[s] = req[s]
  BY DEF Turns, Typed
<1>2. \A s \in Requests : Holding(s)' => Holding(s) /\ s # r
  BY <1>1 DEF Holding
<1>3. \A s \in Requests : req'[s].stage \in {"passed", "admit"} => s # r
  BY <1>1 DEF Accepted
<1> QED BY <1>1, <1>2, <1>3 DEF CodesHeld, FactorOf

\* An accepted code is a code of the group that takes the locks.
LEMMA CodeGroup ==
    ASSUME Typed, NEW r \in Requests, req[r].stage \in Attempting, req[r].proof \in Codes,
           req[r].stage \in Proving
    PROVE  req[r].group = "code"
BY DEF Typed, Proper, Attempting

\* Only one request may hold the rows.
LEMMA VerifyCodes ==
    ASSUME Typed, CodesHeld, NEW r \in Requests, Verify(r)
    PROVE  CodesHeld'
<1>1. PICK q : /\ Advances(r, q) /\ q.stage \in {"passed", "failed", "refused", "blocked"}
               /\ q.stage = "passed" => Right(req[r].proof)
  BY VerifyStep
<1>2. req'[r] = q /\ \A s \in Requests \ {r} : req'[s] = req[s]
  BY <1>1 DEF Advances, Turns, Typed
<1>3. UNCHANGED <<codes, factors, logins>> /\ q.group = req[r].group /\ q.proof = req[r].proof
  BY <1>1 DEF Verify, operator, Advances, Same
<1>4. CASE req[r].group = "code"
  <2>1. lock = NoOne /\ lock' = r
    BY <1>4 DEF Verify, LockRows
  <2>2. \A s \in Requests : ~Holding(s)
    BY <2>1, Constants DEF CodesHeld
  <2>3. \A s \in Requests \ {r} : ~Holding(s)'
    BY <1>2, <2>2 DEF Holding
  <2>4. \A s \in Requests \ {r} :
            req[s].stage \in {"passed", "admit"} => req[s].proof \notin Codes
    BY <2>2, CodeGroup DEF Holding, Accepted, Attempting, AttemptStages, Proving
  <2>5. q.stage \in {"passed", "admit"} /\ q.proof \in Codes
           => q.proof \in codes /\ FactorOf(q.proof) \in factors
    BY <1>1, <1>3, Constants DEF Right
  <2> QED BY <1>2, <1>3, <2>1, <2>3, <2>4, <2>5 DEF CodesHeld, FactorOf
<1>5. CASE req[r].group # "code"
  <2>1. UNCHANGED lock
    BY <1>5 DEF Verify, LockRows
  <2>2. req[r].proof \notin Codes
    BY <1>5, CodeGroup DEF Verify, Attempting, AttemptStages, Proving
  <2> QED BY <1>2, <1>3, <1>5, <2>1, <2>2 DEF CodesHeld, Holding, FactorOf
<1> QED BY <1>4, <1>5

\* The rows stay locked from the verification to the commit.
LEMMA CompleteCodes ==
    ASSUME Typed, CodesHeld, NEW r \in Requests, Complete(r)
    PROVE  CodesHeld'
<1>1. PICK q : Advances(r, q) /\ q.stage \in {"admit", "lost"}
  BY CompleteStep
<1>2. req'[r] = q /\ \A s \in Requests \ {r} : req'[s] = req[s]
  BY <1>1 DEF Advances, Turns, Typed
<1>3. /\ UNCHANGED <<lock, codes, factors, logins>> /\ q.group = req[r].group
      /\ q.proof = req[r].proof /\ req[r].stage = "passed"
  BY <1>1 DEF Complete, operator, aux, Advances, Same
<1> QED BY <1>1, <1>2, <1>3 DEF CodesHeld, Holding, Accepted, FactorOf

\* Two accepted codes at a time would need the rows twice.
LEMMA OneHolder ==
    ASSUME Typed, CodesHeld, NEW r \in Requests, NEW s \in Requests, r # s,
           req[r].stage \in Accepted, req[r].proof \in Codes,
           req[s].stage \in Accepted
    PROVE  req[s].proof \notin Codes
<1>1. Accepted \subseteq Attempting /\ Accepted \subseteq Proving
  BY DEF Accepted, Attempting, AttemptStages, Proving
<1>2. req[r].group = "code" /\ (req[s].proof \in Codes => req[s].group = "code")
  BY <1>1, CodeGroup
<1> QED BY <1>2 DEF CodesHeld, Holding

\* The end of an attempt releases its own locks and uses its own code up.
LEMMA EndAttemptCodes ==
    ASSUME Typed, CodesHeld, NEW r \in Requests, EndAttempt(r)
    PROVE  CodesHeld'
<1>1. PICK q : Turns(r, q) /\ q.stage \notin Accepted
  BY EndAttemptStep
<1>2. req'[r] = q /\ \A s \in Requests \ {r} : req'[s] = req[s]
  BY <1>1 DEF Turns, Typed
<1>3. /\ UNCHANGED <<factors, logins>>
      /\ lock' = IF lock = r THEN NoOne ELSE lock
      /\ codes' = codes \/ (codes' = codes \ {req[r].proof} /\ req[r].stage \in Accepted)
  BY DEF EndAttempt, Written, Accepted
<1>4. \A s \in Requests : Holding(s)' => s # r /\ lock' = s
  BY <1>1, <1>2, <1>3 DEF CodesHeld, Holding
<1>5. \A s \in Requests : req'[s].stage \in {"passed", "admit"} /\ req'[s].proof \in Codes
          => req'[s].proof \in codes' /\ FactorOf(req'[s].proof) \in factors'
  <2> SUFFICES ASSUME NEW s \in Requests, req'[s].stage \in {"passed", "admit"},
                      req'[s].proof \in Codes
               PROVE  req'[s].proof \in codes' /\ FactorOf(req'[s].proof) \in factors'
    OBVIOUS
  <2>1. s # r /\ req'[s] = req[s]
    BY <1>1, <1>2 DEF Accepted
  <2>2. req[s].proof \in codes /\ FactorOf(req[s].proof) \in factors
    BY <2>1 DEF CodesHeld
  <2>3. req[s].proof \in codes'
    <3>1. CASE codes' = codes
      BY <2>2, <3>1
    <3>2. CASE codes' = codes \ {req[r].proof} /\ req[r].stage \in Accepted
      <4>1. req[s].proof # req[r].proof
        BY <2>1, <3>2, OneHolder DEF Accepted
      <4> QED BY <2>2, <3>2, <4>1
    <3> QED BY <1>3, <3>1, <3>2
  <2> QED BY <1>3, <2>1, <2>2, <2>3 DEF FactorOf
<1>6. \A c \in Codes : logins'[c] <= 1 /\ (c \in codes' => logins'[c] = 0)
  BY <1>3 DEF CodesHeld
<1> QED BY <1>4, <1>5, <1>6 DEF CodesHeld

\* A login counts for a code that had not logged in and is used up.
LEMMA AdmitCodes ==
    ASSUME Typed, CodesHeld, NEW r \in Requests, Admit(r)
    PROVE  CodesHeld'
<1>1. req' = [req EXCEPT ![r] = Idle] /\ req[r].stage = "admit"
  BY DEF Admit
<1>2. req'[r] = Idle /\ \A s \in Requests \ {r} : req'[s] = req[s]
  BY <1>1 DEF Typed
<1>3. /\ UNCHANGED factors
      /\ lock' = IF lock = r THEN NoOne ELSE lock
      /\ codes' = codes \ {req[r].proof}
      /\ logins' = IF req[r].proof \in Codes THEN [logins EXCEPT ![req[r].proof] = @ + 1]
                   ELSE logins
  BY DEF Admit, Written
<1>4. \A s \in Requests : Holding(s)' => s # r /\ lock' = s
  BY <1>2, <1>3 DEF CodesHeld, Holding, Idle, Accepted
<1>5. \A s \in Requests : req'[s].stage \in {"passed", "admit"} /\ req'[s].proof \in Codes
          => req'[s].proof \in codes' /\ FactorOf(req'[s].proof) \in factors'
  <2> SUFFICES ASSUME NEW s \in Requests, req'[s].stage \in {"passed", "admit"},
                      req'[s].proof \in Codes
               PROVE  req'[s].proof \in codes' /\ FactorOf(req'[s].proof) \in factors'
    OBVIOUS
  <2>1. s # r /\ req'[s] = req[s]
    BY <1>2 DEF Idle
  <2>2. req[s].proof \in codes /\ FactorOf(req[s].proof) \in factors
    BY <2>1 DEF CodesHeld
  <2>3. req[s].proof # req[r].proof
    BY <1>1, <2>1, OneHolder DEF Accepted
  <2> QED BY <1>3, <2>1, <2>2, <2>3 DEF FactorOf
<1>6. \A c \in Codes : logins'[c] <= 1 /\ (c \in codes' => logins'[c] = 0)
  <2> SUFFICES ASSUME NEW c \in Codes
               PROVE  logins'[c] <= 1 /\ (c \in codes' => logins'[c] = 0)
    OBVIOUS
  <2>1. logins \in [Codes -> Nat]
    BY DEF Typed, Tables
  <2>2. CASE c = req[r].proof
    <3>1. logins[c] = 0
      BY <1>1, <2>2 DEF CodesHeld
    <3> QED BY <1>3, <2>1, <2>2, <3>1
  <2>3. CASE c # req[r].proof
    BY <1>3, <2>1, <2>3 DEF CodesHeld
  <2> QED BY <2>2, <2>3
<1> QED BY <1>4, <1>5, <1>6 DEF CodesHeld

\* A code authenticator is not removed while its row is locked; a passkey is no code.
LEMMA RemovalCodes ==
    ASSUME Typed, CodesHeld, NEW f \in Factors, RemoveFactor(f)
    PROVE  CodesHeld'
<1>1. UNCHANGED <<lock, codes, logins, req>> /\ factors' = factors \ {f}
  BY DEF RemoveFactor, aux
<1>2. \A c \in Codes : FactorOf(c) # "webauthn"
  BY DEF Codes, FactorOf
<1>3. CASE f = "webauthn"
  BY <1>1, <1>2, <1>3 DEF CodesHeld, Holding, FactorOf
<1>4. CASE lock = NoOne
  <2>1. \A s \in Requests : ~Holding(s)
    BY <1>4, Constants DEF CodesHeld
  <2>2. \A s \in Requests : req[s].stage \in {"passed", "admit"} => req[s].proof \notin Codes
    BY <2>1, CodeGroup DEF Holding, Accepted, Attempting, AttemptStages, Proving
  <2>3. \A s \in Requests : ~Holding(s)'
    BY <1>1, <2>1 DEF Holding
  <2>4. \A c \in Codes : logins'[c] <= 1 /\ (c \in codes' => logins'[c] = 0)
    BY <1>1 DEF CodesHeld
  <2>5. \A s \in Requests : req'[s].stage \in {"passed", "admit"} => req'[s].proof \notin Codes
    BY <1>1, <2>2
  <2> QED BY <2>3, <2>4, <2>5 DEF CodesHeld, Holding
<1> QED BY <1>3, <1>4 DEF RemoveFactor

\* Every step of a request keeps what the locks protect.
LEMMA DoingCodes ==
    ASSUME Typed, CodesHeld, NEW r \in Requests, Doing(r)
    PROVE  CodesHeld'
<1>1. CASE \E b \in Browsers : Arrive(r, b)
  <2>1. PICK b \in Browsers : Arrive(r, b)
    BY <1>1
  <2>2. CASE ArrivePassword(r, b) \/ ArrivePage(r, b)
    <3>1. UNCHANGED <<lock, codes, factors, logins>>
      BY <2>2 DEF ArrivePassword, ArrivePage, operator, aux
    <3> QED BY <2>2, <3>1, PlainArrivals, QuietCodes
  <2>3. CASE \E g \in Groups : \E p \in Proofs(g) : ArriveAttempt(r, b, g, p)
    <3>1. UNCHANGED <<lock, codes, factors, logins>>
      BY <2>3 DEF ArriveAttempt, operator, aux
    <3> QED BY <2>3, <3>1, AttemptArrivals, QuietCodes
  <2> QED BY <2>1, <2>2, <2>3 DEF Arrive
<1>2. CASE Password(r)
  <2>1. UNCHANGED <<lock, codes, factors, logins>>
    BY <1>2 DEF Password, operator, aux
  <2> QED BY <1>2, <2>1, PasswordStep, QuietCodes
<1>3. CASE Page(r)
  <2>1. UNCHANGED <<lock, codes, factors, logins>>
    BY <1>3 DEF Page, operator
  <2> QED BY <1>3, <2>1, PageStep, QuietCodes
<1>4. CASE Save(r)
  <2>1. UNCHANGED <<lock, codes, factors, logins>> /\ Idle.stage \notin Accepted
    BY <1>4 DEF Save, operator, aux, Idle, Accepted
  <2> QED BY <1>4, <2>1, SaveStep, QuietCodes
<1>5. CASE TakeTurn(r)
  <2>1. UNCHANGED <<lock, codes, factors, logins>>
    BY <1>5 DEF TakeTurn, operator, aux
  <2> QED BY <1>5, <2>1, TakeTurnStep, QuietCodes DEF Advances
<1>6. CASE Precheck(r)
  <2>1. UNCHANGED <<lock, codes, factors, logins>>
    BY <1>6 DEF Precheck, operator, aux
  <2> QED BY <1>6, <2>1, PrecheckStep, QuietCodes DEF Advances
<1>7. CASE Register(r)
  <2>1. UNCHANGED <<lock, codes, factors, logins>>
    BY <1>7 DEF Register, operator, aux
  <2> QED BY <1>7, <2>1, RegisterStep, QuietCodes DEF Advances
<1> QED BY <1>1, <1>2, <1>3, <1>4, <1>5, <1>6, <1>7, VerifyCodes, CompleteCodes,
           EndAttemptCodes, AdmitCodes
        DEF Doing, Step

\* So does every step.
LEMMA CodesNext == Typed /\ CodesHeld /\ [Next]_vars => CodesHeld'
<1> SUFFICES ASSUME Typed, CodesHeld, [Next]_vars PROVE CodesHeld'
  OBVIOUS
<1>1. CASE \E r \in Requests : Doing(r)
  BY <1>1, DoingCodes
<1>2. CASE \E f \in Factors : RemoveFactor(f)
  BY <1>2, RemovalCodes
<1>3. CASE (\E b \in Browsers : Logout(b)) \/ ChangeRole \/ Tick \/ Rest \/ UNCHANGED vars
  <2>1. UNCHANGED <<lock, codes, factors, logins, req>>
    BY <1>3 DEF Logout, ChangeRole, Tick, Rest, vars, operator, aux
  <2> QED BY <2>1 DEF CodesHeld, Holding, FactorOf
<1> QED BY <1>1, <1>2, <1>3, NextParts DEF Around

-----------------------------------------------------------------------------
(* What the sessions keep *)

\* One request changes: the keys made stay made, and no row without an assurance gets one.
LEMMA KeptStep ==
    ASSUME Typed, SessionsKept, NEW r \in Requests, NEW q, Turns(r, q),
           Made \subseteq Made', DOMAIN rows' \subseteq Made',
           \A k \in DOMAIN rows' : Apart(rows'[k]),
           \A b \in Browsers : jar'[b] \in Made' \cup {NoKey},
           \A k \in Made \cup {NoKey} : Unassuring(k) => Unassuring(k)',
           q = Idle \/ Fair(q)',
           \A k \in Made : req[r].stage = "save" /\ req[r].key = k => Unassuring(k)',
           barred' \subseteq Made',
           \A k \in barred' \ barred : Unassuring(k)' \/ (q.stage = "save" /\ q.key = k),
           reopened' = {}
    PROVE  SessionsKept'
<1>1. req'[r] = q /\ \A s \in Requests \ {r} : req'[s] = req[s]
  BY DEF Turns, Typed
<1>2. \A s \in Requests : req'[s] # Idle => Fair(req[s])'
  <2> SUFFICES ASSUME NEW s \in Requests, req'[s] # Idle PROVE Fair(req[s])'
    OBVIOUS
  <2>1. CASE s = r
    BY <1>1, <2>1 DEF Fair, Unassuring
  <2>2. CASE s # r
    <3>1. req'[s] = req[s] /\ Fair(req[s])
      BY <1>1, <2>2 DEF SessionsKept
    <3>2. req[s].key \in Made \cup {NoKey} /\ req[s].key \in Made' \cup {NoKey}
      BY <3>1 DEF Fair
    <3>3. Unassuring(req[s].key) =>
             (req[s].key \in DOMAIN rows' => ~rows'[req[s].key].assured)
      BY <3>2 DEF Unassuring
    <3>4. Unassuring(req[s].key)' = (req[s].key \in DOMAIN rows' => ~rows'[req[s].key].assured)
      BY <3>1 DEF Unassuring
    <3> QED BY <3>1, <3>2, <3>3, <3>4 DEF Fair
  <2> QED BY <2>1, <2>2
<1>3. \A k \in barred' : Saving(k)' \/ Unassuring(k)'
  <2> SUFFICES ASSUME NEW k \in barred' PROVE Saving(k)' \/ Unassuring(k)'
    OBVIOUS
  <2>1. CASE k \notin barred
    BY <1>1, <2>1 DEF Saving
  <2>2. CASE k \in barred /\ Unassuring(k)
    BY <2>2 DEF SessionsKept
  <2>3. CASE k \in barred /\ Saving(k)
    <3>1. PICK s \in Requests : req[s].stage = "save" /\ req[s].key = k
      BY <2>3 DEF Saving
    <3>2. CASE s = r
      BY <2>3, <3>1, <3>2 DEF SessionsKept
    <3>3. CASE s # r
      BY <1>1, <3>1, <3>3 DEF Saving
    <3> QED BY <3>2, <3>3
  <2> QED BY <2>1, <2>2, <2>3 DEF SessionsKept
<1> QED BY <1>2, <1>3 DEF SessionsKept

\* A step that leaves the sessions alone.
LEMMA QuietSessions ==
    ASSUME Typed, SessionsKept, UNCHANGED <<rows, jar, flows, admitted, barred, reopened>>,
           NEW r \in Requests, NEW q, Turns(r, q), q = Idle \/ Fair(q), req[r].stage # "save"
    PROVE  SessionsKept'
<1>1. Made' = Made
  BY DEF Made
<1>2. \A k : Unassuring(k)' <=> Unassuring(k)
  BY DEF Unassuring
<1>3. q = Idle \/ Fair(q)'
  BY <1>1, <1>2 DEF Fair, Unassuring
<1> QED BY <1>1, <1>2, <1>3, KeptStep DEF SessionsKept

\* A row that is taken away has no assurance any more; the others are as they were.
LEMMA Removal ==
    ASSUME SessionsKept, NEW old, rows' \in {rows, Without(rows, old)},
           UNCHANGED <<flows, admitted>>
    PROVE  /\ Made' = Made /\ DOMAIN rows' \subseteq Made'
           /\ \A k \in DOMAIN rows' : Apart(rows'[k])
           /\ \A k : Unassuring(k) => Unassuring(k)'
           /\ rows' = Without(rows, old) => Unassuring(old)'
<1>1. Made' = Made
  BY DEF Made
<1>2. /\ DOMAIN rows' \subseteq DOMAIN rows
      /\ \A k \in DOMAIN rows' : rows'[k] = rows[k]
      /\ rows' = Without(rows, old) => old \notin DOMAIN rows'
  BY RowRemoved
<1> QED BY <1>1, <1>2 DEF SessionsKept, Unassuring

\* A session under a new key replaces that of the request.
LEMMA NewKey ==
    ASSUME Typed, SessionsKept, NEW r \in Requests, NEW key, NEW d, Turns(r, Idle),
           rows' = Put(Without(rows, req[r].key), key, d), Apart(d),
           key \in Made' \ Made, key # NoKey, Made \subseteq Made',
           req[r].browser \in Browsers, jar' = [jar EXCEPT ![req[r].browser] = key],
           UNCHANGED <<barred, reopened>>, req[r].stage # "save"
    PROVE  SessionsKept'
<1>1. /\ DOMAIN rows' = (DOMAIN rows \ {req[r].key}) \cup {key}
      /\ \A k \in DOMAIN rows' : rows'[k] = IF k = key THEN d ELSE rows[k]
  BY RowReplaced
<1>2. DOMAIN rows' \subseteq Made' /\ \A k \in DOMAIN rows' : Apart(rows'[k])
  BY <1>1 DEF SessionsKept
<1>3. \A b \in Browsers : jar'[b] \in Made' \cup {NoKey}
  BY DEF SessionsKept, Typed, Tables
<1>4. \A k \in Made \cup {NoKey} : Unassuring(k) => Unassuring(k)'
  BY <1>1 DEF Unassuring
<1>5. barred' \subseteq Made' /\ barred' \ barred = {} /\ reopened' = {}
  BY DEF SessionsKept
<1> QED BY <1>2, <1>3, <1>4, <1>5, KeptStep

\* Neither kind of key is made twice.
LEMMA FreshKeys ==
    ASSUME Typed
    PROVE  /\ flows' = flows + 1 /\ UNCHANGED admitted =>
                 /\ <<"flow", flows + 1>> \in Made' \ Made /\ Made \subseteq Made'
                 /\ <<"flow", flows + 1>> # NoKey
           /\ admitted' = admitted + 1 /\ UNCHANGED flows =>
                 /\ <<"login", admitted + 1>> \in Made' \ Made /\ Made \subseteq Made'
                 /\ <<"login", admitted + 1>> # NoKey
<1>1. flows \in Nat /\ admitted \in Nat
  BY Constants DEF Typed, Tables
<1> QED BY <1>1 DEF Made, NoKey

\* The password stage.
LEMMA PasswordSessions ==
    ASSUME Typed, SessionsKept, NEW r \in Requests, Password(r)
    PROVE  SessionsKept'
<1>1. /\ UNCHANGED <<admitted, barred, reopened>> /\ req[r].stage = "password"
      /\ req[r].browser \in Browsers
  BY PasswordStep DEF Password, aux
<1>2. Fair(req[r])
  BY <1>1 DEF SessionsKept, Idle
<1>3. PICK q :
         /\ Turns(r, q) /\ q.stage \notin Accepted
         /\ \/ /\ q = Idle /\ flows' = flows + 1
               /\ <<"flow", flows + 1>> \in Keys /\ flows + 1 \in Flows
               /\ rows' = Put(Without(rows, req[r].key), <<"flow", flows + 1>>,
                              Pending(flows + 1))
               /\ jar' = [jar EXCEPT ![req[r].browser] = <<"flow", flows + 1>>]
            \/ /\ UNCHANGED <<flows, jar>>
               /\ rows' \in {rows, Without(rows, req[r].key)}
               /\ Fair(req[r]) => q = Idle \/ Fair(q)
  BY PasswordStep
<1>4. CASE /\ q = Idle /\ flows' = flows + 1 /\ flows + 1 \in Flows
           /\ rows' = Put(Without(rows, req[r].key), <<"flow", flows + 1>>, Pending(flows + 1))
           /\ jar' = [jar EXCEPT ![req[r].browser] = <<"flow", flows + 1>>]
  <2>1. /\ <<"flow", flows + 1>> \in Made' \ Made /\ Made \subseteq Made'
        /\ <<"flow", flows + 1>> # NoKey
    BY <1>1, <1>4, FreshKeys
  <2>2. Apart(Pending(flows + 1))
    BY <1>4, NewSessions
  <2> QED BY <1>1, <1>3, <1>4, <2>1, <2>2, NewKey
<1>5. CASE /\ UNCHANGED <<flows, jar>> /\ rows' \in {rows, Without(rows, req[r].key)}
           /\ q = Idle \/ Fair(q)
  <2>1. /\ Made' = Made /\ DOMAIN rows' \subseteq Made'
        /\ \A k \in DOMAIN rows' : Apart(rows'[k])
        /\ \A k : Unassuring(k) => Unassuring(k)'
    BY <1>1, <1>5, Removal
  <2>2. q = Idle \/ Fair(q)'
    BY <1>5, <2>1 DEF Fair, Unassuring
  <2> QED BY <1>1, <1>3, <1>5, <2>1, <2>2, KeptStep DEF SessionsKept
<1> QED BY <1>2, <1>3, <1>4, <1>5

\* A page: a session that is refused ends or is saved without its assurance.
LEMMA PageSessions ==
    ASSUME Typed, SessionsKept, NEW r \in Requests, Page(r)
    PROVE  SessionsKept'
<1>1. UNCHANGED <<flows, admitted, jar>> /\ req[r].stage = "page"
  BY PageStep DEF Page, bounds
<1>2. Fair(req[r])
  BY <1>1 DEF SessionsKept, Idle
<1> DEFINE key == req[r].key
<1>3. PICK q :
         /\ Turns(r, q) /\ rows' \in {rows, Without(rows, key)}
         /\ q = Idle \/ Fair(q)
         /\ reopened' = reopened
         /\ \/ barred' = barred
            \/ /\ barred' = barred \cup {key} /\ key # NoKey
               /\ \/ q.stage = "save" /\ q.key = key
                  \/ key \notin DOMAIN rows'
                  \/ rows' = rows /\ Unassuring(key)
  BY <1>2, PageStep
<1>4. /\ Made' = Made /\ DOMAIN rows' \subseteq Made'
      /\ \A k \in DOMAIN rows' : Apart(rows'[k])
      /\ \A k : Unassuring(k) => Unassuring(k)'
  BY <1>1, <1>3, Removal
<1>5. q = Idle \/ Fair(q)'
  BY <1>3, <1>4 DEF Fair, Unassuring
<1>6. key \in Made \cup {NoKey}
  BY <1>2 DEF Fair
<1>7. /\ barred' \subseteq Made'
      /\ \A k \in barred' \ barred : Unassuring(k)' \/ (q.stage = "save" /\ q.key = k)
  <2> HIDE DEF key
  <2>1. key \notin DOMAIN rows' => \A k : k = key => Unassuring(k)'
    BY DEF Unassuring
  <2>2. Unassuring(key) => \A k : k = key => Unassuring(k)'
    BY <1>4
  <2> QED BY <1>3, <1>4, <1>6, <2>1, <2>2 DEF SessionsKept
<1> QED BY <1>1, <1>3, <1>4, <1>5, <1>7, KeptStep DEF SessionsKept

\* What is saved has no assurance.
LEMMA SaveSessions ==
    ASSUME Typed, SessionsKept, NEW r \in Requests, Save(r)
    PROVE  SessionsKept'
<1>1. /\ UNCHANGED <<flows, admitted, jar, barred, reopened>> /\ req[r].stage = "save"
      /\ Turns(r, Idle) /\ DOMAIN rows' = DOMAIN rows
      /\ \A k \in DOMAIN rows : rows'[k] = IF k = req[r].key THEN req[r].copy ELSE rows[k]
  BY SaveStep DEF Save, bounds, aux
<1>2. Apart(req[r].copy) /\ ~req[r].copy.assured
  BY <1>1 DEF SessionsKept, Idle, Fair, AttemptStages
<1>3. Made' = Made
  BY <1>1 DEF Made
<1>4. DOMAIN rows' \subseteq Made' /\ \A k \in DOMAIN rows' : Apart(rows'[k])
  BY <1>1, <1>2, <1>3 DEF SessionsKept
<1>5. \A k : Unassuring(k) \/ req[r].key = k => Unassuring(k)'
  BY <1>1, <1>2 DEF Unassuring
<1> QED BY <1>1, <1>3, <1>4, <1>5, KeptStep DEF SessionsKept

\* A login makes a key that no request holds and no page was refused to.
LEMMA AdmitSessions ==
    ASSUME Typed, SessionsKept, NEW r \in Requests, Admit(r)
    PROVE  SessionsKept'
<1>1. /\ UNCHANGED <<flows, barred, reopened>> /\ admitted' = admitted + 1
      /\ req[r].stage = "admit" /\ req[r].browser \in Browsers /\ Turns(r, Idle)
      /\ rows' = Put(Without(rows, req[r].key), <<"login", admitted + 1>>, Assured)
      /\ jar' = [jar EXCEPT ![req[r].browser] = <<"login", admitted + 1>>]
  BY AdmitStep DEF Admit, Attempts
<1>2. Apart(Assured)
  BY NewSessions
<1>3. /\ <<"login", admitted + 1>> \in Made' \ Made /\ Made \subseteq Made'
      /\ <<"login", admitted + 1>> # NoKey
  BY <1>1, FreshKeys
<1> QED BY <1>1, <1>2, <1>3, NewKey

\* A logout takes a row away.
LEMMA LogoutSessions ==
    ASSUME Typed, SessionsKept, NEW b \in Browsers, Logout(b)
    PROVE  SessionsKept'
<1>1. /\ UNCHANGED <<flows, admitted, jar, req, barred, reopened>>
      /\ rows' = Without(rows, jar[b])
  BY DEF Logout, aux
<1>2. /\ Made' = Made /\ DOMAIN rows' \subseteq Made'
      /\ \A k \in DOMAIN rows' : Apart(rows'[k])
      /\ \A k : Unassuring(k) => Unassuring(k)'
  BY <1>1, Removal
<1>3. \A r \in Requests : req'[r] # Idle => Fair(req[r])'
  <2> SUFFICES ASSUME NEW r \in Requests, req'[r] # Idle PROVE Fair(req[r])'
    OBVIOUS
  <2>1. req'[r] = req[r] /\ Fair(req[r])
    BY <1>1 DEF SessionsKept
  <2>2. Unassuring(req[r].key) =>
           (req[r].key \in DOMAIN rows' => ~rows'[req[r].key].assured)
    BY <1>2 DEF Unassuring
  <2> QED BY <1>2, <2>1, <2>2 DEF Fair, Unassuring
<1>4. \A k \in barred' : Saving(k)' \/ Unassuring(k)'
  BY <1>1, <1>2 DEF SessionsKept, Saving
<1> QED BY <1>1, <1>2, <1>3, <1>4 DEF SessionsKept

\* Every step of a request keeps the sessions as they should be.
LEMMA DoingSessions ==
    ASSUME Typed, SessionsKept, NEW r \in Requests, Doing(r)
    PROVE  SessionsKept'
<1>1. CASE \E b \in Browsers : Arrive(r, b)
  <2>1. PICK b \in Browsers : Arrive(r, b)
    BY <1>1
  <2>2. CASE ArrivePassword(r, b) \/ ArrivePage(r, b)
    <3>1. /\ UNCHANGED <<rows, jar, flows, admitted, barred, reopened>>
          /\ req[r].stage # "save"
      BY <2>2 DEF ArrivePassword, ArrivePage, sessions, aux
    <3> QED BY <2>2, <3>1, PlainArrivals, QuietSessions
  <2>3. CASE \E g \in Groups : \E p \in Proofs(g) : ArriveAttempt(r, b, g, p)
    <3>1. /\ UNCHANGED <<rows, jar, flows, admitted, barred, reopened>>
          /\ req[r].stage # "save"
      BY <2>3 DEF ArriveAttempt, sessions, aux
    <3> QED BY <2>3, <3>1, AttemptArrivals, QuietSessions
  <2> QED BY <2>1, <2>2, <2>3 DEF Arrive
<1>2. CASE TakeTurn(r)
  <2>1. /\ UNCHANGED <<rows, jar, flows, admitted, barred, reopened>>
        /\ req[r].stage \notin {"save", "idle"}
    BY <1>2 DEF TakeTurn, sessions, bounds, aux
  <2>2. Fair(req[r])
    BY <2>1 DEF SessionsKept, Idle
  <2> QED BY <1>2, <2>1, <2>2, TakeTurnStep, QuietSessions DEF Advances
<1>3. CASE Precheck(r)
  <2>1. /\ UNCHANGED <<rows, jar, flows, admitted, barred, reopened>>
        /\ req[r].stage \notin {"save", "idle"}
    BY <1>3 DEF Precheck, sessions, bounds, aux
  <2>2. Fair(req[r])
    BY <2>1 DEF SessionsKept, Idle
  <2> QED BY <1>3, <2>1, <2>2, PrecheckStep, QuietSessions DEF Advances
<1>4. CASE Verify(r)
  <2>1. /\ UNCHANGED <<rows, jar, flows, admitted, barred, reopened>>
        /\ req[r].stage \notin {"save", "idle"}
    BY <1>4 DEF Verify, sessions, bounds
  <2>2. Fair(req[r])
    BY <2>1 DEF SessionsKept, Idle
  <2> QED BY <1>4, <2>1, <2>2, VerifyStep, QuietSessions DEF Advances
<1>5. CASE Register(r)
  <2>1. /\ UNCHANGED <<rows, jar, flows, admitted, barred, reopened>>
        /\ req[r].stage \notin {"save", "idle"}
    BY <1>5 DEF Register, sessions, bounds, aux
  <2>2. Fair(req[r])
    BY <2>1 DEF SessionsKept, Idle
  <2> QED BY <1>5, <2>1, <2>2, RegisterStep, QuietSessions DEF Advances
<1>6. CASE Complete(r)
  <2>1. /\ UNCHANGED <<rows, jar, flows, admitted, barred, reopened>>
        /\ req[r].stage \notin {"save", "idle"}
    BY <1>6 DEF Complete, sessions, bounds, aux
  <2>2. Fair(req[r])
    BY <2>1 DEF SessionsKept, Idle
  <2> QED BY <1>6, <2>1, <2>2, CompleteStep, QuietSessions DEF Advances
<1>7. CASE EndAttempt(r)
  <2>1. /\ UNCHANGED <<rows, jar, flows, admitted, barred, reopened>>
        /\ req[r].stage \notin {"save", "idle"}
    BY <1>7 DEF EndAttempt, sessions, bounds
  <2>2. Fair(req[r])
    BY <2>1 DEF SessionsKept, Idle
  <2> QED BY <1>7, <2>1, <2>2, EndAttemptStep, QuietSessions
<1> QED BY <1>1, <1>2, <1>3, <1>4, <1>5, <1>6, <1>7, PasswordSessions, PageSessions,
           SaveSessions, AdmitSessions
        DEF Doing, Step

\* So does every step.
LEMMA SessionsNext == Typed /\ SessionsKept /\ [Next]_vars => SessionsKept'
<1> SUFFICES ASSUME Typed, SessionsKept, [Next]_vars PROVE SessionsKept'
  OBVIOUS
<1>1. CASE \E r \in Requests : Doing(r)
  BY <1>1, DoingSessions
<1>2. CASE \E b \in Browsers : Logout(b)
  BY <1>2, LogoutSessions
<1>3. CASE \/ \E f \in Factors : RemoveFactor(f)
           \/ ChangeRole \/ Tick \/ Rest \/ UNCHANGED vars
  <2>1. UNCHANGED <<rows, jar, flows, admitted, req, barred, reopened>>
    BY <1>3 DEF RemoveFactor, ChangeRole, Tick, Rest, vars, sessions, aux
  <2> QED BY <2>1 DEF SessionsKept, Fair, Made, Unassuring, Saving
<1> QED BY <1>1, <1>2, <1>3, NextParts DEF Around

-----------------------------------------------------------------------------
(* The guesses.                                                            *)
(*                                                                         *)
(* GuessesBounded says how many wrong attempts there have been, not where  *)
(* they are counted.  Between two epochs every wrong attempt is in the     *)
(* counter of the epoch, or that of the request which holds the row, or    *)
(* that of one of the requests which read the epoch before: these are      *)
(* never as many as the requests, because the one that changed the epoch   *)
(* has ended.                                                              *)

Inside == {"rate", "verify", "failed", "refused", "passed", "lost", "admit", "blocked", "done"}
Ended == {"blocked", "done"}
Guessing == {"code", "webauthn"}
At(q) == AddressOf[q.browser]
CounterOf(q) == <<At(q), q.epoch, q.group>>

\* q has counted in this window what is not written yet.
Counted(q) == q.stage \in Ended /\ q.n > 0 /\ q.window = now \div Window

\* What a request knows of its counter, which nobody else writes while it is inside.
Sound(q) ==
    /\ q.stage \in (Inside \cup {"turn"}) \ Ended => q.n = 0
    /\ q.stage \in Ended /\ q.n > 0 => q.window <= now \div Window
    /\ q.stage = "verify" => q.proof # Garbled
    /\ q.stage \in {"verify", "failed", "refused"} /\ q.proof # Garbled =>
          CountOf(CounterOf(q)) <= Limit
    /\ Counted(q) /\ q.group # "options" =>
          /\ q.n = CountOf(CounterOf(q)) + 1
          /\ q.proof # Garbled => CountOf(CounterOf(q)) <= Limit

\* q may still be wrong and count it in an epoch that has been replaced.
Behind(q, a) == /\ q.stage \in {"turn", "rate", "verify"} /\ At(q) = a
                /\ ~q.added /\ q.epoch # epoch[a].id
Stale(a) == {r \in Requests : Behind(req[r], a)}

\* q has shown a wrong proof that is in no counter yet.
Owes(q, a, g) ==
    /\ q.stage \in Inside /\ At(q) = a /\ q.group = g /\ q.proof # Garbled
    /\ q.added \/ q.epoch = epoch[a].id
    /\ q.stage = "failed" \/ Counted(q)
Owed(a, g) == \E r \in Requests : Owes(req[r], a, g)

Capped(n) == IF n > Limit THEN Limit + 1 ELSE n

Balanced(a, g) ==
    wrong[<<a, g>>] + Cardinality(Stale(a)) <=
        Capped(CountOf(<<a, epoch[a].id, g>>)) + Cardinality(Requests) - 1
        + (IF Owed(a, g) THEN 1 ELSE 0)

GuessesCounted ==
    /\ wrong \in [Addresses \X Groups -> Nat]
    /\ \A r \in Requests : req[r].stage \in Inside => turn[At(req[r])] = r
    /\ \A r \in Requests : Sound(req[r])
    /\ \A a \in Addresses : Cardinality(Stale(a)) < Cardinality(Requests)
    /\ \A a \in Addresses : \A g \in Guessing : Balanced(a, g)
    /\ \A a \in Addresses : wrong[<<a, "options">>] = 0

\* How many requests are behind.
LEMMA StaleCount ==
    ASSUME NEW a
    PROVE  /\ Cardinality(Requests) \in Nat /\ Cardinality(Stale(a)) \in Nat
           /\ IsFiniteSet(Stale(a)) /\ Cardinality(Stale(a)) <= Cardinality(Requests)
           /\ \A S \in SUBSET Requests : IsFiniteSet(S) /\ Cardinality(S) \in Nat
           /\ \A S \in SUBSET Requests : S # Requests => Cardinality(S) < Cardinality(Requests)
           /\ \A S \in SUBSET Requests, T \in SUBSET Requests :
                 S \subseteq T => Cardinality(S) <= Cardinality(T)
<1>1. IsFiniteSet(Requests) /\ Cardinality(Requests) \in Nat
  BY LoginAssumption, FS_CardinalityType
<1>2. ASSUME NEW S \in SUBSET Requests
      PROVE  IsFiniteSet(S) /\ Cardinality(S) \in Nat
             /\ (S # Requests => Cardinality(S) < Cardinality(Requests))
  BY <1>1, FS_Subset, FS_CardinalityType
<1>3. ASSUME NEW S \in SUBSET Requests, NEW T \in SUBSET Requests, S \subseteq T
      PROVE  Cardinality(S) <= Cardinality(T)
  BY <1>2, <1>3, FS_Subset
<1>4. Stale(a) \in SUBSET Requests
  BY DEF Stale
<1> QED BY <1>1, <1>2, <1>3, <1>4

\* The clock does not go back from a window to the one before.
LEMMA Windowed ==
    ASSUME Typed
    PROVE  /\ now \in Nat /\ now \div Window \in Nat
           /\ now \div Window <= (now + 1) \div Window /\ (now + 1) \div Window \in Nat
<1>1. now \in Nat /\ Window \in Nat /\ Window > 0
  BY Constants DEF Typed, Tables
<1> QED BY <1>1, SMT

\* A request changes, the counters and the epochs do not, nor what it owes.
LEMMA QuietGuesses ==
    ASSUME Typed, GuessesCounted, NEW r \in Requests, NEW q, Turns(r, q),
           UNCHANGED <<now, count, epoch, wrong>>,
           \A s \in Requests \ {r} : req[s].stage \in Inside => turn'[At(req[s])] = s,
           q.stage \in Inside => turn'[At(q)] = r, Sound(q),
           \A a \in Addresses : Behind(q, a) => Behind(req[r], a),
           \A a \in Addresses : \A g \in Guessing : Owes(req[r], a, g) => Owes(q, a, g)
    PROVE  GuessesCounted'
<1>1. req'[r] = q /\ \A s \in Requests \ {r} : req'[s] = req[s]
  BY DEF Turns, Typed
<1>2. \A s \in Requests : req'[s].stage \in Inside => turn'[At(req'[s])] = s
  BY <1>1
<1>3. \A s \in Requests : Sound(req[s])'
  <2> TAKE s \in Requests
  <2>1. Sound(req'[s])
    BY <1>1 DEF GuessesCounted
  <2> QED BY <2>1 DEF Sound, Counted, CountOf, CounterOf, At
<1>4. ASSUME NEW a \in Addresses  PROVE Cardinality(Stale(a)') <= Cardinality(Stale(a))
  <2>1. \A s \in Requests : Behind(req'[s], a) => Behind(req[s], a)
    BY <1>1
  <2>2. \A s \in Requests : Behind(req[s], a)' => Behind(req'[s], a)
    BY DEF Behind, At
  <2>3. Stale(a)' \subseteq Stale(a) /\ Stale(a)' \in SUBSET Requests
    BY <2>1, <2>2 DEF Stale
  <2>4. Stale(a) \in SUBSET Requests
    BY DEF Stale
  <2> QED BY <2>3, <2>4, StaleCount
<1>5. ASSUME NEW a \in Addresses, NEW g \in Guessing, Owed(a, g)  PROVE Owed(a, g)'
  <2>1. PICK s \in Requests : Owes(req[s], a, g)
    BY <1>5 DEF Owed
  <2>2. Owes(req'[s], a, g)
    BY <1>1, <2>1
  <2>3. Owes(req[s], a, g)'
    BY <2>2 DEF Owes, Counted, At
  <2> QED BY <2>3 DEF Owed
<1>6. ASSUME NEW a \in Addresses, NEW g \in Guessing  PROVE Balanced(a, g)'
  <2>1. /\ wrong[<<a, g>>] \in Nat /\ Cardinality(Stale(a)) \in Nat
        /\ Cardinality(Stale(a)') \in Nat /\ Cardinality(Requests) \in Nat
    <3>1. Stale(a)' \in SUBSET Requests
      BY DEF Stale
    <3>2. <<a, g>> \in Addresses \X Groups
      BY <1>6 DEF Guessing, Groups
    <3> QED BY <3>1, <3>2, StaleCount DEF GuessesCounted
  <2>2. Capped(CountOf(<<a, epoch[a].id, g>>)) \in Nat
    BY Counts, Constants DEF Capped
  <2>3. /\ wrong' = wrong
        /\ Capped(CountOf(<<a, epoch[a].id, g>>))' = Capped(CountOf(<<a, epoch[a].id, g>>))
    BY DEF Capped, CountOf
  <2>4. Balanced(a, g)
    BY <1>6 DEF GuessesCounted
  <2> QED BY <1>4, <1>5, <1>6, <2>1, <2>2, <2>3, <2>4 DEF Balanced
<1>7. \A a \in Addresses : Cardinality(Stale(a)') < Cardinality(Requests)
  <2> TAKE a \in Addresses
  <2>1. Stale(a)' \in SUBSET Requests
    BY DEF Stale
  <2> QED BY <1>4, <2>1, StaleCount DEF GuessesCounted
<1> QED BY <1>2, <1>3, <1>6, <1>7 DEF GuessesCounted, At

\* A request that is not in the second stage counts nothing.
LEMMA Outside ==
    ASSUME NEW q, q.stage \notin Inside \cup {"turn"}
    PROVE  /\ Sound(q) /\ q.stage \notin Inside
           /\ \A a, g : ~Behind(q, a) /\ ~Owes(q, a, g)
<1>1. q.stage \notin {"verify", "failed", "refused", "turn", "rate"} \cup Ended
  BY DEF Inside, Ended
<1> QED BY <1>1 DEF Sound, Behind, Owes, Counted

\* The requests of the password and the pages, the saves, and all arrivals.
LEMMA OuterGuesses ==
    ASSUME Typed, GuessesCounted, NEW r \in Requests, NEW q, Turns(r, q),
           UNCHANGED <<now, count, epoch, wrong, turn>>,
           req[r].stage \notin Inside, q.stage \notin Inside,
           q.stage = "turn" => q.n = 0 /\ \A a \in Addresses : ~Behind(q, a)
    PROVE  GuessesCounted'
<1>1. \A s \in Requests : req[s].stage \in Inside => turn'[At(req[s])] = s
  BY DEF GuessesCounted
<1>2. \A a \in Addresses : \A g \in Guessing : ~Owes(req[r], a, g)
  BY DEF Owes
<1>3. CASE q.stage = "turn"
  <2>1. q.n = 0 /\ \A a \in Addresses : ~Behind(q, a)
    BY <1>3
  <2>2. q.stage \notin {"verify", "failed", "refused"} \cup Ended
    BY <1>3 DEF Ended
  <2>3. Sound(q)
    BY <2>1, <2>2 DEF Sound, Counted
  <2> QED BY <1>1, <1>2, <2>1, <2>3, QuietGuesses
<1>4. CASE q.stage # "turn"
  <2>1. Sound(q) /\ \A a : ~Behind(q, a)
    BY <1>4, Outside
  <2> QED BY <1>1, <1>2, <2>1, QuietGuesses
<1> QED BY <1>3, <1>4

\* What arrives has read the epoch as it is, or found it expired.
LEMMA ArrivalGuesses ==
    ASSUME Typed, GuessesCounted, NEW r \in Requests, NEW b \in Browsers, Arrive(r, b)
    PROVE  GuessesCounted'
<1>1. CASE ArrivePassword(r, b) \/ ArrivePage(r, b)
  <2>1. PICK q : Turns(r, q) /\ req'[r] = q
    BY <1>1, PlainArrivals DEF Turns, Typed
  <2>2. req'[r].stage \in {"password", "page"} /\ req[r].stage = "idle"
    BY <1>1 DEF ArrivePassword, ArrivePage, Arrival, Typed
  <2>3. UNCHANGED <<now, count, epoch, wrong, turn>>
    BY <1>1 DEF ArrivePassword, ArrivePage, rates, aux
  <2>4. {"password", "page", "idle"} \cap (Inside \cup {"turn"}) = {}
    BY DEF Inside
  <2> QED BY <2>1, <2>2, <2>3, <2>4, OuterGuesses
<1>2. CASE \E g \in Groups : \E p \in Proofs(g) : ArriveAttempt(r, b, g, p)
  <2>1. PICK g \in Groups : \E p \in Proofs(g) : ArriveAttempt(r, b, g, p)
    BY <1>2
  <2>2. PICK p \in Proofs(g) : ArriveAttempt(r, b, g, p)
    BY <2>1
  <2>3. PICK q : Turns(r, q) /\ req'[r] = q
    BY <2>2, AttemptArrivals DEF Turns, Typed
  <2>4. /\ UNCHANGED <<now, count, epoch, wrong, turn>> /\ req[r].stage = "idle"
        /\ req' = [req EXCEPT ![r] =
              IF PendingValid(SessionOf(b)) THEN Attempt(b, g, p)
              ELSE IF SessionOf(b) = Cleared(SessionOf(b)) THEN Idle
              ELSE [Arrival(b, "save") EXCEPT !.copy = Cleared(SessionOf(b))]]
    BY <2>2 DEF ArriveAttempt, rates, aux
  <2>5. \/ q = Attempt(b, g, p) \/ q = Idle
        \/ q = [Arrival(b, "save") EXCEPT !.copy = Cleared(SessionOf(b))]
    BY <2>3, <2>4 DEF Typed
  <2>6. CASE q = Attempt(b, g, p)
    <3>1. /\ q.stage = "turn" /\ q.n = 0 /\ q.browser = b
          /\ q.epoch = epoch[AddressOf[b]].id
      BY <2>6 DEF Attempt
    <3>2. "turn" \notin Inside /\ "idle" \notin Inside
      BY DEF Inside
    <3>3. \A a \in Addresses : ~Behind(q, a)
      BY <3>1 DEF Behind, At
    <3> QED BY <2>3, <2>4, <3>1, <3>2, <3>3, OuterGuesses
  <2>7. CASE q # Attempt(b, g, p)
    <3>1. q.stage \in {"idle", "save"}
      BY <2>5, <2>7 DEF Idle, Arrival
    <3>2. {"idle", "save"} \cap (Inside \cup {"turn"}) = {}
      BY DEF Inside
    <3> QED BY <2>3, <2>4, <3>1, <3>2, OuterGuesses
  <2> QED BY <2>6, <2>7
<1> QED BY <1>1, <1>2 DEF Arrive

\* The password, a page and a save.
LEMMA PlainGuesses ==
    ASSUME Typed, GuessesCounted, NEW r \in Requests, Password(r) \/ Page(r) \/ Save(r)
    PROVE  GuessesCounted'
<1>1. req[r].stage \in {"password", "page", "save"}
  BY DEF Password, Page, Save
<1>2. UNCHANGED <<now, count, epoch, wrong, turn>>
  BY DEF Password, Page, Save, rates, aux
<1>3. PICK q : Turns(r, q) /\ q.stage \in {"idle", "save"}
  <2> DEFINE Left(d) == Leave(r, d)
  <2>1. ASSUME req' = [req EXCEPT ![r] = Idle]
        PROVE  \E q : Turns(r, q) /\ q.stage \in {"idle", "save"}
    <3>1. Idle \in Shapes /\ Proper(Idle) /\ Idle.stage = "idle"
      BY DEF Shapes, Proper, Idle, AttemptStages, Proving
    <3> QED BY <2>1, <3>1 DEF Turns
  <2>2. ASSUME NEW d \in Data, Leave(r, d)
        PROVE  \E q : Turns(r, q) /\ q.stage \in {"idle", "save"}
    <3>1. req[r] # Idle /\ req \in [Requests -> Shapes]
      BY <1>1 DEF Typed, Idle
    <3>2. PICK q \in Shapes : /\ req' = [req EXCEPT ![r] = q]
                              /\ q = Idle \/ q.stage = "save"
      BY <2>2, <3>1, LeaveShape
    <3>3. q.stage \in {"idle", "save"}
      BY <3>2 DEF Idle
    <3>4. Proper(q)
      BY <3>3 DEF Proper, AttemptStages, Proving
    <3> QED BY <3>2, <3>3, <3>4 DEF Turns
  <2>3. req[r].copy \in Data
    BY <1>1, StageShapes DEF Typed, Idle
  <2>4. ClearedAll(req[r].copy) \in Data /\ Unassured(req[r].copy) \in Data
    BY <2>3, DataUpdates
  <2>5. \/ req' = [req EXCEPT ![r] = Idle]
        \/ Leave(r, ClearedAll(req[r].copy)) \/ Leave(r, Unassured(req[r].copy))
    BY DEF Password, Page, Save
  <2> QED BY <2>1, <2>2, <2>4, <2>5
<1>4. {"idle", "password", "page", "save"} \cap (Inside \cup {"turn"}) = {}
  BY DEF Inside
<1> QED BY <1>1, <1>2, <1>3, <1>4, OuterGuesses

\* The steps of an attempt that leave the counts alone.
Still(q, p) == /\ q.browser = p.browser /\ q.group = p.group /\ q.proof = p.proof
               /\ q.epoch = p.epoch /\ q.added = p.added

\* An attempt moves on with the turn.
LEMMA InnerGuesses ==
    ASSUME Typed, GuessesCounted, NEW r \in Requests, NEW q, Turns(r, q), Still(q, req[r]),
           UNCHANGED <<now, count, epoch, wrong, turn>>,
           req[r].stage \in Inside \ Ended, Sound(q),
           q.stage \in {"turn", "rate", "verify"} => req[r].stage \in {"turn", "rate", "verify"},
           req[r].stage = "failed" => Counted(q)
    PROVE  GuessesCounted'
<1>1. At(q) = At(req[r]) /\ turn[At(req[r])] = r
  BY DEF Still, At, GuessesCounted
<1>2. \A a \in Addresses : Behind(q, a) => Behind(req[r], a)
  BY DEF Still, Behind, At
<1>3. \A a \in Addresses : \A g \in Guessing : Owes(req[r], a, g) => Owes(q, a, g)
  <2> SUFFICES ASSUME NEW a \in Addresses, NEW g \in Guessing, Owes(req[r], a, g)
               PROVE  Owes(q, a, g)
    OBVIOUS
  <2>1. req[r].stage = "failed"
    BY DEF Owes, Counted
  <2>2. Counted(q) /\ q.stage \in Inside
    BY <2>1 DEF Counted, Ended, Inside
  <2> QED BY <2>2 DEF Owes, Still, At
<1>4. \A s \in Requests \ {r} : req[s].stage \in Inside => turn'[At(req[s])] = s
  BY DEF GuessesCounted
<1> QED BY <1>1, <1>2, <1>3, <1>4, QuietGuesses

\* Only the stage of an attempt changes.
LEMMA MovedFields ==
    ASSUME Typed, NEW r \in Requests, req[r] \in Attempts, NEW x \in Attempting, Move(r, x)
    PROVE  /\ Still(req'[r], req[r]) /\ req'[r].stage = x
           /\ req'[r].n = req[r].n /\ req'[r].window = req[r].window
<1>1. req'[r] = [req[r] EXCEPT !.stage = x]
  BY DEF Move, Typed
<1> HIDE DEF Move
<1> QED BY <1>1 DEF Still, Attempts

\* The turn is taken when nobody else is inside at the address.
LEMMA TakeTurnGuesses ==
    ASSUME Typed, GuessesCounted, NEW r \in Requests, TakeTurn(r)
    PROVE  GuessesCounted'
<1>1. req[r] \in Attempts /\ req[r].stage = "turn"
  BY StageShapes DEF TakeTurn, Typed, AttemptStages
<1>2. PICK q : Turns(r, q) /\ req'[r] = q
  BY TakeTurnStep DEF Advances, Turns, Typed
<1>3. /\ q.stage = "rate" /\ q.n = req[r].n /\ q.browser = req[r].browser
      /\ q.added = req[r].added /\ (~q.added => q.epoch = req[r].epoch)
  <2> DEFINE e == IF req[r].added THEN epoch[Address(r)].id + 1 ELSE req[r].epoch
  <2>1. q = [req[r] EXCEPT !.stage = "rate", !.touched = now, !.epoch = e]
    BY <1>2 DEF TakeTurn, Typed
  <2>2. ~req[r].added => e = req[r].epoch
    OBVIOUS
  <2> HIDE DEF e
  <2> QED BY <1>1, <2>1, <2>2 DEF Attempts
<1>4. UNCHANGED <<now, count, epoch, wrong>>
  BY DEF TakeTurn, aux
<1>5. At(req[r]) \in Addresses /\ At(q) = At(req[r])
  BY <1>1, <1>3, Constants DEF At, Attempts
<1>6. turn[At(req[r])] = NoOne /\ turn' = [turn EXCEPT ![At(req[r])] = r]
  BY DEF TakeTurn, HoldEpoch, Address, At
<1>7. turn'[At(q)] = r
  BY <1>5, <1>6 DEF Typed, Tables
<1>8. \A s \in Requests \ {r} : req[s].stage \in Inside => turn'[At(req[s])] = s
  <2> TAKE s \in Requests \ {r}
  <2> HAVE req[s].stage \in Inside
  <2>1. turn[At(req[s])] = s /\ s # NoOne
    BY Constants DEF GuessesCounted
  <2>2. At(req[s]) # At(req[r])
    BY <1>6, <2>1
  <2> QED BY <1>6, <2>1, <2>2
<1>9. Sound(q)
  <2>1. req[r].n = 0
    BY <1>1, Constants DEF GuessesCounted, Sound, Ended
  <2> QED BY <1>3, <2>1 DEF Sound, Counted, Ended
<1>10. \A a \in Addresses : Behind(q, a) => Behind(req[r], a)
  BY <1>1, <1>3, <1>5 DEF Behind
<1>11. \A a \in Addresses : \A g \in Guessing : ~Owes(req[r], a, g)
  BY <1>1 DEF Owes, Inside
<1> QED BY <1>2, <1>4, <1>7, <1>8, <1>9, <1>10, <1>11, QuietGuesses

\* The rate lets an attempt be verified while its counter is not over the limit.
LEMMA PrecheckGuesses ==
    ASSUME Typed, GuessesCounted, NEW r \in Requests, Precheck(r)
    PROVE  GuessesCounted'
<1>1. req[r] \in Attempts /\ req[r].stage = "rate"
  BY StageShapes DEF Precheck, Typed, AttemptStages
<1>2. PICK q : Turns(r, q) /\ req'[r] = q
  BY PrecheckStep DEF Advances, Turns, Typed
<1>3. UNCHANGED <<now, count, epoch, wrong, turn>>
  BY DEF Precheck, rates, aux
<1>4. req[r].n = 0 /\ "rate" \in Inside \ Ended
  BY <1>1 DEF GuessesCounted, Sound, Inside, Ended
<1> DEFINE n == CountOf(Counter(r))
<1>5. n \in Nat /\ n = CountOf(CounterOf(req[r])) /\ Limit \in Nat /\ now \div Window \in Nat
  BY Counts, Windowed, Constants DEF Counter, CounterOf, At, Address
<1>6. CASE req[r].group = "options"
  <2> DEFINE x == IF n + 1 > OptionsLimit THEN "blocked" ELSE "done"
  <2>1. q = [req[r] EXCEPT !.stage = x, !.window = now \div Window, !.n = n + 1]
    BY <1>2, <1>6 DEF Precheck, Typed
  <2>2. x \in Ended
    BY DEF Ended
  <2> HIDE DEF x, n
  <2>3. Still(q, req[r]) /\ q.stage = x /\ q.window = now \div Window /\ q.n = n + 1
    BY <1>1, <2>1 DEF Attempts, Still
  <2>4. q.stage \in Ended /\ q.group = "options" /\ q.window <= now \div Window
    BY <1>5, <1>6, <2>2, <2>3 DEF Still
  <2>5. Sound(q)
    BY <2>4 DEF Sound, Ended
  <2> QED BY <1>1, <1>2, <1>3, <1>4, <2>3, <2>5, InnerGuesses
<1>7. CASE req[r].group # "options"
  <2> DEFINE x == IF FailsAtOnce(req[r].proof) THEN "failed"
                  ELSE IF n > Limit THEN "blocked" ELSE "verify"
  <2>1. q = [req[r] EXCEPT !.stage = x]
    BY <1>2, <1>7 DEF Precheck, Typed
  <2>2. /\ x \in {"failed", "blocked", "verify"}
        /\ x = "failed" => req[r].proof = Garbled
        /\ x = "verify" => req[r].proof # Garbled /\ n <= Limit
    BY <1>5 DEF FailsAtOnce
  <2> HIDE DEF x, n
  <2>3. Still(q, req[r]) /\ q.stage = x /\ q.n = req[r].n
    BY <1>1, <2>1 DEF Attempts, Still
  <2>4. CounterOf(q) = CounterOf(req[r])
    BY <2>3 DEF Still, CounterOf, At
  <2>5. q.n = 0 /\ q.proof = req[r].proof
    BY <1>4, <2>3 DEF Still
  <2>6. Sound(q)
    BY <1>5, <2>2, <2>3, <2>4, <2>5 DEF Sound, Counted, Ended
  <2> QED BY <1>1, <1>2, <1>3, <1>4, <2>3, <2>6, InnerGuesses
<1> QED BY <1>6, <1>7

\* A failure is counted once, on top of what the counter holds.
LEMMA RegisterGuesses ==
    ASSUME Typed, GuessesCounted, NEW r \in Requests, Register(r)
    PROVE  GuessesCounted'
<1>1. req[r] \in Attempts /\ req[r].stage \in {"failed", "refused"}
  BY StageShapes DEF Register, Typed, AttemptStages
<1>2. PICK q : Turns(r, q) /\ req'[r] = q
  BY RegisterStep DEF Advances, Turns, Typed
<1>3. UNCHANGED <<now, count, epoch, wrong, turn>>
  BY DEF Register, rates, aux
<1>4. req[r].stage \in Inside \ Ended /\ Sound(req[r])
  BY <1>1 DEF GuessesCounted, Inside, Ended
<1> DEFINE n == CountOf(Counter(r)) + 1
           x == IF req[r].stage = "refused" \/ n > Limit THEN "blocked" ELSE "done"
<1>5. /\ n \in Nat /\ n > 0 /\ n = CountOf(CounterOf(req[r])) + 1 /\ now \div Window \in Nat
  BY Counts, Windowed DEF Counter, CounterOf, At, Address
<1>6. q = [req[r] EXCEPT !.stage = x, !.window = now \div Window, !.n = n]
  BY <1>2 DEF Register, Typed
<1>7. x \in Ended
  BY DEF Ended
<1> HIDE DEF x, n
<1>8. Still(q, req[r]) /\ q.stage = x /\ q.window = now \div Window /\ q.n = n
  BY <1>1, <1>6 DEF Attempts, Still
<1>9. CounterOf(q) = CounterOf(req[r]) /\ q.proof = req[r].proof
  BY <1>8 DEF Still, CounterOf, At
<1>10. Counted(q) /\ q.stage \in Ended /\ q.window <= now \div Window
  BY <1>5, <1>7, <1>8 DEF Counted
<1>11. q.proof # Garbled => CountOf(CounterOf(q)) <= Limit
  BY <1>1, <1>4, <1>9 DEF Sound
<1>12. q.n = CountOf(CounterOf(q)) + 1
  BY <1>5, <1>8, <1>9
<1>13. Sound(q)
  BY <1>10, <1>11, <1>12 DEF Sound, Ended
<1>14. q.stage \notin {"turn", "rate", "verify"}
  BY <1>10 DEF Ended
<1> QED BY <1>2, <1>3, <1>4, <1>8, <1>10, <1>13, <1>14, InnerGuesses

\* A verified proof is on its way to a login, or lost.
LEMMA CompleteGuesses ==
    ASSUME Typed, GuessesCounted, NEW r \in Requests, Complete(r)
    PROVE  GuessesCounted'
<1>1. req[r] \in Attempts /\ req[r].stage = "passed"
  BY StageShapes DEF Complete, Typed, AttemptStages
<1>2. PICK q : Turns(r, q) /\ req'[r] = q
  BY CompleteStep DEF Advances, Turns, Typed
<1>3. UNCHANGED <<now, count, epoch, wrong, turn>>
  BY DEF Complete, rates, aux
<1>4. req[r].n = 0 /\ req[r].stage \in Inside \ Ended
  BY <1>1 DEF GuessesCounted, Sound, Inside, Ended
<1>5. PICK x \in {"admit", "lost"} : Move(r, x)
  BY DEF Complete
<1>6. Still(q, req[r]) /\ q.stage \in {"admit", "lost"} /\ q.n = 0
  BY <1>1, <1>2, <1>4, <1>5, MovedFields DEF Attempting, AttemptStages
<1>7. Sound(q)
  BY <1>6 DEF Sound, Counted, Ended
<1> QED BY <1>1, <1>2, <1>3, <1>4, <1>6, <1>7, InnerGuesses

\* What is not held back by the turn at an address is not inside there.
LEMMA OneInside ==
    ASSUME GuessesCounted, NEW r \in Requests, req[r].stage \in Inside
    PROVE  \A s \in Requests \ {r} : req[s].stage \in Inside => At(req[s]) # At(req[r])
BY DEF GuessesCounted

\* A wrong proof of a request that is behind leaves one less behind; that of another is owed.
LEMMA WrongGuess ==
    ASSUME Typed, GuessesCounted, NEW r \in Requests, req[r] \in Attempts,
           req[r].stage = "verify", Move(r, "failed"),
           wrong' = [wrong EXCEPT ![<<Address(r), req[r].group>>] = @ + 1],
           UNCHANGED <<now, count, epoch, turn>>
    PROVE  GuessesCounted'
<1> DEFINE h == req[r].group
           b == At(req[r])
<1>1. /\ Still(req'[r], req[r]) /\ req'[r].stage = "failed" /\ req'[r].n = req[r].n
      /\ \A s \in Requests \ {r} : req'[s] = req[s]
  <2>1. "failed" \in Attempting
    BY DEF Attempting, AttemptStages
  <2>2. \A s \in Requests \ {r} : req'[s] = req[s]
    BY DEF Move, Typed
  <2> QED BY <2>1, <2>2, MovedFields
<1>2. h \in Guessing /\ h \in Groups /\ h # "options" /\ b \in Addresses /\ Address(r) = b
  BY Constants DEF Typed, Proper, Proving, Attempts, Groups, Guessing, At, Address
<1>3. req[r].n = 0 /\ req[r].proof # Garbled /\ CountOf(CounterOf(req[r])) <= Limit
  BY DEF GuessesCounted, Sound, Inside, Ended
<1>4. /\ wrong \in [Addresses \X Groups -> Nat] /\ wrong' \in [Addresses \X Groups -> Nat]
      /\ wrong'[<<b, h>>] = wrong[<<b, h>>] + 1
      /\ \A x \in Addresses \X Groups : x # <<b, h>> => wrong'[x] = wrong[x]
  BY <1>2 DEF GuessesCounted
<1>5. \A s \in Requests : req'[s].stage \in Inside => turn'[At(req'[s])] = s
  BY <1>1 DEF GuessesCounted, Inside, Still, At
<1>6. \A s \in Requests : Sound(req[s])'
  <2> TAKE s \in Requests
  <2>1. Sound(req'[s])
    <3>1. CASE s = r
      <4>1. CounterOf(req'[r]) = CounterOf(req[r]) /\ req'[r].stage = "failed" /\ req'[r].n = 0
        BY <1>1, <1>3 DEF CounterOf, At, Still
      <4> QED BY <1>3, <3>1, <4>1 DEF Sound, Counted, Ended
    <3>2. CASE s # r
      BY <1>1, <3>2 DEF GuessesCounted
    <3> QED BY <3>1, <3>2
  <2> QED BY <2>1 DEF Sound, Counted, CountOf, CounterOf, At
<1>7. ASSUME NEW a \in Addresses  PROVE Stale(a)' \subseteq Stale(a) \ {r}
  <2>1. \A s \in Requests : Behind(req[s], a)' => Behind(req'[s], a)
    BY DEF Behind, At
  <2>2. \A s \in Requests : Behind(req'[s], a) => s # r /\ Behind(req[s], a)
    BY <1>1 DEF Behind
  <2> QED BY <2>1, <2>2 DEF Stale
<1>8. ASSUME NEW a \in Addresses
      PROVE  /\ Cardinality(Stale(a)') \in Nat /\ Cardinality(Stale(a)) \in Nat
             /\ Cardinality(Requests) \in Nat
             /\ Cardinality(Stale(a)') <= Cardinality(Stale(a))
             /\ r \in Stale(a) => Cardinality(Stale(a)') <= Cardinality(Stale(a)) - 1
             /\ Cardinality(Stale(a)') < Cardinality(Requests)
  <2> DEFINE S == Stale(a)
             T == Stale(a)'
  <2>1. S \in SUBSET Requests /\ T \subseteq S \ {r} /\ T \in SUBSET Requests
    BY <1>7, <1>8 DEF Stale
  <2>2. Cardinality(S) < Cardinality(Requests)
    BY <1>8 DEF GuessesCounted
  <2>3. /\ Cardinality(Requests) \in Nat
        /\ \A X \in SUBSET Requests : IsFiniteSet(X) /\ Cardinality(X) \in Nat
        /\ \A X \in SUBSET Requests, Y \in SUBSET Requests :
              X \subseteq Y => Cardinality(X) <= Cardinality(Y)
    BY StaleCount
  <2> HIDE DEF S, T
  <2>4. r \in S => Cardinality(S \ {r}) = Cardinality(S) - 1
    BY <2>1, <2>3, FS_RemoveElement
  <2>5. Cardinality(T) <= Cardinality(S \ {r})
    BY <2>1, <2>3
  <2>6. Cardinality(T) <= Cardinality(S)
    BY <2>1, <2>3
  <2> QED BY <2>1, <2>2, <2>3, <2>4, <2>5, <2>6 DEF S, T
<1>9. \A a \in Addresses : \A g \in Guessing : ~Owes(req[r], a, g)
  BY DEF Owes, Counted, Ended
<1>10. ASSUME NEW a \in Addresses, NEW g \in Guessing, Owed(a, g)  PROVE Owed(a, g)'
  <2>1. PICK s \in Requests : Owes(req[s], a, g)
    BY <1>10 DEF Owed
  <2>2. req'[s] = req[s]
    BY <1>1, <1>9, <1>10, <2>1
  <2>3. Owes(req[s], a, g)'
    BY <2>1, <2>2 DEF Owes, Counted, At
  <2> QED BY <2>3 DEF Owed
<1>11. ASSUME NEW a \in Addresses, NEW g \in Guessing  PROVE Balanced(a, g)'
  <2> DEFINE k == Capped(CountOf(<<a, epoch[a].id, g>>))
  <2>1. k \in Nat /\ k' = k
    <3>1. k \in Nat
      BY Counts, Constants DEF Capped
    <3> QED BY <3>1 DEF Capped, CountOf
  <2>2. <<a, g>> \in Addresses \X Groups
    BY <1>11 DEF Guessing, Groups
  <2>3. wrong[<<a, g>>] \in Nat /\ wrong'[<<a, g>>] \in Nat
    BY <1>4, <2>2
  <2>4. Balanced(a, g)
    BY <1>11 DEF GuessesCounted
  <2>5. wrong[<<a, g>>] + Cardinality(Stale(a)) <=
            k + Cardinality(Requests) - 1 + (IF Owed(a, g) THEN 1 ELSE 0)
    BY <2>4 DEF Balanced
  <2> HIDE DEF k
  <2>6. ASSUME wrong'[<<a, g>>] + Cardinality(Stale(a)') <=
                   k + Cardinality(Requests) - 1 + (IF Owed(a, g)' THEN 1 ELSE 0)
        PROVE  Balanced(a, g)'
    BY <2>1, <2>6 DEF Balanced, k
  <2>7. CASE <<a, g>> # <<b, h>>
    <3>1. wrong'[<<a, g>>] = wrong[<<a, g>>]
      BY <1>4, <2>2, <2>7
    <3> QED BY <1>8, <1>10, <1>11, <2>1, <2>3, <2>5, <2>6, <3>1
  <2>8. CASE a = b /\ g = h /\ r \in Stale(a)
    <3>1. wrong'[<<a, g>>] = wrong[<<a, g>>] + 1
      BY <1>4, <2>8
    <3> QED BY <1>8, <1>10, <1>11, <2>1, <2>3, <2>5, <2>6, <2>8, <3>1
  <2>9. CASE a = b /\ g = h /\ r \notin Stale(a)
    <3>1. wrong'[<<a, g>>] = wrong[<<a, g>>] + 1
      BY <1>4, <2>9
    <3>2. ~Owed(a, g)
      <4>1. req[r].stage \in Inside
        BY DEF Inside
      <4>2. \A s \in Requests \ {r} : ~Owes(req[s], a, g)
        BY <2>9, <4>1, OneInside DEF Owes
      <4> QED BY <1>9, <1>11, <4>2 DEF Owed
    <3>3. Owed(a, g)'
      <4>1. req[r].added \/ req[r].epoch = epoch[a].id
        BY <2>9 DEF Stale, Behind
      <4>2. Owes(req[r], a, g)'
        BY <1>1, <1>3, <2>9, <4>1 DEF Owes, Still, At, Inside
      <4> QED BY <4>2 DEF Owed
    <3> QED BY <1>8, <1>11, <2>1, <2>3, <2>5, <2>6, <3>1, <3>2, <3>3
  <2> QED BY <2>7, <2>8, <2>9
<1>12. \A a \in Addresses : wrong'[<<a, "options">>] = 0
  <2> TAKE a \in Addresses
  <2>1. <<a, "options">> \in Addresses \X Groups /\ <<a, "options">> # <<b, h>>
    BY <1>2 DEF Groups
  <2>2. wrong[<<a, "options">>] = 0
    BY DEF GuessesCounted
  <2> QED BY <1>4, <2>1, <2>2
<1>13. \A a \in Addresses : Cardinality(Stale(a)') < Cardinality(Requests)
  BY <1>8
<1>14. \A a \in Addresses : \A g \in Guessing : Balanced(a, g)'
  BY <1>11
<1> QED BY <1>4, <1>5, <1>6, <1>12, <1>13, <1>14 DEF GuessesCounted, At

\* A proof is verified: it is right, wrong or not looked at.
LEMMA VerifyGuesses ==
    ASSUME Typed, GuessesCounted, NEW r \in Requests, Verify(r)
    PROVE  GuessesCounted'
<1>1. req[r] \in Attempts /\ req[r].stage = "verify"
  BY StageShapes DEF Verify, Typed, AttemptStages
<1>2. PICK q : Turns(r, q) /\ req'[r] = q
  BY VerifyStep DEF Advances, Turns, Typed
<1>3. UNCHANGED <<now, count, epoch, turn>>
  BY DEF Verify, rates
<1>4. CASE /\ Move(r, "failed")
           /\ wrong' = [wrong EXCEPT ![<<Address(r), req[r].group>>] = @ + 1]
  BY <1>1, <1>3, <1>4, WrongGuess
<1>5. CASE UNCHANGED wrong /\ \E x \in {"passed", "refused", "blocked"} : Move(r, x)
  <2>1. PICK x \in {"passed", "refused", "blocked"} : Move(r, x)
    BY <1>5
  <2>2. /\ req[r].n = 0 /\ req[r].stage \in Inside \ Ended
        /\ CountOf(CounterOf(req[r])) <= Limit
    BY <1>1 DEF GuessesCounted, Sound, Inside, Ended
  <2>3. Still(q, req[r]) /\ q.stage = x /\ q.n = 0
    BY <1>1, <1>2, <2>1, <2>2, MovedFields DEF Attempting, AttemptStages
  <2>4. CounterOf(q) = CounterOf(req[r])
    BY <2>3 DEF CounterOf, Still, At
  <2>5. Sound(q)
    BY <2>2, <2>3, <2>4 DEF Sound, Counted, Ended
  <2> QED BY <1>1, <1>2, <1>3, <1>5, <2>2, <2>3, <2>5, InnerGuesses
<1> QED BY <1>4, <1>5 DEF Verify

\* What the end of an attempt does to the counters, the epochs and the turns.
LEMMA WrittenCounts ==
    ASSUME Typed, GuessesCounted, NEW r \in Requests, req[r] \in Attempts,
           req[r].stage \in {"done", "blocked", "lost", "admit"},
           NEW id \in Nat, NEW since, Written(r, id, since)
    PROVE  /\ Counted(req[r]) =>
                 \A x : CountOf(x)' = IF x = CounterOf(req[r]) THEN req[r].n ELSE CountOf(x)
           /\ ~Counted(req[r]) => \A x : CountOf(x)' = CountOf(x)
           /\ \A a \in Addresses : epoch'[a].id = IF a = At(req[r]) THEN id ELSE epoch[a].id
           /\ \A a \in Addresses : turn[a] # r => turn'[a] = turn[a]
<1> DEFINE c == CounterOf(req[r])
           n == req[r].n
           b == At(req[r])
<1>1. Counter(r) = c /\ Address(r) = b
  BY DEF Counter, CounterOf, Address, At
<1>2. b \in Addresses /\ n \in Nat
  BY Constants DEF At, Attempts
<1>3. Counted(req[r]) <=> n > 0 /\ req[r].window = now \div Window
  <2>1. req[r].stage \in {"lost", "admit"} => n = 0
    BY DEF GuessesCounted, Sound, Inside, Ended
  <2> QED BY <1>2, <2>1 DEF Counted, Ended
<1>4. count' = IF n > 0 /\ req[r].window = now \div Window THEN Put(count, c, n) ELSE count
  BY <1>1 DEF Written
<1>5. \A a \in Addresses : epoch'[a].id = IF a = b THEN id ELSE epoch[a].id
  BY <1>1, <1>2 DEF Written, Typed, Tables
<1>6. \A a \in Addresses : turn[a] # r => turn'[a] = turn[a]
  BY <1>1, <1>2 DEF Written, Typed, Tables
<1> HIDE DEF c, n, b
<1>7. CASE Counted(req[r])
  <2>1. count' = Put(count, c, n)
    BY <1>3, <1>4, <1>7
  <2>2. /\ DOMAIN count' = DOMAIN count \cup {c}
        /\ \A x \in DOMAIN count \cup {c} : count'[x] = IF x = c THEN n ELSE count[x]
    BY <2>1 DEF Put
  <2>3. \A x : CountOf(x)' = IF x = c THEN n ELSE CountOf(x)
    BY <2>2 DEF CountOf
  <2> QED BY <1>5, <1>6, <1>7, <2>3 DEF c, n, b
<1>8. CASE ~Counted(req[r])
  <2>1. count' = count
    BY <1>3, <1>4, <1>8
  <2> QED BY <1>5, <1>6, <1>8, <2>1 DEF CountOf, b
<1> QED BY <1>7, <1>8

\* An attempt ends: what it counted is written, and the next one may have the turn.  If it
\* writes a new epoch, what was wrong at the address is forgiven.
LEMMA EndedGuesses ==
    ASSUME Typed, GuessesCounted, NEW r \in Requests, req[r] \in Attempts,
           req[r].stage \in {"done", "blocked", "lost", "admit"},
           NEW q, Turns(r, q), q.stage \in {"idle", "save"},
           NEW id \in Nat, NEW since, Written(r, id, since), UNCHANGED now,
           \/ wrong' = wrong /\ id = epoch[At(req[r])].id /\ ~req[r].added
           \/ wrong' = Forgiven(r)
    PROVE  GuessesCounted'
<1> DEFINE b == At(req[r])
           c == CounterOf(req[r])
<1>1. req'[r] = q /\ \A s \in Requests \ {r} : req'[s] = req[s]
  BY DEF Turns, Typed
<1>2. /\ Counted(req[r]) => \A x : CountOf(x)' = IF x = c THEN req[r].n ELSE CountOf(x)
      /\ ~Counted(req[r]) => \A x : CountOf(x)' = CountOf(x)
      /\ \A a \in Addresses : epoch'[a].id = IF a = b THEN id ELSE epoch[a].id
      /\ \A a \in Addresses : turn[a] # r => turn'[a] = turn[a]
  BY WrittenCounts
<1>3. b \in Addresses /\ Address(r) = b /\ c[1] = b /\ req[r].n \in Nat
  BY Constants DEF At, Attempts, Address, CounterOf
<1>4. req[r].stage \in Inside
  BY DEF Inside
<1>5. \A s \in Requests \ {r} : req[s].stage \in Inside \cup {"turn"} => At(req[s]) \in Addresses
  <2> TAKE s \in Requests \ {r}
  <2> HAVE req[s].stage \in Inside \cup {"turn"}
  <2>1. req[s] \in Attempts
    BY StageShapes DEF Typed, Inside, AttemptStages
  <2> QED BY <2>1, Constants DEF At, Attempts
<1>6. \A s \in Requests \ {r} : req[s].stage \in Inside => At(req[s]) # b
  BY <1>4, OneInside
<1>7. q.stage \notin Inside
  BY DEF Inside
<1>8. \A s \in Requests : req'[s].stage \in Inside => turn'[At(req'[s])] = s
  BY <1>1, <1>2, <1>5, <1>7 DEF GuessesCounted
<1>9. \A s \in Requests : Sound(req[s])'
  <2> TAKE s \in Requests
  <2>1. CASE s = r
    <3>1. req'[s].stage \in {"idle", "save"}
      BY <1>1, <2>1
    <3> QED BY <3>1 DEF Sound, Counted, Inside, Ended
  <2>2. CASE s # r /\ req[s].stage \in Inside
    <3>1. CounterOf(req[s]) # c /\ req'[s] = req[s] /\ Sound(req[s])
      BY <1>1, <1>3, <1>6, <2>2 DEF CounterOf, GuessesCounted
    <3>2. CountOf(CounterOf(req[s]))' = CountOf(CounterOf(req[s]))
      <4>1. CounterOf(req[s])' = CounterOf(req[s])
        BY <3>1 DEF CounterOf, At
      <4> DEFINE x == CounterOf(req[s])
      <4>2. x # c
        BY <3>1
      <4>3. \A y : y # c => CountOf(y)' = CountOf(y)
        BY <1>2
      <4> HIDE DEF c
      <4>4. \A y : y # c => (IF y \in DOMAIN count' THEN count'[y] ELSE 0) = CountOf(y)
        BY <4>3 DEF CountOf
      <4>5. (IF x \in DOMAIN count' THEN count'[x] ELSE 0) = CountOf(x)
        BY <4>2, <4>4
      <4> HIDE DEF x
      <4>6. CountOf(CounterOf(req[s]))' = IF x \in DOMAIN count' THEN count'[x] ELSE 0
        BY <4>1 DEF CountOf, x
      <4> QED BY <4>5, <4>6 DEF x
    <3> QED BY <3>1, <3>2 DEF Sound, Counted
  <2>3. CASE s # r /\ req[s].stage \notin Inside
    <3>1. req'[s] = req[s] /\ Sound(req[s])
      BY <1>1, <2>3 DEF GuessesCounted
    <3>2. req[s].stage \notin {"verify", "failed", "refused"} \cup Ended
      BY <2>3 DEF Inside, Ended
    <3> QED BY <3>1, <3>2 DEF Sound, Counted
  <2> QED BY <2>1, <2>2, <2>3
<1>10. ASSUME NEW a \in Addresses, a # b \/ id = epoch[b].id
       PROVE  Stale(a)' \subseteq Stale(a)
  <2>1. epoch'[a].id = epoch[a].id
    BY <1>2, <1>10
  <2>2. ASSUME NEW s \in Requests, Behind(req[s], a)'  PROVE s \in Stale(a)
    <3>1. s # r
      BY <1>1, <2>2 DEF Behind
    <3>2. req'[s] = req[s]
      BY <1>1, <3>1
    <3> QED BY <2>1, <2>2, <3>2 DEF Behind, At, Stale
  <2> QED BY <2>2 DEF Stale
<1>11. ASSUME NEW a \in Addresses
       PROVE  /\ Cardinality(Stale(a)') \in Nat /\ Cardinality(Stale(a)) \in Nat
              /\ Cardinality(Requests) \in Nat
              /\ a # b \/ id = epoch[b].id =>
                    Cardinality(Stale(a)') <= Cardinality(Stale(a))
              /\ Cardinality(Stale(a)') < Cardinality(Requests)
  <2> DEFINE T == Stale(a)'
  <2>1. T \in SUBSET Requests /\ Stale(a) \in SUBSET Requests
    BY DEF Stale
  <2>2. r \notin T
    BY <1>1 DEF Stale, Behind
  <2>3. a # b \/ id = epoch[b].id => T \subseteq Stale(a)
    BY <1>10, <1>11
  <2> HIDE DEF T
  <2> QED BY <2>1, <2>2, <2>3, StaleCount DEF T
<1>12. /\ wrong \in [Addresses \X Groups -> Nat] /\ wrong' \in [Addresses \X Groups -> Nat]
       /\ \A x \in Addresses \X Groups : x[1] # b => wrong'[x] = wrong[x]
       /\ \A x \in Addresses \X Groups : wrong'[x] = wrong[x] \/ (wrong'[x] = 0 /\ x[1] = b)
       /\ wrong' = Forgiven(r) => \A x \in Addresses \X Groups : x[1] = b => wrong'[x] = 0
  <2>1. wrong \in [Addresses \X Groups -> Nat]
    BY DEF GuessesCounted
  <2> QED BY <1>3, <2>1 DEF Forgiven
<1>13. \A a \in Addresses : wrong'[<<a, "options">>] = 0
  <2> TAKE a \in Addresses
  <2>1. <<a, "options">> \in Addresses \X Groups /\ wrong[<<a, "options">>] = 0
    BY DEF Groups, GuessesCounted
  <2> QED BY <1>12, <2>1
<1>14. ASSUME NEW a \in Addresses, NEW g \in Guessing  PROVE Balanced(a, g)'
  <2> DEFINE x == <<a, epoch[a].id, g>>
             k == CountOf(x)
             l == IF x \in DOMAIN count' THEN count'[x] ELSE 0
  <2>1. <<a, g>> \in Addresses \X Groups /\ g # "options"
    BY <1>14 DEF Guessing, Groups
  <2>2. wrong[<<a, g>>] \in Nat /\ wrong'[<<a, g>>] \in Nat
    BY <1>12, <2>1
  <2>3. /\ l = IF Counted(req[r]) /\ x = c THEN req[r].n ELSE k
        /\ k \in Nat /\ l \in Nat /\ Limit \in Nat
    <3>1. \A y : (IF y \in DOMAIN count' THEN count'[y] ELSE 0)
                     = IF Counted(req[r]) /\ y = c THEN req[r].n ELSE CountOf(y)
      BY <1>2 DEF CountOf
    <3>2. k \in Nat /\ Limit \in Nat
      BY Counts, Constants
    <3> HIDE DEF x, c
    <3> QED BY <1>3, <3>1, <3>2
  <2>4. CASE a = b /\ wrong' = Forgiven(r)
    <3>1. wrong'[<<a, g>>] = 0
      BY <1>12, <2>1, <2>4
    <3>2. Capped(CountOf(<<a, epoch[a].id, g>>))' \in Nat
      <4>1. \A y : (IF y \in DOMAIN count' THEN count'[y] ELSE 0) \in Nat
        BY <1>2, <1>3, Counts DEF CountOf
      <4>2. CountOf(<<a, epoch[a].id, g>>)' \in Nat
        BY <4>1 DEF CountOf
      <4> QED BY <2>3, <4>2 DEF Capped
    <3>3. wrong'[<<a, g>>] + Cardinality(Stale(a)') <= Cardinality(Requests) - 1
      BY <1>11, <3>1
    <3> QED BY <1>11, <1>14, <3>1, <3>2, <3>3 DEF Balanced
  <2>5. CASE ~(a = b /\ wrong' = Forgiven(r))
    <3>1. a # b \/ (id = epoch[b].id /\ ~req[r].added)
      BY <2>5
    <3>2. epoch'[a].id = epoch[a].id
      BY <1>2, <3>1, <1>14
    <3>3. wrong'[<<a, g>>] = wrong[<<a, g>>]
      BY <1>12, <2>1, <2>5
    <3>4. Cardinality(Stale(a)') <= Cardinality(Stale(a))
      BY <1>11, <1>14, <3>1
    <3>5. CountOf(<<a, epoch[a].id, g>>)' = l
      BY <3>2 DEF CountOf
    <3>6. Balanced(a, g)
      BY <1>14 DEF GuessesCounted
    <3>7. wrong[<<a, g>>] + Cardinality(Stale(a)) <=
              Capped(k) + Cardinality(Requests) - 1 + (IF Owed(a, g) THEN 1 ELSE 0)
      BY <3>6 DEF Balanced
    <3>8. ASSUME ~(Counted(req[r]) /\ x = c), Owed(a, g)  PROVE Owed(a, g)'
      <4>1. PICK s \in Requests : Owes(req[s], a, g)
        BY <3>8 DEF Owed
      <4>2. s # r
        <5> SUFFICES ASSUME s = r PROVE FALSE
          OBVIOUS
        <5>1. /\ a = b /\ g = req[r].group /\ Counted(req[r])
              /\ req[r].added \/ req[r].epoch = epoch[a].id
          BY <4>1 DEF Owes
        <5>2. req[r].epoch = epoch[a].id
          BY <3>1, <5>1
        <5> QED BY <3>8, <5>1, <5>2 DEF CounterOf
      <4>3. req'[s] = req[s]
        BY <1>1, <4>2
      <4>4. Owes(req[s], a, g)'
        BY <3>2, <4>1, <4>3 DEF Owes, Counted, At
      <4> QED BY <4>4 DEF Owed
    <3>9. ASSUME Counted(req[r]), x = c
          PROVE  l = k + 1 /\ (Owed(a, g) => k <= Limit)
      <4>1. a = b /\ g = req[r].group /\ req[r].group # "options" /\ k = CountOf(c)
        BY <2>1, <3>9 DEF CounterOf
      <4>2. /\ req[r].n = CountOf(c) + 1
            /\ req[r].proof # Garbled => CountOf(c) <= Limit
        BY <3>9, <4>1 DEF GuessesCounted, Sound
      <4>3. Owed(a, g) => req[r].proof # Garbled
        <5>1. \A s \in Requests \ {r} : ~Owes(req[s], a, g)
          BY <1>6, <4>1 DEF Owes
        <5> QED BY <5>1 DEF Owed, Owes
      <4>4. l = req[r].n
        BY <2>3, <3>9
      <4> QED BY <4>1, <4>2, <4>3, <4>4
    <3> HIDE DEF k, l, x, c
    <3>10. /\ Capped(k) \in Nat /\ Capped(l) \in Nat
           /\ l = k + 1 => Capped(k) <= Capped(l)
           /\ l = k + 1 /\ k <= Limit => Capped(l) = Capped(k) + 1
      BY <2>3 DEF Capped
    <3>11. Capped(k) + (IF Owed(a, g) THEN 1 ELSE 0) <=
               Capped(l) + (IF Owed(a, g)' THEN 1 ELSE 0)
      <4>1. CASE Counted(req[r]) /\ x = c
        BY <3>9, <3>10, <4>1
      <4>2. CASE ~(Counted(req[r]) /\ x = c)
        <5>1. l = k
          BY <2>3, <4>2
        <5> QED BY <3>8, <3>10, <4>2, <5>1
      <4> QED BY <4>1, <4>2
    <3>12. wrong'[<<a, g>>] + Cardinality(Stale(a)') <=
               Capped(l) + Cardinality(Requests) - 1 + (IF Owed(a, g)' THEN 1 ELSE 0)
      <4>1. /\ Cardinality(Stale(a)') \in Nat /\ Cardinality(Stale(a)) \in Nat
            /\ Cardinality(Requests) \in Nat
        BY <1>11, <1>14
      <4> QED BY <2>2, <3>3, <3>4, <3>7, <3>10, <3>11, <4>1
    <3>13. Capped(CountOf(<<a, epoch[a].id, g>>))' = Capped(l)
      BY <3>5 DEF Capped
    <3> QED BY <3>12, <3>13 DEF Balanced
  <2> QED BY <2>4, <2>5
<1>15. \A a \in Addresses : Cardinality(Stale(a)') < Cardinality(Requests)
  BY <1>11
<1>16. \A a \in Addresses : \A g \in Guessing : Balanced(a, g)'
  BY <1>14
<1> QED BY <1>8, <1>9, <1>12, <1>13, <1>15, <1>16 DEF GuessesCounted, At

\* The end of an attempt that does not log in.
LEMMA EndAttemptGuesses ==
    ASSUME Typed, GuessesCounted, NEW r \in Requests, EndAttempt(r)
    PROVE  GuessesCounted'
<1>1. /\ Tables' /\ req[r] \in Attempts /\ req[r].stage \in {"done", "blocked", "lost"}
      /\ \E q : Turns(r, q)
  BY EndAttemptStep
<1>2. PICK q : Turns(r, q) /\ req'[r] = q
  BY <1>1 DEF Turns, Typed
<1>3. q.stage \in {"idle", "save"}
  <2>1. req[r] # Idle /\ req[r] \in Shapes /\ req[r].copy \in Data
    BY <1>1 DEF Idle, Typed, Attempts
  <2>2. CASE Leave(r, Aborted(req[r].copy)) \/ Leave(r, req[r].copy)
    <3>1. PICK d \in {Aborted(req[r].copy), req[r].copy} : Leave(r, d)
      BY <2>2
    <3>2. d \in Data
      BY <2>1, DataUpdates DEF Aborted
    <3>3. PICK p \in Shapes : req' = [req EXCEPT ![r] = p] /\ (p = Idle \/ p.stage = "save")
      BY <2>1, <3>1, <3>2, LeaveShape DEF Typed
    <3> QED BY <1>2, <3>3 DEF Idle, Typed
  <2>3. CASE Move(r, "save")
    BY <1>1, <1>2, <2>3, MovedFields DEF Move, Typed, Attempts
  <2> QED BY <2>2, <2>3 DEF EndAttempt
<1>4. /\ Written(r, EpochWritten(r), req[r].touched) /\ UNCHANGED now
      /\ wrong' = IF req[r].added THEN Forgiven(r) ELSE wrong
  BY DEF EndAttempt
<1>5. EpochWritten(r) \in Nat /\ (~req[r].added => EpochWritten(r) = epoch[At(req[r])].id)
  BY <1>1, Constants DEF EpochWritten, Attempts, Address, At, Typed, Tables
<1> QED BY <1>1, <1>2, <1>3, <1>4, <1>5, EndedGuesses

\* A login.
LEMMA AdmitGuesses ==
    ASSUME Typed, GuessesCounted, NEW r \in Requests, Admit(r)
    PROVE  GuessesCounted'
<1>1. req[r] \in Attempts /\ Turns(r, Idle) /\ Idle.stage = "idle"
  BY AdmitStep DEF Idle
<1>2. /\ Written(r, epoch[Address(r)].id + 1, now) /\ UNCHANGED now /\ wrong' = Forgiven(r)
      /\ req[r].stage = "admit"
  BY DEF Admit
<1>3. epoch[Address(r)].id + 1 \in Nat
  BY <1>1, Constants DEF Attempts, Address, Typed, Tables
<1> QED BY <1>1, <1>2, <1>3, EndedGuesses

\* In a new window nothing has been counted and nothing was wrong.
LEMMA TickGuesses ==
    ASSUME Typed, GuessesCounted, Tick
    PROVE  GuessesCounted'
<1>1. UNCHANGED <<req, epoch, turn>> /\ now' = now + 1
  BY DEF Tick
<1>2. CASE now' \div Window = now \div Window
  <2>1. UNCHANGED <<count, wrong>>
    BY <1>2 DEF Tick
  <2> QED BY <1>1, <1>2, <2>1 DEF GuessesCounted, Sound, Counted, CountOf, CounterOf, At, Stale,
             Behind, Balanced, Owed, Owes, Capped
<1>3. CASE now' \div Window # now \div Window
  <2>1. count' = <<>> /\ wrong' = [x \in DOMAIN wrong |-> 0]
    BY <1>3 DEF Tick
  <2>2. \A x : CountOf(x)' = 0
    <3>1. DOMAIN count' = {}
      BY <2>1
    <3> QED BY <3>1 DEF CountOf
  <2>3. \A x \in Addresses \X Groups : wrong'[x] = 0
    BY <2>1 DEF GuessesCounted
  <2>4. wrong' \in [Addresses \X Groups -> Nat]
    BY <2>1 DEF GuessesCounted
  <2>5. /\ now \div Window \in Nat /\ now' \div Window \in Nat
        /\ now \div Window < now' \div Window
    <3>1. now \div Window \in Nat
      BY Windowed
    <3>2. (now + 1) \div Window \in Nat /\ now \div Window <= (now + 1) \div Window
      BY Windowed
    <3> QED BY <1>1, <1>3, <3>1, <3>2
  <2>6. \A s \in Requests : Sound(req[s])'
    <3> TAKE s \in Requests
    <3> DEFINE q == req[s]
    <3>1. Sound(q) /\ q' = q
      BY <1>1 DEF GuessesCounted
    <3>2. q.stage \in Ended /\ q.n > 0 => q.window <= now \div Window /\ q.window \in Nat
      <4>1. ASSUME q.stage \in Ended PROVE q \in Attempts
        BY <4>1, StageShapes DEF Typed, Ended, AttemptStages
      <4>2. Windows \subseteq Nat
        BY Constants DEF Windows
      <4> QED BY <3>1, <4>1, <4>2 DEF Sound, Attempts
    <3>3. q.stage \in Ended /\ q.n > 0 => q.window <= now' \div Window
                                          /\ q.window # now' \div Window
      BY <2>5, <3>2
    <3>4. Limit \in Nat
      BY Constants
    <3>5. q.stage \in (Inside \cup {"turn"}) \ Ended => q.n = 0
      BY <3>1 DEF Sound
    <3>6. q.stage = "verify" => q.proof # Garbled
      BY <3>1 DEF Sound
    <3>7. ~Counted(q)'
      BY <3>1, <3>3 DEF Counted
    <3>8. CountOf(CounterOf(q))' <= Limit
      <4>1. CountOf(CounterOf(q))' = 0
        BY <2>1 DEF CountOf
      <4> QED BY <3>4, <4>1
    <3> HIDE DEF q
    <3> QED BY <3>1, <3>3, <3>5, <3>6, <3>7, <3>8 DEF Sound, q
  <2>7. \A a : Stale(a)' = Stale(a)
    BY <1>1 DEF Stale, Behind, At
  <2>8. ASSUME NEW a \in Addresses, NEW g \in Guessing  PROVE Balanced(a, g)'
    <3>1. wrong'[<<a, g>>] = 0
      BY <2>3, <2>8 DEF Guessing, Groups
    <3>2. Capped(CountOf(<<a, epoch[a].id, g>>))' = 0
      <4>1. CountOf(<<a, epoch[a].id, g>>)' = 0
        BY <2>1 DEF CountOf
      <4> QED BY <4>1, Constants DEF Capped
    <3>3. Cardinality(Stale(a)') < Cardinality(Requests)
      BY <2>7, <2>8 DEF GuessesCounted
    <3>4. Cardinality(Stale(a)') \in Nat /\ Cardinality(Requests) \in Nat
      BY <2>7, StaleCount
    <3> QED BY <3>1, <3>2, <3>3, <3>4 DEF Balanced
  <2>9. \A a \in Addresses : wrong'[<<a, "options">>] = 0
    BY <2>3 DEF Groups
  <2>10. \A a \in Addresses : Cardinality(Stale(a)') < Cardinality(Requests)
    BY <2>7 DEF GuessesCounted
  <2>11. \A s \in Requests : req'[s].stage \in Inside => turn'[At(req'[s])] = s
    BY <1>1 DEF GuessesCounted
  <2> QED BY <2>4, <2>6, <2>8, <2>9, <2>10, <2>11 DEF GuessesCounted, At
<1> QED BY <1>2, <1>3

\* Every step keeps the counts.
LEMMA GuessesNext == Typed /\ GuessesCounted /\ [Next]_vars => GuessesCounted'
<1> SUFFICES ASSUME Typed, GuessesCounted, [Next]_vars PROVE GuessesCounted'
  OBVIOUS
<1>1. CASE \E r \in Requests : Doing(r)
  <2>1. PICK r \in Requests : Doing(r)
    BY <1>1
  <2> QED BY <2>1, ArrivalGuesses, PlainGuesses, TakeTurnGuesses, PrecheckGuesses,
             RegisterGuesses, CompleteGuesses, VerifyGuesses, EndAttemptGuesses, AdmitGuesses
          DEF Doing, Step
<1>2. CASE Tick
  BY <1>2, TickGuesses
<1>3. CASE \/ \E b \in Browsers : Logout(b)
           \/ \E f \in Factors : RemoveFactor(f)
           \/ ChangeRole \/ Rest \/ UNCHANGED vars
  <2>1. UNCHANGED <<now, req, count, epoch, turn, wrong>>
    BY <1>3 DEF Logout, RemoveFactor, ChangeRole, Rest, vars, rates, aux
  <2> QED BY <2>1 DEF GuessesCounted, Sound, Counted, CountOf, CounterOf, At, Stale, Behind,
             Balanced, Owed, Owes, Capped
<1> QED BY <1>1, <1>2, <1>3, NextParts DEF Around

\* There is nothing to count at first.
LEMMA GuessesInit == Init => GuessesCounted
<1> SUFFICES ASSUME Init PROVE GuessesCounted
  OBVIOUS
<1>1. /\ req = [r \in Requests |-> Idle] /\ wrong = [x \in Addresses \X Groups |-> 0]
      /\ count = <<>>
  BY DEF Init
<1>2. \A r \in Requests : req[r].stage = "idle"
  BY <1>1 DEF Idle
<1>3. /\ \A r \in Requests : req[r].stage \in Inside => turn[At(req[r])] = r
      /\ \A r \in Requests : Sound(req[r])
  BY <1>2 DEF Inside, Ended, Sound, Counted
<1>4. ASSUME NEW a \in Addresses
      PROVE  Cardinality(Stale(a)) = 0 /\ Cardinality(Stale(a)) < Cardinality(Requests)
  <2>1. Stale(a) = {}
    BY <1>2 DEF Stale, Behind
  <2>2. Cardinality(Requests) \in Nat /\ Cardinality(Requests) # 0
    BY LoginAssumption, FS_CardinalityType, FS_EmptySet
  <2> QED BY <2>1, <2>2, FS_EmptySet
<1>5. ASSUME NEW a \in Addresses, NEW g \in Guessing  PROVE Balanced(a, g)
  <2>1. wrong[<<a, g>>] = 0
    BY <1>1, <1>5 DEF Guessing, Groups
  <2>2. CountOf(<<a, epoch[a].id, g>>) = 0
    BY <1>1 DEF CountOf
  <2>3. Cardinality(Requests) \in Nat
    BY StaleCount
  <2> QED BY <1>4, <1>5, <2>1, <2>2, <2>3, Constants DEF Balanced, Capped
<1>6. \A a \in Addresses : wrong[<<a, "options">>] = 0
  BY <1>1 DEF Groups
<1>7. wrong \in [Addresses \X Groups -> Nat]
  BY <1>1
<1>8. /\ \A a \in Addresses : Cardinality(Stale(a)) < Cardinality(Requests)
      /\ \A a \in Addresses : \A g \in Guessing : Balanced(a, g)
  BY <1>4, <1>5
<1> QED BY <1>3, <1>6, <1>7, <1>8 DEF GuessesCounted

-----------------------------------------------------------------------------
(* The invariant *)

\* It holds before any request.
LEMMA InvInit == Init => Inv
<1> SUFFICES ASSUME Init PROVE Inv
  OBVIOUS
<1>1. /\ now = 0 /\ rows = <<>> /\ role = TRUE /\ factors = Factors /\ codes = Codes
      /\ count = <<>> /\ lock = NoOne /\ flows = 0 /\ admitted = 0 /\ left \in Budgets
      /\ barred = {} /\ reopened = {}
      /\ jar = [b \in Browsers |-> NoKey] /\ req = [r \in Requests |-> Idle]
      /\ epoch = [a \in Addresses |-> [id |-> 0, since |-> 0]]
      /\ turn = [a \in Addresses |-> NoOne] /\ logins = [c \in Codes |-> 0]
  BY DEF Init
<1>2. DOMAIN rows = {} /\ DOMAIN count = {}
  BY <1>1
<1>3. Tables
  BY <1>1, <1>2, Constants DEF Tables, RequestKeys
<1>4. Idle \in Shapes /\ Proper(Idle)
  BY DEF Shapes, Proper, Idle, AttemptStages, Proving
<1>5. \A r \in Requests : req[r] = Idle /\ Idle.stage = "idle"
  BY <1>1 DEF Idle
<1>6. req \in [Requests -> Shapes]
  BY <1>1, <1>4
<1>7. CodesHeld
  BY <1>1, <1>5 DEF CodesHeld, Holding, Accepted
<1>8. SessionsKept
  BY <1>1, <1>2, <1>5 DEF SessionsKept
<1> QED BY <1>3, <1>4, <1>5, <1>6, <1>7, <1>8 DEF Inv, Typed

\* Every reachable state has the invariant.
LEMMA InvHolds == Spec => []Inv
<1>1. Inv /\ [Next]_vars => Inv'
  BY TypedNext, CodesNext, SessionsNext DEF Inv
<1> QED BY InvInit, <1>1, PTL DEF Spec

\* The shapes of the state: sessions, requests, counters and locks are what the code makes.
THEOREM TypeCorrect == Spec => []TypeOK
<1>1. Inv => TypeOK
  <2> SUFFICES ASSUME Inv PROVE TypeOK
    OBVIOUS
  <2>1. Range(rows) \subseteq Data
    BY DEF Inv, Typed, Tables, Range
  <2>2. \A r \in Requests : /\ req[r].stage \in Stages
                            /\ req[r].stage # "idle" => req[r].copy \in Data
    BY StageShapes DEF Inv, Typed, Idle
  <2> QED BY <2>1, <2>2 DEF Inv, Typed, Tables, TypeOK, RequestKeys
<1> QED BY InvHolds, <1>1, PTL

\* A code logs in once, for any number of requests that submit it at the same time from any
\* number of browsers and addresses: verify_admin_code holds the rows to the commit.
THEOREM OneLogin == Spec => []OneLoginPerCode
<1>1. Inv => OneLoginPerCode
  BY DEF Inv, CodesHeld, OneLoginPerCode
<1> QED BY InvHolds, <1>1, PTL

\* No row and no copy about to be saved is in a pending flow and has a user or an assurance.
THEOREM StagesNeverMix == Spec => []StagesApart
<1>1. Inv => StagesApart
  <2> SUFFICES ASSUME Inv,
                      NEW d \in Range(rows)
                                \cup {req[r].copy : r \in {x \in Requests : req[x].stage = "save"}}
               PROVE  Apart(d)
    BY DEF StagesApart, Apart
  <2>1. CASE d \in Range(rows)
    BY <2>1 DEF Inv, SessionsKept, Range
  <2>2. CASE d \notin Range(rows)
    <3>1. PICK r \in Requests : req[r].stage = "save" /\ d = req[r].copy
      BY <2>2
    <3> QED BY <3>1 DEF Inv, SessionsKept, Fair, Idle
  <2> QED BY <2>1, <2>2
<1> QED BY InvHolds, <1>1, PTL

\* A session that a page was refused to never shows a page again, whatever requests were in
\* progress with it and whatever becomes of the role.
THEOREM RefusedStays == Spec => []RefusedStaysOut
<1>1. Inv => RefusedStaysOut
  BY DEF Inv, SessionsKept, RefusedStaysOut
<1> QED BY InvHolds, <1>1, PTL

\* A login by a code commits while the authenticator of the code is there: its removal waits
\* for the rows.
THEOREM CodeFactor == Spec => CodeFactorHeld
<1> DEFINE Held == \A c \in Codes : logins'[c] > logins[c] => FactorOf(c) \in factors'
<1>1. Inv /\ [Next]_vars => Held
  <2> SUFFICES ASSUME Inv, [Next]_vars, NEW c \in Codes, logins'[c] > logins[c]
               PROVE  FactorOf(c) \in factors'
    OBVIOUS
  <2>1. logins \in [Codes -> Nat] /\ Typed
    BY DEF Inv, Typed, Tables
  <2>2. logins' # logins
    BY <2>1
  <2>3. PICK r \in Requests : Admit(r)
    <3>1. \A r \in Requests, b \in Browsers : Arrive(r, b) => UNCHANGED logins
      BY DEF Arrive, ArrivePassword, ArrivePage, ArriveAttempt, aux
    <3>2. \A r \in Requests : Step(r) => Admit(r) \/ UNCHANGED logins
      BY DEF Step, Password, Page, Save, TakeTurn, Precheck, Verify, Register, Complete,
             EndAttempt, aux
    <3>3. Around \/ UNCHANGED vars => UNCHANGED logins
      BY DEF Around, Logout, RemoveFactor, ChangeRole, Tick, Rest, vars, aux
    <3> QED BY <2>2, <3>1, <3>2, <3>3, NextParts DEF Doing
  <2>4. /\ req[r].stage = "admit" /\ UNCHANGED factors
        /\ logins' = IF req[r].proof \in Codes THEN [logins EXCEPT ![req[r].proof] = @ + 1]
                     ELSE logins
    BY <2>3 DEF Admit
  <2>5. c = req[r].proof
    BY <2>1, <2>4
  <2> QED BY <2>4, <2>5 DEF Inv, CodesHeld
<1>2. Inv /\ [Next]_vars => [Held]_vars
  BY <1>1
<1> QED BY InvHolds, <1>2, PTL DEF Spec, CodeFactorHeld

\* However many requests overlap, from however many browsers, and whatever flows they begin and
\* abandon: the wrong attempts of an address in a window stay within the limit and the number
\* of requests in progress, with one more while an expired epoch is being replaced.
THEOREM GuessesStayBounded == Spec => []GuessesBounded
<1>1. Typed /\ GuessesCounted => GuessesBounded
  <2> SUFFICES ASSUME Typed, GuessesCounted, NEW x \in DOMAIN wrong
               PROVE  wrong[x] <= Limit + Cardinality(Requests)
                                  + IF Renewing(x[1]) THEN 1 ELSE 0
    BY DEF GuessesBounded
  <2>1. PICK a \in Addresses, g \in Groups : x = <<a, g>>
    BY DEF GuessesCounted
  <2>2. Limit \in Nat /\ Cardinality(Requests) \in Nat /\ Cardinality(Stale(a)) \in Nat
    BY Constants, StaleCount
  <2>3. CASE g = "options"
    <3>1. wrong[x] = 0
      BY <2>1, <2>3 DEF GuessesCounted
    <3> QED BY <2>2, <3>1
  <2>4. CASE g # "options"
    <3> DEFINE k == CountOf(<<a, epoch[a].id, g>>)
    <3>1. k \in Nat /\ wrong[x] \in Nat /\ x[1] = a
      BY <2>1, Counts DEF GuessesCounted
    <3>2. wrong[x] + Cardinality(Stale(a)) <=
              Capped(k) + Cardinality(Requests) - 1 + (IF Owed(a, g) THEN 1 ELSE 0)
      BY <2>1, <2>4 DEF GuessesCounted, Balanced, Guessing, Groups
    <3>3. ASSUME Owed(a, g), ~Renewing(a)  PROVE k <= Limit
      <4>1. PICK r \in Requests : Owes(req[r], a, g)
        BY <3>3 DEF Owed
      <4>2. turn[a] = r /\ r # NoOne
        BY <4>1, Constants DEF GuessesCounted, Owes
      <4>3. ~req[r].added
        BY <3>3, <4>2 DEF Renewing
      <4>4. /\ CounterOf(req[r]) = <<a, epoch[a].id, g>> /\ req[r].proof # Garbled
            /\ req[r].stage = "failed" \/ Counted(req[r])
            /\ req[r].group # "options"
        BY <2>4, <4>1, <4>3 DEF Owes, CounterOf
      <4> QED BY <4>4 DEF GuessesCounted, Sound
    <3> HIDE DEF k
    <3>4. Capped(k) \in Nat /\ Capped(k) <= Limit + 1 /\ (k <= Limit => Capped(k) <= Limit)
      BY <2>2, <3>1 DEF Capped
    <3> QED BY <2>2, <3>1, <3>2, <3>3, <3>4
  <2> QED BY <2>3, <2>4
<1>2. Inv /\ GuessesCounted /\ [Next]_vars => GuessesCounted'
  BY GuessesNext DEF Inv
<1>3. Inv => Typed
  BY DEF Inv
<1> QED BY InvHolds, GuessesInit, <1>1, <1>2, <1>3, PTL DEF Spec
=============================================================================

------------------------ MODULE FlagEvaluationProofs ------------------------
(***************************************************************************)
(* What a request that evaluates its flags answers, whatever is changed    *)
(* meanwhile.  The invariant says of each running request what it has      *)
(* read: every rule it loaded and every group it remembers was committed   *)
(* at some time since it began (Truth), and as long as nothing is changed  *)
(* it holds what is committed, and each rule it has passed over decides    *)
(* nothing (Quiet).                                                        *)
(***************************************************************************)
EXTENDS FlagEvaluation, WellFoundedInduction, FiniteSetTheorems,
        SequenceTheorems, TLAPS

\* The guarded entries of the registry: DESIGN_ROLLOUT_POLICY and its variant for the contact
\* page name the group of the testers and are not sticky (registry.py).
GuardedPolicies ==
    \A f \in Flags : Policy[f].guarded # NoValue =>
        Policy[f].required # NoSlug /\ ~Policy[f].sticky

----------------------------------------------------------------------------
(* The invariant *)

Stages == {"flags", "rules", "overrides", "decide", "sticky", "rule", "policy", "persist", "done"}
Deciding == {"sticky", "rule", "policy", "persist"}
Trying == {"rule", "policy", "persist"}
Holding == {"policy", "persist"}

CookieOK(c) ==
    /\ c \in [owner : {c.owner}, choices : {c.choices}]
    /\ IsMap(c.choices, Flags, Values)
    /\ \A f \in DOMAIN c.choices : Policy[f].preview

\* The shape of a running request.
EvRecord(e) ==
    e \in [stage : Stages, subject : Subjects, staff : BOOLEAN, page : Pages,
          asked : {e.asked}, preview : {e.preview}, todo : Seq(Flags), got : {e.got},
          writes : {e.writes}, required : {e.required}, active : {e.active},
          sticky : {e.sticky}, default : {e.default}, rules : {e.rules}, over : {e.over},
          rest : {e.rest}]

EvOK(e) ==
    /\ EvRecord(e)
    /\ CookieOK(e.asked) /\ e.preview = PreviewOf(e.asked, e.subject, e.staff)
    /\ e.stage # "done" => e.todo # <<>>
    /\ IsMap(e.got, Flags, Values) /\ IsMap(e.writes, StickyKeys, Values)
    /\ IsMap(e.required, Slugs, SUBSET Groups)
    /\ e.stage # "flags" => /\ e.active \in [Flags -> BOOLEAN] /\ e.sticky \in [Flags -> BOOLEAN]
                            /\ e.default \in [Flags -> Values]
    /\ IsMap(e.rules, Rules, Rows) /\ IsMap(e.over, Flags \X Scopes, Values)
    /\ e.stage \in Deciding =>
           e.rest \subseteq {r \in DOMAIN e.rules : e.rules[r].flag = Head(e.todo)}
    /\ e.stage \in Holding => e.rest # {}

Typed ==
    /\ Tables(db)
    /\ cookie \in [Browsers -> {cookie[b] : b \in Browsers}]
    /\ ev \in [Browsers -> {ev[b] : b \in Browsers}]
    /\ seen \in [Browsers -> {seen[b] : b \in Browsers}]
    /\ \A b \in Browsers : CookieOK(cookie[b])
    /\ \A b \in Browsers : ev[b] = Idle \/ (EvOK(ev[b]) /\ db \in seen[b])

\* Truth: what request e has read was committed in one of the states in S.
Gave(d, f, v, page) ==
    {row \in Range(d.rules) : row.flag = f /\ row.enabled /\ row.value = v /\ OnPage(row, page)}

\* The value v of f is earned in these states, as GuardedEarned has it.
Earned(S, f, v, u, page, owner) ==
    \/ \E d, e \in S : \E row \in Gave(d, f, v, page), g \in Groups :
           row.audience = "group" /\ g \in row.groups
               /\ e.slug[g] = Policy[f].required /\ u \in e.members[g]
    \/ Policy[f].public /\ \E d \in S : \E row \in Gave(d, f, v, page) : row.audience = "everyone"
    \/ Policy[f].preview /\ owner = u /\ \E d \in S : u \in d.staff

\* The rule that the request is trying.
Tried(e) == e.rules[NextRule(e.rules, e.rest)]

ReaderTrue(e, S) == e.staff => \E d \in S : e.subject \in d.staff
RulesTrue(e, S) ==
    \A r \in DOMAIN e.rules : \E d \in S : r \in DOMAIN d.rules /\ d.rules[r] = e.rules[r]
RequiredTrue(e, S) ==
    \A s \in DOMAIN e.required : \A g \in e.required[s] :
        \E d \in S : d.slug[g] = s /\ e.subject \in d.members[g]
TurnTrue(e) ==
    /\ e.stage \in {"sticky", "persist"} => Policy[Head(e.todo)].sticky
    /\ e.stage \in Holding => Tried(e).enabled /\ OnPage(Tried(e), e.page)
AnswersTrue(e, S) ==
    \A f \in DOMAIN e.got : IsGuarded(f, e.got[f]) =>
        Earned(S, f, e.got[f], e.subject, e.page, e.asked.owner)

Truth(e, S) ==
    ReaderTrue(e, S) /\ RulesTrue(e, S) /\ RequiredTrue(e, S) /\ TurnTrue(e) /\ AnswersTrue(e, S)

Truthful == \A b \in Browsers : Busy(b) => Truth(ev[b], seen[b])

\* Quiet: what request e has read is in d, and what it has decided on is what d says.
Requested(e) == Range(EndpointKeys(e.subject, e.page))

ReaderQuiet(e, d) ==
    /\ e.staff = (e.subject \in d.staff)
    /\ Range(e.todo) \subseteq Requested(e)
    /\ e.stage \in {"flags", "rules", "overrides"} => e.todo = EndpointKeys(e.subject, e.page)

TablesQuiet(e, d) ==
    /\ e.stage # "flags" => e.active = d.active /\ e.sticky = d.sticky /\ e.default = d.default
    /\ e.stage \notin {"flags", "rules"} =>
           e.rules = Restrict(d.rules, {r \in DOMAIN d.rules : d.rules[r].flag \in Requested(e)})
    /\ e.stage \notin {"flags", "rules", "overrides"} =>
           e.over = Restrict(d.over, {x \in DOMAIN d.over : x[1] \in Requested(e)})

RequiredQuiet(e, d) ==
    \A s \in DOMAIN e.required : e.required[s] = RequiredGroup(d, s, e.subject)

\* Neither a preview nor an override decides; nor does an assignment.
Undecided(d, f, u, c) ==
    /\ d.active[f]
    /\ f \notin DOMAIN PreviewOf(c, u, u \in d.staff)
    /\ ~OverrideAllowed(f, Override(d.over, f, u))

Open(d, f, u, page, c) ==
    /\ Undecided(d, f, u, c)
    /\ d.sticky[f] /\ Policy[f].sticky => ~Valid(f, Kept(d, <<f, u, page>>))

\* The rules that request e has passed over.
PassedOver(e, d) == {r \in DOMAIN d.rules : d.rules[r].flag = Head(e.todo)} \ e.rest

TurnQuiet(e, d) ==
    LET f == Head(e.todo)
        applying == Applying(d, f, e.subject, e.page) IN
    /\ e.stage \in Deciding => /\ Undecided(d, f, e.subject, e.asked)
                               /\ PassedOver(e, d) \intersect applying = {}
    /\ e.stage \in {"sticky", "persist"} => d.sticky[f] /\ Policy[f].sticky
    /\ e.stage \in Trying => Open(d, f, e.subject, e.page, e.asked)
    /\ e.stage \in Holding => /\ Tried(e).enabled /\ OnPage(Tried(e), e.page)
                              /\ e.subject \in Reached(d, Tried(e), e.page)
                              /\ Valid(f, ResultOf(Tried(e), d.default[f]))
    /\ e.stage = "persist" => NextRule(e.rules, e.rest) \in applying

AnswersQuiet(e, d) ==
    /\ \A f \in DOMAIN e.got : e.got[f] = Reference(d, f, e.subject, e.page, e.asked)
    /\ \A k \in DOMAIN e.writes : ~Valid(k[1], Kept(d, k))

Quiet(e, d) ==
    /\ ReaderQuiet(e, d) /\ TablesQuiet(e, d) /\ RequiredQuiet(e, d)
    /\ TurnQuiet(e, d) /\ AnswersQuiet(e, d)

Steady == \A b \in Browsers : Busy(b) /\ seen[b] = {db} => Quiet(ev[b], db)

----------------------------------------------------------------------------
(* Lookups *)

LEMMA EmptyMap == ASSUME NEW S, NEW T PROVE IsMap(<<>>, S, T)
BY DEF IsMap

\* A key that is set has its value, the other keys keep theirs.
LEMMA PutMap ==
    ASSUME NEW f, NEW S, NEW T, IsMap(f, S, T), NEW k \in S, NEW v \in T
    PROVE  /\ IsMap(Put(f, k, v), S, T)
           /\ DOMAIN Put(f, k, v) = DOMAIN f \union {k}
           /\ Put(f, k, v)[k] = v
           /\ \A x \in DOMAIN f : x # k => Put(f, k, v)[x] = f[x]
<1>1. Put(f, k, v) \in [DOMAIN f \union {k} -> T]
  BY DEF Put, IsMap
<1> QED BY <1>1 DEF Put, IsMap

LEMMA RestrictedMap ==
    ASSUME NEW f, NEW S, NEW T, IsMap(f, S, T), NEW U \in SUBSET DOMAIN f
    PROVE  /\ IsMap(Restrict(f, U), S, T)
           /\ DOMAIN Restrict(f, U) = U
           /\ \A x \in U : Restrict(f, U)[x] = f[x]
<1>1. Restrict(f, U) \in [U -> T]
  BY DEF Restrict, IsMap
<1> QED BY <1>1 DEF Restrict, IsMap

\* A commit has the rows of both, those written before those found.
LEMMA CommitMap ==
    ASSUME NEW rows, NEW writes, NEW S, NEW T, IsMap(rows, S, T), IsMap(writes, S, T)
    PROVE  /\ IsMap(Commit(rows, writes), S, T)
           /\ \A k \in DOMAIN rows \ DOMAIN writes : Commit(rows, writes)[k] = rows[k]
<1>1. Commit(rows, writes) \in [DOMAIN rows \union DOMAIN writes -> T]
  BY DEF Commit, IsMap
<1> QED BY <1>1 DEF Commit, IsMap

----------------------------------------------------------------------------
(* The order of the rules *)

LEMMA RuleIds ==
    /\ Cardinality(Rules) \in Nat
    /\ \A r \in Rules : r \in Nat /\ 1 <= r /\ r <= Cardinality(Rules)
<1>1. Cardinality(Rules) \in Nat /\ Rules = 1..Cardinality(Rules)
  BY EvaluationAssumption, FS_CardinalityType
<1> QED BY <1>1

\* A non-empty set of naturals has a least element.
LEMMA LeastNumber ==
    ASSUME NEW S \in SUBSET Nat, S # {}
    PROVE  \E x \in S : \A y \in S : x <= y
<1> DEFINE R == {p \in Nat \X Nat : p[1] < p[2]}
<1>1. IsWellFoundedOn(R, Nat)
  <2>1. R \cap (Nat \X Nat) \subseteq OpToRel(<, Nat)
    BY DEF OpToRel
  <2> QED  BY <2>1, NatLessThanWellFounded, IsWellFoundedOnSubrelation
<1>2. PICK x \in S : \A y \in S : ~ (<<y, x>> \in R)
  <2> HIDE DEF R
  <2> QED  BY <1>1, WFMin
<1>3. ASSUME NEW y \in S  PROVE x <= y
  <2>1. <<y, x>> \in Nat \X Nat  OBVIOUS
  <2>2. ~ (y < x)  BY <1>2, <2>1
  <2> QED  BY <2>2
<1> QED  BY <1>3

\* The rule that is tried next is the first one by priority and id.
LEMMA NextIsFirst ==
    ASSUME NEW rules, IsMap(rules, Rules, Rows), NEW rs \in SUBSET DOMAIN rules, rs # {}
    PROVE  /\ NextRule(rules, rs) \in rs
           /\ \A q \in rs \ {NextRule(rules, rs)} :
                  LET r == NextRule(rules, rs) IN
                  \/ rules[r].priority < rules[q].priority
                  \/ rules[r].priority = rules[q].priority /\ r < q
<1>1. \A r \in rs : r \in Nat /\ rules[r] \in Rows /\ rules[r].priority \in Nat
  BY RuleIds DEF IsMap, Rows, MaxPriority
<1> DEFINE ps == {rules[r].priority : r \in rs}
<1>2. PICK p \in ps : \A q \in ps : p <= q
  <2>1. ps \in SUBSET Nat /\ ps # {}
    BY <1>1
  <2> HIDE DEF ps
  <2> QED BY <2>1, LeastNumber
<1> DEFINE best == {r \in rs : rules[r].priority = p}
<1>3. PICK r \in best : \A q \in best : r <= q
  <2>1. best \in SUBSET Nat /\ best # {}
    BY <1>1, <1>2
  <2> HIDE DEF best
  <2> QED BY <2>1, LeastNumber
<1>4. ASSUME NEW q \in rs \ {r}
      PROVE  \/ rules[r].priority < rules[q].priority
             \/ rules[r].priority = rules[q].priority /\ r < q
  <2>1. p <= rules[q].priority /\ rules[r].priority = p
    BY <1>2, <1>3
  <2>2. CASE rules[q].priority = p
    <3>1. r <= q /\ r # q /\ r \in Nat /\ q \in Nat
      BY <1>1, <1>3, <2>2
    <3> QED BY <3>1, <2>1, <2>2
  <2>3. CASE rules[q].priority # p
    BY <1>1, <2>1, <2>3
  <2> QED BY <2>2, <2>3
<1>5. r \in rs
  BY <1>3
<1> HIDE DEF ps, best
<1> QED BY <1>4, <1>5 DEF NextRule, FirstRule

\* Ranks order rules in the same way, and the last rank is behind them all.
LEMMA RankOrder ==
    ASSUME NEW p \in 0..MaxPriority, NEW q \in 0..MaxPriority, NEW r \in Rules, NEW s \in Rules,
           p < q \/ (p = q /\ r <= s)
    PROVE  LET n == Cardinality(Rules) + 1 IN 3 + p * n + r <= 3 + q * n + s
<1> DEFINE n == Cardinality(Rules) + 1
<1>1. n \in Nat /\ r \in 1..n - 1 /\ s \in 1..n - 1
  BY RuleIds
<1>2. p \in 0..9 /\ q \in 0..9
  BY DEF MaxPriority
<1> HIDE DEF n
<1>3. 3 + p * n + r <= 3 + q * n + s
  <2>1. CASE p = q
    <3>1. r <= s
      BY <2>1, <1>2
    <3>2. p * n \in Nat
      BY <1>1, <1>2
    <3> QED BY <3>1, <3>2, <2>1, <1>1
  <2>2. CASE p < q
    <3>1. PICK m \in Nat : q = p + 1 + m
      <4>1. q - p - 1 \in Nat /\ q = p + 1 + (q - p - 1)
        BY <2>2, <1>2
      <4> QED BY <4>1
    <3>2. p * n \in Nat /\ m * n \in Nat /\ q * n = p * n + n + m * n
      BY <3>1, <1>1, <1>2
    <3> QED BY <3>2, <1>1
  <2> QED BY <2>1, <2>2
<1> QED BY <1>3 DEF n

LEMMA RankBounds ==
    ASSUME NEW p \in 0..MaxPriority, NEW r \in Rules
    PROVE  LET n == Cardinality(Rules) + 1 IN
           /\ 3 + p * n + r \in Nat /\ 2 < 3 + p * n + r
           /\ 3 + p * n + r < LastRank
           /\ LastRank \in Nat
<1> DEFINE n == Cardinality(Rules) + 1
<1>1. n \in Nat /\ r \in 1..n - 1 /\ Cardinality(Rules) = n - 1
  BY RuleIds
<1>2. p \in 0..9 /\ LastRank = 4 + 9 * n + Cardinality(Rules)
  BY DEF MaxPriority, LastRank
<1> HIDE DEF n
<1>3. 3 + p * n + r \in Nat /\ 2 < 3 + p * n + r /\ 3 + p * n + r < 4 + 9 * n + (n - 1)
  <2>1. PICK m \in Nat : 9 = p + m
    <3>1. 9 - p \in Nat /\ 9 = p + (9 - p)
      BY <1>2
    <3> QED BY <3>1
  <2>2. p * n \in Nat /\ m * n \in Nat /\ 9 * n = p * n + m * n
    BY <2>1, <1>1, <1>2
  <2> QED BY <2>2, <1>1
<1> QED BY <1>1, <1>2, <1>3 DEF n

----------------------------------------------------------------------------
(* Values *)

\* The safe default is a value, and is never the guarded one.
LEMMA DefaultSafe ==
    ASSUME NEW f \in Flags, NEW stored \in Values
    PROVE  /\ SafeDefault(f, stored) \in Values
           /\ ~IsGuarded(f, SafeDefault(f, stored)) /\ ~IsGuarded(f, Policy[f].default)
<1> DEFINE y == Policy[f]
<1>1. y \in Policies /\ y.default \in Values /\ y.safe \in Values \union {NoValue}
  BY EvaluationAssumption DEF Policies
<1>2. y.guarded # NoValue => y.guarded # y.safe /\ y.default = y.safe /\ y.safe \in y.variants
  BY EvaluationAssumption DEF ValidRegistry
<1>3. y.variants \in SUBSET Values /\ NoValue \notin Values
  BY EvaluationAssumption, <1>1 DEF Policies
<1> HIDE DEF y
<1>4. y = Policy[f]
  BY DEF y
<1> QED BY <1>1, <1>2, <1>3, <1>4 DEF SafeDefault, IsGuarded, Valid

LEMMA ResultIsValue ==
    ASSUME NEW row \in Rows, NEW stored \in Values
    PROVE  /\ ResultOf(row, stored) \in Values
           /\ IsGuarded(row.flag, ResultOf(row, stored)) => ResultOf(row, stored) = row.value
<1>1. row.flag \in Flags /\ row.value \in Values
  BY DEF Rows
<1> QED BY <1>1, DefaultSafe DEF ResultOf

\* A valid variant is a value.
LEMMA ValidIsValue ==
    ASSUME NEW f \in Flags, NEW v, Valid(f, v)
    PROVE  v \in Values /\ v # NoValue
<1>1. Policy[f] \in Policies /\ Policy[f].variants \in SUBSET Values
  BY EvaluationAssumption DEF Policies
<1> QED BY <1>1, EvaluationAssumption DEF Valid

\* A rule that may give a guarded value is open to the public or names the required group.
LEMMA GuardedRules ==
    ASSUME GuardedPolicies, NEW f \in Flags, NEW v, NEW row, NEW required,
           IsGuarded(f, v), RuleAllowed(f, v, row, required)
    PROVE  \/ row.audience = "everyone" /\ Policy[f].public
           \/ row.audience = "group" /\ required \intersect row.groups # {}
BY DEF GuardedPolicies, RuleAllowed, IsGuarded

----------------------------------------------------------------------------
(* The reference, case by case *)

\* Of what may decide, that decides which has the lowest rank.
LEMMA LowestRank ==
    ASSUME NEW ranked, NEW k, NEW v, <<k, v>> \in ranked, k \in Int,
           \A a \in ranked : a[1] \in Int /\ k <= a[1] /\ (a[1] = k => a[2] = v)
    PROVE  (CHOOSE a \in ranked : \A c \in ranked : a[1] <= c[1])[2] = v
<1> DEFINE least == CHOOSE a \in ranked : \A c \in ranked : a[1] <= c[1]
<1>1. \E a \in ranked : \A c \in ranked : a[1] <= c[1]
  BY <<k, v>>[1] = k
<1>2. least \in ranked /\ \A c \in ranked : least[1] <= c[1]
  BY <1>1
<1> HIDE DEF least
<1>3. least[1] <= k /\ k <= least[1] /\ least[1] \in Int
  BY <1>2, <<k, v>>[1] = k
<1>4. least[1] = k
  BY <1>3
<1>5. least[2] = v
  BY <1>2, <1>4
<1> QED BY <1>5 DEF least

LEMMA Inactive ==
    ASSUME NEW d, NEW f, NEW u, NEW page, NEW c, ~d.active[f]
    PROVE  Reference(d, f, u, page, c) = Policy[f].default
BY DEF Reference

\* What is ranked, part by part.
PreviewRank(d, f, u, c) ==
    LET preview == PreviewOf(c, u, u \in d.staff)
    IN  {<<0, v>> : v \in {x \in Values : f \in DOMAIN preview /\ preview[f] = x}}
OverrideRank(d, f, u) ==
    {<<1, v>> : v \in {x \in {Override(d.over, f, u)} : OverrideAllowed(f, x)}}
KeptRank(d, f, u, page) ==
    {<<2, v>> : v \in {x \in {Kept(d, <<f, u, page>>)} :
                          Valid(f, x) /\ d.sticky[f] /\ Policy[f].sticky}}
RuleRanks(d, f, u, page) ==
    {<<RuleRank(d.rules[r], r), ResultOf(d.rules[r], d.default[f])>> :
        r \in Applying(d, f, u, page)}
DefaultRank(d, f) == {<<LastRank, SafeDefault(f, d.default[f])>>}

LEMMA RankedParts ==
    ASSUME NEW d, NEW f, NEW u, NEW page, NEW c
    PROVE  Ranked(d, f, u, page, c) =
               PreviewRank(d, f, u, c) \union OverrideRank(d, f, u)
               \union KeptRank(d, f, u, page) \union RuleRanks(d, f, u, page)
               \union DefaultRank(d, f)
BY DEF Ranked, PreviewRank, OverrideRank, KeptRank, RuleRanks, DefaultRank, OverrideAllowed

LEMMA RanksOfRules ==
    ASSUME NEW d, Tables(d), NEW f, NEW u, NEW page
    PROVE  /\ \A a \in RuleRanks(d, f, u, page) : a[1] \in Nat /\ 2 < a[1] /\ a[1] < LastRank
           /\ LastRank \in Nat /\ 3 < LastRank
<1>1. ASSUME NEW a \in RuleRanks(d, f, u, page)
      PROVE  a[1] \in Nat /\ 2 < a[1] /\ a[1] < LastRank
  <2>1. PICK r \in Applying(d, f, u, page) :
            a = <<RuleRank(d.rules[r], r), ResultOf(d.rules[r], d.default[f])>>
    BY DEF RuleRanks
  <2>2. r \in Rules /\ d.rules[r] \in Rows
    BY DEF Applying, Tables, IsMap
  <2>3. d.rules[r].priority \in 0..MaxPriority
    BY <2>2 DEF Rows
  <2>4. a[1] = RuleRank(d.rules[r], r)
    BY <2>1
  <2> HIDE DEF MaxPriority
  <2> QED BY <2>2, <2>3, <2>4, RankBounds DEF RuleRank
<1>2. LastRank \in Nat /\ 3 < LastRank
  <2>1. 9 * (Cardinality(Rules) + 1) \in Nat
    BY RuleIds
  <2> QED BY <2>1, RuleIds DEF LastRank, MaxPriority
<1> QED BY <1>1, <1>2

LEMMA LowestDecides ==
    ASSUME NEW d, NEW f, d.active[f], NEW u, NEW page, NEW c, NEW k \in Int, NEW v,
           <<k, v>> \in Ranked(d, f, u, page, c),
           \A a \in Ranked(d, f, u, page, c) :
               a[1] \in Int /\ k <= a[1] /\ (a[1] = k => a[2] = v)
    PROVE  Reference(d, f, u, page, c) = v
<1> DEFINE ranked == Ranked(d, f, u, page, c)
<1>1. Reference(d, f, u, page, c) = (CHOOSE a \in ranked : \A b \in ranked : a[1] <= b[1])[2]
  BY DEF Reference
<1> HIDE DEF ranked
<1>2. (CHOOSE a \in ranked : \A b \in ranked : a[1] <= b[1])[2] = v
  BY LowestRank DEF ranked
<1> QED BY <1>1, <1>2

LEMMA PreviewDecides ==
    ASSUME NEW d, Tables(d), NEW f, d.active[f], NEW u, NEW page, NEW c,
           NEW v \in Values, LET preview == PreviewOf(c, u, u \in d.staff)
                             IN  f \in DOMAIN preview /\ preview[f] = v
    PROVE  Reference(d, f, u, page, c) = v
<1>1. PreviewRank(d, f, u, c) = {<<0, v>>}
  BY DEF PreviewRank
<1>2. \A a \in OverrideRank(d, f, u) : a[1] = 1
  BY DEF OverrideRank
<1>3. \A a \in KeptRank(d, f, u, page) : a[1] = 2
  BY DEF KeptRank
<1>4. \A a \in DefaultRank(d, f) : a[1] = LastRank
  BY DEF DefaultRank
<1>5. \A a \in Ranked(d, f, u, page, c) :
          a[1] \in Int /\ 0 <= a[1] /\ (a[1] = 0 => a[2] = v)
  BY <1>1, <1>2, <1>3, <1>4, RankedParts, RanksOfRules
<1>6. <<0, v>> \in Ranked(d, f, u, page, c)
  BY <1>1, RankedParts
<1> QED BY <1>5, <1>6, LowestDecides

LEMMA OverrideDecides ==
    ASSUME NEW d, Tables(d), NEW f, d.active[f], NEW u, NEW page, NEW c,
           f \notin DOMAIN PreviewOf(c, u, u \in d.staff),
           NEW v, v = Override(d.over, f, u), OverrideAllowed(f, v)
    PROVE  Reference(d, f, u, page, c) = v
<1>1. PreviewRank(d, f, u, c) = {}
  BY DEF PreviewRank
<1>2. OverrideRank(d, f, u) = {<<1, v>>}
  BY DEF OverrideRank
<1>3. \A a \in KeptRank(d, f, u, page) : a[1] = 2
  BY DEF KeptRank
<1>4. \A a \in DefaultRank(d, f) : a[1] = LastRank
  BY DEF DefaultRank
<1>5. \A a \in Ranked(d, f, u, page, c) :
          a[1] \in Int /\ 1 <= a[1] /\ (a[1] = 1 => a[2] = v)
  BY <1>1, <1>2, <1>3, <1>4, RankedParts, RanksOfRules
<1>6. <<1, v>> \in Ranked(d, f, u, page, c)
  BY <1>2, RankedParts
<1> QED BY <1>5, <1>6, LowestDecides

LEMMA KeptDecides ==
    ASSUME NEW d, Tables(d), NEW f, NEW u, NEW page, NEW c, Undecided(d, f, u, c),
           d.sticky[f] /\ Policy[f].sticky,
           NEW v, v = Kept(d, <<f, u, page>>), Valid(f, v)
    PROVE  Reference(d, f, u, page, c) = v
<1>1. PreviewRank(d, f, u, c) = {} /\ OverrideRank(d, f, u) = {}
  BY DEF PreviewRank, OverrideRank, Undecided
<1>2. KeptRank(d, f, u, page) = {<<2, v>>}
  BY DEF KeptRank
<1>3. \A a \in DefaultRank(d, f) : a[1] = LastRank
  BY DEF DefaultRank
<1>4. \A a \in Ranked(d, f, u, page, c) :
          a[1] \in Int /\ 2 <= a[1] /\ (a[1] = 2 => a[2] = v)
  BY <1>1, <1>2, <1>3, RankedParts, RanksOfRules
<1>5. <<2, v>> \in Ranked(d, f, u, page, c)
  BY <1>2, RankedParts
<1> QED BY <1>4, <1>5, LowestDecides DEF Undecided

LEMMA FirstRuleDecides ==
    ASSUME NEW d, Tables(d), NEW f, NEW u, NEW page, NEW c, Open(d, f, u, page, c),
           NEW r \in Applying(d, f, u, page),
           \A q \in Applying(d, f, u, page) \ {r} :
               \/ d.rules[r].priority < d.rules[q].priority
               \/ d.rules[r].priority = d.rules[q].priority /\ r < q
    PROVE  Reference(d, f, u, page, c) = ResultOf(d.rules[r], d.default[f])
<1> DEFINE v == ResultOf(d.rules[r], d.default[f])
           k == RuleRank(d.rules[r], r)
<1>1. PreviewRank(d, f, u, c) = {} /\ OverrideRank(d, f, u) = {}
  BY DEF PreviewRank, OverrideRank, Open, Undecided
<1>2. KeptRank(d, f, u, page) = {}
  BY DEF KeptRank, Open
<1>3. <<k, v>> \in RuleRanks(d, f, u, page)
  BY DEF RuleRanks
<1>4. k \in Nat /\ k < LastRank /\ LastRank \in Nat
  <2>1. <<k, v>>[1] = k
    OBVIOUS
  <2> HIDE DEF k, v
  <2> QED BY <1>3, <2>1, RanksOfRules
<1>5. ASSUME NEW q \in Applying(d, f, u, page)
      PROVE  /\ RuleRank(d.rules[q], q) \in Nat /\ k <= RuleRank(d.rules[q], q)
             /\ RuleRank(d.rules[q], q) = k => q = r
  <2>1. /\ r \in Rules /\ d.rules[r].priority \in 0..MaxPriority
        /\ q \in Rules /\ d.rules[q].priority \in 0..MaxPriority
    BY DEF Applying, Tables, IsMap, Rows
  <2>2. RuleRank(d.rules[q], q) \in Nat
    BY <2>1, RankBounds DEF RuleRank
  <2>3. k <= RuleRank(d.rules[q], q)
    <3>1. q = r \/ d.rules[r].priority < d.rules[q].priority
          \/ (d.rules[r].priority = d.rules[q].priority /\ r <= q)
      BY <2>1, RuleIds
    <3>2. CASE q = r
      BY <3>2, <1>4
    <3>3. CASE q # r
      BY <3>1, <3>3, <2>1, RankOrder DEF RuleRank
    <3> QED BY <3>2, <3>3
  <2>4. ASSUME RuleRank(d.rules[q], q) = k, q # r PROVE FALSE
    <3> DEFINE n == Cardinality(Rules) + 1
               m == Cardinality(Rules)
               s == d.rules[r].priority
               t == d.rules[q].priority
    <3>1. /\ m \in Nat /\ n = m + 1 /\ r \in 1..m /\ q \in 1..m /\ s \in 0..9 /\ t \in 0..9
      BY <2>1, RuleIds DEF MaxPriority
    <3>2. 3 + t * n + q = 3 + s * n + r
      BY <2>4 DEF RuleRank
    <3>3. s < t \/ (s = t /\ r < q)
      BY <2>4
    <3> HIDE DEF n, m, s, t, v, k
    <3>4. CASE s = t
      <4>1. t * n \in Nat
        BY <3>1
      <4> QED BY <4>1, <3>1, <3>2, <3>3, <3>4
    <3>5. CASE s < t
      <4>1. PICK i \in Nat : t = s + 1 + i
        <5>1. t - s - 1 \in Nat /\ t = s + 1 + (t - s - 1)
          BY <3>5, <3>1
        <5> QED BY <5>1
      <4>2. s * n \in Nat /\ i * n \in Nat /\ t * n = s * n + n + i * n
        BY <4>1, <3>1
      <4> QED BY <4>2, <3>1, <3>2
    <3> QED BY <3>3, <3>4, <3>5
  <2> QED BY <2>2, <2>3, <2>4
<1>6. \A a \in RuleRanks(d, f, u, page) : a[1] \in Int /\ k <= a[1] /\ (a[1] = k => a[2] = v)
  <2>1. ASSUME NEW a \in RuleRanks(d, f, u, page)
        PROVE  a[1] \in Int /\ k <= a[1] /\ (a[1] = k => a[2] = v)
    <3>1. PICK q \in Applying(d, f, u, page) :
              a = <<RuleRank(d.rules[q], q), ResultOf(d.rules[q], d.default[f])>>
      BY DEF RuleRanks
    <3>2. a[1] = RuleRank(d.rules[q], q) /\ a[2] = ResultOf(d.rules[q], d.default[f])
      BY <3>1
    <3> HIDE DEF k
    <3> QED BY <3>2, <1>5
  <2> QED BY <2>1
<1> HIDE DEF k, v
<1>7. \A a \in DefaultRank(d, f) : a[1] = LastRank
  BY DEF DefaultRank
<1>8. \A a \in Ranked(d, f, u, page, c) :
          a[1] \in Int /\ k <= a[1] /\ (a[1] = k => a[2] = v)
  BY <1>1, <1>2, <1>4, <1>6, <1>7, RankedParts
<1>9. <<k, v>> \in Ranked(d, f, u, page, c)
  BY <1>3, RankedParts
<1>10. Reference(d, f, u, page, c) = v
  BY <1>4, <1>8, <1>9, LowestDecides DEF Open, Undecided
<1> QED BY <1>10 DEF v

LEMMA DefaultDecides ==
    ASSUME NEW d, Tables(d), NEW f, NEW u, NEW page, NEW c, Open(d, f, u, page, c),
           Applying(d, f, u, page) = {}
    PROVE  Reference(d, f, u, page, c) = SafeDefault(f, d.default[f])
<1> DEFINE v == SafeDefault(f, d.default[f])
<1>1. PreviewRank(d, f, u, c) = {} /\ OverrideRank(d, f, u) = {}
  BY DEF PreviewRank, OverrideRank, Open, Undecided
<1>2. KeptRank(d, f, u, page) = {} /\ RuleRanks(d, f, u, page) = {}
  BY DEF KeptRank, Open, RuleRanks
<1>3. DefaultRank(d, f) = {<<LastRank, v>>}
  BY DEF DefaultRank
<1> HIDE DEF v
<1>4. Ranked(d, f, u, page, c) = {<<LastRank, v>>}
  BY <1>1, <1>2, <1>3, RankedParts
<1>5. LastRank \in Int
  BY RanksOfRules
<1>6. /\ <<LastRank, v>> \in Ranked(d, f, u, page, c)
      /\ \A a \in Ranked(d, f, u, page, c) :
             a[1] \in Int /\ LastRank <= a[1] /\ (a[1] = LastRank => a[2] = v)
  BY <1>4, <1>5
<1>7. Reference(d, f, u, page, c) = v
  BY <1>5, <1>6, LowestDecides DEF Open, Undecided
<1> QED BY <1>7 DEF v

----------------------------------------------------------------------------
(* What a request keeps *)

\* n has read what e has read, for the same page and subject.
SameReader(n, e) ==
    /\ n.subject = e.subject /\ n.staff = e.staff /\ n.page = e.page
    /\ n.asked = e.asked /\ n.preview = e.preview
SameTables(n, e) ==
    /\ n.active = e.active /\ n.sticky = e.sticky /\ n.default = e.default
    /\ n.rules = e.rules /\ n.over = e.over
SameAnswers(n, e) == n.got = e.got /\ n.writes = e.writes

\* n is e, still at the same flag.
Turned(n, e) == SameReader(n, e) /\ SameTables(n, e) /\ SameAnswers(n, e) /\ n.todo = e.todo

\* n is e with an answer.
AnsweredWith(n, e, v) ==
    /\ SameReader(n, e) /\ SameTables(n, e)
    /\ n.todo = Tail(e.todo) /\ n.got = Put(e.got, Head(e.todo), v)
    /\ n.stage = IF Tail(e.todo) = <<>> THEN "done" ELSE "decide"

LEMMA HeadOfTodo ==
    ASSUME NEW e, EvOK(e), e.stage # "done"
    PROVE  /\ e.todo \in Seq(Flags) /\ e.todo # <<>>
           /\ Head(e.todo) \in Flags /\ Head(e.todo) \in Range(e.todo)
           /\ Tail(e.todo) \in Seq(Flags)
           /\ Range(Tail(e.todo)) \subseteq Range(e.todo)
<1>1. e.todo \in Seq(Flags) /\ e.todo # <<>>
  BY DEF EvOK, EvRecord
<1>2. Head(e.todo) = e.todo[1] /\ 1 \in DOMAIN e.todo
  BY <1>1
<1> QED BY <1>1, <1>2 DEF Range

\* A record with an answer in it is well shaped.
LEMMA AnswerShape ==
    ASSUME NEW e, EvOK(e), e.stage \notin {"flags", "done"}, NEW v \in Values,
           NEW n, EvRecord(n), AnsweredWith(n, e, v),
           IsMap(n.writes, StickyKeys, Values), IsMap(n.required, Slugs, SUBSET Groups)
    PROVE  EvOK(n)
<1>1. Head(e.todo) \in Flags /\ IsMap(e.got, Flags, Values)
  BY HeadOfTodo DEF EvOK
<1>2. IsMap(Put(e.got, Head(e.todo), v), Flags, Values)
  BY <1>1, PutMap
<1>3. IsMap(n.got, Flags, Values)
  BY <1>2 DEF AnsweredWith
<1>4. n.stage \in {"done", "decide"} /\ (n.stage # "done" => n.todo # <<>>)
  BY DEF AnsweredWith
<1> QED BY <1>3, <1>4 DEF EvOK, AnsweredWith, SameReader, SameTables, Deciding, Holding

\* And so is one that goes on with the rules of its flag.
LEMMA TurnShape ==
    ASSUME NEW e, EvOK(e), e.stage \notin {"flags", "done"},
           NEW n, EvRecord(n), Turned(n, e), n.stage \in Deciding,
           n.rest \subseteq {r \in DOMAIN e.rules : e.rules[r].flag = Head(e.todo)},
           n.stage \in Holding => n.rest # {},
           IsMap(n.required, Slugs, SUBSET Groups)
    PROVE  EvOK(n)
<1>1. n.stage # "done" /\ n.stage # "flags"
  BY DEF Deciding
<1> QED BY <1>1 DEF EvOK, Turned, SameReader, SameTables, SameAnswers

\* What Answered makes of a request.
LEMMA AnsweredIs ==
    ASSUME NEW b \in Browsers, EvOK(ev[b]), ev[b].stage \notin {"flags", "done"}, NEW v
    PROVE  /\ EvRecord(Answered(b, v)) /\ AnsweredWith(Answered(b, v), ev[b], v)
           /\ Answered(b, v).writes = ev[b].writes /\ Answered(b, v).required = ev[b].required
<1>1. Tail(ev[b].todo) \in Seq(Flags)
  BY HeadOfTodo
<1>2. EvRecord(Answered(b, v))
  BY <1>1 DEF EvOK, EvRecord, Answered, Stages
<1> QED BY <1>2 DEF EvOK, EvRecord, Answered, AnsweredWith, SameReader, SameTables, Flag

LEMMA AnsweredShape ==
    ASSUME NEW b \in Browsers, EvOK(ev[b]), ev[b].stage \notin {"flags", "done"},
           NEW v \in Values
    PROVE  EvOK(Answered(b, v))
<1> DEFINE n == Answered(b, v)
<1>1. /\ EvRecord(n) /\ AnsweredWith(n, ev[b], v)
      /\ n.writes = ev[b].writes /\ n.required = ev[b].required
  BY AnsweredIs
<1>2. IsMap(ev[b].writes, StickyKeys, Values) /\ IsMap(ev[b].required, Slugs, SUBSET Groups)
  BY DEF EvOK
<1> HIDE DEF n
<1>3. EvOK(n)
  BY <1>1, <1>2, AnswerShape
<1> QED BY <1>3 DEF n

----------------------------------------------------------------------------
(* The actions *)

\* The step of a request leaves the other requests alone.
LEMMA StepMoves ==
    ASSUME Typed, NEW b \in Browsers, NEW n, Step(b, n)
    PROVE  /\ ev'[b] = n /\ \A c \in Browsers \ {b} : ev'[c] = ev[c]
           /\ ev' \in [Browsers -> {ev'[c] : c \in Browsers}]
BY DEF Typed, Step

\* Who is asked about in a preview, and what it may choose.
LEMMA PreviewShape ==
    ASSUME NEW c, CookieOK(c), NEW u, NEW staff
    PROVE  /\ IsMap(PreviewOf(c, u, staff), Flags, Values)
           /\ \A f \in DOMAIN PreviewOf(c, u, staff) : c.owner = u /\ staff /\ Policy[f].preview
<1> DEFINE fs == {f \in DOMAIN c.choices : Policy[f].preview}
<1>1. CASE c.owner = u /\ staff
  <2>1. PreviewOf(c, u, staff) = Restrict(c.choices, fs)
    BY <1>1 DEF PreviewOf
  <2>2. IsMap(Restrict(c.choices, fs), Flags, Values) /\ DOMAIN Restrict(c.choices, fs) = fs
    BY RestrictedMap DEF CookieOK
  <2> QED BY <1>1, <2>1, <2>2
<1>2. CASE ~(c.owner = u /\ staff)
  <2>1. PreviewOf(c, u, staff) = <<>>
    BY <1>2 DEF PreviewOf
  <2> QED BY <2>1, EmptyMap
<1> QED BY <1>1, <1>2

LEMMA IdleApart == ASSUME NEW e, EvOK(e) PROVE e.stage # "idle" /\ e # Idle
BY DEF EvOK, EvRecord, Stages, Idle

LEMMA RunningOK ==
    ASSUME Typed, NEW b \in Browsers, ev[b].stage # "idle"
    PROVE  EvOK(ev[b]) /\ db \in seen[b]
<1>1. Idle.stage = "idle"
  BY DEF Idle
<1> QED BY <1>1 DEF Typed

LEMMA OverrideValue ==
    ASSUME NEW f \in Flags, NEW over, NEW u, OverrideAllowed(f, Override(over, f, u))
    PROVE  Override(over, f, u) \in Values
BY ValidIsValue DEF OverrideAllowed

\* The first three answers of a flag, or else the request goes on to its rules.
DecideTurn(n, e) ==
    LET f == Head(e.todo)
        over == Override(e.over, f, e.subject) IN
    \/ ~e.active[f] /\ AnsweredWith(n, e, Policy[f].default)
    \/ e.active[f] /\ f \in DOMAIN e.preview /\ AnsweredWith(n, e, e.preview[f])
    \/ /\ e.active[f] /\ f \notin DOMAIN e.preview /\ OverrideAllowed(f, over)
       /\ AnsweredWith(n, e, over)
    \/ /\ e.active[f] /\ f \notin DOMAIN e.preview /\ ~OverrideAllowed(f, over)
       /\ Turned(n, e)
       /\ n.stage = IF e.sticky[f] /\ Policy[f].sticky THEN "sticky" ELSE "rule"
       /\ n.rest = {r \in DOMAIN e.rules : e.rules[r].flag = f}

LEMMA DecideShape ==
    ASSUME Typed, NEW b \in Browsers, Decide(b)
    PROVE  /\ EvOK(ev[b]) /\ ev[b].stage = "decide" /\ EvOK(ev'[b])
           /\ ev'[b].writes = ev[b].writes /\ ev'[b].required = ev[b].required
           /\ DecideTurn(ev'[b], ev[b])
<1> DEFINE e == ev[b]
           f == Head(e.todo)
           over == Override(e.over, f, e.subject)
           rulesOf == {r \in DOMAIN e.rules : e.rules[r].flag = f}
           turned == [e EXCEPT !.stage = IF IsSticky(b) THEN "sticky" ELSE "rule",
                               !.rest = rulesOf]
           Goal(n) == /\ EvOK(n) /\ n.writes = e.writes /\ n.required = e.required
                      /\ DecideTurn(n, e)
<1>1. /\ EvOK(e) /\ e.stage = "decide" /\ f \in Flags
      /\ e.active \in [Flags -> BOOLEAN] /\ e.sticky \in [Flags -> BOOLEAN]
      /\ IsMap(e.preview, Flags, Values)
  <2>1. EvOK(e) /\ e.stage = "decide"
    BY RunningOK DEF Decide
  <2>2. e.preview = PreviewOf(e.asked, e.subject, e.staff) /\ CookieOK(e.asked)
    BY <2>1 DEF EvOK
  <2>3. IsMap(PreviewOf(e.asked, e.subject, e.staff), Flags, Values)
    BY <2>1, PreviewShape DEF EvOK
  <2> HIDE DEF e
  <2> QED BY <2>1, <2>2, <2>3, HeadOfTodo DEF EvOK
<1>2. ASSUME NEW v \in Values PROVE
          /\ EvOK(Answered(b, v)) /\ AnsweredWith(Answered(b, v), e, v)
          /\ Answered(b, v).writes = e.writes /\ Answered(b, v).required = e.required
  BY <1>1, AnsweredIs, AnsweredShape
<1>3. CASE ~e.active[f] /\ Step(b, Answered(b, Policy[f].default))
  <2>1. Policy[f].default \in Values
    BY <1>1, EvaluationAssumption DEF Policies
  <2>2. Goal(Answered(b, Policy[f].default))
    BY <1>2, <1>3, <2>1 DEF DecideTurn
  <2> QED BY <1>1, <1>3, <2>2, StepMoves
<1>4. CASE e.active[f] /\ f \in DOMAIN e.preview /\ Step(b, Answered(b, e.preview[f]))
  <2>1. e.preview[f] \in Values
    BY <1>1, <1>4 DEF IsMap
  <2>2. Goal(Answered(b, e.preview[f]))
    BY <1>2, <1>4, <2>1 DEF DecideTurn
  <2> QED BY <1>1, <1>4, <2>2, StepMoves
<1>5. CASE /\ e.active[f] /\ f \notin DOMAIN e.preview
           /\ OverrideAllowed(f, over) /\ Step(b, Answered(b, over))
  <2>1. over \in Values
    BY <1>1, <1>5, OverrideValue
  <2>2. Goal(Answered(b, over))
    BY <1>2, <1>5, <2>1 DEF DecideTurn
  <2> QED BY <1>1, <1>5, <2>2, StepMoves
<1>6. CASE /\ e.active[f] /\ f \notin DOMAIN e.preview
           /\ ~OverrideAllowed(f, over) /\ Step(b, turned)
  <2>1. IsSticky(b) = (e.sticky[f] /\ Policy[f].sticky)
    BY DEF IsSticky, Flag
  <2>2. EvRecord(turned) /\ Turned(turned, e) /\ turned.required = e.required
        /\ turned.stage = (IF e.sticky[f] /\ Policy[f].sticky THEN "sticky" ELSE "rule")
        /\ turned.rest = rulesOf
    BY <1>1, <2>1 DEF EvOK, EvRecord, Stages, Turned, SameReader, SameTables, SameAnswers
  <2>3. IsMap(e.required, Slugs, SUBSET Groups)
    BY <1>1 DEF EvOK
  <2> HIDE DEF turned, e, f, over
  <2>4. turned.stage \in Deciding /\ turned.stage \notin Holding
    BY <2>2 DEF Deciding, Holding
  <2>5. EvOK(turned)
    BY <1>1, <2>2, <2>3, <2>4, TurnShape DEF f
  <2>6. turned.writes = e.writes
    BY <2>2 DEF Turned, SameAnswers
  <2>7. Goal(turned)
    BY <2>2, <2>5, <2>6, <1>6 DEF DecideTurn, f, over
  <2>8. ev'[b] = turned
    BY <1>6, StepMoves
  <2> QED BY <1>1, <2>7, <2>8 DEF e
<1>7. \/ ~e.active[f] /\ Step(b, Answered(b, Policy[f].default))
      \/ e.active[f] /\ f \in DOMAIN e.preview /\ Step(b, Answered(b, e.preview[f]))
      \/ /\ e.active[f] /\ f \notin DOMAIN e.preview
         /\ OverrideAllowed(f, over) /\ Step(b, Answered(b, over))
      \/ /\ e.active[f] /\ f \notin DOMAIN e.preview
         /\ ~OverrideAllowed(f, over) /\ Step(b, turned)
  BY DEF Decide, Flag
<1> QED BY <1>3, <1>4, <1>5, <1>6, <1>7

\* The assignment that is found answers, or else the rules are tried.
StickyTurn(n, e, d) ==
    LET f == Head(e.todo)
        k == <<f, e.subject, e.page>> IN
    \/ /\ k \in DOMAIN d.assigned /\ Valid(f, d.assigned[k]) /\ AnsweredWith(n, e, d.assigned[k])
    \/ /\ ~(k \in DOMAIN d.assigned /\ Valid(f, d.assigned[k]))
       /\ Turned(n, e) /\ n.stage = "rule" /\ n.rest = e.rest

LEMMA StickyShape ==
    ASSUME Typed, NEW b \in Browsers, ReadSticky(b)
    PROVE  /\ EvOK(ev[b]) /\ ev[b].stage = "sticky" /\ EvOK(ev'[b])
           /\ ev'[b].writes = ev[b].writes /\ ev'[b].required = ev[b].required
           /\ StickyTurn(ev'[b], ev[b], db)
<1> DEFINE e == ev[b]
           f == Head(e.todo)
           k == <<f, e.subject, e.page>>
           turned == [e EXCEPT !.stage = "rule"]
           Goal(n) == /\ EvOK(n) /\ n.writes = e.writes /\ n.required = e.required
                      /\ StickyTurn(n, e, db)
<1>1. EvOK(e) /\ e.stage = "sticky"
  BY RunningOK DEF ReadSticky
<1>2. CASE k \in DOMAIN db.assigned /\ Valid(f, db.assigned[k])
  <2>1. ev'[b] = Answered(b, db.assigned[k])
    BY <1>2, StepMoves DEF ReadSticky, Key, Flag
  <2>2. db.assigned[k] \in Values
    BY <1>2 DEF Typed, Tables, IsMap
  <2> DEFINE n == Answered(b, db.assigned[k])
  <2>3. /\ EvOK(n) /\ AnsweredWith(n, e, db.assigned[k])
        /\ n.writes = e.writes /\ n.required = e.required
    BY <1>1, <2>2, AnsweredIs, AnsweredShape
  <2> HIDE DEF n
  <2>4. Goal(n)
    BY <1>2, <2>3 DEF StickyTurn
  <2> QED BY <1>1, <2>1, <2>4 DEF n
<1>3. CASE ~(k \in DOMAIN db.assigned /\ Valid(f, db.assigned[k]))
  <2>1. ev'[b] = turned
    BY <1>3, StepMoves DEF ReadSticky, Key, Flag
  <2>2. /\ EvRecord(turned) /\ Turned(turned, e) /\ turned.required = e.required
        /\ turned.stage = "rule" /\ turned.rest = e.rest
    BY <1>1 DEF EvOK, EvRecord, Stages, Turned, SameReader, SameTables, SameAnswers
  <2>3. /\ IsMap(e.required, Slugs, SUBSET Groups)
        /\ e.rest \subseteq {r \in DOMAIN e.rules : e.rules[r].flag = f}
    BY <1>1 DEF EvOK, Deciding
  <2> HIDE DEF turned, e, k
  <2>4. "rule" \in Deciding /\ "rule" \notin Holding
    BY DEF Deciding, Holding
  <2>5. EvOK(turned)
    BY <1>1, <2>2, <2>3, <2>4, TurnShape
  <2>6. turned.writes = e.writes
    BY <2>2 DEF Turned, SameAnswers
  <2>7. Goal(turned)
    BY <2>2, <2>5, <2>6, <1>3 DEF StickyTurn, k
  <2> QED BY <1>1, <2>1, <2>7 DEF e
<1> QED BY <1>2, <1>3

\* The rule that is tried, and what it would give.
TriedValue(e) == ResultOf(Tried(e), e.default[Head(e.todo)])

LEMMA TriedIsRule ==
    ASSUME NEW e, EvOK(e), e.stage \in Trying, e.rest # {}
    PROVE  /\ NextRule(e.rules, e.rest) \in e.rest /\ e.rest \subseteq DOMAIN e.rules
           /\ Tried(e) \in Rows /\ Tried(e).flag = Head(e.todo) /\ Head(e.todo) \in Flags
           /\ TriedValue(e) \in Values
<1>1. /\ e.rest \subseteq DOMAIN e.rules /\ IsMap(e.rules, Rules, Rows)
      /\ \A r \in e.rest : e.rules[r].flag = Head(e.todo)
      /\ e.default \in [Flags -> Values] /\ e.stage # "done"
  BY DEF EvOK, Trying, Deciding
<1>2. NextRule(e.rules, e.rest) \in e.rest
  BY <1>1, NextIsFirst
<1>3. Tried(e) \in Rows /\ Tried(e).flag = Head(e.todo)
  BY <1>1, <1>2 DEF Tried, IsMap
<1>4. Head(e.todo) \in Flags
  BY <1>1, HeadOfTodo
<1> QED BY <1>1, <1>2, <1>3, <1>4, ResultIsValue DEF TriedValue

\* Whether the rule passes, up to the policy.
Passes(e, d) ==
    /\ Tried(e).enabled /\ OnPage(Tried(e), e.page)
    /\ IF Tried(e).audience = "staff" THEN e.staff ELSE e.subject \in Reached(d, Tried(e), e.page)
    /\ Valid(Head(e.todo), TriedValue(e))

TryTurn(n, e, d) ==
    \/ e.rest = {} /\ AnsweredWith(n, e, SafeDefault(Head(e.todo), e.default[Head(e.todo)]))
    \/ /\ e.rest # {} /\ Passes(e, d)
       /\ Turned(n, e) /\ n.stage = "policy" /\ n.rest = e.rest
    \/ /\ e.rest # {} /\ ~Passes(e, d)
       /\ Turned(n, e) /\ n.stage = "rule" /\ n.rest = e.rest \ {NextRule(e.rules, e.rest)}

LEMMA TryShape ==
    ASSUME Typed, NEW b \in Browsers, TryRule(b)
    PROVE  /\ EvOK(ev[b]) /\ ev[b].stage = "rule" /\ EvOK(ev'[b])
           /\ ev'[b].writes = ev[b].writes /\ ev'[b].required = ev[b].required
           /\ TryTurn(ev'[b], ev[b], db)
<1> DEFINE e == ev[b]
           f == Head(e.todo)
           r == NextRule(e.rules, e.rest)
           Goal(n) == /\ EvOK(n) /\ n.writes = e.writes /\ n.required = e.required
                      /\ TryTurn(n, e, db)
<1>1. /\ EvOK(e) /\ e.stage = "rule" /\ f \in Flags /\ e.default \in [Flags -> Values]
      /\ e.rest \subseteq {q \in DOMAIN e.rules : e.rules[q].flag = f}
      /\ IsMap(e.required, Slugs, SUBSET Groups)
  BY RunningOK, HeadOfTodo DEF TryRule, EvOK, Deciding
<1>2. CASE e.rest = {}
  <2> DEFINE v == SafeDefault(f, e.default[f])
             n == Answered(b, v)
  <2>1. ev'[b] = n
    BY <1>2, StepMoves DEF TryRule, Flag
  <2>2. v \in Values
    BY <1>1, DefaultSafe
  <2>3. EvOK(n) /\ AnsweredWith(n, e, v) /\ n.writes = e.writes /\ n.required = e.required
    BY <1>1, <2>2, AnsweredIs, AnsweredShape
  <2> HIDE DEF n
  <2>4. Goal(n)
    BY <1>2, <2>3 DEF TryTurn
  <2> QED BY <1>1, <2>1, <2>4 DEF n
<1>3. CASE e.rest # {} /\ Passes(e, db)
  <2> DEFINE turned == [e EXCEPT !.stage = "policy"]
  <2>1. ev'[b] = turned
    BY <1>3, StepMoves DEF TryRule, Flag, Passes, Tried, TriedValue, RuleReaches
  <2>2. /\ EvRecord(turned) /\ Turned(turned, e) /\ turned.required = e.required
        /\ turned.stage = "policy" /\ turned.rest = e.rest
    BY <1>1 DEF EvOK, EvRecord, Stages, Turned, SameReader, SameTables, SameAnswers
  <2> HIDE DEF turned, e
  <2>3. "policy" \in Deciding
    BY DEF Deciding
  <2>4. EvOK(turned)
    BY <1>1, <1>3, <2>2, <2>3, TurnShape
  <2>5. turned.writes = e.writes
    BY <2>2 DEF Turned, SameAnswers
  <2>6. Goal(turned)
    BY <1>3, <2>2, <2>4, <2>5 DEF TryTurn
  <2> QED BY <1>1, <2>1, <2>6 DEF e
<1>4. CASE e.rest # {} /\ ~Passes(e, db)
  <2> DEFINE turned == [e EXCEPT !.rest = @ \ {r}]
  <2>1. ev'[b] = turned
    BY <1>4, StepMoves DEF TryRule, Flag, Passes, Tried, TriedValue, RuleReaches
  <2>2. /\ EvRecord(turned) /\ Turned(turned, e) /\ turned.required = e.required
        /\ turned.stage = "rule" /\ turned.rest = e.rest \ {r}
    BY <1>1 DEF EvOK, EvRecord, Stages, Turned, SameReader, SameTables, SameAnswers
  <2> HIDE DEF turned, e
  <2>3. "rule" \in Deciding /\ "rule" \notin Holding
    BY DEF Deciding, Holding
  <2>4. turned.rest \subseteq {q \in DOMAIN e.rules : e.rules[q].flag = f}
    BY <1>1, <2>2
  <2>5. EvOK(turned)
    BY <1>1, <2>2, <2>3, <2>4, TurnShape
  <2>6. turned.writes = e.writes
    BY <2>2 DEF Turned, SameAnswers
  <2>7. Goal(turned)
    BY <1>4, <2>2, <2>5, <2>6 DEF TryTurn
  <2> QED BY <1>1, <2>1, <2>7 DEF e
<1> QED BY <1>2, <1>3, <1>4

\* What the request knows of its required groups after it has checked the policy.
Asks(e) ==
    LET f == Head(e.todo) IN
    /\ IsGuarded(f, TriedValue(e)) /\ Policy[f].required # NoSlug
    /\ Tried(e).audience = "group" /\ Tried(e).audience \in Policy[f].audiences

Known(e, d) ==
    LET slug == Policy[Head(e.todo)].required IN
    IF Asks(e) /\ slug \notin DOMAIN e.required
    THEN Put(e.required, slug, RequiredGroup(d, slug, e.subject)) ELSE e.required

Permitted(e, d) ==
    RuleAllowed(Head(e.todo), TriedValue(e), Tried(e),
                IF Asks(e) THEN Known(e, d)[Policy[Head(e.todo)].required] ELSE {})

PolicyTurn(n, e, d) ==
    LET f == Head(e.todo) IN
    \/ /\ ~Permitted(e, d)
       /\ Turned(n, e) /\ n.stage = "rule" /\ n.rest = e.rest \ {NextRule(e.rules, e.rest)}
    \/ /\ Permitted(e, d) /\ e.sticky[f] /\ Policy[f].sticky
       /\ Turned(n, e) /\ n.stage = "persist" /\ n.rest = e.rest
    \/ /\ Permitted(e, d) /\ ~(e.sticky[f] /\ Policy[f].sticky)
       /\ AnsweredWith(n, e, TriedValue(e))

LEMMA KnownShape ==
    ASSUME NEW d, Tables(d), NEW e, EvOK(e), e.stage = "policy"
    PROVE  /\ IsMap(Known(e, d), Slugs, SUBSET Groups)
           /\ \A s \in DOMAIN Known(e, d) :
                  Known(e, d)[s] = RequiredGroup(d, s, e.subject)
                  \/ (s \in DOMAIN e.required /\ Known(e, d)[s] = e.required[s])
           /\ Asks(e) => Policy[Head(e.todo)].required \in DOMAIN Known(e, d)
<1> DEFINE slug == Policy[Head(e.todo)].required
           group == RequiredGroup(d, slug, e.subject)
<1>1. IsMap(e.required, Slugs, SUBSET Groups) /\ Head(e.todo) \in Flags
  BY HeadOfTodo DEF EvOK
<1>2. group \in SUBSET Groups
  BY DEF RequiredGroup
<1>3. CASE Asks(e) /\ slug \notin DOMAIN e.required
  <2>1. slug \in Slugs
    BY <1>1, <1>3, EvaluationAssumption DEF Asks, Policies
  <2>2. Known(e, d) = Put(e.required, slug, group)
    BY <1>3 DEF Known
  <2> HIDE DEF slug, group
  <2>3. /\ IsMap(Put(e.required, slug, group), Slugs, SUBSET Groups)
        /\ DOMAIN Put(e.required, slug, group) = DOMAIN e.required \union {slug}
        /\ Put(e.required, slug, group)[slug] = group
        /\ \A s \in DOMAIN e.required : s # slug => Put(e.required, slug, group)[s] = e.required[s]
    BY <1>1, <1>2, <2>1, PutMap
  <2>4. ASSUME NEW s \in DOMAIN Known(e, d)
        PROVE  Known(e, d)[s] = RequiredGroup(d, s, e.subject)
                  \/ (s \in DOMAIN e.required /\ Known(e, d)[s] = e.required[s])
    <3>1. CASE s = slug
      BY <3>1, <2>2, <2>3 DEF group
    <3>2. CASE s # slug
      BY <3>2, <2>2, <2>3
    <3> QED BY <3>1, <3>2
  <2> QED BY <2>2, <2>3, <2>4 DEF slug
<1>4. CASE ~(Asks(e) /\ slug \notin DOMAIN e.required)
  <2>1. Known(e, d) = e.required
    BY <1>4 DEF Known
  <2> QED BY <1>1, <1>4, <2>1
<1> QED BY <1>3, <1>4

LEMMA PolicyShape ==
    ASSUME Typed, NEW b \in Browsers, CheckPolicy(b)
    PROVE  /\ EvOK(ev[b]) /\ ev[b].stage = "policy" /\ EvOK(ev'[b])
           /\ ev'[b].writes = ev[b].writes /\ ev'[b].required = Known(ev[b], db)
           /\ PolicyTurn(ev'[b], ev[b], db)
<1> DEFINE e == ev[b]
           f == Head(e.todo)
           v == TriedValue(e)
           r == NextRule(e.rules, e.rest)
           known == Known(e, db)
           back == [e EXCEPT !.stage = "rule", !.rest = @ \ {r}, !.required = known]
           keep == [e EXCEPT !.stage = "persist", !.required = known]
           answer == [Answered(b, v) EXCEPT !.required = known]
           Goal(n) == EvOK(n) /\ n.writes = e.writes /\ n.required = known /\ PolicyTurn(n, e, db)
<1>1. /\ EvOK(e) /\ e.stage = "policy" /\ e.rest # {} /\ Tables(db)
      /\ e.rest \subseteq {q \in DOMAIN e.rules : e.rules[q].flag = f}
  <2>1. EvOK(e) /\ e.stage = "policy" /\ Tables(db)
    BY RunningOK DEF CheckPolicy, Typed
  <2> QED BY <2>1 DEF EvOK, Deciding, Holding
<1>2. IsMap(known, Slugs, SUBSET Groups) /\ v \in Values
  BY <1>1, KnownShape, TriedIsRule DEF Trying
<1>3. Step(b, IF ~Permitted(e, db) THEN back
              ELSE IF IsSticky(b) THEN keep ELSE answer)
  BY DEF CheckPolicy, Permitted, Known, Asks, TriedValue, Tried, Flag
<1>4. IsSticky(b) = (e.sticky[f] /\ Policy[f].sticky)
  BY DEF IsSticky, Flag
<1>5. CASE ~Permitted(e, db)
  <2>1. ev'[b] = back
    BY <1>3, <1>5, StepMoves
  <2> HIDE DEF known
  <2>2. /\ EvRecord(back) /\ Turned(back, e) /\ back.required = known
        /\ back.stage = "rule" /\ back.rest = e.rest \ {r}
    BY <1>1 DEF EvOK, EvRecord, Stages, Turned, SameReader, SameTables, SameAnswers
  <2> HIDE DEF back, e
  <2>3. "rule" \in Deciding /\ "rule" \notin Holding
    BY DEF Deciding, Holding
  <2>4. back.rest \subseteq {q \in DOMAIN e.rules : e.rules[q].flag = f}
    BY <1>1, <2>2
  <2>5. EvOK(back)
    BY <1>1, <1>2, <2>2, <2>3, <2>4, TurnShape
  <2>6. back.writes = e.writes
    BY <2>2 DEF Turned, SameAnswers
  <2>7. Goal(back)
    BY <1>5, <2>2, <2>5, <2>6 DEF PolicyTurn
  <2> QED BY <1>1, <2>1, <2>7 DEF e, known
<1>6. CASE Permitted(e, db) /\ IsSticky(b)
  <2>1. ev'[b] = keep
    BY <1>3, <1>6, StepMoves
  <2> HIDE DEF known
  <2>2. /\ EvRecord(keep) /\ Turned(keep, e) /\ keep.required = known
        /\ keep.stage = "persist" /\ keep.rest = e.rest
    BY <1>1 DEF EvOK, EvRecord, Stages, Turned, SameReader, SameTables, SameAnswers
  <2> HIDE DEF keep, e
  <2>3. "persist" \in Deciding
    BY DEF Deciding
  <2>4. EvOK(keep)
    BY <1>1, <1>2, <2>2, <2>3, TurnShape
  <2>5. keep.writes = e.writes
    BY <2>2 DEF Turned, SameAnswers
  <2>6. Goal(keep)
    BY <1>4, <1>6, <2>2, <2>4, <2>5 DEF PolicyTurn
  <2> QED BY <1>1, <2>1, <2>6 DEF e, known
<1>7. CASE Permitted(e, db) /\ ~IsSticky(b)
  <2>1. ev'[b] = answer
    BY <1>3, <1>7, StepMoves
  <2> DEFINE n == Answered(b, v)
  <2>2. EvRecord(n) /\ AnsweredWith(n, e, v) /\ n.writes = e.writes
    BY <1>1, AnsweredIs
  <2>3. IsMap(e.writes, StickyKeys, Values)
    BY <1>1 DEF EvOK
  <2> HIDE DEF n, known, v
  <2>4. EvRecord(answer) /\ AnsweredWith(answer, e, v) /\ answer.writes = e.writes
        /\ answer.required = known
    BY <2>2 DEF EvRecord, AnsweredWith, SameReader, SameTables, n
  <2> HIDE DEF answer, e
  <2>5. EvOK(answer)
    BY <1>1, <1>2, <2>3, <2>4, AnswerShape
  <2>6. Goal(answer)
    BY <1>4, <1>7, <2>4, <2>5 DEF PolicyTurn, v
  <2> QED BY <1>1, <2>1, <2>6 DEF e, known
<1> QED BY <1>5, <1>6, <1>7

LEMMA PersistShape ==
    ASSUME Typed, NEW b \in Browsers, Persist(b)
    PROVE  LET e == ev[b]
               n == ev'[b] IN
           /\ EvOK(e) /\ e.stage = "persist" /\ EvOK(n) /\ n.required = e.required
           /\ AnsweredWith(n, e, TriedValue(e))
           /\ n.writes = Put(e.writes, <<Head(e.todo), e.subject, e.page>>, TriedValue(e))
<1> DEFINE e == ev[b]
           f == Head(e.todo)
           k == <<f, e.subject, e.page>>
           v == TriedValue(e)
           a == Answered(b, v)
           n == [a EXCEPT !.writes = Put(@, k, v)]
<1>1. EvOK(e) /\ e.stage = "persist" /\ e.rest # {}
  <2>1. EvOK(e) /\ e.stage = "persist"
    BY RunningOK DEF Persist
  <2> QED BY <2>1 DEF EvOK, Holding
<1>2. v \in Values /\ f \in Flags
  BY <1>1, TriedIsRule DEF Trying
<1>3. k \in StickyKeys /\ IsMap(e.writes, StickyKeys, Values)
      /\ IsMap(e.required, Slugs, SUBSET Groups)
  BY <1>1, <1>2 DEF EvOK, EvRecord, StickyKeys, Subjects
<1>4. Step(b, n)
  BY DEF Persist, Flag, Key, Tried, TriedValue
<1>5. ev'[b] = n
  BY <1>4, StepMoves
<1>6. /\ EvRecord(a) /\ AnsweredWith(a, e, v) /\ a.writes = e.writes
      /\ a.required = e.required
  BY <1>1, AnsweredIs
<1> HIDE DEF a, k, v
<1>7. /\ EvRecord(n) /\ AnsweredWith(n, e, v) /\ n.writes = Put(e.writes, k, v)
      /\ n.required = e.required
  BY <1>6 DEF EvRecord, AnsweredWith, SameReader, SameTables
<1> HIDE DEF n, e, f
<1>8. IsMap(n.writes, StickyKeys, Values)
  <2>1. IsMap(Put(e.writes, k, v), StickyKeys, Values)
    BY <1>2, <1>3, PutMap DEF v
  <2> QED BY <2>1, <1>7
<1>9. EvOK(n)
  BY <1>1, <1>2, <1>3, <1>7, <1>8, AnswerShape
<1> QED BY <1>1, <1>5, <1>7, <1>9 DEF e, f, k, v

\* The three queries that load the flags, and what each of them fills in.
Loads(n, e) == SameReader(n, e) /\ SameAnswers(n, e) /\ n.todo = e.todo /\ n.required = e.required

LEMMA LoadFlagsShape ==
    ASSUME Typed, NEW b \in Browsers, LoadFlags(b)
    PROVE  LET e == ev[b]
               n == ev'[b] IN
           /\ EvOK(e) /\ e.stage = "flags" /\ EvOK(n) /\ n.stage = "rules" /\ Loads(n, e)
           /\ n.active = db.active /\ n.sticky = db.sticky /\ n.default = db.default
           /\ n.rules = e.rules /\ n.over = e.over
<1> DEFINE e == ev[b]
           n == [e EXCEPT !.stage = "rules", !.active = db.active, !.sticky = db.sticky,
                          !.default = db.default]
<1>1. EvOK(e) /\ e.stage = "flags"
  BY RunningOK DEF LoadFlags
<1>2. ev'[b] = n
  BY StepMoves DEF LoadFlags
<1>3. /\ EvRecord(n) /\ Loads(n, e) /\ n.stage = "rules"
      /\ n.active = db.active /\ n.sticky = db.sticky /\ n.default = db.default
      /\ n.rules = e.rules /\ n.over = e.over
  BY <1>1 DEF EvOK, EvRecord, Stages, Loads, SameReader, SameAnswers
<1>4. /\ db.active \in [Flags -> BOOLEAN] /\ db.sticky \in [Flags -> BOOLEAN]
      /\ db.default \in [Flags -> Values]
  BY DEF Typed, Tables
<1> HIDE DEF n, e
<1>5. EvOK(n)
  BY <1>1, <1>3, <1>4 DEF EvOK, Loads, SameReader, SameAnswers, Deciding, Holding
<1> QED BY <1>1, <1>2, <1>3, <1>5 DEF e

LEMMA LoadRulesShape ==
    ASSUME Typed, NEW b \in Browsers, LoadRules(b)
    PROVE  LET e == ev[b]
               n == ev'[b] IN
           /\ EvOK(e) /\ e.stage = "rules" /\ EvOK(n) /\ n.stage = "overrides" /\ Loads(n, e)
           /\ n.active = e.active /\ n.sticky = e.sticky /\ n.default = e.default
           /\ n.rules = Restrict(db.rules,
                                 {r \in DOMAIN db.rules : db.rules[r].flag \in Range(e.todo)})
           /\ n.over = e.over
<1> DEFINE e == ev[b]
           found == Restrict(db.rules, {r \in DOMAIN db.rules : db.rules[r].flag \in Range(e.todo)})
           n == [e EXCEPT !.stage = "overrides", !.rules = found]
<1>1. EvOK(e) /\ e.stage = "rules"
  BY RunningOK DEF LoadRules
<1>2. ev'[b] = n
  BY StepMoves DEF LoadRules, RestrictValues, Keys
<1>3. IsMap(found, Rules, Rows)
  BY RestrictedMap DEF Typed, Tables
<1> HIDE DEF found
<1>4. /\ EvRecord(n) /\ Loads(n, e) /\ n.stage = "overrides"
      /\ n.active = e.active /\ n.sticky = e.sticky /\ n.default = e.default
      /\ n.rules = found /\ n.over = e.over
  BY <1>1 DEF EvOK, EvRecord, Stages, Loads, SameReader, SameAnswers
<1> HIDE DEF n, e
<1>5. EvOK(n)
  BY <1>1, <1>3, <1>4 DEF EvOK, Loads, SameReader, SameAnswers, Deciding, Holding
<1> QED BY <1>1, <1>2, <1>4, <1>5 DEF e, found

LEMMA LoadOverridesShape ==
    ASSUME Typed, NEW b \in Browsers, LoadOverrides(b)
    PROVE  LET e == ev[b]
               n == ev'[b] IN
           /\ EvOK(e) /\ e.stage = "overrides" /\ EvOK(n) /\ n.stage = "decide" /\ Loads(n, e)
           /\ n.active = e.active /\ n.sticky = e.sticky /\ n.default = e.default
           /\ n.rules = e.rules
           /\ n.over = Restrict(db.over, {x \in DOMAIN db.over : x[1] \in Range(e.todo)})
<1> DEFINE e == ev[b]
           found == Restrict(db.over, {x \in DOMAIN db.over : x[1] \in Range(e.todo)})
           n == [e EXCEPT !.stage = "decide", !.over = found]
<1>1. EvOK(e) /\ e.stage = "overrides"
  BY RunningOK DEF LoadOverrides
<1>2. ev'[b] = n
  BY StepMoves DEF LoadOverrides, RestrictDomain, Keys
<1>3. IsMap(found, Flags \X Scopes, Values)
  BY RestrictedMap DEF Typed, Tables
<1> HIDE DEF found
<1>4. /\ EvRecord(n) /\ Loads(n, e) /\ n.stage = "decide"
      /\ n.active = e.active /\ n.sticky = e.sticky /\ n.default = e.default
      /\ n.rules = e.rules /\ n.over = found
  BY <1>1 DEF EvOK, EvRecord, Stages, Loads, SameReader, SameAnswers
<1> HIDE DEF n, e
<1>5. EvOK(n)
  BY <1>1, <1>3, <1>4 DEF EvOK, Loads, SameReader, SameAnswers, Deciding, Holding
<1> QED BY <1>1, <1>2, <1>4, <1>5 DEF e, found

\* A request starts with what its user and its cookie are.
LEMMA BeginShape ==
    ASSUME Typed, NEW b \in Browsers, NEW u \in Subjects, NEW page \in Pages, Begin(b, u, page)
    PROVE  LET n == ev'[b] IN
           /\ EvOK(n) /\ n.stage = "flags" /\ n.subject = u /\ n.page = page
           /\ n.staff = (u \in db.staff) /\ n.todo = EndpointKeys(u, page)
           /\ n.got = <<>> /\ n.writes = <<>> /\ n.required = <<>> /\ n.rules = <<>>
<1> DEFINE staff == u \in db.staff
           keys == EndpointKeys(u, page)
           n == [stage |-> "flags", subject |-> u, staff |-> staff, page |-> page,
                 asked |-> cookie[b], preview |-> PreviewOf(cookie[b], u, staff),
                 todo |-> keys,
                 got |-> <<>>, writes |-> <<>>, required |-> <<>>,
                 active |-> <<>>, sticky |-> <<>>, default |-> <<>>,
                 rules |-> <<>>, over |-> <<>>, rest |-> {}]
<1>1. ev'[b] = n
  BY StepMoves DEF Begin
<1>2. keys \in Seq(Flags) /\ keys # <<>> /\ CookieOK(cookie[b]) /\ staff \in BOOLEAN
  BY EvaluationAssumption DEF Typed
<1> HIDE DEF keys, staff
<1>3. /\ n.stage = "flags" /\ n.subject = u /\ n.page = page /\ n.staff = staff
      /\ n.todo = keys /\ n.got = <<>> /\ n.writes = <<>> /\ n.required = <<>>
      /\ n.rules = <<>> /\ n.over = <<>> /\ n.asked = cookie[b]
      /\ n.preview = PreviewOf(cookie[b], u, staff)
  OBVIOUS
<1>4. EvRecord(n)
  BY <1>2 DEF EvRecord, Stages
<1>5. /\ IsMap(<<>>, Flags, Values) /\ IsMap(<<>>, StickyKeys, Values)
      /\ IsMap(<<>>, Slugs, SUBSET Groups) /\ IsMap(<<>>, Rules, Rows)
      /\ IsMap(<<>>, Flags \X Scopes, Values)
  BY EmptyMap
<1> HIDE DEF n
<1>6. EvOK(n)
  BY <1>2, <1>3, <1>4, <1>5 DEF EvOK, Deciding, Holding
<1> QED BY <1>1, <1>3, <1>6 DEF staff, keys

LEMMA FinishShape ==
    ASSUME Typed, NEW b \in Browsers, Finish(b)
    PROVE  /\ EvOK(ev[b]) /\ ev'[b] = Idle
           /\ db' = [db EXCEPT !.assigned = Commit(@, ev[b].writes)]
           /\ Tables(db)'
<1>1. EvOK(ev[b]) /\ ev[b].stage = "done"
  BY RunningOK DEF Finish
<1>2. ev'[b] = Idle /\ db' = [db EXCEPT !.assigned = Commit(@, ev[b].writes)]
  BY StepMoves DEF Finish
<1>3. IsMap(db.assigned, StickyKeys, Values) /\ IsMap(ev[b].writes, StickyKeys, Values)
  BY <1>1 DEF EvOK, Typed, Tables
<1> DEFINE both == Commit(db.assigned, ev[b].writes)
<1>4. IsMap(both, StickyKeys, Values)
  BY <1>3, CommitMap
<1> HIDE DEF both
<1>5. db' = [db EXCEPT !.assigned = both]
  BY <1>2 DEF both
<1>6. Tables(db)'
  BY <1>4, <1>5 DEF Typed, Tables
<1> QED BY <1>1, <1>2, <1>6

----------------------------------------------------------------------------
(* What operators and staff change *)

\* An edit leaves well-shaped tables and does not touch assignments.
EditShape == Tables(db)' /\ db'.assigned = db.assigned /\ UNCHANGED <<cookie, ev>>

LEMMA RuleEdits ==
    ASSUME Typed, NEW r \in Rules, StopRule(r) \/ \E row \in Catalogue : SaveRule(r, row)
    PROVE  EditShape
<1>1. Tables(db) /\ IsMap(db.rules, Rules, Rows) /\ Catalogue \subseteq Rows
  BY EvaluationAssumption DEF Typed, Tables
<1>2. CASE StopRule(r)
  <2>1. r \in DOMAIN db.rules /\ db' = [db EXCEPT !.rules[r].enabled = FALSE]
        /\ UNCHANGED <<cookie, ev>>
    BY <1>2 DEF StopRule, Edit
  <2> DEFINE stopped == [db.rules[r] EXCEPT !.enabled = FALSE]
             rules == [db.rules EXCEPT ![r] = stopped]
  <2>2. stopped \in Rows
    <3>1. db.rules[r] \in Rows
      BY <1>1, <2>1 DEF IsMap
    <3> QED BY <3>1 DEF Rows
  <2>3. db' = [db EXCEPT !.rules = rules]
    BY <2>1
  <2> HIDE DEF stopped
  <2>4. IsMap(rules, Rules, Rows)
    BY <1>1, <2>2 DEF IsMap
  <2> HIDE DEF rules
  <2> QED BY <1>1, <2>1, <2>3, <2>4 DEF EditShape, Tables
<1>3. ASSUME NEW row \in Catalogue, SaveRule(r, row) PROVE EditShape
  <2> DEFINE rules == Put(db.rules, r, row)
  <2>1. db' = [db EXCEPT !.rules = rules] /\ UNCHANGED <<cookie, ev>>
    BY <1>3 DEF SaveRule, Edit
  <2>2. IsMap(rules, Rules, Rows)
    BY <1>1, PutMap
  <2> HIDE DEF rules
  <2> QED BY <1>1, <2>1, <2>2 DEF EditShape, Tables
<1> QED BY <1>2, <1>3

LEMMA FlagEdits ==
    ASSUME Typed, NEW f \in Flags, SwitchFlag(f) \/ SwitchSticky(f)
    PROVE  EditShape
<1>1. Tables(db)
  BY DEF Typed
<1>2. CASE SwitchFlag(f)
  BY <1>1, <1>2 DEF SwitchFlag, Edit, EditShape, Tables
<1>3. CASE SwitchSticky(f)
  BY <1>1, <1>3 DEF SwitchSticky, Edit, EditShape, Tables
<1> QED BY <1>2, <1>3

LEMMA OverrideEdits ==
    ASSUME Typed, NEW f \in Flags, NEW scope \in Scopes,
           DisableOverride(f, scope) \/ \E v \in Values : SaveOverride(f, scope, v)
    PROVE  EditShape
<1>1. Tables(db) /\ IsMap(db.over, Flags \X Scopes, Values)
  BY DEF Typed, Tables
<1>2. CASE DisableOverride(f, scope)
  <2> DEFINE over == Restrict(db.over, {x \in DOMAIN db.over : x # <<f, scope>>})
  <2>1. db' = [db EXCEPT !.over = over] /\ UNCHANGED <<cookie, ev>>
    BY <1>2 DEF DisableOverride, Edit, RestrictDomain
  <2>2. IsMap(over, Flags \X Scopes, Values)
    BY <1>1, RestrictedMap
  <2> HIDE DEF over
  <2> QED BY <1>1, <2>1, <2>2 DEF EditShape, Tables
<1>3. ASSUME NEW v \in Values, SaveOverride(f, scope, v) PROVE EditShape
  <2> DEFINE over == Put(db.over, <<f, scope>>, v)
  <2>1. db' = [db EXCEPT !.over = over] /\ UNCHANGED <<cookie, ev>>
    BY <1>3 DEF SaveOverride, Edit
  <2>2. IsMap(over, Flags \X Scopes, Values)
    BY <1>1, PutMap
  <2> HIDE DEF over
  <2> QED BY <1>1, <2>1, <2>2 DEF EditShape, Tables
<1> QED BY <1>2, <1>3

LEMMA MemberEdits ==
    ASSUME Typed, NEW u \in Users,
           SwitchStaff(u) \/ \E g \in Groups : Join(u, g) \/ Leave(u, g)
    PROVE  EditShape
<1>1. Tables(db)
  BY DEF Typed
<1>2. CASE SwitchStaff(u)
  BY <1>1, <1>2 DEF SwitchStaff, Edit, EditShape, Tables
<1>3. ASSUME NEW g \in Groups, Join(u, g) PROVE EditShape
  BY <1>1, <1>3 DEF Join, Edit, EditShape, Tables
<1>4. ASSUME NEW g \in Groups, Leave(u, g) PROVE EditShape
  BY <1>1, <1>4 DEF Leave, Edit, EditShape, Tables
<1> QED BY <1>2, <1>3, <1>4

LEMMA GroupEdits ==
    ASSUME Typed, NEW g \in Groups, DropGroup(g) \/ \E slug \in Slugs : MakeGroup(g, slug)
    PROVE  EditShape
<1>1. Tables(db)
  BY DEF Typed
<1>2. CASE DropGroup(g)
  BY <1>1, <1>2 DEF DropGroup, Edit, EditShape, Tables
<1>3. ASSUME NEW slug \in Slugs, MakeGroup(g, slug) PROVE EditShape
  BY <1>1, <1>3 DEF MakeGroup, Edit, EditShape, Tables
<1> QED BY <1>2, <1>3

LEMMA Edits == ASSUME Typed, Operate PROVE EditShape
<1>1. \A scope \in {"global"} \union Excepted : scope \in Scopes
  BY EvaluationAssumption DEF Scopes, Subjects
<1> QED BY <1>1, RuleEdits, FlagEdits, OverrideEdits, MemberEdits, GroupEdits DEF Operate

LEMMA PreviewSteps ==
    ASSUME Typed, NEW b \in Browsers, Preview(b)
    PROVE  /\ cookie' \in [Browsers -> {cookie'[c] : c \in Browsers}]
           /\ \A c \in Browsers : CookieOK(cookie'[c])
           /\ UNCHANGED <<db, ev>>
<1>1. CookieOK(NoCookie)
  BY EmptyMap DEF CookieOK, NoCookie
<1>2. CASE DropPreview(b)
  BY <1>1, <1>2 DEF DropPreview, Typed
<1>3. ASSUME NEW u \in Users, NEW choices \in Previews, SetPreview(b, u, choices)
      PROVE  /\ cookie' \in [Browsers -> {cookie'[c] : c \in Browsers}]
             /\ \A c \in Browsers : CookieOK(cookie'[c])
             /\ UNCHANGED <<db, ev>>
  <2> DEFINE c == [owner |-> u, choices |-> choices]
  <2>1. CookieOK(c)
    BY <1>3, EvaluationAssumption DEF SetPreview, CookieOK
  <2>2. cookie' = [cookie EXCEPT ![b] = c] /\ UNCHANGED <<db, ev>>
    BY <1>3 DEF SetPreview
  <2> HIDE DEF c
  <2> QED BY <2>1, <2>2 DEF Typed
<1> QED BY <1>2, <1>3 DEF Preview

----------------------------------------------------------------------------
(* Every step leaves well-shaped requests *)

\* Either the request of b ends, or it goes on and nothing else changes.
Goes(b) ==
    /\ EvOK(ev'[b]) /\ UNCHANGED <<db, cookie>>
    /\ \A c \in Browsers \ {b} : ev'[c] = ev[c]
    /\ ev' \in [Browsers -> {ev'[c] : c \in Browsers}]

LEMMA RequestGoes ==
    ASSUME Typed, NEW b \in Browsers, Evaluate(b), ~Finish(b)
    PROVE  Goes(b)
<1>1. ASSUME NEW u \in Subjects, NEW page \in Pages, Begin(b, u, page) PROVE Goes(b)
  <2>1. EvOK(ev'[b])
    BY <1>1, BeginShape
  <2> QED BY <1>1, <2>1, StepMoves DEF Begin, Goes
<1>2. CASE LoadFlags(b)
  BY <1>2, LoadFlagsShape, StepMoves DEF LoadFlags, Goes
<1>3. CASE LoadRules(b)
  BY <1>3, LoadRulesShape, StepMoves DEF LoadRules, Goes
<1>4. CASE LoadOverrides(b)
  BY <1>4, LoadOverridesShape, StepMoves DEF LoadOverrides, Goes
<1>5. CASE Decide(b)
  BY <1>5, DecideShape, StepMoves DEF Decide, Goes
<1>6. CASE ReadSticky(b)
  BY <1>6, StickyShape, StepMoves DEF ReadSticky, Goes
<1>7. CASE TryRule(b)
  BY <1>7, TryShape, StepMoves DEF TryRule, Goes
<1>8. CASE CheckPolicy(b)
  BY <1>8, PolicyShape, StepMoves DEF CheckPolicy, Goes
<1>9. CASE Persist(b)
  BY <1>9, PersistShape, StepMoves DEF Persist, Goes
<1> QED BY <1>1, <1>2, <1>3, <1>4, <1>5, <1>6, <1>7, <1>8, <1>9 DEF Evaluate

LEMMA FinishMoves ==
    ASSUME Typed, NEW b \in Browsers, Finish(b)
    PROVE  /\ ev'[b] = Idle /\ Tables(db)'
           /\ \A c \in Browsers \ {b} : ev'[c] = ev[c]
           /\ ev' \in [Browsers -> {ev'[c] : c \in Browsers}]
           /\ cookie' \in [Browsers -> {cookie'[c] : c \in Browsers}]
           /\ \A c \in Browsers : CookieOK(cookie'[c])
<1>1. ev'[b] = Idle /\ Tables(db)'
  BY FinishShape
<1>2. /\ \A c \in Browsers \ {b} : ev'[c] = ev[c]
      /\ ev' \in [Browsers -> {ev'[c] : c \in Browsers}]
  BY StepMoves DEF Finish
<1>3. CookieOK(NoCookie)
  BY EmptyMap DEF CookieOK, NoCookie
<1>4. /\ cookie' \in [Browsers -> {cookie'[c] : c \in Browsers}]
      /\ \A c \in Browsers : CookieOK(cookie'[c])
  BY <1>3 DEF Finish, Typed
<1> QED BY <1>1, <1>2, <1>4

\* Who is running takes note of what is committed.
LEMMA Noted ==
    ASSUME Observe, NEW b \in Browsers
    PROVE  /\ seen' \in [Browsers -> {seen'[c] : c \in Browsers}]
           /\ ev'[b].stage # "idle" => seen'[b] = seen[b] \union {db'}
BY DEF Observe

\* A request moves only by its own steps.
LEMMA MovedEvaluates ==
    ASSUME Typed, Next, NEW b \in Browsers, ev'[b] # ev[b]
    PROVE  Evaluate(b)
<1>1. CASE Operate
  BY <1>1, Edits DEF EditShape
<1>2. ASSUME NEW c \in Browsers, Preview(c) PROVE Evaluate(b)
  BY <1>2, PreviewSteps
<1>3. ASSUME NEW c \in Browsers, Evaluate(c) PROVE Evaluate(b)
  <2>1. \A a \in Browsers \ {c} : ev'[a] = ev[a]
    BY <1>3, RequestGoes, FinishMoves DEF Goes
  <2> QED BY <1>3, <2>1
<1> QED BY <1>1, <1>2, <1>3 DEF Next

LEMMA TypedInit == ASSUME Init PROVE Typed
<1>1. CookieOK(NoCookie)
  BY EmptyMap DEF CookieOK, NoCookie
<1>2. Tables(db)
  BY EvaluationAssumption DEF Init
<1> QED BY <1>1, <1>2 DEF Init, Typed

LEMMA TypedNext == ASSUME Typed, [Next]_vars PROVE Typed'
<1>1. CASE Next
  <2> USE <1>1
  <2> SUFFICES /\ Tables(db)'
               /\ cookie' \in [Browsers -> {cookie'[b] : b \in Browsers}]
               /\ ev' \in [Browsers -> {ev'[b] : b \in Browsers}]
               /\ \A b \in Browsers : CookieOK(cookie'[b])
               /\ \A b \in Browsers : ev'[b] = Idle \/ EvOK(ev'[b])
    <3>1. Observe
      BY DEF Next
    <3>2. seen' \in [Browsers -> {seen'[b] : b \in Browsers}]
      BY <3>1 DEF Observe
    <3>3. \A b \in Browsers : EvOK(ev'[b]) => db' \in seen'[b]
      BY <3>1, Noted, IdleApart
    <3> QED BY <3>2, <3>3 DEF Typed
  <2>1. CASE Operate
    BY <2>1, Edits DEF Typed, EditShape
  <2>2. ASSUME NEW b \in Browsers, Preview(b) PROVE
               /\ Tables(db)'
               /\ cookie' \in [Browsers -> {cookie'[c] : c \in Browsers}]
               /\ ev' \in [Browsers -> {ev'[c] : c \in Browsers}]
               /\ \A c \in Browsers : CookieOK(cookie'[c])
               /\ \A c \in Browsers : ev'[c] = Idle \/ EvOK(ev'[c])
    BY <2>2, PreviewSteps DEF Typed, Tables
  <2>3. ASSUME NEW b \in Browsers, Finish(b) PROVE
               /\ Tables(db)'
               /\ cookie' \in [Browsers -> {cookie'[c] : c \in Browsers}]
               /\ ev' \in [Browsers -> {ev'[c] : c \in Browsers}]
               /\ \A c \in Browsers : CookieOK(cookie'[c])
               /\ \A c \in Browsers : ev'[c] = Idle \/ EvOK(ev'[c])
    BY <2>3, FinishMoves DEF Typed
  <2>4. ASSUME NEW b \in Browsers, Evaluate(b), ~Finish(b) PROVE
               /\ Tables(db)'
               /\ cookie' \in [Browsers -> {cookie'[c] : c \in Browsers}]
               /\ ev' \in [Browsers -> {ev'[c] : c \in Browsers}]
               /\ \A c \in Browsers : CookieOK(cookie'[c])
               /\ \A c \in Browsers : ev'[c] = Idle \/ EvOK(ev'[c])
    BY <2>4, RequestGoes DEF Goes, Typed, Tables
  <2> QED BY <2>1, <2>2, <2>3, <2>4 DEF Next
<1>2. CASE UNCHANGED vars
  BY <1>2 DEF vars, Typed, Tables
<1> QED BY <1>1, <1>2

----------------------------------------------------------------------------
(* Guarded values are earned *)

LEMMA TruthGrows ==
    ASSUME NEW e, NEW S, NEW T, S \subseteq T, Truth(e, S)
    PROVE  Truth(e, T)
<1>1. ASSUME NEW f, NEW v, NEW u, NEW page, NEW owner, Earned(S, f, v, u, page, owner)
      PROVE  Earned(T, f, v, u, page, owner)
  BY <1>1 DEF Earned
<1> QED BY <1>1 DEF Truth, ReaderTrue, RulesTrue, RequiredTrue, AnswersTrue

LEMMA AnswerTruth ==
    ASSUME NEW e, EvOK(e), e.stage \notin {"flags", "done"}, NEW v \in Values, NEW n, NEW S,
           AnsweredWith(n, e, v), Truth(e, S), RequiredTrue(n, S),
           LET f == Head(e.todo)
           IN  IsGuarded(f, v) => Earned(S, f, v, e.subject, e.page, e.asked.owner)
    PROVE  Truth(n, S)
<1> DEFINE f == Head(e.todo)
<1>1. IsMap(e.got, Flags, Values) /\ f \in Flags
  BY HeadOfTodo DEF EvOK
<1>2. /\ n.subject = e.subject /\ n.page = e.page /\ n.asked = e.asked /\ n.staff = e.staff
      /\ n.rules = e.rules /\ n.got = Put(e.got, f, v) /\ n.stage \in {"done", "decide"}
  BY DEF AnsweredWith, SameReader, SameTables
<1>3. AnswersTrue(n, S)
  <2> HIDE DEF f
  <2>1. /\ DOMAIN n.got = DOMAIN e.got \union {f} /\ n.got[f] = v
        /\ \A x \in DOMAIN e.got : x # f => n.got[x] = e.got[x]
    <3>1. /\ DOMAIN Put(e.got, f, v) = DOMAIN e.got \union {f} /\ Put(e.got, f, v)[f] = v
          /\ \A x \in DOMAIN e.got : x # f => Put(e.got, f, v)[x] = e.got[x]
      BY <1>1 DEF Put, IsMap
    <3> QED BY <3>1, <1>2
  <2>2. IsGuarded(f, v) => Earned(S, f, v, e.subject, e.page, e.asked.owner)
    BY DEF f
  <2>3. \A x \in DOMAIN e.got : IsGuarded(x, e.got[x]) =>
            Earned(S, x, e.got[x], e.subject, e.page, e.asked.owner)
    BY DEF Truth, AnswersTrue
  <2>4. ASSUME NEW x \in DOMAIN n.got, IsGuarded(x, n.got[x])
        PROVE  Earned(S, x, n.got[x], n.subject, n.page, n.asked.owner)
    <3>1. CASE x = f
      BY <3>1, <2>1, <2>2, <2>4, <1>2
    <3>2. CASE x # f
      BY <3>2, <2>1, <2>3, <2>4, <1>2
    <3> QED BY <3>1, <3>2
  <2> QED BY <2>4 DEF AnswersTrue
<1>4. ReaderTrue(n, S) /\ RulesTrue(n, S)
  BY <1>2 DEF Truth, ReaderTrue, RulesTrue
<1>5. TurnTrue(n)
  BY <1>2 DEF TurnTrue, Holding
<1> QED BY <1>3, <1>4, <1>5 DEF Truth

LEMMA TurnTruth ==
    ASSUME NEW e, NEW n, NEW S, Turned(n, e), Truth(e, S), RequiredTrue(n, S), TurnTrue(n)
    PROVE  Truth(n, S)
<1>1. /\ n.subject = e.subject /\ n.page = e.page /\ n.asked = e.asked /\ n.staff = e.staff
      /\ n.rules = e.rules /\ n.got = e.got
  BY DEF Turned, SameReader, SameTables, SameAnswers
<1> QED BY <1>1 DEF Truth, ReaderTrue, RulesTrue, AnswersTrue

\* Values of a sticky flag are not guarded.
LEMMA StickyUnguarded ==
    ASSUME GuardedPolicies, NEW f \in Flags, Policy[f].sticky, NEW v
    PROVE  ~IsGuarded(f, v)
BY DEF GuardedPolicies, IsGuarded

LEMMA DecideTruth ==
    ASSUME Typed, NEW b \in Browsers, Decide(b), Truth(ev[b], seen[b])
    PROVE  Truth(ev'[b], seen[b])
<1> DEFINE e == ev[b]
           n == ev'[b]
           S == seen[b]
           f == Head(e.todo)
           over == Override(e.over, f, e.subject)
<1>1. /\ EvOK(e) /\ e.stage = "decide" /\ n.required = e.required /\ DecideTurn(n, e)
      /\ Truth(e, S)
  BY DecideShape
<1> HIDE DEF e, n, S
<1>2. f \in Flags /\ n.subject = e.subject /\ n.rules = e.rules
  BY <1>1, HeadOfTodo DEF DecideTurn, AnsweredWith, Turned, SameReader, SameTables
<1>3. RequiredTrue(n, S)
  BY <1>1, <1>2 DEF Truth, RequiredTrue
<1>4. ASSUME AnsweredWith(n, e, Policy[f].default)
      PROVE  Truth(n, S)
  <2>1. Policy[f].default \in Values
    BY <1>2, EvaluationAssumption DEF Policies
  <2>2. ~IsGuarded(f, Policy[f].default)
    BY <1>2, <2>1, DefaultSafe
  <2> QED BY <1>1, <1>3, <1>4, <2>1, <2>2, AnswerTruth
<1>5. ASSUME f \in DOMAIN e.preview /\ AnsweredWith(n, e, e.preview[f])
      PROVE  Truth(n, S)
  <2>1. CookieOK(e.asked) /\ e.preview = PreviewOf(e.asked, e.subject, e.staff)
    BY <1>1 DEF EvOK
  <2>2. /\ IsMap(e.preview, Flags, Values)
        /\ e.asked.owner = e.subject /\ e.staff /\ Policy[f].preview
    BY <1>5, <2>1, PreviewShape
  <2>3. e.preview[f] \in Values
    BY <1>5, <2>2 DEF IsMap
  <2>4. \E d \in S : e.subject \in d.staff
    BY <1>1, <2>2 DEF Truth, ReaderTrue
  <2>5. Earned(S, f, e.preview[f], e.subject, e.page, e.asked.owner)
    BY <2>2, <2>4 DEF Earned
  <2> QED BY <1>1, <1>3, <1>5, <2>3, <2>5, AnswerTruth
<1>6. ASSUME OverrideAllowed(f, over) /\ AnsweredWith(n, e, over)
      PROVE  Truth(n, S)
  <2>1. over \in Values /\ ~IsGuarded(f, over)
    BY <1>2, <1>6, OverrideValue DEF OverrideAllowed
  <2> QED BY <1>1, <1>3, <1>6, <2>1, AnswerTruth
<1>7. ASSUME Turned(n, e) /\ n.stage = IF e.sticky[f] /\ Policy[f].sticky THEN "sticky" ELSE "rule"
      PROVE  Truth(n, S)
  <2>1. TurnTrue(n)
    BY <1>7 DEF TurnTrue, Turned, Holding
  <2> QED BY <1>1, <1>3, <1>7, <2>1, TurnTruth
<1>8. Truth(n, S)
  BY <1>1, <1>4, <1>5, <1>6, <1>7 DEF DecideTurn
<1> QED BY <1>8 DEF n, S

LEMMA StickyTruth ==
    ASSUME GuardedPolicies, Typed, NEW b \in Browsers, ReadSticky(b), Truth(ev[b], seen[b])
    PROVE  Truth(ev'[b], seen[b])
<1> DEFINE e == ev[b]
           n == ev'[b]
           S == seen[b]
           f == Head(e.todo)
           v == db.assigned[<<f, e.subject, e.page>>]
<1>1. /\ EvOK(e) /\ e.stage = "sticky" /\ n.required = e.required /\ StickyTurn(n, e, db)
      /\ Truth(e, S)
  BY StickyShape
<1> HIDE DEF e, n, S
<1>2. f \in Flags /\ n.subject = e.subject
  BY <1>1, HeadOfTodo DEF StickyTurn, AnsweredWith, Turned, SameReader
<1>3. RequiredTrue(n, S)
  BY <1>1, <1>2 DEF Truth, RequiredTrue
<1>4. ASSUME Valid(f, v) /\ AnsweredWith(n, e, v)
      PROVE  Truth(n, S)
  <2>1. v \in Values
    BY <1>2, <1>4, ValidIsValue
  <2>2. ~IsGuarded(f, v)
    BY <1>1, <1>2, StickyUnguarded DEF Truth, TurnTrue
  <2> HIDE DEF v
  <2> QED BY <1>1, <1>3, <1>4, <2>1, <2>2, AnswerTruth
<1>5. ASSUME Turned(n, e) /\ n.stage = "rule"
      PROVE  Truth(n, S)
  BY <1>1, <1>3, <1>5, TurnTruth DEF TurnTrue, Holding
<1>6. Truth(n, S)
  BY <1>1, <1>4, <1>5 DEF StickyTurn
<1> QED BY <1>6 DEF n, S

LEMMA TryTruth ==
    ASSUME Typed, NEW b \in Browsers, TryRule(b), Truth(ev[b], seen[b])
    PROVE  Truth(ev'[b], seen[b])
<1> DEFINE e == ev[b]
           n == ev'[b]
           S == seen[b]
           f == Head(e.todo)
           v == SafeDefault(f, e.default[f])
<1>1. /\ EvOK(e) /\ e.stage = "rule" /\ n.required = e.required /\ TryTurn(n, e, db)
      /\ Truth(e, S)
  BY TryShape
<1> HIDE DEF e, n, S
<1>2. f \in Flags /\ n.subject = e.subject /\ e.default \in [Flags -> Values]
  BY <1>1, HeadOfTodo DEF TryTurn, AnsweredWith, Turned, SameReader, EvOK
<1>3. RequiredTrue(n, S)
  BY <1>1, <1>2 DEF Truth, RequiredTrue
<1>4. ASSUME AnsweredWith(n, e, v)
      PROVE  Truth(n, S)
  <2>1. v \in Values /\ ~IsGuarded(f, v)
    BY <1>2, DefaultSafe
  <2> HIDE DEF v
  <2> QED BY <1>1, <1>3, <1>4, <2>1, AnswerTruth
<1>5. ASSUME Passes(e, db) /\ Turned(n, e) /\ n.stage = "policy" /\ n.rest = e.rest
      PROVE  Truth(n, S)
  <2>1. Tried(n) = Tried(e) /\ n.page = e.page
    BY <1>5 DEF Tried, Turned, SameTables, SameReader
  <2>2. TurnTrue(n)
    BY <1>5, <2>1 DEF TurnTrue, Passes
  <2> QED BY <1>1, <1>3, <1>5, <2>2, TurnTruth
<1>6. ASSUME Turned(n, e) /\ n.stage = "rule"
      PROVE  Truth(n, S)
  BY <1>1, <1>3, <1>6, TurnTruth DEF TurnTrue, Holding
<1>7. Truth(n, S)
  BY <1>1, <1>4, <1>5, <1>6 DEF TryTurn
<1> QED BY <1>7 DEF n, S

\* A guarded value that the policy permits a rule to give is earned.
LEMMA PermittedEarned ==
    ASSUME GuardedPolicies, NEW d, Tables(d), NEW e, EvOK(e), e.stage = "policy",
           NEW S, d \in S, Truth(e, S), Permitted(e, d),
           NEW n, n.required = Known(e, d), n.subject = e.subject, RequiredTrue(n, S),
           LET f == Head(e.todo) IN IsGuarded(f, TriedValue(e))
    PROVE  Earned(S, Head(e.todo), TriedValue(e), e.subject, e.page, e.asked.owner)
<1> DEFINE f == Head(e.todo)
           v == TriedValue(e)
           row == Tried(e)
           r == NextRule(e.rules, e.rest)
           slug == Policy[f].required
           required == IF Asks(e) THEN Known(e, d)[slug] ELSE {}
<1>1. e.rest # {} /\ e.default \in [Flags -> Values] /\ "policy" \in Trying
  BY DEF EvOK, Holding, Trying
<1>2. r \in DOMAIN e.rules /\ row \in Rows /\ row.flag = f /\ f \in Flags
  BY <1>1, TriedIsRule
<1>3. v = row.value
  <2>1. e.default[row.flag] \in Values /\ TriedValue(e) = ResultOf(row, e.default[row.flag])
    BY <1>1, <1>2 DEF TriedValue
  <2>2. IsGuarded(row.flag, v)
    BY <1>2
  <2> HIDE DEF row
  <2> QED BY <1>2, <2>1, <2>2, ResultIsValue
<1>4. row.enabled /\ OnPage(row, e.page)
  BY DEF Truth, TurnTrue, Holding
<1>5. PICK c \in S : row \in Gave(c, f, v, e.page)
  <2>1. PICK c \in S : r \in DOMAIN c.rules /\ c.rules[r] = e.rules[r]
    BY <1>2 DEF Truth, RulesTrue
  <2>2. row \in Range(c.rules)
    BY <2>1 DEF Tried, Range
  <2> QED BY <2>2, <1>2, <1>3, <1>4 DEF Gave
<1>6. RuleAllowed(f, v, row, required)
  BY DEF Permitted
<1>7. IsGuarded(f, v)
  OBVIOUS
<1> HIDE DEF row, required, v, f, r
<1>8. CASE row.audience = "everyone" /\ Policy[f].public
  <2>1. Earned(S, f, v, e.subject, e.page, e.asked.owner)
    BY <1>5, <1>8 DEF Earned
  <2> QED BY <2>1 DEF f, v
<1>9. CASE row.audience = "group" /\ required \intersect row.groups # {}
  <2>1. PICK g \in required : g \in row.groups
    BY <1>9
  <2>2. Asks(e) /\ g \in Known(e, d)[slug]
    BY <2>1 DEF required
  <2>3. slug \in DOMAIN Known(e, d) /\ IsMap(Known(e, d), Slugs, SUBSET Groups)
    BY <2>2, KnownShape DEF f
  <2>4. g \in Groups
    BY <2>2, <2>3 DEF IsMap
  <2>5. PICK a \in S : a.slug[g] = slug /\ e.subject \in a.members[g]
    BY <2>2, <2>3 DEF RequiredTrue
  <2>6. Earned(S, f, v, e.subject, e.page, e.asked.owner)
    BY <1>5, <1>9, <2>1, <2>4, <2>5 DEF Earned
  <2> QED BY <2>6 DEF f, v
<1> QED BY <1>2, <1>6, <1>7, <1>8, <1>9, GuardedRules

LEMMA PolicyTruth ==
    ASSUME GuardedPolicies, Typed, NEW b \in Browsers, CheckPolicy(b), Truth(ev[b], seen[b])
    PROVE  Truth(ev'[b], seen[b])
<1> DEFINE e == ev[b]
           n == ev'[b]
           S == seen[b]
           f == Head(e.todo)
           v == TriedValue(e)
<1>1. /\ EvOK(e) /\ e.stage = "policy" /\ n.required = Known(e, db) /\ PolicyTurn(n, e, db)
      /\ Truth(e, S) /\ Tables(db) /\ db \in S
  BY PolicyShape, RunningOK DEF Typed
<1> HIDE DEF e, n, S
<1>2. /\ n.subject = e.subject /\ n.page = e.page /\ n.rules = e.rules
      /\ v \in Values /\ f \in Flags
  <2>1. e.rest # {}
    BY <1>1 DEF EvOK, Holding
  <2>2. v \in Values /\ f \in Flags
    BY <1>1, <2>1, TriedIsRule DEF Trying
  <2> QED BY <1>1, <2>2 DEF PolicyTurn, AnsweredWith, Turned, SameReader, SameTables
<1>3. RequiredTrue(n, S)
  <2>1. ASSUME NEW s \in DOMAIN n.required, NEW g \in n.required[s]
        PROVE  \E d \in S : d.slug[g] = s /\ n.subject \in d.members[g]
    <3>1. n.required[s] = RequiredGroup(db, s, e.subject)
          \/ (s \in DOMAIN e.required /\ n.required[s] = e.required[s])
      BY <1>1, KnownShape
    <3>2. CASE n.required[s] = RequiredGroup(db, s, e.subject)
      BY <1>1, <1>2, <2>1, <3>2 DEF RequiredGroup
    <3>3. CASE s \in DOMAIN e.required /\ n.required[s] = e.required[s]
      BY <1>1, <1>2, <2>1, <3>3 DEF Truth, RequiredTrue
    <3> QED BY <3>1, <3>2, <3>3
  <2> QED BY <2>1 DEF RequiredTrue
<1>4. ASSUME Turned(n, e), n.stage = "rule"
      PROVE  Truth(n, S)
  BY <1>1, <1>3, <1>4, TurnTruth DEF TurnTrue, Holding
<1>5. ASSUME Turned(n, e), n.stage = "persist", n.rest = e.rest, Policy[f].sticky
      PROVE  Truth(n, S)
  <2>1. Tried(n) = Tried(e) /\ n.page = e.page /\ n.todo = e.todo
    BY <1>5 DEF Tried, Turned, SameTables, SameReader
  <2>2. TurnTrue(n)
    BY <1>1, <1>5, <2>1 DEF Truth, TurnTrue, Holding
  <2> QED BY <1>1, <1>3, <1>5, <2>2, TurnTruth
<1>6. ASSUME Permitted(e, db), AnsweredWith(n, e, v)
      PROVE  Truth(n, S)
  <2>1. IsGuarded(f, v) => Earned(S, f, v, e.subject, e.page, e.asked.owner)
    BY <1>1, <1>2, <1>3, <1>6, PermittedEarned
  <2> HIDE DEF v
  <2> QED BY <1>1, <1>2, <1>3, <1>6, <2>1, AnswerTruth
<1>7. Truth(n, S)
  BY <1>1, <1>4, <1>5, <1>6 DEF PolicyTurn
<1> QED BY <1>7 DEF n, S

LEMMA PersistTruth ==
    ASSUME GuardedPolicies, Typed, NEW b \in Browsers, Persist(b), Truth(ev[b], seen[b])
    PROVE  Truth(ev'[b], seen[b])
<1> DEFINE e == ev[b]
           n == ev'[b]
           S == seen[b]
           f == Head(e.todo)
           v == TriedValue(e)
<1>1. /\ EvOK(e) /\ e.stage = "persist" /\ n.required = e.required
      /\ AnsweredWith(n, e, v) /\ Truth(e, S)
  BY PersistShape
<1> HIDE DEF e, n, S
<1>2. v \in Values /\ f \in Flags /\ n.subject = e.subject
  <2>1. e.rest # {}
    BY <1>1 DEF EvOK, Holding
  <2> QED BY <1>1, <2>1, TriedIsRule DEF Trying, AnsweredWith, SameReader
<1>3. RequiredTrue(n, S)
  BY <1>1, <1>2 DEF Truth, RequiredTrue
<1>4. ~IsGuarded(f, v)
  BY <1>1, <1>2, StickyUnguarded DEF Truth, TurnTrue
<1> HIDE DEF v
<1>5. Truth(n, S)
  BY <1>1, <1>2, <1>3, <1>4, AnswerTruth
<1> QED BY <1>5 DEF n, S

LEMMA LoadTruth ==
    ASSUME Typed, NEW b \in Browsers, LoadFlags(b) \/ LoadRules(b) \/ LoadOverrides(b),
           Truth(ev[b], seen[b])
    PROVE  Truth(ev'[b], seen[b])
<1> DEFINE e == ev[b]
           n == ev'[b]
           S == seen[b]
           found == {r \in DOMAIN db.rules : db.rules[r].flag \in Range(e.todo)}
<1>1. /\ EvOK(e) /\ Loads(n, e) /\ n.stage \in {"rules", "overrides", "decide"}
      /\ n.rules = e.rules \/ n.rules = Restrict(db.rules, found)
      /\ Truth(e, S) /\ db \in S /\ e.stage # "idle"
  <2>1. ev[b].stage # "idle"
    BY DEF LoadFlags, LoadRules, LoadOverrides
  <2> QED BY <2>1, RunningOK, LoadFlagsShape, LoadRulesShape, LoadOverridesShape
<1> HIDE DEF e, n, S
<1>2. /\ n.subject = e.subject /\ n.page = e.page /\ n.asked = e.asked /\ n.staff = e.staff
      /\ n.got = e.got /\ n.required = e.required
  BY <1>1 DEF Loads, SameReader, SameAnswers
<1>3. RulesTrue(n, S)
  <2>1. CASE n.rules = e.rules
    BY <1>1, <2>1 DEF Truth, RulesTrue
  <2>2. CASE n.rules = Restrict(db.rules, found)
    BY <1>1, <2>2 DEF RulesTrue, Restrict
  <2> QED BY <1>1, <2>1, <2>2
<1>4. TurnTrue(n)
  BY <1>1 DEF TurnTrue, Holding
<1>5. Truth(n, S)
  BY <1>1, <1>2, <1>3, <1>4 DEF Truth, ReaderTrue, RequiredTrue, AnswersTrue
<1> QED BY <1>5 DEF n, S

LEMMA BeginTruth ==
    ASSUME Typed, NEW b \in Browsers, NEW u \in Subjects, NEW page \in Pages,
           Begin(b, u, page), NEW S, db \in S
    PROVE  Truth(ev'[b], S)
<1> DEFINE n == ev'[b]
<1>1. /\ n.stage = "flags" /\ n.subject = u /\ n.staff = (u \in db.staff)
      /\ n.got = <<>> /\ n.required = <<>> /\ n.rules = <<>>
  BY BeginShape
<1> HIDE DEF n
<1>2. DOMAIN n.got = {} /\ DOMAIN n.required = {} /\ DOMAIN n.rules = {}
  BY <1>1
<1>3. Truth(n, S)
  BY <1>1, <1>2
     DEF Truth, ReaderTrue, RulesTrue, RequiredTrue, TurnTrue, AnswersTrue, Holding
<1> QED BY <1>3 DEF n

LEMMA TruthfulInit == ASSUME Init PROVE Truthful
<1>1. \A b \in Browsers : ~Busy(b)
  BY DEF Init, Busy, Idle
<1> QED BY <1>1 DEF Truthful

LEMMA RequestTruth ==
    ASSUME GuardedPolicies, Typed, NEW b \in Browsers, Evaluate(b), ~Finish(b),
           Busy(b) => Truth(ev[b], seen[b]),
           NEW S, S = seen[b] \union {db'}
    PROVE  Truth(ev'[b], S)
<1>1. ASSUME NEW u \in Subjects, NEW page \in Pages, Begin(b, u, page)
      PROVE  Truth(ev'[b], S)
  <2>1. db \in S
    BY <1>1 DEF Begin
  <2> QED BY <1>1, <2>1, BeginTruth
<1>2. ASSUME ~(\E u \in Subjects, page \in Pages : Begin(b, u, page))
      PROVE  Truth(ev'[b], S)
  <2>1. Busy(b)
    BY <1>2 DEF Evaluate, Busy, LoadFlags, LoadRules, LoadOverrides, Decide, ReadSticky, TryRule,
                CheckPolicy, Persist
  <2>2. Truth(ev'[b], seen[b])
    BY <1>2, <2>1, LoadTruth, DecideTruth, StickyTruth, TryTruth, PolicyTruth, PersistTruth
       DEF Evaluate
  <2>3. seen[b] \subseteq S
    OBVIOUS
  <2> QED BY <2>2, <2>3, TruthGrows
<1> QED BY <1>1, <1>2

LEMMA TruthfulNext ==
    ASSUME GuardedPolicies, Typed, Truthful, [Next]_vars
    PROVE  Truthful'
<1>1. CASE Next
  <2> USE <1>1
  <2> SUFFICES ASSUME NEW b \in Browsers, ev'[b].stage # "idle"
               PROVE  Truth(ev'[b], seen'[b])
    BY DEF Truthful, Busy, Truth, ReaderTrue, RulesTrue, RequiredTrue, TurnTrue, AnswersTrue, Tried
  <2>1. seen'[b] = seen[b] \union {db'}
    BY Noted DEF Next
  <2>2. CASE ev'[b] = ev[b]
    <3>1. Truth(ev[b], seen[b])
      BY <2>2 DEF Truthful, Busy
    <3> QED BY <2>1, <2>2, <3>1, TruthGrows
  <2>3. CASE Evaluate(b) /\ ~Finish(b)
    <3>1. Busy(b) => Truth(ev[b], seen[b])
      BY DEF Truthful
    <3> QED BY <2>1, <2>3, <3>1, RequestTruth
  <2>4. CASE Finish(b)
    <3>1. ev'[b].stage = "idle"
      BY <2>4, FinishShape DEF Idle
    <3> QED BY <3>1
  <2>5. ASSUME ev'[b] # ev[b] PROVE Evaluate(b)
    BY <2>5, MovedEvaluates
  <2> QED BY <2>2, <2>3, <2>4, <2>5
<1>2. CASE UNCHANGED vars
  BY <1>2 DEF vars, Truthful, Busy
<1> QED BY <1>1, <1>2

LEMMA TruthfulEarned == ASSUME Typed, Truthful PROVE GuardedEarned
<1> SUFFICES ASSUME NEW b \in Browsers, NEW f \in DOMAIN Answers(b), IsGuarded(f, ev[b].got[f])
             PROVE  Earned(seen[b], f, ev[b].got[f], ev[b].subject, ev[b].page, ev[b].asked.owner)
  BY DEF GuardedEarned, Earned, Gave
<1>1. Busy(b) /\ f \in DOMAIN ev[b].got
  BY DEF Answers
<1> QED BY <1>1 DEF Truthful, Truth, AnswersTrue

\* Whatever operators change meanwhile, a request shows a guarded variant only to who had
\* earned it while it ran.
THEOREM GuardedIsEarned == GuardedPolicies => (Spec => []GuardedEarned)
<1> SUFFICES ASSUME GuardedPolicies PROVE Spec => []GuardedEarned
  OBVIOUS
<1>1. Init => Typed /\ Truthful
  BY TypedInit, TruthfulInit
<1>2. Typed /\ Truthful /\ [Next]_vars => Typed' /\ Truthful'
  BY TypedNext, TruthfulNext
<1>3. Typed /\ Truthful => GuardedEarned
  BY TruthfulEarned
<1> QED BY <1>1, <1>2, <1>3, PTL DEF Spec


----------------------------------------------------------------------------
(* As long as nothing is changed, answers are those of the reference *)

\* At its flag, a quiet request has read what is committed.
LEMMA QuietReads ==
    ASSUME NEW d, Tables(d), NEW e, EvOK(e), Quiet(e, d),
           e.stage \notin {"flags", "rules", "overrides", "done"}
    PROVE  LET f == Head(e.todo) IN
           /\ f \in Flags /\ e.active = d.active /\ e.sticky = d.sticky /\ e.default = d.default
           /\ e.preview = PreviewOf(e.asked, e.subject, e.subject \in d.staff)
           /\ Override(e.over, f, e.subject) = Override(d.over, f, e.subject)
           /\ {r \in DOMAIN e.rules : e.rules[r].flag = f}
                  = {r \in DOMAIN d.rules : d.rules[r].flag = f}
           /\ \A r \in DOMAIN e.rules : e.rules[r] = d.rules[r]
<1> DEFINE f == Head(e.todo)
           rs == {r \in DOMAIN d.rules : d.rules[r].flag \in Requested(e)}
           xs == {x \in DOMAIN d.over : x[1] \in Requested(e)}
<1>1. f \in Flags /\ f \in Requested(e)
  BY HeadOfTodo DEF Quiet, ReaderQuiet
<1>2. e.active = d.active /\ e.sticky = d.sticky /\ e.default = d.default
  BY DEF Quiet, TablesQuiet
<1>3. e.preview = PreviewOf(e.asked, e.subject, e.subject \in d.staff)
  BY DEF EvOK, Quiet, ReaderQuiet
<1>4. e.rules = Restrict(d.rules, rs) /\ e.over = Restrict(d.over, xs)
  BY DEF Quiet, TablesQuiet
<1>5. DOMAIN e.rules = rs /\ \A r \in rs : e.rules[r] = d.rules[r]
  BY <1>4, RestrictedMap DEF Tables
<1>6. DOMAIN e.over = xs /\ \A x \in xs : e.over[x] = d.over[x]
  BY <1>4, RestrictedMap DEF Tables
<1>7. Override(e.over, f, e.subject) = Override(d.over, f, e.subject)
  <2> DEFINE own == <<f, e.subject>>
             all == <<f, "global">>
  <2>1. own[1] = f /\ all[1] = f
    OBVIOUS
  <2> HIDE DEF f, own, all
  <2>2. /\ own \in DOMAIN e.over <=> own \in DOMAIN d.over
        /\ all \in DOMAIN e.over <=> all \in DOMAIN d.over
        /\ own \in DOMAIN d.over => e.over[own] = d.over[own]
        /\ all \in DOMAIN d.over => e.over[all] = d.over[all]
    BY <1>1, <1>6, <2>1
  <2> QED BY <2>2 DEF Override, own, all
<1> HIDE DEF f
<1>8. {r \in DOMAIN e.rules : e.rules[r].flag = f} = {r \in DOMAIN d.rules : d.rules[r].flag = f}
  BY <1>1, <1>5
<1> QED BY <1>1, <1>2, <1>3, <1>5, <1>7, <1>8 DEF f

LEMMA AnswerQuiet ==
    ASSUME NEW d, NEW e, EvOK(e), e.stage \notin {"flags", "rules", "overrides", "done"},
           NEW v \in Values, NEW n, AnsweredWith(n, e, v), Quiet(e, d), RequiredQuiet(n, d),
           v = Reference(d, Head(e.todo), e.subject, e.page, e.asked),
           \A k \in DOMAIN n.writes : ~Valid(k[1], Kept(d, k))
    PROVE  Quiet(n, d)
<1> DEFINE f == Head(e.todo)
<1>1. /\ IsMap(e.got, Flags, Values) /\ f \in Flags
      /\ Range(Tail(e.todo)) \subseteq Range(e.todo)
  BY HeadOfTodo DEF EvOK
<1>2. /\ n.subject = e.subject /\ n.page = e.page /\ n.asked = e.asked /\ n.staff = e.staff
      /\ n.got = Put(e.got, f, v) /\ n.stage \in {"done", "decide"} /\ n.todo = Tail(e.todo)
      /\ SameTables(n, e) /\ Requested(n) = Requested(e)
  BY DEF AnsweredWith, SameReader, Requested
<1>3. AnswersQuiet(n, d)
  <2> HIDE DEF f
  <2>1. /\ DOMAIN Put(e.got, f, v) = DOMAIN e.got \union {f} /\ Put(e.got, f, v)[f] = v
        /\ \A x \in DOMAIN e.got : x # f => Put(e.got, f, v)[x] = e.got[x]
    BY <1>1 DEF Put, IsMap
  <2>2. v = Reference(d, f, n.subject, n.page, n.asked)
    BY <1>2 DEF f
  <2>3. \A x \in DOMAIN e.got : e.got[x] = Reference(d, x, n.subject, n.page, n.asked)
    BY <1>2 DEF Quiet, AnswersQuiet
  <2>4. \A x \in DOMAIN n.got : n.got[x] = Reference(d, x, n.subject, n.page, n.asked)
    BY <1>2, <2>1, <2>2, <2>3
  <2> QED BY <2>4 DEF AnswersQuiet
<1>4. ReaderQuiet(n, d)
  BY <1>1, <1>2 DEF Quiet, ReaderQuiet
<1>5. TablesQuiet(n, d)
  BY <1>2 DEF Quiet, TablesQuiet, SameTables
<1>6. TurnQuiet(n, d)
  BY <1>2 DEF TurnQuiet, Deciding, Trying, Holding
<1> QED BY <1>3, <1>4, <1>5, <1>6 DEF Quiet

LEMMA TurnedQuiet ==
    ASSUME NEW d, NEW e, e.stage \notin {"flags", "rules", "overrides", "done"}, Quiet(e, d),
           NEW n, Turned(n, e), n.stage \in Deciding, RequiredQuiet(n, d), TurnQuiet(n, d)
    PROVE  Quiet(n, d)
<1>1. /\ n.subject = e.subject /\ n.page = e.page /\ n.asked = e.asked /\ n.staff = e.staff
      /\ n.todo = e.todo /\ n.got = e.got /\ n.writes = e.writes
      /\ SameTables(n, e) /\ Requested(n) = Requested(e)
  BY DEF Turned, SameReader, SameAnswers, Requested
<1>2. ReaderQuiet(n, d)
  BY <1>1 DEF Quiet, ReaderQuiet, Deciding
<1>3. TablesQuiet(n, d)
  BY <1>1 DEF Quiet, TablesQuiet, SameTables
<1>4. AnswersQuiet(n, d)
  BY <1>1 DEF Quiet, AnswersQuiet
<1> QED BY <1>2, <1>3, <1>4 DEF Quiet

\* The next rule decides if it applies.
LEMMA TriedDecides ==
    ASSUME NEW d, Tables(d), NEW e, EvOK(e), Quiet(e, d), e.stage \in Holding,
           NextRule(e.rules, e.rest) \in Applying(d, Head(e.todo), e.subject, e.page)
    PROVE  TriedValue(e) = Reference(d, Head(e.todo), e.subject, e.page, e.asked)
<1> DEFINE f == Head(e.todo)
           r == NextRule(e.rules, e.rest)
           applying == Applying(d, f, e.subject, e.page)
<1>1. /\ e.stage \in Trying /\ e.stage \in Deciding /\ e.rest # {}
      /\ e.rest \subseteq DOMAIN e.rules /\ IsMap(e.rules, Rules, Rows)
  BY DEF Holding, Trying, Deciding, EvOK
<1>2. /\ e.default = d.default
      /\ {q \in DOMAIN e.rules : e.rules[q].flag = f} = {q \in DOMAIN d.rules : d.rules[q].flag = f}
      /\ \A q \in DOMAIN e.rules : e.rules[q] = d.rules[q]
  BY QuietReads DEF Holding
<1>3. /\ Open(d, f, e.subject, e.page, e.asked)
      /\ PassedOver(e, d) \intersect applying = {}
  BY <1>1 DEF Quiet, TurnQuiet
<1>4. /\ r \in e.rest
      /\ \A q \in e.rest \ {r} :
             \/ e.rules[r].priority < e.rules[q].priority
             \/ e.rules[r].priority = e.rules[q].priority /\ r < q
  BY <1>1, NextIsFirst
<1>5. applying \subseteq e.rest
  <2>1. \A q \in applying : q \in DOMAIN d.rules /\ d.rules[q].flag = f
    BY DEF Applying
  <2> HIDE DEF applying
  <2> QED BY <2>1, <1>3 DEF PassedOver
<1>6. r \in applying
  OBVIOUS
<1>7. TriedValue(e) = ResultOf(d.rules[r], d.default[f])
  BY <1>1, <1>2, <1>4 DEF TriedValue, Tried
<1> HIDE DEF f, r, applying
<1>8. \A q \in applying \ {r} :
          \/ d.rules[r].priority < d.rules[q].priority
          \/ d.rules[r].priority = d.rules[q].priority /\ r < q
  BY <1>1, <1>2, <1>4, <1>5
<1>9. ResultOf(d.rules[r], d.default[f]) = Reference(d, f, e.subject, e.page, e.asked)
  BY <1>3, <1>6, <1>8, FirstRuleDecides DEF applying
<1> QED BY <1>7, <1>9 DEF f

LEMMA DecideQuiet ==
    ASSUME Typed, NEW b \in Browsers, Decide(b), Quiet(ev[b], db)
    PROVE  Quiet(ev'[b], db)
<1> DEFINE e == ev[b]
           n == ev'[b]
           f == Head(e.todo)
           over == Override(e.over, f, e.subject)
           preview == PreviewOf(e.asked, e.subject, e.subject \in db.staff)
<1>1. /\ EvOK(e) /\ e.stage = "decide" /\ n.writes = e.writes /\ n.required = e.required
      /\ DecideTurn(n, e) /\ Quiet(e, db) /\ Tables(db)
  BY DecideShape DEF Typed
<1> HIDE DEF e, n
<1>2. /\ f \in Flags /\ e.active = db.active /\ e.sticky = db.sticky
      /\ e.preview = preview /\ over = Override(db.over, f, e.subject)
      /\ {r \in DOMAIN e.rules : e.rules[r].flag = f}
             = {r \in DOMAIN db.rules : db.rules[r].flag = f}
  BY <1>1, QuietReads
<1>3. n.subject = e.subject /\ n.page = e.page /\ n.asked = e.asked
  BY <1>1 DEF DecideTurn, AnsweredWith, Turned, SameReader
<1>4. RequiredQuiet(n, db) /\ \A k \in DOMAIN n.writes : ~Valid(k[1], Kept(db, k))
  BY <1>1, <1>3 DEF Quiet, RequiredQuiet, AnswersQuiet
<1>5. ASSUME ~e.active[f], AnsweredWith(n, e, Policy[f].default)
      PROVE  Quiet(n, db)
  <2>1. Policy[f].default \in Values
    BY <1>2, EvaluationAssumption DEF Policies
  <2>2. Policy[f].default = Reference(db, f, e.subject, e.page, e.asked)
    BY <1>2, <1>5, Inactive
  <2> QED BY <1>1, <1>4, <1>5, <2>1, <2>2, AnswerQuiet
<1>6. ASSUME e.active[f], f \in DOMAIN e.preview, AnsweredWith(n, e, e.preview[f])
      PROVE  Quiet(n, db)
  <2>1. IsMap(preview, Flags, Values)
    BY <1>1, PreviewShape DEF EvOK
  <2>2. e.preview[f] \in Values /\ f \in DOMAIN preview /\ preview[f] = e.preview[f]
    BY <1>2, <1>6, <2>1 DEF IsMap
  <2>3. e.preview[f] = Reference(db, f, e.subject, e.page, e.asked)
    BY <1>1, <1>2, <1>6, <2>2, PreviewDecides
  <2> QED BY <1>1, <1>4, <1>6, <2>2, <2>3, AnswerQuiet
<1>7. ASSUME e.active[f], f \notin DOMAIN e.preview, OverrideAllowed(f, over),
             AnsweredWith(n, e, over)
      PROVE  Quiet(n, db)
  <2>1. over \in Values
    BY <1>2, <1>7, OverrideValue
  <2>2. over = Reference(db, f, e.subject, e.page, e.asked)
    BY <1>1, <1>2, <1>7, OverrideDecides
  <2> HIDE DEF over
  <2> QED BY <1>1, <1>4, <1>7, <2>1, <2>2, AnswerQuiet
<1>8. ASSUME e.active[f], f \notin DOMAIN e.preview, ~OverrideAllowed(f, over), Turned(n, e),
             n.stage = IF e.sticky[f] /\ Policy[f].sticky THEN "sticky" ELSE "rule",
             n.rest = {r \in DOMAIN e.rules : e.rules[r].flag = f}
      PROVE  Quiet(n, db)
  <2>1. n.todo = e.todo
    BY <1>8 DEF Turned
  <2>2. Undecided(db, f, e.subject, e.asked)
    BY <1>2, <1>8 DEF Undecided
  <2>3. PassedOver(n, db) = {}
    BY <1>2, <1>8, <2>1 DEF PassedOver
  <2>4. n.stage = "rule" => Open(db, f, e.subject, e.page, e.asked)
    BY <1>2, <1>8, <2>2 DEF Open
  <2>5. n.stage = "sticky" => db.sticky[f] /\ Policy[f].sticky
    BY <1>2, <1>8
  <2>6. n.stage \in {"sticky", "rule"}
    BY <1>8
  <2>7. TurnQuiet(n, db)
    BY <1>3, <2>1, <2>2, <2>3, <2>4, <2>5, <2>6 DEF TurnQuiet, Deciding, Trying, Holding
  <2>8. n.stage \in Deciding
    BY <2>6 DEF Deciding
  <2> QED BY <1>1, <1>4, <1>8, <2>7, <2>8, TurnedQuiet
<1>9. Quiet(n, db)
  BY <1>1, <1>5, <1>6, <1>7, <1>8 DEF DecideTurn
<1> QED BY <1>9 DEF n

LEMMA StickyQuiet ==
    ASSUME Typed, NEW b \in Browsers, ReadSticky(b), Quiet(ev[b], db)
    PROVE  Quiet(ev'[b], db)
<1> DEFINE e == ev[b]
           n == ev'[b]
           f == Head(e.todo)
           k == <<f, e.subject, e.page>>
<1>1. /\ EvOK(e) /\ e.stage = "sticky" /\ n.writes = e.writes /\ n.required = e.required
      /\ StickyTurn(n, e, db) /\ Quiet(e, db) /\ Tables(db)
  BY StickyShape DEF Typed
<1> HIDE DEF e, n
<1>2. /\ f \in Flags /\ Undecided(db, f, e.subject, e.asked)
      /\ PassedOver(e, db) \intersect Applying(db, f, e.subject, e.page) = {}
      /\ db.sticky[f] /\ Policy[f].sticky
  BY <1>1, QuietReads DEF Quiet, TurnQuiet, Deciding
<1>3. n.subject = e.subject /\ n.page = e.page /\ n.asked = e.asked
  BY <1>1 DEF StickyTurn, AnsweredWith, Turned, SameReader
<1>4. RequiredQuiet(n, db) /\ \A x \in DOMAIN n.writes : ~Valid(x[1], Kept(db, x))
  BY <1>1, <1>3 DEF Quiet, RequiredQuiet, AnswersQuiet
<1>5. ASSUME k \in DOMAIN db.assigned, Valid(f, db.assigned[k]),
             AnsweredWith(n, e, db.assigned[k])
      PROVE  Quiet(n, db)
  <2> DEFINE v == db.assigned[k]
  <2>1. v \in Values /\ v = Kept(db, k)
    BY <1>2, <1>5, ValidIsValue DEF Kept
  <2>2. v = Reference(db, f, e.subject, e.page, e.asked)
    BY <1>1, <1>2, <1>5, <2>1, KeptDecides
  <2> HIDE DEF v
  <2> QED BY <1>1, <1>4, <1>5, <2>1, <2>2, AnswerQuiet DEF v
<1>6. ASSUME ~(k \in DOMAIN db.assigned /\ Valid(f, db.assigned[k])),
             Turned(n, e), n.stage = "rule", n.rest = e.rest
      PROVE  Quiet(n, db)
  <2>1. n.todo = e.todo
    BY <1>6 DEF Turned
  <2>2. ~Valid(f, NoValue)
    BY <1>2, ValidIsValue
  <2>3. ~Valid(f, Kept(db, k))
    BY <1>6, <2>2 DEF Kept
  <2>4. Open(db, f, e.subject, e.page, e.asked)
    BY <1>2, <2>3 DEF Open
  <2>5. PassedOver(n, db) = PassedOver(e, db)
    BY <1>6, <2>1 DEF PassedOver
  <2>6. TurnQuiet(n, db)
    BY <1>2, <1>3, <1>6, <2>1, <2>4, <2>5 DEF TurnQuiet, Deciding, Trying, Holding
  <2>7. n.stage \in Deciding
    BY <1>6 DEF Deciding
  <2> QED BY <1>1, <1>4, <1>6, <2>6, <2>7, TurnedQuiet
<1>7. Quiet(n, db)
  BY <1>1, <1>5, <1>6 DEF StickyTurn
<1> QED BY <1>7 DEF n


LEMMA TryQuiet ==
    ASSUME Typed, NEW b \in Browsers, TryRule(b), Quiet(ev[b], db)
    PROVE  Quiet(ev'[b], db)
<1> DEFINE e == ev[b]
           n == ev'[b]
           f == Head(e.todo)
           r == NextRule(e.rules, e.rest)
           applying == Applying(db, f, e.subject, e.page)
           rs == {q \in DOMAIN db.rules : db.rules[q].flag = f}
<1>1. /\ EvOK(e) /\ e.stage = "rule" /\ n.writes = e.writes /\ n.required = e.required
      /\ TryTurn(n, e, db) /\ Quiet(e, db) /\ Tables(db)
  BY TryShape DEF Typed
<1> HIDE DEF e, n
<1>2. /\ f \in Flags /\ e.default = db.default
      /\ {q \in DOMAIN e.rules : e.rules[q].flag = f} = rs
      /\ \A q \in DOMAIN e.rules : e.rules[q] = db.rules[q]
  BY <1>1, QuietReads
<1>3. /\ Undecided(db, f, e.subject, e.asked) /\ Open(db, f, e.subject, e.page, e.asked)
      /\ (rs \ e.rest) \intersect applying = {} /\ e.staff = (e.subject \in db.staff)
  BY <1>1 DEF Quiet, ReaderQuiet, TurnQuiet, Deciding, Trying, PassedOver
<1>4. n.subject = e.subject /\ n.page = e.page /\ n.asked = e.asked
  BY <1>1 DEF TryTurn, AnsweredWith, Turned, SameReader
<1>5. RequiredQuiet(n, db) /\ \A x \in DOMAIN n.writes : ~Valid(x[1], Kept(db, x))
  BY <1>1, <1>4 DEF Quiet, RequiredQuiet, AnswersQuiet
<1>6. applying \subseteq rs
  BY DEF Applying
<1> HIDE DEF applying, rs
<1>7. ASSUME e.rest = {}, AnsweredWith(n, e, SafeDefault(f, e.default[f]))
      PROVE  Quiet(n, db)
  <2> DEFINE v == SafeDefault(f, e.default[f])
  <2>1. v \in Values
    BY <1>1, <1>2, DefaultSafe DEF Tables
  <2>2. applying = {}
    BY <1>3, <1>6, <1>7
  <2>3. v = Reference(db, f, e.subject, e.page, e.asked)
    BY <1>1, <1>2, <1>3, <2>2, DefaultDecides DEF applying
  <2> HIDE DEF v
  <2> QED BY <1>1, <1>5, <1>7, <2>1, <2>3, AnswerQuiet DEF v
<1>8. ASSUME e.rest # {}
      PROVE  r \in e.rest /\ r \in rs /\ Tried(e) = db.rules[r] /\ Tried(e).flag = f
             /\ Tried(e) \in Rows
  <2>1. r \in e.rest /\ e.rest \subseteq DOMAIN e.rules /\ Tried(e).flag = f /\ Tried(e) \in Rows
    BY <1>1, <1>8, TriedIsRule DEF Trying
  <2> QED BY <2>1, <1>2 DEF Tried
<1>9. ASSUME e.rest # {}, Passes(e, db), Turned(n, e), n.stage = "policy", n.rest = e.rest
      PROVE  Quiet(n, db)
  <2>1. n.todo = e.todo /\ Tried(n) = Tried(e)
    BY <1>9 DEF Turned, SameTables, Tried
  <2>2. PassedOver(n, db) = rs \ e.rest
    BY <1>9, <2>1 DEF PassedOver, rs
  <2>3. e.subject \in Reached(db, Tried(e), e.page)
    <3>1. CASE Tried(e).audience = "staff"
      BY <1>3, <1>9, <3>1 DEF Passes, Reached
    <3>2. CASE Tried(e).audience # "staff"
      BY <1>9, <3>2 DEF Passes
    <3> QED BY <3>1, <3>2
  <2>4. /\ Tried(e).enabled /\ OnPage(Tried(e), e.page)
        /\ Valid(f, ResultOf(Tried(e), db.default[f]))
    BY <1>2, <1>9 DEF Passes, TriedValue
  <2>5. TurnQuiet(n, db)
    BY <1>3, <1>4, <1>9, <2>1, <2>2, <2>3, <2>4 DEF TurnQuiet, Deciding, Trying, Holding, applying
  <2>6. n.stage \in Deciding
    BY <1>9 DEF Deciding
  <2> QED BY <1>1, <1>5, <1>9, <2>5, <2>6, TurnedQuiet
<1>10. ASSUME e.rest # {}, ~Passes(e, db), Turned(n, e), n.stage = "rule", n.rest = e.rest \ {r}
       PROVE  Quiet(n, db)
  <2>1. n.todo = e.todo
    BY <1>10 DEF Turned
  <2>2. PassedOver(n, db) = rs \ (e.rest \ {r})
    BY <1>10, <2>1 DEF PassedOver, rs
  <2>3. r \notin applying
    <3>1. ASSUME r \in applying PROVE FALSE
      <4>1. /\ Tried(e).enabled /\ OnPage(Tried(e), e.page)
            /\ e.subject \in Reached(db, Tried(e), e.page)
            /\ Valid(f, ResultOf(Tried(e), db.default[f]))
        BY <1>8, <1>10, <3>1 DEF applying, Applying
      <4>2. Tried(e).audience = "staff" => e.staff
        BY <1>3, <4>1 DEF Reached
      <4> QED BY <1>2, <1>10, <4>1, <4>2 DEF Passes, TriedValue
    <3> QED BY <3>1
  <2>4. PassedOver(n, db) \intersect applying = {}
    BY <1>3, <2>2, <2>3
  <2>5. TurnQuiet(n, db)
    BY <1>3, <1>4, <1>10, <2>1, <2>4 DEF TurnQuiet, Deciding, Trying, Holding, applying
  <2>6. n.stage \in Deciding
    BY <1>10 DEF Deciding
  <2> QED BY <1>1, <1>5, <1>10, <2>5, <2>6, TurnedQuiet
<1>11. Quiet(n, db)
  BY <1>1, <1>7, <1>9, <1>10 DEF TryTurn
<1> QED BY <1>11 DEF n

\* In a quiet request the policy permits what the reference permits.
LEMMA PolicyQuietly ==
    ASSUME NEW d, NEW e, NEW required,
           required = RequiredGroup(d, Policy[Head(e.todo)].required, e.subject),
           Asks(e) => Known(e, d)[Policy[Head(e.todo)].required] = required
    PROVE  Permitted(e, d) <=> RuleAllowed(Head(e.todo), TriedValue(e), Tried(e), required)
BY DEF Permitted, RuleAllowed, Asks

LEMMA KnownQuiet ==
    ASSUME NEW d, Tables(d), NEW e, EvOK(e), e.stage = "policy", RequiredQuiet(e, d),
           NEW s \in DOMAIN Known(e, d)
    PROVE  Known(e, d)[s] = RequiredGroup(d, s, e.subject)
BY KnownShape DEF RequiredQuiet

LEMMA PolicyQuiet ==
    ASSUME Typed, NEW b \in Browsers, CheckPolicy(b), Quiet(ev[b], db)
    PROVE  Quiet(ev'[b], db)
<1> DEFINE e == ev[b]
           n == ev'[b]
           f == Head(e.todo)
           r == NextRule(e.rules, e.rest)
           slug == Policy[f].required
           applying == Applying(db, f, e.subject, e.page)
           rs == {q \in DOMAIN db.rules : db.rules[q].flag = f}
<1>1. /\ EvOK(e) /\ e.stage = "policy" /\ n.writes = e.writes /\ n.required = Known(e, db)
      /\ PolicyTurn(n, e, db) /\ Quiet(e, db) /\ Tables(db) /\ e.rest # {}
  <2>1. EvOK(e) /\ e.stage = "policy"
    BY PolicyShape
  <2> QED BY <2>1, PolicyShape DEF Typed, EvOK, Holding
<1> HIDE DEF e, n
<1>2. /\ f \in Flags /\ e.default = db.default /\ e.sticky = db.sticky
      /\ {q \in DOMAIN e.rules : e.rules[q].flag = f} = rs
      /\ \A q \in DOMAIN e.rules : e.rules[q] = db.rules[q]
  BY <1>1, QuietReads
<1>3. /\ Undecided(db, f, e.subject, e.asked) /\ Open(db, f, e.subject, e.page, e.asked)
      /\ (rs \ e.rest) \intersect applying = {}
      /\ Tried(e).enabled /\ OnPage(Tried(e), e.page)
      /\ e.subject \in Reached(db, Tried(e), e.page)
      /\ Valid(f, ResultOf(Tried(e), db.default[f]))
  BY <1>1 DEF Quiet, TurnQuiet, Deciding, Trying, Holding, PassedOver
<1>4. n.subject = e.subject /\ n.page = e.page /\ n.asked = e.asked
  BY <1>1 DEF PolicyTurn, AnsweredWith, Turned, SameReader
<1>5. RequiredQuiet(n, db)
  BY <1>1, <1>4, KnownQuiet DEF Quiet, RequiredQuiet
<1>6. \A x \in DOMAIN n.writes : ~Valid(x[1], Kept(db, x))
  BY <1>1 DEF Quiet, AnswersQuiet
<1>7. /\ r \in e.rest /\ r \in rs /\ Tried(e) = db.rules[r] /\ Tried(e).flag = f
      /\ TriedValue(e) \in Values
  <2>1. /\ r \in e.rest /\ e.rest \subseteq DOMAIN e.rules /\ Tried(e).flag = f
        /\ TriedValue(e) \in Values
    BY <1>1, TriedIsRule DEF Trying
  <2> QED BY <2>1, <1>2 DEF Tried
<1>8. Permitted(e, db) <=> r \in applying
  <2>1. Asks(e) => slug \in DOMAIN Known(e, db)
    BY <1>1, KnownShape
  <2>2. Asks(e) => Known(e, db)[slug] = RequiredGroup(db, slug, e.subject)
    BY <1>1, <2>1, KnownQuiet DEF Quiet
  <2>3. Permitted(e, db)
            <=> RuleAllowed(f, TriedValue(e), Tried(e), RequiredGroup(db, slug, e.subject))
    BY <2>2, PolicyQuietly
  <2>4. TriedValue(e) = ResultOf(db.rules[r], db.default[f])
    BY <1>2, <1>7 DEF TriedValue
  <2>5. r \in applying
            <=> RuleAllowed(f, TriedValue(e), Tried(e), RequiredGroup(db, slug, e.subject))
    BY <1>3, <1>7, <2>4 DEF Applying
  <2> QED BY <2>3, <2>5
<1> HIDE DEF applying, rs
<1>9. ASSUME ~Permitted(e, db), Turned(n, e), n.stage = "rule", n.rest = e.rest \ {r}
      PROVE  Quiet(n, db)
  <2>1. n.todo = e.todo
    BY <1>9 DEF Turned
  <2>2. PassedOver(n, db) = rs \ (e.rest \ {r})
    BY <1>9, <2>1 DEF PassedOver, rs
  <2>3. PassedOver(n, db) \intersect applying = {}
    BY <1>3, <1>8, <1>9, <2>2
  <2>4. TurnQuiet(n, db)
    BY <1>3, <1>4, <1>9, <2>1, <2>3 DEF TurnQuiet, Deciding, Trying, Holding, applying
  <2>5. n.stage \in Deciding
    BY <1>9 DEF Deciding
  <2> QED BY <1>1, <1>5, <1>9, <2>4, <2>5, TurnedQuiet
<1>10. ASSUME Permitted(e, db), e.sticky[f], Policy[f].sticky,
              Turned(n, e), n.stage = "persist", n.rest = e.rest
       PROVE  Quiet(n, db)
  <2>1. n.todo = e.todo /\ Tried(n) = Tried(e) /\ n.rules = e.rules
    BY <1>10 DEF Turned, SameTables, Tried
  <2>2. PassedOver(n, db) = rs \ e.rest
    BY <1>10, <2>1 DEF PassedOver, rs
  <2>3. NextRule(n.rules, n.rest) \in applying
    BY <1>8, <1>10, <2>1
  <2>4. TurnQuiet(n, db)
    BY <1>2, <1>3, <1>4, <1>10, <2>1, <2>2, <2>3
       DEF TurnQuiet, Deciding, Trying, Holding, applying
  <2>5. n.stage \in Deciding
    BY <1>10 DEF Deciding
  <2> QED BY <1>1, <1>5, <1>10, <2>4, <2>5, TurnedQuiet
<1>11. ASSUME Permitted(e, db), AnsweredWith(n, e, TriedValue(e))
       PROVE  Quiet(n, db)
  <2> DEFINE v == TriedValue(e)
  <2>1. v = Reference(db, f, e.subject, e.page, e.asked)
    BY <1>1, <1>8, <1>11, TriedDecides DEF Holding, applying
  <2>2. v \in Values
    BY <1>7
  <2> HIDE DEF v
  <2> QED BY <1>1, <1>5, <1>6, <1>11, <2>1, <2>2, AnswerQuiet DEF v
<1>12. Quiet(n, db)
  BY <1>1, <1>9, <1>10, <1>11 DEF PolicyTurn
<1> QED BY <1>12 DEF n

LEMMA PersistQuiet ==
    ASSUME Typed, NEW b \in Browsers, Persist(b), Quiet(ev[b], db)
    PROVE  Quiet(ev'[b], db)
<1> DEFINE e == ev[b]
           n == ev'[b]
           f == Head(e.todo)
           k == <<f, e.subject, e.page>>
           v == TriedValue(e)
<1>1. /\ EvOK(e) /\ e.stage = "persist" /\ n.writes = Put(e.writes, k, v)
      /\ n.required = e.required /\ AnsweredWith(n, e, v) /\ Quiet(e, db) /\ Tables(db)
  BY PersistShape DEF Typed
<1> HIDE DEF e, n
<1>2. v \in Values
  <2>1. e.rest # {}
    BY <1>1 DEF EvOK, Holding
  <2> QED BY <1>1, <2>1, TriedIsRule DEF Trying
<1>3. /\ Open(db, f, e.subject, e.page, e.asked) /\ db.sticky[f] /\ Policy[f].sticky
      /\ NextRule(e.rules, e.rest) \in Applying(db, f, e.subject, e.page)
  BY <1>1 DEF Quiet, TurnQuiet, Trying
<1>4. v = Reference(db, f, e.subject, e.page, e.asked)
  BY <1>1, <1>3, TriedDecides DEF Holding
<1>5. n.subject = e.subject
  BY <1>1 DEF AnsweredWith, SameReader
<1>6. RequiredQuiet(n, db)
  BY <1>1, <1>5 DEF Quiet, RequiredQuiet
<1>7. \A x \in DOMAIN n.writes : ~Valid(x[1], Kept(db, x))
  <2>1. ~Valid(f, Kept(db, k))
    BY <1>3 DEF Open
  <2>2. k[1] = f
    OBVIOUS
  <2> HIDE DEF k, v, f
  <2>3. DOMAIN n.writes = DOMAIN e.writes \union {k}
    BY <1>1 DEF Put
  <2>4. \A x \in DOMAIN e.writes : ~Valid(x[1], Kept(db, x))
    BY <1>1 DEF Quiet, AnswersQuiet
  <2> QED BY <2>1, <2>2, <2>3, <2>4
<1> HIDE DEF v
<1>8. Quiet(n, db)
  BY <1>1, <1>2, <1>4, <1>6, <1>7, AnswerQuiet
<1> QED BY <1>8 DEF n


LEMMA LoadQuiet ==
    ASSUME Typed, NEW b \in Browsers, LoadFlags(b) \/ LoadRules(b) \/ LoadOverrides(b),
           Quiet(ev[b], db)
    PROVE  Quiet(ev'[b], db)
<1> DEFINE e == ev[b]
           n == ev'[b]
<1>1. Loads(n, e) /\ Quiet(e, db) /\ e.stage \in {"flags", "rules", "overrides"}
  BY LoadFlagsShape, LoadRulesShape, LoadOverridesShape
<1>2. \/ /\ e.stage = "flags" /\ n.stage = "rules" /\ n.rules = e.rules /\ n.over = e.over
         /\ n.active = db.active /\ n.sticky = db.sticky /\ n.default = db.default
      \/ /\ e.stage = "rules" /\ n.stage = "overrides" /\ n.over = e.over
         /\ n.active = e.active /\ n.sticky = e.sticky /\ n.default = e.default
         /\ n.rules = Restrict(db.rules,
                               {r \in DOMAIN db.rules : db.rules[r].flag \in Range(e.todo)})
      \/ /\ e.stage = "overrides" /\ n.stage = "decide" /\ n.rules = e.rules
         /\ n.active = e.active /\ n.sticky = e.sticky /\ n.default = e.default
         /\ n.over = Restrict(db.over, {x \in DOMAIN db.over : x[1] \in Range(e.todo)})
  BY LoadFlagsShape, LoadRulesShape, LoadOverridesShape
<1> HIDE DEF e, n
<1>3. /\ n.subject = e.subject /\ n.page = e.page /\ n.asked = e.asked /\ n.staff = e.staff
      /\ n.got = e.got /\ n.writes = e.writes /\ n.required = e.required /\ n.todo = e.todo
      /\ Requested(n) = Requested(e)
  BY <1>1 DEF Loads, SameReader, SameAnswers, Requested
<1>4. Range(e.todo) = Requested(e)
  BY <1>1 DEF Quiet, ReaderQuiet, Requested
<1>5. ReaderQuiet(n, db)
  BY <1>1, <1>3 DEF Quiet, ReaderQuiet
<1>6. TablesQuiet(n, db)
  BY <1>1, <1>2, <1>3, <1>4 DEF Quiet, TablesQuiet
<1>7. RequiredQuiet(n, db) /\ AnswersQuiet(n, db)
  BY <1>1, <1>3 DEF Quiet, RequiredQuiet, AnswersQuiet
<1>8. TurnQuiet(n, db)
  BY <1>2 DEF TurnQuiet, Deciding, Trying, Holding
<1>9. Quiet(n, db)
  BY <1>5, <1>6, <1>7, <1>8 DEF Quiet
<1> QED BY <1>9 DEF n

LEMMA BeginQuiet ==
    ASSUME Typed, NEW b \in Browsers, NEW u \in Subjects, NEW page \in Pages, Begin(b, u, page)
    PROVE  Quiet(ev'[b], db)
<1> DEFINE n == ev'[b]
<1>1. /\ n.stage = "flags" /\ n.subject = u /\ n.page = page /\ n.staff = (u \in db.staff)
      /\ n.todo = EndpointKeys(u, page) /\ n.got = <<>> /\ n.writes = <<>> /\ n.required = <<>>
  BY BeginShape
<1> HIDE DEF n
<1>2. DOMAIN n.got = {} /\ DOMAIN n.writes = {} /\ DOMAIN n.required = {}
  BY <1>1
<1>3. ReaderQuiet(n, db)
  BY <1>1 DEF ReaderQuiet, Requested
<1>4. RequiredQuiet(n, db) /\ AnswersQuiet(n, db)
  BY <1>2 DEF RequiredQuiet, AnswersQuiet
<1>5. TablesQuiet(n, db) /\ TurnQuiet(n, db)
  BY <1>1 DEF TablesQuiet, TurnQuiet, Deciding, Trying, Holding
<1>6. Quiet(n, db)
  BY <1>3, <1>4, <1>5 DEF Quiet
<1> QED BY <1>6 DEF n

LEMMA RequestQuiet ==
    ASSUME Typed, NEW b \in Browsers, Evaluate(b), ~Finish(b), Busy(b) => Quiet(ev[b], db)
    PROVE  Quiet(ev'[b], db)
<1>1. ASSUME NEW u \in Subjects, NEW page \in Pages, Begin(b, u, page)
      PROVE  Quiet(ev'[b], db)
  BY <1>1, BeginQuiet
<1>2. ASSUME ~(\E u \in Subjects, page \in Pages : Begin(b, u, page))
      PROVE  Quiet(ev'[b], db)
  <2>1. Busy(b)
    BY <1>2 DEF Evaluate, Busy, LoadFlags, LoadRules, LoadOverrides, Decide, ReadSticky, TryRule,
                CheckPolicy, Persist
  <2> QED BY <1>2, <2>1, LoadQuiet, DecideQuiet, StickyQuiet, TryQuiet, PolicyQuiet, PersistQuiet
          DEF Evaluate
<1> QED BY <1>1, <1>2

LEMMA SteadyInit == ASSUME Init PROVE Steady
<1>1. \A b \in Browsers : ~Busy(b)
  BY DEF Init, Busy, Idle
<1> QED BY <1>1 DEF Steady

\* Who is running and has seen one state only has always seen what is committed.
LEMMA SeenOne ==
    ASSUME Typed, NEW b \in Browsers, Busy(b), NEW d, seen[b] \union {d} = {d}
    PROVE  d = db /\ seen[b] = {db}
<1>1. db \in seen[b]
  BY RunningOK DEF Busy
<1> QED BY <1>1

LEMMA SteadyNext == ASSUME Typed, Steady, [Next]_vars PROVE Steady'
<1>1. CASE Next
  <2> USE <1>1
  <2> SUFFICES ASSUME NEW b \in Browsers, ev'[b].stage # "idle", seen'[b] = {db'}
               PROVE  Quiet(ev'[b], db')
    BY DEF Steady, Busy, Quiet, ReaderQuiet, TablesQuiet, RequiredQuiet, TurnQuiet, AnswersQuiet,
           Requested, Undecided, Open, PassedOver, Applying, Kept, Reached, Tried, Override,
           MembersOf, RequiredGroup, Reference, Ranked
  <2>1. seen[b] \union {db'} = {db'}
    BY Noted DEF Next
  <2>2. ASSUME Busy(b) PROVE db' = db /\ Quiet(ev[b], db)
    <3>1. db' = db /\ seen[b] = {db}
      BY <2>1, <2>2, SeenOne
    <3> QED BY <2>2, <3>1 DEF Steady
  <2>3. CASE ev'[b] = ev[b]
    <3>1. Busy(b)
      BY <2>3 DEF Busy
    <3> QED BY <2>2, <2>3, <3>1
  <2>4. CASE Evaluate(b) /\ ~Finish(b)
    <3>1. Quiet(ev'[b], db)
      BY <2>2, <2>4, RequestQuiet
    <3>2. db' = db
      BY <2>4, RequestGoes DEF Goes
    <3> QED BY <3>1, <3>2
  <2>5. CASE Finish(b)
    <3>1. ev'[b].stage = "idle"
      BY <2>5, FinishShape DEF Idle
    <3> QED BY <3>1
  <2>6. ASSUME ev'[b] # ev[b] PROVE Evaluate(b)
    BY <2>6, MovedEvaluates
  <2> QED BY <2>3, <2>4, <2>5, <2>6
<1>2. CASE UNCHANGED vars
  BY <1>2 DEF vars, Steady, Busy
<1> QED BY <1>1, <1>2

\* If nothing was changed while a request ran, its answers are those of the documented order of
\* evaluation.
THEOREM QuietIsReference == Spec => []QuietAnswers
<1>1. Init => Typed /\ Steady
  BY TypedInit, SteadyInit
<1>2. Typed /\ Steady /\ [Next]_vars => Typed' /\ Steady'
  BY TypedNext, SteadyNext
<1>3. Steady => QuietAnswers
  <2> SUFFICES ASSUME Steady, NEW b \in Browsers, NEW f \in DOMAIN Answers(b), seen[b] = {db}
               PROVE  ev[b].got[f] = Reference(db, f, ev[b].subject, ev[b].page, ev[b].asked)
    BY DEF QuietAnswers
  <2>1. Busy(b) /\ f \in DOMAIN ev[b].got
    BY DEF Answers
  <2> QED BY <2>1 DEF Steady, Quiet, AnswersQuiet
<1> QED BY <1>1, <1>2, <1>3, PTL DEF Spec

\* The action that StickyKept allows.
KeepsSticky ==
    \A k \in DOMAIN db.assigned :
        Valid(k[1], db.assigned[k]) /\ db'.assigned[k] # db.assigned[k] =>
            \E b \in Browsers : Busy(b) /\ ~Busy(b)' /\ seen[b] # {db}

LEMMA FinishKeeps ==
    ASSUME Typed, Steady, NEW b \in Browsers, Finish(b)
    PROVE  KeepsSticky
<1> DEFINE writes == ev[b].writes
<1>1. Busy(b) /\ ~Busy(b)' /\ EvOK(ev[b])
  <2>1. ev[b].stage # "idle"
    BY DEF Finish
  <2>2. EvOK(ev[b]) /\ ev'[b] = Idle
    BY FinishShape
  <2> QED BY <2>1, <2>2 DEF Busy, Idle
<1>2. IsMap(db.assigned, StickyKeys, Values) /\ IsMap(writes, StickyKeys, Values)
  BY <1>1 DEF EvOK, Typed, Tables
<1>3. db'.assigned = Commit(db.assigned, writes)
  BY FinishShape DEF Typed, Tables
<1> SUFFICES ASSUME NEW k \in DOMAIN db.assigned, Valid(k[1], db.assigned[k]),
                    db'.assigned[k] # db.assigned[k]
             PROVE  seen[b] # {db}
  BY <1>1 DEF KeepsSticky
<1>4. k \in DOMAIN writes
  <2>1. \A x \in DOMAIN db.assigned \ DOMAIN writes :
            Commit(db.assigned, writes)[x] = db.assigned[x]
    BY <1>2, CommitMap
  <2> QED BY <2>1, <1>3
<1>5. Kept(db, k) = db.assigned[k]
  BY DEF Kept
<1> QED BY <1>1, <1>4, <1>5 DEF Steady, Quiet, AnswersQuiet

LEMMA StepKeeps == ASSUME Typed, Steady, [Next]_vars PROVE KeepsSticky
<1>1. CASE db'.assigned = db.assigned
  BY <1>1 DEF KeepsSticky
<1>2. CASE Operate
  BY <1>1, <1>2, Edits DEF EditShape
<1>3. ASSUME NEW b \in Browsers, Preview(b) PROVE KeepsSticky
  BY <1>1, <1>3, PreviewSteps
<1>4. ASSUME NEW b \in Browsers, Evaluate(b), ~Finish(b) PROVE KeepsSticky
  BY <1>1, <1>4, RequestGoes DEF Goes
<1>5. ASSUME NEW b \in Browsers, Finish(b) PROVE KeepsSticky
  BY <1>5, FinishKeeps
<1>6. CASE UNCHANGED vars
  BY <1>1, <1>6 DEF vars
<1> QED BY <1>2, <1>3, <1>4, <1>5, <1>6 DEF Next

\* A sticky assignment of a valid variant is replaced only by a request under which something
\* was changed.
THEOREM StickyStays == Spec => StickyKept
<1>1. Init => Typed /\ Steady
  BY TypedInit, SteadyInit
<1>2. Typed /\ Steady /\ [Next]_vars => Typed' /\ Steady'
  BY TypedNext, SteadyNext
<1>3. Typed /\ Steady /\ [Next]_vars => [KeepsSticky]_vars
  BY StepKeeps
<1>4. Spec => [][KeepsSticky]_vars
  BY <1>1, <1>2, <1>3, PTL DEF Spec
<1> QED BY <1>4 DEF StickyKept, KeepsSticky

=============================================================================

--------------------------- MODULE FlagEvaluation ---------------------------
(***************************************************************************)
(* How a request gets the values of its feature flags (featureflags,       *)
(* services.py): build_context reads who asks and the preview cookie,      *)
(* evaluate_many loads the definitions, their rules and their overrides    *)
(* with three queries and decides flag after flag; group membership and    *)
(* sticky assignments are queried on the way.  Operators, the console and  *)
(* the admin pages change all of it meanwhile.                             *)
(*                                                                         *)
(* db is what is committed.  Every query of a request sees what is         *)
(* committed when it runs (READ COMMITTED); the assignments a request      *)
(* writes are committed when it ends (ATOMIC_REQUESTS) and hold their row  *)
(* until then.  An edit of an operator is one step here; FeatureRollout    *)
(* models what happens inside.  Values are compared by their canonical     *)
(* token.  seen is auxiliary: the committed states during a request.       *)
(***************************************************************************)
EXTENDS Integers, FiniteSets, Sequences, Functions

CONSTANTS
    Browsers,            \* one request at a time each
    Users, Anons,        \* users and anonymous ids
    Nobody,              \* no user's id, and an anonymous id that no list names
    AnonOf,              \* the anonymous id in the cookie of a user's browser
    Flags, Rules,        \* rule ids are numbers
    Groups,              \* ids of feature groups
    Slugs, NoSlug,
    Pages, AnyPage,
    Values, NoValue,
    Policy,              \* registry: the entry of each flag and its rollout policy
    KeysOf,              \* the flags that the endpoint of a page evaluates, in order
    ViewerKeys,          \* and those it adds for a user
    BucketOf,            \* _bucket_percent
    Catalogue,           \* rules as operators save them
    Excepted,            \* whom operators make exceptions for,
    Previews,            \* what staff choose in the preview menu
    Settings             \* initial contents of the database; bounds: edits and requests to come

VARIABLES db, cookie, ev, seen, edits, requests

vars == <<db, cookie, ev, seen, edits, requests>>

Subjects == Users \union Anons
Scopes == {"global"} \union Users \union Anons
Audiences == {"everyone", "authenticated", "staff", "group", "allowlist", "denylist",
              "percentage"}
MaxPriority == 9      \* bound
Rows == [flag : Flags, enabled : BOOLEAN, page : Pages \union {AnyPage},
         audience : Audiences, groups : SUBSET Groups, actors : SUBSET (Users \union Anons),
         share : 0..100, value : Values, priority : 0..MaxPriority]
Policies == [variants : SUBSET Values, default : Values, audiences : SUBSET Audiences,
             required : Slugs \union {NoSlug}, guarded : Values \union {NoValue},
             safe : Values \union {NoValue}, preview : BOOLEAN, public : BOOLEAN,
             sticky : BOOLEAN]

NoCookie == [owner |-> Nobody, choices |-> <<>>]

StickyKeys == Flags \X (Users \union Anons) \X Pages

\* validate_registry: without it the deployment does not start.
ValidRegistry ==
    \A f \in Flags : LET y == Policy[f] IN
        /\ y.default \in y.variants
        /\ y.audiences # {}
        /\ y.public <=> "everyone" \in y.audiences
        /\ y.required # NoSlug => "group" \in y.audiences
        /\ y.guarded # NoValue =>
               /\ y.guarded \in y.variants /\ y.safe \in y.variants
               /\ y.guarded # y.safe /\ y.default = y.safe

\* The flags of the endpoint, and the viewer's own that are not among them.
EndpointKeys(u, page) ==
    KeysOf[page] \o SelectSeq(IF u \in Users THEN ViewerKeys ELSE <<>>,
                              LAMBDA f : f \notin Range(KeysOf[page]))

IsMap(f, S, T) == DOMAIN f \subseteq S /\ f \in [DOMAIN f -> T]
Put(f, k, v) == [x \in DOMAIN f \union {k} |-> IF x = k THEN v ELSE f[x]]

\* What is committed.
Tables(d) ==
    /\ d \in [active : [Flags -> BOOLEAN], sticky : [Flags -> BOOLEAN],
             default : [Flags -> Values], rules : {d.rules}, over : {d.over},
             slug : [Groups -> Slugs \union {NoSlug}], members : [Groups -> SUBSET Users],
             staff : SUBSET Users, assigned : {d.assigned}]
    /\ IsMap(d.rules, Rules, Rows)
    /\ IsMap(d.over, Flags \X Scopes, Values) /\ IsMap(d.assigned, StickyKeys, Values)

ASSUME EvaluationAssumption ==
    /\ Policy \in [Flags -> Policies] /\ ValidRegistry
    /\ NoValue \notin Values /\ NoSlug \notin Slugs /\ AnyPage \notin Pages
    /\ Nobody \notin Subjects /\ AnonOf \in [Users -> Anons \union {Nobody}]
    /\ Catalogue \subseteq Rows /\ Excepted \subseteq Subjects
    /\ IsFiniteSet(Rules) /\ Rules = 1..Cardinality(Rules)
    /\ \A c \in Previews : IsMap(c, Flags, Values)
    /\ \A u \in Subjects, page \in Pages : EndpointKeys(u, page) \in Seq(Flags) \ {<<>>}
    /\ \A s \in Settings : Tables(s.db)

Idle == [stage |-> "idle"]

Init ==
    /\ \E s \in Settings : db = s.db /\ edits = s.edits /\ requests = s.requests
    /\ cookie = [b \in Browsers |-> NoCookie]
    /\ ev = [b \in Browsers |-> Idle]
    /\ seen = [b \in Browsers |-> {}]

-----------------------------------------------------------------------------
(* The registry *)

Valid(f, v) == v \in Policy[f].variants
IsGuarded(f, v) == Policy[f].guarded # NoValue /\ v = Policy[f].guarded

\* _safe_default; stored is the default_value of the definition.
SafeDefault(f, stored) ==
    CASE Policy[f].safe # NoValue -> Policy[f].safe
      [] Policy[f].safe = NoValue /\ Valid(f, stored) -> stored
      [] OTHER -> Policy[f].default

-----------------------------------------------------------------------------
(* Whom a rule reaches: _rule_matches *)

MembersOf(d, gs) == UNION {d.members[g] : g \in {h \in gs : d.slug[h] # NoSlug}}

\* build_context gives every request an anonymous id, a user's too.
AnonId(u) == IF u \in Users THEN AnonOf[u] ELSE u

\* A list names users or anonymous ids; a user is reached by either kind.
Reached(d, row, page) ==
    CASE row.audience = "everyone"      -> Subjects
      [] row.audience = "authenticated" -> Users
      [] row.audience = "staff"         -> d.staff
      [] row.audience = "group"         -> MembersOf(d, row.groups)
      [] row.audience \in {"allowlist", "denylist"} ->
             {u \in Subjects : {u, AnonId(u)} \intersect row.actors # {}}
      [] OTHER -> {u \in Subjects : BucketOf[<<row.flag, page, u>>] < row.share}

OnPage(row, page) == row.page \in {AnyPage, page}

\* _rule_result
ResultOf(row, stored) ==
    IF row.audience = "denylist" THEN SafeDefault(row.flag, stored) ELSE row.value

\* The ids of the group with this slug, if the subject is a member: none or one.
RequiredGroup(d, slug, u) == {g \in Groups : d.slug[g] = slug /\ u \in d.members[g]}

\* Mutant: the rule names the group, so its members were checked already.
AnyGroupOfRule(f, v, row, required) ==
    IsGuarded(f, v) => row.audience \in Policy[f].audiences

\* _policy_value_allowed for the value of a rule; required is the required group of the
\* subject.
RuleAllowed(f, v, row, required) ==
    IsGuarded(f, v) =>
        /\ row.audience \in Policy[f].audiences
        /\ IF row.audience = "everyone" THEN Policy[f].public
           ELSE \/ Policy[f].required = NoSlug
                \/ row.audience = "group" /\ required \intersect row.groups # {}

-----------------------------------------------------------------------------
(* Reference: what the documentation calls the order of evaluation, for one *)
(* subject against one state of the database.                               *)

\* _db_override: the override of the subject, or else the global one.
Override(over, f, u) ==
    CASE <<f, u>> \in DOMAIN over -> over[<<f, u>>]
      [] <<f, u>> \notin DOMAIN over /\ <<f, "global">> \in DOMAIN over -> over[<<f, "global">>]
      [] OTHER -> NoValue

\* read_override_cookie: what of the preview cookie c counts for u.
PreviewOf(c, u, staff) ==
    IF c.owner = u /\ staff THEN Restrict(c.choices, {f \in DOMAIN c.choices : Policy[f].preview})
    ELSE <<>>

\* The rules that may decide.
Applying(d, f, u, page) ==
    {r \in DOMAIN d.rules :
        LET row == d.rules[r]
            v == ResultOf(row, d.default[f])
        IN  /\ row.flag = f /\ row.enabled /\ OnPage(row, page) /\ u \in Reached(d, row, page)
            /\ Valid(f, v) /\ RuleAllowed(f, v, row, RequiredGroup(d, Policy[f].required, u))}

Kept(d, k) == IF k \in DOMAIN d.assigned THEN d.assigned[k] ELSE NoValue

RuleRank(row, r) == 3 + row.priority * (Cardinality(Rules) + 1) + r
LastRank == 4 + MaxPriority * (Cardinality(Rules) + 1) + Cardinality(Rules)

\* What may decide, with its rank.
Ranked(d, f, u, page, c) ==
    LET stored == d.default[f]
        preview == PreviewOf(c, u, u \in d.staff)
        over == Override(d.over, f, u)
        kept == Kept(d, <<f, u, page>>)
    IN  {<<0, v>> : v \in {x \in Values : f \in DOMAIN preview /\ preview[f] = x}}
        \union {<<1, v>> : v \in {x \in {over} : Valid(f, x) /\ ~IsGuarded(f, x)}}
        \union {<<2, v>> : v \in {x \in {kept} : Valid(f, x) /\ d.sticky[f] /\ Policy[f].sticky}}
        \union {<<RuleRank(d.rules[r], r), ResultOf(d.rules[r], stored)>> :
                    r \in Applying(d, f, u, page)}
        \union {<<LastRank, SafeDefault(f, stored)>>}

Reference(d, f, u, page, c) ==
    IF ~d.active[f] THEN Policy[f].default
    ELSE LET ranked == Ranked(d, f, u, page, c)
         IN  (CHOOSE a \in ranked : \A b \in ranked : a[1] <= b[1])[2]

-----------------------------------------------------------------------------
(* What happens during a request *)

Busy(b) == ev[b].stage # "idle"

\* Auxiliary: every running request takes note of what is committed.
Observe ==
    seen' = [b \in Browsers |->
                IF ev'[b].stage = "idle" THEN {} ELSE seen[b] \union {db'}]

-----------------------------------------------------------------------------
(* A request *)

Step(b, next) ==
    /\ ev' = [ev EXCEPT ![b] = next]
    /\ UNCHANGED edits

\* build_context, then the keys of the endpoint.
Begin(b, u, page) ==
    /\ ~Busy(b) /\ requests > 0
    /\ requests' = requests - 1
    /\ LET staff == u \in db.staff IN
       Step(b, [stage |-> "flags", subject |-> u, staff |-> staff, page |-> page,
                asked |-> cookie[b], preview |-> PreviewOf(cookie[b], u, staff),
                todo |-> EndpointKeys(u, page),
                got |-> <<>>, writes |-> <<>>, required |-> <<>>,
                active |-> <<>>, sticky |-> <<>>, default |-> <<>>,
                rules |-> <<>>, over |-> <<>>, rest |-> {}])
    /\ UNCHANGED <<db, cookie>>

\* _batch_load_definitions: the definitions, and then each prefetch with a query of its own.
LoadFlags(b) ==
    /\ ev[b].stage = "flags"
    /\ Step(b, [ev[b] EXCEPT !.stage = "rules", !.active = db.active, !.sticky = db.sticky,
                             !.default = db.default])
    /\ UNCHANGED <<db, cookie, requests>>

Keys(b) == Range(ev[b].todo)

LoadRules(b) ==
    /\ ev[b].stage = "rules"
    /\ Step(b, [ev[b] EXCEPT !.stage = "overrides",
                    !.rules = RestrictValues(db.rules, LAMBDA row : row.flag \in Keys(b))])
    /\ UNCHANGED <<db, cookie, requests>>

LoadOverrides(b) ==
    /\ ev[b].stage = "overrides"
    /\ Step(b, [ev[b] EXCEPT !.stage = "decide",
                    !.over = RestrictDomain(db.over, LAMBDA x : x[1] \in Keys(b))])
    /\ UNCHANGED <<db, cookie, requests>>

Flag(b) == Head(ev[b].todo)
Key(b) == <<Flag(b), ev[b].subject, ev[b].page>>

\* The value of the flag is found.
Answered(b, v) ==
    LET rest == Tail(ev[b].todo) IN
    [ev[b] EXCEPT !.stage = IF rest = <<>> THEN "done" ELSE "decide",
                  !.todo = rest, !.got = Put(@, Flag(b), v)]

\* The rules of the flag that were loaded, as the model orders them: priority, then id.
FirstRule(rules, rs) ==
    CHOOSE r \in rs : \A q \in rs \ {r} :
        \/ rules[r].priority < rules[q].priority
        \/ rules[r].priority = rules[q].priority /\ r < q

\* Mutant: rules in the order of their ids.
OldestRule(rules, rs) == CHOOSE r \in rs : \A q \in rs : r <= q

NextRule(rules, rs) == FirstRule(rules, rs)

IsSticky(b) == ev[b].sticky[Flag(b)] /\ Policy[Flag(b)].sticky

\* _validated_feature_value and _policy_value_allowed of an override.
OverrideAllowed(f, v) == Valid(f, v) /\ ~IsGuarded(f, v)

\* evaluate_many for a flag that is not active; then preview and override.
Decide(b) ==
    /\ ev[b].stage = "decide"
    /\ LET f == Flag(b)
           over == Override(ev[b].over, f, ev[b].subject) IN
       Step(b, CASE ~ev[b].active[f] -> Answered(b, Policy[f].default)
                 [] ev[b].active[f] /\ f \in DOMAIN ev[b].preview ->
                      Answered(b, ev[b].preview[f])
                 [] ev[b].active[f] /\ f \notin DOMAIN ev[b].preview
                      /\ OverrideAllowed(f, over) -> Answered(b, over)
                 [] OTHER ->
                      [ev[b] EXCEPT !.stage = IF IsSticky(b) THEN "sticky" ELSE "rule",
                           !.rest = {r \in DOMAIN ev[b].rules : ev[b].rules[r].flag = f}])
    /\ UNCHANGED <<db, cookie, requests>>

\* Mutant: an assignment that is there is not read.
StickyUnread(b) ==
    /\ ev[b].stage = "sticky"
    /\ Step(b, [ev[b] EXCEPT !.stage = "rule"])
    /\ UNCHANGED <<db, cookie, requests>>

\* _sticky_assignment
ReadSticky(b) ==
    /\ ev[b].stage = "sticky"
    /\ Step(b, IF Key(b) \in DOMAIN db.assigned /\ Valid(Flag(b), db.assigned[Key(b)])
               THEN Answered(b, db.assigned[Key(b)])
               ELSE [ev[b] EXCEPT !.stage = "rule"])
    /\ UNCHANGED <<db, cookie, requests>>

\* What a rule asks of this request; membership is a query, staff was read with the user.
RuleReaches(b, row) ==
    IF row.audience = "staff" THEN ev[b].staff
    ELSE ev[b].subject \in Reached(db, row, ev[b].page)

\* One turn of the loop over the rules, up to the policy.
TryRule(b) ==
    /\ ev[b].stage = "rule"
    /\ LET f == Flag(b)
           r == NextRule(ev[b].rules, ev[b].rest)
           row == ev[b].rules[r] IN
       Step(b, IF ev[b].rest = {} THEN Answered(b, SafeDefault(f, ev[b].default[f]))
               ELSE IF /\ row.enabled /\ OnPage(row, ev[b].page) /\ RuleReaches(b, row)
                       /\ Valid(f, ResultOf(row, ev[b].default[f]))
                    THEN [ev[b] EXCEPT !.stage = "policy"]
                    ELSE [ev[b] EXCEPT !.rest = @ \ {r}])
    /\ UNCHANGED <<db, cookie, requests>>

\* _policy_value_allowed: the required group is queried once in a request and remembered.
CheckPolicy(b) ==
    /\ ev[b].stage = "policy"
    /\ LET f == Flag(b)
           slug == Policy[f].required
           r == NextRule(ev[b].rules, ev[b].rest)
           row == ev[b].rules[r]
           v == ResultOf(row, ev[b].default[f])
           asks == /\ IsGuarded(f, v) /\ slug # NoSlug
                   /\ row.audience = "group" /\ row.audience \in Policy[f].audiences
           known == IF asks /\ slug \notin DOMAIN ev[b].required
                    THEN Put(ev[b].required, slug, RequiredGroup(db, slug, ev[b].subject))
                    ELSE ev[b].required
       IN Step(b, IF ~RuleAllowed(f, v, row, IF asks THEN known[slug] ELSE {})
                  THEN [ev[b] EXCEPT !.stage = "rule", !.rest = @ \ {r}, !.required = known]
                  ELSE IF IsSticky(b) THEN [ev[b] EXCEPT !.stage = "persist", !.required = known]
                  ELSE [Answered(b, v) EXCEPT !.required = known])
    /\ UNCHANGED <<db, cookie, requests>>

\* _persist_assignment: update_or_create locks the row, or waits for who has it.
Persist(b) ==
    /\ ev[b].stage = "persist"
    /\ \A q \in Browsers \ {b} : Busy(q) => Key(b) \notin DOMAIN ev[q].writes
    /\ LET row == ev[b].rules[NextRule(ev[b].rules, ev[b].rest)]
           v == ResultOf(row, ev[b].default[Flag(b)]) IN
       Step(b, [Answered(b, v) EXCEPT !.writes = Put(@, Key(b), v)])
    /\ UNCHANGED <<db, cookie, requests>>

Commit(rows, writes) ==
    [k \in DOMAIN rows \union DOMAIN writes |-> IF k \in DOMAIN writes THEN writes[k] ELSE rows[k]]

\* The transaction commits; a preview cookie that counted for nothing is deleted.
Finish(b) ==
    /\ ev[b].stage = "done"
    /\ db' = [db EXCEPT !.assigned = Commit(@, ev[b].writes)]
    /\ cookie' = [cookie EXCEPT ![b] =
                     IF ev[b].asked # NoCookie /\ ev[b].preview = <<>> THEN NoCookie ELSE @]
    /\ Step(b, Idle)
    /\ UNCHANGED requests

-----------------------------------------------------------------------------
(* Staff previews: bff feature_overrides *)

SetPreview(b, u, choices) ==
    /\ edits > 0 /\ u \in db.staff
    /\ \A f \in DOMAIN choices : Policy[f].preview /\ Valid(f, choices[f])
    /\ cookie' = [cookie EXCEPT ![b] = [owner |-> u, choices |-> choices]]
    /\ edits' = edits - 1
    /\ UNCHANGED <<db, ev, requests>>

\* The DELETE of a staff user, or max_age.
DropPreview(b) ==
    /\ cookie[b] # NoCookie /\ edits > 0
    /\ cookie' = [cookie EXCEPT ![b] = NoCookie]
    /\ edits' = edits - 1
    /\ UNCHANGED <<db, ev, requests>>

-----------------------------------------------------------------------------
(* What operators change meanwhile *)

\* Bound: edits are made while a request runs; those made before are other settings.
Edit(next) ==
    /\ edits > 0 /\ next # db /\ \E b \in Browsers : Busy(b)
    /\ db' = next
    /\ edits' = edits - 1
    /\ UNCHANGED <<cookie, ev, requests>>

\* The console and the raw form create, edit and start rules.
SaveRule(r, row) == Edit([db EXCEPT !.rules = Put(@, r, row)])

\* stop_rollout
StopRule(r) == r \in DOMAIN db.rules /\ Edit([db EXCEPT !.rules[r].enabled = FALSE])

\* FeatureOverrideAdmin: a guarded value is not offered.  over has the enabled ones.
SaveOverride(f, scope, v) ==
    /\ db.active[f] /\ OverrideAllowed(f, v)
    /\ Edit([db EXCEPT !.over = Put(@, <<f, scope>>, v)])
DisableOverride(f, scope) ==
    /\ db.active[f] /\ <<f, scope>> \in DOMAIN db.over
    /\ Edit([db EXCEPT !.over = RestrictDomain(@, LAMBDA x : x # <<f, scope>>)])

\* A release: migrations archive flags, sync_feature_registry takes over what is sticky.
SwitchFlag(f) == Edit([db EXCEPT !.active[f] = ~@])
SwitchSticky(f) == Edit([db EXCEPT !.sticky[f] = ~@])

\* add_design_tester and FeatureGroupAdmin.
Join(u, g) == db.slug[g] # NoSlug /\ Edit([db EXCEPT !.members[g] = @ \union {u}])
Leave(u, g) == Edit([db EXCEPT !.members[g] = @ \ {u}])

\* Rules keep the id of a group that is deleted; a group made later has another id.
DropGroup(g) == Edit([db EXCEPT !.slug[g] = NoSlug, !.members[g] = {}])
MakeGroup(g, slug) ==
    /\ slug \in Slugs /\ \A h \in Groups : db.slug[h] # slug
    /\ db.slug[g] = NoSlug
    /\ \A r \in DOMAIN db.rules : g \notin db.rules[r].groups
    /\ Edit([db EXCEPT !.slug[g] = slug])

SwitchStaff(u) ==
    Edit([db EXCEPT !.staff = IF u \in @ THEN @ \ {u} ELSE @ \union {u}])

Operate ==
    \/ \E r \in Rules : StopRule(r) \/ \E row \in Catalogue : SaveRule(r, row)
    \/ \E f \in Flags : \/ SwitchFlag(f) \/ SwitchSticky(f)
                        \/ \E scope \in {"global"} \union Excepted : \/ DisableOverride(f, scope)
                                               \/ \E v \in Values : SaveOverride(f, scope, v)
    \/ \E u \in Users : SwitchStaff(u) \/ \E g \in Groups : Join(u, g) \/ Leave(u, g)
    \/ \E g \in Groups : DropGroup(g) \/ \E slug \in Slugs : MakeGroup(g, slug)

Evaluate(b) ==
    \/ \E u \in Subjects, page \in Pages : Begin(b, u, page)
    \/ LoadFlags(b) \/ LoadRules(b) \/ LoadOverrides(b)
    \/ Decide(b) \/ ReadSticky(b) \/ TryRule(b) \/ CheckPolicy(b) \/ Persist(b) \/ Finish(b)

Preview(b) == DropPreview(b) \/ \E u \in Users, choices \in Previews : SetPreview(b, u, choices)

Next ==
    /\ Operate \/ \E b \in Browsers : Evaluate(b) \/ Preview(b)
    /\ Observe

Spec == Init /\ [][Next]_vars

-----------------------------------------------------------------------------
(* Properties *)

Answers(b) == IF Busy(b) THEN ev[b].got ELSE <<>>

\* A guarded variant is shown only to who had earned it at some time during the request: a
\* member of the required group that a running rule named, a visitor of a public rollout that
\* was running, or staff by a preview of their own.  (_policy_value_allowed, services.py)
GuardedEarned ==
    \A b \in Browsers : \A f \in DOMAIN Answers(b) :
        LET u == ev[b].subject
            v == ev[b].got[f]
            y == Policy[f]
            gave(d) == {row \in Range(d.rules) :
                          row.flag = f /\ row.enabled /\ row.value = v
                              /\ OnPage(row, ev[b].page)} IN
        IsGuarded(f, v) =>
            \/ \E d, e \in seen[b] : \E row \in gave(d), g \in Groups :
                   row.audience = "group" /\ g \in row.groups
                       /\ e.slug[g] = y.required /\ u \in e.members[g]
            \/ y.public /\ \E d \in seen[b] : \E row \in gave(d) : row.audience = "everyone"
            \/ y.preview /\ ev[b].asked.owner = u /\ \E d \in seen[b] : u \in d.staff

\* If nothing was changed while a request ran, its answers are those of the documented order
\* of evaluation: preview, override of the subject, global override, sticky assignment,
\* first rule by priority and id, default.  (docs/feature-flags/admin.md, "Если флаг не
\* сработал")
QuietAnswers ==
    \A b \in Browsers : \A f \in DOMAIN Answers(b) :
        seen[b] = {db} =>
            ev[b].got[f] = Reference(db, f, ev[b].subject, ev[b].page, ev[b].asked)

\* A sticky assignment of a valid variant is replaced only by a request under which something
\* was changed: one that overlaps the first assignment, or that read the flag when it was not
\* sticky or not yet assigned.  (_sticky_assignment and _persist_assignment, services.py)
StickyKept ==
    [][\A k \in DOMAIN db.assigned :
          Valid(k[1], db.assigned[k]) /\ db'.assigned[k] # db.assigned[k] =>
              \E b \in Browsers : Busy(b) /\ ~Busy(b)' /\ seen[b] # {db}]_vars

\* All values of a response are those of one state of the database.  ("Evaluate payload and
\* viewer flags in one consistent DB snapshot", _evaluate_with_viewer_features, bff/services.py)
OneSnapshot ==
    \A b \in Browsers : ev[b].stage = "done" =>
        \E d \in seen[b] : \A f \in DOMAIN ev[b].got :
            ev[b].got[f] = Reference(d, f, ev[b].subject, ev[b].page, ev[b].asked)

=============================================================================

-------------------------- MODULE FeatureRollout --------------------------
(***************************************************************************)
(* The rollout console of featureflags: the requests that create, start    *)
(* and stop rollouts (admin.py, admin_services.py), the form that edits a  *)
(* raw rule (FeatureRuleAdmin), and what changes under them: a migration   *)
(* archives a flag, an operator deletes a group.                           *)
(*                                                                         *)
(* A request is one transaction (ATOMIC_REQUESTS, READ COMMITTED).  It     *)
(* reads what is committed, holds its row locks until it ends, and what it *)
(* writes is seen when it commits.  A request that is refused has written  *)
(* nothing.  PostgreSQL ends a deadlock by aborting a waiting request.     *)
(*                                                                         *)
(* Of the history rows of a rule only what is_never_started_draft reads of *)
(* them is kept, in past.  byHand is auxiliary: the rules that were seeded *)
(* by a migration or saved through the raw form.                           *)
(***************************************************************************)
EXTENDS Integers, FiniteSets

CONSTANTS
    Ops,             \* requests of operators
    Rules,           \* rule ids; ids are not used twice
    Flags,           \* flags of the registry
    Pages, AnyPage,  \* pages; AnyPage is the blank page of a rule for all pages
    Groups,          \* groups of users
    PagesOf,         \* registry: the pages of a flag
    AudiencesOf,     \* registry: allowed_audiences of its policy
    RequiredGroup,   \* registry: required_group_slug, or NoGroup
    Guarded,         \* registry: flags with a guarded value
    NoGroup, NoOne, NoRule, NoFlag, NoForm,
    Forms,           \* what operators fill into the console,
    RawForms,        \* and into the raw form
    Seed             \* what a migration has inserted and enabled: a function on some Rules

VARIABLES
    row,      \* FeatureRule: NoRule, or what the rule applies to and whether it is enabled
    past,     \* its history: "none", "draft" (created disabled, never enabled), "other"
    active,   \* FeatureDefinition.active
    groups,   \* the groups that exist
    lock,     \* the row locks: which request holds the row of a flag or of a rule
    req,      \* the requests
    byHand

vars == <<row, past, active, groups, lock, req, byHand>>

Audiences == {"group", "users", "staff", "authenticated", "percentage", "everyone"}
Contents == [flag : Flags, page : Pages \union {AnyPage},
             audience : Audiences, groups : SUBSET Groups]
Rows == [content : Contents, enabled : BOOLEAN]

ASSUME RolloutAssumption ==
    /\ PagesOf \in [Flags -> SUBSET (Pages \union {AnyPage})]
    /\ AudiencesOf \in [Flags -> SUBSET Audiences]
    /\ RequiredGroup \in [Flags -> Groups \union {NoGroup}]
    /\ Guarded \subseteq Flags
    /\ Forms \subseteq Contents /\ RawForms \subseteq Contents
    /\ DOMAIN Seed \subseteq Rules
    /\ \A r \in DOMAIN Seed : Seed[r] \in Contents
    /\ Rules \intersect Flags = {}
    /\ NoRule \notin Rows \union Rules /\ NoOne \notin Ops /\ NoForm \notin Rows
    /\ NoFlag \notin Flags /\ NoGroup \notin Groups /\ AnyPage \notin Pages

Kinds == {"none", "create", "start", "stop", "edit"}
Stages == {"idle", "lock_flag", "lock_rule", "check", "save"}
Requests == [kind : Kinds, stage : Stages, rule : Rules \union {NoRule},
             flag : Flags \union {NoFlag}, form : Rows \union {NoForm}]
Idle == [kind |-> "none", stage |-> "idle", rule |-> NoRule,
         flag |-> NoFlag, form |-> NoForm]

TypeOK ==
    /\ row \in [Rules -> Rows \union {NoRule}]
    /\ past \in [Rules -> {"none", "draft", "other"}]
    /\ active \in [Flags -> BOOLEAN]
    /\ groups \subseteq Groups
    /\ lock \in [Flags \union Rules -> Ops \union {NoOne}]
    /\ req \in [Ops -> Requests]
    /\ byHand \subseteq Rules

Init ==
    /\ row = [r \in Rules |-> IF r \in DOMAIN Seed
                              THEN [content |-> Seed[r], enabled |-> TRUE] ELSE NoRule]
    /\ past = [r \in Rules |-> "none"]
    /\ active = [f \in Flags |-> TRUE]
    /\ groups = Groups
    /\ lock = [x \in Flags \union Rules |-> NoOne]
    /\ req = [p \in Ops |-> Idle]
    /\ byHand = DOMAIN Seed

-----------------------------------------------------------------------------
(* The rules *)

Exists(r) == row[r] # NoRule
Running == {r \in Rules : Exists(r) /\ row[r].enabled}

\* An id that no row has had.  A row that is deleted leaves history rows.
Fresh(r) == ~Exists(r) /\ past[r] = "none"

\* Bound: the ids.  A request that may insert a rule begins only if an id is left for it.
IdLeft == Cardinality({q \in Ops : req[q].kind \in {"create", "edit"}})
              < Cardinality({r \in Rules : Fresh(r)})

SamePage(a, b) == a.page = b.page \/ a.page = AnyPage \/ b.page = AnyPage

\* _active_conflict
Conflicts(c, except) ==
    {r \in Running \ {except} : row[r].content.flag = c.flag /\ SamePage(row[r].content, c)}

NeverStartedDraft(r) == past[r] = "draft"

\* The history row that a save adds.
Recorded(h, enabled) ==
    IF enabled THEN "other" ELSE IF h = "none" THEN "draft" ELSE h

\* What the registry demands of a guided rollout, checked by the form and again under the locks.
RegistryAllows(c) ==
    /\ c.audience \in AudiencesOf[c.flag]
    /\ c.page \in PagesOf[c.flag]
    /\ c.audience = "group" => c.groups # {}
    /\ c.audience = "group" /\ RequiredGroup[c.flag] # NoGroup
           => c.groups = {RequiredGroup[c.flag]}

\* _validate_policy of the raw form binds only guarded flags to the audiences.
RawFormAllows(c) ==
    /\ c.page \in PagesOf[c.flag]
    /\ c.flag \in Guarded => c.audience \in AudiencesOf[c.flag]
    /\ c.audience = "group" => c.groups # {}
    /\ c.audience = "group" /\ RequiredGroup[c.flag] # NoGroup
           => c.groups = {RequiredGroup[c.flag]}

\* _validate_conflict of the raw form looks at rules for the same audience.
RawConflicts(c, except) ==
    {r \in Conflicts(c, except) : row[r].content.audience = c.audience}

-----------------------------------------------------------------------------
(* Locks and the ends of a request *)

Available(p, x) == lock[x] \in {NoOne, p}

Acquired(p, xs) == [x \in DOMAIN lock |-> IF x \in xs THEN p ELSE lock[x]]

\* Mutant: a refused request keeps its transaction open.
KeptLocks(p) == lock

Released(p) == [x \in DOMAIN lock |-> IF lock[x] = p THEN NoOne ELSE lock[x]]

Goto(p, stage) == req' = [req EXCEPT ![p].stage = stage]

\* ValidationError or DoesNotExist: the transaction is rolled back.
Refuse(p) ==
    /\ lock' = Released(p)
    /\ req' = [req EXCEPT ![p] = Idle]
    /\ UNCHANGED <<row, past, byHand>>

Finish(p) ==
    /\ lock' = Released(p)
    /\ req' = [req EXCEPT ![p] = Idle]

Store(r, content, enabled) ==
    /\ row' = [row EXCEPT ![r] = [content |-> content, enabled |-> enabled]]
    /\ past' = [past EXCEPT ![r] = Recorded(past[r], enabled)]

-----------------------------------------------------------------------------
(* The requests begin: forms are validated, the rule to start is looked up. *)

Begin(p, kind, stage, r, f, form) ==
    /\ req[p].stage = "idle"
    /\ req' = [req EXCEPT ![p] = [kind |-> kind, stage |-> stage, rule |-> r,
                                  flag |-> f, form |-> form]]
    /\ UNCHANGED <<row, past, active, groups, lock, byHand>>

\* rollout_add_view with a confirmed form.  A confirmation may be posted again and again
\* while its signature is valid.
PostCreate(p) ==
    \E c \in Forms, on \in BOOLEAN :
        /\ IdLeft
        /\ active[c.flag] /\ RegistryAllows(c) /\ c.groups \subseteq groups
        /\ on => Conflicts(c, NoRule) = {}
        /\ Begin(p, "create", "lock_flag", NoRule, c.flag, [content |-> c, enabled |-> on])

\* rollout_start_view: the candidate is read for its flag.
PostStart(p) ==
    \E r \in Rules :
        /\ Exists(r)
        /\ Begin(p, "start", "lock_flag", r, row[r].content.flag, NoForm)

PostStop(p) ==
    \E r \in Rules :
        /\ Exists(r)
        /\ Begin(p, "stop", "lock_rule", r, NoFlag, NoForm)

\* The raw form of a rule, or of a new one (NoRule), is validated.
PostEdit(p) ==
    \E r \in {r \in Rules : Exists(r)} \union {NoRule}, c \in RawForms, on \in BOOLEAN :
        /\ r = NoRule => IdLeft
        /\ active[c.flag] /\ RawFormAllows(c) /\ c.groups \subseteq groups
        /\ on => RawConflicts(c, r) = {}
        /\ Begin(p, "edit", "save", r, c.flag, [content |-> c, enabled |-> on])

-----------------------------------------------------------------------------
(* SELECT ... FOR UPDATE *)

\* The row of the flag.  create_rollout and start_rollout lock it first, the join of
\* stop_rollout second.
LockFlag(p) ==
    /\ req[p].stage = "lock_flag"
    /\ Available(p, req[p].flag)
    /\ lock' = Acquired(p, {req[p].flag})
    /\ Goto(p, IF req[p].kind = "start" THEN "lock_rule" ELSE "check")
    /\ UNCHANGED <<row, past, active, groups, byHand>>

\* The row of the rule; it may have been deleted in the meantime.
LockRule(p) ==
    LET r == req[p].rule IN
    /\ req[p].stage = "lock_rule"
    /\ Available(p, r)
    /\ IF ~Exists(r) THEN Refuse(p)
       ELSE /\ lock' = Acquired(p, {r})
            /\ IF req[p].kind = "start" THEN Goto(p, "check")
               ELSE req' = [req EXCEPT ![p] = [@ EXCEPT !.stage = "lock_flag",
                                                        !.flag = row[r].content.flag]]
            /\ UNCHANGED <<row, past, byHand>>
    /\ UNCHANGED <<active, groups>>

-----------------------------------------------------------------------------
(* The checks under the locks *)

\* create_rollout: the drafts that look like the form are locked as well.
Twins(c) == {r \in Rules : Exists(r) /\ row[r] = [content |-> c, enabled |-> FALSE]}

\* Mutant: the conflict is left to the form that was validated before the lock.
CreateTrustsForm(f) == active[f.content.flag] /\ RegistryAllows(f.content)

CreateAllowed(f) ==
    /\ active[f.content.flag] /\ RegistryAllows(f.content)
    /\ f.enabled => Conflicts(f.content, NoRule) = {}

\* Mutant: a draft is created for every confirmation.
NoDraftReused(c) == {}

ReusableDrafts(c) == {r \in Twins(c) : NeverStartedDraft(r)}

CreateCheck(p) ==
    LET f == req[p].form
        twins == IF f.enabled THEN {} ELSE Twins(f.content) IN
    /\ req[p].kind = "create" /\ req[p].stage = "check"
    /\ IF ~CreateAllowed(f) THEN Refuse(p)
       ELSE /\ \A r \in twins : Available(p, r)
            /\ IF twins \intersect ReusableDrafts(f.content) # {}
               THEN Refuse(p)       \* the draft is there already: nothing is written
               ELSE \E r \in Rules :
                        /\ Fresh(r) /\ Available(p, r)
                        /\ lock' = Acquired(p, twins \union {r})
                        /\ req' = [req EXCEPT ![p] = [@ EXCEPT !.stage = "save", !.rule = r]]
                        /\ UNCHANGED <<row, past, byHand>>
    /\ UNCHANGED <<active, groups>>

\* Mutant: the flag is the one that the list of drafts showed, and the groups are not read.
StartTrustsList(r, f) ==
    /\ ~row[r].enabled /\ NeverStartedDraft(r) /\ RegistryAllows(row[r].content)
    /\ Conflicts(row[r].content, r) = {}

StartAllowed(r, f) ==
    LET c == [row[r].content EXCEPT !.flag = f] IN
    /\ ~row[r].enabled /\ active[f] /\ NeverStartedDraft(r)
    /\ RegistryAllows(c)
    /\ c.audience = "group" => c.groups \subseteq groups
    /\ Conflicts(c, r) = {}

StartCheck(p) ==
    /\ req[p].kind = "start" /\ req[p].stage = "check"
    /\ IF StartAllowed(req[p].rule, req[p].flag)
       THEN Goto(p, "save") /\ UNCHANGED <<row, past, lock, byHand>>
       ELSE Refuse(p)
    /\ UNCHANGED <<active, groups>>

StopCheck(p) ==
    /\ req[p].kind = "stop" /\ req[p].stage = "check"
    /\ IF row[req[p].rule].enabled /\ active[req[p].flag]
       THEN Goto(p, "save") /\ UNCHANGED <<row, past, lock, byHand>>
       ELSE Refuse(p)
    /\ UNCHANGED <<active, groups>>

-----------------------------------------------------------------------------
(* The rule is saved and the transaction committed. *)

SaveNew(p) ==
    /\ req[p].kind = "create" /\ req[p].stage = "save"
    /\ Store(req[p].rule, req[p].form.content, req[p].form.enabled)
    /\ Finish(p)
    /\ UNCHANGED <<active, groups, byHand>>

\* save(update_fields=("enabled", "updated_at"))
SaveEnabled(p) ==
    /\ req[p].kind \in {"start", "stop"} /\ req[p].stage = "save"
    /\ Store(req[p].rule, row[req[p].rule].content, req[p].kind = "start")
    /\ Finish(p)
    /\ UNCHANGED <<active, groups, byHand>>

\* The raw form writes every column, over whatever has been committed since it was shown.
\* Of a rule that was deleted it inserts the row again.  A new row waits for its flag
\* (foreign key), any other only for itself.
SaveEdit(p) ==
    /\ req[p].kind = "edit" /\ req[p].stage = "save"
    /\ \E r \in Rules :
           /\ IF req[p].rule = NoRule THEN Fresh(r) /\ lock[req[p].flag] = NoOne
              ELSE r = req[p].rule
           /\ lock[r] = NoOne
           /\ Store(r, req[p].form.content, req[p].form.enabled)
           /\ byHand' = byHand \union {r}
    /\ Finish(p)
    /\ UNCHANGED <<active, groups>>

-----------------------------------------------------------------------------
(* What else happens to the rows *)

DeleteRule(r) ==
    /\ Exists(r) /\ lock[r] = NoOne
    /\ row' = [row EXCEPT ![r] = NoRule]
    /\ past' = [past EXCEPT ![r] = Recorded(past[r], row[r].enabled)]
    /\ byHand' = byHand \union {r}
    /\ UNCHANGED <<active, groups, lock, req>>

\* start_rollout locks the groups of the rule when it checks them.
LockedGroups ==
    UNION {row[req[p].rule].content.groups :
              p \in {q \in Ops : req[q].kind = "start" /\ req[q].stage = "save"}}

DeleteGroup(g) ==
    /\ g \in groups \ LockedGroups
    /\ groups' = groups \ {g}
    /\ UNCHANGED <<row, past, active, lock, req, byHand>>

\* A migration retires the flag.
Archive(f) ==
    /\ active[f] /\ lock[f] = NoOne
    /\ active' = [active EXCEPT ![f] = FALSE]
    /\ UNCHANGED <<row, past, groups, lock, req, byHand>>

\* The lock a request waits for.
WaitsFor(p) ==
    IF req[p].stage = "lock_flag" THEN {req[p].flag}
    ELSE IF req[p].stage = "lock_rule" THEN {req[p].rule}
    ELSE IF req[p].kind = "create" /\ req[p].stage = "check" THEN Twins(req[p].form.content)
    ELSE {}

Blocked(p, waiting) == \E q \in waiting \ {p} : \E x \in WaitsFor(p) : lock[x] = q

\* deadlock_timeout: PostgreSQL aborts one request of a cycle.
AbortDeadlocked(p) ==
    /\ \E waiting \in SUBSET Ops : p \in waiting /\ \A q \in waiting : Blocked(q, waiting)
    /\ Refuse(p)
    /\ UNCHANGED <<active, groups>>

-----------------------------------------------------------------------------
Post(p) == PostCreate(p) \/ PostStart(p) \/ PostStop(p) \/ PostEdit(p)

Decide(p) == CreateCheck(p) \/ StartCheck(p) \/ StopCheck(p)

Save(p) == SaveNew(p) \/ SaveEnabled(p) \/ SaveEdit(p)

Next ==
    \/ \E p \in Ops : Post(p) \/ LockFlag(p) \/ LockRule(p) \/ Decide(p) \/ Save(p)
    \/ \E p \in Ops : AbortDeadlocked(p)
    \/ \E r \in Rules : DeleteRule(r)
    \/ \E g \in Groups : DeleteGroup(g)
    \/ \E f \in Flags : Archive(f)

Spec == Init /\ [][Next]_vars

\* PostgreSQL grants a row lock to those who wait for it in turn, and a worker that is not
\* waiting goes on.  Nothing makes operators send requests.
Handle(p) == LockFlag(p) \/ LockRule(p) \/ Decide(p) \/ Save(p)

FairSpec ==
    /\ Spec
    /\ \A p \in Ops : SF_vars(Handle(p))
    /\ WF_vars(\E p \in Ops : AbortDeadlocked(p))

-----------------------------------------------------------------------------
(* Properties *)

life == [r \in Rules |->
            IF ~Exists(r) THEN "absent"
            ELSE IF row[r].enabled THEN "running"
            ELSE IF NeverStartedDraft(r) THEN "draft" ELSE "stopped"]

scope == [r \in Rules |->
             IF Exists(r) THEN [flag |-> row[r].content.flag, page |-> row[r].content.page]
             ELSE NoRule]

Lifecycle == INSTANCE RolloutLifecycle WITH NoScope <- NoRule

\* A rollout that was made in the console moves from draft to running to stopped, and on its
\* way never overlaps another one: the requests implement RolloutLifecycle.
ImplementsLifecycle == Lifecycle!Spec

\* The retries of one confirmation, and two operators with the same idea, leave one draft
\* (the comment in create_rollout).
NoTwinDrafts ==
    \A r, s \in Rules \ byHand :
        Exists(r) /\ Exists(s) /\ NeverStartedDraft(r) /\ NeverStartedDraft(s) /\ r # s
            => row[r].content # row[s].content

\* What the console enables is still a flag in use when it is enabled, and the groups of a
\* draft that is started still exist: both may go while the request waits for its locks.
LaunchesAreCurrent ==
    [][\A r \in Rules \ byHand' :
          r \notin Running /\ r \in Running'
              => /\ active[row'[r].content.flag]
                 /\ Exists(r) /\ row'[r].content.audience = "group"
                        => row'[r].content.groups \subseteq groups]_vars

\* No request of an operator waits for ever, for instance for the row of the rule that
\* stop_rollout has locked while start_rollout has locked the row of its flag.
RequestsEnd == \A p \in Ops : req[p].stage # "idle" ~> req[p].stage = "idle"

\* is_never_started_draft: "Return true only for rules created disabled and never activated."
StoppedIsNoDraft ==
    [][\A r \in Rules : r \in Running /\ Exists(r)' /\ r \notin Running'
          => ~NeverStartedDraft(r)']_vars
=============================================================================

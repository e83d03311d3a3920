-------------------------- MODULE FlagDeployments --------------------------
(***************************************************************************)
(* The definitions of feature flags through deployments and rollbacks: the *)
(* migrations 0005_reset_design_rollout and 0006_seed_contact_page_rollout *)
(* in both directions, and sync_feature_registry, which the container runs *)
(* after the migrations (docker-entrypoint.sh).                            *)
(*                                                                         *)
(* 0005 renames the flags of earlier releases out of the way, with what it *)
(* takes to name them back, and seeds the flags of this one.  0006 seeds   *)
(* the contact page's flag and rule over whatever it finds, and leaves in  *)
(* the history tables what it found.  A rollback reads both back.  Between *)
(* two steps the release that is up goes on editing its flags and rules.   *)
(*                                                                         *)
(* One container at a time runs the bootstrap (one replica, stopped before *)
(* its successor starts), and every step is one transaction under the row  *)
(* locks of what it reads.                                                 *)
(***************************************************************************)
EXTENDS Naturals, Sequences, FiniteSets

CONSTANTS
    CanonicalFlags,  \* the keys 0005 seeds, in their order
    RetiredKeys,     \* the keys it archives first: those, and older ones
    ContactKey,      \* the key 0006 seeds
    MaxFlags,        \* bound: definitions ever made
    MaxRules,        \* bound: rules ever made
    MaxEdits         \* bound: edits of operators, syncs

CanonicalKeys == {CanonicalFlags[i] : i \in DOMAIN CanonicalFlags}

ASSUME DeploymentAssumption ==
    /\ CanonicalFlags \in Seq(RetiredKeys) /\ ContactKey \notin RetiredKeys
    /\ \A i, j \in DOMAIN CanonicalFlags : CanonicalFlags[i] = CanonicalFlags[j] => i = j

ASSUME BoundsAssumption == {MaxFlags, MaxRules, MaxEdits} \subseteq Nat

VARIABLES
    level,   \* the last migration applied: 4, 5 or 6
    flags,   \* flags[pk]: a FeatureDefinition, or Gone
    rules,   \* rules[pk]: a FeatureRule, or Gone
    saved,   \* the latest history rows 0006 wrote for a flag and for a rule
    before,  \* what the migrations in force found when they ran
    edits

vars == <<level, flags, rules, saved, before, edits>>

Gone == [key |-> "gone"]
Nothing == [key |-> "nothing"]

Flags == {p \in DOMAIN flags : flags[p] # Gone}
Rules == {r \in DOMAIN rules : rules[r] # Gone}

Plain(base) == [prefix |-> "none", base |-> base, active |-> FALSE, pk |-> 0]

\* Mutant: the archived key without the row's own number.
ArchiveKey_NoPk(p, prefix) ==
    [prefix |-> prefix, base |-> flags[p].key.base, active |-> flags[p].active, pk |-> 0]

\* Mutant: the row is made inactive before its key is put together.
ArchiveKey_Late(p, prefix) ==
    [prefix |-> prefix, base |-> flags[p].key.base, active |-> FALSE, pk |-> p]

\* The key under which a flag is put away says whether it was active.
ArchiveKey(p, prefix) ==
    [prefix |-> prefix, base |-> flags[p].key.base, active |-> flags[p].active, pk |-> p]

Archived(p, prefix) == [flags[p] EXCEPT !.key = ArchiveKey(p, prefix), !.active = FALSE]

Holds(p, keys) == p \in Flags /\ \E k \in keys : flags[p].key = Plain(k)

\* A seeded flag: legacy for everyone, described by the migration.
Seeded(base) == [key |-> Plain(base), active |-> TRUE, default |-> "legacy", about |-> "migration"]

\* A seeded rule: v2 for the testers' group on the flag's page.
SeededRule(p) == [flag |-> p, own |-> TRUE, values |-> "seeded", enabled |-> TRUE]

(***************************************************************************)
(* 0005_reset_design_rollout.                                              *)
(***************************************************************************)
ResetForward ==
    LET n == Len(CanonicalFlags)
        kept == [p \in DOMAIN flags |->
                    IF Holds(p, RetiredKeys) THEN Archived(p, "p129") ELSE flags[p]]
    IN /\ level = 4 /\ level' = 5
       /\ Len(flags) + n =< MaxFlags /\ Len(rules) + n =< MaxRules
       /\ flags' = kept \o [i \in 1..n |-> Seeded(CanonicalFlags[i])]
       /\ rules' = rules \o [i \in 1..n |-> SeededRule(Len(flags) + i)]
       /\ before' = [before EXCEPT !.flags = [p \in {q \in Flags : Holds(q, RetiredKeys)} |->
                                                flags[p]]]
       /\ UNCHANGED <<saved, edits>>

ResetReverse ==
    /\ level = 5 /\ level' = 4
    /\ flags' = [p \in DOMAIN flags |->
          IF Holds(p, CanonicalKeys) THEN Archived(p, "rollback")
          ELSE IF p \in Flags /\ flags[p].key.prefix = "p129"
               THEN [flags[p] EXCEPT !.key = Plain(@.base), !.active = flags[p].key.active]
               ELSE flags[p]]
    /\ UNCHANGED <<rules, saved, before, edits>>

(***************************************************************************)
(* 0006_seed_contact_page_rollout.                                         *)
(***************************************************************************)
Contacts == {p \in Flags : Holds(p, {ContactKey})}

\* Mutant: what was found is written down after it was overwritten.
Found_Late(p) == Seeded(ContactKey)

\* The history row of the definition 0006 is about to overwrite.
Found(p) == flags[p]

ContactForward ==
    LET made == Contacts = {}
        p == IF made THEN Len(flags) + 1 ELSE CHOOSE q \in Contacts : TRUE
        own == {r \in Rules : rules[r].flag = p /\ rules[r].own}
        new == Len(rules) + 1
    IN /\ level = 5 /\ level' = 6
       /\ p =< MaxFlags
       /\ flags' = IF made THEN Append(flags, Seeded(ContactKey))
                   ELSE [flags EXCEPT ![p] = Seeded(ContactKey)]
       /\ \/ /\ own = {} /\ new =< MaxRules
             /\ rules' = Append(rules, SeededRule(p))
             /\ saved' = [saved EXCEPT !.flag[p] = IF made THEN @ ELSE Found(p),
                                       !.mark[p] = [rule |-> new, made |-> TRUE]]
             /\ before' = [before EXCEPT !.contact = IF made THEN Nothing ELSE flags[p],
                                         !.rule = Nothing, !.pk = p]
          \/ \E r \in own :
             /\ rules' = [rules EXCEPT ![r] = SeededRule(p)]
             /\ saved' = [saved EXCEPT !.flag[p] = IF made THEN @ ELSE Found(p),
                                       !.mark[p] = [rule |-> r, made |-> FALSE],
                                       !.rule[r] = rules[r]]
             /\ before' = [before EXCEPT !.contact = flags[p], !.rule = rules[r], !.pk = p]
       /\ UNCHANGED edits

\* The rule of the latest forward run: put back, or deleted if that run made it.
RuleReversed(p) ==
    LET mark == saved.mark[p]
    IN IF mark = Nothing \/ mark.rule \notin Rules THEN rules
       ELSE IF saved.rule[mark.rule] # Nothing /\ saved.rule[mark.rule].flag = p
            THEN [rules EXCEPT ![mark.rule] = saved.rule[mark.rule]]
            ELSE IF mark.made THEN [rules EXCEPT ![mark.rule] = Gone] ELSE rules

\* Deleting a definition deletes its rules.
Cascaded(rs, p) == [r \in DOMAIN rs |-> IF rs[r] # Gone /\ rs[r].flag = p THEN Gone ELSE rs[r]]

ContactReverse ==
    /\ level = 6 /\ level' = 5
    /\ IF Contacts = {} THEN UNCHANGED <<flags, rules>>
       ELSE LET p == CHOOSE q \in Contacts : TRUE
            IN IF saved.flag[p] # Nothing
               THEN /\ flags' = [flags EXCEPT ![p] = saved.flag[p]]
                    /\ rules' = RuleReversed(p)
               ELSE /\ flags' = [flags EXCEPT ![p] = Gone]
                    /\ rules' = Cascaded(RuleReversed(p), p)
    /\ UNCHANGED <<saved, before, edits>>

(***************************************************************************)
(* sync_feature_registry: what is missing is made, what is there keeps its *)
(* active state, and its default unless --force-defaults is given.         *)
(***************************************************************************)
Sync(force) ==
    LET registry == Append(CanonicalFlags, ContactKey)
        missing == {i \in DOMAIN registry : ~\E p \in Flags : Holds(p, {registry[i]})}
        known == {registry[i] : i \in DOMAIN registry}
    IN \E made \in [1 .. Cardinality(missing) -> missing] :
       /\ \A i, j \in DOMAIN made : i < j => made[i] < made[j]
       /\ edits < MaxEdits /\ edits' = edits + 1
       /\ Len(flags) + Len(made) =< MaxFlags
       /\ flags' = [p \in DOMAIN flags |->
                       IF ~Holds(p, known) THEN flags[p]
                       ELSE [flags[p] EXCEPT !.about = "registry",
                                             !.default = IF force THEN "legacy" ELSE @]]
                   \o [i \in DOMAIN made |->
                          [Seeded(registry[made[i]]) EXCEPT !.about = "registry"]]
       /\ UNCHANGED <<level, rules, saved, before>>

(***************************************************************************)
(* Operators of this release edit rules by hand (definitions are read-only *)
(* in its admin); those of earlier ones edited definitions too.            *)
(***************************************************************************)
Edit == /\ edits < MaxEdits /\ edits' = edits + 1
        /\ UNCHANGED <<level, saved, before>>

Editable == {p \in Flags : flags[p].active /\ flags[p].key.prefix = "none"}

RulesOn(p) == [flag : {p}, own : BOOLEAN, values : {"seeded", "other"}, enabled : BOOLEAN]

AddRule == /\ Edit /\ Len(rules) < MaxRules
           /\ \E p \in Editable : \E row \in RulesOn(p) : rules' = Append(rules, row)
           /\ UNCHANGED flags

EditRule == /\ Edit
            /\ \E r \in Rules, p \in Editable : \E row \in RulesOn(p) :
                  rules' = [rules EXCEPT ![r] = row]
            /\ UNCHANGED flags

DeleteRule == /\ Edit
              /\ \E r \in Rules : rules' = [rules EXCEPT ![r] = Gone]
              /\ UNCHANGED flags

EarlierRelease ==
    /\ level < 6 /\ Edit
    /\ \/ \E k \in RetiredKeys \cup {ContactKey}, active \in BOOLEAN :
             /\ ~\E p \in Flags : Holds(p, {k})
             /\ level = 5 => k \notin RetiredKeys
             /\ Len(flags) < MaxFlags
             /\ flags' = Append(flags, [key |-> Plain(k), active |-> active,
                                        default |-> "other", about |-> "other"])
             /\ UNCHANGED rules
       \/ \E p \in Flags :
             /\ flags[p].key.prefix = "none"
             /\ \/ /\ flags' = [flags EXCEPT ![p].active = ~@]
                   /\ UNCHANGED rules
                \/ /\ flags' = [flags EXCEPT ![p] = Gone]
                   /\ rules' = Cascaded(rules, p)

Init ==
    /\ level = 4 /\ flags = <<>> /\ rules = <<>> /\ edits = 0
    /\ saved = [flag |-> [p \in 1..MaxFlags |-> Nothing],
                mark |-> [p \in 1..MaxFlags |-> Nothing],
                rule |-> [r \in 1..MaxRules |-> Nothing]]
    /\ before = [flags |-> <<>>, contact |-> Nothing, rule |-> Nothing, pk |-> 0]

Next ==
    \/ ResetForward \/ ResetReverse \/ ContactForward \/ ContactReverse
    \/ \E force \in BOOLEAN : Sync(force)
    \/ AddRule \/ EditRule \/ DeleteRule \/ EarlierRelease

Spec == Init /\ [][Next]_vars

\* No migration, in any order of deployments and rollbacks, gives two definitions one
\* key: the unique index never stops a deployment or a rollback half-way (0005, 0006,
\* sync_feature_registry).
UniqueKeys == \A p, q \in Flags : flags[p].key = flags[q].key => p = q

\* Rolling 0005 back gives every flag it had put away its key, its state and its default
\* back, whatever was deployed, rolled back and edited in between (0005 reverse).
FlagsRestored ==
    [][level = 5 /\ level' = 4 =>
          \A p \in DOMAIN before.flags : flags'[p] = before.flags[p]]_vars

\* Rolling 0006 back leaves the contact flag and its rule as they were found, or gone if
\* there was none, and every rule that is not on a flag it made alone (0006 reverse).
ContactRestored ==
    [][level = 6 /\ level' = 5 =>
          LET p == before.pk
              r == saved.mark[p].rule
          IN /\ flags'[p] = IF before.contact = Nothing THEN Gone ELSE before.contact
             /\ rules'[r] = IF before.rule = Nothing \/ r \notin Rules THEN Gone
                            ELSE before.rule
             /\ \A q \in Rules \ {r} :
                   rules'[q] = IF before.contact = Nothing /\ rules[q].flag = p
                               THEN Gone ELSE rules[q]]_vars
=============================================================================

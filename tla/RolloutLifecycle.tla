------------------------- MODULE RolloutLifecycle -------------------------
(***************************************************************************)
(* What the rollout console promises of a guided rollout: it is drafted or *)
(* launched, a draft may be started once, a running rollout may be         *)
(* stopped, a stopped one stays stopped, and two rollouts that both run    *)
(* never claim the same page of one flag.                                  *)
(*                                                                         *)
(* The pages that list the raw rules let an operator change a rule in any  *)
(* way, and a migration seeds rules.  The promise does not extend to these *)
(* rules: they are in byHand.                                              *)
(***************************************************************************)
CONSTANTS
    Rules,      \* rule ids
    Flags,
    Pages,      \* names of pages
    AnyPage,    \* the page of a rule that applies to all pages
    NoScope     \* the scope of a rule that does not exist

VARIABLES
    life,       \* "absent", "draft", "running", "stopped"
    scope,      \* what the rule applies to
    byHand      \* rules that were not made, or not left, by the console

vars == <<life, scope, byHand>>

Lives == {"absent", "draft", "running", "stopped"}
Scopes == [flag : Flags, page : Pages \union {AnyPage}]

Overlaps(a, b) ==
    a.flag = b.flag /\ (a.page = b.page \/ a.page = AnyPage \/ b.page = AnyPage)

TypeOK ==
    /\ life \in [Rules -> Lives]
    /\ scope \in [Rules -> Scopes \union {NoScope}]
    /\ byHand \subseteq Rules

Init == TypeOK /\ \A r \in Rules : life[r] = "absent" \/ r \in byHand

Guided == {r \in Rules : life[r] = "running" /\ r \notin byHand}

Free(s, except) == \A r \in Guided \ {except} : ~Overlaps(scope[r], s)

Draft(r) ==
    /\ life[r] = "absent" /\ r \notin byHand
    /\ life' = [life EXCEPT ![r] = "draft"]
    /\ \E s \in Scopes : scope' = [scope EXCEPT ![r] = s]
    /\ UNCHANGED byHand

Launch(r) ==
    /\ life[r] = "absent" /\ r \notin byHand
    /\ life' = [life EXCEPT ![r] = "running"]
    /\ \E s \in Scopes : Free(s, r) /\ scope' = [scope EXCEPT ![r] = s]
    /\ UNCHANGED byHand

Start(r) ==
    /\ life[r] = "draft" /\ r \notin byHand
    /\ Free(scope[r], r)
    /\ life' = [life EXCEPT ![r] = "running"]
    /\ UNCHANGED <<scope, byHand>>

Stop(r) ==
    /\ life[r] = "running" /\ r \notin byHand
    /\ life' = [life EXCEPT ![r] = "stopped"]
    /\ UNCHANGED <<scope, byHand>>

EditByHand(r) ==
    /\ \E l \in Lives : life' = [life EXCEPT ![r] = l]
    /\ \E s \in Scopes \union {NoScope} : scope' = [scope EXCEPT ![r] = s]
    /\ byHand' = byHand \union {r}

Next == \E r \in Rules : Draft(r) \/ Launch(r) \/ Start(r) \/ Stop(r) \/ EditByHand(r)

Spec == Init /\ [][Next]_vars

\* No two rollouts of the console run on the same page of one flag
\* (_active_conflict in admin_services.py).
OneRolloutPerPage ==
    \A r, s \in Guided : r # s => ~Overlaps(scope[r], scope[s])
=============================================================================

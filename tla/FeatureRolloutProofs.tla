----------------------- MODULE FeatureRolloutProofs -----------------------
(***************************************************************************)
(* Proofs about FeatureRollout, for any number of operators, rules, flags  *)
(* and pages.                                                              *)
(*                                                                         *)
(* The argument: from its checks to its commit a request of the console    *)
(* holds the row of the flag it has checked (LocksHeld), so what it found  *)
(* out about the rollouts of that flag stays true (ChecksHold): the only   *)
(* writes that do not ask for that lock are those of the raw form, and     *)
(* they concern rules in byHand.                                           *)
(***************************************************************************)
EXTENDS FeatureRollout, TLAPS

Deciding(p) == req[p].stage \in {"check", "save"} /\ req[p].kind # "edit"

Holds(p) ==
    /\ req[p].stage = "lock_flag" => req[p].flag \in Flags
    /\ req[p].stage = "lock_rule" => req[p].rule \in Rules
    /\ req[p].kind = "start" /\ req[p].stage = "lock_rule"
       => req[p].flag \in Flags /\ lock[req[p].flag] = p
    /\ Deciding(p) => req[p].flag \in Flags /\ lock[req[p].flag] = p
    /\ req[p].kind \in {"start", "stop"} => req[p].rule \in Rules
    /\ req[p].kind \in {"start", "stop"} /\ Deciding(p)
       => Exists(req[p].rule) /\ lock[req[p].rule] = p
    /\ req[p].kind = "stop" /\ req[p].stage = "lock_flag"
       => Exists(req[p].rule) /\ lock[req[p].rule] = p
    /\ req[p].kind = "create" /\ req[p].stage = "save"
       => req[p].rule \in Rules /\ lock[req[p].rule] = p /\ Fresh(req[p].rule)
    /\ req[p].kind \in {"create", "edit"}
       => req[p].form \in Rows /\ req[p].form.content.flag = req[p].flag
    /\ req[p].stage = "idle" <=> req[p].kind = "none"
    /\ req[p].kind = "edit" => req[p].stage = "save"
    /\ req[p].kind = "create" => req[p].stage # "lock_rule"

LocksHeld == \A p \in Ops : Holds(p)

\* The rules of the console and their histories.
HistoryTrue ==
    \A r \in Rules \ byHand :
        /\ ~Exists(r) <=> past[r] = "none"
        /\ Exists(r) => (row[r].enabled => past[r] = "other")

\* A rule that the raw form has not changed has the flag that was looked up for it.
Known(p) ==
    req[p].kind \in {"start", "stop"} /\ req[p].rule \notin byHand
        => /\ Exists(req[p].rule)
           /\ req[p].flag # NoFlag => row[req[p].rule].content.flag = req[p].flag

FlagKnown == \A p \in Ops : Known(p)

Unconflicted(c, except) == Conflicts(c, except) \subseteq byHand

\* What a request has found out under its locks is still true when it saves.
Checked(p) ==
    req[p].stage = "save" =>
        /\ req[p].kind = "create" => active[req[p].flag]
        /\ req[p].kind = "create" /\ req[p].form.enabled
               => Unconflicted(req[p].form.content, NoRule)
        /\ req[p].kind = "create" /\ ~req[p].form.enabled
               => ReusableDrafts(req[p].form.content) \subseteq byHand
        /\ req[p].kind = "start" /\ req[p].rule \notin byHand
               => /\ ~row[req[p].rule].enabled /\ NeverStartedDraft(req[p].rule)
                  /\ active[req[p].flag]
                  /\ row[req[p].rule].content.audience = "group"
                         => row[req[p].rule].content.groups \subseteq groups
                  /\ Unconflicted(row[req[p].rule].content, req[p].rule)
        /\ req[p].kind = "stop" => row[req[p].rule].enabled

ChecksHold == \A p \in Ops : Checked(p)

\* OneRolloutPerPage of RolloutLifecycle, of the rows.
NoOverlap ==
    \A r, s \in Running \ byHand :
        r # s => ~(/\ row[r].content.flag = row[s].content.flag
                   /\ SamePage(row[r].content, row[s].content))

Inv == TypeOK /\ LocksHeld /\ HistoryTrue /\ FlagKnown /\ ChecksHold
       /\ NoOverlap /\ NoTwinDrafts

-----------------------------------------------------------------------------
(* Types *)

\* Before the first request the rows, locks and requests are well-typed.
LEMMA InitType == Init => TypeOK
  BY RolloutAssumption DEF Init, TypeOK, Idle, Requests, Kinds, Stages, Rows

\* A request that ends leaves the locks and the requests well-typed.
LEMMA EndType ==
    ASSUME TypeOK, NEW p \in Ops, lock' = Released(p), req' = [req EXCEPT ![p] = Idle]
    PROVE  /\ lock' \in [Flags \union Rules -> Ops \union {NoOne}]
           /\ req' \in [Ops -> Requests]
  BY DEF TypeOK, Released, Idle, Requests, Kinds, Stages

\* A request that begins is well-typed.
LEMMA BeginType ==
    ASSUME TypeOK, NEW p \in Ops, NEW k \in Kinds, NEW s \in Stages,
           NEW r \in Rules \union {NoRule}, NEW f \in Flags \union {NoFlag},
           NEW form \in Rows \union {NoForm}, Begin(p, k, s, r, f, form)
    PROVE  TypeOK'
  BY DEF TypeOK, Begin, Requests

\* What exists is a row.
LEMMA RowType ==
    ASSUME TypeOK, NEW r \in Rules, Exists(r)
    PROVE  /\ row[r] \in Rows /\ row[r].content \in Contents /\ row[r].enabled \in BOOLEAN
           /\ row[r].content.flag \in Flags
  BY DEF TypeOK, Exists, Rows, Contents

\* What operators fill in makes a row.
LEMMA FormType ==
    ASSUME NEW c \in Contents, NEW on \in BOOLEAN
    PROVE  /\ [content |-> c, enabled |-> on] \in Rows /\ c.flag \in Flags
  BY DEF Rows, Contents

\* Every request of an operator keeps the types.
LEMMA PostType ==
    ASSUME TypeOK, NEW p \in Ops, Post(p)
    PROVE  TypeOK'
<1> USE RolloutAssumption
<1>1. CASE PostCreate(p)
  <2>1. PICK c \in Forms, on \in BOOLEAN :
            Begin(p, "create", "lock_flag", NoRule, c.flag, [content |-> c, enabled |-> on])
    BY <1>1 DEF PostCreate
  <2>2. [content |-> c, enabled |-> on] \in Rows /\ c.flag \in Flags
    BY FormType
  <2> QED  BY <2>1, <2>2, BeginType DEF Kinds, Stages
<1>2. CASE PostStart(p)
  <2>1. PICK r \in Rules : Exists(r)
                           /\ Begin(p, "start", "lock_flag", r, row[r].content.flag, NoForm)
    BY <1>2 DEF PostStart
  <2>2. row[r].content.flag \in Flags
    BY <2>1, RowType
  <2> QED  BY <2>1, <2>2, BeginType DEF Kinds, Stages
<1>3. CASE PostStop(p)
  <2>1. PICK r \in Rules : Begin(p, "stop", "lock_rule", r, NoFlag, NoForm)
    BY <1>3 DEF PostStop
  <2> QED  BY <2>1, BeginType DEF Kinds, Stages
<1>4. CASE PostEdit(p)
  <2>1. PICK r \in {r \in Rules : Exists(r)} \union {NoRule}, c \in RawForms, on \in BOOLEAN :
            Begin(p, "edit", "save", r, c.flag, [content |-> c, enabled |-> on])
    BY <1>4 DEF PostEdit
  <2>2. [content |-> c, enabled |-> on] \in Rows /\ c.flag \in Flags
    BY FormType
  <2> QED  BY <2>1, <2>2, BeginType DEF Kinds, Stages
<1> QED  BY <1>1, <1>2, <1>3, <1>4 DEF Post

\* Taking a row lock keeps the types.
LEMMA LockType ==
    ASSUME TypeOK, LocksHeld, NEW p \in Ops, LockFlag(p) \/ LockRule(p)
    PROVE  TypeOK'
<1> USE RolloutAssumption
<1>1. CASE LockFlag(p)
  BY <1>1 DEF LockFlag, TypeOK, Acquired, Goto, Requests, Stages
<1>2. CASE LockRule(p)
  <2>1. CASE Refuse(p)
    BY <1>2, <2>1, EndType DEF LockRule, Refuse, TypeOK
  <2>2. CASE ~Refuse(p)
    <3>1. req[p].rule \in Rules /\ Exists(req[p].rule)
      BY <1>2, <2>2 DEF LockRule, LocksHeld, Holds
    <3>2. row[req[p].rule].content.flag \in Flags
      BY <3>1, RowType
    <3>3. lock' = Acquired(p, {req[p].rule}) /\ UNCHANGED <<row, past, byHand, active, groups>>
      BY <1>2, <2>2 DEF LockRule
    <3>4. lock' \in [Flags \union Rules -> Ops \union {NoOne}]
      BY <3>1, <3>3 DEF TypeOK, Acquired
    <3>5. CASE req[p].kind = "start"
      <4>1. req' = [req EXCEPT ![p].stage = "check"]
        BY <1>2, <2>2, <3>5 DEF LockRule, Goto
      <4>2. req' \in [Ops -> Requests]
        BY <4>1 DEF TypeOK, Requests, Stages
      <4> QED  BY <3>3, <3>4, <4>2 DEF TypeOK
    <3>6. CASE req[p].kind # "start"
      <4>1. req' = [req EXCEPT ![p] = [req[p] EXCEPT !.stage = "lock_flag",
                                                  !.flag = row[req[p].rule].content.flag]]
        BY <1>2, <2>2, <3>6 DEF LockRule
      <4>2. req[p] \in Requests
        BY DEF TypeOK
      <4>3. [req[p] EXCEPT !.stage = "lock_flag",
                           !.flag = row[req[p].rule].content.flag] \in Requests
        BY <3>2, <4>2 DEF Requests, Stages
      <4>4. req' \in [Ops -> Requests]
        BY <4>1, <4>3 DEF TypeOK
      <4> QED  BY <3>3, <3>4, <4>4 DEF TypeOK
    <3> QED  BY <3>5, <3>6
  <2> QED  BY <2>1, <2>2
<1> QED  BY <1>1, <1>2

\* The checks under the locks keep the types.
LEMMA DecideType ==
    ASSUME TypeOK, NEW p \in Ops, Decide(p)
    PROVE  TypeOK'
<1>1. CASE Refuse(p)
  <2>1. UNCHANGED <<active, groups>>
    BY DEF Decide, CreateCheck, StartCheck, StopCheck
  <2> QED  BY <1>1, <2>1, EndType DEF Refuse, TypeOK
<1>2. CASE ~Refuse(p) /\ CreateCheck(p)
  <2>1. PICK r \in Rules :
            /\ \E xs : lock' = Acquired(p, xs)
            /\ req' = [req EXCEPT ![p] = [req[p] EXCEPT !.stage = "save", !.rule = r]]
            /\ UNCHANGED <<row, past, byHand, active, groups>>
    BY <1>2 DEF CreateCheck
  <2>2. [req[p] EXCEPT !.stage = "save", !.rule = r] \in Requests
    BY DEF TypeOK, Requests, Stages
  <2>3. req' \in [Ops -> Requests]
    BY <2>1, <2>2 DEF TypeOK
  <2>4. lock' \in [Flags \union Rules -> Ops \union {NoOne}]
    BY <2>1 DEF TypeOK, Acquired
  <2> QED  BY <2>1, <2>3, <2>4 DEF TypeOK
<1>3. CASE ~Refuse(p) /\ (StartCheck(p) \/ StopCheck(p))
  BY <1>3 DEF StartCheck, StopCheck, TypeOK, Goto, Requests, Stages
<1> QED  BY <1>1, <1>2, <1>3 DEF Decide

\* A save writes a row and a history.
LEMMA StoreType ==
    ASSUME TypeOK, NEW r \in Rules, NEW c \in Contents, NEW on \in BOOLEAN, Store(r, c, on)
    PROVE  /\ row' \in [Rules -> Rows \union {NoRule}]
           /\ past' \in [Rules -> {"none", "draft", "other"}]
  BY DEF TypeOK, Store, Recorded, Rows

\* The three saves keep the types.
LEMMA SaveType ==
    ASSUME TypeOK, LocksHeld, NEW p \in Ops, Save(p)
    PROVE  TypeOK'
<1> USE RolloutAssumption
<1>0. req[p].stage = "save" /\ lock' = Released(p) /\ req' = [req EXCEPT ![p] = Idle]
      /\ UNCHANGED <<active, groups>>
  BY DEF Save, SaveNew, SaveEnabled, SaveEdit, Finish
<1>1. CASE SaveNew(p)
  <2>1. req[p].rule \in Rules /\ req[p].form \in Rows
    BY <1>1 DEF SaveNew, LocksHeld, Holds
  <2>2. req[p].form.content \in Contents /\ req[p].form.enabled \in BOOLEAN
    BY <2>1 DEF Rows
  <2>3. Store(req[p].rule, req[p].form.content, req[p].form.enabled) /\ UNCHANGED byHand
    BY <1>1 DEF SaveNew
  <2>4. /\ row' \in [Rules -> Rows \union {NoRule}]
        /\ past' \in [Rules -> {"none", "draft", "other"}]
    BY <2>1, <2>2, <2>3, StoreType
  <2> QED  BY <1>0, <2>3, <2>4, EndType DEF TypeOK
<1>2. CASE SaveEnabled(p)
  <2>1. req[p].rule \in Rules /\ Exists(req[p].rule)
    BY <1>2 DEF SaveEnabled, LocksHeld, Holds, Deciding
  <2>2. row[req[p].rule].content \in Contents
    BY <2>1, RowType
  <2> QED  BY <1>0, <1>2, <2>1, <2>2, EndType, StoreType DEF SaveEnabled, TypeOK
<1>3. CASE SaveEdit(p)
  <2>1. PICK r \in Rules : Store(r, req[p].form.content, req[p].form.enabled)
                           /\ byHand' = byHand \union {r}
    BY <1>3 DEF SaveEdit
  <2>2. req[p].form \in Rows
    BY <1>3 DEF SaveEdit, LocksHeld, Holds
  <2>3. req[p].form.content \in Contents /\ req[p].form.enabled \in BOOLEAN
    BY <2>2 DEF Rows
  <2>4. /\ row' \in [Rules -> Rows \union {NoRule}]
        /\ past' \in [Rules -> {"none", "draft", "other"}]
    BY <2>1, <2>3, StoreType
  <2> QED  BY <1>0, <2>1, <2>4, EndType DEF TypeOK
<1> QED  BY <1>1, <1>2, <1>3 DEF Save

\* Deletions, the archiving of a flag and an aborted request keep the types.
LEMMA OthersType ==
    ASSUME TypeOK, \/ \E p \in Ops : AbortDeadlocked(p)
                   \/ \E r \in Rules : DeleteRule(r)
                   \/ \E g \in Groups : DeleteGroup(g)
                   \/ \E f \in Flags : Archive(f)
    PROVE  TypeOK'
<1>1. CASE \E p \in Ops : AbortDeadlocked(p)
  BY <1>1, EndType DEF AbortDeadlocked, Refuse, TypeOK
<1>2. CASE \E r \in Rules : DeleteRule(r)
  BY <1>2 DEF DeleteRule, TypeOK, Recorded
<1>3. CASE \E g \in Groups : DeleteGroup(g)
  BY <1>3 DEF DeleteGroup, TypeOK
<1>4. CASE \E f \in Flags : Archive(f)
  BY <1>4 DEF Archive, TypeOK
<1> QED  BY <1>1, <1>2, <1>3, <1>4

\* Every step keeps the types.
LEMMA NextType ==
    ASSUME TypeOK, LocksHeld, Next
    PROVE  TypeOK'
  BY PostType, LockType, DecideType, SaveType, OthersType DEF Next

-----------------------------------------------------------------------------
(* Locks *)

\* A request keeps its locks, and the rows it has locked, while another one moves.
LEMMA OthersHold ==
    ASSUME TypeOK, NEW q \in Ops, Holds(q), req'[q] = req[q],
           \A x \in Flags \union Rules : lock[x] = q => lock'[x] = q,
           \A r \in Rules : lock[r] = q => row'[r] = row[r] /\ past'[r] = past[r]
    PROVE  Holds(q)'
  BY DEF Holds, Deciding, Exists, Fresh

\* What ends or begins a request of p leaves the other requests their locks.
LEMMA ReleaseKeeps ==
    ASSUME TypeOK, NEW p \in Ops, lock' = Released(p), req' = [req EXCEPT ![p] = Idle]
    PROVE  /\ \A q \in Ops \ {p} : req'[q] = req[q]
           /\ \A q \in Ops \ {p} : \A x \in Flags \union Rules : lock[x] = q => lock'[x] = q
           /\ Holds(p)'
  <1>1. req'[p] = Idle
    BY DEF TypeOK
  <1>2. Holds(p)'
    BY <1>1 DEF Holds, Deciding, Idle
  <1> QED  BY <1>2 DEF TypeOK, Released

\* A request begins in a stage that needs no lock yet.
LEMMA BeginHolds ==
    ASSUME TypeOK, LocksHeld, NEW p \in Ops, NEW k \in {"create", "start", "stop", "edit"},
           NEW s, NEW r, NEW f, NEW form,
           Begin(p, k, s, r, f, form),
           \/ k = "create" /\ s = "lock_flag" /\ f \in Flags
              /\ form \in Rows /\ form.content.flag = f
           \/ k = "start" /\ s = "lock_flag" /\ r \in Rules /\ f \in Flags
           \/ k = "stop" /\ s = "lock_rule" /\ r \in Rules
           \/ k = "edit" /\ s = "save" /\ form \in Rows /\ form.content.flag = f
    PROVE  LocksHeld'
<1>1. req'[p] = [kind |-> k, stage |-> s, rule |-> r, flag |-> f, form |-> form]
  BY DEF Begin, TypeOK
<1>2. Holds(p)'
  BY <1>1 DEF Holds, Deciding
<1>3. ASSUME NEW q \in Ops \ {p} PROVE Holds(q)'
  <2>1. req'[q] = req[q] /\ UNCHANGED <<lock, row, past>>
    BY DEF Begin, TypeOK
  <2> QED  BY <2>1, OthersHold DEF LocksHeld
<1> QED  BY <1>2, <1>3 DEF LocksHeld

\* Every request of an operator begins so.
LEMMA PostHolds ==
    ASSUME TypeOK, LocksHeld, NEW p \in Ops, Post(p)
    PROVE  LocksHeld'
<1> USE RolloutAssumption
<1>1. CASE PostCreate(p)
  <2>1. PICK c \in Forms, on \in BOOLEAN :
            Begin(p, "create", "lock_flag", NoRule, c.flag, [content |-> c, enabled |-> on])
    BY <1>1 DEF PostCreate
  <2>2. [content |-> c, enabled |-> on] \in Rows /\ c.flag \in Flags
    BY FormType
  <2> QED  BY <2>1, <2>2, BeginHolds
<1>2. CASE PostStart(p)
  <2>1. PICK r \in Rules : Exists(r)
                           /\ Begin(p, "start", "lock_flag", r, row[r].content.flag, NoForm)
    BY <1>2 DEF PostStart
  <2>2. row[r].content.flag \in Flags
    BY <2>1, RowType
  <2> QED  BY <2>1, <2>2, BeginHolds
<1>3. CASE PostStop(p)
  <2>1. PICK r \in Rules : Begin(p, "stop", "lock_rule", r, NoFlag, NoForm)
    BY <1>3 DEF PostStop
  <2> QED  BY <2>1, BeginHolds
<1>4. CASE PostEdit(p)
  <2>1. PICK r \in {r \in Rules : Exists(r)} \union {NoRule}, c \in RawForms, on \in BOOLEAN :
            Begin(p, "edit", "save", r, c.flag, [content |-> c, enabled |-> on])
    BY <1>4 DEF PostEdit
  <2>2. [content |-> c, enabled |-> on] \in Rows /\ c.flag \in Flags
    BY FormType
  <2> QED  BY <2>1, <2>2, BeginHolds
<1> QED  BY <1>1, <1>2, <1>3, <1>4 DEF Post

\* A request that writes nothing.
LEMMA RefuseHolds ==
    ASSUME TypeOK, LocksHeld, NEW p \in Ops, Refuse(p)
    PROVE  LocksHeld'
  BY ReleaseKeeps, OthersHold DEF Refuse, LocksHeld

\* A request that locks the row of its flag has the locks of its next stage.
LEMMA LockFlagHolds ==
    ASSUME TypeOK, LocksHeld, NEW p \in Ops, LockFlag(p)
    PROVE  LocksHeld'
<1> USE RolloutAssumption
<1>1. /\ lock' = Acquired(p, {req[p].flag}) /\ Available(p, req[p].flag)
      /\ UNCHANGED <<row, past>>
      /\ req[p].stage = "lock_flag" /\ req[p].flag \in Flags /\ Holds(p)
      /\ req' = [req EXCEPT ![p].stage =
                    IF req[p].kind = "start" THEN "lock_rule" ELSE "check"]
  BY DEF LockFlag, Goto, LocksHeld, Holds
<1>2. /\ \A q \in Ops \ {p} : \A x \in Flags \union Rules : lock[x] = q => lock'[x] = q
      /\ \A x \in Flags \union Rules : lock[x] = p => lock'[x] = p
      /\ lock'[req[p].flag] = p
  BY <1>1 DEF Acquired, Available, TypeOK
<1>3. /\ req'[p].stage = IF req[p].kind = "start" THEN "lock_rule" ELSE "check"
      /\ req'[p].kind = req[p].kind /\ req'[p].flag = req[p].flag
      /\ req'[p].rule = req[p].rule /\ req'[p].form = req[p].form
  BY <1>1 DEF TypeOK, Requests
<1>4. req[p].kind \in {"create", "start", "stop"}
  BY <1>1 DEF Holds, TypeOK, Requests, Kinds
<1>5. Holds(p)'
  <2>1. CASE req[p].kind = "create"
    BY <1>1, <1>2, <1>3, <2>1 DEF Holds, Deciding
  <2>2. CASE req[p].kind = "start"
    <3>1. req'[p].stage = "lock_rule" /\ req'[p].kind = "start"
      BY <1>3, <2>2
    <3>2. req[p].rule \in Rules
      BY <1>1, <2>2 DEF Holds
    <3>3. req'[p].rule \in Rules /\ req'[p].flag \in Flags /\ lock'[req'[p].flag] = p
      BY <1>1, <1>2, <1>3, <3>2
    <3> QED  BY <3>1, <3>3 DEF Holds, Deciding
  <2>3. CASE req[p].kind = "stop"
    <3>1. /\ req[p].rule \in Rules /\ Exists(req[p].rule) /\ lock[req[p].rule] = p
          /\ req'[p].stage = "check" /\ req'[p].kind = "stop" /\ req'[p].rule = req[p].rule
      BY <1>1, <1>3, <2>3 DEF Holds
    <3>2. lock'[req[p].rule] = p /\ Exists(req[p].rule)'
      <4>1. row'[req[p].rule] # NoRule
        BY <1>1, <3>1 DEF Exists
      <4> QED  BY <1>2, <1>3, <3>1, <4>1 DEF Exists
    <3>3. req'[p].flag \in Flags /\ lock'[req'[p].flag] = p
      BY <1>1, <1>2, <1>3
    <3> QED  BY <3>1, <3>2, <3>3 DEF Holds, Deciding
  <2> QED  BY <1>4, <2>1, <2>2, <2>3
<1>6. ASSUME NEW q \in Ops \ {p} PROVE Holds(q)'
  <2>1. req'[q] = req[q]
    BY <1>1 DEF TypeOK
  <2> QED  BY <1>1, <1>2, <2>1, OthersHold DEF LocksHeld
<1> QED  BY <1>5, <1>6 DEF LocksHeld

\* So has one that locks the row of its rule.
LEMMA LockRuleHolds ==
    ASSUME TypeOK, LocksHeld, NEW p \in Ops, LockRule(p)
    PROVE  LocksHeld'
<1> USE RolloutAssumption
<1>1. CASE Refuse(p)
  BY <1>1, RefuseHolds
<1>2. CASE ~Refuse(p)
  <2> DEFINE r == req[p].rule
  <2>1. /\ r \in Rules /\ Exists(r) /\ Available(p, r) /\ req[p].stage = "lock_rule"
        /\ lock' = Acquired(p, {r}) /\ UNCHANGED <<row, past>> /\ Holds(p)
    BY <1>2 DEF LockRule, LocksHeld, Holds
  <2>2. /\ \A q \in Ops \ {p} : \A x \in Flags \union Rules : lock[x] = q => lock'[x] = q
        /\ \A x \in Flags \union Rules : lock[x] = p => lock'[x] = p
        /\ lock'[r] = p
    BY <2>1 DEF Acquired, Available, TypeOK
  <2>3. row[r].content.flag \in Flags
    BY <2>1, RowType
  <2>4. req[p].kind \in {"start", "stop"}
    BY <2>1 DEF Holds, TypeOK, Requests, Kinds
  <2>5. /\ req'[p].kind = req[p].kind /\ req'[p].rule = r
        /\ \A q \in Ops \ {p} : req'[q] = req[q]
        /\ req[p].kind = "start" => req'[p].stage = "check" /\ req'[p].flag = req[p].flag
        /\ req[p].kind = "stop" => /\ req'[p].stage = "lock_flag"
                                   /\ req'[p].flag = row[r].content.flag
    <3>1. CASE req[p].kind = "start"
      <4>1. req' = [req EXCEPT ![p].stage = "check"]
        BY <1>2, <2>1, <3>1 DEF LockRule, Goto
      <4> QED  BY <3>1, <4>1 DEF TypeOK, Requests
    <3>2. CASE req[p].kind = "stop"
      <4>1. req' = [req EXCEPT ![p] = [req[p] EXCEPT !.stage = "lock_flag",
                                                     !.flag = row[r].content.flag]]
        BY <1>2, <2>1, <3>2 DEF LockRule
      <4>2. req[p] \in Requests
        BY DEF TypeOK
      <4> QED  BY <3>2, <4>1, <4>2 DEF TypeOK, Requests
    <3> QED  BY <2>4, <3>1, <3>2
  <2>6. Holds(p)'
    <3>1. CASE req[p].kind = "start"
      <4>1. /\ req'[p].stage = "check" /\ req'[p].kind = "start" /\ req'[p].rule = r
            /\ req'[p].flag \in Flags /\ lock'[req'[p].flag] = p
        <5>1. req[p].flag \in Flags /\ lock[req[p].flag] = p
          BY <2>1, <3>1 DEF Holds
        <5>2. lock'[req[p].flag] = p
          BY <2>2, <5>1
        <5>3. req'[p].flag = req[p].flag /\ req'[p].stage = "check"
          BY <2>5, <3>1
        <5>4. req'[p].kind = "start" /\ req'[p].rule = r
          BY <2>5, <3>1
        <5>5. lock'[req'[p].flag] = p
          BY <5>2, <5>3
        <5>6. req'[p].flag \in Flags
          BY <5>1, <5>3
        <5> QED  BY <5>3, <5>4, <5>5, <5>6
      <4>2. row'[r] # NoRule
        BY <2>1 DEF Exists
      <4> QED  BY <2>1, <2>2, <4>1, <4>2 DEF Holds, Deciding, Exists
    <3>2. CASE req[p].kind = "stop"
      BY <2>1, <2>2, <2>3, <2>5, <3>2 DEF Holds, Deciding, Exists
    <3> QED  BY <2>4, <3>1, <3>2
  <2>7. ASSUME NEW q \in Ops \ {p} PROVE Holds(q)'
    BY <2>1, <2>2, <2>5, OthersHold DEF LocksHeld
  <2> QED  BY <2>6, <2>7 DEF LocksHeld
<1> QED  BY <1>1, <1>2

\* A request that passes its checks goes on with its locks.
LEMMA DecideHolds ==
    ASSUME TypeOK, LocksHeld, NEW p \in Ops, Decide(p)
    PROVE  LocksHeld'
<1> USE RolloutAssumption
<1>1. CASE Refuse(p)
  BY <1>1, RefuseHolds
<1>2. CASE ~Refuse(p) /\ CreateCheck(p)
  <2> DEFINE New(r, xs) ==
            /\ Fresh(r) /\ Available(p, r)
            /\ lock' = Acquired(p, xs \union {r})
            /\ \A x \in xs : Available(p, x)
            /\ req' = [req EXCEPT ![p] = [req[p] EXCEPT !.stage = "save", !.rule = r]]
            /\ UNCHANGED <<row, past>>
            /\ req[p].kind = "create" /\ req[p].stage = "check"
  <2>0. PICK r \in Rules : \E xs : New(r, xs)
    BY <1>2 DEF CreateCheck
  <2>1. PICK xs : New(r, xs)
    BY <2>0
  <2>2. /\ \A q \in Ops \ {p} : \A x \in Flags \union Rules : lock[x] = q => lock'[x] = q
        /\ \A x \in Flags \union Rules : lock[x] = p => lock'[x] = p
        /\ lock'[r] = p
    BY <2>1 DEF Acquired, Available, TypeOK
  <2>3. /\ req'[p].kind = req[p].kind /\ req'[p].rule = r /\ req'[p].flag = req[p].flag
        /\ req'[p].form = req[p].form /\ req'[p].stage = "save"
        /\ \A q \in Ops \ {p} : req'[q] = req[q]
    BY <2>1 DEF TypeOK, Requests
  <2>4. Holds(p)'
    <3>1. Fresh(r)'
      BY <2>1 DEF Fresh, Exists
    <3>2. Holds(p)
      BY DEF LocksHeld
    <3>3. /\ req'[p].flag \in Flags /\ lock'[req'[p].flag] = p
          /\ req'[p].form \in Rows /\ req'[p].form.content.flag = req'[p].flag
          /\ req'[p].kind = "create" /\ req'[p].stage = "save" /\ req'[p].rule = r
      <4>1. /\ req[p].flag \in Flags /\ lock[req[p].flag] = p
            /\ req[p].form \in Rows /\ req[p].form.content.flag = req[p].flag
        BY <2>1, <3>2 DEF Holds, Deciding
      <4>2. lock'[req[p].flag] = p
        BY <2>2, <4>1
      <4>3. req[p].kind = "create"
        BY <2>1
      <4> QED  BY <2>3, <4>1, <4>2, <4>3
    <3> QED  BY <2>1, <2>2, <3>1, <3>3 DEF Holds, Deciding
  <2>5. ASSUME NEW q \in Ops \ {p} PROVE Holds(q)'
    BY <2>1, <2>2, <2>3, OthersHold DEF LocksHeld
  <2> QED  BY <2>4, <2>5 DEF LocksHeld
<1>3. CASE ~Refuse(p) /\ (StartCheck(p) \/ StopCheck(p))
  <2>1. /\ req' = [req EXCEPT ![p].stage = "save"] /\ UNCHANGED <<row, past, lock>>
        /\ req[p].stage = "check" /\ req[p].kind \in {"start", "stop"}
    BY <1>3 DEF StartCheck, StopCheck, Goto
  <2>2. /\ req'[p].kind = req[p].kind /\ req'[p].rule = req[p].rule
        /\ req'[p].flag = req[p].flag /\ req'[p].stage = "save"
        /\ \A q \in Ops \ {p} : req'[q] = req[q]
    BY <2>1 DEF TypeOK, Requests
  <2>3. Holds(p)'
    BY <2>1, <2>2 DEF LocksHeld, Holds, Deciding, Exists
  <2>4. ASSUME NEW q \in Ops \ {p} PROVE Holds(q)'
    BY <2>1, <2>2, OthersHold DEF LocksHeld
  <2> QED  BY <2>3, <2>4 DEF LocksHeld
<1> QED  BY <1>1, <1>2, <1>3 DEF Decide

\* A rule that is saved is locked by the request that saves it, or by none.
LEMMA SavedRule ==
    ASSUME TypeOK, LocksHeld, NEW p \in Ops, Save(p)
    PROVE  \E r \in Rules :
              /\ lock[r] \in {p, NoOne}
              /\ \E on \in BOOLEAN : \E c : Store(r, c, on)
              /\ req[p].kind # "edit" => r = req[p].rule /\ lock[r] = p
              /\ req[p].kind = "edit" => byHand' = byHand \union {r}
              /\ req[p].kind # "edit" => byHand' = byHand
<1>1. CASE SaveNew(p)
  <2>1. req[p].form.enabled \in BOOLEAN
    BY <1>1 DEF SaveNew, LocksHeld, Holds, Rows
  <2> QED  BY <1>1, <2>1 DEF SaveNew, LocksHeld, Holds
<1>2. CASE SaveEnabled(p)
  BY <1>2 DEF SaveEnabled, LocksHeld, Holds, Deciding
<1>3. CASE SaveEdit(p)
  <2>1. req[p].form.enabled \in BOOLEAN
    BY <1>3 DEF SaveEdit, LocksHeld, Holds, Rows
  <2> QED  BY <1>3, <2>1 DEF SaveEdit
<1> QED  BY <1>1, <1>2, <1>3 DEF Save

\* A save ends its request and leaves the locked rows of the others alone.
LEMMA SaveHolds ==
    ASSUME TypeOK, LocksHeld, NEW p \in Ops, Save(p)
    PROVE  LocksHeld'
<1> USE RolloutAssumption
<1>1. lock' = Released(p) /\ req' = [req EXCEPT ![p] = Idle]
  BY DEF Save, SaveNew, SaveEnabled, SaveEdit, Finish
<1>2. PICK r \in Rules : lock[r] \in {p, NoOne} /\ \E on \in BOOLEAN : \E c : Store(r, c, on)
  BY SavedRule
<1>3. \A s \in Rules \ {r} : row'[s] = row[s] /\ past'[s] = past[s]
  BY <1>2 DEF Store, TypeOK
<1>4. ASSUME NEW q \in Ops \ {p} PROVE Holds(q)'
  <2>1. lock[r] # q
    BY <1>2
  <2>2. \A s \in Rules : lock[s] = q => row'[s] = row[s] /\ past'[s] = past[s]
    BY <1>3, <2>1
  <2>3. req'[q] = req[q] /\ \A x \in Flags \union Rules : lock[x] = q => lock'[x] = q
    BY <1>1, ReleaseKeeps
  <2> QED  BY <2>2, <2>3, OthersHold DEF LocksHeld
<1> QED  BY <1>1, <1>4, ReleaseKeeps DEF LocksHeld

\* Deletions, the archiving of a flag and an abort spare what requests have locked.
LEMMA OthersKeepLocks ==
    ASSUME TypeOK, LocksHeld,
           \/ \E p \in Ops : AbortDeadlocked(p)
           \/ \E r \in Rules : DeleteRule(r)
           \/ \E g \in Groups : DeleteGroup(g)
           \/ \E f \in Flags : Archive(f)
    PROVE  LocksHeld'
<1> USE RolloutAssumption
<1>1. CASE \E p \in Ops : AbortDeadlocked(p)
  BY <1>1, RefuseHolds DEF AbortDeadlocked
<1>2. CASE \E r \in Rules : DeleteRule(r)
  <2>1. PICK r \in Rules : lock[r] = NoOne /\ DeleteRule(r)
    BY <1>2 DEF DeleteRule
  <2>2. UNCHANGED <<lock, req>> /\ \A s \in Rules \ {r} : row'[s] = row[s] /\ past'[s] = past[s]
    BY <2>1 DEF DeleteRule, TypeOK
  <2>3. ASSUME NEW q \in Ops PROVE Holds(q)'
    BY <2>1, <2>2, OthersHold DEF LocksHeld
  <2> QED  BY <2>3 DEF LocksHeld
<1>3. CASE \E g \in Groups : DeleteGroup(g)
  BY <1>3, OthersHold DEF DeleteGroup, LocksHeld
<1>4. CASE \E f \in Flags : Archive(f)
  BY <1>4, OthersHold DEF Archive, LocksHeld
<1> QED  BY <1>1, <1>2, <1>3, <1>4

\* Every step leaves the requests the locks that they need.
LEMMA NextLocks ==
    ASSUME TypeOK, LocksHeld, Next
    PROVE  LocksHeld'
  BY PostHolds, LockFlagHolds, LockRuleHolds, DecideHolds, SaveHolds, OthersKeepLocks DEF Next
-----------------------------------------------------------------------------
(* What a step writes *)

ReqsKept(p) == \A q \in Ops \ {p} : req'[q] = req[q]

RowsKept(r) == \A s \in Rules \ {r} : row'[s] = row[s] /\ past'[s] = past[s]

\* A step that writes no rule, one that writes a new rule or a guided rule under the locks
\* of its request, and one that makes a rule a matter of byHand.
WritesNone == UNCHANGED <<row, past, byHand>>

WritesNew(p) ==
    LET r == req[p].rule IN
    /\ r \in Rules /\ lock[r] = p /\ lock[req[p].flag] = p /\ req[p].flag \in Flags
    /\ Fresh(r) /\ req[p].form \in Rows /\ req[p].form.content.flag = req[p].flag
    /\ row'[r] = req[p].form
    /\ past'[r] = IF req[p].form.enabled THEN "other" ELSE "draft"
    /\ RowsKept(r) /\ UNCHANGED <<active, groups, byHand>>
    /\ req[p].kind = "create" /\ req[p].stage = "save"
    /\ ReqsKept(p) /\ req'[p] = Idle

WritesEnabled(p) ==
    LET r == req[p].rule IN
    /\ r \in Rules /\ lock[r] = p /\ lock[req[p].flag] = p /\ req[p].flag \in Flags
    /\ Exists(r)
    /\ row'[r] = [content |-> row[r].content, enabled |-> req[p].kind = "start"]
    /\ past'[r] = Recorded(past[r], req[p].kind = "start")
    /\ RowsKept(r) /\ UNCHANGED <<active, groups, byHand>>
    /\ req[p].kind \in {"start", "stop"} /\ req[p].stage = "save"
    /\ ReqsKept(p) /\ req'[p] = Idle

WritesByHand(r) ==
    /\ r \in Rules /\ lock[r] = NoOne
    /\ RowsKept(r) /\ byHand' = byHand \union {r}
    /\ UNCHANGED <<active, groups>>
    /\ \A q \in Ops : req'[q] = req[q] \/ req'[q] = Idle

\* The three saves write what their names say.
LEMMA SaveWrites ==
    ASSUME TypeOK, LocksHeld, NEW p \in Ops, Save(p)
    PROVE  WritesNew(p) \/ WritesEnabled(p) \/ \E r \in Rules : WritesByHand(r)
<1>0. /\ ReqsKept(p) /\ req'[p] = Idle /\ Holds(p)
  BY DEF Save, SaveNew, SaveEnabled, SaveEdit, Finish, TypeOK, ReqsKept, LocksHeld
<1>1. CASE SaveNew(p)
  <2>1. /\ req[p].rule \in Rules /\ lock[req[p].rule] = p /\ Fresh(req[p].rule)
        /\ req[p].form \in Rows /\ req[p].form.content.flag = req[p].flag
        /\ req[p].flag \in Flags /\ lock[req[p].flag] = p
        /\ req[p].kind = "create" /\ req[p].stage = "save"
    BY <1>0, <1>1 DEF SaveNew, Holds, Deciding
  <2>2. req[p].form = [content |-> req[p].form.content, enabled |-> req[p].form.enabled]
    BY <2>1 DEF Rows
  <2>3. row'[req[p].rule] = req[p].form /\ RowsKept(req[p].rule)
    BY <1>1, <2>1, <2>2 DEF SaveNew, Store, RowsKept, TypeOK
  <2>4. past'[req[p].rule] = IF req[p].form.enabled THEN "other" ELSE "draft"
    BY <1>1, <2>1 DEF SaveNew, Store, TypeOK, Fresh, Recorded
  <2>5. UNCHANGED <<active, groups, byHand>>
    BY <1>1 DEF SaveNew
  <2> QED  BY <1>0, <2>1, <2>3, <2>4, <2>5 DEF WritesNew
<1>2. CASE SaveEnabled(p)
  <2>1. /\ req[p].rule \in Rules /\ lock[req[p].rule] = p /\ Exists(req[p].rule)
        /\ req[p].flag \in Flags /\ lock[req[p].flag] = p
        /\ req[p].kind \in {"start", "stop"} /\ req[p].stage = "save"
    BY <1>0, <1>2 DEF SaveEnabled, Holds, Deciding
  <2>2. /\ row'[req[p].rule] = [content |-> row[req[p].rule].content,
                                enabled |-> req[p].kind = "start"]
        /\ RowsKept(req[p].rule)
    BY <1>2, <2>1 DEF SaveEnabled, Store, RowsKept, TypeOK
  <2>3. past'[req[p].rule] = Recorded(past[req[p].rule], req[p].kind = "start")
    BY <1>2, <2>1 DEF SaveEnabled, Store, TypeOK
  <2>4. UNCHANGED <<active, groups, byHand>>
    BY <1>2 DEF SaveEnabled
  <2> QED  BY <1>0, <2>1, <2>2, <2>3, <2>4 DEF WritesEnabled
<1>3. CASE SaveEdit(p)
  <2>1. PICK r \in Rules : /\ lock[r] = NoOne /\ byHand' = byHand \union {r}
                           /\ Store(r, req[p].form.content, req[p].form.enabled)
    BY <1>3 DEF SaveEdit
  <2>2. RowsKept(r)
    BY <2>1 DEF Store, RowsKept, TypeOK
  <2>3. \A q \in Ops : req'[q] = req[q] \/ req'[q] = Idle
    BY <1>0 DEF ReqsKept
  <2>4. UNCHANGED <<active, groups>>
    BY <1>3 DEF SaveEdit
  <2> QED  BY <2>1, <2>2, <2>3, <2>4 DEF WritesByHand
<1> QED  BY <1>1, <1>2, <1>3 DEF Save

\* Every step writes nothing or what one of the saves, or a deletion, writes.
LEMMA StepWrites ==
    ASSUME TypeOK, LocksHeld, Next
    PROVE  \/ WritesNone
           \/ \E p \in Ops : WritesNew(p) \/ WritesEnabled(p)
           \/ \E r \in Rules : WritesByHand(r)
<1>1. CASE \E p \in Ops :
               Post(p) \/ LockFlag(p) \/ LockRule(p) \/ Decide(p) \/ AbortDeadlocked(p)
  <2>1. PICK p \in Ops : Post(p) \/ LockFlag(p) \/ LockRule(p) \/ Decide(p) \/ AbortDeadlocked(p)
    BY <1>1
  <2>2. CASE Post(p)
    BY <2>2 DEF Post, PostCreate, PostStart, PostStop, PostEdit, Begin, WritesNone
  <2>3. CASE LockFlag(p)
    BY <2>3 DEF LockFlag, WritesNone
  <2>4. CASE LockRule(p)
    BY <2>4 DEF LockRule, Refuse, WritesNone
  <2>5. CASE CreateCheck(p)
    BY <2>5 DEF CreateCheck, Refuse, WritesNone
  <2>6. CASE StartCheck(p) \/ StopCheck(p)
    BY <2>6 DEF StartCheck, StopCheck, Refuse, WritesNone
  <2>7. CASE AbortDeadlocked(p)
    BY <2>7 DEF AbortDeadlocked, Refuse, WritesNone
  <2> QED  BY <2>1, <2>2, <2>3, <2>4, <2>5, <2>6, <2>7 DEF Decide
<1>2. CASE \E p \in Ops : Save(p)
  BY <1>2, SaveWrites
<1>3. CASE \E r \in Rules : DeleteRule(r)
  <2>1. PICK r \in Rules : DeleteRule(r)
    BY <1>3
  <2>2. RowsKept(r)
    BY <2>1 DEF DeleteRule, RowsKept, TypeOK
  <2> QED  BY <2>1, <2>2 DEF DeleteRule, WritesByHand
<1>4. CASE (\E g \in Groups : DeleteGroup(g)) \/ (\E f \in Flags : Archive(f))
  BY <1>4 DEF DeleteGroup, Archive, WritesNone
<1> QED  BY <1>1, <1>2, <1>3, <1>4 DEF Next

\* The history tells the truth about the rules of the console.
LEMMA NextHistory ==
    ASSUME TypeOK, LocksHeld, HistoryTrue, Next
    PROVE  HistoryTrue'
<1> USE RolloutAssumption
<1>1. CASE WritesNone
  BY <1>1 DEF WritesNone, HistoryTrue, Exists
<1>2. ASSUME NEW p \in Ops, WritesNew(p) PROVE HistoryTrue'
  <2>1. req[p].form # NoRule
    BY <1>2 DEF WritesNew
  <2> QED  BY <1>2, <2>1 DEF WritesNew, HistoryTrue, Exists, RowsKept
<1>3. ASSUME NEW p \in Ops, WritesEnabled(p) PROVE HistoryTrue'
  <2> DEFINE r == req[p].rule
  <2>1. r \in Rules /\ Exists(r) /\ row[r] \in Rows
    BY <1>3 DEF WritesEnabled, TypeOK, Exists
  <2>2. row'[r] \in Rows /\ row'[r].enabled = (req[p].kind = "start")
    BY <1>3, <2>1 DEF WritesEnabled, Rows
  <2>3. row'[r] # NoRule
    BY <2>2
  <2>4. r \notin byHand => past'[r] # "none" /\ (req[p].kind = "start" => past'[r] = "other")
    BY <1>3, <2>1 DEF WritesEnabled, HistoryTrue, Recorded
  <2>5. \A s \in Rules \ {r} : row'[s] = row[s] /\ past'[s] = past[s]
    BY <1>3 DEF WritesEnabled, RowsKept
  <2>6. byHand' = byHand
    BY <1>3 DEF WritesEnabled
  <2> HIDE DEF r
  <2>7. ASSUME NEW s \in Rules \ byHand
        PROVE  /\ row'[s] = NoRule <=> past'[s] = "none"
               /\ row'[s] # NoRule => (row'[s].enabled => past'[s] = "other")
    <3>1. CASE s = r
      BY <2>2, <2>3, <2>4, <3>1
    <3>2. CASE s # r
      BY <2>5, <3>2 DEF HistoryTrue, Exists
    <3> QED  BY <3>1, <3>2
  <2> QED  BY <2>6, <2>7 DEF HistoryTrue, Exists
<1>4. ASSUME NEW r \in Rules, WritesByHand(r) PROVE HistoryTrue'
  BY <1>4 DEF WritesByHand, HistoryTrue, Exists, RowsKept
<1> QED  BY <1>1, <1>2, <1>3, <1>4, StepWrites
\* No step takes a guided rule from a request that has looked it up, or changes its content.
LEMMA StepKeepsContent ==
    ASSUME TypeOK, LocksHeld, Next
    PROVE  /\ byHand \subseteq byHand'
           /\ \A s \in Rules \ byHand' :
                  Exists(s) => row'[s] # NoRule /\ row'[s].content = row[s].content
<1> USE RolloutAssumption
<1>1. CASE WritesNone
  BY <1>1 DEF WritesNone, Exists
<1>2. ASSUME NEW p \in Ops, WritesNew(p)
      PROVE  /\ byHand \subseteq byHand'
             /\ \A s \in Rules \ byHand' :
                    Exists(s) => row'[s] # NoRule /\ row'[s].content = row[s].content
  BY <1>2 DEF WritesNew, RowsKept, Exists, Fresh
<1>3. ASSUME NEW p \in Ops, WritesEnabled(p)
      PROVE  /\ byHand \subseteq byHand'
             /\ \A s \in Rules \ byHand' :
                    Exists(s) => row'[s] # NoRule /\ row'[s].content = row[s].content
  <2> DEFINE r == req[p].rule
  <2>1. r \in Rules /\ row[r] \in Rows
    BY <1>3 DEF WritesEnabled, TypeOK, Exists
  <2>2. row'[r] \in Rows /\ row'[r].content = row[r].content
    BY <1>3, <2>1 DEF WritesEnabled, Rows
  <2>3. \A s \in Rules \ {r} : row'[s] = row[s]
    BY <1>3 DEF WritesEnabled, RowsKept
  <2>4. byHand' = byHand
    BY <1>3 DEF WritesEnabled
  <2> HIDE DEF r
  <2> QED  BY <2>1, <2>2, <2>3, <2>4 DEF Exists
<1>4. ASSUME NEW r \in Rules, WritesByHand(r)
      PROVE  /\ byHand \subseteq byHand'
             /\ \A s \in Rules \ byHand' :
                    Exists(s) => row'[s] # NoRule /\ row'[s].content = row[s].content
  BY <1>4 DEF WritesByHand, RowsKept, Exists
<1> QED  BY <1>1, <1>2, <1>3, <1>4, StepWrites

\* A request that a step leaves alone, or ends, still knows the flag of its rule.
LEMMA KnownKept ==
    ASSUME TypeOK, LocksHeld, FlagKnown, Next, NEW q \in Ops,
           req'[q] = req[q] \/ req'[q] = Idle
    PROVE  Known(q)'
<1>1. CASE req'[q] = Idle
  BY <1>1 DEF Known, Idle
<1>2. CASE req'[q] = req[q] /\ req[q].kind \in {"start", "stop"}
  <2>1. req[q].rule \in Rules
    BY <1>2 DEF LocksHeld, Holds
  <2>2. Known(q)
    BY DEF FlagKnown
  <2>3. byHand \subseteq byHand'
        /\ (req[q].rule \notin byHand' /\ Exists(req[q].rule)
               => row'[req[q].rule] # NoRule
                  /\ row'[req[q].rule].content = row[req[q].rule].content)
    BY <2>1, StepKeepsContent
  <2> QED  BY <1>2, <2>2, <2>3 DEF Known, Exists
<1>3. CASE req'[q] = req[q] /\ req[q].kind \notin {"start", "stop"}
  BY <1>3 DEF Known
<1> QED  BY <1>1, <1>2, <1>3

\* Every step keeps FlagKnown.
LEMMA NextKnown ==
    ASSUME TypeOK, LocksHeld, FlagKnown, Next
    PROVE  FlagKnown'
<1> USE RolloutAssumption
<1>1. ASSUME NEW p \in Ops, Post(p) PROVE FlagKnown'
  <2>1. UNCHANGED <<row, byHand>> /\ ReqsKept(p)
    BY <1>1 DEF Post, PostCreate, PostStart, PostStop, PostEdit, Begin, ReqsKept, TypeOK
  <2>2. \/ req'[p].kind \in {"create", "edit"}
        \/ /\ Exists(req'[p].rule)
           /\ req'[p].flag # NoFlag => req'[p].flag = row[req'[p].rule].content.flag
    <3>1. CASE PostCreate(p)
      BY <3>1 DEF PostCreate, Begin, TypeOK
    <3>2. CASE PostStart(p)
      BY <3>2 DEF PostStart, Begin, TypeOK
    <3>3. CASE PostStop(p)
      BY <3>3 DEF PostStop, Begin, TypeOK
    <3>4. CASE PostEdit(p)
      BY <3>4 DEF PostEdit, Begin, TypeOK
    <3> QED  BY <1>1, <3>1, <3>2, <3>3, <3>4 DEF Post
  <2>3. Known(p)'
    BY <2>1, <2>2 DEF Known, Exists
  <2> QED  BY <2>1, <2>3, KnownKept DEF FlagKnown, ReqsKept
<1>2. ASSUME NEW p \in Ops, LockFlag(p) \/ StartCheck(p) \/ StopCheck(p) PROVE FlagKnown'
  <2>1. /\ ReqsKept(p) /\ UNCHANGED <<row, byHand>>
        /\ \/ req'[p] = Idle
           \/ \E s : req' = [req EXCEPT ![p].stage = s]
    BY <1>2 DEF LockFlag, StartCheck, StopCheck, Refuse, Goto, ReqsKept, TypeOK
  <2>2. CASE req'[p] = Idle
    BY <2>1, <2>2, KnownKept DEF FlagKnown, ReqsKept
  <2>3. CASE \E s : req' = [req EXCEPT ![p].stage = s]
    <3>1. /\ req'[p].kind = req[p].kind /\ req'[p].rule = req[p].rule
          /\ req'[p].flag = req[p].flag
      BY <2>3 DEF TypeOK, Requests
    <3>2. Known(p)'
      BY <2>1, <3>1 DEF FlagKnown, Known, Exists
    <3> QED  BY <2>1, <3>2, KnownKept DEF FlagKnown, ReqsKept
  <2> QED  BY <2>1, <2>2, <2>3
<1>3. ASSUME NEW p \in Ops, LockRule(p) PROVE FlagKnown'
  <2>1. CASE req'[p] = Idle
    <3>1. ReqsKept(p)
      BY <1>3 DEF LockRule, Refuse, Goto, ReqsKept, TypeOK
    <3> QED  BY <2>1, <3>1, KnownKept DEF FlagKnown, ReqsKept
  <2>2. CASE req'[p] # Idle
    <3>1. /\ ReqsKept(p) /\ UNCHANGED <<row, byHand>> /\ Exists(req[p].rule)
      BY <1>3, <2>2 DEF LockRule, Refuse, Goto, ReqsKept, TypeOK
    <3>2. req[p] \in Requests
      BY DEF TypeOK
    <3>3. CASE req[p].kind = "start"
      <4>1. req' = [req EXCEPT ![p].stage = "check"]
        BY <1>3, <3>1, <3>3 DEF LockRule, Goto
      <4>2. /\ req'[p].kind = req[p].kind /\ req'[p].rule = req[p].rule
            /\ req'[p].flag = req[p].flag
        BY <4>1 DEF TypeOK, Requests
      <4>3. Known(p)'
        BY <3>1, <4>2 DEF FlagKnown, Known, Exists
      <4> QED  BY <3>1, <4>3, KnownKept DEF FlagKnown, ReqsKept
    <3>4. CASE req[p].kind # "start"
      <4>1. req' = [req EXCEPT ![p] = [req[p] EXCEPT !.stage = "lock_flag",
                                              !.flag = row[req[p].rule].content.flag]]
        BY <1>3, <3>1, <3>4 DEF LockRule
      <4>2. req'[p].rule = req[p].rule /\ req'[p].flag = row[req[p].rule].content.flag
        BY <3>2, <4>1 DEF TypeOK, Requests
      <4>3. Known(p)'
        BY <3>1, <4>2 DEF Known, Exists
      <4> QED  BY <3>1, <4>3, KnownKept DEF FlagKnown, ReqsKept
    <3> QED  BY <3>3, <3>4
  <2> QED  BY <2>1, <2>2
<1>4. ASSUME NEW p \in Ops, CreateCheck(p) PROVE FlagKnown'
  <2>1. ReqsKept(p) /\ (req'[p] = Idle \/ req'[p].kind = "create")
    <3>1. req[p] \in Requests
      BY DEF TypeOK
    <3>2. CASE Refuse(p)
      BY <3>2 DEF Refuse, ReqsKept, TypeOK
    <3>3. CASE ~Refuse(p)
      <4>1. PICK r \in Rules :
                req' = [req EXCEPT ![p] = [req[p] EXCEPT !.stage = "save", !.rule = r]]
        BY <1>4, <3>3 DEF CreateCheck
      <4>2. req[p].kind = "create"
        BY <1>4 DEF CreateCheck
      <4> QED  BY <3>1, <4>1, <4>2 DEF ReqsKept, TypeOK, Requests
    <3> QED  BY <3>2, <3>3
  <2>2. Known(p)'
    BY <2>1, KnownKept DEF Known
  <2> QED  BY <2>1, <2>2, KnownKept DEF FlagKnown, ReqsKept
<1>5. ASSUME NEW p \in Ops, Save(p) \/ AbortDeadlocked(p) PROVE FlagKnown'
  <2>1. ReqsKept(p) /\ req'[p] = Idle
    BY <1>5 DEF Save, SaveNew, SaveEnabled, SaveEdit, Finish, AbortDeadlocked, Refuse, ReqsKept,
                TypeOK
  <2> QED  BY <2>1, KnownKept DEF FlagKnown, ReqsKept
<1>6. CASE \/ \E r \in Rules : DeleteRule(r)
           \/ \E g \in Groups : DeleteGroup(g)
           \/ \E f \in Flags : Archive(f)
  BY <1>6, KnownKept DEF DeleteRule, DeleteGroup, Archive, FlagKnown
<1> QED  BY <1>1, <1>2, <1>3, <1>4, <1>5, <1>6 DEF Next, Decide
-----------------------------------------------------------------------------
(* Checks *)

\* The flag that a request has locked is not archived.
LEMMA LockedStaysActive ==
    ASSUME TypeOK, LocksHeld, Next, NEW f \in Flags, lock[f] \in Ops, active[f]
    PROVE  active'[f]
<1> USE RolloutAssumption
<1>1. CASE \E p \in Ops :
               Post(p) \/ LockFlag(p) \/ LockRule(p) \/ Decide(p) \/ AbortDeadlocked(p)
  BY <1>1 DEF Post, PostCreate, PostStart, PostStop, PostEdit, Begin, LockFlag, LockRule, Decide,
              CreateCheck, StartCheck, StopCheck, AbortDeadlocked
<1>2. CASE \E p \in Ops : Save(p)
  BY <1>2 DEF Save, SaveNew, SaveEnabled, SaveEdit
<1>3. CASE (\E r \in Rules : DeleteRule(r)) \/ (\E g \in Groups : DeleteGroup(g))
  BY <1>3 DEF DeleteRule, DeleteGroup
<1>4. CASE \E g \in Flags : Archive(g)
  <2>1. PICK g \in Flags : lock[g] = NoOne /\ active' = [active EXCEPT ![g] = FALSE]
    BY <1>4 DEF Archive
  <2> QED  BY <2>1 DEF TypeOK
<1> QED  BY <1>1, <1>2, <1>3, <1>4 DEF Next

\* The groups of a draft that is about to be started are not deleted.
LEMMA LockedGroupsStay ==
    ASSUME TypeOK, LocksHeld, Next, NEW q \in Ops, req[q].kind = "start", req[q].stage = "save",
           row[req[q].rule].content.groups \subseteq groups
    PROVE  row[req[q].rule].content.groups \subseteq groups'
<1>1. CASE UNCHANGED groups
  BY <1>1
<1>2. CASE \E g \in Groups : DeleteGroup(g)
  BY <1>2 DEF DeleteGroup, LockedGroups
<1>3. CASE \E p \in Ops :
               Post(p) \/ LockFlag(p) \/ LockRule(p) \/ Decide(p) \/ AbortDeadlocked(p)
  BY <1>1, <1>3 DEF Post, PostCreate, PostStart, PostStop, PostEdit, Begin, LockFlag, LockRule,
                    Decide, CreateCheck, StartCheck, StopCheck, AbortDeadlocked
<1>4. CASE \E p \in Ops : Save(p)
  BY <1>1, <1>4 DEF Save, SaveNew, SaveEnabled, SaveEdit
<1>5. CASE (\E r \in Rules : DeleteRule(r)) \/ (\E f \in Flags : Archive(f))
  BY <1>1, <1>5 DEF DeleteRule, Archive
<1> QED  BY <1>2, <1>3, <1>4, <1>5 DEF Next

\* What others write while a request holds its locks: not the rules it has locked, and no
\* guided rule of the flag it has locked.
LEMMA OthersWrite ==
    ASSUME TypeOK, LocksHeld, FlagKnown, Next,
           NEW q \in Ops, req'[q] = req[q], req[q].stage # "idle", NEW s \in Rules,
           row'[s] # row[s] \/ past'[s] # past[s]
    PROVE  /\ lock[s] # q
           /\ s \notin byHand' =>
                 \A f \in Flags : lock[f] = q => row'[s] # NoRule /\ row'[s].content.flag # f
<1> USE RolloutAssumption
<1> DEFINE Goal == /\ lock[s] # q
                   /\ s \notin byHand' =>
                         \A f \in Flags : lock[f] = q => row'[s] # NoRule
                                                         /\ row'[s].content.flag # f
<1>1. CASE WritesNone
  BY <1>1 DEF WritesNone
<1>2. ASSUME NEW p \in Ops, WritesNew(p) PROVE Goal
  <2>1. p # q
    BY <1>2 DEF WritesNew, Idle
  <2>2. s = req[p].rule
    BY <1>2 DEF WritesNew, RowsKept
  <2>3. row'[s] = req[p].form /\ req[p].form # NoRule /\ req[p].form.content.flag = req[p].flag
        /\ lock[s] = p /\ lock[req[p].flag] = p
    BY <1>2, <2>2 DEF WritesNew
  <2> QED  BY <2>1, <2>3
<1>3. ASSUME NEW p \in Ops, WritesEnabled(p) PROVE Goal
  <2>1. p # q
    BY <1>3 DEF WritesEnabled, Idle
  <2>2. s = req[p].rule
    BY <1>3 DEF WritesEnabled, RowsKept
  <2>3. row[s] \in Rows /\ row'[s] = [content |-> row[s].content, enabled |-> req[p].kind = "start"]
        /\ lock[s] = p /\ lock[req[p].flag] = p /\ req[p].flag # NoFlag /\ byHand' = byHand
        /\ req[p].kind \in {"start", "stop"}
    BY <1>3, <2>2 DEF WritesEnabled, TypeOK, Exists
  <2>4. row'[s] \in Rows /\ row'[s].content = row[s].content
    BY <2>3 DEF Rows
  <2>5. s \notin byHand => row[s].content.flag = req[p].flag
    BY <2>2, <2>3 DEF FlagKnown, Known
  <2> QED  BY <2>1, <2>3, <2>4, <2>5
<1>4. ASSUME NEW r \in Rules, WritesByHand(r) PROVE Goal
  BY <1>4 DEF WritesByHand, RowsKept
<1> QED  BY <1>1, <1>2, <1>3, <1>4, StepWrites

\* So the rollouts that a request has seen are still all that it must not overlap.
LEMMA SeenStaysTrue ==
    ASSUME TypeOK, LocksHeld, FlagKnown, Next,
           NEW q \in Ops, req'[q] = req[q], req[q].stage # "idle",
           NEW c, c.flag \in Flags, lock[c.flag] = q, NEW e
    PROVE  /\ Conflicts(c, e) \subseteq byHand => Conflicts(c, e)' \subseteq byHand'
           /\ ReusableDrafts(c) \subseteq byHand => ReusableDrafts(c)' \subseteq byHand'
<1>0. byHand \subseteq byHand'
  BY StepKeepsContent
<1>1. ASSUME Conflicts(c, e) \subseteq byHand, NEW s \in Conflicts(c, e)', s \notin byHand'
      PROVE  FALSE
  <2>1. s \in Rules /\ row'[s] # NoRule /\ row'[s].content.flag = c.flag
    BY <1>1 DEF Conflicts, Running, Exists
  <2>2. row'[s] = row[s]
    BY <1>1, <2>1, OthersWrite
  <2>3. s \in Conflicts(c, e)
    BY <1>1, <2>2 DEF Conflicts, Running, Exists
  <2> QED  BY <1>0, <1>1, <2>3
<1>2. ASSUME ReusableDrafts(c) \subseteq byHand, NEW s \in ReusableDrafts(c)', s \notin byHand'
      PROVE  FALSE
  <2>1. s \in Rules /\ row'[s] = [content |-> c, enabled |-> FALSE]
    BY <1>2 DEF ReusableDrafts, Twins
  <2>2. row'[s].content.flag = c.flag
    BY <2>1
  <2>3. row'[s] = row[s] /\ past'[s] = past[s]
    BY <1>2, <2>1, <2>2, OthersWrite
  <2>4. s \in ReusableDrafts(c)
    BY <1>2, <2>3 DEF ReusableDrafts, Twins, NeverStartedDraft, Exists
  <2> QED  BY <1>0, <1>2, <2>4
<1> QED  BY <1>1, <1>2
\* What a request has checked stays true while another step happens.
LEMMA CheckedKept ==
    ASSUME TypeOK, LocksHeld, FlagKnown, ChecksHold, Next, NEW q \in Ops,
           req'[q] = req[q] \/ req'[q] = Idle
    PROVE  Checked(q)'
<1> USE RolloutAssumption
<1>1. CASE req'[q] = Idle
  BY <1>1 DEF Checked, Idle
<1>2. CASE req'[q] = req[q] /\ req[q].stage # "save"
  BY <1>2 DEF Checked
<1>3. CASE /\ req'[q] = req[q] /\ req[q].stage = "save"
           /\ req[q].kind \notin {"create", "start", "stop"}
  BY <1>3 DEF Checked
<1>4. CASE req'[q] = req[q] /\ req[q].stage = "save" /\ req[q].kind = "create"
  <2> DEFINE c == req[q].form.content
  <2>1. /\ lock[req[q].flag] = q /\ req[q].flag \in Flags /\ c.flag = req[q].flag
    BY <1>4 DEF LocksHeld, Holds, Deciding
  <2>2. active'[req[q].flag]
    BY <1>4, <2>1, LockedStaysActive DEF ChecksHold, Checked
  <2>3. req[q].form.enabled => Conflicts(c, NoRule) \subseteq byHand
    BY <1>4 DEF ChecksHold, Checked, Unconflicted
  <2>4. ~req[q].form.enabled => ReusableDrafts(c) \subseteq byHand
    BY <1>4 DEF ChecksHold, Checked
  <2> HIDE DEF c
  <2>5. \A d : d = c => /\ Conflicts(d, NoRule) \subseteq byHand
                              => Conflicts(d, NoRule)' \subseteq byHand'
                        /\ ReusableDrafts(d) \subseteq byHand
                              => ReusableDrafts(d)' \subseteq byHand'
    BY <1>4, <2>1, SeenStaysTrue
  <2>6. /\ req[q].form.enabled => Conflicts(req[q].form.content, NoRule)' \subseteq byHand'
        /\ ~req[q].form.enabled => ReusableDrafts(req[q].form.content)' \subseteq byHand'
    <3>1. req'[q].form.content = c
      BY <1>4 DEF c
    <3> QED  BY <2>3, <2>4, <2>5, <3>1 DEF c
  <2> QED  BY <1>4, <2>2, <2>6 DEF Checked, Unconflicted
<1>5. CASE req'[q] = req[q] /\ req[q].stage = "save" /\ req[q].kind = "stop"
  <2>1. req[q].rule \in Rules /\ lock[req[q].rule] = q /\ row[req[q].rule].enabled
    BY <1>5 DEF LocksHeld, Holds, Deciding, ChecksHold, Checked
  <2>2. row'[req[q].rule] = row[req[q].rule]
    BY <1>5, <2>1, OthersWrite
  <2> QED  BY <1>5, <2>1, <2>2 DEF Checked
<1>6. CASE /\ req'[q] = req[q] /\ req[q].stage = "save" /\ req[q].kind = "start"
           /\ req[q].rule \notin byHand'
  <2> DEFINE r == req[q].rule
             c == row[r].content
  <2>0. byHand \subseteq byHand' /\ r \notin byHand
    BY <1>6, StepKeepsContent
  <2>1. /\ r \in Rules /\ lock[r] = q
        /\ ~row[r].enabled /\ NeverStartedDraft(r) /\ active[req[q].flag]
        /\ c.audience = "group" => c.groups \subseteq groups
        /\ Conflicts(c, r) \subseteq byHand
    BY <1>6, <2>0 DEF LocksHeld, Holds, Deciding, ChecksHold, Checked, Unconflicted
  <2>2. /\ lock[req[q].flag] = q /\ req[q].flag \in Flags /\ req[q].flag # NoFlag
        /\ c.flag = req[q].flag
    BY <1>6, <2>0 DEF LocksHeld, Holds, Deciding, FlagKnown, Known
  <2>3. active'[req[q].flag]
    BY <2>1, <2>2, LockedStaysActive
  <2>4. row'[r] = row[r] /\ past'[r] = past[r]
    BY <1>6, <2>1, OthersWrite
  <2>5. c.audience = "group" => c.groups \subseteq groups'
    BY <1>6, <2>1, LockedGroupsStay
  <2>6. /\ row'[req'[q].rule].content = c /\ ~row'[req'[q].rule].enabled
        /\ past'[req'[q].rule] = "draft" /\ req'[q].flag = req[q].flag /\ req'[q].rule = r
    BY <1>6, <2>1, <2>4 DEF NeverStartedDraft
  <2> HIDE DEF r, c
  <2>7. \A d, e : d = c /\ e = r => (Conflicts(d, e) \subseteq byHand
                                        => Conflicts(d, e)' \subseteq byHand')
    BY <1>6, <2>2, SeenStaysTrue
  <2>8. Unconflicted(row[req[q].rule].content, req[q].rule)'
    BY <2>1, <2>6, <2>7 DEF Unconflicted
  <2> QED  BY <1>6, <2>3, <2>5, <2>6, <2>8 DEF Checked, NeverStartedDraft
<1>7. CASE /\ req'[q] = req[q] /\ req[q].stage = "save" /\ req[q].kind = "start"
           /\ req[q].rule \in byHand'
  BY <1>7 DEF Checked
<1> QED  BY <1>1, <1>2, <1>3, <1>4, <1>5, <1>6, <1>7

\* The checks establish what the saves rely on.
LEMMA DecideChecks ==
    ASSUME TypeOK, LocksHeld, FlagKnown, ChecksHold, NEW p \in Ops, Decide(p)
    PROVE  Checked(p)'
<1> USE RolloutAssumption
<1>0. req[p] \in Requests
  BY DEF TypeOK
<1>1. CASE Refuse(p)
  BY <1>1 DEF Refuse, Checked, Idle, TypeOK
<1>2. CASE ~Refuse(p) /\ CreateCheck(p)
  <2>1. /\ UNCHANGED <<row, past, byHand, active, groups>>
        /\ \E r \in Rules :
              req' = [req EXCEPT ![p] = [req[p] EXCEPT !.stage = "save", !.rule = r]]
        /\ req[p].kind = "create" /\ CreateAllowed(req[p].form)
        /\ ~req[p].form.enabled
              => Twins(req[p].form.content) \intersect ReusableDrafts(req[p].form.content) = {}
    BY <1>2 DEF CreateCheck
  <2>2. /\ req'[p].kind = "create" /\ req'[p].stage = "save" /\ req'[p].form = req[p].form
        /\ req'[p].flag = req[p].flag
    BY <1>0, <2>1 DEF TypeOK, Requests
  <2>3. req[p].form.content.flag = req[p].flag
    BY <2>1 DEF LocksHeld, Holds
  <2>4. active'[req[p].flag]
    BY <2>1, <2>3 DEF CreateAllowed
  <2>5. req[p].form.enabled => Unconflicted(req[p].form.content, NoRule)'
    BY <2>1, <2>2 DEF CreateAllowed, Unconflicted, Conflicts, Running, Exists
  <2>6. ~req[p].form.enabled => ReusableDrafts(req[p].form.content)' \subseteq byHand'
    BY <2>1, <2>2 DEF ReusableDrafts, Twins, Exists, NeverStartedDraft
  <2> QED  BY <2>2, <2>4, <2>5, <2>6 DEF Checked
<1>3. CASE ~Refuse(p) /\ StartCheck(p)
  <2> DEFINE r == req[p].rule
  <2>1. /\ UNCHANGED <<row, past, byHand, active, groups>>
        /\ req' = [req EXCEPT ![p].stage = "save"] /\ req[p].kind = "start"
        /\ StartAllowed(r, req[p].flag)
    BY <1>3 DEF StartCheck, Goto
  <2>2. /\ req'[p].kind = "start" /\ req'[p].stage = "save" /\ req'[p].rule = r
        /\ req'[p].flag = req[p].flag
    BY <1>0, <2>1 DEF TypeOK, Requests
  <2>3. ASSUME r \notin byHand
        PROVE  /\ ~row[r].enabled /\ NeverStartedDraft(r) /\ active[req[p].flag]
               /\ row[r].content.audience = "group" => row[r].content.groups \subseteq groups
               /\ Conflicts(row[r].content, r) = {}
    <3>1. r \in Rules /\ Exists(r) /\ req[p].flag \in Flags
      BY <1>3 DEF StartCheck, LocksHeld, Holds, Deciding
    <3>2. row[r].content.flag = req[p].flag
      BY <2>1, <2>3, <3>1 DEF FlagKnown, Known
    <3>3. row[r].content \in Contents
      BY <3>1 DEF TypeOK, Exists, Rows
    <3>4. [row[r].content EXCEPT !.flag = req[p].flag] = row[r].content
      BY <3>2, <3>3 DEF Contents
    <3> QED  BY <2>1, <3>4 DEF StartAllowed
  <2> HIDE DEF r
  <2>4. r \notin byHand => Conflicts(row[r].content, r)' = {}
    <3>1. r' = r
      BY <2>2 DEF r
    <3> QED  BY <2>1, <2>3, <3>1 DEF Conflicts, Running, Exists
  <2>5. req'[p].rule \notin byHand' => Unconflicted(row[req[p].rule].content, req[p].rule)'
    BY <2>1, <2>2, <2>4 DEF Unconflicted, r
  <2>6. /\ req'[p].rule \notin byHand'
              => /\ ~row'[req'[p].rule].enabled /\ past'[req'[p].rule] = "draft"
                 /\ active'[req'[p].flag]
                 /\ row'[req'[p].rule].content.audience = "group"
                        => row'[req'[p].rule].content.groups \subseteq groups'
    BY <2>1, <2>2, <2>3 DEF NeverStartedDraft
  <2> QED  BY <2>2, <2>5, <2>6 DEF Checked, NeverStartedDraft
<1>4. CASE ~Refuse(p) /\ StopCheck(p)
  <2>1. /\ UNCHANGED row /\ req[p].kind = "stop" /\ row[req[p].rule].enabled
        /\ req' = [req EXCEPT ![p].stage = "save"]
    BY <1>4 DEF StopCheck, Goto
  <2>2. req'[p].kind = "stop" /\ req'[p].rule = req[p].rule
    BY <1>0, <2>1 DEF TypeOK, Requests
  <2> QED  BY <2>1, <2>2 DEF Checked
<1> QED  BY <1>1, <1>2, <1>3, <1>4 DEF Decide

\* Every step keeps ChecksHold.
LEMMA NextChecks ==
    ASSUME TypeOK, LocksHeld, FlagKnown, ChecksHold, Next
    PROVE  ChecksHold'
<1> USE RolloutAssumption
<1>1. ASSUME NEW p \in Ops, Post(p) \/ LockFlag(p) \/ LockRule(p) PROVE ChecksHold'
  <2>1. ReqsKept(p)
    BY <1>1 DEF Post, PostCreate, PostStart, PostStop, PostEdit, Begin, LockFlag, LockRule, Refuse,
                Goto, ReqsKept, TypeOK
  <2>2. req'[p].stage # "save" \/ req'[p].kind = "edit" \/ req'[p] = Idle
    <3>1. CASE Post(p)
      BY <3>1 DEF Post, PostCreate, PostStart, PostStop, PostEdit, Begin, TypeOK
    <3>2. CASE LockFlag(p)
      BY <3>2 DEF LockFlag, Goto, TypeOK, Requests
    <3>3. CASE LockRule(p) /\ Refuse(p)
      BY <3>3 DEF Refuse, TypeOK
    <3>4. CASE LockRule(p) /\ ~Refuse(p)
      <4>1. req[p] \in Requests
        BY DEF TypeOK
      <4>2. \/ req' = [req EXCEPT ![p].stage = "check"]
            \/ req' = [req EXCEPT ![p] = [req[p] EXCEPT !.stage = "lock_flag",
                                             !.flag = row[req[p].rule].content.flag]]
        BY <3>4 DEF LockRule, Goto
      <4>3. CASE req' = [req EXCEPT ![p].stage = "check"]
        BY <4>1, <4>3 DEF TypeOK, Requests
      <4>4. CASE req' = [req EXCEPT ![p] = [req[p] EXCEPT !.stage = "lock_flag",
                                                !.flag = row[req[p].rule].content.flag]]
        BY <4>1, <4>4 DEF TypeOK, Requests
      <4> QED  BY <4>2, <4>3, <4>4
    <3> QED  BY <1>1, <3>1, <3>2, <3>3, <3>4
  <2>3. Checked(p)'
    BY <2>2 DEF Checked, Idle
  <2> QED  BY <2>1, <2>3, CheckedKept DEF ChecksHold, ReqsKept
<1>2. ASSUME NEW p \in Ops, Decide(p) PROVE ChecksHold'
  <2>1. ReqsKept(p)
    BY <1>2 DEF Decide, CreateCheck, StartCheck, StopCheck, Refuse, Goto, ReqsKept, TypeOK
  <2> QED  BY <1>2, <2>1, DecideChecks, CheckedKept DEF ChecksHold, ReqsKept
<1>3. ASSUME NEW p \in Ops, Save(p) \/ AbortDeadlocked(p) PROVE ChecksHold'
  <2>1. ReqsKept(p) /\ req'[p] = Idle
    BY <1>3 DEF Save, SaveNew, SaveEnabled, SaveEdit, Finish, AbortDeadlocked, Refuse, ReqsKept,
                TypeOK
  <2> QED  BY <2>1, CheckedKept DEF ChecksHold, ReqsKept
<1>4. CASE \/ \E r \in Rules : DeleteRule(r)
           \/ \E g \in Groups : DeleteGroup(g)
           \/ \E f \in Flags : Archive(f)
  BY <1>4, CheckedKept DEF DeleteRule, DeleteGroup, Archive, ChecksHold
<1> QED  BY <1>1, <1>2, <1>3, <1>4 DEF Next
-----------------------------------------------------------------------------
(* The invariants *)

\* What is known of the rule that a request of the console writes.
LEMMA NewFacts ==
    ASSUME Inv, NEW p \in Ops, WritesNew(p)
    PROVE  /\ active[req[p].form.content.flag]
           /\ req[p].form.enabled => Conflicts(req[p].form.content, NoRule) \subseteq byHand
           /\ ~req[p].form.enabled => ReusableDrafts(req[p].form.content) \subseteq byHand
  BY DEF Inv, ChecksHold, Checked, WritesNew, Unconflicted

\* The same of the rule that a start or a stop writes, if the raw form has not changed it.
LEMMA EnabledFacts ==
    ASSUME Inv, NEW p \in Ops, WritesEnabled(p), req[p].rule \notin byHand
    PROVE  LET r == req[p].rule IN
           /\ req[p].kind = "start" =>
                 /\ ~row[r].enabled /\ NeverStartedDraft(r) /\ active[row[r].content.flag]
                 /\ row[r].content.audience = "group" => row[r].content.groups \subseteq groups
                 /\ Conflicts(row[r].content, r) \subseteq byHand
           /\ req[p].kind = "stop" => row[r].enabled /\ past[r] = "other"
           /\ row[r] \in Rows /\ row'[r] \in Rows
           /\ row'[r].content = row[r].content /\ row'[r].enabled = (req[p].kind = "start")
           /\ past'[r] = "other"
<1> DEFINE r == req[p].rule
<1>1. /\ r \in Rules /\ Exists(r) /\ req[p].stage = "save" /\ req[p].kind \in {"start", "stop"}
      /\ req[p].flag \in Flags /\ row[r] \in Rows
  BY DEF WritesEnabled, Inv, TypeOK, Exists
<1>2. row[r].content.flag = req[p].flag
  BY <1>1, RolloutAssumption DEF Inv, FlagKnown, Known
<1>3. req[p].kind = "start" =>
          /\ ~row[r].enabled /\ NeverStartedDraft(r) /\ active[row[r].content.flag]
          /\ row[r].content.audience = "group" => row[r].content.groups \subseteq groups
          /\ Conflicts(row[r].content, r) \subseteq byHand
  BY <1>1, <1>2 DEF Inv, ChecksHold, Checked, Unconflicted
<1>4. req[p].kind = "stop" => row[r].enabled /\ past[r] = "other"
  BY <1>1 DEF Inv, ChecksHold, Checked, HistoryTrue
<1>5. /\ row'[r] \in Rows /\ row'[r].content = row[r].content
      /\ row'[r].enabled = (req[p].kind = "start")
  BY <1>1 DEF WritesEnabled, Rows
<1>6. past'[r] = "other"
  BY <1>1, <1>4 DEF WritesEnabled, Recorded
<1> QED  BY <1>1, <1>3, <1>4, <1>5, <1>6

\* Two guided rollouts that run do not overlap.
LEMMA NextNoOverlap ==
    ASSUME Inv, Next
    PROVE  NoOverlap'
<1> USE RolloutAssumption
<1>0. TypeOK /\ LocksHeld
  BY DEF Inv
<1>1. CASE WritesNone
  BY <1>1 DEF WritesNone, Inv, NoOverlap, Running, Exists
<1>2. ASSUME NEW p \in Ops, WritesNew(p) PROVE NoOverlap'
  <2> DEFINE r == req[p].rule
             f == req[p].form
  <2>1. /\ f.enabled => Conflicts(f.content, NoRule) \subseteq byHand
        /\ row'[r] = f /\ byHand' = byHand
        /\ \A s \in Rules \ {r} : row'[s] = row[s]
    BY <1>2, NewFacts DEF WritesNew, RowsKept
  <2> HIDE DEF r, f
  <2>2. ASSUME NEW s \in Running' \ byHand', s # r, r \in Running'
        PROVE  ~(/\ row'[s].content.flag = row'[r].content.flag
                 /\ SamePage(row'[s].content, row'[r].content))
    <3>1. s \in Running \ byHand /\ row'[s] = row[s] /\ f.enabled /\ s # NoRule
      BY <2>1, <2>2 DEF Running, Exists
    <3>2. s \notin Conflicts(f.content, NoRule)
      BY <2>1, <3>1
    <3> QED  BY <2>1, <3>1, <3>2 DEF Conflicts
  <2>3. ASSUME NEW s \in Running' \ byHand', NEW t \in Running' \ byHand', s # t, s # r, t # r
        PROVE  ~(/\ row'[s].content.flag = row'[t].content.flag
                 /\ SamePage(row'[s].content, row'[t].content))
    <3>1. s \in Running \ byHand /\ t \in Running \ byHand /\ row'[s] = row[s] /\ row'[t] = row[t]
      BY <2>1, <2>3 DEF Running, Exists
    <3> QED  BY <2>3, <3>1 DEF Inv, NoOverlap
  <2> QED  BY <2>2, <2>3 DEF NoOverlap, SamePage
<1>3. ASSUME NEW p \in Ops, WritesEnabled(p) PROVE NoOverlap'
  <2> DEFINE r == req[p].rule
  <2>1. /\ r \notin byHand /\ req[p].kind = "start" => Conflicts(row[r].content, r) \subseteq byHand
        /\ r \notin byHand => row'[r].content = row[r].content
                              /\ row'[r].enabled = (req[p].kind = "start")
        /\ byHand' = byHand /\ \A s \in Rules \ {r} : row'[s] = row[s]
        /\ req[p].kind \in {"start", "stop"}
    BY <1>3, EnabledFacts DEF WritesEnabled, RowsKept
  <2> HIDE DEF r
  <2>2. ASSUME NEW s \in Running' \ byHand', s # r, r \in Running' \ byHand'
        PROVE  ~(/\ row'[s].content.flag = row'[r].content.flag
                 /\ SamePage(row'[s].content, row'[r].content))
    <3>1. s \in Running \ byHand /\ row'[s] = row[s] /\ req[p].kind = "start"
      BY <2>1, <2>2 DEF Running, Exists
    <3>2. s \notin Conflicts(row[r].content, r)
      BY <2>1, <2>2, <3>1
    <3> QED  BY <2>1, <2>2, <3>1, <3>2 DEF Conflicts
  <2>3. ASSUME NEW s \in Running' \ byHand', NEW t \in Running' \ byHand', s # t, s # r, t # r
        PROVE  ~(/\ row'[s].content.flag = row'[t].content.flag
                 /\ SamePage(row'[s].content, row'[t].content))
    <3>1. s \in Running \ byHand /\ t \in Running \ byHand /\ row'[s] = row[s] /\ row'[t] = row[t]
      BY <2>1, <2>3 DEF Running, Exists
    <3> QED  BY <2>3, <3>1 DEF Inv, NoOverlap
  <2> QED  BY <2>2, <2>3 DEF NoOverlap, SamePage
<1>4. ASSUME NEW r \in Rules, WritesByHand(r) PROVE NoOverlap'
  <2>1. ASSUME NEW s \in Running' \ byHand' PROVE s \in Running \ byHand /\ row'[s] = row[s]
    BY <1>4, <2>1 DEF WritesByHand, RowsKept, Running, Exists
  <2> QED  BY <2>1 DEF Inv, NoOverlap
<1> QED  BY <1>0, <1>1, <1>2, <1>3, <1>4, StepWrites

\* Two drafts of the console that were never started differ.
LEMMA NextNoTwins ==
    ASSUME Inv, Next
    PROVE  NoTwinDrafts'
<1> USE RolloutAssumption
<1>0. TypeOK /\ LocksHeld
  BY DEF Inv
<1> DEFINE DraftOf(s) == s \in Rules \ byHand /\ row[s] # NoRule /\ past[s] = "draft"
<1>1. ASSUME NEW r \in Rules, RowsKept(r), byHand \subseteq byHand',
             \/ r \in byHand' \/ past'[r] # "draft"
             \/ ReusableDrafts(row'[r].content) \subseteq byHand
      PROVE  NoTwinDrafts'
  <2>1. ASSUME NEW s \in Rules \ byHand', row'[s] # NoRule, past'[s] = "draft", s # r
        PROVE  /\ DraftOf(s) /\ row'[s] = row[s]
               /\ row[s] = [content |-> row[s].content, enabled |-> FALSE]
    <3>1. DraftOf(s) /\ row'[s] = row[s]
      BY <1>1, <2>1 DEF RowsKept
    <3>2. row[s] \in Rows /\ ~row[s].enabled
      BY <3>1 DEF Inv, HistoryTrue, TypeOK, Exists
    <3> QED  BY <3>1, <3>2 DEF Rows
  <2>2. ASSUME NEW s \in Rules \ byHand', row'[s] # NoRule, past'[s] = "draft", s # r,
               r \notin byHand', past'[r] = "draft"
        PROVE  row'[s].content # row'[r].content
    <3>1. s \notin ReusableDrafts(row'[r].content)
      BY <1>1, <2>2
    <3> QED  BY <2>1, <2>2, <3>1 DEF ReusableDrafts, Twins, NeverStartedDraft, Exists
  <2>3. ASSUME NEW s \in Rules \ byHand', row'[s] # NoRule, past'[s] = "draft", s # r,
               NEW t \in Rules \ byHand', row'[t] # NoRule, past'[t] = "draft", t # r, s # t
        PROVE  row'[s].content # row'[t].content
    BY <2>1, <2>3 DEF Inv, NoTwinDrafts, Exists, NeverStartedDraft
  <2> HIDE DEF DraftOf
  <2> QED  BY <2>2, <2>3 DEF NoTwinDrafts, Exists, NeverStartedDraft
<1>2. CASE WritesNone
  BY <1>2 DEF WritesNone, Inv, NoTwinDrafts, Exists, NeverStartedDraft
<1>3. ASSUME NEW p \in Ops, WritesNew(p) PROVE NoTwinDrafts'
  <2>1. past'[req[p].rule] # "draft" \/ ReusableDrafts(row'[req[p].rule].content) \subseteq byHand
    BY <1>3, NewFacts DEF WritesNew
  <2> QED  BY <1>1, <1>3, <2>1 DEF WritesNew
<1>4. ASSUME NEW p \in Ops, WritesEnabled(p) PROVE NoTwinDrafts'
  <2>1. req[p].rule \in byHand' \/ past'[req[p].rule] # "draft"
    BY <1>4, EnabledFacts DEF WritesEnabled
  <2> QED  BY <1>1, <1>4, <2>1 DEF WritesEnabled
<1>5. ASSUME NEW r \in Rules, WritesByHand(r) PROVE NoTwinDrafts'
  BY <1>1, <1>5 DEF WritesByHand
<1> HIDE DEF DraftOf
<1> QED  BY <1>0, <1>2, <1>3, <1>4, <1>5, StepWrites

\* The invariant holds before the first request.
LEMMA InitInv == Init => Inv
<1> SUFFICES ASSUME Init PROVE Inv
  OBVIOUS
<1> USE RolloutAssumption
<1>1. TypeOK
  BY InitType
<1>2. LocksHeld /\ FlagKnown /\ ChecksHold
  BY DEF Init, Idle, LocksHeld, Holds, Deciding, FlagKnown, Known, ChecksHold, Checked
<1>3. \A r \in Rules \ byHand : row[r] = NoRule /\ past[r] = "none"
  BY DEF Init
<1> QED  BY <1>1, <1>2, <1>3 DEF Inv, HistoryTrue, NoOverlap, NoTwinDrafts, Running, Exists

\* Every step keeps the invariant.
LEMMA NextInv ==
    ASSUME Inv, [Next]_vars
    PROVE  Inv'
<1>1. CASE Next
  BY <1>1, NextType, NextLocks, NextHistory, NextKnown, NextChecks, NextNoOverlap, NextNoTwins
     DEF Inv
<1>2. CASE UNCHANGED vars
  BY <1>2 DEF vars, Inv, TypeOK, LocksHeld, Holds, Deciding, HistoryTrue, FlagKnown, Known,
              ChecksHold, Checked, Unconflicted, Conflicts, ReusableDrafts, Twins,
              NeverStartedDraft, NoOverlap, NoTwinDrafts, Running, Exists, Fresh
<1> QED  BY <1>1, <1>2

\* In every reachable state the requests hold the locks that they need, the histories are
\* true, and what a request has checked still holds when it saves.
THEOREM InvHolds == Spec => []Inv
  BY InitInv, NextInv, PTL DEF Spec
\* The types of the rows, histories, locks and requests hold for any number of operators.
THEOREM TypesHold == Spec => []TypeOK
<1>1. Inv => TypeOK
  BY DEF Inv
<1> QED  BY <1>1, InvHolds, PTL

\* However many operators send or retry the same draft, one is left.
THEOREM NoTwins == Spec => []NoTwinDrafts
<1>1. Inv => NoTwinDrafts
  BY DEF Inv
<1> QED  BY <1>1, InvHolds, PTL

-----------------------------------------------------------------------------
(* The action property *)

\* A step that turns a guided rule on finds its flag in use and its groups there.
LEMMA StepLaunchesCurrent ==
    ASSUME Inv, [Next]_vars, NEW r \in Rules \ byHand', r \notin Running, r \in Running'
    PROVE  /\ active[row'[r].content.flag]
           /\ Exists(r) /\ row'[r].content.audience = "group"
                  => row'[r].content.groups \subseteq groups
<1> USE RolloutAssumption
<1> DEFINE Goal == /\ active[row'[r].content.flag]
                   /\ Exists(r) /\ row'[r].content.audience = "group"
                          => row'[r].content.groups \subseteq groups
<1>0. row'[r] # row[r]
  BY DEF Running, Exists
<1>1. ASSUME NEW p \in Ops, WritesNew(p) PROVE Goal
  <2>1. r = req[p].rule
    BY <1>0, <1>1 DEF WritesNew, RowsKept
  <2> QED  BY <1>1, <2>1, NewFacts DEF WritesNew, Fresh
<1>2. ASSUME NEW p \in Ops, WritesEnabled(p) PROVE Goal
  <2>1. r = req[p].rule /\ r \notin byHand
    BY <1>0, <1>2 DEF WritesEnabled, RowsKept
  <2>2. req[p].kind = "start"
    BY <1>2, <2>1, EnabledFacts DEF Running, WritesEnabled
  <2> QED  BY <1>2, <2>1, <2>2, EnabledFacts
<1>3. ASSUME NEW s \in Rules, WritesByHand(s) PROVE Goal
  BY <1>0, <1>3 DEF WritesByHand, RowsKept
<1>4. CASE WritesNone \/ UNCHANGED vars
  BY <1>0, <1>4 DEF WritesNone, vars
<1> QED  BY <1>1, <1>2, <1>3, <1>4, StepWrites DEF Inv

\* A flag that the console turns on is in use, and the groups it is for exist, whatever
\* happened while the request waited for its locks.
THEOREM Launches == Spec => LaunchesAreCurrent
<1>1. Inv /\ [Next]_vars
      => [\A r \in Rules \ byHand' :
             r \notin Running /\ r \in Running'
                 => /\ active[row'[r].content.flag]
                    /\ Exists(r) /\ row'[r].content.audience = "group"
                           => row'[r].content.groups \subseteq groups]_vars
  BY StepLaunchesCurrent
<1> QED  BY <1>1, InvHolds, PTL DEF Spec, LaunchesAreCurrent

-----------------------------------------------------------------------------
(* The refinement *)

\* The refinement mapping is well-typed.
LEMMA LifeType ==
    ASSUME TypeOK
    PROVE  /\ life \in [Rules -> Lifecycle!Lives]
           /\ scope \in [Rules -> Lifecycle!Scopes \union {NoRule}]
<1>1. life \in [Rules -> Lifecycle!Lives]
  BY DEF life, Lifecycle!Lives
<1>2. ASSUME NEW r \in Rules, Exists(r)
      PROVE  [flag |-> row[r].content.flag, page |-> row[r].content.page] \in Lifecycle!Scopes
  <2>1. row[r].content \in Contents
    BY <1>2 DEF TypeOK, Exists, Rows
  <2> QED  BY <2>1 DEF Contents, Lifecycle!Scopes
<1>3. scope \in [Rules -> Lifecycle!Scopes \union {NoRule}]
  BY <1>2 DEF scope
<1> QED  BY <1>1, <1>3

\* The initial states are initial states of RolloutLifecycle.
LEMMA InitRefines == Init => Lifecycle!Init
<1> SUFFICES ASSUME Init PROVE Lifecycle!Init
  OBVIOUS
<1>1. TypeOK
  BY InitType
<1>2. \A r \in Rules : life[r] = "absent" \/ r \in byHand
  BY DEF Init, life, Exists
<1> QED  BY <1>1, <1>2, LifeType DEF Lifecycle!Init, Lifecycle!TypeOK, TypeOK

\* A step that writes one rule changes the life and the scope of that rule only.
LEMMA OnlyOne ==
    ASSUME TypeOK, TypeOK', NEW r \in Rules, RowsKept(r)
    PROVE  /\ life' = [life EXCEPT ![r] = life'[r]]
           /\ scope' = [scope EXCEPT ![r] = scope'[r]]
           /\ life'[r] \in Lifecycle!Lives
           /\ scope'[r] \in Lifecycle!Scopes \union {NoRule}
<1>1. /\ life \in [Rules -> Lifecycle!Lives] /\ life' \in [Rules -> Lifecycle!Lives]
      /\ scope \in [Rules -> Lifecycle!Scopes \union {NoRule}]
      /\ scope' \in [Rules -> Lifecycle!Scopes \union {NoRule}]
  <2>1. TypeOK' => life' \in [Rules -> Lifecycle!Lives]
    BY DEF life, Lifecycle!Lives
  <2>2. ASSUME NEW s \in Rules, row'[s] # NoRule
        PROVE  [flag |-> row'[s].content.flag, page |-> row'[s].content.page] \in Lifecycle!Scopes
    <3>1. row'[s].content \in Contents
      BY <2>2 DEF TypeOK, Rows
    <3> QED  BY <3>1 DEF Contents, Lifecycle!Scopes
  <2>3. scope' \in [Rules -> Lifecycle!Scopes \union {NoRule}]
    BY <2>2 DEF scope, Exists
  <2> QED  BY <2>1, <2>3, LifeType
<1>2. \A s \in Rules \ {r} : life'[s] = life[s] /\ scope'[s] = scope[s]
  BY DEF RowsKept, life, scope, Exists, NeverStartedDraft
<1> QED  BY <1>1, <1>2

\* A page that no guided rollout of the flag runs on is free in RolloutLifecycle.
LEMMA FreeScope ==
    ASSUME Inv, NEW c \in Contents, NEW e \in Rules \union {NoRule},
           Conflicts(c, e) \subseteq byHand
    PROVE  Lifecycle!Free([flag |-> c.flag, page |-> c.page], e)
<1>1. ASSUME NEW s \in Rules, life[s] = "running", s \notin byHand, s # e
      PROVE  ~Lifecycle!Overlaps(scope[s], [flag |-> c.flag, page |-> c.page])
  <2>1. s \in Running
    BY <1>1 DEF life, Running
  <2>2. s \notin Conflicts(c, e)
    BY <1>1
  <2>3. scope[s] = [flag |-> row[s].content.flag, page |-> row[s].content.page]
    BY <2>1 DEF scope, Running
  <2> QED  BY <1>1, <2>1, <2>2, <2>3 DEF Conflicts, SamePage, Lifecycle!Overlaps
<1> QED  BY <1>1 DEF Lifecycle!Free, Lifecycle!Guided

\* A rule that create_rollout saves is a draft or a launch of RolloutLifecycle.
LEMMA NewRefines ==
    ASSUME Inv, TypeOK', NEW p \in Ops, WritesNew(p)
    PROVE  Lifecycle!Next
<1> USE RolloutAssumption
<1> DEFINE r == req[p].rule
           f == req[p].form
           s == [flag |-> f.content.flag, page |-> f.content.page]
<1>0. /\ r \in Rules /\ f \in Rows /\ RowsKept(r) /\ row'[r] = f /\ Fresh(r)
      /\ past'[r] = IF f.enabled THEN "other" ELSE "draft"
      /\ byHand' = byHand /\ TypeOK /\ row' \in [Rules -> Rows \union {NoRule}]
  BY DEF WritesNew, Inv, TypeOK
<1>1. /\ life' = [life EXCEPT ![r] = life'[r]] /\ scope' = [scope EXCEPT ![r] = scope'[r]]
      /\ life'[r] \in Lifecycle!Lives /\ scope'[r] \in Lifecycle!Scopes \union {NoRule}
  BY <1>0, OnlyOne
<1>2. f.content \in Contents /\ f # NoRule /\ f.enabled \in BOOLEAN
  BY <1>0 DEF Rows
<1>3. f.enabled => Conflicts(f.content, NoRule) \subseteq byHand
  BY NewFacts
<1>4. f.enabled => Lifecycle!Free(s, NoRule)
  BY <1>2, <1>3, FreeScope
<1> HIDE DEF r, f
<1>5. /\ life[r] = "absent" /\ scope'[r] = s /\ s \in Lifecycle!Scopes
      /\ life'[r] = IF f.enabled THEN "running" ELSE "draft"
  BY <1>0, <1>2 DEF life, scope, Exists, Fresh, NeverStartedDraft, Lifecycle!Scopes, Contents
<1> HIDE DEF s
<1>6. CASE r \in byHand
  <2>1. byHand' = byHand \union {r}
    BY <1>0, <1>6
  <2> QED  BY <1>0, <1>1, <2>1 DEF Lifecycle!Next, Lifecycle!EditByHand
<1>7. CASE r \notin byHand /\ f.enabled
  <2>1. Lifecycle!Free(s, r)
    BY <1>4, <1>5, <1>7 DEF Lifecycle!Free, Lifecycle!Guided
  <2> QED  BY <1>0, <1>1, <1>5, <1>7, <2>1 DEF Lifecycle!Next, Lifecycle!Launch
<1>8. CASE r \notin byHand /\ ~f.enabled
  BY <1>0, <1>1, <1>5, <1>8 DEF Lifecycle!Next, Lifecycle!Draft
<1> QED  BY <1>6, <1>7, <1>8

\* A rule that start_rollout or stop_rollout saves is started or stopped there.
LEMMA EnabledRefines ==
    ASSUME Inv, TypeOK', NEW p \in Ops, WritesEnabled(p)
    PROVE  Lifecycle!Next
<1> DEFINE r == req[p].rule
           s == [flag |-> row[r].content.flag, page |-> row[r].content.page]
<1>0. /\ r \in Rules /\ RowsKept(r) /\ Exists(r) /\ byHand' = byHand /\ TypeOK
      /\ req[p].kind \in {"start", "stop"} /\ row[r] \in Rows
  BY DEF WritesEnabled, Inv, TypeOK, Exists
<1>1. /\ life' = [life EXCEPT ![r] = life'[r]] /\ scope' = [scope EXCEPT ![r] = scope'[r]]
      /\ life'[r] \in Lifecycle!Lives /\ scope'[r] \in Lifecycle!Scopes \union {NoRule}
  BY <1>0, OnlyOne
<1>2. CASE r \in byHand
  <2> HIDE DEF r
  <2>1. byHand' = byHand \union {r}
    BY <1>0, <1>2
  <2> QED  BY <1>0, <1>1, <2>1 DEF Lifecycle!Next, Lifecycle!EditByHand
<1>3. CASE r \notin byHand
  <2>1. /\ req[p].kind = "start" =>
              /\ ~row[r].enabled /\ NeverStartedDraft(r)
              /\ Conflicts(row[r].content, r) \subseteq byHand
        /\ req[p].kind = "stop" => row[r].enabled
        /\ row'[r] \in Rows /\ row'[r].content = row[r].content
        /\ row'[r].enabled = (req[p].kind = "start") /\ past'[r] = "other"
    BY <1>3, EnabledFacts
  <2>2. row[r].content \in Contents
    BY <1>0 DEF Rows
  <2>3. req[p].kind = "start" => Lifecycle!Free(s, r)
    BY <1>0, <2>1, <2>2, FreeScope
  <2> HIDE DEF r
  <2>4. row'[r] # NoRule
    BY <2>1, RolloutAssumption
  <2>5. scope[r] = s /\ scope'[r] = s
    BY <1>0, <2>1, <2>4 DEF scope, Exists
  <2>6. scope' = scope
    <3>1. scope \in [Rules -> Lifecycle!Scopes \union {NoRule}]
      BY <1>0, LifeType
    <3> QED  BY <1>1, <2>5, <3>1
  <2> HIDE DEF s
  <2>7. CASE req[p].kind = "start"
    <3>1. life[r] = "draft" /\ life'[r] = "running"
      BY <1>0, <2>1, <2>4, <2>7 DEF life, Exists
    <3> QED  BY <1>0, <1>1, <1>3, <2>3, <2>5, <2>6, <2>7, <3>1
             DEF Lifecycle!Next, Lifecycle!Start
  <2>8. CASE req[p].kind = "stop"
    <3>1. life[r] = "running" /\ life'[r] = "stopped"
      BY <1>0, <2>1, <2>4, <2>8 DEF life, Exists, NeverStartedDraft
    <3> QED  BY <1>0, <1>1, <1>3, <2>6, <3>1 DEF Lifecycle!Next, Lifecycle!Stop
  <2> QED  BY <1>0, <2>7, <2>8
<1> QED  BY <1>2, <1>3

\* Every step is a step of RolloutLifecycle or leaves its state alone.
LEMMA StepRefines ==
    ASSUME Inv, TypeOK', [Next]_vars
    PROVE  [Lifecycle!Next]_Lifecycle!vars
<1>1. CASE WritesNone \/ UNCHANGED vars
  BY <1>1 DEF WritesNone, vars, Lifecycle!vars, life, scope, Exists, NeverStartedDraft
<1>2. ASSUME NEW p \in Ops, WritesNew(p) \/ WritesEnabled(p) PROVE Lifecycle!Next
  BY <1>2, NewRefines, EnabledRefines
<1>3. ASSUME NEW r \in Rules, WritesByHand(r) PROVE Lifecycle!Next
  <2>1. /\ life' = [life EXCEPT ![r] = life'[r]] /\ scope' = [scope EXCEPT ![r] = scope'[r]]
        /\ life'[r] \in Lifecycle!Lives /\ scope'[r] \in Lifecycle!Scopes \union {NoRule}
    BY <1>3, OnlyOne DEF WritesByHand, Inv
  <2> QED  BY <1>3, <2>1 DEF WritesByHand, Lifecycle!Next, Lifecycle!EditByHand
<1> QED  BY <1>1, <1>2, <1>3, StepWrites DEF Inv

\* The requests of the console, with their locks, retries, refusals and aborts, implement
\* the life of a rollout that RolloutLifecycle promises.
THEOREM Refinement == Spec => ImplementsLifecycle
<1>1. Inv /\ Inv' /\ [Next]_vars => [Lifecycle!Next]_Lifecycle!vars
  BY StepRefines DEF Inv
<1> QED  BY <1>1, InitRefines, InvHolds, PTL DEF Spec, ImplementsLifecycle, Lifecycle!Spec
=============================================================================

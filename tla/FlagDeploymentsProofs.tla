----------------------- MODULE FlagDeploymentsProofs -----------------------
(***************************************************************************)
(* What holds of the flags' definitions through every series of            *)
(* deployments, rollbacks and edits: no two definitions ever want one key, *)
(* and a rollback gives back what the migration it reverses found.         *)
(*                                                                         *)
(* UniqueKeys is not inductive.  0005's reverse gives the flags that were  *)
(* put away their plain keys back, so it matters already while they are    *)
(* away that no two of them had the same one, that nothing in force has a  *)
(* key that is not among those 0005 itself will put away first, and that   *)
(* none is away before 0005 ran.  The rollbacks restore what was found     *)
(* because nothing that may run in between touches a row that is put away, *)
(* the history rows, or the identity of the contact page's definition.     *)
(***************************************************************************)
EXTENDS FlagDeployments, SequenceTheorems, FiniteSetTheorems, TLAPS

Bases == RetiredKeys \cup {ContactKey}
KeyRecords == [prefix : {"none", "p129", "rollback"}, base : Bases, active : BOOLEAN, pk : Nat]
FlagRows == [key : KeyRecords, active : BOOLEAN, default : {"legacy", "other"},
             about : {"migration", "registry", "other"}]
RuleRows == [flag : Nat, own : BOOLEAN, values : {"seeded", "other"}, enabled : BOOLEAN]
Marks == [rule : Nat, made : BOOLEAN]

\* A definition with the plain key of its base, and one that 0005 has put away.
InUse(f) == f.key.prefix = "none"
Away(f) == f.key.prefix = "p129"

Tables ==
    /\ level \in {4, 5, 6}
    /\ flags \in Seq(FlagRows \cup {Gone}) /\ Len(flags) <= MaxFlags
    /\ rules \in Seq(RuleRows \cup {Gone}) /\ Len(rules) <= MaxRules
    /\ \A r \in Rules : rules[r].flag \in 1 .. Len(flags)

History ==
    /\ saved \in [flag : [1 .. MaxFlags -> FlagRows \cup {Nothing}],
                  mark : [1 .. MaxFlags -> Marks \cup {Nothing}],
                  rule : [1 .. MaxRules -> RuleRows \cup {Nothing}]]
    /\ \A p \in 1 .. MaxFlags : saved.flag[p] # Nothing =>
          p <= Len(flags) /\ saved.flag[p].key = Plain(ContactKey)
    /\ \A r \in 1 .. MaxRules : saved.rule[r] # Nothing => r <= Len(rules)

\* The parts of a key that its prefix leaves open.
Formed(f, p) ==
    /\ InUse(f) => f.key.active = FALSE /\ f.key.pk = 0
    /\ ~InUse(f) => f.key.pk = p /\ f.key.base \in RetiredKeys

Keyed ==
    /\ \A p \in Flags : Formed(flags[p], p)
    /\ \A p, q \in Flags : InUse(flags[p]) /\ InUse(flags[q])
                           /\ flags[p].key.base = flags[q].key.base => p = q
    /\ \A p, q \in Flags : Away(flags[p]) /\ Away(flags[q])
                           /\ flags[p].key.base = flags[q].key.base => p = q
    /\ level = 4 => \A p \in Flags : ~Away(flags[p])
    /\ level # 4 => \A p \in Flags : InUse(flags[p]) =>
                       flags[p].key.base \in CanonicalKeys \cup {ContactKey}

\* f is what 0005 made of b.
PutAway(f, b) ==
    /\ b \in FlagRows /\ InUse(b) /\ b.key.active = FALSE /\ b.key.pk = 0
    /\ Away(f) /\ f.key.base = b.key.base /\ f.key.active = b.active
    /\ f.default = b.default /\ f.about = b.about

KeptAway ==
    level # 4 => \A p \in DOMAIN before.flags :
                    p \in Flags /\ PutAway(flags[p], before.flags[p])

ContactFound ==
    level = 6 =>
        LET p == before.pk
            m == saved.mark[p]
        IN /\ p \in Contacts /\ before.contact = saved.flag[p]
           /\ m \in Marks /\ m.rule \in 1 .. Len(rules)
           /\ m.made => saved.rule[m.rule] = Nothing /\ before.rule = Nothing
           /\ ~m.made => /\ before.rule \in RuleRows /\ before.rule.flag = p
                         /\ before.contact # Nothing
                         /\ saved.rule[m.rule] = before.rule

Noted == {"flags", "contact", "rule", "pk"} \subseteq DOMAIN before

Inv == Tables /\ History /\ Keyed /\ KeptAway /\ ContactFound /\ Noted

----------------------------------------------------------------------------
(* Rows and sequences of rows.                                             *)

\* What the constants are.
LEMMA Constants ==
    /\ MaxFlags \in Nat /\ MaxRules \in Nat
    /\ CanonicalKeys \subseteq RetiredKeys /\ ContactKey \notin RetiredKeys
    /\ CanonicalFlags \in Seq(RetiredKeys) /\ Len(CanonicalFlags) \in Nat
    /\ DOMAIN CanonicalFlags = 1 .. Len(CanonicalFlags)
    /\ \A i \in 1 .. Len(CanonicalFlags) : CanonicalFlags[i] \in CanonicalKeys
<1>1. CanonicalFlags \in Seq(RetiredKeys)
  BY DeploymentAssumption
<1>2. /\ Len(CanonicalFlags) \in Nat /\ DOMAIN CanonicalFlags = 1 .. Len(CanonicalFlags)
      /\ CanonicalFlags \in [1 .. Len(CanonicalFlags) -> RetiredKeys]
  BY <1>1, LenProperties
<1>3. CanonicalKeys \subseteq RetiredKeys
  BY <1>2 DEF CanonicalKeys
<1>4. \A i \in 1 .. Len(CanonicalFlags) : CanonicalFlags[i] \in CanonicalKeys
  BY <1>2 DEF CanonicalKeys
<1> QED  BY <1>1, <1>2, <1>3, <1>4, DeploymentAssumption, BoundsAssumption

\* A definition is neither a deleted row nor an absent history row.
LEMMA RowThere == ASSUME NEW f \in FlagRows  PROVE f # Gone /\ f # Nothing
<1>1. "active" \in DOMAIN f
  BY DEF FlagRows
<1>2. DOMAIN Gone = {"key"} /\ DOMAIN Nothing = {"key"}
  BY DEF Gone, Nothing
<1> QED  BY <1>1, <1>2

\* Nor is a rule, or the note about a run of 0006.
LEMMA RuleThere ==
    /\ \A r \in RuleRows : r # Gone /\ r # Nothing
    /\ \A m \in Marks : m # Nothing
    /\ Gone # Nothing
<1>1. DOMAIN Gone = {"key"} /\ DOMAIN Nothing = {"key"} /\ Gone.key # Nothing.key
  BY DEF Gone, Nothing
<1>2. ASSUME NEW r \in RuleRows  PROVE "own" \in DOMAIN r
  BY DEF RuleRows
<1>3. ASSUME NEW m \in Marks  PROVE "made" \in DOMAIN m
  BY DEF Marks
<1> QED  BY <1>1, <1>2, <1>3

\* Keys with equal parts are one key.
LEMMA KeyEqual ==
    ASSUME NEW k \in KeyRecords, NEW l \in KeyRecords,
           k.prefix = l.prefix, k.base = l.base, k.active = l.active, k.pk = l.pk
    PROVE  k = l
BY DEF KeyRecords

\* Definitions with equal parts are equal.
LEMMA RowEqual ==
    ASSUME NEW f \in FlagRows, NEW g \in FlagRows,
           f.key = g.key, f.active = g.active, f.default = g.default, f.about = g.about
    PROVE  f = g
BY DEF FlagRows

\* A function on 1 .. n is a sequence of n elements.
LEMMA Mapped ==
    ASSUME NEW S, NEW n \in Nat, NEW f \in [1 .. n -> S]
    PROVE  f \in Seq(S) /\ Len(f) = n /\ DOMAIN f = 1 .. n
<1>1. f \in Seq(S)
  BY SeqDef
<1>2. DOMAIN f = 1 .. Len(f) /\ Len(f) \in Nat /\ DOMAIN f = 1 .. n
  BY <1>1, LenProperties
<1> QED  BY <1>1, <1>2

\* What a sequence is followed by.
LEMMA Followed ==
    ASSUME NEW S, NEW s \in Seq(S), NEW n \in Nat, NEW f \in [1 .. n -> S]
    PROVE  /\ s \o f \in Seq(S) /\ Len(s \o f) = Len(s) + n
           /\ \A p \in 1 .. Len(s) : (s \o f)[p] = s[p]
           /\ \A i \in 1 .. n : (s \o f)[Len(s) + i] = f[i]
           /\ \A p \in (1 .. Len(s) + n) \ (1 .. Len(s)) :
                 p - Len(s) \in 1 .. n /\ (s \o f)[p] = f[p - Len(s)]
<1>1. f \in Seq(S) /\ Len(f) = n /\ Len(s) \in Nat
  BY Mapped, LenProperties
<1>2. /\ s \o f \in Seq(S) /\ Len(s \o f) = Len(s) + n
      /\ \A i \in 1 .. Len(s) + n : (s \o f)[i] = IF i <= Len(s) THEN s[i] ELSE f[i - Len(s)]
  BY <1>1, ConcatProperties
<1>3. \A i \in 1 .. n : Len(s) + i \in 1 .. Len(s) + n /\ ~(Len(s) + i <= Len(s))
                        /\ (Len(s) + i) - Len(s) = i
  BY <1>1
<1> QED  BY <1>1, <1>2, <1>3

\* What the definitions and rules are.
LEMMA TablesType ==
    ASSUME Tables
    PROVE  /\ Len(flags) \in Nat /\ DOMAIN flags = 1 .. Len(flags)
           /\ Len(rules) \in Nat /\ DOMAIN rules = 1 .. Len(rules)
           /\ flags \in [1 .. Len(flags) -> FlagRows \cup {Gone}]
           /\ rules \in [1 .. Len(rules) -> RuleRows \cup {Gone}]
           /\ \A p \in Flags : p \in 1 .. Len(flags) /\ flags[p] \in FlagRows
           /\ \A r \in Rules : r \in 1 .. Len(rules) /\ rules[r] \in RuleRows
BY LenProperties DEF Tables, Flags, Rules

\* A seeded definition.
LEMMA SeededRow ==
    ASSUME NEW k \in Bases
    PROVE  /\ Plain(k) \in KeyRecords /\ Seeded(k) \in FlagRows
           /\ Seeded(k).key.base = k /\ InUse(Seeded(k)) /\ \A p : Formed(Seeded(k), p)
BY DEF Plain, Seeded, KeyRecords, FlagRows, InUse, Formed

\* A seeded rule.
LEMMA SeededRuleRow ==
    ASSUME NEW p \in Nat  PROVE SeededRule(p) \in RuleRows /\ SeededRule(p).flag = p
BY DEF SeededRule, RuleRows

\* A flag has one of these keys if it has the plain key of one of them.
LEMMA HoldsMeans ==
    ASSUME Tables, Keyed, NEW p \in Flags, NEW keys
    PROVE  Holds(p, keys) <=> InUse(flags[p]) /\ flags[p].key.base \in keys
<1>1. flags[p] \in FlagRows /\ flags[p].key \in KeyRecords /\ Formed(flags[p], p)
  BY TablesType DEF Keyed, FlagRows
<1>2. ASSUME NEW k, flags[p].key = Plain(k)  PROVE InUse(flags[p]) /\ flags[p].key.base = k
  BY <1>2 DEF Plain, InUse
<1>3. ASSUME InUse(flags[p])  PROVE flags[p].key = Plain(flags[p].key.base)
  <2> DEFINE k == flags[p].key.base
  <2>1. k \in Bases  BY <1>1 DEF KeyRecords
  <2>2. Plain(k) \in KeyRecords /\ Plain(k).prefix = "none" /\ Plain(k).base = k
        /\ Plain(k).active = FALSE /\ Plain(k).pk = 0
    BY <2>1, SeededRow DEF Plain
  <2>3. /\ flags[p].key.prefix = "none" /\ flags[p].key.active = FALSE /\ flags[p].key.pk = 0
    BY <1>1, <1>3 DEF InUse, Formed
  <2> QED  BY <1>1, <2>2, <2>3, KeyEqual
<1> QED  BY <1>2, <1>3 DEF Holds

\* A flag that is put away.
LEMMA ArchivedRow ==
    ASSUME Tables, NEW p \in Flags, NEW prefix \in {"p129", "rollback"}
    PROVE  LET f == Archived(p, prefix)
           IN  /\ f \in FlagRows
               /\ f.key.prefix = prefix /\ f.key.base = flags[p].key.base
               /\ f.key.active = flags[p].active /\ f.key.pk = p
               /\ f.default = flags[p].default /\ f.about = flags[p].about
<1>1. flags[p] \in FlagRows /\ p \in Nat
  BY TablesType
<1>2. /\ ArchiveKey(p, prefix) \in KeyRecords
      /\ ArchiveKey(p, prefix).prefix = prefix
      /\ ArchiveKey(p, prefix).base = flags[p].key.base
      /\ ArchiveKey(p, prefix).active = flags[p].active /\ ArchiveKey(p, prefix).pk = p
  BY <1>1 DEF ArchiveKey, KeyRecords, FlagRows
<1>3. /\ Archived(p, prefix) \in FlagRows /\ Archived(p, prefix).key = ArchiveKey(p, prefix)
      /\ Archived(p, prefix).default = flags[p].default
      /\ Archived(p, prefix).about = flags[p].about
  BY <1>1, <1>2 DEF Archived, FlagRows
<1> QED  BY <1>2, <1>3

----------------------------------------------------------------------------
(* Steps between two migrations.                                           *)

\* A row stays, or an unarchived one is edited under its key or, by an earlier release,
\* deleted.
Edited(p) ==
    \/ flags'[p] = flags[p]
    \/ /\ p \in Flags /\ InUse(flags[p])
       /\ flags'[p] \in FlagRows /\ flags'[p].key = flags[p].key
    \/ level # 6 /\ p \in Flags /\ InUse(flags[p]) /\ flags'[p] = Gone

\* Definitions are added with keys that are free, and rules in any number.
EditStep ==
    /\ level' = level /\ saved' = saved /\ before' = before
    /\ flags' \in Seq(FlagRows \cup {Gone}) /\ rules' \in Seq(RuleRows \cup {Gone})
    /\ Len(flags) <= Len(flags') /\ Len(flags') <= MaxFlags
    /\ Len(rules) <= Len(rules') /\ Len(rules') <= MaxRules
    /\ \A p \in 1 .. Len(flags) : Edited(p)
    /\ \A p \in (1 .. Len(flags')) \ (1 .. Len(flags)) :
          /\ flags'[p] \in FlagRows /\ InUse(flags'[p]) /\ Formed(flags'[p], p)
          /\ level # 4 => flags'[p].key.base \in CanonicalKeys \cup {ContactKey}
          /\ \A q \in Flags : InUse(flags[q]) => flags[q].key.base # flags'[p].key.base
          /\ \A q \in (1 .. Len(flags')) \ (1 .. Len(flags)) :
                flags'[q].key.base = flags'[p].key.base => q = p
    /\ \A r \in DOMAIN rules' : rules'[r] # Gone => rules'[r].flag \in 1 .. Len(flags')

\* What the old and new rows of such a step are.
LEMMA EditedRows ==
    ASSUME Inv, EditStep
    PROVE  /\ Tables'
           /\ \A p \in Flags' : p \in 1 .. Len(flags') /\ flags'[p] \in FlagRows
           /\ \A p \in Flags' : p \in 1 .. Len(flags) =>
                 /\ p \in Flags /\ flags'[p].key = flags[p].key
                 /\ ~InUse(flags[p]) => flags'[p] = flags[p]
           /\ \A p \in Flags : flags'[p] = Gone => level # 6 /\ InUse(flags[p])
           /\ \A p \in Flags : p \in 1 .. Len(flags)
           /\ DOMAIN flags' = 1 .. Len(flags') /\ Len(flags') \in Nat
<1>1. Tables'
  BY DEF Inv, Tables, EditStep, Rules
<1>2. Tables
  BY DEF Inv
<1>3. /\ DOMAIN flags = 1 .. Len(flags) /\ DOMAIN flags' = 1 .. Len(flags')
      /\ Len(flags) \in Nat /\ Len(flags') \in Nat
      /\ flags' \in [1 .. Len(flags') -> FlagRows \cup {Gone}]
  BY <1>2, TablesType, LenProperties DEF EditStep
<1>4. \A p \in Flags' : p \in 1 .. Len(flags') /\ flags'[p] \in FlagRows /\ flags'[p] # Gone
  BY <1>3 DEF Flags
<1>5. ASSUME NEW p \in Flags', p \in 1 .. Len(flags)
      PROVE  /\ p \in Flags /\ flags'[p].key = flags[p].key
             /\ ~InUse(flags[p]) => flags'[p] = flags[p]
  BY <1>3, <1>4, <1>5 DEF EditStep, Edited, Flags
<1>6. \A p \in Flags : p \in 1 .. Len(flags) /\ flags[p] # Gone
  BY <1>3 DEF Flags
<1>7. ASSUME NEW p \in Flags, flags'[p] = Gone  PROVE level # 6 /\ InUse(flags[p])
  BY <1>6, <1>7, RowThere DEF EditStep, Edited
<1> QED  BY <1>1, <1>3, <1>4, <1>5, <1>6, <1>7

\* Such a step preserves the invariant.
LEMMA EditStepInv == ASSUME Inv, EditStep  PROVE Inv'
<1>1. /\ Tables'
      /\ \A p \in Flags' : p \in 1 .. Len(flags') /\ flags'[p] \in FlagRows
      /\ \A p \in Flags' : p \in 1 .. Len(flags) =>
            /\ p \in Flags /\ flags'[p].key = flags[p].key
            /\ ~InUse(flags[p]) => flags'[p] = flags[p]
      /\ \A p \in Flags : flags'[p] = Gone => level # 6 /\ InUse(flags[p])
      /\ \A p \in Flags : p \in 1 .. Len(flags)
      /\ DOMAIN flags' = 1 .. Len(flags') /\ Len(flags') \in Nat
      /\ Len(flags) \in Nat
  BY EditedRows, TablesType DEF Inv
<1>2. History'
  BY <1>1, Constants, TablesType, LenProperties DEF Inv, History, EditStep
<1>3. Keyed'
  <2>1. ASSUME NEW p \in Flags'
        PROVE  /\ Formed(flags'[p], p)
               /\ Away(flags'[p]) => p \in Flags /\ Away(flags[p])
                                     /\ flags'[p].key = flags[p].key
               /\ level' # 4 /\ InUse(flags'[p]) =>
                     flags'[p].key.base \in CanonicalKeys \cup {ContactKey}
    BY <1>1 DEF Inv, Keyed, EditStep, Formed, InUse, Away
  <2>2. ASSUME NEW p \in Flags', NEW q \in Flags', InUse(flags'[p]), InUse(flags'[q]),
               flags'[p].key.base = flags'[q].key.base
        PROVE  p = q
    <3>1. CASE p \in 1 .. Len(flags) /\ q \in 1 .. Len(flags)
      BY <1>1, <2>2, <3>1 DEF Inv, Keyed, InUse
    <3>2. CASE p \in 1 .. Len(flags) /\ q \notin 1 .. Len(flags)
      BY <1>1, <2>2, <3>2 DEF EditStep, InUse
    <3>3. CASE p \notin 1 .. Len(flags) /\ q \in 1 .. Len(flags)
      BY <1>1, <2>2, <3>3 DEF EditStep, InUse
    <3>4. CASE p \notin 1 .. Len(flags) /\ q \notin 1 .. Len(flags)
      BY <1>1, <2>2, <3>4 DEF EditStep
    <3> QED  BY <3>1, <3>2, <3>3, <3>4
  <2>3. ASSUME NEW p \in Flags', NEW q \in Flags', Away(flags'[p]), Away(flags'[q]),
               flags'[p].key.base = flags'[q].key.base
        PROVE  p = q
    BY <2>1, <2>3 DEF Inv, Keyed
  <2>4. level' = 4 => \A p \in Flags' : ~Away(flags'[p])
    BY <2>1 DEF Inv, Keyed, EditStep
  <2> QED  BY <2>1, <2>2, <2>3, <2>4 DEF Keyed
<1>4. KeptAway'
  <2>1. ASSUME level' # 4, NEW p \in DOMAIN before'.flags
        PROVE  p \in Flags' /\ PutAway(flags'[p], before'.flags[p])
    <3>1. p \in Flags /\ PutAway(flags[p], before.flags[p]) /\ before' = before
      BY <2>1 DEF Inv, KeptAway, EditStep
    <3>2. ~InUse(flags[p])
      BY <3>1 DEF PutAway, Away, InUse
    <3>3. p \in Flags'
      BY <1>1, <3>1, <3>2 DEF Flags, EditStep
    <3> QED  BY <1>1, <3>1, <3>2, <3>3
  <2> QED  BY <2>1 DEF KeptAway
<1>5. ContactFound'
  <2>1. ASSUME level' = 6
        PROVE  before'.pk \in Contacts'
    <3>1. level = 6 /\ before.pk \in Contacts /\ before' = before
      BY <2>1 DEF Inv, ContactFound, EditStep
    <3>2. before.pk \in Flags' /\ flags'[before.pk].key = flags[before.pk].key
      BY <1>1, <3>1 DEF Contacts, Flags, EditStep
    <3> QED  BY <3>1, <3>2 DEF Contacts, Holds
  <2>2. Len(rules) \in Nat /\ Len(rules') \in Nat
    BY <1>1, TablesType, LenProperties DEF Inv, EditStep
  <2> QED  BY <2>1, <2>2 DEF Inv, ContactFound, EditStep
<1> QED  BY <1>1, <1>2, <1>3, <1>4, <1>5 DEF Inv, Noted, EditStep

\* The operators' edits of rules.
LEMMA RuleEdits == ASSUME Inv, AddRule \/ EditRule \/ DeleteRule  PROVE EditStep
<1>1. /\ flags' = flags /\ UNCHANGED <<level, saved, before>>
  BY DEF AddRule, EditRule, DeleteRule, Edit
<1>2. /\ Len(flags) \in Nat /\ Len(rules) \in Nat
      /\ DOMAIN flags = 1 .. Len(flags) /\ DOMAIN rules = 1 .. Len(rules)
      /\ rules \in Seq(RuleRows \cup {Gone}) /\ flags \in Seq(FlagRows \cup {Gone})
      /\ Len(rules) <= MaxRules /\ Len(flags) <= MaxFlags
      /\ \A r \in DOMAIN rules : rules[r] # Gone => rules[r].flag \in 1 .. Len(flags)
      /\ \A p \in Flags : p \in 1 .. Len(flags)
  BY TablesType DEF Inv, Tables, Rules
<1>3. ASSUME NEW p \in Editable, NEW row \in RulesOn(p)
      PROVE  row \in RuleRows /\ row.flag = p /\ p \in 1 .. Len(flags)
  BY <1>2, <1>3 DEF RulesOn, RuleRows, Editable
<1>4. /\ rules' \in Seq(RuleRows \cup {Gone})
      /\ Len(rules) <= Len(rules') /\ Len(rules') <= MaxRules
      /\ \A r \in DOMAIN rules' : rules'[r] # Gone => rules'[r].flag \in 1 .. Len(flags)
  <2>1. CASE AddRule
    <3>1. PICK p \in Editable : \E row \in RulesOn(p) : rules' = Append(rules, row)
      BY <2>1 DEF AddRule
    <3>2. PICK row \in RulesOn(p) : rules' = Append(rules, row)
      BY <3>1
    <3>3. row \in RuleRows /\ row.flag \in 1 .. Len(flags)
      BY <1>3
    <3>4. /\ rules' \in Seq(RuleRows \cup {Gone}) /\ Len(rules') = Len(rules) + 1
          /\ \A i \in 1 .. Len(rules) : rules'[i] = rules[i]
          /\ rules'[Len(rules) + 1] = row
      BY <1>2, <3>2, <3>3, AppendProperties
    <3>5. DOMAIN rules' = 1 .. (Len(rules) + 1)
      BY <3>4, LenProperties
    <3>6. Len(rules) + 1 <= MaxRules
      BY <1>2, <2>1, Constants DEF AddRule
    <3>7. \A r \in 1 .. (Len(rules) + 1) : r \in 1 .. Len(rules) \/ r = Len(rules) + 1
      BY <1>2
    <3> QED  BY <1>2, <3>3, <3>4, <3>5, <3>6, <3>7
  <2>2. CASE EditRule \/ DeleteRule
    <3>1. PICK r \in Rules, row \in RuleRows \cup {Gone} :
            /\ rules' = [rules EXCEPT ![r] = row]
            /\ row # Gone => row.flag \in 1 .. Len(flags)
      BY <1>3, <2>2 DEF EditRule, DeleteRule
    <3>2. r \in 1 .. Len(rules)
      BY <1>2 DEF Rules
    <3>3. /\ rules' \in Seq(RuleRows \cup {Gone}) /\ Len(rules') = Len(rules)
          /\ \A j \in 1 .. Len(rules) : rules'[j] = IF j = r THEN row ELSE rules[j]
      BY <1>2, <3>1, <3>2, ExceptSeq
    <3>4. DOMAIN rules' = 1 .. Len(rules)
      BY <3>3, LenProperties
    <3> QED  BY <1>2, <3>1, <3>3, <3>4
  <2> QED  BY <2>1, <2>2
<1> QED  BY <1>1, <1>2, <1>4 DEF EditStep, Edited

\* The deletion of a definition takes its rules along.
LEMMA CascadedRules ==
    ASSUME Tables, NEW rs \in Seq(RuleRows \cup {Gone}), NEW p
    PROVE  /\ Cascaded(rs, p) \in Seq(RuleRows \cup {Gone}) /\ Len(Cascaded(rs, p)) = Len(rs)
           /\ \A r \in DOMAIN rs : Cascaded(rs, p)[r] =
                 IF rs[r] # Gone /\ rs[r].flag = p THEN Gone ELSE rs[r]
<1>1. /\ Len(rs) \in Nat /\ DOMAIN rs = 1 .. Len(rs)
      /\ rs \in [1 .. Len(rs) -> RuleRows \cup {Gone}]
  BY LenProperties
<1>2. Cascaded(rs, p) \in [1 .. Len(rs) -> RuleRows \cup {Gone}]
  BY <1>1 DEF Cascaded
<1>3. \A r \in DOMAIN rs : Cascaded(rs, p)[r] =
         IF rs[r] # Gone /\ rs[r].flag = p THEN Gone ELSE rs[r]
  BY DEF Cascaded
<1> QED  BY <1>1, <1>2, <1>3, Mapped

\* What an earlier release does to its definitions.
LEMMA EarlierReleaseStep == ASSUME Inv, EarlierRelease  PROVE EditStep
<1>1. /\ level # 6 /\ UNCHANGED <<level, saved, before>>
  BY DEF EarlierRelease, Edit
<1>2. /\ Len(flags) \in Nat /\ Len(rules) \in Nat
      /\ DOMAIN flags = 1 .. Len(flags) /\ DOMAIN rules = 1 .. Len(rules)
      /\ rules \in Seq(RuleRows \cup {Gone}) /\ flags \in Seq(FlagRows \cup {Gone})
      /\ Len(rules) <= MaxRules /\ Len(flags) <= MaxFlags
      /\ \A r \in DOMAIN rules : rules[r] # Gone => rules[r].flag \in 1 .. Len(flags)
      /\ \A p \in Flags : p \in 1 .. Len(flags) /\ flags[p] \in FlagRows
  BY TablesType DEF Inv, Tables, Rules
<1>3. CASE \E k \in RetiredKeys \cup {ContactKey}, active \in BOOLEAN :
             /\ ~\E p \in Flags : Holds(p, {k})
             /\ level = 5 => k \notin RetiredKeys
             /\ Len(flags) < MaxFlags
             /\ flags' = Append(flags, [key |-> Plain(k), active |-> active,
                                        default |-> "other", about |-> "other"])
             /\ UNCHANGED rules
  <2>1. PICK k \in Bases, active \in BOOLEAN :
             /\ ~\E p \in Flags : Holds(p, {k})
             /\ level = 5 => k \notin RetiredKeys
             /\ Len(flags) < MaxFlags
             /\ flags' = Append(flags, [key |-> Plain(k), active |-> active,
                                        default |-> "other", about |-> "other"])
             /\ rules' = rules
    BY <1>3 DEF Bases
  <2> DEFINE new == [key |-> Plain(k), active |-> active, default |-> "other", about |-> "other"]
             last == Len(flags) + 1
  <2>2. /\ new \in FlagRows /\ InUse(new) /\ Formed(new, last) /\ new.key.base = k
    BY SeededRow DEF FlagRows, InUse, Formed, Plain
  <2>3. flags' = Append(flags, new)
    BY <2>1
  <2> HIDE DEF new
  <2>4. /\ flags' \in Seq(FlagRows \cup {Gone}) /\ Len(flags') = last
        /\ \A i \in 1 .. Len(flags) : flags'[i] = flags[i]
        /\ flags'[last] = new
    BY <1>2, <2>2, <2>3, AppendProperties
  <2>5. \A p \in (1 .. last) \ (1 .. Len(flags)) : p = last
    BY <1>2
  <2>6. \A q \in Flags : InUse(flags[q]) => flags[q].key.base # k
    BY <2>1, HoldsMeans DEF Inv
  <2>7. level # 4 => k = ContactKey
    BY <1>1, <2>1 DEF Bases, Inv, Tables
  <2>8. Len(flags) <= last /\ last <= MaxFlags /\ \A x \in 1 .. Len(flags) : x \in 1 .. last
    BY <1>2, <2>1, Constants
  <2> QED
    BY <1>1, <1>2, <2>1, <2>2, <2>4, <2>5, <2>6, <2>7, <2>8 DEF EditStep, Edited
<1>4. CASE \E p \in Flags : flags[p].key.prefix = "none"
                            /\ flags' = [flags EXCEPT ![p].active = ~@] /\ UNCHANGED rules
  <2>1. PICK p \in Flags : flags[p].key.prefix = "none"
                           /\ flags' = [flags EXCEPT ![p].active = ~@] /\ UNCHANGED rules
    BY <1>4
  <2> DEFINE row == [flags[p] EXCEPT !.active = ~@]
  <2>2. row \in FlagRows /\ row.key = flags[p].key
    BY <1>2 DEF FlagRows
  <2>3. flags' = [flags EXCEPT ![p] = row] /\ p \in 1 .. Len(flags)
    BY <1>2, <2>1
  <2> HIDE DEF row
  <2>4. /\ flags' \in Seq(FlagRows \cup {Gone}) /\ Len(flags') = Len(flags)
        /\ \A j \in 1 .. Len(flags) : flags'[j] = IF j = p THEN row ELSE flags[j]
    BY <1>2, <2>2, <2>3, ExceptSeq
  <2>5. rules' = rules /\ InUse(flags[p])
    BY <2>1 DEF InUse
  <2>6. \A q \in 1 .. Len(flags) : Edited(q)
    BY <2>1, <2>2, <2>4, <2>5 DEF Edited
  <2> QED  BY <1>1, <1>2, <2>4, <2>5, <2>6 DEF EditStep
<1>5. CASE \E p \in Flags : flags[p].key.prefix = "none"
                            /\ flags' = [flags EXCEPT ![p] = Gone] /\ rules' = Cascaded(rules, p)
  <2>1. PICK p \in Flags : flags[p].key.prefix = "none"
                           /\ flags' = [flags EXCEPT ![p] = Gone] /\ rules' = Cascaded(rules, p)
    BY <1>5
  <2>2. p \in 1 .. Len(flags)
    BY <1>2
  <2>3. /\ flags' \in Seq(FlagRows \cup {Gone}) /\ Len(flags') = Len(flags)
        /\ \A j \in 1 .. Len(flags) : flags'[j] = IF j = p THEN Gone ELSE flags[j]
    BY <1>2, <2>1, <2>2, ExceptSeq
  <2>4. /\ rules' \in Seq(RuleRows \cup {Gone}) /\ Len(rules') = Len(rules)
        /\ \A r \in DOMAIN rules : rules'[r] =
              IF rules[r] # Gone /\ rules[r].flag = p THEN Gone ELSE rules[r]
    <3>1. /\ Cascaded(rules, p) \in Seq(RuleRows \cup {Gone})
          /\ Len(Cascaded(rules, p)) = Len(rules)
          /\ \A r \in DOMAIN rules : Cascaded(rules, p)[r] =
                IF rules[r] # Gone /\ rules[r].flag = p THEN Gone ELSE rules[r]
      BY <1>2, CascadedRules DEF Inv
    <3> QED  BY <2>1, <3>1
  <2>5. DOMAIN rules' = DOMAIN rules
    BY <1>2, <2>4, LenProperties
  <2> QED  BY <1>1, <1>2, <2>1, <2>3, <2>4, <2>5 DEF EditStep, Edited, InUse
<1> QED  BY <1>3, <1>4, <1>5 DEF EarlierRelease

\* The registry names each flag once.
LEMMA Registry ==
    LET registry == Append(CanonicalFlags, ContactKey)
        n == Len(CanonicalFlags) + 1
    IN  /\ n \in Nat /\ DOMAIN registry = 1 .. n
        /\ \A i \in 1 .. n : registry[i] \in CanonicalKeys \cup {ContactKey}
        /\ \A i, j \in 1 .. n : registry[i] = registry[j] => i = j
<1> DEFINE registry == Append(CanonicalFlags, ContactKey)
           n == Len(CanonicalFlags) + 1
<1>1. CanonicalFlags \in Seq(Bases) /\ ContactKey \in Bases
  BY Constants, SeqMonotonic DEF Bases
<1>2. /\ registry \in Seq(Bases) /\ Len(registry) = n /\ registry[n] = ContactKey
      /\ \A i \in 1 .. Len(CanonicalFlags) : registry[i] = CanonicalFlags[i]
  BY <1>1, AppendProperties
<1>3. n \in Nat /\ DOMAIN registry = 1 .. n
      /\ \A i \in 1 .. n : i \in 1 .. Len(CanonicalFlags) \/ i = n
  BY <1>2, Constants, LenProperties
<1>4. \A i \in 1 .. n : registry[i] \in CanonicalKeys \cup {ContactKey}
  BY <1>2, <1>3, Constants
<1>5. ASSUME NEW i \in 1 .. n, NEW j \in 1 .. n, registry[i] = registry[j]  PROVE i = j
  <2>1. CASE i \in 1 .. Len(CanonicalFlags) /\ j \in 1 .. Len(CanonicalFlags)
    BY <1>2, <1>5, <2>1, Constants, DeploymentAssumption
  <2>2. CASE i = n /\ j = n
    BY <2>2
  <2>3. CASE i \in 1 .. Len(CanonicalFlags) /\ j = n
    BY <1>2, <1>5, <2>3, Constants
  <2>4. CASE i = n /\ j \in 1 .. Len(CanonicalFlags)
    BY <1>2, <1>5, <2>4, Constants
  <2> QED  BY <1>3, <2>1, <2>2, <2>3, <2>4
<1> QED  BY <1>3, <1>4, <1>5

\* sync_feature_registry adds what is missing and describes what is there.
LEMMA SyncStep == ASSUME Inv, NEW force \in BOOLEAN, Sync(force)  PROVE EditStep
<1> DEFINE registry == Append(CanonicalFlags, ContactKey)
           missing == {i \in DOMAIN registry : ~\E p \in Flags : Holds(p, {registry[i]})}
           known == {registry[i] : i \in DOMAIN registry}
           size == Cardinality(missing)
           Described(f) == [f EXCEPT !.about = "registry",
                                     !.default = IF force THEN "legacy" ELSE @]
           kept == [p \in DOMAIN flags |->
                       IF ~Holds(p, known) THEN flags[p] ELSE Described(flags[p])]
<1> DEFINE Row(i) == [Seeded(registry[i]) EXCEPT !.about = "registry"]
<1>1. PICK made \in [1 .. size -> missing] :
       /\ \A i, j \in DOMAIN made : i < j => made[i] < made[j]
       /\ Len(flags) + Len(made) =< MaxFlags
       /\ flags' = kept \o [i \in DOMAIN made |-> Row(made[i])]
  BY DEF Sync
<1>2. UNCHANGED <<level, rules, saved, before>>
  BY DEF Sync
<1>3. /\ DOMAIN registry = 1 .. Len(CanonicalFlags) + 1 /\ Len(CanonicalFlags) + 1 \in Nat
      /\ \A i \in DOMAIN registry : registry[i] \in CanonicalKeys \cup {ContactKey}
      /\ \A i, j \in DOMAIN registry : registry[i] = registry[j] => i = j
  BY Registry
<1> HIDE DEF registry
<1>4. size \in Nat /\ missing \subseteq DOMAIN registry
  <2>1. IsFiniteSet(1 .. Len(CanonicalFlags) + 1)
    BY <1>3, FS_Interval
  <2> QED  BY <1>3, <2>1, FS_Subset, FS_CardinalityType
<1>5. /\ Len(flags) \in Nat /\ Len(rules) \in Nat
      /\ DOMAIN flags = 1 .. Len(flags)
      /\ rules \in Seq(RuleRows \cup {Gone})
      /\ Len(rules) <= MaxRules /\ Len(flags) <= MaxFlags
      /\ \A r \in DOMAIN rules : rules[r] # Gone => rules[r].flag \in 1 .. Len(flags)
      /\ flags \in [1 .. Len(flags) -> FlagRows \cup {Gone}]
      /\ \A p \in Flags : p \in 1 .. Len(flags) /\ flags[p] \in FlagRows
  BY TablesType DEF Inv, Tables, Rules
<1>6. ASSUME NEW p \in 1 .. Len(flags), Holds(p, known)
      PROVE  /\ p \in Flags /\ InUse(flags[p])
             /\ Described(flags[p]) \in FlagRows /\ Described(flags[p]).key = flags[p].key
  <2>1. p \in Flags
    BY <1>6 DEF Holds
  <2>2. InUse(flags[p]) /\ flags[p] \in FlagRows
    BY <1>5, <1>6, <2>1, HoldsMeans DEF Inv
  <2>3. Described(flags[p]) \in FlagRows /\ Described(flags[p]).key = flags[p].key
    BY <2>2 DEF FlagRows
  <2> QED  BY <2>1, <2>2, <2>3
<1>7. kept \in Seq(FlagRows \cup {Gone}) /\ Len(kept) = Len(flags)
  <2>1. kept \in [1 .. Len(flags) -> FlagRows \cup {Gone}]
    BY <1>5, <1>6
  <2> HIDE DEF kept
  <2> QED  BY <1>5, <2>1, Mapped
<1>8. ASSUME NEW i \in missing
      PROVE  /\ Row(i) \in FlagRows /\ InUse(Row(i)) /\ \A p : Formed(Row(i), p)
             /\ Row(i).key.base = registry[i]
             /\ registry[i] \in CanonicalKeys \cup {ContactKey}
             /\ \A q \in Flags : InUse(flags[q]) => flags[q].key.base # registry[i]
  <2>1. /\ i \in DOMAIN registry /\ registry[i] \in CanonicalKeys \cup {ContactKey}
        /\ registry[i] \in Bases
    BY <1>3, <1>4, Constants DEF Bases
  <2>2. /\ Row(i) \in FlagRows /\ Row(i).key = Seeded(registry[i]).key
    BY <2>1, SeededRow DEF FlagRows
  <2>3. InUse(Row(i)) /\ (\A p : Formed(Row(i), p)) /\ Row(i).key.base = registry[i]
    BY <2>1, <2>2, SeededRow DEF InUse, Formed
  <2>4. \A q \in Flags : InUse(flags[q]) => flags[q].key.base # registry[i]
    BY HoldsMeans DEF Inv
  <2> QED  BY <2>1, <2>2, <2>3, <2>4
<1> HIDE DEF missing, Row
<1> DEFINE new == [i \in DOMAIN made |-> Row(made[i])]
<1>9. DOMAIN made = 1 .. size /\ Len(made) = size /\ \A i \in 1 .. size : made[i] \in missing
  BY <1>4, Mapped
<1>10. new \in [1 .. size -> FlagRows \cup {Gone}] /\ \A i \in 1 .. size : new[i] = Row(made[i])
  BY <1>8, <1>9
<1> HIDE DEF new, kept
<1>11. /\ flags' \in Seq(FlagRows \cup {Gone}) /\ Len(flags') = Len(flags) + size
       /\ \A p \in 1 .. Len(flags) : flags'[p] = kept[p]
       /\ \A p \in (1 .. Len(flags')) \ (1 .. Len(flags)) :
             /\ p - Len(flags) \in 1 .. size
             /\ flags'[p] = Row(made[p - Len(flags)])
  <2>1. flags' = kept \o new
    BY <1>1 DEF new
  <2>2. /\ kept \o new \in Seq(FlagRows \cup {Gone}) /\ Len(kept \o new) = Len(kept) + size
        /\ \A p \in 1 .. Len(kept) : (kept \o new)[p] = kept[p]
        /\ \A p \in (1 .. Len(kept) + size) \ (1 .. Len(kept)) :
              p - Len(kept) \in 1 .. size /\ (kept \o new)[p] = new[p - Len(kept)]
    BY <1>4, <1>7, <1>10, Followed
  <2> QED  BY <1>7, <1>10, <2>1, <2>2
<1>12. \A p \in 1 .. Len(flags) : Edited(p)
  BY <1>5, <1>6, <1>11 DEF kept, Edited
<1>13. ASSUME NEW p \in (1 .. Len(flags')) \ (1 .. Len(flags))
       PROVE  /\ flags'[p] \in FlagRows /\ InUse(flags'[p]) /\ Formed(flags'[p], p)
              /\ level # 4 => flags'[p].key.base \in CanonicalKeys \cup {ContactKey}
              /\ \A q \in Flags : InUse(flags[q]) => flags[q].key.base # flags'[p].key.base
  BY <1>8, <1>9, <1>11
<1>14. ASSUME NEW p \in (1 .. Len(flags')) \ (1 .. Len(flags)),
              NEW q \in (1 .. Len(flags')) \ (1 .. Len(flags)),
              flags'[q].key.base = flags'[p].key.base
       PROVE  q = p
  <2> DEFINE i == p - Len(flags)
             j == q - Len(flags)
  <2>1. /\ i \in 1 .. size /\ j \in 1 .. size
        /\ flags'[p] = Row(made[i]) /\ flags'[q] = Row(made[j])
    BY <1>11
  <2>2. made[i] \in missing /\ made[j] \in missing
    BY <1>9, <2>1
  <2>3. registry[made[i]] = registry[made[j]]
    BY <1>8, <1>14, <2>1, <2>2
  <2>4. made[i] = made[j] /\ made[i] \in Nat
    BY <1>3, <1>4, <2>2, <2>3
  <2>5. ~(i < j) /\ ~(j < i)
    BY <1>1, <1>9, <2>1, <2>4
  <2> QED  BY <1>4, <1>5, <1>11, <2>1, <2>5
<1>15. Len(flags) <= Len(flags') /\ Len(flags') <= MaxFlags
       /\ \A x \in 1 .. Len(flags) : x \in 1 .. Len(flags')
  BY <1>1, <1>4, <1>5, <1>9, <1>11
<1> QED
  BY <1>2, <1>5, <1>11, <1>12, <1>13, <1>14, <1>15 DEF EditStep

----------------------------------------------------------------------------
(* 0005 and its reverse.                                                   *)

\* 0005 puts the flags of earlier releases away and seeds its own after them.
LEMMA ResetRows ==
    ASSUME Inv, ResetForward
    PROVE  /\ flags' \in Seq(FlagRows \cup {Gone}) /\ DOMAIN flags' = 1 .. Len(flags')
           /\ Len(flags') = Len(flags) + Len(CanonicalFlags) /\ Len(flags') <= MaxFlags
           /\ \A p \in 1 .. Len(flags) :
                 flags'[p] = IF Holds(p, RetiredKeys) THEN Archived(p, "p129") ELSE flags[p]
           /\ \A p \in (1 .. Len(flags')) \ (1 .. Len(flags)) :
                 LET i == p - Len(flags)
                 IN i \in 1 .. Len(CanonicalFlags) /\ flags'[p] = Seeded(CanonicalFlags[i])
<1> DEFINE n == Len(CanonicalFlags)
           S == FlagRows \cup {Gone}
           kept == [p \in DOMAIN flags |->
                       IF Holds(p, RetiredKeys) THEN Archived(p, "p129") ELSE flags[p]]
           new == [i \in 1 .. n |-> Seeded(CanonicalFlags[i])]
<1>1. flags' = kept \o new /\ Len(flags) + n <= MaxFlags
  BY DEF ResetForward
<1>2. /\ Len(flags) \in Nat /\ DOMAIN flags = 1 .. Len(flags)
      /\ flags \in [1 .. Len(flags) -> S]
  BY TablesType DEF Inv
<1>3. kept \in [1 .. Len(flags) -> S]
  <2>1. ASSUME NEW p \in 1 .. Len(flags), Holds(p, RetiredKeys)  PROVE Archived(p, "p129") \in S
    BY <2>1, ArchivedRow DEF Inv, Holds
  <2> QED  BY <1>2, <2>1
<1>4. new \in [1 .. n -> S]
  BY SeededRow, Constants DEF Bases
<1>5. \A i \in 1 .. n : new[i] = Seeded(CanonicalFlags[i])
  OBVIOUS
<1>6. \A p \in 1 .. Len(flags) :
         kept[p] = IF Holds(p, RetiredKeys) THEN Archived(p, "p129") ELSE flags[p]
  BY <1>2
<1> HIDE DEF kept, new
<1>7. kept \in Seq(S) /\ Len(kept) = Len(flags)
  BY <1>2, <1>3, Mapped
<1>8. /\ kept \o new \in Seq(S) /\ Len(kept \o new) = Len(kept) + n
      /\ \A p \in 1 .. Len(kept) : (kept \o new)[p] = kept[p]
      /\ \A p \in (1 .. Len(kept) + n) \ (1 .. Len(kept)) :
            p - Len(kept) \in 1 .. n /\ (kept \o new)[p] = new[p - Len(kept)]
  <2>1. n \in Nat
    BY Constants
  <2>2. kept \in Seq(S)
    BY <1>7
  <2> HIDE DEF n, S
  <2> QED  BY <1>4, <2>1, <2>2, Followed
<1>9. DOMAIN flags' = 1 .. Len(flags')
  BY <1>1, <1>8, LenProperties
<1> QED  BY <1>1, <1>5, <1>6, <1>7, <1>8, <1>9

\* 0005 preserves the invariant.
LEMMA ResetForwardInv == ASSUME Inv, ResetForward  PROVE Inv'
<1> DEFINE n == Len(CanonicalFlags)
           Fresh(p) == \E i \in 1 .. n : p = Len(flags) + i
                                         /\ flags'[p] = Seeded(CanonicalFlags[i])
           Old(p) == p \in Flags /\ ~Holds(p, RetiredKeys) /\ flags'[p] = flags[p]
           Put(p) == p \in Flags /\ Holds(p, RetiredKeys) /\ flags'[p] = Archived(p, "p129")
<1>1. /\ level = 4 /\ level' = 5 /\ saved' = saved /\ Len(rules) + n <= MaxRules
      /\ rules' = rules \o [i \in 1 .. n |-> SeededRule(Len(flags) + i)]
      /\ before'.flags = [p \in {q \in Flags : Holds(q, RetiredKeys)} |-> flags[p]]
  <2>1. /\ level = 4 /\ level' = 5 /\ saved' = saved /\ Len(rules) + n <= MaxRules
        /\ rules' = rules \o [i \in 1 .. n |-> SeededRule(Len(flags) + i)]
    BY DEF ResetForward
  <2>2. before' = [before EXCEPT !.flags = [p \in {q \in Flags : Holds(q, RetiredKeys)} |->
                                               flags[p]]]
    BY DEF ResetForward
  <2>3. "flags" \in DOMAIN before
    BY DEF Inv, Noted
  <2> QED  BY <2>1, <2>2, <2>3
<1>2. /\ flags' \in Seq(FlagRows \cup {Gone}) /\ DOMAIN flags' = 1 .. Len(flags')
      /\ Len(flags') = Len(flags) + n /\ Len(flags') <= MaxFlags
      /\ \A p \in 1 .. Len(flags) :
            flags'[p] = IF Holds(p, RetiredKeys) THEN Archived(p, "p129") ELSE flags[p]
      /\ \A p \in (1 .. Len(flags')) \ (1 .. Len(flags)) :
            p - Len(flags) \in 1 .. n /\ flags'[p] = Seeded(CanonicalFlags[p - Len(flags)])
  BY ResetRows
<1>3. /\ Tables /\ Keyed /\ Len(flags) \in Nat /\ Len(rules) \in Nat /\ n \in Nat
      /\ rules \in Seq(RuleRows \cup {Gone}) /\ DOMAIN rules = 1 .. Len(rules)
      /\ \A p \in Flags : p \in 1 .. Len(flags) /\ flags[p] \in FlagRows
  BY TablesType, Constants DEF Inv, Tables
<1>4. ASSUME NEW p \in Flags'  PROVE Fresh(p) \/ Old(p) \/ Put(p)
  <2>1. p \in 1 .. Len(flags') /\ flags'[p] # Gone
    BY <1>2 DEF Flags
  <2>2. CASE p \in 1 .. Len(flags)
    BY <1>2, <1>3, <2>1, <2>2, TablesType DEF Flags, Holds
  <2>3. CASE p \notin 1 .. Len(flags)
    <3>1. /\ p - Len(flags) \in 1 .. n /\ flags'[p] = Seeded(CanonicalFlags[p - Len(flags)])
          /\ p \in Nat
      BY <1>2, <2>1, <2>3
    <3>2. p = Len(flags) + (p - Len(flags))
      BY <1>3, <3>1
    <3> QED  BY <3>1, <3>2
  <2> QED  BY <2>2, <2>3
<1>5. ASSUME NEW p \in Flags', Fresh(p)
      PROVE  /\ InUse(flags'[p]) /\ Formed(flags'[p], p)
             /\ flags'[p].key.base \in CanonicalKeys /\ ~Away(flags'[p])
             /\ \E i \in 1 .. n : p = Len(flags) + i /\ flags'[p].key.base = CanonicalFlags[i]
  <2>1. PICK i \in 1 .. n : p = Len(flags) + i /\ flags'[p] = Seeded(CanonicalFlags[i])
    BY <1>5
  <2>2. CanonicalFlags[i] \in CanonicalKeys /\ CanonicalFlags[i] \in Bases
    BY Constants DEF Bases
  <2> QED  BY <2>1, <2>2, SeededRow DEF InUse, Away
<1>6. ASSUME NEW p \in Flags', Old(p)
      PROVE  /\ Formed(flags'[p], p) /\ ~Away(flags'[p])
             /\ InUse(flags'[p]) => flags'[p].key.base = ContactKey
  <2>1. ~Away(flags[p]) /\ Formed(flags[p], p)
    BY <1>1, <1>3, <1>6 DEF Keyed
  <2>2. InUse(flags[p]) => flags[p].key.base \notin RetiredKeys /\ flags[p].key.base \in Bases
    BY <1>3, <1>6, HoldsMeans DEF FlagRows, KeyRecords
  <2> QED  BY <1>6, <2>1, <2>2 DEF Bases
<1>7. ASSUME NEW p \in Flags', Put(p)
      PROVE  /\ Formed(flags'[p], p) /\ Away(flags'[p]) /\ ~InUse(flags'[p])
             /\ flags'[p].key.base = flags[p].key.base /\ InUse(flags[p])
             /\ PutAway(flags'[p], flags[p])
  <2>1. InUse(flags[p]) /\ flags[p].key.base \in RetiredKeys
    BY <1>3, <1>7, HoldsMeans
  <2>2. /\ flags'[p] \in FlagRows /\ flags'[p].key.prefix = "p129"
        /\ flags'[p].key.base = flags[p].key.base
        /\ flags'[p].key.active = flags[p].active /\ flags'[p].key.pk = p
        /\ flags'[p].default = flags[p].default /\ flags'[p].about = flags[p].about
    BY <1>3, <1>7, ArchivedRow
  <2>3. flags[p] \in FlagRows /\ flags[p].key.active = FALSE /\ flags[p].key.pk = 0
    BY <1>3, <1>7, <2>1 DEF Keyed, Formed
  <2> QED  BY <2>1, <2>2, <2>3 DEF Formed, Away, InUse, PutAway
<1>8. Keyed'
  <2>1. ASSUME NEW p \in Flags'
        PROVE  /\ Formed(flags'[p], p)
               /\ InUse(flags'[p]) => flags'[p].key.base \in CanonicalKeys \cup {ContactKey}
    BY <1>4, <1>5, <1>6, <1>7
  <2>2. ASSUME NEW p \in Flags', NEW q \in Flags', InUse(flags'[p]), InUse(flags'[q]),
               flags'[p].key.base = flags'[q].key.base
        PROVE  p = q
    <3>1. CASE Fresh(p) /\ Fresh(q)
      <4>1. PICK i \in 1 .. n : p = Len(flags) + i /\ flags'[p].key.base = CanonicalFlags[i]
        BY <1>5, <3>1
      <4>2. PICK j \in 1 .. n : q = Len(flags) + j /\ flags'[q].key.base = CanonicalFlags[j]
        BY <1>5, <3>1
      <4>3. i = j
        BY <2>2, <4>1, <4>2, Constants, DeploymentAssumption
      <4> QED  BY <4>1, <4>2, <4>3
    <3>2. CASE Fresh(p) /\ Old(q)
      BY <1>5, <1>6, <2>2, <3>2, Constants
    <3>3. CASE Old(p) /\ Fresh(q)
      BY <1>5, <1>6, <2>2, <3>3, Constants
    <3>4. CASE Old(p) /\ Old(q)
      BY <1>3, <2>2, <3>4 DEF Keyed
    <3> QED  BY <1>4, <1>7, <2>2, <3>1, <3>2, <3>3, <3>4
  <2>3. ASSUME NEW p \in Flags', NEW q \in Flags', Away(flags'[p]), Away(flags'[q]),
               flags'[p].key.base = flags'[q].key.base
        PROVE  p = q
    <3>1. Put(p) /\ Put(q)
      BY <1>4, <1>5, <1>6, <2>3
    <3> QED  BY <1>3, <1>7, <2>3, <3>1 DEF Keyed
  <2> QED  BY <1>1, <2>1, <2>2, <2>3 DEF Keyed
<1>9. Tables'
  <2> DEFINE S == RuleRows \cup {Gone}
             new == [i \in 1 .. n |-> SeededRule(Len(flags) + i)]
  <2>1. /\ new \in [1 .. n -> S]
        /\ \A i \in 1 .. n : new[i].flag = Len(flags) + i
    BY <1>3, SeededRuleRow
  <2> HIDE DEF new
  <2>2. /\ rules \o new \in Seq(S) /\ Len(rules \o new) = Len(rules) + n
        /\ \A r \in 1 .. Len(rules) : (rules \o new)[r] = rules[r]
        /\ \A r \in (1 .. Len(rules) + n) \ (1 .. Len(rules)) :
              r - Len(rules) \in 1 .. n /\ (rules \o new)[r] = new[r - Len(rules)]
    <3>1. rules \in Seq(S)
      BY <1>3
    <3>2. n \in Nat
      BY <1>3
    <3> HIDE DEF n, S
    <3> QED  BY <2>1, <3>1, <3>2, Followed
  <2>3. rules' = rules \o new
    BY <1>1 DEF new
  <2>4. DOMAIN rules' = 1 .. Len(rules) + n
    BY <2>2, <2>3, LenProperties
  <2>5. ASSUME NEW r \in DOMAIN rules', rules'[r] # Gone  PROVE rules'[r].flag \in 1 .. Len(flags')
    <3>1. CASE r \in 1 .. Len(rules)
      <4>1. r \in Rules /\ rules'[r] = rules[r]
        BY <1>3, <2>2, <2>3, <2>5, <3>1 DEF Rules
      <4> QED  BY <1>2, <1>3, <4>1 DEF Tables
    <3>2. CASE r \notin 1 .. Len(rules)
      BY <1>2, <1>3, <2>1, <2>2, <2>3, <2>4, <3>2
    <3> QED  BY <3>1, <3>2
  <2> QED  BY <1>1, <1>2, <2>2, <2>3, <2>5 DEF Tables, Rules
<1>10. History'
  <2>1. Len(rules) <= Len(rules') /\ Len(flags) <= Len(flags')
    <3>1. [i \in 1 .. n |-> SeededRule(Len(flags) + i)] \in [1 .. n -> RuleRows \cup {Gone}]
      BY <1>3, SeededRuleRow
    <3>2. Len(rules') = Len(rules) + n
      BY <1>1, <1>3, <3>1, Followed
    <3> QED  BY <1>2, <1>3, <3>2
  <2>2. Len(rules) \in Nat /\ Len(rules') \in Nat /\ Len(flags) \in Nat /\ Len(flags') \in Nat
    BY <1>3, <1>9, LenProperties DEF Tables
  <2>3. ASSUME NEW p \in 1 .. MaxFlags, saved.flag[p] # Nothing
        PROVE  p <= Len(flags') /\ saved.flag[p].key = Plain(ContactKey)
    <3>1. p <= Len(flags) /\ saved.flag[p].key = Plain(ContactKey)
      BY <2>3 DEF Inv, History
    <3>2. p \in Nat
      BY Constants
    <3> QED  BY <2>1, <2>2, <3>1, <3>2
  <2>4. ASSUME NEW r \in 1 .. MaxRules, saved.rule[r] # Nothing  PROVE r <= Len(rules')
    <3>1. r <= Len(rules)
      BY <2>4 DEF Inv, History
    <3>2. r \in Nat
      BY Constants
    <3> QED  BY <2>1, <2>2, <3>1, <3>2
  <2>5. saved' = saved
    BY <1>1
  <2> QED  BY <2>3, <2>4, <2>5 DEF Inv, History
<1>11. KeptAway'
  <2>1. ASSUME NEW p \in DOMAIN before'.flags
        PROVE  p \in Flags' /\ PutAway(flags'[p], before'.flags[p])
    <3>1. p \in Flags /\ Holds(p, RetiredKeys) /\ before'.flags[p] = flags[p]
      BY <1>1, <2>1
    <3>2. p \in 1 .. Len(flags) /\ flags'[p] = Archived(p, "p129") /\ flags'[p] \in FlagRows
      BY <1>2, <1>3, <3>1, ArchivedRow
    <3>3. p \in Flags'
      BY <1>2, <1>3, <3>2, RowThere DEF Flags
    <3> QED  BY <1>7, <3>1, <3>2, <3>3
  <2> QED  BY <2>1 DEF KeptAway
<1>12. Noted'
  <2>1. before' = [before EXCEPT !.flags = [p \in {q \in Flags : Holds(q, RetiredKeys)} |->
                                               flags[p]]]
    BY DEF ResetForward
  <2> QED  BY <2>1 DEF Inv, Noted
<1> QED  BY <1>1, <1>8, <1>9, <1>10, <1>11, <1>12 DEF Inv, ContactFound

\* What the reverse of 0005 makes of the rows.
LEMMA ReversedRows ==
    ASSUME Inv, ResetReverse
    PROVE  /\ flags' \in Seq(FlagRows \cup {Gone}) /\ Len(flags') = Len(flags)
           /\ DOMAIN flags' = 1 .. Len(flags)
           /\ \A p \in 1 .. Len(flags) : p \notin Flags => flags'[p] = Gone
           /\ \A p \in Flags :
                 /\ flags'[p] \in FlagRows
                 /\ Away(flags[p]) =>
                       /\ InUse(flags'[p]) /\ flags'[p].key = Plain(flags[p].key.base)
                       /\ flags'[p].active = flags[p].key.active
                       /\ flags'[p].default = flags[p].default
                       /\ flags'[p].about = flags[p].about
                 /\ ~Away(flags[p]) =>
                       \/ /\ flags'[p].key.prefix = "rollback" /\ flags'[p].key.pk = p
                          /\ flags'[p].key.base \in RetiredKeys
                       \/ /\ flags'[p] = flags[p]
                          /\ InUse(flags[p]) => flags[p].key.base = ContactKey
<1>0. level = 5 /\ level' = 4 /\ UNCHANGED <<rules, saved, before>>
  BY DEF ResetReverse
<1> DEFINE Restored(f) == [f EXCEPT !.key = Plain(@.base), !.active = f.key.active]
<1>1. flags' = [p \in DOMAIN flags |->
             IF Holds(p, CanonicalKeys) THEN Archived(p, "rollback")
             ELSE IF p \in Flags /\ flags[p].key.prefix = "p129" THEN Restored(flags[p])
             ELSE flags[p]]
  BY DEF ResetReverse
<1>2. /\ Tables /\ Keyed /\ Len(flags) \in Nat /\ DOMAIN flags = 1 .. Len(flags)
      /\ \A p \in Flags : p \in 1 .. Len(flags) /\ flags[p] \in FlagRows
      /\ \A p \in 1 .. Len(flags) : p \notin Flags => flags[p] = Gone
  BY TablesType DEF Inv, Flags
<1>3. ASSUME NEW f \in FlagRows
      PROVE  /\ Restored(f) \in FlagRows /\ Restored(f).key = Plain(f.key.base)
             /\ Restored(f).active = f.key.active
             /\ Restored(f).default = f.default /\ Restored(f).about = f.about
  <2>1. f.key \in KeyRecords /\ f.key.base \in Bases /\ f.key.active \in BOOLEAN
    BY DEF FlagRows, KeyRecords
  <2>2. Plain(f.key.base) \in KeyRecords
    BY <2>1, SeededRow
  <2> QED  BY <2>1, <2>2 DEF FlagRows
<1>4. ASSUME NEW p \in Flags
      PROVE  /\ flags'[p] \in FlagRows
             /\ Away(flags[p]) =>
                   /\ InUse(flags'[p]) /\ flags'[p].key = Plain(flags[p].key.base)
                   /\ flags'[p].active = flags[p].key.active
                   /\ flags'[p].default = flags[p].default
                   /\ flags'[p].about = flags[p].about
             /\ ~Away(flags[p]) =>
                   \/ /\ flags'[p].key.prefix = "rollback" /\ flags'[p].key.pk = p
                      /\ flags'[p].key.base \in RetiredKeys
                   \/ /\ flags'[p] = flags[p]
                      /\ InUse(flags[p]) => flags[p].key.base = ContactKey
  <2>1. p \in DOMAIN flags /\ flags[p] \in FlagRows
    BY <1>2
  <2>2. CASE Holds(p, CanonicalKeys)
    <3>1. InUse(flags[p]) /\ flags[p].key.base \in CanonicalKeys
      BY <1>2, <2>2, HoldsMeans
    <3>2. flags'[p] = Archived(p, "rollback")
      BY <1>1, <2>1, <2>2
    <3>3. /\ flags'[p] \in FlagRows /\ flags'[p].key.prefix = "rollback"
          /\ flags'[p].key.pk = p /\ flags'[p].key.base = flags[p].key.base
      BY <1>2, <3>2, ArchivedRow
    <3>4. ~Away(flags[p])
      BY <3>1 DEF InUse, Away
    <3> QED  BY <3>1, <3>3, <3>4, Constants
  <2>3. CASE ~Holds(p, CanonicalKeys) /\ Away(flags[p])
    <3>1. flags'[p] = Restored(flags[p])
      BY <1>1, <2>1, <2>3 DEF Away
    <3> HIDE DEF Restored
    <3> QED  BY <1>3, <2>1, <2>3, <3>1 DEF InUse, Plain
  <2>4. CASE ~Holds(p, CanonicalKeys) /\ ~Away(flags[p])
    <3>1. flags'[p] = flags[p]
      BY <1>1, <2>1, <2>4 DEF Away
    <3>2. InUse(flags[p]) => flags[p].key.base \in CanonicalKeys \cup {ContactKey}
      <4>1. level # 4
        BY <1>0
      <4> QED  BY <4>1 DEF Inv, Keyed
    <3>3. ~(InUse(flags[p]) /\ flags[p].key.base \in CanonicalKeys)
      BY <1>2, <2>4, HoldsMeans
    <3> QED  BY <2>1, <2>4, <3>1, <3>2, <3>3
  <2> QED  BY <2>2, <2>3, <2>4
<1>5. ASSUME NEW p \in 1 .. Len(flags), p \notin Flags  PROVE flags'[p] = Gone
  BY <1>1, <1>2, <1>5 DEF Holds
<1>6. flags' \in [1 .. Len(flags) -> FlagRows \cup {Gone}]
  <2>1. \A p \in 1 .. Len(flags) : flags'[p] \in FlagRows \cup {Gone}
    BY <1>4, <1>5
  <2>2. flags' = [p \in 1 .. Len(flags) |-> flags'[p]]
    BY <1>1, <1>2
  <2> QED  BY <2>1, <2>2
<1>7. flags' \in Seq(FlagRows \cup {Gone}) /\ Len(flags') = Len(flags)
      /\ DOMAIN flags' = 1 .. Len(flags)
  BY <1>2, <1>6, Mapped
<1> QED  BY <1>4, <1>5, <1>7

\* The reverse of 0005 preserves the invariant.
LEMMA ResetReverseInv == ASSUME Inv, ResetReverse  PROVE Inv'
<1>1. level = 5 /\ level' = 4 /\ UNCHANGED <<rules, saved, before>>
  BY DEF ResetReverse
<1>2. /\ flags' \in Seq(FlagRows \cup {Gone}) /\ Len(flags') = Len(flags)
      /\ DOMAIN flags' = 1 .. Len(flags)
      /\ \A p \in 1 .. Len(flags) : p \notin Flags => flags'[p] = Gone
      /\ \A p \in Flags :
            /\ flags'[p] \in FlagRows
            /\ Away(flags[p]) => InUse(flags'[p]) /\ flags'[p].key = Plain(flags[p].key.base)
            /\ ~Away(flags[p]) =>
                  \/ /\ flags'[p].key.prefix = "rollback" /\ flags'[p].key.pk = p
                     /\ flags'[p].key.base \in RetiredKeys
                  \/ /\ flags'[p] = flags[p]
                     /\ InUse(flags[p]) => flags[p].key.base = ContactKey
  BY ReversedRows
<1>3. Tables' /\ History' /\ KeptAway' /\ ContactFound'
  BY <1>1, <1>2 DEF Inv, Tables, History, KeptAway, ContactFound, Rules
<1>4. Flags' \subseteq Flags
  BY <1>2 DEF Flags
<1>5. ASSUME NEW p \in Flags'
      PROVE  /\ Formed(flags'[p], p) /\ ~Away(flags'[p])
             /\ InUse(flags'[p]) => /\ flags'[p].key.base = flags[p].key.base
                                    /\ Away(flags[p]) => flags[p].key.base \in RetiredKeys
                                    /\ ~Away(flags[p]) => /\ flags[p].key.base = ContactKey
                                                          /\ InUse(flags[p])
  <2>1. p \in Flags /\ Formed(flags[p], p)
    BY <1>4 DEF Inv, Keyed
  <2>2. CASE Away(flags[p])
    <3>1. InUse(flags'[p]) /\ flags'[p].key = Plain(flags[p].key.base)
      BY <1>2, <2>1, <2>2
    <3>2. /\ flags'[p].key.prefix = "none" /\ flags'[p].key.base = flags[p].key.base
          /\ flags'[p].key.active = FALSE /\ flags'[p].key.pk = 0
      BY <3>1 DEF Plain
    <3>3. flags[p].key.base \in RetiredKeys
      BY <2>1, <2>2 DEF Formed, Away, InUse
    <3> QED  BY <2>2, <3>1, <3>2, <3>3 DEF Formed, Away
  <2>3. CASE ~Away(flags[p])
    BY <1>2, <2>1, <2>3 DEF Formed, Away, InUse
  <2> QED  BY <2>2, <2>3
<1>6. ASSUME NEW p \in Flags', NEW q \in Flags', InUse(flags'[p]), InUse(flags'[q]),
             flags'[p].key.base = flags'[q].key.base
      PROVE  p = q
  <2>1. p \in Flags /\ q \in Flags /\ flags[p].key.base = flags[q].key.base
    BY <1>4, <1>5, <1>6
  <2>2. CASE Away(flags[p]) /\ Away(flags[q])
    BY <2>1, <2>2 DEF Inv, Keyed
  <2>3. CASE ~Away(flags[p]) /\ ~Away(flags[q])
    BY <1>5, <1>6, <2>1, <2>3 DEF Inv, Keyed
  <2> QED  BY <1>5, <1>6, <2>1, <2>2, <2>3, Constants
<1>7. Keyed'
  BY <1>1, <1>5, <1>6 DEF Keyed
<1> QED  BY <1>1, <1>3, <1>7 DEF Inv, Noted

----------------------------------------------------------------------------
(* 0006 and its reverse.                                                   *)

\* The contact page's flag is the one in force with that key.
LEMMA ContactsMean ==
    ASSUME Tables, Keyed
    PROVE  /\ \A p \in Flags : p \in Contacts <=> InUse(flags[p]) /\ flags[p].key.base = ContactKey
           /\ \A p, q \in Contacts : p = q
           /\ Contacts \subseteq Flags
<1>1. \A p \in Flags : p \in Contacts <=> InUse(flags[p]) /\ flags[p].key.base = ContactKey
  BY HoldsMeans DEF Contacts
<1>2. Contacts \subseteq Flags
  BY DEF Contacts
<1> QED  BY <1>1, <1>2 DEF Keyed

\* Where 0006 lays the contact page's definition.
Place == IF Contacts = {} THEN Len(flags) + 1 ELSE CHOOSE q \in Contacts : TRUE

\* 0006 lays it over what it found, or after all the others.
LEMMA LaidRows ==
    ASSUME Inv, ContactForward
    PROVE  /\ Place \in 1 .. MaxFlags
           /\ Contacts = {} => Place = Len(flags) + 1 /\ Len(flags') = Len(flags) + 1
           /\ Contacts # {} => Place \in Contacts /\ Len(flags') = Len(flags)
                               /\ Place \in Flags /\ Place \in 1 .. Len(flags)
           /\ flags' \in Seq(FlagRows \cup {Gone}) /\ DOMAIN flags' = 1 .. Len(flags')
           /\ Len(flags') <= MaxFlags /\ Len(flags) <= Len(flags')
           /\ flags'[Place] = Seeded(ContactKey) /\ Place \in 1 .. Len(flags')
           /\ \A q \in 1 .. Len(flags) : q # Place => flags'[q] = flags[q]
           /\ \A q \in 1 .. Len(flags') : q # Place => q \in 1 .. Len(flags)
<1> DEFINE p == Place
           S == FlagRows \cup {Gone}
<1>0. p <= MaxFlags
  BY DEF ContactForward, Place
<1>1. flags' = IF Contacts = {} THEN Append(flags, Seeded(ContactKey))
               ELSE [flags EXCEPT ![p] = Seeded(ContactKey)]
  BY DEF ContactForward, Place
<1>2. /\ flags \in Seq(S) /\ Len(flags) \in Nat /\ DOMAIN flags = 1 .. Len(flags)
      /\ Len(flags) <= MaxFlags /\ MaxFlags \in Nat
      /\ Contacts \subseteq Flags /\ \A q \in Flags : q \in 1 .. Len(flags)
  BY TablesType, Constants, ContactsMean DEF Inv, Tables
<1>3. Seeded(ContactKey) \in S
  BY SeededRow DEF Bases
<1>4. CASE Contacts = {}
  <2>1. p = Len(flags) + 1 /\ flags' = Append(flags, Seeded(ContactKey))
    BY <1>1, <1>4 DEF Place
  <2>2. /\ Append(flags, Seeded(ContactKey)) \in Seq(S)
        /\ Len(Append(flags, Seeded(ContactKey))) = Len(flags) + 1
        /\ \A i \in 1 .. Len(flags) : Append(flags, Seeded(ContactKey))[i] = flags[i]
        /\ Append(flags, Seeded(ContactKey))[Len(flags) + 1] = Seeded(ContactKey)
    <3> HIDE DEF S
    <3> QED  BY <1>2, <1>3, AppendProperties
  <2>3. DOMAIN flags' = 1 .. Len(flags')
    BY <2>1, <2>2, LenProperties
  <2>4. flags' \in Seq(S) /\ Len(flags') = Len(flags) + 1 /\ p \in Nat
        /\ flags'[p] = Seeded(ContactKey)
        /\ \A q \in 1 .. Len(flags) : flags'[q] = flags[q]
    BY <1>2, <2>1, <2>2
  <2> QED  BY <1>0, <1>2, <1>4, <2>1, <2>3, <2>4
<1>5. CASE Contacts # {}
  <2>0. flags' = [flags EXCEPT ![p] = Seeded(ContactKey)]
    BY <1>1, <1>5
  <2>1. p \in Contacts
    BY <1>5 DEF Place
  <2>2. p \in 1 .. Len(flags) /\ p \in Flags
    BY <1>2, <2>1
  <2>3. flags' \in Seq(S) /\ Len(flags') = Len(flags) /\ DOMAIN flags' = 1 .. Len(flags)
    <3>1. flags' \in [1 .. Len(flags) -> S]
      <4>1. flags \in [1 .. Len(flags) -> S]
        BY TablesType DEF Inv
      <4> HIDE DEF S, p
      <4> QED  BY <1>2, <1>3, <2>0, <2>2, <4>1
    <3> HIDE DEF S
    <3> QED  BY <1>2, <3>1, Mapped
  <2>4. flags'[p] = Seeded(ContactKey) /\ \A q \in 1 .. Len(flags) : q # p => flags'[q] = flags[q]
    <3> HIDE DEF p
    <3> QED  BY <1>2, <2>0, <2>2
  <2>5. p \in 1 .. MaxFlags
    BY <1>0, <1>2, <2>2
  <2>6. /\ DOMAIN flags' = 1 .. Len(flags') /\ Len(flags') <= MaxFlags
        /\ Len(flags) <= Len(flags') /\ p \in 1 .. Len(flags')
        /\ \A q \in 1 .. Len(flags') : q \in 1 .. Len(flags)
    BY <1>2, <2>2, <2>3
  <2> HIDE DEF p
  <2> QED  BY <1>5, <2>1, <2>2, <2>3, <2>4, <2>5, <2>6 DEF p
<1> QED  BY <1>4, <1>5

\* What 0006 leaves in the history, and about the rule it has laid.
RuleLaid ==
    /\ saved' \in [flag : [1 .. MaxFlags -> FlagRows \cup {Nothing}],
                   mark : [1 .. MaxFlags -> Marks \cup {Nothing}],
                   rule : [1 .. MaxRules -> RuleRows \cup {Nothing}]]
    /\ \A q \in 1 .. MaxFlags : q # Place => saved'.flag[q] = saved.flag[q]
    /\ saved'.flag[Place] = IF Contacts = {} THEN Nothing ELSE flags[Place]
    /\ before'.pk = Place /\ before'.flags = before.flags
    /\ before'.contact = saved'.flag[Place]
    /\ rules' \in Seq(RuleRows \cup {Gone}) /\ Len(rules') <= MaxRules
    /\ DOMAIN rules' = 1 .. Len(rules') /\ Len(rules) <= Len(rules')
    /\ LET m == saved'.mark[Place]
       IN  /\ m \in Marks /\ m.rule \in 1 .. Len(rules')
           /\ rules'[m.rule] = SeededRule(Place)
           /\ \A r \in 1 .. Len(rules') : r # m.rule =>
                 r \in 1 .. Len(rules) /\ rules'[r] = rules[r]
           /\ m.made => saved'.rule = saved.rule /\ before'.rule = Nothing
                        /\ m.rule = Len(rules) + 1
           /\ ~m.made => /\ m.rule \in Rules /\ Contacts # {}
                         /\ before'.rule = rules[m.rule] /\ before'.rule.flag = Place
                         /\ saved'.rule[m.rule] = rules[m.rule]
                         /\ \A r \in 1 .. MaxRules : r # m.rule =>
                               saved'.rule[r] = saved.rule[r]

\* 0006 leaves that.
LEMMA LaidRule == ASSUME Inv, ContactForward  PROVE RuleLaid
<1> DEFINE p == Place
           own == {r \in Rules : rules[r].flag = p /\ rules[r].own}
           new == Len(rules) + 1
           S == RuleRows \cup {Gone}
<1>1. /\ p \in 1 .. MaxFlags /\ p \in Nat
      /\ Contacts = {} => p = Len(flags) + 1
      /\ Contacts # {} => p \in Flags /\ flags[p] \in FlagRows
  <2>1. \A q \in Flags : flags[q] \in FlagRows
    BY TablesType DEF Inv
  <2>2. MaxFlags \in Nat
    BY Constants
  <2>3. p \in 1 .. MaxFlags
    BY LaidRows
  <2>4. Contacts = {} => p = Len(flags) + 1
    BY LaidRows
  <2>5. Contacts # {} => p \in Flags
    BY LaidRows
  <2>6. p \in Nat
    BY <2>2, <2>3
  <2> QED  BY <2>1, <2>3, <2>4, <2>5, <2>6
<1>2. /\ rules \in Seq(S) /\ Len(rules) \in Nat /\ DOMAIN rules = 1 .. Len(rules)
      /\ rules \in [1 .. Len(rules) -> S] /\ Len(rules) <= MaxRules /\ MaxRules \in Nat
      /\ \A r \in Rules : r \in 1 .. Len(rules) /\ rules[r] \in RuleRows
      /\ \A r \in Rules : rules[r].flag \in 1 .. Len(flags)
      /\ Len(flags) \in Nat
  BY TablesType, Constants DEF Inv, Tables
<1>3. /\ saved.flag \in [1 .. MaxFlags -> FlagRows \cup {Nothing}]
      /\ saved.mark \in [1 .. MaxFlags -> Marks \cup {Nothing}]
      /\ saved.rule \in [1 .. MaxRules -> RuleRows \cup {Nothing}]
      /\ Contacts = {} => saved.flag[p] = Nothing
  BY <1>1, <1>2 DEF Inv, History
<1>4. SeededRule(p) \in RuleRows /\ SeededRule(p) \in S
  BY <1>1, SeededRuleRow
<1> DEFINE Kept == IF Contacts = {} THEN saved.flag[p] ELSE flags[p]
<1>5. Kept \in FlagRows \cup {Nothing} /\ Kept = IF Contacts = {} THEN Nothing ELSE flags[p]
  BY <1>1, <1>3
<1>6. \/ /\ own = {} /\ new <= MaxRules
         /\ rules' = Append(rules, SeededRule(p))
         /\ saved' = [saved EXCEPT !.flag[p] = Kept, !.mark[p] = [rule |-> new, made |-> TRUE]]
         /\ before' = [before EXCEPT !.contact = IF Contacts = {} THEN Nothing ELSE flags[p],
                                     !.rule = Nothing, !.pk = p]
      \/ \E r \in own :
         /\ rules' = [rules EXCEPT ![r] = SeededRule(p)]
         /\ saved' = [saved EXCEPT !.flag[p] = Kept, !.mark[p] = [rule |-> r, made |-> FALSE],
                                   !.rule[r] = rules[r]]
         /\ before' = [before EXCEPT !.contact = flags[p], !.rule = rules[r], !.pk = p]
  BY DEF ContactForward, Place, Found
<1> HIDE DEF Kept
<1>7. CASE own = {} /\ new <= MaxRules
           /\ rules' = Append(rules, SeededRule(p))
           /\ saved' = [saved EXCEPT !.flag[p] = Kept,
                                     !.mark[p] = [rule |-> new, made |-> TRUE]]
           /\ before' = [before EXCEPT !.contact = IF Contacts = {} THEN Nothing ELSE flags[p],
                                       !.rule = Nothing, !.pk = p]
  <2>1. /\ rules' \in Seq(S) /\ Len(rules') = new /\ rules'[new] = SeededRule(p)
        /\ \A r \in 1 .. Len(rules) : rules'[r] = rules[r]
    <3>1. /\ Append(rules, SeededRule(p)) \in Seq(S)
          /\ Len(Append(rules, SeededRule(p))) = Len(rules) + 1
          /\ \A i \in 1 .. Len(rules) : Append(rules, SeededRule(p))[i] = rules[i]
          /\ Append(rules, SeededRule(p))[Len(rules) + 1] = SeededRule(p)
      <4>1. rules \in Seq(S)
        BY <1>2
      <4> HIDE DEF S, p
      <4> QED  BY <1>4, <4>1, AppendProperties
    <3>2. rules' = Append(rules, SeededRule(p))
      BY <1>7
    <3> QED  BY <3>1, <3>2
  <2>2. DOMAIN rules' = 1 .. Len(rules')
    BY <2>1, LenProperties
  <2> DEFINE m == [rule |-> new, made |-> TRUE]
  <2>3. m \in Marks /\ m.rule = new /\ m.made
    BY <1>2 DEF Marks
  <2>4. saved' \in [flag : [1 .. MaxFlags -> FlagRows \cup {Nothing}],
                    mark : [1 .. MaxFlags -> Marks \cup {Nothing}],
                    rule : [1 .. MaxRules -> RuleRows \cup {Nothing}]]
        /\ saved'.flag = [saved.flag EXCEPT ![p] = Kept]
        /\ saved'.mark = [saved.mark EXCEPT ![p] = m] /\ saved'.rule = saved.rule
    <3>1. saved' = [saved EXCEPT !.flag[p] = Kept, !.mark[p] = m]
      BY <1>7
    <3>2. saved \in [flag : [1 .. MaxFlags -> FlagRows \cup {Nothing}],
                     mark : [1 .. MaxFlags -> Marks \cup {Nothing}],
                     rule : [1 .. MaxRules -> RuleRows \cup {Nothing}]]
      BY DEF Inv, History
    <3> HIDE DEF m, p
    <3> QED  BY <1>1, <1>5, <2>3, <3>1, <3>2
  <2>5. saved'.flag[p] = Kept /\ saved'.mark[p] = m
        /\ \A q \in 1 .. MaxFlags : q # p => saved'.flag[q] = saved.flag[q]
    <3> HIDE DEF m, p
    <3> QED  BY <1>1, <1>3, <2>4
  <2>6. before'.contact = saved'.flag[p] /\ before'.rule = Nothing /\ before'.pk = p
        /\ before'.flags = before.flags
    <3>1. before' = [before EXCEPT !.contact = IF Contacts = {} THEN Nothing ELSE flags[p],
                                   !.rule = Nothing, !.pk = p]
      BY <1>7
    <3>2. {"flags", "contact", "rule", "pk"} \subseteq DOMAIN before
      BY DEF Inv, Noted
    <3> HIDE DEF p
    <3> QED  BY <1>5, <2>5, <3>1, <3>2
  <2>7. /\ saved'.mark[p] \in Marks /\ saved'.mark[p].rule = new /\ saved'.mark[p].made
    BY <2>3, <2>5
  <2>8. /\ new \in 1 .. Len(rules') /\ Len(rules') <= MaxRules /\ Len(rules) <= Len(rules')
        /\ \A r \in 1 .. Len(rules') : r # new => r \in 1 .. Len(rules) /\ rules'[r] = rules[r]
    BY <1>2, <1>7, <2>1
  <2>9. saved'.flag[p] = IF Contacts = {} THEN Nothing ELSE flags[p]
    BY <1>5, <2>5
  <2> HIDE DEF m, p, own, new
  <2> QED  BY <2>1, <2>2, <2>4, <2>5, <2>6, <2>7, <2>8, <2>9 DEF RuleLaid, p, new
<1>8. ASSUME NEW r \in own,
             rules' = [rules EXCEPT ![r] = SeededRule(p)],
             saved' = [saved EXCEPT !.flag[p] = Kept, !.mark[p] = [rule |-> r, made |-> FALSE],
                                    !.rule[r] = rules[r]],
             before' = [before EXCEPT !.contact = flags[p], !.rule = rules[r], !.pk = p]
      PROVE  RuleLaid
  <2>1. /\ r \in Rules /\ r \in 1 .. Len(rules) /\ rules[r] \in RuleRows /\ rules[r].flag = p
        /\ r \in 1 .. MaxRules /\ r \in Nat
    BY <1>2, <1>8
  <2>2. Contacts # {}
    BY <1>1, <1>2, <2>1
  <2>3. rules' \in [1 .. Len(rules) -> S] /\ rules'[r] = SeededRule(p)
        /\ \A q \in 1 .. Len(rules) : q # r => rules'[q] = rules[q]
    <3>1. rules' = [rules EXCEPT ![r] = SeededRule(p)]
      BY <1>8
    <3> HIDE DEF p, S, own
    <3> QED  BY <1>2, <1>4, <2>1, <3>1
  <2>4. rules' \in Seq(S) /\ Len(rules') = Len(rules) /\ DOMAIN rules' = 1 .. Len(rules)
    <3> HIDE DEF S
    <3> QED  BY <1>2, <2>3, Mapped
  <2> DEFINE m == [rule |-> r, made |-> FALSE]
  <2>5. m \in Marks /\ m.rule = r /\ ~m.made
    BY <2>1 DEF Marks
  <2>6. saved' \in [flag : [1 .. MaxFlags -> FlagRows \cup {Nothing}],
                    mark : [1 .. MaxFlags -> Marks \cup {Nothing}],
                    rule : [1 .. MaxRules -> RuleRows \cup {Nothing}]]
        /\ saved'.flag = [saved.flag EXCEPT ![p] = Kept]
        /\ saved'.mark = [saved.mark EXCEPT ![p] = m]
        /\ saved'.rule = [saved.rule EXCEPT ![r] = rules[r]]
    <3>1. saved' = [saved EXCEPT !.flag[p] = Kept, !.mark[p] = m, !.rule[r] = rules[r]]
      BY <1>8
    <3>2. saved \in [flag : [1 .. MaxFlags -> FlagRows \cup {Nothing}],
                     mark : [1 .. MaxFlags -> Marks \cup {Nothing}],
                     rule : [1 .. MaxRules -> RuleRows \cup {Nothing}]]
      BY DEF Inv, History
    <3> HIDE DEF m, p, own
    <3> QED  BY <1>1, <1>5, <2>1, <2>5, <3>1, <3>2
  <2>7. /\ saved'.flag[p] = Kept /\ saved'.mark[p] = m /\ saved'.rule[r] = rules[r]
        /\ \A q \in 1 .. MaxFlags : q # p => saved'.flag[q] = saved.flag[q]
        /\ \A q \in 1 .. MaxRules : q # r => saved'.rule[q] = saved.rule[q]
    <3> HIDE DEF m, p, own
    <3> QED  BY <1>1, <1>3, <2>1, <2>6
  <2>8. before'.contact = saved'.flag[p] /\ before'.rule = rules[r] /\ before'.pk = p
        /\ before'.flags = before.flags
    <3>1. before' = [before EXCEPT !.contact = flags[p], !.rule = rules[r], !.pk = p]
      BY <1>8
    <3>2. {"flags", "contact", "rule", "pk"} \subseteq DOMAIN before
      BY DEF Inv, Noted
    <3> HIDE DEF p, own
    <3> QED  BY <1>5, <2>2, <2>7, <3>1, <3>2
  <2>9. /\ saved'.mark[p] \in Marks /\ saved'.mark[p].rule = r /\ ~saved'.mark[p].made
    BY <2>5, <2>7
  <2>10. saved'.flag[p] = IF Contacts = {} THEN Nothing ELSE flags[p]
    BY <1>5, <2>7
  <2>11. Len(rules') <= MaxRules /\ DOMAIN rules' = 1 .. Len(rules') /\ Len(rules) <= Len(rules')
         /\ r \in 1 .. Len(rules')
         /\ \A q \in 1 .. Len(rules') : q # r => q \in 1 .. Len(rules) /\ rules'[q] = rules[q]
    BY <1>2, <2>1, <2>3, <2>4
  <2> HIDE DEF m, p, own, new
  <2> QED
    BY <2>1, <2>2, <2>3, <2>4, <2>6, <2>7, <2>8, <2>9, <2>10, <2>11 DEF RuleLaid, p
<1> QED  BY <1>6, <1>7, <1>8

\* 0006 preserves the invariant.
LEMMA ContactForwardInv == ASSUME Inv, ContactForward  PROVE Inv'
<1> DEFINE p == Place
           m == saved'.mark[p]
<1>1. level = 5 /\ level' = 6
  BY DEF ContactForward
<1>2. /\ p \in 1 .. MaxFlags
      /\ Contacts = {} => p = Len(flags) + 1 /\ Len(flags') = Len(flags) + 1
      /\ Contacts # {} => p \in Contacts /\ Len(flags') = Len(flags)
                          /\ p \in Flags /\ p \in 1 .. Len(flags)
      /\ flags' \in Seq(FlagRows \cup {Gone}) /\ DOMAIN flags' = 1 .. Len(flags')
      /\ Len(flags') <= MaxFlags /\ Len(flags) <= Len(flags')
      /\ flags'[p] = Seeded(ContactKey) /\ p \in 1 .. Len(flags')
      /\ \A q \in 1 .. Len(flags) : q # p => flags'[q] = flags[q]
      /\ \A q \in 1 .. Len(flags') : q # p => q \in 1 .. Len(flags)
  BY LaidRows
<1>2a. /\ Len(flags) \in Nat /\ Len(flags') \in Nat /\ Len(flags) <= Len(flags')
       /\ p \in 1 .. Len(flags') /\ DOMAIN flags' = 1 .. Len(flags')
       /\ \A q \in 1 .. Len(flags) : q \in 1 .. Len(flags')
  <2>1. Len(flags') \in Nat /\ Len(flags) \in Nat
    BY <1>2, TablesType, LenProperties DEF Inv
  <2>2. Len(flags) <= Len(flags') /\ p \in 1 .. Len(flags') /\ DOMAIN flags' = 1 .. Len(flags')
    BY <1>2
  <2> QED  BY <2>1, <2>2
<1>2b. \A q \in 1 .. Len(flags) : q # p => flags'[q] = flags[q]
  BY <1>2
<1>3. RuleLaid
  BY LaidRule
<1>4. /\ Tables /\ Keyed /\ Contacts \subseteq Flags
      /\ \A q \in Flags : q \in Contacts <=> InUse(flags[q]) /\ flags[q].key.base = ContactKey
      /\ \A q, r \in Contacts : q = r
      /\ Len(flags) \in Nat /\ Len(rules) \in Nat
      /\ \A q \in Flags : q \in 1 .. Len(flags) /\ flags[q] \in FlagRows
      /\ DOMAIN flags = 1 .. Len(flags) /\ DOMAIN rules = 1 .. Len(rules)
  BY TablesType, ContactsMean DEF Inv
<1>5. /\ Seeded(ContactKey) \in FlagRows /\ Seeded(ContactKey).key.base = ContactKey
      /\ Seeded(ContactKey).key = Plain(ContactKey)
      /\ InUse(Seeded(ContactKey)) /\ Formed(Seeded(ContactKey), p) /\ ~Away(Seeded(ContactKey))
      /\ Seeded(ContactKey) # Gone
  <2>1. ContactKey \in Bases
    BY DEF Bases
  <2>2. Seeded(ContactKey).key = Plain(ContactKey)
    BY DEF Seeded
  <2> QED  BY <2>1, <2>2, SeededRow, RowThere DEF InUse, Away
<1>6. p \in Flags' /\ \A q \in Flags' : q # p => q \in Flags /\ flags'[q] = flags[q]
  BY <1>2, <1>4, <1>5 DEF Flags
<1>7. ASSUME NEW q \in Flags, q # p  PROVE q \in Flags' /\ flags'[q] = flags[q]
  <2>1. q \in 1 .. Len(flags) /\ flags[q] # Gone
    BY <1>4, <1>7 DEF Flags
  <2>2. q \in 1 .. Len(flags') /\ flags'[q] = flags[q]
    BY <1>2a, <1>2b, <1>7, <2>1
  <2> QED  BY <1>2a, <2>1, <2>2 DEF Flags
<1>8. ASSUME NEW q \in Flags, q # p, InUse(flags[q])  PROVE flags[q].key.base # ContactKey
  BY <1>2, <1>4, <1>8
<1>9. Keyed'
  <2>1. ASSUME NEW q \in Flags'
        PROVE  \/ /\ q = p /\ Formed(flags'[q], q) /\ InUse(flags'[q]) /\ ~Away(flags'[q])
                  /\ flags'[q].key.base = ContactKey
               \/ /\ q # p /\ q \in Flags /\ flags'[q] = flags[q]
                  /\ InUse(flags[q]) => flags[q].key.base # ContactKey
    BY <1>2, <1>5, <1>6, <1>8
  <2>2. ASSUME NEW q \in Flags'
        PROVE  /\ Formed(flags'[q], q)
               /\ InUse(flags'[q]) => flags'[q].key.base \in CanonicalKeys \cup {ContactKey}
    <3>1. level # 4
      BY <1>1
    <3> HIDE DEF p
    <3> QED  BY <1>4, <2>1, <3>1 DEF Keyed
  <2>3. \A q, r \in Flags' : InUse(flags'[q]) /\ InUse(flags'[r])
                             /\ flags'[q].key.base = flags'[r].key.base => q = r
    <3> HIDE DEF p
    <3> QED  BY <1>4, <2>1 DEF Keyed
  <2>4. \A q, r \in Flags' : Away(flags'[q]) /\ Away(flags'[r])
                             /\ flags'[q].key.base = flags'[r].key.base => q = r
    <3> HIDE DEF p
    <3> QED  BY <1>4, <2>1 DEF Keyed
  <2> QED  BY <1>1, <2>2, <2>3, <2>4 DEF Keyed
<1>10. /\ m \in Marks /\ m.rule \in 1 .. Len(rules') /\ m.rule \in Nat
       /\ rules' \in Seq(RuleRows \cup {Gone}) /\ Len(rules') <= MaxRules
       /\ DOMAIN rules' = 1 .. Len(rules') /\ Len(rules) <= Len(rules')
       /\ rules'[m.rule] = SeededRule(p) /\ Len(rules') \in Nat
       /\ \A r \in 1 .. Len(rules') : r # m.rule => r \in 1 .. Len(rules) /\ rules'[r] = rules[r]
  <2>1. rules' \in Seq(RuleRows \cup {Gone}) /\ m \in Marks
    BY <1>3 DEF RuleLaid
  <2> QED  BY <1>3, <2>1, LenProperties DEF RuleLaid, Marks
<1>11. Tables'
  <2>1. \A r \in Rules' : rules'[r].flag \in 1 .. Len(flags')
    <3>1. SeededRule(p).flag = p
      BY DEF SeededRule
    <3>2. \A r \in Rules : rules[r].flag \in 1 .. Len(flags')
      <4>1. \A r \in Rules : rules[r].flag \in 1 .. Len(flags)
        BY <1>4 DEF Tables
      <4>2. Len(flags) <= Len(flags') /\ Len(flags') \in Nat /\ Len(flags) \in Nat
        BY <1>2, <1>4, LenProperties
      <4> QED  BY <4>1, <4>2
    <3>3. \A r \in Rules' : r # m.rule => r \in Rules /\ rules'[r] = rules[r]
      BY <1>4, <1>10 DEF Rules
    <3> QED  BY <1>2, <1>10, <3>1, <3>2, <3>3
  <2> QED  BY <1>1, <1>2, <1>10, <2>1 DEF Tables
<1>12. /\ saved' \in [flag : [1 .. MaxFlags -> FlagRows \cup {Nothing}],
                      mark : [1 .. MaxFlags -> Marks \cup {Nothing}],
                      rule : [1 .. MaxRules -> RuleRows \cup {Nothing}]]
       /\ \A q \in 1 .. MaxFlags : q # p => saved'.flag[q] = saved.flag[q]
       /\ saved'.flag[p] = IF Contacts = {} THEN Nothing ELSE flags[p]
       /\ before'.pk = p /\ before'.flags = before.flags
       /\ before'.contact = saved'.flag[p]
       /\ m.made => saved'.rule = saved.rule /\ before'.rule = Nothing
                    /\ m.rule = Len(rules) + 1
       /\ ~m.made => /\ m.rule \in Rules /\ Contacts # {}
                     /\ before'.rule = rules[m.rule] /\ before'.rule.flag = p
                     /\ saved'.rule[m.rule] = rules[m.rule]
                     /\ \A r \in 1 .. MaxRules : r # m.rule => saved'.rule[r] = saved.rule[r]
  BY <1>3 DEF RuleLaid
<1>13. p \in Contacts => flags[p].key = Plain(ContactKey)
  BY DEF Contacts, Holds
<1>14. MaxFlags \in Nat /\ MaxRules \in Nat /\ Len(flags') \in Nat
  BY <1>2, Constants, LenProperties
<1>15. History'
  <2>1. ASSUME NEW q \in 1 .. MaxFlags, saved'.flag[q] # Nothing
        PROVE  q <= Len(flags') /\ saved'.flag[q].key = Plain(ContactKey)
    <3>1. CASE q = p
      <4>1. Contacts # {} /\ saved'.flag[q] = flags[p]
        BY <1>12, <2>1, <3>1
      <4>2. p \in Contacts
        BY <1>2, <4>1
      <4> QED  BY <1>2a, <1>13, <3>1, <4>1, <4>2
    <3>2. CASE q # p
      <4>1. q <= Len(flags) /\ saved'.flag[q].key = Plain(ContactKey)
        BY <1>12, <2>1, <3>2 DEF Inv, History
      <4> QED  BY <1>2a, <4>1
    <3> QED  BY <3>1, <3>2
  <2>2. ASSUME NEW r \in 1 .. MaxRules, saved'.rule[r] # Nothing  PROVE r <= Len(rules')
    <3>1. CASE saved.rule[r] # Nothing
      <4>1. r <= Len(rules)
        BY <3>1 DEF Inv, History
      <4> QED  BY <1>4, <1>10, <1>14, <4>1
    <3>2. CASE r = m.rule
      BY <1>10, <3>2
    <3> QED  BY <1>12, <2>2, <3>1, <3>2
  <2> QED  BY <1>12, <2>1, <2>2 DEF History
<1>16. KeptAway'
  <2>1. ASSUME NEW q \in DOMAIN before'.flags
        PROVE  q \in Flags' /\ PutAway(flags'[q], before'.flags[q])
    <3>1. q \in Flags /\ PutAway(flags[q], before.flags[q]) /\ before'.flags = before.flags
      BY <1>1, <1>12, <2>1 DEF Inv, KeptAway
    <3>2. Away(flags[q]) /\ ~InUse(flags[q])
      BY <3>1 DEF PutAway, Away, InUse
    <3>3. q # p
      <4>1. Contacts = {} => p = Len(flags) + 1
        BY <1>2
      <4>2. Contacts # {} => p \in Contacts
        BY <1>2
      <4>3. q \in 1 .. Len(flags)
        BY <1>4, <3>1
      <4>4. q \notin Contacts
        BY <1>4, <3>1, <3>2
      <4> QED  BY <1>2a, <4>1, <4>2, <4>3, <4>4
    <3> QED  BY <1>7, <3>1, <3>3
  <2> QED  BY <2>1 DEF KeptAway
<1>17. ContactFound'
  <2>1. p \in Contacts'
    BY <1>2, <1>5, <1>6 DEF Contacts, Holds
  <2>2. m.made => saved'.rule[m.rule] = Nothing
    <3>1. ASSUME m.made  PROVE saved.rule[m.rule] = Nothing
      <4>1. m.rule \in 1 .. MaxRules /\ ~(m.rule <= Len(rules))
        BY <1>4, <1>10, <1>12, <1>14, <3>1
      <4> QED  BY <4>1 DEF Inv, History
    <3> QED  BY <1>12, <3>1
  <2>3. ~m.made => /\ before'.rule \in RuleRows /\ before'.rule.flag = p
                   /\ before'.contact # Nothing /\ saved'.rule[m.rule] = before'.rule
    <3>1. \A r \in Rules : rules[r] \in RuleRows
      BY <1>4, TablesType
    <3>2. Contacts # {} => flags[p] # Nothing
      BY <1>2, <1>4, RowThere
    <3> QED  BY <1>12, <3>1, <3>2
  <2> QED  BY <1>10, <1>12, <2>1, <2>2, <2>3 DEF ContactFound
<1>18. Noted'
  <2>1. before' \in {[before EXCEPT !.contact = IF Contacts = {} THEN Nothing ELSE flags[p],
                                    !.rule = Nothing, !.pk = p]}
        \/ \E r : before' = [before EXCEPT !.contact = flags[p], !.rule = rules[r], !.pk = p]
    BY DEF ContactForward, Place
  <2> QED  BY <2>1 DEF Inv, Noted
<1> QED  BY <1>9, <1>11, <1>15, <1>16, <1>17, <1>18 DEF Inv

\* What the reverse of 0006 makes of the definitions and of its own rule.
LEMMA ReversedContact ==
    ASSUME Inv, ContactReverse
    PROVE  LET p == before.pk
               k == saved.mark[p].rule
           IN  /\ p \in Contacts /\ p \in 1 .. Len(flags) /\ k \in 1 .. Len(rules)
               /\ flags' \in Seq(FlagRows \cup {Gone}) /\ Len(flags') = Len(flags)
               /\ DOMAIN flags' = 1 .. Len(flags)
               /\ flags'[p] = IF before.contact = Nothing THEN Gone ELSE before.contact
               /\ \A q \in 1 .. Len(flags) : q # p => flags'[q] = flags[q]
               /\ rules' \in Seq(RuleRows \cup {Gone}) /\ Len(rules') = Len(rules)
               /\ DOMAIN rules' = 1 .. Len(rules)
               /\ rules'[k] = IF before.rule = Nothing \/ k \notin Rules THEN Gone
                              ELSE before.rule
               /\ before.rule = Nothing \/ before.rule.flag = p
               /\ \A q \in 1 .. Len(rules) : q # k =>
                     rules'[q] = IF before.contact = Nothing /\ q \in Rules /\ rules[q].flag = p
                                 THEN Gone ELSE rules[q]
<1> DEFINE p == before.pk
           m == saved.mark[p]
           k == m.rule
           S == FlagRows \cup {Gone}
           R == RuleRows \cup {Gone}
<1>1. level = 6 /\ level' = 5
  BY DEF ContactReverse
<1>2. /\ p \in Contacts /\ before.contact = saved.flag[p]
      /\ m \in Marks /\ k \in 1 .. Len(rules)
      /\ m.made => saved.rule[k] = Nothing /\ before.rule = Nothing
      /\ ~m.made => /\ before.rule \in RuleRows /\ before.rule.flag = p
                    /\ before.contact # Nothing /\ saved.rule[k] = before.rule
  BY <1>1 DEF Inv, ContactFound
<1>3. /\ Contacts \subseteq Flags /\ \A q, r \in Contacts : q = r
      /\ Len(flags) \in Nat /\ DOMAIN flags = 1 .. Len(flags) /\ flags \in [1 .. Len(flags) -> S]
      /\ Len(rules) \in Nat /\ DOMAIN rules = 1 .. Len(rules) /\ rules \in [1 .. Len(rules) -> R]
      /\ \A q \in Flags : q \in 1 .. Len(flags)
      /\ \A r \in Rules : r \in 1 .. Len(rules)
      /\ Len(flags) <= MaxFlags /\ MaxFlags \in Nat
  BY TablesType, ContactsMean, Constants DEF Inv, Tables
<1>4. p \in 1 .. Len(flags) /\ p \in 1 .. MaxFlags
  BY <1>2, <1>3
<1>5. (CHOOSE q \in Contacts : TRUE) = p
  BY <1>2, <1>3
<1>6. /\ saved.flag[p] # Nothing =>
           flags' = [flags EXCEPT ![p] = saved.flag[p]] /\ rules' = RuleReversed(p)
      /\ saved.flag[p] = Nothing =>
           flags' = [flags EXCEPT ![p] = Gone] /\ rules' = Cascaded(RuleReversed(p), p)
  BY <1>2, <1>5 DEF ContactReverse
<1> DEFINE New == IF before.contact = Nothing THEN Gone ELSE before.contact
<1>7. New \in S
  BY <1>2, <1>4 DEF Inv, History
<1>8. flags' = [flags EXCEPT ![p] = New]
  BY <1>2, <1>6
<1>9. /\ flags' \in [1 .. Len(flags) -> S] /\ flags'[p] = New
      /\ \A q \in 1 .. Len(flags) : q # p => flags'[q] = flags[q]
  <2> HIDE DEF New, S, p
  <2> QED  BY <1>3, <1>4, <1>7, <1>8
<1>10. flags' \in Seq(S) /\ Len(flags') = Len(flags) /\ DOMAIN flags' = 1 .. Len(flags)
  <2> HIDE DEF S
  <2> QED  BY <1>3, <1>9, Mapped
<1> DEFINE Row == IF before.rule = Nothing \/ k \notin Rules THEN Gone ELSE before.rule
           Back == RuleReversed(p)
<1>11. m # Nothing
  BY <1>2, RuleThere
<1>12. Row \in R /\ (before.rule = Nothing \/ before.rule.flag = p)
  BY <1>2
<1>13. /\ Back \in [1 .. Len(rules) -> R] /\ Back[k] = Row
       /\ \A q \in 1 .. Len(rules) : q # k => Back[q] = rules[q]
  <2>1. CASE k \notin Rules
    <3>1. Back = rules
      BY <2>1 DEF RuleReversed
    <3>2. rules[k] = Gone /\ Row = Gone
      BY <1>2, <1>3, <2>1 DEF Rules
    <3> QED  BY <1>3, <3>1, <3>2
  <2>2. CASE k \in Rules /\ m.made
    <3>1. Back = [rules EXCEPT ![k] = Gone]
      BY <1>2, <1>11, <2>2 DEF RuleReversed
    <3>2. Row = Gone
      BY <1>2, <2>2
    <3> HIDE DEF Row, Back, k
    <3> QED  BY <1>2, <1>3, <3>1, <3>2
  <2>3. CASE k \in Rules /\ ~m.made
    <3>1. saved.rule[k] = before.rule /\ before.rule # Nothing /\ before.rule.flag = p
      BY <1>2, <2>3, RuleThere
    <3>2. Back = [rules EXCEPT ![k] = before.rule]
      BY <1>11, <2>3, <3>1 DEF RuleReversed
    <3>3. Row = before.rule
      BY <2>3, <3>1
    <3> HIDE DEF Row, Back, k
    <3> QED  BY <1>2, <1>3, <1>12, <3>2, <3>3
  <2> QED  BY <2>1, <2>2, <2>3
<1> HIDE DEF Row, Back
<1>14. /\ rules' \in [1 .. Len(rules) -> R] /\ rules'[k] = Row
       /\ \A q \in 1 .. Len(rules) : q # k =>
             rules'[q] = IF before.contact = Nothing /\ q \in Rules /\ rules[q].flag = p
                         THEN Gone ELSE rules[q]
  <2>1. CASE before.contact # Nothing
    <3>1. rules' = Back
      BY <1>2, <1>6, <2>1 DEF Back
    <3> QED  BY <1>13, <2>1, <3>1
  <2>2. CASE before.contact = Nothing
    <3>1. rules' = Cascaded(Back, p)
      BY <1>2, <1>6, <2>2 DEF Back
    <3>2. Row = Gone
      BY <1>2, <2>2 DEF Row
    <3>3. rules' = [r \in 1 .. Len(rules) |->
                       IF Back[r] # Gone /\ Back[r].flag = p THEN Gone ELSE Back[r]]
      BY <1>13, <3>1 DEF Cascaded
    <3>4. \A q \in 1 .. Len(rules) : q \in Rules <=> rules[q] # Gone
      BY <1>3 DEF Rules
    <3> QED  BY <1>2, <1>13, <2>2, <3>2, <3>3, <3>4
  <2> QED  BY <2>1, <2>2
<1>15. rules' \in Seq(R) /\ Len(rules') = Len(rules) /\ DOMAIN rules' = 1 .. Len(rules)
  <2> HIDE DEF R
  <2> QED  BY <1>3, <1>14, Mapped
<1> QED  BY <1>2, <1>4, <1>9, <1>10, <1>12, <1>14, <1>15 DEF Row

\* The reverse of 0006 preserves the invariant.
LEMMA ContactReverseInv == ASSUME Inv, ContactReverse  PROVE Inv'
<1> DEFINE p == before.pk
           k == saved.mark[p].rule
<1>1. level = 6 /\ level' = 5 /\ saved' = saved /\ before' = before
  BY DEF ContactReverse
<1>2. /\ p \in Contacts /\ p \in 1 .. Len(flags) /\ k \in 1 .. Len(rules)
      /\ flags' \in Seq(FlagRows \cup {Gone}) /\ Len(flags') = Len(flags)
      /\ DOMAIN flags' = 1 .. Len(flags)
      /\ rules' \in Seq(RuleRows \cup {Gone}) /\ Len(rules') = Len(rules)
      /\ DOMAIN rules' = 1 .. Len(rules)
  BY ReversedContact
<1>3. /\ flags'[p] = IF before.contact = Nothing THEN Gone ELSE before.contact
      /\ \A q \in 1 .. Len(flags) : q # p => flags'[q] = flags[q]
  BY ReversedContact
<1>4. /\ rules'[k] = IF before.rule = Nothing \/ k \notin Rules THEN Gone ELSE before.rule
      /\ before.rule = Nothing \/ before.rule.flag = p
      /\ \A q \in 1 .. Len(rules) : q # k => rules'[q] = Gone \/ rules'[q] = rules[q]
  BY ReversedContact
<1>5. /\ Tables /\ Keyed /\ p \in Flags
      /\ InUse(flags[p]) /\ flags[p].key = Plain(ContactKey)
      /\ DOMAIN flags = 1 .. Len(flags) /\ DOMAIN rules = 1 .. Len(rules)
      /\ \A q \in Flags : q \in 1 .. Len(flags) /\ flags[q] \in FlagRows
  <2>1. Tables /\ Keyed
    BY DEF Inv
  <2>2. p \in Flags /\ InUse(flags[p])
    BY <1>2, <2>1, ContactsMean
  <2>3. flags[p].key = Plain(ContactKey)
    BY <1>2 DEF Contacts, Holds
  <2> QED  BY <2>1, <2>2, <2>3, TablesType
<1>6. p \in Flags' => flags'[p].key = flags[p].key
  <2>1. ASSUME p \in Flags'  PROVE flags'[p].key = Plain(ContactKey)
    <3>1. before.contact # Nothing /\ flags'[p] = before.contact
      BY <1>3, <2>1 DEF Flags
    <3>2. before.contact = saved.flag[p]
      BY <1>1 DEF Inv, ContactFound
    <3>3. p \in 1 .. MaxFlags
      <4>1. Len(flags) <= MaxFlags /\ Len(flags) \in Nat /\ MaxFlags \in Nat
        BY <1>5, TablesType, Constants DEF Tables
      <4> QED  BY <1>2, <4>1
    <3> QED  BY <3>1, <3>2, <3>3 DEF Inv, History
  <2> QED  BY <1>5, <2>1
<1>7. ASSUME NEW q \in Flags'
      PROVE  q \in Flags /\ flags'[q].key = flags[q].key
  BY <1>2, <1>3, <1>5, <1>6, <1>7 DEF Flags
<1>8. Keyed'
  <2>1. \A q \in Flags' : /\ Formed(flags'[q], q) <=> Formed(flags[q], q)
                          /\ InUse(flags'[q]) <=> InUse(flags[q])
                          /\ Away(flags'[q]) <=> Away(flags[q])
                          /\ flags'[q].key.base = flags[q].key.base
    BY <1>7 DEF Formed, InUse, Away
  <2> QED  BY <1>1, <1>5, <1>7, <2>1 DEF Keyed
<1>9. Tables'
  <2>1. ASSUME NEW q \in Rules'  PROVE rules'[q].flag \in 1 .. Len(flags')
    <3>1. q \in 1 .. Len(rules) /\ rules'[q] # Gone
      BY <1>2, <2>1 DEF Rules
    <3>2. CASE q = k
      BY <1>2, <1>4, <3>1, <3>2
    <3>3. CASE q # k
      <4>1. q \in Rules /\ rules'[q] = rules[q]
        BY <1>4, <1>5, <3>1, <3>3 DEF Rules
      <4> QED  BY <1>2, <1>5, <4>1 DEF Tables
    <3> QED  BY <3>2, <3>3
  <2> QED  BY <1>1, <1>2, <1>5, <2>1 DEF Tables
<1>10. History'
  BY <1>1, <1>2 DEF Inv, History
<1>11. KeptAway'
  <2>1. ASSUME NEW q \in DOMAIN before.flags
        PROVE  q \in Flags' /\ PutAway(flags'[q], before.flags[q])
    <3>1. q \in Flags /\ PutAway(flags[q], before.flags[q])
      BY <1>1, <2>1 DEF Inv, KeptAway
    <3>2. q # p
      BY <1>5, <3>1 DEF PutAway, Away, InUse
    <3>3. flags'[q] = flags[q] /\ q \in 1 .. Len(flags) /\ flags[q] # Gone
      BY <1>3, <1>5, <3>1, <3>2 DEF Flags
    <3> QED  BY <1>2, <3>1, <3>3 DEF Flags
  <2> QED  BY <1>1, <2>1 DEF KeptAway
<1> QED  BY <1>1, <1>8, <1>9, <1>10, <1>11 DEF Inv, ContactFound, Noted

----------------------------------------------------------------------------
(* The theorems.                                                           *)

\* Before the first deployment there is nothing.
LEMMA InitInv == ASSUME Init  PROVE Inv
<1>1. /\ level = 4 /\ flags = <<>> /\ rules = <<>>
      /\ saved = [flag |-> [p \in 1 .. MaxFlags |-> Nothing],
                  mark |-> [p \in 1 .. MaxFlags |-> Nothing],
                  rule |-> [r \in 1 .. MaxRules |-> Nothing]]
      /\ before = [flags |-> <<>>, contact |-> Nothing, rule |-> Nothing, pk |-> 0]
  BY DEF Init
<1>2. /\ flags \in Seq(FlagRows \cup {Gone}) /\ rules \in Seq(RuleRows \cup {Gone})
      /\ Len(flags) = 0 /\ Len(rules) = 0 /\ Flags = {} /\ Rules = {}
  BY <1>1 DEF Flags, Rules
<1>3. Tables
  BY <1>1, <1>2, Constants DEF Tables
<1>4. History
  BY <1>1 DEF History
<1> QED  BY <1>1, <1>2, <1>3, <1>4 DEF Inv, Keyed, KeptAway, ContactFound, Noted

\* Every step preserves the invariant.
LEMMA NextInv == ASSUME Inv, [Next]_vars  PROVE Inv'
<1>1. CASE ResetForward
  BY <1>1, ResetForwardInv
<1>2. CASE ResetReverse
  BY <1>2, ResetReverseInv
<1>3. CASE ContactForward
  BY <1>3, ContactForwardInv
<1>4. CASE ContactReverse
  BY <1>4, ContactReverseInv
<1>5. CASE \E force \in BOOLEAN : Sync(force)
  BY <1>5, SyncStep, EditStepInv
<1>6. CASE AddRule \/ EditRule \/ DeleteRule
  BY <1>6, RuleEdits, EditStepInv
<1>7. CASE EarlierRelease
  BY <1>7, EarlierReleaseStep, EditStepInv
<1>8. CASE UNCHANGED vars
  BY <1>8 DEF vars, Inv, Tables, History, Keyed, KeptAway, ContactFound, Noted, Flags, Rules,
              Contacts, Holds, Formed, InUse, Away, PutAway
<1> QED  BY <1>1, <1>2, <1>3, <1>4, <1>5, <1>6, <1>7, <1>8 DEF Next

\* Through every series of deployments, rollbacks and edits the tables have their types
\* and the keys their form, what 0005 put away stays as it left it, and the history rows
\* of 0006 say what it found.
THEOREM Invariance == Spec => []Inv
<1>1. Init => Inv
  BY InitInv
<1>2. Inv /\ [Next]_vars => Inv'
  BY NextInv
<1> QED  BY <1>1, <1>2, PTL DEF Spec

\* No two definitions ever want one key: the unique index stops no deployment and no
\* rollback half-way.
THEOREM KeysStayUnique == Spec => []UniqueKeys
<1>1. Inv => UniqueKeys
  <2>1. ASSUME Inv, NEW p \in Flags, NEW q \in Flags, flags[p].key = flags[q].key
        PROVE  p = q
    <3>1. Formed(flags[p], p) /\ Formed(flags[q], q)
      BY <2>1 DEF Inv, Keyed
    <3>2. CASE InUse(flags[p])
      BY <2>1, <3>2 DEF Inv, Keyed, InUse
    <3>3. CASE ~InUse(flags[p])
      BY <2>1, <3>1, <3>3 DEF Formed, InUse
    <3> QED  BY <3>2, <3>3
  <2> QED  BY <2>1 DEF UniqueKeys
<1> QED  BY <1>1, Invariance, PTL

\* Only the rollback of 0005 takes the database from its level to the one before, and
\* only the rollback of 0006 from the last.
LEMMA Rollbacks ==
    ASSUME Inv, [Next]_vars
    PROVE  /\ level = 5 /\ level' = 4 => ResetReverse
           /\ level = 6 /\ level' = 5 => ContactReverse
<1>1. CASE ResetForward
  <2>1. level = 4 /\ level' = 5
    BY <1>1 DEF ResetForward
  <2> QED  BY <2>1
<1>8. CASE ResetReverse
  <2>1. level = 5 /\ level' = 4
    BY <1>8 DEF ResetReverse
  <2> QED  BY <1>8, <2>1
<1>2. CASE ContactForward
  <2>1. level = 5 /\ level' = 6
    BY <1>2 DEF ContactForward
  <2> QED  BY <2>1
<1>3. CASE ContactReverse
  <2>1. level = 6 /\ level' = 5
    BY <1>3 DEF ContactReverse
  <2> QED  BY <1>3, <2>1
<1>4. CASE \E force \in BOOLEAN : Sync(force)
  BY <1>4, SyncStep DEF EditStep
<1>5. CASE AddRule \/ EditRule \/ DeleteRule
  BY <1>5, RuleEdits DEF EditStep
<1>6. CASE EarlierRelease
  BY <1>6, EarlierReleaseStep DEF EditStep
<1>7. CASE UNCHANGED vars
  BY <1>7 DEF vars
<1> QED  BY <1>1, <1>2, <1>3, <1>4, <1>5, <1>6, <1>7, <1>8 DEF Next

\* Rolling 0005 back gives every definition that it had put away back as it was found,
\* for any definitions and any series of steps in between.
THEOREM FlagsComeBack == Spec => FlagsRestored
<1>1. ASSUME Inv, [Next]_vars, level = 5, level' = 4, NEW p \in DOMAIN before.flags
      PROVE  flags'[p] = before.flags[p]
  <2> DEFINE b == before.flags[p]
  <2>1. ResetReverse
    BY <1>1, Rollbacks
  <2>2. p \in Flags /\ PutAway(flags[p], b)
    BY <1>1 DEF Inv, KeptAway
  <2>3. /\ flags'[p] \in FlagRows /\ flags'[p].key = Plain(flags[p].key.base)
        /\ flags'[p].active = flags[p].key.active
        /\ flags'[p].default = flags[p].default /\ flags'[p].about = flags[p].about
    BY <1>1, <2>1, <2>2, ReversedRows DEF PutAway
  <2>4. /\ b \in FlagRows /\ b.key \in KeyRecords /\ b.key.prefix = "none"
        /\ b.key.active = FALSE /\ b.key.pk = 0 /\ flags[p].key.base = b.key.base
        /\ flags[p].key.active = b.active
        /\ flags[p].default = b.default /\ flags[p].about = b.about
    <3>1. b \in FlagRows /\ InUse(b) /\ b.key.active = FALSE /\ b.key.pk = 0
          /\ flags[p].key.base = b.key.base /\ flags[p].key.active = b.active
          /\ flags[p].default = b.default /\ flags[p].about = b.about
      BY <2>2 DEF PutAway
    <3> HIDE DEF b
    <3> QED  BY <3>1 DEF FlagRows, InUse
  <2> HIDE DEF b
  <2>5. flags'[p].key = b.key
    <3>1. b.key.base \in Bases
      BY <2>4 DEF KeyRecords
    <3>2. /\ Plain(b.key.base) \in KeyRecords /\ Plain(b.key.base).prefix = "none"
          /\ Plain(b.key.base).base = b.key.base /\ Plain(b.key.base).active = FALSE
          /\ Plain(b.key.base).pk = 0
      BY <3>1, SeededRow DEF Plain
    <3>3. Plain(b.key.base) = b.key
      BY <2>4, <3>2, KeyEqual
    <3> QED  BY <2>3, <2>4, <3>3
  <2>6. flags'[p].active = b.active /\ flags'[p].default = b.default /\ flags'[p].about = b.about
    BY <2>3, <2>4
  <2>7. flags'[p] = b
    BY <2>3, <2>4, <2>5, <2>6, RowEqual
  <2> QED  BY <2>7 DEF b
<1>2. Inv /\ [Next]_vars =>
         [level = 5 /\ level' = 4 =>
             \A p \in DOMAIN before.flags : flags'[p] = before.flags[p]]_vars
  BY <1>1
<1> QED  BY <1>2, Invariance, PTL DEF Spec, FlagsRestored

\* Rolling 0006 back gives the contact page's definition and its rule back as they were
\* found, removes what it made itself, and touches no other rule.
THEOREM ContactComesBack == Spec => ContactRestored
<1> DEFINE p == before.pk
           r == saved.mark[p].rule
           Restored == /\ flags'[p] = IF before.contact = Nothing THEN Gone ELSE before.contact
                       /\ rules'[r] = IF before.rule = Nothing \/ r \notin Rules THEN Gone
                                      ELSE before.rule
                       /\ \A q \in Rules \ {r} :
                             rules'[q] = IF before.contact = Nothing /\ rules[q].flag = p
                                         THEN Gone ELSE rules[q]
<1>1. ASSUME Inv, [Next]_vars, level = 6, level' = 5  PROVE Restored
  <2>1. ContactReverse
    BY <1>1, Rollbacks
  <2>2. /\ flags'[p] = IF before.contact = Nothing THEN Gone ELSE before.contact
        /\ rules'[r] = IF before.rule = Nothing \/ r \notin Rules THEN Gone ELSE before.rule
        /\ \A q \in 1 .. Len(rules) : q # r =>
              rules'[q] = IF before.contact = Nothing /\ q \in Rules /\ rules[q].flag = p
                          THEN Gone ELSE rules[q]
    BY <1>1, <2>1, ReversedContact
  <2>3. \A q \in Rules : q \in 1 .. Len(rules)
    BY <1>1, TablesType DEF Inv
  <2> QED  BY <2>2, <2>3
<1>2. Inv /\ [Next]_vars => [level = 6 /\ level' = 5 => Restored]_vars
  BY <1>1
<1> QED  BY <1>2, Invariance, PTL DEF Spec, ContactRestored
=============================================================================

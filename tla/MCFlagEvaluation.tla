-------------------------- MODULE MCFlagEvaluation --------------------------
(* Instances of FlagEvaluation: a guarded flag of all pages, a guarded flag that may be   *)
(* public, and a boolean that may be sticky.                                              *)
EXTENDS FlagEvaluation, TLC

CONSTANTS b1, b2, header, contact, ui, ann, bob, guest, testers, others,
          ContactPage, AccountPage

Design == [variants |-> {"legacy", "v2"}, default |-> "legacy", audiences |-> {"group"},
           required |-> testers, guarded |-> "v2", safe |-> "legacy", preview |-> TRUE,
           public |-> FALSE, sticky |-> FALSE]

MCPolicy ==
    header :> Design
    @@ contact :> [Design EXCEPT !.audiences = @ \union {"everyone"}, !.public = TRUE]
    @@ ui :> [variants |-> {"on", "off"}, default |-> "off", audiences |-> Audiences,
              required |-> NoSlug, guarded |-> NoValue, safe |-> NoValue, preview |-> TRUE,
              public |-> TRUE, sticky |-> TRUE]

MCKeysOf == ContactPage :> <<contact, header>> @@ AccountPage :> <<ui>>
MCViewerKeys == <<ui>>
MCBucketOf == [x \in Flags \X Pages \X (Users \union Anons) |-> IF x[3] = bob THEN 70 ELSE 20]
\* Ann's browser was the guest's before she logged in.
MCAnonOf == [u \in Users |-> IF u = ann /\ guest \in Anons THEN guest ELSE Nobody]
MCPreviews == {header :> "v2", ui :> "on"}

Rule(f, audience, v) ==
    [flag |-> f, enabled |-> TRUE, page |-> AnyPage, audience |-> audience, groups |-> {},
     actors |-> {}, share |-> 0, value |-> v, priority |-> 1]

ForTesters(f) == [Rule(f, "group", "v2") EXCEPT !.groups = {1}]

\* Rules that operators may add or turn others into.
MCCatalogue ==
    {ForTesters(header), Rule(contact, "everyone", "v2"),
     [Rule(ui, "authenticated", "off") EXCEPT !.priority = 0]}

\* And those that are only in the initial settings.
Shapes ==
    MCCatalogue \union
    {Rule(ui, "everyone", "on"),
     [ForTesters(header) EXCEPT !.page = ContactPage],
     [ForTesters(contact) EXCEPT !.groups = {1, 2}],
     [ForTesters(header) EXCEPT !.groups = {2}], Rule(header, "everyone", "v2"),
     Rule(header, "staff", "v2"), Rule(ui, "staff", "on"),
     [Rule(ui, "percentage", "on") EXCEPT !.share = 50],
     [Rule(ui, "denylist", "on") EXCEPT !.actors = {bob}, !.priority = 0],
     [Rule(ui, "allowlist", "on") EXCEPT !.actors = {guest}, !.priority = 0],
     [Rule(ui, "everyone", "gone") EXCEPT !.priority = 0]}

ShapesOf(f) == {row \in Shapes : row.flag = f}

Empty ==
    [active |-> [f \in Flags |-> TRUE], sticky |-> [f \in Flags |-> f = ui],
     default |-> [f \in Flags |-> IF f = ui THEN "on" ELSE "v2"],
     rules |-> <<>>,
     over |-> <<>>,
     slug |-> 1 :> testers @@ 2 :> others @@ 3 :> NoSlug,
     members |-> 1 :> {ann} @@ 2 :> {bob} \intersect Users @@ 3 :> {},
     staff |-> {bob} \intersect Users, assigned |-> <<>>]

\* Two rules of any shape for a flag, an override or an assignment, and nothing changes.
Still == UNION {
    {[db |-> [Empty EXCEPT !.rules = <<x, y>>, !.over = o,
                           !.assigned = a],
      edits |-> 0, requests |-> 1] :
        x \in ShapesOf(f), y \in ShapesOf(f),
        o \in {<<>>, <<header, "global">> :> "v2" @@ <<ui, "global">> :> "off",
               <<ui, ann>> :> "gone" @@ <<ui, guest>> :> "on" @@ <<contact, "global">> :> "legacy"},
        a \in {<<>>, <<ui, ann, AccountPage>> :> "off", <<ui, ann, AccountPage>> :> "gone"}} :
    f \in Flags}

\* A flag of each kind is rolled out, and operators change something.
Rolled == [Empty EXCEPT !.rules = <<ForTesters(header), Rule(ui, "everyone", "on")>>]

Changing == {[db |-> Rolled, edits |-> 2, requests |-> 1]}
Racing == {[db |-> [Empty EXCEPT !.rules = <<Rule(ui, "everyone", "on")>>,
                                 !.active = [f \in Flags |-> f = ui]],
            edits |-> 1, requests |-> 2]}

Swapped == Permutations(Browsers)

MCSettings == Still \union Changing \union Racing

\* A boolean that is off by default is rolled out below an emergency override that holds it
\* off, and operators take both away.
Covered == {[db |-> [Empty EXCEPT !.rules = <<Rule(ui, "everyone", "on")>>,
                                  !.over = <<ui, "global">> :> "off",
                                  !.default[ui] = "off", !.sticky[ui] = FALSE],
             edits |-> 2, requests |-> 1]}
NoRules == {}

=============================================================================

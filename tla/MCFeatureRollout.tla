------------------------- MODULE MCFeatureRollout -------------------------
(* Instances of FeatureRollout for TLC. *)
EXTENDS FeatureRollout, TLC

CONSTANTS o1, o2, design, plain, contact, testers, r1, r2, r3

\* A flag that only the design testers may get, and a boolean flag for anyone.
MCPagesOf == [f \in Flags |-> IF f = plain THEN {AnyPage, contact} ELSE {contact}]
MCAudiencesOf == [f \in Flags |-> IF f = plain THEN {"group", "everyone"} ELSE {"group"}]
MCRequiredGroup == [f \in Flags |-> IF f = plain THEN NoGroup ELSE testers]
MCGuarded == Flags \ {plain}

Content(f, p, a, g) == [flag |-> f, page |-> p, audience |-> a, groups |-> g]

\* For a page and for all pages, for a group and for everyone.
PageForms == {Content(plain, contact, "group", {testers}),
              Content(plain, AnyPage, "everyone", {})}

OneForm == {Content(plain, contact, "group", {testers})}

NoSeed == [r \in {} |-> Content(plain, AnyPage, "everyone", {})]
TesterSeed == [r \in {r1} |-> Content(design, contact, "group", {testers})]
DesignForms == {Content(design, contact, "group", {testers})}

Symmetry == Permutations(Rules) \union Permutations(Ops)
=============================================================================

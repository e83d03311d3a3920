---------------------------- MODULE MCAdminLogin ----------------------------
(* AdminLogin with small constants. *)
EXTENDS AdminLogin, TLC

CONSTANTS r1, r2, b1, b2, a1, a2

MCAddressOf == (b1 :> a1) @@ (b2 :> a2)

Budget(p, a, o, g, c, t) ==
    [passwords |-> p, attempts |-> a, options |-> o, pages |-> g, changes |-> c, ticks |-> t]

\* Guesses; codes of two flows and changes; pages, changes and time; options.
MCBudgets == {Budget(1, 4, 0, 0, 0, 2), Budget(2, 2, 0, 0, 1, 0), Budget(1, 1, 0, 2, 2, 1),
              Budget(1, 1, 2, 1, 0, 1)}

Symmetry == Permutations({r1, r2})
=============================================================================

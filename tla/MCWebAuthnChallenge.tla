------------------------ MODULE MCWebAuthnChallenge ------------------------
(* Instances of WebAuthnChallenge for TLC. *)
EXTENDS WebAuthnChallenge, TLC

CONSTANTS w1, w2

\* Requests in progress are interchangeable.
Symmetry == Permutations(Workers)
=============================================================================

--------------------------- MODULE MCAuthSessions ---------------------------
(* Instances of AuthSessions for TLC.  Keys 1 and 2 are session tokens; 3 and 4 are   *)
(* cookies: 3 an OAuth redirect's or a password change's, 4 a second password change's. *)
EXTENDS AuthSessions, TLC

CONSTANTS w1, w2

\* Requests in progress are interchangeable.
Symmetry == Permutations(Workers)

\* One browser holds token 1 with or without a cookie, another one token 2 alone.
TwoBrowsers == {<<1, 0>>, <<1, 3>>, <<2, 0>>}
\* One browser that signs in again, and keeps its cookie.
SignInAgain == {<<1, 0>>, <<1, 3>>, <<2, 3>>}
OneToken == {<<1, 0>>, <<1, 2>>}
=============================================================================

-------------------------- MODULE OneUseChallenge --------------------------
(***************************************************************************)
(* What WebAuthnOriginValidationMiddleware promises of a challenge: it is  *)
(* issued for one purpose and one subject; completions pass for those      *)
(* only, if they found it in its lifetime; and its first claim bars all    *)
(* others for a lifetime, less the rounding of a second.                   *)
(*                                                                         *)
(* The first claim expires later than the challenge, but only by the time  *)
(* from the issue to the claim.  A completion that found the challenge in  *)
(* its lifetime, and takes longer than that to claim it, is not barred.    *)
(***************************************************************************)
EXTENDS Integers, Sequences

CONSTANTS
    Ceremonies,   \* challenges
    TTL,          \* WEBAUTHN_CHALLENGE_TTL_SECONDS
    Second        \* ticks per second

VARIABLES
    now,
    issued,    \* the metadata of each challenge
    claimed,   \* the date of its first claim
    passes     \* the completions that it let pass

Init ==
    /\ now = 1
    /\ issued = [c \in Ceremonies |-> [purpose |-> "none", subject |-> 0, binding |-> 0, at |-> 0]]
    /\ claimed = [c \in Ceremonies |-> 0]
    /\ passes = [c \in Ceremonies |-> <<>>]

\* The metadata of a challenge is written once.
Issue(c) ==
    /\ issued[c].at = 0
    /\ issued' = [issued EXCEPT ![c] = issued'[c]]
    /\ issued'[c].at = now
    /\ UNCHANGED <<now, claimed, passes>>

\* A claim by a completion that found the challenge alive at the time checked.
Claim(c, checked) ==
    /\ issued[c].at # 0
    /\ issued[c].at <= checked /\ checked <= issued[c].at + TTL
    /\ \/ /\ claimed[c] = 0
          /\ \E t \in checked .. now : claimed' = [claimed EXCEPT ![c] = t]
       \/ /\ claimed[c] # 0 /\ now > claimed[c] + TTL - Second
          /\ UNCHANGED claimed

Pass(c, checked) ==
    /\ Claim(c, checked)
    /\ passes' = [passes EXCEPT ![c] = Append(@,
            [purpose |-> issued[c].purpose, subject |-> issued[c].subject,
             checked |-> checked, at |-> now])]
    /\ UNCHANGED <<now, issued>>

Refuse(c, checked) == Claim(c, checked) /\ UNCHANGED <<now, issued, passes>>

Tick == now' = now + 1 /\ UNCHANGED <<issued, claimed, passes>>

Next ==
    \/ Tick
    \/ \E c \in Ceremonies : Issue(c)
    \/ \E c \in Ceremonies : \E checked \in 1 .. now : Pass(c, checked) \/ Refuse(c, checked)

Spec == Init /\ [][Next]_<<now, issued, claimed, passes>>
=============================================================================

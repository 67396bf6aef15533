------------------------------ MODULE MCAuthGate ------------------------------
(* Small instance of AuthGate for TLC.                                      *)
EXTENDS AuthGate, TLC

CONSTANTS c1, c2, acme, j1

\* Two tokens without a jti, which share one session and of which one outlives
\* the other, and a token that does not validate.
SomeTokens ==
    {[tenant |-> acme, jti |-> {}, exp |-> 1, genuine |-> TRUE],
     [tenant |-> acme, jti |-> {}, exp |-> 3, genuine |-> TRUE],
     [tenant |-> acme, jti |-> {j1}, exp |-> 3, genuine |-> FALSE]}

CallSymmetry == Permutations(Calls)
=============================================================================

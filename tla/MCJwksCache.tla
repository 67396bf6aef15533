----------------------------- MODULE MCJwksCache -----------------------------
(* Small instance of JwksCache for TLC.                                     *)
EXTENDS JwksCache, TLC

CONSTANTS c1, c2, k1, k2
=============================================================================

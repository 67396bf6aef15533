----------------------------- MODULE MCMergePatch -----------------------------
(* Small instance of MergePatch for TLC.                                    *)
EXTENDS MergePatch, TLC

CONSTANTS a, b, x, y
=============================================================================

-------------------------- MODULE MCMeteredBilling --------------------------
(* Instances of MeteredBilling for TLC.                                    *)
EXTENDS MeteredBilling, TLC

CONSTANTS s1, s2, s3, k1, k2

\* Handlers are interchangeable: they differ only in what they do.
SessionSymmetry == Permutations(Sessions)
=============================================================================

--------------------------- MODULE MCRuntimeBuild ---------------------------
(* Instances of RuntimeBuild for TLC.                                      *)
EXTENDS RuntimeBuild

CONSTANTS w1, w2, w3

\* Every hazard on its own, and none.
EachHazard == {{}} \cup {{h} : h \in HazardKinds}
=============================================================================

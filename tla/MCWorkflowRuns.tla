--------------------------- MODULE MCWorkflowRuns ---------------------------
(* Instances of WorkflowRuns for TLC.                                      *)
EXTENDS WorkflowRuns

CONSTANTS u1, u2

\* Every hazard on its own, and none.
EachHazard == {{}} \cup {{h} : h \in HazardKinds}
NoHazard   == {{}}

\* The write comes first, last, alone, twice or not at all.
SomePlans == {<<"note">>, <<"read", "write">>, <<"write", "read">>, <<"write", "write">>}
OnePlan   == {<<"write">>}
=============================================================================

------------------------- MODULE MCWorkflowSchedule -------------------------
(* Instances of WorkflowSchedule for TLC.                                  *)
EXTENDS WorkflowSchedule

CONSTANTS t1, t2, e1, e2

\* Every hazard on its own, and none.
EachHazard == {{}} \cup {{h} : h \in HazardKinds}
=============================================================================

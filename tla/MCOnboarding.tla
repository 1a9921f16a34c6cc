---------------------------- MODULE MCOnboarding ----------------------------
(* Instances of Onboarding for TLC.                                        *)
EXTENDS Onboarding

CONSTANTS q1, q2, k1, k2, p1, p2, n1, n2

EachHazard == {{}} \cup {{h} : h \in HazardKinds}
Late       == {{"late"}}

\* Two drafts where drafts are replaced, one where a conversation is at stake.
FewDrafts == [h \in EachHazard |-> IF h \cap {"race", "late"} = {} THEN 2 ELSE 1]
OneDraft  == [h \in Late |-> 1]

\* Nothing, or three questions of which one more than may be asked is new.
SomeOpen == {{}, {"primary_function", "connection_ownership", "external_retrieval_policy"}}
=============================================================================

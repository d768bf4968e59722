---------------------------- MODULE MCArtifactStore ----------------------------
(* TLC instances of ArtifactStore. *)
EXTENDS ArtifactStore

C(name, status) == [name |-> name, status |-> status, decision |-> "pending"]

\* Two discoveries that number their claims differently.
MCTwoAudits == {<<C("tier", "verified"), C("tz", "rejected")>>,
                <<C("tz", "rejected")>>}
MCOneAudit == {<<C("tier", "verified"), C("tz", "rejected")>>}
=============================================================================

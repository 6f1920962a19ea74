------------------------ MODULE MCAuthorityResolution ------------------------
(* A grant and either the approval given for one of its revisions, or an    *)
(* evidence obligation.                                                     *)
EXTENDS AuthorityResolution, TLC

CONSTANTS v1, v2, v0

Symmetry == Permutations({v1, v2})

MCInputs == {"grant", "approval", "evidence"}
MCNeeds == {{"approval"}, {"evidence"}}
MCVersions == [i \in Inputs |-> IF i = "evidence" THEN {v0} ELSE {v1, v2}]
MCBoundTo == [i \in Inputs |-> IF i = "approval" THEN "grant" ELSE i]
MCMaxAge == [i \in Inputs |-> 0]
MCObligations == {[required |-> TRUE, authorization |-> TRUE, holdEffect |-> TRUE],
                  [required |-> FALSE, authorization |-> FALSE, holdEffect |-> TRUE]}
==============================================================================

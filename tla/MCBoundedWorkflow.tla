-------------------------- MODULE MCBoundedWorkflow --------------------------
(* One or two callers, a grant and a policy with two versions each. *)
EXTENDS BoundedWorkflow, TLC

CONSTANTS c1, c2, p1, p2, v1, v2

MCInputOrder == <<"grant", "policy">>
OneInput == <<"grant">>
MCCallers == {c1, c2}
MCProposals == {p1, p2}
OneCaller == {c1}
OneProposal == {p1}
MCVersions == {v1, v2}
OneVersion == {v1}
Symmetry == Permutations(MCCallers) \cup Permutations(MCProposals) \cup Permutations(MCVersions)
==============================================================================

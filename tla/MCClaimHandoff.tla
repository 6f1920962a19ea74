---------------------------- MODULE MCClaimHandoff ----------------------------
(* Two issuers; an identity only _resolve insists on, a grant, a policy     *)
(* whose version in the snapshot's context nothing compares, and an         *)
(* obligation only the snapshot insists on.                                 *)
EXTENDS ClaimHandoff

CONSTANTS c1, c2

MCIssuers == {c1, c2}
MCInputOrder == <<"identity", "grant", "policy", "evidence">>
MCResolved == {"identity", "grant", "policy"}
MCProjected == {"grant", "policy", "evidence"}
MCBound == {"grant", "policy", "evidence"}
MCMatched == {"grant", "evidence"}
==============================================================================

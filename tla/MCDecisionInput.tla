---------------------------- MODULE MCDecisionInput ----------------------------
(* A pinned and an operational obligation, and evidence of every kind.       *)
EXTENDS DecisionInput, TLC

CONSTANTS o1, o2, s1, s2, law, memo, a, b

MCPolicy(ref, version) == [ref |-> ref, version |-> version]

MCPolicies == {MCPolicy(law, 1), MCPolicy(law, 2), MCPolicy(memo, 1)}

MCPayload(required, source, maxAge, origin) ==
    [required |-> required, source |-> source, maxAge |-> maxAge, origin |-> origin]

Strict == MCPayload(TRUE, s1, 1, MCPolicy(law, 1))

\* As issued; optional and of the policy's next version; of another source, age
\* and policy.
MCPayloads == {Strict, MCPayload(FALSE, s1, 1, MCPolicy(law, 2)),
               MCPayload(TRUE, s2, 0, MCPolicy(memo, 1))}

MCIssued == (o1 :> Strict) @@ (o2 :> None)

MCItem(for, source, observed, state, content) ==
    [for |-> for, source |-> source, observed |-> observed, state |-> state,
     content |-> content]

MCItems == {
    MCItem({o1}, s1, 0, "current", a),
    MCItem({o1}, s1, 2, "current", a),
    MCItem({o1}, s1, 1, "current", b),
    MCItem({o1, o2}, s1, 1, "current", a),
    MCItem({o1}, s1, 1, "unknown", a),
    MCItem({o1}, s1, 0, "conflict", a),
    MCItem({o2}, s2, 2, "current", a)}
==============================================================================

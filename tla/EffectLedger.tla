----------------------------- MODULE EffectLedger -----------------------------
(***************************************************************************)
(* What LocalRefundDestination promises (docs/bounded_authorization_effect *)
(* .md, "Limit semantics"): an effect is committed at most once, as the    *)
(* first request for it says, and never changes again; the effects of one  *)
(* grant never outnumber the limit their requests carry.                   *)
(***************************************************************************)
EXTENDS Naturals, FiniteSets

CONSTANTS Effects,
          Grants,
          GrantOf,      \* [Effects -> Grants]: what an effect is counted against
          LimitOf       \* [Effects -> Nat]: max_effects of the requests for an effect

VARIABLE ledger         \* per effect, "absent" or the kind it was committed as

Kinds == {"applied", "partial"}

Used(g) == {e \in Effects : GrantOf[e] = g /\ ledger[e] # "absent"}

LedgerTypeOK == ledger \in [Effects -> {"absent"} \cup Kinds]

Init == ledger = [e \in Effects |-> "absent"]

Commit(e, kind) == /\ ledger[e] = "absent"
                   /\ Cardinality(Used(GrantOf[e])) < LimitOf[e]
                   /\ ledger' = [ledger EXCEPT ![e] = kind]

Next == \E e \in Effects, kind \in Kinds : Commit(e, kind)

Spec == Init /\ [][Next]_ledger

\* The last request committed for a grant found room under its own limit.
WithinLimit ==
    \A g \in Grants : Used(g) # {} =>
        \E e \in Used(g) : Cardinality(Used(g)) =< LimitOf[e]
==============================================================================

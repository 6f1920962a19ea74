------------------------- MODULE MCRefundDestination -------------------------
(* Two threads, three effects of one grant requested with different limits. *)
EXTENDS RefundDestination

CONSTANTS t1, t2, e1, e2, e3, g1

MCThreads == {t1, t2}
MCEffects == {e1, e2, e3}
MCGrants == {g1}
MCGrantOf == [e \in MCEffects |-> g1]
MCLimitOf == [e \in MCEffects |-> IF e = e1 THEN 1 ELSE 2]
===============================================================================

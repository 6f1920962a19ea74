------------------------------- MODULE MCAgtGate -------------------------------
(* Two evaluations of one proposal object that its owner edits meanwhile.   *)
EXTENDS AgtGate, TLC

Symmetry == Permutations(Calls) \cup Permutations(Payloads) \cup Permutations(Terms)
==============================================================================

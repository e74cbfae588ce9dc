---------------------------- MODULE MCPlanLedger ----------------------------
(* Payment records and tellers are interchangeable. *)
EXTENDS PlanLedger

Symmetric == Permutations(Payments) \cup Permutations(Tellers)

=============================================================================

---------------------------- MODULE MCApprovalGate ---------------------------
(* The instance of the run gate: two conversations, two turns of which one   *)
(* runs its tools side by side, two calls.  No symmetry: liveness.           *)
EXTENDS ApprovalGate
==============================================================================

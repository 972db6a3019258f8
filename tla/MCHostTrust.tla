----------------------------- MODULE MCHostTrust -----------------------------
(* Symmetry of the TLC runs of HostTrust; keys are ordered, so they have none. *)
EXTENDS HostTrust, TLC

MCSymmetry == Permutations(Hosts) \cup Permutations(Handlers)
==============================================================================

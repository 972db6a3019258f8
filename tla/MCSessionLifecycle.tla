-------------------------- MODULE MCSessionLifecycle -------------------------
(* The instance of the run session: one session, one port, two callers who  *)
(* open, close and reconnect it.  No symmetry: the run checks liveness.     *)
EXTENDS SessionLifecycle
==============================================================================

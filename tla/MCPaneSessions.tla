--------------------------- MODULE MCPaneSessions ----------------------------
(* Two sessions, with the bounds on clicks, output and restarts of the cfg. *)
EXTENDS PaneSessions
=============================================================================

--------------------------- MODULE MCSessionStream ---------------------------
(* A session with two connections, two reading handlers and three secrets. *)
EXTENDS SessionStream

CONSTANTS s1, s2, s3

MCSecretIn == <<s1, s2, s3>>
=============================================================================

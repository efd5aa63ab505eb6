--------------------------- MODULE MCLogProviders ---------------------------
(* LogProviders on a small instance: two streams and one slot of the helper. *)
EXTENDS LogProviders
=============================================================================

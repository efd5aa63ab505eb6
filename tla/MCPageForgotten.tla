-------------------------- MODULE MCPageForgotten ---------------------------
(* PageSession by itself: what the page makes of a session that is gone. *)
EXTENDS PageSession
=============================================================================

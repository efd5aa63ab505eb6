----------------------------- MODULE MCLogView ------------------------------
(* LogView on a small instance. *)
EXTENDS LogView, TLC
=============================================================================

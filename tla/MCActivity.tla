----------------------------- MODULE MCActivity -----------------------------
(* Activity on small instances. *)
EXTENDS Activity, TLC

Symmetry == Permutations(Requests)
=============================================================================
